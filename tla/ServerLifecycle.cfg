SPECIFICATION FairSpec
CONSTANTS
  Servers = 2
  Conns = {c1}
INVARIANTS TypeOK DbOutlivesHandlers ReadyMeansListening
PROPERTIES StoppedNeverServes KnownFilesAreStable StopReleasesThePort
CHECK_DEADLOCK FALSE
