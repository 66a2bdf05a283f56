SPECIFICATION Spec
CONSTANTS
  Cwd <- Base0
  RipMeDir <- RipMe0
  Names = {"a:b", "a_b"}
  Gids = {"g1", "g2"}
  Host = "h"
  Folder <- MCFolder
  filesystemSafe <- MCFilesystemSafe
  sanitizedFilename <- MCSanitized
  StartsWith <- MCStartsWith
  Second <- MCSecond
  Places <- MCPlaces
  Urls <- MCUrls
  Entries <- MCEntries
  MaxEntries = 2
  MaxTime = 3
  Cap = 3
  View = 2
  Rooms = {5}
  Texts = {"starting", "loading", "loadError", "loaded", "listening", "listenError", "other"}
  MaxLines = 7
  MaxOthers = 2
  Setups <- MCSetups
  Edits <- MCEdits
CONSTRAINT OneSideAtATime
INVARIANTS EveryEntryNamesItsFile
CHECK_DEADLOCK FALSE
