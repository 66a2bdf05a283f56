-------------------------------- MODULE Config --------------------------------
(***************************************************************************)
(* From the environment, the flags and RipMe's rip.properties to the       *)
(* configuration of a server (internal/server/config.go), from there to    *)
(* the connection strings of its databases (db.go), and the round trip the *)
(* configuration makes through the text fields of the panel (gui_gio.go).  *)
(*                                                                         *)
(* A path is a sequence of names, absolute or relative to the directory    *)
(* the process runs in; "." and ".." are taken to be cleaned away.  A      *)
(* connection string is a file with the sequence of its parameters.        *)
(***************************************************************************)
EXTENDS Integers, Sequences

CONSTANTS
  Cwd,     \* the names of the directory the process runs in
  RipMeDir \* the names of RipMe's own directory

ASSUME ConfigAssumption == Cwd \in Seq(STRING) /\ RipMeDir \in Seq(STRING)
\* True of every literal, which the provers do not know.
ASSUME LiteralAssumption == "dflog" \in STRING

Path == [abs : BOOLEAN, at : Seq(STRING)]
Absolute(names) == [abs |-> TRUE, at |-> names]
Relative(names) == [abs |-> FALSE, at |-> names]
\* The empty path: a variable that is not set.
Unset == Relative(<<>>)

\* filepath.Join, Abs, Dir and Base.
Join(p, q) == [p EXCEPT !.at = @ \o q.at]
Resolved(p) == IF p.abs THEN p ELSE Join(Absolute(Cwd), p)
Dir(p) == [p EXCEPT !.at = SubSeq(@, 1, Len(@) - 1)]
Base(p) == p.at[Len(p.at)]

\* GetValueDefault
ValueOr(value, none, default) == IF value = none THEN default ELSE value

-----------------------------------------------------------------------------
(***************************************************************************)
(* A setup s is what a process finds: s.env, the variables; s.flag, -ro or *)
(* -rw; s.properties, the directories with a rip.properties, and s.rips,   *)
(* the rips.directory it names, Unset when it names none (one without a    *)
(* value is left out).  SLOW_SQL_MS is the set of the number it spells,    *)
(* empty when it spells none.  RO is "1" for each word that means yes.     *)
(***************************************************************************)
Connection == [file : Path, query : Seq(STRING)]
Environment ==
  [BIND : STRING, SQLITE_DSN : Connection, MEDIA_ROOT : Path, DFLOG : Path,
   DFLOG_ROOT : Path, RO : STRING, SLOW_SQL_MS : SUBSET Int, CORS_ORIGINS : STRING]
Setup ==
  [env : Environment, flag : {"unset", "ro", "rw"},
   properties : SUBSET {"cwd", "ripme"}, rips : Path]

Dirs(s) ==
  IF "cwd" \in s.properties THEN Absolute(Cwd)
  ELSE IF "ripme" \in s.properties THEN Absolute(RipMeDir) ELSE Relative(<<>>)

\* parseRipMeConfig
RipsDir(s) == IF s.properties = {} THEN Relative(<<"rips">>)
              ELSE ValueOr(s.rips, Unset, Relative(<<"rips">>))

getDefaultDfLogRoot(path) == Dir(Resolved(path))

\* The flags come first, then the environment.
shouldRunReadOnly(s) ==
  IF s.flag # "unset" THEN s.flag = "ro" ELSE s.env.RO = "1"

GetServerConfig(s) ==
  LET dfLog == ValueOr(s.env.DFLOG, Unset, Join(Dirs(s), Relative(<<"dflog">>)))
  IN  [Bind |-> ValueOr(s.env.BIND, "", "127.0.0.1:5033"),
       Dsn |-> ValueOr(s.env.SQLITE_DSN, [file |-> Unset, query |-> <<>>],
                 [file |-> Join(Dirs(s), Relative(<<"ripme.sqlite">>)), query |-> <<>>]),
       MediaRoot |-> ValueOr(s.env.MEDIA_ROOT, Unset, RipsDir(s)),
       DfLog |-> dfLog,
       DfLogRoot |-> ValueOr(s.env.DFLOG_ROOT, Unset, getDefaultDfLogRoot(dfLog)),
       ReadOnly |-> shouldRunReadOnly(s),
       SlowSqlMs |-> IF \E n \in s.env.SLOW_SQL_MS : n >= -1
                     THEN CHOOSE n \in s.env.SLOW_SQL_MS : n >= -1 ELSE 100,
       CorsOrigins |-> s.env.CORS_ORIGINS]

\* Mutant: the media root's field is left empty when the window opens.
newMainWindowWithoutRoot(s) ==
  LET c == GetServerConfig(s)
  IN  [BIND |-> c.Bind, SQLITE_DSN |-> c.Dsn, MEDIA_ROOT |-> Unset,
       DFLOG |-> c.DfLog, DFLOG_ROOT |-> c.DfLogRoot,
       RO |-> IF s.flag # "unset" THEN IF s.flag = "ro" THEN "1" ELSE "0"
              ELSE IF c.ReadOnly THEN "1" ELSE "0",
       SLOW_SQL_MS |-> {c.SlowSqlMs}, CORS_ORIGINS |-> ""]

\* The fields of the panel when its window opens.  Start makes them the
\* environment, the one for CORS_ORIGINS empty as it is.
newMainWindow(s) ==
  LET c == GetServerConfig(s)
  IN  [BIND |-> c.Bind, SQLITE_DSN |-> c.Dsn, MEDIA_ROOT |-> c.MediaRoot,
       DFLOG |-> c.DfLog, DFLOG_ROOT |-> c.DfLogRoot,
       RO |-> IF c.ReadOnly THEN "1" ELSE "0",
       SLOW_SQL_MS |-> {c.SlowSqlMs}, CORS_ORIGINS |-> ""]

-----------------------------------------------------------------------------
(***************************************************************************)
(* Connection strings.                                                     *)
(***************************************************************************)
Has(query, params) == \E i \in DOMAIN query : query[i] \in params
With(query, param) == IF Has(query, {param}) THEN query ELSE Append(query, param)
Without(query, params) ==
  LET newParams[i \in 0..Len(query)] ==
        IF i = 0 THEN <<>>
        ELSE IF query[i] \in params THEN newParams[i - 1]
        ELSE Append(newParams[i - 1], query[i])
  IN  newParams[Len(query)]

Timeouts == {"_busy_timeout=10000", "_busy_timeout=500"}

DsnWithReadOnly(query) == With(With(query, "mode=ro"), "_query_only=1")

\* Mutant: only the mode is taken back.
DsnWithReadWriteMode(query) == Without(query, {"mode=ro"})

DsnWithReadWrite(query) == Without(query, {"mode=ro", "_query_only=1"})

DsnWithForeignKeys(query) == With(query, "_foreign_keys=ON")

DsnWithDefaultTimeout(query) ==
  IF Has(query, Timeouts) THEN query ELSE Append(query, "_busy_timeout=10000")

\* The handles of StartServer, and that of OptimizeDbFromDsn.
DbQuery(c) ==
  DsnWithForeignKeys(DsnWithDefaultTimeout(DsnWithReadOnly(c.Dsn.query)))
DbRwQuery(c) == DsnWithReadWrite(DbQuery(c))
OptimizeQuery(c) ==
  DsnWithForeignKeys(DsnWithDefaultTimeout(DsnWithReadWrite(c.Dsn.query)))

\* SQLite and its driver: a mode only ever narrows the modes before it (one that
\* asks for more makes opening fail), and of several _query_only the first counts.
CanWrite(query) ==
  LET pragmas == {i \in DOMAIN query :
                   query[i] \in {"_query_only=0", "_query_only=1", "_query_only=true"}}
  IN  /\ ~Has(query, {"mode=ro"})
      /\ \A i \in pragmas : query[i] # "_query_only=0" => \E k \in pragmas : k < i
=============================================================================
