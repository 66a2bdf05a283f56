------------------------------ MODULE MCGuiServer ------------------------------
(***************************************************************************)
(* One picture whose name RipMe spells in another way, three places for    *)
(* it, and five setups: nothing set, rip.properties in the working         *)
(* directory or in RipMe's own, DFLOG relative in a subdirectory, and      *)
(* absolute with another DFLOG_ROOT.  The connection strings are spread    *)
(* over them.                                                              *)
(***************************************************************************)
EXTENDS GuiServer

Base0 == <<"base">>
RipMe0 == <<"ripme">>

MCFolder(gid) == IF gid = "g1" THEN "h_g1" ELSE "h_g2"
MCFilesystemSafe(gid) == gid
MCSanitized(name) == IF name = "a:b" THEN "a_b" ELSE name

MCStartsWith(name, prefix) == name = prefix \/ (name = "rips2" /\ prefix = "rips")

\* The times 2 and 3 are in one second.
MCSecond(t) == t \div 2

InRips(folder, name) == Absolute(<<"base", "rips", folder, name>>)

MCPlaces == {InRips("h_g1", "a:b"), InRips("h_g1", "a_b"), InRips("h_g2", "a:b")}

MCUrls ==
  {[parts |-> 3, gid |-> "g1", name |-> "a:b"], [parts |-> 1, gid |-> NoGid, name |-> "a:b"]}

MCEntries ==
  {Comment, Relative(<<"rips", "h_g2", "a:b">>), Relative(<<"rips2", "a:b">>), InRips("h_g2", "a:b")}

Plain ==
  [env |-> [BIND |-> "", SQLITE_DSN |-> [file |-> Unset, query |-> <<>>], MEDIA_ROOT |-> Unset,
            DFLOG |-> Unset, DFLOG_ROOT |-> Unset, RO |-> "", SLOW_SQL_MS |-> {},
            CORS_ORIGINS |-> ""],
   flag |-> "unset", properties |-> {}, rips |-> Unset]

Dsn(query) == [file |-> Relative(<<"db">>), query |-> query]

MCSetups ==
  {Plain,
   [Plain EXCEPT !.properties = {"cwd", "ripme"}, !.env.RO = "1",
                 !.env.SQLITE_DSN = Dsn(<<"mode=rw", "_busy_timeout=500">>)],
   [Plain EXCEPT !.properties = {"ripme"}, !.rips = Absolute(<<"base", "rips">>), !.flag = "rw",
                 !.env.RO = "1", !.env.SQLITE_DSN = Dsn(<<"mode=ro", "_query_only=1">>)],
   [Plain EXCEPT !.env.DFLOG = Relative(<<"logs", "dflog">>), !.env.DFLOG_ROOT = Relative(<<"logs">>),
                 !.env.SQLITE_DSN = Dsn(<<"_query_only=0", "mode=ro", "mode=rw">>),
                 !.env.CORS_ORIGINS = "*"],
   [Plain EXCEPT !.env.DFLOG = Absolute(<<"logs", "dflog">>), !.env.DFLOG_ROOT = Absolute(Base0),
                 !.env.SQLITE_DSN = Dsn(<<"mode=ro", "_query_only=true">>),
                 !.env.MEDIA_ROOT = Absolute(<<"base", "rips">>), !.env.SLOW_SQL_MS = {-2}, !.flag = "ro"]}

MCEdits == {Relative(<<"logs", "dflog">>)}

\* The log view and the requests for pictures share nothing but the start of the
\* server.  What is explored is each with the other at rest: the log view in the
\* first setup, the requests in the two whose log is in the working directory and
\* elsewhere, the start in all.  Files are written in the first setup, once with
\* a known file and twice without.
PanelRests ==
  /\ seen.len = 0 /\ watch # "told" /\ ~repaint
  /\ ~\E i \in DOMAIN log : log[i] = "other"
FilesRest ==
  /\ disk = [p \in Places |-> 1] /\ copy.modified = 0 /\ req = NoRequest
  /\ url.parts = 3 /\ oldest = NoGid
OneSideAtATime ==
  \/ FilesRest /\ (PanelRests \/ (given = Plain /\ entries = <<>>))
  \/ /\ PanelRests
     /\ given.properties = {} /\ env.DFLOG \notin MCEdits
     /\ IF load = "serving" THEN Len(entries) = pos ELSE disk = [p \in Places |-> 1]
     /\ entries # <<Comment>> /\ Len(entries) <= 1
     /\ url.parts = 1 => oldest = NoGid
     /\ time > 1 => /\ given = Plain /\ oldest # "g1"
                    /\ entries \in {<<>>, <<Relative(<<"rips", "h_g2", "a:b">>)>>}
     /\ time > 2 => /\ url.parts = 3 /\ entries = <<>> /\ oldest = NoGid
                    /\ disk[InRips("h_g2", "a:b")] = 0
=============================================================================
