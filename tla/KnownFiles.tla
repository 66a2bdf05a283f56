------------------------------ MODULE KnownFiles ------------------------------
(***************************************************************************)
(* The files of the pictures: loadKnownFiles (internal/server/db.go),      *)
(* which reads RipMe's log of downloaded files before the server listens,  *)
(* and handleMedia (handlers_media.go) with sendFile (server.go), which    *)
(* tries one place after the other where a file may lie, while RipMe       *)
(* writes its log and files are added, replaced, moved and removed.        *)
(*                                                                         *)
(* One start of a server and one request at a time.  A request that is     *)
(* given up has no answer and is left out.                                 *)
(***************************************************************************)
EXTENDS Config

CONSTANTS
  Names,                \* names of files
  Gids,                 \* ids of galleries
  Host,                 \* the ripper: the directory of files without a gallery
  Folder(_),            \* the directory of a gallery: host_gid
  filesystemSafe(_),    \* how RipMe spells a gid
  sanitizedFilename(_), \* how RipMe spells the name of a file
  StartsWith(_, _),     \* whether the first name begins with the second
  Second(_),            \* the second in which a time lies
  Places,               \* the places where a file may be
  Urls,                 \* the pictures a browser asks for
  Entries,              \* what RipMe may write to its log
  MaxEntries,           \* bound on the lines of the log
  MaxTime               \* bound on the times at which files are written

NoGid == "none"
Comment == Unset

Times == 0..MaxTime

ASSUME KnownFilesAssumption ==
  /\ NoGid \notin Gids
  /\ Urls \subseteq ([parts : {3}, gid : Gids, name : Names]
                        \union [parts : {1, 2}, gid : {NoGid}, name : Names])
  /\ Entries \subseteq Path
  /\ \A entry \in Entries \ {Comment} : Base(entry) \in Names
  /\ MaxEntries \in Nat /\ MaxTime \in Nat \ {0}
  /\ \A s, t \in Times : Second(t) \in Nat /\ (s <= t => Second(s) <= Second(t))

VARIABLES
  load,    \* the goroutine of StartServer
  cfg,     \* the configuration it was given
  entries, \* the lines of DFLOG: a path, or Comment for a line to skip
  pos,     \* how many of them are read
  found,   \* knownFilePaths: what they named
  known,   \* app.KnownFilePaths
  disk,    \* disk[p]: when the file at p was last modified, 0: there is none
  time,    \* the latest of these times so far
  oldest,  \* the oldest downloaded gallery the database has the file in
  url,     \* the picture the browser wants
  req,     \* its request
  header,  \* ETag and Last-Modified of the response: the time of the last file
           \* that os.Stat found, 0 if they are not set
  opening, \* that file is about to be opened
  copy     \* its copy: the time of the headers it has, 0 if there is no copy, of
           \* the file whose headers came with the body, and of the file the body
           \* was read from, 0 for the body of a 404

loadVars == <<load, cfg, pos, found, known>>
diskVars == <<entries, disk, time>>
mediaVars == <<oldest, url, req, header, opening, copy>>
filesVars == <<loadVars, diskVars, mediaVars>>

LoadPCs == {"off", "begin", "open", "scan", "publish", "listen", "announce",
            "serving", "complain", "failed"}
NoList == [name \in Names |-> <<>>]
NoRequest == [at |-> "none"]
NoConfig == [DfLog |-> Unset]
NoCopy == [modified |-> 0, found |-> 0, content |-> 0]

FilesInit ==
  /\ load = "off"
  /\ cfg = NoConfig
  /\ entries = <<>>
  /\ pos = 0
  /\ found = NoList
  /\ known = NoList
  /\ disk \in [Places -> {0, 1}]
  /\ time = 1
  /\ oldest \in Gids \union {NoGid}
  /\ url \in Urls
  /\ req = NoRequest
  /\ header = 0 /\ opening = FALSE
  /\ copy = NoCopy

-----------------------------------------------------------------------------
(***************************************************************************)
(* loadKnownFiles and what follows it in the goroutine of StartServer.     *)
(***************************************************************************)
Goto(from, to) == load = from /\ load' = to

StartServer(c) ==
  /\ Goto("off", "begin")
  /\ cfg' = c
  /\ UNCHANGED <<diskVars, mediaVars, pos, found, known>>

Continue(from, to) ==
  /\ Goto(from, to)
  /\ UNCHANGED <<diskVars, mediaVars, cfg, pos, found, known>>

BeginLoad == Continue("begin", "open")
OpenLog == Continue("open", "scan")
\* The server goes on without known files.
OpenLogFails == Continue("open", "listen")

\* How an entry is kept: if DFLOG is relative this is relative to DfLogRoot,
\* for filepath.Rel takes the root away that was joined in front of it.
Target(entry) == Join(Dir(cfg.DfLog), entry)

\* Mutant: of the files of one name the last is kept.
NotedLast(entry) == [found EXCEPT ![Base(entry)] = <<Target(entry)>>]

Noted(entry) == [found EXCEPT ![Base(entry)] = Append(@, Target(entry))]

ScanLine ==
  /\ load = "scan" /\ pos < Len(entries)
  /\ pos' = pos + 1
  /\ LET entry == entries[pos + 1]
     IN  found' = IF entry = Comment THEN found ELSE Noted(entry)
  /\ UNCHANGED <<diskVars, mediaVars, load, cfg, known>>

ScanEnds == pos = Len(entries) /\ Continue("scan", "publish")
\* A read error, or a line too long for the scanner.
ScanBreaks == Continue("scan", "publish")

Publish ==
  /\ Goto("publish", "listen")
  /\ known' = found
  /\ UNCHANGED <<diskVars, mediaVars, cfg, pos, found>>

\* The context is told, one way or the other, before the log is.
Listen == Continue("listen", "announce")
Announce == Continue("announce", "serving")
ListenFails == Continue("listen", "complain")
Complain == Continue("complain", "failed")

-----------------------------------------------------------------------------
(***************************************************************************)
(* handleMedia.  The path of a request has three parts (host, gid, name),  *)
(* two (host, name) or one (name).                                         *)
(***************************************************************************)
\* The written path of p begins with that of root, which is so of the files in a
\* neighbour of root, too, whose name begins with root's.
Under(p, root) ==
  LET n == Len(root.at)
  IN  n > 0 => /\ Len(p.at) >= n
               /\ SubSeq(p.at, 1, n - 1) = SubSeq(root.at, 1, n - 1)
               /\ StartsWith(p.at[n], root.at[n])

\* What is not under MediaRoot becomes MediaRoot, which is a directory and never
\* sent.
cleanJoin(base, p) ==
  LET root == Resolved(cfg.MediaRoot)
      joined == Resolved(IF p.abs THEN p ELSE Join(base, p))
  IN  IF Under(joined, root) THEN joined ELSE root

InMediaRoot(folder, name) == cleanJoin(cfg.MediaRoot, Relative(<<folder, name>>))

\* The directory of the request, and as RipMe would spell it.
FolderOf(r) == IF r.parts = 3 THEN Folder(r.gid) ELSE Host
SafeFolderOf(r) == IF r.parts = 3 THEN Folder(filesystemSafe(r.gid)) ELSE Host

\* Mutant: RipMe's spelling is tried instead of the plain one.
SpellingsRipMeOnly(folder, safeFolder, name) ==
  <<InMediaRoot(safeFolder, sanitizedFilename(name))>>

\* The name under its directory, then both as RipMe spells them if it spells
\* either in another way.
Spellings(folder, safeFolder, name) ==
  IF safeFolder # folder \/ sanitizedFilename(name) # name
  THEN <<InMediaRoot(folder, name), InMediaRoot(safeFolder, sanitizedFilename(name))>>
  ELSE <<InMediaRoot(folder, name)>>

KnownPlaces(name) ==
  [i \in 1..Len(known[name]) |-> cleanJoin(cfg.DfLogRoot, known[name][i])]

\* Mutant: the known files are tried before the directory that is asked for.
tryFilesKnownFirst(r) ==
  KnownPlaces(r.name)
    \o (IF r.parts = 1 THEN <<>> ELSE Spellings(FolderOf(r), SafeFolderOf(r), r.name))

tryFiles(r) ==
  (IF r.parts = 1 THEN <<>> ELSE Spellings(FolderOf(r), SafeFolderOf(r), r.name))
    \o KnownPlaces(r.name)

\* The last resort: the oldest gallery with that file.
tryFilesOfOldest(r) ==
  IF r.parts = 1 \/ oldest \in {NoGid, r.gid} THEN <<>>
  ELSE Spellings(Folder(oldest), Folder(filesystemSafe(oldest)), r.name)

Exists(p) == p \in Places /\ disk[p] > 0

\* What was there when the request came and has been since.
Staying == {p \in Places : disk[p] > 0}

Proceed(next) ==
  /\ req' = next
  /\ UNCHANGED <<loadVars, diskVars, oldest, url, copy>>

handleMedia ==
  /\ load = "serving" /\ req = NoRequest
  /\ Proceed([at |-> "first", tries |-> tryFiles(url), stayed |-> Staying, oldest |-> NoGid])
  /\ UNCHANGED <<header, opening>>

Trying == req.at \in {"first", "oldest"} /\ req.tries # <<>>
Next1 == Head(req.tries)

\* Mutant: the comparison is the wrong way round.
NotModifiedIfNewer(t) == copy.modified > 0 /\ Second(t) >= Second(copy.modified)

\* ETag and Last-Modified know seconds only.  An older file is not modified for
\* If-Modified-Since, which counts even where If-None-Match does not hold.  In
\* the same second the two may go either way: the tags are equal if the sizes
\* are, and the exact time of the file is compared with the copy's second.
NotModified(t) == copy.modified > 0 /\ Second(t) <= Second(copy.modified)
Modified(t) == copy.modified > 0 => Second(t) >= Second(copy.modified)

SkipFile == Proceed([req EXCEPT !.tries = SubSeq(@, 2, Len(@))])

\* sendFile: os.Stat, whose result goes into the headers,
StatFails ==
  /\ Trying /\ ~opening /\ ~Exists(Next1)
  /\ SkipFile
  /\ UNCHANGED <<header, opening>>

StatNotModified ==
  /\ Trying /\ ~opening /\ Exists(Next1) /\ NotModified(disk[Next1])
  /\ header' = disk[Next1]
  /\ Proceed([at |-> "sent", place |-> Next1, opened |-> 0, stayed |-> req.stayed,
              notModified |-> TRUE])
  /\ UNCHANGED opening

Stat ==
  /\ Trying /\ ~opening /\ Exists(Next1) /\ Modified(disk[Next1])
  /\ header' = disk[Next1]
  /\ opening' = TRUE
  /\ Proceed(req)

\* and os.Open, of whatever is there then.  The headers stay where it fails.
Open ==
  /\ opening /\ Exists(Next1)
  /\ Proceed([at |-> "sent", place |-> Next1, opened |-> disk[Next1], stayed |-> req.stayed,
              notModified |-> FALSE])
  /\ opening' = FALSE
  /\ UNCHANGED header

OpenFails ==
  /\ opening /\ ~Exists(Next1)
  /\ SkipFile
  /\ opening' = FALSE
  /\ UNCHANGED header

sendFile == StatFails \/ StatNotModified \/ Stat \/ Open \/ OpenFails

QueryOldest ==
  /\ req.at = "first" /\ req.tries = <<>>
  /\ Proceed([req EXCEPT !.at = "oldest", !.tries = tryFilesOfOldest(url),
                        !.oldest = IF url.parts = 1 THEN NoGid ELSE oldest])
  /\ UNCHANGED <<header, opening>>

QueryOldestFails ==
  /\ req.at = "first" /\ req.tries = <<>>
  /\ Proceed([req EXCEPT !.at = "oldest"])
  /\ UNCHANGED <<header, opening>>

NotFound ==
  /\ req.at = "oldest" /\ req.tries = <<>>
  /\ Proceed([at |-> "404", stayed |-> req.stayed, oldest |-> req.oldest])
  /\ UNCHANGED <<header, opening>>

\* The browser keeps what it is sent, and of a 304 the headers.  A 404 whose
\* headers are of a file that could not be opened it may keep, too.
Stored ==
  IF req.at = "404" THEN {NoCopy, [modified |-> header, found |-> header, content |-> 0]}
  ELSE IF req.notModified THEN {[copy EXCEPT !.modified = header]}
  ELSE {[modified |-> header, found |-> header, content |-> req.opened]}

Answered ==
  /\ req.at \in {"sent", "404"}
  /\ copy' \in Stored
  /\ req' = NoRequest /\ header' = 0
  /\ UNCHANGED <<loadVars, diskVars, oldest, url, opening>>

-----------------------------------------------------------------------------
(***************************************************************************)
(* RipMe and the user.                                                     *)
(***************************************************************************)
RipMeLogs(entry) ==
  /\ Len(entries) < MaxEntries
  /\ entries' = Append(entries, entry)
  /\ UNCHANGED <<loadVars, disk, time, mediaVars>>

Changed(places) ==
  /\ req' = IF req = NoRequest THEN req ELSE [req EXCEPT !.stayed = @ \ places]
  /\ UNCHANGED <<loadVars, entries, oldest, url, header, opening, copy>>

\* A file is written: its time is the latest.
Write(p) ==
  /\ time < MaxTime
  /\ time' = time + 1
  /\ disk' = [disk EXCEPT ![p] = time + 1]
  /\ Changed({})

Remove(p) ==
  /\ disk[p] > 0
  /\ disk' = [disk EXCEPT ![p] = 0]
  /\ Changed({p})
  /\ UNCHANGED time

\* A file is moved, and keeps its time.
Move(p, q) ==
  /\ disk[p] > 0 /\ q # p
  /\ disk' = [disk EXCEPT ![q] = disk[p], ![p] = 0]
  /\ Changed({p})
  /\ UNCHANGED time

MediaNext ==
  handleMedia \/ sendFile \/ QueryOldest \/ QueryOldestFails \/ NotFound \/ Answered

DiskNext ==
  \/ \E entry \in Entries : RipMeLogs(entry)
  \/ \E p \in Places : Write(p) \/ Remove(p) \/ \E q \in Places : Move(p, q)

-----------------------------------------------------------------------------
FilesTypeOK ==
  /\ load \in LoadPCs
  /\ entries \in Seq(Entries)
  /\ pos \in 0..Len(entries)
  /\ {found, known} \subseteq [Names -> Seq(Path)]
  /\ disk \in [Places -> Times] /\ time \in Times
  /\ oldest \in Gids \union {NoGid}
  /\ req.at \in {"none", "first", "oldest", "sent", "404"}
  /\ url \in Urls
  /\ req # NoRequest => req.stayed \subseteq Places
  /\ header \in Times /\ opening \in BOOLEAN
  /\ copy \in [modified : Times, found : Times, content : Times]

\* Where the documents say that an entry is: README.md:103, DFLOG_ROOT is the
\* "base directory to resolve relative paths in DFLOG from"; db.go:235, "each
\* line is a relative or absolute path to a file".
Meant(entry) == Resolved(IF entry.abs THEN entry ELSE Join(cfg.DfLogRoot, entry))

\* Where a target is looked for, whether it is under MediaRoot or not.
LookedFor(target) == Resolved(IF target.abs THEN target ELSE Join(cfg.DfLogRoot, target))

\* The directory an entry is really looked for in, relative or not, and a log for
\* which that is the one relative entries are meant to be resolved from.
LogPlace == LookedFor(Dir(cfg.DfLog))
PlainLog == LogPlace = Resolved(cfg.DfLogRoot)

\* Once the server serves, the known files of a name are looked for exactly
\* where the lines read from a plain log say they are, whatever RipMe added
\* to the log since; a log that could not be read to its end has a share.
KnownFilesAreTheLogs ==
  load = "serving" /\ PlainLog /\ (\A i \in 1..pos : ~entries[i].abs) =>
    \A name \in Names :
      {LookedFor(known[name][k]) : k \in 1..Len(known[name])} =
      {Meant(entries[i]) : i \in {j \in 1..pos : /\ entries[j] # Comment
                                                /\ Base(entries[j]) = name}}

\* The same of any log, which the documents do not restrict.
EveryEntryNamesItsFile ==
  load = "serving" =>
    \A i \in 1..pos :
      entries[i] # Comment =>
        \E k \in 1..Len(known[Base(entries[i])]) :
          LookedFor(known[Base(entries[i])][k]) = Meant(entries[i])

\* Where RipMe puts the picture: in the directory that is asked for or in that
\* of the gallery old, with the names as they are or as RipMe spells them.
RipMePlaces(old) ==
  LET others == {old} \ {NoGid}
      plain == {FolderOf(url)} \union {Folder(gid) : gid \in others}
      safe == {SafeFolderOf(url)} \union {Folder(filesystemSafe(gid)) : gid \in others}
  IN  {InMediaRoot(folder, url.name) : folder \in plain}
        \union {InMediaRoot(folder, sanitizedFilename(url.name)) : folder \in safe}

UnderMediaRoot(p) == Under(p, Resolved(cfg.MediaRoot))

\* A file that stays where RipMe puts it, or where a known file of that name is
\* under the media root, while the request is worked on is found, whatever is
\* moved around it: the places are looked at one after the other.
StayingFilesAreFound ==
  req.at = "404" =>
    /\ url.parts # 1 => req.stayed \intersect RipMePlaces(req.oldest) = {}
    /\ \A k \in 1..Len(known[url.name]) :
         LET p == LookedFor(known[url.name][k])
         IN  UnderMediaRoot(p) => p \notin req.stayed

\* A file of another gallery, or one of that name from the log, is sent only if
\* the picture that is asked for was not there all the time.
OwnFileComesFirst ==
  LET own == InMediaRoot(FolderOf(url), url.name)
  IN  req.at = "sent" /\ url.parts # 1 /\ own \in req.stayed => req.place = own

\* A browser that is told to use its copy would be sent nothing of a later second
\* than what the copy was made of, wherever the file was found then and now, and
\* however often the copy got the headers of another file in between.  It may be
\* so of a copy whose headers are those of a later file than its body: one that
\* was replaced by an earlier file, or taken away, before it was opened.
NotModifiedIsNoNewer ==
  req.at = "sent" /\ req.notModified /\ copy.found <= copy.content =>
    Second(header) <= Second(copy.content)
=============================================================================
