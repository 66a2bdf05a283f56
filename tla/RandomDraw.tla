------------------------------ MODULE RandomDraw ------------------------------
(***************************************************************************)
(* Random Gallery and Random File: handleRandomGallery and                 *)
(* handleRandomFile (internal/server/handlers.go).  Each draws a number    *)
(* below the largest id and takes the first row from there that passes the *)
(* filters; with a filter it tries twice, and then takes any of the rows   *)
(* that pass.  Each try is a statement of its own, and between two of them *)
(* RipMe and the user change the database.                                 *)
(***************************************************************************)
EXTENDS RatingFilter, Paging

Sets == INSTANCE FiniteSetsExt

CONSTANTS
  Ids,       \* the ids of galleries, and of files
  Filters,   \* the rating filters in force
  MaxChanges \* bound on the changes of the database

Types == {"image", "video"}
AllTypes == "all"

VARIABLES
  album,   \* the galleries there are: local_rating, by album_id
  file,    \* the files there are: local_rating, type, whether it is fetched and
           \* not ignored, and the galleries it is in, by remote_file_id
  req,     \* the request
  changes  \* how often the database has changed

vars == <<album, file, req, changes>>

NoRequest == [at |-> "none"]

Init ==
  /\ album = [a \in {} |-> Unrated]
  /\ file = [f \in {} |-> Unrated]
  /\ req = NoRequest
  /\ changes = 0

-----------------------------------------------------------------------------
(***************************************************************************)
(* The rows a request r may be sent to, and the draw.                      *)
(***************************************************************************)
Filtered(r) == Active(r.grf) \/ Active(r.rf) \/ r.ftf # AllTypes

Rated(r) == {f \in DOMAIN file : file[f].available /\ Passes(r.rf, file[f].rating)}
Files(r) == {f \in Rated(r) : r.ftf \in {AllTypes, file[f].type}}

\* Without a filter a gallery need not have a file.
Galleries(r) ==
  IF Filtered(r)
  THEN {a \in DOMAIN album : /\ Passes(r.grf, album[a])
                             /\ \E f \in Files(r) : a \in file[f].albums}
  ELSE DOMAIN album

Matching(r) == IF r.of = "gallery" THEN Galleries(r) ELSE Files(r)

\* ABS(RANDOM()) % MAX(id), where MAX is over more than what matches: all
\* galleries, and files of any type.  There is none when there is no row.
Draws(r) ==
  LET rows == IF r.of = "gallery" THEN DOMAIN album ELSE Rated(r)
  IN  IF rows = {} THEN {} ELSE DrawsBelow(Sets!Max(rows))

Hits(r) == UNION {FirstFrom(draw, Matching(r)) : draw \in Draws(r)}
MayMiss(r) == Draws(r) = {} \/ \E draw \in Draws(r) : FirstFrom(draw, Matching(r)) = {}

-----------------------------------------------------------------------------
(***************************************************************************)
(* The handlers, statement by statement.                                   *)
(***************************************************************************)
Answer(answer) == req' = answer /\ UNCHANGED <<album, file, changes>>

handleRandomGallery(grf, rf, ftf) ==
  /\ req = NoRequest
  /\ Answer([at |-> "draw", of |-> "gallery", grf |-> grf, rf |-> rf, ftf |-> ftf, tries |-> 1])

handleRandomFile(rf, ftf) ==
  /\ req = NoRequest
  /\ Answer([at |-> "draw", of |-> "file", grf |-> NoFilter, rf |-> rf, ftf |-> ftf, tries |-> 1])

\* A file is shown in one of its galleries, if it has any.
Redirect(row) ==
  IF req.of = "gallery" THEN Answer([at |-> "gallery", gallery |-> row])
  ELSE \/ file[row].albums = {} /\ Answer([at |-> "file", file |-> row])
       \/ \E a \in file[row].albums : Answer([at |-> "file", file |-> row, gallery |-> a])

DrawHits == req.at = "draw" /\ \E row \in Hits(req) : Redirect(row)

DrawMisses ==
  /\ req.at = "draw" /\ MayMiss(req)
  /\ CASE ~Filtered(req) -> Answer([at |-> "error"])
       [] Filtered(req) /\ req.tries = 1 -> Answer([req EXCEPT !.tries = 2])
       [] Filtered(req) /\ req.tries = 2 -> Answer([req EXCEPT !.at = "fallback"])

Fallback ==
  /\ req.at = "fallback"
  /\ \/ \E row \in Matching(req) : Redirect(row)
     \/ Matching(req) = {} /\ Answer([at |-> "error"])

\* Any other error, or a request that is given up.
QueryFails == req.at \in {"draw", "fallback"} /\ Answer([at |-> "error"])

\* The browser has the answer.
Done == req.at \in {"gallery", "file", "error"} /\ Answer(NoRequest)

-----------------------------------------------------------------------------
(***************************************************************************)
(* RipMe, and ratings.                                                     *)
(***************************************************************************)
Change == changes < MaxChanges /\ changes' = changes + 1 /\ UNCHANGED req

NewGallery ==
  /\ Change
  /\ \E a \in Ids :
       /\ \A b \in DOMAIN album : b < a
       /\ album' = [b \in DOMAIN album \union {a} |-> IF b = a THEN Unrated ELSE album[b]]
  /\ UNCHANGED file

NewFile ==
  /\ Change
  /\ \E f \in Ids, type \in Types, available \in BOOLEAN, albums \in SUBSET DOMAIN album :
       /\ \A g \in DOMAIN file : g < f
       /\ file' = [g \in DOMAIN file \union {f} |->
                     IF g = f THEN [rating |-> Unrated, type |-> type, available |-> available,
                                    albums |-> albums]
                     ELSE file[g]]
  /\ UNCHANGED album

RateGallery ==
  /\ Change
  /\ \E a \in DOMAIN album, rating \in Ratings : album' = [album EXCEPT ![a] = rating]
  /\ UNCHANGED file

RateFile ==
  /\ Change
  /\ \E f \in DOMAIN file, rating \in Ratings : file' = [file EXCEPT ![f].rating = rating]
  /\ UNCHANGED album

Next ==
  \/ \E grf, rf \in Filters, ftf \in {AllTypes} \union Types : handleRandomGallery(grf, rf, ftf)
  \/ \E rf \in Filters, ftf \in {AllTypes} \union Types : handleRandomFile(rf, ftf)
  \/ DrawHits \/ DrawMisses \/ Fallback \/ QueryFails \/ Done
  \/ NewGallery \/ NewFile \/ RateGallery \/ RateFile

Spec == Init /\ [][Next]_vars

-----------------------------------------------------------------------------
\* handlers.go:2407, "selects a random album", and 2513, "selects a random available
\* file": whatever matches may be drawn, now or by the fallback.
WhateverMatchesMayBeDrawn ==
  req.at = "draw" =>
    Matching(req) \subseteq
      Hits(req) \union (IF Filtered(req) /\ MayMiss(req) THEN Matching(req) ELSE {})
=============================================================================
