------------------------------ MODULE PageCache ------------------------------
(***************************************************************************)
(* One browser, its cookies and its HTTP cache, against the pages of a     *)
(* gallery and of a file in it: withETag, setAndCheckETag, bustCache and   *)
(* render (internal/server/server.go), computeETag (etag.go), getSortFiles *)
(* (sorting.go), getFileTypeFilter (filtering.go) and the rating POSTs     *)
(* (handlers.go).                                                          *)
(*                                                                         *)
(* What the user chose last is remembered in cookies, and pages are sent   *)
(* with "no-cache": the browser keeps them, and asks with the entity tag   *)
(* it has whether they are still good.  The tag is a hash of the path, of  *)
(* the parameters and some cookies of the request, and of cacheBust, a     *)
(* session cookie that every rating changes.  It knows nothing of the      *)
(* database, where a page's content comes from.                            *)
(*                                                                         *)
(* The tag of a gallery is compared before its handler runs (withETag),    *)
(* the tag of a file page when its handler has done everything (render).   *)
(***************************************************************************)
EXTENDS Integers

CONSTANTS
  Urls,       \* the pages visited: path with query
  Sorts,      \* FileSorts
  Types,      \* the file types there is a filter for
  Exchanges,  \* how many requests the browser has outstanding at a time
  MaxWrites   \* bound on the changes of the database, and on the ratings

\* A parameter that is not in the URL, or a cookie that is not there.
None == "none"
\* file_type= : present, without a valid value.
Clear == "clear"

ASSUME PageCacheAssumption ==
  /\ Urls \subseteq [path : {"gallery", "file"},
                     sort : Sorts \union {None},
                     type : Types \union {None, Clear}]
  /\ None \notin Sorts \union Types
  /\ Clear \notin Types
  /\ MaxWrites \in Nat

VARIABLES
  writes,   \* the version of the database: how many changes were committed
  busts,    \* the value of the next cacheBust: UnixNano never repeats
  jar,      \* the browser's cookies
  store,    \* the browser's HTTP cache: what it holds of each URL
  net,      \* net[x]: the request or response in exchange x
  saved,    \* history: the latest version a rating of this browser is known
            \* to be saved in
  current,  \* history: such a rating was made in this session of the browser
  recent    \* history: the sort of the page of this gallery shown last,
            \* for as long as the cookie remembers it

vars == <<writes, busts, jar, store, net, saved, current, recent>>

Jar == [sort : Sorts \union {None}, type : Types \union {None}, bust : Nat]
NoBust == 0

\* A page as the handler makes it: for the URL, in the order, through the
\* filter and from the version of the database it says.
Page == [url : Urls, sort : Sorts \union {None}, type : Types \union {None},
         version : Nat]
Tag == [path : {"gallery", "file"}, sort : Sorts \union {None},
        type : Types \union {None, Clear}, bust : Nat]
NoTag == [path |-> None]
NoPage == [url |-> None]
Nothing == [tag |-> NoTag, page |-> NoPage]
Stored == [tag : Tag, page : Page] \union {Nothing}

-----------------------------------------------------------------------------
(***************************************************************************)
(* The server's functions of a request for u with the cookies c.           *)
(***************************************************************************)
\* Mutant: the hash takes the filter from the URL only.
ETagOfUrl(u, c) ==
  [path |-> u.path, sort |-> u.sort, type |-> u.type, bust |-> c.bust]

computeETag(u, c) ==
  [path |-> u.path,
   sort |-> u.sort,
   type |-> IF u.type # None THEN u.type ELSE c.type,
   bust |-> c.bust]

getSortFiles(u, c) == IF u.sort # None THEN u.sort ELSE c.sort

getFileTypeFilter(u, c) ==
  CASE u.type = None  -> c.type
    [] u.type = Clear -> None
    [] OTHER          -> u.type

\* The cookies a response does not mention stay as they are.
Keep == [sort |-> "keep", type |-> "keep"]

\* What is chosen becomes the default: a handler sets the cookies that differ
\* from the request's, and deletes the one whose parameter is cleared.
SetCookies(u, c) ==
  LET sort == getSortFiles(u, c)
      type == getFileTypeFilter(u, c)
  IN  [sort |-> IF sort = c.sort THEN "keep" ELSE sort,
       type |-> IF type = c.type /\ u.type # Clear THEN "keep" ELSE type]

PageFor(u, c) ==
  [url |-> u, sort |-> getSortFiles(u, c), type |-> getFileTypeFilter(u, c),
   version |-> writes]

Quiet == [is |-> "quiet"]

Init ==
  /\ writes = 0
  /\ busts = 1
  /\ jar = [sort |-> None, type |-> None, bust |-> NoBust]
  /\ store = [u \in Urls |-> Nothing]
  /\ net = [x \in Exchanges |-> Quiet]
  /\ saved = 0
  /\ current = FALSE
  /\ recent = None

Put(x, message) == net' = [net EXCEPT ![x] = message]

-----------------------------------------------------------------------------
(***************************************************************************)
(* Pages.                                                                  *)
(***************************************************************************)
\* The browser asks for a page, with the tag of the copy it has, if any.
Get(x, u) ==
  /\ net[x] = Quiet
  /\ Put(x, [is |-> "get", url |-> u, jar |-> jar, copy |-> store[u],
             saved |-> saved, current |-> current, recent |-> recent])
  /\ UNCHANGED <<writes, busts, jar, store, saved, current, recent>>

NotModified(m) == m.copy.tag = computeETag(m.url, m.jar)

\* The answer, which belongs to the request it answers.
Answer(m, tag, page, cookies) ==
  [is |-> "page", url |-> m.url, jar |-> m.jar, tag |-> tag, page |-> page,
   set |-> cookies, saved |-> m.saved, current |-> m.current, recent |-> m.recent]

Fresh(m) ==
  Answer(m, computeETag(m.url, m.jar), PageFor(m.url, m.jar), SetCookies(m.url, m.jar))

\* withETag: a 304 is sent before handleGallery sees the request.
GalleryNotModified(x) ==
  /\ net[x].is = "get" /\ net[x].url.path = "gallery"
  /\ NotModified(net[x])
  /\ Put(x, Answer(net[x], net[x].copy.tag, net[x].copy.page, Keep))
  /\ UNCHANGED <<writes, busts, jar, store, saved, current, recent>>

handleGallery(x) ==
  /\ net[x].is = "get" /\ net[x].url.path = "gallery"
  /\ ~NotModified(net[x])
  /\ Put(x, Fresh(net[x]))
  /\ UNCHANGED <<writes, busts, jar, store, saved, current, recent>>

\* render compares the tag when the cookies are set and the page is made; the
\* status 304 makes the writer drop the body, not the cookies.
handleGalleryFile(x) ==
  /\ net[x].is = "get" /\ net[x].url.path = "file"
  /\ LET m == net[x]
     IN  Put(x, IF NotModified(m)
                THEN Answer(m, m.copy.tag, m.copy.page, SetCookies(m.url, m.jar))
                ELSE Fresh(m))
  /\ UNCHANGED <<writes, busts, jar, store, saved, current, recent>>

\* Mutant: a cookie that is not mentioned is overwritten as well.
MergeAlways(old, new) == new

Merge(old, new) == IF new = "keep" THEN old ELSE new

Show(x) ==
  /\ net[x].is = "page"
  /\ LET m == net[x]
     IN  /\ jar' = [jar EXCEPT !.sort = Merge(@, m.set.sort),
                               !.type = Merge(@, m.set.type)]
         /\ store' = [store EXCEPT ![m.url] = [tag |-> m.tag, page |-> m.page]]
         /\ recent' = m.page.sort
  /\ Put(x, Quiet)
  /\ UNCHANGED <<writes, busts, saved, current>>

-----------------------------------------------------------------------------
(***************************************************************************)
(* Ratings.                                                                *)
(***************************************************************************)
Rate(x) ==
  /\ net[x] = Quiet
  /\ Put(x, [is |-> "post"])
  /\ UNCHANGED <<writes, busts, jar, store, saved, current, recent>>

\* Mutant: cacheBust is a flag.
PostSetsFlag(x) ==
  /\ net[x].is = "post"
  /\ writes < MaxWrites
  /\ writes' = writes + 1
  /\ Put(x, [is |-> "saved", bust |-> 1, version |-> writes'])
  /\ UNCHANGED <<busts, jar, store, saved, current, recent>>

\* handleFilePost and handleGalleryPost: cacheBust is set, then the UPDATE.
Post(x) ==
  /\ net[x].is = "post"
  /\ writes < MaxWrites /\ busts <= MaxWrites
  /\ writes' = writes + 1
  /\ busts' = busts + 1
  /\ Put(x, [is |-> "saved", bust |-> busts, version |-> writes'])
  /\ UNCHANGED <<jar, store, saved, current, recent>>

\* The UPDATE fails: cacheBust is set all the same.
PostFails(x) ==
  /\ net[x].is = "post"
  /\ busts <= MaxWrites
  /\ busts' = busts + 1
  /\ Put(x, [is |-> "refused", bust |-> busts])
  /\ UNCHANGED <<writes, jar, store, saved, current, recent>>

Newer(a, b) == IF a < b THEN b ELSE a

Saved(x) ==
  /\ net[x].is = "saved"
  /\ jar' = [jar EXCEPT !.bust = net[x].bust]
  /\ saved' = Newer(saved, net[x].version)
  /\ current' = TRUE
  /\ Put(x, Quiet)
  /\ UNCHANGED <<writes, busts, store, recent>>

Refused(x) ==
  /\ net[x].is = "refused"
  /\ jar' = [jar EXCEPT !.bust = net[x].bust]
  /\ Put(x, Quiet)
  /\ UNCHANGED <<writes, busts, store, saved, current, recent>>

\* Another browser rates, or RipMe downloads.
OthersWrite ==
  /\ writes < MaxWrites
  /\ writes' = writes + 1
  /\ UNCHANGED <<busts, jar, store, net, saved, current, recent>>

-----------------------------------------------------------------------------
(***************************************************************************)
(* The network and the browser between pages.                              *)
(***************************************************************************)
\* A request or its response is lost, or the user goes elsewhere.
Lose(x) ==
  /\ net[x] # Quiet
  /\ Put(x, Quiet)
  /\ UNCHANGED <<writes, busts, jar, store, saved, current, recent>>

Evict(u) ==
  /\ store' = [store EXCEPT ![u] = Nothing]
  /\ UNCHANGED <<writes, busts, jar, net, saved, current, recent>>

\* Six hours have passed since the sort or the file type was chosen.
Expire ==
  /\ jar' \in {[jar EXCEPT !.sort = None], [jar EXCEPT !.type = None]} \ {jar}
  /\ recent' = IF jar'.sort = jar.sort THEN recent ELSE None
  /\ UNCHANGED <<writes, busts, store, net, saved, current>>

\* The browser is closed and opened: cacheBust has no age and goes with the
\* session, the other cookies and the HTTP cache stay.
Restart ==
  /\ jar' = [jar EXCEPT !.bust = NoBust]
  /\ net' = [x \in Exchanges |-> Quiet]
  /\ current' = FALSE
  /\ recent' = jar.sort
  /\ UNCHANGED <<writes, busts, store, saved>>

-----------------------------------------------------------------------------
Serve(x) ==
  \/ GalleryNotModified(x) \/ handleGallery(x) \/ handleGalleryFile(x)
  \/ Post(x) \/ PostFails(x)

Next ==
  \/ \E x \in Exchanges :
       \/ \E u \in Urls : Get(x, u)
       \/ Rate(x)
       \/ Serve(x)
       \/ Show(x) \/ Saved(x) \/ Refused(x) \/ Lose(x)
  \/ \E u \in Urls : Evict(u)
  \/ OthersWrite \/ Expire \/ Restart

Spec == Init /\ [][Next]_vars

-----------------------------------------------------------------------------
Request ==
  [is : {"get"}, url : Urls, jar : Jar, copy : Stored,
   saved : Nat, current : BOOLEAN, recent : Sorts \union {None}]
Response ==
  [is : {"page"}, url : Urls, jar : Jar, tag : Tag, page : Page,
   set : [sort : Sorts \union {None, "keep"}, type : Types \union {None, "keep"}],
   saved : Nat, current : BOOLEAN, recent : Sorts \union {None}]

TypeOK ==
  /\ writes \in Nat
  /\ busts \in Nat
  /\ jar \in Jar
  /\ \A u \in Urls : store[u] \in Stored
  /\ \A x \in Exchanges :
       net[x] \in {Quiet, [is |-> "post"]} \union Request \union Response
                    \union [is : {"saved"}, bust : Nat, version : Nat]
                    \union [is : {"refused"}, bust : Nat]
  /\ saved \in Nat
  /\ current \in BOOLEAN
  /\ recent \in Sorts \union {None}

\* The pages about to be shown, from the handler or from the browser's cache.
Answers == {net[x] : x \in {y \in Exchanges : net[y].is = "page"}}

\* A page that is asked for after a rating was acknowledged shows that rating
\* or a later one, though the server compares no versions and the browser may
\* be told that its copy is still good.
ReadYourRatings == 
  \A m \in Answers : m.current => m.page.version >= m.saved

\* A page is filtered as its URL and the cookies of its request say, whether
\* it comes from the handler or is a copy the server called current.
FilterIsCurrent ==
  \A m \in Answers : m.page.type = getFileTypeFilter(m.url, m.jar)

\* docs/developing.md:37: "On the file page, the sort order last recently used
\* for galleries is used in the rail".
RailFollowsGallery ==
  \A m \in Answers :
    m.url.path = "file" /\ m.url.sort = None => m.page.sort = m.recent
=============================================================================
