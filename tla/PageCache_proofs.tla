--------------------------- MODULE PageCache_proofs ---------------------------
(***************************************************************************)
(* Proofs about PageCache, for every set of pages, every number of         *)
(* outstanding requests and any number of ratings: a page that is asked    *)
(* for after a rating was acknowledged shows it, and is filtered as its    *)
(* URL and cookies say.                                                    *)
(*                                                                         *)
(* The server compares hashes, not versions.  Why that is enough is the    *)
(* inductive invariant: the value of cacheBust that comes with the answer  *)
(* to a rating is carried by no cookie, no request and no stored page when *)
(* the answer arrives, so every page that carries the browser's present    *)
(* value was made after the last acknowledged rating.                      *)
(***************************************************************************)
EXTENDS PageCache, TLAPS

Messages ==
  {Quiet, [is |-> "post"]} \union Request \union Response
    \union [is : {"saved"}, bust : Nat, version : Nat]
    \union [is : {"refused"}, bust : Nat]

Kept(s) == s \in [tag : Tag, page : Page]
Visit(m) == m.is \in {"get", "page"}
Ack(m) == m.is \in {"saved", "refused"}

\* The file type a page with this tag was made for.
TypeOfTag(tag) == IF tag.type = Clear THEN None ELSE tag.type

Shapes == DOMAIN net = Exchanges /\ DOMAIN store = Urls

\* Every cacheBust in use is an old one.
OldBusts ==
  /\ jar.bust < busts
  /\ \A u \in Urls : Kept(store[u]) => store[u].tag.bust < busts
  /\ \A x \in Exchanges :
       /\ Visit(net[x]) => net[x].jar.bust < busts
       /\ Ack(net[x]) => net[x].bust < busts

\* The one that is on its way is not in use.
NewBusts ==
  \A x \in Exchanges :
    Ack(net[x]) =>
      /\ net[x].bust # jar.bust
      /\ \A u \in Urls : Kept(store[u]) => store[u].tag.bust # net[x].bust
      /\ \A y \in Exchanges :
           /\ Visit(net[y]) => net[y].jar.bust # net[x].bust
           /\ Ack(net[y]) /\ y # x => net[y].bust # net[x].bust

\* No rating is known to be saved before it is.
SavedIsWritten ==
  /\ saved <= writes
  /\ \A x \in Exchanges :
       /\ net[x].is = "saved" => net[x].version <= writes
       /\ Visit(net[x]) => net[x].saved <= saved

\* What carries the present cacheBust has the last acknowledged rating.
StoreIsCurrent ==
  current => \A u \in Urls :
               Kept(store[u]) /\ store[u].tag.bust = jar.bust => store[u].page.version >= saved

VisitsAreCurrent ==
  current => \A x \in Exchanges :
               Visit(net[x]) /\ net[x].jar.bust = jar.bust
                 => net[x].current /\ net[x].saved = saved

CopiesAreCurrent ==
  \A x \in Exchanges :
    /\ net[x].is = "get" /\ net[x].current
    /\ Kept(net[x].copy) /\ net[x].copy.tag.bust = net[x].jar.bust
    => net[x].copy.page.version >= net[x].saved

PagesAreCurrent ==
  \A x \in Exchanges :
    net[x].is = "page" =>
      /\ net[x].tag.bust = net[x].jar.bust
      /\ net[x].current => net[x].page.version >= net[x].saved

\* A page has the filter its tag stands for.
TagsKnowTheFilter ==
  /\ \A u \in Urls : Kept(store[u]) => store[u].page.type = TypeOfTag(store[u].tag)
  /\ \A x \in Exchanges :
       /\ net[x].is = "get" /\ Kept(net[x].copy)
            => net[x].copy.page.type = TypeOfTag(net[x].copy.tag)
       /\ net[x].is = "page" =>
            /\ net[x].page.type = TypeOfTag(net[x].tag)
            /\ net[x].page.type = getFileTypeFilter(net[x].url, net[x].jar)

IInv ==
  /\ TypeOK /\ Shapes
  /\ OldBusts /\ NewBusts /\ SavedIsWritten
  /\ StoreIsCurrent /\ VisitsAreCurrent /\ CopiesAreCurrent /\ PagesAreCurrent
  /\ TagsKnowTheFilter

-----------------------------------------------------------------------------
\* A message is of the kind it says.
LEMMA Kinds ==
  ASSUME NEW m \in Messages
  PROVE  /\ m.is \in {"quiet", "post", "get", "page", "saved", "refused"}
         /\ m.is = "get" => m \in Request
         /\ m.is = "page" => m \in Response
         /\ m.is = "saved" => m \in [is : {"saved"}, bust : Nat, version : Nat]
         /\ m.is = "refused" => m \in [is : {"refused"}, bust : Nat]
BY DEF Messages, Request, Response, Quiet

\* A stored page is a page, or there is none.
LEMMA StoredKinds ==
  ASSUME NEW s \in Stored
  PROVE  Kept(s) \/ (s.tag = NoTag /\ s.page = NoPage)
BY DEF Stored, Nothing, Kept

LEMMA NetMessages ==
  ASSUME TypeOK, NEW x \in Exchanges
  PROVE  net[x] \in Messages
BY DEF TypeOK, Messages

LEMMA IInvInit == Init => IInv
<1> SUFFICES ASSUME Init PROVE IInv
  OBVIOUS
<1>1. ~Kept(Nothing)
  <2>1. ASSUME Kept(Nothing) PROVE FALSE
    <3>1. NoTag \in Tag
      BY <2>1 DEF Kept, Nothing
    <3>2. NoTag.path \in {"gallery", "file"}
      BY <3>1 DEF Tag
    <3> QED BY <3>2 DEF NoTag, None
  <2> QED BY <2>1
<1>2. TypeOK /\ Shapes
  BY DEF Init, TypeOK, Shapes, Jar, None, NoBust, Stored
<1>3. \A x \in Exchanges : ~Visit(net[x]) /\ ~Ack(net[x]) /\ net[x].is = "quiet"
  BY DEF Init, Quiet, Visit, Ack
<1>4. \A u \in Urls : ~Kept(store[u])
  BY <1>1 DEF Init
<1> QED
  BY <1>2, <1>3, <1>4
  DEF Init, IInv, NoBust, OldBusts, NewBusts, SavedIsWritten, StoreIsCurrent,
      VisitsAreCurrent, CopiesAreCurrent, PagesAreCurrent, TagsKnowTheFilter

\* What a page knows of its URL and of the cookies.
LEMMA PageTypes ==
  ASSUME NEW u \in Urls, NEW c \in Jar, writes \in Nat
  PROVE  /\ computeETag(u, c) \in Tag /\ computeETag(u, c).bust = c.bust
         /\ PageFor(u, c) \in Page /\ PageFor(u, c).version = writes
         /\ PageFor(u, c).type = getFileTypeFilter(u, c)
         /\ getFileTypeFilter(u, c) = TypeOfTag(computeETag(u, c))
         /\ SetCookies(u, c) \in [sort : Sorts \union {None, "keep"},
                                  type : Types \union {None, "keep"}]
BY PageCacheAssumption
DEF computeETag, PageFor, getFileTypeFilter, getSortFiles, SetCookies, TypeOfTag,
    Jar, Tag, Page, Keep, None, Clear

-----------------------------------------------------------------------------
\* What a message must be like to be put into exchange x.
Fits(x, m) ==
  /\ m \in Messages /\ ~Ack(m)
  /\ Visit(m) =>
       /\ m.jar.bust < busts /\ m.saved <= saved
       /\ \A y \in Exchanges : Ack(net[y]) => m.jar.bust # net[y].bust
       /\ current /\ m.jar.bust = jar.bust => m.current /\ m.saved = saved
  /\ m.is = "get" /\ Kept(m.copy) =>
       /\ m.current /\ m.copy.tag.bust = m.jar.bust => m.copy.page.version >= m.saved
       /\ m.copy.page.type = TypeOfTag(m.copy.tag)
  /\ m.is = "page" =>
       /\ m.tag.bust = m.jar.bust
       /\ m.current => m.page.version >= m.saved
       /\ m.page.type = TypeOfTag(m.tag)
       /\ m.page.type = getFileTypeFilter(m.url, m.jar)

\* A message that fits keeps the invariant.
LEMMA PutStep ==
  ASSUME IInv, NEW x \in Exchanges, NEW m, Fits(x, m), Put(x, m),
         UNCHANGED <<writes, busts, jar, store, saved, current, recent>>
  PROVE  IInv'
<1>1. net' = [net EXCEPT ![x] = m] /\ DOMAIN net = Exchanges /\ m \in Messages
  BY DEF Put, IInv, Shapes, Fits
<1>2. net'[x] = m /\ \A y \in Exchanges : y # x => net'[y] = net[y]
  BY <1>1
<1>3. TypeOK'
  <2>1. \A y \in Exchanges : net'[y] \in Messages
    BY <1>1, <1>2, NetMessages DEF IInv
  <2> QED BY <2>1 DEF IInv, TypeOK, Messages
<1>4. Shapes'
  BY <1>1 DEF IInv, Shapes
<1>5. OldBusts'
  BY <1>2 DEF IInv, OldBusts, Fits
<1>6. NewBusts'
  BY <1>2 DEF IInv, NewBusts, Fits
<1>7. SavedIsWritten'
  BY <1>2 DEF IInv, SavedIsWritten, Fits, Ack
<1>8. StoreIsCurrent'
  BY DEF IInv, StoreIsCurrent
<1>9. VisitsAreCurrent'
  BY <1>2 DEF IInv, VisitsAreCurrent, Fits
<1>10. CopiesAreCurrent'
  BY <1>2 DEF IInv, CopiesAreCurrent, Fits
<1>11. PagesAreCurrent'
  BY <1>2 DEF IInv, PagesAreCurrent, Fits
<1>12. TagsKnowTheFilter'
  BY <1>2 DEF IInv, TagsKnowTheFilter, Fits
<1> QED
  BY <1>3, <1>4, <1>5, <1>6, <1>7, <1>8, <1>9, <1>10, <1>11, <1>12 DEF IInv

\* The browser asks with its present cookies and the copy it has.
LEMMA GetStep ==
  ASSUME IInv, NEW x \in Exchanges, NEW u \in Urls, Get(x, u)
  PROVE  IInv'
<1> DEFINE m == [is |-> "get", url |-> u, jar |-> jar, copy |-> store[u],
                 saved |-> saved, current |-> current, recent |-> recent]
<1>1. m.is = "get" /\ m.url = u /\ m.jar = jar /\ m.copy = store[u]
      /\ m.saved = saved /\ m.current = current
  OBVIOUS
<1>2. m \in Request
  BY DEF IInv, TypeOK, Request
<1>3. m \in Messages /\ ~Ack(m)
  BY <1>2 DEF Messages, Ack
<1>4. Put(x, m) /\ UNCHANGED <<writes, busts, jar, store, saved, current, recent>>
  BY DEF Get
<1> HIDE DEF m
<1>5. saved \in Nat
  BY DEF IInv, TypeOK
<1>6. Fits(x, m)
  BY <1>1, <1>3, <1>5
  DEF Fits, IInv, OldBusts, NewBusts, StoreIsCurrent, TagsKnowTheFilter
<1> QED BY <1>4, <1>6, PutStep

\* A 304 stands for a copy whose tag is that of the request.
LEMMA CopyFits ==
  ASSUME IInv, NEW x \in Exchanges, net[x].is = "get", NotModified(net[x]),
         NEW cookies \in [sort : Sorts \union {None, "keep"}, type : Types \union {None, "keep"}]
  PROVE  Fits(x, Answer(net[x], net[x].copy.tag, net[x].copy.page, cookies))
<1> DEFINE m == net[x]
           a == Answer(m, m.copy.tag, m.copy.page, cookies)
<1>1. m \in Request
  BY NetMessages, Kinds DEF IInv
<1>2. m.url \in Urls /\ m.jar \in Jar /\ m.copy \in Stored /\ m.saved \in Nat
      /\ m.current \in BOOLEAN /\ m.recent \in Sorts \union {None}
  BY <1>1 DEF Request
<1>3. writes \in Nat
  BY DEF IInv, TypeOK
<1>4. /\ computeETag(m.url, m.jar) \in Tag
      /\ computeETag(m.url, m.jar).bust = m.jar.bust
      /\ getFileTypeFilter(m.url, m.jar) = TypeOfTag(computeETag(m.url, m.jar))
  BY <1>2, <1>3, PageTypes
<1>5. m.copy.tag = computeETag(m.url, m.jar)
  BY DEF NotModified
<1>6. Kept(m.copy)
  <2>1. NoTag \notin Tag
    <3>1. ASSUME NoTag \in Tag PROVE FALSE
      <4>1. NoTag.path \in {"gallery", "file"}
        BY <3>1 DEF Tag
      <4> QED BY <4>1 DEF NoTag, None
    <3> QED BY <3>1
  <2> QED BY <1>2, <1>4, <1>5, <2>1, StoredKinds
<1>7. m.copy.tag \in Tag /\ m.copy.page \in Page
  BY <1>6 DEF Kept
<1>8. /\ a.is = "page" /\ a.url = m.url /\ a.jar = m.jar /\ a.tag = m.copy.tag
      /\ a.page = m.copy.page /\ a.saved = m.saved /\ a.current = m.current
  BY DEF Answer
<1>9. a \in Response
  BY <1>2, <1>7 DEF Answer, Response
<1>10. a \in Messages /\ ~Ack(a)
  BY <1>8, <1>9 DEF Messages, Ack
<1>11. Visit(m)
  BY DEF Visit
<1>12. /\ m.jar.bust < busts /\ m.saved <= saved
       /\ \A y \in Exchanges : Ack(net[y]) => m.jar.bust # net[y].bust
       /\ current /\ m.jar.bust = jar.bust => m.current /\ m.saved = saved
  BY <1>11 DEF IInv, OldBusts, SavedIsWritten, NewBusts, VisitsAreCurrent
<1>13. /\ m.current => m.copy.page.version >= m.saved
       /\ m.copy.page.type = TypeOfTag(m.copy.tag)
  BY <1>4, <1>5, <1>6 DEF IInv, CopiesAreCurrent, TagsKnowTheFilter
<1> HIDE DEF a, m
<1>14. Fits(x, a)
  BY <1>4, <1>5, <1>8, <1>10, <1>12, <1>13 DEF Fits
<1> QED BY <1>14 DEF a, m

\* A page the handler makes is of the version the database has now.
LEMMA FreshFits ==
  ASSUME IInv, NEW x \in Exchanges, net[x].is = "get"
  PROVE  Fits(x, Fresh(net[x]))
<1> DEFINE m == net[x]
           a == Fresh(m)
<1>1. m \in Request
  BY NetMessages, Kinds DEF IInv
<1>2. m.url \in Urls /\ m.jar \in Jar /\ m.saved \in Nat
      /\ m.current \in BOOLEAN /\ m.recent \in Sorts \union {None}
  BY <1>1 DEF Request
<1>3. writes \in Nat /\ saved \in Nat
  BY DEF IInv, TypeOK
<1> DEFINE tag == computeETag(m.url, m.jar)
           page == PageFor(m.url, m.jar)
           cookies == SetCookies(m.url, m.jar)
<1>4. /\ tag \in Tag /\ tag.bust = m.jar.bust
      /\ page \in Page /\ page.version = writes
      /\ page.type = getFileTypeFilter(m.url, m.jar)
      /\ page.type = TypeOfTag(tag)
      /\ cookies \in [sort : Sorts \union {None, "keep"}, type : Types \union {None, "keep"}]
  BY <1>2, <1>3, PageTypes
<1>5. a = Answer(m, tag, page, cookies)
  BY DEF Fresh
<1> HIDE DEF tag, page, cookies
<1>6. /\ a.is = "page" /\ a.url = m.url /\ a.jar = m.jar /\ a.tag = tag
      /\ a.page = page /\ a.saved = m.saved /\ a.current = m.current
  BY <1>5 DEF Answer
<1>7. a \in Response
  BY <1>2, <1>4, <1>5 DEF Answer, Response
<1>8. a \in Messages /\ ~Ack(a)
  BY <1>6, <1>7 DEF Messages, Ack
<1>9. Visit(m)
  BY DEF Visit
<1>10. /\ m.jar.bust < busts /\ m.saved <= saved /\ saved <= writes
       /\ \A y \in Exchanges : Ack(net[y]) => m.jar.bust # net[y].bust
       /\ current /\ m.jar.bust = jar.bust => m.current /\ m.saved = saved
  BY <1>9 DEF IInv, OldBusts, SavedIsWritten, NewBusts, VisitsAreCurrent
<1> HIDE DEF a, m
<1>11. page.version >= m.saved
  BY <1>2, <1>3, <1>4, <1>10
<1>12. Fits(x, a)
  BY <1>4, <1>6, <1>8, <1>10, <1>11 DEF Fits
<1> QED BY <1>12 DEF a, m

\* The answers of the server to a visit.
LEMMA ServePageStep ==
  ASSUME IInv, NEW x \in Exchanges,
         GalleryNotModified(x) \/ handleGallery(x) \/ handleGalleryFile(x)
  PROVE  IInv'
<1>1. CASE GalleryNotModified(x)
  <2>1. Keep \in [sort : Sorts \union {None, "keep"}, type : Types \union {None, "keep"}]
    BY DEF Keep
  <2>2. Fits(x, Answer(net[x], net[x].copy.tag, net[x].copy.page, Keep))
    BY <1>1, <2>1, CopyFits DEF GalleryNotModified
  <2> QED BY <1>1, <2>2, PutStep DEF GalleryNotModified
<1>2. CASE handleGallery(x)
  BY <1>2, FreshFits, PutStep DEF handleGallery
<1>3. CASE handleGalleryFile(x)
  <2> DEFINE m == net[x]
             cookies == SetCookies(m.url, m.jar)
  <2>1. cookies \in [sort : Sorts \union {None, "keep"}, type : Types \union {None, "keep"}]
    <3>1. m \in Request
      BY <1>3, NetMessages, Kinds DEF IInv, handleGalleryFile
    <3>2. m.url \in Urls /\ m.jar \in Jar /\ writes \in Nat
      BY <3>1 DEF Request, IInv, TypeOK
    <3> QED BY <3>2, PageTypes
  <2>2. CASE NotModified(m)
    <3>1. Fits(x, Answer(m, m.copy.tag, m.copy.page, cookies))
      BY <1>3, <2>1, <2>2, CopyFits DEF handleGalleryFile
    <3> QED BY <1>3, <2>2, <3>1, PutStep DEF handleGalleryFile
  <2>3. CASE ~NotModified(m)
    BY <1>3, <2>3, FreshFits, PutStep DEF handleGalleryFile
  <2> QED BY <2>2, <2>3
<1> QED BY <1>1, <1>2, <1>3

\* A rating is sent, or an exchange comes to nothing.
LEMMA RateOrLoseStep ==
  ASSUME IInv, NEW x \in Exchanges, Rate(x) \/ Lose(x)
  PROVE  IInv'
<1>1. ASSUME NEW m \in {Quiet, [is |-> "post"]}
      PROVE  Fits(x, m)
  <2>1. m \in Messages /\ m.is \in {"quiet", "post"}
    BY <1>1 DEF Messages, Quiet
  <2> QED BY <2>1 DEF Fits, Ack, Visit
<1>2. CASE Rate(x)
  BY <1>1, <1>2, PutStep DEF Rate
<1>3. CASE Lose(x)
  BY <1>1, <1>3, PutStep DEF Lose
<1> QED BY <1>2, <1>3

\* The page is shown and stored under the tag of its answer.
LEMMA ShowStep ==
  ASSUME IInv, NEW x \in Exchanges, Show(x)
  PROVE  IInv'
<1> DEFINE m == net[x]
<1>1. m \in Response /\ m.is = "page" /\ Visit(m)
  BY NetMessages, Kinds DEF IInv, Show, Visit
<1>2. /\ m.url \in Urls /\ m.jar \in Jar /\ m.tag \in Tag /\ m.page \in Page /\ m.saved \in Nat
      /\ m.set.sort \in Sorts \union {None, "keep"} /\ m.set.type \in Types \union {None, "keep"}
  BY <1>1 DEF Response
<1>3. /\ net' = [net EXCEPT ![x] = Quiet]
      /\ store' = [store EXCEPT ![m.url] = [tag |-> m.tag, page |-> m.page]]
      /\ jar' = [jar EXCEPT !.sort = Merge(@, m.set.sort), !.type = Merge(@, m.set.type)]
      /\ recent' = m.page.sort
      /\ UNCHANGED <<writes, busts, saved, current>>
  BY DEF Show, Put
<1>4. /\ net'[x] = Quiet /\ \A y \in Exchanges : y # x => net'[y] = net[y]
      /\ store'[m.url] = [tag |-> m.tag, page |-> m.page]
      /\ \A u \in Urls : u # m.url => store'[u] = store[u]
  BY <1>2, <1>3 DEF IInv, Shapes
<1>5. ~Visit(Quiet) /\ ~Ack(Quiet) /\ Quiet.is = "quiet"
  BY DEF Visit, Ack, Quiet
<1>6. jar' \in Jar /\ jar'.bust = jar.bust
  BY <1>2, <1>3 DEF IInv, TypeOK, Jar, Merge
<1>7. Kept(store'[m.url]) /\ store'[m.url].tag = m.tag /\ store'[m.url].page = m.page
  BY <1>2, <1>4 DEF Kept
<1>8. /\ m.tag.bust = m.jar.bust /\ m.jar.bust < busts
      /\ \A y \in Exchanges : Ack(net[y]) => m.jar.bust # net[y].bust
      /\ m.current => m.page.version >= m.saved
      /\ current /\ m.jar.bust = jar.bust => m.current /\ m.saved = saved
      /\ m.page.type = TypeOfTag(m.tag)
  BY <1>1 DEF IInv, PagesAreCurrent, OldBusts, NewBusts, VisitsAreCurrent, TagsKnowTheFilter
<1> HIDE DEF m
<1>9. TypeOK'
  <2>1. \A y \in Exchanges : net'[y] \in Messages
    BY <1>4, NetMessages DEF IInv, Messages
  <2>2. \A u \in Urls : store'[u] \in Stored
    BY <1>4, <1>7 DEF IInv, TypeOK, Stored, Kept
  <2>3. recent' \in Sorts \union {None}
    BY <1>2, <1>3 DEF Page
  <2> QED BY <1>3, <1>6, <2>1, <2>2, <2>3 DEF IInv, TypeOK, Messages
<1>10. Shapes'
  BY <1>3 DEF IInv, Shapes
<1>11. OldBusts'
  BY <1>3, <1>4, <1>5, <1>6, <1>7, <1>8 DEF IInv, OldBusts
<1>12. NewBusts'
  BY <1>4, <1>5, <1>6, <1>7, <1>8 DEF IInv, NewBusts
<1>13. SavedIsWritten'
  BY <1>3, <1>4, <1>5 DEF IInv, SavedIsWritten
<1>14. StoreIsCurrent'
  BY <1>3, <1>4, <1>6, <1>7, <1>8 DEF IInv, StoreIsCurrent
<1>15. VisitsAreCurrent'
  BY <1>3, <1>4, <1>5, <1>6 DEF IInv, VisitsAreCurrent
<1>16. CopiesAreCurrent'
  BY <1>4, <1>5 DEF IInv, CopiesAreCurrent
<1>17. PagesAreCurrent'
  BY <1>4, <1>5 DEF IInv, PagesAreCurrent
<1>18. TagsKnowTheFilter'
  BY <1>4, <1>5, <1>7, <1>8 DEF IInv, TagsKnowTheFilter
<1> QED
  BY <1>9, <1>10, <1>11, <1>12, <1>13, <1>14, <1>15, <1>16, <1>17, <1>18 DEF IInv

\* A rating comes back with a cacheBust nobody has used.
LEMMA PostStep ==
  ASSUME IInv, NEW x \in Exchanges, Post(x) \/ PostFails(x)
  PROVE  IInv'
<1>1. PICK m \in Messages :
        /\ net' = [net EXCEPT ![x] = m]
        /\ Ack(m) /\ m.bust = busts /\ (m.is = "saved" => m.version = writes')
        /\ busts' = busts + 1 /\ writes' \in {writes, writes + 1}
        /\ UNCHANGED <<jar, store, saved, current, recent>>
  <2>1. writes \in Nat /\ busts \in Nat
    BY DEF IInv, TypeOK
  <2>2. CASE Post(x)
    <3> DEFINE m == [is |-> "saved", bust |-> busts, version |-> writes']
    <3>1. m \in Messages
      BY <2>1, <2>2 DEF Messages, Post
    <3>2. Ack(m) /\ m.bust = busts /\ m.version = writes'
      BY DEF Ack
    <3> QED BY <2>2, <3>1, <3>2 DEF Post, Put
  <2>3. CASE PostFails(x)
    <3> DEFINE m == [is |-> "refused", bust |-> busts]
    <3>1. m \in Messages
      BY <2>1 DEF Messages
    <3>2. Ack(m) /\ m.bust = busts /\ m.is # "saved"
      BY DEF Ack
    <3> QED BY <2>3, <3>1, <3>2 DEF PostFails, Put
  <2> QED BY <2>2, <2>3
<1>2. net'[x] = m /\ \A y \in Exchanges : y # x => net'[y] = net[y]
  BY <1>1 DEF IInv, Shapes
<1>3. ~Visit(m) /\ m.is \notin {"get", "page"}
  BY <1>1 DEF Ack, Visit
<1>4. writes \in Nat /\ busts \in Nat /\ saved \in Nat /\ jar.bust \in Nat
  BY DEF IInv, TypeOK, Jar
<1>5. \A u \in Urls : Kept(store[u]) => store[u].tag.bust \in Nat
  BY DEF Kept, Tag
<1>6. \A y \in Exchanges :
        /\ Visit(net[y]) => net[y].jar.bust \in Nat /\ net[y].saved \in Nat
        /\ Ack(net[y]) => net[y].bust \in Nat
        /\ net[y].is = "saved" => net[y].version \in Nat
  BY NetMessages, Kinds DEF IInv, Visit, Ack, Request, Response, Jar
<1>7. TypeOK'
  <2>1. \A y \in Exchanges : net'[y] \in Messages
    BY <1>2, NetMessages DEF IInv
  <2> QED BY <1>1, <1>4, <2>1 DEF IInv, TypeOK, Messages
<1>8. Shapes'
  BY <1>1 DEF IInv, Shapes
<1>9. OldBusts'
  BY <1>1, <1>2, <1>3, <1>4, <1>5, <1>6 DEF IInv, OldBusts
<1>10. NewBusts'
  BY <1>1, <1>2, <1>3, <1>4, <1>5, <1>6 DEF IInv, OldBusts, NewBusts
<1>11. SavedIsWritten'
  BY <1>1, <1>2, <1>3, <1>4, <1>6 DEF IInv, SavedIsWritten
<1>12. StoreIsCurrent'
  BY <1>1 DEF IInv, StoreIsCurrent
<1>13. VisitsAreCurrent'
  BY <1>1, <1>2, <1>3 DEF IInv, VisitsAreCurrent
<1>14. CopiesAreCurrent'
  BY <1>2, <1>3 DEF IInv, CopiesAreCurrent
<1>15. PagesAreCurrent'
  BY <1>2, <1>3 DEF IInv, PagesAreCurrent
<1>16. TagsKnowTheFilter'
  BY <1>1, <1>2, <1>3 DEF IInv, TagsKnowTheFilter
<1> QED
  BY <1>7, <1>8, <1>9, <1>10, <1>11, <1>12, <1>13, <1>14, <1>15, <1>16 DEF IInv

\* The browser takes over the new cacheBust, under which it has nothing yet.
LEMMA AckStep ==
  ASSUME IInv, NEW x \in Exchanges, Saved(x) \/ Refused(x)
  PROVE  IInv'
<1> DEFINE m == net[x]
<1>1. /\ Ack(m) /\ m.bust \in Nat
      /\ net' = [net EXCEPT ![x] = Quiet]
      /\ jar' = [jar EXCEPT !.bust = m.bust]
      /\ saved' \in Nat /\ saved <= saved' /\ saved' <= writes
      /\ current' \in BOOLEAN
      /\ UNCHANGED <<writes, busts, store, recent>>
  <2>1. writes \in Nat /\ saved \in Nat /\ saved <= writes /\ current \in BOOLEAN
    BY DEF IInv, TypeOK, SavedIsWritten
  <2>2. CASE Saved(x)
    <3>1. m.is = "saved" /\ m.bust \in Nat /\ m.version \in Nat /\ m.version <= writes
      BY <2>2, NetMessages, Kinds DEF Saved, IInv, SavedIsWritten
    <3>2. saved' = Newer(saved, m.version)
      BY <2>2 DEF Saved
    <3> HIDE DEF m
    <3>3. saved' \in Nat /\ saved <= saved' /\ saved' <= writes
      BY <2>1, <3>1, <3>2 DEF Newer
    <3> QED BY <2>2, <3>1, <3>3 DEF Saved, Put, Ack, m
  <2>3. CASE Refused(x)
    <3>1. m.is = "refused" /\ m.bust \in Nat
      BY <2>3, NetMessages, Kinds DEF Refused, IInv
    <3> QED BY <2>1, <2>3, <3>1 DEF Refused, Put, Ack
  <2> QED BY <2>2, <2>3
<1>2. net'[x] = Quiet /\ \A y \in Exchanges : y # x => net'[y] = net[y]
  BY <1>1 DEF IInv, Shapes
<1>3. ~Visit(Quiet) /\ ~Ack(Quiet) /\ Quiet.is = "quiet"
  BY DEF Visit, Ack, Quiet
<1>4. jar' \in Jar /\ jar'.bust = m.bust
  BY <1>1 DEF IInv, TypeOK, Jar
<1>5. /\ m.bust < busts
      /\ \A u \in Urls : Kept(store[u]) => store[u].tag.bust # m.bust
      /\ \A y \in Exchanges :
           /\ Visit(net[y]) => net[y].jar.bust # m.bust
           /\ Ack(net[y]) /\ y # x => net[y].bust # m.bust
  BY <1>1 DEF IInv, OldBusts, NewBusts
<1> HIDE DEF m
<1>6. TypeOK'
  <2>1. \A y \in Exchanges : net'[y] \in Messages
    BY <1>2, NetMessages DEF IInv, Messages
  <2> QED BY <1>1, <1>4, <2>1 DEF IInv, TypeOK, Messages
<1>7. Shapes'
  BY <1>1 DEF IInv, Shapes
<1>8. OldBusts'
  BY <1>1, <1>2, <1>3, <1>4, <1>5 DEF IInv, OldBusts
<1>9. NewBusts'
  BY <1>1, <1>2, <1>3, <1>4, <1>5 DEF IInv, NewBusts
<1>10. SavedIsWritten'
  <2>1. saved \in Nat /\ \A y \in Exchanges : Visit(net[y]) => net[y].saved \in Nat
    BY NetMessages, Kinds DEF IInv, TypeOK, Visit, Request, Response
  <2> QED BY <1>1, <1>2, <1>3, <2>1 DEF IInv, SavedIsWritten
<1>11. StoreIsCurrent' /\ VisitsAreCurrent'
  BY <1>1, <1>2, <1>3, <1>4, <1>5 DEF StoreIsCurrent, VisitsAreCurrent
<1>12. CopiesAreCurrent' /\ PagesAreCurrent'
  BY <1>2, <1>3 DEF IInv, CopiesAreCurrent, PagesAreCurrent
<1>13. TagsKnowTheFilter'
  BY <1>1, <1>2, <1>3 DEF IInv, TagsKnowTheFilter
<1> QED
  BY <1>6, <1>7, <1>8, <1>9, <1>10, <1>11, <1>12, <1>13 DEF IInv

\* Somebody else writes to the database.
LEMMA OthersWriteStep == IInv /\ OthersWrite => IInv'
<1> SUFFICES ASSUME IInv, OthersWrite PROVE IInv'
  OBVIOUS
<1>1. /\ writes' = writes + 1 /\ writes \in Nat /\ saved \in Nat
      /\ UNCHANGED <<busts, jar, store, net, saved, current, recent>>
  BY DEF OthersWrite, IInv, TypeOK
<1>2. TypeOK'
  BY <1>1 DEF IInv, TypeOK, Stored, Request, Response
<1>3. SavedIsWritten'
  <2>1. \A x \in Exchanges : net[x].is = "saved" => net[x].version \in Nat
    BY NetMessages, Kinds DEF IInv
  <2> QED BY <1>1, <2>1 DEF IInv, SavedIsWritten
<1>4. /\ Shapes' /\ OldBusts' /\ NewBusts' /\ StoreIsCurrent' /\ VisitsAreCurrent'
      /\ CopiesAreCurrent' /\ PagesAreCurrent' /\ TagsKnowTheFilter'
  BY <1>1 DEF IInv, Shapes, OldBusts, NewBusts, StoreIsCurrent, VisitsAreCurrent,
              CopiesAreCurrent, PagesAreCurrent, TagsKnowTheFilter
<1> QED BY <1>2, <1>3, <1>4 DEF IInv

\* The browser forgets a page.
LEMMA EvictStep ==
  ASSUME IInv, NEW v \in Urls, Evict(v)
  PROVE  IInv'
<1>1. /\ store' = [store EXCEPT ![v] = Nothing]
      /\ UNCHANGED <<writes, busts, jar, net, saved, current, recent>>
  BY DEF Evict
<1>2. store'[v] = Nothing /\ \A u \in Urls : u # v => store'[u] = store[u]
  BY <1>1 DEF IInv, Shapes
<1>3. ~Kept(Nothing)
  <2>1. ASSUME Kept(Nothing) PROVE FALSE
    <3>1. NoTag \in Tag
      BY <2>1 DEF Kept, Nothing
    <3>2. NoTag.path \in {"gallery", "file"}
      BY <3>1 DEF Tag
    <3> QED BY <3>2 DEF NoTag, None
  <2> QED BY <2>1
<1>4. TypeOK'
  <2>1. \A u \in Urls : store'[u] \in Stored
    BY <1>2 DEF IInv, TypeOK, Stored
  <2> QED BY <1>1, <2>1 DEF IInv, TypeOK
<1>5. Shapes' /\ SavedIsWritten' /\ VisitsAreCurrent' /\ CopiesAreCurrent' /\ PagesAreCurrent'
  BY <1>1 DEF IInv, Shapes, SavedIsWritten, VisitsAreCurrent, CopiesAreCurrent, PagesAreCurrent
<1>6. OldBusts' /\ NewBusts' /\ StoreIsCurrent' /\ TagsKnowTheFilter'
  BY <1>1, <1>2, <1>3 DEF IInv, OldBusts, NewBusts, StoreIsCurrent, TagsKnowTheFilter
<1> QED BY <1>4, <1>5, <1>6 DEF IInv

\* A default of the sort or of the file type expires.
LEMMA ExpireStep == IInv /\ Expire => IInv'
<1> SUFFICES ASSUME IInv, Expire PROVE IInv'
  OBVIOUS
<1>1. /\ jar' \in Jar /\ jar'.bust = jar.bust /\ recent' \in Sorts \union {None}
      /\ UNCHANGED <<writes, busts, store, net, saved, current>>
  BY DEF Expire, IInv, TypeOK, Jar
<1>2. TypeOK'
  BY <1>1 DEF IInv, TypeOK
<1>3. /\ Shapes' /\ OldBusts' /\ NewBusts' /\ SavedIsWritten' /\ StoreIsCurrent'
      /\ VisitsAreCurrent' /\ CopiesAreCurrent' /\ PagesAreCurrent' /\ TagsKnowTheFilter'
  BY <1>1 DEF IInv, Shapes, OldBusts, NewBusts, SavedIsWritten, StoreIsCurrent,
              VisitsAreCurrent, CopiesAreCurrent, PagesAreCurrent, TagsKnowTheFilter
<1> QED BY <1>2, <1>3 DEF IInv

\* A new session has no cacheBust, and no acknowledged rating yet.
LEMMA RestartStep == IInv /\ Restart => IInv'
<1> SUFFICES ASSUME IInv, Restart PROVE IInv'
  OBVIOUS
<1>1. /\ jar' = [jar EXCEPT !.bust = 0] /\ net' = [x \in Exchanges |-> Quiet]
      /\ current' = FALSE /\ recent' = jar.sort
      /\ UNCHANGED <<writes, busts, store, saved>>
  BY DEF Restart, NoBust
<1>2. jar \in Jar /\ jar' \in Jar /\ jar'.bust = 0 /\ 0 < busts
  BY <1>1 DEF IInv, TypeOK, Jar, OldBusts
<1>3. \A x \in Exchanges : net'[x] = Quiet
  BY <1>1
<1>4. ~Visit(Quiet) /\ ~Ack(Quiet) /\ Quiet.is = "quiet"
  BY DEF Visit, Ack, Quiet
<1>5. TypeOK'
  BY <1>1, <1>2, <1>3 DEF IInv, TypeOK, Jar
<1>6. Shapes' /\ OldBusts' /\ NewBusts'
  BY <1>1, <1>2, <1>3, <1>4 DEF IInv, Shapes, OldBusts, NewBusts
<1>7. SavedIsWritten' /\ StoreIsCurrent' /\ VisitsAreCurrent'
  BY <1>1, <1>3, <1>4 DEF IInv, SavedIsWritten, StoreIsCurrent, VisitsAreCurrent
<1>8. CopiesAreCurrent' /\ PagesAreCurrent' /\ TagsKnowTheFilter'
  BY <1>1, <1>3, <1>4 DEF IInv, CopiesAreCurrent, PagesAreCurrent, TagsKnowTheFilter
<1> QED BY <1>5, <1>6, <1>7, <1>8 DEF IInv

-----------------------------------------------------------------------------
LEMMA IInvStep == IInv /\ [Next]_vars => IInv'
<1> SUFFICES ASSUME IInv, [Next]_vars PROVE IInv'
  OBVIOUS
<1>1. CASE UNCHANGED vars
  BY <1>1
  DEF vars, IInv, TypeOK, Shapes, OldBusts, NewBusts, SavedIsWritten, StoreIsCurrent,
      VisitsAreCurrent, CopiesAreCurrent, PagesAreCurrent, TagsKnowTheFilter
<1>2. ASSUME NEW x \in Exchanges, NEW u \in Urls, Get(x, u) PROVE IInv'
  BY <1>2, GetStep
<1>3. ASSUME NEW x \in Exchanges, Rate(x) \/ Lose(x) PROVE IInv'
  BY <1>3, RateOrLoseStep
<1>4. ASSUME NEW x \in Exchanges, Serve(x) PROVE IInv'
  BY <1>4, ServePageStep, PostStep DEF Serve
<1>5. ASSUME NEW x \in Exchanges, Show(x) PROVE IInv'
  BY <1>5, ShowStep
<1>6. ASSUME NEW x \in Exchanges, Saved(x) \/ Refused(x) PROVE IInv'
  BY <1>6, AckStep
<1>7. ASSUME NEW u \in Urls, Evict(u) PROVE IInv'
  BY <1>7, EvictStep
<1>8. CASE OthersWrite \/ Expire \/ Restart
  BY <1>8, OthersWriteStep, ExpireStep, RestartStep
<1> QED BY <1>1, <1>2, <1>3, <1>4, <1>5, <1>6, <1>7, <1>8 DEF Next

LEMMA IInvAlways == Spec => []IInv
BY IInvInit, IInvStep, PTL DEF Spec

\* Cookies, stored pages and messages keep their form: no "keep" of a response
\* becomes a cookie, and no unchecked file type.
THEOREM TypeCorrect == Spec => []TypeOK
<1>1. IInv => TypeOK
  BY DEF IInv
<1> QED BY <1>1, IInvAlways, PTL

\* Whoever asks for a page after a rating was acknowledged sees the rating, from
\* the handler or from the browser's cache, however answers overtake each other.
THEOREM RatingsAreRead == Spec => []ReadYourRatings
<1>1. IInv => ReadYourRatings
  BY DEF IInv, PagesAreCurrent, ReadYourRatings, Answers
<1> QED BY <1>1, IInvAlways, PTL

\* The filter of a page is that of its URL and of the cookies it was asked with,
\* whether it was made for them or called current by its tag.
THEOREM FiltersAreCurrent == Spec => []FilterIsCurrent
<1>1. IInv => FilterIsCurrent
  BY DEF IInv, TagsKnowTheFilter, FilterIsCurrent, Answers
<1> QED BY <1>1, IInvAlways, PTL

-----------------------------------------------------------------------------
(***************************************************************************)
(* The order of a page.  The tag does not know the cookie of the sort, but *)
(* it knows the sort of the URL: only a URL that names none can be         *)
(* answered with a page in another order than asked for.                   *)
(***************************************************************************)
NamedSortIsKept ==
  \A m \in Answers : m.url.sort # None => m.page.sort = m.url.sort

\* A page of u, if it is one, is sorted as u says.
SortedAs(u, page) == u.sort # None => page = NoPage \/ page.sort = u.sort

SortInv ==
  /\ \A u \in Urls : SortedAs(u, store[u].page)
  /\ \A x \in Exchanges :
       /\ net[x].is = "get" => SortedAs(net[x].url, net[x].copy.page)
       /\ net[x].is = "page" => net[x].url \in Urls /\ SortedAs(net[x].url, net[x].page)

LEMMA SortPutStep ==
  ASSUME IInv, SortInv, NEW x \in Exchanges, NEW m, Put(x, m), store' = store,
         m.is = "get" => SortedAs(m.url, m.copy.page),
         m.is = "page" => m.url \in Urls /\ SortedAs(m.url, m.page)
  PROVE  SortInv'
<1>1. net'[x] = m /\ \A y \in Exchanges : y # x => net'[y] = net[y]
  BY DEF Put, IInv, Shapes
<1> QED BY <1>1 DEF SortInv, SortedAs

LEMMA SortServeStep ==
  ASSUME IInv, SortInv, NEW x \in Exchanges,
         GalleryNotModified(x) \/ handleGallery(x) \/ handleGalleryFile(x)
  PROVE  SortInv'
<1> DEFINE m == net[x]
<1>1. /\ m.is = "get" /\ store' = store
      /\ \/ Put(x, Fresh(m))
         \/ \E cookies : Put(x, Answer(m, m.copy.tag, m.copy.page, cookies))
  BY DEF GalleryNotModified, handleGallery, handleGalleryFile
<1>2. m.url \in Urls /\ SortedAs(m.url, m.copy.page)
  BY <1>1, NetMessages, Kinds DEF IInv, SortInv, Request
<1>3. CASE Put(x, Fresh(m))
  <2> DEFINE a == Fresh(m)
  <2>1. a.is = "page" /\ a.url = m.url /\ a.page = PageFor(m.url, m.jar)
    BY DEF Fresh, Answer
  <2>2. SortedAs(a.url, a.page)
    BY <2>1 DEF SortedAs, PageFor, getSortFiles
  <2> HIDE DEF a
  <2> QED BY <1>1, <1>2, <1>3, <2>1, <2>2, SortPutStep DEF a
<1>4. ASSUME NEW cookies, Put(x, Answer(m, m.copy.tag, m.copy.page, cookies))
      PROVE  SortInv'
  <2> DEFINE a == Answer(m, m.copy.tag, m.copy.page, cookies)
  <2>1. a.is = "page" /\ a.url = m.url /\ a.page = m.copy.page
    BY DEF Answer
  <2> HIDE DEF a
  <2> QED BY <1>1, <1>2, <1>4, <2>1, SortPutStep DEF a
<1> QED BY <1>1, <1>3, <1>4

LEMMA SortStep == IInv /\ SortInv /\ [Next]_vars => SortInv'
<1> SUFFICES ASSUME IInv, SortInv, [Next]_vars PROVE SortInv'
  OBVIOUS
<1>1. DOMAIN store = Urls /\ DOMAIN net = Exchanges
  BY DEF IInv, Shapes
<1>2. ASSUME NEW x \in Exchanges, NEW u \in Urls, Get(x, u) PROVE SortInv'
  <2> DEFINE m == [is |-> "get", url |-> u, jar |-> jar, copy |-> store[u],
                   saved |-> saved, current |-> current, recent |-> recent]
  <2>1. m.is = "get" /\ m.url = u /\ m.copy = store[u]
    OBVIOUS
  <2>2. Put(x, m) /\ store' = store
    BY <1>2 DEF Get
  <2> HIDE DEF m
  <2> QED BY <2>1, <2>2, SortPutStep DEF SortInv
<1>3. ASSUME NEW x \in Exchanges,
             Rate(x) \/ Lose(x) \/ Post(x) \/ PostFails(x) \/ Saved(x) \/ Refused(x)
      PROVE  SortInv'
  <2>1. PICK m : Put(x, m) /\ store' = store /\ m.is \notin {"get", "page"}
    <3>1. Quiet.is \notin {"get", "page"}
      BY DEF Quiet
    <3> QED BY <1>3, <3>1 DEF Rate, Lose, Post, PostFails, Saved, Refused
  <2> QED BY <2>1, SortPutStep
<1>4. ASSUME NEW x \in Exchanges, Show(x) PROVE SortInv'
  <2> DEFINE m == net[x]
  <2>1. /\ m.is = "page" /\ Put(x, Quiet)
        /\ store' = [store EXCEPT ![m.url] = [tag |-> m.tag, page |-> m.page]]
    BY <1>4 DEF Show
  <2>2. /\ m.url \in Urls /\ SortedAs(m.url, m.page)
        /\ \A y \in Exchanges : net'[y] = IF y = x THEN Quiet ELSE net[y]
    BY <1>1, <2>1 DEF SortInv, Put
  <2>3. store'[m.url].page = m.page /\ \A u \in Urls : u # m.url => store'[u] = store[u]
    BY <1>1, <2>1, <2>2
  <2>4. \A u \in Urls : SortedAs(u, store'[u].page)
    BY <2>2, <2>3 DEF SortInv
  <2>5. Quiet.is = "quiet"
    BY DEF Quiet
  <2> QED BY <2>2, <2>4, <2>5 DEF SortInv, SortedAs
<1>5. ASSUME NEW x \in Exchanges, Serve(x) PROVE SortInv'
  BY <1>3, <1>5, SortServeStep DEF Serve
<1>6. ASSUME NEW u \in Urls, Evict(u) PROVE SortInv'
  <2>1. \A v \in Urls : store'[v] = IF v = u THEN Nothing ELSE store[v]
    BY <1>1, <1>6 DEF Evict
  <2>2. Nothing.page = NoPage /\ net' = net
    BY <1>6 DEF Nothing, Evict
  <2> QED BY <2>1, <2>2 DEF SortInv, SortedAs
<1>7. CASE OthersWrite \/ Expire \/ UNCHANGED vars
  BY <1>7 DEF OthersWrite, Expire, vars, SortInv, SortedAs
<1>8. CASE Restart
  BY <1>8 DEF Restart, Quiet, SortInv, SortedAs
<1> QED BY <1>2, <1>3, <1>4, <1>5, <1>6, <1>7, <1>8 DEF Next

\* A page whose URL names a sort order is in that order, from the handler or from the
\* cache, however requests and answers overtake each other; what the rail of a file
\* page lacks is a URL that names the sort of the gallery.
THEOREM NamedSortsAreKept == Spec => []NamedSortIsKept
<1>1. Init => SortInv
  BY DEF Init, SortInv, SortedAs, Nothing, Quiet
<1>2. IInv /\ SortInv => NamedSortIsKept
  <2> SUFFICES ASSUME IInv, SortInv, NEW x \in Exchanges, net[x].is = "page",
                      net[x].url.sort # None
               PROVE  net[x].page.sort = net[x].url.sort
    BY DEF NamedSortIsKept, Answers
  <2>1. net[x].page \in Page
    BY NetMessages, Kinds DEF IInv, Response
  <2>2. net[x].page # NoPage
    BY <2>1, PageCacheAssumption DEF Page, NoPage
  <2> QED BY <2>2 DEF SortInv, SortedAs
<1> QED BY <1>1, <1>2, SortStep, IInvAlways, PTL DEF Spec
=============================================================================
