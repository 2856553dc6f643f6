------------------------------ MODULE GithubProofs ------------------------------
(* What is read from GitHub is complete, fresh and within the budget, for any *)
(* results, failures and caches.                                              *)
EXTENDS DiscoveryLanes, SearchPages, Enrichment, Availability, FiniteSetTheorems, TLAPS

-----------------------------------------------------------------------------
(* The pages of a search.                                                    *)

SearchTyped ==
  /\ search \in [at : {"rest", "page", "done"}, page : Nat, size : Nat, last : Nat,
                 refresh : BOOLEAN, next : Nat]
  /\ chain \in [read : SUBSET Nat, size : Nat, partial : BOOLEAN, told : BOOLEAN]
\* What was filed came with a total of GitHub or without one, and is a page in full.
FiledInv ==
  \A k \in DOMAIN filed : filed[k].total \in {0, Results} /\ filed[k].returned = SizeOf(k[1], k[2])
\* A call that reads a page has read, with those before it, all pages in front of it.
ReadingInv ==
  search.at = "page" => search.page \in 1..search.last /\ chain.read = 1..(search.page - 1)
ChainInv ==
  search.at # "rest" => search.size \in 1..Exposed /\ chain.size = search.size
SearchInv == SearchTyped /\ FiledInv /\ ReadingInv /\ ChainInv /\ SearchSkipsNoPage

LEMMA SearchStarts == SearchInit => SearchInv
  BY SearchAssumption DEF SearchInit, SearchInv, SearchTyped, FiledInv, ReadingInv, ChainInv,
     SearchSkipsNoPage, Resting, NewChain, NoPage

LEMMA Products == \A a, b, c \in Nat : a <= b => a * c <= b * c /\ a * c \in Nat
  OBVIOUS

\* Behind a page that is not full, or that ends at the total, there is nothing.
LEMMA NothingBehind ==
  ASSUME NEW size \in 1..Exposed, NEW page \in Nat \ {0}, NEW total \in {0, Results},
         NEW returned, returned = SizeOf(size, page),
         ~(returned = size /\ (total = 0 \/ page * size < total)),
         NEW p \in Nat, p > page
  PROVE  SizeOf(size, p) = 0
<1>1. size \in Nat \ {0} /\ Results \in Nat
  BY SearchAssumption
<1>2. page * size <= (p - 1) * size /\ page * size \in Nat /\ (p - 1) * size \in Nat
  BY <1>1, Products
<1>3. (page - 1) * size = page * size - size
  BY <1>1
<1>4. Results <= page * size
  BY <1>1, <1>2, <1>3 DEF SizeOf, SmallerOf
<1> QED
  BY <1>1, <1>2, <1>4 DEF SizeOf

LEMMA PageIsRead ==
  ASSUME SearchInv, search.at = "page",
         NEW returned, NEW total \in {0, Results}, NEW partial \in BOOLEAN,
         ~partial => returned = SizeOf(search.size, search.page),
         Reads(returned, total, partial)
  PROVE  SearchTyped' /\ ReadingInv' /\ ChainInv' /\ SearchSkipsNoPage'
<1> DEFINE page == search.page
<1>1. page \in Nat \ {0} /\ search.size \in 1..Exposed /\ search.last \in Nat /\ page <= search.last
  BY DEF SearchInv, SearchTyped, ReadingInv, ChainInv
<1>2. chain.read \cup {page} = 1..page
  BY <1>1 DEF SearchInv, ReadingInv
<1> DEFINE told == Told(returned, total)
<1>3. chain' = [chain EXCEPT !.read = 1..page, !.partial = @ \/ partial, !.told = @ \/ told]
  BY <1>2 DEF Reads
<1>a. told \in BOOLEAN /\ (chain.told \/ told) \in BOOLEAN /\ (chain.partial \/ partial) \in BOOLEAN /\ 1..page \in SUBSET Nat
  BY <1>1 DEF Told
<1> HIDE DEF told
<1>4. chain \in [read : SUBSET Nat, size : Nat, partial : BOOLEAN, told : BOOLEAN]
  BY DEF SearchInv, SearchTyped
<1>5. /\ chain'.read = 1..page /\ chain'.size = search.size
      /\ chain'.partial = (chain.partial \/ partial) /\ chain'.told = (chain.told \/ told)
  BY <1>3, <1>4 DEF SearchInv, ChainInv
<1>6. chain' \in [read : SUBSET Nat, size : Nat, partial : BOOLEAN, told : BOOLEAN]
  BY <1>3, <1>4, <1>a
<1>7. search \in [at : {"rest", "page", "done"}, page : Nat, size : Nat, last : Nat,
                  refresh : BOOLEAN, next : Nat]
  BY DEF SearchInv, SearchTyped
<1>8. search' = AfterPage(returned, total)
  BY DEF Reads
<1>9. CASE ~More(page, returned, total)
  <2>1. search' = [search EXCEPT !.at = "done", !.next = NoPage]
    BY <1>8, <1>9 DEF AfterPage
  <2>2. search' \in [at : {"rest", "page", "done"}, page : Nat, size : Nat, last : Nat,
                     refresh : BOOLEAN, next : Nat]
        /\ search'.at = "done" /\ search'.next = NoPage /\ search'.size = search.size
    BY <1>7, <2>1 DEF NoPage
  <2>3. ASSUME ~partial, NEW p \in 1..Exposed, SizeOf(search.size, p) > 0
        PROVE  p \in 1..page
    <3>1. returned = SizeOf(search.size, page)
      BY <2>3
    <3>2. ~(returned = search.size /\ (total = 0 \/ page * search.size < total))
      BY <1>9 DEF More
    <3>3. p \in Nat /\ ~(p > page)
      BY <1>1, <2>3, <3>1, <3>2, NothingBehind
    <3> QED
      BY <1>1, <2>3, <3>3
  <2>4. SearchSkipsNoPage'
    BY <1>5, <2>2, <2>3 DEF SearchSkipsNoPage, NoPage
  <2> QED
    BY <1>1, <1>5, <1>6, <2>2, <2>4 DEF SearchTyped, ReadingInv, ChainInv
<1>10. CASE More(page, returned, total) /\ page # search.last
  <2>1. search' = [search EXCEPT !.page = @ + 1, !.next = search.page + 1]
    BY <1>8, <1>10 DEF AfterPage
  <2>2. search' \in [at : {"rest", "page", "done"}, page : Nat, size : Nat, last : Nat,
                     refresh : BOOLEAN, next : Nat]
        /\ search'.at = "page" /\ search'.page = page + 1 /\ search'.size = search.size
        /\ search'.last = search.last
    <3>1. page + 1 \in Nat
      BY <1>1
    <3> QED
      BY <1>7, <2>1, <3>1
  <2> QED
    BY <1>1, <1>5, <1>6, <1>10, <2>2 DEF SearchTyped, ReadingInv, ChainInv, SearchSkipsNoPage
<1>11. CASE More(page, returned, total) /\ page = search.last
  <2>0. search' = [search EXCEPT !.at = "done",
                     !.next = IF (page + 1) * search.size > Exposed THEN NoPage ELSE page + 1]
    BY <1>8, <1>11 DEF AfterPage
  <2> DEFINE next == IF (page + 1) * search.size > Exposed THEN NoPage ELSE page + 1
  <2>a. next \in Nat
    BY <1>1 DEF NoPage
  <2> HIDE DEF next
  <2>b. search' = [search EXCEPT !.at = "done", !.next = next]
    BY <2>0 DEF next
  <2>1. /\ search' \in [at : {"rest", "page", "done"}, page : Nat, size : Nat, last : Nat,
                        refresh : BOOLEAN, next : Nat]
        /\ search'.at = "done" /\ search'.size = search.size
        /\ search'.next = next
    BY <1>7, <2>a, <2>b
  <2>2. search'.next # NoPage => search'.next = page + 1
    BY <2>1 DEF next
  <2>3. search'.next = NoPage => told
    BY <1>1, <1>11, <2>1 DEF told, Told, NoPage, next
  <2>c. search'.next # NoPage => chain'.read = 1..(search'.next - 1)
    BY <1>1, <1>5, <2>2
  <2>d. search'.next = NoPage => chain'.told
    BY <1>5, <2>3
  <2>4. SearchSkipsNoPage'
    BY <2>c, <2>d DEF SearchSkipsNoPage
  <2> QED
    BY <1>1, <1>5, <1>6, <2>1, <2>4 DEF SearchTyped, ReadingInv, ChainInv
<1> QED
  BY <1>9, <1>10, <1>11

LEMMA SearchBegins ==
  ASSUME SearchInv, NEW page \in Nat, NEW perPage \in Nat, NEW maxPages \in 1..MostPages, NEW refresh \in BOOLEAN,
         Go(page, perPage, maxPages, refresh),
         chain' \in [read : SUBSET Nat, size : Nat, partial : BOOLEAN, told : BOOLEAN],
         chain'.read = 1..(page - 1), chain'.size = perPage
  PROVE  SearchInv'
<1>1. perPage \in 1..Exposed /\ page \in 1..(Exposed \div perPage)
  BY DEF Go, ValidSearch
<1> DEFINE most == Exposed \div perPage
           last == SmallerOf(page + maxPages - 1, most)
<1>2. most \in Nat
  BY <1>1, SearchAssumption
<1> HIDE DEF most
<1>3. last \in Nat /\ page \in 1..last
  BY <1>1, <1>2 DEF SmallerOf, most
<1>4. search' = [at |-> "page", page |-> page, size |-> perPage, refresh |-> refresh, next |-> NoPage, last |-> last]
  BY DEF Go, most
<1> HIDE DEF last
<1>5. UNCHANGED filed
  BY DEF Go
<1> QED
  BY <1>1, <1>3, <1>4, <1>5
  DEF SearchInv, SearchTyped, FiledInv, ReadingInv, ChainInv, SearchSkipsNoPage, NoPage, SizeOf

LEMMA SearchSteps == SearchInv /\ [SearchNext]_searchVars => SearchInv'
<1> SUFFICES ASSUME SearchInv, [SearchNext]_searchVars PROVE SearchInv'
  OBVIOUS
<1> USE DEF SearchInv
<1>1. ASSUME NEW perPage \in PageSizes, NEW maxPages \in 1..MostPages, NEW refresh \in BOOLEAN,
             StartSearch(perPage, maxPages, refresh)
      PROVE  SearchInv'
  <2>1. perPage \in Nat
    BY SearchAssumption
  <2>2. chain' = [read |-> {}, size |-> perPage, partial |-> FALSE, told |-> FALSE]
    BY <1>1 DEF StartSearch, NewChain
  <2>3. chain'.read = 1..(1 - 1) /\ chain'.size = perPage
        /\ chain' \in [read : SUBSET Nat, size : Nat, partial : BOOLEAN, told : BOOLEAN]
    BY <2>1, <2>2
  <2>4. Go(1, perPage, maxPages, refresh) /\ 1 \in Nat
    BY <1>1 DEF StartSearch
  <2> QED
    BY <2>1, <2>3, <2>4, SearchBegins
<1>2. ASSUME NEW maxPages \in 1..MostPages, NEW refresh \in BOOLEAN, GoOnSearching(maxPages, refresh)
      PROVE  SearchInv'
  <2>1. search.at = "done" /\ search.next # NoPage /\ UNCHANGED chain
        /\ Go(search.next, search.size, maxPages, refresh)
    BY <1>2 DEF GoOnSearching
  <2>2. search.next \in Nat /\ search.size \in Nat
    BY DEF SearchTyped
  <2>3. chain.read = 1..(search.next - 1) /\ chain.size = search.size
    BY <2>1 DEF SearchSkipsNoPage, ChainInv
  <2>4. chain' \in [read : SUBSET Nat, size : Nat, partial : BOOLEAN, told : BOOLEAN]
    BY <2>1 DEF SearchTyped
  <2> QED
    BY <2>1, <2>2, <2>3, <2>4, SearchBegins
<1>3. CASE UsePage
  <2>1. Key \in DOMAIN filed /\ search.at = "page"
    BY <1>3 DEF UsePage, IsFiled
  <2>2. filed[Key].returned = SizeOf(search.size, search.page) /\ filed[Key].total \in {0, Results}
    BY <2>1 DEF FiledInv, Key
  <2>3. Reads(filed[Key].returned, filed[Key].total, FALSE) /\ UNCHANGED filed
    BY <1>3 DEF UsePage
  <2>4. FiledInv'
    BY <2>3 DEF FiledInv, SizeOf
  <2> QED
    BY <2>1, <2>2, <2>3, <2>4, PageIsRead
<1>4. ASSUME NEW returned \in 0..Exposed, NEW total \in {0, Results}, NEW partial \in BOOLEAN,
             AskPage(returned, total, partial)
      PROVE  SearchInv'
  <2>1. /\ search.at = "page" /\ Reads(returned, total, partial)
        /\ ~partial => returned = SizeOf(search.size, search.page)
        /\ filed' = Filed(returned, total, partial)
    BY <1>4 DEF AskPage
  <2>2. ASSUME NEW k \in DOMAIN filed'
        PROVE  filed'[k].total \in {0, Results} /\ filed'[k].returned = SizeOf(k[1], k[2])
    <3>1. CASE partial
      BY <2>1, <3>1 DEF Filed, FiledInv
    <3>2. CASE ~partial /\ k = Key
      BY <2>1, <3>2 DEF Filed, Key
    <3>3. CASE ~partial /\ k # Key
      BY <2>1, <3>3 DEF Filed, FiledInv
    <3> QED
      BY <3>1, <3>2, <3>3
  <2>3. FiledInv'
    BY <2>2 DEF FiledInv, SizeOf
  <2> QED
    BY <2>1, <2>3, PageIsRead
<1>5. CASE LosePage
  <2>1. search' = [search EXCEPT !.at = "done", !.next = search.page] /\ UNCHANGED <<filed, chain>>
        /\ search.at = "page"
    BY <1>5 DEF LosePage, PageFails
  <2>2. search.page \in Nat \ {0} /\ chain.read = 1..(search.page - 1)
    BY <2>1 DEF ReadingInv, SearchTyped
  <2>3. /\ search' \in [at : {"rest", "page", "done"}, page : Nat, size : Nat, last : Nat,
                        refresh : BOOLEAN, next : Nat]
        /\ search'.at = "done" /\ search'.next = search.page /\ search'.size = search.size
    BY <2>1, <2>2 DEF SearchTyped
  <2> QED
    BY <2>1, <2>2, <2>3 DEF SearchTyped, FiledInv, ReadingInv, ChainInv, SearchSkipsNoPage, NoPage, SizeOf
<1>6. CASE Wait
  BY <1>6 DEF Wait, SearchTyped, FiledInv, ReadingInv, ChainInv, SearchSkipsNoPage, NoPage, SizeOf
<1>7. CASE UNCHANGED searchVars
  BY <1>7 DEF searchVars, SearchTyped, FiledInv, ReadingInv, ChainInv, SearchSkipsNoPage, NoPage, SizeOf
<1> QED
  BY <1>1, <1>2, <1>3, <1>4, <1>5, <1>6, <1>7 DEF SearchNext

\* However a search is cut into calls, resumed after a failure and answered from filed
\* pages, it passes over no page, and what is filed is a page in full.
THEOREM SearchesAreComplete == SearchSpec => []PagesAreComplete
<1>1. SearchInv => PagesAreComplete
  BY DEF SearchInv, PagesAreComplete, FiledPagesAreWhole, FiledInv
<1> QED
  BY SearchStarts, SearchSteps, <1>1, PTL DEF SearchSpec
-----------------------------------------------------------------------------
(* Enrichments.                                                              *)

Warnings == {"not_fetched", "comments_failed", "timeline_failed"}
Enrichments ==
  [version : Nat, details : {"none", "read"}, count : Nat, comments : {"none", "empty", "read"},
   timeline : {"none", "read"}, warnings : SUBSET Warnings, said : SUBSET {"details", "comments"}]
EnrichmentTasks ==
  [at : Reading \cup {"rest", "save", "done"}, mode : {"none", "enrich", "complete"}, asked : Nat,
   refresh : BOOLEAN, begun : Nat, withTimeline : BOOLEAN, e : Enrichments, warn : SUBSET Warnings, flying : BOOLEAN,
   unsaved : BOOLEAN]
Versions == [version : Nat, comments : Nat, references : Nat]
EnrichmentTyped ==
  /\ news \in [Tasks -> Versions]
  /\ task \in [Tasks -> EnrichmentTasks]
  /\ \A k \in DOMAIN sources : sources[k].seen \in Versions
  /\ \A i \in DOMAIN wholes : wholes[i].e \in Enrichments
  /\ spent \in [reserved : Nat, sent : Nat]
  /\ tick \in [now : Nat, news : Nat, rounds : Nat]

\* The details were read or are said to have failed.
HeardOf(e) == e.details = "read" \/ "details" \in e.said
\* Evidence that is not called missing was read: comments nobody knows are warned of.
HonestOne(e) ==
  /\ HeardOf(e) /\ (CommentsKnown(e) \/ CommentsFailed(e))
  /\ ~Missing(e) => e.timeline = "read"
\* From its comments on an enrichment has them, has none to read or is to warn of them.
Warned(x) == HeardOf(x.e) /\ (CommentsKnown(x.e) \/ "comments_failed" \in x.warn)
\* Until its timeline is read an enrichment lacks it.
HonestSoFar(x) ==
  /\ x.at \in {"repository", "details", "comments", "timeline"} => Missing(x.e)
  /\ x.at = "comments" => HeardOf(x.e)
  /\ x.at = "timeline" => Warned(x)
  /\ x.at \in {"growth", "save", "done"} => HonestOne(x.e)
  /\ Answered(x)
\* One that is to read no timeline, when it has read its comments.
HonestShort(x) == x.at = "growth" /\ ~x.withTimeline /\ Warned(x) /\ Answered(x)
\* The cached enrichment is not older than the one a task has written or was given.
Kept(x, t, cached) ==
  x.at = "done" /\ x.mode = "enrich" /\ ~x.unsaved /\ t \in DOMAIN cached => cached[t].e.version >= x.asked
Honesty ==
  /\ \A t \in Tasks : HonestSoFar(task[t]) /\ Kept(task[t], t, wholes)
  /\ \A i \in DOMAIN wholes : HonestOne(wholes[i].e)
\* Every request that flies was reserved and is not counted as sent.
Flying == {t \in Tasks : task[t].flying}
Reserved ==
  /\ IsFiniteSet(Flying) /\ spent.sent + Cardinality(Flying) <= spent.reserved
  /\ spent.reserved <= SpendLimit
  /\ \A t \in Tasks : task[t].flying => task[t].at \in Reading
EnrichmentInv == EnrichmentTyped /\ Honesty /\ Reserved

LEMMA EnrichmentStarts == EnrichmentInit => EnrichmentInv
<1> SUFFICES ASSUME EnrichmentInit PROVE EnrichmentInv
  OBVIOUS
<1> USE DEF EnrichmentInit
<1>1. FromIssue(0) \in Enrichments
  BY DEF FromIssue, Enrichments, Warnings
<1>2. AtRest \in EnrichmentTasks /\ AtRest.at = "rest" /\ AtRest.mode = "none" /\ ~AtRest.flying
  BY <1>1 DEF AtRest, EnrichmentTasks
<1>3. EnrichmentTyped
  BY <1>2 DEF EnrichmentTyped, Versions
<1>4. Honesty
  BY <1>2 DEF Honesty, HonestSoFar, Kept, Answered, AtRest, FromIssue
<1>5. Flying = {}
  BY <1>2 DEF Flying
<1>6. Reserved
  BY <1>2, <1>5, FS_EmptySet, EnrichmentAssumption DEF Reserved
<1> QED
  BY <1>3, <1>4, <1>6 DEF EnrichmentInv

LEMMA NextSource ==
  ASSUME NEW x \in EnrichmentTasks, x.at \in Reading
  PROVE  /\ After(x, x.at) \in Reading \cup {"save"}
         /\ x.at = "repository" => After(x, x.at) = "details"
         /\ x.at = "details" => After(x, x.at) = "comments"
         /\ x.at = "comments" => After(x, x.at) \in {"timeline", "growth"}
         /\ x.at = "timeline" => After(x, x.at) \in {"growth", "save"}
         /\ x.at = "growth" => After(x, x.at) = "save"
<1>1. x.at \in {"repository", "details", "comments", "timeline", "growth"}
  BY DEF Reading
<1>2. CASE x.at = "repository"
  BY <1>2 DEF After, Reading
<1>3. CASE x.at = "details"
  BY <1>3 DEF After, Reading
<1>4. CASE x.at = "comments"
  BY <1>4 DEF After, Reading
<1>5. CASE x.at = "timeline"
  BY <1>5 DEF After, Reading
<1>6. CASE x.at = "growth"
  BY <1>6 DEF After, Reading
<1> QED
  BY <1>1, <1>2, <1>3, <1>4, <1>5, <1>6

LEMMA SettlesHonestly ==
  ASSUME NEW x \in EnrichmentTasks, (HonestSoFar(x) /\ ~(x.at = "growth" /\ ~x.withTimeline)) \/ HonestShort(x)
  PROVE  /\ Settle(x) \in EnrichmentTasks /\ HonestSoFar(Settle(x))
         /\ Settle(x).flying = x.flying /\ Settle(x).at = x.at
<1>1. CASE ~(x.at = "growth" /\ ~x.withTimeline)
  BY <1>1 DEF Settle, HonestShort
<1>2. CASE x.at = "growth" /\ ~x.withTimeline
  <2> DEFINE e == [x.e EXCEPT !.warnings = x.warn \cup {"not_fetched"}]
  <2>0. HonestShort(x) /\ x.e \in Enrichments /\ x.warn \in SUBSET Warnings
    BY <1>2 DEF EnrichmentTasks
  <2>1. /\ e \in Enrichments /\ e.version = x.e.version /\ Missing(e) /\ e.details = x.e.details
        /\ e.count = x.e.count /\ e.comments = x.e.comments /\ e.said = x.e.said
        /\ "comments_failed" \in x.warn => CommentsFailed(e)
    BY <2>0 DEF Enrichments, Missing, CommentsFailed, Warnings
  <2>2. Settle(x) = [x EXCEPT !.e = e]
    BY <1>2 DEF Settle, EnrichmentTasks, Enrichments
  <2> HIDE DEF e
  <2>3. /\ Settle(x) \in EnrichmentTasks /\ Settle(x).at = "growth" /\ Settle(x).e = e
        /\ Settle(x).mode = x.mode /\ Settle(x).asked = x.asked /\ Settle(x).flying = x.flying
        /\ Settle(x).unsaved = x.unsaved
    BY <1>2, <2>1, <2>2 DEF EnrichmentTasks
  <2>4. HonestOne(e)
    BY <2>0, <2>1 DEF HonestShort, Warned, HonestOne, HeardOf, CommentsKnown
  <2>5. Answered(Settle(x))
    BY <2>0, <2>1, <2>3 DEF HonestShort, Answered
  <2> QED
    BY <1>2, <2>3, <2>4, <2>5 DEF HonestSoFar
<1> QED
  BY <1>1, <1>2

\* What a source that was read does to an honest enrichment.
LEMMA LearnIsHonest ==
  ASSUME NEW x \in EnrichmentTasks, HonestSoFar(x), x.at \in Reading, NEW seen \in Versions
  PROVE  /\ Settle(Learn(x, x.at, seen)) \in EnrichmentTasks /\ HonestSoFar(Settle(Learn(x, x.at, seen)))
         /\ ~Settle(Learn(x, x.at, seen)).flying /\ Settle(Learn(x, x.at, seen)).at # "done"
<1> DEFINE e == CASE x.at = "details" -> [x.e EXCEPT !.details = "read", !.count = seen.comments]
                  [] x.at = "comments" -> [x.e EXCEPT !.comments = IF seen.comments = 0 THEN "empty" ELSE "read"]
                  [] x.at = "timeline" -> [x.e EXCEPT !.timeline = "read", !.warnings = x.warn]
                  [] OTHER -> x.e
           y == Learn(x, x.at, seen)
<1>1. x.e \in Enrichments /\ x.warn \in SUBSET Warnings /\ seen.comments \in Nat
  BY DEF EnrichmentTasks, Versions
<1>2. x.at \in {"repository", "growth"} => e = x.e
  OBVIOUS
<1>3. x.at = "details" => /\ e \in Enrichments /\ e.version = x.e.version /\ e.warnings = x.e.warnings
                          /\ e.details = "read"
  BY <1>1 DEF Enrichments
<1>4. x.at = "comments" => /\ e \in Enrichments /\ e.version = x.e.version /\ e.warnings = x.e.warnings
                           /\ e.comments # "none" /\ e.details = x.e.details /\ e.said = x.e.said
  BY <1>1 DEF Enrichments
<1>5. x.at = "timeline" => /\ e \in Enrichments /\ e.version = x.e.version /\ e.warnings = x.warn
                           /\ e.timeline = "read" /\ e.count = x.e.count /\ e.comments = x.e.comments
                           /\ e.details = x.e.details /\ e.said = x.e.said
  BY <1>1 DEF Enrichments
<1>6. y = [x EXCEPT !.e = e, !.at = After(x, x.at), !.flying = FALSE]
  BY DEF Learn
<1> HIDE DEF e, y
<1>7. e \in Enrichments /\ e.version = x.e.version
  BY <1>1, <1>2, <1>3, <1>4, <1>5 DEF Reading
<1>8. y = [x EXCEPT !.e = e, !.at = After(x, x.at), !.flying = FALSE, !.warn = x.warn]
  BY <1>6 DEF EnrichmentTasks
<1>9. /\ y \in EnrichmentTasks /\ y.at = After(x, x.at) /\ y.e = e /\ y.warn = x.warn /\ ~y.flying
      /\ y.mode = x.mode /\ y.asked = x.asked /\ y.withTimeline = x.withTimeline /\ y.unsaved = x.unsaved
  <2> DEFINE at == After(x, x.at)
  <2>1. at \in Reading \cup {"save"}
    BY NextSource
  <2>2. y = [x EXCEPT !.e = e, !.at = at, !.flying = FALSE, !.warn = x.warn]
    BY <1>8
  <2> HIDE DEF at
  <2>3. e \in Enrichments /\ x.warn \in SUBSET Warnings
    BY <1>1, <1>7, <1>8
  <2>4. /\ y \in EnrichmentTasks /\ y.at = at /\ y.e = e /\ y.warn = x.warn /\ ~y.flying
        /\ y.mode = x.mode /\ y.asked = x.asked /\ y.withTimeline = x.withTimeline /\ y.unsaved = x.unsaved
    BY <2>1, <2>2, <2>3 DEF EnrichmentTasks
  <2> QED
    BY <2>4 DEF at
<1>10. (HonestSoFar(y) /\ ~(y.at = "growth" /\ ~y.withTimeline)) \/ HonestShort(y)
  <2>1. Answered(y)
    BY <1>7, <1>9 DEF HonestSoFar, Answered
  <2>2. CASE x.at = "repository"
    BY <1>2, <1>9, <2>1, <2>2, NextSource DEF HonestSoFar, Missing
  <2>3. CASE x.at = "details"
    BY <1>3, <1>9, <2>1, <2>3, NextSource DEF HonestSoFar, Missing, HeardOf
  <2>4. CASE x.at = "comments"
    <3>1. Missing(e) /\ Warned(y)
      BY <1>4, <1>9, <2>4 DEF HonestSoFar, Missing, Warned, HeardOf, CommentsKnown
    <3>2. y.at = IF y.withTimeline THEN "timeline" ELSE "growth"
      BY <1>9, <2>4 DEF After
    <3> QED
      BY <1>9, <2>1, <3>1, <3>2 DEF HonestSoFar, HonestShort
  <2>5. CASE x.at = "timeline"
    <3>1. HonestOne(e)
      BY <1>5, <2>5 DEF HonestSoFar, HonestOne, Warned, HeardOf, CommentsKnown, CommentsFailed
    <3>2. Warned(y)
      BY <1>5, <1>9, <2>5 DEF HonestSoFar, Warned, HeardOf, CommentsKnown
    <3> QED
      BY <1>9, <2>1, <2>5, <3>1, <3>2, NextSource DEF HonestSoFar, HonestShort
  <2>6. CASE x.at = "growth"
    BY <1>2, <1>9, <2>1, <2>6, NextSource DEF HonestSoFar
  <2> QED
    BY <2>2, <2>3, <2>4, <2>5, <2>6 DEF Reading
<1>11. y.at # "done"
  BY <1>9, NextSource DEF Reading
<1> QED
  BY <1>9, <1>10, <1>11, SettlesHonestly DEF y

\* And one that could not be read.
LEMMA MissIsHonest ==
  ASSUME NEW x \in EnrichmentTasks, HonestSoFar(x), x.at \in Reading
  PROVE  /\ Settle(Miss(x, x.at)) \in EnrichmentTasks /\ HonestSoFar(Settle(Miss(x, x.at)))
         /\ ~Settle(Miss(x, x.at)).flying /\ Settle(Miss(x, x.at)).at # "done"
<1> DEFINE warn == IF x.at = "comments" /\ (x.mode = "complete" \/ x.e.count > 0)
                   THEN x.warn \cup {"comments_failed"} ELSE x.warn
           said == x.e.said \cup ({x.at} \cap {"details", "comments"})
           warnings == IF x.at = "timeline" THEN warn \cup {"timeline_failed"} ELSE x.e.warnings
           e == [x.e EXCEPT !.said = said, !.warnings = warnings]
           y == Miss(x, x.at)
<1>1. x.e \in Enrichments /\ x.warn \in SUBSET Warnings
  BY DEF EnrichmentTasks
<1>2. /\ warn \in SUBSET Warnings /\ x.warn \subseteq warn /\ said \in SUBSET {"details", "comments"}
      /\ x.e.said \subseteq said /\ (x.at \in {"details", "comments"} => x.at \in said)
      /\ warnings \in SUBSET Warnings
      /\ IF x.at = "timeline" THEN warnings # {} /\ warn \subseteq warnings ELSE warnings = x.e.warnings
  BY <1>1 DEF Warnings, Enrichments
<1>3. x.at = "comments" /\ x.e.count > 0 => "comments_failed" \in warn
  OBVIOUS
<1>4. y = [x EXCEPT !.at = After(x, x.at), !.flying = FALSE, !.warn = warn, !.e = e]
  BY <1>1 DEF Miss, EnrichmentTasks, Enrichments
<1> HIDE DEF warn, y, said, warnings
<1>5. /\ e \in Enrichments /\ e.version = x.e.version /\ e.count = x.e.count /\ e.comments = x.e.comments
      /\ e.timeline = x.e.timeline /\ e.details = x.e.details /\ e.said = said /\ e.warnings = warnings
  BY <1>1, <1>2 DEF Enrichments
<1> HIDE DEF e
<1>7. /\ y \in EnrichmentTasks /\ y.at = After(x, x.at) /\ y.e = e /\ y.warn = warn /\ ~y.flying
      /\ y.mode = x.mode /\ y.asked = x.asked /\ y.withTimeline = x.withTimeline /\ y.unsaved = x.unsaved
  <2> DEFINE at == After(x, x.at)
  <2>1. at \in Reading \cup {"save"}
    BY NextSource
  <2>2. y = [x EXCEPT !.at = at, !.flying = FALSE, !.warn = warn, !.e = e]
    BY <1>4
  <2> HIDE DEF at
  <2>3. e \in Enrichments /\ warn \in SUBSET Warnings
    BY <1>2, <1>5
  <2>4. /\ y \in EnrichmentTasks /\ y.at = at /\ y.e = e /\ y.warn = warn /\ ~y.flying
        /\ y.mode = x.mode /\ y.asked = x.asked /\ y.withTimeline = x.withTimeline /\ y.unsaved = x.unsaved
    BY <2>1, <2>2, <2>3 DEF EnrichmentTasks
  <2> QED
    BY <2>4 DEF at
<1>8. (HonestSoFar(y) /\ ~(y.at = "growth" /\ ~y.withTimeline)) \/ HonestShort(y)
  <2>1. Answered(y)
    BY <1>5, <1>7 DEF HonestSoFar, Answered
  <2>2. CASE x.at = "repository"
    BY <1>2, <1>5, <1>7, <2>1, <2>2, NextSource DEF HonestSoFar, Missing
  <2>3. CASE x.at = "details"
    BY <1>2, <1>5, <1>7, <2>1, <2>3, NextSource DEF HonestSoFar, Missing, HeardOf
  <2>4. CASE x.at = "comments"
    <3>1. Missing(e) /\ HeardOf(x.e) /\ HeardOf(e)
      BY <1>2, <1>5, <2>4 DEF HonestSoFar, Missing, HeardOf
    <3>2. CommentsKnown(e) \/ "comments_failed" \in warn
      <4>1. CASE x.e.count > 0
        BY <1>3, <2>4, <4>1
      <4>2. CASE ~(x.e.count > 0)
        <5>1. x.e.count = 0
          BY <1>1, <4>2 DEF Enrichments
        <5> QED
          BY <1>2, <1>5, <2>4, <3>1, <5>1 DEF HeardOf, CommentsKnown
      <4> QED
        BY <4>1, <4>2
    <3>3. y.at = IF y.withTimeline THEN "timeline" ELSE "growth"
      BY <1>7, <2>4 DEF After
    <3> QED
      BY <1>7, <2>1, <3>1, <3>2, <3>3 DEF HonestSoFar, HonestShort, Warned
  <2>5. CASE x.at = "timeline"
    <3>1. Warned(x)
      BY <2>5 DEF HonestSoFar
    <3>2. HonestOne(e)
      BY <1>2, <1>5, <2>5, <3>1 DEF HonestOne, Warned, HeardOf, CommentsKnown, CommentsFailed, Missing
    <3>3. Warned(y)
      BY <1>2, <1>5, <1>7, <3>1 DEF Warned, HeardOf, CommentsKnown
    <3> QED
      BY <1>7, <2>1, <2>5, <3>2, <3>3, NextSource DEF HonestSoFar, HonestShort
  <2>6. CASE x.at = "growth"
    <3>1. HonestOne(e)
      BY <1>2, <1>5, <2>6 DEF HonestSoFar, HonestOne, Missing, HeardOf, CommentsKnown, CommentsFailed
    <3> QED
      BY <1>7, <2>1, <2>6, <3>1, NextSource DEF HonestSoFar
  <2> QED
    BY <2>2, <2>3, <2>4, <2>5, <2>6 DEF Reading
<1>9. y.at # "done"
  BY <1>7, NextSource DEF Reading
<1> QED
  BY <1>7, <1>8, <1>9, SettlesHonestly DEF y
-----------------------------------------------------------------------------
(* The steps.  One task moves at a time.                                     *)

\* A step of one task that keeps what is stored and reserved.
LEMMA TaskSteps ==
  ASSUME EnrichmentInv, NEW t \in Tasks, NEW y \in EnrichmentTasks, task' = [task EXCEPT ![t] = y],
         HonestSoFar(y), UNCHANGED <<news, sources, spent>>, tick' \in [now : Nat, news : Nat, rounds : Nat],
         ~y.flying, ~task[t].flying, Kept(y, t, wholes'),
         \A i \in Tasks : i # t /\ i \in DOMAIN wholes' => i \in DOMAIN wholes /\ wholes'[i] = wholes[i],
         \A i \in DOMAIN wholes' : wholes'[i].e \in Enrichments /\ HonestOne(wholes'[i].e)
  PROVE  EnrichmentInv'
<1> USE DEF EnrichmentInv
<1>1. EnrichmentTyped'
  BY DEF EnrichmentTyped
<1>3. Flying' = Flying
  BY DEF Flying, EnrichmentTyped
<1>4. \A s \in Tasks : s # t => task'[s] = task[s]
  BY DEF EnrichmentTyped
<1>5. task'[t] = y
  BY DEF EnrichmentTyped
<1>2. Honesty'
  <2>1. \A s \in Tasks : HonestSoFar(task'[s])
    BY <1>4, <1>5 DEF Honesty
  <2>2. ASSUME NEW s \in Tasks PROVE Kept(task'[s], s, wholes')
    <3>1. CASE s = t
      BY <1>5, <3>1
    <3>2. CASE s # t
      BY <1>4, <3>2 DEF Honesty, Kept
    <3> QED
      BY <3>1, <3>2
  <2> QED
    BY <2>1, <2>2 DEF Honesty
<1>6. Reserved'
  BY <1>3, <1>4, <1>5 DEF Reserved
<1> QED
  BY <1>1, <1>2, <1>6

LEMMA NewEnrichment ==
  ASSUME NEW v \in Nat
  PROVE  /\ FromIssue(v) \in Enrichments /\ FromIssue(v).version = v /\ Missing(FromIssue(v))
         /\ AtRest \in EnrichmentTasks /\ HonestSoFar(AtRest) /\ ~AtRest.flying /\ AtRest.at = "rest"
<1>1. \A u \in Nat : FromIssue(u) \in Enrichments /\ FromIssue(u).version = u /\ Missing(FromIssue(u))
  BY DEF FromIssue, Enrichments, Missing, Warnings
<1> QED
  BY <1>1 DEF AtRest, EnrichmentTasks, HonestSoFar, Answered

LEMMA BeginIsHonest ==
  ASSUME EnrichmentInv, NEW t \in Tasks, NEW asked, NEW refresh \in BOOLEAN, NEW withTimeline \in BOOLEAN,
         BeginEnriching(t, asked, refresh, withTimeline)
  PROVE  EnrichmentInv'
<1> USE DEF EnrichmentInv
<1>1. /\ task[t].at = "rest" /\ asked \in 1..news[t].version
      /\ tick' = [tick EXCEPT !.rounds = @ + 1] /\ UNCHANGED <<news, sources, wholes, spent>>
  BY DEF BeginEnriching
<1>2. asked \in Nat /\ tick.now \in Nat
  BY <1>1 DEF EnrichmentTyped, Versions
<1> DEFINE again == refresh \/ (LoadWhole(t) /\ Changed(asked, wholes[t]))
           served == ~again /\ LoadWhole(t) /\ (withTimeline => ~Missing(wholes[t].e))
<1>3. again \in BOOLEAN
  BY DEF LoadWhole, Changed
<1>4. served => t \in DOMAIN wholes /\ wholes[t].e.version \in Nat /\ wholes[t].e.version >= asked
  BY <1>2 DEF LoadWhole, Changed, EnrichmentTyped, Enrichments
<1> DEFINE new == [AtRest EXCEPT !.mode = "enrich", !.asked = asked, !.refresh = again, !.begun = tick.now,
                                 !.withTimeline = withTimeline, !.e = FromIssue(asked), !.at = "repository"]
           y == IF served THEN [new EXCEPT !.at = "done", !.e = wholes[t].e] ELSE new
<1>5. task' = [task EXCEPT ![t] = y]
  BY DEF BeginEnriching
<1> HIDE DEF again, served
<1>6. /\ new \in EnrichmentTasks /\ new.at = "repository" /\ new.mode = "enrich" /\ new.asked = asked
      /\ new.e = FromIssue(asked) /\ ~new.flying
  BY <1>2, <1>3, NewEnrichment DEF EnrichmentTasks, Reading
<1> HIDE DEF new
<1>7. HonestSoFar(new)
  BY <1>2, <1>6, NewEnrichment DEF HonestSoFar, Answered
<1>8. CASE ~served
  <2>1. y = new /\ ~task[t].flying
    BY <1>1, <1>8 DEF Reserved, Reading
  <2>2. tick' \in [now : Nat, news : Nat, rounds : Nat]
    BY <1>1 DEF EnrichmentTyped
  <2>3. \A i \in DOMAIN wholes' : wholes'[i].e \in Enrichments /\ HonestOne(wholes'[i].e)
    BY <1>1 DEF EnrichmentTyped, Honesty
  <2>4. Kept(new, t, wholes')
    BY <1>6 DEF Kept
  <2> QED
    BY <1>1, <1>5, <1>6, <1>7, <2>1, <2>2, <2>3, <2>4, TaskSteps
<1>9. CASE served
  <2> DEFINE e == wholes[t].e
  <2>1. e \in Enrichments /\ HonestOne(e) /\ e.version >= asked
    BY <1>4, <1>9 DEF EnrichmentTyped, Honesty
  <2>2. y = [new EXCEPT !.at = "done", !.e = e]
    BY <1>9
  <2> HIDE DEF e, y
  <2>3. y \in EnrichmentTasks /\ y.at = "done" /\ y.e = e /\ y.mode = "enrich" /\ y.asked = asked /\ ~y.flying
    BY <1>6, <2>1, <2>2 DEF EnrichmentTasks
  <2>4. HonestSoFar(y) /\ Kept(y, t, wholes')
    BY <1>1, <2>1, <2>3 DEF HonestSoFar, Answered, Kept, e
  <2>5. ~task[t].flying
    BY <1>1 DEF Reserved, Reading
  <2>6. tick' \in [now : Nat, news : Nat, rounds : Nat]
    BY <1>1 DEF EnrichmentTyped
  <2>7. \A i \in DOMAIN wholes' : wholes'[i].e \in Enrichments /\ HonestOne(wholes'[i].e)
    BY <1>1 DEF EnrichmentTyped, Honesty
  <2> QED
    BY <1>1, <1>5, <2>3, <2>4, <2>5, <2>6, <2>7, TaskSteps
<1> QED
  BY <1>8, <1>9

LEMMA CompletingIsHonest ==
  ASSUME EnrichmentInv, NEW t \in Tasks, NEW refresh \in BOOLEAN, BeginCompleting(t, refresh)
  PROVE  EnrichmentInv'
<1> USE DEF EnrichmentInv
<1> DEFINE x == task[t]
           new == [x EXCEPT !.mode = "complete", !.refresh = refresh, !.withTimeline = TRUE,
                            !.begun = tick.now, !.warn = {},
                            !.at = IF CommentsToRead(x.e) THEN "comments" ELSE "timeline"]
           served == ~refresh /\ LoadWhole(t) /\ ~Missing(wholes[t].e)
           y == IF served THEN [new EXCEPT !.at = "done", !.e = wholes[t].e] ELSE new
<1>1. /\ x.at = "done" /\ x.mode = "enrich" /\ Missing(x.e) /\ task' = [task EXCEPT ![t] = y]
      /\ UNCHANGED <<news, sources, wholes, spent, tick>>
  BY DEF BeginCompleting
<1>2. x \in EnrichmentTasks /\ ~x.flying /\ tick.now \in Nat
  BY <1>1 DEF EnrichmentTyped, Reserved, Reading
<1>3. served => t \in DOMAIN wholes
  BY DEF LoadWhole
<1> HIDE DEF served
<1>4. /\ new \in EnrichmentTasks /\ new.mode = "complete" /\ new.e = x.e /\ ~new.flying
      /\ new.unsaved = x.unsaved /\ new.asked = x.asked
      /\ new.at = IF CommentsToRead(x.e) THEN "comments" ELSE "timeline"
  BY <1>2 DEF EnrichmentTasks, Reading
<1>5. x.e \in Enrichments
  BY <1>2 DEF EnrichmentTasks
<1> HIDE DEF x, new
<1>a. HonestSoFar(x) /\ Kept(x, t, wholes)
  BY DEF Honesty, x
<1>b. HonestOne(x.e) /\ x.e.version >= x.asked
  BY <1>1, <1>a DEF HonestSoFar, Answered
<1>6. HonestSoFar(new)
  <2>1. ~CommentsToRead(x.e) => CommentsKnown(x.e)
    BY <1>b DEF CommentsToRead, HonestOne
  <2>2. HeardOf(x.e) /\ Answered(new)
    BY <1>4, <1>b DEF HonestOne, Answered
  <2> QED
    BY <1>1, <1>4, <2>1, <2>2 DEF HonestSoFar, Warned
<1> DEFINE e == IF served THEN wholes[t].e ELSE x.e
<1>7. y \in EnrichmentTasks /\ HonestSoFar(y) /\ ~y.flying
  <2>1. CASE served
    <3>1. e \in Enrichments /\ HonestOne(e) /\ (~x.unsaved => e.version >= x.asked)
      BY <1>1, <1>3, <1>a, <2>1 DEF EnrichmentTyped, Honesty, Kept
    <3>2. y = [new EXCEPT !.at = "done", !.e = e]
      BY <2>1
    <3> HIDE DEF e, y
    <3>3. /\ y \in EnrichmentTasks /\ y.at = "done" /\ y.e = e /\ y.mode = "complete" /\ ~y.flying
          /\ y.unsaved = x.unsaved /\ y.asked = x.asked
      BY <1>4, <3>1, <3>2 DEF EnrichmentTasks
    <3>4. x.unsaved \in BOOLEAN
      BY <1>2 DEF EnrichmentTasks, x
    <3> QED
      BY <3>1, <3>3, <3>4 DEF HonestSoFar, Answered
  <2>2. CASE ~served
    BY <1>4, <1>6, <2>2
  <2> QED
    BY <2>1, <2>2
<1>8. tick' \in [now : Nat, news : Nat, rounds : Nat]
  BY <1>1 DEF EnrichmentTyped
<1>9. \A i \in DOMAIN wholes' : wholes'[i].e \in Enrichments /\ HonestOne(wholes'[i].e)
  BY <1>1 DEF EnrichmentTyped, Honesty
<1>10. ~task[t].flying
  BY <1>2 DEF x
<1>11. y.mode = "complete"
  BY <1>4 DEF EnrichmentTasks
<1> HIDE DEF y
<1>12. Kept(y, t, wholes')
  BY <1>11 DEF Kept
<1> QED
  BY <1>1, <1>7, <1>8, <1>9, <1>10, <1>12, TaskSteps

LEMMA ReadsAreHonest ==
  ASSUME EnrichmentInv, NEW t \in Tasks, ReadCached(t) \/ BudgetSpent(t)
  PROVE  EnrichmentInv'
<1> USE DEF EnrichmentInv
<1>1. /\ task[t] \in EnrichmentTasks /\ HonestSoFar(task[t]) /\ task[t].at \in Reading /\ ~task[t].flying
      /\ UNCHANGED <<news, sources, wholes, spent, tick>>
  BY DEF ReadCached, BudgetSpent, EnrichmentTyped, Honesty
<1>2. tick' \in [now : Nat, news : Nat, rounds : Nat]
  BY <1>1 DEF EnrichmentTyped
<1>3. \A i \in DOMAIN wholes' : wholes'[i].e \in Enrichments /\ HonestOne(wholes'[i].e)
  BY <1>1 DEF EnrichmentTyped, Honesty
<1>4. CASE ReadCached(t)
  <2> DEFINE k == KeyOf(task[t].at, t)
             y == Settle(Learn(task[t], task[t].at, sources[k].seen))
  <2>1. k \in DOMAIN sources /\ task' = [task EXCEPT ![t] = y]
    BY <1>4 DEF ReadCached, IsCached
  <2>2. sources[k].seen \in Versions
    BY <2>1 DEF EnrichmentTyped
  <2> HIDE DEF k
  <2>3. y \in EnrichmentTasks /\ HonestSoFar(y) /\ ~y.flying /\ y.at # "done"
    BY <1>1, <2>2, LearnIsHonest
  <2> HIDE DEF y
  <2>4. Kept(y, t, wholes')
    BY <2>3 DEF Kept
  <2> QED
    BY <1>1, <1>2, <1>3, <2>1, <2>3, <2>4, TaskSteps
<1>5. CASE BudgetSpent(t)
  <2> DEFINE y == Settle(Miss(task[t], task[t].at))
  <2>1. task' = [task EXCEPT ![t] = y]
    BY <1>5 DEF BudgetSpent
  <2>2. y \in EnrichmentTasks /\ HonestSoFar(y) /\ ~y.flying /\ y.at # "done"
    BY <1>1, MissIsHonest
  <2> HIDE DEF y
  <2>3. Kept(y, t, wholes')
    BY <2>2 DEF Kept
  <2> QED
    BY <1>1, <1>2, <1>3, <2>1, <2>2, <2>3, TaskSteps
<1> QED
  BY <1>4, <1>5

LEMMA ReservationCounts ==
  ASSUME EnrichmentInv, NEW t \in Tasks, ReserveRequest(t)
  PROVE  EnrichmentInv'
<1> USE DEF EnrichmentInv
<1>1. /\ task[t].at \in Reading /\ ~task[t].flying /\ spent.reserved < SpendLimit
      /\ spent' = [spent EXCEPT !.reserved = @ + 1] /\ task' = [task EXCEPT ![t].flying = TRUE]
      /\ UNCHANGED <<news, sources, wholes, tick>>
  BY DEF ReserveRequest, MayReserve
<1> DEFINE y == [task[t] EXCEPT !.flying = TRUE]
<1>2. task' = [task EXCEPT ![t] = y]
  BY <1>1
<1>3. task[t] \in EnrichmentTasks
  BY DEF EnrichmentTyped
<1>4. /\ y \in EnrichmentTasks /\ y.flying = TRUE /\ y.at = task[t].at /\ y.e = task[t].e /\ y.warn = task[t].warn
      /\ y.mode = task[t].mode /\ y.asked = task[t].asked /\ y.unsaved = task[t].unsaved
  BY <1>3 DEF EnrichmentTasks
<1> HIDE DEF y
<1>5. task'[t] = y /\ \A s \in Tasks : s # t => task'[s] = task[s]
  BY <1>2 DEF EnrichmentTyped
<1>6. spent'.reserved = spent.reserved + 1 /\ spent'.sent = spent.sent /\ spent' \in [reserved : Nat, sent : Nat]
      /\ spent.reserved \in Nat /\ spent.sent \in Nat
  BY <1>1 DEF EnrichmentTyped
<1>7. EnrichmentTyped'
  BY <1>1, <1>2, <1>4, <1>6 DEF EnrichmentTyped
<1>8. Honesty'
  <2>1. HonestSoFar(y) /\ Kept(y, t, wholes)
    BY <1>4 DEF Honesty, HonestSoFar, Warned, Answered, Kept
  <2> QED
    BY <1>1, <1>5, <2>1 DEF Honesty
<1>9. Flying' = Flying \cup {t} /\ t \notin Flying
  BY <1>1, <1>4, <1>5 DEF Flying
<1>10. Reserved'
  <2>1. IsFiniteSet(Flying') /\ Cardinality(Flying') = Cardinality(Flying) + 1 /\ Cardinality(Flying) \in Nat
    BY <1>9, FS_AddElement, FS_CardinalityType DEF Reserved
  <2>2. spent.sent + Cardinality(Flying) <= spent.reserved
    BY DEF Reserved
  <2>3. spent'.sent + Cardinality(Flying') <= spent'.reserved /\ spent'.reserved <= SpendLimit
    BY <1>1, <1>6, <2>1, <2>2, EnrichmentAssumption
  <2>4. \A s \in Tasks : task'[s].flying => task'[s].at \in Reading
    BY <1>1, <1>4, <1>5 DEF Reserved
  <2> QED
    BY <2>1, <2>3, <2>4 DEF Reserved
<1> QED
  BY <1>7, <1>8, <1>10

LEMMA RepliesAreHonest ==
  ASSUME EnrichmentInv, NEW t \in Tasks, NEW ok \in BOOLEAN, Reply(t, ok)
  PROVE  EnrichmentInv'
<1> USE DEF EnrichmentInv
<1> DEFINE y == Settle(IF ok THEN Learn(task[t], task[t].at, news[t]) ELSE Miss(task[t], task[t].at))
<1>1. /\ task[t].flying /\ spent' = [spent EXCEPT !.sent = @ + 1] /\ task' = [task EXCEPT ![t] = y]
      /\ UNCHANGED <<news, wholes, tick>>
  BY DEF Reply
<1>2. task[t] \in EnrichmentTasks /\ HonestSoFar(task[t]) /\ task[t].at \in Reading /\ news[t] \in Versions
  BY <1>1 DEF EnrichmentTyped, Honesty, Reserved
<1>3. y \in EnrichmentTasks /\ HonestSoFar(y) /\ ~y.flying /\ y.at # "done"
  BY <1>2, LearnIsHonest, MissIsHonest
<1> HIDE DEF y
<1>4. task'[t] = y /\ \A s \in Tasks : s # t => task'[s] = task[s]
  BY <1>1 DEF EnrichmentTyped
<1>5. spent'.sent = spent.sent + 1 /\ spent'.reserved = spent.reserved /\ spent' \in [reserved : Nat, sent : Nat]
      /\ spent.reserved \in Nat /\ spent.sent \in Nat
  BY <1>1 DEF EnrichmentTyped
<1>6. \A k \in DOMAIN sources' : sources'[k].seen \in Versions
  <2>1. CASE ~ok
    BY <2>1 DEF Reply, EnrichmentTyped
  <2>2. CASE ok
    <3>1. sources' = [k \in DOMAIN sources \cup {KeyOf(task[t].at, t)} |->
                        IF k = KeyOf(task[t].at, t) THEN [at |-> tick.now, seen |-> news[t]] ELSE sources[k]]
      BY <2>2 DEF Reply
    <3> QED
      BY <1>2, <3>1 DEF EnrichmentTyped
  <2> QED
    BY <2>1, <2>2
<1>7. EnrichmentTyped'
  BY <1>1, <1>3, <1>5, <1>6 DEF EnrichmentTyped
<1>8. Honesty'
  BY <1>1, <1>3, <1>4 DEF Honesty, Kept
<1>9. Flying' = Flying \ {t} /\ t \in Flying
  BY <1>1, <1>3, <1>4 DEF Flying
<1>10. Reserved'
  <2>1. IsFiniteSet(Flying') /\ Cardinality(Flying') = Cardinality(Flying) - 1 /\ Cardinality(Flying) \in Nat
    BY <1>9, FS_RemoveElement, FS_CardinalityType DEF Reserved
  <2>2. spent'.sent + Cardinality(Flying') <= spent'.reserved /\ spent'.reserved <= SpendLimit
    BY <1>5, <2>1, EnrichmentAssumption DEF Reserved
  <2>3. \A s \in Tasks : task'[s].flying => task'[s].at \in Reading
    BY <1>3, <1>4 DEF Reserved
  <2> QED
    BY <2>1, <2>2, <2>3 DEF Reserved
<1> QED
  BY <1>7, <1>8, <1>10

LEMMA SavesAreHonest ==
  ASSUME EnrichmentInv, NEW t \in Tasks, NEW written \in BOOLEAN, Save(t, written) \/ Leave(t)
  PROVE  EnrichmentInv'
<1> USE DEF EnrichmentInv
<1>1. /\ task[t] \in EnrichmentTasks /\ HonestSoFar(task[t]) /\ task[t].at \in {"save", "done"} /\ ~task[t].flying
      /\ UNCHANGED <<news, sources, spent, tick>>
  BY DEF Save, Leave, EnrichmentTyped, Honesty, Reserved, Reading
<1>2. task[t].e \in Enrichments /\ HonestOne(task[t].e)
  BY <1>1 DEF EnrichmentTasks, HonestSoFar
<1>3. tick' \in [now : Nat, news : Nat, rounds : Nat]
  BY <1>1 DEF EnrichmentTyped
<1>4. CASE Save(t, written)
  <2> DEFINE unsaved == IF task[t].mode = "enrich" THEN ~written ELSE task[t].unsaved
             y == [task[t] EXCEPT !.at = "done", !.unsaved = unsaved]
             at == IF task[t].mode = "complete" THEN tick.now ELSE task[t].begun
  <2>1. task' = [task EXCEPT ![t] = y]
    BY <1>4 DEF Save
  <2>a. unsaved \in BOOLEAN /\ task[t].unsaved \in BOOLEAN
    BY <1>1 DEF EnrichmentTasks
  <2>b. task[t].mode = "enrich" => unsaved = ~written
    OBVIOUS
  <2>c. task[t].mode # "enrich" => unsaved = task[t].unsaved
    OBVIOUS
  <2> HIDE DEF unsaved
  <2>2. /\ y \in EnrichmentTasks /\ y.at = "done" /\ y.e = task[t].e /\ y.mode = task[t].mode
        /\ y.asked = task[t].asked /\ y.flying = task[t].flying /\ y.unsaved = unsaved
    BY <1>1, <2>a DEF EnrichmentTasks
  <2> HIDE DEF y
  <2>3. HonestSoFar(y)
    BY <1>1, <1>2, <2>2, <2>c DEF HonestSoFar, Answered
  <2>d. task[t].mode = "enrich" => task[t].e.version >= task[t].asked
    BY <1>1 DEF HonestSoFar, Answered
  <2>5. Kept(y, t, wholes')
    <3>1. SUFFICES ASSUME task[t].mode = "enrich", ~unsaved PROVE wholes'[t].e.version >= task[t].asked
      BY <2>2 DEF Kept
    <3>2. wholes' = [i \in DOMAIN wholes \cup {t} |-> IF i = t THEN [at |-> at, e |-> task[t].e] ELSE wholes[i]]
      BY <1>4, <2>b, <3>1 DEF Save
    <3> HIDE DEF at
    <3>3. wholes'[t].e = task[t].e
      BY <3>2
    <3> QED
      BY <2>d, <3>1, <3>3
  <2>6. \A i \in Tasks : i # t /\ i \in DOMAIN wholes' => i \in DOMAIN wholes /\ wholes'[i] = wholes[i]
    BY <1>4 DEF Save
  <2>4. \A i \in DOMAIN wholes' : wholes'[i].e \in Enrichments /\ HonestOne(wholes'[i].e)
    <3>1. CASE ~written
      BY <1>4, <3>1 DEF Save, EnrichmentTyped, Honesty
    <3>2. CASE written
      <4>1. wholes' = [i \in DOMAIN wholes \cup {t} |-> IF i = t THEN [at |-> at, e |-> task[t].e] ELSE wholes[i]]
        BY <1>4, <3>2 DEF Save
      <4> HIDE DEF at
      <4> QED
        BY <1>2, <4>1 DEF EnrichmentTyped, Honesty
    <3> QED
      BY <3>1, <3>2
  <2> QED
    BY <1>1, <1>3, <2>1, <2>2, <2>3, <2>4, <2>5, <2>6, TaskSteps
<1>5. CASE Leave(t)
  <2>1. task' = [task EXCEPT ![t] = AtRest] /\ UNCHANGED wholes
    BY <1>5 DEF Leave
  <2>2. /\ AtRest \in EnrichmentTasks /\ HonestSoFar(AtRest) /\ ~AtRest.flying
        /\ Kept(AtRest, t, wholes')
    BY NewEnrichment DEF Kept
  <2>3. \A i \in DOMAIN wholes' : wholes'[i].e \in Enrichments /\ HonestOne(wholes'[i].e)
    BY <2>1 DEF EnrichmentTyped, Honesty
  <2> QED
    BY <1>1, <1>3, <2>1, <2>2, <2>3, TaskSteps
<1> QED
  BY <1>4, <1>5

LEMMA EnrichmentSteps == EnrichmentInv /\ [EnrichmentNext]_enrichmentVars => EnrichmentInv'
<1> SUFFICES ASSUME EnrichmentInv, [EnrichmentNext]_enrichmentVars PROVE EnrichmentInv'
  OBVIOUS
<1>1. CASE UNCHANGED enrichmentVars
  BY <1>1 DEF enrichmentVars, EnrichmentInv, EnrichmentTyped, Honesty, Reserved, Flying
<1>2. CASE Tick
  <2>1. tick' \in [now : Nat, news : Nat, rounds : Nat]
    BY <1>2 DEF Tick, EnrichmentInv, EnrichmentTyped
  <2> QED
    BY <1>2, <2>1 DEF Tick, EnrichmentInv, EnrichmentTyped, Honesty, Reserved, Flying
<1>3. ASSUME NEW t \in Tasks, News(t)
      PROVE  EnrichmentInv'
  <2> DEFINE n == [news[t] EXCEPT !.version = news[t].version + 1]
  <2>1. n \in Versions
    BY DEF EnrichmentInv, EnrichmentTyped, Versions
  <2>a. \/ news' = [news EXCEPT ![t] = [n EXCEPT !.comments = n.comments + 1]]
        \/ news' = [news EXCEPT ![t] = [n EXCEPT !.references = n.references + 1]]
    BY <1>3 DEF News
  <2> HIDE DEF n
  <2>2. /\ [n EXCEPT !.comments = n.comments + 1] \in Versions
        /\ [n EXCEPT !.references = n.references + 1] \in Versions
    BY <2>1 DEF Versions
  <2>3. news' \in [Tasks -> Versions]
    BY <2>2, <2>a DEF EnrichmentInv, EnrichmentTyped
  <2>4. tick' \in [now : Nat, news : Nat, rounds : Nat] /\ UNCHANGED <<sources, wholes, task, spent>>
    BY <1>3 DEF News, EnrichmentInv, EnrichmentTyped
  <2> QED
    BY <2>3, <2>4 DEF EnrichmentInv, EnrichmentTyped, Honesty, Reserved, Flying
<1>4. CASE Stop
  <2>1. AtRest \in EnrichmentTasks /\ HonestSoFar(AtRest) /\ ~AtRest.flying
    BY NewEnrichment
  <2>2. Flying' = {}
    BY <1>4, <2>1 DEF Stop, Flying
  <2>3. EnrichmentTyped' /\ Honesty'
    BY <1>4, <2>1, NewEnrichment DEF Stop, EnrichmentInv, EnrichmentTyped, Honesty, Kept
  <2>4. Reserved'
    BY <1>4, <2>1, <2>2, FS_EmptySet, EnrichmentAssumption DEF Stop, Reserved
  <2> QED
    BY <2>3, <2>4 DEF EnrichmentInv
<1> QED
  BY <1>1, <1>2, <1>3, <1>4, BeginIsHonest, CompletingIsHonest, ReadsAreHonest, ReservationCounts,
     RepliesAreHonest, SavesAreHonest
  DEF EnrichmentNext

\* An enrichment that does not call its evidence missing was built from a timeline and from
\* comments that were read (or it says that neither its details nor its comments could be
\* read); enriched or completed it is not older than what was asked, unless its own write
\* failed and a completion took the older one; and all of them together stay within the
\* budget.
THEOREM EnrichmentsAreHonest == EnrichmentSpec => []EnrichmentIsHonest
<1>1. ASSUME EnrichmentInv PROVE CheckedMeansRead
  BY <1>1 DEF EnrichmentInv, Honesty, HonestSoFar, HonestOne, CheckedMeansRead, CommentsFailed, Missing
<1>2. ASSUME EnrichmentInv PROVE AnsweredAsAsked
  BY <1>2 DEF EnrichmentInv, Honesty, HonestSoFar, AnsweredAsAsked
<1>3. ASSUME EnrichmentInv PROVE BudgetHolds
  <2>1. spent.sent \in Nat /\ spent.reserved \in Nat /\ Cardinality(Flying) \in Nat
    BY <1>3, FS_CardinalityType DEF EnrichmentInv, EnrichmentTyped, Reserved
  <2> QED
    BY <1>3, <2>1, EnrichmentAssumption DEF EnrichmentInv, Reserved, BudgetHolds
<1>4. EnrichmentInv => EnrichmentIsHonest
  BY <1>1, <1>2, <1>3 DEF EnrichmentIsHonest
<1> QED
  BY EnrichmentStarts, EnrichmentSteps, <1>4, PTL DEF EnrichmentSpec
-----------------------------------------------------------------------------
(* The lanes issues are found in.                                            *)

CallFields ==
  {"kind", "repo", "refresh", "todo", "answered", "part", "found", "limited", "noSearch", "end"}
LanesTyped ==
  /\ clock \in [now : Nat, edits : Nat, calls : Nat] /\ sent \in Nat
  /\ standing \in [Issues -> {"open", "held", "closed"}] /\ wasOpen \in [Issues -> Nat]
  /\ call = [f \in CallFields |-> call[f]] /\ call.answered \in Nat /\ call.part \subseteq Issues
\* An issue that is open to take is so now, and none was so later.
OpenInv ==
  \A i \in Issues : wasOpen[i] <= clock.now /\ (standing[i] = "open" => wasOpen[i] = clock.now)
\* What a file holds was open to take when it was fetched.
FilesInv ==
  \A k \in DOMAIN lanes :
    /\ lanes[k].at \in Nat /\ lanes[k].at <= clock.now /\ lanes[k].found \subseteq Issues
    /\ \A i \in lanes[k].found : wasOpen[i] >= lanes[k].at
\* What was read of a lane is of now: no time passes between its requests.
PartInv ==
  /\ call.answered = 0 => call.part = {}
  /\ \A i \in call.part : wasOpen[i] >= clock.now
\* A call that was refused a search has nothing left to ask.
RefusedInv == call.noSearch => call.todo = <<>>
LanesInv == LanesTyped /\ OpenInv /\ FilesInv /\ PartInv /\ RefusedInv

LEMMA LanesStart == LanesInit => LanesInv
  BY DEF LanesInit, LanesInv, LanesTyped, OpenInv, FilesInv, PartInv, RefusedInv, NoDiscovery, CallFields

\* Editing an issue or letting time pass never makes one open less recently.
LEMMA EditKeepsLanes ==
  ASSUME LanesInv, NEW i \in Issues, NEW to \in {"open", "held", "closed"}, Edit(i, to)
  PROVE  LanesInv'
<1>1. /\ call' = call /\ lanes' = lanes /\ sent' = sent
      /\ clock' \in [now : Nat, edits : Nat, calls : Nat] /\ clock'.now = clock.now
  BY DEF LanesInv, LanesTyped, Edit
<1>2. \A j \in Issues : wasOpen'[j] \in {wasOpen[j], clock.now} /\ wasOpen'[j] >= wasOpen[j]
  BY DEF LanesInv, LanesTyped, OpenInv, Edit
<1>3. LanesTyped'
  BY <1>1 DEF LanesInv, LanesTyped, Edit
<1>4. OpenInv'
  BY <1>1 DEF LanesInv, LanesTyped, OpenInv, Edit
<1>5. FilesInv'
  <2> SUFFICES ASSUME NEW k \in DOMAIN lanes, NEW j \in lanes[k].found PROVE wasOpen'[j] >= lanes[k].at
    BY <1>1 DEF LanesInv, FilesInv
  <2>1. j \in Issues /\ lanes[k].at \in Nat /\ wasOpen[j] >= lanes[k].at
    BY DEF LanesInv, FilesInv
  <2> QED BY <1>2, <1>3, <2>1 DEF LanesInv, LanesTyped
<1>6. PartInv' /\ RefusedInv'
  <2>1. \A j \in call.part : wasOpen'[j] >= clock.now
    BY <1>2, <1>3 DEF LanesInv, LanesTyped, PartInv
  <2> QED BY <1>1, <2>1 DEF LanesInv, PartInv, RefusedInv
<1> QED BY <1>3, <1>4, <1>5, <1>6 DEF LanesInv

LEMMA PassKeepsLanes == LanesInv /\ Pass => LanesInv'
<1> SUFFICES ASSUME LanesInv, Pass PROVE LanesInv'
  OBVIOUS
<1>1. /\ call' = call /\ lanes' = lanes /\ sent' = sent /\ standing' = standing /\ call.part = {}
      /\ clock' \in [now : Nat, edits : Nat, calls : Nat] /\ clock'.now = clock.now + 1
  BY DEF LanesInv, LanesTyped, PartInv, Pass
<1>2. \A j \in Issues : wasOpen'[j] = IF standing[j] = "open" THEN clock.now + 1 ELSE wasOpen[j]
  BY DEF Pass
<1>3. LanesTyped'
  BY <1>1 DEF LanesInv, LanesTyped, Pass
<1>4. OpenInv'
  BY <1>1, <1>2 DEF LanesInv, LanesTyped, OpenInv
<1>5. FilesInv'
  <2> SUFFICES ASSUME NEW k \in DOMAIN lanes
               PROVE /\ lanes[k].at \in Nat /\ lanes[k].at <= clock.now + 1 /\ lanes[k].found \subseteq Issues
                     /\ \A i \in lanes[k].found : wasOpen'[i] >= lanes[k].at
    BY <1>1 DEF FilesInv
  <2> QED BY <1>1, <1>2 DEF LanesInv, LanesTyped, OpenInv, FilesInv
<1>6. PartInv' /\ RefusedInv'
  BY <1>1 DEF LanesInv, PartInv, RefusedInv
<1> QED BY <1>3, <1>4, <1>5, <1>6 DEF LanesInv

\* A step of the call leaves GitHub alone; what it files was open to take now.
CallIsSound ==
  /\ call' = [f \in CallFields |-> call'[f]] /\ call'.answered \in Nat /\ call'.part \subseteq Issues
  /\ call'.answered = 0 => call'.part = {}
  /\ \A i \in call'.part : wasOpen[i] >= clock.now
  /\ call'.noSearch => call'.todo = <<>>
LEMMA CallMoves ==
  ASSUME LanesInv, CallIsSound, UNCHANGED <<standing, wasOpen>>, sent' \in Nat,
         clock' \in [now : Nat, edits : Nat, calls : Nat], clock'.now = clock.now,
         FilesInv'
  PROVE  LanesInv'
  BY DEF LanesInv, LanesTyped, OpenInv, PartInv, RefusedInv, CallIsSound

LEMMA CallBegins ==
  ASSUME LanesInv, NEW kind, NEW repo, NEW pages, NEW refresh, BeginLanes(kind, repo, pages, refresh)
  PROVE  LanesInv' /\ call'.found = {}
<1>1. CallIsSound /\ call'.found = {}
  BY DEF CallIsSound, BeginLanes, NoDiscovery, CallFields
<1>2. UNCHANGED <<standing, wasOpen, lanes, sent>>
  BY DEF BeginLanes
<1>3. clock' \in [now : Nat, edits : Nat, calls : Nat] /\ clock'.now = clock.now
  BY DEF BeginLanes, LanesInv, LanesTyped
<1>4. FilesInv'
  BY <1>2, <1>3 DEF LanesInv, FilesInv
<1> QED BY <1>1, <1>2, <1>3, <1>4, CallMoves DEF LanesInv, LanesTyped

LEMMA CallIsLeft ==
  ASSUME LanesInv, LeaveLanes
  PROVE  LanesInv' /\ call'.found = {}
<1>1. CallIsSound /\ call'.found = {}
  BY DEF CallIsSound, LeaveLanes, NoDiscovery, CallFields
<1>2. UNCHANGED <<standing, wasOpen, lanes, clock>> /\ sent' \in Nat
  BY DEF LeaveLanes
<1>3. FilesInv'
  BY <1>2 DEF LanesInv, FilesInv
<1> QED BY <1>1, <1>2, <1>3, CallMoves DEF LanesInv, LanesTyped

LEMMA NextIsSound ==
  ASSUME LanesInv, Asking, NEW candidates, call' = NextLane(call, candidates)
  PROVE  CallIsSound /\ call'.found = call.found \cup candidates /\ call'.refresh = call.refresh
  BY DEF LanesInv, LanesTyped, RefusedInv, Asking, NextLane, CallIsSound, CallFields

LEMMA CacheAnswers ==
  ASSUME LanesInv, UseCached
  PROVE  /\ LanesInv'
         /\ \A i \in call'.found \ call.found : wasOpen[i] >= clock.now - Ttl(call.kind)
<1>1. CallIsSound /\ call'.found = call.found \cup lanes[This.key].found
  BY NextIsSound DEF UseCached
<1>2. FilesInv'
  BY DEF UseCached, LanesInv, FilesInv
<1>3. LanesInv'
  BY <1>1, <1>2, CallMoves DEF UseCached, LanesInv, LanesTyped
<1>4. ASSUME NEW i \in call'.found \ call.found PROVE wasOpen[i] >= clock.now - Ttl(call.kind)
  <2>1. /\ lanes[This.key].at \in Nat /\ clock.now - lanes[This.key].at <= Ttl(call.kind)
        /\ wasOpen[i] >= lanes[This.key].at /\ i \in Issues
    BY <1>1 DEF UseCached, StillFresh, LanesInv, FilesInv
  <2>2. wasOpen[i] \in Nat /\ clock.now \in Nat /\ Ttl(call.kind) \in Nat
    BY <2>1, LanesAssumption DEF LanesInv, LanesTyped, Ttl
  <2> QED BY <2>1, <2>2
<1> QED BY <1>3, <1>4

LEMMA PageKeepsLanes ==
  ASSUME LanesInv, NEW page, PageArrives(page)
  PROVE  /\ LanesInv'
         /\ \A i \in call'.found \ call.found : i \in Issues /\ wasOpen[i] >= clock.now
<1> PICK kept \in SUBSET Issues, done \in BOOLEAN :
      /\ \/ TrustedPage(page, kept, done) \/ FallbackPage(page, kept, done) \/ LabelPage(page, kept, done)
         \/ GlobalPage(page, kept, done) \/ ScopedPage(page, kept, done) \/ RecentPage(page, kept, done)
      /\ IF done THEN lanes' = SavedLane(call.part \cup kept) /\ call' = NextLane(call, call.part \cup kept)
         ELSE lanes' = lanes /\ call' = [call EXCEPT !.part = @ \cup kept, !.answered = @ + 1]
  BY DEF PageArrives
<1>1. kept \subseteq New(page)
  BY DEF TrustedPage, FallbackPage, LabelPage, GlobalPage, ScopedPage, RecentPage, UpTo
<1>2. \A i \in call.part \cup kept : i \in Issues /\ wasOpen[i] >= clock.now
  BY <1>1 DEF New, Takeable, LanesInv, LanesTyped, OpenInv, PartInv
<1>3. Asking /\ UNCHANGED <<standing, wasOpen, clock>> /\ sent' \in Nat
  BY DEF PageArrives, Uncached, Reserve, LanesInv, LanesTyped
<1>4. CASE done
  <2>1. CallIsSound /\ call'.found = call.found \cup call.part \cup kept
    BY <1>3, <1>4, NextIsSound
  <2>2. FilesInv'
    BY <1>2, <1>3, <1>4 DEF LanesInv, LanesTyped, FilesInv, SavedLane
  <2> QED BY <1>2, <1>3, <2>1, <2>2, CallMoves DEF LanesInv, LanesTyped
<1>5. CASE ~done
  <2>1. CallIsSound /\ call'.found = call.found
    <3>1. call' = [call EXCEPT !.part = @ \cup kept, !.answered = @ + 1] /\ call.answered + 1 \in Nat \ {0}
      BY <1>5 DEF LanesInv, LanesTyped
    <3> HIDE DEF Asking
    <3>2. /\ call' = [f \in CallFields |-> call'[f]] /\ call'.answered = call.answered + 1
          /\ call'.part = call.part \cup kept /\ call'.found = call.found
          /\ call'.noSearch = call.noSearch /\ call'.todo = call.todo
      BY <3>1 DEF LanesInv, LanesTyped, CallFields
    <3> QED BY <1>2, <1>3, <3>1, <3>2 DEF LanesInv, RefusedInv, CallIsSound
  <2>2. FilesInv'
    BY <1>3, <1>5 DEF LanesInv, FilesInv
  <2> QED BY <1>3, <2>1, <2>2, CallMoves DEF LanesInv, LanesTyped
<1> QED BY <1>4, <1>5

LEMMA RefusalKeepsLanes ==
  ASSUME LanesInv, \/ \E limited \in BOOLEAN : Refuse(limited)
                   \/ Exhausted
  PROVE  LanesInv' /\ call'.found = call.found
<1>1. Asking /\ UNCHANGED <<standing, wasOpen, clock, lanes>> /\ sent' \in {sent, sent + 1}
  BY DEF Refuse, Exhausted, Uncached, Reserve
<1>2. PICK limited \in BOOLEAN : call' = AfterRefusal(call, limited)
  BY DEF Refuse, Exhausted
<1>3. CallIsSound /\ call'.found = call.found
  BY <1>1, <1>2 DEF AfterRefusal, NextLane, LanesInv, LanesTyped, RefusedInv, Asking, CallIsSound, CallFields
<1>4. FilesInv'
  BY <1>1 DEF LanesInv, FilesInv
<1> QED BY <1>1, <1>3, <1>4, CallMoves DEF LanesInv, LanesTyped

LEMMA CallFinishes ==
  ASSUME LanesInv, FinishLanes
  PROVE  LanesInv' /\ call'.found \subseteq call.found
<1>1. PICK found : call' = [call EXCEPT !.end = Outcome(call), !.found = found] /\ found \subseteq call.found
  BY DEF FinishLanes, AtMostPerRepo
<1>2. CallIsSound /\ call'.found = found
  BY <1>1 DEF FinishLanes, LanesInv, LanesTyped, PartInv, RefusedInv, CallIsSound, CallFields
<1>3. UNCHANGED <<standing, wasOpen, clock, lanes, sent>>
  BY DEF FinishLanes
<1>4. FilesInv'
  BY <1>3 DEF LanesInv, FilesInv
<1> QED BY <1>1, <1>2, <1>3, <1>4, CallMoves DEF LanesInv, LanesTyped

FoundLately ==
  \A i \in call'.found \ call.found :
    wasOpen[i] >= clock.now - (IF call.refresh THEN 0 ELSE Ttl(call.kind))
SearchesNoMore == call.noSearch /\ sent' > sent => This.form # "search"

LEMMA LanesKept == ASSUME LanesInv, [LanesNext]_lanesVars PROVE LanesInv' /\ FoundLately
<1>0. clock.now \in Nat /\ Ttl(call.kind) \in Nat /\ wasOpen \in [Issues -> Nat]
  BY LanesAssumption DEF LanesInv, LanesTyped, Ttl
<1>1. CASE UNCHANGED lanesVars
  BY <1>1 DEF lanesVars, LanesInv, LanesTyped, OpenInv, FilesInv, PartInv, RefusedInv, FoundLately
<1>2. CASE \E i \in Issues : \E to \in {"open", "held", "closed"} : Edit(i, to)
  BY <1>2, EditKeepsLanes DEF Edit, FoundLately
<1>3. CASE Pass
  BY <1>3, PassKeepsLanes DEF Pass, FoundLately
<1>4. CASE (\E kind, repo, pages, refresh : BeginLanes(kind, repo, pages, refresh)) \/ LeaveLanes
  BY <1>4, CallBegins, CallIsLeft DEF FoundLately
<1>5. CASE UseCached
  BY <1>5, CacheAnswers DEF UseCached, FoundLately
<1>6. CASE \E page \in SUBSET Issues : PageArrives(page)
  <2>1. LanesInv' /\ \A i \in call'.found \ call.found : i \in Issues /\ wasOpen[i] >= clock.now
    BY <1>6, PageKeepsLanes
  <2> QED BY <1>0, <2>1 DEF FoundLately
<1>7. CASE (\E limited \in BOOLEAN : Refuse(limited)) \/ Exhausted
  BY <1>7, RefusalKeepsLanes DEF FoundLately
<1>8. CASE FinishLanes
  BY <1>8, CallFinishes DEF FoundLately
<1> QED BY <1>1, <1>2, <1>3, <1>4, <1>5, <1>6, <1>7, <1>8 DEF LanesNext

LEMMA RefusedSearchNoMore == ASSUME LanesInv, [LanesNext]_lanesVars PROVE SearchesNoMore
<1>1. sent \in Nat
  BY DEF LanesInv, LanesTyped
<1>2. CASE (\E page \in SUBSET Issues : PageArrives(page)) \/ (\E limited \in BOOLEAN : Refuse(limited))
  BY <1>2 DEF PageArrives, Refuse, Uncached, Asking, LanesInv, RefusedInv, SearchesNoMore
<1>3. CASE sent' \in {0, sent}
  BY <1>1, <1>3 DEF SearchesNoMore
<1> QED BY <1>2, <1>3 DEF LanesNext, lanesVars, Edit, Pass, BeginLanes, LeaveLanes, UseCached, Exhausted, FinishLanes

\* What a call finds was open to take within the lifetime it may use, and after a refused
\* search it searches no more, whatever the lanes, the caches and the edits at GitHub.
THEOREM LanesAreHonest == LanesSpec => LanesHonourAgeAndLimit
<1>1. LanesInv /\ [LanesNext]_lanesVars => LanesInv' /\ FoundLately /\ SearchesNoMore
  BY LanesKept, RefusedSearchNoMore
<1>2. LanesSpec => [][FoundLately]_lanesVars /\ [][SearchesNoMore]_lanesVars
  BY <1>1, LanesStart, PTL DEF LanesSpec
<1> QED BY <1>2 DEF LanesHonourAgeAndLimit, FoundWereOpenLately, SearchesStopAtTheLimit, FoundLately, SearchesNoMore
-----------------------------------------------------------------------------
(* The availability of an issue.                                             *)

SnapFields ==
  {"at", "depth", "state", "held", "locked", "archived", "linked", "searched", "queries", "leads", "pulls", "unsure"}
Coverage ==
  [status : {"not_checked", "complete", "partial", "unavailable"}, pages : Nat,
   more : {"unknown", "yes", "no"}, errors : BOOLEAN]
SnapTyped ==
  /\ world \in Worlds
  /\ snap = [f \in SnapFields |-> snap[f]]
  /\ snap.linked \in Coverage /\ snap.searched \in Coverage /\ snap.unsure \in BOOLEAN
  /\ snap.depth \in {"initial", "final"}
\* The timeline says that a pull request will close the issue.
WillClose(p) == \E n \in DOMAIN world.timeline : world.timeline[n].pr = p /\ world.timeline[n].closes
\* The facts of the issue are GitHub's, and the snapshot says which are missing.
FactsInv ==
  /\ snap.state \in {"unknown", world.state} /\ snap.held \in {"unknown", YesNo(world.held)}
  /\ snap.locked \in {"unknown", YesNo(world.locked)} /\ snap.archived \in {"unknown", YesNo(world.archived)}
  /\ snap.at \notin {"details", "repository"} =>
       snap.unsure \/ "unknown" \notin {snap.state, snap.held, snap.locked, snap.archived}
LeadsInv ==
  \A p \in DOMAIN snap.leads :
    /\ p \in DOMAIN world.pulls
    /\ snap.leads[p].relation = "resolves" => WillClose(p)
\* What is said of a pull request is so at GitHub, or is an error.
Truthful(e) ==
  /\ e.pr \in DOMAIN world.pulls
  /\ e.state = "open" => world.pulls[e.pr].state = "open"
  /\ e.verified /\ e.relation = "resolves" => world.pulls[e.pr].resolves \/ WillClose(e.pr)
  /\ ~e.errors /\ e.state # "open" /\ e.merged # "yes" => world.pulls[e.pr].state = "closed"
  /\ ~e.verified => e.errors
PullsInv == \A e \in snap.pulls : Truthful(e) /\ (e.errors => snap.unsure)
\* Every pull request the events up to the given one refer to is a lead or was looked at.
Known(p) == p \in DOMAIN snap.leads \/ \E e \in snap.pulls : e.pr = p
FollowedTo(last) ==
  \A n \in DOMAIN world.timeline : n <= last /\ world.timeline[n].pr # 0 => Known(world.timeline[n].pr)
Asked == {"details", "repository", "timeline"}
TimelineInv == snap.at \in Asked => snap.linked.errors \/ FollowedTo(snap.linked.pages * EventsPerPage)
\* A timeline that is called complete was followed to its end.
Looked == {"search", "pulls", "pull", "done"}
LinkedInv ==
  snap.at \in Looked =>
    IF snap.linked.status = "complete" THEN FollowedTo(Len(world.timeline))
    ELSE snap.linked.status = "partial" \/ snap.linked.errors
SearchedInv ==
  snap.at \in Looked /\ snap.depth = "final" /\ snap.searched.status # "complete" =>
    snap.searched.status = "partial" \/ snap.searched.errors
DoneInv ==
  snap.at = "done" =>
    /\ DOMAIN snap.leads = {}
    /\ snap.linked.errors \/ snap.searched.errors \/ "partial" \in {snap.linked.status, snap.searched.status} => snap.unsure
SnapInv ==
  /\ SnapTyped /\ FactsInv /\ LeadsInv /\ PullsInv /\ TimelineInv
  /\ LinkedInv /\ SearchedInv /\ DoneInv

LEMMA WorldIs ==
  ASSUME SnapTyped
  PROVE  /\ world.state \in {"open", "closed"}
         /\ world.held \in BOOLEAN /\ world.locked \in BOOLEAN /\ world.archived \in BOOLEAN
         /\ world.timeline \in Seq([pr : Nat, closes : BOOLEAN])
         /\ \A n \in DOMAIN world.timeline : world.timeline[n].pr # 0 => world.timeline[n].pr \in DOMAIN world.pulls
         /\ \A p \in DOMAIN world.pulls : world.pulls[p].state \in {"open", "closed", "merged"}
  BY AvailabilityAssumption DEF SnapTyped

LEMMA SnapStarts == AvailabilityInit => SnapInv
<1> SUFFICES ASSUME AvailabilityInit PROVE SnapInv
  OBVIOUS
<1>1. PICK depth \in {"initial", "final"} : snap = NewSnapshot(depth)
  BY DEF AvailabilityInit
<1>2. /\ snap.linked = NotChecked /\ snap.searched = NotChecked /\ snap.unsure = FALSE /\ snap.depth = depth
      /\ snap.at = "details" /\ snap.leads = <<>> /\ snap.pulls = {}
  BY <1>1 DEF NewSnapshot
<1>3. snap = [f \in SnapFields |-> snap[f]]
  BY <1>1 DEF NewSnapshot, SnapFields
<1>4. SnapTyped
  <2>1. world \in Worlds
    BY DEF AvailabilityInit
  <2>2. NotChecked \in Coverage
    BY DEF NotChecked, Coverage
  <2> QED BY <1>2, <1>3, <2>1, <2>2 DEF SnapTyped
<1>5. FactsInv
  BY <1>1 DEF NewSnapshot, FactsInv
<1>6. TimelineInv
  <2>1. snap.linked.pages * EventsPerPage = 0
    BY <1>2, AvailabilityAssumption DEF NotChecked
  <2> QED BY <2>1, <1>4, WorldIs DEF TimelineInv, FollowedTo
<1> QED BY <1>2, <1>4, <1>5, <1>6 DEF SnapInv, LeadsInv, PullsInv, LinkedInv, SearchedInv, DoneInv, Looked

LEMMA SnapSuffices == SnapInv => AvailabilityIsHonest
<1> SUFFICES ASSUME SnapInv, snap.at = "done"
             PROVE  /\ TakenIsNeverFresh /\ CompetitionIsReal /\ NothingUnknownIsSilent
  BY DEF AvailabilityIsHonest, TakenIsNeverFresh, CompetitionIsReal, NothingUnknownIsSilent
<1>1. TakenIsNeverFresh
  <2> SUFFICES ASSUME FreshFixAvailable(snap)
               PROVE  /\ world.state = "open" /\ ~world.held /\ ~world.locked /\ ~world.archived
                      /\ \A n \in DOMAIN world.timeline :
                           world.timeline[n].pr # 0 => world.pulls[world.timeline[n].pr].state = "closed"
    BY DEF TakenIsNeverFresh
  <2>1. world.state = "open" /\ ~world.held /\ ~world.locked /\ ~world.archived
    BY WorldIs DEF SnapInv, FactsInv, FreshFixAvailable, ChecksComplete, KnownUnavailable, YesNo
  <2>2. FollowedTo(Len(world.timeline))
    BY DEF SnapInv, LinkedInv, Looked, FreshFixAvailable, ChecksComplete
  <2>3. ASSUME NEW n \in DOMAIN world.timeline, world.timeline[n].pr # 0
        PROVE  world.pulls[world.timeline[n].pr].state = "closed"
    <3>1. PICK e \in snap.pulls : e.pr = world.timeline[n].pr
      BY <2>2, <2>3, WorldIs DEF FollowedTo, Known, SnapInv, DoneInv
    <3> QED BY <3>1 DEF SnapInv, PullsInv, Truthful, FreshFixAvailable, ChecksComplete
  <2> QED BY <2>1, <2>3
<1>2. CompetitionIsReal
  <2> SUFFICES ASSUME NEW e \in snap.pulls, OpenResolution(e)
               PROVE  \E p \in DOMAIN world.pulls :
                        world.pulls[p].state = "open" /\ (world.pulls[p].resolves \/ WillClose(p))
    BY DEF CompetitionIsReal, StrongOpenCompetition, WillClose
  <2> QED BY DEF SnapInv, PullsInv, Truthful, OpenResolution
<1>3. NothingUnknownIsSilent
  <2> SUFFICES ASSUME ~snap.unsure PROVE ChecksComplete(snap)
    BY DEF NothingUnknownIsSilent
  <2>1. "unknown" \notin {snap.state, snap.held, snap.archived, snap.locked}
    BY DEF SnapInv, FactsInv
  <2>2. snap.linked.status = "complete"
    BY DEF SnapInv, LinkedInv, Looked, DoneInv
  <2>3. \A p \in snap.pulls : p.verified /\ ~p.errors
    BY DEF SnapInv, PullsInv, Truthful
  <2>4. snap.depth = "final" => snap.searched.status = "complete"
    BY DEF SnapInv, SearchedInv, Looked, DoneInv
  <2> HIDE DEF SnapInv
  <2>5. snap.depth \in {"initial", "final"}
    BY DEF SnapInv, SnapTyped
  <2> QED BY <2>1, <2>2, <2>3, <2>4, <2>5 DEF ChecksComplete
<1> QED BY <1>1, <1>2, <1>3

\* Asking for the issue and its repository changes only what is known of them.
SameLeads == snap'.leads = snap.leads /\ snap'.pulls = snap.pulls
LEMMA FactsMove ==
  ASSUME SnapInv, SnapTyped', FactsInv', world' = world, SameLeads,
         snap'.at \in Asked, snap.at \in Asked, snap'.linked = snap.linked, snap.unsure => snap'.unsure
  PROVE  SnapInv'
<1>1. LeadsInv' /\ PullsInv'
  BY DEF SnapInv, LeadsInv, PullsInv, SameLeads, Truthful, WillClose
<1>2. TimelineInv'
  BY DEF SnapInv, TimelineInv, FollowedTo, Known, SameLeads
<1> QED BY <1>1, <1>2 DEF SnapInv, LinkedInv, SearchedInv, DoneInv, Looked, Asked

LEMMA DetailsAsked == ASSUME SnapInv, NEW reply, AskDetails(reply) PROVE SnapInv'
<1>1. world' = world /\ snap.at = "details"
  BY DEF AskDetails
<1>2. CASE reply = "failed"
  <2>1. snap' = [snap EXCEPT !.unsure = TRUE, !.at = "repository"]
    BY <1>2 DEF AskDetails
  <2>2. SnapTyped' /\ SameLeads /\ snap'.at = "repository" /\ snap'.linked = snap.linked /\ snap'.unsure
    BY <1>1, <2>1 DEF SnapInv, SnapTyped, SnapFields, SameLeads
  <2>3. FactsInv'
    BY <1>1, <2>1 DEF SnapInv, SnapTyped, SnapFields, FactsInv
  <2> QED BY <1>1, <2>2, <2>3, FactsMove DEF Asked
<1>3. CASE reply # "failed"
  <2>1. snap' = [snap EXCEPT !.state = world.state, !.locked = YesNo(world.locked), !.at = "repository",
                   !.held = IF reply = "partial" THEN "unknown" ELSE YesNo(world.held)]
    BY <1>3 DEF AskDetails
  <2>2. SnapTyped' /\ SameLeads /\ snap'.at = "repository" /\ snap'.linked = snap.linked /\ snap'.unsure = snap.unsure
    BY <1>1, <2>1 DEF SnapInv, SnapTyped, SnapFields, SameLeads
  <2>3. FactsInv'
    BY <1>1, <2>1 DEF SnapInv, SnapTyped, SnapFields, FactsInv
  <2> QED BY <1>1, <2>2, <2>3, FactsMove DEF Asked
<1> QED BY <1>2, <1>3

LEMMA RepositoryAsked == ASSUME SnapInv, NEW reply, AskRepository(reply) PROVE SnapInv'
<1> DEFINE archived == IF reply = "ok" THEN YesNo(world.archived) ELSE "unknown"
<1>1. /\ world' = world /\ snap.at = "repository"
      /\ snap' = [[snap EXCEPT !.archived = archived, !.at = "timeline"] EXCEPT
                    !.unsure = snap.unsure \/ "unknown" \in {snap.state, snap.held, snap.locked, archived}]
  BY DEF AskRepository, SnapInv, SnapTyped, SnapFields
<1>2. /\ SameLeads /\ snap'.at = "timeline" /\ snap'.linked = snap.linked /\ snap'.archived = archived
      /\ snap'.state = snap.state /\ snap'.held = snap.held /\ snap'.locked = snap.locked
      /\ snap' = [f \in SnapFields |-> snap'[f]] /\ snap'.searched = snap.searched /\ snap'.depth = snap.depth
      /\ snap'.unsure = (snap.unsure \/ "unknown" \in {snap.state, snap.held, snap.locked, archived})
  BY <1>1 DEF SnapInv, SnapTyped, SnapFields, SameLeads
<1>3. SnapTyped'
  BY <1>1, <1>2 DEF SnapInv, SnapTyped
<1>4. FactsInv'
  BY <1>1, <1>2 DEF SnapInv, FactsInv
<1> QED BY <1>1, <1>2, <1>3, <1>4, FactsMove DEF Asked

\* A lead that resolves was one already, or is said to close the issue by the timeline.
LEMMA LeadsPushed ==
  ASSUME SnapInv, NEW refs, NEW relation, relation # "resolves",
         \A r \in refs : r.pr \in DOMAIN world.pulls /\ (r.closes => WillClose(r.pr))
  PROVE  LET leads == PushLeads(snap.leads, refs, relation) IN
         /\ DOMAIN leads = DOMAIN snap.leads \cup {r.pr : r \in refs}
         /\ \A p \in DOMAIN leads :
              p \in DOMAIN world.pulls /\ (leads[p].relation = "resolves" => WillClose(p))
  BY DEF PushLeads, SnapInv, LeadsInv

LEMMA CoveredIs ==
  ASSUME NEW c \in Coverage
  PROVE  /\ Covered(c) \in Coverage /\ Covered(c).errors = c.errors
         /\ ~c.errors => Covered(c) = c
         /\ c.errors => Covered(c).status \in {"partial", "unavailable"}
  BY DEF Covered, Coverage

\* What is left of a snapshot when its timeline was read as far as it goes.
LEMMA TimelineEnds ==
  ASSUME SnapInv, NEW s, s = [f \in SnapFields |-> s[f]], s.linked \in Coverage,
         s.searched = snap.searched, s.depth = snap.depth, s.pulls = snap.pulls, s.unsure \in BOOLEAN,
         snap.unsure => s.unsure, snap.at = "timeline",
         s.state = snap.state, s.held = snap.held, s.locked = snap.locked, s.archived = snap.archived,
         world' = world, snap' = EndTimeline(s),
         \A p \in DOMAIN s.leads :
           p \in DOMAIN world.pulls /\ (s.leads[p].relation = "resolves" => WillClose(p)),
         ~s.linked.errors => s.linked.status \in {"complete", "partial"},
         ~s.linked.errors /\ s.linked.status = "complete" =>
           \A n \in DOMAIN world.timeline : world.timeline[n].pr # 0 =>
             world.timeline[n].pr \in DOMAIN s.leads \/ \E e \in snap.pulls : e.pr = world.timeline[n].pr
  PROVE  SnapInv'
<1>1. /\ snap' = [f \in SnapFields |-> snap'[f]] /\ snap'.linked = Covered(s.linked)
      /\ snap'.at \in {"search", "pulls"} /\ snap'.leads = s.leads /\ snap'.pulls = snap.pulls
      /\ snap'.state = snap.state /\ snap'.held = snap.held /\ snap'.locked = snap.locked
      /\ snap'.archived = snap.archived /\ snap'.unsure = s.unsure /\ snap'.depth = snap.depth
      /\ snap'.searched = [snap.searched EXCEPT !.status = IF snap.depth = "final" THEN "complete" ELSE @]
  BY DEF EndTimeline, SnapFields
<1>2. snap'.searched \in Coverage /\ (snap.depth = "final" => snap'.searched.status = "complete")
  BY <1>1 DEF SnapInv, SnapTyped, Coverage
<1>3. SnapTyped'
  BY <1>1, <1>2, CoveredIs DEF SnapInv, SnapTyped
<1>4. FactsInv'
  BY <1>1 DEF SnapInv, FactsInv
<1>5. LeadsInv' /\ PullsInv'
  BY <1>1 DEF SnapInv, LeadsInv, PullsInv, Truthful, WillClose
<1>6. LinkedInv'
  <2>1. CASE s.linked.errors
    BY <1>1, <2>1, CoveredIs DEF LinkedInv
  <2>2. CASE ~s.linked.errors
    <3>1. snap'.linked = s.linked
      BY <1>1, <2>2, CoveredIs
    <3> QED BY <1>1, <2>2, <3>1 DEF LinkedInv, FollowedTo, Known
  <2> QED BY <2>1, <2>2
<1>7. SearchedInv' /\ DoneInv' /\ TimelineInv'
  BY <1>1, <1>2 DEF SearchedInv, DoneInv, TimelineInv, Asked
<1> QED BY <1>3, <1>4, <1>5, <1>6, <1>7 DEF SnapInv

LEMMA TimelineAsked == ASSUME SnapInv, NEW reply, NEW header \in BOOLEAN, AskTimeline(reply, header) PROVE SnapInv'
<1> DEFINE size == EventsPerPage
           end == Len(world.timeline)
           page == snap.linked.pages + 1
           from == (page - 1) * EventsPerPage
           last == IF from + EventsPerPage < Len(world.timeline) THEN from + EventsPerPage ELSE Len(world.timeline)
           more == HasMore(header, last - from, Len(world.timeline) > last)
           refs == {[pr |-> world.timeline[n].pr, at |-> n, closes |-> world.timeline[n].closes] :
                      n \in {n \in from + 1..last : world.timeline[n].pr # 0}}
           leads == IF reply = "odd" THEN snap.leads ELSE PushLeads(snap.leads, refs, "mention")
           linked == [status |-> IF more = "no" THEN "complete" ELSE "partial", pages |-> page,
                      more |-> more, errors |-> snap.linked.errors \/ reply = "odd"]
           read == [snap EXCEPT !.leads = leads, !.unsure = snap.unsure \/ reply = "odd", !.linked = linked]
<1>1. /\ snap.at = "timeline" /\ world' = world
      /\ snap' = IF reply = "failed" THEN EndTimeline([snap EXCEPT !.linked.errors = TRUE])
                 ELSE IF more = "yes" /\ page < TimelinePages[snap.depth] THEN read ELSE EndTimeline(read)
  BY DEF AskTimeline
<1>2. /\ size \in Nat \ {0} /\ end \in Nat /\ snap.linked.pages \in Nat /\ DOMAIN world.timeline = 1..end
      /\ snap.linked.errors \in BOOLEAN
  BY AvailabilityAssumption, WorldIs DEF SnapInv, SnapTyped, Coverage
<1>3. from \in Nat /\ page * size = from + size /\ snap.linked.pages * size = from
  BY <1>2
<1> HIDE DEF from
<1>4. last \in Nat /\ last <= end /\ (last < end => last = from + size) /\ last <= from + size
  BY <1>2, <1>3
<1>5. more \in {"unknown", "yes", "no"} /\ (more = "no" => last = end)
  BY <1>2, <1>3, <1>4 DEF HasMore, YesNo
<1>6. \A r \in refs : r.pr \in DOMAIN world.pulls /\ (r.closes => WillClose(r.pr))
  <2> SUFFICES ASSUME NEW n \in from + 1..last, world.timeline[n].pr # 0
               PROVE  /\ world.timeline[n].pr \in DOMAIN world.pulls
                      /\ world.timeline[n].closes => WillClose(world.timeline[n].pr)
    OBVIOUS
  <2>1. n \in DOMAIN world.timeline
    BY <1>2, <1>3, <1>4
  <2> QED BY <2>1, WorldIs DEF WillClose, SnapInv
<1>7. \A p \in DOMAIN leads : p \in DOMAIN world.pulls /\ (leads[p].relation = "resolves" => WillClose(p))
  BY <1>6, LeadsPushed DEF SnapInv, LeadsInv
<1>8. ASSUME reply # "odd", ~snap.linked.errors,
             NEW n \in DOMAIN world.timeline, world.timeline[n].pr # 0, n <= last
      PROVE  world.timeline[n].pr \in DOMAIN leads \/ \E e \in snap.pulls : e.pr = world.timeline[n].pr
  <2>1. DOMAIN leads = DOMAIN snap.leads \cup {r.pr : r \in refs}
    BY <1>6, <1>8, LeadsPushed
  <2>2. CASE n <= from
    BY <1>1, <1>3, <1>8, <2>1, <2>2 DEF SnapInv, TimelineInv, Asked, FollowedTo, Known
  <2>3. CASE n > from
    <3>1. n \in from + 1..last
      BY <1>2, <1>3, <1>4, <1>8, <2>3
    <3>2. \E ref \in refs : ref.pr = world.timeline[n].pr
      <4> DEFINE ref == [pr |-> world.timeline[n].pr, at |-> n, closes |-> world.timeline[n].closes]
      <4>1. ref \in refs
        BY <1>8, <3>1
      <4> HIDE DEF refs
      <4> WITNESS ref \in refs
      <4> QED OBVIOUS
    <3> QED BY <2>1, <3>2
  <2> QED BY <1>2, <1>3, <2>2, <2>3
<1> HIDE DEF leads, more, last, refs
<1>9. linked \in Coverage
  BY <1>2, <1>5 DEF Coverage
<1>10. /\ read = [f \in SnapFields |-> read[f]] /\ read.linked = linked /\ read.leads = leads
       /\ read.searched = snap.searched /\ read.depth = snap.depth /\ read.pulls = snap.pulls
       /\ read.unsure = (snap.unsure \/ reply = "odd") /\ read.at = snap.at
       /\ read.state = snap.state /\ read.held = snap.held /\ read.locked = snap.locked
       /\ read.archived = snap.archived
  BY DEF SnapInv, SnapTyped, SnapFields
<1> HIDE DEF read
<1>11. CASE reply = "failed"
  <2> DEFINE s == [snap EXCEPT !.linked.errors = TRUE]
  <2>1. /\ s = [f \in SnapFields |-> s[f]] /\ s.linked = [snap.linked EXCEPT !.errors = TRUE]
        /\ s.searched = snap.searched /\ s.depth = snap.depth /\ s.pulls = snap.pulls /\ s.leads = snap.leads
        /\ s.unsure = snap.unsure /\ s.state = snap.state /\ s.held = snap.held /\ s.locked = snap.locked
        /\ s.archived = snap.archived
    BY DEF SnapInv, SnapTyped, SnapFields
  <2> HIDE DEF s
  <2>2. s.linked \in Coverage /\ s.linked.errors
    BY <2>1 DEF SnapInv, SnapTyped, Coverage
  <2>3. snap' = EndTimeline(s)
    BY <1>1, <1>11 DEF s
  <2>4. \A p \in DOMAIN s.leads : p \in DOMAIN world.pulls /\ (s.leads[p].relation = "resolves" => WillClose(p))
    BY <2>1 DEF SnapInv, LeadsInv
  <2>5. s.unsure \in BOOLEAN /\ (snap.unsure => s.unsure)
    BY <2>1 DEF SnapInv, SnapTyped
  <2> QED BY <1>1, <2>1, <2>2, <2>3, <2>4, <2>5, TimelineEnds
<1>12. CASE snap' = EndTimeline(read)
  <2>1. read.unsure \in BOOLEAN /\ (snap.unsure => read.unsure) /\ read.linked \in Coverage
    BY <1>9, <1>10 DEF SnapInv, SnapTyped
  <2>2. ~read.linked.errors => reply # "odd" /\ ~snap.linked.errors
    <3>1. linked.errors = (snap.linked.errors \/ reply = "odd")
      OBVIOUS
    <3> QED BY <1>10, <3>1
  <2>3. read.linked.status \in {"complete", "partial"} /\ (read.linked.status = "complete" => last = end)
    BY <1>5, <1>10
  <2>4. ~read.linked.errors /\ read.linked.status = "complete" =>
          \A n \in DOMAIN world.timeline : world.timeline[n].pr # 0 =>
            world.timeline[n].pr \in DOMAIN read.leads \/ \E e \in snap.pulls : e.pr = world.timeline[n].pr
    BY <1>2, <1>8, <1>10, <2>2, <2>3
  <2> QED BY <1>1, <1>7, <1>10, <1>12, <2>1, <2>3, <2>4, TimelineEnds
<1>13. CASE snap' = read /\ more = "yes"
  <2>1. SnapTyped' /\ FactsInv'
    BY <1>1, <1>9, <1>10, <1>13 DEF SnapInv, SnapTyped, FactsInv
  <2>2. LeadsInv' /\ PullsInv'
    <3>1. LeadsInv'
      BY <1>1, <1>7, <1>10, <1>13 DEF LeadsInv, WillClose
    <3>2. snap'.pulls = snap.pulls /\ (snap.unsure => snap'.unsure)
      BY <1>10, <1>13
    <3>3. PullsInv'
      BY <1>1, <3>2 DEF SnapInv, PullsInv, Truthful, WillClose
    <3> QED BY <3>1, <3>3
  <2>3. TimelineInv'
    <3> SUFFICES ASSUME ~linked.errors, NEW n \in DOMAIN world.timeline,
                        world.timeline[n].pr # 0, n <= page * size
                 PROVE  world.timeline[n].pr \in DOMAIN leads \/ \E e \in snap.pulls : e.pr = world.timeline[n].pr
      <4>1. snap'.linked.pages = page /\ snap'.linked.errors = linked.errors
        BY <1>10, <1>13
      <4> HIDE DEF linked, page
      <4> QED BY <1>1, <1>10, <1>13, <4>1 DEF TimelineInv, FollowedTo, Known
    <3>0. reply # "odd" /\ ~snap.linked.errors
      OBVIOUS
    <3>1. n <= last
      BY <1>2, <1>3, <1>4
    <3> QED BY <1>8, <3>0, <3>1
  <2> QED BY <1>1, <1>10, <1>13, <2>1, <2>2, <2>3 DEF SnapInv, LinkedInv, SearchedInv, DoneInv, Looked
<1> QED BY <1>1, <1>11, <1>12, <1>13

\* What follows the timeline changes nothing of the issue.
Later ==
  /\ world' = world /\ snap' = [f \in SnapFields |-> snap'[f]] /\ snap.at \in Looked /\ snap'.at \in Looked
  /\ snap'.state = snap.state /\ snap'.held = snap.held /\ snap'.locked = snap.locked
  /\ snap'.archived = snap.archived /\ snap'.depth = snap.depth
  /\ snap'.unsure \in BOOLEAN /\ (snap.unsure => snap'.unsure)
LEMMA LaterMoves ==
  ASSUME SnapInv, Later, snap'.linked \in Coverage, snap'.searched \in Coverage,
         LeadsInv', PullsInv', LinkedInv', SearchedInv', DoneInv'
  PROVE  SnapInv'
<1>1. SnapTyped' /\ FactsInv'
  BY DEF SnapInv, SnapTyped, FactsInv, Later, Looked
<1> QED BY <1>1 DEF SnapInv, Later, TimelineInv, Asked, Looked

LEMMA SearchAsked ==
  ASSUME SnapInv, NEW reply, NEW found \in {0} \cup DOMAIN world.pulls, AskSearch(reply, found)
  PROVE  SnapInv'
<1> DEFINE ref == [pr |-> found, at |-> Len(world.timeline) + 3 - snap.queries, closes |-> FALSE]
           leads == IF reply = "failed" \/ found = 0 THEN snap.leads ELSE PushLeads(snap.leads, {ref}, "lead")
           searched == IF reply = "failed" THEN [snap.searched EXCEPT !.errors = TRUE]
                       ELSE [snap.searched EXCEPT !.pages = @ + 1, !.more = YesNo(@ = "yes" \/ reply = "incomplete"),
                                                  !.status = IF reply = "incomplete" THEN "partial" ELSE @]
<1>1. /\ snap.at = "search" /\ world' = world
      /\ snap' = IF snap.queries > 1 THEN [snap EXCEPT !.queries = @ - 1, !.leads = leads, !.searched = searched]
                 ELSE [snap EXCEPT !.queries = 0, !.leads = leads, !.searched = Covered(searched),
                                   !.unsure = TRUE, !.at = "pulls"]
  BY DEF AskSearch
<1>2. /\ searched \in Coverage
      /\ reply = "failed" => searched.errors
      /\ reply # "failed" => searched.errors = snap.searched.errors /\ searched.status \in {snap.searched.status, "partial"}
  <2>1. snap.searched \in Coverage
    BY DEF SnapInv, SnapTyped
  <2>2. CASE reply = "failed"
    BY <2>1, <2>2 DEF Coverage
  <2>3. CASE reply # "failed"
    <3> DEFINE more == YesNo(snap.searched.more = "yes" \/ reply = "incomplete")
               status == IF reply = "incomplete" THEN "partial" ELSE snap.searched.status
    <3>1. more \in {"yes", "no"} /\ status \in {"partial", snap.searched.status}
      BY DEF YesNo
    <3> HIDE DEF more, status
    <3>2. searched = [snap.searched EXCEPT !.pages = snap.searched.pages + 1, !.more = more, !.status = status]
      BY <2>3 DEF more, status
    <3> HIDE DEF searched
    <3>3. searched = [status |-> status, pages |-> snap.searched.pages + 1, more |-> more, errors |-> snap.searched.errors]
      BY <2>1, <3>2 DEF Coverage
    <3>4. searched \in Coverage
      BY <2>1, <3>1, <3>3 DEF Coverage
    <3> QED BY <2>3, <3>1, <3>3, <3>4
  <2> QED BY <2>2, <2>3
<1>3. /\ DOMAIN snap.leads \subseteq DOMAIN leads
      /\ \A p \in DOMAIN leads : p \in DOMAIN world.pulls /\ (leads[p].relation = "resolves" => WillClose(p))
  <2>1. CASE leads = snap.leads
    BY <2>1 DEF SnapInv, LeadsInv
  <2>2. CASE found # 0 /\ leads = PushLeads(snap.leads, {ref}, "lead")
    <3>1. \A r \in {ref} : r.pr \in DOMAIN world.pulls /\ (r.closes => WillClose(r.pr))
      BY <2>2
    <3> HIDE DEF ref
    <3> DEFINE refs == {ref}
               pushed == PushLeads(snap.leads, refs, "lead")
    <3>3. \A r \in refs : r.pr \in DOMAIN world.pulls /\ (r.closes => WillClose(r.pr))
      BY <3>1
    <3> HIDE DEF refs
    <3>4. DOMAIN pushed = DOMAIN snap.leads \cup {r.pr : r \in refs}
      BY <3>3, LeadsPushed
    <3>5. \A p \in DOMAIN pushed : p \in DOMAIN world.pulls /\ (pushed[p].relation = "resolves" => WillClose(p))
      BY <3>3, LeadsPushed
    <3> HIDE DEF leads
    <3> QED BY <2>2, <3>4, <3>5 DEF refs
  <2> QED BY <2>1, <2>2
<1> HIDE DEF leads, searched
<1>4. /\ Later /\ snap'.leads = leads /\ snap'.pulls = snap.pulls /\ snap'.linked = snap.linked
      /\ snap'.searched \in {searched, Covered(searched)} /\ snap'.at \in {"search", "pulls"}
  BY <1>1 DEF SnapInv, SnapTyped, SnapFields, Later, Looked
<1>5. LeadsInv' /\ PullsInv'
  BY <1>3, <1>4 DEF SnapInv, LeadsInv, PullsInv, Truthful, WillClose, Later
<1>6. LinkedInv'
  BY <1>1, <1>3, <1>4 DEF SnapInv, LinkedInv, FollowedTo, Known, Looked
<1>7. SearchedInv'
  <2>1. snap.depth = "final" /\ searched.status # "complete" => searched.status = "partial" \/ searched.errors
    BY <1>1, <1>2 DEF SnapInv, SearchedInv, Looked
  <2> QED BY <1>2, <1>4, <2>1, CoveredIs DEF SearchedInv, Later
<1>8. DoneInv' /\ snap'.linked \in Coverage /\ snap'.searched \in Coverage
  BY <1>2, <1>4, CoveredIs DEF DoneInv, SnapInv, SnapTyped
<1> QED BY <1>4, <1>5, <1>6, <1>7, <1>8, LaterMoves

LEMMA PullsLimited == ASSUME SnapInv, LimitPulls PROVE SnapInv'
<1> DEFINE first == {p \in DOMAIN snap.leads : Cardinality(Before(p)) < PullLimit[snap.depth]}
           cut == [p \in first |-> snap.leads[p]]
<1>1. /\ snap.at = "pulls" /\ world' = world
      /\ snap' = IF first = DOMAIN snap.leads THEN [snap EXCEPT !.at = "pull"]
                 ELSE [snap EXCEPT !.at = "pull", !.leads = cut, !.linked.status = "partial", !.unsure = TRUE]
  BY DEF LimitPulls
<1>2. first \subseteq DOMAIN snap.leads /\ DOMAIN cut = first /\ \A p \in first : cut[p] = snap.leads[p]
  OBVIOUS
<1> HIDE DEF first, cut
<1>3. /\ Later /\ snap'.pulls = snap.pulls /\ snap'.searched = snap.searched /\ snap'.at = "pull"
      /\ \/ snap'.leads = snap.leads /\ snap'.linked = snap.linked
         \/ snap'.leads = cut /\ snap'.linked = [snap.linked EXCEPT !.status = "partial"]
  BY <1>1 DEF SnapInv, SnapTyped, SnapFields, Later, Looked
<1>4. LeadsInv' /\ PullsInv'
  BY <1>2, <1>3 DEF SnapInv, LeadsInv, PullsInv, Truthful, WillClose, Later
<1>5. snap'.linked \in Coverage /\ (snap'.linked = snap.linked \/ snap'.linked.status = "partial")
  BY <1>3 DEF SnapInv, SnapTyped, Coverage
<1>6. LinkedInv'
  BY <1>1, <1>3, <1>5 DEF SnapInv, LinkedInv, FollowedTo, Known, Looked
<1>7. SearchedInv' /\ DoneInv' /\ snap'.searched \in Coverage
  BY <1>1, <1>3 DEF SnapInv, SnapTyped, SearchedInv, DoneInv, Later, Looked
<1> QED BY <1>3, <1>4, <1>5, <1>6, <1>7, LaterMoves

LEMMA PullAsked ==
  ASSUME SnapInv, NEW p \in DOMAIN snap.leads, NEW reply \in {"ok", "partial", "other", "failed"}, AskPull(p, reply)
  PROVE  SnapInv'
<1> DEFINE pr == world.pulls[p]
           verified == reply # "other"
           answer == [pr |-> p, verified |-> verified, errors |-> reply # "ok",
                      state |-> IF pr.state = "open" THEN "open" ELSE "closed",
                      merged |-> IF reply = "partial" THEN "unknown" ELSE YesNo(pr.state = "merged"),
                      base |-> pr.base,
                      relation |-> IF verified /\ pr.resolves THEN "resolves" ELSE snap.leads[p].relation]
           evidence == IF reply = "failed" THEN Unread(p) ELSE answer
           rest == [q \in DOMAIN snap.leads \ {p} |-> snap.leads[q]]
           unsure == snap.unsure \/ evidence.errors \/ evidence.relation # "resolves"
                       \/ (evidence.merged = "yes" /\ evidence.base # "main")
<1>1. /\ snap.at = "pull" /\ world' = world
      /\ snap' = [snap EXCEPT !.leads = rest, !.pulls = snap.pulls \cup {evidence}, !.unsure = unsure]
  BY DEF AskPull
<1>2. /\ p \in DOMAIN world.pulls /\ (snap.leads[p].relation = "resolves" => WillClose(p))
      /\ pr.state \in {"open", "closed", "merged"}
  BY WorldIs DEF SnapInv, LeadsInv
<1>3. Truthful(evidence) /\ evidence.pr = p
  BY <1>2 DEF Truthful, Unread, YesNo
<1>4. DOMAIN rest = DOMAIN snap.leads \ {p} /\ \A q \in DOMAIN rest : rest[q] = snap.leads[q]
  OBVIOUS
<1>5. unsure \in BOOLEAN /\ (snap.unsure => unsure) /\ (evidence.errors => unsure)
  BY DEF SnapInv, SnapTyped, Unread
<1> HIDE DEF evidence, rest, unsure
<1>6. /\ Later /\ snap'.leads = rest /\ snap'.pulls = snap.pulls \cup {evidence} /\ snap'.unsure = unsure
      /\ snap'.linked = snap.linked /\ snap'.searched = snap.searched /\ snap'.at = "pull"
  BY <1>1, <1>5 DEF SnapInv, SnapTyped, SnapFields, Later, Looked
<1>7. LeadsInv'
  BY <1>1, <1>4, <1>6 DEF SnapInv, LeadsInv, WillClose
<1>8. PullsInv'
  <2>1. \A e : Truthful(e) => Truthful(e)'
    BY <1>1 DEF Truthful, WillClose
  <2> QED BY <1>3, <1>5, <1>6, <2>1 DEF SnapInv, PullsInv
<1>9. LinkedInv'
  <2>1. \A q : Known(q) => Known(q)'
    BY <1>3, <1>4, <1>6 DEF Known
  <2> QED BY <1>1, <1>6, <2>1 DEF SnapInv, LinkedInv, FollowedTo, Looked
<1>10. SearchedInv' /\ DoneInv' /\ snap'.searched \in Coverage /\ snap'.linked \in Coverage
  BY <1>1, <1>6 DEF SnapInv, SnapTyped, SearchedInv, DoneInv, Later, Looked
<1> QED BY <1>6, <1>7, <1>8, <1>9, <1>10, LaterMoves

LEMMA SnapEnds == ASSUME SnapInv, Done PROVE SnapInv'
<1> DEFINE unsure == snap.unsure \/ snap.linked.errors \/ snap.searched.errors
                       \/ "partial" \in {snap.linked.status, snap.searched.status}
<1>1. /\ snap.at = "pull" /\ world' = world /\ DOMAIN snap.leads = {}
      /\ snap' = [snap EXCEPT !.at = "done", !.unsure = unsure]
  BY DEF Done, Conclude
<1>2. unsure \in BOOLEAN /\ (snap.unsure => unsure)
  BY DEF SnapInv, SnapTyped, Coverage
<1>3. /\ Later /\ snap'.leads = snap.leads /\ snap'.pulls = snap.pulls /\ snap'.unsure = unsure
      /\ snap'.linked = snap.linked /\ snap'.searched = snap.searched
  BY <1>1, <1>2 DEF SnapInv, SnapTyped, SnapFields, Later, Looked
<1>4. LeadsInv' /\ PullsInv'
  BY <1>1, <1>2, <1>3 DEF SnapInv, LeadsInv, PullsInv, Truthful, WillClose
<1>5. LinkedInv' /\ SearchedInv'
  BY <1>1, <1>3 DEF SnapInv, LinkedInv, SearchedInv, FollowedTo, Known, Looked, Later
<1>6. DoneInv' /\ snap'.searched \in Coverage /\ snap'.linked \in Coverage
  BY <1>1, <1>3 DEF SnapInv, SnapTyped, DoneInv
<1> QED BY <1>3, <1>4, <1>5, <1>6, LaterMoves

\* An issue is called free only when nobody has it, excluded only by real competition, and
\* what could not be checked is said, whatever GitHub holds and whichever requests fail.
THEOREM SnapshotsAreHonest == AvailabilitySpec => []AvailabilityIsHonest
<1>1. SnapInv /\ [AvailabilityNext]_availabilityVars => SnapInv'
  <2> SUFFICES ASSUME SnapInv, [AvailabilityNext]_availabilityVars PROVE SnapInv'
    OBVIOUS
  <2>1. CASE UNCHANGED availabilityVars
    <3>1. world' = world /\ snap' = snap
      BY <2>1 DEF availabilityVars
    <3>2. SnapTyped' /\ FactsInv' /\ LeadsInv' /\ SearchedInv' /\ DoneInv'
      BY <3>1 DEF SnapInv, SnapTyped, FactsInv, LeadsInv, WillClose, SearchedInv, DoneInv
    <3>3. PullsInv' /\ TimelineInv' /\ LinkedInv'
      BY <3>1 DEF SnapInv, PullsInv, Truthful, WillClose, TimelineInv, LinkedInv, FollowedTo, Known
    <3> QED BY <3>2, <3>3 DEF SnapInv
  <2>2. CASE AvailabilityNext
    BY <2>2, DetailsAsked, RepositoryAsked, TimelineAsked, SearchAsked, PullsLimited, PullAsked, SnapEnds
       DEF AvailabilityNext
  <2> QED BY <2>1, <2>2
<1> QED BY <1>1, SnapStarts, SnapSuffices, PTL DEF AvailabilitySpec
=================================================================================
