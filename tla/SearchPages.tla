------------------------------ MODULE SearchPages ------------------------------
(***************************************************************************)
(* An agent's search (GitHubClient::search_candidates): pages of GitHub's      *)
(* ordering, each from its cached file or asked, up to a number of pages per    *)
(* call; the call says at which page the next one goes on.  GitHub exposes a      *)
(* bounded number of results, may answer with part of a page, and may refuse.   *)
(***************************************************************************)
EXTENDS Integers, FiniteSets

CONSTANTS
  Results,     \* results of the query
  PageSizes, \* page sizes an agent asks for
  Exposed,   \* results GitHub lets anyone read
  MostPages, \* pages one call may scan
  PageTtl, MaxSearches, LastPageDay \* lifetime of a cached page, and bounds
ASSUME SearchAssumption == /\ Results \in Nat /\ Exposed \in Nat \ {0} /\ PageTtl \in Nat
                           /\ PageSizes \subseteq 1..Exposed

VARIABLES
  filed,  \* cached pages: <<page size, page>> -> when, how many results, the total given
  search, \* the call: its page and page size, and what it has to say
  chain,  \* history: the pages read by the calls that followed one another, their page size
          \* and whether GitHub left part of any out
  hour    \* the time, and calls made
searchVars == <<filed, search, chain, hour>>
-----------------------------------------------------------------------------
NoPage == 0   \* next_page is None
SmallerOf(m, n) == IF m < n THEN m ELSE n
SizeOf(perPage, page) ==
  LET before == (page - 1) * perPage IN
  IF Results <= before THEN 0 ELSE SmallerOf(perPage, Results - before)
\* SearchOptions::validate.
ValidSearch(page, perPage, maxPages) ==
  perPage \in 1..Exposed /\ page \in 1..(Exposed \div perPage) /\ maxPages \in 1..MostPages

NewChain == [read |-> {}, size |-> 0, partial |-> FALSE, told |-> FALSE]
Resting == [at |-> "rest", page |-> NoPage, size |-> 0, last |-> 0, refresh |-> FALSE, next |-> NoPage]
SearchInit ==
  /\ filed = [k \in {} |-> 0] /\ search = Resting
  /\ chain = NewChain /\ hour = [now |-> 0, calls |-> 0]

Go(page, perPage, maxPages, refresh) ==
  /\ search.at # "page" /\ hour.calls < MaxSearches
  /\ ValidSearch(page, perPage, maxPages)
  /\ search' = [at |-> "page", page |-> page, size |-> perPage, refresh |-> refresh, next |-> NoPage,
                last |-> SmallerOf(page + maxPages - 1, Exposed \div perPage)]
  /\ hour' = [hour EXCEPT !.calls = @ + 1]
  /\ UNCHANGED filed
\* A search begins at the first page, or goes on where the last one said.
StartSearch(perPage, maxPages, refresh) ==
  /\ Go(1, perPage, maxPages, refresh)
  /\ chain' = [NewChain EXCEPT !.size = perPage]
GoOnSearching(maxPages, refresh) ==
  /\ search.at = "done" /\ search.next # NoPage
  /\ Go(search.next, search.size, maxPages, refresh)
  /\ UNCHANGED chain

Key == <<search.size, search.page>>
\* A page of which GitHub returned `returned` results (total 0: it gave none): is there
\* more, may the call go on, and has it reached the end of what GitHub exposes?
More(page, returned, total) ==
  returned = search.size /\ (total = 0 \/ page * search.size < total)
AfterPage(returned, total) ==
  IF More(search.page, returned, total) /\ search.page # search.last
  THEN [search EXCEPT !.page = @ + 1, !.next = search.page + 1]
  ELSE [search EXCEPT !.at = "done",
          !.next = IF \/ ~More(search.page, returned, total)
                      \/ (search.page + 1) * search.size > Exposed
                   THEN NoPage ELSE search.page + 1]
Told(returned, total) ==
  /\ More(search.page, returned, total) /\ search.page = search.last
  /\ (search.page + 1) * search.size > Exposed
Reads(returned, total, partial) ==
  /\ search' = AfterPage(returned, total)
  /\ chain' = [chain EXCEPT !.read = @ \cup {search.page}, !.partial = @ \/ partial,
                            !.told = @ \/ Told(returned, total)]
  /\ UNCHANGED hour

IsFiled == ~search.refresh /\ Key \in DOMAIN filed /\ hour.now - filed[Key].at < PageTtl
UsePage ==
  /\ search.at = "page" /\ IsFiled
  /\ Reads(filed[Key].returned, filed[Key].total, FALSE)
  /\ UNCHANGED filed
\* Every answer is filed.
Filed_Always(returned, total, partial) ==
  [k \in DOMAIN filed \cup {Key} |->
     IF k = Key THEN [at |-> hour.now, returned |-> returned, total |-> total] ELSE filed[k]]
\* An answer GitHub calls incomplete serves this call and replaces no file.
Filed(returned, total, partial) ==
  IF partial THEN filed
  ELSE [k \in DOMAIN filed \cup {Key} |->
          IF k = Key THEN [at |-> hour.now, returned |-> returned, total |-> total] ELSE filed[k]]
AskPage(returned, total, partial) ==
  /\ search.at = "page" /\ ~IsFiled
  /\ IF partial THEN returned \in 0..SizeOf(search.size, search.page)
     ELSE returned = SizeOf(search.size, search.page)
  /\ total \in {0, Results}
  /\ filed' = Filed(returned, total, partial)
  /\ Reads(returned, total, partial)
\* The call that lost a page goes on behind it.
PageFails_SkipsIt(s) == [s EXCEPT !.at = "done", !.next = s.page + 1]
PageFails(s) == [s EXCEPT !.at = "done", !.next = s.page]
LosePage ==
  /\ search.at = "page" /\ ~IsFiled
  /\ search' = PageFails(search)
  /\ UNCHANGED <<filed, chain, hour>>
Wait ==
  /\ hour.now < LastPageDay /\ hour' = [hour EXCEPT !.now = @ + 1]
  /\ UNCHANGED <<filed, search, chain>>

SearchNext ==
  \/ \E perPage \in PageSizes : \E maxPages \in 1..MostPages : \E refresh \in BOOLEAN :
       StartSearch(perPage, maxPages, refresh)
  \/ \E maxPages \in 1..MostPages : \E refresh \in BOOLEAN : GoOnSearching(maxPages, refresh)
  \/ UsePage \/ LosePage \/ Wait
  \/ \E returned \in 0..Exposed : \E total \in {0, Results} : \E partial \in BOOLEAN :
       AskPage(returned, total, partial)
SearchSpec == SearchInit /\ [][SearchNext]_searchVars
-----------------------------------------------------------------------------
(* Properties.                                                                *)

\* Calls that follow one another pass over no page: what
\* is left begins at the page the last one named, and when it named none all the results
\* were read, unless GitHub left some out or the call said that it exposes no more.
SearchSkipsNoPage ==
  search.at = "done" =>
    /\ search.next # NoPage => chain.read = 1..(search.next - 1)
    /\ search.next = NoPage /\ ~chain.partial /\ ~chain.told =>
         \A page \in 1..Exposed : SizeOf(chain.size, page) > 0 => page \in chain.read

\* A filed page holds all the results GitHub has for it, so a call that uses one finds what
\* a request would have.
FiledPagesAreWhole == \A k \in DOMAIN filed : filed[k].returned = SizeOf(k[1], k[2])

\* However a search is cut into calls, resumed after a failure and answered from filed
\* pages, it reads all the results there are (github.rs search_agent_page).
PagesAreComplete == SearchSkipsNoPage /\ FiledPagesAreWhole
=============================================================================
