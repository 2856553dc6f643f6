---------------------------- MODULE DiscoveryLanes ----------------------------
(***************************************************************************)
(* How issues are discovered at GitHub (src/github.rs): a call of the client  *)
(* is a sequence of lanes, each answered from its cached file or by requests   *)
(* that the process's budget allows, and each kind of call has its own way of   *)
(* living with a refused lane.  Lanes are asked one at a time.                 *)
(***************************************************************************)
EXTENDS Integers, Sequences, FiniteSets, SequencesExt

CONSTANTS
  Issues, RepoOfIssue,                     \* issues of GitHub, and the repository of each
  Overlay, ProfileTrusted, Gfi,       \* lists of trusted repositories
  OverlayLimit, ProfileLimit, GfiLimit, TrustedMinimum, ExpandedLimit,
  CandidateLimit,                     \* of each tier of trust
  Labels, FallbackLabels, Terms, Keywords, Pairs, GlobalLimit, PageSize,
  SearchTtl, FallbackTtl,             \* lifetimes of cached lanes
  Budget,
  MaxMoves, MaxDiscoveries, LastLaneMinute      \* bounds

ASSUME LanesAssumption ==
  /\ DOMAIN RepoOfIssue = Issues
  /\ Budget \in Nat /\ TrustedMinimum \in Nat \ {0} /\ PageSize \in Nat \ {0}
  /\ SearchTtl \in Nat /\ FallbackTtl \in Nat

VARIABLES
  standing, \* of each issue, at GitHub: open to take, held by someone, or closed
  lanes,    \* cached lanes: key -> when fetched, and the candidates
  call,     \* the call being made
  sent,     \* requests this process has reserved
  clock,    \* the time, edits and calls made so far
  wasOpen   \* history: when each issue was last open to take
lanesVars == <<standing, lanes, call, sent, clock, wasOpen>>
-----------------------------------------------------------------------------
(* The lanes of each call.                                                    *)

Keep(s, n) == SubSeq(s, 1, IF n < Len(s) THEN n ELSE Len(s))
Distinct(s) == FoldLeft(LAMBDA acc, x : IF x \in Range(acc) THEN acc ELSE Append(acc, x), <<>>, s)
Lane(form, key, repo, requests, limit) ==
  [form |-> form, key |-> key, repo |-> repo, requests |-> requests, limit |-> limit]
Trusted(repo, tier) ==
  Lane("trusted", <<tier, repo>>, repo, Len(Labels), CandidateLimit[tier])
\* The tier a repository counts for: the first list that holds it.
PrimaryLanes ==
  LET overlay == Keep(Overlay, OverlayLimit)
      profile == Keep(ProfileTrusted, ProfileLimit)
      repos == Distinct(overlay \o profile \o Keep(Gfi, GfiLimit))
  IN [n \in DOMAIN repos |->
        Trusted(repos[n], IF repos[n] \in Range(overlay) THEN "overlay"
                          ELSE IF repos[n] \in Range(profile) THEN "profile" ELSE "gfi")]
FallbackLane(repo, label) ==
  Lane("fallback", <<"fallback", repo, label>>, repo, 1, CandidateLimit["gfi"])
TrustedFallbackLanes ==
  LET profile == Keep(ProfileTrusted, TrustedMinimum)
      repos == Keep(Distinct(profile \o Keep(Gfi, TrustedMinimum)), TrustedMinimum)
      expanded == FlattenSeq([n \in DOMAIN Keep(profile, ExpandedLimit) |->
                    [l \in DOMAIN FallbackLabels |-> FallbackLane(profile[n], FallbackLabels[l])]])
  IN Keep(Distinct(expanded \o [n \in DOMAIN repos |-> FallbackLane(repos[n], FallbackLabels[1])]), TrustedMinimum)
GlobalLane(pair, label) ==
  Lane("search", <<"global", pair, label>>, "any", 1, Cardinality(Issues))
GlobalFallbackLanes ==
  Keep(FlattenSeq([p \in DOMAIN Pairs |-> [l \in DOMAIN FallbackLabels |-> GlobalLane(Pairs[p], FallbackLabels[l])]]),
       GlobalLimit)
\* The key of a lane restricted to one repository does not name the repository.
Scoped(form, stage, text, repo, requests) ==
  Lane(form, <<"repo_scoped", stage, text>>, repo, requests, Cardinality(Issues))
BeginnerLanes(repo) == [l \in DOMAIN Labels |-> Scoped("label", "beginner_label", Labels[l], repo, 1)]
SignalLanes(repo) ==
  <<Scoped("label", "help_wanted", "", repo, 1)>>
  \o [t \in DOMAIN Terms |-> Scoped("search", "profile_term", Terms[t], repo, 1)]
  \o [k \in DOMAIN Keywords |-> Scoped("search", "actionable_keyword", Keywords[k], repo, 1)]
RecentLanes(repo, pages) == <<Scoped("recent", "recent_open", IF pages = 1 THEN "100" ELSE "300", repo, pages)>>

LanesOf(kind, repo, pages) ==
  CASE kind = "primary" -> PrimaryLanes
    [] kind = "trusted_fallback" -> TrustedFallbackLanes
    [] kind = "global_fallback" -> GlobalFallbackLanes
    [] kind = "beginner" -> BeginnerLanes(repo)
    [] kind = "signals" -> SignalLanes(repo)
    [] OTHER -> RecentLanes(repo, pages)
\* The lifetime of the lanes' files: the fallbacks take older ones.
Ttl(kind) == IF kind \in {"trusted_fallback", "global_fallback"} THEN FallbackTtl ELSE SearchTtl
-----------------------------------------------------------------------------
(* GitHub, the process and the calls.                                         *)

NoDiscovery == [kind |-> "none", repo |-> "any", refresh |-> FALSE, todo |-> <<>>, answered |-> 0,
           part |-> {}, found |-> {}, limited |-> 0, noSearch |-> FALSE, end |-> "idle"]
LanesInit ==
  /\ standing = [i \in Issues |-> "open"]
  /\ lanes = [k \in {} |-> 0]
  /\ call = NoDiscovery /\ sent = 0
  /\ clock = [now |-> 0, edits |-> 0, calls |-> 0]
  /\ wasOpen = [i \in Issues |-> 0]

Takeable == {i \in Issues : standing[i] = "open"}
\* Someone opens, takes or closes an issue, and time passes.
Edit(i, to) ==
  /\ clock.edits < MaxMoves /\ to # standing[i]
  /\ standing' = [standing EXCEPT ![i] = to]
  /\ wasOpen' = [wasOpen EXCEPT ![i] = IF "open" \in {to, standing[i]} THEN clock.now ELSE @]
  /\ clock' = [clock EXCEPT !.edits = @ + 1]
  /\ UNCHANGED <<lanes, call, sent>>
Pass ==
  /\ clock.now < LastLaneMinute /\ call.answered = 0  \* a lane's requests take no such time
  /\ clock' = [clock EXCEPT !.now = @ + 1]
  /\ wasOpen' = [i \in Issues |-> IF standing[i] = "open" THEN clock.now + 1 ELSE wasOpen[i]]
  /\ UNCHANGED <<standing, lanes, call, sent>>

BeginLanes(kind, repo, pages, refresh) ==
  /\ call.end # "running" /\ clock.calls < MaxDiscoveries
  /\ call' = [NoDiscovery EXCEPT !.kind = kind, !.repo = repo, !.refresh = refresh,
                            !.todo = LanesOf(kind, repo, pages), !.end = "running"]
  /\ clock' = [clock EXCEPT !.calls = @ + 1]
  /\ UNCHANGED <<standing, lanes, sent, wasOpen>>
\* The process ends, and with it its budget; the cached lanes stay.
LeaveLanes ==
  /\ call.end # "idle"
  /\ call' = NoDiscovery /\ sent' = 0
  /\ UNCHANGED <<standing, lanes, clock, wasOpen>>

This == Head(call.todo)
Asking == call.end = "running" /\ call.todo # <<>>
NextLane(c, candidates) ==
  [c EXCEPT !.todo = Tail(@), !.answered = 0, !.part = {}, !.found = @ \cup candidates]
\* A cached lane of any age.
StillFresh_AnyAge(key, ttl) == key \in DOMAIN lanes
StillFresh(key, ttl) == key \in DOMAIN lanes /\ clock.now - lanes[key].at <= ttl
\* load_cached_candidates, before the lane's first request.
UseCached ==
  /\ Asking /\ ~call.refresh /\ call.answered = 0 /\ StillFresh(This.key, Ttl(call.kind))
  /\ call' = NextLane(call, lanes[This.key].found)
  /\ UNCHANGED <<standing, lanes, sent, clock, wasOpen>>

Uncached == Asking /\ (call.answered = 0 => call.refresh \/ ~StillFresh(This.key, Ttl(call.kind)))
Reserve == sent < Budget /\ sent' = sent + 1
\* What a page lists: issues of the lane's repository, of which the code keeps those
\* nobody holds.  A full lane keeps no more.
Listed == {i \in Issues : standing[i] # "closed" /\ This.repo \in {"any", RepoOfIssue[i]}}
UpTo(set, room) ==
  {s \in SUBSET set : Cardinality(s) = IF Cardinality(set) <= room THEN Cardinality(set) ELSE room}
New(page) == (page \cap Takeable) \ call.part
\* Each form of lane: what it keeps of a page, and whether it asks for no other.
TrustedPage(page, kept, done) ==
  /\ This.form = "trusted"
  /\ kept \in UpTo(New(page), This.limit - Cardinality(call.part))
  /\ done = (call.answered + 1 = This.requests \/ Cardinality(call.part \cup kept) >= This.limit)
FallbackPage(page, kept, done) ==
  /\ This.form = "fallback" /\ done
  /\ kept \in UpTo(New(page), This.limit)
LabelPage(page, kept, done) == This.form = "label" /\ kept = New(page) /\ done
GlobalPage(page, kept, done) == This.form = "search" /\ This.repo = "any" /\ kept = New(page) /\ done
ScopedPage(page, kept, done) ==
  /\ This.form = "search" /\ This.repo # "any" /\ done
  /\ kept = {i \in New(page) : RepoOfIssue[i] = This.repo}
RecentPage(page, kept, done) ==
  /\ This.form = "recent" /\ kept = New(page)
  /\ done = (call.answered + 1 = This.requests \/ Cardinality(page) < PageSize)
SavedLane(found) ==
  [k \in DOMAIN lanes \cup {This.key} |-> IF k = This.key THEN [at |-> clock.now, found |-> found] ELSE lanes[k]]
PageArrives(page) ==
  /\ Uncached /\ Reserve
  /\ page \in SUBSET Listed
  /\ \E kept \in SUBSET Issues : \E done \in BOOLEAN :
       /\ \/ TrustedPage(page, kept, done) \/ FallbackPage(page, kept, done) \/ LabelPage(page, kept, done)
          \/ GlobalPage(page, kept, done) \/ ScopedPage(page, kept, done) \/ RecentPage(page, kept, done)
       /\ IF done THEN lanes' = SavedLane(call.part \cup kept) /\ call' = NextLane(call, call.part \cup kept)
          ELSE lanes' = lanes /\ call' = [call EXCEPT !.part = @ \cup kept, !.answered = @ + 1]
  /\ UNCHANGED <<standing, clock, wasOpen>>
-----------------------------------------------------------------------------
(* A lane is refused: what was read of it is lost, and the call goes on        *)
(* without it or fails.                                                        *)

\* A refused search that does not stop the others of its list.
AfterRefusal_GoesOn(c, limited) ==
  LET next == [NextLane(c, {}) EXCEPT !.limited = @ + (IF limited THEN 1 ELSE 0),
                 !.noSearch = @ \/ (limited /\ Head(c.todo).form = "search")]
  IN IF c.kind \in {"beginner", "recent"} THEN [next EXCEPT !.end = "failed", !.todo = <<>>] ELSE next
AfterRefusal(c, limited) ==
  LET next == [NextLane(c, {}) EXCEPT !.limited = @ + (IF limited THEN 1 ELSE 0),
                 !.noSearch = @ \/ (limited /\ Head(c.todo).form = "search")]
  IN IF c.kind \in {"beginner", "recent"} THEN [next EXCEPT !.end = "failed", !.todo = <<>>]
     ELSE IF limited /\ Head(c.todo).form = "search" THEN [next EXCEPT !.todo = <<>>] ELSE next
\* GitHub refuses for the rate (403 or 429), answers otherwise or not at all, or the
\* budget is spent and nothing is sent.
Refuse(limited) ==
  /\ Uncached /\ Reserve
  /\ call' = AfterRefusal(call, limited)
  /\ UNCHANGED <<standing, lanes, clock, wasOpen>>
Exhausted ==
  /\ Uncached /\ sent >= Budget
  /\ call' = AfterRefusal(call, FALSE)
  /\ UNCHANGED <<standing, lanes, sent, clock, wasOpen>>

\* The call ends.  Fallbacks keep a few candidates of each repository.
AtMostPerRepo(found, n) ==
  {s \in SUBSET found : \A r \in {RepoOfIssue[i] : i \in found} :
     LET of == {i \in found : RepoOfIssue[i] = r} IN
     Cardinality(s \cap of) = IF Cardinality(of) <= n THEN Cardinality(of) ELSE n}
Outcome(c) == IF c.kind = "primary" /\ c.found = {} /\ c.limited >= 1 THEN "failed" ELSE "ok"
FinishLanes ==
  /\ call.end = "running" /\ call.todo = <<>>
  /\ \E found \in IF call.kind = "trusted_fallback" THEN AtMostPerRepo(call.found, CandidateLimit["gfi"]) ELSE {call.found} :
       call' = [call EXCEPT !.end = Outcome(call), !.found = found]
  /\ UNCHANGED <<standing, lanes, sent, clock, wasOpen>>

LanesNext ==
  \/ \E i \in Issues : \E to \in {"open", "held", "closed"} : Edit(i, to)
  \/ Pass \/ LeaveLanes \/ UseCached \/ Exhausted \/ FinishLanes
  \/ \E kind \in {"primary", "trusted_fallback", "global_fallback"} : \E refresh \in BOOLEAN :
       BeginLanes(kind, "any", 1, refresh)
  \/ \E kind \in {"beginner", "signals", "recent"} : \E repo \in Range(RepoOfIssue) : \E refresh \in BOOLEAN :
       \E pages \in IF kind = "recent" THEN 1..2 ELSE {1} : BeginLanes(kind, repo, pages, refresh)
  \/ \E page \in SUBSET Issues : PageArrives(page)
  \/ \E limited \in BOOLEAN : Refuse(limited)
LanesSpec == LanesInit /\ [][LanesNext]_lanesVars
-----------------------------------------------------------------------------
(* Properties.                                                                *)

\* What a call adds to its candidates was open to take when it was fetched, within the
\* lifetime of a cached lane, and with --refresh now: neither another command's cache, nor
\* an issue taken or closed while lanes were read, brings back older ones.
FoundWereOpenLately ==
  [][\A i \in call'.found \ call.found :
       wasOpen[i] >= clock.now - (IF call.refresh THEN 0 ELSE Ttl(call.kind))]_lanesVars

\* Once GitHub refused a search for the rate, the call searches no more.
SearchesStopAtTheLimit == [][call.noSearch /\ sent' > sent => This.form # "search"]_lanesVars

\* Action.  Neither the caches nor a refusal are papered over: what a call finds is as
\* fresh as the lifetimes promise and a refused call goes on without searching (github.rs).
LanesHonourAgeAndLimit == FoundWereOpenLately /\ SearchesStopAtTheLimit
=============================================================================
