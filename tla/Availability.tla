----------------------------- MODULE Availability -----------------------------
(***************************************************************************)
(* The fresh check of whether an issue can still be taken                      *)
(* (GitHubEnrichmentClient::availability, src/availability.rs): its state and     *)
(* its repository's, the pull requests its timeline and two searches lead to,     *)
(* and their details, request after request.  Any request may fail or leave        *)
(* something out; what is missing stays unknown.                               *)
(***************************************************************************)
EXTENDS Integers, Sequences, AvailabilityVerdict

CONSTANTS
  Worlds,     \* what GitHub may hold: issue, timeline and pull requests
  EventsPerPage, TimelinePages, PullLimit  \* of each depth
VARIABLES world, \* GitHub
          snap   \* the snapshot being taken
availabilityVars == <<world, snap>>

ASSUME AvailabilityAssumption ==
  /\ EventsPerPage \in Nat \ {0}
  /\ \A w \in Worlds :
       /\ w.state \in {"open", "closed"} /\ {w.held, w.locked, w.archived} \subseteq BOOLEAN
       /\ w.timeline \in Seq([pr : Nat, closes : BOOLEAN])
       /\ \A n \in DOMAIN w.timeline : w.timeline[n].pr \in {0} \cup DOMAIN w.pulls
       /\ \A p \in DOMAIN w.pulls : w.pulls[p].state \in {"open", "closed", "merged"}
-----------------------------------------------------------------------------
NotChecked == [status |-> "not_checked", pages |-> 0, more |-> "unknown", errors |-> FALSE]
NewSnapshot(depth) ==
  [at |-> "details", depth |-> depth, state |-> "unknown", held |-> "unknown", locked |-> "unknown",
   archived |-> "unknown", linked |-> NotChecked, searched |-> NotChecked, queries |-> 2,
   leads |-> <<>>, pulls |-> {}, unsure |-> FALSE]
AvailabilityInit == world \in Worlds /\ snap \in {NewSnapshot("initial"), NewSnapshot("final")}

YesNo(b) == IF b THEN "yes" ELSE "no"
\* The issue's and the repository's own answers, in full, with a field left out, or none.
AskDetails(reply) ==
  /\ snap.at = "details"
  /\ snap' = CASE reply = "failed" -> [snap EXCEPT !.unsure = TRUE, !.at = "repository"]
               [] OTHER -> [snap EXCEPT !.state = world.state, !.locked = YesNo(world.locked), !.at = "repository",
                              !.held = IF reply = "partial" THEN "unknown" ELSE YesNo(world.held)]
  /\ UNCHANGED world
AskRepository(reply) ==
  /\ snap.at = "repository"
  /\ LET s == [snap EXCEPT !.archived = IF reply = "ok" THEN YesNo(world.archived) ELSE "unknown", !.at = "timeline"]
     IN snap' = [s EXCEPT !.unsure = @ \/ "unknown" \in {s.state, s.held, s.locked, s.archived}]
  /\ UNCHANGED world

\* push_pr_lead, for the references of a page: one lead for each pull request, in the
\* order they were first met; only an explicit resolution changes a lead.
MetAt(leads, refs, p) ==
  IF p \in DOMAIN leads THEN leads[p].at
  ELSE LET ats == {r.at : r \in {r \in refs : r.pr = p}} IN CHOOSE n \in ats : \A other \in ats : n <= other
PushLeads_Any(leads, refs, relation) ==
  [p \in DOMAIN leads \cup {r.pr : r \in refs} |->
     [at |-> MetAt(leads, refs, p),
      relation |-> IF p \in DOMAIN leads /\ (\E r \in refs : r.pr = p) THEN "resolves"
                   ELSE IF p \in DOMAIN leads THEN leads[p].relation ELSE relation]]
PushLeads(leads, refs, relation) ==
  [p \in DOMAIN leads \cup {r.pr : r \in refs} |->
     [at |-> MetAt(leads, refs, p),
      relation |-> IF \E r \in refs : r.pr = p /\ r.closes THEN "resolves"
                   ELSE IF p \in DOMAIN leads THEN leads[p].relation ELSE relation]]
\* A Link header tells whether there is more; without one only a short page does.
HasMore_NoHeaderNoMore(header, events, rest) == YesNo(header /\ rest)
HasMore(header, events, rest) ==
  IF header THEN YesNo(rest) ELSE IF events < EventsPerPage THEN "no" ELSE "unknown"
\* Errors make a coverage partial, or unavailable when no page was read.
Covered(c) ==
  IF c.errors THEN [c EXCEPT !.status = IF c.pages = 0 THEN "unavailable" ELSE "partial"] ELSE c
EndTimeline(s) ==
  [s EXCEPT !.linked = Covered(@), !.at = IF s.depth = "final" THEN "search" ELSE "pulls",
            !.searched.status = IF s.depth = "final" THEN "complete" ELSE @]
AskTimeline(reply, header) ==
  LET page == snap.linked.pages + 1
      from == (page - 1) * EventsPerPage
      last == IF from + EventsPerPage < Len(world.timeline) THEN from + EventsPerPage ELSE Len(world.timeline)
      more == HasMore(header, last - from, Len(world.timeline) > last)
      refs == {[pr |-> world.timeline[n].pr, at |-> n, closes |-> world.timeline[n].closes] :
                 n \in {n \in from + 1..last : world.timeline[n].pr # 0}}
      read == [snap EXCEPT
                 !.leads = IF reply = "odd" THEN @ ELSE PushLeads(@, refs, "mention"),
                 !.unsure = @ \/ reply = "odd",
                 !.linked = [status |-> IF more = "no" THEN "complete" ELSE "partial", pages |-> page,
                             more |-> more, errors |-> @.errors \/ reply = "odd"]]
  IN
  /\ snap.at = "timeline"
  /\ reply = "odd" => last > from  \* a pull request of the page has no identity
  /\ snap' = IF reply = "failed" THEN EndTimeline([snap EXCEPT !.linked.errors = TRUE])
             ELSE IF more = "yes" /\ page < TimelinePages[snap.depth] THEN read ELSE EndTimeline(read)
  /\ UNCHANGED world
\* A search returns some pull requests that mention the issue's number or its title.
AskSearch(reply, found) ==
  LET ref == [pr |-> found, at |-> Len(world.timeline) + 3 - snap.queries, closes |-> FALSE]
      leads == IF reply = "failed" \/ found = 0 THEN snap.leads ELSE PushLeads(snap.leads, {ref}, "lead")
      searched == IF reply = "failed" THEN [snap.searched EXCEPT !.errors = TRUE]
                  ELSE [snap.searched EXCEPT !.pages = @ + 1, !.more = YesNo(@ = "yes" \/ reply = "incomplete"),
                                             !.status = IF reply = "incomplete" THEN "partial" ELSE @]
  IN
  /\ snap.at = "search" /\ snap.queries > 0
  /\ snap' = IF snap.queries > 1 THEN [snap EXCEPT !.queries = @ - 1, !.leads = leads, !.searched = searched]
             ELSE [snap EXCEPT !.queries = 0, !.leads = leads, !.searched = Covered(searched),
                               !.unsure = TRUE, !.at = "pulls"]
  /\ UNCHANGED world
\* Only the first pull requests are looked at, each by its own request.
Before(p) == {q \in DOMAIN snap.leads : snap.leads[q].at < snap.leads[p].at}
LimitPulls ==
  LET first == {p \in DOMAIN snap.leads : Cardinality(Before(p)) < PullLimit[snap.depth]} IN
  /\ snap.at = "pulls"
  /\ snap' = IF first = DOMAIN snap.leads THEN [snap EXCEPT !.at = "pull"]
             ELSE [snap EXCEPT !.at = "pull", !.leads = [p \in first |-> @[p]],
                               !.linked.status = "partial", !.unsure = TRUE]
  /\ UNCHANGED world
Unread(p) == [pr |-> p, relation |-> snap.leads[p].relation, state |-> "unknown", merged |-> "unknown",
                 base |-> "unknown", verified |-> FALSE, errors |-> TRUE]
AskPull(p, reply) ==
  LET pr == world.pulls[p]
      verified == reply # "other"
      answer == [pr |-> p, verified |-> verified, errors |-> reply # "ok",
                 state |-> IF pr.state = "open" THEN "open" ELSE "closed",
                 merged |-> IF reply = "partial" THEN "unknown" ELSE YesNo(pr.state = "merged"),
                 base |-> pr.base,
                 relation |-> IF verified /\ pr.resolves THEN "resolves" ELSE snap.leads[p].relation]
      evidence == IF reply = "failed" THEN Unread(p) ELSE answer
  IN
  /\ snap.at = "pull" /\ Before(p) = {}
  /\ snap' = [snap EXCEPT !.leads = [q \in DOMAIN @ \ {p} |-> @[q]], !.pulls = @ \cup {evidence},
                !.unsure = @ \/ evidence.errors \/ evidence.relation # "resolves"
                             \/ (evidence.merged = "yes" /\ evidence.base # "main")]
  /\ UNCHANGED world
Conclude_Quietly(s) ==
  [s EXCEPT !.at = "done", !.unsure = @ \/ s.linked.errors \/ s.searched.errors]
Conclude(s) ==
  [s EXCEPT !.at = "done", !.unsure = @ \/ s.linked.errors \/ s.searched.errors
                                        \/ "partial" \in {s.linked.status, s.searched.status}]
Done == snap.at = "pull" /\ DOMAIN snap.leads = {} /\ snap' = Conclude(snap) /\ UNCHANGED world

AvailabilityNext ==
  \/ \E reply \in {"ok", "partial", "failed"} : AskDetails(reply) \/ AskRepository(reply)
  \/ \E reply \in {"ok", "odd", "failed"} : \E header \in BOOLEAN : AskTimeline(reply, header)
  \/ \E reply \in {"ok", "incomplete", "failed"} : \E found \in {0} \cup DOMAIN world.pulls : AskSearch(reply, found)
  \/ LimitPulls
  \/ \E reply \in {"ok", "partial", "other", "failed"} : \E p \in DOMAIN snap.leads : AskPull(p, reply)
  \/ Done
AvailabilitySpec == AvailabilityInit /\ [][AvailabilityNext]_availabilityVars
-----------------------------------------------------------------------------
(* Properties, of a snapshot that is taken.                                    *)

\* An issue is called free for a fresh fix only when it is open, unlocked and held by
\* nobody, its repository is not archived, and no pull request its whole timeline refers
\* to is open or merged, whichever requests failed or left something out.
TakenIsNeverFresh ==
  snap.at = "done" /\ FreshFixAvailable(snap) =>
    /\ world.state = "open" /\ ~world.held /\ ~world.locked /\ ~world.archived
    /\ \A n \in DOMAIN world.timeline :
         world.timeline[n].pr # 0 => world.pulls[world.timeline[n].pr].state = "closed"

\* Competition that excludes an issue is an open pull request that says it resolves it, or
\* that the timeline says will close it: a mention or a search hit never is.
CompetitionIsReal ==
  snap.at = "done" /\ StrongOpenCompetition(snap) =>
    \E p \in DOMAIN world.pulls :
      /\ world.pulls[p].state = "open"
      /\ \/ world.pulls[p].resolves
         \/ \E n \in DOMAIN world.timeline : world.timeline[n].pr = p /\ world.timeline[n].closes

\* What could not be checked is said: a snapshot whose checks are incomplete is never one
\* without uncertainties.
NothingUnknownIsSilent == snap.at = "done" /\ ~ChecksComplete(snap) => snap.unsure

\* A snapshot of availability errs on neither side and says what it could not check
\* (github_enrichment.rs availability).
AvailabilityIsHonest == TakenIsNeverFresh /\ CompetitionIsReal /\ NothingUnknownIsSilent
=============================================================================
