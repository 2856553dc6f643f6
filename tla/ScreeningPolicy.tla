--------------------------- MODULE ScreeningPolicy ---------------------------
(* How an issue of the screening path is judged: the category and the         *)
(* visibility that follow from GitHub's facts, from the answers of a decision  *)
(* model and, once its availability was checked again, from that check         *)
(* (decision/policy.rs), and the gate to preparing it (prepare_gate.rs).       *)
EXTENDS Integers, AvailabilityVerdict
CONSTANTS Repositories,  \* [stars, watchers, forks, issues, age, archived]
          Statuses,      \* what the snapshot's evidence says of the issue, or NoStatus
          Answers,       \* what a model may answer to the seven questions
          Checks         \* availability snapshots
\* A check found finitely many pull requests, and is not the mark of an issue not checked.
ASSUME ScreeningAssumption == \A s \in Checks : s # [depth |-> "none"] /\ IsFiniteSet(s.pulls)
VARIABLE screened   \* the enriched issue
screeningVars == screened

NoStatus == [state |-> "unknown", held |-> FALSE, linkedOpen |-> 0]
NotJudged == [task |-> "none", description |-> "none", contribution |-> "none", scope |-> "none",
               preference |-> "none", verification |-> "none", maintainer |-> "none"]
Unchecked == [depth |-> "none"]
Checked(e) == e.availability # Unchecked

(* The facts, of the fresh check if there is one.                             *)
Closed(e) == "closed" = IF Checked(e) THEN e.availability.state ELSE e.status.state
Assigned(e) == IF Checked(e) THEN e.availability.held = "yes" ELSE e.status.held
Larger(a, b) == IF a > b THEN a ELSE b
CappedAt(a, b) == IF a < b THEN a ELSE b
LinkedOpenPulls(e) ==
  IF Checked(e) THEN Cardinality({p \in e.availability.pulls : OpenResolution(p)})
  ELSE Larger(e.references, e.status.linkedOpen)
LowTrustRepository(r) ==
  \/ r.archived
  \/ r.stars < 100 /\ r.watchers = 0 /\ r.forks > Larger(3 * r.stars, 25)
  \/ r.stars < 500 /\ r.forks > 3 * Larger(r.stars, 1)
  \/ r.age \in 0..89 /\ r.issues >= 100
LowTrust(e) == LowTrustRepository(e.repository) \/ (Checked(e) /\ e.availability.archived = "yes")
StarPoints(r) ==
  IF r.stars \in 500..999 /\ (r.watchers >= 20 \/ r.forks >= 200) THEN 82
  ELSE CASE r.stars >= 10000 -> 100 [] r.stars \in 1000..9999 -> 82 [] r.stars \in 500..999 -> 68
         [] r.stars \in 100..499 -> 45 [] r.stars \in 25..99 -> 22 [] r.stars < 25 -> 8

(* The answers.                                                               *)
NeedsScoping(a) ==
  a.scope \in {"design_needed", "broad", "unclear"} \/ a.maintainer \in {"clarification_needed", "deferred"}
Execution(a) ==
  LET described == CASE a.description = "clear" -> 70 [] a.description = "unclear" -> 30 [] OTHER -> 50
      points == described + (IF a.verification = "present" THEN 15 ELSE 0) + (IF a.scope = "bounded" THEN 10 ELSE 0)
  IN  IF NeedsScoping(a) THEN CappedAt(points, 65) ELSE points
NotATask(a) == a.task \in {"support_question", "open_discussion"}
Untriaged_WhenAnswered(a) ==
  \/ a.task \notin {"concrete_change", "none"} \/ a.description = "unclear"
  \/ a.preference \in {"mismatch", "unclear"}
Untriaged_MismatchAside(a) ==
  a.task # "concrete_change" \/ a.description = "unclear" \/ a.preference \in {"unclear", "none"}
Untriaged(a) ==
  \/ a.task # "concrete_change" \/ a.description = "unclear"
  \/ a.preference \in {"mismatch", "unclear", "none"}
Unsettled(a) ==
  \/ NeedsScoping(a) \/ a.contribution \in {"working", "fix_claimed", "conflicting"} \/ Execution(a) < 70
  \/ a.scope = "none" \/ a.description # "clear" \/ a.contribution \in {"unknown", "none"}

(* The verdict.                                                               *)
KnownTaken(e) ==
  \/ Closed(e) \/ LowTrust(e) \/ Assigned(e) \/ LinkedOpenPulls(e) > 0
  \/ Checked(e) /\ (KnownUnavailable(e.availability) \/ MergedResolution(e.availability))
Uncertain_WhenIncomplete(e) == Checked(e) /\ ~ChecksComplete(e.availability)
Uncertain(e) == Checked(e) /\ ~FreshFixAvailable(e.availability)
ScreenedCategory(e) ==
  CASE KnownTaken(e) -> "contested"
    [] ~KnownTaken(e) /\ NotATask(e.answers) -> "low_depth"
    [] ~KnownTaken(e) /\ ~NotATask(e.answers) /\ Untriaged(e.answers) -> "triage"
    [] OTHER -> IF Uncertain(e) \/ Unsettled(e.answers) THEN "scoping"
                ELSE IF StarPoints(e.repository) >= 70 THEN "ready" ELSE "niche"
MissingEvidence_LeadsWithinChecks(e) ==
  {q \in DOMAIN e.answers : e.answers[q] = "none"}
  \cup (IF Checked(e) /\ ~ChecksComplete(e.availability) THEN {"checks"} ELSE {})
\* What is said to be missing: names only, their wording is left out.
MissingEvidence(e) ==
  {q \in DOMAIN e.answers : e.answers[q] = "none"}
  \cup (IF Checked(e) /\ ~ChecksComplete(e.availability) THEN {"checks"} ELSE {})
  \cup (IF Checked(e) /\ ChecksComplete(e.availability) /\ ~KnownUnavailable(e.availability)
           /\ ~StrongOpenCompetition(e.availability) /\ ~MergedResolution(e.availability)
           /\ ~FreshFixAvailable(e.availability)
         THEN {"leads"} ELSE {})
  \cup (IF e.answers.contribution \in {"not_observed", "unknown", "conflicting", "none"} THEN {"discussion"} ELSE {})
  \cup (IF e.answers.contribution = "fix_claimed" THEN {"claim"} ELSE {})
  \cup (IF e.answers.verification # "present" THEN {"result"} ELSE {})
ScreenedVisibility(e) ==
  CASE Closed(e) -> "hidden_done"
    [] ~Closed(e) /\ (\/ Checked(e) /\ (KnownUnavailable(e.availability) \/ MergedResolution(e.availability))
                     \/ LowTrustRepository(e.repository) \/ LinkedOpenPulls(e) > 0
                     \/ e.answers.preference = "mismatch") -> "hidden_quality"
    [] OTHER -> "visible"
DefaultPrepareAllowed(e) == ScreenedCategory(e) \in {"ready", "scoping"}

(* An issue is enriched, judged by a model or not, and checked again.         *)
ScreeningInit ==
  \E r \in Repositories, s \in Statuses, n \in 0..1 :
    screened = [repository |-> r, status |-> s, references |-> n,
                answers |-> NotJudged, availability |-> Unchecked]
Judged(a) ==
  screened.answers = NotJudged /\ ~Checked(screened) /\ screened' = [screened EXCEPT !.answers = a]
CheckAgain(s) == ~Checked(screened) /\ screened' = [screened EXCEPT !.availability = s]
ScreeningNext == (\E a \in Answers : Judged(a)) \/ (\E s \in Checks : CheckAgain(s))
ScreeningSpec == ScreeningInit /\ [][ScreeningNext]_screeningVars
-----------------------------------------------------------------------------
\* The gate and the feed are two functions over the same facts: an issue the daily
\* workflow may prepare unasked is one the feed would show (policy.rs assess, quality).
PreparableIsShown == DefaultPrepareAllowed(screened) => ScreenedVisibility(screened) = "visible"

\* With no answers the policy runs on defaults, half of them favourable: none of them
\* makes an issue ready or lets it be prepared by default (policy.rs assess).
UnjudgedIsNotPrepared ==
  screened.answers = NotJudged => ScreenedCategory(screened) \in {"contested", "triage"} /\ ~DefaultPrepareAllowed(screened)

\* A fresh check replaces what the snapshot said, a failed request included; what was
\* known to be taken is called ready again only when the check found it free.  This is
\* all the code keeps: a check that failed may move it to scoping, which the gate lets
\* through (prepare_gate.rs:17), with the incomplete checks said in its evidence.
ClearedByFreshFactsOnly ==
  [][ScreenedCategory(screened) = "contested" /\ ScreenedCategory(screened') \in {"ready", "niche"}
       => Checked(screened') /\ FreshFixAvailable(screened'.availability)]_screeningVars

\* A check that keeps an issue from being ready is said in its missing evidence, unless
\* it excluded the issue altogether (policy.rs assess).
DowngradeIsExplained ==
  Uncertain(screened) /\ ScreenedCategory(screened) # "contested" => MissingEvidence(screened) \cap {"checks", "leads"} # {}

\* The functions the policy is made of agree: the gate with the feed, the defaults with
\* the gate, and the category with the evidence it gives (decision/policy.rs).
PolicyAgreesWithItself == PreparableIsShown /\ UnjudgedIsNotPrepared /\ DowngradeIsExplained
=============================================================================
