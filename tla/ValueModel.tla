------------------------------ MODULE ValueModel ------------------------------
(***************************************************************************)
(* What an issue is worth to a user when no decision model was asked          *)
(* (src/value_*.rs, src/competition.rs, src/recommendation/quality_policy.rs):    *)
(* gates, scores and risk tags give it a category and a rank, and the quality      *)
(* policy decides whether the feed shows it.  Text is the set of the words and       *)
(* of the kinds of phrases found in it.                                        *)
(***************************************************************************)
EXTENDS Integers, Sequences, FiniteSets, SequencesExt

CONSTANTS
  Profile,   \* the user's: [stack, keywords]
  Aliases, DomainAliases, \* other words for a word of a profile
  Focus,     \* the words that show what an issue is about, by kind of profile
  Prospects, \* issues: [words, labels, repo, language, stars, forks, watchers, open, archived,
             \*   young, length, path, author, old, older]
  Remarks,   \* what comments say: sets of kinds of phrases
  MaxRemarks, MaxPulls, Ages \* bounds; days since the issue was last updated

ASSUME ValueAssumption ==
  \A p \in Prospects : IsFiniteSet(p.words) /\ IsFiniteSet(p.labels) /\ IsFiniteSet(p.repo) /\ p.older \in Nat

VARIABLES
  prospect, \* the issue
  thread    \* what may change: comments, pull requests, whether the timeline could be read
valueVars == <<prospect, thread>>

Smaller(n, limit) == IF n < limit THEN n ELSE limit
Text == prospect.words \cup prospect.labels                \* normalized_issue_text
About == prospect.repo \cup {prospect.language}
Everywhere == Text \cup prospect.repo
Says(text, phrases) == text \cap phrases # {}
-----------------------------------------------------------------------------
(* Competing work.                                                            *)

\* The tool's own comments are no sign of a competitor.
Markers_Own(comment) == comment.says \cap {"attempt", "claim", "working", "fix"}
Markers(comment) ==
  IF comment.by = "own" THEN {} ELSE comment.says \cap {"attempt", "claim", "working", "fix"}
Marked(t, marker) == Cardinality({i \in DOMAIN t.comments : marker \in Markers(t.comments[i])})
\* A timeline that cannot be read shows no pull request, and leaves a warning.
OpenPulls(t) == IF t.timeline THEN t.pulls.open ELSE 0
ClosedPulls(t) == IF t.timeline THEN t.pulls.closed ELSE 0
Points(t) ==
  3 * OpenPulls(t) + ClosedPulls(t)
  + Marked(t, "attempt") + Marked(t, "claim") + Marked(t, "working") + Marked(t, "fix")
Band(points) ==
  IF points <= 1 THEN "clear" ELSE IF points <= 3 THEN "light" ELSE IF points <= 7 THEN "contested" ELSE "saturated"
OthersSay(t) == UNION {c.says : c \in {d \in Range(t.comments) : d.by # "own"}}
WithComments(t) == prospect.words \cup OthersSay(t)
-----------------------------------------------------------------------------
(* Gates.                                                                     *)

LowDepthMatches == Everywhere \cap {"no code", "under a minute", "content", "light"}
LowDepthGate == IF LowDepthMatches # {} THEN "hard_fail" ELSE "pass"
MarketplaceTerms == Everywhere \cap {"marketplace"}
MoreThan3(forks, stars) == forks > 3 * (IF stars > 1 THEN stars ELSE 1)
RepoGate ==
  LET p == prospect
      suspicious ==
        \/ p.archived \/ MarketplaceTerms # {}
        \/ (p.stars < 100 /\ p.watchers = 0) /\ p.forks > (IF 3 * p.stars > 25 THEN 3 * p.stars ELSE 25)
        \/ (MoreThan3(p.forks, p.stars) /\ p.stars < 500)
        \/ (p.young /\ p.open >= 100)
      influential == p.stars >= 1000 \/ (p.stars >= 500 /\ (p.watchers >= 20 \/ p.forks >= 200))
  IN IF suspicious THEN "hard_fail" ELSE IF influential THEN "pass" ELSE "soft_fail"
CompetitionGate_Trusting(t) ==
  LET band == Band(Points(t)) IN
  [band |-> band, status |-> CASE band \in {"clear", "light"} -> "pass" [] band = "contested" -> "soft_fail" [] OTHER -> "hard_fail"]
CompetitionGate(t) ==
  LET band == Band(Points(t)) IN
  IF ~t.timeline THEN [band |-> "weak", status |-> "soft_fail"]
  ELSE [band |-> band, status |-> CASE band \in {"clear", "light"} -> "pass" [] band = "contested" -> "soft_fail" [] OTHER -> "hard_fail"]
FitGate(fit) == IF fit >= 60 THEN "pass" ELSE IF fit >= 40 THEN "soft_fail" ELSE "hard_fail"
-----------------------------------------------------------------------------
(* Risk tags.                                                                 *)

LowDepthTags == {"NoCodeRequired", "MicroContribution", "ContentFill", "ThinTask"}
TagIf(tag, condition) == IF condition THEN {tag} ELSE {}
HasValidationHint == Says(Text, {"validation"})
RiskTags(t) ==
  TagIf("NoCodeRequired", Says(Text, {"no code"}))
  \cup TagIf("MicroContribution", Says(Text, {"under a minute", "quick"}))
  \cup TagIf("ContentFill", Says(Text, {"content", "fill in"}))
  \cup TagIf("TemplateLike", Says(Text, {"template"}))
  \cup TagIf("EventNoise", Says(prospect.labels, {"event"}))
  \cup TagIf("ThinTask", prospect.length < 500 /\ Says(Text, {"thin"}))
  \cup TagIf("HighTriageLoad", prospect.older + Len(t.comments) >= 20 \/ prospect.open >= 500 \/ Says(Text, {"audit"}))
  \cup TagIf("MissingMaintainerSignal", ~t.answered)
  \cup TagIf("WeakValidationPath", ~HasValidationHint)
GateTags(t) ==
  TagIf("ContentFill", LowDepthGate = "hard_fail" /\ RiskTags(t) \cap LowDepthTags = {})
  \cup TagIf("LowTrustRepo", RepoGate = "hard_fail") \cup TagIf("LowImpactRepo", RepoGate = "soft_fail")
  \cup TagIf("ForkStarAnomaly", MoreThan3(prospect.forks, prospect.stars) /\ prospect.stars < 500)
  \cup TagIf("MarketplaceNoise", MarketplaceTerms # {})
CompetitionTags_ContestedOnly(t) ==
  TagIf("CompetitionEvidenceMissing", ~t.timeline) \cup TagIf("CompetitionContested", Band(Points(t)) = "contested")
CompetitionTags(t) ==
  TagIf("CompetitionEvidenceMissing", ~t.timeline)
  \cup TagIf("CompetitionContested", Band(Points(t)) = "contested")
  \cup TagIf("CompetitionSaturated", Band(Points(t)) = "saturated")
ScopeTags(t) == TagIf("ScopeRisk", Says(WithComments(t), {"scope"}))
Risk ==
  [NoCodeRequired |-> 35, MicroContribution |-> 30, ContentFill |-> 30, TemplateLike |-> 22, EventNoise |-> 18,
   ThinTask |-> 22, HighTriageLoad |-> 25, MissingMaintainerSignal |-> 8, WeakValidationPath |-> 10,
   LowTrustRepo |-> 45, LowImpactRepo |-> 20, ForkStarAnomaly |-> 35, MarketplaceNoise |-> 42,
   CompetitionContested |-> 25, CompetitionSaturated |-> 55, CompetitionEvidenceMissing |-> 18,
   ProfileMismatch |-> 25, ScopeRisk |-> 15]
RiskScore(tags) == Smaller(FoldSet(LAMBDA tag, sum : sum + Risk[tag], 0, tags), 100)
-----------------------------------------------------------------------------
(* Scores, out of a hundred.                                                  *)

Influence(gate) ==
  LET p == prospect
      stars == IF p.stars >= 10000 THEN 100 ELSE IF p.stars >= 5000 THEN 92 ELSE IF p.stars >= 1000 THEN 82 ELSE IF p.stars >= 500 THEN 68
                 ELSE IF p.stars >= 100 THEN 45 ELSE IF p.stars >= 25 THEN 22 ELSE 8
      forks == IF p.forks >= 1000 THEN 100 ELSE IF p.forks >= 500 THEN 84 ELSE IF p.forks >= 200 THEN 70 ELSE IF p.forks >= 50 THEN 45
                 ELSE IF p.forks >= 10 THEN 22 ELSE 6
      watchers == IF p.watchers >= 200 THEN 100 ELSE IF p.watchers >= 50 THEN 78 ELSE IF p.watchers >= 20 THEN 62
                    ELSE IF p.watchers >= 10 THEN 45 ELSE IF p.watchers >= 1 THEN 18 ELSE 0
  IN Smaller((65 * stars + 20 * forks + 15 * watchers + 50) \div 100,
             CASE gate = "pass" -> 100 [] gate = "soft_fail" -> 55 [] OTHER -> 25)

Wanted == Profile.stack \cup Profile.keywords
AliasesOf(table, word) == IF word \in DOMAIN table THEN table[word] ELSE {}
ProfileTerms == Wanted \cup UNION {AliasesOf(Aliases, w) : w \in Wanted}
DomainTerms == UNION {AliasesOf(DomainAliases, w) : w \in Wanted}
HasFocus(text, kind) == text \cap Focus[kind] # {}
WantsTools == ProfileTerms \cap {"cli", "command line", "terminal", "subcommand", "base command",
                                 "developer tools", "developer tool", "devtools", "tooling"} # {}
ToolsAllowed == prospect.language \in Profile.stack \/ "python" \notin Profile.stack \/ HasFocus(Text \cup About, "python tools")
\* A profile wants more than its words: evidence, in the issue itself, of its subject.
FocusCaps ==
  LET ai == Text \cap Focus["ai"]
      dataCli == "python" \in Profile.stack /\ Profile.keywords \cap {"cli", "data", "testing", "pandas"} # {}
      backend == Profile.keywords \cap {"backend", "compiler", "performance", "cargo"} # {} \/ {"rust", "go"} \subseteq Profile.stack
      frontend == HasFocus(Text, "frontend") \/ (HasFocus(Text, "component") /\ HasFocus(Text, "component context"))
      inPython == prospect.language = "python" \/ HasFocus(Text \cup About, "python")
  IN (IF ProfileTerms \cap {"ai", "llm", "agent"} # {} /\ (ai = {} \/ (ai = {"agent"} /\ ~HasFocus(About, "ai"))) THEN {55} ELSE {})
     \cup (IF ProfileTerms \cap {"kubernetes", "docker", "ci", "infrastructure"} # {} /\ ~HasFocus(Text, "devops") THEN {55} ELSE {})
     \cup (IF backend /\ prospect.language \notin {"rust", "go"} /\ ~HasFocus(Text, "backend") THEN {55} ELSE {})
     \cup (IF ProfileTerms \cap {"frontend", "react", "ui", "browser", "dom"} # {} /\ ~frontend THEN {58} ELSE {})
     \cup (IF dataCli /\ ~HasFocus(Text, "data cli") THEN {58} ELSE IF dataCli /\ ~inPython THEN {55} ELSE {})
OutsideProfile ==
  /\ ProfileTerms \cap {"security", "crypto", "cryptography", "solidity", "ethereum", "web3"} = {}
  /\ HasFocus(Text \cup About, "crypto")
FitScore(tags) ==
  LET inIssue == Cardinality(Text \cap ProfileTerms)
      inRepo == Cardinality(About \cap ProfileTerms)
      inDomain == Cardinality(Text \cap DomainTerms)
      found == Smaller(22 * inIssue, 50) + Smaller(12 * inRepo, 38) + Smaller(12 * inDomain, 28)
               + (IF prospect.language \in ProfileTerms THEN 14 ELSE 0)
               + (IF inIssue + inDomain > 0 /\ inRepo >= 2 THEN 16 ELSE 0)
               + (IF WantsTools /\ HasFocus(Text \cup About, "tools") /\ ToolsAllowed THEN 45 ELSE 0)
      caps == FocusCaps \cup (IF OutsideProfile THEN {35} ELSE {}) \cup (IF tags \cap LowDepthTags # {} THEN {25} ELSE {})
  IN Min({found, 100} \cup caps)
ExecutionScore(tags) ==
  LET p == prospect
      found == (IF p.length >= 700 THEN 25 ELSE IF p.length >= 250 THEN 20 ELSE IF p.length >= 120 THEN 14 ELSE 0)
               + (IF p.path THEN 16 ELSE 0) + (IF Says(Text, {"repro"}) THEN 20 ELSE 0)
               + (IF Says(Text, {"expected"}) THEN 15 ELSE 0) + (IF Says(Text, {"direction"}) THEN 12 ELSE 0)
               + (IF HasValidationHint THEN 12 ELSE 0) + (IF Says(p.labels, {"good first issue"}) THEN 6 ELSE 0)
      caps == (IF tags \cap LowDepthTags # {} THEN {25} ELSE {}) \cup (IF "ThinTask" \in tags THEN {45} ELSE {})
              \cup (IF "WeakValidationPath" \in tags THEN {82} ELSE {})
  IN Min({found, 100} \cup caps)
MaintainerScore(t) ==
  Smaller((IF prospect.author = "maintainer" THEN 60 ELSE 0)
          + (IF t.answered THEN 35 ELSE IF \E c \in Range(t.comments) : c.by = "maintainer" THEN 25 ELSE 0), 100)
FreshnessScore(t) ==
  IF t.age <= 7 THEN 100 ELSE IF t.age <= 30 THEN 75 ELSE IF t.age <= 90 THEN 45 ELSE IF t.age <= 180 THEN 25 ELSE 10
Scores(t, tags) ==
  [influence |-> Influence(RepoGate), fit |-> FitScore(tags), execution |-> ExecutionScore(tags),
   maintainer |-> MaintainerScore(t), freshness |-> FreshnessScore(t), risk |-> RiskScore(tags)]
RankScore(category, s) ==
  LET hundredths ==
        CASE category \in {"HighValueReady", "HighValueNeedsScoping"} ->
               35 * s.fit + 25 * s.execution + 20 * s.influence + 10 * s.maintainer + 5 * s.freshness - 25 * s.risk
          [] category = "NicheButActionable" ->
               40 * s.fit + 35 * s.execution + 10 * s.maintainer + 10 * s.influence + 5 * s.freshness - 20 * s.risk
          [] category = "ContestedOrLowTrust" ->
               20 * s.influence + 25 * s.fit + 25 * s.execution + 5 * s.freshness - 35 * s.risk
          [] category = "NeedsTriage" ->
               20 * s.influence + 20 * s.fit + 25 * s.execution + 5 * s.freshness - 20 * s.risk
          [] OTHER -> 0
      rounded == (hundredths + 50) \div 100
  IN IF rounded < 0 THEN 0 ELSE Smaller(rounded, 100)
-----------------------------------------------------------------------------
(* The assessment: tags are found twice, before the scores and from them.       *)

Category(t, s, tags) ==
  LET gate == CompetitionGate(t)
      contested == gate.band = "contested" \/ "CompetitionContested" \in tags
  IN IF LowDepthGate = "hard_fail" \/ tags \cap LowDepthTags # {} THEN "FilteredLowDepth"
     ELSE IF gate.band = "saturated" \/ tags \cap {"CompetitionSaturated", "LowTrustRepo", "MarketplaceNoise"} # {}
     THEN "ContestedOrLowTrust"
     ELSE IF /\ RepoGate = "pass" /\ gate.status = "pass" /\ FitGate(s.fit) = "pass"
             /\ s.fit >= 70 /\ s.execution >= 70 /\ "ScopeRisk" \notin tags
     THEN "HighValueReady"
     ELSE IF RepoGate = "pass" /\ s.fit >= 70 /\ s.execution >= (IF contested THEN 70 ELSE 50)
     THEN "HighValueNeedsScoping"
     ELSE IF RepoGate = "soft_fail" /\ ~contested /\ s.fit >= 75 /\ s.execution >= 70 THEN "NicheButActionable"
     ELSE IF contested THEN "ContestedOrLowTrust" ELSE "NeedsTriage"
\* The gates' tags come too late for the first scores.
EarlyTags_BeforeGates(t) == RiskTags(t)
EarlyTags(t) == RiskTags(t) \cup GateTags(t)
ScoreTags(t) == TagIf("ProfileMismatch", FitScore(EarlyTags(t)) < 40 \/ OutsideProfile)
Tags(t) == EarlyTags(t) \cup GateTags(t) \cup ScoreTags(t) \cup CompetitionTags(t) \cup ScopeTags(t)
Assess(t) ==
  LET tags == Tags(t)
      scores == Scores(t, tags)
      category == Category(t, scores, tags)
  IN [category |-> category, tags |-> tags, scores |-> scores, rank |-> RankScore(category, scores)]
-----------------------------------------------------------------------------
(* The quality policy: each constraint may hide, penalise, cap the freshness.   *)

NoPolicy == [cap |-> 1000, penalty |-> 0, visibility |-> "visible"]
Hide(a, penalty) == [a EXCEPT !.visibility = "hidden_quality", !.penalty = @ + penalty]
Cap(a, cap) == [a EXCEPT !.cap = Smaller(@, cap)]
Penalise(a, penalty) == [a EXCEPT !.penalty = @ + penalty]
\* Kinds of issue, told by their phrases.
Dashboard == Says(Everywhere, {"dashboard"})
Toy == prospect.stars < 50 /\ Says(Everywhere, {"toy"})
TrivialDocs == Says(Everywhere, {"trivial docs"})
GuidedDocs(t) == {"docs only", "send a pr"} \subseteq WithComments(t)
DocsPolish == Says(Everywhere, {"docs polish"})
LargeAudit == Says(Everywhere, {"audit"})
BroadRequest == Says(Everywhere, {"broad"})
Resolved(t) == Says(WithComments(t), {"resolved"})
Noise(a) == IF Dashboard THEN Hide(a, 220) ELSE IF Toy THEN Hide(a, 180) ELSE a
Trust(a, v) == IF v.tags \cap {"LowTrustRepo", "ForkStarAnomaly", "MarketplaceNoise"} # {} THEN Hide(a, 220) ELSE a
ProfileConstraint(a, v) ==
  LET fit == v.scores.fit IN
  IF fit < 60 \/ ("ProfileMismatch" \in v.tags /\ v.category \in {"NeedsTriage", "ContestedOrLowTrust"})
  THEN Hide(Cap(a, 8), 180)
  ELSE IF "ProfileMismatch" \in v.tags THEN Penalise(Cap(a, 8), 180)
  ELSE IF fit < 70 THEN Hide(Cap(a, 12), 220) ELSE a
LowImpact(a, v) ==
  IF "LowImpactRepo" \notin v.tags THEN a
  ELSE IF prospect.stars < 50 THEN Hide(a, 180)
  ELSE IF v.category = "NeedsTriage" /\ prospect.old THEN Hide(a, 150)
  ELSE IF "WeakValidationPath" \in v.tags THEN Hide(Cap(a, 16), 160) ELSE Penalise(Cap(a, 28), 80)
AnsweredQuestion(t) == Says(WithComments(t), {"question"}) /\ Says(WithComments(t), {"answer"})
HasWork(t) == OpenPulls(t) > 0 \/ Marked(t, "fix") > 0 \/ Says(WithComments(t), {"pull request"}) \/ Resolved(t)
Claimed(t) ==
  Marked(t, "attempt") + Marked(t, "claim") + Marked(t, "working") > 0 \/ Says(WithComments(t), {"go ahead"})
Crowded(t) == Band(Points(t)) \in {"contested", "saturated"}
\* A contested issue is penalised and nothing more is asked.
CompetitionConstraint_EarlyReturn(a, t) ==
  IF AnsweredQuestion(t) THEN Hide(a, 160)
  ELSE IF HasWork(t) THEN Hide(a, 200)
  ELSE IF Crowded(t) THEN Penalise(a, 90) ELSE IF Claimed(t) THEN Hide(a, 140) ELSE a
CompetitionConstraint(a, t) ==
  IF AnsweredQuestion(t) THEN Hide(a, 160)
  ELSE IF HasWork(t) THEN Hide(a, 200)
  ELSE LET b == IF Crowded(t) THEN Penalise(a, 90) ELSE a IN IF Claimed(t) THEN Hide(b, 140) ELSE b
DocsConstraint(a, v, t) ==
  IF v.category = "FilteredLowDepth" THEN [a EXCEPT !.visibility = "hidden_filtered", !.penalty = @ + 160]
  ELSE IF TrivialDocs THEN Hide(a, 160)
  ELSE IF GuidedDocs(t) THEN Hide(a, 150)
  ELSE IF DocsPolish THEN Hide(a, 120) ELSE a
ScopeConstraint(a, v) ==
  IF /\ LargeAudit
     /\ v.category = "NeedsTriage" \/ v.tags \cap {"HighTriageLoad", "WeakValidationPath", "ProfileMismatch"} # {}
  THEN Hide(a, 180)
  ELSE IF v.category = "NeedsTriage" /\ prospect.old /\ ("ScopeRisk" \in v.tags \/ BroadRequest) THEN Hide(a, 170)
  ELSE IF "ScopeRisk" \in v.tags \/ LargeAudit THEN Penalise(Cap(a, 18), 75) ELSE a
Policy(v, t) ==
  ScopeConstraint(DocsConstraint(CompetitionConstraint(LowImpact(ProfileConstraint(Trust(Noise(NoPolicy), v), v), v), t), v, t), v)
ValueAnchor == [HighValueReady |-> 500, HighValueNeedsScoping |-> 470, NicheButActionable |-> 390, NeedsTriage |-> 300,
                ContestedOrLowTrust |-> 180, FilteredLowDepth |-> 0]
Worth(v, t) == ValueAnchor[v.category] + v.rank - Policy(v, t).penalty
-----------------------------------------------------------------------------
(* What happens to an issue.                                                  *)

ValueInit ==
  /\ prospect \in Prospects
  /\ thread = [comments |-> <<>>, pulls |-> [open |-> 0, closed |-> 0], timeline |-> TRUE, answered |-> FALSE, age |-> 0]
Comment(by, says) ==
  /\ Len(thread.comments) < MaxRemarks
  /\ thread' = [thread EXCEPT !.comments = Append(@, [by |-> by, says |-> says]),
                              !.answered = @ \/ by = "maintainer", !.age = 0]
OpenPull ==
  /\ thread.pulls.open + thread.pulls.closed < MaxPulls /\ thread.pulls.open < 2
  /\ thread' = [thread EXCEPT !.pulls.open = @ + 1]
ClosePull == thread.pulls.open > 0 /\ thread' = [thread EXCEPT !.pulls.open = @ - 1, !.pulls.closed = @ + 1]
\* A pull request that is closed already mentions the issue.
MentionClosed ==
  /\ thread.pulls.open + thread.pulls.closed < MaxPulls
  /\ thread' = [thread EXCEPT !.pulls.closed = @ + 1]
Timeline == thread' = [thread EXCEPT !.timeline = ~@]
GrowOld(age) == age > thread.age /\ thread' = [thread EXCEPT !.age = age, !.answered = FALSE]
ValueNext ==
  /\ UNCHANGED prospect
  /\ \/ \E by \in {"own", "user", "maintainer"} : \E says \in Remarks : Comment(by, says)
     \/ OpenPull \/ ClosePull \/ MentionClosed \/ Timeline \/ \E age \in Ages : GrowOld(age)
ValueSpec == ValueInit /\ [][ValueNext]_valueVars
-----------------------------------------------------------------------------
(* Properties.                                                                *)

VisibleIn(t) == Policy(Assess(t), t).visibility = "visible"

\* An issue with an open pull request, or that someone else claimed, attempts, works on or
\* has fixed, is never shown, however few or many the competitors are.
TakenIsHidden ==
  OpenPulls(thread) > 0 \/ OthersSay(thread) \cap {"attempt", "claim", "working", "fix"} # {} => ~VisibleIn(thread)

\* A comment of the tool's own, whatever it says, changes neither the category of the issue
\* nor whether it is shown (until twenty comments make any issue hard to triage).
OwnCommentsChangeNothing ==
  [][LET n == Len(thread'.comments) IN
     n > Len(thread.comments) /\ thread'.comments[n].by = "own" /\ prospect.older + n # 20 =>
       Assess(thread').category = Assess(thread).category /\ VisibleIn(thread') = VisibleIn(thread)]_valueVars

\* An issue whose timeline was not read, or in which somebody else doubts the scope, or that
\* has more than a little competition, is never called ready.
ReadyIsKnownFree ==
  ~thread.timeline \/ "scope" \in OthersSay(thread) \/ Points(thread) > 3 => Assess(thread).category # "HighValueReady"

\* Of an issue that is shown before and after, one more competitor never raises the score,
\* though it may move the issue to another category with other weights.
CompetitionNeverPays ==
  [][thread'.timeline = thread.timeline /\ thread'.age = thread.age /\ Points(thread') > Points(thread)
     /\ VisibleIn(thread) /\ VisibleIn(thread') =>
       Worth(Assess(thread'), thread') <= Worth(Assess(thread), thread)]_valueVars

\* The tag that says the issue does not fit the profile agrees with the final score, though
\* it is drawn from the first.
MismatchIsTagged == "ProfileMismatch" \notin Tags(thread) => Assess(thread).scores.fit >= 40

\* The three stages of an assessment (gates, scores, policy) agree about an issue: what
\* one knows to be taken, unknown or unfit, the next does not present as free, ready or
\* fit (quality_policy.rs, value_gates.rs, value_scoring.rs).
ValueIsCoherent == TakenIsHidden /\ ReadyIsKnownFree /\ MismatchIsTagged
=============================================================================
