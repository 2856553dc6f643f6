------------------------------ MODULE JudgingProofs ------------------------------
(* What is made of an issue, for any issues, answers, remarks and signs: what *)
(* the screening policy never does, what a judgement is worth for any number  *)
(* of screenings that share its caches, how the value of an issue holds       *)
(* together and moves, what enters a judgement, what becomes of the user's    *)
(* word and of a look, and what a scout shows and asks.                       *)
EXTENDS FreshFacts, FairScores, Judgement, DecisionAdapters, FoldLemmas

-----------------------------------------------------------------------------
(* The policy and the judgements.                                             *)

\* What is known of an issue comes from GitHub, the model and the check.
ScreeningTyped ==
  screened \in [repository : Repositories, status : Statuses, references : 0..1,
                answers : Answers \cup {NotJudged}, availability : Checks \cup {Unchecked}]
-----------------------------------------------------------------------------
LEMMA ScreeningTypeInit == ScreeningInit => ScreeningTyped
  BY DEF ScreeningInit, ScreeningTyped

LEMMA ScreeningTypeNext == ScreeningTyped /\ [ScreeningNext]_screeningVars => ScreeningTyped'
  BY DEF ScreeningTyped, ScreeningNext, Judged, CheckAgain, screeningVars

\* Every variable keeps its type.
THEOREM ScreeningTypeCorrect == ScreeningSpec => []ScreeningTyped
  BY ScreeningTypeInit, ScreeningTypeNext, PTL DEF ScreeningSpec

\* The pull requests of a check that was made are finitely many.
LEMMA CheckedPullsFinite ==
  ASSUME ScreeningTyped, Checked(screened)
  PROVE  IsFiniteSet(screened.availability.pulls)
  BY ScreeningAssumption DEF ScreeningTyped, Checked

\* The number of open resolutions and their existence say the same.
LEMMA CompetitionIsCounted ==
  ASSUME ScreeningTyped, Checked(screened), StrongOpenCompetition(screened.availability)
  PROVE  LinkedOpenPulls(screened) > 0
<1> DEFINE rivals == {p \in screened.availability.pulls : OpenResolution(p)}
<1>1. IsFiniteSet(rivals)
  BY CheckedPullsFinite, FS_Subset
<1>2. rivals # {}
  BY DEF StrongOpenCompetition
<1>3. Cardinality(rivals) \in Nat /\ Cardinality(rivals) # 0
  BY <1>1, <1>2, FS_CardinalityType, FS_EmptySet
<1>4. Cardinality(rivals) > 0
  BY <1>3
<1>5. LinkedOpenPulls(screened) = Cardinality(rivals)
  BY DEF LinkedOpenPulls
<1> QED
  BY <1>4, <1>5

\* Which facts the categories rest on.
LEMMA CategoryFacts ==
  ASSUME NEW e
  PROVE  /\ KnownTaken(e) <=> ScreenedCategory(e) = "contested"
         /\ ScreenedCategory(e) \in {"ready", "niche", "scoping"}
              => ~NotATask(e.answers) /\ ~Untriaged(e.answers)
         /\ ScreenedCategory(e) \in {"ready", "niche"} => ~Uncertain(e)
<1> HIDE DEF KnownTaken, NotATask, Untriaged, Uncertain, Unsettled
<1>1. CASE KnownTaken(e)
  BY <1>1 DEF ScreenedCategory
<1>2. CASE ~KnownTaken(e) /\ NotATask(e.answers)
  BY <1>2 DEF ScreenedCategory
<1>3. CASE ~KnownTaken(e) /\ ~NotATask(e.answers) /\ Untriaged(e.answers)
  BY <1>3 DEF ScreenedCategory
<1>4. CASE ~KnownTaken(e) /\ ~NotATask(e.answers) /\ ~Untriaged(e.answers)
  BY <1>4 DEF ScreenedCategory
<1> QED
  BY <1>1, <1>2, <1>3, <1>4

\* What the gate lets through the feed shows.
LEMMA GateIsWithinFeed == PreparableIsShown
<1> SUFFICES ASSUME DefaultPrepareAllowed(screened) PROVE ScreenedVisibility(screened) = "visible"
  BY DEF PreparableIsShown
<1>1. ~KnownTaken(screened) /\ ~Untriaged(screened.answers)
  BY CategoryFacts DEF DefaultPrepareAllowed
<1>2. screened.answers.preference # "mismatch"
  BY <1>1 DEF Untriaged
<1>3. /\ ~Closed(screened) /\ ~LowTrustRepository(screened.repository)
      /\ ~(LinkedOpenPulls(screened) > 0)
      /\ ~(Checked(screened) /\ (KnownUnavailable(screened.availability) \/ MergedResolution(screened.availability)))
  BY <1>1 DEF KnownTaken, LowTrust
<1> QED
  BY <1>2, <1>3 DEF ScreenedVisibility

\* The defaults prepare nothing.
LEMMA DefaultsDoNotPrepare == UnjudgedIsNotPrepared
<1> SUFFICES ASSUME screened.answers = NotJudged
             PROVE  ScreenedCategory(screened) \in {"contested", "triage"} /\ ~DefaultPrepareAllowed(screened)
  BY DEF UnjudgedIsNotPrepared
<1>1. ~NotATask(screened.answers) /\ Untriaged(screened.answers)
  BY DEF NotATask, Untriaged, NotJudged
<1>2. ScreenedCategory(screened) \in {"contested", "triage"}
  BY <1>1 DEF ScreenedCategory
<1> QED
  BY <1>2 DEF DefaultPrepareAllowed

\* A check that was not passed is in the evidence.
LEMMA ChecksAreExplained == ScreeningTyped => DowngradeIsExplained
<1> SUFFICES ASSUME ScreeningTyped, Uncertain(screened), ScreenedCategory(screened) # "contested"
             PROVE  MissingEvidence(screened) \cap {"checks", "leads"} # {}
  BY DEF DowngradeIsExplained
<1>1. Checked(screened) /\ ~FreshFixAvailable(screened.availability)
  BY DEF Uncertain
<1>2. CASE ~ChecksComplete(screened.availability)
  BY <1>1, <1>2 DEF MissingEvidence
<1>3. CASE ChecksComplete(screened.availability)
  <2>1. ~KnownTaken(screened)
    BY CategoryFacts
  <2>2. ~KnownUnavailable(screened.availability) /\ ~MergedResolution(screened.availability)
    BY <1>1, <2>1 DEF KnownTaken
  <2>3. ~StrongOpenCompetition(screened.availability)
    BY <1>1, <2>1, CompetitionIsCounted DEF KnownTaken
  <2>4. "leads" \in MissingEvidence(screened)
    BY <1>1, <1>3, <2>2, <2>3 DEF MissingEvidence
  <2> QED
    BY <2>4
<1> QED
  BY <1>2, <1>3

\* The gate, the feed, the defaults and the evidence of the policy agree, whatever
\* GitHub, the model and a later check say (decision/policy.rs, prepare_gate.rs).
THEOREM PolicyAgrees == ScreeningSpec => []PolicyAgreesWithItself
<1>1. ScreeningTyped => PolicyAgreesWithItself
  BY GateIsWithinFeed, DefaultsDoNotPrepare, ChecksAreExplained DEF PolicyAgreesWithItself
<1> QED
  BY <1>1, ScreeningTypeCorrect, PTL
-----------------------------------------------------------------------------
\* What is known to be taken does not depend on the answers.
LEMMA TakenWhateverAnswered ==
  ASSUME ScreeningTyped, NEW a \in Answers, Judged(a), KnownTaken(screened)
  PROVE  KnownTaken(screened')
<1>1. /\ screened'.repository = screened.repository /\ screened'.status = screened.status
      /\ screened'.references = screened.references
      /\ screened'.availability = screened.availability
  BY DEF ScreeningTyped, Judged
<1> QED
  BY <1>1 DEF KnownTaken, Closed, LowTrust, Assigned, LinkedOpenPulls, Checked

\* What was known to be taken is called ready or niche again only by a check that found
\* the issue free (decision/policy.rs assess).
THEOREM OnlyFreshFactsClear == ScreeningSpec => ClearedByFreshFactsOnly
<1>1. ASSUME ScreeningTyped, [ScreeningNext]_screeningVars,
             ScreenedCategory(screened) = "contested", ScreenedCategory(screened') \in {"ready", "niche"}
      PROVE  Checked(screened') /\ FreshFixAvailable(screened'.availability)
  <2>1. ASSUME NEW a \in Answers, Judged(a) PROVE FALSE
    <3>1. KnownTaken(screened)
      BY <1>1, CategoryFacts
    <3>2. KnownTaken(screened')
      BY <1>1, <2>1, <3>1, TakenWhateverAnswered
    <3>3. ScreenedCategory(screened') = "contested"
      BY <3>2 DEF ScreenedCategory
    <3> QED
      BY <1>1, <3>3
  <2>2. ASSUME NEW s \in Checks, CheckAgain(s)
        PROVE  Checked(screened') /\ FreshFixAvailable(screened'.availability)
    <3>1. screened'.availability = s
      BY <1>1, <2>2 DEF CheckAgain, ScreeningTyped
    <3>2. Checked(screened')
      BY <3>1, ScreeningAssumption DEF Checked, Unchecked
    <3>3. ~Uncertain(screened')
      BY <1>1, CategoryFacts
    <3> QED
      BY <3>2, <3>3 DEF Uncertain
  <2>3. CASE UNCHANGED screeningVars
    BY <1>1, <2>3 DEF screeningVars
  <2> QED
    BY <1>1, <2>1, <2>2, <2>3 DEF ScreeningNext
<1> QED
  BY <1>1, ScreeningTypeCorrect, PTL DEF ScreeningSpec, ClearedByFreshFactsOnly
-----------------------------------------------------------------------------
(* A judgement and its caches.                                               *)

Threads == [count : Nat, edits : Nat]
Totals == [known : BOOLEAN, n : Nat]
Samples == [got : BOOLEAN, count : Nat, edits : Nat]
ThreadTyped ==
  /\ discussion \in Threads /\ minute \in Nat
  /\ seenAt \in Seq(SUBSET Threads) /\ Len(seenAt) = minute + 1
  /\ discussion \in seenAt[minute + 1]

\* A count, and a sample of comments, is what the discussion had at a minute.
CountAt(m, total) == total.known => \E d \in seenAt[m + 1] : d.count = total.n
SampleAt(m, sample) ==
  sample.got /\ sample.count > 0 => \E d \in seenAt[m + 1] : d.edits = sample.edits /\ d.count >= sample.count
\* What was answered is kept with the question it answers.
Matches(e) ==
  e.status \in Answering => e.response = [given |-> TRUE, on |-> e.key.input, by |-> e.key.provider]
KeptInv ==
  /\ kept = [details |-> kept.details, comments |-> kept.comments, snapshots |-> kept.snapshots]
  /\ \A e \in kept.details : e.at \in 0..minute /\ e.value \in Totals /\ CountAt(e.at, e.value)
  /\ \A e \in kept.comments : e.at \in 0..minute /\ SampleAt(e.at, e.value)
  /\ \A e \in kept.snapshots : Matches(e)

\* So it was at a minute within one lifetime of the call's beginning.
LateCount(order, until, total) == \E m \in 0..until : m + SourceTtl >= order.since /\ CountAt(m, total)
LateSample(order, until, sample) == \E m \in 0..until : m + SourceTtl >= order.since /\ SampleAt(m, sample)
LateMaterial(order, until, material) ==
  LateCount(order, until, material.total) /\ LateSample(order, until, material.comments)
Concludes(call) ==
  \/ call.status \in Answering /\ call.response = Answer(call)
  \/ call.status = "failed" /\ call.response = Unanswered
CallOk(call) ==
  /\ call.at \in {"idle", "details", "comments", "look", "post", "save", "done"}
  /\ call.at # "idle" => call.order.since \in 0..minute
  /\ call.at = "comments" => call.details \in Totals /\ LateCount(call.order, minute, call.details)
  /\ call.at \in {"look", "post", "save"} => LateMaterial(call.order, minute, call.material)
  /\ call.at = "done" => call.ended \in 0..minute /\ LateMaterial(call.order, call.ended, call.material)
  /\ call.at \in {"save", "done"} => Concludes(call)
\* The service accepts a question in the step that ends the asking.
AskedSoFar(call, times) ==
  /\ times \in {0, 1}
  /\ call.at \in {"idle", "details", "comments", "look", "post"} => times = 0
CallsInv ==
  /\ screen = [s \in Screens |-> screen[s]] /\ accepted = [s \in Screens |-> accepted[s]]
  /\ \A s \in Screens : CallOk(screen[s]) /\ AskedSoFar(screen[s], accepted[s])
JudgeInv == ThreadTyped /\ KeptInv /\ CallsInv

LEMMA JudgeStarts == JudgeInit => JudgeInv
<1> SUFFICES ASSUME JudgeInit PROVE JudgeInv
  OBVIOUS
<1>1. ThreadTyped
  BY DEF JudgeInit, ThreadTyped, Threads
<1>2. KeptInv
  BY DEF JudgeInit, KeptInv
<1>3. CallsInv
  BY DEF JudgeInit, CallsInv, CallOk, AskedSoFar, NoCall
<1> QED
  BY <1>1, <1>2, <1>3 DEF JudgeInv

\* What the discussion was stays on record.
OnRecord == minute' \in Nat /\ minute' >= minute /\ \A m \in 0..minute : seenAt[m + 1] \subseteq seenAt'[m + 1]

LEMMA RecordsStay ==
  ASSUME ThreadTyped, OnRecord, UNCHANGED <<kept, screen, accepted>>, KeptInv, CallsInv
  PROVE  KeptInv' /\ CallsInv'
<1>1. minute \in Nat /\ minute' \in Nat /\ minute' >= minute
  BY DEF ThreadTyped, OnRecord
<1>2. ASSUME NEW m \in 0..minute, NEW x
      PROVE  (CountAt(m, x) => CountAt(m, x)') /\ (SampleAt(m, x) => SampleAt(m, x)')
  BY <1>2 DEF CountAt, SampleAt, OnRecord
<1>3. KeptInv'
  BY <1>1, <1>2 DEF KeptInv, Matches
<1>4. ASSUME NEW order, NEW until \in 0..minute, NEW x
      PROVE  /\ LateCount(order, until, x) => LateCount(order, until, x)'
             /\ LateSample(order, until, x) => LateSample(order, until, x)'
  BY <1>1, <1>2, <1>4 DEF LateCount, LateSample
<1>5. ASSUME NEW order, NEW x
      PROVE  /\ LateCount(order, minute, x) => LateCount(order, minute, x)'
             /\ LateSample(order, minute, x) => LateSample(order, minute, x)'
  BY <1>1, <1>2, <1>5 DEF LateCount, LateSample
<1>6. ASSUME NEW s \in Screens, CallOk(screen[s]) PROVE CallOk(screen[s])'
  BY <1>1, <1>4, <1>5, <1>6 DEF CallOk, LateMaterial, Concludes, Answer
<1> QED
  BY <1>3, <1>6 DEF CallsInv, AskedSoFar

\* The steps of a screen leave the world alone and go on with one call.
LEMMA ScreenGoesOn ==
  ASSUME JudgeInv, NEW s \in Screens, NEW call, To(s, call), CallOk(call), AskedSoFar(call, accepted[s]'),
         UNCHANGED <<discussion, minute, seenAt>>, \A t \in Screens \ {s} : accepted'[t] = accepted[t],
         accepted' = [t \in Screens |-> accepted'[t]]
  PROVE  ThreadTyped' /\ CallsInv'
<1>1. ThreadTyped'
  BY DEF JudgeInv, ThreadTyped
<1>2. screen'[s] = call /\ \A t \in Screens \ {s} : screen'[t] = screen[t]
  BY DEF JudgeInv, CallsInv, To
<1>3. \A t \in Screens : CallOk(screen'[t])
  BY <1>2 DEF JudgeInv, CallsInv
<1>4. \A t \in Screens : CallOk(screen[t])'
  BY <1>3 DEF CallOk, LateMaterial, LateCount, LateSample, CountAt, SampleAt, Concludes, Answer
<1>5. \A t \in Screens : AskedSoFar(screen[t], accepted[t])'
  BY <1>2 DEF JudgeInv, CallsInv, AskedSoFar
<1>6. screen' = [t \in Screens |-> screen'[t]]
  BY DEF JudgeInv, CallsInv, To
<1> QED
  BY <1>1, <1>4, <1>5, <1>6 DEF CallsInv

\* Caches that are not written stay as good as they were.
LEMMA KeptStays == KeptInv /\ UNCHANGED <<kept, minute, seenAt>> => KeptInv'
  BY DEF KeptInv, CountAt, SampleAt, Matches

LEMMA DiscussionMoves == JudgeInv /\ (Discuss \/ TimePasses) => JudgeInv'
<1> SUFFICES ASSUME JudgeInv, Discuss \/ TimePasses PROVE JudgeInv'
  OBVIOUS
<1>0. minute \in Nat /\ Len(seenAt) = minute + 1 /\ seenAt \in Seq(SUBSET Threads) /\ discussion \in Threads
      /\ minute + 1 \in DOMAIN seenAt
  BY DEF JudgeInv, ThreadTyped
<1>1. CASE Discuss
  <2>1. PICK now \in Threads : GoesOn(now) /\ UNCHANGED <<kept, screen, minute, accepted>>
    <3> DEFINE more == [discussion EXCEPT !.count = @ + 1]
               edited == [discussion EXCEPT !.edits = @ + 1]
    <3>1. more \in Threads /\ edited \in Threads
      BY <1>0 DEF Threads
    <3> QED
      BY <1>1, <3>1 DEF Discuss
  <2> DEFINE grown == seenAt[minute + 1] \cup {now}
  <2>2. seenAt' = [seenAt EXCEPT ![minute + 1] = grown] /\ discussion' = now
    BY <2>1 DEF GoesOn
  <2>3. grown \in SUBSET Threads
    BY <1>0
  <2>4. /\ seenAt' \in Seq(SUBSET Threads) /\ Len(seenAt') = minute + 1 /\ seenAt'[minute + 1] = grown
        /\ \A m \in 0..minute : seenAt[m + 1] \subseteq seenAt'[m + 1]
    BY <1>0, <2>2, <2>3
  <2>5. ThreadTyped' /\ OnRecord
    BY <1>0, <2>1, <2>2, <2>4 DEF ThreadTyped, OnRecord
  <2> QED
    BY <2>1, <2>5, RecordsStay DEF JudgeInv
<1>2. CASE TimePasses
  <2>1. /\ minute' = minute + 1 /\ seenAt' = Append(seenAt, {discussion})
        /\ UNCHANGED <<discussion, kept, screen, accepted>>
    BY <1>2 DEF TimePasses
  <2>2. {discussion} \in SUBSET Threads
    BY <1>0
  <2>3. /\ seenAt' \in Seq(SUBSET Threads) /\ Len(seenAt') = minute' + 1 /\ discussion' \in seenAt'[minute' + 1]
        /\ \A m \in 0..minute : seenAt'[m + 1] = seenAt[m + 1]
    BY <1>0, <2>1, <2>2
  <2>4. ThreadTyped' /\ OnRecord
    BY <1>0, <2>1, <2>3 DEF ThreadTyped, OnRecord
  <2> QED
    BY <2>1, <2>4, RecordsStay DEF JudgeInv
<1> QED
  BY <1>1, <1>2

LEMMA BeginOk == ASSUME JudgeInv, NEW s \in Screens, BeginScreen(s) PROVE JudgeInv'
<1>1. PICK p \in Providers, refresh \in BOOLEAN :
        To(s, [at |-> "details", order |-> [provider |-> p, refresh |-> refresh, since |-> minute]])
  BY DEF BeginScreen
<1> DEFINE call == [at |-> "details", order |-> [provider |-> p, refresh |-> refresh, since |-> minute]]
<1>2. accepted' = [accepted EXCEPT ![s] = 0] /\ UNCHANGED <<discussion, minute, seenAt, kept>>
  BY DEF BeginScreen
<1>3. accepted'[s] = 0 /\ (\A t \in Screens \ {s} : accepted'[t] = accepted[t])
      /\ accepted' = [t \in Screens |-> accepted'[t]]
  BY <1>2 DEF JudgeInv, CallsInv
<1>4. minute \in 0..minute
  BY DEF JudgeInv, ThreadTyped
<1>5. CallOk(call) /\ AskedSoFar(call, accepted[s]')
  BY <1>3, <1>4 DEF CallOk, AskedSoFar
<1> HIDE DEF call
<1> QED
  BY <1>1, <1>2, <1>3, <1>5, ScreenGoesOn, KeptStays DEF JudgeInv, call

\* Facts that are fetched are those of this minute.
LEMMA FetchedNow ==
  ASSUME JudgeInv, NEW order, order.since \in 0..minute
  PROVE  /\ \A total : CountAt(minute, total) => LateCount(order, minute, total)
         /\ \A sample : SampleAt(minute, sample) => LateSample(order, minute, sample)
<1>1. minute \in 0..minute /\ minute + SourceTtl >= order.since
  BY JudgementAssumption DEF JudgeInv, ThreadTyped
<1> QED
  BY <1>1 DEF LateCount, LateSample

LEMMA FetchedLately ==
  ASSUME JudgeInv, NEW order, order.since \in 0..minute, NEW m \in 0..minute, minute - m <= SourceTtl
  PROVE  /\ \A total : CountAt(m, total) => LateCount(order, minute, total)
         /\ \A sample : SampleAt(m, sample) => LateSample(order, minute, sample)
<1>1. m + SourceTtl >= order.since
  BY JudgementAssumption DEF JudgeInv, ThreadTyped
<1> QED
  BY <1>1 DEF LateCount, LateSample

LEMMA DetailsOk == ASSUME JudgeInv, NEW s \in Screens, ReadDetails(s) PROVE JudgeInv'
<1> DEFINE order == screen[s].order
           fetched == [known |-> TRUE, n |-> discussion.count]
<1>1. /\ screen[s].at = "details" /\ UNCHANGED <<discussion, minute, seenAt, accepted>>
      /\ order.since \in 0..minute /\ AskedSoFar(screen[s], accepted[s])
  BY DEF ReadDetails, World, JudgeInv, CallsInv, CallOk
<1>2. fetched \in Totals /\ CountAt(minute, fetched) /\ minute \in 0..minute
  BY DEF JudgeInv, ThreadTyped, CountAt, Threads, Totals
<1>3. NoDetails \in Totals /\ CountAt(minute, NoDetails)
  BY DEF NoDetails, Totals, CountAt
<1>4. PICK total \in Totals :
        /\ With(s, total) /\ LateCount(order, minute, total)
        /\ UNCHANGED kept \/ kept' = [kept EXCEPT !.details = {[value |-> fetched, at |-> minute]}]
  <2>1. CASE \E e \in kept.details : minute - e.at <= SourceTtl /\ With(s, e.value) /\ UNCHANGED kept
    BY <1>1, <2>1, FetchedLately DEF JudgeInv, KeptInv
  <2>2. CASE With(s, fetched) /\ kept' = [kept EXCEPT !.details = {[value |-> fetched, at |-> minute]}]
    BY <1>1, <1>2, <2>2, FetchedNow
  <2>3. CASE With(s, NoDetails) /\ UNCHANGED kept
    BY <1>1, <1>3, <2>3, FetchedNow
  <2> QED
    BY <2>1, <2>2, <2>3 DEF ReadDetails, FreshSource
<1> DEFINE call == [at |-> "comments", order |-> order, details |-> total]
<1>5. To(s, call) /\ CallOk(call) /\ AskedSoFar(call, accepted[s]')
  BY <1>1, <1>4 DEF With, CallOk, AskedSoFar
<1>6. KeptInv'
  <2>1. CASE UNCHANGED kept
    BY <1>1, <2>1, KeptStays DEF JudgeInv
  <2>2. CASE kept' = [kept EXCEPT !.details = {[value |-> fetched, at |-> minute]}]
    <3> DEFINE entry == [value |-> fetched, at |-> minute]
    <3>1. /\ kept'.details = {entry} /\ kept'.comments = kept.comments /\ kept'.snapshots = kept.snapshots
          /\ kept' = [details |-> kept'.details, comments |-> kept'.comments, snapshots |-> kept'.snapshots]
      BY <2>2 DEF JudgeInv, KeptInv
    <3>2. entry.at = minute /\ entry.value = fetched
      OBVIOUS
    <3> HIDE DEF entry, fetched
    <3> QED
      BY <1>1, <1>2, <3>1, <3>2 DEF JudgeInv, KeptInv, CountAt, SampleAt, Matches
  <2> QED
    BY <1>4, <2>1, <2>2
<1> HIDE DEF call
<1>7. accepted' = [t \in Screens |-> accepted'[t]]
  BY <1>1 DEF JudgeInv, CallsInv
<1> QED
  BY <1>1, <1>5, <1>6, <1>7, ScreenGoesOn DEF JudgeInv

LEMMA LeastOfTwo == \A a, b \in Nat : Min({a, b}) \in Nat /\ Min({a, b}) <= a
<1> SUFFICES ASSUME NEW a \in Nat, NEW b \in Nat PROVE Min({a, b}) \in Nat /\ Min({a, b}) <= a
  OBVIOUS
<1>1. \E x \in {a, b} : \A y \in {a, b} : x <= y
  <2>1. CASE a <= b
    BY <2>1
  <2>2. CASE b <= a
    BY <2>2
  <2> QED
    BY <2>1, <2>2
<1> DEFINE least == CHOOSE x \in {a, b} : \A y \in {a, b} : x <= y
<1>2. least \in {a, b} /\ \A y \in {a, b} : least <= y
  BY <1>1
<1>3. Min({a, b}) = least
  BY DEF Min
<1> HIDE DEF least
<1> QED
  BY <1>2, <1>3

LEMMA CommentsOk == ASSUME JudgeInv, NEW s \in Screens, ReadComments(s) PROVE JudgeInv'
<1> DEFINE order == screen[s].order
           key == screen[s].details
           none == [NoComments EXCEPT !.got = TRUE]
           page == PageOf(key)
           saved(sample) == [kept EXCEPT !.comments = Saved(@, [key |-> key, value |-> sample, at |-> minute])]
<1>1. /\ screen[s].at = "comments" /\ UNCHANGED <<discussion, minute, seenAt, accepted>>
      /\ order.since \in 0..minute /\ AskedSoFar(screen[s], accepted[s])
      /\ key \in Totals /\ LateCount(order, minute, key)
  BY DEF ReadComments, World, JudgeInv, CallsInv, CallOk
<1>2. minute \in 0..minute /\ discussion \in seenAt[minute + 1] /\ discussion.count \in Nat
  BY DEF JudgeInv, ThreadTyped, Threads
<1>3. SampleAt(minute, NoComments) /\ SampleAt(minute, none)
  BY DEF SampleAt, NoComments
<1>4. SampleAt(minute, page)
  <2>1. page.edits = discussion.edits /\ page.count <= discussion.count
    BY <1>1, <1>2, LeastOfTwo, JudgementAssumption DEF PageOf, Totals
  <2> QED
    BY <1>2, <2>1 DEF SampleAt
<1>5. PICK sample :
        /\ To(s, [at |-> "look", order |-> order, material |-> Material(s, sample)])
        /\ LateSample(order, minute, sample)
        /\ UNCHANGED kept \/ (SampleAt(minute, sample) /\ kept' = saved(sample))
  <2> DEFINE read(x) == To(s, [at |-> "look", order |-> order, material |-> Material(s, x)])
  <2>1. CASE \E e \in kept.comments : minute - e.at <= SourceTtl /\ read(e.value) /\ UNCHANGED kept
    BY <1>1, <2>1, FetchedLately DEF JudgeInv, KeptInv
  <2>2. CASE \E x \in {none, page} : read(x) /\ (kept' = saved(x) \/ UNCHANGED kept)
    <3>1. PICK x \in {none, page} : read(x) /\ (kept' = saved(x) \/ UNCHANGED kept)
      BY <2>2
    <3>2. SampleAt(minute, x)
      BY <1>3, <1>4
    <3>3. LateSample(order, minute, x)
      BY <1>1, <3>2, FetchedNow
    <3> HIDE DEF saved, none, page
    <3> QED
      BY <3>1, <3>2, <3>3
  <2>3. CASE read(NoComments) /\ UNCHANGED kept
    BY <1>1, <1>3, <2>3, FetchedNow
  <2> QED
    BY <2>1, <2>2, <2>3 DEF ReadComments, FreshSource, CommentKey
<1> DEFINE call == [at |-> "look", order |-> order, material |-> Material(s, sample)]
<1>6. Material(s, sample).total = key /\ Material(s, sample).comments = sample
  BY DEF Material
<1>7. CallOk(call) /\ AskedSoFar(call, accepted[s]')
  <2> DEFINE material == Material(s, sample)
  <2> HIDE DEF material
  <2>1. LateMaterial(order, minute, material)
    BY <1>1, <1>5, <1>6 DEF LateMaterial, material
  <2> QED
    BY <1>1, <2>1 DEF CallOk, AskedSoFar, material
<1>8. KeptInv'
  <2>1. CASE UNCHANGED kept
    BY <1>1, <2>1, KeptStays DEF JudgeInv
  <2>2. CASE SampleAt(minute, sample) /\ kept' = saved(sample)
    <3> DEFINE entry == [key |-> key, value |-> sample, at |-> minute]
    <3>1. /\ kept'.comments = Saved(kept.comments, entry)
          /\ kept'.details = kept.details /\ kept'.snapshots = kept.snapshots
          /\ kept' = [details |-> kept'.details, comments |-> kept'.comments, snapshots |-> kept'.snapshots]
      BY <2>2 DEF JudgeInv, KeptInv
    <3>2. entry.at = minute /\ entry.value = sample
      OBVIOUS
    <3> HIDE DEF entry
    <3>3. \A e \in kept'.comments : e \in kept.comments \/ e = entry
      BY <3>1 DEF Saved
    <3> QED
      BY <1>1, <1>2, <2>2, <3>1, <3>2, <3>3 DEF JudgeInv, KeptInv, CountAt, SampleAt, Matches
  <2> QED
    BY <1>5, <2>1, <2>2
<1>9. accepted' = [t \in Screens |-> accepted'[t]]
  BY <1>1 DEF JudgeInv, CallsInv
<1> HIDE DEF call
<1> QED
  BY <1>1, <1>5, <1>7, <1>8, <1>9, ScreenGoesOn DEF JudgeInv, call

LEMMA LookUpOk == ASSUME JudgeInv, NEW s \in Screens, LookUp(s) PROVE JudgeInv'
<1> DEFINE was == screen[s]
<1>1. /\ was.at = "look" /\ UNCHANGED <<discussion, minute, seenAt, accepted, kept>>
      /\ was.order.since \in 0..minute /\ LateMaterial(was.order, minute, was.material)
      /\ AskedSoFar(was, accepted[s])
  BY DEF LookUp, World, JudgeInv, CallsInv, CallOk
<1>2. minute \in 0..minute
  BY DEF JudgeInv, ThreadTyped
<1> DEFINE over(status, response) == [at |-> "done", order |-> was.order, material |-> was.material,
                                      ended |-> minute, status |-> status, response |-> response]
           asking == [at |-> "post", order |-> was.order, material |-> was.material, asked |-> minute, attempt |-> 0]
<1>3. PICK call : To(s, call) /\ CallOk(call) /\ AskedSoFar(call, accepted[s]')
  <2>1. ASSUME NEW e \in kept.snapshots, Reusable(was, e), To(s, over(e.status, e.response))
        PROVE  \E call : To(s, call) /\ CallOk(call) /\ AskedSoFar(call, accepted[s]')
    <3>1. e.status = "completed" /\ e.key = [input |-> was.material, provider |-> was.order.provider]
      BY <2>1 DEF Reusable, SnapshotKey, InputId
    <3>2. e.response = [given |-> TRUE, on |-> was.material, by |-> was.order.provider]
      BY <3>1 DEF JudgeInv, KeptInv, Matches, Answering
    <3>3. CallOk(over(e.status, e.response)) /\ AskedSoFar(over(e.status, e.response), accepted[s]')
      BY <1>1, <1>2, <3>1, <3>2 DEF CallOk, AskedSoFar, Concludes, Answer, Answering
    <3> QED
      BY <2>1, <3>3
  <2>2. CASE To(s, asking)
    <3>1. CallOk(asking) /\ AskedSoFar(asking, accepted[s]')
      BY <1>1 DEF CallOk, AskedSoFar
    <3> QED
      BY <2>2, <3>1
  <2>3. CASE To(s, over("failed", Unanswered))
    <3>1. CallOk(over("failed", Unanswered)) /\ AskedSoFar(over("failed", Unanswered), accepted[s]')
      BY <1>1, <1>2 DEF CallOk, AskedSoFar, Concludes
    <3> QED
      BY <2>3, <3>1
  <2> QED
    BY <2>1, <2>2, <2>3 DEF LookUp, Ended, Submitting
<1>4. accepted' = [t \in Screens |-> accepted'[t]]
  BY <1>1 DEF JudgeInv, CallsInv
<1> QED
  BY <1>1, <1>3, <1>4, ScreenGoesOn, KeptStays DEF JudgeInv

LEMMA PostOk == ASSUME JudgeInv, NEW s \in Screens, Post(s) PROVE JudgeInv'
<1> DEFINE was == screen[s]
<1>1. /\ was.at = "post" /\ UNCHANGED <<discussion, minute, seenAt, kept>>
      /\ was.order.since \in 0..minute /\ LateMaterial(was.order, minute, was.material)
      /\ accepted[s] = 0
  BY DEF Post, World, JudgeInv, CallsInv, CallOk, AskedSoFar
<1> DEFINE asking == [at |-> "post", order |-> was.order, material |-> was.material, asked |-> was.asked, attempt |-> 1]
           told(status, response) == [at |-> "save", order |-> was.order, material |-> was.material,
                                      asked |-> was.asked, status |-> status, response |-> response]
<1>2. PICK outcome \in Endings :
        /\ accepted' = [accepted EXCEPT ![s] = @ + (IF outcome = "refused" THEN 0 ELSE 1)]
        /\ \/ Again(was, outcome) /\ To(s, asking)
           \/ outcome \in Answering /\ To(s, told(outcome, Answer(was)))
           \/ outcome \notin Answering /\ To(s, told("failed", Unanswered))
  BY DEF Post, Submitting, Reported
<1>3. /\ accepted'[s] = IF outcome = "refused" THEN 0 ELSE 1
      /\ \A t \in Screens \ {s} : accepted'[t] = accepted[t]
      /\ accepted' = [t \in Screens |-> accepted'[t]]
  BY <1>1, <1>2 DEF JudgeInv, CallsInv
<1>4. PICK call : To(s, call) /\ CallOk(call) /\ AskedSoFar(call, accepted[s]')
  <2>1. CASE Again(was, outcome) /\ To(s, asking)
    <3>1. CallOk(asking) /\ AskedSoFar(asking, accepted[s]')
      BY <1>1, <1>3, <2>1 DEF CallOk, AskedSoFar, Again
    <3> QED
      BY <2>1, <3>1
  <2>2. CASE outcome \in Answering /\ To(s, told(outcome, Answer(was)))
    <3>1. CallOk(told(outcome, Answer(was))) /\ AskedSoFar(told(outcome, Answer(was)), accepted[s]')
      BY <1>1, <1>3, <2>2 DEF CallOk, AskedSoFar, Concludes, Answer
    <3> QED
      BY <2>2, <3>1
  <2>3. CASE To(s, told("failed", Unanswered))
    <3>1. CallOk(told("failed", Unanswered)) /\ AskedSoFar(told("failed", Unanswered), accepted[s]')
      BY <1>1, <1>3 DEF CallOk, AskedSoFar, Concludes
    <3> QED
      BY <2>3, <3>1
  <2> QED
    BY <1>2, <2>1, <2>2, <2>3
<1> QED
  BY <1>1, <1>3, <1>4, ScreenGoesOn, KeptStays DEF JudgeInv

LEMMA SaveOk == ASSUME JudgeInv, NEW s \in Screens, SaveSnapshot(s) PROVE JudgeInv'
<1> DEFINE was == screen[s]
           entry == Snapshot(was, was.status, was.response)
<1>1. /\ was.at = "save" /\ UNCHANGED <<discussion, minute, seenAt, accepted>>
      /\ was.order.since \in 0..minute /\ LateMaterial(was.order, minute, was.material)
      /\ Concludes(was) /\ AskedSoFar(was, accepted[s])
  BY DEF SaveSnapshot, World, JudgeInv, CallsInv, CallOk
<1>2. minute \in 0..minute
  BY DEF JudgeInv, ThreadTyped
<1> DEFINE over(status, response) == [at |-> "done", order |-> was.order, material |-> was.material,
                                      ended |-> minute, status |-> status, response |-> response]
<1>3. PICK call : To(s, call) /\ CallOk(call) /\ AskedSoFar(call, accepted[s]')
  <2>1. CallOk(over(was.status, was.response)) /\ AskedSoFar(over(was.status, was.response), accepted[s]')
    BY <1>1, <1>2 DEF CallOk, AskedSoFar, Concludes, Answer
  <2>2. CallOk(over("failed", Unanswered)) /\ AskedSoFar(over("failed", Unanswered), accepted[s]')
    BY <1>1, <1>2 DEF CallOk, AskedSoFar, Concludes
  <2> QED
    BY <2>1, <2>2 DEF SaveSnapshot, Ended, Lost
<1>4. KeptInv'
  <2>1. CASE UNCHANGED kept
    BY <1>1, <2>1, KeptStays DEF JudgeInv
  <2>2. CASE kept' = [kept EXCEPT !.snapshots = Saved(@, entry)]
    <3>1. Matches(entry)
      BY <1>1 DEF Matches, Snapshot, SnapshotKey, InputId, Concludes, Answer, Answering
    <3> HIDE DEF entry
    <3>2. /\ kept'.snapshots = Saved(kept.snapshots, entry)
          /\ kept'.details = kept.details /\ kept'.comments = kept.comments
          /\ kept' = [details |-> kept'.details, comments |-> kept'.comments, snapshots |-> kept'.snapshots]
      BY <2>2 DEF JudgeInv, KeptInv
    <3>3. \A e \in kept'.snapshots : e \in kept.snapshots \/ e = entry
      BY <3>2 DEF Saved
    <3>4. \A e \in kept'.snapshots : Matches(e)
      BY <3>1, <3>3 DEF JudgeInv, KeptInv
    <3> QED
      BY <1>1, <3>2, <3>4 DEF JudgeInv, KeptInv, CountAt, SampleAt, Matches
  <2> QED
    BY <2>1, <2>2 DEF SaveSnapshot
<1>5. accepted' = [t \in Screens |-> accepted'[t]]
  BY <1>1 DEF JudgeInv, CallsInv
<1> QED
  BY <1>1, <1>3, <1>4, <1>5, ScreenGoesOn DEF JudgeInv

LEMMA JudgeStep == JudgeInv /\ [JudgeNext]_judgeVars => JudgeInv'
<1> SUFFICES ASSUME JudgeInv, [JudgeNext]_judgeVars PROVE JudgeInv'
  OBVIOUS
<1>1. CASE UNCHANGED judgeVars
  <2>1. OnRecord /\ ThreadTyped'
    BY <1>1 DEF judgeVars, OnRecord, JudgeInv, ThreadTyped
  <2> QED
    BY <1>1, <2>1, RecordsStay DEF JudgeInv, judgeVars
<1> QED
  BY <1>1, DiscussionMoves, BeginOk, DetailsOk, CommentsOk, LookUpOk, PostOk, SaveOk DEF JudgeNext, ScreenStep

LEMMA JudgedIsSound == JudgeInv => JudgementsAreSound
<1> SUFFICES ASSUME JudgeInv PROVE JudgementsAreSound
  OBVIOUS
<1>1. NotAskedTwice
  BY DEF JudgeInv, CallsInv, AskedSoFar, NotAskedTwice
<1>2. ASSUME NEW s \in Concluded
      PROVE  LET call == screen[s] on == screen[s].response.on IN
             /\ Capturable(call)
             /\ call.response.given =>
                  /\ call.response.by = call.order.provider
                  /\ on.total.known => \E d \in RecentDiscussions(call) : d.count = on.total.n
                  /\ on.comments.got /\ on.comments.count > 0 =>
                       \E d \in RecentDiscussions(call) : d.edits = on.comments.edits /\ d.count >= on.comments.count
  <2> DEFINE call == screen[s]
             material == call.material
  <2>1. LateMaterial(call.order, call.ended, material) /\ Concludes(call)
    BY <1>2 DEF Concluded, JudgeInv, CallsInv, CallOk
  <2>2. CASE call.status = "failed" /\ call.response = Unanswered
    BY <2>2 DEF Capturable, Unanswered
  <2>3. CASE call.status \in Answering /\ call.response = Answer(call)
    <3>1. call.response.given = TRUE /\ call.response.on = material /\ call.response.by = call.order.provider
      BY <2>3 DEF Answer
    <3>2. Capturable(call)
      BY <2>3, <3>1 DEF Capturable, InputId
    <3>3. ASSUME NEW m \in 0..call.ended, m + SourceTtl >= call.order.since
          PROVE  seenAt[m + 1] \subseteq RecentDiscussions(call)
      BY <3>3 DEF RecentDiscussions
    <3>4. material.total.known => \E d \in RecentDiscussions(call) : d.count = material.total.n
      BY <2>1, <3>3 DEF LateMaterial, LateCount, CountAt
    <3>5. material.comments.got /\ material.comments.count > 0 =>
            \E d \in RecentDiscussions(call) : d.edits = material.comments.edits /\ d.count >= material.comments.count
      BY <2>1, <3>3 DEF LateMaterial, LateSample, SampleAt
    <3> QED
      BY <3>1, <3>2, <3>4, <3>5
  <2> QED
    BY <2>1, <2>2, <2>3 DEF Concludes
<1>3. AnswersFitTheDiscussion /\ RoundIsCapturable
  BY <1>2 DEF AnswersFitTheDiscussion, RoundIsCapturable
<1> QED
  BY <1>1, <1>3 DEF JudgementsAreSound

\* Whatever the caches held and however many screenings share them, an answer is about the
\* discussion as it was within one lifetime of what is fetched, it was asked for at most once
\* that the service accepted, and the round can be captured (mod.rs, http.rs, replay.rs).
THEOREM JudgementsAreTrue == JudgeSpec => []JudgementsAreSound
  BY JudgeStarts, JudgeStep, JudgedIsSound, PTL DEF JudgeSpec
-----------------------------------------------------------------------------
(* The value of an issue.                                                     *)

Remark == [by : {"own", "user", "maintainer"}, says : Remarks]
Pulls == [open : Nat, closed : Nat]
ThreadsSeen == [comments : Seq(Remark), pulls : Pulls, timeline : BOOLEAN, answered : BOOLEAN, age : {0} \cup Ages]
ValueTyped == prospect \in Prospects /\ thread \in ThreadsSeen

\* What may change of an issue keeps its type.
LEMMA ValueTypesKept == ValueTyped /\ [ValueNext]_valueVars => ValueTyped'
<1> SUFFICES ASSUME ValueTyped, [ValueNext]_valueVars PROVE ValueTyped'
  OBVIOUS
<1>1. CASE UNCHANGED valueVars
  BY <1>1 DEF ValueTyped, valueVars
<1>2. thread \in ThreadsSeen /\ prospect \in Prospects
  BY DEF ValueTyped
<1>3. ASSUME NEW by \in {"own", "user", "maintainer"}, NEW says \in Remarks, Comment(by, says)
      PROVE  thread' \in ThreadsSeen
  <2> DEFINE c == Append(thread.comments, [by |-> by, says |-> says])
             b == thread.answered \/ by = "maintainer"
  <2>1. thread' = [thread EXCEPT !.comments = c, !.answered = b, !.age = 0]
    BY <1>3 DEF Comment
  <2>2. c \in Seq(Remark) /\ b \in BOOLEAN
    BY <1>2 DEF ThreadsSeen, Remark
  <2> HIDE DEF c, b
  <2> QED
    BY <1>2, <2>1, <2>2 DEF ThreadsSeen
<1>4. thread.pulls \in Pulls
  BY <1>2 DEF ThreadsSeen
<1>5. ASSUME OpenPull \/ ClosePull \/ MentionClosed PROVE thread' \in ThreadsSeen
  <2>1. \E p \in Pulls : thread' = [thread EXCEPT !.pulls = p]
    <3>1. CASE OpenPull
      <4> DEFINE p == [thread.pulls EXCEPT !.open = @ + 1]
      <4>1. p \in Pulls
        BY <1>4 DEF Pulls
      <4>2. thread' = [thread EXCEPT !.pulls = p]
        BY <3>1, <1>2 DEF OpenPull, ThreadsSeen
      <4> QED
        BY <4>1, <4>2
    <3>2. CASE ClosePull
      <4> DEFINE q == [thread.pulls EXCEPT !.open = @ - 1]
                 p == [q EXCEPT !.closed = @ + 1]
      <4>1. q \in Pulls
        BY <1>4, <3>2 DEF Pulls, ClosePull
      <4>2. p \in Pulls
        <5> HIDE DEF q
        <5> QED
          BY <4>1 DEF Pulls
      <4>3. thread' = [[thread EXCEPT !.pulls = q] EXCEPT !.pulls = p]
        BY <3>2, <1>2 DEF ClosePull, ThreadsSeen
      <4> HIDE DEF p, q
      <4>4. thread' = [thread EXCEPT !.pulls = p]
        BY <1>2, <4>3 DEF ThreadsSeen
      <4> QED
        BY <4>2, <4>4
    <3>3. CASE MentionClosed
      <4> DEFINE p == [thread.pulls EXCEPT !.closed = @ + 1]
      <4>1. p \in Pulls
        BY <1>4 DEF Pulls
      <4>2. thread' = [thread EXCEPT !.pulls = p]
        BY <3>3, <1>2 DEF MentionClosed, ThreadsSeen
      <4> QED
        BY <4>1, <4>2
    <3> QED
      BY <1>5, <3>1, <3>2, <3>3
  <2> QED
    BY <1>2, <2>1 DEF ThreadsSeen
<1>6. ASSUME Timeline PROVE thread' \in ThreadsSeen
  BY <1>2, <1>6 DEF Timeline, ThreadsSeen
<1>7. ASSUME NEW age \in Ages, GrowOld(age) PROVE thread' \in ThreadsSeen
  BY <1>2, <1>7 DEF GrowOld, ThreadsSeen
<1>8. CASE ValueNext
  BY <1>2, <1>3, <1>5, <1>6, <1>7, <1>8 DEF ValueNext, ValueTyped
<1> QED
  BY <1>1, <1>8

LEMMA ValueTypes == ValueSpec => []ValueTyped
<1>1. ValueInit => ValueTyped
  <2> SUFFICES ASSUME ValueInit PROVE ValueTyped
    OBVIOUS
  <2>1. <<>> \in Seq(Remark) /\ [open |-> 0, closed |-> 0] \in Pulls
    BY DEF Pulls
  <2> QED
    BY <2>1 DEF ValueInit, ValueTyped, ThreadsSeen
<1> QED
  BY <1>1, ValueTypesKept, PTL DEF ValueSpec
-----------------------------------------------------------------------------
(* Counting competitors.                                                      *)

LEMMA MarkedType ==
  ASSUME NEW t \in ThreadsSeen, NEW marker
  PROVE  /\ Marked(t, marker) \in Nat
         /\ (\E i \in DOMAIN t.comments : marker \in Markers(t.comments[i])) => Marked(t, marker) > 0
<1> DEFINE D == DOMAIN t.comments
           S == {i \in D : marker \in Markers(t.comments[i])}
<1>1. D = 1..Len(t.comments) /\ Len(t.comments) \in Nat
  BY DEF ThreadsSeen
<1>2. IsFiniteSet(D)
  <2> DEFINE n == Len(t.comments)
  <2>1. n \in Int /\ D = 1..n
    BY <1>1
  <2> HIDE DEF n, D
  <2>2. IsFiniteSet(1..n)
    BY <2>1, FS_Interval
  <2> QED
    BY <2>1, <2>2
<1>3. IsFiniteSet(S)
  BY <1>2, FS_Subset
<1>4. Cardinality(S) \in Nat /\ (S # {} => Cardinality(S) # 0)
  BY <1>3, FS_CardinalityType, FS_EmptySet
<1>5. Marked(t, marker) = Cardinality(S)
  BY DEF Marked
<1>6. (\E i \in D : marker \in Markers(t.comments[i])) => S # {}
  OBVIOUS
<1> HIDE DEF S
<1> QED
  BY <1>4, <1>5, <1>6

LEMMA PullsType ==
  ASSUME NEW t \in ThreadsSeen
  PROVE  OpenPulls(t) \in Nat /\ ClosedPulls(t) \in Nat
BY DEF ThreadsSeen, Pulls, OpenPulls, ClosedPulls

LEMMA PointsType == ASSUME NEW t \in ThreadsSeen PROVE Points(t) \in Nat
<1>1. /\ Marked(t, "attempt") \in Nat /\ Marked(t, "claim") \in Nat
      /\ Marked(t, "working") \in Nat /\ Marked(t, "fix") \in Nat
  BY MarkedType
<1> QED
  BY <1>1, PullsType DEF Points

\* What others say is marked.
LEMMA SaidIsMarked ==
  ASSUME NEW t \in ThreadsSeen, NEW marker \in OthersSay(t) \cap {"attempt", "claim", "working", "fix"}
  PROVE  Marked(t, marker) > 0
<1>1. PICK c \in Range(t.comments) : c.by # "own" /\ marker \in c.says
  BY DEF OthersSay
<1>2. PICK i \in DOMAIN t.comments : t.comments[i] = c
  BY <1>1 DEF Range
<1>3. marker \in Markers(t.comments[i])
  BY <1>1, <1>2 DEF Markers
<1> QED
  BY <1>3, MarkedType
-----------------------------------------------------------------------------
(* What the policy hides stays hidden.                                        *)

Opinions == [cap : Int, penalty : Int, visibility : {"visible", "hidden_quality", "hidden_filtered"}]
LEMMA OpinionsKept ==
  ASSUME NEW a \in Opinions, NEW n \in Int
  PROVE  /\ Hide(a, n) \in Opinions /\ Hide(a, n).visibility = "hidden_quality"
         /\ Cap(a, n) \in Opinions /\ Cap(a, n).visibility = a.visibility
         /\ Penalise(a, n) \in Opinions /\ Penalise(a, n).visibility = a.visibility
<1>1. a.cap \in Int /\ a.penalty \in Int
  BY DEF Opinions
<1> DEFINE p == a.penalty + n
           c == Smaller(a.cap, n)
<1>2. p \in Int /\ c \in Int
  BY <1>1 DEF Smaller
<1>3. /\ Hide(a, n) = [a EXCEPT !.visibility = "hidden_quality", !.penalty = p]
      /\ Cap(a, n) = [a EXCEPT !.cap = c] /\ Penalise(a, n) = [a EXCEPT !.penalty = p]
  BY DEF Hide, Cap, Penalise, Opinions
<1> HIDE DEF p, c
<1> QED
  BY <1>2, <1>3 DEF Opinions

LEMMA EarlyOpinions ==
  ASSUME NEW a \in Opinions, NEW v
  PROVE  /\ NoPolicy \in Opinions /\ Noise(a) \in Opinions /\ Trust(a, v) \in Opinions
         /\ ProfileConstraint(a, v) \in Opinions /\ LowImpact(a, v) \in Opinions
<1>1. \A n \in Int, b \in Opinions : Hide(b, n) \in Opinions /\ Cap(b, n) \in Opinions /\ Penalise(b, n) \in Opinions
  BY OpinionsKept
<1>2. Cap(a, 8) \in Opinions /\ Cap(a, 12) \in Opinions /\ Cap(a, 16) \in Opinions /\ Cap(a, 28) \in Opinions
  BY <1>1
<1>3. /\ Hide(a, 220) \in Opinions /\ Hide(a, 180) \in Opinions /\ Hide(a, 150) \in Opinions
      /\ Hide(Cap(a, 8), 180) \in Opinions /\ Penalise(Cap(a, 8), 180) \in Opinions
      /\ Hide(Cap(a, 12), 220) \in Opinions /\ Hide(Cap(a, 16), 160) \in Opinions /\ Penalise(Cap(a, 28), 80) \in Opinions
  BY <1>1, <1>2
<1>4. NoPolicy \in Opinions
  BY DEF NoPolicy, Opinions
<1>5. Noise(a) \in Opinions
  BY <1>3 DEF Noise
<1>6. Trust(a, v) \in Opinions
  BY <1>3 DEF Trust
<1>7. ProfileConstraint(a, v) \in Opinions
  BY <1>3 DEF ProfileConstraint
<1>8. LowImpact(a, v) \in Opinions
  BY <1>3 DEF LowImpact
<1> QED
  BY <1>4, <1>5, <1>6, <1>7, <1>8

LEMMA LateOpinions ==
  ASSUME NEW a \in Opinions, NEW v, NEW t
  PROVE  /\ CompetitionConstraint(a, t) \in Opinions
         /\ AnsweredQuestion(t) \/ HasWork(t) \/ Claimed(t) => CompetitionConstraint(a, t).visibility # "visible"
         /\ DocsConstraint(a, v, t) \in Opinions
         /\ a.visibility # "visible" => DocsConstraint(a, v, t).visibility # "visible"
         /\ ScopeConstraint(a, v) \in Opinions
         /\ a.visibility # "visible" => ScopeConstraint(a, v).visibility # "visible"
<1>1. \A n \in Int, b \in Opinions :
        /\ Hide(b, n) \in Opinions /\ Hide(b, n).visibility = "hidden_quality"
        /\ Cap(b, n) \in Opinions /\ Cap(b, n).visibility = b.visibility
        /\ Penalise(b, n) \in Opinions /\ Penalise(b, n).visibility = b.visibility
  BY OpinionsKept
<1>2. /\ CompetitionConstraint(a, t) \in Opinions
      /\ AnsweredQuestion(t) \/ HasWork(t) \/ Claimed(t) => CompetitionConstraint(a, t).visibility # "visible"
  <2> DEFINE b == IF Crowded(t) THEN Penalise(a, 90) ELSE a
  <2>1. b \in Opinions
    BY <1>1
  <2>2. CompetitionConstraint(a, t) =
          IF AnsweredQuestion(t) THEN Hide(a, 160) ELSE IF HasWork(t) THEN Hide(a, 200)
          ELSE IF Claimed(t) THEN Hide(b, 140) ELSE b
    BY DEF CompetitionConstraint
  <2> HIDE DEF b
  <2>3. \A n \in {140, 160, 200} : \A o \in {a, b} : Hide(o, n) \in Opinions /\ Hide(o, n).visibility = "hidden_quality"
    BY <1>1, <2>1
  <2> QED
    BY <2>1, <2>2, <2>3
<1>3. /\ DocsConstraint(a, v, t) \in Opinions
      /\ a.visibility # "visible" => DocsConstraint(a, v, t).visibility # "visible"
  <2> DEFINE p == a.penalty + 160
             d == [a EXCEPT !.visibility = "hidden_filtered", !.penalty = p]
  <2>1. p \in Int
    BY DEF Opinions
  <2>2. DocsConstraint(a, v, t) \in {d, Hide(a, 160), Hide(a, 150), Hide(a, 120), a}
    BY DEF DocsConstraint
  <2>3. d \in Opinions /\ d.visibility = "hidden_filtered"
    <3> HIDE DEF p
    <3> QED
      BY <2>1 DEF Opinions
  <2> HIDE DEF d
  <2>4. \A n \in {120, 150, 160} : Hide(a, n) \in Opinions /\ Hide(a, n).visibility = "hidden_quality"
    BY <1>1
  <2> QED
    BY <2>2, <2>3, <2>4
<1>4. /\ ScopeConstraint(a, v) \in Opinions
      /\ a.visibility # "visible" => ScopeConstraint(a, v).visibility # "visible"
  <2>1. ScopeConstraint(a, v) \in {Hide(a, 180), Hide(a, 170), Penalise(Cap(a, 18), 75), a}
    BY DEF ScopeConstraint
  <2>2. \A n \in {170, 180} : Hide(a, n) \in Opinions /\ Hide(a, n).visibility = "hidden_quality"
    BY <1>1
  <2>3. Cap(a, 18) \in Opinions /\ Cap(a, 18).visibility = a.visibility
    BY <1>1
  <2>4. Penalise(Cap(a, 18), 75) \in Opinions /\ Penalise(Cap(a, 18), 75).visibility = a.visibility
    BY <1>1, <2>3
  <2> QED
    BY <2>1, <2>2, <2>4
<1> QED
  BY <1>2, <1>3, <1>4

LEMMA TakenHides ==
  ASSUME NEW t \in ThreadsSeen,
         OpenPulls(t) > 0 \/ OthersSay(t) \cap {"attempt", "claim", "working", "fix"} # {}
  PROVE  ~VisibleIn(t)
<1> DEFINE v == Assess(t)
           early == LowImpact(ProfileConstraint(Trust(Noise(NoPolicy), v), v), v)
<1> HIDE DEF v
<1>1. early \in Opinions
  <2>1. NoPolicy \in Opinions
    BY DEF NoPolicy, Opinions
  <2>2. Noise(NoPolicy) \in Opinions
    BY <2>1, EarlyOpinions
  <2>3. Trust(Noise(NoPolicy), v) \in Opinions
    BY <2>2, EarlyOpinions
  <2>4. ProfileConstraint(Trust(Noise(NoPolicy), v), v) \in Opinions
    BY <2>3, EarlyOpinions
  <2> QED
    BY <2>4, EarlyOpinions
<1>2. Policy(v, t) = ScopeConstraint(DocsConstraint(CompetitionConstraint(early, t), v, t), v)
  BY DEF Policy
<1> HIDE DEF early
<1>3. HasWork(t) \/ Claimed(t)
  <2>1. CASE OpenPulls(t) > 0
    BY <2>1 DEF HasWork
  <2>2. ASSUME NEW m \in OthersSay(t) \cap {"attempt", "claim", "working", "fix"} PROVE HasWork(t) \/ Claimed(t)
    <3>1. Marked(t, m) > 0
      BY SaidIsMarked
    <3>2. Marked(t, "attempt") \in Nat /\ Marked(t, "claim") \in Nat /\ Marked(t, "working") \in Nat
      BY MarkedType
    <3>3. CASE m = "fix"
      BY <3>1, <3>3 DEF HasWork
    <3>4. CASE m # "fix"
      <4>1. Marked(t, "attempt") + Marked(t, "claim") + Marked(t, "working") > 0
        BY <3>1, <3>2, <3>4
      <4> QED
        BY <4>1 DEF Claimed
    <3> QED
      BY <3>3, <3>4
  <2> QED
    BY <2>1, <2>2
<1> DEFINE c == CompetitionConstraint(early, t)
           d == DocsConstraint(c, v, t)
<1>4. c \in Opinions /\ c.visibility # "visible"
  BY <1>1, <1>3, LateOpinions
<1> HIDE DEF c
<1>5. d \in Opinions /\ d.visibility # "visible"
  BY <1>4, LateOpinions
<1> HIDE DEF d
<1>6. ScopeConstraint(d, v).visibility # "visible"
  BY <1>5, LateOpinions
<1> QED
  BY <1>2, <1>6 DEF VisibleIn, c, d, v
-----------------------------------------------------------------------------
(* What is ready is known to be free, and what does not fit is tagged.        *)

LEMMA ReadyIsFree ==
  ASSUME NEW t \in ThreadsSeen, ~t.timeline \/ "scope" \in OthersSay(t) \/ Points(t) > 3
  PROVE  Assess(t).category # "HighValueReady"
<1> DEFINE tags == Tags(t)
           scores == Scores(t, tags)
<1>1. Assess(t).category = Category(t, scores, tags)
  BY DEF Assess
<1>2. "scope" \in OthersSay(t) => "ScopeRisk" \in tags
  <2> SUFFICES ASSUME "scope" \in OthersSay(t) PROVE "ScopeRisk" \in ScopeTags(t)
    BY DEF Tags
  <2>1. Says(WithComments(t), {"scope"})
    BY DEF Says, WithComments
  <2> QED
    BY <2>1 DEF ScopeTags, TagIf
<1>3. ~t.timeline \/ Points(t) > 3 => CompetitionGate(t).status # "pass"
  <2>1. CASE ~t.timeline
    BY <2>1 DEF CompetitionGate
  <2>2. CASE t.timeline /\ Points(t) > 3
    <3>1. Band(Points(t)) \in {"contested", "saturated"}
      BY <2>2, PointsType DEF Band
    <3> HIDE DEF Band
    <3> QED
      BY <2>2, <3>1 DEF CompetitionGate
  <2> QED
    BY <2>1, <2>2 DEF ThreadsSeen
<1> HIDE DEF tags, scores
<1>4. CompetitionGate(t).status # "pass" \/ "ScopeRisk" \in tags
  BY <1>2, <1>3
<1> QED
  BY <1>1, <1>4 DEF Category

\* A fit is a number, and depends on the tags as far as they tell a low depth.
LEMMA FitType ==
  ASSUME NEW p \in Prospects, prospect = p, NEW tags
  PROVE  FitScore(tags) \in Nat
<1> DEFINE inIssue == Cardinality(Text \cap ProfileTerms)
           inRepo == Cardinality(About \cap ProfileTerms)
           inDomain == Cardinality(Text \cap DomainTerms)
           found == Smaller(22 * inIssue, 50) + Smaller(12 * inRepo, 38) + Smaller(12 * inDomain, 28)
                    + (IF prospect.language \in ProfileTerms THEN 14 ELSE 0)
                    + (IF inIssue + inDomain > 0 /\ inRepo >= 2 THEN 16 ELSE 0)
                    + (IF WantsTools /\ HasFocus(Text \cup About, "tools") /\ ToolsAllowed THEN 45 ELSE 0)
           caps == FocusCaps \cup (IF OutsideProfile THEN {35} ELSE {}) \cup (IF tags \cap LowDepthTags # {} THEN {25} ELSE {})
<1>1. IsFiniteSet(Text) /\ IsFiniteSet(About)
  <2>1. IsFiniteSet(p.words) /\ IsFiniteSet(p.labels) /\ IsFiniteSet(p.repo) /\ IsFiniteSet({p.language})
    BY ValueAssumption, FS_Singleton
  <2> QED
    BY <2>1, FS_Union DEF Text, About
<1>2. /\ IsFiniteSet(Text \cap ProfileTerms) /\ IsFiniteSet(About \cap ProfileTerms)
      /\ IsFiniteSet(Text \cap DomainTerms)
  BY <1>1, FS_Intersection
<1>3. inIssue \in Nat /\ inRepo \in Nat /\ inDomain \in Nat
  BY <1>2, FS_CardinalityType
<1>4. FitScore(tags) = Min({found, 100} \cup caps)
  BY DEF FitScore
<1> HIDE DEF inIssue, inRepo, inDomain
<1>5. found \in Nat
  <2>1. 22 * inIssue \in Nat /\ 12 * inRepo \in Nat /\ 12 * inDomain \in Nat
    BY <1>3
  <2>2. Smaller(22 * inIssue, 50) \in Nat /\ Smaller(12 * inRepo, 38) \in Nat /\ Smaller(12 * inDomain, 28) \in Nat
    BY <2>1 DEF Smaller
  <2> QED
    BY <2>2
<1> HIDE DEF found
<1>6. caps \in SUBSET Nat
  <2>1. FocusCaps \in SUBSET {55, 58}
    BY DEF FocusCaps
  <2> QED
    BY <2>1
<1> HIDE DEF caps
<1>7. {found, 100} \cup caps \in SUBSET Nat /\ {found, 100} \cup caps # {}
  BY <1>5, <1>6
<1>8. Min({found, 100} \cup caps) \in {found, 100} \cup caps
  BY <1>7, LeastOf
<1> QED
  BY <1>4, <1>7, <1>8

LEMMA FitByDepth ==
  ASSUME NEW tags, NEW others, tags \cap LowDepthTags = others \cap LowDepthTags
  PROVE  FitScore(tags) = FitScore(others)
<1> DEFINE inIssue == Cardinality(Text \cap ProfileTerms)
           inRepo == Cardinality(About \cap ProfileTerms)
           inDomain == Cardinality(Text \cap DomainTerms)
           found == Smaller(22 * inIssue, 50) + Smaller(12 * inRepo, 38) + Smaller(12 * inDomain, 28)
                    + (IF prospect.language \in ProfileTerms THEN 14 ELSE 0)
                    + (IF inIssue + inDomain > 0 /\ inRepo >= 2 THEN 16 ELSE 0)
                    + (IF WantsTools /\ HasFocus(Text \cup About, "tools") /\ ToolsAllowed THEN 45 ELSE 0)
           Caps(x) == FocusCaps \cup (IF OutsideProfile THEN {35} ELSE {}) \cup (IF x \cap LowDepthTags # {} THEN {25} ELSE {})
<1>1. FitScore(tags) = Min({found, 100} \cup Caps(tags)) /\ FitScore(others) = Min({found, 100} \cup Caps(others))
  BY DEF FitScore
<1>2. Caps(tags) = Caps(others)
  OBVIOUS
<1> HIDE DEF found, Caps
<1> QED
  BY <1>1, <1>2

LEMMA TagsAgree ==
  ASSUME NEW t, prospect \in Prospects, "ProfileMismatch" \notin Tags(t)
  PROVE  Assess(t).scores.fit >= 40
<1>1. Assess(t).scores.fit = FitScore(Tags(t))
  BY DEF Assess, Scores
<1>2. Tags(t) \cap LowDepthTags = EarlyTags(t) \cap LowDepthTags
  <2>1. ScoreTags(t) \cup CompetitionTags(t) \cup ScopeTags(t) \in
          SUBSET {"ProfileMismatch", "CompetitionEvidenceMissing", "CompetitionContested", "CompetitionSaturated", "ScopeRisk"}
    BY DEF ScoreTags, CompetitionTags, ScopeTags, TagIf
  <2>2. Tags(t) = EarlyTags(t) \cup (ScoreTags(t) \cup CompetitionTags(t) \cup ScopeTags(t))
    BY DEF Tags, EarlyTags
  <2> DEFINE lateTags == ScoreTags(t) \cup CompetitionTags(t) \cup ScopeTags(t)
  <2> HIDE DEF lateTags
  <2>3. lateTags \cap LowDepthTags = {}
    BY <2>1 DEF LowDepthTags, lateTags
  <2> QED
    BY <2>2, <2>3 DEF lateTags
<1>3. FitScore(Tags(t)) = FitScore(EarlyTags(t))
  BY <1>2, FitByDepth
<1>4. ~(FitScore(EarlyTags(t)) < 40)
  BY DEF Tags, ScoreTags, TagIf
<1>5. FitScore(EarlyTags(t)) \in Nat
  BY FitType
<1> QED
  BY <1>1, <1>3, <1>4, <1>5

\* The three stages of an assessment agree about an issue, whatever its words, its
\* repository, the profile and the remarks are (quality_policy.rs, value_gates.rs,
\* value_scoring.rs).
THEOREM ValueCoherent == ValueSpec => []ValueIsCoherent
<1>1. ValueTyped => ValueIsCoherent
  <2> SUFFICES ASSUME ValueTyped PROVE ValueIsCoherent
    OBVIOUS
  <2>1. TakenIsHidden
    BY TakenHides DEF ValueTyped, TakenIsHidden
  <2>2. ReadyIsKnownFree
    BY ReadyIsFree DEF ValueTyped, ReadyIsKnownFree
  <2>3. MismatchIsTagged
    BY TagsAgree DEF ValueTyped, MismatchIsTagged
  <2> QED
    BY <2>1, <2>2, <2>3 DEF ValueIsCoherent
<1> QED
  BY <1>1, ValueTypes, PTL
-----------------------------------------------------------------------------
(* What enters a judgement.                                                   *)

LEMMA TotalType ==
  ASSUME NEW s \in Seq(Nat)
  PROVE  Total(s) \in Nat /\ \A k \in 1..Len(s) : s[k] <= Total(s)
<1>1. Total(s) = TotalOf(s)
  BY DEF Total, TotalOf
<1> QED
  BY <1>1, SumBounds

LEMMA TotalOfNone == Total(<<>>) = 0
<1>1. <<>> \in Seq(Nat) /\ Len(<<>>) = 0
  OBVIOUS
<1>2. PICK b : Sums(b, <<>>) /\ TotalOf(<<>>) = b[Len(<<>>)]
  BY <1>1, SumFold
<1> QED
  BY <1>1, <1>2 DEF Sums, Total, TotalOf

LEMMA TotalInFront ==
  ASSUME NEW s \in Seq(Nat), NEW m \in Nat
  PROVE  <<m>> \o s \in Seq(Nat) /\ Total(<<m>> \o s) = m + Total(s)
<1>1. Total(s) = TotalOf(s) /\ Total(<<m>> \o s) = TotalOf(<<m>> \o s)
  BY DEF Total, TotalOf
<1> QED
  BY <1>1, SumInFront

LEMMA Smallest ==
  ASSUME NEW m \in Nat, NEW n \in Nat
  PROVE  Min({m, n}) \in Nat /\ Min({m, n}) <= m /\ Min({m, n}) <= n
<1>1. {m, n} \in SUBSET Nat /\ {m, n} # {}
  OBVIOUS
<1>2. Min({m, n}) \in {m, n} /\ \A x \in {m, n} : Min({m, n}) <= x
  BY <1>1, LeastOf
<1> QED
  BY <1>2

LEMMA Greatest ==
  ASSUME NEW m \in Nat, NEW n \in Nat
  PROVE  Max({m, n}) = IF m <= n THEN n ELSE m
<1>1. \E x \in {m, n} : \A y \in {m, n} : x >= y
  OBVIOUS
<1>2. Max({m, n}) \in {m, n} /\ \A y \in {m, n} : Max({m, n}) >= y
  BY <1>1 DEF Max
<1> QED
  BY <1>2
-----------------------------------------------------------------------------
(* The discussion.                                                            *)

Fitting == {clips \in Seq(Nat) : Total(clips) <= CommentsLimit}
\* A comment that is taken goes in front, is not longer than it was, and still fits.
LEMMA TakeFits ==
  ASSUME NEW clips \in Fitting, NEW length \in Nat
  PROVE  /\ TakeComment(clips, length) \in Fitting
         /\ \/ TakeComment(clips, length) = clips
            \/ \E n \in Nat : n <= length /\ TakeComment(clips, length) = <<n>> \o clips
<1> DEFINE room == CommentsLimit - Total(clips)
           most == Min({CommentLimit, room})
           n == Min({length, most})
<1>1. clips \in Seq(Nat) /\ Total(clips) <= CommentsLimit /\ Total(clips) \in Nat
  BY TotalType DEF Fitting
<1>2. CommentLimit \in Nat /\ CommentsLimit \in Nat /\ room \in Nat
  BY <1>1, ContractAssumption
<1>3. TakeComment(clips, length) = IF room = 0 THEN clips ELSE <<n>> \o clips
  BY DEF TakeComment, Bounded
<1> HIDE DEF room
<1>4. most \in Nat /\ most <= room
  BY <1>2, Smallest
<1> HIDE DEF most
<1>5. n \in Nat /\ n <= length /\ n <= most
  BY <1>4, Smallest
<1> HIDE DEF n
<1>6. Total(<<n>> \o clips) = n + Total(clips) /\ <<n>> \o clips \in Seq(Nat)
  BY <1>1, <1>5, TotalInFront
<1>7. n + Total(clips) <= CommentsLimit
  BY <1>1, <1>2, <1>4, <1>5 DEF room
<1> DEFINE t == <<n>> \o clips
<1>8. t \in Fitting
  <2> HIDE DEF t
  <2>1. t \in Seq(Nat) /\ Total(t) <= CommentsLimit
    BY <1>6, <1>7 DEF t
  <2> QED
    BY <2>1 DEF Fitting
<1> QED
  BY <1>3, <1>5, <1>8

\* What is kept of the first k comments of r: while none is left out, each is there, cut or not.
Clips(clips, r, k) ==
  /\ clips \in Fitting /\ Len(clips) <= k
  /\ Len(clips) = k => \A j \in 1..k : clips[j] <= r[k - j + 1]
LEMMA ClipsGrow ==
  ASSUME NEW r \in Seq(Nat), NEW k \in 0..Len(r) - 1, NEW clips, Clips(clips, r, k)
  PROVE  Clips(TakeComment(clips, r[k + 1]), r, k + 1)
<1> DEFINE t == TakeComment(clips, r[k + 1])
           c == Len(clips)
<1>1. k \in Nat /\ r[k + 1] \in Nat /\ clips \in Fitting /\ clips \in Seq(Nat) /\ c \in Nat /\ c <= k
  BY DEF Clips, Fitting
<1>2. t \in Fitting
  BY <1>1, TakeFits
<1>3. CASE t = clips
  BY <1>1, <1>2, <1>3 DEF Clips
<1>4. ASSUME NEW n \in Nat, n <= r[k + 1], t = <<n>> \o clips PROVE Clips(t, r, k + 1)
  <2>1. /\ Len(t) = c + 1 /\ t[1] = n
        /\ \A j \in 2..c + 1 : t[j] = clips[j - 1]
    BY <1>1, <1>4
  <2> HIDE DEF t
  <2>2. ASSUME Len(t) = k + 1, NEW j \in 1..k + 1 PROVE t[j] <= r[(k + 1) - j + 1]
    <3>1. c = k
      BY <1>1, <2>1, <2>2
    <3>2. CASE j = 1
      <4>1. (k + 1) - 1 + 1 = k + 1
        BY <1>1
      <4> QED
        BY <1>4, <2>1, <3>2, <4>1
    <3>3. CASE j \in 2..k + 1
      <4>1. j - 1 \in 1..k /\ k - (j - 1) + 1 = (k + 1) - j + 1
        BY <1>1, <3>3
      <4>2. clips[j - 1] <= r[k - (j - 1) + 1]
        BY <3>1, <4>1 DEF Clips
      <4>3. t[j] = clips[j - 1]
        BY <2>1, <3>1, <3>3
      <4> QED
        BY <4>1, <4>2, <4>3
    <3> QED
      BY <1>1, <3>2, <3>3
  <2>3. Len(t) <= k + 1
    BY <1>1, <2>1
  <2> QED
    BY <1>2, <2>2, <2>3 DEF Clips, t
<1> HIDE DEF t
<1>5. t = clips \/ \E n \in Nat : n <= r[k + 1] /\ t = <<n>> \o clips
  BY <1>1, TakeFits DEF t
<1> QED
  BY <1>3, <1>4, <1>5 DEF t

LEMMA ClipsOfNone == ASSUME NEW r PROVE Clips(<<>>, r, 0)
<1>1. <<>> \in Seq(Nat) /\ Len(<<>>) = 0 /\ 1..0 = {} /\ Total(<<>>) <= CommentsLimit
  BY TotalOfNone, ContractAssumption
<1> QED
  BY <1>1 DEF Clips, Fitting

\* The discussion that is kept is one of Clips.
LEMMA KeptClips ==
  ASSUME NEW r \in Seq(Nat)
  PROVE  Clips(FoldLeft(TakeComment, <<>>, r), r, Len(r))
<1> DEFINE n == Len(r)
           step == [p \in (1..n) \X Fitting |-> TakeComment(p[2], r[p[1]])]
           Iter(f) == f = [t \in SUBSET (1..n) |-> IF t = {} THEN <<>> ELSE TakeComment(f[t \ {Max(t)}], r[Max(t)])]
           iter == CHOOSE f : Iter(f)
<1>1. n \in Nat /\ DOMAIN r = 1..n /\ \A k \in 1..n : r[k] \in Nat
  OBVIOUS
<1>2. <<>> \in Fitting
  BY ClipsOfNone DEF Clips
<1> HIDE DEF n
<1>3. step \in [(1..n) \X Fitting -> Fitting]
  <2>1. ASSUME NEW p \in (1..n) \X Fitting PROVE TakeComment(p[2], r[p[1]]) \in Fitting
    <3>1. p[2] \in Fitting /\ r[p[1]] \in Nat
      BY <1>1
    <3> QED
      BY <3>1, TakeFits
  <2> QED
    BY <2>1
<1>4. \A t \in SUBSET (1..n), x \in Fitting : t # {} => step[<<Max(t), x>>] = TakeComment(x, r[Max(t)])
  <2> SUFFICES ASSUME NEW t \in SUBSET (1..n), NEW x \in Fitting, t # {} PROVE step[<<Max(t), x>>] = TakeComment(x, r[Max(t)])
    OBVIOUS
  <2>1. Max(t) \in 1..n
    BY <1>1, MaxOf
  <2> HIDE DEF Max
  <2> QED
    BY <2>1
<1>5. Iter(iter)
  <2>1. PICK f : IsFold(f, n, Fitting, <<>>, step)
    <3> HIDE DEF step
    <3> QED
      BY <1>1, <1>2, <1>3, FoldExists
  <2>2. f \in [SUBSET (1..n) -> Fitting]
    BY <2>1 DEF IsFold
  <2>3. \A t \in SUBSET (1..n) : f[t] = IF t = {} THEN <<>> ELSE TakeComment(f[t \ {Max(t)}], r[Max(t)])
    <3> SUFFICES ASSUME NEW t \in SUBSET (1..n)
                 PROVE  f[t] = IF t = {} THEN <<>> ELSE TakeComment(f[t \ {Max(t)}], r[Max(t)])
      OBVIOUS
    <3>1. f[t \ {Max(t)}] \in Fitting
      BY <2>2
    <3>2. f[t] = IF t = {} THEN <<>> ELSE step[<<Max(t), f[t \ {Max(t)}]>>]
      BY <2>1 DEF IsFold
    <3> HIDE DEF step
    <3> QED
      BY <1>4, <3>1, <3>2
  <2>4. Iter(f)
    BY <2>2, <2>3
  <2> HIDE DEF Iter
  <2> QED
    BY <2>4
<1>6. FoldLeft(TakeComment, <<>>, r) = iter[1..n]
  BY <1>1 DEF FoldLeft, MapThenFoldSet
<1>7. TakesApart(iter, n, Fitting, <<>>, step)
  <2> HIDE DEF iter, step
  <2>1. \A t \in SUBSET (1..n) : iter[t] = IF t = {} THEN <<>> ELSE TakeComment(iter[t \ {Max(t)}], r[Max(t)])
    BY <1>5
  <2> QED
    BY <1>4, <2>1 DEF TakesApart
<1>8. PICK a : Accumulates(a, n, Fitting, <<>>, step, iter[1..n])
  <2> HIDE DEF iter, step
  <2> QED
    BY <1>1, <1>2, <1>3, <1>7, FoldSteps
<1>9. a \in [0..n -> Fitting] /\ a[0] = <<>> /\ a[n] = iter[1..n] /\ \A k \in 1..n : a[k] = step[<<k, a[k - 1]>>]
  <2> HIDE DEF iter, step
  <2> QED
    BY <1>8 DEF Accumulates
<1> HIDE DEF iter
<1>10. ASSUME NEW k \in 1..n PROVE a[k] = TakeComment(a[k - 1], r[k])
  <2>1. k - 1 \in 0..n /\ a[k - 1] \in Fitting
    BY <1>1, <1>9
  <2> QED
    BY <1>9, <2>1
<1> HIDE DEF step
<1> DEFINE P(k) == k <= n => Clips(a[k], r, k)
           T == {k \in Nat : P(k)}
<1>11. P(0)
  BY <1>9, ClipsOfNone
<1>12. ASSUME NEW k \in Nat, P(k) PROVE P(k + 1)
  <2> SUFFICES ASSUME k + 1 <= n PROVE Clips(a[k + 1], r, k + 1)
    OBVIOUS
  <2>1. k + 1 \in 1..n /\ (k + 1) - 1 = k /\ k <= n /\ k \in 0..n - 1
    BY <1>1
  <2>2. a[k + 1] = TakeComment(a[k], r[k + 1])
    BY <1>10, <2>1
  <2>3. Clips(a[k], r, k)
    BY <1>12, <2>1
  <2>4. Clips(TakeComment(a[k], r[k + 1]), r, k + 1)
    BY <2>1, <2>3, ClipsGrow DEF n
  <2> QED
    BY <2>2, <2>4
<1>13. Nat \subseteq T
  <2> HIDE DEF P
  <2>1. 0 \in T /\ \A k \in Nat : k \in T => k + 1 \in T
    BY <1>11, <1>12
  <2> HIDE DEF T
  <2> QED
    BY <2>1, SetInduction
<1>14. Clips(a[n], r, n)
  BY <1>1, <1>13
<1> QED
  BY <1>6, <1>9, <1>14 DEF n

\* Comments are counted when the issue is read and are read later.  In the discussions
\* meant here none has come in between: if some have, and the newest as many as were
\* counted fill CommentsLimit to the last character, those are called complete.
ReadAsCounted == \A d \in Discussions : d.total.known => Len(d.lengths) <= d.total.n

LEMMA WholeIsWhole ==
  ASSUME ReadAsCounted, NEW d \in Discussions
  PROVE  LET of == FromComments(d.total, d.lengths, d.dated, d.absent) IN
         /\ of.status = "complete" => of.kept = d.lengths /\ of.omitted = 0 /\ d.absent = {}
         /\ Total(of.kept) <= CommentsLimit /\ Len(of.kept) <= SampleLimit
<1> DEFINE s == d.lengths
           n == Len(s)
           from == Max({1, n - SampleLimit + 1})
           newest == NewestComments(s)
           r == Reverse(newest)
           clips == KeptComments(newest)
           cut == \E k \in DOMAIN clips : clips[k] < s[n - Len(clips) + k]
           left == IF d.total.known THEN Max({d.total.n, Len(clips)}) - Len(clips) ELSE 0
           given == \A k \in DOMAIN clips : n - Len(clips) + k \notin d.absent
           status == IF d.total.known /\ d.total.n = Len(clips) /\ ~cut /\ given /\ d.dated THEN "complete" ELSE "sampled"
           of == FromComments(d.total, s, d.dated, d.absent)
<1>1. /\ s \in Seq(Nat) /\ d.total \in [known : BOOLEAN, n : Nat] /\ SampleLimit \in Nat
      /\ d.absent \subseteq DOMAIN s
  BY AdapterAssumption, ContractAssumption
<1> HIDE DEF s
<1>2. n \in Nat /\ DOMAIN s = 1..n /\ \A k \in 1..n : s[k] \in Nat
  BY <1>1
<1>3. of = [kept |-> clips, omitted |-> left, status |-> status]
  BY DEF FromComments
<1> HIDE DEF n
<1>4. from = IF n <= SampleLimit THEN 1 ELSE n - SampleLimit + 1
  <2>1. CASE n <= SampleLimit
    <3>1. n - SampleLimit + 1 <= 1 /\ n - SampleLimit + 1 \in Int
      BY <1>1, <1>2, <2>1
    <3>2. \A y \in {1, n - SampleLimit + 1} : 1 >= y
      BY <3>1
    <3>3. \A x \in {1, n - SampleLimit + 1} : x >= 1 => x = 1
      BY <3>1
    <3>4. Max({1, n - SampleLimit + 1}) = 1
      BY <3>2, <3>3 DEF Max
    <3> QED
      BY <2>1, <3>4
  <2>2. CASE ~(n <= SampleLimit)
    <3>1. n - SampleLimit + 1 \in Nat /\ 1 <= n - SampleLimit + 1
      BY <1>1, <1>2, <2>2
    <3>2. Max({1, n - SampleLimit + 1}) = n - SampleLimit + 1
      BY <3>1, Greatest
    <3> QED
      BY <2>2, <3>2
  <2> QED
    BY <2>1, <2>2
<1> HIDE DEF from
<1>5. from \in 1..n + 1 /\ n - from + 1 <= SampleLimit /\ n - from + 1 <= n
  BY <1>1, <1>2, <1>4
<1> DEFINE m == n - from + 1
<1>6. m \in Nat /\ m <= SampleLimit /\ m <= n /\ (m = n => from = 1)
  BY <1>2, <1>5
<1>7. newest \in Seq(Nat) /\ Len(newest) = m /\ \A k \in 1..m : newest[k] = s[from + k - 1]
  <2>1. newest = SubSeq(s, from, n)
    BY DEF NewestComments, from, n
  <2>2. newest = [k \in 1..m |-> s[from + k - 1]]
    BY <1>2, <1>5, <2>1, <1>1 DEF n
  <2>3. \A k \in 1..m : s[from + k - 1] \in Nat
    BY <1>2, <1>5
  <2> HIDE DEF newest, m
  <2> QED
    BY <1>6, <2>2, <2>3
<1> HIDE DEF newest, m
<1>8. r \in Seq(Nat) /\ Len(r) = m /\ \A k \in 1..m : r[k] = newest[m - k + 1]
  <2>1. r = [k \in 1..m |-> newest[m - k + 1]]
    BY <1>7 DEF Reverse
  <2>2. \A k \in 1..m : newest[m - k + 1] \in Nat
    BY <1>6, <1>7
  <2> HIDE DEF r
  <2> QED
    BY <1>6, <2>1, <2>2
<1> HIDE DEF r
<1>9. Clips(clips, r, m)
  BY <1>8, KeptClips DEF KeptComments, r
<1> HIDE DEF clips
<1>10. clips \in Seq(Nat) /\ Len(clips) \in Nat /\ Len(clips) <= m /\ Total(clips) <= CommentsLimit /\ DOMAIN clips = 1..Len(clips)
  BY <1>9 DEF Clips, Fitting
<1> DEFINE c == Len(clips)
<1>11. ASSUME status = "complete" PROVE clips = s /\ left = 0 /\ d.absent = {}
  <2>1. d.total.known /\ d.total.n = c /\ ~cut /\ given
    BY <1>11
  <2>2. n <= c
    BY <2>1 DEF ReadAsCounted, n, s
  <2>a. c \in Nat /\ c <= m
    BY <1>10
  <2> HIDE DEF c
  <2>3. c = n /\ m = n /\ from = 1
    BY <1>2, <1>6, <2>a, <2>2
  <2> USE DEF c
  <2>4. ASSUME NEW k \in 1..n PROVE clips[k] = s[k]
    <3>1. clips[k] <= r[m - k + 1] /\ clips[k] \in Nat
      BY <1>9, <1>10, <2>3 DEF Clips
    <3>2. m - k + 1 \in 1..m /\ m - (m - k + 1) + 1 = k /\ from + k - 1 = k
      BY <1>2, <2>3
    <3>3. r[m - k + 1] = newest[k]
      BY <1>8, <3>2
    <3>4. newest[k] = s[k]
      BY <1>7, <2>3, <3>2
    <3>5. ~(clips[k] < s[n - Len(clips) + k])
      BY <2>1, <2>3, <1>10
    <3>6. n - Len(clips) + k = k
      BY <1>2, <2>3
    <3>7. s[k] \in Nat
      BY <1>2
    <3> QED
      BY <3>1, <3>3, <3>4, <3>5, <3>6, <3>7
  <2>5. clips = s
    BY <1>1, <1>2, <1>10, <2>3, <2>4
  <2>6. left = 0
    <3>1. left = Max({d.total.n, c}) - c
      BY <2>1
    <3>2. Max({c, c}) = c
      BY <1>10, Greatest
    <3> HIDE DEF c
    <3> QED
      BY <1>10, <2>1, <3>1, <3>2 DEF c
  <2>7. d.absent = {}
    <3>1. ASSUME NEW k \in 1..n PROVE k \notin d.absent
      <4>1. k \in DOMAIN clips /\ n - Len(clips) + k = k
        BY <1>2, <1>10, <2>3
      <4> QED
        BY <2>1, <4>1
    <3> QED
      BY <1>1, <1>2, <3>1
  <2> QED
    BY <2>5, <2>6, <2>7
<1>12. of.kept = clips /\ of.omitted = left /\ of.status = status
  <2> HIDE DEF of, left, status
  <2> QED
    BY <1>3
<1> HIDE DEF of, left, status
<1>13. /\ of.status = "complete" => of.kept = s /\ of.omitted = 0 /\ d.absent = {}
       /\ Total(of.kept) <= CommentsLimit /\ Len(of.kept) <= SampleLimit
  BY <1>1, <1>6, <1>10, <1>11, <1>12
<1> QED
  BY <1>13 DEF of, s
-----------------------------------------------------------------------------
(* The answers.                                                               *)

LEMMA SomeLikeliest ==
  ASSUME NEW dist \in Seq(Nat), DOMAIN dist # {}, \A n \in DOMAIN dist : dist[n] <= 100
  PROVE  Likeliest(dist) \in DOMAIN dist
<1> DEFINE short(n) == 100 - dist[n]
           A == {short(n) : n \in DOMAIN dist}
           least == Min(A)
           B == {n \in DOMAIN dist : short(n) = least}
           first == Min(B)
<1>1. /\ DOMAIN dist \in SUBSET Nat
      /\ \A n \in DOMAIN dist : dist[n] \in Nat /\ dist[n] <= 100
  OBVIOUS
<1>2. \A n \in DOMAIN dist : short(n) \in Nat
  BY <1>1
<1>3. A \in SUBSET Nat /\ A # {}
  <2> HIDE DEF short
  <2> QED
    BY <1>2
<1>4. least \in A /\ \A x \in A : least <= x
  <2> HIDE DEF A
  <2> QED
    BY <1>3, LeastOf
<1> HIDE DEF least
<1>5. B \in SUBSET Nat /\ B # {}
  <2> HIDE DEF short
  <2> QED
    BY <1>1, <1>4
<1>6. first \in B /\ \A x \in B : first <= x
  <2> HIDE DEF B
  <2> QED
    BY <1>5, LeastOf
<1> HIDE DEF first
<1>7. first \in DOMAIN dist /\ short(first) = least
  BY <1>6
<1>8. ASSUME NEW m \in DOMAIN dist PROVE dist[m] < dist[first] \/ (dist[m] = dist[first] /\ m >= first)
  <2>1. short(m) \in A
    OBVIOUS
  <2>2. short(first) <= short(m)
    BY <1>4, <1>7, <2>1
  <2>3. dist[m] <= dist[first]
    BY <1>1, <1>7, <2>2
  <2>4. ASSUME dist[m] = dist[first] PROVE m >= first
    <3>1. m \in B
      BY <1>7, <2>4
    <3>2. first <= m
      BY <1>6, <3>1
    <3> QED
      BY <1>1, <1>7, <3>2
  <2> QED
    BY <1>1, <1>7, <2>3, <2>4
<1>9. \E n \in DOMAIN dist : \A m \in DOMAIN dist : dist[m] < dist[n] \/ (dist[m] = dist[n] /\ m >= n)
  BY <1>7, <1>8
<1> QED
  BY <1>9 DEF Likeliest

\* A native answer that is not refused answers its question, by its contract.
LEMMA MapAnswerKeeps ==
  ASSUME NEW q, NEW native, native.dist \in Seq(Nat), MapAnswer(q, native).status # "refused"
  PROVE  LET a == MapAnswer(q, native) IN
         /\ a.id = q.id /\ a.status = "answered"
         /\ a.answer \in Allowed(q) /\ ValidProbabilities(q, a)
<1> DEFINE dist == native.dist
           share == native.share
           made(answer, d, expected) ==
             [id |-> q.id, status |-> "answered", answer |-> answer, dist |-> d, expected |-> expected]
           a == MapAnswer(q, native)
           said == IF share >= 50 THEN "true" ELSE "false"
           best == q.options[Likeliest(dist)]
           mean == Expected(q, dist)
<1>1. dist \in Seq(Nat)
  OBVIOUS
<1>2. Refused(q.id).status = "refused"
  BY DEF Refused
<1>3. /\ native.type = q.kind /\ share \in 0..100
      /\ \/ q.kind = "boolean" /\ a = made(said, <<share>>, 0)
         \/ /\ q.kind # "boolean" /\ CoversAll(q, native)
            /\ \/ q.kind = "choice" /\ native.choice \in Range(q.options) /\ a = made(native.choice, dist, 0)
               \/ q.kind = "score" /\ a = made(best, dist, mean)
  BY <1>2 DEF MapAnswer
<1>4. CASE q.kind = "boolean" /\ a = made(said, <<share>>, 0)
  <2>1. a.id = q.id /\ a.status = "answered" /\ a.answer = said /\ a.dist = <<share>>
    BY <1>4
  <2> HIDE DEF a
  <2>2. said \in {"true", "false"}
    OBVIOUS
  <2>3. Len(a.dist) = 1 /\ a.dist[1] = share
    BY <2>1
  <2>4. a.dist[1] \in 0..100
    BY <1>3, <2>3
  <2>5. ValidProbabilities(q, a)
    BY <1>4, <2>3, <2>4, Zenon DEF ValidProbabilities
  <2>6. a.answer \in Allowed(q)
    BY <1>4, <2>1, <2>2, Zenon DEF Allowed
  <2>7. a.id = q.id /\ a.status = "answered" /\ a.answer \in Allowed(q) /\ ValidProbabilities(q, a)
    BY <2>1, <2>5, <2>6
  <2> QED
    BY <2>7 DEF a
<1>5. CASE /\ q.kind # "boolean" /\ CoversAll(q, native)
           /\ \/ q.kind = "choice" /\ native.choice \in Range(q.options) /\ a = made(native.choice, dist, 0)
              \/ q.kind = "score" /\ a = made(best, dist, mean)
  <2>1. DOMAIN dist = DOMAIN q.options /\ Total(dist) = 100
    BY <1>5 DEF CoversAll
  <2> HIDE DEF dist
  <2>2. DOMAIN dist # {}
    <3> SUFFICES ASSUME DOMAIN dist = {} PROVE FALSE
      OBVIOUS
    <3>1. dist = <<>>
      BY <1>1
    <3> QED
      BY <2>1, <3>1, TotalOfNone
  <2>3. ASSUME NEW n \in DOMAIN dist PROVE dist[n] <= 100 /\ dist[n] \in 0..100
    <3> DEFINE v == dist[n]
    <3>1. v \in Nat /\ n \in 1..Len(dist)
      BY <1>1
    <3>2. v <= Total(dist)
      BY <1>1, <3>1, TotalType
    <3> HIDE DEF v
    <3>3. v <= 100 /\ v \in 0..100
      BY <2>1, <3>1, <3>2
    <3> QED
      BY <3>3 DEF v
  <2>4. best \in Range(q.options)
    <3>1. Likeliest(dist) \in DOMAIN q.options
      BY <1>1, <2>1, <2>2, <2>3, SomeLikeliest
    <3> QED
      BY <3>1 DEF Range
  <2> HIDE DEF best, mean
  <2>5. /\ a.id = q.id /\ a.status = "answered" /\ a.dist = dist
        /\ a.answer \in Range(q.options)
        /\ q.kind = "score" => a.expected = mean
    <3>1. CASE q.kind = "choice" /\ native.choice \in Range(q.options) /\ a = made(native.choice, dist, 0)
      <4> HIDE DEF a
      <4> QED
        BY <3>1
    <3>2. CASE q.kind = "score" /\ a = made(best, dist, mean)
      <4> HIDE DEF a
      <4> QED
        BY <2>4, <3>2
    <3> QED
      BY <1>5, <3>1, <3>2
  <2> HIDE DEF a
  <2>6. ValidProbabilities(q, a)
    BY <1>5, <2>1, <2>3, <2>5 DEF ValidProbabilities, mean
  <2>7. a.answer \in Allowed(q)
    BY <1>5, <2>5 DEF Allowed
  <2>8. a.id = q.id /\ a.status = "answered" /\ a.answer \in Allowed(q) /\ ValidProbabilities(q, a)
    BY <2>5, <2>6, <2>7
  <2> QED
    BY <2>8 DEF a
<1> QED
  BY <1>3, <1>4, <1>5

\* What is decided and not refused is a valid response to its request.
LEMMA DecideKeeps ==
  ASSUME NEW p, NEW r \in Requests, NEW n \in Natives, Decide(p, r, n).status # "refused"
  PROVE  ValidResponse(r, Decide(p, r, n))
<1> DEFINE qs == r.questions
           mapped == MapAnswers(r, n)
           ids == {q.id : q \in Range(qs)}
           all == [candidate |-> r.candidate, input |-> r.input, status |-> "complete", answers |-> mapped]
           d == Decide(p, r, n)
<1>1. NoResponse.status = "refused"
  BY DEF NoResponse
<1>2. Encodable(r) /\ d = Parse(r, n)
  BY <1>1 DEF Decide
<1>3. d = all /\ DOMAIN n.answers = ids /\ \A k \in DOMAIN mapped : mapped[k].status # "refused"
  BY <1>1, <1>2 DEF Parse
<1>4. ValidRequest(r)
  BY <1>2 DEF Encodable
<1>5. qs \in Seq(Range(qs)) /\ qs # <<>>
  BY <1>4, AdapterAssumption DEF ValidRequest
<1>6. DOMAIN qs = 1..Len(qs) /\ Len(qs) \in Nat /\ Len(qs) # 0 /\ \A k \in DOMAIN qs : qs[k] \in Range(qs)
  <2> HIDE DEF qs
  <2> QED
    BY <1>5 DEF Range
<1>7. DOMAIN mapped = DOMAIN qs /\ \A k \in DOMAIN qs : mapped[k] = MapAnswer(qs[k], n.answers[qs[k].id])
  BY DEF MapAnswers
<1> HIDE DEF mapped, qs
<1>8. ASSUME NEW k \in DOMAIN qs
      PROVE  /\ mapped[k].id = qs[k].id /\ mapped[k].status = "answered"
             /\ mapped[k].answer \in Allowed(qs[k]) /\ ValidProbabilities(qs[k], mapped[k])
  <2>1. qs[k].id \in DOMAIN n.answers
    BY <1>3, <1>6
  <2>2. n.answers[qs[k].id].dist \in Seq(Nat)
    BY <2>1, AdapterAssumption
  <2>3. MapAnswer(qs[k], n.answers[qs[k].id]).status # "refused"
    BY <1>3, <1>7
  <2>4. mapped[k] = MapAnswer(qs[k], n.answers[qs[k].id])
    BY <1>7
  <2> QED
    BY <2>2, <2>3, <2>4, MapAnswerKeeps
<1>9. Named([k \in DOMAIN mapped |-> mapped[k].id])
  <2>1. [k \in DOMAIN mapped |-> mapped[k].id] = [k \in DOMAIN qs |-> qs[k].id]
    BY <1>7, <1>8
  <2>2. Named([k \in DOMAIN qs |-> qs[k].id])
    BY <1>4 DEF ValidRequest, qs
  <2> QED
    BY <2>1, <2>2
<1>10. Len(mapped) = Len(qs)
  BY <1>6, <1>7
<1>11. ASSUME NEW a \in Range(mapped)
       PROVE  \E q \in Range(qs) :
                /\ q.id = a.id
                /\ IF a.status = "answered" THEN a.answer \in Allowed(q) /\ ValidProbabilities(q, a)
                                            ELSE a.answer = "" /\ a.dist = <<>>
  <2>1. PICK k \in DOMAIN qs : a = mapped[k]
    BY <1>7 DEF Range
  <2> QED
    BY <1>6, <1>8, <2>1
<1>12. StatusOf(mapped) = "complete"
  <2>1. 1 \in DOMAIN mapped /\ mapped[1].status # "failed"
    BY <1>6, <1>7, <1>8
  <2>2. Answered(mapped) = DOMAIN mapped
    BY <1>7, <1>8 DEF Answered
  <2> QED
    BY <2>1, <2>2 DEF StatusOf
<1>13. d.candidate = r.candidate /\ d.input = r.input /\ d.status = "complete" /\ d.answers = mapped
  BY <1>3
<1> HIDE DEF d
<1>14. ValidResponse(r, d)
  BY <1>4, <1>9, <1>10, <1>11, <1>12, <1>13 DEF ValidResponse, qs
<1> QED
  BY <1>14 DEF d
-----------------------------------------------------------------------------
(* The account that is asked.                                                 *)

LEMMA ThatAccount ==
  ASSUME NEW c, Configured(c) # NoProvider
  PROVE  LET env == c.env r == Configured(c) IN
         IF "ACCOUNT_ENV" \in DOMAIN env
         THEN r.account = env[env["ACCOUNT_ENV"]] /\ r.token = env["TOKEN_ENV"]
         ELSE r.token = "TOKEN" /\ "TOKEN_ENV" \notin DOMAIN env
<1> DEFINE env == c.env
           r == Configured(c)
           tokenVar == EnvironmentSelector(env, "TOKEN_ENV")
           accountVar == EnvironmentSelector(env, "ACCOUNT_ENV")
           chosen == tokenVar # "" /\ accountVar # ""
           account == IF chosen THEN ConfiguredValue(env, accountVar, "")
                      ELSE ConfiguredValue(env, "ACCOUNT", c.account)
           endpoint == IF c.endpoint = "" THEN account ELSE c.endpoint
           key == IF chosen THEN tokenVar ELSE "TOKEN"
           made == [kind |-> "clef", account |-> endpoint, token |-> key]
<1>1. /\ ~BadSelector(env) /\ ~((tokenVar = "") # (accountVar = ""))
      /\ ~((chosen \/ c.endpoint = "") /\ ~ValidAccount(account))
      /\ ~(chosen /\ endpoint # account)
      /\ r = made
  BY DEF Configured
<1>2. made.account = endpoint /\ made.token = key
  <2> HIDE DEF endpoint, key
  <2> QED
    OBVIOUS
<1>3. ASSUME NEW k \in {"TOKEN_ENV", "ACCOUNT_ENV"}, k \in DOMAIN env PROVE env[k] # ""
  BY <1>1, <1>3 DEF BadSelector, ValidAccount
<1> HIDE DEF env, r
<1>4. CASE "ACCOUNT_ENV" \in DOMAIN env
  <2>1. accountVar = env["ACCOUNT_ENV"] /\ accountVar # ""
    BY <1>3, <1>4 DEF EnvironmentSelector
  <2>2. tokenVar # "" /\ chosen
    BY <1>1, <2>1
  <2>3. tokenVar = env["TOKEN_ENV"]
    BY <2>2 DEF EnvironmentSelector
  <2>4. account = ConfiguredValue(env, accountVar, "") /\ account # "" /\ endpoint = account
    BY <1>1, <2>2 DEF ValidAccount
  <2>5. account = env[accountVar]
    BY <2>4 DEF ConfiguredValue
  <2>6. r.account = env[env["ACCOUNT_ENV"]] /\ r.token = env["TOKEN_ENV"]
    <3> HIDE DEF endpoint, account, accountVar, tokenVar, made
    <3> QED
      BY <1>1, <1>2, <2>1, <2>2, <2>3, <2>4, <2>5
  <2> QED
    BY <1>4, <2>6 DEF env, r
<1>5. CASE ~("ACCOUNT_ENV" \in DOMAIN env)
  <2>1. accountVar = ""
    BY <1>5 DEF EnvironmentSelector
  <2>2. tokenVar = "" /\ ~chosen
    BY <1>1, <2>1
  <2>3. "TOKEN_ENV" \notin DOMAIN env
    BY <1>3, <2>2 DEF EnvironmentSelector
  <2>4. key = "TOKEN"
    BY <2>2
  <2>5. r.token = "TOKEN"
    <3> HIDE DEF made, key
    <3> QED
      BY <1>1, <1>2, <2>4
  <2> QED
    BY <1>5, <2>3, <2>5 DEF env, r
<1> QED
  BY <1>4, <1>5
-----------------------------------------------------------------------------
\* What was given, or what came of it.
AdaptedSoFar ==
  \/ \E p \in NativeProviders, r \in Requests, n \in Natives :
       adapted = [what |-> "asked", provider |-> p, request |-> r, native |-> n]
  \/ \E c \in Configurations : adapted = [what |-> "configured", given |-> c]
  \/ \E d \in Discussions : adapted = [what |-> "discussed", given |-> d]
  \/ \E p \in NativeProviders, r \in Requests, n \in Natives :
       adapted = [what |-> "answered", request |-> r, answer |-> Decide(p, r, n)]
  \/ \E c \in Configurations :
       adapted = [what |-> "provider", given |-> c, provider |-> Configured(c)]
  \/ \E d \in Discussions :
       adapted = [what |-> "material", given |-> d, of |-> FromComments(d.total, d.lengths, d.dated, d.absent)]

LEMMA AdaptedFirst == AdapterInit => AdaptedSoFar
  BY DEF AdapterInit, AdaptedSoFar

LEMMA AdaptedNext == AdaptedSoFar /\ [AdapterNext]_adaptedVars => AdaptedSoFar'
<1> SUFFICES ASSUME AdaptedSoFar, [AdapterNext]_adaptedVars PROVE AdaptedSoFar'
  OBVIOUS
<1>1. CASE AskNative
  <2>1. PICK p \in NativeProviders, r \in Requests, n \in Natives :
          adapted = [what |-> "asked", provider |-> p, request |-> r, native |-> n]
    BY <1>1 DEF AdaptedSoFar, AskNative
  <2>2. adapted.request = r /\ adapted.provider = p /\ adapted.native = n
    BY <2>1
  <2>3. adapted' = [what |-> "answered", request |-> r, answer |-> Decide(p, r, n)]
    BY <1>1, <2>2 DEF AskNative
  <2> QED
    BY <2>3 DEF AdaptedSoFar
<1>2. CASE Configure
  <2>1. PICK c \in Configurations : adapted = [what |-> "configured", given |-> c]
    BY <1>2 DEF AdaptedSoFar, Configure
  <2>2. adapted' = [what |-> "provider", given |-> c, provider |-> Configured(c)]
    BY <1>2, <2>1 DEF Configure
  <2> QED
    BY <2>2 DEF AdaptedSoFar
<1>3. CASE Gather
  <2>1. PICK d \in Discussions : adapted = [what |-> "discussed", given |-> d]
    BY <1>3 DEF AdaptedSoFar, Gather
  <2>2. adapted' = [what |-> "material", given |-> d, of |-> FromComments(d.total, d.lengths, d.dated, d.absent)]
    BY <1>3, <2>1 DEF Gather
  <2> QED
    BY <2>2 DEF AdaptedSoFar
<1>4. CASE UNCHANGED adaptedVars
  BY <1>4 DEF AdaptedSoFar, adaptedVars
<1> QED
  BY <1>1, <1>2, <1>3, <1>4 DEF AdapterNext

LEMMA AdaptedIsSound ==
  ASSUME ReadAsCounted, AdaptedSoFar
  PROVE  AdaptersAreSound
<1>1. AnswersHonourTheContract
  <2> SUFFICES ASSUME adapted.what = "answered", adapted.answer.status # "refused"
               PROVE  ValidResponse(adapted.request, adapted.answer)
    BY DEF AnswersHonourTheContract
  <2>1. PICK p \in NativeProviders, r \in Requests, n \in Natives :
          adapted = [what |-> "answered", request |-> r, answer |-> Decide(p, r, n)]
    BY DEF AdaptedSoFar
  <2>2. adapted.request = r /\ adapted.answer = Decide(p, r, n)
    BY <2>1
  <2> QED
    BY <2>2, DecideKeeps
<1>2. NeverAnotherAccount
  <2> SUFFICES ASSUME adapted.what = "provider", adapted.provider # NoProvider
               PROVE  LET env == adapted.given.env IN
                      IF "ACCOUNT_ENV" \in DOMAIN env
                      THEN adapted.provider.account = env[env["ACCOUNT_ENV"]] /\ adapted.provider.token = env["TOKEN_ENV"]
                      ELSE adapted.provider.token = "TOKEN" /\ "TOKEN_ENV" \notin DOMAIN env
    BY DEF NeverAnotherAccount
  <2>1. PICK c \in Configurations : adapted = [what |-> "provider", given |-> c, provider |-> Configured(c)]
    BY DEF AdaptedSoFar
  <2>2. adapted.given = c /\ adapted.provider = Configured(c)
    BY <2>1
  <2> QED
    BY <2>2, ThatAccount
<1>3. CompleteIsWhole
  <2> SUFFICES ASSUME adapted.what = "material"
               PROVE  /\ adapted.of.status = "complete" => adapted.of.kept = adapted.given.lengths /\ adapted.of.omitted = 0
                                                              /\ adapted.given.absent = {}
                      /\ Total(adapted.of.kept) <= CommentsLimit /\ Len(adapted.of.kept) <= SampleLimit
    BY DEF CompleteIsWhole
  <2>1. PICK d \in Discussions :
          adapted = [what |-> "material", given |-> d, of |-> FromComments(d.total, d.lengths, d.dated, d.absent)]
    BY DEF AdaptedSoFar
  <2>2. adapted.given = d /\ adapted.of = FromComments(d.total, d.lengths, d.dated, d.absent)
    BY <2>1
  <2> QED
    BY <2>2, WholeIsWhole
<1> QED
  BY <1>1, <1>2, <1>3 DEF AdaptersAreSound

\* What enters a judgement keeps its contract: an answer that is let through is valid
\* for its request, selecting an account and a token never asks another, and a
\* discussion that is called complete is shown whole (native.rs parse_response,
\* provider.rs cloudflare_selection, evidence.rs from_comments).
THEOREM AdaptersSound == ASSUME ReadAsCounted PROVE AdapterSpec => []AdaptersAreSound
<1>1. AdaptedSoFar => AdaptersAreSound
  BY AdaptedIsSound
<1> QED
  BY <1>1, AdaptedFirst, AdaptedNext, PTL DEF AdapterSpec
-----------------------------------------------------------------------------
(* The feedback of the user.                                                  *)

WordTypes == {"done", "dismissed", "restored"}
EventTypes == WordTypes \cup {"shown", "read", "prepared"}
\* A word bears no facts of the issue.
FbEvents ==
  {e \in [type : EventTypes, at : Nat, updated : Int, comments : Int] :
     e.type \in WordTypes => e.updated = None /\ e.comments = None}
Logs == Seq(FbEvents)
IssueFacts == [updated : Nat, comments : Nat, maintainer : BOOLEAN, edits : Nat]
Apart(entries) == \A i, j \in DOMAIN entries : entries[i].at = entries[j].at => i = j
Before(entries, stamp) == \A i \in DOMAIN entries : entries[i].at < stamp

FeedTyped ==
  /\ item \in Items /\ events \in Logs /\ late \in Logs
  /\ github \in IssueFacts /\ seen \in IssueFacts /\ time \in [day : Nat, count : Nat]
\* Every event has a stamp of its own, and so will the next: a day has a stamp for each.
Stamped ==
  /\ time.count >= 1 /\ time.count <= 1 + Len(events) + Len(late) + github.edits
  /\ Len(events) + Len(late) <= MaxEvents /\ github.edits <= MaxCommentEdits
  /\ Before(events, Stamp) /\ Before(late, Stamp) /\ Apart(events) /\ Apart(late)
  /\ \A i \in DOMAIN events, j \in DOMAIN late : events[i].at # late[j].at
FeedInv == FeedTyped /\ Stamped
-----------------------------------------------------------------------------
(* A log can be put in order.                                                 *)

\* a[1..m] in order: the i-th is a[p[i]].
InOrder(p, a, m) ==
  /\ p \in [1..m -> 1..m]
  /\ \A i \in 1..m : \E j \in 1..m : p[j] = i
  /\ \A i, j \in 1..m : i < j => a[p[i]] <= a[p[j]]
LEMMA Inserted ==
  ASSUME NEW n \in Nat, NEW a \in [1..n -> Nat], NEW m \in Nat, m + 1 <= n, NEW p, InOrder(p, a, m)
  PROVE  \E q : InOrder(q, a, m + 1)
<1> DEFINE K == {i \in 1..m : a[m + 1] < a[p[i]]}
           k == IF K = {} THEN m + 1 ELSE Min(K)
           q == [i \in 1..m + 1 |-> IF i < k THEN p[i] ELSE IF i = k THEN m + 1 ELSE p[i - 1]]
<1>1. /\ p \in [1..m -> 1..m]
      /\ \A i \in 1..m : \E j \in 1..m : p[j] = i
      /\ \A i, j \in 1..m : i < j => a[p[i]] <= a[p[j]]
  BY DEF InOrder
<1>2. ASSUME NEW i \in 1..m PROVE p[i] \in 1..m /\ a[p[i]] \in Nat
  <2>1. p[i] \in 1..m
    BY <1>1
  <2>2. p[i] \in 1..n
    BY <2>1
  <2> QED
    BY <2>1, <2>2
<1>3. m + 1 \in 1..n /\ a[m + 1] \in Nat
  OBVIOUS
<1>4. /\ k \in 1..m + 1
      /\ \A i \in 1..m : i < k => a[p[i]] <= a[m + 1]
      /\ k \in 1..m => a[m + 1] < a[p[k]]
  <2>1. CASE K = {}
    <3>1. ASSUME NEW i \in 1..m PROVE a[p[i]] <= a[m + 1]
      <4>1. ~(a[m + 1] < a[p[i]])
        BY <2>1
      <4> QED
        BY <1>2, <1>3, <4>1
    <3>2. k = m + 1
      BY <2>1
    <3> QED
      BY <3>1, <3>2
  <2>2. CASE K # {}
    <3>1. K \in SUBSET Nat
      OBVIOUS
    <3>2. Min(K) \in K /\ \A i \in K : Min(K) <= i
      BY <2>2, <3>1, LeastOf
    <3>3. k = Min(K)
      BY <2>2
    <3> HIDE DEF k
    <3>4. k \in 1..m /\ a[m + 1] < a[p[k]]
      BY <3>2, <3>3
    <3>5. ASSUME NEW i \in 1..m, i < k PROVE a[p[i]] <= a[m + 1]
      <4>1. i \notin K
        BY <3>2, <3>3, <3>4, <3>5
      <4> QED
        BY <1>2, <1>3, <4>1
    <3> QED
      BY <3>4, <3>5
  <2> QED
    BY <2>1, <2>2
<1> HIDE DEF k
<1>5. ASSUME NEW i \in 1..m + 1
      PROVE  /\ q[i] \in 1..m + 1
             /\ i < k => i \in 1..m /\ q[i] = p[i]
             /\ i = k => q[i] = m + 1
             /\ i > k => i - 1 \in 1..m /\ i - 1 >= k /\ q[i] = p[i - 1]
  <2>1. CASE i < k
    BY <1>2, <1>4, <2>1
  <2>2. CASE i = k
    BY <2>2
  <2>3. CASE i > k
    <3>1. i - 1 \in 1..m /\ i - 1 >= k
      BY <1>4, <2>3
    <3>2. p[i - 1] \in 1..m + 1
      BY <1>2, <3>1
    <3> QED
      BY <1>4, <2>3, <3>1, <3>2
  <2> QED
    BY <1>4, <2>1, <2>2, <2>3
<1>6. q \in [1..m + 1 -> 1..m + 1]
  BY <1>5
<1> HIDE DEF q
<1>7. ASSUME NEW i \in 1..m + 1 PROVE \E j \in 1..m + 1 : q[j] = i
  <2>1. CASE i = m + 1
    BY <1>4, <1>5, <2>1
  <2>2. CASE i \in 1..m
    <3>1. PICK j \in 1..m : p[j] = i
      BY <1>1, <2>2
    <3>2. CASE j < k
      <4>1. j \in 1..m + 1
        OBVIOUS
      <4> QED
        BY <1>5, <3>1, <3>2, <4>1
    <3>3. CASE j >= k
      <4>1. j + 1 \in 1..m + 1 /\ j + 1 > k /\ (j + 1) - 1 = j
        BY <1>4, <3>3
      <4> QED
        BY <1>5, <3>1, <4>1
    <3> QED
      BY <1>4, <3>2, <3>3
  <2> QED
    BY <2>1, <2>2
<1>8. ASSUME NEW i \in 1..m + 1, NEW j \in 1..m + 1, i < j PROVE a[q[i]] <= a[q[j]]
  <2>1. CASE j < k
    <3>1. i < k /\ i \in 1..m /\ q[i] = p[i] /\ j \in 1..m /\ q[j] = p[j]
      BY <1>4, <1>5, <1>8, <2>1
    <3> QED
      BY <1>1, <1>8, <3>1
  <2>2. CASE j = k
    BY <1>4, <1>5, <1>8, <2>2
  <2>3. CASE j > k
    <3>1. j - 1 \in 1..m /\ j - 1 >= k /\ q[j] = p[j - 1] /\ k \in 1..m
      BY <1>4, <1>5, <2>3
    <3>2. a[p[k]] <= a[p[j - 1]]
      <4>1. CASE j - 1 = k
        BY <1>2, <3>1, <4>1
      <4>2. CASE k < j - 1
        BY <1>1, <3>1, <4>2
      <4> QED
        BY <1>4, <3>1, <4>1, <4>2
    <3>3. CASE i < k
      <4>1. i \in 1..m /\ q[i] = p[i] /\ i < j - 1
        BY <1>4, <1>5, <3>1, <3>3
      <4> QED
        BY <1>1, <3>1, <4>1
    <3>4. CASE i = k
      <4>1. a[m + 1] < a[p[k]] /\ q[i] = m + 1
        BY <1>4, <1>5, <3>1, <3>4
      <4>2. a[p[k]] \in Nat /\ a[p[j - 1]] \in Nat
        BY <1>2, <3>1
      <4> QED
        BY <1>3, <3>1, <3>2, <4>1, <4>2, SMTT(60)
    <3>5. CASE i > k
      <4>1. i - 1 \in 1..m /\ q[i] = p[i - 1] /\ i - 1 < j - 1
        BY <1>5, <1>8, <3>5
      <4> QED
        BY <1>1, <3>1, <4>1
    <3> QED
      BY <1>4, <3>3, <3>4, <3>5
  <2> QED
    BY <1>4, <2>1, <2>2, <2>3
<1>9. InOrder(q, a, m + 1)
  BY <1>6, <1>7, <1>8 DEF InOrder
<1> QED
  BY <1>9

LEMMA SomeOrder ==
  ASSUME NEW n \in Nat, NEW a \in [1..n -> Nat]
  PROVE  \E p : InOrder(p, a, n)
<1> DEFINE P(m) == m <= n => \E p : InOrder(p, a, m)
           T == {m \in Nat : P(m)}
<1>1. P(0)
  <2> DEFINE p == [i \in 1..0 |-> i]
  <2>1. 1..0 = {} /\ p \in [1..0 -> 1..0]
    OBVIOUS
  <2>2. InOrder(p, a, 0)
    BY <2>1 DEF InOrder
  <2> HIDE DEF p
  <2> QED
    BY <2>2
<1>2. ASSUME NEW m \in Nat, P(m) PROVE P(m + 1)
  <2> SUFFICES ASSUME m + 1 <= n PROVE \E q : InOrder(q, a, m + 1)
    OBVIOUS
  <2>1. m <= n
    OBVIOUS
  <2>2. PICK p : InOrder(p, a, m)
    BY <1>2, <2>1
  <2> QED
    BY <2>2, Inserted
<1>3. 0 \in T /\ \A m \in Nat : m \in T => m + 1 \in T
  <2> HIDE DEF P
  <2> QED
    BY <1>1, <1>2
<1>4. Nat \subseteq T
  <2> HIDE DEF T
  <2> QED
    BY <1>3, SetInduction
<1>5. P(n)
  <2> HIDE DEF P
  <2> QED
    BY <1>4
<1> QED
  BY <1>5

\* The events in the order of their times are those of the log, and no two share a time.
Sorted(s, entries) ==
  /\ s \in Logs /\ Range(s) = Range(entries)
  /\ \A i, j \in DOMAIN s : i < j => s[i].at <= s[j].at
  /\ \A e, f \in Range(s) : e.at = f.at => e = f
LEMMA ByTimeSorts ==
  ASSUME NEW entries \in Logs, Apart(entries)
  PROVE  Sorted(ByTime(entries), entries)
<1> DEFINE n == Len(entries)
           a == [i \in 1..n |-> entries[i].at]
           p == CHOOSE p \in [DOMAIN entries -> DOMAIN entries] : Orders(p, entries)
           s == [i \in DOMAIN entries |-> entries[p[i]]]
<1>1. n \in Nat /\ DOMAIN entries = 1..n /\ \A i \in 1..n : entries[i] \in FbEvents
  BY DEF Logs
<1> HIDE DEF n
<1>2. \A i \in 1..n : entries[i].at \in Nat
  BY <1>1 DEF FbEvents
<1>3. a \in [1..n -> Nat]
  BY <1>2
<1>4. PICK q : InOrder(q, a, n)
  <2> HIDE DEF a
  <2> QED
    BY <1>1, <1>3, SomeOrder
<1>5. q \in [1..n -> 1..n] /\ Orders(q, entries)
  <2>1. q \in [1..n -> 1..n]
    BY <1>4 DEF InOrder
  <2>2. \A i \in 1..n : \E j \in 1..n : q[j] = i
    BY <1>4 DEF InOrder
  <2>3. ASSUME NEW i \in 1..n, NEW j \in 1..n, i < j PROVE entries[q[i]].at <= entries[q[j]].at
    <3>1. a[q[i]] <= a[q[j]]
      BY <1>4, <2>3 DEF InOrder
    <3>2. q[i] \in 1..n /\ q[j] \in 1..n
      BY <2>1
    <3> QED
      BY <3>1, <3>2
  <2> QED
    BY <1>1, <2>1, <2>2, <2>3 DEF Orders
<1>6. p \in [1..n -> 1..n] /\ Orders(p, entries)
  BY <1>1, <1>5
<1> HIDE DEF p
<1>7. /\ \A i \in 1..n : \E j \in 1..n : p[j] = i
      /\ \A i, j \in 1..n : i < j => entries[p[i]].at <= entries[p[j]].at
  BY <1>1, <1>6 DEF Orders
<1>8. ByTime(entries) = s
  BY DEF ByTime, p
<1>9. DOMAIN s = 1..n /\ \A i \in 1..n : s[i] = entries[p[i]] /\ p[i] \in 1..n
  BY <1>1, <1>6
<1>10. s \in Logs
  <2>1. \A i \in 1..n : s[i] \in FbEvents
    BY <1>1, <1>9
  <2>2. s = [i \in 1..n |-> s[i]]
    BY <1>1
  <2> HIDE DEF s
  <2> QED
    BY <1>1, <1>9, <2>1, <2>2 DEF Logs
<1> HIDE DEF s
<1>11. Range(s) = Range(entries)
  <2>1. ASSUME NEW e \in Range(s) PROVE e \in Range(entries)
    BY <1>1, <1>9 DEF Range
  <2>2. ASSUME NEW e \in Range(entries) PROVE e \in Range(s)
    <3>1. PICK i \in 1..n : e = entries[i]
      BY <1>1 DEF Range
    <3>2. PICK j \in 1..n : p[j] = i
      BY <1>7
    <3> QED
      BY <1>9, <3>1, <3>2 DEF Range
  <2> QED
    BY <2>1, <2>2
<1>12. ASSUME NEW i \in DOMAIN s, NEW j \in DOMAIN s, i < j PROVE s[i].at <= s[j].at
  <2>1. i \in 1..n /\ j \in 1..n
    BY <1>9
  <2>2. s[i] = entries[p[i]] /\ s[j] = entries[p[j]]
    BY <1>9, <2>1
  <2>3. entries[p[i]].at <= entries[p[j]].at
    BY <1>7, <1>12, <2>1
  <2> QED
    BY <2>2, <2>3
<1>13. ASSUME NEW e \in Range(s), NEW f \in Range(s), e.at = f.at PROVE e = f
  <2>1. PICK i \in DOMAIN entries : e = entries[i]
    BY <1>11 DEF Range
  <2>2. PICK j \in DOMAIN entries : f = entries[j]
    BY <1>11 DEF Range
  <2> QED
    BY <1>13, <2>1, <2>2 DEF Apart
<1>14. Sorted(s, entries)
  BY <1>10, <1>11, <1>12, <1>13 DEF Sorted
<1> QED
  BY <1>8, <1>14
-----------------------------------------------------------------------------
(* Stamps stay apart.                                                         *)

LEMMA ClockMoves ==
  ASSUME FeedTyped
  PROVE  /\ Stamp \in Nat /\ github.updated \in Nat
         /\ Later => Stamp' = Stamp + 1 /\ time' \in [day : Nat, count : Nat] /\ time'.count = time.count + 1
<1>1. time \in [day : Nat, count : Nat] /\ time.day \in Nat /\ time.count \in Nat
  BY DEF FeedTyped
<1>2. Stamp \in Nat
  BY <1>1 DEF Stamp
<1>3. ASSUME Later PROVE Stamp' = Stamp + 1 /\ time' \in [day : Nat, count : Nat] /\ time'.count = time.count + 1
  <2> DEFINE c == time.count + 1
  <2>1. c \in Nat
    BY <1>1
  <2>2. time' = [time EXCEPT !.count = c]
    BY <1>3 DEF Later
  <2>3. time' \in [day : Nat, count : Nat] /\ time'.count = c /\ time'.day = time.day
    <3> HIDE DEF c
    <3> QED
      BY <1>1, <2>1, <2>2
  <2> QED
    BY <1>1, <2>3 DEF Stamp
<1>4. github.updated \in Nat
  BY DEF FeedTyped, IssueFacts
<1> QED
  BY <1>2, <1>3, <1>4

LEMMA NewEventType ==
  ASSUME FeedTyped, NEW sign \in Signs
  PROVE  NewEvent(sign.type, sign.enriched) \in FbEvents /\ NewEvent(sign.type, sign.enriched).at = Stamp
<1> DEFINE type == sign.type
           f == Facts(type, sign.enriched)
           u == f.updated
           c == f.comments
           e == NewEvent(type, sign.enriched)
<1>1. type \in EventTypes /\ sign.enriched \in BOOLEAN
  BY FeedbackAssumption DEF EventTypes, WordTypes
<1>2. seen.updated \in Nat /\ seen.comments \in Nat /\ Stamp \in Nat
  BY ClockMoves DEF FeedTyped, IssueFacts
<1> HIDE DEF type
<1>3. u \in Int /\ c \in Int /\ (type \in WordTypes => u = None /\ c = None)
  <2>1. CASE type \in WordTypes
    <3>1. f = [updated |-> None, comments |-> None]
      BY <2>1 DEF Facts, WordTypes
    <3> QED
      BY <3>1 DEF None
  <2>2. CASE type \notin WordTypes
    <3>1. f = [updated |-> seen.updated, comments |-> IF sign.enriched THEN seen.comments ELSE None]
      BY <2>2 DEF Facts, WordTypes
    <3>2. u = seen.updated /\ c = IF sign.enriched THEN seen.comments ELSE None
      <4> HIDE DEF f
      <4> QED
        BY <3>1
    <3> HIDE DEF u, c
    <3> QED
      BY <1>2, <2>2, <3>2 DEF None
  <2> QED
    BY <2>1, <2>2
<1>4. e = [type |-> type, at |-> Stamp, updated |-> u, comments |-> c]
  BY DEF NewEvent
<1> HIDE DEF u, c, e
<1>5. e \in [type : EventTypes, at : Nat, updated : Int, comments : Int]
  BY <1>1, <1>2, <1>3, <1>4
<1>6. e.type = type /\ e.updated = u /\ e.comments = c /\ e.at = Stamp
  BY <1>4
<1>7. e \in FbEvents /\ e.at = Stamp
  BY <1>3, <1>5, <1>6 DEF FbEvents
<1> QED
  BY <1>7 DEF e, type

\* A log with one event more, stamped now.
LEMMA OneMore ==
  ASSUME NEW entries \in Logs, NEW stamp \in Nat, Before(entries, stamp), Apart(entries), NEW e \in FbEvents, e.at = stamp
  PROVE  LET l == Append(entries, e) IN
         /\ l \in Logs /\ Len(l) = Len(entries) + 1 /\ Before(l, stamp + 1) /\ Apart(l)
         /\ \A i \in DOMAIN l : (i \in DOMAIN entries /\ l[i] = entries[i]) \/ l[i] = e
<1> DEFINE l == Append(entries, e)
           n == Len(entries)
<1>1. /\ n \in Nat /\ DOMAIN entries = 1..n /\ l \in Logs /\ Len(l) = n + 1 /\ DOMAIN l = 1..n + 1
      /\ \A i \in 1..n : l[i] = entries[i]
      /\ l[n + 1] = e
  BY DEF Logs
<1> HIDE DEF l, n
<1>2. ASSUME NEW i \in 1..n PROVE entries[i].at < stamp /\ entries[i].at \in Nat
  <2>1. i \in DOMAIN entries /\ entries[i] \in FbEvents
    BY <1>1 DEF Logs
  <2> QED
    BY <2>1 DEF Before, FbEvents
<1>3. ASSUME NEW i \in 1..n + 1 PROVE (i \in 1..n /\ l[i] = entries[i]) \/ (i = n + 1 /\ l[i] = e)
  BY <1>1
<1>4. Before(l, stamp + 1)
  <2> SUFFICES ASSUME NEW i \in 1..n + 1 PROVE l[i].at < stamp + 1
    BY <1>1 DEF Before
  <2> QED
    BY <1>2, <1>3
<1>5. Apart(l)
  <2> SUFFICES ASSUME NEW i \in 1..n + 1, NEW j \in 1..n + 1, l[i].at = l[j].at PROVE i = j
    BY <1>1 DEF Apart
  <2>1. (i \in 1..n /\ l[i] = entries[i]) \/ (i = n + 1 /\ l[i] = e)
    BY <1>3
  <2>2. (j \in 1..n /\ l[j] = entries[j]) \/ (j = n + 1 /\ l[j] = e)
    BY <1>3
  <2>3. CASE i \in 1..n /\ l[i] = entries[i] /\ j \in 1..n /\ l[j] = entries[j]
    BY <1>1, <2>3 DEF Apart
  <2>4. ASSUME NEW k \in 1..n PROVE entries[k].at # e.at
    BY <1>2
  <2> QED
    BY <2>1, <2>2, <2>3, <2>4
<1> QED
  BY <1>1, <1>3, <1>4, <1>5 DEF l, n

LEMMA RecordKeeps ==
  ASSUME FeedInv, NEW sign \in Signs, Record(sign.type, sign.enriched)
  PROVE  FeedInv'
<1> DEFINE e == NewEvent(sign.type, sign.enriched)
<1>1. FeedTyped /\ Stamped
  BY DEF FeedInv
<1>2. e \in FbEvents /\ e.at = Stamp
  BY <1>1, NewEventType
<1>3. /\ Len(events) + Len(late) < MaxEvents /\ events' = Append(events, e) /\ Later
      /\ UNCHANGED <<item, late, github, seen>>
  BY DEF Record
<1> HIDE DEF e
<1>4. /\ Stamp \in Nat /\ Stamp' = Stamp + 1
      /\ time' \in [day : Nat, count : Nat] /\ time'.count = time.count + 1
  BY <1>1, <1>3, ClockMoves
<1>5. /\ events \in Logs /\ late \in Logs /\ Len(events) \in Nat /\ Len(late) \in Nat
      /\ time.count \in Nat /\ github.edits \in Nat
  BY <1>1 DEF FeedTyped, Logs, IssueFacts
<1>6. /\ events' \in Logs /\ Len(events') = Len(events) + 1 /\ Before(events', Stamp + 1) /\ Apart(events')
      /\ \A i \in DOMAIN events' : (i \in DOMAIN events /\ events'[i] = events[i]) \/ events'[i] = e
  BY <1>1, <1>2, <1>3, <1>4, <1>5, OneMore DEF Stamped
<1>7. \A j \in DOMAIN late : late[j].at \in Nat /\ late[j].at < Stamp
  BY <1>1, <1>5 DEF Stamped, Before, Logs, FbEvents
<1>8. FeedTyped'
  BY <1>1, <1>3, <1>4, <1>6 DEF FeedTyped
<1>9. /\ time'.count >= 1 /\ time'.count <= 1 + Len(events') + Len(late') + github'.edits
      /\ Len(events') + Len(late') <= MaxEvents /\ github'.edits <= MaxCommentEdits
  <2>1. /\ time.count >= 1 /\ time.count <= 1 + Len(events) + Len(late) + github.edits
        /\ github.edits <= MaxCommentEdits /\ MaxEvents \in Nat
    BY <1>1, FeedbackAssumption DEF Stamped
  <2>2. late' = late /\ github' = github
    BY <1>3
  <2> QED
    BY <1>3, <1>4, <1>5, <1>6, <2>1, <2>2, SMTT(60)
<1>10. Before(late', Stamp')
  BY <1>3, <1>4, <1>7 DEF Before
<1>11. ASSUME NEW i \in DOMAIN events', NEW j \in DOMAIN late' PROVE events'[i].at # late'[j].at
  <2>1. late' = late /\ late[j].at < Stamp /\ late[j].at \in Nat
    BY <1>3, <1>7
  <2>2. CASE i \in DOMAIN events /\ events'[i] = events[i]
    BY <1>1, <2>1, <2>2 DEF Stamped
  <2>3. CASE events'[i] = e
    BY <1>2, <1>4, <2>1, <2>3
  <2> QED
    BY <1>6, <2>2, <2>3
<1>12. Apart(late')
  BY <1>1, <1>3 DEF Stamped
<1>13. Stamped'
  BY <1>4, <1>6, <1>9, <1>10, <1>11, <1>12 DEF Stamped
<1> QED
  BY <1>8, <1>13 DEF FeedInv

LEMMA StampOnlyKeeps ==
  ASSUME FeedInv, NEW sign \in Signs, StampOnly(sign.type, sign.enriched)
  PROVE  FeedInv'
<1> DEFINE e == NewEvent(sign.type, sign.enriched)
<1>1. FeedTyped /\ Stamped
  BY DEF FeedInv
<1>2. e \in FbEvents /\ e.at = Stamp
  BY <1>1, NewEventType
<1>3. /\ Len(events) + Len(late) < MaxEvents /\ late' = Append(late, e) /\ Later
      /\ UNCHANGED <<item, events, github, seen>>
  BY DEF StampOnly
<1> HIDE DEF e
<1>4. /\ Stamp \in Nat /\ Stamp' = Stamp + 1
      /\ time' \in [day : Nat, count : Nat] /\ time'.count = time.count + 1
  BY <1>1, <1>3, ClockMoves
<1>5. /\ events \in Logs /\ late \in Logs /\ Len(events) \in Nat /\ Len(late) \in Nat
      /\ time.count \in Nat /\ github.edits \in Nat
  BY <1>1 DEF FeedTyped, Logs, IssueFacts
<1>6. /\ late' \in Logs /\ Len(late') = Len(late) + 1 /\ Before(late', Stamp + 1) /\ Apart(late')
      /\ \A i \in DOMAIN late' : (i \in DOMAIN late /\ late'[i] = late[i]) \/ late'[i] = e
  BY <1>1, <1>2, <1>3, <1>4, <1>5, OneMore DEF Stamped
<1>7. \A i \in DOMAIN events : events[i].at \in Nat /\ events[i].at < Stamp
  BY <1>1, <1>5 DEF Stamped, Before, Logs, FbEvents
<1>8. FeedTyped'
  BY <1>1, <1>3, <1>4, <1>6 DEF FeedTyped
<1>9. /\ time'.count >= 1 /\ time'.count <= 1 + Len(events') + Len(late') + github'.edits
      /\ Len(events') + Len(late') <= MaxEvents /\ github'.edits <= MaxCommentEdits
  <2>1. /\ time.count >= 1 /\ time.count <= 1 + Len(events) + Len(late) + github.edits
        /\ github.edits <= MaxCommentEdits /\ MaxEvents \in Nat
    BY <1>1, FeedbackAssumption DEF Stamped
  <2>2. events' = events /\ github' = github
    BY <1>3
  <2> QED
    BY <1>3, <1>4, <1>5, <1>6, <2>1, <2>2, SMTT(60)
<1>10. Before(events', Stamp')
  BY <1>3, <1>4, <1>7 DEF Before
<1>11. ASSUME NEW i \in DOMAIN events', NEW j \in DOMAIN late' PROVE events'[i].at # late'[j].at
  <2>1. events' = events /\ events[i].at < Stamp /\ events[i].at \in Nat
    BY <1>3, <1>7
  <2>2. CASE j \in DOMAIN late /\ late'[j] = late[j]
    BY <1>1, <1>3, <2>1, <2>2 DEF Stamped
  <2>3. CASE late'[j] = e
    BY <1>2, <1>4, <2>1, <2>3
  <2> QED
    BY <1>6, <2>2, <2>3
<1>12. Apart(events')
  BY <1>1, <1>3 DEF Stamped
<1>13. Stamped'
  BY <1>4, <1>6, <1>9, <1>10, <1>11, <1>12 DEF Stamped
<1> QED
  BY <1>8, <1>13 DEF FeedInv

LEMMA AppendLateKeeps ==
  ASSUME FeedInv, AppendLate
  PROVE  FeedInv'
<1> DEFINE e == Head(late)
           n == Len(events)
           m == Len(late)
<1>1. FeedTyped /\ Stamped
  BY DEF FeedInv
<1>2. /\ late # <<>> /\ events' = Append(events, e) /\ late' = Tail(late)
      /\ UNCHANGED <<item, github, seen, time>>
  BY DEF AppendLate
<1>3. /\ events \in Logs /\ late \in Logs /\ n \in Nat /\ m \in Nat /\ DOMAIN events = 1..n /\ DOMAIN late = 1..m
      /\ Stamp \in Nat
  BY <1>1, ClockMoves DEF FeedTyped, Logs
<1>4. /\ m >= 1 /\ e = late[1] /\ e \in FbEvents /\ late' \in Logs /\ Len(late') = m - 1 /\ DOMAIN late' = 1..m - 1
      /\ \A i \in 1..m - 1 : late'[i] = late[i + 1]
  BY <1>2, <1>3 DEF Logs
<1>5. /\ events' \in Logs /\ Len(events') = n + 1 /\ DOMAIN events' = 1..n + 1
      /\ \A i \in 1..n : events'[i] = events[i]
      /\ events'[n + 1] = e
  BY <1>2, <1>3, <1>4 DEF Logs
<1>6. \A i \in 1..n : events[i].at < Stamp
  BY <1>1, <1>3 DEF Stamped, Before
<1>7. \A j \in 1..m : late[j].at < Stamp
  BY <1>1, <1>3 DEF Stamped, Before
<1>8. \A i \in 1..n, j \in 1..m : events[i].at # late[j].at
  BY <1>1, <1>3 DEF Stamped
<1>9. \A i, j \in 1..n : events[i].at = events[j].at => i = j
  BY <1>1, <1>3 DEF Stamped, Apart
<1>10. \A i, j \in 1..m : late[i].at = late[j].at => i = j
  BY <1>1, <1>3 DEF Stamped, Apart
<1>11. Stamp' = Stamp
  BY <1>2 DEF Stamp
<1> HIDE DEF e, n, m
<1>12. ASSUME NEW i \in 1..n + 1 PROVE (i \in 1..n /\ events'[i] = events[i]) \/ (i = n + 1 /\ events'[i] = late[1])
  BY <1>3, <1>4, <1>5
<1>13. ASSUME NEW j \in 1..m - 1 PROVE j + 1 \in 1..m /\ j + 1 # 1 /\ late'[j] = late[j + 1]
  BY <1>3, <1>4
<1>14. 1 \in 1..m
  BY <1>3, <1>4
<1>15. Before(events', Stamp')
  <2> SUFFICES ASSUME NEW i \in 1..n + 1 PROVE events'[i].at < Stamp
    BY <1>5, <1>11 DEF Before
  <2> QED
    BY <1>6, <1>7, <1>12, <1>14
<1>16. Before(late', Stamp')
  <2> SUFFICES ASSUME NEW j \in 1..m - 1 PROVE late'[j].at < Stamp
    BY <1>4, <1>11 DEF Before
  <2> QED
    BY <1>7, <1>13
<1>17. Apart(events')
  <2> SUFFICES ASSUME NEW i \in 1..n + 1, NEW j \in 1..n + 1, events'[i].at = events'[j].at PROVE i = j
    BY <1>5 DEF Apart
  <2>1. (i \in 1..n /\ events'[i] = events[i]) \/ (i = n + 1 /\ events'[i] = late[1])
    BY <1>12
  <2>2. (j \in 1..n /\ events'[j] = events[j]) \/ (j = n + 1 /\ events'[j] = late[1])
    BY <1>12
  <2> QED
    BY <1>8, <1>9, <1>14, <2>1, <2>2
<1>18. Apart(late')
  <2> SUFFICES ASSUME NEW i \in 1..m - 1, NEW j \in 1..m - 1, late'[i].at = late'[j].at PROVE i = j
    BY <1>4 DEF Apart
  <2>1. i + 1 \in 1..m /\ j + 1 \in 1..m /\ late[i + 1].at = late[j + 1].at
    BY <1>13
  <2>2. i + 1 = j + 1
    BY <1>10, <2>1
  <2> QED
    BY <2>2
<1>19. ASSUME NEW i \in DOMAIN events', NEW j \in DOMAIN late' PROVE events'[i].at # late'[j].at
  <2>1. i \in 1..n + 1 /\ j \in 1..m - 1
    BY <1>4, <1>5
  <2>2. (i \in 1..n /\ events'[i] = events[i]) \/ (i = n + 1 /\ events'[i] = late[1])
    BY <1>12, <2>1
  <2>3. j + 1 \in 1..m /\ j + 1 # 1 /\ late'[j] = late[j + 1]
    BY <1>13, <2>1
  <2> QED
    BY <1>8, <1>10, <1>14, <2>2, <2>3
<1>20. /\ time'.count >= 1 /\ time'.count <= 1 + Len(events') + Len(late') + github'.edits
       /\ Len(events') + Len(late') <= MaxEvents /\ github'.edits <= MaxCommentEdits
  <2>1. Len(events') + Len(late') = n + m
    BY <1>3, <1>4, <1>5
  <2>2. time.count \in Nat /\ github.edits \in Nat
    BY <1>1 DEF FeedTyped, IssueFacts
  <2>3. /\ time.count >= 1 /\ time.count <= 1 + n + m + github.edits
        /\ n + m <= MaxEvents /\ github.edits <= MaxCommentEdits
    BY <1>1 DEF Stamped, n, m
  <2>4. 1 + Len(events') + Len(late') + github.edits = 1 + n + m + github.edits
    BY <1>3, <1>4, <1>5, <2>2
  <2>5. time' = time /\ github' = github
    BY <1>2
  <2> QED
    BY <2>1, <2>3, <2>4, <2>5
<1>21. FeedTyped'
  BY <1>1, <1>2, <1>4, <1>5 DEF FeedTyped
<1>22. Stamped'
  BY <1>15, <1>16, <1>17, <1>18, <1>19, <1>20 DEF Stamped
<1> QED
  BY <1>21, <1>22 DEF FeedInv

LEMMA ChangeKeeps ==
  ASSUME FeedInv, NEW comments \in 0..1, NEW maintainer \in BOOLEAN, Change(comments, maintainer)
  PROVE  FeedInv'
<1> DEFINE c == github.comments + comments
           b == github.maintainer \/ maintainer
           d == github.edits + 1
           g == [updated |-> Stamp, comments |-> c, maintainer |-> b, edits |-> d]
<1>1. FeedTyped /\ Stamped
  BY DEF FeedInv
<1>2. /\ github.comments \in Nat /\ github.edits \in Nat /\ github.maintainer \in BOOLEAN
      /\ Len(events) \in Nat /\ Len(late) \in Nat /\ time.count \in Nat
  BY <1>1 DEF FeedTyped, IssueFacts, Logs
<1>3. github.edits < MaxCommentEdits /\ github' = g /\ Later /\ UNCHANGED <<item, events, late, seen>>
  BY DEF Change
<1>4. /\ Stamp \in Nat /\ Stamp' = Stamp + 1
      /\ time' \in [day : Nat, count : Nat] /\ time'.count = time.count + 1
  BY <1>1, <1>3, ClockMoves
<1>5. c \in Nat /\ d \in Nat /\ b \in BOOLEAN
  BY <1>2
<1>6. g \in IssueFacts /\ g.edits = d
  <2> HIDE DEF c, b, d
  <2> QED
    BY <1>4, <1>5 DEF IssueFacts
<1> HIDE DEF g
<1>7. FeedTyped'
  BY <1>1, <1>3, <1>4, <1>6 DEF FeedTyped
<1>8. /\ time'.count >= 1 /\ time'.count <= 1 + Len(events') + Len(late') + github'.edits
      /\ Len(events') + Len(late') <= MaxEvents /\ github'.edits <= MaxCommentEdits
  <2>1. /\ time.count >= 1 /\ time.count <= 1 + Len(events) + Len(late) + github.edits
        /\ Len(events) + Len(late) <= MaxEvents /\ MaxCommentEdits \in Nat
    BY <1>1, FeedbackAssumption DEF Stamped
  <2>2. events' = events /\ late' = late /\ github'.edits = github.edits + 1
    BY <1>3, <1>6
  <2> QED
    BY <1>2, <1>3, <1>4, <2>1, <2>2, SMTT(60)
<1>9. ASSUME NEW entries \in Logs, Before(entries, Stamp) PROVE Before(entries, Stamp + 1)
  <2> SUFFICES ASSUME NEW i \in DOMAIN entries PROVE entries[i].at < Stamp + 1
    BY DEF Before
  <2>1. entries[i].at \in Nat /\ entries[i].at < Stamp
    BY <1>9 DEF Logs, FbEvents, Before
  <2> QED
    BY <1>4, <2>1
<1>10. events \in Logs /\ late \in Logs /\ Before(events, Stamp) /\ Before(late, Stamp)
  BY <1>1 DEF FeedTyped, Stamped
<1>11. Before(events', Stamp') /\ Before(late', Stamp')
  BY <1>3, <1>4, <1>9, <1>10
<1>12. Apart(events') /\ Apart(late') /\ \A i \in DOMAIN events', j \in DOMAIN late' : events'[i].at # late'[j].at
  BY <1>1, <1>3 DEF Stamped
<1>13. Stamped'
  BY <1>8, <1>11, <1>12 DEF Stamped
<1> QED
  BY <1>7, <1>13 DEF FeedInv

LEMMA PauseKeeps ==
  ASSUME FeedInv, NEW days \in LongPauses, Pause(days)
  PROVE  FeedInv'
<1> DEFINE d == time.day + days
<1>1. FeedTyped /\ Stamped
  BY DEF FeedInv
<1>2. time' = [day |-> d, count |-> 1] /\ UNCHANGED <<item, events, late, github, seen>>
  BY DEF Pause
<1>3. /\ days \in Nat /\ days >= 1 /\ MaxEvents \in Nat /\ MaxCommentEdits \in Nat
      /\ MaxEvents + MaxCommentEdits < 99
  BY FeedbackAssumption
<1>4. /\ time.day \in Nat /\ time.count \in Nat /\ github.edits \in Nat /\ Len(events) \in Nat /\ Len(late) \in Nat
      /\ events \in Logs /\ late \in Logs /\ Stamp \in Nat
  BY <1>1, ClockMoves DEF FeedTyped, IssueFacts, Logs
<1>5. d \in Nat /\ d >= time.day + 1
  BY <1>3, <1>4
<1>6. time' \in [day : Nat, count : Nat] /\ time'.day = d /\ time'.count = 1
  <2> HIDE DEF d
  <2> QED
    BY <1>2, <1>5
<1>7. time.count <= 99
  BY <1>1, <1>3, <1>4 DEF Stamped
<1>8. Stamp' \in Nat /\ Stamp < Stamp'
  <2>1. Stamp = time.day * 100 + time.count /\ Stamp' = d * 100 + 1
    BY <1>6 DEF Stamp
  <2> HIDE DEF d
  <2> QED
    BY <1>4, <1>5, <1>7, <2>1
<1>9. ASSUME NEW entries \in Logs, Before(entries, Stamp) PROVE Before(entries, Stamp')
  <2> SUFFICES ASSUME NEW i \in DOMAIN entries PROVE entries[i].at < Stamp'
    BY DEF Before
  <2>1. entries[i].at \in Nat /\ entries[i].at < Stamp
    BY <1>9 DEF Logs, FbEvents, Before
  <2> QED
    BY <1>4, <1>8, <2>1
<1>10. events' = events /\ late' = late /\ github' = github /\ seen' = seen /\ item' = item
  BY <1>2
<1>11. Before(events', Stamp') /\ Before(late', Stamp')
  <2>1. Before(events, Stamp) /\ Before(late, Stamp)
    BY <1>1 DEF Stamped
  <2> QED
    BY <1>4, <1>9, <1>10, <2>1
<1>12. /\ time'.count >= 1 /\ time'.count <= 1 + Len(events') + Len(late') + github'.edits
       /\ Len(events') + Len(late') <= MaxEvents /\ github'.edits <= MaxCommentEdits
  <2>1. Len(events) + Len(late) <= MaxEvents /\ github.edits <= MaxCommentEdits
    BY <1>1 DEF Stamped
  <2> QED
    BY <1>4, <1>6, <1>10, <2>1
<1>13. Apart(events') /\ Apart(late') /\ \A i \in DOMAIN events', j \in DOMAIN late' : events'[i].at # late'[j].at
  BY <1>1, <1>10 DEF Stamped
<1>14. Stamped'
  BY <1>11, <1>12, <1>13 DEF Stamped
<1>15. FeedTyped'
  BY <1>1, <1>6, <1>10 DEF FeedTyped
<1> QED
  BY <1>14, <1>15 DEF FeedInv

LEMMA FeedFirst == FeedbackInit => FeedInv
<1> SUFFICES ASSUME FeedbackInit PROVE FeedInv
  OBVIOUS
<1>1. /\ item \in Items /\ events = <<>> /\ late = <<>>
      /\ github = [updated |-> 0, comments |-> 0, maintainer |-> FALSE, edits |-> 0]
      /\ seen = github /\ time = [day |-> 0, count |-> 1]
  BY DEF FeedbackInit
<1>2. events \in Logs /\ late \in Logs /\ DOMAIN events = {} /\ DOMAIN late = {} /\ Len(events) = 0 /\ Len(late) = 0
  BY <1>1 DEF Logs
<1>3. /\ github \in IssueFacts /\ seen \in IssueFacts /\ time \in [day : Nat, count : Nat]
      /\ github.edits = 0 /\ time.count = 1
  BY <1>1 DEF IssueFacts
<1>4. FeedTyped
  BY <1>1, <1>2, <1>3 DEF FeedTyped
<1>5. MaxEvents \in Nat /\ MaxCommentEdits \in Nat
  BY FeedbackAssumption
<1>6. Stamped
  BY <1>2, <1>3, <1>5 DEF Stamped, Before, Apart
<1> QED
  BY <1>4, <1>6 DEF FeedInv

LEMMA FeedNext == FeedInv /\ [FeedbackNext]_feedbackVars => FeedInv'
<1> SUFFICES ASSUME FeedInv, [FeedbackNext]_feedbackVars PROVE FeedInv'
  OBVIOUS
<1>1. CASE \E sign \in Signs : Record(sign.type, sign.enriched) \/ StampOnly(sign.type, sign.enriched)
  BY <1>1, RecordKeeps, StampOnlyKeeps
<1>2. CASE AppendLate
  BY <1>2, AppendLateKeeps
<1>3. CASE Enrich
  BY <1>3 DEF Enrich, FeedInv, FeedTyped, Stamped, Stamp
<1>4. CASE \E comments \in 0..1 : \E maintainer \in BOOLEAN : (maintainer => comments = 1) /\ Change(comments, maintainer)
  BY <1>4, ChangeKeeps
<1>5. CASE \E days \in LongPauses : Pause(days)
  BY <1>5, PauseKeeps
<1>6. CASE UNCHANGED feedbackVars
  BY <1>6 DEF feedbackVars, FeedInv, FeedTyped, Stamped, Stamp
<1> QED
  BY <1>1, <1>2, <1>3, <1>4, <1>5, <1>6 DEF FeedbackNext

\* Every event bears a stamp of its own and in the past, whatever the order in which
\* concurrent commands append what they stamped, so the log has one order in time
\* (recommendation/events.rs record_event_for_issue, state.rs).
THEOREM StampsApart == FeedbackSpec => []FeedInv
  BY FeedFirst, FeedNext, PTL DEF FeedbackSpec
-----------------------------------------------------------------------------
(* What one event does to the state of the feed and of the board.             *)

FeedStates ==
  [shown : Nat, read : Nat, prepared : Nat, dismissed : BOOLEAN, done : BOOLEAN,
   lastShown : Int, lastRead : Int, lastPrepared : Int, last : Int, comments : Int]
BoardStates ==
  [ranked : BOOLEAN, prepared : BOOLEAN, dismissed : BOOLEAN, done : BOOLEAN, reactivated : BOOLEAN,
   updated : Int, comments : Int, baseUpdated : Int, baseComments : Int]
\* A word sets both marks, another event neither.
Marks(x, e, y) ==
  IF e.type \in WordTypes THEN (y.done <=> e.type = "done") /\ (y.dismissed <=> e.type = "dismissed")
  ELSE (y.done <=> x.done) /\ (y.dismissed <=> x.dismissed)

LEMMA ApplyEventMarks ==
  ASSUME NEW s \in FeedStates, NEW e \in FbEvents
  PROVE  ApplyEvent(s, e) \in FeedStates /\ Marks(s, e, ApplyEvent(s, e))
<1> DEFINE at == e.at
           c == IF e.comments # None THEN e.comments ELSE s.comments
           known == [s EXCEPT !.last = at, !.comments = c]
           t == ApplyEvent(s, e)
           dn == e.type = "done"
           ds == e.type = "dismissed"
<1>1. at \in Nat /\ e.comments \in Int /\ s.comments \in Int /\ e.type \in EventTypes
  BY DEF FbEvents, FeedStates
<1>2. at \in Int /\ c \in Int
  BY <1>1
<1>3. dn \in BOOLEAN /\ ds \in BOOLEAN
  OBVIOUS
<1> HIDE DEF at, c
<1>4. known \in FeedStates /\ known.done = s.done /\ known.dismissed = s.dismissed
  BY <1>2 DEF FeedStates
<1>5. known.shown \in Nat /\ known.read \in Nat /\ known.prepared \in Nat
  <2> HIDE DEF known
  <2> QED
    BY <1>4 DEF FeedStates
<1>6. t = CASE e.type = "shown" -> [known EXCEPT !.shown = known.shown + 1, !.lastShown = at]
            [] e.type = "read" -> [known EXCEPT !.read = known.read + 1, !.lastRead = at]
            [] e.type = "prepared" -> [known EXCEPT !.prepared = known.prepared + 1, !.lastPrepared = at]
            [] OTHER -> [known EXCEPT !.done = dn, !.dismissed = ds]
  <2>1. t = LET k == [s EXCEPT !.last = e.at, !.comments = IF e.comments # None THEN e.comments ELSE @] IN
            CASE e.type = "shown" -> [k EXCEPT !.shown = @ + 1, !.lastShown = e.at]
              [] e.type = "read" -> [k EXCEPT !.read = @ + 1, !.lastRead = e.at]
              [] e.type = "prepared" -> [k EXCEPT !.prepared = @ + 1, !.lastPrepared = e.at]
              [] OTHER -> [k EXCEPT !.done = e.type = "done", !.dismissed = e.type = "dismissed"]
    BY DEF ApplyEvent
  <2>2. known = [s EXCEPT !.last = e.at, !.comments = IF e.comments # None THEN e.comments ELSE @]
    BY DEF at, c, FeedStates
  <2> HIDE DEF t, known
  <2> QED
    BY <2>1, <2>2 DEF at
<1> HIDE DEF known, t
<1>7. CASE e.type = "shown"
  <2> DEFINE n == known.shown + 1
  <2>1. n \in Nat /\ t = [known EXCEPT !.shown = n, !.lastShown = at]
    BY <1>5, <1>6, <1>7
  <2> HIDE DEF n
  <2>2. t \in FeedStates /\ t.done = known.done /\ t.dismissed = known.dismissed
    BY <1>2, <1>4, <2>1 DEF FeedStates
  <2> QED
    BY <1>4, <1>7, <2>2 DEF Marks, WordTypes, t
<1>8. CASE e.type = "read"
  <2> DEFINE n == known.read + 1
  <2>1. n \in Nat /\ t = [known EXCEPT !.read = n, !.lastRead = at]
    BY <1>5, <1>6, <1>8
  <2> HIDE DEF n
  <2>2. t \in FeedStates /\ t.done = known.done /\ t.dismissed = known.dismissed
    BY <1>2, <1>4, <2>1 DEF FeedStates
  <2> QED
    BY <1>4, <1>8, <2>2 DEF Marks, WordTypes, t
<1>9. CASE e.type = "prepared"
  <2> DEFINE n == known.prepared + 1
  <2>1. n \in Nat /\ t = [known EXCEPT !.prepared = n, !.lastPrepared = at]
    BY <1>5, <1>6, <1>9
  <2> HIDE DEF n
  <2>2. t \in FeedStates /\ t.done = known.done /\ t.dismissed = known.dismissed
    BY <1>2, <1>4, <2>1 DEF FeedStates
  <2> QED
    BY <1>4, <1>9, <2>2 DEF Marks, WordTypes, t
<1>10. CASE e.type \in WordTypes
  <2>1. t = [known EXCEPT !.done = dn, !.dismissed = ds]
    BY <1>6, <1>10 DEF WordTypes
  <2> HIDE DEF dn, ds
  <2>2. t \in FeedStates /\ t.done = dn /\ t.dismissed = ds
    BY <1>3, <1>4, <2>1 DEF FeedStates
  <2> QED
    BY <1>10, <2>2 DEF Marks, t, dn, ds
<1> QED
  BY <1>1, <1>7, <1>8, <1>9, <1>10 DEF EventTypes

LEMMA ApplyToBoardMarks ==
  ASSUME NEW f \in BoardStates, NEW e \in FbEvents
  PROVE  LET t == ApplyToBoard(f, e) IN
         /\ t \in BoardStates /\ Marks(f, e, t)
         /\ t.reactivated <=> f.reactivated \/ Reactivates(f, e)
         /\ t.updated = Known(e.updated, f.updated) /\ t.comments = Known(e.comments, f.comments)
         /\ IF e.type \in {"done", "dismissed"}
            THEN t.baseUpdated = Known(e.updated, f.updated) /\ t.baseComments = Known(e.comments, f.comments)
            ELSE t.baseUpdated = f.baseUpdated /\ t.baseComments = f.baseComments
<1> DEFINE r == f.reactivated \/ Reactivates(f, e)
           u == Known(e.updated, f.updated)
           c == Known(e.comments, f.comments)
           dn == e.type = "done"
           ds == e.type = "dismissed"
           g == [f EXCEPT !.reactivated = r]
           away == [g EXCEPT !.done = dn, !.dismissed = ds, !.baseUpdated = u, !.baseComments = c]
           h == CASE e.type \in {"shown", "read"} -> [g EXCEPT !.ranked = TRUE]
                  [] e.type = "prepared" -> [g EXCEPT !.ranked = TRUE, !.prepared = TRUE]
                  [] e.type \in {"done", "dismissed"} -> away
                  [] OTHER -> [g EXCEPT !.dismissed = FALSE, !.done = FALSE]
           t == ApplyToBoard(f, e)
<1>1. /\ f.updated \in Int /\ f.comments \in Int /\ e.updated \in Int /\ e.comments \in Int /\ e.type \in EventTypes
  BY DEF BoardStates, FbEvents
<1>2. r \in BOOLEAN /\ dn \in BOOLEAN /\ ds \in BOOLEAN
  OBVIOUS
<1>3. u \in Int /\ c \in Int
  BY <1>1 DEF Known
<1>4. t = [h EXCEPT !.updated = Known(e.updated, @), !.comments = Known(e.comments, @)]
  <2> HIDE DEF u, c
  <2> USE DEF u, c
  <2> QED
    BY DEF ApplyToBoard
<1> HIDE DEF r, u, c, dn, ds
<1>5. /\ g \in BoardStates /\ g.reactivated = r /\ g.done = f.done /\ g.dismissed = f.dismissed
      /\ g.updated = f.updated /\ g.comments = f.comments
      /\ g.baseUpdated = f.baseUpdated /\ g.baseComments = f.baseComments
  BY <1>2 DEF BoardStates
<1> HIDE DEF g
<1>6. /\ away \in BoardStates /\ away.reactivated = r /\ away.done = dn /\ away.dismissed = ds
      /\ away.updated = f.updated /\ away.comments = f.comments
      /\ away.baseUpdated = u /\ away.baseComments = c
  BY <1>2, <1>3, <1>5 DEF BoardStates
<1> HIDE DEF away
<1>7. /\ h \in BoardStates /\ h.reactivated = r /\ h.updated = f.updated /\ h.comments = f.comments
      /\ Marks(f, e, h)
      /\ IF e.type \in {"done", "dismissed"} THEN h.baseUpdated = u /\ h.baseComments = c
         ELSE h.baseUpdated = f.baseUpdated /\ h.baseComments = f.baseComments
  <2>1. CASE e.type \in {"shown", "read"}
    <3>1. h = [g EXCEPT !.ranked = TRUE]
      BY <2>1
    <3> HIDE DEF h
    <3>2. /\ h \in BoardStates /\ h.reactivated = g.reactivated /\ h.updated = g.updated /\ h.comments = g.comments
          /\ h.done = g.done /\ h.dismissed = g.dismissed
          /\ h.baseUpdated = g.baseUpdated /\ h.baseComments = g.baseComments
      BY <1>5, <3>1 DEF BoardStates
    <3> QED
      BY <1>5, <2>1, <3>2 DEF Marks, WordTypes
  <2>2. CASE e.type = "prepared"
    <3>1. h = [g EXCEPT !.ranked = TRUE, !.prepared = TRUE]
      BY <2>2
    <3> HIDE DEF h
    <3>2. /\ h \in BoardStates /\ h.reactivated = g.reactivated /\ h.updated = g.updated /\ h.comments = g.comments
          /\ h.done = g.done /\ h.dismissed = g.dismissed
          /\ h.baseUpdated = g.baseUpdated /\ h.baseComments = g.baseComments
      BY <1>5, <3>1 DEF BoardStates
    <3> QED
      BY <1>5, <2>2, <3>2 DEF Marks, WordTypes
  <2>3. CASE e.type \in {"done", "dismissed"}
    <3>1. h = away
      BY <2>3
    <3> HIDE DEF h
    <3>2. Marks(f, e, h)
      BY <1>6, <2>3, <3>1 DEF Marks, WordTypes, dn, ds
    <3> QED
      BY <1>6, <2>3, <3>1, <3>2
  <2>4. CASE e.type = "restored"
    <3>1. h = [g EXCEPT !.dismissed = FALSE, !.done = FALSE]
      BY <2>4
    <3> HIDE DEF h
    <3>2. /\ h \in BoardStates /\ h.reactivated = g.reactivated /\ h.updated = g.updated /\ h.comments = g.comments
          /\ ~h.done /\ ~h.dismissed
          /\ h.baseUpdated = g.baseUpdated /\ h.baseComments = g.baseComments
      BY <1>5, <3>1 DEF BoardStates
    <3> QED
      BY <1>5, <2>4, <3>2 DEF Marks, WordTypes
  <2> QED
    BY <1>1, <2>1, <2>2, <2>3, <2>4 DEF EventTypes, WordTypes
<1> HIDE DEF h, t
<1>8. t = [h EXCEPT !.updated = u, !.comments = c]
  <2>1. Known(e.updated, h.updated) = u /\ Known(e.comments, h.comments) = c
    BY <1>7 DEF u, c
  <2> QED
    BY <1>4, <1>7, <2>1 DEF BoardStates
<1>9. /\ t \in BoardStates /\ t.updated = u /\ t.comments = c /\ t.reactivated = h.reactivated
      /\ t.done = h.done /\ t.dismissed = h.dismissed
      /\ t.baseUpdated = h.baseUpdated /\ t.baseComments = h.baseComments
  BY <1>3, <1>7, <1>8 DEF BoardStates
<1>10. Marks(f, e, t)
  BY <1>7, <1>9 DEF Marks
<1>11. t.reactivated = r
  BY <1>7, <1>9
<1> QED
  BY <1>7, <1>9, <1>10, <1>11 DEF t, r, u, c
-----------------------------------------------------------------------------
(* The folds, event by event.                                                 *)

\* The states the feed goes through, event by event.
Counted(policy, x, e) == IF Includes(policy, e) THEN ApplyEvent(x, e) ELSE x
FeedStepsBy(policy, a, s) ==
  /\ a \in [0..Len(s) -> FeedStates] /\ a[0] = NoState
  /\ \A k \in 1..Len(s) : a[k] = Counted(policy, a[k - 1], s[k])
LEMMA FeedFoldBy ==
  ASSUME NEW policy, NEW entries, ByTime(entries) \in Logs
  PROVE  \E a : FeedStepsBy(policy, a, ByTime(entries)) /\ StateOf(entries, policy) = a[Len(ByTime(entries))]
<1> DEFINE s == ByTime(entries)
           n == Len(s)
           step == [p \in (1..n) \X FeedStates |-> Counted(policy, p[2], s[p[1]])]
           Iter(f) ==
             f = [t \in SUBSET (1..n) |->
                    IF t = {} THEN NoState
                    ELSE IF Includes(policy, s[Max(t)]) THEN ApplyEvent(f[t \ {Max(t)}], s[Max(t)]) ELSE f[t \ {Max(t)}]]
           iter == CHOOSE f : Iter(f)
<1>1. n \in Nat /\ DOMAIN s = 1..n /\ \A k \in 1..n : s[k] \in FbEvents
  BY DEF Logs
<1>2. NoState \in FeedStates
  BY DEF NoState, FeedStates, None
<1>3. StateOf(entries, policy) = FoldLeft(LAMBDA x, e : IF Includes(policy, e) THEN ApplyEvent(x, e) ELSE x, NoState, s)
  BY DEF StateOf
<1> HIDE DEF n, s
<1>4. step \in [(1..n) \X FeedStates -> FeedStates]
  <2>1. ASSUME NEW p \in (1..n) \X FeedStates PROVE Counted(policy, p[2], s[p[1]]) \in FeedStates
    <3>1. p[2] \in FeedStates /\ s[p[1]] \in FbEvents
      BY <1>1
    <3> QED
      BY <3>1, ApplyEventMarks DEF Counted
  <2> QED
    BY <2>1
<1>5. \A t \in SUBSET (1..n), x \in FeedStates : t # {} => step[<<Max(t), x>>] = Counted(policy, x, s[Max(t)])
  <2> SUFFICES ASSUME NEW t \in SUBSET (1..n), NEW x \in FeedStates, t # {} PROVE step[<<Max(t), x>>] = Counted(policy, x, s[Max(t)])
    OBVIOUS
  <2>1. Max(t) \in 1..n
    BY <1>1, MaxOf
  <2> HIDE DEF Max
  <2> QED
    BY <2>1
<1>6. Iter(iter)
  <2>1. PICK f : IsFold(f, n, FeedStates, NoState, step)
    <3> HIDE DEF step
    <3> QED
      BY <1>1, <1>2, <1>4, FoldExists
  <2>2. f \in [SUBSET (1..n) -> FeedStates]
    BY <2>1 DEF IsFold
  <2>3. \A t \in SUBSET (1..n) : f[t] = IF t = {} THEN NoState ELSE Counted(policy, f[t \ {Max(t)}], s[Max(t)])
    <3> SUFFICES ASSUME NEW t \in SUBSET (1..n)
                 PROVE  f[t] = IF t = {} THEN NoState ELSE Counted(policy, f[t \ {Max(t)}], s[Max(t)])
      OBVIOUS
    <3>1. f[t \ {Max(t)}] \in FeedStates
      BY <2>2
    <3>2. f[t] = IF t = {} THEN NoState ELSE step[<<Max(t), f[t \ {Max(t)}]>>]
      BY <2>1 DEF IsFold
    <3> HIDE DEF step
    <3> QED
      BY <1>5, <3>1, <3>2
  <2>4. Iter(f)
    BY <2>2, <2>3 DEF Counted
  <2> HIDE DEF Iter
  <2> QED
    BY <2>4
<1>7. FoldLeft(LAMBDA x, e : IF Includes(policy, e) THEN ApplyEvent(x, e) ELSE x, NoState, s) = iter[1..n]
  BY <1>1 DEF FoldLeft, MapThenFoldSet
<1>8. TakesApart(iter, n, FeedStates, NoState, step)
  <2> HIDE DEF iter, step
  <2>1. \A t \in SUBSET (1..n) : iter[t] = IF t = {} THEN NoState ELSE Counted(policy, iter[t \ {Max(t)}], s[Max(t)])
    BY <1>6 DEF Counted
  <2> QED
    BY <1>5, <2>1 DEF TakesApart
<1>9. PICK a : Accumulates(a, n, FeedStates, NoState, step, iter[1..n])
  <2> HIDE DEF iter, step
  <2> QED
    BY <1>1, <1>2, <1>4, <1>8, FoldSteps
<1>10. a \in [0..n -> FeedStates] /\ a[0] = NoState /\ a[n] = iter[1..n] /\ \A k \in 1..n : a[k] = step[<<k, a[k - 1]>>]
  <2> HIDE DEF iter, step
  <2> QED
    BY <1>9 DEF Accumulates
<1> HIDE DEF iter
<1>11. ASSUME NEW k \in 1..n PROVE a[k] = Counted(policy, a[k - 1], s[k])
  <2>1. k - 1 \in 0..n /\ a[k - 1] \in FeedStates
    BY <1>1, <1>10
  <2> QED
    BY <1>10, <2>1
<1>12. FeedStepsBy(policy, a, s)
  BY <1>10, <1>11 DEF FeedStepsBy, n
<1> QED
  BY <1>3, <1>7, <1>10, <1>12 DEF s, n

\* Under the legacy policy every event counts.
FeedSteps(a, s) ==
  /\ a \in [0..Len(s) -> FeedStates] /\ a[0] = NoState
  /\ \A k \in 1..Len(s) : a[k] = ApplyEvent(a[k - 1], s[k])
LEMMA FeedFold ==
  ASSUME NEW entries, ByTime(entries) \in Logs
  PROVE  \E a : FeedSteps(a, ByTime(entries)) /\ StateOf(entries, "legacy") = a[Len(ByTime(entries))]
<1>1. PICK a : FeedStepsBy("legacy", a, ByTime(entries)) /\ StateOf(entries, "legacy") = a[Len(ByTime(entries))]
  BY FeedFoldBy
<1>2. FeedSteps(a, ByTime(entries))
  BY <1>1 DEF FeedStepsBy, FeedSteps, Counted, Includes
<1> QED
  BY <1>1, <1>2

\* The facts the board goes through.
Folded(entries) == FoldLeft(ApplyToBoard, NoFacts, ByTime(entries))
BoardSteps(a, s) ==
  /\ a \in [0..Len(s) -> BoardStates] /\ a[0] = NoFacts
  /\ \A k \in 1..Len(s) : a[k] = ApplyToBoard(a[k - 1], s[k])
LEMMA BoardFold ==
  ASSUME NEW entries, ByTime(entries) \in Logs
  PROVE  \E a : BoardSteps(a, ByTime(entries)) /\ Folded(entries) = a[Len(ByTime(entries))]
<1> DEFINE s == ByTime(entries)
           n == Len(s)
           step == [p \in (1..n) \X BoardStates |-> ApplyToBoard(p[2], s[p[1]])]
           Iter(f) == f = [t \in SUBSET (1..n) |-> IF t = {} THEN NoFacts ELSE ApplyToBoard(f[t \ {Max(t)}], s[Max(t)])]
           iter == CHOOSE f : Iter(f)
<1>1. n \in Nat /\ DOMAIN s = 1..n /\ \A k \in 1..n : s[k] \in FbEvents
  BY DEF Logs
<1>2. NoFacts \in BoardStates
  BY DEF NoFacts, BoardStates, None
<1>3. Folded(entries) = FoldLeft(ApplyToBoard, NoFacts, s)
  BY DEF Folded
<1> HIDE DEF n, s
<1>4. step \in [(1..n) \X BoardStates -> BoardStates]
  <2>1. ASSUME NEW p \in (1..n) \X BoardStates PROVE ApplyToBoard(p[2], s[p[1]]) \in BoardStates
    <3>1. p[2] \in BoardStates /\ s[p[1]] \in FbEvents
      BY <1>1
    <3> QED
      BY <3>1, ApplyToBoardMarks
  <2> QED
    BY <2>1
<1>5. \A t \in SUBSET (1..n), x \in BoardStates : t # {} => step[<<Max(t), x>>] = ApplyToBoard(x, s[Max(t)])
  <2> SUFFICES ASSUME NEW t \in SUBSET (1..n), NEW x \in BoardStates, t # {} PROVE step[<<Max(t), x>>] = ApplyToBoard(x, s[Max(t)])
    OBVIOUS
  <2>1. Max(t) \in 1..n
    BY <1>1, MaxOf
  <2> HIDE DEF Max
  <2> QED
    BY <2>1
<1>6. Iter(iter)
  <2>1. PICK f : IsFold(f, n, BoardStates, NoFacts, step)
    <3> HIDE DEF step
    <3> QED
      BY <1>1, <1>2, <1>4, FoldExists
  <2>2. f \in [SUBSET (1..n) -> BoardStates]
    BY <2>1 DEF IsFold
  <2>3. \A t \in SUBSET (1..n) : f[t] = IF t = {} THEN NoFacts ELSE ApplyToBoard(f[t \ {Max(t)}], s[Max(t)])
    <3> SUFFICES ASSUME NEW t \in SUBSET (1..n)
                 PROVE  f[t] = IF t = {} THEN NoFacts ELSE ApplyToBoard(f[t \ {Max(t)}], s[Max(t)])
      OBVIOUS
    <3>1. f[t \ {Max(t)}] \in BoardStates
      BY <2>2
    <3>2. f[t] = IF t = {} THEN NoFacts ELSE step[<<Max(t), f[t \ {Max(t)}]>>]
      BY <2>1 DEF IsFold
    <3> HIDE DEF step
    <3> QED
      BY <1>5, <3>1, <3>2
  <2>4. Iter(f)
    BY <2>2, <2>3
  <2> HIDE DEF Iter
  <2> QED
    BY <2>4
<1>7. FoldLeft(ApplyToBoard, NoFacts, s) = iter[1..n]
  BY <1>1 DEF FoldLeft, MapThenFoldSet
<1>8. TakesApart(iter, n, BoardStates, NoFacts, step)
  <2> HIDE DEF iter, step
  <2>1. \A t \in SUBSET (1..n) : iter[t] = IF t = {} THEN NoFacts ELSE ApplyToBoard(iter[t \ {Max(t)}], s[Max(t)])
    BY <1>6
  <2> QED
    BY <1>5, <2>1 DEF TakesApart
<1>9. PICK a : Accumulates(a, n, BoardStates, NoFacts, step, iter[1..n])
  <2> HIDE DEF iter, step
  <2> QED
    BY <1>1, <1>2, <1>4, <1>8, FoldSteps
<1>10. a \in [0..n -> BoardStates] /\ a[0] = NoFacts /\ a[n] = iter[1..n] /\ \A k \in 1..n : a[k] = step[<<k, a[k - 1]>>]
  <2> HIDE DEF iter, step
  <2> QED
    BY <1>9 DEF Accumulates
<1> HIDE DEF iter
<1>11. ASSUME NEW k \in 1..n PROVE a[k] = ApplyToBoard(a[k - 1], s[k])
  <2>1. k - 1 \in 0..n /\ a[k - 1] \in BoardStates
    BY <1>1, <1>10
  <2> QED
    BY <1>10, <2>1
<1>12. BoardSteps(a, s)
  BY <1>10, <1>11 DEF BoardSteps, n
<1> QED
  BY <1>3, <1>7, <1>10, <1>12 DEF s, n
-----------------------------------------------------------------------------
(* The last word.                                                             *)

\* What the first k events say: nothing, or what the last word among them says.
SaidUpTo(s, k, x) ==
  \/ (\A i \in 1..k : s[i].type \notin WordTypes) /\ ~x.done /\ ~x.dismissed
  \/ \E w \in 1..k :
       /\ s[w].type \in WordTypes /\ \A i \in 1..k : s[i].type \in WordTypes => i <= w
       /\ x.done <=> s[w].type = "done"
       /\ x.dismissed <=> s[w].type = "dismissed"
MarkedAlong(a, s) ==
  /\ ~a[0].done /\ ~a[0].dismissed
  /\ \A k \in 1..Len(s) : Marks(a[k - 1], s[k], a[k])

LEMMA SaidGrows ==
  ASSUME NEW s \in Logs, NEW k \in Nat, k + 1 <= Len(s), NEW x, NEW y,
         SaidUpTo(s, k, x), Marks(x, s[k + 1], y)
  PROVE  SaidUpTo(s, k + 1, y)
<1>1. CASE s[k + 1].type \in WordTypes
  <2>1. (y.done <=> s[k + 1].type = "done") /\ (y.dismissed <=> s[k + 1].type = "dismissed")
    BY <1>1 DEF Marks
  <2>2. k + 1 \in 1..k + 1 /\ \A i \in 1..k + 1 : i <= k + 1
    OBVIOUS
  <2> QED
    BY <1>1, <2>1, <2>2 DEF SaidUpTo
<1>2. CASE s[k + 1].type \notin WordTypes
  <2>1. (y.done <=> x.done) /\ (y.dismissed <=> x.dismissed)
    BY <1>2 DEF Marks
  <2>2. \A i \in 1..k + 1 : i \in 1..k \/ i = k + 1
    OBVIOUS
  <2>3. CASE (\A i \in 1..k : s[i].type \notin WordTypes) /\ ~x.done /\ ~x.dismissed
    <3>1. \A i \in 1..k + 1 : s[i].type \notin WordTypes
      BY <1>2, <2>2, <2>3
    <3> QED
      BY <2>1, <2>3, <3>1 DEF SaidUpTo
  <2>4. ASSUME NEW w \in 1..k, s[w].type \in WordTypes, \A i \in 1..k : s[i].type \in WordTypes => i <= w,
               x.done <=> s[w].type = "done", x.dismissed <=> s[w].type = "dismissed"
        PROVE  SaidUpTo(s, k + 1, y)
    <3>1. w \in 1..k + 1 /\ \A i \in 1..k + 1 : s[i].type \in WordTypes => i <= w
      BY <1>2, <2>2, <2>4
    <3>2. (y.done <=> s[w].type = "done") /\ (y.dismissed <=> s[w].type = "dismissed")
      BY <2>1, <2>4
    <3> QED
      BY <2>4, <3>1, <3>2 DEF SaidUpTo
  <2> QED
    BY <2>3, <2>4 DEF SaidUpTo
<1> QED
  BY <1>1, <1>2

LEMMA SaidAll ==
  ASSUME NEW s \in Logs, NEW a, MarkedAlong(a, s)
  PROVE  SaidUpTo(s, Len(s), a[Len(s)])
<1> DEFINE n == Len(s)
           P(k) == k <= n => SaidUpTo(s, k, a[k])
           T == {k \in Nat : P(k)}
<1>1. n \in Nat
  BY DEF Logs
<1>2. P(0)
  <2>1. 1..0 = {} /\ ~a[0].done /\ ~a[0].dismissed
    BY DEF MarkedAlong
  <2> QED
    BY <2>1 DEF SaidUpTo
<1>3. ASSUME NEW k \in Nat, P(k) PROVE P(k + 1)
  <2> SUFFICES ASSUME k + 1 <= n PROVE SaidUpTo(s, k + 1, a[k + 1])
    OBVIOUS
  <2>1. k <= n /\ k + 1 \in 1..n /\ (k + 1) - 1 = k
    BY <1>1
  <2>2. Marks(a[k], s[k + 1], a[k + 1])
    BY <2>1 DEF MarkedAlong
  <2>3. SaidUpTo(s, k, a[k])
    BY <1>3, <2>1
  <2> QED
    BY <2>2, <2>3, SaidGrows
<1>4. Nat \subseteq T
  <2> HIDE DEF P
  <2>1. 0 \in T /\ \A k \in Nat : k \in T => k + 1 \in T
    BY <1>2, <1>3
  <2> HIDE DEF T
  <2> QED
    BY <2>1, SetInduction
<1>5. n <= n /\ n \in T
  BY <1>1, <1>4
<1> QED
  BY <1>5

LEMMA LastWordSays ==
  ASSUME NEW entries, NEW s, Sorted(s, entries), NEW x, SaidUpTo(s, Len(s), x)
  PROVE  IF Words(entries) = {} THEN ~x.done /\ ~x.dismissed
         ELSE /\ LastWord(entries) \in Words(entries)
              /\ x.done <=> LastWord(entries).type = "done"
              /\ x.dismissed <=> LastWord(entries).type = "dismissed"
<1> DEFINE n == Len(s)
<1>1. n \in Nat /\ DOMAIN s = 1..n /\ \A i \in 1..n : s[i].at \in Nat
  BY DEF Sorted, Logs, FbEvents
<1>2. Range(entries) = {s[i] : i \in 1..n}
  BY <1>1 DEF Sorted, Range
<1>3. Words(entries) = {e \in Range(entries) : e.type \in WordTypes}
  BY DEF Words, WordTypes
<1>4. CASE (\A i \in 1..n : s[i].type \notin WordTypes) /\ ~x.done /\ ~x.dismissed
  <2>1. Words(entries) = {}
    BY <1>2, <1>3, <1>4
  <2> QED
    BY <1>4, <2>1
<1>5. ASSUME NEW w \in 1..n, s[w].type \in WordTypes, \A i \in 1..n : s[i].type \in WordTypes => i <= w,
             x.done <=> s[w].type = "done", x.dismissed <=> s[w].type = "dismissed"
      PROVE  /\ Words(entries) # {} /\ LastWord(entries) \in Words(entries)
             /\ x.done <=> LastWord(entries).type = "done"
             /\ x.dismissed <=> LastWord(entries).type = "dismissed"
  <2> DEFINE e == s[w]
             l == LastWord(entries)
  <2>1. e \in Words(entries)
    BY <1>2, <1>3, <1>5
  <2>2. ASSUME NEW f \in Words(entries) PROVE f.at <= e.at /\ f.at \in Nat
    <3>1. PICK i \in 1..n : f = s[i] /\ s[i].type \in WordTypes
      BY <1>2, <1>3
    <3>2. i <= w
      BY <1>5, <3>1
    <3>3. CASE i = w
      BY <1>1, <3>1, <3>3
    <3>4. CASE i < w
      BY <1>1, <3>1, <3>4 DEF Sorted
    <3> QED
      BY <3>2, <3>3, <3>4
  <2>3. l \in Words(entries) /\ \A f \in Words(entries) : f.at <= l.at
    BY <2>1, <2>2 DEF LastWord
  <2> HIDE DEF l
  <2>4. l.at = e.at
    <3>1. l.at <= e.at /\ e.at <= l.at /\ l.at \in Nat /\ e.at \in Nat
      BY <2>1, <2>2, <2>3
    <3> HIDE DEF e
    <3> QED
      BY <3>1
  <2>5. l \in Range(s) /\ e \in Range(s)
    BY <1>3, <2>1, <2>3 DEF Sorted
  <2>6. l = e
    <3> HIDE DEF e
    <3> QED
      BY <2>4, <2>5 DEF Sorted
  <2> QED
    BY <1>5, <2>1, <2>3, <2>6 DEF l
<1> QED
  BY <1>4, <1>5 DEF SaidUpTo

LEMMA SaidVisibility ==
  ASSUME NEW x, NEW facts, NEW now
  PROVE  Feedback(x, facts, now).visibility =
           IF x.done \/ x.dismissed THEN (IF x.done THEN "hidden_done" ELSE "hidden_dismissed") ELSE "visible"
  BY DEF Feedback

\* What the user said last counts.
LEMMA LastWordCountsStill == FeedInv => LastWordCounts
<1> SUFFICES ASSUME FeedInv, Words(events) # {}
             PROVE  LET visibility == Visibility(StateOf(events, "legacy"), seen, time.day) IN
                    IF LastWord(events).type = "restored" THEN visibility # "hidden_dismissed"
                    ELSE /\ visibility = IF LastWord(events).type = "done" THEN "hidden_done" ELSE "hidden_dismissed"
                         /\ ~Displayable(visibility, TRUE)
  BY DEF LastWordCounts
<1> DEFINE s == ByTime(events)
           x == StateOf(events, "legacy")
           v == Visibility(x, seen, time.day)
           said == Feedback(x, seen, time.day).visibility
           l == LastWord(events)
<1>1. Sorted(s, events) /\ s \in Logs
  BY ByTimeSorts DEF FeedInv, FeedTyped, Stamped, Sorted
<1>2. item.quality \in {"visible", "hidden_quality", "hidden_filtered", "hidden_done"}
  BY FeedbackAssumption DEF FeedInv, FeedTyped
<1>3. PICK a : FeedSteps(a, s) /\ x = a[Len(s)]
  BY <1>1, FeedFold
<1> HIDE DEF s, x
<1>4. MarkedAlong(a, s)
  <2>1. Len(s) \in Nat /\ \A k \in 1..Len(s) : s[k] \in FbEvents /\ k - 1 \in 0..Len(s)
    BY <1>1 DEF Logs
  <2>2. ASSUME NEW k \in 1..Len(s) PROVE Marks(a[k - 1], s[k], a[k])
    <3>1. a[k - 1] \in FeedStates /\ s[k] \in FbEvents /\ a[k] = ApplyEvent(a[k - 1], s[k])
      BY <1>3, <2>1 DEF FeedSteps
    <3> QED
      BY <3>1, ApplyEventMarks
  <2>3. ~a[0].done /\ ~a[0].dismissed
    BY <1>3 DEF FeedSteps, NoState
  <2> QED
    BY <2>2, <2>3 DEF MarkedAlong
<1>5. /\ l \in Words(events)
      /\ x.done <=> l.type = "done"
      /\ x.dismissed <=> l.type = "dismissed"
  BY <1>1, <1>3, <1>4, SaidAll, LastWordSays
<1>6. l.type \in WordTypes
  BY <1>5 DEF Words, WordTypes
<1>7. said = IF l.type = "done" THEN "hidden_done" ELSE IF l.type = "dismissed" THEN "hidden_dismissed" ELSE "visible"
  BY <1>5, SaidVisibility
<1> HIDE DEF said, l
<1>8. v = LET shown == IF said = "visible" /\ item.filtered THEN "hidden_filtered" ELSE said IN
          IF item.quality # "visible" /\ (shown = "visible" \/ (item.decided /\ shown = "hidden_filtered"))
          THEN item.quality ELSE shown
  BY DEF Visibility, said
<1> HIDE DEF v
<1>9. CASE l.type = "restored"
  <2>1. said = "visible"
    BY <1>7, <1>9
  <2>2. v # "hidden_dismissed"
    BY <1>2, <1>8, <2>1
  <2> QED
    BY <1>9, <2>2 DEF v, l, x
<1>10. CASE l.type \in {"done", "dismissed"}
  <2>1. said = IF l.type = "done" THEN "hidden_done" ELSE "hidden_dismissed"
    BY <1>7, <1>10
  <2>2. v = said
    BY <1>8, <1>10, <2>1
  <2>3. ~Displayable(v, TRUE)
    BY <1>10, <2>1, <2>2 DEF Displayable
  <2> QED
    BY <1>10, <2>1, <2>2, <2>3 DEF v, l, x
<1> QED
  BY <1>6, <1>9, <1>10 DEF WordTypes

\* What is known to be closed is not displayed.
LEMMA ClosedHides == ClosedStaysHidden
<1> SUFFICES ASSUME item.decided, item.quality = "hidden_done"
             PROVE  ~Displayable(Visibility(StateOf(events, "codex"), seen, time.day), TRUE)
  BY DEF ClosedStaysHidden
<1> DEFINE x == StateOf(events, "codex")
           v == Visibility(x, seen, time.day)
           said == Feedback(x, seen, time.day).visibility
<1>1. said \in {"hidden_done", "hidden_dismissed", "visible"}
  <2> HIDE DEF x
  <2> QED
    BY SaidVisibility
<1> HIDE DEF said
<1>2. v = LET shown == IF said = "visible" /\ item.filtered THEN "hidden_filtered" ELSE said IN
          IF item.quality # "visible" /\ (shown = "visible" \/ (item.decided /\ shown = "hidden_filtered"))
          THEN item.quality ELSE shown
  BY DEF Visibility, said
<1> HIDE DEF v
<1>3. v \in {"hidden_done", "hidden_dismissed"}
  BY <1>1, <1>2
<1> QED
  BY <1>3 DEF Displayable, v
-----------------------------------------------------------------------------
(* The way back.                                                              *)

AwayTypes == {"done", "dismissed"}
\* Among the first k events one bears this value.
KnownBefore(s, k, value) ==
  /\ value.updated # None => \E i \in 1..k : s[i].updated = value.updated
  /\ value.comments # None => \E i \in 1..k : s[i].comments = value.comments
\* The facts the board keeps of the first k events were known before or with them; those
\* it keeps of when the issue was put away were known before that.
Grounded(s, k, x) ==
  /\ KnownBefore(s, k, [updated |-> x.updated, comments |-> x.comments])
  /\ x.done \/ x.dismissed =>
       \E w \in 1..k : s[w].type \in AwayTypes
                       /\ KnownBefore(s, w - 1, [updated |-> x.baseUpdated, comments |-> x.baseComments])
\* After one of the first k events put the issue away, another brought it back.
Returned(s, k) ==
  \E w, b \in 1..k :
    /\ w < b /\ s[w].type \in AwayTypes
    /\ \/ s[b].type = "restored"
       \/ s[b].updated # None /\ \E i \in 1..w - 1 : s[i].updated # None /\ s[b].updated > s[i].updated
       \/ s[b].comments # None /\ \E i \in 1..w - 1 : s[i].comments # None /\ s[b].comments > s[i].comments
Caused(s, k, x) == Grounded(s, k, x) /\ (x.reactivated => Returned(s, k))

LEMMA KnownMore ==
  ASSUME NEW s, NEW k \in Nat, NEW x, KnownBefore(s, k, [updated |-> x.updated, comments |-> x.comments])
  PROVE  LET e == s[k + 1] IN
         KnownBefore(s, k + 1, [updated |-> Known(e.updated, x.updated), comments |-> Known(e.comments, x.comments)])
<1> DEFINE e == s[k + 1]
           u == Known(e.updated, x.updated)
           c == Known(e.comments, x.comments)
<1>1. \A i \in 1..k : i \in 1..k + 1
  OBVIOUS
<1>2. k + 1 \in 1..k + 1
  OBVIOUS
<1>3. /\ x.updated # None => \E i \in 1..k : s[i].updated = x.updated
      /\ x.comments # None => \E i \in 1..k : s[i].comments = x.comments
  BY DEF KnownBefore
<1>4. u # None => \E i \in 1..k + 1 : s[i].updated = u
  BY <1>1, <1>2, <1>3 DEF Known
<1>5. c # None => \E i \in 1..k + 1 : s[i].comments = c
  BY <1>1, <1>2, <1>3 DEF Known
<1> HIDE DEF u, c
<1>6. KnownBefore(s, k + 1, [updated |-> u, comments |-> c])
  BY <1>4, <1>5 DEF KnownBefore
<1> QED
  BY <1>6 DEF u, c

LEMMA ReturnedMore == ASSUME NEW s, NEW k \in Nat, Returned(s, k) PROVE Returned(s, k + 1)
<1>1. \A i \in 1..k : i \in 1..k + 1
  OBVIOUS
<1> QED
  BY <1>1 DEF Returned

LEMMA CauseGrows ==
  ASSUME NEW s \in Logs, NEW k \in Nat, k + 1 <= Len(s), NEW x \in BoardStates, NEW y \in BoardStates,
         Caused(s, k, x), y = ApplyToBoard(x, s[k + 1])
  PROVE  Caused(s, k + 1, y)
<1> DEFINE e == s[k + 1]
<1>1. e \in FbEvents
  <2>1. k + 1 \in 1..Len(s)
    BY DEF Logs
  <2> QED
    BY <2>1 DEF Logs
<1> HIDE DEF e
<1>2. /\ Marks(x, e, y)
      /\ y.reactivated <=> x.reactivated \/ Reactivates(x, e)
      /\ y.updated = Known(e.updated, x.updated) /\ y.comments = Known(e.comments, x.comments)
      /\ IF e.type \in AwayTypes
         THEN y.baseUpdated = Known(e.updated, x.updated) /\ y.baseComments = Known(e.comments, x.comments)
         ELSE y.baseUpdated = x.baseUpdated /\ y.baseComments = x.baseComments
  BY <1>1, ApplyToBoardMarks DEF e, AwayTypes
<1>3. /\ KnownBefore(s, k, [updated |-> x.updated, comments |-> x.comments])
      /\ x.done \/ x.dismissed =>
           \E w \in 1..k : s[w].type \in AwayTypes
                           /\ KnownBefore(s, w - 1, [updated |-> x.baseUpdated, comments |-> x.baseComments])
      /\ x.reactivated => Returned(s, k)
  BY DEF Caused, Grounded
<1>4. KnownBefore(s, k + 1, [updated |-> y.updated, comments |-> y.comments])
  BY <1>2, <1>3, KnownMore DEF e
<1>5. /\ \A i \in 1..k : i \in 1..k + 1 /\ i < k + 1
      /\ k + 1 \in 1..k + 1 /\ (k + 1) - 1 = k
  OBVIOUS
<1>6. ASSUME y.done \/ y.dismissed
      PROVE  \E w \in 1..k + 1 : s[w].type \in AwayTypes
               /\ KnownBefore(s, w - 1, [updated |-> y.baseUpdated, comments |-> y.baseComments])
  <2>1. CASE e.type \in AwayTypes
    <3>1. e.updated = None /\ e.comments = None
      BY <1>1, <2>1 DEF FbEvents, WordTypes, AwayTypes
    <3>2. y.baseUpdated = x.updated /\ y.baseComments = x.comments
      BY <1>2, <2>1, <3>1 DEF Known
    <3>3. KnownBefore(s, (k + 1) - 1, [updated |-> y.baseUpdated, comments |-> y.baseComments])
      BY <1>3, <1>5, <3>2
    <3> QED
      BY <1>5, <2>1, <3>3 DEF e
  <2>2. CASE e.type \notin AwayTypes
    <3>1. x.done \/ x.dismissed
      <4>1. CASE e.type \in WordTypes
        BY <1>2, <1>6, <2>2, <4>1 DEF Marks, AwayTypes
      <4>2. CASE e.type \notin WordTypes
        BY <1>2, <1>6, <4>2 DEF Marks
      <4> QED
        BY <4>1, <4>2
    <3>2. PICK w \in 1..k : s[w].type \in AwayTypes
            /\ KnownBefore(s, w - 1, [updated |-> x.baseUpdated, comments |-> x.baseComments])
      BY <1>3, <3>1
    <3>3. y.baseUpdated = x.baseUpdated /\ y.baseComments = x.baseComments
      BY <1>2, <2>2
    <3> QED
      BY <1>5, <3>2, <3>3
  <2> QED
    BY <2>1, <2>2
<1>7. ASSUME y.reactivated PROVE Returned(s, k + 1)
  <2>1. CASE x.reactivated
    BY <1>3, <2>1, ReturnedMore
  <2>2. CASE Reactivates(x, e)
    <3>1. /\ x.done \/ x.dismissed
          /\ \/ e.type = "restored"
             \/ e.updated # None /\ x.baseUpdated # None /\ e.updated > x.baseUpdated
             \/ e.comments # None /\ x.baseComments # None /\ e.comments > x.baseComments
      BY <2>2 DEF Reactivates
    <3>2. PICK w \in 1..k : s[w].type \in AwayTypes
            /\ KnownBefore(s, w - 1, [updated |-> x.baseUpdated, comments |-> x.baseComments])
      BY <1>3, <3>1
    <3>3. /\ x.baseUpdated # None => \E i \in 1..w - 1 : s[i].updated = x.baseUpdated
          /\ x.baseComments # None => \E i \in 1..w - 1 : s[i].comments = x.baseComments
      BY <3>2 DEF KnownBefore
    <3>4. \/ e.type = "restored"
          \/ e.updated # None /\ \E i \in 1..w - 1 : s[i].updated # None /\ e.updated > s[i].updated
          \/ e.comments # None /\ \E i \in 1..w - 1 : s[i].comments # None /\ e.comments > s[i].comments
      BY <3>1, <3>3
    <3>5. w \in 1..k + 1 /\ k + 1 \in 1..k + 1 /\ w < k + 1
      BY <1>5
    <3> QED
      BY <3>2, <3>4, <3>5 DEF Returned, e
  <2> QED
    BY <1>2, <1>7, <2>1, <2>2
<1> QED
  BY <1>4, <1>6, <1>7 DEF Caused, Grounded

LEMMA CauseAll ==
  ASSUME NEW s \in Logs, NEW a, BoardSteps(a, s)
  PROVE  Caused(s, Len(s), a[Len(s)]) /\ MarkedAlong(a, s) /\ a[Len(s)] \in BoardStates
<1> DEFINE n == Len(s)
           P(k) == k <= n => Caused(s, k, a[k])
           T == {k \in Nat : P(k)}
<1>1. n \in Nat /\ \A k \in 1..n : s[k] \in FbEvents
  BY DEF Logs
<1>2. a \in [0..n -> BoardStates] /\ a[0] = NoFacts /\ \A k \in 1..n : a[k] = ApplyToBoard(a[k - 1], s[k])
  BY DEF BoardSteps
<1> HIDE DEF n
<1>3. P(0)
  <2>1. /\ ~NoFacts.done /\ ~NoFacts.dismissed /\ ~NoFacts.reactivated
        /\ NoFacts.updated = None /\ NoFacts.comments = None
    BY DEF NoFacts
  <2> QED
    BY <1>2, <2>1 DEF Caused, Grounded, KnownBefore
<1>4. ASSUME NEW k \in Nat, P(k) PROVE P(k + 1)
  <2> SUFFICES ASSUME k + 1 <= n PROVE Caused(s, k + 1, a[k + 1])
    OBVIOUS
  <2>1. k <= n /\ k + 1 \in 1..n /\ (k + 1) - 1 = k /\ k \in 0..n /\ k + 1 \in 0..n
    BY <1>1
  <2>2. a[k] \in BoardStates /\ a[k + 1] \in BoardStates /\ a[k + 1] = ApplyToBoard(a[k], s[k + 1])
    BY <1>2, <2>1
  <2>3. Caused(s, k, a[k])
    BY <1>4, <2>1
  <2> QED
    BY <2>2, <2>3, CauseGrows DEF n
<1>5. Nat \subseteq T
  <2> HIDE DEF P
  <2>1. 0 \in T /\ \A k \in Nat : k \in T => k + 1 \in T
    BY <1>3, <1>4
  <2> HIDE DEF T
  <2> QED
    BY <2>1, SetInduction
<1>6. Caused(s, n, a[n])
  <2>1. n <= n /\ n \in T
    BY <1>1, <1>5
  <2> QED
    BY <2>1
<1>7. ASSUME NEW k \in 1..n PROVE Marks(a[k - 1], s[k], a[k])
  <2>1. k - 1 \in 0..n
    BY <1>1
  <2>2. a[k - 1] \in BoardStates /\ s[k] \in FbEvents /\ a[k] = ApplyToBoard(a[k - 1], s[k])
    BY <1>1, <1>2, <2>1
  <2> QED
    BY <2>2, ApplyToBoardMarks
<1>8. ~a[0].done /\ ~a[0].dismissed
  BY <1>2 DEF NoFacts
<1>9. n \in 0..n
  BY <1>1
<1>10. a[n] \in BoardStates
  BY <1>2, <1>9
<1> QED
  BY <1>6, <1>7, <1>8, <1>10 DEF MarkedAlong, n

\* The inbox and the tasks add nothing to what was put away and what came back.
LEMMA InboxAndTaskLeave ==
  ASSUME NEW x \in BoardStates
  PROVE  LET f == FromTask(FromInbox(x)) IN
         f.done = x.done /\ f.dismissed = x.dismissed /\ f.reactivated = x.reactivated
<1> DEFINE p == x.prepared \/ item.inbox = "ready"
           r == x.ranked \/ item.inbox = "prepare_failed"
           g == [x EXCEPT !.prepared = p, !.ranked = r]
           q == g.prepared \/ item.task.status \notin {"none", "discovered"} \/ item.task.package
           f == FromTask(FromInbox(x))
<1>1. p \in BOOLEAN /\ r \in BOOLEAN
  OBVIOUS
<1>2. FromInbox(x) = g
  BY DEF FromInbox, BoardStates
<1>3. f = [g EXCEPT !.prepared = q]
  BY <1>2 DEF FromTask, BoardStates
<1>4. q \in BOOLEAN
  OBVIOUS
<1> HIDE DEF p, r, q, f
<1>5. g \in BoardStates /\ g.done = x.done /\ g.dismissed = x.dismissed /\ g.reactivated = x.reactivated
  BY <1>1 DEF BoardStates
<1> HIDE DEF g
<1>6. f.done = g.done /\ f.dismissed = g.dismissed /\ f.reactivated = g.reactivated
  BY <1>3, <1>4, <1>5 DEF BoardStates
<1> QED
  BY <1>5, <1>6 DEF f

\* What the board makes of the log.
LEMMA BoardSays ==
  ASSUME FeedInv
  PROVE  \E s, x : /\ Sorted(s, events) /\ Caused(s, Len(s), x) /\ SaidUpTo(s, Len(s), x)
                   /\ BoardFacts(events).done = x.done /\ BoardFacts(events).dismissed = x.dismissed
                   /\ BoardFacts(events).reactivated = x.reactivated
<1> DEFINE s == ByTime(events)
           x == Folded(events)
<1>1. Sorted(s, events) /\ s \in Logs
  BY ByTimeSorts DEF FeedInv, FeedTyped, Stamped, Sorted
<1>2. PICK a : BoardSteps(a, s) /\ x = a[Len(s)]
  BY <1>1, BoardFold
<1>3. BoardFacts(events) = FromTask(FromInbox(x))
  BY DEF BoardFacts, Folded
<1> HIDE DEF s, x
<1>4. Caused(s, Len(s), x) /\ MarkedAlong(a, s) /\ x \in BoardStates
  BY <1>1, <1>2, CauseAll
<1>5. SaidUpTo(s, Len(s), x)
  BY <1>1, <1>2, <1>4, SaidAll
<1>6. /\ BoardFacts(events).done = x.done /\ BoardFacts(events).dismissed = x.dismissed
      /\ BoardFacts(events).reactivated = x.reactivated
  BY <1>3, <1>4, InboxAndTaskLeave
<1> QED
  BY <1>1, <1>4, <1>5, <1>6

LEMMA ReactivationHasCauseStill == FeedInv => ReactivationHasCause
<1> SUFFICES ASSUME FeedInv, BoardFacts(events).reactivated
             PROVE  \E away, back \in Range(events) :
                      /\ away.type \in {"done", "dismissed"} /\ away.at < back.at
                      /\ \/ back.type = "restored"
                         \/ \E known \in Range(events) : known.at < away.at
                              /\ \/ known.updated # None /\ back.updated > known.updated
                                 \/ known.comments # None /\ back.comments > known.comments
  BY DEF ReactivationHasCause, CameBack
<1>1. PICK s, x : /\ Sorted(s, events) /\ Caused(s, Len(s), x) /\ SaidUpTo(s, Len(s), x)
                  /\ BoardFacts(events).done = x.done /\ BoardFacts(events).dismissed = x.dismissed
                  /\ BoardFacts(events).reactivated = x.reactivated
  BY BoardSays
<1> DEFINE n == Len(s)
<1>2. n \in Nat /\ DOMAIN s = 1..n /\ \A i \in 1..n : s[i] \in FbEvents
  BY <1>1 DEF Sorted, Logs
<1> HIDE DEF n
<1>3. \A i \in 1..n : s[i].at \in Nat /\ (s[i].type \in WordTypes => s[i].updated = None /\ s[i].comments = None)
  BY <1>2 DEF FbEvents
<1>4. \A i \in 1..n : s[i] \in Range(s) /\ s[i] \in Range(events)
  BY <1>1, <1>2 DEF Sorted, Range
<1>5. Returned(s, n)
  BY <1>1 DEF Caused, n
<1>6. PICK w \in 1..n, b \in 1..n :
        /\ w < b /\ s[w].type \in AwayTypes
        /\ \/ s[b].type = "restored"
           \/ s[b].updated # None /\ \E i \in 1..w - 1 : s[i].updated # None /\ s[b].updated > s[i].updated
           \/ s[b].comments # None /\ \E i \in 1..w - 1 : s[i].comments # None /\ s[b].comments > s[i].comments
  BY <1>5 DEF Returned
<1>7. ASSUME NEW i \in 1..n, NEW j \in 1..n, i < j, s[i] # s[j] PROVE s[i].at < s[j].at
  <2>1. s[i].at <= s[j].at
    BY <1>1, <1>2, <1>7 DEF Sorted
  <2>2. s[i].at # s[j].at
    BY <1>1, <1>4, <1>7 DEF Sorted
  <2> QED
    BY <1>3, <2>1, <2>2
<1>8. s[w].updated = None /\ s[w].comments = None
  BY <1>3, <1>6 DEF AwayTypes, WordTypes
<1>9. s[w] # s[b]
  BY <1>6, <1>8 DEF AwayTypes
<1>10. s[w].at < s[b].at
  BY <1>6, <1>7, <1>9
<1>11. ASSUME NEW i \in 1..w - 1, s[i].updated # None \/ s[i].comments # None PROVE i \in 1..n /\ s[i].at < s[w].at
  <2>1. i \in 1..n /\ i < w
    BY <1>2
  <2>2. s[i] # s[w]
    BY <1>8, <1>11
  <2> QED
    BY <1>7, <2>1, <2>2
<1>12. s[w].type \in {"done", "dismissed"} /\ s[w] \in Range(events) /\ s[b] \in Range(events)
  BY <1>4, <1>6 DEF AwayTypes
<1>13. CASE s[b].type = "restored"
  BY <1>10, <1>12, <1>13
<1>14. ASSUME NEW i \in 1..w - 1,
              \/ s[i].updated # None /\ s[b].updated > s[i].updated
              \/ s[i].comments # None /\ s[b].comments > s[i].comments
       PROVE  \E known \in Range(events) : known.at < s[w].at
                 /\ \/ known.updated # None /\ s[b].updated > known.updated
                    \/ known.comments # None /\ s[b].comments > known.comments
  <2>1. i \in 1..n /\ s[i].at < s[w].at
    BY <1>11, <1>14
  <2>2. s[i] \in Range(events)
    BY <1>4, <2>1
  <2> QED
    BY <1>14, <2>1, <2>2
<1>15. CASE \E i \in 1..w - 1 : \/ s[i].updated # None /\ s[b].updated > s[i].updated
                                \/ s[i].comments # None /\ s[b].comments > s[i].comments
  <2>1. \E known \in Range(events) : known.at < s[w].at
          /\ \/ known.updated # None /\ s[b].updated > known.updated
             \/ known.comments # None /\ s[b].comments > known.comments
    BY <1>14, <1>15, Zenon
  <2> QED
    BY <1>10, <1>12, <2>1
<1> QED
  BY <1>6, <1>13, <1>15

LEMMA HiddenIsNotOfferedStill == FeedInv => HiddenIsNotOffered
<1> SUFFICES ASSUME FeedInv, Words(events) # {}, LastWord(events).type # "restored", ~CameBack(events)
             PROVE  ~Offered(BoardFacts(events))
  BY DEF HiddenIsNotOffered
<1>a. ~BoardFacts(events).reactivated
  BY ReactivationHasCauseStill DEF ReactivationHasCause
<1> DEFINE f == BoardFacts(events)
           l == LastWord(events)
<1>1. PICK s, x : /\ Sorted(s, events) /\ Caused(s, Len(s), x) /\ SaidUpTo(s, Len(s), x)
                  /\ f.done = x.done /\ f.dismissed = x.dismissed /\ f.reactivated = x.reactivated
  BY BoardSays
<1>2. /\ l \in Words(events)
      /\ x.done <=> l.type = "done"
      /\ x.dismissed <=> l.type = "dismissed"
  BY <1>1, LastWordSays
<1>3. l.type \in {"done", "dismissed"}
  BY <1>2 DEF Words
<1>4. f.done \/ f.dismissed
  BY <1>1, <1>2, <1>3
<1> HIDE DEF f
<1>5. ~f.reactivated
  BY <1>a DEF f
<1>6. Display(f) # "visible"
  BY <1>4, <1>5 DEF Display
<1> QED
  BY <1>6 DEF Offered, f

\* The feed and the board follow what the user said of an issue: the last word counts in the
\* legacy feed; on the board only news or a restoration brings an issue back, and one put
\* away is offered only if it came back at some time, be it before it was put away again;
\* nothing closed is displayed (state.rs derive_state_map_with_policy, candidate_board.rs,
\* feedback.rs).
THEOREM FeedFollows == FeedbackSpec => []FeedFollowsTheUser
<1>1. FeedInv => FeedFollowsTheUser
  BY LastWordCountsStill, ReactivationHasCauseStill, HiddenIsNotOfferedStill, ClosedHides DEF FeedFollowsTheUser
<1> QED
  BY <1>1, FeedFirst, FeedNext, PTL DEF FeedbackSpec
-----------------------------------------------------------------------------
(* A scout: its order, its page, its rounds.                                  *)

Repos == {RepoOf[i] : i \in Ids}
RankedItems ==
  [id : Ids, repo : Repos, displayable : BOOLEAN, worth : BOOLEAN, score : Int,
   missing : {"no", "unfetched", "failed", "skipped"}, facts : {"none", "free", "blocked", "partial"},
   depth : {"none", "initial", "final"},
   verdict : {"none", "pending", "fit", "unfit", "open", "skipped_facts", "skipped_budget"}, poor : BOOLEAN]
\* No issue is in it twice.
OnceEach(r) == r \in Seq(RankedItems) /\ \A m, n \in 1..Len(r) : r[m].id = r[n].id => m = n

\* An assessment changes what is said of an item, and not the item.
LEMMA AssessedIs ==
  ASSUME NEW i \in RankedItems
  PROVE  /\ Assessed(i) \in RankedItems /\ Assessed(i).id = i.id /\ Assessed(i).repo = i.repo
         /\ Assessed(i).missing = i.missing /\ Assessed(i).facts = i.facts /\ Assessed(i).depth = i.depth
         /\ Assessed(i).verdict = i.verdict /\ Assessed(i).displayable = Visible(i)
         /\ Visible(Assessed(i)) = Visible(i) /\ Assessed(Assessed(i)) = Assessed(i)
<1> DEFINE v == Visible(i)
           b == BoardScore(i)
           w == b >= 10
           a == [i EXCEPT !.displayable = v, !.worth = w, !.score = b]
<1>1. i.id \in Ids /\ i.poor \in BOOLEAN
  BY DEF RankedItems
<1>2. v \in BOOLEAN
  BY <1>1 DEF Visible
<1>3. b \in Int
  <2>1. WorthOf[i.id] \in Int
    BY <1>1, ScoutAssumption
  <2> QED
    BY <2>1 DEF BoardScore
<1>4. w \in BOOLEAN
  BY <1>3
<1>5. Assessed(i) = a
  BY DEF Assessed
<1> HIDE DEF v, b, w
<1>6. /\ a \in RankedItems /\ a.id = i.id /\ a.repo = i.repo /\ a.missing = i.missing /\ a.facts = i.facts
      /\ a.depth = i.depth /\ a.verdict = i.verdict /\ a.displayable = v /\ a.poor = i.poor
      /\ a.worth = w /\ a.score = b
  BY <1>2, <1>3, <1>4 DEF RankedItems
<1> HIDE DEF a
<1>7. Visible(a) = v /\ BoardScore(a) = b /\ (BoardScore(a) >= 10) = w
  BY <1>6 DEF Visible, BoardScore, v, b, w
<1>8. Assessed(a) = [a EXCEPT !.displayable = v, !.worth = w, !.score = b]
  BY <1>7 DEF Assessed
<1>9. Assessed(a) = a
  BY <1>6, <1>8 DEF RankedItems
<1> QED
  BY <1>5, <1>6, <1>7, <1>9 DEF v

\* The order of a feed, as pairs of places.
FeedOrder(r) == {p \in (DOMAIN r) \X (DOMAIN r) :
                   Ahead(r[p[1]], r[p[2]]) \/ (~Ahead(r[p[2]], r[p[1]]) /\ p[1] < p[2])}
LEMMA SortedByFeed == ASSUME NEW r PROVE StablySorted(r, Ahead) = At(r, Arranged(DOMAIN r, FeedOrder(r)))
  BY DEF StablySorted, Stably, FeedOrder

LEMMA AheadTells ==
  ASSUME NEW a \in RankedItems, NEW b \in RankedItems
  PROVE  /\ ~(Ahead(a, b) /\ Ahead(b, a))
         /\ a.id # b.id => Ahead(a, b) \/ Ahead(b, a)
         /\ \A c \in RankedItems : Ahead(a, b) /\ Ahead(b, c) => Ahead(a, c)
<1>1. \A x \in RankedItems : x.displayable \in BOOLEAN /\ x.score \in Int /\ x.id \in Nat
  BY ScoutAssumption DEF RankedItems
<1> QED
  BY <1>1 DEF Ahead

LEMMA FeedOrderTells ==
  ASSUME NEW r, OnceEach(r)
  PROVE  Tells(FeedOrder(r), 1..Len(r))
<1> DEFINE n == Len(r)
           A(x, y) == Ahead(r[x], r[y])
<1>1. n \in Nat /\ DOMAIN r = 1..n /\ \A x \in 1..n : r[x] \in RankedItems
  BY DEF OnceEach
<1>2. \A x, y \in 1..n : ~(A(x, y) /\ A(y, x)) /\ (x # y => A(x, y) \/ A(y, x))
  BY <1>1, AheadTells DEF OnceEach
<1>3. \A x, y, z \in 1..n : A(x, y) /\ A(y, z) => A(x, z)
  BY <1>1, AheadTells
<1>4. \A x, y \in 1..n : <<x, y>> \in FeedOrder(r) <=> A(x, y) \/ (~A(y, x) /\ x < y)
  BY <1>1 DEF FeedOrder
<1> HIDE DEF A, n
<1>5. ASSUME NEW x \in 1..n, NEW y \in 1..n PROVE <<x, y>> \in FeedOrder(r) <=> A(x, y)
  <2>1. CASE x = y
    <3>1. ~(x < y) /\ ~A(x, y)
      BY <1>1, <1>2, <2>1
    <3> QED
      BY <1>4, <2>1, <3>1
  <2>2. CASE x # y
    BY <1>2, <1>4, <2>2
  <2> QED
    BY <2>1, <2>2
<1>6. Tells(FeedOrder(r), 1..n)
  BY <1>2, <1>3, <1>5 DEF Tells
<1> QED
  BY <1>6 DEF n

\* What a ranking is: the same items, each assessed, in another order.
Moves(q, r) ==
  /\ OnceEach(q) /\ Len(q) = Len(r)
  /\ \A k \in 1..Len(r) : \E j \in 1..Len(r) : q[k] = Assessed(r[j])
  /\ \A j \in 1..Len(r) : \E k \in 1..Len(r) : q[k] = Assessed(r[j])
LEMMA RankingMoves ==
  ASSUME NEW r, OnceEach(r)
  PROVE  Moves(FeedRanking(r), r) /\ \A j, k \in 1..Len(r) : j < k => Ahead(FeedRanking(r)[j], FeedRanking(r)[k])
<1> DEFINE n == Len(r)
           f == [k \in 1..n |-> Assessed(r[k])]
           q == FeedRanking(r)
<1>1. n \in Nat /\ DOMAIN r = 1..n /\ \A x \in 1..n : r[x] \in RankedItems
  BY DEF OnceEach
<1>2. f \in [1..n -> RankedItems] /\ \A k \in 1..n : f[k] = Assessed(r[k]) /\ f[k].id = r[k].id
  BY <1>1, AssessedIs
<1>3. q = StablySorted(AsTuple(f), Ahead)
  BY <1>1 DEF FeedRanking
<1> HIDE DEF f, q
<1>4. AsTuple(f) = f /\ f \in Seq(RankedItems) /\ Len(f) = n
  BY <1>1, <1>2, TupleIs
<1>5. OnceEach(f)
  BY <1>2, <1>4 DEF OnceEach, n
<1>6. q = At(f, Arranged(DOMAIN f, FeedOrder(f)))
  BY <1>3, <1>4, SortedByFeed
<1>7. Tells(FeedOrder(f), 1..Len(f))
  BY <1>5, FeedOrderTells
<1>8. /\ q \in Seq(RankedItems) /\ Len(q) = n
      /\ \E p \in [1..n -> 1..n] :
              /\ \A k \in 1..n : q[k] = f[p[k]]
              /\ \A j, k \in 1..n : p[j] = p[k] => j = k
              /\ \A j, k \in 1..n : j < k => <<p[j], p[k]>> \in FeedOrder(f)
              /\ \A i \in 1..n : \E k \in 1..n : p[k] = i
  <2> DEFINE o == FeedOrder(f)
  <2> HIDE DEF o, n
  <2>1. q = At(f, Arranged(DOMAIN f, o)) /\ f \in Seq(RankedItems) /\ Tells(o, 1..Len(f)) /\ Len(f) = n
    BY <1>4, <1>6, <1>7 DEF o
  <2>2. q \in Seq(RankedItems) /\ Len(q) = Len(f) /\ Permutes(q, f, o)
    BY <2>1, SortedIs
  <2> HIDE DEF f, q
  <2>3. PICK p \in [1..Len(f) -> 1..Len(f)] :
              /\ \A k \in 1..Len(f) : q[k] = f[p[k]]
              /\ \A j, k \in 1..Len(f) : p[j] = p[k] => j = k
              /\ \A j, k \in 1..Len(f) : j < k => <<p[j], p[k]>> \in o
              /\ \A i \in 1..Len(f) : \E k \in 1..Len(f) : p[k] = i
    BY <2>2 DEF Permutes
  <2>4. Len(q) = n /\ p \in [1..n -> 1..n]
    BY <2>1, <2>2, <2>3
  <2>5. /\ \A k \in 1..n : q[k] = f[p[k]]
        /\ \A j, k \in 1..n : p[j] = p[k] => j = k
        /\ \A j, k \in 1..n : j < k => <<p[j], p[k]>> \in FeedOrder(f)
        /\ \A i \in 1..n : \E k \in 1..n : p[k] = i
    BY <2>1, <2>3 DEF o
  <2> HIDE DEF n
  <2> QED
    BY <2>2, <2>4, <2>5
<1>9. PICK p \in [1..n -> 1..n] :
              /\ \A k \in 1..n : q[k] = f[p[k]]
              /\ \A j, k \in 1..n : p[j] = p[k] => j = k
              /\ \A j, k \in 1..n : j < k => <<p[j], p[k]>> \in FeedOrder(f)
              /\ \A i \in 1..n : \E k \in 1..n : p[k] = i
  BY <1>8
<1>10. OnceEach(q)
  <2> HIDE DEF n
  <2>1. ASSUME NEW j \in 1..n, NEW k \in 1..n, q[j].id = q[k].id PROVE j = k
    <3>1. p[j] \in 1..n /\ p[k] \in 1..n /\ f[p[j]].id = f[p[k]].id
      BY <1>9, <2>1
    <3>2. p[j] = p[k]
      BY <1>4, <1>5, <3>1 DEF OnceEach
    <3> QED
      BY <1>9, <3>2
  <2> QED
    BY <1>8, <2>1 DEF OnceEach
<1>11. Moves(q, r)
  <2>1. ASSUME NEW k \in 1..n PROVE \E j \in 1..n : q[k] = Assessed(r[j])
    BY <1>2, <1>9
  <2>2. ASSUME NEW j \in 1..n PROVE \E k \in 1..n : q[k] = Assessed(r[j])
    BY <1>2, <1>9
  <2> QED
    BY <1>8, <1>10, <2>1, <2>2 DEF Moves
<1>12. ASSUME NEW j \in 1..n, NEW k \in 1..n, j < k PROVE Ahead(q[j], q[k])
  <2> HIDE DEF n
  <2>0. j # k
    BY <1>1, <1>12
  <2>1. <<p[j], p[k]>> \in FeedOrder(f) /\ p[j] # p[k] /\ p[j] \in 1..n /\ p[k] \in 1..n
    BY <1>9, <1>12, <2>0
  <2>2. Ahead(f[p[j]], f[p[k]]) \/ ~Ahead(f[p[k]], f[p[j]])
    BY <2>1 DEF FeedOrder
  <2>3. f[p[j]].id # f[p[k]].id /\ f[p[j]] \in RankedItems /\ f[p[k]] \in RankedItems
    BY <1>2, <1>4, <1>5, <2>1 DEF OnceEach
  <2>4. Ahead(f[p[j]], f[p[k]])
    BY <2>2, <2>3, AheadTells
  <2> QED
    BY <1>9, <2>4
<1> QED
  BY <1>11, <1>12 DEF q, n

\* A ranking that is ranked again from the same log stays as it is.
LEMMA RankingAgain ==
  ASSUME NEW r, OnceEach(r)
  PROVE  FeedRanking(FeedRanking(r)) = FeedRanking(r)
<1> DEFINE q == FeedRanking(r)
           n == Len(q)
           f == [k \in 1..n |-> Assessed(q[k])]
<1>1. /\ OnceEach(q) /\ \A k \in 1..n : \E j \in 1..n : q[k] = Assessed(r[j])
      /\ \A j, k \in 1..n : j < k => Ahead(q[j], q[k])
      /\ n = Len(r)
  BY RankingMoves DEF Moves
<1>2. n \in Nat /\ DOMAIN q = 1..n /\ q \in Seq(RankedItems) /\ \A j \in 1..n : r[j] \in RankedItems
  BY <1>1 DEF OnceEach
<1> HIDE DEF q, n
<1>3. \A k \in 1..n : Assessed(q[k]) = q[k]
  BY <1>1, <1>2, AssessedIs
<1>4. f = q
  BY <1>2, <1>3 DEF n
<1>5. FeedRanking(q) = StablySorted(AsTuple(q), Ahead)
  BY <1>2, <1>4 DEF FeedRanking
<1>6. AsTuple(q) = q
  <2>1. q \in [1..n -> RankedItems]
    BY <1>2 DEF n
  <2> QED
    BY <1>2, <2>1, TupleIs
<1>7. FeedRanking(q) = At(q, Arranged(DOMAIN q, FeedOrder(q)))
  BY <1>5, <1>6, SortedByFeed
<1>8. Tells(FeedOrder(q), 1..Len(q))
  BY <1>1, FeedOrderTells
<1>9. \A j, k \in 1..Len(q) : j < k => <<j, k>> \in FeedOrder(q)
  BY <1>1, <1>2 DEF FeedOrder, n
<1>10. FeedRanking(q) = q
  BY <1>2, <1>7, <1>8, <1>9, SortedAgain
<1> QED
  BY <1>10 DEF q

-----------------------------------------------------------------------------
(* The page: what is placed, item by item.                                    *)

\* The pages that may be shown of some items.
Pages(D, limit, perRepo) ==
  {s \in Seq(D) :
     /\ Len(s) <= limit /\ \A repo \in Repos : OfRepo(s, repo) <= perRepo
     /\ \A n \in 1..Len(s) : IsMissing(s[n]) => n > SafePositions
     /\ MissingOnTop(s) <= TopMissing}
LEMMA EmptyPage ==
  ASSUME NEW D, NEW limit \in Nat, NEW perRepo \in Nat
  PROVE  <<>> \in Pages(D, limit, perRepo)
<1>1. \A repo \in Repos : {n \in DOMAIN <<>> : <<>>[n].repo = repo} = {}
  OBVIOUS
<1>2. {n \in DOMAIN <<>> : n <= TopPositions /\ IsMissing(<<>>[n])} = {}
  OBVIOUS
<1>3. Cardinality({}) = 0
  BY FS_EmptySet
<1>4. MissingOnTop(<<>>) = 0 /\ \A repo \in Repos : OfRepo(<<>>, repo) = 0
  BY <1>1, <1>2, <1>3 DEF MissingOnTop, OfRepo
<1>5. <<>> \in Seq(D) /\ Len(<<>>) = 0 /\ 1..Len(<<>>) = {}
  OBVIOUS
<1>6. TopMissing \in Nat
  BY SelectionAssumption
<1> QED
  BY <1>4, <1>5, <1>6 DEF Pages

\* One more item at the end of a sequence, counted.
LEMMA CountAppended ==
  ASSUME NEW D, NEW s \in Seq(D), NEW i \in D, NEW S \in SUBSET (1..Len(s) + 1)
  PROVE  /\ IsFiniteSet(S) /\ Cardinality(S) \in Nat /\ Cardinality(S \cap (1..Len(s))) \in Nat
         /\ Cardinality(S) = IF Len(s) + 1 \in S THEN Cardinality(S \cap (1..Len(s))) + 1
                             ELSE Cardinality(S \cap (1..Len(s)))
<1> DEFINE n == Len(s)
           L == S \cap (1..n)
<1>1. n \in Nat
  OBVIOUS
<1>2. IsFiniteSet(1..n)
  BY <1>1, FS_Interval
<1>3. IsFiniteSet(L) /\ Cardinality(L) \in Nat
  BY <1>2, FS_Subset, FS_CardinalityType
<1>4. n + 1 \notin L
  BY <1>1
<1>5. CASE n + 1 \in S
  <2>1. S = L \cup {n + 1}
    <3>1. ASSUME NEW x \in S, x # n + 1 PROVE x \in 1..n
      BY <1>1, <3>1
    <3> QED
      BY <1>5, <3>1
  <2>2. IsFiniteSet(S) /\ Cardinality(S) = Cardinality(L) + 1
    <3> HIDE DEF L
    <3> QED
      BY <1>3, <1>4, <2>1, FS_AddElement
  <2> QED
    BY <1>3, <1>5, <2>2
<1>6. CASE n + 1 \notin S
  <2>1. S = L
    <3>1. ASSUME NEW x \in S PROVE x \in 1..n
      BY <1>1, <1>6
    <3> QED
      BY <3>1
  <2> QED
    BY <1>3, <1>6, <2>1
<1> QED
  BY <1>5, <1>6

\* What fits a page makes a page.
LEMMA PlacedIs ==
  ASSUME NEW D \in SUBSET RankedItems, NEW limit \in Nat, NEW perRepo \in Nat,
         NEW s \in Pages(D, limit, perRepo), NEW i \in D,
         Len(s) < limit, OfRepo(s, i.repo) < perRepo, Fits(s, i)
  PROVE  Append(s, i) \in Pages(D, limit, perRepo)
<1> DEFINE n == Len(s)
           t == Append(s, i)
<1>1. /\ s \in Seq(D) /\ n \in Nat /\ \A repo \in Repos : OfRepo(s, repo) <= perRepo
      /\ \A k \in 1..n : IsMissing(s[k]) => k > SafePositions
      /\ MissingOnTop(s) <= TopMissing
  BY DEF Pages
<1>2. t \in Seq(D) /\ Len(t) = n + 1 /\ DOMAIN t = 1..n + 1 /\ t[n + 1] = i /\ \A k \in 1..n : t[k] = s[k] /\ k \in 1..n + 1
  BY <1>1
<1>3. DOMAIN s = 1..n /\ n < limit
  BY <1>1
<1>4. SafePositions \in Nat /\ TopPositions \in Nat /\ TopMissing \in Nat
  BY SelectionAssumption
<1> HIDE DEF n, t
<1>5. ASSUME NEW repo \in Repos PROVE OfRepo(t, repo) <= perRepo
  <2> DEFINE S == {k \in 1..n + 1 : t[k].repo = repo}
             R == {k \in 1..n : s[k].repo = repo}
  <2>1. S \cap (1..n) = R
    BY <1>1, <1>2
  <2>2. OfRepo(t, repo) = Cardinality(S) /\ OfRepo(s, repo) = Cardinality(R)
    BY <1>2, <1>3 DEF OfRepo
  <2>3. /\ Cardinality(S) \in Nat /\ Cardinality(R) \in Nat
        /\ Cardinality(S) = IF n + 1 \in S THEN Cardinality(R) + 1 ELSE Cardinality(R)
    <3> HIDE DEF R
    <3>1. S \in SUBSET (1..Len(s) + 1)
      BY DEF n
    <3> HIDE DEF S
    <3> QED
      BY <1>1, <2>1, <3>1, CountAppended DEF n
  <2>4. n + 1 \in S => i.repo = repo
    BY <1>2
  <2> HIDE DEF S, R
  <2>5. OfRepo(s, repo) <= perRepo
    BY <1>1
  <2> QED
    BY <2>2, <2>3, <2>4, <2>5
<1>6. IsMissing(i) => CanPlaceMissing(n + 1, MissingOnTop(s))
  BY DEF Fits, n
<1>7. ASSUME NEW k \in 1..n + 1, IsMissing(t[k]) PROVE k > SafePositions
  <2>1. CASE k \in 1..n
    BY <1>1, <1>2, <1>7, <2>1
  <2>2. CASE k \notin 1..n
    <3>1. k = n + 1
      BY <1>1, <2>2
    <3> QED
      BY <1>2, <1>6, <1>7, <3>1 DEF CanPlaceMissing
  <2> QED
    BY <2>1, <2>2
<1>8. MissingOnTop(t) <= TopMissing
  <2> DEFINE S == {k \in 1..n + 1 : k <= TopPositions /\ IsMissing(t[k])}
             R == {k \in 1..n : k <= TopPositions /\ IsMissing(s[k])}
  <2>1. S \cap (1..n) = R
    BY <1>1, <1>2
  <2>2. MissingOnTop(t) = Cardinality(S) /\ MissingOnTop(s) = Cardinality(R)
    BY <1>2, <1>3 DEF MissingOnTop
  <2>3. /\ Cardinality(S) \in Nat /\ Cardinality(R) \in Nat
        /\ Cardinality(S) = IF n + 1 \in S THEN Cardinality(R) + 1 ELSE Cardinality(R)
    <3> HIDE DEF R
    <3>1. S \in SUBSET (1..Len(s) + 1)
      BY DEF n
    <3> HIDE DEF S
    <3> QED
      BY <1>1, <2>1, <3>1, CountAppended DEF n
  <2>4. n + 1 \in S => IsMissing(i) /\ n + 1 <= TopPositions
    BY <1>2
  <2> HIDE DEF S, R
  <2>5. n + 1 \in S => Cardinality(R) < TopMissing
    BY <1>6, <2>2, <2>4 DEF CanPlaceMissing
  <2>6. Cardinality(R) <= TopMissing
    BY <1>1, <2>2
  <2> QED
    BY <1>4, <2>2, <2>3, <2>5, <2>6
<1>9. t \in Pages(D, limit, perRepo)
  <2>1. n + 1 <= limit
    BY <1>1, <1>3
  <2> QED
    BY <1>2, <1>5, <1>7, <1>8, <2>1 DEF Pages
<1> QED
  BY <1>9 DEF t

\* No item of one sequence is in another after its first k.
Beside(p, s, k) == \A j \in 1..Len(p), m \in k + 1..Len(s) : p[j].id # s[m].id
LEMMA OnceMore ==
  ASSUME NEW p, OnceEach(p), NEW i \in RankedItems, \A j \in 1..Len(p) : p[j].id # i.id
  PROVE  OnceEach(Append(p, i))
<1> DEFINE t == Append(p, i)
           n == Len(p)
<1>1. p \in Seq(RankedItems) /\ n \in Nat
  BY DEF OnceEach
<1>2. t \in Seq(RankedItems) /\ Len(t) = n + 1 /\ t[n + 1] = i /\ \A k \in 1..n : t[k] = p[k]
  BY <1>1
<1> HIDE DEF t, n
<1>3. ASSUME NEW j \in 1..n + 1, NEW k \in 1..n + 1, t[j].id = t[k].id PROVE j = k
  <2>1. (j \in 1..n \/ j = n + 1) /\ (k \in 1..n \/ k = n + 1)
    BY <1>1
  <2> QED
    BY <1>2, <1>3, <2>1 DEF OnceEach, n
<1>4. OnceEach(t)
  BY <1>2, <1>3 DEF OnceEach
<1> QED
  BY <1>4 DEF t

\* The next one of a sequence that holds none twice, and a sequence it is not in.
LEMMA StillApart ==
  ASSUME NEW p \in Seq(RankedItems), NEW s, OnceEach(s), NEW k \in 1..Len(s), Beside(p, s, k - 1)
  PROVE  Beside(p, s, k) /\ Beside(Append(p, s[k]), s, k) /\ \A j \in 1..Len(p) : p[j].id # s[k].id
<1> DEFINE t == Append(p, s[k])
           n == Len(p)
<1>1. s \in Seq(RankedItems) /\ Len(s) \in Nat /\ n \in Nat
  BY DEF OnceEach
<1>2. Len(t) = n + 1 /\ t[n + 1] = s[k] /\ \A j \in 1..n : t[j] = p[j]
  BY <1>1
<1> HIDE DEF t
<1>3. \A m \in k..Len(s) : m \in (k - 1) + 1..Len(s)
  BY <1>1
<1>4. \A m \in k + 1..Len(s) : m \in k..Len(s) /\ m \in 1..Len(s) /\ m # k
  BY <1>1
<1>5. k \in k..Len(s)
  BY <1>1
<1>6. \A j \in 1..n, m \in k..Len(s) : p[j].id # s[m].id
  BY <1>3 DEF Beside
<1>7. \A j \in 1..n + 1 : j \in 1..n \/ j = n + 1
  BY <1>1
<1>8. \A j \in 1..n + 1, m \in k + 1..Len(s) : t[j].id # s[m].id
  BY <1>2, <1>4, <1>6, <1>7 DEF OnceEach
<1> QED
  BY <1>2, <1>4, <1>5, <1>6, <1>8 DEF Beside, t

\* The deferred items, one after the other.
LEMMA DeferredFold ==
  ASSUME NEW D \in SUBSET RankedItems, NEW limit \in Nat, NEW perRepo \in Nat,
         NEW base \in Pages(D, limit, perRepo), NEW s \in Seq(D)
  PROVE  LET page == FoldLeft(LAMBDA page, i : PlaceDeferred(page, i, limit, perRepo), base, s) IN
         /\ page \in Pages(D, limit, perRepo)
         /\ OnceEach(base) /\ OnceEach(s) /\ Beside(base, s, 0) => OnceEach(page)
<1> DEFINE n == Len(s)
           S == Pages(D, limit, perRepo)
           step == [p \in (1..n) \X S |-> PlaceDeferred(p[2], s[p[1]], limit, perRepo)]
           Iter(f) == f = [t \in SUBSET (1..n) |-> IF t = {} THEN base ELSE PlaceDeferred(f[t \ {Max(t)}], s[Max(t)], limit, perRepo)]
           iter == CHOOSE f : Iter(f)
<1>1. n \in Nat /\ DOMAIN s = 1..n /\ \A k \in 1..n : s[k] \in D
  OBVIOUS
<1> HIDE DEF n
<1>a. \A x \in S : x \in Seq(RankedItems)
  BY DEF Pages
<1>2. ASSUME NEW page \in S, NEW i \in D PROVE PlaceDeferred(page, i, limit, perRepo) \in S
  BY <1>2, PlacedIs DEF PlaceDeferred
<1> HIDE DEF S
<1>4. step \in [(1..n) \X S -> S]
  <2>1. ASSUME NEW p \in (1..n) \X S PROVE PlaceDeferred(p[2], s[p[1]], limit, perRepo) \in S
    BY <1>1, <1>2
  <2> QED
    BY <2>1
<1>5. \A t \in SUBSET (1..n), x \in S : t # {} => step[<<Max(t), x>>] = PlaceDeferred(x, s[Max(t)], limit, perRepo)
  <2> SUFFICES ASSUME NEW t \in SUBSET (1..n), NEW x \in S, t # {} PROVE step[<<Max(t), x>>] = PlaceDeferred(x, s[Max(t)], limit, perRepo)
    OBVIOUS
  <2>1. Max(t) \in 1..n
    BY <1>1, MaxOf
  <2> HIDE DEF Max
  <2> QED
    BY <2>1
<1>6. Iter(iter)
  <2>1. PICK f : IsFold(f, n, S, base, step)
    <3> HIDE DEF step
    <3>1. base \in S
      BY DEF S
    <3> QED
      BY <1>1, <1>4, <3>1, FoldExists
  <2>2. f \in [SUBSET (1..n) -> S]
    BY <2>1 DEF IsFold
  <2>3. \A t \in SUBSET (1..n) : f[t] = IF t = {} THEN base ELSE PlaceDeferred(f[t \ {Max(t)}], s[Max(t)], limit, perRepo)
    <3> SUFFICES ASSUME NEW t \in SUBSET (1..n)
                 PROVE  f[t] = IF t = {} THEN base ELSE PlaceDeferred(f[t \ {Max(t)}], s[Max(t)], limit, perRepo)
      OBVIOUS
    <3>1. f[t \ {Max(t)}] \in S
      BY <2>2
    <3>2. f[t] = IF t = {} THEN base ELSE step[<<Max(t), f[t \ {Max(t)}]>>]
      BY <2>1 DEF IsFold
    <3> HIDE DEF step
    <3> QED
      BY <1>5, <3>1, <3>2
  <2>4. Iter(f)
    BY <2>2, <2>3
  <2> HIDE DEF Iter
  <2> QED
    BY <2>4
<1>7. FoldLeft(LAMBDA page, i : PlaceDeferred(page, i, limit, perRepo), base, s) = iter[1..n]
  BY <1>1 DEF FoldLeft, MapThenFoldSet
<1>8. TakesApart(iter, n, S, base, step)
  <2> HIDE DEF iter, step
  <2>1. \A t \in SUBSET (1..n) : iter[t] = IF t = {} THEN base ELSE PlaceDeferred(iter[t \ {Max(t)}], s[Max(t)], limit, perRepo)
    BY <1>6
  <2> QED
    BY <1>5, <2>1 DEF TakesApart
<1>9. PICK a : Accumulates(a, n, S, base, step, iter[1..n])
  <2> HIDE DEF iter, step
  <2>1. base \in S
    BY DEF S
  <2> QED
    BY <1>1, <1>4, <1>8, <2>1, FoldSteps
<1>10. /\ a \in [0..n -> S] /\ a[0] = base /\ a[n] = iter[1..n]
       /\ \A k \in 1..n : a[k] = step[<<k, a[k - 1]>>]
  <2> HIDE DEF iter, step
  <2> QED
    BY <1>9 DEF Accumulates
<1> HIDE DEF iter
<1>b. ASSUME NEW k \in 1..n PROVE a[k - 1] \in S /\ a[k] = PlaceDeferred(a[k - 1], s[k], limit, perRepo)
  <2>1. k - 1 \in 0..n
    BY <1>1
  <2>2. a[k - 1] \in S
    BY <1>10, <2>1
  <2> QED
    BY <1>10, <2>2
<1>12. ASSUME OnceEach(base), OnceEach(s), Beside(base, s, 0) PROVE OnceEach(iter[1..n])
  <2> DEFINE P(k) == k <= n => OnceEach(a[k]) /\ Beside(a[k], s, k)
             T == {k \in Nat : P(k)}
  <2>1. P(0)
    BY <1>10, <1>12
  <2>2. ASSUME NEW k \in Nat, P(k) PROVE P(k + 1)
    <3> SUFFICES ASSUME k + 1 <= n PROVE OnceEach(a[k + 1]) /\ Beside(a[k + 1], s, k + 1)
      OBVIOUS
    <3> DEFINE page == a[k]
               i == s[k + 1]
    <3>1. k + 1 \in 1..n /\ (k + 1) - 1 = k /\ k <= n
      BY <1>1
    <3>2. page \in S /\ a[k + 1] = PlaceDeferred(page, i, limit, perRepo) /\ OnceEach(page) /\ Beside(page, s, k)
      BY <1>b, <2>2, <3>1
    <3>3. page \in Seq(RankedItems) /\ i \in RankedItems
      BY <1>1, <1>a, <3>1, <3>2
    <3> HIDE DEF page
    <3>4. /\ Beside(page, s, k + 1) /\ Beside(Append(page, i), s, k + 1)
          /\ \A j \in 1..Len(page) : page[j].id # i.id
      BY <1>12, <3>1, <3>2, <3>3, StillApart DEF n
    <3>5. OnceEach(Append(page, i))
      BY <3>2, <3>3, <3>4, OnceMore
    <3>6. a[k + 1] \in {page, Append(page, i)}
      BY <3>2 DEF PlaceDeferred
    <3> QED
      BY <3>2, <3>4, <3>5, <3>6
  <2>3. Nat \subseteq T
    <3> HIDE DEF P
    <3>1. 0 \in T /\ \A k \in Nat : k \in T => k + 1 \in T
      BY <2>1, <2>2
    <3> HIDE DEF T
    <3> QED
      BY <3>1, SetInduction
  <2> QED
    BY <1>1, <1>10, <2>3
<1>11. iter[1..n] \in S
  BY <1>1, <1>10
<1> QED
  BY <1>7, <1>11, <1>12 DEF S

\* What is placed, what is deferred and what is to come after the first k are apart.
KeptApart(x, s, k) ==
  /\ OnceEach(x.page) /\ OnceEach(x.deferred) /\ Beside(x.page, x.deferred, 0)
  /\ Beside(x.page, s, k) /\ Beside(x.deferred, s, k)
LEMMA StaysApart ==
  ASSUME NEW x, NEW s, OnceEach(s), NEW k \in 1..Len(s), KeptApart(x, s, k - 1)
  PROVE  /\ KeptApart(x, s, k)
         /\ KeptApart([x EXCEPT !.page = Append(x.page, s[k])], s, k) \/ x # [page |-> x.page, deferred |-> x.deferred]
         /\ KeptApart([x EXCEPT !.deferred = Append(x.deferred, s[k])], s, k) \/ x # [page |-> x.page, deferred |-> x.deferred]
<1> DEFINE p == x.page
           d == x.deferred
           i == s[k]
<1>1. /\ OnceEach(p) /\ OnceEach(d) /\ Beside(p, d, 0) /\ Beside(p, s, k - 1) /\ Beside(d, s, k - 1)
  BY DEF KeptApart
<1>2. p \in Seq(RankedItems) /\ d \in Seq(RankedItems) /\ s \in Seq(RankedItems) /\ i \in RankedItems
  BY <1>1 DEF OnceEach
<1> HIDE DEF p, d
<1>3. /\ Beside(p, s, k) /\ Beside(Append(p, i), s, k) /\ \A j \in 1..Len(p) : p[j].id # i.id
  BY <1>1, <1>2, StillApart
<1>4. /\ Beside(d, s, k) /\ Beside(Append(d, i), s, k) /\ \A j \in 1..Len(d) : d[j].id # i.id
  BY <1>1, <1>2, StillApart
<1>5. OnceEach(Append(p, i)) /\ OnceEach(Append(d, i))
  BY <1>1, <1>2, <1>3, <1>4, OnceMore
<1>6. \A j \in 1..Len(p), m \in 1..Len(d) : p[j].id # d[m].id
  BY <1>1 DEF Beside
<1>7. /\ Len(Append(p, i)) = Len(p) + 1 /\ Append(p, i)[Len(p) + 1] = i
      /\ \A j \in 1..Len(p) : Append(p, i)[j] = p[j]
      /\ Len(Append(d, i)) = Len(d) + 1 /\ Append(d, i)[Len(d) + 1] = i
      /\ \A j \in 1..Len(d) : Append(d, i)[j] = d[j]
      /\ Len(p) \in Nat /\ Len(d) \in Nat
  BY <1>2
<1>8. /\ \A j \in 1..Len(p) + 1 : j \in 1..Len(p) \/ j = Len(p) + 1
      /\ \A j \in 1..Len(d) + 1 : j \in 1..Len(d) \/ j = Len(d) + 1
      /\ 0 + 1 = 1
  BY <1>7
<1>9. Beside(Append(p, i), d, 0)
  BY <1>4, <1>6, <1>7, <1>8 DEF Beside
<1>10. Beside(p, Append(d, i), 0)
  BY <1>3, <1>6, <1>7, <1>8 DEF Beside
<1>11. KeptApart(x, s, k)
  BY <1>1, <1>3, <1>4 DEF KeptApart, p, d
<1>12. ASSUME x = [page |-> p, deferred |-> d]
       PROVE  /\ KeptApart([x EXCEPT !.page = Append(p, i)], s, k)
              /\ KeptApart([x EXCEPT !.deferred = Append(d, i)], s, k)
  <2> DEFINE y == [x EXCEPT !.page = Append(p, i)]
             z == [x EXCEPT !.deferred = Append(d, i)]
  <2>1. y.page = Append(p, i) /\ y.deferred = d /\ z.page = p /\ z.deferred = Append(d, i)
    BY <1>12
  <2> HIDE DEF y, z
  <2>2. KeptApart(y, s, k) /\ KeptApart(z, s, k)
    BY <1>1, <1>3, <1>4, <1>5, <1>9, <1>10, <2>1 DEF KeptApart
  <2> QED
    BY <2>2 DEF y, z
<1> QED
  BY <1>11, <1>12 DEF p, d

\* The items as they are ranked: each is placed, deferred or left out.
Sortings(D, limit, perRepo) == [page : Pages(D, limit, perRepo), deferred : Seq(D)]
LEMMA FirstFold ==
  ASSUME NEW D \in SUBSET RankedItems, NEW limit \in Nat, NEW perRepo \in Nat,
         NEW base \in Sortings(D, limit, perRepo), NEW s \in Seq(RankedItems),
         \A k \in 1..Len(s) : s[k].displayable => s[k] \in D
  PROVE  LET x == FoldLeft(LAMBDA x, i : PlaceOrDefer(x, i, limit, perRepo), base, s) IN
         /\ x \in Sortings(D, limit, perRepo)
         /\ OnceEach(s) /\ KeptApart(base, s, 0) => KeptApart(x, s, Len(s))
<1> DEFINE n == Len(s)
           S == Sortings(D, limit, perRepo)
           step == [p \in (1..n) \X S |-> PlaceOrDefer(p[2], s[p[1]], limit, perRepo)]
           Iter(f) == f = [t \in SUBSET (1..n) |-> IF t = {} THEN base ELSE PlaceOrDefer(f[t \ {Max(t)}], s[Max(t)], limit, perRepo)]
           iter == CHOOSE f : Iter(f)
<1>1. n \in Nat /\ DOMAIN s = 1..n /\ \A k \in 1..n : s[k] \in RankedItems /\ (s[k].displayable => s[k] \in D)
  OBVIOUS
<1> HIDE DEF n
<1>2. ASSUME NEW x \in S, NEW i \in RankedItems, i.displayable => i \in D
      PROVE  PlaceOrDefer(x, i, limit, perRepo) \in S
  <2>1. x \in Sortings(D, limit, perRepo) /\ x.page \in Pages(D, limit, perRepo) /\ x.deferred \in Seq(D)
    BY DEF Sortings
  <2>2. CASE ~i.displayable \/ Len(x.page) = limit \/ OfRepo(x.page, i.repo) >= perRepo
    BY <2>2 DEF PlaceOrDefer
  <2>3. CASE ~(~i.displayable \/ Len(x.page) = limit \/ OfRepo(x.page, i.repo) >= perRepo)
    <3>1. i \in D /\ Append(x.deferred, i) \in Seq(D)
      BY <1>2, <2>1, <2>3
    <3>2. Len(x.page) \in Nat /\ Len(x.page) <= limit /\ x.page \in Seq(D)
      BY <2>1 DEF Pages
    <3>3. OfRepo(x.page, i.repo) \in Nat
      <4>1. IsFiniteSet({k \in DOMAIN x.page : x.page[k].repo = i.repo})
        <5>1. IsFiniteSet(1..Len(x.page))
          BY <3>2, FS_Interval
        <5>2. DOMAIN x.page = 1..Len(x.page)
          BY <3>2
        <5> QED
          BY <5>1, <5>2, FS_Subset
      <4> QED
        BY <4>1, FS_CardinalityType DEF OfRepo
    <3>4. Len(x.page) < limit /\ OfRepo(x.page, i.repo) < perRepo
      BY <2>3, <3>2, <3>3
    <3>5. CASE Fits(x.page, i)
      <4>1. Append(x.page, i) \in Pages(D, limit, perRepo)
        BY <2>1, <3>1, <3>4, <3>5, PlacedIs
      <4>2. PlaceOrDefer(x, i, limit, perRepo) = [x EXCEPT !.page = Append(x.page, i)]
        BY <2>3, <3>5 DEF PlaceOrDefer
      <4> QED
        BY <2>1, <4>1, <4>2 DEF Sortings
    <3>6. CASE ~Fits(x.page, i)
      <4>1. PlaceOrDefer(x, i, limit, perRepo) = [x EXCEPT !.deferred = Append(x.deferred, i)]
        BY <2>3, <3>6 DEF PlaceOrDefer
      <4> QED
        BY <2>1, <3>1, <4>1 DEF Sortings
    <3> QED
      BY <3>5, <3>6
  <2> QED
    BY <2>2, <2>3
<1>a. \A x \in S : x = [page |-> x.page, deferred |-> x.deferred]
  BY DEF Sortings
<1> HIDE DEF S
<1>4. step \in [(1..n) \X S -> S]
  <2>1. ASSUME NEW p \in (1..n) \X S PROVE PlaceOrDefer(p[2], s[p[1]], limit, perRepo) \in S
    BY <1>1, <1>2
  <2> QED
    BY <2>1
<1>5. \A t \in SUBSET (1..n), x \in S : t # {} => step[<<Max(t), x>>] = PlaceOrDefer(x, s[Max(t)], limit, perRepo)
  <2> SUFFICES ASSUME NEW t \in SUBSET (1..n), NEW x \in S, t # {} PROVE step[<<Max(t), x>>] = PlaceOrDefer(x, s[Max(t)], limit, perRepo)
    OBVIOUS
  <2>1. Max(t) \in 1..n
    BY <1>1, MaxOf
  <2> HIDE DEF Max
  <2> QED
    BY <2>1
<1>6. Iter(iter)
  <2>1. PICK f : IsFold(f, n, S, base, step)
    <3> HIDE DEF step
    <3>1. base \in S
      BY DEF S
    <3> QED
      BY <1>1, <1>4, <3>1, FoldExists
  <2>2. f \in [SUBSET (1..n) -> S]
    BY <2>1 DEF IsFold
  <2>3. \A t \in SUBSET (1..n) : f[t] = IF t = {} THEN base ELSE PlaceOrDefer(f[t \ {Max(t)}], s[Max(t)], limit, perRepo)
    <3> SUFFICES ASSUME NEW t \in SUBSET (1..n)
                 PROVE  f[t] = IF t = {} THEN base ELSE PlaceOrDefer(f[t \ {Max(t)}], s[Max(t)], limit, perRepo)
      OBVIOUS
    <3>1. f[t \ {Max(t)}] \in S
      BY <2>2
    <3>2. f[t] = IF t = {} THEN base ELSE step[<<Max(t), f[t \ {Max(t)}]>>]
      BY <2>1 DEF IsFold
    <3> HIDE DEF step
    <3> QED
      BY <1>5, <3>1, <3>2
  <2>4. Iter(f)
    BY <2>2, <2>3
  <2> HIDE DEF Iter
  <2> QED
    BY <2>4
<1>7. FoldLeft(LAMBDA x, i : PlaceOrDefer(x, i, limit, perRepo), base, s) = iter[1..n]
  BY <1>1 DEF FoldLeft, MapThenFoldSet
<1>8. TakesApart(iter, n, S, base, step)
  <2> HIDE DEF iter, step
  <2>1. \A t \in SUBSET (1..n) : iter[t] = IF t = {} THEN base ELSE PlaceOrDefer(iter[t \ {Max(t)}], s[Max(t)], limit, perRepo)
    BY <1>6
  <2> QED
    BY <1>5, <2>1 DEF TakesApart
<1>9. PICK a : Accumulates(a, n, S, base, step, iter[1..n])
  <2> HIDE DEF iter, step
  <2>1. base \in S
    BY DEF S
  <2> QED
    BY <1>1, <1>4, <1>8, <2>1, FoldSteps
<1>10. /\ a \in [0..n -> S] /\ a[0] = base /\ a[n] = iter[1..n]
       /\ \A k \in 1..n : a[k] = step[<<k, a[k - 1]>>]
  <2> HIDE DEF iter, step
  <2> QED
    BY <1>9 DEF Accumulates
<1> HIDE DEF iter
<1>b. ASSUME NEW k \in 1..n PROVE a[k - 1] \in S /\ a[k] = PlaceOrDefer(a[k - 1], s[k], limit, perRepo)
  <2>1. k - 1 \in 0..n
    BY <1>1
  <2>2. a[k - 1] \in S
    BY <1>10, <2>1
  <2> QED
    BY <1>10, <2>2
<1>12. ASSUME OnceEach(s), KeptApart(base, s, 0) PROVE KeptApart(iter[1..n], s, n)
  <2> DEFINE P(k) == k <= n => KeptApart(a[k], s, k)
             T == {k \in Nat : P(k)}
  <2>1. P(0)
    BY <1>10, <1>12
  <2>2. ASSUME NEW k \in Nat, P(k) PROVE P(k + 1)
    <3> SUFFICES ASSUME k + 1 <= n PROVE KeptApart(a[k + 1], s, k + 1)
      OBVIOUS
    <3> DEFINE x == a[k]
               i == s[k + 1]
    <3>1. k + 1 \in 1..n /\ (k + 1) - 1 = k /\ k <= n
      BY <1>1
    <3>2. x \in S /\ a[k + 1] = PlaceOrDefer(x, i, limit, perRepo) /\ KeptApart(x, s, k)
      BY <1>b, <2>2, <3>1
    <3>3. x = [page |-> x.page, deferred |-> x.deferred]
      BY <1>a, <3>2
    <3> HIDE DEF x
    <3>4. /\ KeptApart(x, s, k + 1)
          /\ KeptApart([x EXCEPT !.page = Append(x.page, i)], s, k + 1)
          /\ KeptApart([x EXCEPT !.deferred = Append(x.deferred, i)], s, k + 1)
      BY <1>12, <3>1, <3>2, <3>3, StaysApart DEF n
    <3>5. a[k + 1] \in {x, [x EXCEPT !.page = Append(x.page, i)], [x EXCEPT !.deferred = Append(x.deferred, i)]}
      BY <3>2 DEF PlaceOrDefer
    <3> QED
      BY <3>4, <3>5
  <2>3. Nat \subseteq T
    <3> HIDE DEF P
    <3>1. 0 \in T /\ \A k \in Nat : k \in T => k + 1 \in T
      BY <2>1, <2>2
    <3> HIDE DEF T
    <3> QED
      BY <3>1, SetInduction
  <2> QED
    BY <1>1, <1>10, <2>3
<1>11. iter[1..n] \in S
  BY <1>1, <1>10
<1> QED
  BY <1>7, <1>11, <1>12 DEF S, n

\* A page that is selected is fair, and of items that may be displayed.
LEMMA SelectedPage ==
  ASSUME NEW D \in SUBSET RankedItems, NEW limit \in Nat, NEW perRepo \in Nat, NEW r \in Seq(RankedItems),
         \A k \in 1..Len(r) : r[k].displayable => r[k] \in D
  PROVE  /\ SelectDisplay(r, limit, perRepo) \in Pages(D, limit, perRepo)
         /\ OnceEach(r) => OnceEach(SelectDisplay(r, limit, perRepo))
<1> DEFINE base == [page |-> <<>>, deferred |-> <<>>]
           first == FoldLeft(LAMBDA x, i : PlaceOrDefer(x, i, limit, perRepo), base, r)
<1>1. base \in Sortings(D, limit, perRepo) /\ KeptApart(base, r, 0)
  <2>1. <<>> \in Pages(D, limit, perRepo) /\ <<>> \in Seq(D)
    BY EmptyPage
  <2>2. <<>> \in Seq(RankedItems) /\ 1..Len(<<>>) = {}
    OBVIOUS
  <2> QED
    BY <2>1, <2>2 DEF Sortings, KeptApart, OnceEach, Beside
<1> HIDE DEF base
<1>2. first \in Sortings(D, limit, perRepo) /\ (OnceEach(r) => KeptApart(first, r, Len(r)))
  BY <1>1, FirstFold
<1>3. /\ first.page \in Pages(D, limit, perRepo) /\ first.deferred \in Seq(D)
      /\ OnceEach(r) => OnceEach(first.page) /\ OnceEach(first.deferred) /\ Beside(first.page, first.deferred, 0)
  <2> HIDE DEF first
  <2> QED
    BY <1>2 DEF Sortings, KeptApart
<1>4. SelectDisplay(r, limit, perRepo) =
        FoldLeft(LAMBDA page, i : PlaceDeferred(page, i, limit, perRepo), first.page, first.deferred)
  BY DEF SelectDisplay, base
<1> HIDE DEF first
<1> DEFINE p == first.page
           d == first.deferred
<1>5. p \in Pages(D, limit, perRepo) /\ d \in Seq(D) /\ (OnceEach(r) => OnceEach(p) /\ OnceEach(d) /\ Beside(p, d, 0))
  BY <1>3
<1> HIDE DEF p, d
<1>6. /\ FoldLeft(LAMBDA page, i : PlaceDeferred(page, i, limit, perRepo), p, d) \in Pages(D, limit, perRepo)
      /\ OnceEach(r) => OnceEach(FoldLeft(LAMBDA page, i : PlaceDeferred(page, i, limit, perRepo), p, d))
  BY <1>5, DeferredFold
<1> QED
  BY <1>4, <1>6 DEF p, d

\* A page sorted once more is the same items, in another order.
LEMMA SortedPage ==
  ASSUME NEW page, OnceEach(page)
  PROVE  LET q == StablySorted(page, Ahead) IN
         /\ OnceEach(q) /\ Len(q) = Len(page)
         /\ \A k \in 1..Len(q) : \E j \in 1..Len(page) : q[k] = page[j]
         /\ \A repo : OfRepo(q, repo) <= OfRepo(page, repo)
<1> DEFINE n == Len(page)
           o == FeedOrder(page)
           q == StablySorted(page, Ahead)
<1>1. n \in Nat /\ DOMAIN page = 1..n /\ page \in Seq(RankedItems)
  BY DEF OnceEach
<1>2. Tells(o, 1..n)
  BY FeedOrderTells
<1>3. q = At(page, Arranged(DOMAIN page, o))
  BY SortedByFeed
<1> HIDE DEF o, q
<1>4. q \in Seq(RankedItems) /\ Len(q) = n /\ Permutes(q, page, o)
  BY <1>1, <1>2, <1>3, SortedIs
<1>5. PICK p \in [1..n -> 1..n] :
              /\ \A k \in 1..n : q[k] = page[p[k]]
              /\ \A j, k \in 1..n : p[j] = p[k] => j = k
  BY <1>4 DEF Permutes
<1>6. DOMAIN q = 1..n /\ \A k \in 1..n : p[k] \in 1..n
  BY <1>4, <1>5
<1>7. OnceEach(q)
  <2>1. ASSUME NEW j \in 1..n, NEW k \in 1..n, q[j].id = q[k].id PROVE j = k
    BY <1>5, <1>6, <2>1 DEF OnceEach
  <2> QED
    BY <1>4, <2>1 DEF OnceEach
<1> HIDE DEF n
<1>8. ASSUME NEW repo PROVE OfRepo(q, repo) <= OfRepo(page, repo)
  <2> DEFINE S == {k \in 1..n : q[k].repo = repo}
             T == {k \in 1..n : page[k].repo = repo}
             f == [k \in S |-> p[k]]
  <2>1. OfRepo(q, repo) = Cardinality(S) /\ OfRepo(page, repo) = Cardinality(T)
    BY <1>1, <1>6 DEF OfRepo
  <2>2. IsFiniteSet(1..n)
    BY <1>1, FS_Interval
  <2>3. IsFiniteSet(T)
    BY <2>2, FS_Subset
  <2>4. f \in Injection(S, T)
    <3>1. \A k \in S : p[k] \in T
      BY <1>5, <1>6
    <3>2. f \in [S -> T]
      BY <3>1
    <3>3. \A j, k \in S : f[j] = f[k] => j = k
      BY <1>5
    <3> HIDE DEF f, S, T
    <3> QED
      BY <3>2, <3>3 DEF Injection, IsInjective
  <2> HIDE DEF f, S, T
  <2>5. Cardinality(S) <= Cardinality(T)
    BY <2>3, <2>4, FS_Injection
  <2> QED
    BY <2>1, <2>5
<1> QED
  BY <1>4, <1>5, <1>6, <1>7, <1>8 DEF q, n
-----------------------------------------------------------------------------
(* What a round reads and asks.                                               *)

\* A ranking of a feed by what is known of the policy and the log.
AssessedBy(i, p, l) ==
  [i EXCEPT !.displayable = IF p = "codex" THEN i.facts # "blocked" /\ i.verdict # "unfit"
                            ELSE ~i.poor /\ i.id \notin l.dismissed,
            !.worth = (WorthOf[i.id] + (IF i.facts = "blocked" THEN 6 ELSE IF i.verdict = "fit" THEN 20 ELSE 10)
                - (IF i.id \in l.shown THEN 5 ELSE 0)) >= 10,
            !.score = WorthOf[i.id] + (IF i.facts = "blocked" THEN 6 ELSE IF i.verdict = "fit" THEN 20 ELSE 10)
                - (IF i.id \in l.shown THEN 5 ELSE 0)]
RankedBy(r, p, l) == StablySorted(AsTuple([n \in DOMAIN r |-> AssessedBy(r[n], p, l)]), Ahead)
LEMMA RankingBy == ASSUME NEW r PROVE FeedRanking(r) = RankedBy(r, round.policy, log)
<1>1. ASSUME NEW i PROVE Assessed(i) = AssessedBy(i, round.policy, log)
  BY DEF Assessed, AssessedBy, Visible, BoardScore, Codex
<1>2. [n \in DOMAIN r |-> Assessed(r[n])] = [n \in DOMAIN r |-> AssessedBy(r[n], round.policy, log)]
  BY <1>1
<1> QED
  BY <1>2 DEF FeedRanking, RankedBy

\* The queue of a stage: ids the lane has and the round has not ranked, each once, within
\* the budget.
Waiting(q, r) ==
  /\ q \in Seq(Ids) /\ \A m, n \in 1..Len(q) : q[m] = q[n] => m = n
  /\ \A n \in 1..Len(q), k \in 1..Len(r) : q[n] # r[k].id
LEMMA SelectedIs ==
  ASSUME NEW lane \in Seq(Ids), \A m, n \in 1..Len(lane) : lane[m] = lane[n] => m = n, NEW budget \in Nat
  PROVE  /\ Selected(lane, budget) \in Seq(Ids) /\ Len(Selected(lane, budget)) <= budget
         /\ \A m, n \in 1..Len(Selected(lane, budget)) :
              Selected(lane, budget)[m] = Selected(lane, budget)[n] => m = n
         /\ \A n \in 1..Len(Selected(lane, budget)) :
              \E k \in 1..Len(lane) : Selected(lane, budget)[n] = lane[k]
<1> DEFINE T == {Candidate(i) : i \in Ids}
           c == [n \in DOMAIN lane |-> Candidate(lane[n])]
           chosen == IF round.mode = "global" THEN SelectEnrichment(c, budget)
                     ELSE SubSeq(c, 1, Min({budget, Len(c)}))
           q == [n \in DOMAIN chosen |-> chosen[n].id]
<1>1. DOMAIN lane = 1..Len(lane) /\ Len(lane) \in Nat
  OBVIOUS
<1>2. \A i \in Ids : Candidate(i).id = i
  BY DEF Candidate
<1>3. /\ c \in Seq(T) /\ Len(c) = Len(lane)
      /\ \A n \in 1..Len(lane) : c[n] \in T /\ c[n].id = lane[n]
  BY <1>1, <1>2
<1> HIDE DEF T, c
<1>4. \A m, n \in 1..Len(c) : c[m] = c[n] => m = n
  BY <1>3
<1>5. ASSUME NEW d \in Seq(T),
             \A m, n \in 1..Len(d) : d[m] = d[n] => m = n,
             \A n \in 1..Len(d) : \E k \in 1..Len(c) : d[n] = c[k]
      PROVE  LET s == SubSeq(d, 1, Min({budget, Len(d)})) IN
             /\ s \in Seq(T) /\ Len(s) <= budget
             /\ \A m, n \in 1..Len(s) : s[m] = s[n] => m = n
             /\ \A n \in 1..Len(s) : \E k \in 1..Len(c) : s[n] = c[k]
  <2> DEFINE b == Min({budget, Len(d)})
  <2>1. b \in Nat /\ b <= budget /\ b <= Len(d)
    <3>1. {budget, Len(d)} \in SUBSET Nat
      BY <1>5
    <3> QED
      BY <3>1, LeastOf
  <2> HIDE DEF b
  <2>2. /\ SubSeq(d, 1, b) \in Seq(T) /\ Len(SubSeq(d, 1, b)) = b
        /\ \A n \in 1..b : SubSeq(d, 1, b)[n] = d[n] /\ n \in 1..Len(d)
    BY <1>5, <2>1
  <2> QED
    BY <1>5, <2>1, <2>2 DEF b
<1>6. /\ chosen \in Seq(T) /\ Len(chosen) <= budget
      /\ \A m, n \in 1..Len(chosen) : chosen[m] = chosen[n] => m = n
      /\ \A n \in 1..Len(chosen) : \E k \in 1..Len(c) : chosen[n] = c[k]
  <2>1. CASE round.mode = "global"
    <3>1. PICK R : SelectEnrichment(c, budget) =
                     SubSeq(Among(c, R), 1, Min({budget, Len(Among(c, R))}))
      BY DEF SelectEnrichment
    <3> DEFINE d == Among(c, R)
    <3>2. /\ d \in Seq(T) /\ \A n \in 1..Len(d) : \E k \in 1..Len(c) : d[n] = c[k]
          /\ \A m, n \in 1..Len(d) : d[m] = d[n] => m = n
      <4>1. c \in Seq(T)
        BY <1>3
      <4>2. /\ Among(c, R) \in Seq(T)
            /\ \A n \in 1..Len(Among(c, R)) : \E k \in 1..Len(c) : Among(c, R)[n] = c[k]
        BY <4>1, AmongIs
      <4>3. (\A i, j \in 1..Len(c) : c[i] = c[j] => i = j) =>
              \A j, k \in 1..Len(Among(c, R)) : Among(c, R)[j] = Among(c, R)[k] => j = k
        BY <4>1, AmongIs
      <4>4. \A m, n \in 1..Len(d) : d[m] = d[n] => m = n
        BY <1>4, <4>3
      <4> QED
        BY <4>2, <4>4
    <3> HIDE DEF d
    <3>3. chosen = SubSeq(d, 1, Min({budget, Len(d)}))
      BY <2>1, <3>1 DEF d
    <3> HIDE DEF chosen
    <3> QED
      BY <1>5, <3>2, <3>3
  <2>2. CASE round.mode # "global"
    <3>1. chosen = SubSeq(c, 1, Min({budget, Len(c)}))
      BY <2>2
    <3> HIDE DEF chosen
    <3> QED
      BY <1>3, <1>4, <1>5, <3>1
  <2> QED
    BY <2>1, <2>2
<1>7. Selected(lane, budget) = q
  BY DEF Selected, c
<1> HIDE DEF chosen
<1>8. DOMAIN chosen = 1..Len(chosen) /\ Len(chosen) \in Nat
  BY <1>6
<1>9. ASSUME NEW n \in 1..Len(chosen)
      PROVE  chosen[n].id \in Ids /\ \E k \in 1..Len(lane) : chosen[n] = c[k] /\ chosen[n].id = lane[k]
  BY <1>1, <1>3, <1>6
<1>10. q \in Seq(Ids) /\ Len(q) = Len(chosen) /\ \A n \in 1..Len(chosen) : q[n] = chosen[n].id
  BY <1>8, <1>9
<1>11. ASSUME NEW m \in 1..Len(chosen), NEW n \in 1..Len(chosen), q[m] = q[n] PROVE m = n
  <2>1. PICK j \in 1..Len(lane) : chosen[m] = c[j] /\ chosen[m].id = lane[j]
    BY <1>9
  <2>2. PICK k \in 1..Len(lane) : chosen[n] = c[k] /\ chosen[n].id = lane[k]
    BY <1>9
  <2>3. j = k
    BY <1>10, <1>11, <2>1, <2>2
  <2> QED
    BY <1>6, <2>1, <2>2, <2>3
<1> HIDE DEF q
<1> QED
  BY <1>6, <1>7, <1>9, <1>10, <1>11

\* What a lane brings that is not ranked yet.
LEMMA FreshIs ==
  ASSUME NEW lane \in Seq(Ids)
  PROVE  /\ Fresh(lane) \in Seq(Ids)
         /\ \A n \in 1..Len(Fresh(lane)) : Fresh(lane)[n] \notin KeysOf(round.ranked)
         /\ (\A m, n \in 1..Len(lane) : lane[m] = lane[n] => m = n) =>
              \A m, n \in 1..Len(Fresh(lane)) : Fresh(lane)[m] = Fresh(lane)[n] => m = n
<1> DEFINE S == Ids \ (KeysOf(round.ranked) \cup (IF round.mode = "repository" THEN round.found ELSE {}))
<1>1. Fresh(lane) = Among(lane, S)
  BY DEF Fresh
<1>2. \A x \in S : x \notin KeysOf(round.ranked)
  OBVIOUS
<1> HIDE DEF S
<1>3. Among(lane, S) \in Seq(Ids) /\ \A k \in 1..Len(Among(lane, S)) : Among(lane, S)[k] \in S
  BY AmongIs
<1>4. (\A i, j \in 1..Len(lane) : lane[i] = lane[j] => i = j) =>
         \A j, k \in 1..Len(Among(lane, S)) : Among(lane, S)[j] = Among(lane, S)[k] => j = k
  BY AmongIs
<1> QED
  BY <1>1, <1>2, <1>3, <1>4

\* A part of a product, divided.
LEMMA ShareOf ==
  ASSUME NEW x \in Nat, NEW r \in Nat, NEW p \in Nat, x < r, p > 0
  PROVE  (x * p) \div r \in 0..p - 1
<1>1. x * p \in Nat /\ r * p \in Nat
  OBVIOUS
<1>2. x * p < r * p
  <2>1. PICK d \in Nat : r = x + d /\ d > 0
    <3>1. r - x \in Nat /\ r = x + (r - x) /\ r - x > 0
      OBVIOUS
    <3> QED
      BY <3>1
  <2>2. r * p = x * p + d * p
    BY <2>1
  <2>3. d * p > 0
    BY <2>1
  <2> QED
    BY <1>1, <2>2, <2>3
<1> DEFINE m == x * p
           q == m \div r
<1>3. q \in Nat /\ r * q <= m
  <2>1. m \in Nat /\ r \in Nat /\ r > 0
    BY <1>1
  <2> HIDE DEF m
  <2> QED
    BY <2>1
<1>4. r * q < r * p
  BY <1>1, <1>2, <1>3
<1>5. q < p
  <2> SUFFICES ASSUME q >= p PROVE FALSE
    BY <1>3
  <2> HIDE DEF q, m
  <2>1. PICK d \in Nat : q = p + d
    <3>1. q - p \in Nat /\ q = p + (q - p)
      BY <1>3
    <3> QED
      BY <3>1
  <2>2. r * q = r * p + r * d
    BY <2>1
  <2>3. r * d \in Nat
    BY <2>1
  <2> QED
    BY <1>1, <1>4, <2>2, <2>3
<1> QED
  BY <1>3, <1>5

\* The pool is taken from its places.
LEMMA PoolIndicesIn ==
  ASSUME NEW pool \in Nat, NEW budget \in Nat
  PROVE  \E b \in 0..budget : PoolIndices(pool, budget) \in [1..b -> 1..pool]
<1> DEFINE b == Min({budget, pool})
           leading == Max({1, (b * 3) \div 4})
           rest == b - leading
<1>1. b \in Nat /\ b <= budget /\ b <= pool
  <2>1. {budget, pool} \in SUBSET Nat
    OBVIOUS
  <2> QED
    BY <2>1, LeastOf
<1> HIDE DEF b
<1>2. CASE b \in {0, pool}
  <2>1. PoolIndices(pool, budget) = [n \in 1..b |-> n]
    BY <1>2 DEF PoolIndices, b
  <2> QED
    BY <1>1, <2>1
<1>3. CASE b \notin {0, pool}
  <2>1. b > 0 /\ b < pool
    BY <1>1, <1>3
  <2>2. leading \in Nat /\ leading <= b
    <3> DEFINE e == (b * 3) \div 4
    <3>1. e \in Nat /\ e <= b
      BY <1>1
    <3> HIDE DEF e
    <3>2. \E x \in {1, e} : \A y \in {1, e} : x >= y
      BY <3>1
    <3>3. leading \in {1, e}
      BY <3>2 DEF Max, e
    <3> HIDE DEF leading
    <3> QED
      BY <1>1, <2>1, <3>1, <3>3
  <2>3. PoolIndices(pool, budget) = [n \in 1..b |-> IF n <= leading THEN n
                       ELSE leading + ((n - leading) * (pool - leading)) \div (rest + 1) + 1]
    BY <1>3 DEF PoolIndices, b
  <2> HIDE DEF leading
  <2>4. ASSUME NEW n \in 1..b
        PROVE  (IF n <= leading THEN n
                ELSE leading + ((n - leading) * (pool - leading)) \div (rest + 1) + 1) \in 1..pool
    <3>1. CASE n <= leading
      BY <1>1, <3>1
    <3>2. CASE ~(n <= leading)
      <4> DEFINE x == n - leading
                 r == rest + 1
                 p == pool - leading
      <4>1. x \in Nat /\ r \in Nat /\ p \in Nat /\ x < r /\ p > 0
        BY <1>1, <2>1, <2>2, <3>2
      <4> HIDE DEF x, r, p
      <4>2. (x * p) \div r \in 0..p - 1
        BY <4>1, ShareOf
      <4> DEFINE d == (x * p) \div r
      <4>3. d \in Nat /\ d < p
        BY <4>1, <4>2
      <4> HIDE DEF d
      <4>4. leading + d + 1 \in 1..pool
        BY <1>1, <2>1, <2>2, <4>3 DEF p
      <4> QED
        BY <3>2, <4>4 DEF d, x, r, p
    <3> QED
      BY <3>1, <3>2
  <2>5. PoolIndices(pool, budget) \in [1..b -> 1..pool]
    BY <2>3, <2>4
  <2> QED
    BY <1>1, <2>5
<1> QED
  BY <1>2, <1>3

\* What is put to the model are eligible items, no more of them than the budget.
LEMMA PoolIs ==
  ASSUME NEW eligible, Len(eligible) \in Nat
  PROVE  /\ Cardinality(Pool(eligible)) \in Nat /\ Cardinality(Pool(eligible)) <= CandidateBudget
         /\ \A x \in Pool(eligible) : \E k \in 1..Len(eligible) : x = eligible[k]
<1> DEFINE c == PoolIndices(Len(eligible), CandidateBudget)
           f == [n \in DOMAIN c |-> eligible[c[n]]]
<1>1. CandidateBudget \in Nat
  BY ScoutAssumption
<1>2. PICK b \in 0..CandidateBudget : c \in [1..b -> 1..Len(eligible)]
  BY <1>1, PoolIndicesIn
<1> HIDE DEF c
<1>3. b \in Nat /\ DOMAIN c = 1..b /\ \A n \in 1..b : c[n] \in 1..Len(eligible)
  BY <1>1, <1>2
<1>4. Pool(eligible) = {f[n] : n \in 1..b}
  BY <1>3 DEF Pool, c
<1>5. f \in [1..b -> Pool(eligible)]
  BY <1>3, <1>4
<1>6. f \in Surjection(1..b, Pool(eligible))
  <2> HIDE DEF f
  <2> QED
    BY <1>4, <1>5 DEF Surjection
<1>7. IsFiniteSet(1..b) /\ Cardinality(1..b) = b
  BY <1>3, FS_Interval
<1> HIDE DEF f
<1>8. IsFiniteSet(Pool(eligible)) /\ Cardinality(Pool(eligible)) <= b
  BY <1>6, <1>7, FS_Surjection
<1>9. Cardinality(Pool(eligible)) \in Nat
  BY <1>8, FS_CardinalityType
<1>10. \A x \in Pool(eligible) : \E k \in 1..Len(eligible) : x = eligible[k]
  BY <1>3, <1>4 DEF f
<1> QED
  BY <1>1, <1>3, <1>8, <1>9, <1>10

\* What a stage may spend and when it stops are numbers.
LEMMA StageNumbers ==
  ASSUME NEW stage, round.left \in Nat
  PROVE  /\ StageBudget(stage) \in Nat /\ StopAt(stage) \in Nat
         /\ stage = "trusted" => StageBudget(stage) <= FallbackLimit
         /\ stage = "global" => StageBudget(stage) = round.left
<1>1. /\ EnrichLimit \in Nat /\ FallbackLimit \in Nat /\ TrustedLimit \in Nat /\ RefillLimit \in Nat
      /\ StageLimit \in Nat /\ PageLimit \in Nat
  BY ScoutAssumption
<1>2. \A x, y \in Nat : Min({x, y}) \in Nat /\ Min({x, y}) <= y
  <2> SUFFICES ASSUME NEW x \in Nat, NEW y \in Nat PROVE Min({x, y}) \in Nat /\ Min({x, y}) <= y
    OBVIOUS
  <2>1. {x, y} \in SUBSET Nat
    OBVIOUS
  <2> QED
    BY <2>1, LeastOf
<1>3. \A x, y \in Nat : Max({x, y}) \in Nat
  <2> SUFFICES ASSUME NEW x \in Nat, NEW y \in Nat PROVE Max({x, y}) \in Nat
    OBVIOUS
  <2>1. \E z \in {x, y} : \A w \in {x, y} : z >= w
    OBVIOUS
  <2>2. Max({x, y}) \in {x, y}
    BY <2>1 DEF Max
  <2> QED
    BY <2>2
<1>4. Prefill(PageLimit) \in Nat /\ FallbackTarget(PageLimit) \in Nat /\ HardPass(PageLimit) \in Nat
  <2>1. 2 * PageLimit \in Nat /\ PageLimit + 15 \in Nat
    BY <1>1
  <2>2. Prefill(PageLimit) \in Nat
    BY <1>2, <2>1 DEF Prefill
  <2>3. (PageLimit * 70 + 99) \div 100 \in Nat /\ (PageLimit * 80 + 99) \div 100 \in Nat
    BY <1>1
  <2> QED
    BY <2>2, <2>3 DEF HardPass, FallbackTarget, CeilPercent
<1>5. StageBudget(stage) \in Nat
  BY <1>1, <1>2 DEF StageBudget
<1>6. StopAt(stage) \in Nat
  BY <1>1, <1>3, <1>4 DEF StopAt
<1> QED
  BY <1>1, <1>2, <1>5, <1>6 DEF StageBudget
-----------------------------------------------------------------------------
(* The invariant of a scout.                                                  *)

LaterStages == {"beginner", "signals", "recent100", "recent300", "recent500"}
Stages == GlobalStages \cup LaterStages
LEMMA StagesAre ==
  /\ DOMAIN Lanes = Stages /\ DOMAIN RepositoryStages = 1..5 /\ RepositoryStages[5] = "recent500"
  /\ \A n \in 1..5 : RepositoryStages[n] \in LaterStages
  /\ \A stage \in LaterStages : \E n \in 1..5 : RepositoryStages[n] = stage
<1>1. DOMAIN RepositoryStages = 1..5 /\ RepositoryStages[5] = "recent500"
  BY DEF RepositoryStages
<1>2. \A n \in 1..5 : RepositoryStages[n] \in LaterStages
  BY DEF RepositoryStages, LaterStages
<1>3. /\ RepositoryStages[1] = "beginner" /\ RepositoryStages[2] = "signals" /\ RepositoryStages[3] = "recent100"
      /\ RepositoryStages[4] = "recent300"
  BY DEF RepositoryStages
<1>4. \A stage \in LaterStages : \E n \in 1..5 : RepositoryStages[n] = stage
  BY <1>1, <1>3 DEF LaterStages
<1>5. Range(RepositoryStages) = LaterStages
  BY <1>1, <1>2, <1>4 DEF Range
<1> QED
  BY <1>1, <1>2, <1>4, <1>5, ScoutAssumption DEF Stages

RoundStates ==
  [at : {"idle", "discover", "rank", "complete", "decide", "recheck", "final", "expose", "return", "done",
         "failed"},
   mode : {"none", "global", "repository"}, policy : {"none", "codex", "legacy"}, stage : Stages \cup {"none"},
   ranked : Seq(RankedItems), queue : Seq(Ids), taken : Nat, left : Nat, stop : Nat,
   found : SUBSET Ids, checked : SUBSET Ids, page : Seq(RankedItems)]
ScoutTyped ==
  /\ round \in RoundStates /\ log \in [shown : SUBSET Ids, dismissed : SUBSET Ids]
  /\ asked \in [Stages \cup {"model"} -> Nat] /\ stirred \in BOOLEAN
  /\ round.at # "idle" => round.mode # "none"
  /\ round.mode = "global" => round.stage \in GlobalStages
  /\ round.mode = "repository" => round.stage \in LaterStages

\* What is ranked and what is still to rank are there once.
RankedOnce ==
  /\ OnceEach(round.ranked)
  /\ round.at = "rank" => Waiting(round.queue, round.ranked)

\* What the two first fallbacks spent, and what is left to them.
Spent ==
  /\ asked["trusted"] + asked["global"] <= FallbackLimit
  /\ round.at = "idle" \/ round.stage \notin {"trusted", "global", "trustedRefill", "globalRefill"} =>
       asked["trusted"] = 0 /\ asked["global"] = 0
  /\ round.stage = "trusted" /\ round.at = "discover" => asked["trusted"] = 0 /\ asked["global"] = 0
  /\ round.stage = "trusted" /\ round.at = "rank" =>
       /\ asked["trusted"] = round.taken /\ asked["global"] = 0
       /\ round.taken + Len(round.queue) <= FallbackLimit
  /\ round.stage = "global" /\ round.at = "discover" =>
       asked["trusted"] + round.left <= FallbackLimit /\ asked["global"] = 0
  /\ round.stage = "global" /\ round.at = "rank" =>
       /\ asked["trusted"] + round.left <= FallbackLimit
       /\ asked["global"] = round.taken /\ round.taken + Len(round.queue) <= round.left

\* What was checked and what was asked of the model.
ItemSound(i, checked) ==
  /\ i.depth = "initial" /\ Blocked(i) => i.verdict \notin {"fit", "unfit"}
  /\ i.id \in checked => i.depth = "final"
AllSound(r, checked) == \A n \in 1..Len(r) : ItemSound(r[n], checked)
Watched ==
  /\ AllSound(round.ranked, round.checked)
  /\ round.at \in {"idle", "discover", "rank", "complete", "decide"} => round.checked = {} /\ asked["model"] = 0
  /\ asked["model"] <= CandidateBudget

\* What is shown, and what is about to be.
FinalPage(page) == \A n \in 1..Len(page) : page[n].depth = "final" /\ ~Blocked(page[n])
FairPage(page, perRepo) ==
  /\ OnceEach(page) /\ Len(page) <= PageLimit
  /\ \A repo \in Repos : OfRepo(page, repo) <= perRepo
PageKept ==
  /\ FairPage(round.page, PerRepoAtLast)
  /\ round.at # "done" => round.page \in Pages(RankedItems, PageLimit, PerRepoAtLast)
  /\ round.at \in {"expose", "return", "done"} /\ Codex /\ ~stirred => FinalPage(round.page)
  /\ round.at = "final" /\ Codex /\ ~stirred =>
       /\ RankedBy(round.ranked, round.policy, log) = round.ranked
       /\ KeysOf(SelectDisplay(round.ranked, PageLimit, PerRepoAtLast)) \subseteq round.checked

ScoutInv == ScoutTyped /\ RankedOnce /\ Spent /\ Watched /\ PageKept

\* An item that is ranked again is as sound as it was.
LEMMA MovedSound ==
  ASSUME NEW q, NEW r, OnceEach(r), Moves(q, r), NEW checked, AllSound(r, checked)
  PROVE  AllSound(q, checked)
<1>1. Len(r) \in Nat /\ Len(q) = Len(r) /\ \A k \in 1..Len(r) : r[k] \in RankedItems
  BY DEF Moves, OnceEach
<1> SUFFICES ASSUME NEW k \in 1..Len(r) PROVE ItemSound(q[k], checked)
  BY <1>1 DEF AllSound
<1>2. PICK j \in 1..Len(r) : q[k] = Assessed(r[j])
  BY DEF Moves
<1>3. /\ q[k].id = r[j].id /\ q[k].depth = r[j].depth /\ q[k].facts = r[j].facts /\ q[k].verdict = r[j].verdict
  BY <1>1, <1>2, AssessedIs
<1>4. ItemSound(r[j], checked)
  BY DEF AllSound
<1> QED
  BY <1>3, <1>4 DEF ItemSound, Blocked

\* The places of a page count as they did.
LEMMA PerRepoNumber == PageLimit \in Nat /\ PerRepoAtLast \in Nat
  BY ScoutAssumption, SelectionAssumption DEF PerRepoAtLast

LEMMA ScoutInvInit == ScoutInit => ScoutInv
<1> SUFFICES ASSUME ScoutInit PROVE ScoutInv
  OBVIOUS
<1>1. /\ round = NoRound /\ log = [shown |-> {}, dismissed |-> {}] /\ stirred = FALSE
      /\ asked = [s \in Stages \cup {"model"} |-> 0]
  BY StagesAre DEF ScoutInit
<1>2. <<>> \in Seq(RankedItems) /\ <<>> \in Seq(Ids) /\ Len(<<>>) = 0 /\ 1..0 = {}
  OBVIOUS
<1>3. ScoutTyped
  BY <1>1, <1>2 DEF ScoutTyped, RoundStates, NoRound
<1>4. RankedOnce
  BY <1>1, <1>2 DEF RankedOnce, OnceEach, NoRound
<1>5. FallbackLimit \in Nat /\ CandidateBudget \in Nat
  BY ScoutAssumption
<1>6. asked["trusted"] = 0 /\ asked["global"] = 0 /\ asked["model"] = 0
  BY <1>1 DEF Stages, GlobalStages
<1>7. Spent
  BY <1>1, <1>5, <1>6 DEF Spent, NoRound
<1>8. Watched
  BY <1>1, <1>2, <1>5, <1>6 DEF Watched, AllSound, NoRound
<1>9. PageKept
  <2>1. <<>> \in Pages(RankedItems, PageLimit, PerRepoAtLast)
    BY EmptyPage, PerRepoNumber
  <2>2. FairPage(<<>>, PerRepoAtLast)
    BY <1>2, <2>1 DEF FairPage, Pages, OnceEach
  <2> QED
    BY <1>1, <2>1, <2>2 DEF PageKept, NoRound, Codex
<1> QED
  BY <1>3, <1>4, <1>7, <1>8, <1>9 DEF ScoutInv

\* What a step leaves alone of the places and of the policy.
Steady == round'.mode = round.mode /\ round'.policy = round.policy
LEMMA SteadyIs == ASSUME Steady PROVE PerRepoAtLast' = PerRepoAtLast /\ (Codex' <=> Codex)
  BY DEF Steady, PerRepoAtLast, Codex

\* A step before the end shows nothing.
LEMMA PageStill ==
  ASSUME PageKept, Steady, round'.page = round.page, round.at # "done",
         round'.at \notin {"expose", "return", "done", "final"}
  PROVE  PageKept'
<1>1. PerRepoAtLast' = PerRepoAtLast
  BY SteadyIs
<1> QED
  BY <1>1 DEF PageKept

LEMMA BeginKeeps == ASSUME ScoutInv, Begin PROVE ScoutInv'
<1>1. /\ round \in RoundStates /\ log \in [shown : SUBSET Ids, dismissed : SUBSET Ids]
      /\ asked \in [Stages \cup {"model"} -> Nat] /\ stirred \in BOOLEAN /\ round.at = "idle"
  BY DEF ScoutInv, ScoutTyped, Begin
<1>2. PICK mode \in {"global", "repository"}, policy \in {"codex", "legacy"} :
        round' = [NoRound EXCEPT !.at = "discover", !.mode = mode, !.policy = policy,
                                 !.stage = IF mode = "global" THEN "first" ELSE "beginner"]
  BY DEF Begin
<1>3. log' = log /\ asked' = asked /\ stirred' = stirred
  BY DEF Begin, Quiet, Undisturbed
<1> DEFINE stage == IF mode = "global" THEN "first" ELSE "beginner"
<1>4. /\ round'.at = "discover" /\ round'.mode = mode /\ round'.policy = policy /\ round'.stage = stage
      /\ round'.ranked = <<>> /\ round'.queue = <<>> /\ round'.taken = 0 /\ round'.checked = {}
      /\ round'.page = <<>>
  BY <1>2 DEF NoRound
<1>5. /\ stage \in {"first", "beginner"} /\ (mode = "global" => stage \in GlobalStages)
      /\ (mode = "repository" => stage \in LaterStages) /\ stage \in Stages
  BY DEF GlobalStages, LaterStages, Stages
<1>6. <<>> \in Seq(RankedItems) /\ <<>> \in Seq(Ids) /\ Len(<<>>) = 0 /\ 1..0 = {}
  OBVIOUS
<1>7. round' \in RoundStates
  BY <1>2, <1>5, <1>6 DEF RoundStates, NoRound
<1> HIDE DEF stage
<1>8. ScoutTyped'
  BY <1>1, <1>3, <1>4, <1>5, <1>7 DEF ScoutTyped
<1>9. RankedOnce'
  BY <1>4, <1>6 DEF RankedOnce, OnceEach
<1>10. /\ asked["trusted"] + asked["global"] <= FallbackLimit
       /\ asked["trusted"] = 0 /\ asked["global"] = 0 /\ asked["model"] = 0 /\ asked["model"] <= CandidateBudget
  BY <1>1 DEF ScoutInv, Spent, Watched
<1>11. Spent'
  BY <1>3, <1>4, <1>5, <1>10 DEF Spent
<1>12. Watched'
  BY <1>3, <1>4, <1>6, <1>10 DEF Watched, AllSound
<1>13. PageKept'
  <2>1. PerRepoAtLast' \in Nat /\ PageLimit \in Nat
    BY ScoutAssumption, SelectionAssumption DEF PerRepoAtLast
  <2>2. <<>> \in Pages(RankedItems, PageLimit, PerRepoAtLast')
    BY <2>1, EmptyPage
  <2>3. FairPage(<<>>, PerRepoAtLast')
    BY <1>6, <2>2 DEF FairPage, Pages, OnceEach
  <2> QED
    BY <1>4, <2>2, <2>3 DEF PageKept
<1> QED
  BY <1>8, <1>9, <1>11, <1>12, <1>13 DEF ScoutInv

\* What is known before a step.
LEMMA RoundSoFar ==
  ASSUME ScoutInv
  PROVE  /\ round \in RoundStates /\ log \in [shown : SUBSET Ids, dismissed : SUBSET Ids]
         /\ asked \in [Stages \cup {"model"} -> Nat] /\ stirred \in BOOLEAN
         /\ round.at # "idle" => round.stage \in Stages /\ round.mode # "none"
         /\ round.mode = "global" => round.stage \in GlobalStages
         /\ round.mode = "repository" => round.stage \in LaterStages
         /\ OnceEach(round.ranked) /\ round.ranked \in Seq(RankedItems) /\ round.queue \in Seq(Ids)
         /\ Spent /\ Watched /\ PageKept /\ RankedOnce
BY DEF ScoutInv, ScoutTyped, RankedOnce, OnceEach, RoundStates, Stages

LEMMA DiscoverKeeps == ASSUME ScoutInv, Discover PROVE ScoutInv'
<1>1. /\ round \in RoundStates /\ log \in [shown : SUBSET Ids, dismissed : SUBSET Ids]
      /\ asked \in [Stages \cup {"model"} -> Nat] /\ stirred \in BOOLEAN
      /\ round.at = "discover" /\ round.stage \in Stages /\ round.mode # "none"
      /\ round.mode = "global" => round.stage \in GlobalStages
      /\ round.mode = "repository" => round.stage \in LaterStages
      /\ OnceEach(round.ranked) /\ round.ranked \in Seq(RankedItems) /\ Spent /\ Watched /\ PageKept
  BY RoundSoFar DEF Discover
<1>2. log' = log /\ asked' = asked /\ stirred' = stirred
  BY DEF Discover, Quiet, Undisturbed
<1>3. CASE \E lane \in {Lanes[round.stage]} \cup (IF round.stage = "signals" THEN {<<>>} ELSE {}) :
             LET queue == Selected(Fresh(lane), StageBudget(round.stage)) IN
             round' = [round EXCEPT !.at = "rank", !.queue = queue, !.taken = 0, !.stop = StopAt(round.stage),
                                    !.found = @ \cup Range(lane)]
  <2>1. PICK lane \in {Lanes[round.stage], <<>>} :
             round' = [round EXCEPT !.at = "rank", !.queue = Selected(Fresh(lane), StageBudget(round.stage)),
                                    !.taken = 0, !.stop = StopAt(round.stage), !.found = @ \cup Range(lane)]
    BY <1>3
  <2> DEFINE budget == StageBudget(round.stage)
             queue == Selected(Fresh(lane), budget)
             stop == StopAt(round.stage)
             found == round.found \cup Range(lane)
  <2>2. lane \in Seq(Ids) /\ \A m, n \in 1..Len(lane) : lane[m] = lane[n] => m = n
    <3>1. CASE lane = <<>>
      BY <3>1
    <3>2. CASE lane = Lanes[round.stage]
      <4>1. Lanes[round.stage] \in Seq(Ids) /\ IsInjective(Lanes[round.stage])
        BY <1>1, StagesAre, ScoutAssumption
      <4> QED
        BY <3>2, <4>1 DEF IsInjective
    <3> QED
      BY <2>1, <3>1, <3>2
  <2>3. Range(lane) \subseteq Ids
    BY <2>2 DEF Range
  <2>4. /\ budget \in Nat /\ stop \in Nat /\ (round.stage = "trusted" => budget <= FallbackLimit)
        /\ (round.stage = "global" => budget = round.left)
    <3>1. round.left \in Nat
      BY <1>1 DEF RoundStates
    <3> QED
      BY <3>1, StageNumbers
  <2> DEFINE fresh == Fresh(lane)
  <2>5. /\ fresh \in Seq(Ids) /\ \A n \in 1..Len(fresh) : fresh[n] \notin KeysOf(round.ranked)
        /\ \A m, n \in 1..Len(fresh) : fresh[m] = fresh[n] => m = n
    BY <2>2, FreshIs
  <2> HIDE DEF fresh, budget
  <2>6. /\ Selected(fresh, budget) \in Seq(Ids) /\ Len(Selected(fresh, budget)) <= budget
        /\ \A m, n \in 1..Len(Selected(fresh, budget)) :
              Selected(fresh, budget)[m] = Selected(fresh, budget)[n] => m = n
        /\ \A n \in 1..Len(Selected(fresh, budget)) :
              \E k \in 1..Len(fresh) : Selected(fresh, budget)[n] = fresh[k]
    BY <2>4, <2>5, SelectedIs
  <2>7. queue = Selected(fresh, budget)
    BY DEF fresh
  <2> HIDE DEF queue, stop, found
  <2>8. queue \in Seq(Ids) /\ Len(queue) <= budget /\ Len(queue) \in Nat
    BY <2>6, <2>7
  <2>9. Waiting(queue, round.ranked)
    <3>1. ASSUME NEW n \in 1..Len(queue), NEW k \in 1..Len(round.ranked) PROVE queue[n] # round.ranked[k].id
      <4>1. round.ranked[k].id \in KeysOf(round.ranked)
        BY <1>1 DEF KeysOf
      <4> QED
        BY <2>5, <2>6, <2>7, <4>1
    <3> QED
      BY <2>6, <2>7, <3>1 DEF Waiting
  <2>10. round' = [round EXCEPT !.at = "rank", !.queue = queue, !.taken = 0, !.stop = stop, !.found = found]
    BY <2>1 DEF queue, stop, found, budget
  <2>11. found \in SUBSET Ids
    BY <1>1, <2>3 DEF RoundStates, found
  <2>12. /\ round' \in RoundStates /\ round'.at = "rank" /\ round'.queue = queue /\ round'.taken = 0
         /\ round'.mode = round.mode /\ round'.policy = round.policy /\ round'.stage = round.stage
         /\ round'.ranked = round.ranked /\ round'.left = round.left /\ round'.checked = round.checked
         /\ round'.page = round.page
    BY <1>1, <2>4, <2>8, <2>10, <2>11 DEF RoundStates
  <2>13. ScoutTyped'
    BY <1>1, <1>2, <2>12 DEF ScoutTyped
  <2>14. RankedOnce'
    BY <1>1, <2>9, <2>12 DEF RankedOnce
  <2>15. Spent'
    <3>1. /\ asked["trusted"] \in Nat /\ asked["global"] \in Nat /\ round.left \in Nat
          /\ FallbackLimit \in Nat /\ budget \in Nat
      BY <1>1, <2>4, ScoutAssumption DEF RoundStates, Stages, GlobalStages
    <3> QED
      BY <1>1, <1>2, <2>4, <2>8, <2>12, <3>1 DEF Spent
  <2>16. Watched'
    BY <1>1, <1>2, <2>12 DEF Watched
  <2>17. PageKept'
    BY <1>1, <2>12, PageStill DEF Steady
  <2> QED
    BY <2>13, <2>14, <2>15, <2>16, <2>17 DEF ScoutInv
<1>4. CASE \E at \in {"decide", "failed"} : Goes(at)
  <2>1. PICK at \in {"decide", "failed"} : round' = [round EXCEPT !.at = at]
    BY <1>4 DEF Goes
  <2>2. /\ round' \in RoundStates /\ round'.at = at /\ round'.queue = round.queue /\ round'.taken = round.taken
        /\ round'.mode = round.mode /\ round'.policy = round.policy /\ round'.stage = round.stage
        /\ round'.ranked = round.ranked /\ round'.left = round.left /\ round'.checked = round.checked
        /\ round'.page = round.page
    BY <1>1, <2>1 DEF RoundStates
  <2>3. ScoutTyped'
    BY <1>1, <1>2, <2>2 DEF ScoutTyped
  <2>4. RankedOnce'
    BY <1>1, <2>1, <2>2 DEF RankedOnce
  <2>5. Spent'
    BY <1>1, <1>2, <2>1, <2>2 DEF Spent
  <2>6. Watched'
    BY <1>1, <1>2, <2>1, <2>2 DEF Watched
  <2>7. PageKept'
    BY <1>1, <2>1, <2>2, PageStill DEF Steady
  <2> QED
    BY <2>3, <2>4, <2>5, <2>6, <2>7 DEF ScoutInv
<1> QED
  BY <1>3, <1>4 DEF Discover

\* What is enriched joins what is ranked, and is there once.
LEMMA EnrichedIs ==
  ASSUME NEW id \in Ids, NEW n, NEW failed, NEW blocked, NEW poor
  PROVE  /\ Enriched(id, n, failed, blocked, poor) \in RankedItems
         /\ Enriched(id, n, failed, blocked, poor).id = id
         /\ Enriched(id, n, failed, blocked, poor).verdict \in {"pending", "none"}
<1> DEFINE unread == n > TimelineCandidates \/ id \in blocked
           missing == IF unread THEN "unfetched" ELSE IF id \in failed THEN "failed" ELSE "no"
           facts == IF ~Codex THEN "none" ELSE IF id \in blocked THEN "blocked" ELSE "free"
           depth == IF Codex THEN "initial" ELSE "none"
           verdict == IF Codex THEN "pending" ELSE "none"
           bad == ~Codex /\ id \in poor
<1>1. Enriched(id, n, failed, blocked, poor) =
        [id |-> id, repo |-> RepoOf[id], displayable |-> TRUE, worth |-> TRUE, score |-> 0, missing |-> missing,
         facts |-> facts, depth |-> depth, verdict |-> verdict, poor |-> bad]
  BY DEF Enriched
<1>2. missing \in {"no", "unfetched", "failed"}
  <2> HIDE DEF unread
  <2> QED
    OBVIOUS
<1>3. facts \in {"none", "free", "blocked"}
  <2> QED
    OBVIOUS
<1>4. /\ depth \in {"none", "initial"} /\ verdict \in {"pending", "none"}
      /\ bad \in BOOLEAN /\ RepoOf[id] \in Repos
  BY DEF Repos
<1> HIDE DEF missing, facts, depth, verdict, bad
<1> QED
  BY <1>1, <1>2, <1>3, <1>4 DEF RankedItems

LEMMA RankBatchKeeps == ASSUME ScoutInv, RankBatch PROVE ScoutInv'
<1> DEFINE size == Min({BatchSize, Len(round.queue)})
           batch == SubSeq(round.queue, 1, size)
           q == round.queue
           L == Len(q)
           r == round.ranked
           m == Len(r)
<1>1. /\ round \in RoundStates /\ log \in [shown : SUBSET Ids, dismissed : SUBSET Ids]
      /\ asked \in [Stages \cup {"model"} -> Nat] /\ stirred \in BOOLEAN
      /\ round.at = "rank" /\ round.stage \in Stages /\ round.mode # "none"
      /\ round.mode = "global" => round.stage \in GlobalStages
      /\ round.mode = "repository" => round.stage \in LaterStages
      /\ OnceEach(r) /\ r \in Seq(RankedItems) /\ Spent /\ Watched /\ PageKept /\ RankedOnce
  BY RoundSoFar DEF RankBatch
<1>2. log' = log /\ stirred' = stirred /\ asked' = [asked EXCEPT ![round.stage] = @ + size] /\ size > 0
  BY DEF RankBatch, Undisturbed
<1>3. PICK failed \in SUBSET Range(batch) :
        \E blocked \in SUBSET (IF Codex THEN Range(batch) ELSE {}), poor \in SUBSET (IF Codex THEN {} ELSE Range(batch)) :
          LET ranked == FeedRanking(r \o [n \in 1..size |-> Enriched(batch[n], round.taken + n, failed, blocked, poor)])
              enough == DisplayCount(ranked, PageLimit, PerRepo) >= round.stop IN
          round' = [round EXCEPT !.ranked = ranked, !.taken = @ + size,
                      !.queue = IF enough THEN <<>> ELSE SubSeq(@, size + 1, Len(@))]
  BY DEF RankBatch
<1>4. PICK blocked \in SUBSET (IF Codex THEN Range(batch) ELSE {}), poor \in SUBSET (IF Codex THEN {} ELSE Range(batch)) :
          LET ranked == FeedRanking(r \o [n \in 1..size |-> Enriched(batch[n], round.taken + n, failed, blocked, poor)])
              enough == DisplayCount(ranked, PageLimit, PerRepo) >= round.stop IN
          round' = [round EXCEPT !.ranked = ranked, !.taken = @ + size,
                      !.queue = IF enough THEN <<>> ELSE SubSeq(@, size + 1, Len(@))]
  BY <1>3
<1> DEFINE items == [n \in 1..size |-> Enriched(batch[n], round.taken + n, failed, blocked, poor)]
           all == r \o items
           ranked == FeedRanking(all)
           enough == DisplayCount(ranked, PageLimit, PerRepo) >= round.stop
           rest == IF enough THEN <<>> ELSE SubSeq(q, size + 1, L)
           taken == round.taken + size
<1>5. round' = [round EXCEPT !.ranked = ranked, !.taken = taken, !.queue = rest]
  BY <1>4
<1>6. Waiting(q, r) /\ q \in Seq(Ids) /\ L \in Nat /\ m \in Nat /\ round.taken \in Nat
  <2>1. Waiting(q, r)
    BY <1>1 DEF RankedOnce
  <2>2. q \in Seq(Ids)
    BY <2>1 DEF Waiting
  <2>3. round.taken \in Nat
    BY <1>1 DEF RoundStates
  <2>4. L \in Nat /\ m \in Nat
    BY <1>1, <2>2
  <2> QED
    BY <2>1, <2>2, <2>3, <2>4
<1>7. size \in Nat /\ size <= L /\ size > 0
  <2>1. {BatchSize, L} \in SUBSET Nat
    BY <1>6, ScoutAssumption
  <2> QED
    BY <1>2, <2>1, LeastOf
<1> HIDE DEF size
<1>8. /\ Len(batch) = size /\ \A n \in 1..size : batch[n] = q[n] /\ batch[n] \in Ids
  BY <1>6, <1>7
<1>9. \A n \in 1..size : items[n] \in RankedItems /\ items[n].id = q[n] /\ items[n].verdict \in {"pending", "none"}
  <2> HIDE DEF batch
  <2> SUFFICES ASSUME NEW n \in 1..size
               PROVE  items[n] \in RankedItems /\ items[n].id = q[n] /\ items[n].verdict \in {"pending", "none"}
    OBVIOUS
  <2> HIDE DEF q
  <2> QED
    BY <1>8, EnrichedIs
<1>10. items \in Seq(RankedItems) /\ Len(items) = size
  <2> HIDE DEF batch
  <2> QED
    BY <1>7, <1>9
<1> HIDE DEF items, batch
<1>11. /\ all \in Seq(RankedItems) /\ Len(all) = m + size
       /\ \A n \in 1..m : all[n] = r[n]
       /\ \A k \in 1..size : all[m + k] = items[k]
  <2>1. all \in Seq(RankedItems) /\ Len(all) = m + size
    BY <1>1, <1>10
  <2>2. \A n \in 1..m : all[n] = r[n]
    BY <1>1, <1>6, <1>7, <1>10
  <2>3. \A k \in 1..size : all[m + k] = items[k]
    BY <1>1, <1>6, <1>7, <1>10
  <2> QED
    BY <2>1, <2>2, <2>3
<1> HIDE DEF all
<1>12. \A n \in 1..m + size : (n \in 1..m /\ all[n] = r[n]) \/ \E k \in 1..size : n = m + k /\ all[n] = items[k]
  <2> SUFFICES ASSUME NEW n \in 1..m + size, n \notin 1..m
               PROVE  \E k \in 1..size : n = m + k /\ all[n] = items[k]
    BY <1>11
  <2> DEFINE k == n - m
  <2>1. k \in 1..size /\ n = m + k
    BY <1>6, <1>7
  <2> HIDE DEF m, k
  <2> QED
    BY <1>11, <2>1
<1>13. OnceEach(all)
  <2> SUFFICES ASSUME NEW x \in 1..m + size, NEW y \in 1..m + size, all[x].id = all[y].id PROVE x = y
    BY <1>11 DEF OnceEach
  <2>1. CASE x \in 1..m /\ y \in 1..m
    BY <1>1, <1>11, <2>1 DEF OnceEach
  <2>2. CASE x \in 1..m /\ y \notin 1..m
    <3>1. PICK k \in 1..size : y = m + k /\ all[y] = items[k]
      BY <1>12, <2>2
    <3>2. q[k] = r[x].id /\ k \in 1..L
      BY <1>7, <1>6, <1>9, <1>11, <2>2, <3>1
    <3> QED
      BY <1>6, <2>2, <3>2 DEF Waiting
  <2>3. CASE x \notin 1..m /\ y \in 1..m
    <3>1. PICK k \in 1..size : x = m + k /\ all[x] = items[k]
      BY <1>12, <2>3
    <3>2. q[k] = r[y].id /\ k \in 1..L
      BY <1>7, <1>6, <1>9, <1>11, <2>3, <3>1
    <3> QED
      BY <1>6, <2>3, <3>2 DEF Waiting
  <2>4. CASE x \notin 1..m /\ y \notin 1..m
    <3>1. PICK j \in 1..size : x = m + j /\ all[x] = items[j]
      BY <1>12, <2>4
    <3>2. PICK k \in 1..size : y = m + k /\ all[y] = items[k]
      BY <1>12, <2>4
    <3>3. q[j] = q[k] /\ j \in 1..L /\ k \in 1..L
      BY <1>6, <1>7, <1>9, <3>1, <3>2
    <3>4. j = k
      BY <1>6, <3>3 DEF Waiting
    <3> QED
      BY <3>1, <3>2, <3>4
  <2> QED
    BY <2>1, <2>2, <2>3, <2>4
<1>14. Moves(ranked, all) /\ OnceEach(ranked) /\ ranked \in Seq(RankedItems) /\ Len(ranked) = m + size
  BY <1>11, <1>13, RankingMoves DEF Moves, OnceEach
<1> HIDE DEF ranked
<1>15. rest \in Seq(Ids) /\ Len(rest) \in Nat /\ taken \in Nat /\ taken + Len(rest) <= round.taken + L
  <2>1. CASE enough
    BY <1>6, <1>7, <2>1
  <2>2. CASE ~enough
    BY <1>6, <1>7, <2>2
  <2> QED
    BY <2>1, <2>2
<1>16. Waiting(rest, ranked)
  <2>1. \A n \in 1..Len(rest) : n + size \in 1..L /\ rest[n] = q[n + size]
    <3>1. CASE enough
      BY <3>1
    <3>2. CASE ~enough
      BY <1>6, <1>7, <3>2
    <3> QED
      BY <3>1, <3>2
  <2> HIDE DEF rest
  <2>2. \A j, k \in 1..Len(rest) : rest[j] = rest[k] => j = k
    <3> SUFFICES ASSUME NEW j \in 1..Len(rest), NEW k \in 1..Len(rest), rest[j] = rest[k] PROVE j = k
      OBVIOUS
    <3>1. j + size = k + size
      BY <1>6, <2>1 DEF Waiting
    <3> QED
      BY <1>7, <1>15, <3>1
  <2>3. ASSUME NEW n \in 1..Len(rest), NEW k \in 1..Len(ranked) PROVE rest[n] # ranked[k].id
    <3>1. PICK j \in 1..m + size : ranked[k] = Assessed(all[j])
      BY <1>11, <1>14 DEF Moves
    <3>2. ranked[k].id = all[j].id
      BY <1>11, <3>1, AssessedIs
    <3>3. CASE j \in 1..m
      <4>1. all[j] = r[j]
        BY <1>11, <3>3
      <4> HIDE DEF r, m
      <4>2. q[n + size] # r[j].id
        <5>1. j \in 1..Len(r) /\ n + size \in 1..Len(q)
          BY <2>1, <3>3 DEF m
        <5> QED
          BY <1>6, <5>1 DEF Waiting
      <4> QED
        BY <2>1, <3>2, <4>1, <4>2
    <3>4. CASE j \notin 1..m
      <4>1. PICK i \in 1..size : all[j] = items[i]
        BY <1>12, <3>4
      <4>2. all[j].id = q[i] /\ i \in 1..L /\ i # n + size
        BY <1>6, <1>7, <1>9, <1>15, <4>1
      <4> QED
        BY <1>6, <2>1, <3>2, <4>2 DEF Waiting
    <3> QED
      BY <3>3, <3>4
  <2> QED
    BY <1>15, <2>2, <2>3 DEF Waiting
<1> HIDE DEF rest, taken
<1>17. /\ round' \in RoundStates /\ round'.at = "rank" /\ round'.queue = rest /\ round'.taken = taken
       /\ round'.mode = round.mode /\ round'.policy = round.policy /\ round'.stage = round.stage
       /\ round'.ranked = ranked /\ round'.left = round.left /\ round'.checked = round.checked
       /\ round'.page = round.page
  BY <1>1, <1>5, <1>14, <1>15 DEF RoundStates
<1>18. /\ asked' \in [Stages \cup {"model"} -> Nat] /\ asked'["model"] = asked["model"]
       /\ asked'["trusted"] = IF round.stage = "trusted" THEN asked["trusted"] + size ELSE asked["trusted"]
       /\ asked'["global"] = IF round.stage = "global" THEN asked["global"] + size ELSE asked["global"]
  <2>1. round.stage # "model" /\ "trusted" \in Stages /\ "global" \in Stages
    BY <1>1 DEF Stages, GlobalStages, LaterStages
  <2> QED
    BY <1>1, <1>2, <1>7, <2>1
<1>19. ScoutTyped'
  BY <1>1, <1>2, <1>17, <1>18 DEF ScoutTyped
<1>20. RankedOnce'
  BY <1>14, <1>16, <1>17 DEF RankedOnce
<1>21. Spent'
  <2>1. /\ asked["trusted"] \in Nat /\ asked["global"] \in Nat /\ round.left \in Nat /\ FallbackLimit \in Nat
    BY <1>1, ScoutAssumption DEF RoundStates, Stages, GlobalStages
  <2>2. taken = round.taken + size
    BY DEF taken
  <2>3. CASE round.stage = "trusted"
    BY <1>1, <1>6, <1>7, <1>15, <1>17, <1>18, <2>1, <2>2, <2>3 DEF Spent
  <2>4. CASE round.stage = "global"
    <3>1. /\ asked["trusted"] + round.left <= FallbackLimit /\ asked["global"] = round.taken
          /\ round.taken + L <= round.left
      BY <1>1, <2>4 DEF Spent
    <3>2. asked'["trusted"] = asked["trusted"] /\ asked'["global"] = taken /\ taken + Len(rest) <= round.left
      BY <1>6, <1>15, <1>18, <2>1, <2>2, <2>4, <3>1
    <3>3. taken <= round.left
      BY <1>15, <2>1, <3>2
    <3>4. asked'["trusted"] + asked'["global"] <= FallbackLimit
      BY <1>15, <2>1, <3>1, <3>2, <3>3
    <3> QED
      BY <1>17, <2>4, <3>1, <3>2, <3>4 DEF Spent
  <2>5. CASE round.stage \notin {"trusted", "global"}
    BY <1>1, <1>17, <1>18, <2>1, <2>5 DEF Spent
  <2> QED
    BY <2>3, <2>4, <2>5
<1>22. Watched'
  <2>1. AllSound(all, {})
    <3> SUFFICES ASSUME NEW n \in 1..m + size PROVE ItemSound(all[n], {})
      BY <1>11 DEF AllSound
    <3>1. CASE n \in 1..m
      BY <1>1, <1>11, <3>1 DEF Watched, AllSound, ItemSound
    <3>2. CASE n \notin 1..m
      <4>1. PICK k \in 1..size : all[n] = items[k]
        BY <1>12, <3>2
      <4> QED
        BY <1>9, <4>1 DEF ItemSound
    <3> QED
      BY <3>1, <3>2
  <2>2. AllSound(ranked, {})
    BY <1>13, <1>14, <2>1, MovedSound
  <2> QED
    BY <1>1, <1>17, <1>18, <2>2 DEF Watched
<1>23. PageKept'
  BY <1>1, <1>17, PageStill DEF Steady
<1> QED
  BY <1>19, <1>20, <1>21, <1>22, <1>23 DEF ScoutInv

LEMMA RankedKeeps == ASSUME ScoutInv, Ranked PROVE ScoutInv'
<1> DEFINE left == IF round.stage = "trusted" THEN LeftForGlobal ELSE round.left
           short == DisplayCount(round.ranked, PageLimit, PerRepo) < HardPass(PageLimit)
<1>1. /\ round \in RoundStates /\ log \in [shown : SUBSET Ids, dismissed : SUBSET Ids]
      /\ asked \in [Stages \cup {"model"} -> Nat] /\ stirred \in BOOLEAN
      /\ round.at = "rank" /\ round.stage \in Stages /\ round.mode # "none"
      /\ round.mode = "global" => round.stage \in GlobalStages
      /\ round.mode = "repository" => round.stage \in LaterStages
      /\ OnceEach(round.ranked) /\ Spent /\ Watched /\ PageKept /\ round.queue = <<>>
  BY RoundSoFar DEF Ranked
<1>2. log' = log /\ asked' = asked /\ stirred' = stirred
  BY DEF Ranked, Quiet, Undisturbed
<1>3. /\ asked["trusted"] \in Nat /\ asked["global"] \in Nat /\ round.left \in Nat /\ FallbackLimit \in Nat
      /\ round.taken \in Nat /\ Len(<<>>) = 0
  BY <1>1, ScoutAssumption DEF RoundStates, Stages, GlobalStages
<1>4. left \in Nat
  <2>1. CASE round.stage = "trusted"
    <3>1. round.taken <= FallbackLimit
      BY <1>1, <1>3, <2>1 DEF Spent
    <3> QED
      BY <1>3, <2>1, <3>1 DEF LeftForGlobal
  <2>2. CASE round.stage # "trusted"
    BY <1>3, <2>2
  <2> QED
    BY <2>1, <2>2
<1>5. round' = CASE round.stage = "first" /\ short -> [round EXCEPT !.at = "discover", !.stage = "trusted"]
                 [] round.stage = "trusted" /\ short /\ left > 0 ->
                      [round EXCEPT !.at = "discover", !.stage = "global", !.left = left]
                 [] OTHER -> [round EXCEPT !.at = "complete", !.left = left]
  BY DEF Ranked
<1>6. left = IF round.stage = "trusted" THEN FallbackLimit - round.taken ELSE round.left
  BY DEF LeftForGlobal
<1> HIDE DEF left, short
<1> DEFINE Kept == /\ round'.mode = round.mode /\ round'.policy = round.policy /\ round'.ranked = round.ranked
                   /\ round'.checked = round.checked /\ round'.page = round.page
                   /\ round'.at \in {"discover", "complete"}
<1>7. CASE round.stage = "first" /\ short
  <2>1. round' = [round EXCEPT !.at = "discover", !.stage = "trusted"]
    BY <1>5, <1>7
  <2>2. round' \in RoundStates /\ Kept /\ round'.at = "discover" /\ round'.stage = "trusted"
    BY <1>1, <2>1 DEF RoundStates, Stages, GlobalStages
  <2>3. round.mode = "global" \/ round.mode = "none"
    BY <1>1, <1>7 DEF RoundStates, LaterStages
  <2>4. ScoutTyped'
    BY <1>1, <1>2, <2>2, <2>3 DEF ScoutTyped, GlobalStages
  <2>5. Spent'
    BY <1>1, <1>2, <1>3, <1>7, <2>2 DEF Spent
  <2>6. RankedOnce' /\ Watched'
    BY <1>1, <1>2, <2>2 DEF RankedOnce, Watched
  <2>7. PageKept'
    BY <1>1, <2>2, PageStill DEF Steady
  <2> QED
    BY <2>4, <2>5, <2>6, <2>7 DEF ScoutInv
<1>8. CASE round.stage = "trusted" /\ short /\ left > 0
  <2>1. round' = [round EXCEPT !.at = "discover", !.stage = "global", !.left = left]
    BY <1>5, <1>8
  <2>2. round' \in RoundStates /\ Kept /\ round'.at = "discover" /\ round'.stage = "global" /\ round'.left = left
    BY <1>1, <1>4, <2>1 DEF RoundStates, Stages, GlobalStages
  <2>3. round.mode = "global" \/ round.mode = "none"
    BY <1>1, <1>8 DEF RoundStates, LaterStages
  <2>4. ScoutTyped'
    BY <1>1, <1>2, <2>2, <2>3 DEF ScoutTyped, GlobalStages
  <2>5. Spent'
    <3>1. asked["trusted"] = round.taken /\ asked["global"] = 0 /\ left = FallbackLimit - round.taken
      BY <1>1, <1>6, <1>8 DEF Spent
    <3> QED
      BY <1>1, <1>2, <1>3, <1>4, <2>2, <3>1 DEF Spent
  <2>6. RankedOnce' /\ Watched'
    BY <1>1, <1>2, <2>2 DEF RankedOnce, Watched
  <2>7. PageKept'
    BY <1>1, <2>2, PageStill DEF Steady
  <2> QED
    BY <2>4, <2>5, <2>6, <2>7 DEF ScoutInv
<1>9. CASE ~(round.stage = "first" /\ short) /\ ~(round.stage = "trusted" /\ short /\ left > 0)
  <2>1. round' = [round EXCEPT !.at = "complete", !.left = left]
    BY <1>5, <1>9
  <2>2. round' \in RoundStates /\ Kept /\ round'.at = "complete" /\ round'.stage = round.stage /\ round'.left = left
    BY <1>1, <1>4, <2>1 DEF RoundStates
  <2>4. ScoutTyped'
    BY <1>1, <1>2, <2>2 DEF ScoutTyped
  <2>5. Spent'
    BY <1>1, <1>2, <2>2 DEF Spent
  <2>6. RankedOnce' /\ Watched'
    BY <1>1, <1>2, <2>2 DEF RankedOnce, Watched
  <2>7. PageKept'
    BY <1>1, <2>2, PageStill DEF Steady
  <2> QED
    BY <2>4, <2>5, <2>6, <2>7 DEF ScoutInv
<1> QED
  BY <1>7, <1>8, <1>9

\* The stage after a completion is one of the run's.
LEMMA NextStageIs ==
  ASSUME NEW ranked, round.mode = "repository" => round.stage \in LaterStages
  PROVE  \/ NextStage(ranked) = "none"
         \/ round.mode = "global" /\ NextStage(ranked) \in {"trustedRefill", "globalRefill"}
         \/ round.mode = "repository" /\ NextStage(ranked) \in LaterStages
<1> DEFINE short == Len(SelectDisplay(ranked, PageLimit, PerRepoAtLast)) < HardPass(PageLimit)
           lacking == DisplayCount(ranked, PageLimit, PerRepo) < PageLimit
           place == CHOOSE n \in DOMAIN RepositoryStages : RepositoryStages[n] = round.stage
<1>1. NextStage(ranked) =
        CASE round.mode = "global" /\ short /\ round.stage \in {"first", "trusted", "global"} -> "trustedRefill"
          [] round.mode = "global" /\ short /\ round.stage = "trustedRefill" -> "globalRefill"
          [] round.mode = "repository" /\ lacking /\ round.stage # "recent500" -> RepositoryStages[place + 1]
          [] OTHER -> "none"
  BY DEF NextStage
<1> HIDE DEF short, lacking
<1>2. CASE round.mode = "repository" /\ lacking /\ round.stage # "recent500"
  <2>1. place \in 1..5 /\ RepositoryStages[place] = round.stage
    BY <1>2, StagesAre
  <2> HIDE DEF place
  <2>2. place # 5
    BY <1>2, <2>1, StagesAre
  <2>3. place + 1 \in 1..5
    BY <2>1, <2>2
  <2>4. NextStage(ranked) = RepositoryStages[place + 1]
    BY <1>1, <1>2
  <2> QED
    BY <1>2, <2>3, <2>4, StagesAre
<1>3. CASE ~(round.mode = "repository" /\ lacking /\ round.stage # "recent500")
  BY <1>1, <1>3
<1> QED
  BY <1>2, <1>3

LEMMA CompleteKeeps == ASSUME ScoutInv, Complete PROVE ScoutInv'
<1> DEFINE r == round.ranked
           sorted == FeedRanking(r)
           plan == PlanCompletion(sorted, PageLimit)
           m == Len(sorted)
<1>1. /\ round \in RoundStates /\ log \in [shown : SUBSET Ids, dismissed : SUBSET Ids]
      /\ asked \in [Stages \cup {"model"} -> Nat] /\ stirred \in BOOLEAN
      /\ round.at = "complete" /\ round.stage \in Stages /\ round.mode # "none"
      /\ round.mode = "global" => round.stage \in GlobalStages
      /\ round.mode = "repository" => round.stage \in LaterStages
      /\ OnceEach(r) /\ Spent /\ Watched /\ PageKept
  BY RoundSoFar DEF Complete
<1>2. log' = log /\ asked' = asked /\ stirred' = stirred
  BY DEF Complete, Quiet, Undisturbed
<1>3. PICK failed \in SUBSET plan.complete, poor \in SUBSET (IF Codex THEN {} ELSE plan.complete) :
       LET done(i) == IF i.id \in plan.skipped THEN [i EXCEPT !.missing = "skipped"]
                       ELSE IF i.id \in plan.complete
                       THEN [i EXCEPT !.missing = IF i.id \in failed THEN "failed" ELSE "no", !.poor = i.id \in poor]
                       ELSE i
            ranked == FeedRanking(AsTuple([n \in DOMAIN sorted |-> done(sorted[n])]))
            next == NextStage(ranked) IN
        round' = [round EXCEPT !.ranked = ranked, !.stage = IF next = "none" THEN @ ELSE next,
                               !.at = IF next = "none" THEN "decide" ELSE "discover"]
  BY DEF Complete
<1> DEFINE done(i) == IF i.id \in plan.skipped THEN [i EXCEPT !.missing = "skipped"]
                       ELSE IF i.id \in plan.complete
                       THEN [i EXCEPT !.missing = IF i.id \in failed THEN "failed" ELSE "no", !.poor = i.id \in poor]
                       ELSE i
           f == [n \in DOMAIN sorted |-> done(sorted[n])]
           all == AsTuple(f)
           ranked == FeedRanking(all)
           next == NextStage(ranked)
           stage == IF next = "none" THEN round.stage ELSE next
           at == IF next = "none" THEN "decide" ELSE "discover"
<1>4. round' = [round EXCEPT !.ranked = ranked, !.stage = stage, !.at = at]
  BY <1>3
<1> HIDE DEF plan
<1>5. ASSUME NEW i \in RankedItems
      PROVE  /\ done(i) \in RankedItems /\ done(i).id = i.id /\ done(i).depth = i.depth
             /\ done(i).facts = i.facts /\ done(i).verdict = i.verdict
  <2> DEFINE missing == IF i.id \in failed THEN "failed" ELSE "no"
             bad == i.id \in poor
  <2>1. missing \in {"failed", "no"} /\ bad \in BOOLEAN
    OBVIOUS
  <2>2. done(i) = IF i.id \in plan.skipped THEN [i EXCEPT !.missing = "skipped"]
                  ELSE IF i.id \in plan.complete THEN [i EXCEPT !.missing = missing, !.poor = bad] ELSE i
    OBVIOUS
  <2> HIDE DEF done, missing, bad
  <2>3. CASE i.id \in plan.skipped
    <3>1. done(i) = [i EXCEPT !.missing = "skipped"]
      BY <2>2, <2>3
    <3> QED
      BY <3>1 DEF RankedItems
  <2>4. CASE i.id \notin plan.skipped /\ i.id \in plan.complete
    <3>1. done(i) = [i EXCEPT !.missing = missing, !.poor = bad]
      BY <2>2, <2>4
    <3> QED
      BY <2>1, <3>1 DEF RankedItems
  <2>5. CASE i.id \notin plan.skipped /\ i.id \notin plan.complete
    BY <2>2, <2>5
  <2> QED
    BY <2>3, <2>4, <2>5
<1> HIDE DEF done
<1>6. Moves(sorted, r) /\ OnceEach(sorted) /\ sorted \in Seq(RankedItems) /\ DOMAIN sorted = 1..m /\ m \in Nat
  <2> HIDE DEF sorted
  <2>1. Moves(sorted, r) /\ OnceEach(sorted)
    BY <1>1, RankingMoves DEF Moves, sorted
  <2>2. sorted \in Seq(RankedItems)
    BY <2>1 DEF OnceEach
  <2> QED
    BY <2>1, <2>2
<1>7. AllSound(sorted, {})
  <2>1. AllSound(r, {})
    BY <1>1 DEF Watched
  <2> HIDE DEF r, sorted
  <2> QED
    BY <1>1, <1>6, <2>1, MovedSound
<1> HIDE DEF sorted
<1>8. f \in [1..m -> RankedItems] /\ \A n \in 1..m : f[n] = done(sorted[n]) /\ sorted[n] \in RankedItems
  BY <1>5, <1>6
<1> HIDE DEF f
<1>9. all = f /\ all \in Seq(RankedItems) /\ Len(all) = m
  <2> HIDE DEF m
  <2> QED
    BY <1>6, <1>8, TupleIs
<1>10. OnceEach(all)
  BY <1>5, <1>6, <1>8, <1>9 DEF OnceEach
<1>11. AllSound(all, {})
  <2> SUFFICES ASSUME NEW n \in 1..m PROVE ItemSound(all[n], {})
    BY <1>9 DEF AllSound
  <2>1. all[n] = done(sorted[n]) /\ sorted[n] \in RankedItems /\ ItemSound(sorted[n], {})
    BY <1>7, <1>8, <1>9 DEF AllSound
  <2> QED
    BY <1>5, <2>1 DEF ItemSound, Blocked
<1> HIDE DEF all
<1>12. Moves(ranked, all) /\ OnceEach(ranked) /\ ranked \in Seq(RankedItems)
  BY <1>10, RankingMoves DEF Moves, OnceEach
<1>13. AllSound(ranked, {})
  <2> HIDE DEF ranked
  <2> QED
    BY <1>10, <1>11, <1>12, MovedSound
<1> HIDE DEF ranked
<1>14. \/ next = "none"
       \/ round.mode = "global" /\ next \in {"trustedRefill", "globalRefill"}
       \/ round.mode = "repository" /\ next \in LaterStages
  BY <1>1, NextStageIs
<1> HIDE DEF next
<1>15. /\ stage \in Stages /\ at \in {"decide", "discover"}
       /\ (round.mode = "global" => stage \in GlobalStages) /\ (round.mode = "repository" => stage \in LaterStages)
       /\ stage = round.stage \/ stage \in {"trustedRefill", "globalRefill"} \/ (stage \in LaterStages /\ round.stage \in LaterStages)
       /\ at = "discover" => stage \notin {"trusted", "global"}
  BY <1>1, <1>14 DEF Stages, GlobalStages, LaterStages
<1> HIDE DEF stage, at
<1>16. /\ round' \in RoundStates /\ round'.at = at /\ round'.stage = stage
       /\ round'.mode = round.mode /\ round'.policy = round.policy
       /\ round'.ranked = ranked /\ round'.checked = round.checked /\ round'.page = round.page
  BY <1>1, <1>4, <1>12, <1>15 DEF RoundStates
<1>17. ScoutTyped'
  BY <1>1, <1>2, <1>15, <1>16 DEF ScoutTyped
<1>18. RankedOnce'
  BY <1>12, <1>15, <1>16 DEF RankedOnce
<1>19. Spent'
  BY <1>1, <1>2, <1>15, <1>16 DEF Spent, LaterStages
<1>20. Watched'
  BY <1>1, <1>2, <1>13, <1>15, <1>16 DEF Watched
<1>21. PageKept'
  BY <1>1, <1>15, <1>16, PageStill DEF Steady
<1> QED
  BY <1>17, <1>18, <1>19, <1>20, <1>21 DEF ScoutInv

\* Answers of the model, or their absence, written over a ranking.
Reworded(r, v) == [n \in DOMAIN r |-> [r[n] EXCEPT !.verdict = v[n]]]
AnswersFor(r, v) ==
  /\ \A n \in 1..Len(r) : v[n] \in {"fit", "unfit", "open", "skipped_facts", "skipped_budget"}
  /\ \A n \in 1..Len(r) : Blocked(r[n]) => v[n] \notin {"fit", "unfit"}
LEMMA JudgedSound ==
  ASSUME NEW r, OnceEach(r), NEW v, AnswersFor(r, v)
  PROVE  OnceEach(Reworded(r, v)) /\ AllSound(Reworded(r, v), {})
<1> DEFINE q == Reworded(r, v)
<1>1. Len(r) \in Nat /\ DOMAIN r = 1..Len(r) /\ \A n \in 1..Len(r) : r[n] \in RankedItems
  BY DEF OnceEach
<1>2. ASSUME NEW n \in 1..Len(r)
      PROVE  /\ q[n] \in RankedItems /\ q[n].id = r[n].id /\ q[n].facts = r[n].facts /\ q[n].verdict = v[n]
  <2>1. q[n] = [r[n] EXCEPT !.verdict = v[n]] /\ r[n] \in RankedItems
    BY <1>1 DEF Reworded
  <2>2. v[n] \in {"fit", "unfit", "open", "skipped_facts", "skipped_budget"}
    BY DEF AnswersFor
  <2> HIDE DEF q
  <2> QED
    BY <2>1, <2>2 DEF RankedItems
<1>3. DOMAIN q = 1..Len(r) /\ q = [n \in 1..Len(r) |-> q[n]]
  BY <1>1 DEF Reworded
<1> HIDE DEF q
<1>4. q \in [1..Len(r) -> RankedItems]
  BY <1>1, <1>2, <1>3
<1>5. q \in Seq(RankedItems) /\ Len(q) = Len(r)
  BY <1>1, <1>4, TupleIs
<1>6. OnceEach(q)
  BY <1>2, <1>5 DEF OnceEach
<1>7. AllSound(q, {})
  <2> SUFFICES ASSUME NEW n \in 1..Len(r) PROVE ItemSound(q[n], {})
    BY <1>5 DEF AllSound
  <2> QED
    BY <1>2 DEF ItemSound, Blocked, AnswersFor
<1> QED
  BY <1>6, <1>7 DEF q

LEMMA DecideBatchKeeps == ASSUME ScoutInv, DecideBatch PROVE ScoutInv'
<1> DEFINE r == round.ranked
           m == Len(r)
           S == {n \in DOMAIN r : ~Blocked(r[n])}
           eligible == Upward(S)
           pool == Pool(eligible)
           verdicts == {"fit", "unfit", "open"}
           said(verdict) == [n \in 1..m |-> IF n \in pool THEN verdict[n]
                               ELSE IF Blocked(r[n]) THEN "skipped_facts" ELSE "skipped_budget"]
<1>1. /\ round \in RoundStates /\ log \in [shown : SUBSET Ids, dismissed : SUBSET Ids]
      /\ asked \in [Stages \cup {"model"} -> Nat] /\ stirred \in BOOLEAN
      /\ round.at = "decide" /\ round.stage \in Stages /\ round.mode # "none"
      /\ round.mode = "global" => round.stage \in GlobalStages
      /\ round.mode = "repository" => round.stage \in LaterStages
      /\ OnceEach(r) /\ Spent /\ Watched /\ PageKept
  BY RoundSoFar DEF DecideBatch
<1>2. log' = log /\ stirred' = stirred
  BY DEF DecideBatch, Undisturbed
<1>3. m \in Nat /\ DOMAIN r = 1..m /\ r \in Seq(RankedItems)
  BY <1>1 DEF OnceEach
<1>4. /\ Cardinality(pool) \in Nat /\ Cardinality(pool) <= CandidateBudget
      /\ \A n \in pool : n \in 1..m /\ ~Blocked(r[n])
  <2> DEFINE c == Cardinality(S)
  <2>1. S \in SUBSET (1..m)
    BY <1>3
  <2> HIDE DEF S, m
  <2>2. c \in Nat /\ eligible \in [1..c -> S]
    BY <1>3, <2>1, UpwardIs
  <2> HIDE DEF c, eligible
  <2>3. Len(eligible) = c
    BY <2>2, TupleIs
  <2>4. /\ Cardinality(Pool(eligible)) \in Nat /\ Cardinality(Pool(eligible)) <= CandidateBudget
        /\ \A x \in Pool(eligible) : \E k \in 1..Len(eligible) : x = eligible[k]
    BY <2>2, <2>3, PoolIs
  <2>5. \A x \in pool : x \in S
    BY <2>2, <2>3, <2>4
  <2> QED
    BY <2>1, <2>4, <2>5 DEF S
<1> DEFINE Kept == /\ round'.mode = round.mode /\ round'.policy = round.policy /\ round'.stage = round.stage
                   /\ round'.at = "recheck" /\ round'.checked = round.checked /\ round'.page = round.page
<1>5. ASSUME NEW ranked, OnceEach(ranked), AllSound(ranked, {}), round' = [round EXCEPT !.at = "recheck", !.ranked = ranked],
             asked' \in [Stages \cup {"model"} -> Nat], asked'["model"] <= CandidateBudget,
             asked'["trusted"] = asked["trusted"], asked'["global"] = asked["global"]
      PROVE  ScoutInv'
  <2>1. ranked \in Seq(RankedItems)
    BY <1>5 DEF OnceEach
  <2>2. round' \in RoundStates /\ Kept /\ round'.ranked = ranked
    BY <1>1, <1>5, <2>1 DEF RoundStates
  <2>3. ScoutTyped'
    BY <1>1, <1>2, <1>5, <2>2 DEF ScoutTyped
  <2>4. RankedOnce'
    BY <1>5, <2>2 DEF RankedOnce
  <2>5. Spent'
    BY <1>1, <1>5, <2>2 DEF Spent
  <2>6. Watched'
    BY <1>1, <1>5, <2>2 DEF Watched
  <2>7. PageKept'
    BY <1>1, <2>2, PageStill DEF Steady
  <2> QED
    BY <2>3, <2>4, <2>5, <2>6, <2>7 DEF ScoutInv
<1>6. CASE Goes("recheck") /\ UNCHANGED asked
  <2>1. round' = [round EXCEPT !.at = "recheck"]
    BY <1>6 DEF Goes
  <2>2. round' = [round EXCEPT !.at = "recheck", !.ranked = r]
    BY <1>1, <2>1 DEF RoundStates
  <2>3. AllSound(r, {}) /\ asked["model"] <= CandidateBudget
    BY <1>1 DEF Watched
  <2> HIDE DEF r
  <2> QED
    BY <1>1, <1>5, <1>6, <2>2, <2>3
<1>7. CASE \E verdict \in [pool -> verdicts] :
               /\ round' = [round EXCEPT !.at = "recheck", !.ranked = [n \in DOMAIN @ |->
                     [@[n] EXCEPT !.verdict = IF n \in pool THEN verdict[n]
                                              ELSE IF Blocked(round.ranked[n]) THEN "skipped_facts" ELSE "skipped_budget"]]]
               /\ asked' = [asked EXCEPT !["model"] = @ + Cardinality(pool)]
  <2>1. PICK verdict \in [pool -> verdicts] :
               /\ round' = [round EXCEPT !.at = "recheck", !.ranked = [n \in DOMAIN r |->
                     [r[n] EXCEPT !.verdict = IF n \in pool THEN verdict[n]
                                              ELSE IF Blocked(r[n]) THEN "skipped_facts" ELSE "skipped_budget"]]]
               /\ asked' = [asked EXCEPT !["model"] = @ + Cardinality(pool)]
    BY <1>7
  <2> HIDE DEF pool
  <2> DEFINE v == said(verdict)
             q == Reworded(r, v)
  <2>2. \A n \in 1..m : v[n] = IF n \in pool THEN verdict[n]
                               ELSE IF Blocked(r[n]) THEN "skipped_facts" ELSE "skipped_budget"
    OBVIOUS
  <2>3. q = [n \in DOMAIN r |-> [r[n] EXCEPT !.verdict = IF n \in pool THEN verdict[n]
                                              ELSE IF Blocked(r[n]) THEN "skipped_facts" ELSE "skipped_budget"]]
    BY <1>3, <2>2 DEF Reworded
  <2>4. round' = [round EXCEPT !.at = "recheck", !.ranked = q]
    BY <2>1, <2>3
  <2>5. /\ \A n \in 1..m : v[n] \in {"fit", "unfit", "open", "skipped_facts", "skipped_budget"}
        /\ \A n \in 1..m : Blocked(r[n]) => v[n] \notin {"fit", "unfit"}
    BY <1>4, <2>1, <2>2
  <2> HIDE DEF v, r
  <2>6. OnceEach(q) /\ AllSound(q, {})
    BY <1>1, <2>5, JudgedSound DEF AnswersFor
  <2> HIDE DEF q
  <2>7. /\ asked' \in [Stages \cup {"model"} -> Nat] /\ asked'["model"] <= CandidateBudget
        /\ asked'["trusted"] = asked["trusted"] /\ asked'["global"] = asked["global"]
    <3>1. asked["model"] = 0 /\ "model" \notin Stages
      BY <1>1 DEF Watched, Stages, GlobalStages, LaterStages
    <3> QED
      BY <1>1, <1>4, <2>1, <3>1 DEF Stages, GlobalStages
  <2> QED
    BY <1>5, <2>4, <2>6, <2>7
<1>8. CASE /\ round' = [round EXCEPT !.at = "recheck",
                           !.ranked = [n \in DOMAIN @ |-> [@[n] EXCEPT !.verdict = "open"]]]
           /\ UNCHANGED asked
  <2> DEFINE v == [n \in 1..m |-> "open"]
             q == Reworded(r, v)
  <2>1. q = [n \in DOMAIN r |-> [r[n] EXCEPT !.verdict = "open"]]
    BY <1>3 DEF Reworded
  <2>2. round' = [round EXCEPT !.at = "recheck", !.ranked = q]
    BY <1>8, <2>1
  <2>3. \A n \in 1..m : v[n] = "open"
    OBVIOUS
  <2> HIDE DEF v, r
  <2>4. OnceEach(q) /\ AllSound(q, {})
    BY <1>1, <2>3, JudgedSound DEF AnswersFor
  <2> HIDE DEF q
  <2>5. asked["model"] <= CandidateBudget
    BY <1>1 DEF Watched
  <2> QED
    BY <1>1, <1>5, <1>8, <2>2, <2>4, <2>5
<1> QED
  BY <1>6, <1>7, <1>8 DEF DecideBatch

\* A page of a ranking shows what may be displayed.
PageFrom(page, q, limit, perRepo) ==
  /\ OnceEach(page) /\ page \in Pages(RankedItems, limit, perRepo) /\ DOMAIN page = 1..Len(page)
  /\ \A n \in 1..Len(page) : \E k \in 1..Len(q) : page[n] = q[k] /\ Visible(q[k])
LEMMA PageOfRanking ==
  ASSUME NEW r, OnceEach(r), NEW limit \in Nat, NEW perRepo \in Nat
  PROVE  PageFrom(SelectDisplay(FeedRanking(r), limit, perRepo), FeedRanking(r), limit, perRepo)
<1> DEFINE q == FeedRanking(r)
           page == SelectDisplay(q, limit, perRepo)
           D == {q[k] : k \in {j \in 1..Len(q) : q[j].displayable}}
<1>1. Moves(q, r) /\ OnceEach(q) /\ q \in Seq(RankedItems) /\ Len(q) = Len(r) /\ \A j \in 1..Len(r) : r[j] \in RankedItems
  BY RankingMoves DEF Moves, OnceEach
<1> HIDE DEF q
<1>2. ASSUME NEW k \in 1..Len(q) PROVE q[k].displayable = Visible(q[k])
  <2>1. PICK j \in 1..Len(r) : q[k] = Assessed(r[j])
    BY <1>1 DEF Moves
  <2> QED
    BY <1>1, <2>1, AssessedIs
<1>3. D \in SUBSET RankedItems /\ \A k \in 1..Len(q) : q[k].displayable => q[k] \in D
  BY <1>1
<1> HIDE DEF D
<1>4. page \in Pages(D, limit, perRepo) /\ OnceEach(page)
  BY <1>1, <1>3, SelectedPage
<1> HIDE DEF page
<1>5. page \in Seq(D) /\ page \in Pages(RankedItems, limit, perRepo)
  BY <1>3, <1>4 DEF Pages
<1>6. DOMAIN page = 1..Len(page) /\ \A n \in 1..Len(page) : page[n] \in D
  BY <1>5
<1>7. \A n \in 1..Len(page) : \E k \in 1..Len(q) : page[n] = q[k] /\ Visible(q[k])
  BY <1>2, <1>6 DEF D
<1> QED
  BY <1>4, <1>5, <1>6, <1>7 DEF q, page, PageFrom

LEMMA RecheckKeeps == ASSUME ScoutInv, Recheck PROVE ScoutInv'
<1> DEFINE ranked == FeedRanking(round.ranked)
           page == SelectDisplay(ranked, PageLimit, PerRepoAtLast)
           todo == {n \in DOMAIN page : page[n].id \notin round.checked}
           key == page[Min(todo)].id
           m == Len(ranked)
<1>1. /\ round \in RoundStates /\ log \in [shown : SUBSET Ids, dismissed : SUBSET Ids]
      /\ asked \in [Stages \cup {"model"} -> Nat] /\ stirred \in BOOLEAN
      /\ round.at = "recheck" /\ round.stage \in Stages /\ round.mode # "none"
      /\ round.mode = "global" => round.stage \in GlobalStages
      /\ round.mode = "repository" => round.stage \in LaterStages
      /\ OnceEach(round.ranked) /\ Spent /\ Watched /\ PageKept
  BY RoundSoFar DEF Recheck
<1>2. log' = log /\ asked' = asked /\ stirred' = FALSE
  BY DEF Recheck, Quiet
<1>3. /\ Moves(ranked, round.ranked) /\ OnceEach(ranked) /\ ranked \in Seq(RankedItems)
      /\ DOMAIN ranked = 1..m /\ m \in Nat /\ AllSound(ranked, round.checked)
  <2> HIDE DEF ranked
  <2>1. Moves(ranked, round.ranked) /\ OnceEach(ranked)
    BY <1>1, RankingMoves DEF Moves, ranked
  <2>2. ranked \in Seq(RankedItems)
    BY <2>1 DEF OnceEach
  <2>3. AllSound(round.ranked, round.checked)
    BY <1>1 DEF Watched
  <2>4. AllSound(ranked, round.checked)
    BY <1>1, <2>1, <2>3, MovedSound
  <2> QED
    BY <2>1, <2>2, <2>4
<1>4. /\ DOMAIN page = 1..Len(page) /\ Len(page) \in Nat
      /\ \A n \in 1..Len(page) : \E k \in 1..m : page[n] = ranked[k]
  <2>1. /\ page \in Pages(RankedItems, PageLimit, PerRepoAtLast) /\ DOMAIN page = 1..Len(page)
        /\ \A n \in 1..Len(page) : \E k \in 1..m : page[n] = ranked[k]
    <3> DEFINE p == PerRepoAtLast
    <3>1. PageLimit \in Nat /\ p \in Nat
      BY PerRepoNumber
    <3> HIDE DEF p
    <3>2. PageFrom(SelectDisplay(FeedRanking(round.ranked), PageLimit, p), FeedRanking(round.ranked), PageLimit, p)
      BY <1>1, <3>1, PageOfRanking
    <3>3. PageFrom(page, ranked, PageLimit, p)
      BY <3>2 DEF p
    <3> HIDE DEF page, ranked
    <3> QED
      BY <3>3 DEF PageFrom, p
  <2> HIDE DEF page
  <2> QED
    BY <2>1 DEF Pages
<1>5. CASE (~Codex \/ todo = {}) /\ round' = [round EXCEPT !.at = "final", !.ranked = IF Codex THEN ranked ELSE @]
  <2> DEFINE r == IF Codex THEN ranked ELSE round.ranked
  <2>1. round' = [round EXCEPT !.at = "final", !.ranked = r]
    BY <1>5
  <2>2. OnceEach(r) /\ AllSound(r, round.checked)
    BY <1>1, <1>3 DEF Watched
  <2>3. r \in Seq(RankedItems)
    BY <2>2 DEF OnceEach
  <2> HIDE DEF r
  <2>4. /\ round' \in RoundStates /\ round'.at = "final" /\ round'.ranked = r /\ round'.stage = round.stage
        /\ round'.mode = round.mode /\ round'.policy = round.policy
        /\ round'.checked = round.checked /\ round'.page = round.page
    BY <1>1, <2>1, <2>3 DEF RoundStates
  <2>5. ScoutTyped'
    BY <1>1, <1>2, <2>4 DEF ScoutTyped
  <2>6. RankedOnce'
    BY <2>2, <2>4 DEF RankedOnce
  <2>7. Spent'
    BY <1>1, <1>2, <2>4 DEF Spent
  <2>8. Watched'
    BY <1>1, <1>2, <2>2, <2>4 DEF Watched
  <2>9. PageKept'
    <3>1. PerRepoAtLast' = PerRepoAtLast /\ (Codex' <=> Codex)
      BY <2>4, SteadyIs DEF Steady
    <3>2. round.page \in Pages(RankedItems, PageLimit, PerRepoAtLast) /\ FairPage(round.page, PerRepoAtLast)
      BY <1>1 DEF PageKept
    <3>3. ASSUME Codex
          PROVE  /\ RankedBy(r, round.policy, log) = r
                 /\ KeysOf(SelectDisplay(r, PageLimit, PerRepoAtLast)) \subseteq round.checked
      <4>1. r = FeedRanking(round.ranked) /\ todo = {}
        BY <1>5, <3>3 DEF r
      <4>2. FeedRanking(r) = r
        BY <1>1, <4>1, RankingAgain
      <4>3. RankedBy(r, round.policy, log) = r
        BY <4>2, RankingBy
      <4>4. KeysOf(page) \subseteq round.checked
        BY <4>1 DEF KeysOf
      <4> QED
        BY <4>1, <4>3, <4>4
    <3> QED
      BY <1>2, <2>4, <3>1, <3>2, <3>3 DEF PageKept
  <2> QED
    BY <2>5, <2>6, <2>7, <2>8, <2>9 DEF ScoutInv
<1>6. CASE /\ todo # {}
           /\ \E facts \in {"free", "blocked", "partial"} :
            round' = [round EXCEPT !.checked = @ \cup {key},
                       !.ranked = [n \in DOMAIN ranked |-> IF ranked[n].id = key
                                     THEN [ranked[n] EXCEPT !.facts = facts, !.depth = "final"] ELSE ranked[n]]]
  <2>1. PICK facts \in {"free", "blocked", "partial"} :
            round' = [round EXCEPT !.checked = @ \cup {key},
                       !.ranked = [n \in DOMAIN ranked |-> IF ranked[n].id = key
                                     THEN [ranked[n] EXCEPT !.facts = facts, !.depth = "final"] ELSE ranked[n]]]
    BY <1>6
  <2> HIDE DEF page
  <2>2. Min(todo) \in 1..Len(page)
    <3>1. todo \in SUBSET Nat /\ todo # {}
      BY <1>4, <1>6
    <3>2. Min(todo) \in todo
      <4> HIDE DEF todo
      <4> QED
        BY <3>1, LeastOf
    <3> QED
      BY <1>4, <3>2
  <2> DEFINE place == Min(todo)
  <2>3. key \in Ids
    <3>1. place \in 1..Len(page)
      BY <2>2
    <3> HIDE DEF place
    <3>2. PICK k \in 1..m : page[place] = ranked[k]
      BY <1>4, <3>1
    <3>3. ranked[k] \in RankedItems
      BY <1>3
    <3> QED
      BY <3>2, <3>3 DEF RankedItems, place
  <2> HIDE DEF key, ranked
  <2> DEFINE r == [n \in 1..m |-> IF ranked[n].id = key
                                     THEN [ranked[n] EXCEPT !.facts = facts, !.depth = "final"] ELSE ranked[n]]
             checked == round.checked \cup {key}
  <2>4. round' = [round EXCEPT !.checked = checked, !.ranked = r]
    BY <1>3, <2>1
  <2>5. ASSUME NEW n \in 1..m
        PROVE  /\ r[n] \in RankedItems /\ r[n].id = ranked[n].id
               /\ r[n] = ranked[n] \/ (r[n].depth = "final" /\ r[n].id = key)
               /\ r[n].id = key => r[n].depth = "final"
    <3>1. ranked[n] \in RankedItems
      BY <1>3
    <3>2. r[n] = IF ranked[n].id = key THEN [ranked[n] EXCEPT !.facts = facts, !.depth = "final"] ELSE ranked[n]
      OBVIOUS
    <3> HIDE DEF r, m
    <3>3. CASE ranked[n].id = key
      BY <2>1, <3>1, <3>2, <3>3 DEF RankedItems
    <3>4. CASE ranked[n].id # key
      BY <3>1, <3>2, <3>4
    <3> QED
      BY <3>3, <3>4
  <2>6. r \in [1..m -> RankedItems]
    BY <2>5
  <2>7. r \in Seq(RankedItems) /\ Len(r) = m
    <3> HIDE DEF r, m
    <3> QED
      BY <1>3, <2>6, TupleIs
  <2> HIDE DEF r
  <2>8. OnceEach(r)
    BY <1>3, <2>5, <2>7 DEF OnceEach
  <2>9. AllSound(r, checked)
    <3> SUFFICES ASSUME NEW n \in 1..m PROVE ItemSound(r[n], checked)
      BY <2>7 DEF AllSound
    <3>1. ItemSound(ranked[n], round.checked)
      BY <1>3 DEF AllSound
    <3> QED
      BY <2>5, <3>1 DEF ItemSound
  <2>10. checked \in SUBSET Ids
    BY <1>1, <2>3 DEF RoundStates
  <2> HIDE DEF checked
  <2>11. /\ round' \in RoundStates /\ round'.at = "recheck" /\ round'.ranked = r /\ round'.stage = round.stage
         /\ round'.mode = round.mode /\ round'.policy = round.policy
         /\ round'.checked = checked /\ round'.page = round.page
    BY <1>1, <2>4, <2>7, <2>10 DEF RoundStates
  <2>12. ScoutTyped'
    BY <1>1, <1>2, <2>11 DEF ScoutTyped
  <2>13. RankedOnce'
    BY <2>8, <2>11 DEF RankedOnce
  <2>14. Spent'
    BY <1>1, <1>2, <2>11 DEF Spent
  <2>15. Watched'
    BY <1>1, <1>2, <2>9, <2>11 DEF Watched
  <2>16. PageKept'
    BY <1>1, <2>11, PageStill DEF Steady
  <2> QED
    BY <2>12, <2>13, <2>14, <2>15, <2>16 DEF ScoutInv
<1>7. Recheck => \/ (~Codex \/ todo = {}) /\ round' = [round EXCEPT !.at = "final", !.ranked = IF Codex THEN ranked ELSE @]
                 \/ /\ todo # {}
                    /\ \E facts \in {"free", "blocked", "partial"} :
                         round' = [round EXCEPT !.checked = @ \cup {key},
                       !.ranked = [n \in DOMAIN ranked |-> IF ranked[n].id = key
                                     THEN [ranked[n] EXCEPT !.facts = facts, !.depth = "final"] ELSE ranked[n]]]
  BY DEF Recheck, Provisional
<1> HIDE DEF todo, key, ranked
<1> QED
  BY <1>5, <1>6, <1>7

\* The last ranking and the page it gives.
LEMMA FinalPageIs ==
  ASSUME ScoutInv, Finish
  PROVE  /\ OnceEach(FinalRanking) /\ Moves(FinalRanking, round.ranked)
         /\ PageFrom(SelectDisplay(FinalRanking, PageLimit, PerRepoAtLast), FinalRanking, PageLimit, PerRepoAtLast)
<1>1. OnceEach(round.ranked) /\ FinalRanking = FeedRanking(round.ranked)
  BY RoundSoFar DEF FinalRanking
<1> DEFINE p == PerRepoAtLast
<1>2. PageLimit \in Nat /\ p \in Nat
  BY PerRepoNumber
<1> HIDE DEF p
<1>3. PageFrom(SelectDisplay(FeedRanking(round.ranked), PageLimit, p), FeedRanking(round.ranked), PageLimit, p)
  BY <1>1, <1>2, PageOfRanking
<1>4. Moves(FeedRanking(round.ranked), round.ranked)
  BY <1>1, RankingMoves
<1> QED
  BY <1>1, <1>3, <1>4 DEF Moves, p

LEMMA FinishKeeps == ASSUME ScoutInv, Finish PROVE ScoutInv'
<1> DEFINE ranked == FinalRanking
           page == SelectDisplay(ranked, PageLimit, PerRepoAtLast)
<1>1. /\ round \in RoundStates /\ log \in [shown : SUBSET Ids, dismissed : SUBSET Ids]
      /\ asked \in [Stages \cup {"model"} -> Nat] /\ stirred \in BOOLEAN
      /\ round.at = "final" /\ round.stage \in Stages /\ round.mode # "none"
      /\ round.mode = "global" => round.stage \in GlobalStages
      /\ round.mode = "repository" => round.stage \in LaterStages
      /\ OnceEach(round.ranked) /\ Spent /\ Watched /\ PageKept
  BY RoundSoFar DEF Finish
<1>2. log' = log /\ asked' = asked /\ stirred' = stirred
  BY DEF Finish, Quiet, Undisturbed
<1>3. round' = [round EXCEPT !.at = "expose", !.ranked = ranked, !.page = page]
  BY DEF Finish
<1>4. /\ OnceEach(ranked) /\ Moves(ranked, round.ranked)
      /\ PageFrom(page, ranked, PageLimit, PerRepoAtLast)
  BY FinalPageIs
<1> HIDE DEF page
<1>5. /\ page \in Pages(RankedItems, PageLimit, PerRepoAtLast) /\ page \in Seq(RankedItems)
      /\ FairPage(page, PerRepoAtLast)
      /\ ranked \in Seq(RankedItems) /\ DOMAIN page = 1..Len(page)
      /\ \A n \in 1..Len(page) : \E k \in 1..Len(ranked) : page[n] = ranked[k] /\ Visible(ranked[k])
  BY <1>4 DEF PageFrom, Pages, OnceEach, FairPage
<1> HIDE DEF ranked
<1>6. AllSound(ranked, round.checked)
  <2>1. AllSound(round.ranked, round.checked)
    BY <1>1 DEF Watched
  <2> QED
    BY <1>1, <1>4, <2>1, MovedSound
<1>7. /\ round' \in RoundStates /\ round'.at = "expose" /\ round'.ranked = ranked /\ round'.stage = round.stage
      /\ round'.mode = round.mode /\ round'.policy = round.policy
      /\ round'.checked = round.checked /\ round'.page = page
  BY <1>1, <1>3, <1>5 DEF RoundStates
<1>8. ScoutTyped'
  BY <1>1, <1>2, <1>7 DEF ScoutTyped
<1>9. RankedOnce'
  BY <1>4, <1>7 DEF RankedOnce
<1>10. Spent'
  BY <1>1, <1>2, <1>7 DEF Spent
<1>11. Watched'
  BY <1>1, <1>2, <1>6, <1>7 DEF Watched
<1>12. ASSUME Codex, ~stirred PROVE FinalPage(page)
  <2>1. RankedBy(round.ranked, round.policy, log) = round.ranked
        /\ KeysOf(SelectDisplay(round.ranked, PageLimit, PerRepoAtLast)) \subseteq round.checked
    BY <1>1, <1>12 DEF PageKept
  <2>2. ranked = round.ranked
    BY <2>1, RankingBy DEF ranked, FinalRanking
  <2>3. KeysOf(page) \subseteq round.checked
    BY <2>1, <2>2 DEF page
  <2> SUFFICES ASSUME NEW n \in 1..Len(page) PROVE page[n].depth = "final" /\ ~Blocked(page[n])
    BY DEF FinalPage
  <2>4. PICK k \in 1..Len(ranked) : page[n] = ranked[k] /\ Visible(ranked[k])
    BY <1>5
  <2>5. page[n].id \in round.checked
    BY <1>5, <2>3 DEF KeysOf
  <2>6. ItemSound(ranked[k], round.checked)
    BY <1>6 DEF AllSound
  <2> QED
    BY <1>12, <2>4, <2>5, <2>6 DEF ItemSound, Visible, Blocked
<1>13. PageKept'
  <2>1. PerRepoAtLast' = PerRepoAtLast /\ (Codex' <=> Codex)
    BY <1>7, SteadyIs DEF Steady
  <2> QED
    BY <1>2, <1>5, <1>7, <1>12, <2>1 DEF PageKept
<1> QED
  BY <1>8, <1>9, <1>10, <1>11, <1>13 DEF ScoutInv

LEMMA RepoCounts ==
  ASSUME NEW page \in Seq(RankedItems), NEW repo PROVE OfRepo(page, repo) \in Nat
<1>1. IsFiniteSet(1..Len(page)) /\ DOMAIN page = 1..Len(page)
  BY FS_Interval
<1>2. IsFiniteSet({n \in DOMAIN page : page[n].repo = repo})
  BY <1>1, FS_Subset
<1> QED
  BY <1>2, FS_CardinalityType DEF OfRepo

LEMMA ExposeKeeps == ASSUME ScoutInv, Expose PROVE ScoutInv'
<1> DEFINE todo == {n \in DOMAIN round.page : round.page[n].id \notin log.shown}
           key == round.page[Min(todo)].id
<1>1. /\ round \in RoundStates /\ log \in [shown : SUBSET Ids, dismissed : SUBSET Ids]
      /\ asked \in [Stages \cup {"model"} -> Nat] /\ stirred \in BOOLEAN
      /\ round.at = "expose" /\ round.stage \in Stages /\ round.mode # "none"
      /\ round.mode = "global" => round.stage \in GlobalStages
      /\ round.mode = "repository" => round.stage \in LaterStages
      /\ OnceEach(round.ranked) /\ Spent /\ Watched /\ PageKept
  BY RoundSoFar DEF Expose
<1>2. asked' = asked /\ stirred' = stirred
  BY DEF Expose, Undisturbed
<1>3. \/ (\E at \in {"return", "failed"} : Goes(at)) /\ log' = log
      \/ todo # {} /\ log' = [log EXCEPT !.shown = @ \cup {key}] /\ round' = round
  BY DEF Expose
<1>4. log' \in [shown : SUBSET Ids, dismissed : SUBSET Ids]
  <2>1. CASE log' = log
    BY <1>1, <2>1
  <2>2. CASE todo # {} /\ log' = [log EXCEPT !.shown = @ \cup {key}]
    <3>1. round.page \in Seq(RankedItems)
      BY <1>1 DEF RoundStates
    <3> DEFINE place == Min(todo)
    <3>2. todo \in SUBSET Nat
      BY <3>1
    <3>3. place \in todo
      <4> HIDE DEF todo
      <4> QED
        BY <2>2, <3>2, LeastOf
    <3>4. place \in DOMAIN round.page
      BY <3>3
    <3>5. key = round.page[place].id
      OBVIOUS
    <3> HIDE DEF place, key
    <3>6. round.page[place] \in RankedItems
      BY <3>1, <3>4
    <3>7. key \in Ids
      BY <3>5, <3>6 DEF RankedItems
    <3> QED
      BY <1>1, <2>2, <3>7
  <2> QED
    BY <1>3, <2>1, <2>2
<1>5. /\ round' \in RoundStates /\ round'.at \in {"expose", "return", "failed"} /\ round'.ranked = round.ranked
      /\ round'.stage = round.stage /\ round'.mode = round.mode /\ round'.policy = round.policy
      /\ round'.checked = round.checked /\ round'.page = round.page
  <2>1. CASE round' = round
    BY <1>1, <2>1
  <2>2. CASE \E at \in {"return", "failed"} : Goes(at)
    <3>1. PICK at \in {"return", "failed"} : round' = [round EXCEPT !.at = at]
      BY <2>2 DEF Goes
    <3> QED
      BY <1>1, <3>1 DEF RoundStates
  <2> QED
    BY <1>3, <2>1, <2>2
<1> HIDE DEF todo, key
<1>6. ScoutTyped'
  BY <1>1, <1>2, <1>4, <1>5 DEF ScoutTyped
<1>7. RankedOnce'
  BY <1>1, <1>5 DEF RankedOnce
<1>8. Spent'
  BY <1>1, <1>2, <1>5 DEF Spent
<1>9. Watched'
  BY <1>1, <1>2, <1>5 DEF Watched
<1>10. PageKept'
  <2>1. PerRepoAtLast' = PerRepoAtLast /\ (Codex' <=> Codex)
    BY <1>5, SteadyIs DEF Steady
  <2> QED
    BY <1>1, <1>2, <1>5, <2>1 DEF PageKept
<1> QED
  BY <1>6, <1>7, <1>8, <1>9, <1>10 DEF ScoutInv

LEMMA ReturnKeeps == ASSUME ScoutInv, Return PROVE ScoutInv'
<1> DEFINE page == StablySorted(round.page, Ahead)
<1>1. /\ round \in RoundStates /\ log \in [shown : SUBSET Ids, dismissed : SUBSET Ids]
      /\ asked \in [Stages \cup {"model"} -> Nat] /\ stirred \in BOOLEAN
      /\ round.at = "return" /\ round.stage \in Stages /\ round.mode # "none"
      /\ round.mode = "global" => round.stage \in GlobalStages
      /\ round.mode = "repository" => round.stage \in LaterStages
      /\ OnceEach(round.ranked) /\ Spent /\ Watched /\ PageKept
  BY RoundSoFar DEF Return
<1>2. log' = log /\ asked' = asked /\ stirred' = stirred
  BY DEF Return, Quiet, Undisturbed
<1>3. round' = [round EXCEPT !.at = "done", !.page = page]
  BY DEF Return
<1>4. FairPage(round.page, PerRepoAtLast) /\ OnceEach(round.page)
  BY <1>1 DEF PageKept, FairPage
<1>5. /\ OnceEach(page) /\ Len(page) = Len(round.page)
      /\ \A k \in 1..Len(page) : \E j \in 1..Len(round.page) : page[k] = round.page[j]
      /\ \A repo \in Repos : OfRepo(page, repo) <= OfRepo(round.page, repo)
  BY <1>4, SortedPage
<1> HIDE DEF page
<1>6. page \in Seq(RankedItems) /\ round.page \in Seq(RankedItems)
  BY <1>4, <1>5 DEF OnceEach
<1>7. /\ round' \in RoundStates /\ round'.at = "done" /\ round'.ranked = round.ranked
      /\ round'.stage = round.stage /\ round'.mode = round.mode /\ round'.policy = round.policy
      /\ round'.checked = round.checked /\ round'.page = page
  BY <1>1, <1>3, <1>6 DEF RoundStates
<1>8. ScoutTyped'
  BY <1>1, <1>2, <1>7 DEF ScoutTyped
<1>9. RankedOnce'
  BY <1>1, <1>7 DEF RankedOnce
<1>10. Spent'
  BY <1>1, <1>2, <1>7 DEF Spent
<1>11. Watched'
  BY <1>1, <1>2, <1>7 DEF Watched
<1>12. FairPage(page, PerRepoAtLast)
  <2> DEFINE most == PerRepoAtLast
  <2>1. most \in Nat
    BY PerRepoNumber
  <2> HIDE DEF most
  <2>2. ASSUME NEW repo \in Repos PROVE OfRepo(page, repo) <= most
    <3>1. OfRepo(page, repo) <= OfRepo(round.page, repo) /\ OfRepo(round.page, repo) <= most
      BY <1>4, <1>5 DEF FairPage, most
    <3>2. OfRepo(page, repo) \in Nat /\ OfRepo(round.page, repo) \in Nat
      BY <1>6, RepoCounts
    <3> QED
      BY <2>1, <3>1, <3>2
  <2> QED
    BY <1>4, <1>5, <2>2 DEF FairPage, most
<1>13. Codex /\ ~stirred => FinalPage(page)
  BY <1>1, <1>5 DEF PageKept, FinalPage
<1>14. PageKept'
  <2>1. PerRepoAtLast' = PerRepoAtLast /\ (Codex' <=> Codex)
    BY <1>7, SteadyIs DEF Steady
  <2> QED
    BY <1>2, <1>7, <1>12, <1>13, <2>1 DEF PageKept
<1> QED
  BY <1>8, <1>9, <1>10, <1>11, <1>14 DEF ScoutInv

LEMMA FeedbackKeeps == ASSUME ScoutInv, FeedbackArrives PROVE ScoutInv'
<1>1. /\ round \in RoundStates /\ log \in [shown : SUBSET Ids, dismissed : SUBSET Ids]
      /\ asked \in [Stages \cup {"model"} -> Nat] /\ stirred \in BOOLEAN
      /\ RankedOnce /\ Spent /\ Watched /\ PageKept /\ ScoutTyped
  BY RoundSoFar DEF ScoutInv
<1>2. round' = round /\ asked' = asked /\ stirred' = (round.at = "final" \/ stirred)
      /\ round.at \notin {"expose", "return", "done"}
  BY DEF FeedbackArrives
<1>3. PICK i \in Ids, kind \in {"shown", "dismissed"} : log' = [log EXCEPT ![kind] = @ \cup {i}]
  BY DEF FeedbackArrives
<1>4. log' \in [shown : SUBSET Ids, dismissed : SUBSET Ids]
  <2>1. CASE kind = "shown"
    BY <1>1, <1>3, <2>1
  <2>2. CASE kind = "dismissed"
    BY <1>1, <1>3, <2>2
  <2> QED
    BY <2>1, <2>2
<1>5. stirred' \in BOOLEAN /\ (round.at = "final" => stirred')
  BY <1>1, <1>2
<1>6. ScoutTyped'
  BY <1>1, <1>2, <1>4, <1>5 DEF ScoutTyped
<1>7. RankedOnce' /\ Spent' /\ Watched'
  BY <1>1, <1>2 DEF RankedOnce, Spent, Watched
<1>8. PageKept'
  <2>1. PerRepoAtLast' = PerRepoAtLast
    BY <1>2 DEF PerRepoAtLast
  <2> QED
    BY <1>1, <1>2, <1>5, <2>1 DEF PageKept
<1> QED
  BY <1>6, <1>7, <1>8 DEF ScoutInv

LEMMA StillKeeps == ASSUME ScoutInv, UNCHANGED scoutVars PROVE ScoutInv'
<1>1. round' = round /\ log' = log /\ asked' = asked /\ stirred' = stirred
  BY DEF scoutVars
<1>2. PerRepoAtLast' = PerRepoAtLast /\ (Codex' <=> Codex)
  BY <1>1 DEF PerRepoAtLast, Codex
<1>3. ScoutTyped' /\ RankedOnce' /\ Spent' /\ Watched'
  BY <1>1 DEF ScoutInv, ScoutTyped, RankedOnce, Spent, Watched
<1>4. PageKept'
  BY <1>1, <1>2 DEF ScoutInv, PageKept
<1> QED
  BY <1>3, <1>4 DEF ScoutInv

LEMMA ScoutInvNext == ScoutInv /\ [ScoutNext]_scoutVars => ScoutInv'
<1> SUFFICES ASSUME ScoutInv, [ScoutNext]_scoutVars PROVE ScoutInv'
  OBVIOUS
<1>1. CASE Begin
  BY <1>1, BeginKeeps
<1>2. CASE Discover
  BY <1>2, DiscoverKeeps
<1>3. CASE RankBatch
  BY <1>3, RankBatchKeeps
<1>4. CASE Ranked
  BY <1>4, RankedKeeps
<1>5. CASE Complete
  BY <1>5, CompleteKeeps
<1>6. CASE DecideBatch
  BY <1>6, DecideBatchKeeps
<1>7. CASE Recheck
  BY <1>7, RecheckKeeps
<1>8. CASE Finish
  BY <1>8, FinishKeeps
<1>9. CASE Expose
  BY <1>9, ExposeKeeps
<1>13. CASE Return
  BY <1>13, ReturnKeeps
<1>10. CASE FeedbackArrives
  BY <1>10, FeedbackKeeps
<1>11. CASE UNCHANGED scoutVars
  BY <1>11, StillKeeps
<1>12. Rest => UNCHANGED scoutVars
  BY DEF Rest
<1> QED
  BY <1>1, <1>2, <1>3, <1>4, <1>5, <1>6, <1>7, <1>8, <1>9, <1>10, <1>11, <1>12, <1>13
     DEF ScoutNext, ScoutStep

\* The invariant is enough: a page is of sound items and what was asked was counted.
LEMMA FeedFromInv == ScoutInv => FeedIsCheckedAndFair
<1> SUFFICES ASSUME ScoutInv PROVE FeedIsCheckedAndFair
  OBVIOUS
<1>1. /\ round \in RoundStates /\ OnceEach(round.ranked) /\ Spent /\ Watched /\ PageKept
  BY RoundSoFar
<1>2. round.page \in Seq(RankedItems) /\ round.ranked \in Seq(RankedItems)
  BY <1>1 DEF RoundStates
<1>3. DOMAIN round.page = 1..Len(round.page) /\ DOMAIN round.ranked = 1..Len(round.ranked)
  BY <1>2
<1>4. ShownWereRechecked
  BY <1>1, <1>3 DEF ShownWereRechecked, PageKept, FinalPage
<1>5. PageIsFair
  <2>1. IsInjective([n \in DOMAIN round.ranked |-> round.ranked[n].id])
    BY <1>1, <1>3 DEF OnceEach, IsInjective
  <2>2. /\ Len(round.page) <= PageLimit /\ \A repo \in Repos : OfRepo(round.page, repo) <= PerRepoAtLast
        /\ OnceEach(round.page)
        /\ round.at # "done" =>
             /\ \A n \in 1..Len(round.page) : IsMissing(round.page[n]) => n > SafePositions
             /\ MissingOnTop(round.page) <= TopMissing
    BY <1>1 DEF PageKept, FairPage, Pages
  <2>4. IsInjective([n \in DOMAIN round.page |-> round.page[n].id])
    BY <1>3, <2>2 DEF OnceEach, IsInjective
  <2>3. ASSUME NEW n \in 1..Len(round.page) PROVE round.page[n].repo \in Repos
    <3>1. round.page[n] \in RankedItems
      BY <1>2
    <3> QED
      BY <3>1 DEF RankedItems
  <2> QED
    BY <1>3, <2>1, <2>2, <2>3, <2>4 DEF PageIsFair
<1>6. AskedWithinLimits
  BY <1>1, <1>3 DEF AskedWithinLimits, Spent, Watched, AllSound, ItemSound
<1> QED
  BY <1>4, <1>5, <1>6 DEF FeedIsCheckedAndFair

\* However many issues, repositories and lanes there are and whatever feedback arrives:
\* no issue is ranked or shown twice, the page keeps its size and its share for each
\* repository to the end, and its places for missing evidence until scout sorts it once
\* more (the returned page does not keep them: engine.rs:254-257); everything a Codex scout shows was
\* checked where it is shown, and the fallbacks and the model's pool stay within their
\* limits (engine.rs run_global_scout, run_repository_scout, recheck_shortlist).
THEOREM FeedChecked == ScoutSpec => []FeedIsCheckedAndFair
<1>1. ScoutSpec => []ScoutInv
  BY ScoutInvInit, ScoutInvNext, PTL DEF ScoutSpec
<1> QED
  BY <1>1, FeedFromInv, PTL

\* A dismissal recorded before a legacy scout selects its page is honoured by that page,
\* whenever it came (engine.rs apply_final_feed_ranking).
THEOREM DismissedIsHidden == ScoutSpec => DismissedMeanwhileIsHidden
<1> DEFINE Honoured == round'.at = "expose" /\ round.at = "final" /\ ~Codex =>
                         KeysOf(round'.page) \cap log.dismissed = {}
<1>1. ScoutInv /\ [ScoutNext]_scoutVars => [Honoured]_scoutVars
  <2> SUFFICES ASSUME ScoutInv, [ScoutNext]_scoutVars, round'.at = "expose", round.at = "final", ~Codex
               PROVE  KeysOf(round'.page) \cap log.dismissed = {}
    OBVIOUS
  <2>1. Finish
    <3>1. round.at # round'.at /\ ~(UNCHANGED scoutVars)
      BY DEF scoutVars
    <3>2. ~Begin /\ ~Discover /\ ~RankBatch /\ ~Ranked /\ ~Complete /\ ~DecideBatch /\ ~Recheck /\ ~Expose /\ ~Return /\ ~Rest
      BY DEF Begin, Discover, RankBatch, Ranked, Complete, DecideBatch, Recheck, Expose, Return, Rest
    <3>3. ~FeedbackArrives
      BY <3>1 DEF FeedbackArrives
    <3> QED
      BY <3>1, <3>2, <3>3 DEF ScoutNext, ScoutStep
  <2> DEFINE page == SelectDisplay(FinalRanking, PageLimit, PerRepoAtLast)
  <2>2. PageFrom(page, FinalRanking, PageLimit, PerRepoAtLast) /\ OnceEach(FinalRanking)
    BY <2>1, FinalPageIs
  <2>3. round \in RoundStates /\ round' = [round EXCEPT !.at = "expose", !.ranked = FinalRanking, !.page = page]
    BY <2>1, RoundSoFar DEF Finish
  <2> HIDE DEF page
  <2>4. round'.page = page
    BY <2>3 DEF RoundStates
  <2>5. ASSUME NEW n \in DOMAIN page PROVE page[n].id \notin log.dismissed
    <3>1. PICK k \in 1..Len(FinalRanking) : page[n] = FinalRanking[k] /\ Visible(FinalRanking[k])
      BY <2>2, <2>5 DEF PageFrom
    <3> QED
      BY <3>1 DEF Visible
  <2> QED
    BY <2>4, <2>5 DEF KeysOf
<1>2. ScoutSpec => []ScoutInv
  BY ScoutInvInit, ScoutInvNext, PTL DEF ScoutSpec
<1> QED
  BY <1>1, <1>2, PTL DEF ScoutSpec, DismissedMeanwhileIsHidden

\* What is judged again and what is ranked again is so by what is known then, and what
\* was read before does not come back.
THEOREM FreshFactsAlwaysWin == ScreeningSpec /\ ScoutSpec => FreshFactsWin
  BY OnlyFreshFactsClear, DismissedIsHidden DEF FreshFactsWin
-----------------------------------------------------------------------------
(* Looking at an issue gains it nothing.                                      *)

\* An order of a log whose stamps are apart is the only one.
LEMMA OneOrder ==
  ASSUME NEW entries \in Logs, Apart(entries), NEW p \in [DOMAIN entries -> DOMAIN entries], Orders(p, entries),
         NEW q \in [DOMAIN entries -> DOMAIN entries], Orders(q, entries)
  PROVE  p = q
<1> DEFINE n == Len(entries)
<1>1. n \in Nat /\ DOMAIN entries = 1..n /\ \A i \in 1..n : entries[i].at \in Nat
  BY DEF Logs, FbEvents
<1> HIDE DEF n
<1>2. \A r \in [1..n -> 1..n] : Orders(r, entries) =>
        /\ \A i \in 1..n : \E j \in 1..n : r[j] = i
        /\ \A i, j \in 1..n : i < j => entries[r[i]].at <= entries[r[j]].at
  BY <1>1 DEF Orders
<1>3. \A i, j \in 1..n : entries[i].at = entries[j].at => i = j
  BY <1>1 DEF Apart
<1> DEFINE Differ == {i \in 1..n : p[i] # q[i]}
<1>4. SUFFICES ASSUME Differ # {} PROVE FALSE
  <2>1. Differ = {} => \A i \in 1..n : p[i] = q[i]
    OBVIOUS
  <2>2. p \in [1..n -> 1..n] /\ q \in [1..n -> 1..n]
    BY <1>1
  <2>3. p = [i \in 1..n |-> p[i]] /\ q = [i \in 1..n |-> q[i]]
    BY <2>2
  <2> HIDE DEF Differ
  <2> QED
    BY <2>1, <2>3
<1> DEFINE k == Min(Differ)
<1>5. k \in Differ /\ \A i \in Differ : k <= i
  <2>1. Differ \in SUBSET Nat
    BY <1>1
  <2> HIDE DEF Differ
  <2> QED
    BY <1>4, <2>1, LeastOf
<1>6. k \in 1..n /\ p[k] # q[k] /\ \A i \in 1..n : i < k => p[i] = q[i]
  <2> HIDE DEF k
  <2> QED
    BY <1>1, <1>5
<1> HIDE DEF k, Differ
\* What the one has at its place comes later in the other.
<1>7. ASSUME NEW f \in [1..n -> 1..n], Orders(f, entries), NEW g \in [1..n -> 1..n], Orders(g, entries),
             \A i \in 1..n : i < k => f[i] = g[i], f[k] # g[k]
      PROVE  entries[f[k]].at < entries[g[k]].at
  <2>1. PICK j \in 1..n : f[j] = g[k]
    BY <1>2, <1>6, <1>7
  <2>2. ~(j < k)
    <3> SUFFICES ASSUME j < k PROVE FALSE
      OBVIOUS
    <3>1. g[j] = g[k]
      BY <1>7, <2>1
    <3>2. \A i \in 1..n : \E m \in 1..n : g[m] = i
      BY <1>2, <1>7
    <3>3. g \in Injection(1..n, 1..n)
      <4>1. g \in Surjection(1..n, 1..n)
        BY <1>7, <3>2 DEF Surjection
      <4>2. IsFiniteSet(1..n)
        BY <1>1, FS_Interval
      <4> QED
        BY <4>1, <4>2, FS_Surjection DEF Bijection
    <3> QED
      BY <1>6, <3>1, <3>3 DEF Injection, IsInjective
  <2>3. k < j
    BY <1>1, <1>6, <1>7, <2>1, <2>2
  <2>4. entries[f[k]].at <= entries[f[j]].at
    BY <1>2, <1>6, <1>7, <2>3
  <2>5. f[k] \in 1..n /\ g[k] \in 1..n
    BY <1>6, <1>7
  <2>6. entries[f[k]].at \in Nat /\ entries[g[k]].at \in Nat /\ entries[f[k]].at # entries[g[k]].at
    BY <1>1, <1>3, <1>7, <2>5
  <2> QED
    BY <2>1, <2>4, <2>6
<1>8. p \in [1..n -> 1..n] /\ q \in [1..n -> 1..n]
  BY <1>1
<1>9. entries[p[k]].at < entries[q[k]].at /\ entries[q[k]].at < entries[p[k]].at
  BY <1>6, <1>7, <1>8
<1>10. entries[p[k]].at \in Nat /\ entries[q[k]].at \in Nat
  BY <1>1, <1>6, <1>8
<1> QED
  BY <1>9, <1>10

LEMMA AnOrder ==
  ASSUME NEW entries \in Logs
  PROVE  \E p \in [DOMAIN entries -> DOMAIN entries] : Orders(p, entries)
<1> DEFINE n == Len(entries)
           a == [i \in 1..n |-> entries[i].at]
<1>1. n \in Nat /\ DOMAIN entries = 1..n /\ \A i \in 1..n : entries[i].at \in Nat
  BY DEF Logs, FbEvents
<1> HIDE DEF n
<1>2. a \in [1..n -> Nat]
  BY <1>1
<1>3. PICK q : InOrder(q, a, n)
  <2> HIDE DEF a
  <2> QED
    BY <1>1, <1>2, SomeOrder
<1>4. q \in [1..n -> 1..n] /\ \A i \in 1..n : \E j \in 1..n : q[j] = i
  BY <1>3 DEF InOrder
<1>5. ASSUME NEW i \in 1..n, NEW j \in 1..n, i < j PROVE entries[q[i]].at <= entries[q[j]].at
  <2>1. a[q[i]] <= a[q[j]]
    BY <1>3, <1>5 DEF InOrder
  <2>2. q[i] \in 1..n /\ q[j] \in 1..n
    BY <1>4
  <2> QED
    BY <2>1, <2>2
<1> QED
  BY <1>1, <1>4, <1>5 DEF Orders

\* An event that is stamped after all others is the last one in time.
LEMMA LastInTime ==
  ASSUME NEW entries \in Logs, Apart(entries), NEW e \in FbEvents, Before(entries, e.at)
  PROVE  ByTime(Append(entries, e)) = Append(ByTime(entries), e)
<1> DEFINE n == Len(entries)
           l == Append(entries, e)
           p == CHOOSE p \in [DOMAIN entries -> DOMAIN entries] : Orders(p, entries)
           q == CHOOSE q \in [DOMAIN l -> DOMAIN l] : Orders(q, l)
           r == [i \in 1..n + 1 |-> IF i <= n THEN p[i] ELSE n + 1]
<1>1. n \in Nat /\ DOMAIN entries = 1..n /\ \A i \in 1..n : entries[i] \in FbEvents /\ entries[i].at \in Nat
  BY DEF Logs, FbEvents
<1>2. l \in Logs /\ Apart(l)
  <2>1. e.at \in Nat
    BY DEF FbEvents
  <2> QED
    BY <2>1, OneMore
<1>3. /\ DOMAIN l = 1..n + 1 /\ l[n + 1] = e /\ \A i \in 1..n : l[i] = entries[i]
      /\ n + 1 \in Nat
  BY <1>1 DEF Logs
<1> HIDE DEF n, l
<1>4. p \in [1..n -> 1..n] /\ Orders(p, entries)
  BY <1>1, AnOrder
<1>5. q \in [DOMAIN l -> DOMAIN l] /\ Orders(q, l)
  BY <1>2, AnOrder
<1>6. ByTime(entries) = [i \in 1..n |-> entries[p[i]]]
  BY <1>1 DEF ByTime
<1>7. ByTime(l) = [i \in 1..n + 1 |-> l[q[i]]]
  BY <1>3 DEF ByTime
<1> HIDE DEF p, q
<1>8. r \in [1..n + 1 -> 1..n + 1] /\ r[n + 1] = n + 1 /\ \A i \in 1..n : r[i] = p[i] /\ p[i] \in 1..n
  BY <1>1, <1>4
<1> HIDE DEF r
<1>9. Orders(r, l)
  <2>1. ASSUME NEW i \in 1..n + 1 PROVE \E j \in 1..n + 1 : r[j] = i
    <3>1. CASE i = n + 1
      BY <1>1, <1>8, <3>1
    <3>2. CASE i # n + 1
      <4>1. i \in 1..n
        BY <1>1, <3>2
      <4>2. PICK j \in 1..n : p[j] = i
        BY <1>1, <1>4, <4>1 DEF Orders
      <4>3. j \in 1..n + 1
        BY <1>1
      <4> QED
        BY <1>8, <4>2, <4>3
    <3> QED
      BY <3>1, <3>2
  <2>2. ASSUME NEW i \in 1..n + 1, NEW j \in 1..n + 1, i < j PROVE l[r[i]].at <= l[r[j]].at
    <3>1. i \in 1..n /\ l[r[i]] = entries[p[i]] /\ p[i] \in 1..n
      BY <1>1, <1>3, <1>8, <2>2
    <3>2. CASE j \in 1..n
      <4>1. l[r[j]] = entries[p[j]]
        BY <1>3, <1>8, <3>2
      <4>2. entries[p[i]].at <= entries[p[j]].at
        BY <1>1, <1>4, <2>2, <3>1, <3>2 DEF Orders
      <4> QED
        BY <3>1, <4>1, <4>2
    <3>3. CASE j \notin 1..n
      <4>1. j = n + 1 /\ l[r[j]] = e
        BY <1>1, <1>3, <1>8, <3>3
      <4>2. entries[p[i]].at < e.at /\ entries[p[i]].at \in Nat /\ e.at \in Nat
        BY <1>1, <3>1 DEF Before, FbEvents
      <4>3. entries[p[i]].at <= e.at
        BY <4>2
      <4> QED
        BY <3>1, <4>1, <4>3
    <3> QED
      BY <3>2, <3>3
  <2> QED
    BY <1>3, <2>1, <2>2 DEF Orders
<1>10. q = r
  <2>1. r \in [DOMAIN l -> DOMAIN l]
    BY <1>3, <1>8
  <2> QED
    BY <1>2, <1>5, <1>9, <2>1, OneOrder
<1> DEFINE s == ByTime(entries)
<1>11. s \in Seq(FbEvents) /\ Len(s) = n /\ DOMAIN s = 1..n /\ \A i \in 1..n : s[i] = entries[p[i]]
  <2>1. Sorted(s, entries)
    BY ByTimeSorts
  <2>2. s \in Seq(FbEvents)
    BY <2>1 DEF Sorted, Logs
  <2>3. DOMAIN s = 1..n /\ \A i \in 1..n : s[i] = entries[p[i]]
    BY <1>6
  <2>4. DOMAIN s = 1..Len(s) /\ Len(s) \in Nat
    BY <2>2
  <2>5. Len(s) = n
    BY <1>1, <2>3, <2>4
  <2> QED
    BY <2>2, <2>3, <2>5
<1> HIDE DEF s
<1>12. \A i \in 1..n + 1 : Append(s, e)[i] = l[r[i]]
  <2>1. ASSUME NEW i \in 1..n + 1 PROVE Append(s, e)[i] = l[r[i]]
    <3>1. CASE i = n + 1
      BY <1>3, <1>8, <1>11, <3>1
    <3>2. CASE i # n + 1
      <4>1. i \in 1..n
        BY <1>1, <3>2
      <4> QED
        BY <1>3, <1>8, <1>11, <4>1
    <3> QED
      BY <3>1, <3>2
  <2> QED
    BY <2>1
<1>13. Append(s, e) = [i \in 1..n + 1 |-> Append(s, e)[i]]
  <2> DEFINE t == Append(s, e)
  <2>1. t \in Seq(FbEvents) /\ Len(t) = n + 1
    BY <1>11
  <2> HIDE DEF t
  <2>2. t = [i \in 1..n + 1 |-> t[i]]
    BY <1>3, <2>1
  <2> QED
    BY <2>2 DEF t
<1>14. Append(s, e) = [i \in 1..n + 1 |-> l[r[i]]]
  BY <1>12, <1>13
<1> QED
  BY <1>7, <1>10, <1>14 DEF s, l

\* The state after it is the state before it, and the event.
LEMMA StateGrows ==
  ASSUME NEW policy, NEW entries \in Logs, Apart(entries), NEW e \in FbEvents, Before(entries, e.at)
  PROVE  /\ StateOf(entries, policy) \in FeedStates
         /\ StateOf(Append(entries, e), policy) = Counted(policy, StateOf(entries, policy), e)
<1> DEFINE s == ByTime(entries)
           l == Append(entries, e)
           r == ByTime(l)
           n == Len(s)
<1>1. s \in Logs
  BY ByTimeSorts DEF Sorted
<1>2. r = Append(s, e)
  BY LastInTime
<1>3. r \in Logs /\ n \in Nat /\ Len(r) = n + 1 /\ r[n + 1] = e /\ \A i \in 1..n : r[i] = s[i]
  BY <1>1, <1>2 DEF Logs
<1>4. PICK a : FeedStepsBy(policy, a, s) /\ StateOf(entries, policy) = a[n]
  BY <1>1, FeedFoldBy
<1> HIDE DEF l
<1>5. PICK b : FeedStepsBy(policy, b, r) /\ StateOf(l, policy) = b[Len(r)]
  BY <1>3, FeedFoldBy
<1> HIDE DEF s, r, n
<1>6. a[0] = NoState /\ (\A k \in 1..n : a[k] = Counted(policy, a[k - 1], s[k])) /\ a \in [0..n -> FeedStates]
  BY <1>4 DEF FeedStepsBy, n
<1>7. b[0] = NoState /\ \A k \in 1..n + 1 : b[k] = Counted(policy, b[k - 1], r[k])
  BY <1>3, <1>5 DEF FeedStepsBy
<1> DEFINE T == {k \in Nat : k <= n => a[k] = b[k]}
<1>8. Nat \subseteq T
  <2>1. 0 \in T
    BY <1>6, <1>7
  <2>2. ASSUME NEW k \in Nat, k \in T PROVE k + 1 \in T
    <3> SUFFICES ASSUME k + 1 <= n PROVE a[k + 1] = b[k + 1]
      OBVIOUS
    <3>1. k <= n /\ k + 1 \in 1..n /\ k + 1 \in 1..n + 1 /\ (k + 1) - 1 = k
      BY <1>3
    <3>2. a[k] = b[k] /\ r[k + 1] = s[k + 1]
      BY <1>3, <2>2, <3>1
    <3>3. a[k + 1] = Counted(policy, a[k], s[k + 1])
      BY <1>6, <3>1
    <3>4. b[k + 1] = Counted(policy, b[k], r[k + 1])
      BY <1>7, <3>1
    <3> QED
      BY <3>2, <3>3, <3>4
  <2> HIDE DEF T
  <2> QED
    BY <2>1, <2>2, SetInduction
<1>9. a[n] = b[n] /\ a[n] \in FeedStates
  BY <1>3, <1>6, <1>8
<1>10. b[n + 1] = Counted(policy, b[n], e)
  BY <1>3, <1>7
<1> QED
  BY <1>3, <1>4, <1>5, <1>9, <1>10 DEF l

\* The n signs of a kind, the last at a time, became m: nothing, or one more that is new.
OneMoreSign(n, at, m, new, now) ==
  /\ n \in Nat /\ m \in Nat /\ at \in Int /\ new \in Int
  /\ (m = n /\ new = at) \/ (m = n + 1 /\ Decay(new, now) = 20)
\* A part of the penalty grows when its sign is counted once more, now.
Part(weight, at, now, n, limit) == weight * Decay(at, now) * AtMost(n, limit)
LEMMA PartGrows ==
  ASSUME NEW weight \in Nat, NEW limit \in 0..5, NEW n, NEW m, NEW at, NEW new,
         NEW now \in Nat, OneMoreSign(n, at, m, new, now)
  PROVE  Part(weight, at, now, n, limit) \in Nat /\ Part(weight, at, now, n, limit) <= Part(weight, new, now, m, limit)
<1> DEFINE d == Decay(at, now)
           c == AtMost(n, limit)
           f == Decay(new, now)
           g == AtMost(m, limit)
<1>1. d \in {0, 2, 5, 10, 15, 20}
  BY DEF Decay
<1>2. c \in 0..5 /\ g \in 0..5 /\ c <= g /\ (m = n => c = g)
  BY DEF AtMost, OneMoreSign
<1>3. (m = n /\ f = d /\ g = c) \/ f = 20
  BY <1>2 DEF OneMoreSign
<1> HIDE DEF d, c, f, g
<1>4. weight * d \in Nat /\ weight * d <= weight * 20
  BY <1>1
<1>5. ASSUME NEW x \in Nat, NEW y \in Nat, x <= y PROVE x * c \in Nat /\ x * c <= y * g
  <2>1. c \in {0, 1, 2, 3, 4, 5} /\ g \in {0, 1, 2, 3, 4, 5}
    BY <1>2
  <2> QED
    BY <1>2, <1>5, <2>1
<1>6. weight * d * c \in Nat
  BY <1>4, <1>5
<1>7. ASSUME f = 20 PROVE weight * d * c <= weight * f * g
  <2>1. weight * 20 \in Nat
    OBVIOUS
  <2>2. (weight * d) * c <= (weight * 20) * g
    BY <1>4, <1>5, <2>1
  <2> QED
    BY <1>6, <1>7, <2>2
<1>8. ASSUME m = n /\ f = d /\ g = c PROVE weight * d * c <= weight * f * g
  <2>1. weight * f * g = weight * d * c
    BY <1>8
  <2> DEFINE z == weight * d * c
  <2>2. z <= z
    <3> HIDE DEF z
    <3> QED
      BY <1>6 DEF z
  <2> QED
    BY <1>6, <2>1, <2>2
<1> QED
  BY <1>3, <1>6, <1>7, <1>8 DEF d, c, f, g, Part

LEMMA PartsGrow ==
  ASSUME NEW now \in Nat, NEW n, NEW at, NEW m, NEW new, OneMoreSign(n, at, m, new, now)
  PROVE  /\ Part(55, at, now, n, 5) \in Nat /\ Part(55, new, now, m, 5) \in Nat
         /\ Part(55, at, now, n, 5) <= Part(55, new, now, m, 5)
         /\ Part(170, at, now, n, 3) \in Nat /\ Part(170, new, now, m, 3) \in Nat
         /\ Part(170, at, now, n, 3) <= Part(170, new, now, m, 3)
         /\ Part(260, at, now, n, 2) \in Nat /\ Part(260, new, now, m, 2) \in Nat
         /\ Part(260, at, now, n, 2) <= Part(260, new, now, m, 2)
<1>1. /\ n \in Nat /\ m \in Nat /\ at \in Int /\ new \in Int
      /\ OneMoreSign(n, at, m, new, now) /\ OneMoreSign(m, new, m, new, now)
  BY DEF OneMoreSign
<1>2. 55 \in Nat /\ 170 \in Nat /\ 260 \in Nat /\ 5 \in 0..5 /\ 3 \in 0..5 /\ 2 \in 0..5
  OBVIOUS
<1>3. Part(55, at, now, n, 5) \in Nat /\ Part(55, at, now, n, 5) <= Part(55, new, now, m, 5)
  BY <1>1, <1>2, PartGrows
<1>4. Part(55, new, now, m, 5) \in Nat
  BY <1>1, <1>2, PartGrows
<1>5. Part(170, at, now, n, 3) \in Nat /\ Part(170, at, now, n, 3) <= Part(170, new, now, m, 3)
  BY <1>1, <1>2, PartGrows
<1>6. Part(170, new, now, m, 3) \in Nat
  BY <1>1, <1>2, PartGrows
<1>7. Part(260, at, now, n, 2) \in Nat /\ Part(260, at, now, n, 2) <= Part(260, new, now, m, 2)
  BY <1>1, <1>2, PartGrows
<1>8. Part(260, new, now, m, 2) \in Nat
  BY <1>1, <1>2, PartGrows
<1> QED
  BY <1>3, <1>4, <1>5, <1>6, <1>7, <1>8

\* What is recovered of a penalty grows with what is new, and shrinks the rest.
LEMMA RecoveryShrinks ==
  ASSUME NEW raw \in Nat, NEW more \in Nat, raw <= more, NEW x \in {7, 10}, NEW y \in {1, 2}, NEW w \in {1, 2}, y <= w,
         NEW z \in {7, 20}
  PROVE  /\ (2 * (raw * x * y * z) + 8000) \div 16000 \in Int /\ (2 * (more * 10 * w * 20) + 8000) \div 16000 \in Int
         /\ (2 * (raw * x * y * z) + 8000) \div 16000 <= (2 * (more * 10 * w * 20) + 8000) \div 16000
<1>1. raw * x \in Nat /\ raw * x <= more * 10 /\ more * 10 \in Nat
  OBVIOUS
<1>2. raw * x * y \in Nat /\ raw * x * y <= more * 10 * w /\ more * 10 * w \in Nat
  BY <1>1
<1>3. raw * x * y * z \in Nat /\ raw * x * y * z <= more * 10 * w * 20 /\ more * 10 * w * 20 \in Nat
  BY <1>2
<1> DEFINE a == raw * x * y * z
           b == more * 10 * w * 20
<1> HIDE DEF a, b
<1>4. (2 * a + 8000) \div 16000 \in Int /\ (2 * b + 8000) \div 16000 \in Int
  BY <1>3 DEF a, b
<1>5. (2 * a + 8000) \div 16000 <= (2 * b + 8000) \div 16000
  <2>1. a \in Nat /\ b \in Nat /\ a <= b
    BY <1>3 DEF a, b
  <2> QED
    BY <2>1
<1> QED
  BY <1>4, <1>5 DEF a, b

\* Whoever looked at an issue just now finds nothing new, and a penalty not smaller.
LookedAt(s, t, facts, now) ==
  /\ t.last \in Nat /\ facts.updated <= t.last /\ t.comments \in {facts.comments, s.comments}
  /\ t.done = s.done /\ t.dismissed = s.dismissed
  /\ OneMoreSign(s.shown, s.lastShown, t.shown, t.lastShown, now)
  /\ OneMoreSign(s.read, s.lastRead, t.read, t.lastRead, now)
  /\ OneMoreSign(s.prepared, s.lastPrepared, t.prepared, t.lastPrepared, now)
Gain(s, facts, now) == Feedback(s, facts, now).boost - Feedback(s, facts, now).penalty
LEMMA LookingGainsNothing ==
  ASSUME NEW s \in FeedStates, NEW t \in FeedStates, NEW facts \in IssueFacts, NEW now \in Nat, LookedAt(s, t, facts, now)
  PROVE  /\ Feedback(s, facts, now).boost \in Int /\ Feedback(s, facts, now).penalty \in Int
         /\ Feedback(t, facts, now).boost \in Int /\ Feedback(t, facts, now).penalty \in Int
         /\ Gain(t, facts, now) <= Gain(s, facts, now)
<1> DEFINE Newer(x) == x.last # None /\ facts.updated > x.last
           Commented(x) == x.comments # None /\ facts.comments > x.comments
           Replied(x) == Newer(x) /\ facts.maintainer
           Raw(x) == 55 * Decay(x.lastShown, now) * AtMost(x.shown, 5)
                     + 170 * Decay(x.lastRead, now) * AtMost(x.read, 3)
                     + 260 * Decay(x.lastPrepared, now) * AtMost(x.prepared, 2)
           N(x) == IF Newer(x) THEN 7 ELSE 10
           C(x) == IF Commented(x) THEN 1 ELSE 2
           A(x) == IF Replied(x) THEN 7 ELSE 20
           Scaled(x) == Raw(x) * N(x) * C(x) * A(x)
           Boost(x) == (IF Newer(x) THEN 15 ELSE 0) + (IF Commented(x) THEN 25 ELSE 0) + (IF Replied(x) THEN 35 ELSE 0)
           Loss(x) == (2 * Scaled(x) + 8000) \div 16000
<1>1. \A x \in {s, t} : IF x.done \/ x.dismissed
        THEN Feedback(x, facts, now).penalty = 0 /\ Feedback(x, facts, now).boost = 0
        ELSE Feedback(x, facts, now).penalty = Loss(x) /\ Feedback(x, facts, now).boost = Boost(x)
  BY DEF Feedback
<1>2. \A x \in FeedStates :
        /\ x.shown \in Nat /\ x.read \in Nat /\ x.prepared \in Nat /\ x.last \in Int /\ x.comments \in Int
        /\ x.lastShown \in Int /\ x.lastRead \in Int /\ x.lastPrepared \in Int
  BY DEF FeedStates
<1>3. facts.updated \in Nat /\ facts.comments \in Nat
  BY DEF IssueFacts
<1>4. ~Newer(t) /\ ~Replied(t) /\ (Commented(t) => Commented(s))
  BY <1>2, <1>3 DEF LookedAt, None
<1>5. Raw(s) \in Nat /\ Raw(t) \in Nat /\ Raw(s) <= Raw(t)
  <2> DEFINE S(x) == Part(55, x.lastShown, now, x.shown, 5)
             R(x) == Part(170, x.lastRead, now, x.read, 3)
             P(x) == Part(260, x.lastPrepared, now, x.prepared, 2)
  <2>1. S(s) \in Nat /\ S(t) \in Nat /\ S(s) <= S(t)
    BY PartsGrow DEF LookedAt
  <2>2. R(s) \in Nat /\ R(t) \in Nat /\ R(s) <= R(t)
    BY PartsGrow DEF LookedAt
  <2>3. P(s) \in Nat /\ P(t) \in Nat /\ P(s) <= P(t)
    BY PartsGrow DEF LookedAt
  <2>5. Raw(s) = S(s) + R(s) + P(s) /\ Raw(t) = S(t) + R(t) + P(t)
    BY DEF Part
  <2> HIDE DEF S, R, P, Raw
  <2> QED
    BY <2>1, <2>2, <2>3, <2>5
<1> HIDE DEF Raw, Newer, Commented
<1>6. Loss(s) \in Int /\ Loss(t) \in Int /\ Loss(s) <= Loss(t)
  <2>1. N(s) \in {7, 10} /\ C(s) \in {1, 2} /\ C(t) \in {1, 2} /\ C(s) <= C(t) /\ A(s) \in {7, 20}
    BY <1>4
  <2>2. N(t) = 10 /\ A(t) = 20
    BY <1>4
  <2> HIDE DEF N, C, A
  <2>3. /\ (2 * (Raw(s) * N(s) * C(s) * A(s)) + 8000) \div 16000 \in Int
        /\ (2 * (Raw(t) * 10 * C(t) * 20) + 8000) \div 16000 \in Int
        /\ (2 * (Raw(s) * N(s) * C(s) * A(s)) + 8000) \div 16000 <= (2 * (Raw(t) * 10 * C(t) * 20) + 8000) \div 16000
    BY <1>5, <2>1, RecoveryShrinks
  <2> QED
    BY <2>2, <2>3
<1>7. Boost(s) \in Int /\ Boost(t) \in Int /\ Boost(t) <= Boost(s)
  BY <1>4
<1>8. t.done = s.done /\ t.dismissed = s.dismissed
  BY DEF LookedAt
<1> HIDE DEF Boost, Loss
<1> QED
  BY <1>1, <1>6, <1>7, <1>8 DEF Gain

\* The feedback is in whole points.
LEMMA FeedbackIsNumbers ==
  ASSUME NEW s \in FeedStates, NEW facts \in IssueFacts, NEW now \in Nat
  PROVE  /\ Feedback(s, facts, now).boost \in Int /\ Feedback(s, facts, now).penalty \in Int
         /\ Gain(s, facts, now) <= Gain(s, facts, now)
<1> DEFINE raw == 55 * Decay(s.lastShown, now) * AtMost(s.shown, 5)
                  + 170 * Decay(s.lastRead, now) * AtMost(s.read, 3)
                  + 260 * Decay(s.lastPrepared, now) * AtMost(s.prepared, 2)
           newer == s.last # None /\ facts.updated > s.last
           commented == s.comments # None /\ facts.comments > s.comments
           answered == newer /\ facts.maintainer
           scaled == raw * (IF newer THEN 7 ELSE 10) * (IF commented THEN 1 ELSE 2) * (IF answered THEN 7 ELSE 20)
           boost == (IF newer THEN 15 ELSE 0) + (IF commented THEN 25 ELSE 0) + (IF answered THEN 35 ELSE 0)
           penalty == (2 * scaled + 8000) \div 16000
<1>1. raw \in Nat
  <2>1. /\ OneMoreSign(s.shown, s.lastShown, s.shown, s.lastShown, now)
        /\ OneMoreSign(s.read, s.lastRead, s.read, s.lastRead, now)
        /\ OneMoreSign(s.prepared, s.lastPrepared, s.prepared, s.lastPrepared, now)
    BY DEF OneMoreSign, FeedStates
  <2>2. /\ Part(55, s.lastShown, now, s.shown, 5) \in Nat /\ Part(170, s.lastRead, now, s.read, 3) \in Nat
        /\ Part(260, s.lastPrepared, now, s.prepared, 2) \in Nat
    BY <2>1, PartsGrow
  <2>3. raw = Part(55, s.lastShown, now, s.shown, 5) + Part(170, s.lastRead, now, s.read, 3)
              + Part(260, s.lastPrepared, now, s.prepared, 2)
    BY DEF Part
  <2> HIDE DEF raw
  <2> QED
    BY <2>2, <2>3
<1> HIDE DEF raw, newer, commented, answered
<1>2. scaled \in Nat
  <2>1. raw * (IF newer THEN 7 ELSE 10) \in Nat
    BY <1>1
  <2>2. raw * (IF newer THEN 7 ELSE 10) * (IF commented THEN 1 ELSE 2) \in Nat
    BY <2>1
  <2> QED
    BY <2>2
<1>3. boost \in Int
  OBVIOUS
<1>4. IF s.done \/ s.dismissed
      THEN Feedback(s, facts, now).penalty = 0 /\ Feedback(s, facts, now).boost = 0
      ELSE Feedback(s, facts, now).penalty = penalty /\ Feedback(s, facts, now).boost = boost
  BY DEF Feedback, raw, newer, commented, answered
<1> HIDE DEF scaled, boost
<1>5. penalty \in Int
  BY <1>2
<1> HIDE DEF penalty
<1>6. Feedback(s, facts, now).boost \in Int /\ Feedback(s, facts, now).penalty \in Int
  BY <1>3, <1>4, <1>5
<1>7. Gain(s, facts, now) \in Int
  BY <1>6 DEF Gain
<1> QED
  BY <1>6, <1>7

LEMMA LookingIs ==
  ASSUME NEW s \in FeedStates, NEW e \in FbEvents, e.type \in {"shown", "read", "prepared"}, NEW facts \in IssueFacts,
         NEW now \in Nat, facts.updated <= e.at, e.comments \in {None, facts.comments}, Decay(e.at, now) = 20
  PROVE  LookedAt(s, ApplyEvent(s, e), facts, now)
<1> DEFINE at == e.at
           c == IF e.comments # None THEN e.comments ELSE s.comments
           known == [s EXCEPT !.last = at, !.comments = c]
           t == ApplyEvent(s, e)
<1>1. /\ at \in Nat /\ c \in {facts.comments, s.comments} /\ c \in Int
      /\ s.shown \in Nat /\ s.read \in Nat /\ s.prepared \in Nat
      /\ s.lastShown \in Int /\ s.lastRead \in Int /\ s.lastPrepared \in Int
  BY DEF FbEvents, FeedStates
<1>2. known = [s EXCEPT !.last = e.at, !.comments = IF e.comments # None THEN e.comments ELSE @]
  BY DEF FeedStates
<1>3. t = CASE e.type = "shown" -> [known EXCEPT !.shown = @ + 1, !.lastShown = at]
            [] e.type = "read" -> [known EXCEPT !.read = @ + 1, !.lastRead = at]
            [] e.type = "prepared" -> [known EXCEPT !.prepared = @ + 1, !.lastPrepared = at]
            [] OTHER -> [known EXCEPT !.done = e.type = "done", !.dismissed = e.type = "dismissed"]
  <2> HIDE DEF known
  <2> QED
    BY <1>2 DEF ApplyEvent
<1> HIDE DEF at, c
<1>4. /\ known \in FeedStates /\ known.last = at /\ known.comments = c
      /\ known.done = s.done /\ known.dismissed = s.dismissed
      /\ known.shown = s.shown /\ known.read = s.read /\ known.prepared = s.prepared
      /\ known.lastShown = s.lastShown /\ known.lastRead = s.lastRead /\ known.lastPrepared = s.lastPrepared
  <2>1. at \in Int /\ c \in Int
    BY <1>1
  <2>2. known \in FeedStates
    BY <2>1 DEF FeedStates
  <2> QED
    BY <2>2 DEF FeedStates
<1> HIDE DEF known, t
<1>5. t.last = at /\ t.comments = c /\ t.done = s.done /\ t.dismissed = s.dismissed
  BY <1>3, <1>4 DEF FeedStates
<1>6. CASE e.type = "shown"
  <2>1. t = [known EXCEPT !.shown = known.shown + 1, !.lastShown = at]
    BY <1>3, <1>6
  <2>2. /\ t.shown = s.shown + 1 /\ t.lastShown = at /\ t.read = s.read /\ t.lastRead = s.lastRead
        /\ t.prepared = s.prepared /\ t.lastPrepared = s.lastPrepared
    BY <1>4, <2>1 DEF FeedStates
  <2> QED
    BY <1>1, <1>5, <2>2 DEF LookedAt, OneMoreSign, t, at
<1>7. CASE e.type = "read"
  <2>1. t = [known EXCEPT !.read = known.read + 1, !.lastRead = at]
    BY <1>3, <1>7
  <2>2. /\ t.read = s.read + 1 /\ t.lastRead = at /\ t.shown = s.shown /\ t.lastShown = s.lastShown
        /\ t.prepared = s.prepared /\ t.lastPrepared = s.lastPrepared
    BY <1>4, <2>1 DEF FeedStates
  <2> QED
    BY <1>1, <1>5, <2>2 DEF LookedAt, OneMoreSign, t, at
<1>8. CASE e.type = "prepared"
  <2>1. t = [known EXCEPT !.prepared = known.prepared + 1, !.lastPrepared = at]
    BY <1>3, <1>8
  <2>2. /\ t.prepared = s.prepared + 1 /\ t.lastPrepared = at /\ t.shown = s.shown /\ t.lastShown = s.lastShown
        /\ t.read = s.read /\ t.lastRead = s.lastRead
    BY <1>4, <2>1 DEF FeedStates
  <2> QED
    BY <1>1, <1>5, <2>2 DEF LookedAt, OneMoreSign, t, at
<1> QED
  BY <1>6, <1>7, <1>8

\* What is known of the issue is older than now.
FactsArePast == github.updated < Stamp /\ seen.updated < Stamp
LEMMA FactsStayPast == FeedInv /\ FactsArePast /\ [FeedbackNext]_feedbackVars => FactsArePast'
<1> SUFFICES ASSUME FeedInv, FactsArePast, [FeedbackNext]_feedbackVars PROVE FactsArePast'
  OBVIOUS
<1>1. /\ FeedTyped /\ Stamp \in Nat /\ github.updated \in Nat /\ seen.updated \in Nat
      /\ Later => Stamp' = Stamp + 1
  BY ClockMoves DEF FeedInv, FeedTyped, IssueFacts
<1>2. ASSUME Later, UNCHANGED <<github, seen>> PROVE FactsArePast'
  BY <1>1, <1>2 DEF FactsArePast
<1>3. ASSUME NEW comments \in 0..1, NEW maintainer \in BOOLEAN, Change(comments, maintainer) PROVE FactsArePast'
  <2>1. github'.updated = Stamp /\ seen' = seen /\ Later
    BY <1>3 DEF Change
  <2> QED
    BY <1>1, <2>1 DEF FactsArePast
<1>4. CASE Enrich
  BY <1>4 DEF Enrich, FactsArePast, Stamp
<1>5. ASSUME NEW days \in LongPauses, Pause(days) PROVE FactsArePast'
  <2>1. days \in Nat \ {0} /\ time.day \in Nat /\ time.count \in Nat /\ time.count < 100
    BY <1>1, FeedbackAssumption DEF FeedTyped, FeedInv, Stamped, IssueFacts, Logs
  <2>2. time' = [day |-> time.day + days, count |-> 1] /\ UNCHANGED <<github, seen>>
    BY <1>5 DEF Pause
  <2>3. Stamp < Stamp' /\ Stamp' \in Nat
    BY <2>1, <2>2 DEF Stamp
  <2> QED
    BY <1>1, <2>2, <2>3 DEF FactsArePast
<1>6. CASE AppendLate \/ UNCHANGED feedbackVars
  BY <1>6 DEF AppendLate, feedbackVars, FactsArePast, Stamp
<1>7. ASSUME NEW sign \in Signs, Record(sign.type, sign.enriched) \/ StampOnly(sign.type, sign.enriched) PROVE FactsArePast'
  BY <1>2, <1>7 DEF Record, StampOnly
<1> QED
  BY <1>3, <1>4, <1>5, <1>6, <1>7 DEF FeedbackNext

LEMMA LookingPromotesNothing ==
  ASSUME FeedInv, FactsArePast, [FeedbackNext]_feedbackVars, NEW policy \in {"legacy", "codex"},
         Len(events') > Len(events), late' = late, events'[Len(events')].type \in {"shown", "read", "prepared"}
  PROVE  FeedScore(StateOf(events', policy), seen, time.day) <= FeedScore(StateOf(events, policy), seen, time.day)
<1> DEFINE now == time.day
           s == StateOf(events, policy)
           t == StateOf(events', policy)
<1>1. /\ FeedTyped /\ events \in Logs /\ late \in Logs /\ seen \in IssueFacts /\ item \in Items /\ now \in Nat
      /\ time.count \in Nat /\ Stamp \in Nat /\ Len(events) \in Nat /\ Apart(events) /\ Before(events, Stamp)
  BY ClockMoves DEF FeedInv, FeedTyped, Stamped, Logs
<1>2. PICK sign \in Signs : Record(sign.type, sign.enriched)
  <2>1. ~AppendLate
    <3> SUFFICES ASSUME AppendLate PROVE FALSE
      OBVIOUS
    <3>1. late' = Tail(late) /\ late # <<>> /\ late \in Seq(FbEvents)
      BY <1>1 DEF AppendLate, Logs
    <3>2. Len(Tail(late)) = Len(late) - 1 /\ Len(late) \in Nat
      BY <3>1
    <3> QED
      BY <3>1, <3>2
  <2>2. events' # events
    BY <1>1
  <2> QED
    BY <2>1, <2>2 DEF FeedbackNext, StampOnly, Enrich, Change, Pause, feedbackVars
<1> DEFINE e == NewEvent(sign.type, sign.enriched)
<1>3. events' = Append(events, e) /\ e \in FbEvents /\ e.at = Stamp
  BY <1>1, <1>2, NewEventType DEF Record
<1>4. e.type \in {"shown", "read", "prepared"} /\ e.type = sign.type
  <2>1. events'[Len(events')] = e
    BY <1>1, <1>3 DEF Logs
  <2> QED
    BY <2>1 DEF NewEvent
<1>5. e.comments \in {None, seen.comments}
  BY <1>4 DEF NewEvent, Facts
<1> HIDE DEF e
<1>6. s \in FeedStates /\ t = Counted(policy, s, e)
  BY <1>1, <1>3, StateGrows
<1> DEFINE fresh == Freshness(seen, now)
           rest == Anchor[item.category] + item.rank + AtMost(fresh, item.cap) - item.penalty
<1>7. rest \in Int
  <2>1. fresh \in Int
    BY DEF Freshness, AtMost
  <2>2. Anchor[item.category] \in Int /\ item.rank \in Int /\ item.cap \in Int /\ item.penalty \in Int
    BY <1>1, FeedbackAssumption
  <2> HIDE DEF fresh
  <2> QED
    BY <2>1, <2>2 DEF AtMost
<1>8. ASSUME NEW x, Feedback(x, seen, now).boost \in Int, Feedback(x, seen, now).penalty \in Int
      PROVE  FeedScore(x, seen, now) = rest + Gain(x, seen, now) /\ Gain(x, seen, now) \in Int
  <2> DEFINE b == Feedback(x, seen, now).boost
             p == Feedback(x, seen, now).penalty
             c == AtMost(fresh, item.cap)
  <2>1. FeedScore(x, seen, now) = Anchor[item.category] + item.rank + c + b - p - item.penalty
    BY DEF FeedScore
  <2>2. c \in Int /\ Anchor[item.category] \in Int /\ item.rank \in Int /\ item.penalty \in Int
    <3>1. fresh \in Int
      BY DEF Freshness, AtMost
    <3>2. Anchor[item.category] \in Int /\ item.rank \in Int /\ item.cap \in Int /\ item.penalty \in Int
      BY <1>1, FeedbackAssumption
    <3> HIDE DEF fresh
    <3> QED
      BY <3>1, <3>2 DEF AtMost
  <2>3. b \in Int /\ p \in Int
    BY <1>8
  <2>4. Gain(x, seen, now) = b - p /\ rest = Anchor[item.category] + item.rank + c - item.penalty
    BY DEF Gain
  <2> HIDE DEF b, p, c, rest
  <2> QED
    BY <2>1, <2>2, <2>3, <2>4
<1>9. /\ Feedback(s, seen, now).boost \in Int /\ Feedback(s, seen, now).penalty \in Int
      /\ Feedback(t, seen, now).boost \in Int /\ Feedback(t, seen, now).penalty \in Int
      /\ Gain(t, seen, now) <= Gain(s, seen, now)
  <2>1. CASE ~Includes(policy, e)
    <3>1. t = s
      BY <1>6, <2>1 DEF Counted
    <3> QED
      BY <1>1, <1>6, <3>1, FeedbackIsNumbers DEF Gain
  <2>2. CASE Includes(policy, e)
    <3>1. t = ApplyEvent(s, e) /\ t \in FeedStates
      BY <1>3, <1>6, <2>2, ApplyEventMarks DEF Counted
    <3>2. seen.updated <= e.at
      BY <1>1, <1>3 DEF FactsArePast, IssueFacts
    <3>3. Decay(e.at, now) = 20
      <4>1. DayOf(Stamp) >= now /\ DayOf(Stamp) \in Int
        BY <1>1 DEF DayOf, Stamp
      <4>2. Stamp # None
        BY <1>1 DEF None
      <4> QED
        BY <1>1, <1>3, <4>1, <4>2 DEF Decay
    <3>4. LookedAt(s, t, seen, now)
      BY <1>1, <1>3, <1>4, <1>5, <1>6, <3>1, <3>2, <3>3, LookingIs
    <3> HIDE DEF s, t, now
    <3> QED
      BY <1>1, <1>6, <3>1, <3>4, LookingGainsNothing
  <2> QED
    BY <2>1, <2>2
<1> HIDE DEF s, t, now, rest
<1>10. /\ FeedScore(s, seen, now) = rest + Gain(s, seen, now) /\ Gain(s, seen, now) \in Int
       /\ FeedScore(t, seen, now) = rest + Gain(t, seen, now) /\ Gain(t, seen, now) \in Int
  BY <1>8, <1>9
<1> QED
  BY <1>7, <1>9, <1>10 DEF s, t, now

\* Of the feedback.  Showing, reading or preparing an issue never moves it up the feed, under
\* either policy and whatever was recorded before: the event is the last in time and its
\* facts are those of now, so the score loses what a look costs and gains nothing
\* (recommendation/local_feedback.rs); a part of ScoresMoveTheRightWay.
THEOREM LookingNeverPays == FeedbackSpec => FeedbackNeverPromotes
<1>1. FeedbackInit => FactsArePast
  BY DEF FeedbackInit, FactsArePast, Stamp
<1>2. FeedInv /\ FactsArePast /\ [FeedbackNext]_feedbackVars =>
      [\A policy \in {"legacy", "codex"} :
         LET e == events'[Len(events')] IN
         Len(events') > Len(events) /\ late' = late /\ e.type \in {"shown", "read", "prepared"} =>
           FeedScore(StateOf(events', policy), seen, time.day)
             <= FeedScore(StateOf(events, policy), seen, time.day)]_feedbackVars
  BY LookingPromotesNothing
<1> QED
  BY <1>1, <1>2, FeedFirst, FeedNext, FactsStayPast, PTL DEF FeedbackSpec, FeedbackNeverPromotes
-----------------------------------------------------------------------------
(* What an assessment reads of a thread.                                      *)

\* Two threads that an assessment tells apart by the pull requests that are closed, if at all.
ReadAlike(t, u) ==
  /\ t.timeline = u.timeline /\ t.answered = u.answered /\ OpenPulls(t) = OpenPulls(u)
  /\ Marked(t, "attempt") = Marked(u, "attempt") /\ Marked(t, "claim") = Marked(u, "claim")
  /\ Marked(t, "working") = Marked(u, "working") /\ Marked(t, "fix") = Marked(u, "fix")
  /\ OthersSay(t) = OthersSay(u)
  /\ (\E c \in Range(t.comments) : c.by = "maintainer") <=> (\E c \in Range(u.comments) : c.by = "maintainer")
  /\ (prospect.older + Len(t.comments) >= 20) <=> (prospect.older + Len(u.comments) >= 20)
LEMMA AlikeReads ==
  ASSUME NEW t, NEW u, ReadAlike(t, u)
  PROVE  /\ RiskTags(t) = RiskTags(u) /\ EarlyTags(t) = EarlyTags(u) /\ GateTags(t) = GateTags(u)
         /\ ScoreTags(t) = ScoreTags(u) /\ ScopeTags(t) = ScopeTags(u)
         /\ WithComments(t) = WithComments(u) /\ MaintainerScore(t) = MaintainerScore(u)
         /\ AnsweredQuestion(t) = AnsweredQuestion(u) /\ HasWork(t) = HasWork(u) /\ Claimed(t) = Claimed(u)
         /\ GuidedDocs(t) = GuidedDocs(u)
<1>1. WithComments(t) = WithComments(u)
  BY DEF WithComments, ReadAlike
<1>2. RiskTags(t) = RiskTags(u)
  <2>1. /\ (prospect.older + Len(t.comments) >= 20 \/ prospect.open >= 500 \/ Says(Text, {"audit"}))
           <=> (prospect.older + Len(u.comments) >= 20 \/ prospect.open >= 500 \/ Says(Text, {"audit"}))
        /\ t.answered = u.answered
    BY DEF ReadAlike
  <2>2. TagIf("HighTriageLoad", prospect.older + Len(t.comments) >= 20 \/ prospect.open >= 500 \/ Says(Text, {"audit"}))
          = TagIf("HighTriageLoad", prospect.older + Len(u.comments) >= 20 \/ prospect.open >= 500 \/ Says(Text, {"audit"}))
    BY <2>1 DEF TagIf
  <2>3. TagIf("MissingMaintainerSignal", ~t.answered) = TagIf("MissingMaintainerSignal", ~u.answered)
    BY <2>1
  <2> QED
    BY <2>2, <2>3, Zenon DEF RiskTags
<1>3. GateTags(t) = GateTags(u)
  BY <1>2 DEF GateTags
<1>4. EarlyTags(t) = EarlyTags(u)
  BY <1>2, <1>3 DEF EarlyTags
<1>5. ScoreTags(t) = ScoreTags(u)
  BY <1>4 DEF ScoreTags
<1>6. ScopeTags(t) = ScopeTags(u)
  BY <1>1 DEF ScopeTags
<1>7. MaintainerScore(t) = MaintainerScore(u)
  BY DEF MaintainerScore, ReadAlike
<1>8. AnsweredQuestion(t) = AnsweredQuestion(u) /\ GuidedDocs(t) = GuidedDocs(u)
  BY <1>1 DEF AnsweredQuestion, GuidedDocs
<1>9. HasWork(t) = HasWork(u)
  BY <1>1 DEF HasWork, Resolved, ReadAlike
<1>10. Claimed(t) = Claimed(u)
  BY <1>1 DEF Claimed, ReadAlike
<1> QED
  BY <1>1, <1>2, <1>3, <1>4, <1>5, <1>6, <1>7, <1>8, <1>9, <1>10

\* The tool's own comment is not read.
LEMMA OwnIsNotRead ==
  ASSUME ValueTyped, NEW says \in Remarks, Comment("own", says), prospect.older + Len(thread'.comments) # 20
  PROVE  ReadAlike(thread, thread') /\ ClosedPulls(thread) = ClosedPulls(thread')
<1> DEFINE c == [by |-> "own", says |-> says]
           a == thread.comments
           b == thread'.comments
           n == Len(a)
<1>1. /\ thread \in ThreadsSeen /\ a \in Seq(Remark) /\ n \in Nat /\ thread.answered \in BOOLEAN /\ prospect.older \in Nat
      /\ DOMAIN a = 1..n
  BY ValueAssumption DEF ValueTyped, ThreadsSeen
<1>2. /\ b = Append(a, c) /\ thread'.answered = thread.answered /\ thread'.pulls = thread.pulls
      /\ thread'.timeline = thread.timeline
  BY <1>1 DEF Comment, ThreadsSeen
<1>3. Len(b) = n + 1 /\ DOMAIN b = 1..n + 1 /\ b[n + 1] = c /\ \A i \in 1..n : b[i] = a[i]
  BY <1>1, <1>2
<1>4. c.by = "own"
  OBVIOUS
<1> HIDE DEF a, b, n, c
<1>5. ASSUME NEW m PROVE Marked(thread, m) = Marked(thread', m)
  <2>1. Markers(c) = {}
    BY <1>4 DEF Markers
  <2>2. {i \in 1..n + 1 : m \in Markers(b[i])} = {i \in 1..n : m \in Markers(a[i])}
    <3>1. ASSUME NEW i \in 1..n + 1, m \in Markers(b[i]) PROVE i \in 1..n /\ m \in Markers(a[i])
      <4>1. i # n + 1
        BY <1>3, <2>1, <3>1
      <4>2. i \in 1..n
        BY <1>1, <4>1
      <4> QED
        BY <1>3, <3>1, <4>2
    <3>2. ASSUME NEW i \in 1..n, m \in Markers(a[i]) PROVE i \in 1..n + 1 /\ m \in Markers(b[i])
      <4>1. i \in 1..n + 1
        BY <1>1
      <4> QED
        BY <1>3, <3>2, <4>1
    <3> QED
      BY <3>1, <3>2
  <2> QED
    BY <1>1, <1>3, <2>2 DEF Marked, a, b
<1>6. \A x : (x \in Range(b) /\ x.by # "own") <=> (x \in Range(a) /\ x.by # "own")
  <2>1. ASSUME NEW x \in Range(b), x.by # "own" PROVE x \in Range(a)
    <3>1. PICK i \in 1..n + 1 : b[i] = x
      BY <1>3 DEF Range
    <3>2. i # n + 1
      BY <1>3, <1>4, <2>1, <3>1
    <3>3. i \in 1..n
      BY <1>1, <3>2
    <3> QED
      BY <1>1, <1>3, <3>1, <3>3 DEF Range
  <2>2. ASSUME NEW x \in Range(a) PROVE x \in Range(b)
    <3>1. PICK i \in 1..n : a[i] = x
      BY <1>1 DEF Range
    <3>2. i \in 1..n + 1
      BY <1>1
    <3> QED
      BY <1>3, <3>1, <3>2 DEF Range
  <2> QED
    BY <2>1, <2>2
<1>7. OthersSay(thread) = OthersSay(thread')
  <2>1. {d \in Range(b) : d.by # "own"} = {d \in Range(a) : d.by # "own"}
    BY <1>6
  <2> QED
    BY <2>1, Zenon DEF OthersSay, a, b
<1>8. (\E x \in Range(a) : x.by = "maintainer") <=> (\E x \in Range(b) : x.by = "maintainer")
  BY <1>6
<1>9. (prospect.older + n >= 20) <=> (prospect.older + (n + 1) >= 20)
  BY <1>1, <1>3 DEF b
<1>10. OpenPulls(thread) = OpenPulls(thread') /\ ClosedPulls(thread) = ClosedPulls(thread')
  BY <1>2 DEF OpenPulls, ClosedPulls
<1> QED
  BY <1>2, <1>3, <1>5, <1>7, <1>8, <1>9, <1>10 DEF ReadAlike, a, b, n

\* An opinion depends on what is read only.
LEMMA PolicyReads ==
  ASSUME NEW t, NEW u, ReadAlike(t, u), Crowded(t) = Crowded(u), NEW v, NEW w,
         v.tags = w.tags, v.category = w.category, v.scores.fit = w.scores.fit
  PROVE  Policy(v, t) = Policy(w, u)
<1> DEFINE a == ProfileConstraint(Trust(Noise(NoPolicy), v), v)
           b == LowImpact(a, v)
           c == CompetitionConstraint(b, t)
           d == DocsConstraint(c, v, t)
<1>1. Trust(Noise(NoPolicy), v) = Trust(Noise(NoPolicy), w)
  BY DEF Trust
<1>2. \A x : ProfileConstraint(x, v) = ProfileConstraint(x, w)
  BY DEF ProfileConstraint
<1>3. \A x : LowImpact(x, v) = LowImpact(x, w)
  BY DEF LowImpact
<1>4. \A x : CompetitionConstraint(x, t) = CompetitionConstraint(x, u)
  BY AlikeReads DEF CompetitionConstraint
<1>5. \A x : DocsConstraint(x, v, t) = DocsConstraint(x, w, u)
  BY AlikeReads DEF DocsConstraint
<1>6. \A x : ScopeConstraint(x, v) = ScopeConstraint(x, w)
  BY DEF ScopeConstraint
<1>7. Policy(v, t) = ScopeConstraint(d, v)
  BY DEF Policy
<1>8. a = ProfileConstraint(Trust(Noise(NoPolicy), w), w)
  BY <1>1, <1>2
<1> HIDE DEF a
<1>9. b = LowImpact(a, w)
  BY <1>3
<1> HIDE DEF b
<1>10. c = CompetitionConstraint(b, u)
  BY <1>4
<1> HIDE DEF c
<1>11. d = DocsConstraint(c, w, u)
  BY <1>5
<1> HIDE DEF d
<1>12. ScopeConstraint(d, v) = ScopeConstraint(d, w)
  BY <1>6
<1> QED
  BY <1>7, <1>8, <1>9, <1>10, <1>11, <1>12 DEF Policy

LEMMA AlikeAreSame ==
  ASSUME NEW t, NEW u, ReadAlike(t, u), ClosedPulls(t) = ClosedPulls(u)
  PROVE  Assess(u).category = Assess(t).category /\ VisibleIn(u) = VisibleIn(t)
<1>1. Points(t) = Points(u) /\ t.timeline = u.timeline
  BY DEF Points, ReadAlike
<1>2. CompetitionTags(t) = CompetitionTags(u) /\ CompetitionGate(t) = CompetitionGate(u) /\ Crowded(t) = Crowded(u)
  BY <1>1 DEF CompetitionTags, CompetitionGate, Crowded
<1>3. Tags(t) = Tags(u)
  BY <1>2, AlikeReads DEF Tags
<1> DEFINE tags == Tags(t)
           s == Scores(t, tags)
           r == Scores(u, tags)
<1>4. s.fit = r.fit /\ s.execution = r.execution
  BY DEF Scores
<1>5. /\ Assess(t).category = Category(t, s, tags) /\ Assess(t).tags = tags /\ Assess(t).scores = s
      /\ Assess(u).category = Category(u, r, tags) /\ Assess(u).tags = tags /\ Assess(u).scores = r
  BY <1>3 DEF Assess
<1> HIDE DEF tags, s, r
<1>6. Category(t, s, tags) = Category(u, r, tags)
  BY <1>2, <1>4 DEF Category
<1>7. Assess(t).category = Assess(u).category
  BY <1>5, <1>6
<1>8. Policy(Assess(t), t) = Policy(Assess(u), u)
  <2>1. Assess(t).tags = Assess(u).tags /\ Assess(t).scores.fit = Assess(u).scores.fit
    BY <1>4, <1>5
  <2> QED
    BY <1>2, <1>7, <2>1, PolicyReads
<1> QED
  BY <1>7, <1>8 DEF VisibleIn
-----------------------------------------------------------------------------
(* The risk is a sum over the tags.                                           *)

RiskTagNames ==
  {"NoCodeRequired", "MicroContribution", "ContentFill", "TemplateLike", "EventNoise", "ThinTask", "HighTriageLoad",
   "MissingMaintainerSignal", "WeakValidationPath", "LowTrustRepo", "LowImpactRepo", "ForkStarAnomaly",
   "MarketplaceNoise", "CompetitionContested", "CompetitionSaturated", "CompetitionEvidenceMissing",
   "ProfileMismatch", "ScopeRisk"}
\* What a tag adds to the risk of a set of tags; the same sum, tag by tag.
Adds(tag, tags) == IF tag \in tags THEN Risk[tag] ELSE 0
RiskOf(tags) ==
  Adds("NoCodeRequired", tags) + Adds("MicroContribution", tags) + Adds("ContentFill", tags)
  + Adds("TemplateLike", tags) + Adds("EventNoise", tags) + Adds("ThinTask", tags)
  + Adds("HighTriageLoad", tags) + Adds("MissingMaintainerSignal", tags) + Adds("WeakValidationPath", tags)
  + Adds("LowTrustRepo", tags) + Adds("LowImpactRepo", tags) + Adds("ForkStarAnomaly", tags)
  + Adds("MarketplaceNoise", tags) + Adds("CompetitionContested", tags) + Adds("CompetitionSaturated", tags)
  + Adds("CompetitionEvidenceMissing", tags) + Adds("ProfileMismatch", tags) + Adds("ScopeRisk", tags)

LEMMA AddsIs ==
  ASSUME NEW s \in SUBSET RiskTagNames, NEW y \in RiskTagNames
  PROVE  Risk[y] \in Nat \ {0} /\ Adds(y, s) \in Nat
<1>1. Risk[y] \in Nat \ {0}
  BY DEF RiskTagNames, Risk
<1> QED
  BY <1>1 DEF Adds

LEMMA OneTagLess ==
  ASSUME NEW s \in SUBSET RiskTagNames, NEW x \in s
  PROVE  RiskOf(s) = RiskOf(s \ {x}) + Risk[x]
<1> DEFINE r == s \ {x}
           k == Risk[x]
<1>1. \A y \in RiskTagNames : Adds(y, s) \in Nat /\ Adds(y, r) \in Nat
  BY AddsIs
<1>2. Adds(x, s) = k /\ Adds(x, r) = 0 /\ k \in Nat /\ x \in RiskTagNames
  BY AddsIs DEF Adds
<1>3. \A y \in RiskTagNames : y # x => Adds(y, s) = Adds(y, r)
  BY DEF Adds
<1> HIDE DEF r, k
<1>4. RiskOf(s) = RiskOf(r) + k
  BY <1>1, <1>2, <1>3, SMTT(60) DEF RiskOf, RiskTagNames
<1> QED
  BY <1>4 DEF r, k

\* The fold of the tags is that sum, whatever the order in which it takes them.
LEMMA RiskIsSum ==
  ASSUME NEW tags \in SUBSET RiskTagNames
  PROVE  RiskOf(tags) \in Nat /\ RiskScore(tags) = Smaller(RiskOf(tags), 100)
<1> DEFINE x(s) == CHOOSE y \in s : TRUE
           Iter(f) == f = [s \in SUBSET tags |-> IF s = {} THEN 0 ELSE f[s \ {x(s)}] + Risk[x(s)]]
           iter == CHOOSE f : Iter(f)
           g == [s \in SUBSET tags |-> RiskOf(s)]
<1>1. \A s \in SUBSET RiskTagNames : RiskOf(s) \in Nat
  <2> SUFFICES ASSUME NEW s \in SUBSET RiskTagNames PROVE RiskOf(s) \in Nat
    OBVIOUS
  <2>1. \A y \in RiskTagNames : Adds(y, s) \in Nat
    BY AddsIs
  <2>2. /\ Adds("NoCodeRequired", s) \in Nat /\ Adds("MicroContribution", s) \in Nat /\ Adds("ContentFill", s) \in Nat
        /\ Adds("TemplateLike", s) \in Nat /\ Adds("EventNoise", s) \in Nat /\ Adds("ThinTask", s) \in Nat
        /\ Adds("HighTriageLoad", s) \in Nat /\ Adds("MissingMaintainerSignal", s) \in Nat /\ Adds("WeakValidationPath", s) \in Nat
        /\ Adds("LowTrustRepo", s) \in Nat /\ Adds("LowImpactRepo", s) \in Nat /\ Adds("ForkStarAnomaly", s) \in Nat
        /\ Adds("MarketplaceNoise", s) \in Nat /\ Adds("CompetitionContested", s) \in Nat /\ Adds("CompetitionSaturated", s) \in Nat
        /\ Adds("CompetitionEvidenceMissing", s) \in Nat /\ Adds("ProfileMismatch", s) \in Nat /\ Adds("ScopeRisk", s) \in Nat
    BY <2>1 DEF RiskTagNames
  <2> DEFINE early == Adds("NoCodeRequired", s) + Adds("MicroContribution", s) + Adds("ContentFill", s)
                      + Adds("TemplateLike", s) + Adds("EventNoise", s) + Adds("ThinTask", s)
             middle == early + Adds("HighTriageLoad", s) + Adds("MissingMaintainerSignal", s)
                       + Adds("WeakValidationPath", s) + Adds("LowTrustRepo", s) + Adds("LowImpactRepo", s)
                       + Adds("ForkStarAnomaly", s)
  <2>3. early \in Nat
    BY <2>2
  <2>4. middle \in Nat
    <3> HIDE DEF early
    <3> QED
      BY <2>2, <2>3
  <2>5. RiskOf(s) = middle + Adds("MarketplaceNoise", s) + Adds("CompetitionContested", s)
                    + Adds("CompetitionSaturated", s) + Adds("CompetitionEvidenceMissing", s) + Adds("ProfileMismatch", s)
                    + Adds("ScopeRisk", s)
    BY DEF RiskOf
  <2> HIDE DEF early, middle
  <2> QED
    BY <2>2, <2>4, <2>5
<1>2. RiskOf({}) = 0
  BY DEF RiskOf, Adds
<1>3. \A s \in SUBSET RiskTagNames : s # {} =>
        /\ x(s) \in s /\ Risk[x(s)] \in Nat \ {0} /\ RiskOf(s \ {x(s)}) \in Nat
        /\ RiskOf(s) = RiskOf(s \ {x(s)}) + Risk[x(s)]
  <2> SUFFICES ASSUME NEW s \in SUBSET RiskTagNames, s # {}
               PROVE  /\ x(s) \in s /\ Risk[x(s)] \in Nat \ {0} /\ RiskOf(s \ {x(s)}) \in Nat
                      /\ RiskOf(s) = RiskOf(s \ {x(s)}) + Risk[x(s)]
    OBVIOUS
  <2>1. x(s) \in s
    OBVIOUS
  <2> HIDE DEF x
  <2>2. x(s) \in RiskTagNames /\ s \ {x(s)} \in SUBSET RiskTagNames
    BY <2>1
  <2> QED
    BY <1>1, <2>1, <2>2, AddsIs, OneTagLess
<1> HIDE DEF x
<1>4. Iter(iter)
  <2>1. \A s \in SUBSET tags : g[s] = IF s = {} THEN 0 ELSE g[s \ {x(s)}] + Risk[x(s)]
    BY <1>2, <1>3
  <2>2. g = [s \in SUBSET tags |-> g[s]]
    OBVIOUS
  <2> HIDE DEF g
  <2>3. Iter(g)
    BY <2>1, <2>2
  <2> HIDE DEF Iter
  <2> QED
    BY <2>3
<1>5. RiskScore(tags) = Smaller(iter[tags], 100)
  BY DEF RiskScore, FoldSet, MapThenFoldSet, x
<1> HIDE DEF iter, g
<1>6. \A s \in SUBSET tags : iter[s] = IF s = {} THEN 0 ELSE iter[s \ {x(s)}] + Risk[x(s)]
  BY <1>4
<1> DEFINE T == {m \in Nat : \A s \in SUBSET tags : RiskOf(s) <= m => iter[s] = RiskOf(s)}
<1>7. 0 \in T
  <2> SUFFICES ASSUME NEW s \in SUBSET tags, RiskOf(s) <= 0 PROVE iter[s] = RiskOf(s)
    OBVIOUS
  <2>1. s = {}
    <3> SUFFICES ASSUME s # {} PROVE FALSE
      OBVIOUS
    <3>1. /\ Risk[x(s)] \in Nat \ {0} /\ RiskOf(s \ {x(s)}) \in Nat
          /\ RiskOf(s) = RiskOf(s \ {x(s)}) + Risk[x(s)]
      BY <1>3
    <3> QED
      BY <3>1
  <2> QED
    BY <1>2, <1>6, <2>1
<1>8. ASSUME NEW m \in Nat, m \in T PROVE m + 1 \in T
  <2> SUFFICES ASSUME NEW s \in SUBSET tags, RiskOf(s) <= m + 1 PROVE iter[s] = RiskOf(s)
    OBVIOUS
  <2>1. CASE s = {}
    BY <1>2, <1>6, <2>1
  <2>2. CASE s # {}
    <3>1. /\ Risk[x(s)] \in Nat \ {0} /\ RiskOf(s \ {x(s)}) \in Nat
          /\ RiskOf(s) = RiskOf(s \ {x(s)}) + Risk[x(s)]
      BY <1>3, <2>2
    <3>2. RiskOf(s \ {x(s)}) <= m
      BY <3>1
    <3>3. iter[s \ {x(s)}] = RiskOf(s \ {x(s)})
      BY <1>8, <3>2
    <3> QED
      BY <1>6, <2>2, <3>1, <3>3
  <2> QED
    BY <2>1, <2>2
<1>9. Nat \subseteq T
  <2> HIDE DEF T
  <2> QED
    BY <1>7, <1>8, SetInduction
<1>10. iter[tags] = RiskOf(tags)
  BY <1>1, <1>9
<1> QED
  BY <1>1, <1>5, <1>10
-----------------------------------------------------------------------------
(* One more competitor raises no score.                                       *)

\* What is shown has no competitor but the pull requests that were closed.
LEMMA ShownIsFree ==
  ASSUME NEW t \in ThreadsSeen, VisibleIn(t)
  PROVE  OpenPulls(t) = 0 /\ Points(t) = ClosedPulls(t)
<1>1. OpenPulls(t) = 0 /\ OthersSay(t) \cap {"attempt", "claim", "working", "fix"} = {}
  <2>1. ~(OpenPulls(t) > 0 \/ OthersSay(t) \cap {"attempt", "claim", "working", "fix"} # {})
    BY TakenHides
  <2> QED
    BY <2>1, PullsType
<1>2. ASSUME NEW m \in {"attempt", "claim", "working", "fix"} PROVE Marked(t, m) = 0
  <2>1. ASSUME NEW i \in DOMAIN t.comments, m \in Markers(t.comments[i]) PROVE FALSE
    <3>1. t.comments[i].by # "own" /\ m \in t.comments[i].says
      BY <2>1 DEF Markers
    <3>2. t.comments[i] \in Range(t.comments)
      BY DEF Range
    <3>3. m \in OthersSay(t)
      BY <3>1, <3>2 DEF OthersSay
    <3> QED
      BY <1>1, <3>3
  <2>2. {i \in DOMAIN t.comments : m \in Markers(t.comments[i])} = {}
    BY <2>1
  <2> QED
    BY <2>2, FS_EmptySet DEF Marked
<1>3. ClosedPulls(t) \in Nat
  BY PullsType
<1> QED
  BY <1>1, <1>2, <1>3 DEF Points

\* So only a pull request that is closed already can add to the competition of what is shown.
LEMMA OnlyAMention ==
  ASSUME ValueTyped, [ValueNext]_valueVars, thread'.timeline = thread.timeline, thread'.age = thread.age,
         Points(thread') > Points(thread), VisibleIn(thread), VisibleIn(thread')
  PROVE  /\ thread' \in ThreadsSeen /\ thread.timeline = TRUE /\ prospect' = prospect
         /\ Points(thread') = Points(thread) + 1 /\ ReadAlike(thread, thread')
<1>1. thread \in ThreadsSeen /\ thread' \in ThreadsSeen /\ prospect \in Prospects /\ prospect' = prospect
  BY ValueTypesKept DEF ValueTyped, ValueNext, valueVars
<1>2. /\ OpenPulls(thread) = 0 /\ Points(thread) = ClosedPulls(thread)
      /\ OpenPulls(thread') = 0 /\ Points(thread') = ClosedPulls(thread')
  BY <1>1, ShownIsFree
<1>3. thread.timeline \in BOOLEAN /\ thread.pulls \in Pulls /\ thread'.pulls \in Pulls /\ thread.age \in {0} \cup Ages
  BY <1>1 DEF ThreadsSeen
<1>4. thread.timeline = TRUE /\ thread'.pulls.closed > thread.pulls.closed /\ thread.pulls.open = 0
  <2>1. thread.timeline = TRUE
    <3> SUFFICES ASSUME thread.timeline = FALSE PROVE FALSE
      BY <1>3
    <3>1. ClosedPulls(thread) = 0 /\ ClosedPulls(thread') = 0
      BY DEF ClosedPulls
    <3> QED
      BY <1>2, <3>1
  <2> QED
    BY <1>2, <2>1 DEF ClosedPulls, OpenPulls
<1>5. MentionClosed
  <2>1. ASSUME NEW by \in {"own", "user", "maintainer"}, NEW says \in Remarks, Comment(by, says) PROVE FALSE
    <3>1. thread'.pulls = thread.pulls
      BY <1>1, <2>1 DEF Comment, ThreadsSeen
    <3> QED
      BY <1>3, <1>4, <3>1 DEF Pulls
  <2>2. ASSUME OpenPull PROVE FALSE
    <3>1. thread'.pulls = [thread.pulls EXCEPT !.open = @ + 1]
      BY <1>1, <2>2 DEF OpenPull, ThreadsSeen
    <3> QED
      BY <1>3, <1>4, <3>1 DEF Pulls
  <2>3. ~ClosePull
    BY <1>4 DEF ClosePull
  <2>4. ASSUME Timeline \/ UNCHANGED valueVars PROVE FALSE
    <3>1. thread'.pulls = thread.pulls
      BY <1>1, <2>4 DEF Timeline, valueVars, ThreadsSeen
    <3> QED
      BY <1>3, <1>4, <3>1 DEF Pulls
  <2>5. ASSUME NEW age \in Ages, GrowOld(age) PROVE FALSE
    <3>1. thread'.pulls = thread.pulls
      BY <1>1, <2>5 DEF GrowOld, ThreadsSeen
    <3> QED
      BY <1>3, <1>4, <3>1 DEF Pulls
  <2> QED
    BY <2>1, <2>2, <2>3, <2>4, <2>5 DEF ValueNext
<1> DEFINE p == [thread.pulls EXCEPT !.closed = @ + 1]
<1>6. thread' = [thread EXCEPT !.pulls = p]
  BY <1>1, <1>5 DEF MentionClosed, ThreadsSeen
<1>7. p.closed = thread.pulls.closed + 1 /\ p.open = thread.pulls.open
  BY <1>3 DEF Pulls
<1> HIDE DEF p
<1>8. /\ thread'.comments = thread.comments /\ thread'.timeline = thread.timeline
      /\ thread'.answered = thread.answered /\ thread'.pulls = p
  BY <1>1, <1>6 DEF ThreadsSeen
<1>9. Points(thread') = Points(thread) + 1
  BY <1>2, <1>4, <1>7, <1>8 DEF ClosedPulls
<1>10. ReadAlike(thread, thread')
  BY <1>2, <1>8 DEF ReadAlike, Marked, OthersSay
<1> QED
  BY <1>1, <1>4, <1>9, <1>10
-----------------------------------------------------------------------------
(* What is shown was only penalised.                                          *)

\* A constraint either hides, or adds its penalty to an opinion that was not hidden before.
Adjusts(a, b, n) == b \in Opinions /\ (b.visibility = "visible" => a.visibility = "visible" /\ b.penalty = a.penalty + n)
LEMMA AdjustmentsAre ==
  ASSUME NEW a \in Opinions
  PROVE  /\ \A n \in Int, k \in Int : Adjusts(a, Hide(a, n), k) /\ Adjusts(a, Hide(Cap(a, n), k), 0)
         /\ \A n \in Int, k \in Int : Adjusts(a, Hide(Penalise(a, n), k), 0) /\ Adjusts(a, Penalise(Cap(a, n), k), k)
         /\ \A n \in Int : Adjusts(a, Penalise(a, n), n)
         /\ Adjusts(a, a, 0)
<1>1. \A n \in Int, b \in Opinions :
        /\ Hide(b, n) \in Opinions /\ Hide(b, n).visibility = "hidden_quality"
        /\ Cap(b, n) \in Opinions /\ Cap(b, n).visibility = b.visibility
        /\ Penalise(b, n) \in Opinions /\ Penalise(b, n).visibility = b.visibility
  BY OpinionsKept
<1>2. \A n \in Int, b \in Opinions : Penalise(b, n).penalty = b.penalty + n /\ Cap(b, n).penalty = b.penalty
  BY DEF Penalise, Cap, Opinions
<1>3. ASSUME NEW n \in Int, NEW b \in Opinions, NEW k \in Int PROVE Adjusts(a, Hide(b, n), k)
  BY <1>1 DEF Adjusts
<1>4. ASSUME NEW n \in Int PROVE Cap(a, n) \in Opinions /\ Penalise(a, n) \in Opinions
  BY <1>1
<1>5. ASSUME NEW n \in Int, NEW k \in Int PROVE Adjusts(a, Penalise(Cap(a, n), k), k)
  BY <1>1, <1>2, <1>4 DEF Adjusts
<1>6. ASSUME NEW n \in Int PROVE Adjusts(a, Penalise(a, n), n)
  BY <1>1, <1>2 DEF Adjusts
<1>7. Adjusts(a, a, 0)
  <2>1. a.penalty \in Int
    BY DEF Opinions
  <2> QED
    BY <2>1 DEF Adjusts
<1> QED
  BY <1>3, <1>4, <1>5, <1>6, <1>7

\* The penalties of an issue that is shown.
Penalties(v, t) ==
  (IF "ProfileMismatch" \in v.tags THEN 180 ELSE 0) + (IF "LowImpactRepo" \in v.tags THEN 80 ELSE 0)
  + (IF Crowded(t) THEN 90 ELSE 0) + (IF "ScopeRisk" \in v.tags \/ LargeAudit THEN 75 ELSE 0)
LEMMA ShownIsPenalised ==
  ASSUME NEW v, NEW t, Policy(v, t).visibility = "visible"
  PROVE  Policy(v, t).penalty = Penalties(v, t)
<1> DEFINE start == Trust(Noise(NoPolicy), v)
           a == ProfileConstraint(start, v)
           b == LowImpact(a, v)
           c == CompetitionConstraint(b, t)
           d == DocsConstraint(c, v, t)
           e == ScopeConstraint(d, v)
           pa == IF "ProfileMismatch" \in v.tags THEN 180 ELSE 0
           pb == IF "LowImpactRepo" \in v.tags THEN 80 ELSE 0
           pc == IF Crowded(t) THEN 90 ELSE 0
           pe == IF "ScopeRisk" \in v.tags \/ LargeAudit THEN 75 ELSE 0
<1>1. Policy(v, t) = e
  BY DEF Policy
<1>0. \A n \in Int, o \in Opinions : Hide(o, n).visibility # "visible"
  BY OpinionsKept
<1>2. start \in Opinions /\ (start.visibility = "visible" => start.penalty = 0)
  <2>1. NoPolicy \in Opinions /\ NoPolicy.penalty = 0
    BY DEF NoPolicy, Opinions
  <2>2. \E k \in {0} : Adjusts(NoPolicy, Noise(NoPolicy), k)
    BY <2>1, AdjustmentsAre DEF Noise
  <2>3. Noise(NoPolicy) \in Opinions
    BY <2>1, EarlyOpinions
  <2>4. Adjusts(Noise(NoPolicy), start, 0)
    BY <2>3, AdjustmentsAre DEF Trust
  <2> HIDE DEF start
  <2> QED
    BY <2>1, <2>2, <2>3, <2>4 DEF Adjusts
<1> HIDE DEF start
<1>3. Adjusts(start, a, pa)
  <2>1. /\ Adjusts(start, Hide(Cap(start, 8), 180), 0) /\ Adjusts(start, Penalise(Cap(start, 8), 180), 180)
        /\ Adjusts(start, Hide(Cap(start, 12), 220), 0) /\ Adjusts(start, start, 0)
    BY <1>2, AdjustmentsAre
  <2>2. Hide(Cap(start, 8), 180).visibility # "visible" /\ Hide(Cap(start, 12), 220).visibility # "visible"
    <3>1. Cap(start, 8) \in Opinions /\ Cap(start, 12) \in Opinions
      BY <1>2, OpinionsKept
    <3> QED
      BY <1>0, <3>1
  <2> HIDE DEF a
  <2>3. a \in {Hide(Cap(start, 8), 180), Hide(Cap(start, 12), 220)}
        \/ a = (IF "ProfileMismatch" \in v.tags THEN Penalise(Cap(start, 8), 180) ELSE start)
    BY DEF ProfileConstraint, a
  <2> QED
    BY <2>1, <2>2, <2>3 DEF Adjusts
<1>4. a \in Opinions
  BY <1>3 DEF Adjusts
<1> HIDE DEF a
<1>5. Adjusts(a, b, pb)
  <2>1. /\ Adjusts(a, Hide(a, 180), pb) /\ Adjusts(a, Hide(a, 150), pb) /\ Adjusts(a, Hide(Cap(a, 16), 160), 0)
        /\ Adjusts(a, Penalise(Cap(a, 28), 80), 80) /\ Adjusts(a, a, 0)
    BY <1>4, AdjustmentsAre
  <2>2. Hide(Cap(a, 16), 160).visibility # "visible"
    <3>1. Cap(a, 16) \in Opinions
      BY <1>4, OpinionsKept
    <3> QED
      BY <1>0, <3>1
  <2> HIDE DEF b
  <2>3. b \in {Hide(a, 180), Hide(a, 150), Hide(Cap(a, 16), 160)}
        \/ b = (IF "LowImpactRepo" \in v.tags THEN Penalise(Cap(a, 28), 80) ELSE a)
    BY DEF LowImpact, b
  <2> QED
    BY <2>1, <2>2, <2>3 DEF Adjusts
<1>6. b \in Opinions
  BY <1>5 DEF Adjusts
<1> HIDE DEF b
<1>7. Adjusts(b, c, pc)
  <2>1. /\ Adjusts(b, Hide(b, 160), pc) /\ Adjusts(b, Hide(b, 200), pc) /\ Adjusts(b, Hide(b, 140), pc)
        /\ Adjusts(b, Hide(Penalise(b, 90), 140), 0) /\ Adjusts(b, Penalise(b, 90), 90) /\ Adjusts(b, b, 0)
    BY <1>6, AdjustmentsAre
  <2>2. Hide(Penalise(b, 90), 140).visibility # "visible"
    <3>1. Penalise(b, 90) \in Opinions
      BY <1>6, OpinionsKept
    <3> QED
      BY <1>0, <3>1
  <2> HIDE DEF c
  <2>3. c \in {Hide(b, 160), Hide(b, 200), Hide(b, 140), Hide(Penalise(b, 90), 140)}
        \/ c = (IF Crowded(t) THEN Penalise(b, 90) ELSE b)
    BY DEF CompetitionConstraint, c
  <2> QED
    BY <2>1, <2>2, <2>3 DEF Adjusts
<1>8. c \in Opinions
  BY <1>7 DEF Adjusts
<1> HIDE DEF c
<1>9. Adjusts(c, d, 0)
  <2>1. Adjusts(c, Hide(c, 160), 0) /\ Adjusts(c, Hide(c, 150), 0) /\ Adjusts(c, Hide(c, 120), 0) /\ Adjusts(c, c, 0)
    BY <1>8, AdjustmentsAre
  <2>2. d \in Opinions
    BY <1>8, LateOpinions
  <2>3. v.category = "FilteredLowDepth" => d.visibility = "hidden_filtered"
    BY <1>8 DEF DocsConstraint, Opinions
  <2> HIDE DEF d
  <2>4. v.category = "FilteredLowDepth" \/ d \in {Hide(c, 160), Hide(c, 150), Hide(c, 120), c}
    BY DEF DocsConstraint, d
  <2> QED
    BY <2>1, <2>2, <2>3, <2>4 DEF Adjusts
<1>10. d \in Opinions
  BY <1>9 DEF Adjusts
<1> HIDE DEF d
<1>11. Adjusts(d, e, pe)
  <2>1. /\ Adjusts(d, Hide(d, 180), pe) /\ Adjusts(d, Hide(d, 170), pe)
        /\ Adjusts(d, Penalise(Cap(d, 18), 75), 75) /\ Adjusts(d, d, 0)
    BY <1>10, AdjustmentsAre
  <2> HIDE DEF e
  <2>2. e \in {Hide(d, 180), Hide(d, 170)}
        \/ e = (IF "ScopeRisk" \in v.tags \/ LargeAudit THEN Penalise(Cap(d, 18), 75) ELSE d)
    BY DEF ScopeConstraint, e
  <2> QED
    BY <2>1, <2>2
<1> HIDE DEF e
<1>12. e.penalty = 0 + pa + pb + pc + 0 + pe
  <2>1. e.visibility = "visible"
    BY <1>1
  <2>2. d.visibility = "visible" /\ e.penalty = d.penalty + pe
    BY <1>11, <2>1 DEF Adjusts
  <2>3. c.visibility = "visible" /\ d.penalty = c.penalty + 0
    BY <1>9, <2>2 DEF Adjusts
  <2>4. b.visibility = "visible" /\ c.penalty = b.penalty + pc
    BY <1>7, <2>3 DEF Adjusts
  <2>5. a.visibility = "visible" /\ b.penalty = a.penalty + pb
    BY <1>5, <2>4 DEF Adjusts
  <2>6. start.penalty = 0 /\ a.penalty = start.penalty + pa
    BY <1>2, <1>3, <2>5 DEF Adjusts
  <2> QED
    BY <2>2, <2>3, <2>4, <2>5, <2>6
<1> QED
  BY <1>1, <1>12 DEF Penalties
-----------------------------------------------------------------------------
(* The rank falls with the risk.                                              *)

Scored == [influence : Int, fit : Int, execution : Int, maintainer : Int, freshness : Int, risk : Int]
LEMMA ExecutionType == ASSUME NEW tags PROVE ExecutionScore(tags) \in Int
<1> DEFINE p == prospect
           size == IF p.length >= 700 THEN 25 ELSE IF p.length >= 250 THEN 20 ELSE IF p.length >= 120 THEN 14 ELSE 0
           path == IF p.path THEN 16 ELSE 0
           repro == IF Says(Text, {"repro"}) THEN 20 ELSE 0
           expected == IF Says(Text, {"expected"}) THEN 15 ELSE 0
           direction == IF Says(Text, {"direction"}) THEN 12 ELSE 0
           checked == IF HasValidationHint THEN 12 ELSE 0
           first == IF Says(p.labels, {"good first issue"}) THEN 6 ELSE 0
           found == size + path + repro + expected + direction + checked + first
           caps == (IF tags \cap LowDepthTags # {} THEN {25} ELSE {}) \cup (IF "ThinTask" \in tags THEN {45} ELSE {})
                   \cup (IF "WeakValidationPath" \in tags THEN {82} ELSE {})
<1>1. ExecutionScore(tags) = Min({found, 100} \cup caps)
  BY DEF ExecutionScore
<1>2. found \in Nat
  <2>1. /\ size \in Nat /\ path \in Nat /\ repro \in Nat /\ expected \in Nat
        /\ direction \in Nat /\ checked \in Nat /\ first \in Nat
    OBVIOUS
  <2> HIDE DEF size, path, repro, expected, direction, checked, first
  <2> QED
    BY <2>1
<1>3. caps \in SUBSET Nat
  OBVIOUS
<1> HIDE DEF found, caps
<1>4. {found, 100} \cup caps \in SUBSET Nat /\ {found, 100} \cup caps # {}
  BY <1>2, <1>3
<1>5. Min({found, 100} \cup caps) \in {found, 100} \cup caps
  BY <1>4, LeastOf
<1> QED
  BY <1>1, <1>4, <1>5

LEMMA InfluenceType == ASSUME NEW gate PROVE Influence(gate) \in Int
<1> DEFINE p == prospect
           stars == IF p.stars >= 10000 THEN 100 ELSE IF p.stars >= 5000 THEN 92 ELSE IF p.stars >= 1000 THEN 82 ELSE IF p.stars >= 500 THEN 68
                      ELSE IF p.stars >= 100 THEN 45 ELSE IF p.stars >= 25 THEN 22 ELSE 8
           forks == IF p.forks >= 1000 THEN 100 ELSE IF p.forks >= 500 THEN 84 ELSE IF p.forks >= 200 THEN 70 ELSE IF p.forks >= 50 THEN 45
                      ELSE IF p.forks >= 10 THEN 22 ELSE 6
           watchers == IF p.watchers >= 200 THEN 100 ELSE IF p.watchers >= 50 THEN 78 ELSE IF p.watchers >= 20 THEN 62
                         ELSE IF p.watchers >= 10 THEN 45 ELSE IF p.watchers >= 1 THEN 18 ELSE 0
           limit == CASE gate = "pass" -> 100 [] gate = "soft_fail" -> 55 [] OTHER -> 25
<1>1. Influence(gate) = Smaller((65 * stars + 20 * forks + 15 * watchers + 50) \div 100, limit)
  BY DEF Influence
<1>2. stars \in Int /\ forks \in Int /\ watchers \in Int
  OBVIOUS
<1>3. limit \in Int
  OBVIOUS
<1> HIDE DEF stars, forks, watchers, limit
<1>4. (65 * stars + 20 * forks + 15 * watchers + 50) \div 100 \in Int
  BY <1>2
<1> QED
  BY <1>1, <1>3, <1>4 DEF Smaller

LEMMA ScoresTyped ==
  ASSUME prospect \in Prospects, NEW t, NEW tags \in SUBSET RiskTagNames
  PROVE  /\ Scores(t, tags) \in Scored
         /\ Scores(t, tags).risk = Smaller(RiskOf(tags), 100) /\ RiskOf(tags) \in Nat
         /\ Scores(t, tags).fit = FitScore(tags) /\ Scores(t, tags).execution = ExecutionScore(tags)
<1>1. /\ Influence(RepoGate) \in Int /\ FitScore(tags) \in Int /\ ExecutionScore(tags) \in Int
      /\ RiskOf(tags) \in Nat /\ RiskScore(tags) = Smaller(RiskOf(tags), 100)
  BY FitType, ExecutionType, InfluenceType, RiskIsSum
<1>2. RiskScore(tags) \in Int
  BY <1>1 DEF Smaller
<1>3. MaintainerScore(t) \in Int /\ FreshnessScore(t) \in Int
  BY DEF MaintainerScore, FreshnessScore, Smaller
<1> QED
  BY <1>1, <1>2, <1>3 DEF Scores, Scored

\* Two scores apart by the risk only.
Riskier(s, r) ==
  /\ s \in Scored /\ r \in Scored /\ s.risk <= r.risk
  /\ s.influence = r.influence /\ s.fit = r.fit /\ s.execution = r.execution
  /\ s.maintainer = r.maintainer /\ s.freshness = r.freshness
RankFrom(hundredths) ==
  LET rounded == (hundredths + 50) \div 100 IN IF rounded < 0 THEN 0 ELSE Smaller(rounded, 100)
LEMMA RankRises ==
  ASSUME NEW a \in Int, NEW b \in Int
  PROVE  RankFrom(a) \in 0..100 /\ (a <= b => RankFrom(a) <= RankFrom(b))
<1> DEFINE x == (a + 50) \div 100
           y == (b + 50) \div 100
<1>1. x \in Int /\ y \in Int /\ (a <= b => x <= y)
  OBVIOUS
<1>2. /\ RankFrom(a) = (IF x < 0 THEN 0 ELSE Smaller(x, 100))
      /\ RankFrom(b) = (IF y < 0 THEN 0 ELSE Smaller(y, 100))
  BY DEF RankFrom
<1> HIDE DEF x, y
<1> QED
  BY <1>1, <1>2 DEF Smaller

LEMMA RankFalls ==
  ASSUME NEW s, NEW r, Riskier(s, r), NEW c
  PROVE  /\ RankScore(c, s) \in 0..100 /\ RankScore(c, r) \in 0..100 /\ RankScore(c, r) <= RankScore(c, s)
         /\ RankScore("HighValueNeedsScoping", r) = RankScore("HighValueReady", r)
<1> DEFINE Value(x) == 35 * x.fit + 25 * x.execution + 20 * x.influence + 10 * x.maintainer + 5 * x.freshness - 25 * x.risk
           Niche(x) == 40 * x.fit + 35 * x.execution + 10 * x.maintainer + 10 * x.influence + 5 * x.freshness - 20 * x.risk
           Contested(x) == 20 * x.influence + 25 * x.fit + 25 * x.execution + 5 * x.freshness - 35 * x.risk
           Triage(x) == 20 * x.influence + 20 * x.fit + 25 * x.execution + 5 * x.freshness - 20 * x.risk
           Hundredths(x) == CASE c \in {"HighValueReady", "HighValueNeedsScoping"} -> Value(x)
                              [] c = "NicheButActionable" -> Niche(x)
                              [] c = "ContestedOrLowTrust" -> Contested(x)
                              [] c = "NeedsTriage" -> Triage(x)
                              [] OTHER -> 0
<1>1. /\ s.fit \in Int /\ s.execution \in Int /\ s.influence \in Int /\ s.maintainer \in Int /\ s.freshness \in Int
      /\ s.risk \in Int /\ r.risk \in Int /\ s.risk <= r.risk
      /\ s.influence = r.influence /\ s.fit = r.fit /\ s.execution = r.execution
      /\ s.maintainer = r.maintainer /\ s.freshness = r.freshness
  BY DEF Riskier, Scored
<1>2. Value(s) \in Int /\ Value(r) \in Int /\ Value(r) <= Value(s)
  BY <1>1
<1>3. Niche(s) \in Int /\ Niche(r) \in Int /\ Niche(r) <= Niche(s)
  BY <1>1
<1>4. Contested(s) \in Int /\ Contested(r) \in Int /\ Contested(r) <= Contested(s)
  BY <1>1
<1>5. Triage(s) \in Int /\ Triage(r) \in Int /\ Triage(r) <= Triage(s)
  BY <1>1
<1>6. RankScore(c, s) = RankFrom(Hundredths(s)) /\ RankScore(c, r) = RankFrom(Hundredths(r))
  BY DEF RankScore, RankFrom
<1>7. RankScore("HighValueNeedsScoping", r) = RankFrom(Value(r)) /\ RankScore("HighValueReady", r) = RankFrom(Value(r))
  BY DEF RankScore, RankFrom
<1> HIDE DEF Value, Niche, Contested, Triage
<1>8. Hundredths(s) \in Int /\ Hundredths(r) \in Int /\ Hundredths(r) <= Hundredths(s)
  BY <1>2, <1>3, <1>4, <1>5
<1> HIDE DEF Hundredths
<1>9. RankFrom(Hundredths(s)) \in 0..100 /\ RankFrom(Hundredths(r)) \in 0..100 /\ RankFrom(Hundredths(r)) <= RankFrom(Hundredths(s))
  BY <1>8, RankRises
<1> QED
  BY <1>6, <1>7, <1>9
-----------------------------------------------------------------------------
(* One more competitor costs an issue its category, its rank or a penalty.     *)

\* The tags that do not tell the competition.
BaseTags(t) == EarlyTags(t) \cup GateTags(t) \cup ScoreTags(t) \cup ScopeTags(t)
RivalTags == {"CompetitionContested", "CompetitionSaturated", "CompetitionEvidenceMissing"}
LEMMA TagsApart ==
  ASSUME NEW t
  PROVE  BaseTags(t) \in SUBSET (RiskTagNames \ RivalTags) /\ Tags(t) = BaseTags(t) \cup CompetitionTags(t)
<1>1. \A name \in RiskTagNames \ RivalTags : \A c : TagIf(name, c) \in SUBSET (RiskTagNames \ RivalTags)
  BY DEF TagIf
<1>2. {"NoCodeRequired", "MicroContribution", "ContentFill", "TemplateLike", "EventNoise", "ThinTask", "HighTriageLoad",
       "MissingMaintainerSignal", "WeakValidationPath", "LowTrustRepo", "LowImpactRepo", "ForkStarAnomaly",
       "MarketplaceNoise", "ProfileMismatch", "ScopeRisk"} \subseteq RiskTagNames \ RivalTags
  BY DEF RiskTagNames, RivalTags
<1> DEFINE Base == RiskTagNames \ RivalTags
<1> HIDE DEF Base
<1>3. \A name \in {"NoCodeRequired", "MicroContribution", "ContentFill", "TemplateLike", "EventNoise", "ThinTask", "HighTriageLoad",
         "MissingMaintainerSignal", "WeakValidationPath", "LowTrustRepo", "LowImpactRepo", "ForkStarAnomaly",
         "MarketplaceNoise", "ProfileMismatch", "ScopeRisk"} : \A c : TagIf(name, c) \in SUBSET Base
  BY <1>1, <1>2 DEF Base
<1>4. RiskTags(t) \in SUBSET Base
  <2>1. ASSUME NEW x \in RiskTags(t)
        PROVE  x \in {"NoCodeRequired", "MicroContribution", "ContentFill", "TemplateLike", "EventNoise", "ThinTask",
                      "HighTriageLoad", "MissingMaintainerSignal", "WeakValidationPath"}
    BY <2>1 DEF RiskTags, TagIf
  <2> QED
    BY <1>2, <2>1 DEF Base
<1>5. GateTags(t) \in SUBSET Base
  BY <1>3 DEF GateTags
<1>6. ScoreTags(t) \in SUBSET Base /\ ScopeTags(t) \in SUBSET Base
  BY <1>3 DEF ScoreTags, ScopeTags
<1>7. BaseTags(t) \in SUBSET Base
  BY <1>4, <1>5, <1>6 DEF BaseTags, EarlyTags
<1>8. Tags(t) = BaseTags(t) \cup CompetitionTags(t)
  BY DEF Tags, BaseTags
<1> QED
  BY <1>7, <1>8 DEF Base

LEMMA RivalsAreRisky ==
  ASSUME NEW s \in SUBSET (RiskTagNames \ RivalTags)
  PROVE  /\ RiskOf(s \cup {"CompetitionContested"}) = RiskOf(s) + 25
         /\ RiskOf(s \cup {"CompetitionSaturated"}) = RiskOf(s) + 55
<1>1. ASSUME NEW x \in {"CompetitionContested", "CompetitionSaturated"} PROVE RiskOf(s \cup {x}) = RiskOf(s) + Risk[x]
  <2>1. s \cup {x} \in SUBSET RiskTagNames /\ x \in s \cup {x} /\ x \notin s
    BY <1>1 DEF RiskTagNames, RivalTags
  <2>2. (s \cup {x}) \ {x} = s
    BY <2>1
  <2>3. RiskOf(s \cup {x}) = RiskOf((s \cup {x}) \ {x}) + Risk[x]
    BY <2>1, OneTagLess
  <2> QED
    BY <2>2, <2>3
<1>2. Risk["CompetitionContested"] = 25 /\ Risk["CompetitionSaturated"] = 55
  BY DEF Risk
<1> QED
  BY <1>1, <1>2

LEMMA BandIs == ASSUME NEW n PROVE Band(n) \in {"clear", "light", "contested", "saturated"}
BY DEF Band

\* The tags of the competition, where it is known.
LEMMA KnownRivals ==
  ASSUME NEW t, t.timeline = TRUE
  PROVE  /\ CompetitionTags(t) = IF Band(Points(t)) = "contested" THEN {"CompetitionContested"}
                                 ELSE IF Band(Points(t)) = "saturated" THEN {"CompetitionSaturated"} ELSE {}
         /\ CompetitionGate(t).band = Band(Points(t))
         /\ CompetitionGate(t).status = "pass" <=> Band(Points(t)) \in {"clear", "light"}
<1>1. Band(Points(t)) \in {"clear", "light", "contested", "saturated"}
  BY BandIs
<1> DEFINE b == Band(Points(t))
<1>2. CompetitionTags(t) = TagIf("CompetitionEvidenceMissing", ~t.timeline)
         \cup TagIf("CompetitionContested", b = "contested") \cup TagIf("CompetitionSaturated", b = "saturated")
  BY DEF CompetitionTags
<1>3. CompetitionGate(t) =
        [band |-> b, status |-> CASE b \in {"clear", "light"} -> "pass" [] b = "contested" -> "soft_fail" [] OTHER -> "hard_fail"]
  BY DEF CompetitionGate
<1> HIDE DEF b
<1>4. b \in {"clear", "light", "contested", "saturated"}
  BY <1>1 DEF b
<1>5. CompetitionTags(t) = IF b = "contested" THEN {"CompetitionContested"}
                           ELSE IF b = "saturated" THEN {"CompetitionSaturated"} ELSE {}
  BY <1>2 DEF TagIf
<1>6. CompetitionGate(t).band = b /\ (CompetitionGate(t).status = "pass" <=> b \in {"clear", "light"})
  BY <1>3, <1>4
<1> QED
  BY <1>5, <1>6 DEF b
\* The category, by the band and the other tags.
CategoryBy(b, base, s) ==
  IF LowDepthGate = "hard_fail" \/ base \cap LowDepthTags # {} THEN "FilteredLowDepth"
  ELSE IF b = "saturated" \/ base \cap {"LowTrustRepo", "MarketplaceNoise"} # {} THEN "ContestedOrLowTrust"
  ELSE IF /\ RepoGate = "pass" /\ b \in {"clear", "light"} /\ FitGate(s.fit) = "pass"
          /\ s.fit >= 70 /\ s.execution >= 70 /\ "ScopeRisk" \notin base
  THEN "HighValueReady"
  ELSE IF RepoGate = "pass" /\ s.fit >= 70 /\ s.execution >= (IF b = "contested" THEN 70 ELSE 50)
  THEN "HighValueNeedsScoping"
  ELSE IF RepoGate = "soft_fail" /\ b # "contested" /\ s.fit >= 75 /\ s.execution >= 70 THEN "NicheButActionable"
  ELSE IF b = "contested" THEN "ContestedOrLowTrust" ELSE "NeedsTriage"
LEMMA CategoryIs ==
  ASSUME NEW t, t.timeline = TRUE, NEW s
  PROVE  Category(t, s, Tags(t)) = CategoryBy(Band(Points(t)), BaseTags(t), s)
<1> DEFINE b == Band(Points(t))
           base == BaseTags(t)
           tags == Tags(t)
           gate == CompetitionGate(t)
<1>1. b \in {"clear", "light", "contested", "saturated"}
  BY BandIs
<1>2. /\ tags = base \cup (IF b = "contested" THEN {"CompetitionContested"}
                           ELSE IF b = "saturated" THEN {"CompetitionSaturated"} ELSE {})
      /\ gate.band = b /\ (gate.status = "pass" <=> b \in {"clear", "light"})
      /\ base \cap RivalTags = {}
  BY KnownRivals, TagsApart
<1> HIDE DEF b, base, tags, gate
<1>3. tags \cap LowDepthTags = base \cap LowDepthTags
  BY <1>2 DEF LowDepthTags
<1>4. tags \cap {"CompetitionSaturated", "LowTrustRepo", "MarketplaceNoise"} # {}
        <=> b = "saturated" \/ base \cap {"LowTrustRepo", "MarketplaceNoise"} # {}
  BY <1>2 DEF RivalTags
<1>5. (gate.band = "contested" \/ "CompetitionContested" \in tags) <=> b = "contested"
  BY <1>2 DEF RivalTags
<1>6. "ScopeRisk" \notin tags <=> "ScopeRisk" \notin base
  BY <1>2
<1>7. Category(t, s, tags) = CategoryBy(b, base, s)
  BY <1>2, <1>3, <1>4, <1>5, <1>6 DEF Category, CategoryBy, gate
<1> QED
  BY <1>7 DEF b, base, tags

\* The ways a category may go when the band rises.
Demoted(c, d) ==
  \/ c = d
  \/ c = "HighValueReady" /\ d = "HighValueNeedsScoping"
  \/ c \in {"HighValueReady", "HighValueNeedsScoping", "NicheButActionable", "NeedsTriage"} /\ d = "ContestedOrLowTrust"
Rises(b, d) ==
  \/ b = d /\ b \in {"clear", "light", "contested", "saturated"}
  \/ b = "clear" /\ d = "light"
  \/ b = "light" /\ d = "contested"
  \/ b = "contested" /\ d = "saturated"
LEMMA OneMoreRises == ASSUME NEW n \in Nat PROVE Rises(Band(n), Band(n + 1))
  BY DEF Band, Rises
LEMMA CategoryFalls ==
  ASSUME NEW b, NEW d, Rises(b, d), NEW base, NEW s, NEW r,
         s.fit = r.fit, s.execution = r.execution, s.execution \in Int
  PROVE  /\ Demoted(CategoryBy(b, base, s), CategoryBy(d, base, r))
         /\ CategoryBy(b, base, s) \in DOMAIN ValueAnchor
<1> DEFINE low == LowDepthGate = "hard_fail" \/ base \cap LowDepthTags # {}
           distrusted == base \cap {"LowTrustRepo", "MarketplaceNoise"} # {}
           repo == RepoGate
           fits == FitGate(s.fit) = "pass" /\ s.fit >= 70 /\ s.execution >= 70 /\ "ScopeRisk" \notin base
           niche == s.fit >= 75 /\ s.execution >= 70
           x == s.execution
           By(k) ==
             IF low THEN "FilteredLowDepth"
             ELSE IF k = "saturated" \/ distrusted THEN "ContestedOrLowTrust"
             ELSE IF repo = "pass" /\ k \in {"clear", "light"} /\ fits THEN "HighValueReady"
             ELSE IF repo = "pass" /\ s.fit >= 70 /\ x >= (IF k = "contested" THEN 70 ELSE 50) THEN "HighValueNeedsScoping"
             ELSE IF repo = "soft_fail" /\ k # "contested" /\ niche THEN "NicheButActionable"
             ELSE IF k = "contested" THEN "ContestedOrLowTrust" ELSE "NeedsTriage"
<1>1. CategoryBy(b, base, s) = By(b)
  BY DEF CategoryBy
<1>2. CategoryBy(d, base, r) = By(d)
  BY DEF CategoryBy
<1>3. repo = "pass" => repo # "soft_fail"
  OBVIOUS
<1>4. fits => s.fit >= 70 /\ x >= 70
  OBVIOUS
<1> DEFINE fit70 == s.fit >= 70
           x70 == x >= 70
           x50 == x >= 50
<1>5. x70 => x50
  OBVIOUS
<1>6. \A k : By(k) =
             IF low THEN "FilteredLowDepth"
             ELSE IF k = "saturated" \/ distrusted THEN "ContestedOrLowTrust"
             ELSE IF repo = "pass" /\ k \in {"clear", "light"} /\ fits THEN "HighValueReady"
             ELSE IF repo = "pass" /\ fit70 /\ (IF k = "contested" THEN x70 ELSE x50) THEN "HighValueNeedsScoping"
             ELSE IF repo = "soft_fail" /\ k # "contested" /\ niche THEN "NicheButActionable"
             ELSE IF k = "contested" THEN "ContestedOrLowTrust" ELSE "NeedsTriage"
  OBVIOUS
<1>7. fits => fit70 /\ x70
  OBVIOUS
<1> HIDE DEF low, distrusted, repo, fits, niche, x, fit70, x70, x50, By
<1>8. Demoted(By(b), By(d))
  <2>1. CASE b = d
    BY <2>1 DEF Demoted
  <2>2. CASE b = "clear" /\ d = "light"
    BY <1>6, <2>2 DEF Demoted
  <2>3. CASE b = "light" /\ d = "contested"
    BY <1>3, <1>5, <1>6, <1>7, <2>3 DEF Demoted
  <2>4. CASE b = "contested" /\ d = "saturated"
    BY <1>6, <2>4 DEF Demoted
  <2> QED
    BY <2>1, <2>2, <2>3, <2>4 DEF Rises
<1>9. By(b) \in DOMAIN ValueAnchor
  BY <1>6 DEF ValueAnchor
<1> QED
  BY <1>1, <1>2, <1>8, <1>9

\* The execution depends on the tags as far as they tell the depth and the validation.
LEMMA ExecutionByTags ==
  ASSUME NEW tags, NEW others, tags \cap LowDepthTags = others \cap LowDepthTags,
         "WeakValidationPath" \in tags <=> "WeakValidationPath" \in others
  PROVE  ExecutionScore(tags) = ExecutionScore(others)
<1> DEFINE p == prospect
           found == (IF p.length >= 700 THEN 25 ELSE IF p.length >= 250 THEN 20 ELSE IF p.length >= 120 THEN 14 ELSE 0)
                    + (IF p.path THEN 16 ELSE 0) + (IF Says(Text, {"repro"}) THEN 20 ELSE 0)
                    + (IF Says(Text, {"expected"}) THEN 15 ELSE 0) + (IF Says(Text, {"direction"}) THEN 12 ELSE 0)
                    + (IF HasValidationHint THEN 12 ELSE 0) + (IF Says(p.labels, {"good first issue"}) THEN 6 ELSE 0)
           Caps(x) == (IF x \cap LowDepthTags # {} THEN {25} ELSE {}) \cup (IF "ThinTask" \in x THEN {45} ELSE {})
                      \cup (IF "WeakValidationPath" \in x THEN {82} ELSE {})
<1>1. ExecutionScore(tags) = Min({found, 100} \cup Caps(tags)) /\ ExecutionScore(others) = Min({found, 100} \cup Caps(others))
  BY DEF ExecutionScore
<1>2. "ThinTask" \in tags <=> "ThinTask" \in others
  <2>1. "ThinTask" \in LowDepthTags
    BY DEF LowDepthTags
  <2> QED
    BY <2>1
<1>3. Caps(tags) = Caps(others)
  BY <1>2
<1> HIDE DEF found, Caps
<1> QED
  BY <1>1, <1>3

LEMMA OneMoreCosts ==
  ASSUME prospect \in Prospects, NEW t \in ThreadsSeen, NEW u \in ThreadsSeen, t.timeline = TRUE,
         ReadAlike(t, u), Points(u) = Points(t) + 1, t.age = u.age, VisibleIn(t), VisibleIn(u)
  PROVE  Worth(Assess(u), u) <= Worth(Assess(t), t)
<1> DEFINE b == Band(Points(t))
           d == Band(Points(u))
           base == BaseTags(t)
           s == Scores(t, Tags(t))
           r == Scores(u, Tags(u))
           v == Assess(t)
           w == Assess(u)
<1>1. u.timeline = TRUE /\ BaseTags(u) = base
  BY AlikeReads DEF ReadAlike, BaseTags
<1>2. Rises(b, d)
  <2> DEFINE n == Points(t)
  <2>1. n \in Nat /\ Points(u) = n + 1
    BY PointsType
  <2> HIDE DEF n
  <2>2. Rises(Band(n), Band(n + 1))
    BY <2>1, OneMoreRises
  <2>3. Points(t) = n
    BY DEF n
  <2> QED
    BY <2>1, <2>2, <2>3
<1>3. /\ base \in SUBSET (RiskTagNames \ RivalTags)
      /\ Tags(t) = base \cup (IF b = "contested" THEN {"CompetitionContested"}
                              ELSE IF b = "saturated" THEN {"CompetitionSaturated"} ELSE {})
      /\ Tags(u) = base \cup (IF d = "contested" THEN {"CompetitionContested"}
                              ELSE IF d = "saturated" THEN {"CompetitionSaturated"} ELSE {})
  BY <1>1, KnownRivals, TagsApart
<1> HIDE DEF b, d, base
<1>4. Tags(t) \in SUBSET RiskTagNames /\ Tags(u) \in SUBSET RiskTagNames
  BY <1>3 DEF RiskTagNames
<1>5. RiskOf(Tags(t)) <= RiskOf(Tags(u))
  <2> DEFINE c1 == base \cup {"CompetitionContested"}
             c2 == base \cup {"CompetitionSaturated"}
  <2>1. base \in SUBSET RiskTagNames /\ base \cup {} = base
    BY <1>3
  <2>2. RiskOf(base) \in Nat /\ RiskOf(c1) = RiskOf(base) + 25 /\ RiskOf(c2) = RiskOf(base) + 55
    BY <1>3, <2>1, RivalsAreRisky, RiskIsSum
  <2>3. /\ Tags(t) = IF b = "contested" THEN c1 ELSE IF b = "saturated" THEN c2 ELSE base
        /\ Tags(u) = IF d = "contested" THEN c1 ELSE IF d = "saturated" THEN c2 ELSE base
    BY <1>3, <2>1
  <2> HIDE DEF c1, c2
  <2> QED
    BY <1>2, <2>2, <2>3 DEF Rises
<1>6. Riskier(s, r)
  <2>1. /\ s \in Scored /\ s.risk = Smaller(RiskOf(Tags(t)), 100) /\ RiskOf(Tags(t)) \in Nat
        /\ r \in Scored /\ r.risk = Smaller(RiskOf(Tags(u)), 100) /\ RiskOf(Tags(u)) \in Nat
    BY <1>4, ScoresTyped
  <2>2. s.fit = FitScore(Tags(t)) /\ s.execution = ExecutionScore(Tags(t)) /\ s.influence = Influence(RepoGate)
        /\ s.maintainer = MaintainerScore(t) /\ s.freshness = FreshnessScore(t)
    BY DEF Scores
  <2>3. r.fit = FitScore(Tags(u)) /\ r.execution = ExecutionScore(Tags(u)) /\ r.influence = Influence(RepoGate)
        /\ r.maintainer = MaintainerScore(u) /\ r.freshness = FreshnessScore(u)
    BY DEF Scores
  <2>4. Tags(t) \cap LowDepthTags = Tags(u) \cap LowDepthTags
    BY <1>3 DEF LowDepthTags
  <2>5. "WeakValidationPath" \in Tags(t) <=> "WeakValidationPath" \in Tags(u)
    BY <1>3
  <2>6. FitScore(Tags(t)) = FitScore(Tags(u)) /\ ExecutionScore(Tags(t)) = ExecutionScore(Tags(u))
    BY <2>4, <2>5, FitByDepth, ExecutionByTags
  <2>7. MaintainerScore(t) = MaintainerScore(u) /\ FreshnessScore(t) = FreshnessScore(u)
    BY AlikeReads DEF FreshnessScore
  <2>8. s.risk <= r.risk
    BY <1>5, <2>1 DEF Smaller
  <2> HIDE DEF s, r
  <2> QED
    BY <2>1, <2>2, <2>3, <2>6, <2>7, <2>8 DEF Riskier
<1>7. /\ v.category = Category(t, s, Tags(t)) /\ v.tags = Tags(t) /\ v.rank = RankScore(v.category, s)
      /\ w.category = Category(u, r, Tags(u)) /\ w.tags = Tags(u) /\ w.rank = RankScore(w.category, r)
  BY DEF Assess
<1> HIDE DEF s, r, v, w
<1>8. v.category = CategoryBy(b, base, s) /\ w.category = CategoryBy(d, base, r)
  BY <1>1, <1>7, CategoryIs DEF b, d, base
<1>9. Demoted(v.category, w.category) /\ v.category \in DOMAIN ValueAnchor
  BY <1>2, <1>6, <1>8, CategoryFalls DEF Riskier, Scored
<1>10. /\ v.rank \in 0..100 /\ w.rank \in 0..100
       /\ v.category = w.category \/ (v.category = "HighValueReady" /\ w.category = "HighValueNeedsScoping") => w.rank <= v.rank
  <2>1. \A c : /\ RankScore(c, s) \in 0..100 /\ RankScore(c, r) \in 0..100 /\ RankScore(c, r) <= RankScore(c, s)
               /\ RankScore("HighValueNeedsScoping", r) = RankScore("HighValueReady", r)
    BY <1>6, RankFalls
  <2> QED
    BY <1>7, <2>1
<1> DEFINE vr == v.rank
           wr == w.rank
           va == ValueAnchor[v.category]
           wa == ValueAnchor[w.category]
           vp == Policy(v, t).penalty
           wp == Policy(w, u).penalty
<1>11. /\ Policy(v, t).penalty = Penalties(v, t) /\ Policy(w, u).penalty = Penalties(w, u)
  BY ShownIsPenalised DEF VisibleIn, v, w
<1>12. Penalties(v, t) \in Int /\ Penalties(w, u) \in Int /\ Penalties(v, t) <= Penalties(w, u)
  <2> DEFINE pa(x) == IF "ProfileMismatch" \in x THEN 180 ELSE 0
             pb(x) == IF "LowImpactRepo" \in x THEN 80 ELSE 0
             pc(x) == IF Crowded(x) THEN 90 ELSE 0
             pe(x) == IF "ScopeRisk" \in x \/ LargeAudit THEN 75 ELSE 0
  <2>1. /\ Penalties(v, t) = pa(v.tags) + pb(v.tags) + pc(t) + pe(v.tags)
        /\ Penalties(w, u) = pa(w.tags) + pb(w.tags) + pc(u) + pe(w.tags)
    BY DEF Penalties
  <2>2. pa(v.tags) = pa(w.tags) /\ pb(v.tags) = pb(w.tags) /\ pe(v.tags) = pe(w.tags)
    BY <1>3, <1>7
  <2>3. pc(t) \in Int /\ pc(u) \in Int /\ pc(t) <= pc(u)
    BY <1>2 DEF Crowded, Rises, b, d
  <2>4. pa(v.tags) \in Int /\ pb(v.tags) \in Int /\ pe(v.tags) \in Int
    OBVIOUS
  <2> HIDE DEF pa, pb, pc, pe
  <2> QED
    BY <2>1, <2>2, <2>3, <2>4
<1>13. Worth(v, t) = va + vr - vp /\ Worth(w, u) = wa + wr - wp
  BY DEF Worth
<1>14. /\ vr \in Int /\ wr \in Int /\ 0 <= vr /\ wr <= 100
       /\ v.category = w.category \/ (v.category = "HighValueReady" /\ w.category = "HighValueNeedsScoping") => wr <= vr
  BY <1>10
<1>15. /\ vp \in Int /\ wp \in Int /\ vp <= wp
  BY <1>11, <1>12
<1> HIDE DEF vr, wr, vp, wp
<1>16. wa + wr <= va + vr /\ wa \in Int /\ va \in Int
  <2>1. CASE v.category = w.category
    <3>1. va \in Int /\ wa = va
      BY <1>9, <2>1 DEF ValueAnchor
    <3> HIDE DEF va, wa
    <3>2. wa + wr <= va + vr
      BY <1>14, <2>1, <3>1
    <3> QED
      BY <3>1, <3>2 DEF va, wa
  <2>2. CASE v.category = "HighValueReady" /\ w.category = "HighValueNeedsScoping"
    <3>1. va = 500 /\ wa = 470
      BY <2>2 DEF ValueAnchor
    <3> HIDE DEF va, wa
    <3>2. wa + wr <= va + vr
      BY <1>14, <2>2, <3>1
    <3> QED
      BY <3>1, <3>2 DEF va, wa
  <2>3. CASE v.category \in {"HighValueReady", "HighValueNeedsScoping", "NicheButActionable", "NeedsTriage"}
             /\ w.category = "ContestedOrLowTrust"
    <3>1. va \in {500, 470, 390, 300} /\ wa = 180
      BY <2>3 DEF ValueAnchor
    <3> HIDE DEF va, wa
    <3>2. wa + wr <= va + vr
      BY <1>14, <3>1
    <3> QED
      BY <3>1, <3>2 DEF va, wa
  <2> QED
    BY <1>9, <2>1, <2>2, <2>3 DEF Demoted
<1> HIDE DEF va, wa
<1>17. Worth(w, u) <= Worth(v, t)
  BY <1>13, <1>14, <1>15, <1>16
<1> QED
  BY <1>17 DEF v, w

\* Action, of the value.  The tool's own comments change neither the category of an issue nor
\* whether it is shown: no marker, no word and no answer is read from them, and their number
\* tells only at twenty (competition.rs, value_scoring.rs); a part of ScoresMoveTheRightWay.
THEOREM OwnCommentsChangeLittle == ValueSpec => OwnCommentsChangeNothing
<1> DEFINE OwnComment ==
             LET n == Len(thread'.comments) IN
             n > Len(thread.comments) /\ thread'.comments[n].by = "own" /\ prospect.older + n # 20
           Same == Assess(thread').category = Assess(thread).category /\ VisibleIn(thread') = VisibleIn(thread)
<1>1. ASSUME ValueTyped, [ValueNext]_valueVars, OwnComment PROVE Same
  <2>1. thread \in ThreadsSeen /\ thread' \in ThreadsSeen /\ thread.comments \in Seq(Remark) /\ Len(thread.comments) \in Nat
    BY <1>1, ValueTypesKept DEF ValueTyped, ThreadsSeen
  <2>2. thread'.comments # thread.comments
    BY <1>1, <2>1
  <2>3. ASSUME OpenPull \/ ClosePull \/ MentionClosed \/ Timeline \/ UNCHANGED valueVars PROVE FALSE
    <3>1. thread'.comments = thread.comments
      BY <2>1, <2>3 DEF OpenPull, ClosePull, MentionClosed, Timeline, valueVars, ThreadsSeen
    <3> QED
      BY <2>2, <3>1
  <2>4. ASSUME NEW age \in Ages, GrowOld(age) PROVE FALSE
    BY <2>1, <2>2, <2>4 DEF GrowOld, ThreadsSeen
  <2>5. PICK by \in {"own", "user", "maintainer"}, says \in Remarks : Comment(by, says)
    BY <1>1, <2>3, <2>4 DEF ValueNext
  <2>6. thread'.comments = Append(thread.comments, [by |-> by, says |-> says])
    BY <2>1, <2>5 DEF Comment, ThreadsSeen
  <2>7. by = "own"
    <3>1. Len(thread'.comments) = Len(thread.comments) + 1
          /\ thread'.comments[Len(thread.comments) + 1] = [by |-> by, says |-> says]
      BY <2>1, <2>6
    <3> QED
      BY <1>1, <3>1
  <2>8. ReadAlike(thread, thread') /\ ClosedPulls(thread) = ClosedPulls(thread')
    BY <1>1, <2>5, <2>7, OwnIsNotRead
  <2> QED
    BY <2>8, AlikeAreSame
<1>2. ValueTyped /\ [ValueNext]_valueVars => [OwnComment => Same]_valueVars
  BY <1>1
<1> QED
  BY <1>2, ValueTypes, PTL DEF ValueSpec, OwnCommentsChangeNothing

\* Action, of the value.  Of an issue shown before and after, one more competitor never raises
\* the score: what is shown has no rival but closed pull requests, one more of which takes the
\* band at most one further, and with it the category, the risk and the penalties
\* (competition.rs, value_scoring.rs, quality_policy.rs); a part of ScoresMoveTheRightWay.
THEOREM CompetitionCosts == ValueSpec => CompetitionNeverPays
<1> DEFINE OneRivalMore ==
             /\ thread'.timeline = thread.timeline /\ thread'.age = thread.age /\ Points(thread') > Points(thread)
             /\ VisibleIn(thread) /\ VisibleIn(thread')
           NotUp == Worth(Assess(thread'), thread') <= Worth(Assess(thread), thread)
<1>1. ASSUME ValueTyped, [ValueNext]_valueVars, OneRivalMore PROVE NotUp
  <2>1. /\ thread' \in ThreadsSeen /\ thread.timeline = TRUE
        /\ Points(thread') = Points(thread) + 1 /\ ReadAlike(thread, thread')
    BY <1>1, OnlyAMention
  <2>2. prospect \in Prospects /\ thread \in ThreadsSeen
    BY <1>1 DEF ValueTyped
  <2> QED
    BY <1>1, <2>1, <2>2, OneMoreCosts
<1>2. ValueTyped /\ [ValueNext]_valueVars => [OneRivalMore => NotUp]_valueVars
  BY <1>1
<1> QED
  BY <1>2, ValueTypes, PTL DEF ValueSpec, CompetitionNeverPays

\* Action.  Scores move the right way, whatever the profile, the issues, the remarks and the
\* feedback are: looking at an issue and the tool's own comments gain it nothing, and one more
\* competitor never raises it (local_feedback.rs, competition.rs, quality_policy.rs).
THEOREM ScoresAreFair == FeedbackSpec /\ ValueSpec => ScoresMoveTheRightWay
  BY LookingNeverPays, OwnCommentsChangeLittle, CompetitionCosts DEF ScoresMoveTheRightWay
=============================================================================
