------------------------ MODULE DecisionTransportProofs ------------------------
(* What DecisionTransport never does, for any calls, buffers and faults.    *)
EXTENDS DecisionTransport, FiniteSetTheorems, TLAPS

Phases == {"idle", "ready", "working", "backoff", "done"}
CleanerSteps == CleanupMethods \cup
  {"none", "look", "seek", "snapshot", "name", "forget", "sweep", "done"}

\* A call without a lease has nothing to do, and nothing left to clean up.
LeaseCoversWork ==
  \A c \in Calls : lease[c] # "held" =>
    /\ phase[c] \in {"idle", "done"}
    /\ \A n \in 1..MaxTries : cleaner[<<c, n>>] \in {"none", "done"}

\* Once close has counted no lease, none is handed out again.
NoLeaseAfterCount ==
  closer \in {"stop", "stopped"} => closing /\ \A c \in Calls : lease[c] # "held"

\* Only a call with an attempt left waits for its retry.
RetryHasAttempt == \A c \in Calls : phase[c] = "backoff" => try[c] < MaxTries

CloseInv ==
  /\ phase \in [Calls -> Phases] /\ try \in [Calls -> 1..MaxTries]
  /\ cleaner \in [Attempts -> CleanerSteps]
  /\ lease \in [Calls -> {"none", "held", "dropped"}]
  /\ closing \in BOOLEAN /\ closer \in {"open", "check", "wait", "stop", "stopped"}
  /\ LeaseCoversWork /\ NoLeaseAfterCount /\ RetryHasAttempt

closeVars == <<phase, try, cleaner, lease, closing, closer>>
-----------------------------------------------------------------------------
LEMMA InitClose == Init => CloseInv
<1> SUFFICES ASSUME Init PROVE CloseInv
  OBVIOUS
<1>1. /\ phase = [c \in Calls |-> "idle"] /\ try = [c \in Calls |-> 1]
      /\ cleaner = [a \in Attempts |-> "none"] /\ lease = [c \in Calls |-> "none"]
      /\ closing = FALSE /\ closer = "open"
  BY DEF Init
<1>2. try \in [Calls -> 1..MaxTries]
  BY <1>1, TransportAssumption
<1>3. LeaseCoversWork
  <2>1. \A c \in Calls, n \in 1..MaxTries : <<c, n>> \in Attempts
    BY DEF Attempts
  <2> QED
    BY <1>1, <2>1 DEF LeaseCoversWork
<1> QED
  BY <1>1, <1>2, <1>3 DEF CloseInv, Phases, CleanerSteps, NoLeaseAfterCount, RetryHasAttempt

\* Steps of the server, the reader and the writer are none of close's business.
LEMMA FrameClose == CloseInv /\ UNCHANGED closeVars => CloseInv'
  BY DEF CloseInv, closeVars, LeaseCoversWork, NoLeaseAfterCount, RetryHasAttempt

\* A call that holds its lease may move.
LEMMA CallMoves ==
  ASSUME CloseInv, NEW c \in Calls, phase[c] \in {"ready", "working", "backoff"},
         NEW q \in Phases, NEW t \in 1..MaxTries, NEW step \in CleanerSteps,
         phase' = [phase EXCEPT ![c] = q],
         q = "backoff" => t < MaxTries,
         try' = [try EXCEPT ![c] = t],
         cleaner' = cleaner \/ cleaner' = [cleaner EXCEPT ![<<c, try[c]>>] = step],
         UNCHANGED <<lease, closing, closer>>
  PROVE  CloseInv'
<1>1. lease[c] = "held"
  BY DEF CloseInv, LeaseCoversWork
<1>2. phase' \in [Calls -> Phases] /\ \A d \in Calls \ {c} : phase'[d] = phase[d]
  BY DEF CloseInv
<1>3. try' \in [Calls -> 1..MaxTries]
  BY DEF CloseInv
<1>4. /\ cleaner' \in [Attempts -> CleanerSteps]
      /\ \A d \in Calls \ {c}, n \in 1..MaxTries : cleaner'[<<d, n>>] = cleaner[<<d, n>>]
  BY DEF CloseInv, Attempts
<1>5. LeaseCoversWork'
  BY <1>1, <1>2, <1>4 DEF CloseInv, LeaseCoversWork
<1> QED
  BY <1>2, <1>3, <1>4, <1>5 DEF CloseInv, NoLeaseAfterCount, RetryHasAttempt

\* A cleanup that has begun and not ended holds the lease.
LEMMA CleanupMoves ==
  ASSUME CloseInv, NEW a \in Attempts, cleaner[a] \notin {"none", "done"},
         NEW step \in CleanerSteps, Clean(a, step),
         UNCHANGED <<phase, try, lease, closing, closer>>
  PROVE  CloseInv'
<1>1. PICK c \in Calls, n \in 1..MaxTries : a = <<c, n>>
  BY DEF Attempts
<1>2. lease[c] = "held"
  BY <1>1 DEF CloseInv, LeaseCoversWork
<1>3. /\ cleaner' \in [Attempts -> CleanerSteps]
      /\ \A d \in Calls \ {c}, k \in 1..MaxTries : cleaner'[<<d, k>>] = cleaner[<<d, k>>]
  BY <1>1 DEF CloseInv, Clean, Attempts
<1>4. LeaseCoversWork'
  BY <1>2, <1>3 DEF CloseInv, LeaseCoversWork
<1> QED
  BY <1>3, <1>4 DEF CloseInv, NoLeaseAfterCount, RetryHasAttempt
-----------------------------------------------------------------------------
\* The same when only the phase changes.
LEMMA CallStays ==
  ASSUME CloseInv, NEW c \in Calls, phase[c] \in {"ready", "working", "backoff"},
         NEW q \in Phases, q # "backoff", phase' = [phase EXCEPT ![c] = q],
         UNCHANGED <<try, cleaner, lease, closing, closer>>
  PROVE  CloseInv'
<1>1. try[c] \in 1..MaxTries /\ try' = [try EXCEPT ![c] = try[c]]
  BY DEF CloseInv
<1> QED
  BY <1>1, CallMoves, "none" \in CleanerSteps DEF CleanerSteps

LEMMA EndMoves ==
  ASSUME CloseInv, NEW c \in Calls, phase[c] = "working", NEW again \in BOOLEAN,
         EndAttempt(c, again)
  PROVE  CloseInv'
<1> DEFINE q == IF again /\ try[c] < MaxTries THEN "backoff" ELSE "done"
<1>1. /\ q \in Phases /\ "look" \in CleanerSteps /\ try[c] \in 1..MaxTries
      /\ q = "backoff" => try[c] < MaxTries
  BY DEF Phases, CleanerSteps, CloseInv
<1>2. /\ phase' = [phase EXCEPT ![c] = q]
      /\ try' = [try EXCEPT ![c] = try[c]]
      /\ cleaner' = [cleaner EXCEPT ![<<c, try[c]>>] = "look"]
      /\ UNCHANGED <<lease, closing, closer>>
  BY DEF EndAttempt, activity, CloseInv
<1> HIDE DEF q
<1> QED
  BY <1>1, <1>2, CallMoves

LEMMA CallClose ==
  ASSUME CloseInv, NEW c \in Calls, Enter(c) \/ Call(c) \/ Deadline(c)
  PROVE  CloseInv'
<1> USE DEF calls, activity, closeVars
<1>1. CASE Enter(c)
  BY <1>1 DEF Enter, CloseInv, LeaseCoversWork, NoLeaseAfterCount, RetryHasAttempt, Phases
<1>2. CASE StartAttempt(c)
  BY <1>2, CallStays, "working" \in Phases DEF StartAttempt, Phases
<1>3. CASE ThreadStarted(c) \/ TurnStarted(c)
  BY <1>3, FrameClose DEF ThreadStarted, TurnStarted
<1>4. CASE StartRejected(c)
  BY <1>4, EndMoves DEF StartRejected, Retryable
<1>5. CASE CheckEvents(c)
  BY <1>5, EndMoves, FrameClose DEF CheckEvents
<1>6. CASE ReceiveEvent(c)
  BY <1>6, EndMoves, FrameClose DEF ReceiveEvent
<1>7. CASE Retry(c)
  <2>1. /\ phase[c] = "backoff" /\ "ready" \in Phases
        /\ try[c] + 1 \in 1..MaxTries
        /\ UNCHANGED <<cleaner, lease, closing, closer>>
        /\ try' = [try EXCEPT ![c] = try[c] + 1]
        /\ phase' = [phase EXCEPT ![c] = "ready"]
    BY <1>7, TransportAssumption DEF Retry, CloseInv, RetryHasAttempt, Phases
  <2> QED
    BY <2>1, CallMoves, "none" \in CleanerSteps DEF CleanerSteps
<1>8. CASE DropLease(c)
  BY <1>8 DEF DropLease, CloseInv, LeaseCoversWork, NoLeaseAfterCount, RetryHasAttempt
<1>9. CASE NotifyWaiters(c)
  BY <1>9 DEF NotifyWaiters, CloseInv, LeaseCoversWork, NoLeaseAfterCount, RetryHasAttempt
<1>10. CASE Deadline(c)
  BY <1>10, EndMoves, CallStays, "done" \in Phases DEF Deadline, Phases
<1> QED
  BY <1>1, <1>2, <1>3, <1>4, <1>5, <1>6, <1>7, <1>8, <1>9, <1>10 DEF Call

LEMMA CleanupClose ==
  ASSUME CloseInv, NEW a \in Attempts, Cleanup(a) \/ GiveUpSeeking(a) \/ CleanupTimeout(a)
  PROVE  CloseInv'
<1>1. UNCHANGED <<phase, try, lease, closing, closer>>
  BY DEF Cleanup, Look, Seek, GiveUpSeeking, Snapshot, CleanupContinues, CleanupTimeout,
         NameThread, Sweep, Elsewhere, calls, activity
<1>2. cleaner[a] \notin {"none", "done"}
  BY DEF Cleanup, Look, Seek, GiveUpSeeking, Snapshot, CleanupContinues, CleanupTimeout,
         NameThread, Sweep, CleanupMethods
<1>3. \E step \in CleanerSteps : Clean(a, step)
  BY DEF Cleanup, Look, Seek, GiveUpSeeking, Snapshot, CleanupContinues, CleanupTimeout,
         NameThread, Sweep, CleanerSteps, CleanupMethods
<1> QED
  BY <1>1, <1>2, <1>3, CleanupMoves

LEMMA StepClose == CloseInv /\ [Next]_vars => CloseInv'
<1> SUFFICES ASSUME CloseInv, [Next]_vars PROVE CloseInv'
  OBVIOUS
<1> USE DEF calls, server, activity, closeVars
<1>1. CASE \E c \in Calls : Enter(c) \/ Call(c) \/ Deadline(c)
  BY <1>1, CallClose
<1>2. CASE \E a \in Attempts : Cleanup(a) \/ GiveUpSeeking(a) \/ CleanupTimeout(a)
  BY <1>2, CleanupClose
<1>3. CASE \E a \in Attempts, kind \in Kinds : Emit(a, kind)
  BY <1>3, FrameClose DEF Emit
<1>4. CASE \E r \in owed : Respond(r[1], r[2], r[3])
  BY <1>4, FrameClose DEF Respond
<1>5. CASE WriteNext \/ RouteRefused \/ EndOfOutput \/ Exit
  BY <1>5, FrameClose DEF WriteNext, RouteRefused, EndOfOutput, Exit
<1>6. CASE Close
  BY <1>6 DEF Close, Listen, CountLeases, Stop, Untouched, CloseInv, LeaseCoversWork,
              NoLeaseAfterCount, RetryHasAttempt
<1>7. CASE UNCHANGED vars
  BY <1>7, FrameClose DEF vars
<1> QED
  BY <1>1, <1>2, <1>3, <1>4, <1>5, <1>6, <1>7 DEF Next

\* The process of the session is stopped only when no call and no cleanup can
\* still use it, for any calls, tries, answers and faults (Activity::close waits
\* for every Lease, which an attempt's cleanup holds).
THEOREM CloseWaitsForWork == Spec => []StopsWhenQuiet
<1>1. CloseInv => StopsWhenQuiet
  BY DEF CloseInv, StopsWhenQuiet, LeaseCoversWork, NoLeaseAfterCount, Attempts
<1> QED
  BY <1>1, InitClose, StepClose, PTL DEF Spec
-----------------------------------------------------------------------------
(* A call has at most one turn accepted.  An attempt is tried again only     *)
(* when its turn/start was explicitly rejected, and a turn/start that could  *)
(* still be written cannot have been rejected.                               *)

Asked == CallMethods \cup CleanupMethods
AnswerTexts == AnswerKinds \cup {"none", "closed", "unstarted", "running", "over"}
Stages == CallMethods \cup {"none", "check", "receive", "ended"}
Lines == Attempts \X (Asked \cup {"refusal"})

Queued(a) == \E i \in 1..Len(writes) : writes[i] = <<a, "turn/start">>
Owing(a) == \E kind \in AnswerTexts : <<a, "turn/start", kind>> \in owed

OneStartQueued ==
  \A i, j \in 1..Len(writes) : writes[i] = writes[j] /\ writes[i][2] = "turn/start" => i = j

\* A turn/start is in one place: not asked, queued, owed or answered; only one
\* that the server has handled may have an answer of the server's.
StartInv(a) ==
  /\ stage[a] \in {"none", "thread/start"} => turn[a] = "unstarted" /\ ~Queued(a) /\ ~Owing(a)
  /\ Queued(a) => /\ turn[a] = "unstarted" /\ ~Owing(a)
                  /\ stage[a] = "turn/start" => answer[a] \in {"none", "closed"}
  /\ <<a, "turn/start", "overload">> \in owed => turn[a] = "unstarted"
  /\ stage[a] = "turn/start" /\ answer[a] = "overload" => turn[a] = "unstarted"
  /\ cleaner[a] # "none" => stage[a] = "ended"

\* Attempts before the current one were rejected, later ones have not begun.
TriesInv(c) ==
  /\ \A n \in 1..MaxTries :
       /\ n > try[c] => stage[<<c, n>>] = "none"
       /\ n < try[c] => stage[<<c, n>>] = "ended" /\ turn[<<c, n>>] = "unstarted"
  /\ phase[c] \in {"idle", "ready"} => stage[<<c, try[c]>>] = "none"
  /\ phase[c] = "backoff" => stage[<<c, try[c]>>] = "ended" /\ turn[<<c, try[c]>>] = "unstarted"

AcceptTypes ==
  /\ stage \in [Attempts -> Stages] /\ answer \in [Attempts -> AnswerTexts]
  /\ turn \in [Attempts -> {"unstarted", "running", "over"}]
  /\ writes \in Seq(Lines) /\ owed \subseteq Attempts \X Asked \X AnswerTexts

AcceptInv ==
  /\ CloseInv /\ AcceptTypes /\ OneStartQueued
  /\ \A a \in Attempts : StartInv(a)
  /\ \A c \in Calls : TriesInv(c)
-----------------------------------------------------------------------------
\* An attempt nothing happens to, except that the session may fail.
LEMMA StartQuiet ==
  ASSUME NEW a \in Attempts, StartInv(a),
         turn'[a] = turn[a], stage'[a] = stage[a], cleaner'[a] = cleaner[a],
         answer'[a] \in {answer[a], "closed"},
         Queued(a)' => Queued(a), \A kind : <<a, "turn/start", kind>> \in owed' => <<a, "turn/start", kind>> \in owed
  PROVE  StartInv(a)'
<1>1. Owing(a)' => Owing(a)
  BY DEF Owing
<1> HIDE DEF Queued, Owing
<1> QED
  BY <1>1 DEF StartInv

\* Turns start only where turn/start is awaited.
LEMMA TriesQuiet ==
  ASSUME AcceptInv, UNCHANGED <<phase, try, stage>>, NEW c \in Calls,
         \A a \in Attempts : turn[a] = "unstarted" /\ stage[a] # "turn/start" => turn'[a] = "unstarted"
  PROVE  TriesInv(c)'
<1>1. /\ TriesInv(c) /\ try[c] \in 1..MaxTries
      /\ \A n \in 1..MaxTries : <<c, n>> \in Attempts
  BY DEF AcceptInv, CloseInv, Attempts
<1> QED
  BY <1>1 DEF TriesInv

LEMMA AppendWrite ==
  ASSUME writes \in Seq(Lines), OneStartQueued, NEW w \in Lines, writes' = Append(writes, w),
         w[2] = "turn/start" => ~Queued(w[1])
  PROVE  /\ writes' \in Seq(Lines) /\ OneStartQueued'
         /\ \A a \in Attempts : Queued(a)' => Queued(a) \/ w = <<a, "turn/start">>
<1>1. /\ writes' \in Seq(Lines) /\ Len(writes') = Len(writes) + 1
      /\ \A i \in 1..Len(writes) : writes'[i] = writes[i] /\ writes'[Len(writes')] = w
  OBVIOUS
<1>2. w = <<w[1], w[2]>>
  BY DEF Lines
<1>3. Len(writes) \in Nat /\ writes'[Len(writes) + 1] = w
  OBVIOUS
<1>4. \A i \in 1..Len(writes') : i \in 1..Len(writes) \/ i = Len(writes) + 1
  BY <1>1, <1>3
<1>5. \A a \in Attempts : Queued(a)' => Queued(a) \/ w = <<a, "turn/start">>
  BY <1>1, <1>3, <1>4 DEF Queued
<1>6. OneStartQueued'
  <2> SUFFICES ASSUME NEW i \in 1..Len(writes'), NEW j \in 1..Len(writes'),
                      writes'[i] = writes'[j], writes'[i][2] = "turn/start"
               PROVE  i = j
    BY DEF OneStartQueued
  <2>1. CASE i \in 1..Len(writes) /\ j \in 1..Len(writes)
    BY <2>1, <1>1 DEF OneStartQueued
  <2>2. CASE i \in 1..Len(writes) /\ j = Len(writes) + 1
    BY <2>2, <1>1, <1>2, <1>3 DEF Queued
  <2>3. CASE i = Len(writes) + 1 /\ j \in 1..Len(writes)
    BY <2>3, <1>1, <1>2, <1>3 DEF Queued
  <2> QED
    BY <2>1, <2>2, <2>3, <1>4
<1> QED
  BY <1>1, <1>5, <1>6

LEMMA TakeWrite ==
  ASSUME writes \in Seq(Lines), OneStartQueued, writes # <<>>, writes' = Tail(writes)
  PROVE  /\ writes' \in Seq(Lines) /\ OneStartQueued' /\ Head(writes) \in Lines
         /\ \A a \in Attempts : Queued(a)' => Queued(a)
         /\ \A a \in Attempts : Head(writes) = <<a, "turn/start">> => Queued(a) /\ ~Queued(a)'
<1>1. /\ Len(writes) \in Nat \ {0} /\ Len(writes') = Len(writes) - 1 /\ Head(writes) = writes[1]
      /\ \A i \in 1..Len(writes') : writes'[i] = writes[i + 1] /\ i + 1 \in 1..Len(writes)
      /\ writes' \in Seq(Lines) /\ Head(writes) \in Lines
  OBVIOUS
<1>2. OneStartQueued'
  BY <1>1 DEF OneStartQueued
<1>3. \A a \in Attempts : Queued(a)' => Queued(a)
  BY <1>1 DEF Queued
<1>4. \A a \in Attempts : Head(writes) = <<a, "turn/start">> => Queued(a) /\ ~Queued(a)'
  BY <1>1 DEF Queued, OneStartQueued
<1> QED
  BY <1>1, <1>2, <1>3, <1>4

LEMMA AskWrites ==
  ASSUME AcceptTypes, OneStartQueued, NEW a \in Attempts, NEW m \in Asked, Ask(a, m),
         m = "turn/start" => ~Queued(a)
  PROVE  /\ writes' \in Seq(Lines) /\ OneStartQueued'
         /\ \A b \in Attempts : Queued(b)' => Queued(b) \/ (b = a /\ m = "turn/start")
         /\ \E text \in {"none", "closed"} : answer' = [answer EXCEPT ![a] = text]
<1>1. CASE closed
  BY <1>1 DEF Ask, AcceptTypes, OneStartQueued, Queued
<1>2. CASE ~closed
  <2>1. <<a, m>> \in Lines /\ writes' = Append(writes, <<a, m>>) /\ writes \in Seq(Lines)
    BY <1>2 DEF Ask, Lines, AcceptTypes
  <2>2. /\ writes' \in Seq(Lines) /\ OneStartQueued'
        /\ \A b \in Attempts : Queued(b)' => Queued(b) \/ <<a, m>> = <<b, "turn/start">>
    BY <2>1, AppendWrite
  <2> QED
    BY <1>2, <2>2 DEF Ask
<1> QED
  BY <1>1, <1>2
-----------------------------------------------------------------------------
LEMMA InitAccept == Init => AcceptInv
<1> SUFFICES ASSUME Init PROVE AcceptInv
  OBVIOUS
<1>1. /\ phase = [c \in Calls |-> "idle"] /\ try = [c \in Calls |-> 1]
      /\ stage = [a \in Attempts |-> "none"] /\ cleaner = [a \in Attempts |-> "none"]
      /\ answer = [a \in Attempts |-> "none"] /\ turn = [a \in Attempts |-> "unstarted"]
      /\ writes = <<>> /\ owed = {}
  BY DEF Init
<1>2. AcceptTypes /\ OneStartQueued
  BY <1>1 DEF AcceptTypes, OneStartQueued, Stages, AnswerTexts
<1>3. \A a \in Attempts : StartInv(a)
  BY <1>1 DEF StartInv, Queued, Owing
<1>4. \A c \in Calls : TriesInv(c)
  <2>1. \A c \in Calls, n \in 1..MaxTries : <<c, n>> \in Attempts
    BY DEF Attempts
  <2>2. 1 \in 1..MaxTries
    BY TransportAssumption
  <2> QED
    BY <1>1, <2>1, <2>2 DEF TriesInv
<1> QED
  BY <1>2, <1>3, <1>4, InitClose DEF AcceptInv

\* A step that neither asks nor answers, and starts no turn.
LEMMA AcceptQuiet ==
  ASSUME AcceptInv, CloseInv', UNCHANGED <<phase, try, stage, cleaner, turn, writes, owed>>,
         answer' \in [Attempts -> AnswerTexts],
         \A a \in Attempts : answer'[a] \in {answer[a], "closed"}
  PROVE  AcceptInv'
<1>1. AcceptTypes' /\ OneStartQueued'
  BY DEF AcceptInv, AcceptTypes, OneStartQueued
<1>2. \A a \in Attempts : StartInv(a)'
  BY StartQuiet DEF AcceptInv, Queued
<1>3. \A c \in Calls : TriesInv(c)'
  BY TriesQuiet
<1> QED
  BY <1>1, <1>2, <1>3 DEF AcceptInv

LEMMA FailAnswers ==
  ASSUME AcceptTypes, FailSession
  PROVE  /\ answer' \in [Attempts -> AnswerTexts]
         /\ \A a \in Attempts : answer'[a] \in {answer[a], "closed"}
  BY DEF FailSession, AcceptTypes, AnswerTexts

\* A call moves on within its attempt: the stage is left by the attempt alone.
LEMMA StageMoves ==
  ASSUME AcceptInv, CloseInv', NEW c \in Calls, phase[c] = "working",
         NEW to \in {"check", "receive"}, stage[<<c, try[c]>>] \in {"turn/start", "check", "receive"},
         stage' = [stage EXCEPT ![<<c, try[c]>>] = to],
         UNCHANGED <<phase, try, cleaner, turn, answer, writes, owed>>
  PROVE  AcceptInv'
<1> DEFINE a == <<c, try[c]>>
<1>1. /\ try \in [Calls -> 1..MaxTries] /\ a \in Attempts
      /\ \A d \in Calls, n \in 1..MaxTries : <<d, n>> \in Attempts
  BY DEF AcceptInv, CloseInv, Attempts
<1>2. AcceptTypes' /\ OneStartQueued'
  BY DEF AcceptInv, AcceptTypes, OneStartQueued, Stages
<1>3. /\ stage'[a] = to /\ \A b \in Attempts \ {a} : stage'[b] = stage[b]
  BY <1>1 DEF AcceptInv, AcceptTypes
<1>4. \A b \in Attempts : (Queued(b)' <=> Queued(b)) /\ (Owing(b)' <=> Owing(b))
  BY DEF Queued, Owing
<1>5. \A b \in Attempts : StartInv(b)'
  <2> HIDE DEF Queued, Owing
  <2> QED
    BY <1>1, <1>3, <1>4 DEF AcceptInv, StartInv
<1>6. \A d \in Calls : TriesInv(d)'
  <2> SUFFICES ASSUME NEW d \in Calls PROVE TriesInv(d)'
    OBVIOUS
  <2>1. \A n \in 1..MaxTries : d # c \/ n # try[c] => <<d, n>> \in Attempts \ {a}
    BY <1>1
  <2>2. try[d] \in 1..MaxTries
    BY <1>1
  <2> QED
    BY <1>1, <1>3, <2>1, <2>2 DEF AcceptInv, TriesInv
<1> QED
  BY <1>2, <1>5, <1>6 DEF AcceptInv

\* An attempt ends; the next one is allowed only if this one was never accepted.
LEMMA EndAccepts ==
  ASSUME AcceptInv, CloseInv', NEW c \in Calls, phase[c] = "working", NEW again \in BOOLEAN,
         EndAttempt(c, again), again => turn[<<c, try[c]>>] = "unstarted"
  PROVE  AcceptInv'
<1> DEFINE a == <<c, try[c]>>
<1>1. /\ try \in [Calls -> 1..MaxTries] /\ a \in Attempts /\ phase \in [Calls -> Phases]
      /\ \A d \in Calls, n \in 1..MaxTries : <<d, n>> \in Attempts
  BY DEF AcceptInv, CloseInv, Attempts
<1>2. AcceptTypes' /\ OneStartQueued'
  BY DEF AcceptInv, AcceptTypes, OneStartQueued, Stages, EndAttempt, server
<1>3. /\ stage'[a] = "ended" /\ \A b \in Attempts \ {a} : stage'[b] = stage[b] /\ cleaner'[b] = cleaner[b]
      /\ UNCHANGED <<try, turn, answer, writes, owed>>
      /\ phase'[c] \in {"backoff", "done"} /\ (phase'[c] = "backoff" => again)
      /\ \A d \in Calls \ {c} : phase'[d] = phase[d]
  BY <1>1 DEF AcceptInv, AcceptTypes, EndAttempt, server, CloseInv
<1>4. \A b \in Attempts : (Queued(b)' <=> Queued(b)) /\ (Owing(b)' <=> Owing(b))
  BY <1>3 DEF Queued, Owing
<1>5. \A b \in Attempts : StartInv(b)'
  <2> HIDE DEF Queued, Owing
  <2>1. ASSUME NEW b \in Attempts, b = a PROVE StartInv(b)'
    BY <2>1, <1>1, <1>3, <1>4 DEF AcceptInv, StartInv
  <2>2. ASSUME NEW b \in Attempts \ {a} PROVE StartInv(b)'
    BY <1>1, <1>3, <1>4 DEF AcceptInv, StartInv
  <2> QED
    BY <2>1, <2>2
<1>6. \A d \in Calls : TriesInv(d)'
  <2>1. TriesInv(c)'
    <3>1. \A n \in 1..MaxTries : n # try[c] => <<c, n>> \in Attempts \ {a}
      BY <1>1
    <3>2. try[c] \in 1..MaxTries /\ try'[c] = try[c] /\ TriesInv(c)
      BY <1>1, <1>3 DEF AcceptInv
    <3>3. \A n \in 1..MaxTries : n # try[c] =>
             stage'[<<c, n>>] = stage[<<c, n>>] /\ turn'[<<c, n>>] = turn[<<c, n>>]
      BY <1>3, <3>1
    <3>4. phase'[c] = "backoff" => turn'[a] = "unstarted"
      BY <1>3
    <3> QED
      BY <1>3, <3>2, <3>3, <3>4 DEF TriesInv
  <2>2. ASSUME NEW d \in Calls \ {c} PROVE TriesInv(d)'
    <3>1. \A n \in 1..MaxTries : <<d, n>> \in Attempts \ {a}
      BY <1>1
    <3>2. try[d] \in 1..MaxTries
      BY <1>1
    <3> QED
      BY <1>1, <1>3, <3>1, <3>2 DEF AcceptInv, TriesInv
  <2> QED
    BY <2>1, <2>2
<1> QED
  BY <1>2, <1>5, <1>6 DEF AcceptInv
-----------------------------------------------------------------------------
\* A call waits, or is over, between its attempts.
LEMMA PhaseMoves ==
  ASSUME AcceptInv, CloseInv', NEW c \in Calls, NEW q \in {"ready", "done"},
         phase' = [phase EXCEPT ![c] = q], phase[c] \in {"idle", "ready", "backoff"},
         q = "ready" => phase[c] = "idle",
         UNCHANGED <<try, stage, cleaner, turn, answer, writes, owed>>
  PROVE  AcceptInv'
<1>1. AcceptTypes' /\ OneStartQueued'
  BY DEF AcceptInv, AcceptTypes, OneStartQueued
<1>2. \A a \in Attempts : StartInv(a)'
  BY DEF AcceptInv, StartInv, Queued, Owing
<1>3. phase'[c] = q /\ \A d \in Calls \ {c} : phase'[d] = phase[d]
  BY DEF AcceptInv, CloseInv
<1>4. \A d \in Calls : TriesInv(d)'
  BY <1>3 DEF AcceptInv, TriesInv
<1> QED
  BY <1>1, <1>2, <1>4 DEF AcceptInv

LEMMA RetryAccepts ==
  ASSUME AcceptInv, CloseInv', NEW c \in Calls, Retry(c)
  PROVE  AcceptInv'
<1>1. /\ phase[c] = "backoff" /\ UNCHANGED <<stage, cleaner, turn, answer, writes, owed>>
      /\ phase' = [phase EXCEPT ![c] = "ready"] /\ try' = [try EXCEPT ![c] = try[c] + 1]
  BY DEF Retry, server
<1>2. AcceptTypes' /\ OneStartQueued'
  BY <1>1 DEF AcceptInv, AcceptTypes, OneStartQueued
<1>3. \A a \in Attempts : StartInv(a)'
  BY <1>1 DEF AcceptInv, StartInv, Queued, Owing
<1>4. /\ phase'[c] = "ready" /\ try'[c] = try[c] + 1 /\ try[c] \in 1..MaxTries
      /\ try[c] + 1 \in 1..MaxTries
      /\ \A d \in Calls \ {c} : phase'[d] = phase[d] /\ try'[d] = try[d]
  BY <1>1, TransportAssumption DEF AcceptInv, CloseInv, RetryHasAttempt
<1>5. \A d \in Calls \ {c} : TriesInv(d)'
  BY <1>1, <1>4 DEF AcceptInv, TriesInv
<1>6. TriesInv(c)'
  <2>1. TriesInv(c)
    BY DEF AcceptInv
  <2>2. ASSUME NEW n \in 1..MaxTries
        PROVE  /\ n > try[c] + 1 => stage[<<c, n>>] = "none"
               /\ n < try[c] + 1 => stage[<<c, n>>] = "ended" /\ turn[<<c, n>>] = "unstarted"
    <3>1. (n > try[c] + 1 => n > try[c]) /\ (n < try[c] + 1 => n < try[c] \/ n = try[c])
      BY <1>4
    <3> QED
      BY <3>1, <2>1, <1>1 DEF TriesInv
  <2>3. stage[<<c, try[c] + 1>>] = "none"
    <3>1. try[c] + 1 > try[c]
      BY <1>4
    <3> QED
      BY <3>1, <2>1, <1>4 DEF TriesInv
  <2> QED
    BY <1>1, <1>4, <2>2, <2>3 DEF TriesInv
<1> QED
  BY <1>2, <1>3, <1>5, <1>6 DEF AcceptInv

\* thread/start is asked by an attempt that begins, turn/start by one whose
\* thread has started.
LEMMA CallAsks ==
  ASSUME AcceptInv, CloseInv', NEW c \in Calls, NEW m \in CallMethods,
         Ask(<<c, try[c]>>, m), stage' = [stage EXCEPT ![<<c, try[c]>>] = m],
         m = "thread/start" => phase[c] = "ready" /\ phase' = [phase EXCEPT ![c] = "working"],
         m = "turn/start" => phase[c] = "working" /\ phase' = phase /\ stage[<<c, try[c]>>] = "thread/start",
         UNCHANGED <<try, cleaner, turn, owed>>
  PROVE  AcceptInv'
<1> DEFINE a == <<c, try[c]>>
<1>1. /\ try \in [Calls -> 1..MaxTries] /\ a \in Attempts /\ m \in Asked
      /\ \A d \in Calls, n \in 1..MaxTries : <<d, n>> \in Attempts
  BY DEF AcceptInv, CloseInv, Attempts, Asked
<1>2. /\ stage[a] \in {"none", "thread/start"} /\ StartInv(a) /\ TriesInv(c)
      /\ m = "thread/start" \/ m = "turn/start"
  BY <1>1 DEF AcceptInv, TriesInv, CallMethods
<1>3. turn[a] = "unstarted" /\ ~Queued(a) /\ ~Owing(a) /\ cleaner[a] = "none"
  BY <1>2 DEF StartInv
<1>4. PICK text \in {"none", "closed"} :
        /\ writes' \in Seq(Lines) /\ OneStartQueued'
        /\ \A b \in Attempts : Queued(b)' => Queued(b) \/ (b = a /\ m = "turn/start")
        /\ answer' = [answer EXCEPT ![a] = text]
  BY <1>1, <1>3, AskWrites DEF AcceptInv
<1>5. AcceptTypes'
  BY <1>1, <1>4 DEF AcceptInv, AcceptTypes, Stages, AnswerTexts, Asked
<1>6. /\ stage'[a] = m /\ answer'[a] = text
      /\ \A b \in Attempts \ {a} : stage'[b] = stage[b] /\ answer'[b] = answer[b]
  BY <1>1, <1>4 DEF AcceptInv, AcceptTypes
<1>7. \A b \in Attempts : StartInv(b)'
  <2>1. \A b \in Attempts : Owing(b)' <=> Owing(b)
    BY DEF Owing
  <2>2. <<a, "turn/start", "overload">> \notin owed
    BY <1>3 DEF Owing, AnswerTexts, AnswerKinds
  <2> HIDE DEF Queued, Owing
  <2>3. ASSUME NEW b \in Attempts, b = a PROVE StartInv(b)'
    BY <2>1, <2>2, <2>3, <1>2, <1>3, <1>4, <1>6 DEF StartInv
  <2>4. ASSUME NEW b \in Attempts \ {a} PROVE StartInv(b)'
    BY <2>1, <1>4, <1>6 DEF AcceptInv, StartInv
  <2> QED
    BY <2>3, <2>4
<1>8. \A d \in Calls : TriesInv(d)'
  <2>1. /\ try'[c] = try[c] /\ phase'[c] = "working"
        /\ \A d \in Calls \ {c} : phase'[d] = phase[d]
    BY <1>2 DEF AcceptInv, CloseInv
  <2>2. TriesInv(c)'
    <3>1. \A n \in 1..MaxTries : n # try[c] => <<c, n>> \in Attempts \ {a}
      BY <1>1
    <3>2. \A n \in 1..MaxTries : n # try[c] => stage'[<<c, n>>] = stage[<<c, n>>]
      BY <1>6, <3>1
    <3>3. try[c] \in 1..MaxTries
      BY <1>1
    <3> QED
      BY <1>2, <2>1, <3>2, <3>3 DEF TriesInv
  <2>3. ASSUME NEW d \in Calls \ {c} PROVE TriesInv(d)'
    <3>1. \A n \in 1..MaxTries : <<d, n>> \in Attempts \ {a}
      BY <1>1
    <3>2. try[d] \in 1..MaxTries /\ TriesInv(d)
      BY <1>1 DEF AcceptInv
    <3>3. \A n \in 1..MaxTries : stage'[<<d, n>>] = stage[<<d, n>>]
      BY <1>6, <3>1
    <3> QED
      BY <2>1, <3>2, <3>3 DEF TriesInv
  <2> QED
    BY <2>2, <2>3
<1> QED
  BY <1>4, <1>5, <1>7, <1>8 DEF AcceptInv

LEMMA CallAccepts ==
  ASSUME AcceptInv, CloseInv', NEW c \in Calls, Enter(c) \/ Call(c) \/ Deadline(c)
  PROVE  AcceptInv'
<1> USE DEF calls, server, activity
<1>0. AcceptTypes
  BY DEF AcceptInv
<1>1. CASE Enter(c)
  BY <1>1, PhaseMoves DEF Enter
<1>2. CASE StartAttempt(c)
  BY <1>2, CallAsks DEF StartAttempt, CallMethods
<1>3. CASE ThreadStarted(c)
  BY <1>3, CallAsks DEF ThreadStarted, CallMethods
<1>4. CASE TurnStarted(c)
  BY <1>4, StageMoves DEF TurnStarted
<1>5. CASE StartRejected(c)
  <2>1. /\ stage[<<c, try[c]>>] \in {"thread/start", "turn/start"} /\ <<c, try[c]>> \in Attempts
    BY <1>5 DEF StartRejected, CallMethods, AcceptInv, CloseInv, Attempts
  <2>2. Retryable(answer[<<c, try[c]>>]) => turn[<<c, try[c]>>] = "unstarted"
    BY <2>1 DEF Retryable, AcceptInv, StartInv
  <2> QED
    BY <1>5, <2>2, EndAccepts DEF StartRejected, Retryable
<1>6. CASE CheckEvents(c)
  BY <1>6, EndAccepts, StageMoves DEF CheckEvents
<1>7. CASE ReceiveEvent(c)
  BY <1>7, EndAccepts, StageMoves DEF ReceiveEvent
<1>8. CASE Retry(c)
  BY <1>8, RetryAccepts
<1>9. CASE DropLease(c) \/ NotifyWaiters(c)
  BY <1>9, <1>0, AcceptQuiet DEF DropLease, NotifyWaiters, AcceptTypes
<1>10. CASE Deadline(c)
  BY <1>10, EndAccepts, PhaseMoves DEF Deadline
<1> QED
  BY <1>1, <1>2, <1>3, <1>4, <1>5, <1>6, <1>7, <1>8, <1>9, <1>10 DEF Call
-----------------------------------------------------------------------------
\* A cleanup asks other things than turn/start, for an attempt that has ended.
LEMMA CleanupAccepts ==
  ASSUME AcceptInv, CloseInv', NEW a \in Attempts, Cleanup(a) \/ GiveUpSeeking(a) \/ CleanupTimeout(a)
  PROVE  AcceptInv'
<1>1. /\ UNCHANGED <<phase, try, stage, turn, owed>> /\ cleaner[a] # "none"
      /\ \A b \in Attempts \ {a} : cleaner'[b] = cleaner[b]
      /\ UNCHANGED <<answer, writes>> \/ \E m \in CleanupMethods : Ask(a, m)
  BY DEF Cleanup, Look, Seek, GiveUpSeeking, Snapshot, CleanupContinues, CleanupTimeout,
         NameThread, Sweep, Elsewhere, Clean, calls, server, activity, CleanupMethods, AcceptInv, CloseInv
<1>2. stage[a] = "ended"
  BY <1>1 DEF AcceptInv, StartInv
<1>3. /\ writes' \in Seq(Lines) /\ OneStartQueued' /\ answer' \in [Attempts -> AnswerTexts]
      /\ \A b \in Attempts : Queued(b)' => Queued(b)
      /\ \A b \in Attempts \ {a} : answer'[b] = answer[b]
  <2>1. CASE UNCHANGED <<answer, writes>>
    BY <2>1 DEF AcceptInv, AcceptTypes, OneStartQueued, Queued
  <2>2. CASE \E m \in CleanupMethods : Ask(a, m)
    <3>1. PICK m \in CleanupMethods : Ask(a, m)
      BY <2>2
    <3>2. m \in Asked /\ m # "turn/start"
      BY DEF Asked, CleanupMethods
    <3>3. /\ writes' \in Seq(Lines) /\ OneStartQueued'
          /\ \A b \in Attempts : Queued(b)' => Queued(b) \/ (b = a /\ m = "turn/start")
          /\ \E text \in {"none", "closed"} : answer' = [answer EXCEPT ![a] = text]
      BY <3>1, <3>2, AskWrites DEF AcceptInv
    <3> QED
      BY <3>2, <3>3 DEF AcceptInv, AcceptTypes, AnswerTexts
  <2> QED
    BY <1>1, <2>1, <2>2
<1>4. AcceptTypes'
  BY <1>1, <1>3 DEF AcceptInv, AcceptTypes
<1>5. \A b \in Attempts : StartInv(b)'
  <2>1. \A b \in Attempts : Owing(b)' <=> Owing(b)
    BY <1>1 DEF Owing
  <2> HIDE DEF Queued, Owing
  <2>2. StartInv(a)'
    BY <2>1, <1>1, <1>2, <1>3 DEF AcceptInv, StartInv
  <2>3. ASSUME NEW b \in Attempts \ {a} PROVE StartInv(b)'
    BY <2>1, <1>1, <1>3 DEF AcceptInv, StartInv
  <2> QED
    BY <2>2, <2>3
<1>6. \A c \in Calls : TriesInv(c)'
  BY <1>1, TriesQuiet
<1> QED
  BY <1>3, <1>4, <1>5, <1>6 DEF AcceptInv

\* The server takes a turn/start that is still awaited, at most once.
LEMMA ServeAccepts ==
  ASSUME AcceptInv, CloseInv', NEW a \in Attempts, NEW m \in Asked,
         writes # <<>>, Head(writes) = <<a, m>>, writes' = Tail(writes), Awaited(a, m), Serve(a, m),
         UNCHANGED <<phase, try, stage, cleaner, answer>>
  PROVE  AcceptInv'
<1>1. /\ writes' \in Seq(Lines) /\ OneStartQueued'
      /\ \A b \in Attempts : Queued(b)' => Queued(b)
      /\ m = "turn/start" => Queued(a) /\ ~Queued(a)'
  BY TakeWrite DEF AcceptInv, AcceptTypes
<1>2. /\ turn' \in [Attempts -> {"unstarted", "running", "over"}]
      /\ \A b \in Attempts \ {a} : turn'[b] = turn[b]
      /\ m # "turn/start" => \A b \in Attempts : turn[b] = "unstarted" => turn'[b] = "unstarted"
  BY DEF Serve, Asked, CallMethods, CleanupMethods, AcceptInv, AcceptTypes
<1>3. PICK text \in AnswerTexts :
        /\ owed' = owed \/ owed' = owed \cup {<<a, m, text>>}
        /\ m = "turn/start" /\ text = "overload" => turn'[a] = "unstarted"
        /\ m # "turn/start" => (turn[a] = "unstarted" <=> turn'[a] = "unstarted")
  <2>1. turn[a] \in {"unstarted", "running", "over"} /\ a \in DOMAIN turn
    BY DEF AcceptInv, AcceptTypes
  <2>2. CASE m = "turn/start"
    <3>1. PICK kind \in Answers \ {"mismatch"} :
            /\ turn' \in {[turn EXCEPT ![a] = t] : t \in
                             CASE kind = "ok" -> {"running"} [] kind = "overload" -> {"unstarted"}
                               [] OTHER -> {"unstarted", "running"}}
            /\ Owe(a, m, kind) \/ UNCHANGED owed
      BY <2>2 DEF Serve
    <3>2. kind \in AnswerTexts
      BY TransportAssumption DEF AnswerTexts
    <3>3. kind = "overload" => turn'[a] = "unstarted"
      BY <3>1, <2>1
    <3> QED
      BY <3>1, <3>2, <3>3, <2>2 DEF Owe
  <2>3. CASE m = "thread/start"
    BY <2>3, TransportAssumption DEF Serve, Owe, AnswerTexts
  <2>4. CASE m = "thread/read"
    BY <2>1, <2>4 DEF Serve, Owe, AnswerTexts
  <2>5. CASE m = "turn/interrupt" \/ m = "thread/unsubscribe"
    BY <2>1, <2>5 DEF Serve, Owe, AnswerTexts, AnswerKinds
  <2> QED
    BY <2>2, <2>3, <2>4, <2>5 DEF Asked, CallMethods, CleanupMethods
<1>4. AcceptTypes'
  <2>1. owed' \subseteq Attempts \X Asked \X AnswerTexts
    BY <1>3 DEF AcceptInv, AcceptTypes
  <2> QED
    BY <1>1, <1>2, <2>1 DEF AcceptInv, AcceptTypes
<1>5. \A b \in Attempts \ {a} : StartInv(b)'
  BY <1>1, <1>2, <1>3, StartQuiet DEF AcceptInv
<1>6. ASSUME m = "turn/start" PROVE StartInv(a)'
  <2>1. /\ stage[a] = "turn/start" /\ StartInv(a) /\ Queued(a) /\ ~Queued(a)'
    BY <1>1, <1>6 DEF Awaited, CallMethods, AcceptInv
  <2>2. ~Owing(a) /\ answer[a] \in {"none", "closed"} /\ cleaner[a] = "none"
    BY <2>1 DEF StartInv
  <2>3. <<a, "turn/start", "overload">> \in owed' => turn'[a] = "unstarted"
    BY <2>2, <1>3, <1>6 DEF Owing, AnswerTexts, AnswerKinds
  <2> QED
    BY <2>1, <2>2, <2>3 DEF StartInv
<1>7. ASSUME m # "turn/start" PROVE StartInv(a)'
  <2>1. \A kind : <<a, "turn/start", kind>> \in owed' => <<a, "turn/start", kind>> \in owed
    BY <1>3, <1>7
  <2>2. Owing(a)' => Owing(a)
    BY <2>1 DEF Owing
  <2>3. turn[a] = "unstarted" <=> turn'[a] = "unstarted"
    BY <1>3, <1>7
  <2> HIDE DEF Queued, Owing
  <2> QED
    BY <1>1, <2>1, <2>2, <2>3 DEF AcceptInv, StartInv
<1>8. \A c \in Calls : TriesInv(c)'
  <2>1. \A b \in Attempts : turn[b] = "unstarted" /\ stage[b] # "turn/start" => turn'[b] = "unstarted"
    BY <1>2, <1>3 DEF Awaited, CallMethods
  <2> QED
    BY <2>1, TriesQuiet
<1> QED
  BY <1>1, <1>4, <1>5, <1>6, <1>7, <1>8 DEF AcceptInv

LEMMA WriteAccepts == ASSUME AcceptInv, CloseInv', WriteNext PROVE AcceptInv'
<1> DEFINE w == Head(writes)
<1>1. /\ writes # <<>> /\ writes' = Tail(writes) /\ UNCHANGED <<phase, try, stage, cleaner>>
  BY DEF WriteNext, calls
<1>2. /\ writes' \in Seq(Lines) /\ OneStartQueued' /\ w \in Lines
      /\ \A b \in Attempts : Queued(b)' => Queued(b)
  BY <1>1, TakeWrite DEF AcceptInv, AcceptTypes
<1>3. PICK a \in Attempts, m \in Asked \cup {"refusal"} : w = <<a, m>>
  BY <1>2 DEF Lines
<1>4. CASE m # "refusal" /\ Awaited(a, m) /\ alive
  <2>1. Serve(a, m) /\ UNCHANGED answer
    BY <1>3, <1>4 DEF WriteNext
  <2> QED
    BY <1>1, <1>3, <1>4, <2>1, ServeAccepts
<1>5. CASE ~(m # "refusal" /\ Awaited(a, m) /\ alive)
  <2>1. UNCHANGED <<turn, owed>> /\ (FailSession \/ UNCHANGED answer)
    BY <1>3, <1>5 DEF WriteNext, server
  <2>2. /\ answer' \in [Attempts -> AnswerTexts]
        /\ \A b \in Attempts : answer'[b] \in {answer[b], "closed"}
    BY <2>1, FailAnswers DEF AcceptInv, AcceptTypes
  <2>3. \A b \in Attempts : StartInv(b)'
    BY <1>1, <1>2, <2>1, <2>2, StartQuiet DEF AcceptInv
  <2>4. \A c \in Calls : TriesInv(c)'
    BY <1>1, <2>1, TriesQuiet
  <2>5. AcceptTypes'
    BY <1>1, <1>2, <2>1, <2>2 DEF AcceptInv, AcceptTypes
  <2> QED
    BY <1>2, <2>3, <2>4, <2>5 DEF AcceptInv
<1> QED
  BY <1>4, <1>5

LEMMA RouteAnswers ==
  ASSUME AcceptTypes, NEW a, NEW e, Route(a, e)
  PROVE  /\ answer' \in [Attempts -> AnswerTexts]
         /\ \A b \in Attempts : answer'[b] \in {answer[b], "closed"}
  BY FailAnswers DEF Route, AcceptTypes

\* An event ends a running turn and starts none.
LEMMA EmitAccepts ==
  ASSUME AcceptInv, CloseInv', NEW a \in Attempts, NEW kind \in Kinds, Emit(a, kind)
  PROVE  AcceptInv'
<1>1. /\ UNCHANGED <<phase, try, stage, cleaner, owed>>
      /\ turn' = turn \/ (turn[a] = "running" /\ turn' = [turn EXCEPT ![a] = "over"])
  BY DEF Emit, calls
<1>2. /\ answer' \in [Attempts -> AnswerTexts]
      /\ \A b \in Attempts : answer'[b] \in {answer[b], "closed"}
  BY RouteAnswers DEF Emit, AcceptInv, AcceptTypes
<1>3. /\ writes' \in Seq(Lines) /\ OneStartQueued'
      /\ \A b \in Attempts : Queued(b)' => Queued(b)
  <2>1. CASE UNCHANGED writes
    BY <2>1 DEF AcceptInv, AcceptTypes, OneStartQueued, Queued
  <2>2. CASE writes' = Append(writes, <<a, "refusal">>)
    BY <2>2, AppendWrite, <<a, "refusal">> \in Lines DEF AcceptInv, AcceptTypes, Lines
  <2> QED
    BY <2>1, <2>2 DEF Emit
<1>4. AcceptTypes'
  BY <1>1, <1>2, <1>3 DEF AcceptInv, AcceptTypes
<1>5. \A b \in Attempts \ {a} : StartInv(b)'
  BY <1>1, <1>2, <1>3, StartQuiet DEF AcceptInv, AcceptTypes
<1>6. StartInv(a)'
  <2>1. Owing(a)' <=> Owing(a)
    BY <1>1 DEF Owing
  <2>2. turn'[a] = turn[a] \/ turn[a] = "running"
    BY <1>1
  <2> HIDE DEF Queued, Owing
  <2> QED
    BY <1>1, <1>2, <1>3, <2>1, <2>2 DEF AcceptInv, StartInv
<1>7. \A c \in Calls : TriesInv(c)'
  <2>1. \A b \in Attempts : turn[b] = "unstarted" /\ stage[b] # "turn/start" => turn'[b] = "unstarted"
    BY <1>1 DEF AcceptInv, AcceptTypes
  <2> QED
    BY <1>1, <2>1, TriesQuiet
<1> QED
  BY <1>3, <1>4, <1>5, <1>6, <1>7 DEF AcceptInv

\* An answer that is awaited is the one the server gave.
LEMMA RespondAccepts ==
  ASSUME AcceptInv, CloseInv', NEW r \in owed, Respond(r[1], r[2], r[3])
  PROVE  AcceptInv'
<1>1. PICK a \in Attempts, m \in Asked, text \in AnswerTexts : r = <<a, m, text>>
  BY DEF AcceptInv, AcceptTypes
<1>2. /\ <<a, m, text>> \in owed /\ owed' = owed \ {<<a, m, text>>}
      /\ UNCHANGED <<phase, try, stage, cleaner, turn, writes>>
      /\ answer' = answer \/ (Awaited(a, m) /\ answer' = [answer EXCEPT ![a] = text])
  BY <1>1 DEF Respond, calls
<1>3. AcceptTypes' /\ OneStartQueued'
  BY <1>2 DEF AcceptInv, AcceptTypes, OneStartQueued
<1>4. \A b \in Attempts : Queued(b)' <=> Queued(b)
  BY <1>2 DEF Queued
<1>5. \A b \in Attempts \ {a} : StartInv(b)'
  BY <1>2, <1>4, StartQuiet DEF AcceptInv, AcceptTypes
<1>6. StartInv(a)'
  <2>1. CASE answer'[a] = answer[a]
    BY <2>1, <1>2, <1>4, StartQuiet DEF AcceptInv
  <2>2. CASE Awaited(a, m) /\ answer'[a] = text
    <3>1. Owing(a)' => Owing(a)
      BY <1>2 DEF Owing
    <3>2. m = "turn/start" => Owing(a)
      BY <1>2 DEF Owing
    <3>3. stage[a] = "turn/start" => m = "turn/start"
      BY <2>2 DEF Awaited, Asked, CallMethods, CleanupMethods, AcceptInv, StartInv
    <3>4. m = "turn/start" /\ text = "overload" => turn[a] = "unstarted"
      BY <1>2 DEF AcceptInv, StartInv
    <3> HIDE DEF Queued, Owing
    <3> QED
      BY <2>2, <1>2, <1>4, <3>1, <3>2, <3>3, <3>4 DEF AcceptInv, StartInv
  <2> QED
    BY <2>1, <2>2, <1>2 DEF AcceptInv, AcceptTypes
<1>7. \A c \in Calls : TriesInv(c)'
  BY <1>2, TriesQuiet
<1> QED
  BY <1>3, <1>5, <1>6, <1>7 DEF AcceptInv

LEMMA StepAccept == AcceptInv /\ [Next]_vars => AcceptInv'
<1> SUFFICES ASSUME AcceptInv, [Next]_vars PROVE AcceptInv'
  OBVIOUS
<1>0. CloseInv' /\ AcceptTypes
  BY StepClose DEF AcceptInv
<1> USE DEF calls, server, activity
<1>1. CASE \E c \in Calls : Enter(c) \/ Call(c) \/ Deadline(c)
  BY <1>0, <1>1, CallAccepts
<1>2. CASE \E a \in Attempts : Cleanup(a) \/ GiveUpSeeking(a) \/ CleanupTimeout(a)
  BY <1>0, <1>2, CleanupAccepts
<1>3. CASE \E a \in Attempts, kind \in Kinds : Emit(a, kind)
  BY <1>0, <1>3, EmitAccepts
<1>4. CASE \E r \in owed : Respond(r[1], r[2], r[3])
  BY <1>0, <1>4, RespondAccepts
<1>5. CASE WriteNext
  BY <1>0, <1>5, WriteAccepts
<1>6. CASE RouteRefused
  BY <1>0, <1>6, RouteAnswers, AcceptQuiet DEF RouteRefused
<1>7. CASE EndOfOutput
  BY <1>0, <1>7, FailAnswers, AcceptQuiet DEF EndOfOutput
<1>8. CASE Exit
  BY <1>0, <1>8, AcceptQuiet DEF Exit, AcceptTypes
<1>9. CASE Listen \/ CountLeases
  BY <1>0, <1>9, AcceptQuiet DEF Listen, CountLeases, Untouched, AcceptTypes
<1>10. CASE Stop
  BY <1>0, <1>10, FailAnswers, AcceptQuiet DEF Stop, Untouched
<1>11. CASE UNCHANGED vars
  BY <1>0, <1>11, AcceptQuiet DEF vars, AcceptTypes
<1> QED
  BY <1>1, <1>2, <1>3, <1>4, <1>5, <1>6, <1>7, <1>8, <1>9, <1>10, <1>11 DEF Next, Close

\* Of the attempts of a call at most one has its turn accepted by the server,
\* whatever is cancelled, late, lost or retried (decide_inner retries only what
\* rpc_failure calls an explicit rejection).
THEOREM TurnsAreAcceptedOnce == Spec => []OneAcceptedTurn
<1>1. AcceptInv => OneAcceptedTurn
  <2> SUFFICES ASSUME AcceptInv, NEW c \in Calls
               PROVE  Cardinality({n \in 1..MaxTries : turn[<<c, n>>] # "unstarted"}) <= 1
    BY DEF OneAcceptedTurn
  <2>1. try[c] \in 1..MaxTries /\ \A n \in 1..MaxTries : <<c, n>> \in Attempts
    BY DEF AcceptInv, CloseInv, Attempts
  <2>2. ASSUME NEW n \in 1..MaxTries, turn[<<c, n>>] # "unstarted" PROVE n = try[c]
    <3>1. n < try[c] \/ n = try[c] \/ n > try[c]
      BY <2>1
    <3> QED
      BY <2>1, <2>2, <3>1 DEF AcceptInv, TriesInv, StartInv
  <2>3. {n \in 1..MaxTries : turn[<<c, n>>] # "unstarted"} \in {{}, {try[c]}}
    BY <2>2
  <2>4. ASSUME NEW S \in {{}, {try[c]}} PROVE Cardinality(S) <= 1
    <3>1. Cardinality(S) = 0 \/ Cardinality(S) = 1
      BY FS_EmptySet, FS_Singleton
    <3> QED
      BY <3>1
  <2> QED
    BY <2>3, <2>4
<1> QED
  BY <1>1, InitAccept, StepAccept, PTL DEF Spec
-----------------------------------------------------------------------------
(* Who waits has his request registered until the answer is there, so the    *)
(* failure of the session, which answers what is registered and marks what   *)
(* is routed, reaches everyone.                                              *)

Fields == {"thread", "turn", "completed", "failed", "queue"}
Shaped == DOMAIN sub = Attempts /\ \A a \in Attempts : DOMAIN sub[a] = Fields

\* An attempt that waits for events, or soon may, is routed.
Subscribed(a) ==
  \/ stage[a] \in {"turn/start", "check", "receive"}
  \/ stage[a] = "thread/start" /\ answer[a] = "ok"
WaitInv(a) ==
  /\ stage[a] \in CallMethods /\ answer[a] = "none" => <<a, stage[a]>> \in pending
  /\ cleaner[a] \in CleanupMethods /\ answer[a] = "none" => <<a, cleaner[a]>> \in pending
  /\ Subscribed(a) => a \in routes

\* A closed session has nothing pending and has marked every subscription it routes.
ClosedInv == closed => pending = {} /\ \A a \in routes : sub[a].failed = TRUE
OwedTexts == \A a \in Attempts, m \in Asked : <<a, m, "none">> \notin owed

SessionInv ==
  /\ Shaped /\ routes \subseteq Attempts /\ closed \in BOOLEAN
  /\ ClosedInv /\ OwedTexts /\ \A a \in Attempts : WaitInv(a)
WakeInv == AcceptInv /\ SessionInv

LEMMA InitWake == Init => WakeInv
<1> SUFFICES ASSUME Init PROVE WakeInv
  OBVIOUS
<1>1. AcceptInv
  BY InitAccept
<1>2. /\ sub = [a \in Attempts |-> NewSubscription] /\ routes = {} /\ closed = FALSE /\ owed = {}
      /\ \A a \in Attempts : stage[a] = "none" /\ cleaner[a] = "none"
  BY DEF Init
<1>3. Shaped
  BY <1>2 DEF Shaped, Fields, NewSubscription
<1> QED
  BY <1>1, <1>2, <1>3 DEF WakeInv, SessionInv, ClosedInv, OwedTexts, WaitInv, Subscribed, CallMethods, CleanupMethods

\* Nobody moves; what was answered stays answered.
LEMMA FailWakes ==
  ASSUME WakeInv, FailSession, UNCHANGED <<stage, cleaner, owed>>
  PROVE  SessionInv'
<1> USE DEF WakeInv, SessionInv
<1>1. CASE closed
  BY <1>1 DEF FailSession, table, Shaped, ClosedInv, OwedTexts, WaitInv, Subscribed
<1>2. CASE ~closed
  <2>1. /\ closed' = TRUE /\ pending' = {} /\ routes' = routes
        /\ answer' = [a \in Attempts |->
                        IF \E m \in Asked : <<a, m>> \in pending /\ Awaited(a, m) THEN "closed" ELSE answer[a]]
        /\ sub' = [a \in Attempts |->
                     IF a \in routes THEN [Offered(a, sub[a], Nudge(a)) EXCEPT !.failed = TRUE] ELSE sub[a]]
    BY <1>2 DEF FailSession, Asked
  <2>2. \A a \in Attempts : DOMAIN Offered(a, sub[a], Nudge(a)) = Fields
    BY DEF Offered, Shaped
  <2>3. Shaped' /\ \A a \in routes : sub'[a].failed = TRUE
    BY <2>1, <2>2 DEF Shaped, Fields
  <2>4. ASSUME NEW a \in Attempts PROVE WaitInv(a)'
    <3>1. answer'[a] = "closed" \/ (answer'[a] = answer[a] /\ ~\E m \in Asked : <<a, m>> \in pending /\ Awaited(a, m))
      BY <2>1
    <3>2. WaitInv(a)
      OBVIOUS
    <3>3. stage[a] \in CallMethods => stage[a] \in Asked /\ Awaited(a, stage[a])
      BY DEF Awaited, Asked
    <3>4. cleaner[a] \in CleanupMethods => cleaner[a] \in Asked /\ Awaited(a, cleaner[a])
      BY DEF Awaited, Asked, CallMethods, CleanupMethods
    <3> QED
      BY <2>1, <3>1, <3>2, <3>3, <3>4 DEF WaitInv, Subscribed
  <2> QED
    BY <2>1, <2>3, <2>4 DEF ClosedInv, OwedTexts
<1> QED
  BY <1>1, <1>2

LEMMA DeliveredShape ==
  ASSUME NEW a \in Attempts, NEW s, NEW e, DOMAIN s = Fields
  PROVE  DOMAIN Delivered(a, s, e) = Fields /\ (s.failed = TRUE => Delivered(a, s, e).failed = TRUE)
<1> DEFINE t == Offered(a, s, e)
<1>1. DOMAIN t = Fields /\ t.failed = s.failed
  BY DEF Offered, Fields
<1>2. Delivered(a, s, e) =
        [t EXCEPT !.turn = @ \/ e.turn,
                  !.completed = @ \/ e.kind \in {"completed", "turn_failed"},
                  !.failed = @ \/ e.kind = "request" \/ t = s]
  BY DEF Delivered
<1> HIDE DEF t
<1>3. DOMAIN Delivered(a, s, e) = Fields
  BY <1>1, <1>2 DEF Fields
<1>4. Delivered(a, s, e).failed = (t.failed \/ e.kind = "request" \/ t = s)
  BY <1>1, <1>2 DEF Fields
<1> QED
  BY <1>1, <1>3, <1>4

LEMMA RouteWakes ==
  ASSUME WakeInv, NEW a, NEW e, Route(a, e), UNCHANGED <<stage, cleaner, owed>>
  PROVE  SessionInv'
<1> USE DEF WakeInv, SessionInv
<1>1. CASE a \in routes
  <2>1. /\ sub' = [sub EXCEPT ![a] = Delivered(a, sub[a], e)] /\ UNCHANGED <<pending, routes, closed, answer>>
        /\ a \in Attempts
    BY <1>1 DEF Route, table
  <2>2. Shaped' /\ \A b \in Attempts : sub[b].failed = TRUE => sub'[b].failed = TRUE
    BY <2>1, DeliveredShape DEF Shaped
  <2> QED
    BY <2>1, <2>2 DEF ClosedInv, OwedTexts, WaitInv, Subscribed
<1>2. CASE FailSession
  BY <1>2, FailWakes
<1>3. CASE UNCHANGED <<pending, routes, closed, answer, sub>>
  BY <1>3 DEF Shaped, ClosedInv, OwedTexts, WaitInv, Subscribed
<1> QED
  BY <1>1, <1>2, <1>3 DEF Route, table

\* Steps that leave the session alone and take nobody into a wait.
LEMMA QuietWakes ==
  ASSUME WakeInv, NEW a \in Attempts, UNCHANGED <<answer, sub, pending, routes, closed, owed>>,
         \A b \in Attempts \ {a} : stage'[b] = stage[b] /\ cleaner'[b] = cleaner[b],
         stage'[a] \in CallMethods => stage'[a] = stage[a],
         cleaner'[a] \in CleanupMethods => cleaner'[a] = cleaner[a],
         stage'[a] \in {"check", "receive"} => stage[a] \in {"turn/start", "check", "receive"}
  PROVE  SessionInv'
<1> USE DEF WakeInv, SessionInv
<1>1. WaitInv(a)'
  BY DEF WaitInv, Subscribed, CallMethods
<1>2. \A b \in Attempts \ {a} : WaitInv(b)'
  BY DEF WaitInv, Subscribed
<1> QED
  BY <1>1, <1>2 DEF Shaped, ClosedInv, OwedTexts

\* A request is asked, by the attempt or by its cleanup.
LEMMA AskWakes ==
  ASSUME WakeInv, NEW a \in Attempts, NEW m \in Asked, Ask(a, m), UNCHANGED <<sub, routes, closed, owed>>,
         \A b \in Attempts \ {a} : stage'[b] = stage[b] /\ cleaner'[b] = cleaner[b],
         stage'[a] \notin {"check", "receive"}, stage'[a] \in CallMethods => stage'[a] = m,
         cleaner'[a] \in CleanupMethods => cleaner'[a] = m,
         stage'[a] = "turn/start" => a \in routes
  PROVE  SessionInv'
<1> USE DEF WakeInv, SessionInv
<1>1. /\ answer' \in [Attempts -> AnswerTexts] /\ \A b \in Attempts \ {a} : answer'[b] = answer[b]
      /\ answer'[a] \in {"none", "closed"}
      /\ pending \subseteq pending' /\ (answer'[a] = "none" => <<a, m>> \in pending')
      /\ closed => pending' = pending
  BY DEF Ask, AcceptInv, AcceptTypes, AnswerTexts
<1>2. WaitInv(a)'
  BY <1>1 DEF WaitInv, Subscribed, CallMethods
<1>3. \A b \in Attempts \ {a} : WaitInv(b)'
  BY <1>1 DEF WaitInv, Subscribed
<1> QED
  BY <1>1, <1>2, <1>3 DEF Shaped, ClosedInv, OwedTexts
-----------------------------------------------------------------------------
\* The attempt ends: nobody waits in it any more, and its cleanup looks first.
LEMMA EndWakes ==
  ASSUME WakeInv, NEW c \in Calls, NEW again \in BOOLEAN, EndAttempt(c, again)
  PROVE  SessionInv'
<1> DEFINE a == <<c, try[c]>>
<1>1. a \in Attempts
  BY DEF WakeInv, AcceptInv, CloseInv, Attempts
<1>2. /\ UNCHANGED <<answer, sub, pending, routes, closed, owed>>
      /\ stage' = [stage EXCEPT ![a] = "ended"] /\ cleaner' = [cleaner EXCEPT ![a] = "look"]
  BY DEF EndAttempt, table, server
<1>3. /\ stage'[a] = "ended" /\ cleaner'[a] = "look"
      /\ \A b \in Attempts \ {a} : stage'[b] = stage[b] /\ cleaner'[b] = cleaner[b]
  BY <1>1, <1>2 DEF WakeInv, AcceptInv, CloseInv, AcceptTypes
<1> HIDE DEF a
<1> QED
  BY <1>1, <1>2, <1>3, QuietWakes DEF CallMethods, CleanupMethods

\* Steps that touch neither the session nor where the attempts are.
LEMMA StillWakes ==
  ASSUME WakeInv, UNCHANGED <<answer, sub, pending, routes, closed, owed, stage, cleaner>>
  PROVE  SessionInv'
BY DEF WakeInv, SessionInv, Shaped, ClosedInv, OwedTexts, WaitInv, Subscribed

LEMMA CallWakes ==
  ASSUME WakeInv, NEW c \in Calls, Enter(c) \/ Call(c) \/ Deadline(c)
  PROVE  SessionInv'
<1> DEFINE a == <<c, try[c]>>
<1>1. /\ a \in Attempts /\ stage \in [Attempts -> Stages] /\ StartInv(a) /\ WaitInv(a) /\ Shaped
  BY DEF WakeInv, SessionInv, AcceptInv, CloseInv, AcceptTypes, Attempts
<1>2. "thread/start" \in Asked /\ "turn/start" \in Asked
  BY DEF Asked, CallMethods
<1>3. CASE Enter(c) \/ Retry(c) \/ DropLease(c) \/ NotifyWaiters(c)
  BY <1>3, StillWakes DEF Enter, Retry, DropLease, NotifyWaiters, table, server, calls
<1>4. CASE StartAttempt(c)
  <2>1. /\ Ask(a, "thread/start") /\ stage' = [stage EXCEPT ![a] = "thread/start"]
        /\ UNCHANGED <<sub, routes, closed, owed, cleaner>> /\ phase[c] = "ready"
    BY <1>4 DEF StartAttempt, server
  <2>2. cleaner[a] \notin CleanupMethods
    <3>1. stage[a] = "none"
      BY <2>1 DEF WakeInv, AcceptInv, TriesInv
    <3> QED
      BY <3>1, <1>1 DEF StartInv, CleanupMethods
  <2>3. stage'[a] = "thread/start" /\ \A b \in Attempts \ {a} : stage'[b] = stage[b]
    BY <1>1, <2>1
  <2> HIDE DEF a
  <2> QED
    BY <1>1, <1>2, <2>1, <2>2, <2>3, AskWakes
<1>5. CASE ThreadStarted(c)
  <2>1. /\ Ask(a, "turn/start") /\ stage' = [stage EXCEPT ![a] = "turn/start"]
        /\ UNCHANGED <<sub, routes, closed, owed, cleaner>>
        /\ stage[a] = "thread/start" /\ answer[a] = "ok"
    BY <1>5 DEF ThreadStarted, server
  <2>2. cleaner[a] \notin CleanupMethods /\ a \in routes
    BY <1>1, <2>1 DEF StartInv, CleanupMethods, WaitInv, Subscribed
  <2>3. stage'[a] = "turn/start" /\ \A b \in Attempts \ {a} : stage'[b] = stage[b]
    BY <1>1, <2>1
  <2> HIDE DEF a
  <2> QED
    BY <1>1, <1>2, <2>1, <2>2, <2>3, AskWakes
<1>6. ASSUME stage[a] \in {"turn/start", "check", "receive"}, NEW s \in {"check", "receive"},
             stage' = [stage EXCEPT ![a] = s], UNCHANGED <<answer, sub, pending, routes, closed, owed, cleaner>>
      PROVE  SessionInv'
  <2>1. stage'[a] = s /\ \A b \in Attempts \ {a} : stage'[b] = stage[b]
    BY <1>1, <1>6
  <2> HIDE DEF a
  <2> QED
    BY <1>1, <1>6, <2>1, QuietWakes DEF CallMethods
<1>7. CASE TurnStarted(c)
  BY <1>7, <1>6 DEF TurnStarted, table, server
<1>8. CASE StartRejected(c)
  BY <1>8, EndWakes DEF StartRejected, Retryable
<1>9. CASE CheckEvents(c)
  BY <1>9, <1>6, EndWakes DEF CheckEvents, table, server
<1>10. CASE ReceiveEvent(c)
  <2>1. CASE EndAttempt(c, FALSE)
    BY <2>1, EndWakes
  <2>2. CASE ~EndAttempt(c, FALSE)
    <3>1. /\ stage[a] = "receive" /\ stage' = [stage EXCEPT ![a] = "check"]
          /\ sub' = [sub EXCEPT ![a].queue = Tail(@)]
          /\ UNCHANGED <<answer, pending, routes, closed, owed, cleaner>>
      BY <1>10, <2>2 DEF ReceiveEvent, table, server
    <3>2. Shaped' /\ \A b \in Attempts : sub'[b].failed = sub[b].failed
      BY <1>1, <3>1 DEF Shaped, Fields
    <3>3. /\ stage'[a] = "check" /\ \A b \in Attempts \ {a} : stage'[b] = stage[b]
      BY <1>1, <3>1
    <3>4. \A b \in Attempts : WaitInv(b)'
      BY <1>1, <3>1, <3>3 DEF WakeInv, SessionInv, WaitInv, Subscribed, CallMethods
    <3> QED
      BY <3>1, <3>2, <3>4 DEF WakeInv, SessionInv, ClosedInv, OwedTexts
  <2> QED
    BY <2>1, <2>2
<1>11. CASE Deadline(c)
  BY <1>11, EndWakes, StillWakes DEF Deadline, table, server
<1> QED
  BY <1>3, <1>4, <1>5, <1>7, <1>8, <1>9, <1>10, <1>11 DEF Call

\* A cleanup asks, forgets, or goes on; its attempt has ended.
LEMMA CleanupWakes ==
  ASSUME WakeInv, NEW a \in Attempts, Cleanup(a) \/ GiveUpSeeking(a) \/ CleanupTimeout(a)
  PROVE  SessionInv'
<1>1. /\ cleaner \in [Attempts -> CleanerSteps] /\ StartInv(a) /\ WaitInv(a) /\ stage' = stage
      /\ cleaner[a] # "none" /\ UNCHANGED <<sub, closed, owed>>
  BY DEF WakeInv, SessionInv, AcceptInv, CloseInv, Cleanup, Look, Seek, GiveUpSeeking, Snapshot,
         CleanupContinues, CleanupTimeout, NameThread, Sweep, CleanupMethods, Elsewhere, server
<1>2. stage[a] = "ended"
  BY <1>1 DEF StartInv
<1>3. ASSUME NEW step \in CleanerSteps \ CleanupMethods, Clean(a, step),
             UNCHANGED <<answer, pending, routes>>
      PROVE  SessionInv'
  <2>1. cleaner'[a] = step /\ \A b \in Attempts \ {a} : cleaner'[b] = cleaner[b]
    BY <1>1, <1>3 DEF Clean
  <2> QED
    BY <1>1, <1>2, <1>3, <2>1, QuietWakes DEF CallMethods
<1>4. ASSUME NEW m \in CleanupMethods, Clean(a, m), Ask(a, m), UNCHANGED routes
      PROVE  SessionInv'
  <2>1. cleaner'[a] = m /\ \A b \in Attempts \ {a} : cleaner'[b] = cleaner[b]
    BY <1>1, <1>4 DEF Clean
  <2> QED
    BY <1>1, <1>2, <1>4, <2>1, AskWakes DEF CallMethods, Asked
<1>5. CASE Look(a) \/ Seek(a) \/ GiveUpSeeking(a) \/ CleanupTimeout(a) \/ NameThread(a)
  BY <1>5, <1>3 DEF Look, Seek, GiveUpSeeking, CleanupTimeout, NameThread, Elsewhere, CleanerSteps, CleanupMethods
<1>6. CASE Snapshot(a)
  BY <1>6, <1>3, <1>4 DEF Snapshot, Elsewhere, CleanerSteps, CleanupMethods
<1>7. CASE CleanupContinues(a)
  BY <1>7, <1>3, <1>4 DEF CleanupContinues, Elsewhere, CleanerSteps, CleanupMethods
<1>8. CASE Sweep(a)
  <2>1. /\ Clean(a, "done") /\ routes' \in {routes, routes \ {a}} /\ answer' = answer
        /\ pending' = {r \in pending : IF r[2] \in CallMethods THEN r[1] # a ELSE Awaited(r[1], r[2])}
    BY <1>8 DEF Sweep
  <2>2. cleaner'[a] = "done" /\ \A b \in Attempts \ {a} : cleaner'[b] = cleaner[b]
    BY <1>1, <2>1 DEF Clean
  <2>3. WaitInv(a)'
    BY <1>1, <1>2, <2>2 DEF WaitInv, Subscribed, CallMethods, CleanupMethods
  <2>4. ASSUME NEW b \in Attempts \ {a} PROVE WaitInv(b)'
    <3>1. WaitInv(b)
      BY DEF WakeInv, SessionInv
    <3>2. \A m \in CallMethods : <<b, m>> \in pending => <<b, m>> \in pending'
      BY <2>1
    <3>3. cleaner[b] \in CleanupMethods /\ <<b, cleaner[b]>> \in pending => <<b, cleaner[b]>> \in pending'
      BY <2>1 DEF Awaited, CallMethods, CleanupMethods
    <3> QED
      BY <1>1, <2>1, <2>2, <3>1, <3>2, <3>3 DEF WaitInv, Subscribed
  <2> QED
    BY <1>1, <2>1, <2>3, <2>4 DEF WakeInv, SessionInv, Shaped, ClosedInv, OwedTexts
<1> QED
  BY <1>5, <1>6, <1>7, <1>8 DEF Cleanup
-----------------------------------------------------------------------------
\* What the server owes is never the text that stands for no answer yet.
LEMMA ServeWakes ==
  ASSUME WakeInv, NEW a \in Attempts, NEW m \in Asked, Serve(a, m),
         UNCHANGED <<answer, sub, pending, routes, closed, stage, cleaner>>
  PROVE  SessionInv'
<1>1. turn[a] # "none"
  BY DEF WakeInv, AcceptInv, AcceptTypes
<1>2. owed' = owed \/ \E kind : kind # "none" /\ Owe(a, m, kind)
  <2>1. CASE m = "turn/start"
    <3>1. \E kind \in Answers : Owe(a, m, kind) \/ UNCHANGED owed
      BY <2>1 DEF Serve
    <3> QED
      BY <3>1, TransportAssumption DEF AnswerKinds
  <2>2. CASE m = "thread/start"
    BY <2>2, TransportAssumption DEF Serve, AnswerKinds
  <2>3. CASE m = "thread/read"
    BY <1>1, <2>3 DEF Serve
  <2>4. CASE m = "turn/interrupt" \/ m = "thread/unsubscribe"
    BY <2>4 DEF Serve
  <2> QED
    BY <2>1, <2>2, <2>3, <2>4 DEF Asked, CallMethods, CleanupMethods
<1>3. OwedTexts'
  <2>1. OwedTexts
    BY DEF WakeInv, SessionInv
  <2>2. CASE owed' = owed
    BY <2>1, <2>2 DEF OwedTexts
  <2>3. ASSUME NEW kind, kind # "none", owed' = owed \cup {<<a, m, kind>>} PROVE OwedTexts'
    BY <2>1, <2>3 DEF OwedTexts
  <2> QED
    BY <1>2, <2>2, <2>3 DEF Owe
<1> QED
  BY <1>3 DEF WakeInv, SessionInv, Shaped, ClosedInv, WaitInv, Subscribed

LEMMA WriteWakes == ASSUME WakeInv, WriteNext PROVE SessionInv'
<1> DEFINE w == Head(writes)
<1>1. w \in Lines
  BY TakeWrite DEF WriteNext, WakeInv, AcceptInv, AcceptTypes
<1>2. UNCHANGED <<stage, cleaner>>
  BY DEF WriteNext
<1>3. CASE UNCHANGED <<server, table, answer, sub>>
  BY <1>2, <1>3, StillWakes DEF server, table
<1>4. CASE FailSession /\ UNCHANGED server
  BY <1>2, <1>4, FailWakes DEF server
<1>5. CASE w[2] # "refusal" /\ Serve(w[1], w[2]) /\ UNCHANGED <<table, answer, sub>>
  <2>1. w[1] \in Attempts /\ w[2] \in Asked
    BY <1>1, <1>5 DEF Lines
  <2> HIDE DEF w
  <2> QED
    BY <1>2, <1>5, <2>1, ServeWakes DEF table
<1> QED
  BY <1>3, <1>4, <1>5 DEF WriteNext

\* The waiter of a request is the one whose entry leaves the table with the answer.
LEMMA RespondWakes ==
  ASSUME WakeInv, NEW a \in Attempts, NEW m \in Asked, NEW kind \in AnswerTexts, Respond(a, m, kind)
  PROVE  SessionInv'
<1> USE DEF WakeInv, SessionInv
<1>1. /\ UNCHANGED <<stage, cleaner>> /\ <<a, m, kind>> \in owed /\ owed' = owed \ {<<a, m, kind>>}
      /\ kind # "none" /\ OwedTexts'
  BY DEF Respond, OwedTexts
<1>2. CASE <<a, m>> \notin pending
  BY <1>1, <1>2 DEF Respond, table, Shaped, ClosedInv, WaitInv, Subscribed
<1>3. CASE <<a, m>> \in pending
  <2> DEFINE named == m = "thread/start" /\ kind \in {"ok", "mismatch"}
  <2>1. /\ ~closed /\ closed' = closed /\ pending' = pending \ {<<a, m>>}
        /\ answer' = IF Awaited(a, m) THEN [answer EXCEPT ![a] = kind] ELSE answer
        /\ routes' = IF named THEN routes \cup {a} ELSE routes
    BY <1>3 DEF Respond, ClosedInv
  <2>2. Shaped'
    <3>1. CASE named
      <4>1. \E s, events : sub' = [sub EXCEPT ![a] = Named(a, s, events)]
        BY <1>3, <3>1 DEF Respond
      <4> QED
        BY <4>1 DEF Named, Shaped, Fields
    <3>2. CASE ~named
      BY <1>3, <3>2 DEF Respond, Shaped, Fields
    <3> QED
      BY <3>1, <3>2
  <2>3. ASSUME NEW b \in Attempts PROVE WaitInv(b)'
    <3>1. WaitInv(b) /\ answer \in [Attempts -> AnswerTexts]
      BY DEF AcceptInv, AcceptTypes
    <3>2. CASE b # a
      BY <1>1, <2>1, <3>1, <3>2 DEF WaitInv, Subscribed
    <3>3. CASE b = a /\ Awaited(a, m)
      <4>1. answer'[a] = kind
        BY <2>1, <3>1, <3>3
      <4>2. Subscribed(a)' => a \in routes'
        <5>1. CASE stage[a] = "thread/start" /\ kind = "ok"
          <6>0. StartInv(a)
            BY DEF AcceptInv
          <6>1. cleaner[a] = "none"
            BY <5>1, <6>0 DEF StartInv
          <6>2. m = "thread/start"
            BY <3>3, <5>1, <6>1 DEF Awaited, Asked, CallMethods, CleanupMethods
          <6> QED
            BY <2>1, <5>1, <6>2
        <5>2. CASE ~(stage[a] = "thread/start" /\ kind = "ok")
          BY <1>1, <2>1, <3>1, <3>3, <4>1, <5>2 DEF WaitInv, Subscribed
        <5> QED
          BY <5>1, <5>2
      <4> QED
        BY <1>1, <3>3, <4>1, <4>2 DEF WaitInv
    <3>4. CASE b = a /\ ~Awaited(a, m)
      <4>1. /\ stage[a] \in CallMethods => <<a, stage[a]>> # <<a, m>>
            /\ cleaner[a] \in CleanupMethods => <<a, cleaner[a]>> # <<a, m>>
        BY <3>4 DEF Awaited, CallMethods, CleanupMethods
      <4> QED
        BY <1>1, <2>1, <3>1, <3>4, <4>1 DEF WaitInv, Subscribed
    <3> QED
      BY <3>2, <3>3, <3>4
  <2> QED
    BY <1>1, <2>1, <2>2, <2>3 DEF ClosedInv
<1> QED
  BY <1>2, <1>3

LEMMA StepWake == WakeInv /\ [Next]_vars => WakeInv'
<1> SUFFICES ASSUME WakeInv, [Next]_vars PROVE WakeInv'
  OBVIOUS
<1>1. AcceptInv'
  BY StepAccept DEF WakeInv
<1> SUFFICES SessionInv'
  BY <1>1 DEF WakeInv
<1>2. CASE \E c \in Calls : Enter(c) \/ Call(c) \/ Deadline(c)
  BY <1>2, CallWakes
<1>3. CASE \E a \in Attempts : Cleanup(a) \/ GiveUpSeeking(a) \/ CleanupTimeout(a)
  BY <1>3, CleanupWakes
<1>4. CASE \E a \in Attempts, kind \in Kinds : Emit(a, kind)
  <2>1. PICK a \in Attempts, kind \in Kinds : Emit(a, kind)
    BY <1>4
  <2>2. UNCHANGED <<stage, cleaner, owed>>
    BY <2>1 DEF Emit
  <2>3. CASE UNCHANGED <<table, answer, sub>>
    BY <2>2, <2>3, StillWakes DEF table
  <2>4. CASE \E e : Route(a, e)
    BY <2>2, <2>4, RouteWakes
  <2> QED
    BY <2>1, <2>3, <2>4 DEF Emit
<1>5. CASE \E r \in owed : Respond(r[1], r[2], r[3])
  BY <1>5, RespondWakes DEF WakeInv, AcceptInv, AcceptTypes
<1>6. CASE WriteNext
  BY <1>6, WriteWakes
<1>7. CASE RouteRefused
  BY <1>7, RouteWakes DEF RouteRefused, server
<1>8. CASE EndOfOutput \/ Stop
  BY <1>8, FailWakes DEF EndOfOutput, Stop, Untouched, server
<1>9. CASE Exit \/ Listen \/ CountLeases \/ UNCHANGED vars
  BY <1>9, StillWakes DEF Exit, Listen, CountLeases, Untouched, table, server, calls, vars
<1> QED
  BY <1>2, <1>3, <1>4, <1>5, <1>6, <1>7, <1>8, <1>9 DEF Next, Close

\* However the session ends - the process exits, a write fails, the early events
\* overflow, the provider closes - every attempt and every cleanup that waits for
\* an answer has one and every subscription that waits for events has failed
\* (Shared::fail; rpc and deliver refuse a closed table under the same lock).
THEOREM NobodyWaitsForever == Spec => []NoWaiterIsForgotten
<1>1. WakeInv => NoWaiterIsForgotten
  BY DEF WakeInv, SessionInv, ClosedInv, WaitInv, Subscribed, NoWaiterIsForgotten
<1> QED
  BY <1>1, InitWake, StepWake, PTL DEF Spec
-----------------------------------------------------------------------------
(* A subscriber gets every event of its thread, once and in order.  Until    *)
(* its attempt ends, a thread the server has opened is either routed or has  *)
(* its thread/start pending, so none of its events is dropped as unknown.    *)

InQueue(w) == \E i \in 1..Len(writes) : writes[i] = w
Once(w) == \A i, j \in 1..Len(writes) : writes[i] = w /\ writes[j] = w => i = j
NewOwed(a) == {kind \in AnswerTexts : <<a, "thread/start", kind>> \in owed}
Later == {"turn/start", "check", "receive"}

\* A thread/start is in one place, and registered while it has no answer.
NameInv(a) ==
  LET new == <<a, "thread/start">>
  IN stage[a] # "ended" =>
       /\ Once(new)
       /\ stage[a] = "none" => thread[a] = "none" /\ ~InQueue(new) /\ NewOwed(a) = {} /\ a \notin routes
       /\ InQueue(new) => thread[a] = "none" /\ NewOwed(a) = {}
       /\ \A k, l \in NewOwed(a) : k = l
       /\ \A k \in NewOwed(a) : k \in {"ok", "mismatch"} \/ thread[a] = "none"
       /\ InQueue(new) \/ NewOwed(a) # {} =>
            stage[a] = "thread/start" /\ (new \in pending \/ (closed /\ answer[a] = "closed"))
       /\ new \in pending => stage[a] = "thread/start" /\ answer[a] = "none" /\ a \notin routes
       /\ thread[a] # "none" => closed \/ a \in routes \/ new \in pending

NamingInv ==
  /\ WakeInv /\ thread \in [Attempts -> {"none", "open", "closed"}]
  /\ \A a \in Attempts : NameInv(a)

LEMMA Appended ==
  ASSUME writes \in Seq(Lines), NEW w \in Lines, writes' = Append(writes, w), NEW x \in Lines
  PROVE  /\ InQueue(x)' <=> InQueue(x) \/ x = w
         /\ Once(x) /\ (x = w => ~InQueue(x)) => Once(x)'
<1>1. /\ Len(writes) \in Nat /\ Len(writes') = Len(writes) + 1 /\ writes'[Len(writes) + 1] = w
      /\ \A i \in 1..Len(writes) : writes'[i] = writes[i]
      /\ \A i \in 1..Len(writes') : i \in 1..Len(writes) \/ i = Len(writes) + 1
  OBVIOUS
<1>2. InQueue(x)' <=> InQueue(x) \/ x = w
  BY <1>1 DEF InQueue
<1>3. ASSUME Once(x), x = w => ~InQueue(x), NEW i \in 1..Len(writes'), NEW j \in 1..Len(writes'),
             writes'[i] = x, writes'[j] = x
      PROVE  i = j
  BY <1>1, <1>3 DEF Once, InQueue
<1> QED
  BY <1>2, <1>3 DEF Once

LEMMA Dequeued ==
  ASSUME writes \in Seq(Lines), writes # <<>>, writes' = Tail(writes), NEW x \in Lines
  PROVE  /\ InQueue(x)' => InQueue(x)
         /\ Once(x) => Once(x)' /\ (Head(writes) = x => InQueue(x) /\ ~InQueue(x)')
<1>1. /\ Len(writes) \in Nat \ {0} /\ Len(writes') = Len(writes) - 1 /\ Head(writes) = writes[1]
      /\ \A i \in 1..Len(writes') : writes'[i] = writes[i + 1] /\ i + 1 \in 1..Len(writes)
  OBVIOUS
<1> QED
  BY <1>1 DEF InQueue, Once

LEMMA AskQueues ==
  ASSUME writes \in Seq(Lines), NEW a \in Attempts, NEW m \in Asked, Ask(a, m), NEW x \in Lines
  PROVE  /\ InQueue(x)' => InQueue(x) \/ x = <<a, m>>
         /\ Once(x) /\ (x = <<a, m>> => ~InQueue(x)) => Once(x)'
<1>1. CASE closed
  BY <1>1 DEF Ask, InQueue, Once
<1>2. CASE ~closed
  <2>1. writes' = Append(writes, <<a, m>>) /\ <<a, m>> \in Lines
    BY <1>2 DEF Ask, Lines
  <2> QED
    BY <2>1, Appended
<1> QED
  BY <1>1, <1>2

LEMMA InitNaming == Init => NamingInv
<1> SUFFICES ASSUME Init PROVE NamingInv
  OBVIOUS
<1>1. WakeInv /\ thread = [a \in Attempts |-> "none"] /\ writes = <<>> /\ owed = {} /\ pending = {}
  BY InitWake DEF Init
<1> QED
  BY <1>1 DEF NamingInv, NameInv, InQueue, Once, NewOwed, Init

\* An attempt for which no thread is opened, asked or named in the step.
LEMMA NameQuiet ==
  ASSUME NEW a \in Attempts, NameInv(a), thread'[a] = thread[a],
         \/ stage'[a] \in {stage[a], "ended"}
         \/ stage'[a] \in Later /\ (stage[a] \in Later \/ (stage[a] = "thread/start" /\ answer[a] = "ok")),
         stage'[a] = "thread/start" => answer'[a] \in {answer[a], "closed"},
         InQueue(<<a, "thread/start">>)' => InQueue(<<a, "thread/start">>),
         Once(<<a, "thread/start">>) => Once(<<a, "thread/start">>)',
         NewOwed(a)' \subseteq NewOwed(a), closed => closed',
         <<a, "thread/start">> \in pending' => <<a, "thread/start">> \in pending /\ answer'[a] = answer[a],
         <<a, "thread/start">> \in pending => <<a, "thread/start">> \in pending' \/ (closed' /\ answer'[a] = "closed") \/ stage'[a] = "ended",
         (a \in routes' <=> a \in routes) \/ stage'[a] = "ended"
  PROVE  NameInv(a)'
<1>1. CASE stage'[a] = "ended"
  BY <1>1 DEF NameInv
<1>2. CASE stage'[a] # "ended"
  <2>1. stage[a] # "ended"
    BY <1>2 DEF Later
  <2>2. CASE stage'[a] = stage[a]
    BY <1>2, <2>1, <2>2 DEF NameInv
  <2>3. CASE stage'[a] # stage[a]
    <3>1. <<a, "thread/start">> \notin pending
      BY <1>2, <2>1, <2>3 DEF NameInv, Later
    <3>2. ~InQueue(<<a, "thread/start">>) /\ NewOwed(a) = {}
      BY <1>2, <2>1, <2>3, <3>1 DEF NameInv, Later
    <3> QED
      BY <1>2, <2>1, <2>3, <3>1, <3>2 DEF NameInv, Later
  <2> QED
    BY <2>2, <2>3
<1> QED
  BY <1>1, <1>2

\* The session goes on or fails, and nobody moves.
LEMMA NameRests ==
  ASSUME NamingInv, UNCHANGED <<thread, stage, owed>>,
         UNCHANGED <<pending, routes, closed, answer>> \/ FailSession,
         \A a \in Attempts : LET new == <<a, "thread/start">>
                             IN (InQueue(new)' => InQueue(new)) /\ (Once(new) => Once(new)')
  PROVE  \A a \in Attempts : NameInv(a)'
<1> SUFFICES ASSUME NEW a \in Attempts PROVE NameInv(a)'
  OBVIOUS
<1>1. NameInv(a) /\ NewOwed(a)' = NewOwed(a)
  BY DEF NamingInv, NewOwed
<1>2. CASE stage[a] = "ended"
  BY <1>2 DEF NameInv
<1>3. CASE stage[a] # "ended" /\ UNCHANGED <<pending, routes, closed, answer>>
  BY <1>1, <1>3, NameQuiet
<1>4. CASE stage[a] # "ended" /\ FailSession /\ ~closed
  <2>1. /\ closed' = TRUE /\ pending' = {} /\ routes' = routes
        /\ answer'[a] \in {answer[a], "closed"}
        /\ (\E m \in CallMethods \cup CleanupMethods : <<a, m>> \in pending /\ Awaited(a, m)) => answer'[a] = "closed"
    BY <1>4 DEF FailSession
  <2>2. <<a, "thread/start">> \in pending => answer'[a] = "closed"
    <3>1. <<a, "thread/start">> \in pending => Awaited(a, "thread/start")
      BY <1>1, <1>4 DEF NameInv, Awaited, CallMethods
    <3> QED
      BY <2>1, <3>1 DEF CallMethods
  <2> HIDE DEF InQueue, Once, NewOwed
  <2> QED
    BY <1>1, <2>1, <2>2, NameQuiet
<1>5. CASE FailSession /\ closed
  BY <1>1, <1>2, <1>3, <1>5 DEF FailSession, table
<1> QED
  BY <1>2, <1>3, <1>4, <1>5

\* A request other than thread/start is asked.
LEMMA NameAsks ==
  ASSUME NamingInv, NEW a \in Attempts, NEW m \in Asked \ {"thread/start"}, Ask(a, m),
         UNCHANGED <<thread, owed, routes, closed>>,
         \A b \in Attempts \ {a} : stage'[b] = stage[b],
         \/ stage[a] = "ended" /\ stage'[a] = "ended"
         \/ stage[a] = "thread/start" /\ answer[a] = "ok" /\ stage'[a] = "turn/start"
  PROVE  \A b \in Attempts : NameInv(b)'
<1> SUFFICES ASSUME NEW b \in Attempts PROVE NameInv(b)'
  OBVIOUS
<1> DEFINE new == <<b, "thread/start">>
<1>1. NameInv(b) /\ NewOwed(b)' = NewOwed(b) /\ new \in Lines /\ new # <<a, m>>
  BY DEF NamingInv, NewOwed, Lines, Asked, CallMethods
<1>2. (InQueue(new)' => InQueue(new)) /\ (Once(new) => Once(new)')
  BY <1>1, AskQueues DEF NamingInv, WakeInv, AcceptInv, AcceptTypes
<1>3. /\ new \in pending' <=> new \in pending
      /\ b # a => answer'[b] = answer[b]
  BY <1>1 DEF Ask, NamingInv, WakeInv, AcceptInv, AcceptTypes
<1>4. CASE stage'[b] = "ended"
  BY <1>4 DEF NameInv
<1>5. CASE b = a /\ stage'[b] # "ended"
  <2>1. new \notin pending
    BY <1>1, <1>5 DEF NameInv
  <2> HIDE DEF InQueue, Once, NewOwed
  <2> QED
    BY <1>1, <1>2, <1>3, <1>5, <2>1, NameQuiet DEF Later
<1>6. CASE b # a
  <2> HIDE DEF InQueue, Once, NewOwed
  <2> QED
    BY <1>1, <1>2, <1>3, <1>6, NameQuiet
<1> QED
  BY <1>4, <1>5, <1>6

LEMMA CallNames ==
  ASSUME NamingInv, NEW c \in Calls, Enter(c) \/ Call(c) \/ Deadline(c)
  PROVE  \A b \in Attempts : NameInv(b)'
<1> DEFINE a == <<c, try[c]>>
<1>1. /\ a \in Attempts /\ stage \in [Attempts -> Stages] /\ NameInv(a) /\ writes \in Seq(Lines)
  BY DEF NamingInv, WakeInv, AcceptInv, CloseInv, AcceptTypes, Attempts
<1>2. CASE StartAttempt(c)
  <2>1. /\ stage[a] = "none" /\ stage' = [stage EXCEPT ![a] = "thread/start"]
        /\ Ask(a, "thread/start") /\ UNCHANGED <<thread, owed, routes, closed>>
    BY <1>2 DEF StartAttempt, NamingInv, WakeInv, AcceptInv, TriesInv, server
  <2>2. \A b \in Attempts : NewOwed(b)' = NewOwed(b)
    BY <2>1 DEF NewOwed
  <2>3. ASSUME NEW b \in Attempts \ {a} PROVE NameInv(b)'
    <3> DEFINE new == <<b, "thread/start">>
    <3>1. NameInv(b) /\ new \in Lines /\ stage'[b] = stage[b]
      BY <1>1, <2>1 DEF NamingInv, Lines, Asked, CallMethods
    <3>2. (InQueue(new)' => InQueue(new)) /\ (Once(new) => Once(new)')
      BY <1>1, <2>1, <3>1, AskQueues DEF Asked, CallMethods
    <3>3. /\ new \in pending' <=> new \in pending
          /\ answer'[b] = answer[b]
      BY <2>1 DEF Ask, NamingInv, WakeInv, AcceptInv, AcceptTypes
    <3> HIDE DEF InQueue, Once, NewOwed, a
    <3> QED
      BY <2>1, <2>2, <3>1, <3>2, <3>3, NameQuiet
  <2>4. ASSUME NEW b \in Attempts, b = a PROVE NameInv(b)'
    <3> DEFINE new == <<b, "thread/start">>
    <3>1. new \in Lines /\ ~InQueue(new) /\ Once(new) /\ NewOwed(b) = {} /\ thread[b] = "none" /\ b \notin routes
      BY <1>1, <2>1, <2>4 DEF NameInv, Lines, Asked, CallMethods
    <3>2. Once(new)' /\ (InQueue(new)' => ~closed)
      <4>1. closed => (InQueue(new)' <=> InQueue(new))
        BY <2>1 DEF Ask, InQueue
      <4> QED
        BY <1>1, <2>1, <2>4, <3>1, <4>1, AskQueues DEF Asked, CallMethods
    <3>3. /\ stage'[b] = "thread/start"
          /\ closed => answer'[b] = "closed" /\ pending' = pending
          /\ ~closed => answer'[b] = "none" /\ new \in pending'
      BY <1>1, <2>1, <2>4 DEF Ask, NamingInv, WakeInv, AcceptInv, AcceptTypes
    <3>4. closed => new \notin pending
      BY DEF NamingInv, WakeInv, SessionInv, ClosedInv
    <3> HIDE DEF InQueue, Once, NewOwed
    <3> QED
      BY <2>1, <2>2, <3>1, <3>2, <3>3, <3>4 DEF NameInv
  <2> QED
    BY <2>3, <2>4
<1>3. CASE ThreadStarted(c)
  <2>1. /\ Ask(a, "turn/start") /\ stage' = [stage EXCEPT ![a] = "turn/start"]
        /\ UNCHANGED <<thread, owed, routes, closed>> /\ stage[a] = "thread/start" /\ answer[a] = "ok"
    BY <1>3 DEF ThreadStarted, server
  <2>2. stage'[a] = "turn/start" /\ \A b \in Attempts \ {a} : stage'[b] = stage[b]
    BY <1>1, <2>1
  <2> HIDE DEF a
  <2> QED
    BY <1>1, <2>1, <2>2, NameAsks DEF Asked, CallMethods
<1>4. ASSUME UNCHANGED <<thread, writes, owed, pending, routes, closed, answer>>,
             \/ stage' = stage
             \/ stage' = [stage EXCEPT ![a] = "ended"]
             \/ \E s \in Later : stage' = [stage EXCEPT ![a] = s]
                                 /\ stage[a] \in Later
      PROVE  \A b \in Attempts : NameInv(b)'
  <2> SUFFICES ASSUME NEW b \in Attempts PROVE NameInv(b)'
    OBVIOUS
  <2>1. NameInv(b) /\ NewOwed(b)' = NewOwed(b)
    BY <1>4 DEF NamingInv, NewOwed
  <2>2. /\ InQueue(<<b, "thread/start">>)' = InQueue(<<b, "thread/start">>)
        /\ Once(<<b, "thread/start">>)' = Once(<<b, "thread/start">>)
    BY <1>4 DEF InQueue, Once
  <2>3. stage'[b] \in {stage[b], "ended"} \/ (stage'[b] \in Later /\ stage[b] \in Later)
    BY <1>1, <1>4
  <2> HIDE DEF InQueue, Once, NewOwed, a
  <2> QED
    BY <1>4, <2>1, <2>2, <2>3, NameQuiet
<1>5. CASE Enter(c) \/ Retry(c) \/ DropLease(c) \/ NotifyWaiters(c)
  BY <1>5, <1>4 DEF Enter, Retry, DropLease, NotifyWaiters, table, server, calls
<1>6. CASE \E again \in BOOLEAN : EndAttempt(c, again)
  BY <1>6, <1>4 DEF EndAttempt, table, server
<1>7. CASE TurnStarted(c) \/ CheckEvents(c) \/ ReceiveEvent(c)
  <2>1. CASE TurnStarted(c)
    BY <2>1, <1>4 DEF TurnStarted, table, server, Later
  <2>2. CASE CheckEvents(c)
    BY <2>2, <1>4, <1>6 DEF CheckEvents, table, server, Later
  <2>3. CASE ReceiveEvent(c)
    BY <2>3, <1>4, <1>6 DEF ReceiveEvent, table, server, Later
  <2> QED
    BY <1>7, <2>1, <2>2, <2>3
<1>8. CASE StartRejected(c)
  BY <1>8, <1>6 DEF StartRejected, Retryable
<1>9. CASE Deadline(c)
  <2>1. UNCHANGED <<thread, writes, owed, pending, routes, closed, answer, stage>> \/ EndAttempt(c, FALSE)
    BY <1>9 DEF Deadline, table, server
  <2> QED
    BY <2>1, <1>4, <1>6
<1> QED
  BY <1>2, <1>3, <1>5, <1>6, <1>7, <1>8, <1>9 DEF Call

LEMMA CleanupNames ==
  ASSUME NamingInv, NEW a \in Attempts, Cleanup(a) \/ GiveUpSeeking(a) \/ CleanupTimeout(a)
  PROVE  \A b \in Attempts : NameInv(b)'
<1>1. /\ StartInv(a) /\ UNCHANGED <<stage, thread, owed, closed>> /\ cleaner[a] # "none"
  BY DEF NamingInv, WakeInv, AcceptInv, Cleanup, Look, Seek, GiveUpSeeking, Snapshot,
         CleanupContinues, CleanupTimeout, NameThread, Sweep, CleanupMethods, Elsewhere, server
<1>2. stage[a] = "ended"
  BY <1>1 DEF StartInv
<1>3. ASSUME NEW m \in CleanupMethods, Ask(a, m), UNCHANGED routes PROVE \A b \in Attempts : NameInv(b)'
  <2>1. m \in Asked \ {"thread/start"}
    BY DEF Asked, CleanupMethods
  <2> QED
    BY <1>1, <1>2, <1>3, <2>1, NameAsks
<1>4. CASE UNCHANGED <<answer, pending, routes, writes>>
  <2>1. \A b \in Attempts : LET new == <<b, "thread/start">>
                             IN (InQueue(new)' => InQueue(new)) /\ (Once(new) => Once(new)')
    BY <1>4 DEF InQueue, Once
  <2> QED
    BY <1>1, <1>4, <2>1, NameRests
<1>5. CASE Sweep(a)
  <2> SUFFICES ASSUME NEW b \in Attempts PROVE NameInv(b)'
    OBVIOUS
  <2>1. /\ routes' \in {routes, routes \ {a}} /\ UNCHANGED <<answer, writes>>
        /\ pending' = {r \in pending : IF r[2] \in CallMethods THEN r[1] # a ELSE Awaited(r[1], r[2])}
    BY <1>5 DEF Sweep
  <2>2. CASE b = a
    BY <1>1, <1>2, <2>2 DEF NameInv
  <2>3. CASE b # a
    <3>1. <<b, "thread/start">> \in pending' <=> <<b, "thread/start">> \in pending
      BY <2>1, <2>3 DEF CallMethods
    <3>2. /\ NameInv(b) /\ NewOwed(b)' = NewOwed(b)
          /\ InQueue(<<b, "thread/start">>)' = InQueue(<<b, "thread/start">>)
          /\ Once(<<b, "thread/start">>)' = Once(<<b, "thread/start">>)
      BY <1>1, <2>1 DEF NamingInv, NewOwed, InQueue, Once
    <3> HIDE DEF InQueue, Once, NewOwed
    <3> QED
      BY <1>1, <2>1, <2>3, <3>1, <3>2, NameQuiet
  <2> QED
    BY <2>2, <2>3
<1>6. CASE Look(a) \/ Seek(a) \/ GiveUpSeeking(a) \/ CleanupTimeout(a) \/ NameThread(a)
  BY <1>6, <1>4 DEF Look, Seek, GiveUpSeeking, CleanupTimeout, NameThread, Elsewhere
<1>7. CASE Snapshot(a) \/ CleanupContinues(a)
  BY <1>7, <1>3, <1>4 DEF Snapshot, CleanupContinues, Elsewhere, CleanupMethods
<1> QED
  BY <1>5, <1>6, <1>7 DEF Cleanup

LEMMA RouteRests ==
  ASSUME NEW a, NEW e, Route(a, e)
  PROVE  UNCHANGED <<pending, routes, closed, answer>> \/ FailSession
BY DEF Route, table

LEMMA ServeNames ==
  ASSUME NamingInv, NEW a \in Attempts, NEW m \in Asked, writes # <<>>, Head(writes) = <<a, m>>,
         writes' = Tail(writes), Awaited(a, m), Serve(a, m),
         UNCHANGED <<stage, answer, pending, routes, closed>>
  PROVE  thread' \in [Attempts -> {"none", "open", "closed"}] /\ \A b \in Attempts : NameInv(b)'
<1>1. writes \in Seq(Lines) /\ \A b \in Attempts : <<b, "thread/start">> \in Lines
  BY DEF NamingInv, WakeInv, AcceptInv, AcceptTypes, Lines, Asked, CallMethods
<1>2. \E kind \in AnswerTexts :
        /\ owed' = owed \/ owed' = owed \cup {<<a, m, kind>>}
        /\ m = "thread/start" =>
             thread' = IF kind \in {"ok", "mismatch"} THEN [thread EXCEPT ![a] = "open"] ELSE thread
  <2>1. CASE m = "thread/start"
    BY <2>1, TransportAssumption DEF Serve, Owe, AnswerTexts
  <2>2. CASE m = "turn/start"
    <3>1. \E kind \in Answers : Owe(a, m, kind) \/ UNCHANGED owed
      BY <2>2 DEF Serve
    <3> QED
      BY <2>2, <3>1, TransportAssumption DEF AnswerTexts, Owe
  <2>3. CASE m = "thread/read"
    <3>1. turn[a] \in AnswerTexts
      BY DEF NamingInv, WakeInv, AcceptInv, AcceptTypes, AnswerTexts
    <3> QED
      BY <2>3, <3>1 DEF Serve, Owe
  <2>4. CASE m = "turn/interrupt" \/ m = "thread/unsubscribe"
    BY <2>4 DEF Serve, Owe, AnswerTexts, AnswerKinds
  <2> QED
    BY <2>1, <2>2, <2>3, <2>4 DEF Asked, CallMethods, CleanupMethods
<1>3. PICK kind \in AnswerTexts :
        /\ owed' = owed \/ owed' = owed \cup {<<a, m, kind>>}
        /\ m = "thread/start" =>
             thread' = IF kind \in {"ok", "mismatch"} THEN [thread EXCEPT ![a] = "open"] ELSE thread
  BY <1>2
<1>4. m # "thread/start" => thread' \in {thread, [thread EXCEPT ![a] = "closed"]}
  BY DEF Serve, Asked, CallMethods, CleanupMethods
<1>5. m = "turn/start" => thread' = thread
  BY DEF Serve
<1>6. m \in CleanupMethods => stage[a] = "ended"
  BY DEF Awaited, NamingInv, WakeInv, AcceptInv, StartInv, CallMethods, CleanupMethods
<1>7. /\ thread' \in [Attempts -> {"none", "open", "closed"}]
      /\ \A b \in Attempts \ {a} : thread'[b] = thread[b]
  BY <1>3, <1>4 DEF NamingInv
<1>8. ASSUME NEW b \in Attempts, b # a \/ m = "turn/start" PROVE NameInv(b)'
  <2>1. NewOwed(b)' \subseteq NewOwed(b) /\ thread'[b] = thread[b]
    BY <1>3, <1>5, <1>7, <1>8 DEF NewOwed
  <2>2. /\ InQueue(<<b, "thread/start">>)' => InQueue(<<b, "thread/start">>)
        /\ Once(<<b, "thread/start">>) => Once(<<b, "thread/start">>)'
    BY <1>1, Dequeued
  <2> HIDE DEF InQueue, Once, NewOwed
  <2> QED
    BY <2>1, <2>2, NameQuiet DEF NamingInv
<1>9. CASE m \in CleanupMethods
  BY <1>6, <1>8, <1>9, <1>7 DEF NameInv
<1>10. CASE m = "thread/start"
  <2> DEFINE new == <<a, "thread/start">>
  <2>1. stage[a] = "thread/start" /\ NameInv(a)
    BY <1>10 DEF Awaited, CallMethods, NamingInv
  <2>2. InQueue(new) /\ ~InQueue(new)' /\ Once(new)'
    BY <1>1, <1>10, <2>1, Dequeued DEF NameInv
  <2>3. /\ NewOwed(a) = {} /\ thread[a] = "none"
        /\ new \in pending \/ (closed /\ answer[a] = "closed")
        /\ new \in pending => answer[a] = "none"
    BY <2>1, <2>2 DEF NameInv
  <2>4. NewOwed(a)' \subseteq {kind}
    BY <1>3, <1>10, <2>3 DEF NewOwed
  <2>5. kind \in {"ok", "mismatch"} \/ thread'[a] = "none"
    BY <1>3, <1>10, <2>3
  <2> HIDE DEF InQueue, Once, NewOwed
  <2>6. NameInv(a)'
    BY <2>1, <2>2, <2>3, <2>4, <2>5 DEF NameInv
  <2> QED
    BY <1>7, <1>8, <2>6
<1> QED
  BY <1>7, <1>8, <1>9, <1>10 DEF Asked, CallMethods

LEMMA WriteNames ==
  ASSUME NamingInv, WriteNext
  PROVE  thread' \in [Attempts -> {"none", "open", "closed"}] /\ \A b \in Attempts : NameInv(b)'
<1> DEFINE w == Head(writes)
<1>1. /\ writes \in Seq(Lines) /\ writes # <<>> /\ writes' = Tail(writes) /\ stage' = stage
      /\ \A b \in Attempts : <<b, "thread/start">> \in Lines
  BY DEF WriteNext, NamingInv, WakeInv, AcceptInv, AcceptTypes, Lines, Asked, CallMethods
<1>2. w \in Lines
  BY <1>1
<1>3. CASE UNCHANGED server /\ (UNCHANGED <<table, answer, sub>> \/ FailSession)
  <2>1. \A b \in Attempts : LET new == <<b, "thread/start">>
                             IN (InQueue(new)' => InQueue(new)) /\ (Once(new) => Once(new)')
    BY <1>1, Dequeued
  <2> HIDE DEF InQueue, Once
  <2>2. \A b \in Attempts : NameInv(b)'
    BY <1>1, <1>3, <2>1, NameRests DEF server, table
  <2> QED
    BY <1>3, <2>2 DEF server, NamingInv
<1>4. CASE w[2] # "refusal" /\ Awaited(w[1], w[2]) /\ Serve(w[1], w[2]) /\ UNCHANGED <<table, answer, sub>>
  <2>1. w[1] \in Attempts /\ w[2] \in Asked /\ w = <<w[1], w[2]>>
    BY <1>2, <1>4 DEF Lines
  <2> HIDE DEF w
  <2>2. Head(writes) = <<w[1], w[2]>>
    BY <2>1 DEF w
  <2> QED
    BY <1>1, <1>4, <2>1, <2>2, ServeNames DEF table
<1> QED
  BY <1>3, <1>4 DEF WriteNext

LEMMA RespondNames ==
  ASSUME NamingInv, NEW a \in Attempts, NEW m \in Asked, NEW kind \in AnswerTexts, Respond(a, m, kind)
  PROVE  \A b \in Attempts : NameInv(b)'
<1>1. /\ UNCHANGED <<stage, thread, writes>> /\ <<a, m, kind>> \in owed /\ owed' = owed \ {<<a, m, kind>>}
      /\ <<a, m>> \notin pending => UNCHANGED <<pending, routes, closed, answer>>
      /\ <<a, m>> \in pending =>
           /\ pending' = pending \ {<<a, m>>} /\ closed' = closed
           /\ answer' = IF Awaited(a, m) THEN [answer EXCEPT ![a] = kind] ELSE answer
           /\ routes' = IF m = "thread/start" /\ kind \in {"ok", "mismatch"} THEN routes \cup {a} ELSE routes
  BY DEF Respond, table
<1>2. /\ answer \in [Attempts -> AnswerTexts]
      /\ \A b \in Attempts : NameInv(b) /\ (cleaner[b] # "none" => stage[b] = "ended")
  BY DEF NamingInv, WakeInv, AcceptInv, AcceptTypes, StartInv
<1>3. \A b \in Attempts : /\ InQueue(<<b, "thread/start">>)' = InQueue(<<b, "thread/start">>)
                          /\ Once(<<b, "thread/start">>)' = Once(<<b, "thread/start">>)
                          /\ NewOwed(b)' \subseteq NewOwed(b)
  BY <1>1 DEF InQueue, Once, NewOwed
<1>4. ASSUME NEW b \in Attempts, b # a \/ m # "thread/start" \/ <<a, m>> \notin pending
      PROVE  NameInv(b)'
  <2>1. CASE stage[b] = "ended"
    BY <1>1, <2>1 DEF NameInv
  <2>2. CASE stage[b] # "ended"
    <3>1. cleaner[b] = "none"
      BY <1>2, <2>2
    <3>2. stage[b] = "thread/start" => answer'[b] = answer[b]
      <4>1. stage[b] = "thread/start" /\ b = a /\ Awaited(a, m) => m = "thread/start"
        BY <3>1 DEF Awaited, CallMethods, CleanupMethods, Asked
      <4> QED
        BY <1>1, <1>2, <1>4, <4>1
    <3>3. <<b, "thread/start">> \in pending <=> <<b, "thread/start">> \in pending'
      BY <1>1, <1>4
    <3>4. <<b, "thread/start">> \in pending => stage[b] = "thread/start"
      BY <1>2, <2>2 DEF NameInv
    <3> HIDE DEF InQueue, Once, NewOwed
    <3> QED
      BY <1>1, <1>2, <1>3, <3>2, <3>3, <3>4, NameQuiet
  <2> QED
    BY <2>1, <2>2
<1>5. CASE m = "thread/start" /\ <<a, m>> \in pending
  <2>1. CASE stage[a] = "ended"
    BY <1>1, <1>4, <2>1 DEF NameInv
  <2>2. CASE stage[a] # "ended"
    <3>1. kind \in NewOwed(a) /\ stage[a] = "thread/start" /\ NameInv(a)
      BY <1>1, <1>2, <1>5, <2>2 DEF NameInv, NewOwed
    <3>2. NewOwed(a)' = {} /\ ~InQueue(<<a, m>>)
      <4>1. \A k \in NewOwed(a) : k = kind
        BY <3>1, <2>2 DEF NameInv
      <4>2. kind \notin NewOwed(a)'
        BY <1>1, <1>5 DEF NewOwed
      <4> HIDE DEF NewOwed, InQueue
      <4> QED
        BY <1>3, <1>5, <2>2, <3>1, <4>1, <4>2 DEF NameInv
    <3>3. kind \in {"ok", "mismatch"} \/ thread[a] = "none"
      BY <2>2, <3>1 DEF NameInv
    <3> HIDE DEF InQueue, Once, NewOwed
    <3>4. NameInv(a)'
      BY <1>1, <1>3, <1>5, <2>2, <3>1, <3>2, <3>3 DEF NameInv
    <3> QED
      BY <1>4, <3>4
  <2> QED
    BY <2>1, <2>2
<1> QED
  BY <1>4, <1>5

LEMMA StepNaming == NamingInv /\ [Next]_vars => NamingInv'
<1> SUFFICES ASSUME NamingInv, [Next]_vars PROVE NamingInv'
  OBVIOUS
<1>1. WakeInv'
  BY StepWake DEF NamingInv
<1>2. ASSUME UNCHANGED thread, \A b \in Attempts : NameInv(b)' PROVE NamingInv'
  BY <1>1, <1>2 DEF NamingInv
<1>3. ASSUME UNCHANGED <<thread, stage, owed, writes>>, UNCHANGED <<pending, routes, closed, answer>> \/ FailSession
      PROVE  NamingInv'
  <2>1. \A b \in Attempts : LET new == <<b, "thread/start">>
                             IN (InQueue(new)' => InQueue(new)) /\ (Once(new) => Once(new)')
    BY <1>3 DEF InQueue, Once
  <2> QED
    BY <1>2, <1>3, <2>1, NameRests
<1>4. CASE \E c \in Calls : Enter(c) \/ Call(c) \/ Deadline(c)
  <2>1. UNCHANGED thread
    BY <1>4 DEF Enter, Call, Deadline, StartAttempt, ThreadStarted, TurnStarted, StartRejected, CheckEvents,
                ReceiveEvent, Retry, DropLease, NotifyWaiters, EndAttempt, server
  <2> QED
    BY <1>2, <1>4, <2>1, CallNames
<1>5. CASE \E a \in Attempts : Cleanup(a) \/ GiveUpSeeking(a) \/ CleanupTimeout(a)
  <2>1. UNCHANGED thread
    BY <1>5 DEF Cleanup, Look, Seek, GiveUpSeeking, Snapshot, CleanupContinues, CleanupTimeout,
                NameThread, Sweep, Elsewhere, server
  <2> QED
    BY <1>2, <1>5, <2>1, CleanupNames
<1>6. CASE \E a \in Attempts, kind \in Kinds : Emit(a, kind)
  <2>1. PICK a \in Attempts, kind \in Kinds : Emit(a, kind)
    BY <1>6
  <2>2. UNCHANGED <<thread, stage, owed>>
    BY <2>1 DEF Emit
  <2>3. CASE writes' = writes
    <3>1. UNCHANGED <<table, answer>> \/ \E e : Route(a, e)
      BY <2>1 DEF Emit
    <3>2. UNCHANGED <<pending, routes, closed, answer>> \/ FailSession
      BY <3>1, RouteRests DEF table
    <3> QED
      BY <1>3, <2>2, <2>3, <3>2
  <2>4. CASE writes' # writes
    <3>1. /\ UNCHANGED <<table, answer>> /\ writes' = Append(writes, <<a, "refusal">>)
          /\ writes \in Seq(Lines) /\ <<a, "refusal">> \in Lines
          /\ \A b \in Attempts : <<b, "thread/start">> \in Lines /\ <<b, "thread/start">> # <<a, "refusal">>
      BY <2>1, <2>4 DEF Emit, NamingInv, WakeInv, AcceptInv, AcceptTypes, Lines, Asked, CallMethods
    <3>2. \A b \in Attempts : LET new == <<b, "thread/start">>
                               IN (InQueue(new)' => InQueue(new)) /\ (Once(new) => Once(new)')
      BY <3>1, Appended
    <3> HIDE DEF InQueue, Once
    <3>3. UNCHANGED <<pending, routes, closed, answer>>
      BY <3>1 DEF table
    <3>4. \A b \in Attempts : NameInv(b)'
      BY <2>2, <3>2, <3>3, NameRests
    <3> QED
      BY <1>2, <2>2, <3>4
  <2> QED
    BY <2>3, <2>4
<1>7. CASE \E r \in owed : Respond(r[1], r[2], r[3])
  <2>1. PICK a \in Attempts, m \in Asked, kind \in AnswerTexts : Respond(a, m, kind)
    BY <1>7 DEF NamingInv, WakeInv, AcceptInv, AcceptTypes
  <2> QED
    BY <1>2, <2>1, RespondNames DEF Respond
<1>8. CASE WriteNext
  BY <1>1, <1>8, WriteNames DEF NamingInv
<1>9. CASE RouteRefused
  <2>1. UNCHANGED <<thread, stage, owed, writes>> /\ Route(asked.att, asked)
    BY <1>9 DEF RouteRefused, server
  <2> QED
    BY <1>3, <2>1, RouteRests
<1>10. CASE EndOfOutput \/ Stop
  BY <1>3, <1>10 DEF EndOfOutput, Stop, Untouched, server
<1>11. CASE Exit \/ Listen \/ CountLeases \/ UNCHANGED vars
  BY <1>3, <1>11 DEF Exit, Listen, CountLeases, Untouched, table, server, calls, vars
<1> QED
  BY <1>4, <1>5, <1>6, <1>7, <1>8, <1>9, <1>10, <1>11 DEF Next, Close
-----------------------------------------------------------------------------
Sent == [att : Attempts, kind : EventKinds, num : Nat, turn : BOOLEAN]
GotSoFar == [seen : Nat, final : BOOLEAN, completed : BOOLEAN]

RefusalQueued == \E i \in 1..Len(writes) : writes[i][2] = "refusal"
OneRefusal == \A i, j \in 1..Len(writes) : writes[i][2] = "refusal" /\ writes[j][2] = "refusal" => i = j

\* The reader refuses one request at a time, and holds it until it is refused.
ReaderInv ==
  /\ reader \in {"reading", "refusing", "refused", "gone"}
  /\ reader \in {"refusing", "refused"} \/ RefusalQueued => asked \in Sent /\ thread[asked.att] # "none"
  /\ reader = "gone" => closed
  /\ ~closed => OneRefusal /\ (RefusalQueued => reader = "refusing")

Asking(a) == reader \in {"refusing", "refused"} /\ asked.att = a
AskingCount(a) == IF Asking(a) THEN 1 ELSE 0

Numbered(events, from, a) ==
  \A i \in 1..Len(events) : events[i].att = a /\ events[i].num = from + i /\ events[i].kind # "nudge"

\* What the server has emitted for a thread is what the subscriber has read, what
\* is queued for it, what came early, and the request being refused, in this order.
CountInv(a) ==
  /\ stage[a] = "receive" /\ sub[a].failed = TRUE => sub[a].queue # <<>>
  /\ ~closed /\ stage[a] # "ended" =>
       /\ a \in routes => early[a] = <<>>
       /\ a \notin routes => sub[a].queue = <<>>
       /\ early[a] # <<>> => thread[a] # "none"
       /\ sub[a].failed = FALSE =>
            /\ Numbered(sub[a].queue, got[a].seen, a)
            /\ Numbered(early[a], got[a].seen + Len(sub[a].queue), a)
            /\ emitted[a] = got[a].seen + Len(sub[a].queue) + Len(early[a]) + AskingCount(a)
            /\ Asking(a) => asked.num = emitted[a]

ReadTypes ==
  /\ sub \in [Attempts -> Subscriptions] /\ early \in [Attempts -> Seq(Events)]
  /\ got \in [Attempts -> GotSoFar] /\ emitted \in [Attempts -> Nat]

ReadersInv == ReadTypes /\ ReaderInv /\ \A a \in Attempts : CountInv(a)
ReadInv == NamingInv /\ ReadersInv

LEMMA InitRead == Init => ReadInv
<1> SUFFICES ASSUME Init PROVE ReadInv
  OBVIOUS
<1>1. /\ NamingInv /\ sub = [a \in Attempts |-> NewSubscription] /\ early = [a \in Attempts |-> <<>>]
      /\ got = [a \in Attempts |-> NothingGot] /\ emitted = [a \in Attempts |-> 0]
      /\ reader = "reading" /\ writes = <<>> /\ routes = {} /\ stage = [a \in Attempts |-> "none"]
  BY InitNaming DEF Init, NothingEarly
<1>2. NewSubscription \in Subscriptions /\ NothingGot \in GotSoFar /\ <<>> \in Seq(Events)
  BY DEF NewSubscription, Subscriptions, NothingGot, GotSoFar
<1>3. ReadTypes
  BY <1>1, <1>2 DEF ReadTypes
<1>4. ReaderInv
  BY <1>1 DEF ReaderInv, RefusalQueued, OneRefusal
<1>5. \A a \in Attempts : CountInv(a)
  BY <1>1 DEF CountInv, Numbered, Asking, AskingCount, NewSubscription, NothingGot
<1> QED
  BY <1>1, <1>3, <1>4, <1>5 DEF ReadInv, ReadersInv

\* try_send: what has room is queued last.
LEMMA OfferedAppends ==
  ASSUME NEW a \in Attempts, NEW s \in Subscriptions, NEW e \in Events
  PROVE  /\ Offered(a, s, e) \in Subscriptions /\ Offered(a, s, e).failed = s.failed
         /\ Offered(a, s, e) = s \/ Offered(a, s, e).queue = Append(s.queue, e)
         /\ stage[a] # "ended" => Offered(a, s, e).queue # <<>>
<1>1. s.queue \in Seq(Events) /\ MaxEvents \in Nat \ {0}
  BY TransportAssumption DEF Subscriptions
<1>2. CASE stage[a] # "ended" /\ Len(s.queue) < MaxEvents
  <2> DEFINE q == Append(s.queue, e)
  <2>1. q \in Seq(Events) /\ q # <<>>
    BY <1>1
  <2>2. Offered(a, s, e) = [s EXCEPT !.queue = q]
    BY <1>2 DEF Offered
  <2> HIDE DEF q
  <2>3. Offered(a, s, e) \in Subscriptions /\ Offered(a, s, e).failed = s.failed /\ Offered(a, s, e).queue = q
    BY <2>1, <2>2 DEF Subscriptions
  <2> QED
    BY <2>1, <2>3 DEF q
<1>3. CASE ~(stage[a] # "ended" /\ Len(s.queue) < MaxEvents)
  <2>1. Offered(a, s, e) = s
    BY <1>3 DEF Offered
  <2>2. stage[a] # "ended" => s.queue # <<>>
    BY <1>1, <1>3
  <2> QED
    BY <2>1, <2>2
<1> QED
  BY <1>2, <1>3

LEMMA DeliveredQueues ==
  ASSUME NEW a \in Attempts, NEW s \in Subscriptions, NEW e \in Events
  PROVE  /\ Delivered(a, s, e) \in Subscriptions
         /\ Delivered(a, s, e).failed = FALSE =>
              s.failed = FALSE /\ Delivered(a, s, e).queue = Append(s.queue, e)
         /\ stage[a] # "ended" => Delivered(a, s, e).queue # <<>>
<1> DEFINE t == Offered(a, s, e)
           u == t.turn \/ e.turn
           c == t.completed \/ e.kind \in {"completed", "turn_failed"}
           f == t.failed \/ e.kind = "request" \/ t = s
<1>1. /\ t \in Subscriptions /\ t.failed = s.failed
      /\ t = s \/ t.queue = Append(s.queue, e)
      /\ stage[a] # "ended" => t.queue # <<>>
  BY OfferedAppends
<1>2. u \in BOOLEAN /\ c \in BOOLEAN /\ f \in BOOLEAN
  OBVIOUS
<1>3. Delivered(a, s, e) = [t EXCEPT !.turn = u, !.completed = c, !.failed = f]
  BY DEF Delivered
<1>4. f = FALSE => t.failed = FALSE /\ t # s
  OBVIOUS
<1> HIDE DEF t, u, c, f
<1> DEFINE Q == Seq(Events)
<1> HIDE DEF Q
<1>5. ASSUME t \in [thread : BOOLEAN, turn : BOOLEAN, completed : BOOLEAN, failed : BOOLEAN, queue : Q],
             NEW d, d = [t EXCEPT !.turn = u, !.completed = c, !.failed = f]
      PROVE  /\ d \in [thread : BOOLEAN, turn : BOOLEAN, completed : BOOLEAN, failed : BOOLEAN, queue : Q]
             /\ d.failed = f /\ d.queue = t.queue
  BY <1>2, <1>5
<1>6. /\ Delivered(a, s, e) \in Subscriptions /\ Delivered(a, s, e).failed = f
      /\ Delivered(a, s, e).queue = t.queue
  BY <1>1, <1>3, <1>5 DEF Subscriptions, Q
<1> QED
  BY <1>1, <1>4, <1>6

\* A thread that is named has all its early events, unless it fails.
LEMMA NamedQueues ==
  ASSUME NEW a \in Attempts, NEW s \in Subscriptions, NEW events \in Seq(Events)
  PROVE  /\ Named(a, s, events) \in Subscriptions
         /\ Named(a, s, events).failed = FALSE /\ s.queue = <<>> =>
              s.failed = FALSE /\ Named(a, s, events).queue = events
<1> DEFINE room == IF stage[a] = "ended" THEN 0 ELSE MaxEvents - Len(s.queue)
           fit == IF Len(events) <= room THEN Len(events) ELSE room
           u == s.turn \/ \E e \in ToSet(events) : e.turn
           c == s.completed \/ \E e \in ToSet(events) : e.kind \in {"completed", "turn_failed"}
           f == s.failed \/ fit # Len(events) \/ \E e \in ToSet(events) : e.kind = "request"
           q == s.queue \o SubSeq(events, 1, fit)
<1>1. s.queue \in Seq(Events) /\ MaxEvents \in Nat /\ fit \in Int /\ fit <= Len(events)
  BY TransportAssumption DEF Subscriptions
<1>2. u \in BOOLEAN /\ c \in BOOLEAN /\ f \in BOOLEAN
  OBVIOUS
<1>3. Named(a, s, events) = [thread |-> TRUE, turn |-> u, completed |-> c, failed |-> f, queue |-> q]
  BY DEF Named
<1>4. f = FALSE => s.failed = FALSE /\ fit = Len(events)
  BY DEF Subscriptions
<1>5. q \in Seq(Events)
  <2> HIDE DEF fit
  <2>1. SubSeq(events, 1, fit) \in Seq(Events)
    BY <1>1
  <2> QED
    BY <1>1, <2>1
<1>6. fit = Len(events) /\ s.queue = <<>> => q = events
  <2>1. SubSeq(events, 1, Len(events)) = events
    OBVIOUS
  <2>2. <<>> \o events = events
    OBVIOUS
  <2> HIDE DEF fit
  <2> QED
    BY <2>1, <2>2
<1> HIDE DEF u, c, f, q, fit
<1>7. Named(a, s, events) \in Subscriptions /\ Named(a, s, events).failed = f /\ Named(a, s, events).queue = q
  BY <1>2, <1>3, <1>5 DEF Subscriptions
<1> QED
  BY <1>4, <1>6, <1>7
-----------------------------------------------------------------------------
\* Nothing is sent to the attempt, read by it or named for it.
LEMMA CountQuiet ==
  ASSUME NEW a \in Attempts, CountInv(a),
         sub'[a] = sub[a], got'[a] = got[a], emitted'[a] = emitted[a],
         early'[a] = early[a] \/ stage'[a] = "ended" \/ closed',
         stage[a] = "ended" => stage'[a] = "ended",
         stage'[a] = "receive" => stage[a] = "receive" \/ sub[a].failed # TRUE,
         (a \in routes' <=> a \in routes) \/ stage'[a] = "ended",
         thread[a] # "none" => thread'[a] # "none", closed => closed',
         closed' \/ (Asking(a)' <=> Asking(a)), Asking(a) => asked' = asked
  PROVE  CountInv(a)'
<1> HIDE DEF Asking
<1>1. stage'[a] = "receive" /\ sub'[a].failed = TRUE => sub'[a].queue # <<>>
  BY DEF CountInv
<1>2. CASE closed' \/ stage'[a] = "ended"
  BY <1>1, <1>2 DEF CountInv
<1>3. CASE ~closed' /\ stage'[a] # "ended"
  BY <1>1, <1>3 DEF CountInv, Numbered, AskingCount
<1> QED
  BY <1>2, <1>3

LEMMA ReaderQuiet ==
  ASSUME ReaderInv, asked' = asked, \A b \in Attempts : thread[b] # "none" => thread'[b] # "none",
         closed => closed', reader' = reader \/ (reader' = "gone" /\ closed'),
         RefusalQueued' => RefusalQueued, OneRefusal => OneRefusal'
  PROVE  ReaderInv'
<1> HIDE DEF RefusalQueued, OneRefusal
<1> QED
  BY DEF ReaderInv, Sent

\* What came early has its thread/start pending.
LEMMA EarlyNamed ==
  ASSUME ReadInv, NEW a \in Attempts, stage[a] # "ended", ~closed, a \notin routes, thread[a] # "none"
  PROVE  <<a, "thread/start">> \in pending /\ Starting(pending)
BY DEF ReadInv, NamingInv, NameInv, Starting

LEMMA FailCounts ==
  ASSUME ReadInv, FailSession, UNCHANGED <<stage, got>>, emitted' \in [Attempts -> Nat]
  PROVE  closed' /\ ReadTypes' /\ \A a \in Attempts : CountInv(a)'
<1> USE DEF ReadInv, ReadersInv
<1>1. CASE closed
  BY <1>1 DEF FailSession, table, ReadTypes, CountInv
<1>2. CASE ~closed
  <2>1. /\ closed' = TRUE /\ early' = [a \in Attempts |-> <<>>]
        /\ sub' = [a \in Attempts |->
                     IF a \in routes THEN [Offered(a, sub[a], Nudge(a)) EXCEPT !.failed = TRUE] ELSE sub[a]]
    BY <1>2 DEF FailSession, NothingEarly
  <2>2. ASSUME NEW a \in Attempts
        PROVE  /\ sub'[a] \in Subscriptions
               /\ stage[a] = "receive" /\ sub'[a].failed = TRUE => sub'[a].queue # <<>>
    <3>1. Nudge(a) \in Events /\ sub[a] \in Subscriptions
      BY DEF Nudge, Event, Events, ReadTypes
    <3>2. CASE a \in routes
      <4> DEFINE t == Offered(a, sub[a], Nudge(a))
      <4>1. t \in Subscriptions /\ (stage[a] # "ended" => t.queue # <<>>)
        BY <3>1, OfferedAppends
      <4>2. sub'[a] = [t EXCEPT !.failed = TRUE]
        BY <2>1, <3>2
      <4> HIDE DEF t
      <4>3. sub'[a] \in Subscriptions /\ sub'[a].queue = t.queue
        BY <4>1, <4>2 DEF Subscriptions
      <4> QED
        BY <4>1, <4>3
    <3>3. CASE a \notin routes
      BY <2>1, <3>1, <3>3 DEF CountInv
    <3> QED
      BY <3>2, <3>3
  <2>3. sub' \in [Attempts -> Subscriptions] /\ early' \in [Attempts -> Seq(Events)]
    <3>1. <<>> \in Seq(Events)
      OBVIOUS
    <3> QED
      BY <2>1, <2>2, <3>1
  <2> QED
    BY <2>1, <2>2, <2>3 DEF ReadTypes, CountInv
<1> QED
  BY <1>1, <1>2

LEMMA AppendedSeq ==
  ASSUME NEW S, NEW q \in Seq(S), NEW e \in S
  PROVE  /\ Append(q, e) \in Seq(S) /\ Append(q, e) # <<>> /\ Len(Append(q, e)) = Len(q) + 1
         /\ \A i \in 1..Len(q) + 1 : Append(q, e)[i] = IF i = Len(q) + 1 THEN e ELSE q[i]
         /\ Len(q) \in Nat
OBVIOUS

LEMMA NumberedAppend ==
  ASSUME NEW a, NEW q \in Seq(Events), NEW from \in Nat, NEW e \in Events,
         e.att = a, e.kind # "nudge", Numbered(q, from, a), e.num = from + Len(q) + 1
  PROVE  Numbered(Append(q, e), from, a)
<1> DEFINE n == Append(q, e)
<1>1. /\ Len(n) = Len(q) + 1 /\ Len(q) \in Nat
      /\ \A i \in 1..Len(q) + 1 : n[i] = IF i = Len(q) + 1 THEN e ELSE q[i]
  BY AppendedSeq
<1> HIDE DEF n
<1>2. ASSUME NEW i \in 1..Len(n) PROVE n[i].att = a /\ n[i].num = from + i /\ n[i].kind # "nudge"
  <2>1. CASE i = Len(q) + 1
    BY <1>1, <2>1
  <2>2. CASE i # Len(q) + 1
    <3>1. i \in 1..Len(q) /\ n[i] = q[i]
      BY <1>1, <2>2
    <3> QED
      BY <3>1 DEF Numbered
  <2> QED
    BY <2>1, <2>2
<1>3. Numbered(n, from, a)
  BY <1>2 DEF Numbered
<1> QED
  BY <1>3 DEF n

LEMMA Sums == \A x, k \in Nat : x + k + 1 = x + (k + 1) /\ x + 0 = x /\ x + k \in Nat /\ x + k + 0 = x + k
OBVIOUS

\* An event goes to its subscriber, waits for its thread to be named, or is of a
\* thread nobody waits for.
LEMMA RouteCounts ==
  ASSUME ReadInv, NEW a \in Attempts, NEW e \in Sent, e.att = a, Route(a, e), thread[a] # "none",
         UNCHANGED <<stage, got, thread>>, emitted' \in [Attempts -> Nat],
         \A b \in Attempts \ {a} : emitted'[b] = emitted[b] /\ ~Asking(b),
         ~closed /\ stage[a] # "ended" /\ sub[a].failed = FALSE =>
           /\ emitted'[a] = got[a].seen + Len(sub[a].queue) + Len(early[a]) + 1
           /\ e.num = emitted'[a]
  PROVE  ReadTypes' /\ \A b \in Attempts : CountInv(b)'
<1> USE DEF ReadInv, ReadersInv
<1>1. /\ e \in Events /\ e.kind # "nudge" /\ sub[a] \in Subscriptions /\ early[a] \in Seq(Events)
      /\ sub[a].queue \in Seq(Events) /\ got[a].seen \in Nat /\ CountInv(a)
  BY DEF Sent, Events, EventKinds, ReadTypes, Subscriptions, GotSoFar
<1>2. CASE FailSession
  BY <1>2, FailCounts
<1>3. ASSUME UNCHANGED <<routes, closed>>, closed \/ reader' \in {"reading", "gone"},
             NEW b \in Attempts \ {a}, sub'[b] = sub[b], early'[b] = early[b]
      PROVE  CountInv(b)'
  <2>1. closed' \/ (Asking(b)' <=> Asking(b))
    BY <1>3 DEF Asking
  <2> HIDE DEF Asking
  <2> QED
    BY <1>3, <2>1, CountQuiet
<1>4. CASE a \in routes
  <2> DEFINE d == Delivered(a, sub[a], e)
             q == Append(sub[a].queue, e)
  <2>1. /\ sub' = [sub EXCEPT ![a] = d] /\ reader' = "reading" /\ UNCHANGED <<pending, routes, early, closed>>
    BY <1>4 DEF Route, table
  <2>2. /\ d \in Subscriptions /\ (d.failed = FALSE => sub[a].failed = FALSE /\ d.queue = q)
        /\ stage[a] # "ended" => d.queue # <<>>
    BY <1>1, DeliveredQueues
  <2>3. /\ Len(q) = Len(sub[a].queue) + 1 /\ Len(sub[a].queue) \in Nat
        /\ \A i \in 1..Len(sub[a].queue) + 1 : q[i] = IF i = Len(sub[a].queue) + 1 THEN e ELSE sub[a].queue[i]
    BY <1>1, AppendedSeq
  <2> HIDE DEF d, q
  <2>4. sub'[a] = d /\ ReadTypes'
    BY <2>1, <2>2 DEF ReadTypes
  <2>5. ~closed /\ stage[a] # "ended" => early[a] = <<>>
    BY <1>1, <1>4 DEF CountInv
  <2>6. ASSUME ~closed, stage[a] # "ended", d.failed = FALSE
        PROVE  /\ Numbered(d.queue, got[a].seen, a) /\ emitted'[a] = got[a].seen + Len(d.queue)
    <3>1. /\ Numbered(sub[a].queue, got[a].seen, a) /\ d.queue = q
          /\ e.num = got[a].seen + Len(sub[a].queue) + 1 /\ emitted'[a] = e.num
      BY <1>1, <2>2, <2>3, <2>5, <2>6 DEF CountInv
    <3>2. e.num = got[a].seen + Len(sub[a].queue) + 1 /\ Len(d.queue) = Len(sub[a].queue) + 1
      BY <2>3, <3>1
    <3>3. Numbered(q, got[a].seen, a)
      BY <1>1, <3>1, <3>2, NumberedAppend DEF q
    <3>4. got[a].seen + Len(sub[a].queue) + 1 = got[a].seen + Len(d.queue)
      BY <1>1, <2>3, <3>2, Sums
    <3> QED
      BY <3>1, <3>3, <3>4
  <2>7. ~Asking(a)' /\ AskingCount(a)' = 0
    BY <2>1 DEF Asking, AskingCount
  <2>8. CountInv(a)'
    <3>1. Len(<<>>) = 0 /\ Len(d.queue) \in Nat /\ emitted'[a] \in Nat
      BY <2>2 DEF Subscriptions
    <3>2. \A from : Numbered(<<>>, from, a)
      BY DEF Numbered
    <3>3. ~closed /\ stage[a] # "ended" /\ d.failed = FALSE =>
            /\ Numbered(d.queue, got[a].seen, a) /\ early'[a] = <<>>
            /\ Numbered(<<>>, got[a].seen + Len(d.queue), a)
            /\ emitted'[a] = got[a].seen + Len(d.queue) + Len(<<>>) + 0
      <4>1. got[a].seen + Len(d.queue) = got[a].seen + Len(d.queue) + Len(<<>>) + 0
        BY <1>1, <3>1, Sums
      <4> QED
        BY <2>1, <2>5, <2>6, <3>2, <4>1
    <3>4. Numbered(sub[a].queue, got[a].seen, a)' = Numbered(d.queue, got[a].seen, a)
      BY <2>4 DEF Numbered
    <3>5. ~closed /\ stage[a] # "ended" /\ d.failed = FALSE =>
            Numbered(early[a], got[a].seen + Len(sub[a].queue), a)'
      BY <2>4, <3>3 DEF Numbered
    <3> HIDE DEF Asking, AskingCount
    <3> QED
      BY <1>4, <2>1, <2>2, <2>4, <2>5, <2>7, <3>3, <3>4, <3>5 DEF CountInv
  <2> QED
    BY <1>3, <2>1, <2>4, <2>8
<1>5. CASE a \notin routes /\ ~Starting(pending)
  <2>1. reader' = "reading" /\ UNCHANGED <<sub, early, routes, closed>>
    BY <1>5 DEF Route, table
  <2>2. closed \/ stage[a] = "ended"
    BY <1>5, EarlyNamed
  <2>3. CountInv(a)' /\ ReadTypes'
    BY <1>1, <2>1, <2>2 DEF CountInv, ReadTypes
  <2> QED
    BY <1>3, <2>1, <2>3
<1>6. CASE a \notin routes /\ Starting(pending) /\ ~FailSession
  <2> DEFINE q == Append(early[a], e)
  <2>1. /\ early' = [early EXCEPT ![a] = q] /\ reader' = "reading" /\ UNCHANGED <<sub, routes, closed>>
    BY <1>6 DEF Route
  <2>2. /\ q \in Seq(Events) /\ Len(q) = Len(early[a]) + 1 /\ Len(early[a]) \in Nat
        /\ \A i \in 1..Len(early[a]) + 1 : q[i] = IF i = Len(early[a]) + 1 THEN e ELSE early[a][i]
    BY <1>1, AppendedSeq
  <2> HIDE DEF q
  <2>3. early'[a] = q /\ ReadTypes'
    BY <2>1, <2>2 DEF ReadTypes
  <2>4. ASSUME ~closed, stage[a] # "ended", sub[a].failed = FALSE
        PROVE  /\ Numbered(q, got[a].seen + Len(sub[a].queue), a)
               /\ emitted'[a] = got[a].seen + Len(sub[a].queue) + Len(q)
    <3>1. /\ Numbered(early[a], got[a].seen + Len(sub[a].queue), a) /\ Len(sub[a].queue) \in Nat
          /\ e.num = got[a].seen + Len(sub[a].queue) + Len(early[a]) + 1 /\ emitted'[a] = e.num
      BY <1>1, <2>4 DEF CountInv
    <3>2. got[a].seen + Len(sub[a].queue) \in Nat
      BY <1>1, <3>1
    <3>3. Numbered(q, got[a].seen + Len(sub[a].queue), a)
      BY <1>1, <2>2, <3>1, <3>2, NumberedAppend DEF q
    <3>4. got[a].seen + Len(sub[a].queue) + Len(early[a]) + 1 = got[a].seen + Len(sub[a].queue) + Len(q)
      BY <2>2, <3>2, Sums
    <3> QED
      BY <3>1, <3>3, <3>4
  <2>5. ~Asking(a)' /\ AskingCount(a)' = 0
    BY <2>1 DEF Asking, AskingCount
  <2>6. CountInv(a)'
    <3>1. Len(sub[a].queue) \in Nat /\ Len(q) \in Nat
      BY <1>1, <2>2
    <3>2. UNCHANGED <<sub[a], got[a]>>
      BY <2>1
    <3>3. ~closed /\ stage[a] # "ended" /\ sub[a].failed = FALSE =>
            /\ Numbered(sub[a].queue, got[a].seen, a)'
            /\ Numbered(early[a], got[a].seen + Len(sub[a].queue), a)'
            /\ emitted'[a] = got[a].seen + Len(sub[a].queue) + Len(q) + 0
      <4>1. got[a].seen + Len(sub[a].queue) + Len(q) = got[a].seen + Len(sub[a].queue) + Len(q) + 0
        BY <1>1, <3>1, Sums
      <4>2. ~closed /\ stage[a] # "ended" /\ sub[a].failed = FALSE => Numbered(sub[a].queue, got[a].seen, a)
        BY <1>1 DEF CountInv
      <4>3. Numbered(sub[a].queue, got[a].seen, a)' = Numbered(sub[a].queue, got[a].seen, a)
        BY <3>2 DEF Numbered
      <4>4. Numbered(early[a], got[a].seen + Len(sub[a].queue), a)' = Numbered(q, got[a].seen + Len(sub[a].queue), a)
        BY <2>3, <3>2 DEF Numbered
      <4> QED
        BY <2>4, <4>1, <4>2, <4>3, <4>4
    <3> HIDE DEF Asking, AskingCount
    <3> QED
      BY <1>1, <1>6, <2>1, <2>3, <2>5, <3>3 DEF CountInv
  <2> QED
    BY <1>3, <2>1, <2>3, <2>6
<1> QED
  BY <1>2, <1>4, <1>5, <1>6
-----------------------------------------------------------------------------
\* A request to the server, asked by an attempt or a cleanup, is no refusal.
LEMMA AskRefuses ==
  ASSUME writes \in Seq(Lines), NEW a \in Attempts, NEW m \in Asked, Ask(a, m)
  PROVE  (RefusalQueued' => RefusalQueued) /\ (OneRefusal => OneRefusal')
<1>1. CASE closed
  BY <1>1 DEF Ask, RefusalQueued, OneRefusal
<1>2. CASE ~closed
  <2>1. /\ Len(writes) \in Nat /\ Len(writes') = Len(writes) + 1 /\ writes'[Len(writes) + 1] = <<a, m>>
        /\ \A i \in 1..Len(writes) : writes'[i] = writes[i]
        /\ \A i \in 1..Len(writes') : i \in 1..Len(writes) \/ i = Len(writes) + 1
    BY <1>2 DEF Ask, Lines
  <2>2. m # "refusal"
    BY DEF Asked, CallMethods, CleanupMethods
  <2>3. \A i \in 1..Len(writes') : writes'[i][2] = "refusal" => i \in 1..Len(writes) /\ writes[i][2] = "refusal"
    BY <2>1, <2>2
  <2> QED
    BY <2>3 DEF RefusalQueued, OneRefusal
<1> QED
  BY <1>1, <1>2

\* An attempt moves, and neither the reader nor the server does.
LEMMA MoveCounts ==
  ASSUME ReadInv, UNCHANGED <<sub, got, early, emitted, reader, asked, thread, closed>>,
         (RefusalQueued' => RefusalQueued) /\ (OneRefusal => OneRefusal'),
         \A b \in Attempts :
           /\ stage[b] = "ended" => stage'[b] = "ended"
           /\ stage'[b] = "receive" => stage[b] = "receive" \/ sub[b].failed # TRUE
           /\ (b \in routes' <=> b \in routes) \/ stage'[b] = "ended"
  PROVE  ReadersInv'
<1>1. ReaderInv'
  BY ReaderQuiet DEF ReadInv, ReadersInv
<1>2. ReadTypes'
  BY DEF ReadInv, ReadersInv, ReadTypes
<1>3. ASSUME NEW b \in Attempts PROVE CountInv(b)'
  <2>1. Asking(b)' = Asking(b)
    BY DEF Asking
  <2> HIDE DEF Asking
  <2> QED
    BY <2>1, CountQuiet DEF ReadInv, ReadersInv
<1> QED
  BY <1>1, <1>2, <1>3 DEF ReadersInv

LEMMA ReceiveCounts ==
  ASSUME ReadInv, NEW c \in Calls, ReceiveEvent(c), ~EndAttempt(c, FALSE)
  PROVE  ReadersInv'
<1> DEFINE a == <<c, try[c]>>
           e == Head(sub[a].queue)
           q == Tail(sub[a].queue)
           g == [seen |-> IF e.kind = "nudge" THEN got[a].seen ELSE e.num,
                 final |-> got[a].final \/ e.kind = "final",
                 completed |-> got[a].completed \/ e.kind = "completed"]
<1>1. /\ a \in Attempts /\ stage \in [Attempts -> Stages]
      /\ sub \in [Attempts -> Subscriptions] /\ got \in [Attempts -> GotSoFar] /\ CountInv(a)
  BY DEF ReadInv, ReadersInv, ReadTypes, NamingInv, WakeInv, AcceptInv, CloseInv, AcceptTypes, Attempts
<1>2. /\ stage[a] = "receive" /\ stage' = [stage EXCEPT ![a] = "check"]
      /\ sub[a].queue # <<>> /\ sub' = [sub EXCEPT ![a].queue = q] /\ got' = [got EXCEPT ![a] = g]
      /\ UNCHANGED <<early, emitted, reader, asked, thread, closed, routes, writes, try>>
  BY DEF ReceiveEvent, server, table, calls
<1>3. /\ sub[a].queue \in Seq(Events) /\ q \in Seq(Events) /\ e \in Events
      /\ Len(sub[a].queue) \in Nat \ {0} /\ Len(q) = Len(sub[a].queue) - 1 /\ Len(q) \in Nat
      /\ e = sub[a].queue[1] /\ \A i \in 1..Len(q) : q[i] = sub[a].queue[i + 1] /\ i + 1 \in 1..Len(sub[a].queue)
  <2>1. sub[a].queue \in Seq(Events)
    BY <1>1 DEF Subscriptions
  <2> QED
    BY <1>2, <2>1
<1>4. g \in GotSoFar
  <2> DEFINE s == IF e.kind = "nudge" THEN got[a].seen ELSE e.num
             f == got[a].final \/ e.kind = "final"
             d == got[a].completed \/ e.kind = "completed"
  <2>1. s \in Nat /\ f \in BOOLEAN /\ d \in BOOLEAN
    BY <1>1, <1>3 DEF GotSoFar, Events
  <2>2. g = [seen |-> s, final |-> f, completed |-> d]
    OBVIOUS
  <2> HIDE DEF s, f, d, g
  <2> QED
    BY <2>1, <2>2 DEF GotSoFar
<1> HIDE DEF q, g, e, a
<1>5. /\ got'[a] = g /\ sub'[a].queue = q /\ sub'[a].failed = sub[a].failed
      /\ stage'[a] = "check" /\ \A b \in Attempts \ {a} : sub'[b] = sub[b] /\ got'[b] = got[b] /\ stage'[b] = stage[b]
  BY <1>1, <1>2 DEF Subscriptions
<1>6. ReadTypes'
  <2>1. sub'[a] \in Subscriptions
    <3>1. sub'[a] = [sub[a] EXCEPT !.queue = q] /\ sub[a] \in Subscriptions
      BY <1>1, <1>2
    <3> QED
      BY <1>3, <3>1 DEF Subscriptions
  <2> QED
    BY <1>1, <1>2, <1>4, <1>5, <2>1 DEF ReadInv, ReadersInv, ReadTypes
<1>7. ReaderInv'
  <2>1. (RefusalQueued' => RefusalQueued) /\ (OneRefusal => OneRefusal')
    BY <1>2 DEF RefusalQueued, OneRefusal
  <2> QED
    BY <1>2, <2>1, ReaderQuiet DEF ReadInv, ReadersInv
<1>8. ASSUME NEW b \in Attempts, b # a PROVE CountInv(b)'
  <2>1. Asking(b)' = Asking(b)
    BY <1>2 DEF Asking
  <2> HIDE DEF Asking
  <2> QED
    BY <1>2, <1>5, <1>8, <2>1, CountQuiet DEF ReadInv, ReadersInv
<1>9. ASSUME NEW b \in Attempts, b = a PROVE CountInv(b)'
  <2>1. Asking(b)' = Asking(b) /\ AskingCount(b)' = AskingCount(b) /\ AskingCount(b) \in {0, 1}
    BY <1>2 DEF Asking, AskingCount
  <2>2. ASSUME ~closed, sub[b].failed = FALSE
        PROVE  /\ g.seen = got[b].seen + 1 /\ Numbered(q, g.seen, b)
               /\ g.seen + Len(q) = got[b].seen + Len(sub[b].queue)
    <3>1. Numbered(sub[b].queue, got[b].seen, b) /\ got[b].seen \in Nat
      BY <1>1, <1>2, <1>9, <2>2 DEF CountInv, GotSoFar
    <3>2. e.num = got[b].seen + 1 /\ e.kind # "nudge"
      BY <1>3, <1>9, <3>1 DEF Numbered
    <3>3. g.seen = got[b].seen + 1
      BY <1>9, <3>2 DEF g
    <3>4. \A i \in 1..Len(q) : q[i].num = got[b].seen + (i + 1) /\ q[i].att = b /\ q[i].kind # "nudge"
      BY <1>3, <1>9, <3>1 DEF Numbered
    <3>5. Numbered(q, g.seen, b)
      <4>0. \A n \in Nat, k \in Nat : \A i \in 1..k : n + (i + 1) = n + 1 + i
        OBVIOUS
      <4>1. \A i \in 1..Len(q) : got[b].seen + (i + 1) = got[b].seen + 1 + i
        BY <1>3, <3>1, <4>0
      <4> QED
        BY <3>3, <3>4, <4>1 DEF Numbered
    <3>6. \A n, k \in Nat : n \in Nat \ {0} /\ k = n - 1 => got[b].seen + 1 + k = got[b].seen + n
      BY <3>1
    <3> QED
      BY <1>3, <1>9, <3>3, <3>5, <3>6
  <2>3. UNCHANGED <<early[b], emitted[b], sub[b].failed>> /\ got'[b] = g /\ sub'[b].queue = q /\ stage'[b] = "check"
    BY <1>2, <1>5, <1>9
  <2>4. ~closed => (b \in routes => early[b] = <<>>) /\ (b \notin routes => q = <<>>) /\ (early[b] # <<>> => thread[b] # "none")
    <3>1. ~closed => b \in routes
      BY <1>1, <1>2, <1>9 DEF CountInv
    <3> QED
      BY <1>1, <1>2, <1>9, <3>1 DEF CountInv
  <2>5. ~closed /\ sub[b].failed = FALSE =>
          /\ Numbered(sub[b].queue, got[b].seen, b)' /\ Numbered(early[b], got[b].seen + Len(sub[b].queue), b)'
          /\ emitted'[b] = g.seen + Len(q) + Len(early[b]) + AskingCount(b)
          /\ Asking(b) => asked.num = emitted[b]
    <3>1. Numbered(sub[b].queue, got[b].seen, b)' = Numbered(q, g.seen, b)
      BY <2>3 DEF Numbered
    <3>2. Numbered(early[b], got[b].seen + Len(sub[b].queue), b)' = Numbered(early[b], g.seen + Len(q), b)
      BY <2>3 DEF Numbered
    <3> HIDE DEF Asking, AskingCount
    <3> QED
      BY <1>1, <1>2, <1>9, <2>2, <2>3, <3>1, <3>2 DEF CountInv
  <2> HIDE DEF Asking, AskingCount
  <2> QED
    BY <1>2, <2>1, <2>3, <2>4, <2>5 DEF CountInv
<1> QED
  BY <1>6, <1>7, <1>8, <1>9 DEF ReadersInv

LEMMA CallCounts ==
  ASSUME ReadInv, NEW c \in Calls, Enter(c) \/ Call(c) \/ Deadline(c)
  PROVE  ReadersInv'
<1> DEFINE a == <<c, try[c]>>
<1>1. a \in Attempts /\ stage \in [Attempts -> Stages] /\ writes \in Seq(Lines) /\ ReadTypes
  BY DEF ReadInv, ReadersInv, NamingInv, WakeInv, AcceptInv, CloseInv, AcceptTypes, Attempts
<1>2. ASSUME UNCHANGED <<sub, got, early, emitted, reader, asked, thread, closed, routes>>,
             writes' = writes \/ \E m \in Asked : Ask(a, m),
             \/ stage' = stage
             \/ /\ \E s \in Stages : /\ stage' = [stage EXCEPT ![a] = s]
                                     /\ s = "receive" => sub[a].failed # TRUE
                /\ stage[a] # "ended" \/ stage' = [stage EXCEPT ![a] = "ended"]
      PROVE  ReadersInv'
  <2>1. (RefusalQueued' => RefusalQueued) /\ (OneRefusal => OneRefusal')
    <3>1. CASE writes' = writes
      BY <3>1 DEF RefusalQueued, OneRefusal
    <3>2. CASE \E m \in Asked : Ask(a, m)
      BY <1>1, <3>2, AskRefuses
    <3> QED
      BY <1>2, <3>1, <3>2
  <2>2. ASSUME NEW b \in Attempts
        PROVE  /\ stage[b] = "ended" => stage'[b] = "ended"
               /\ stage'[b] = "receive" => stage[b] = "receive" \/ sub[b].failed # TRUE
    BY <1>1, <1>2
  <2> HIDE DEF a, RefusalQueued, OneRefusal
  <2> QED
    BY <1>2, <2>1, <2>2, MoveCounts
<1>3. CASE Enter(c) \/ Retry(c) \/ DropLease(c) \/ NotifyWaiters(c)
  BY <1>3, <1>2 DEF Enter, Retry, DropLease, NotifyWaiters, table, server, calls
<1>4. CASE \E again \in BOOLEAN : EndAttempt(c, again)
  BY <1>4, <1>2 DEF EndAttempt, table, server, Stages
<1>5. CASE StartAttempt(c)
  <2>1. stage[a] = "none"
    BY <1>5 DEF StartAttempt, ReadInv, NamingInv, WakeInv, AcceptInv, TriesInv
  <2> QED
    BY <1>2, <1>5, <2>1 DEF StartAttempt, server, Asked, Stages, CallMethods
<1>6. CASE ThreadStarted(c)
  BY <1>2, <1>6 DEF ThreadStarted, server, Asked, Stages, CallMethods
<1>7. CASE TurnStarted(c)
  <2>1. /\ stage' = [stage EXCEPT ![a] = "check"] /\ stage[a] = "turn/start" /\ writes' = writes
        /\ UNCHANGED <<sub, got, early, emitted, reader, asked, thread, closed, routes>>
    BY <1>7 DEF TurnStarted, server, table
  <2>2. "check" \in Stages /\ "check" # "receive" /\ "turn/start" # "ended"
    BY DEF Stages
  <2> HIDE DEF a
  <2> QED
    BY <1>2, <2>1, <2>2
<1>8. CASE StartRejected(c)
  BY <1>4, <1>8 DEF StartRejected, Retryable
<1>9. CASE CheckEvents(c)
  BY <1>2, <1>4, <1>9 DEF CheckEvents, server, table, Stages
<1>10. CASE ReceiveEvent(c)
  BY <1>4, <1>10, ReceiveCounts
<1>11. CASE Deadline(c)
  <2>1. UNCHANGED <<sub, got, early, emitted, reader, asked, thread, closed, routes, writes, stage>> \/ EndAttempt(c, FALSE)
    BY <1>11 DEF Deadline, table, server
  <2> QED
    BY <1>2, <1>4, <2>1
<1> QED
  BY <1>3, <1>5, <1>6, <1>7, <1>8, <1>9, <1>10, <1>11 DEF Call

\* When no thread/start is pending any more, the early events that are dropped
\* are of nobody who still waits.
LEMMA DropsCount ==
  ASSUME ReadInv, NEW b \in Attempts, UNCHANGED <<stage, closed>>, ~Starting(pending'),
         <<b, "thread/start">> \in pending => <<b, "thread/start">> \in pending'
  PROVE  early[b] = <<>> \/ stage'[b] = "ended" \/ closed'
<1> SUFFICES ASSUME stage[b] # "ended", ~closed, early[b] # <<>> PROVE FALSE
  OBVIOUS
<1>1. b \notin routes /\ thread[b] # "none"
  BY DEF ReadInv, ReadersInv, CountInv
<1>2. <<b, "thread/start">> \in pending'
  BY <1>1, EarlyNamed
<1> QED
  BY <1>2 DEF Starting

LEMMA CleanupCounts ==
  ASSUME ReadInv, NEW a \in Attempts, Cleanup(a) \/ GiveUpSeeking(a) \/ CleanupTimeout(a)
  PROVE  ReadersInv'
<1>1. /\ StartInv(a) /\ cleaner[a] # "none" /\ writes \in Seq(Lines) /\ ReadTypes
      /\ UNCHANGED <<stage, sub, got, emitted, reader, asked, thread, closed>>
  BY DEF ReadInv, ReadersInv, NamingInv, WakeInv, AcceptInv, AcceptTypes, Cleanup, Look, Seek, GiveUpSeeking,
         Snapshot, CleanupContinues, CleanupTimeout, NameThread, Sweep, CleanupMethods, Elsewhere, server
<1>2. stage[a] = "ended"
  BY <1>1 DEF StartInv
<1>3. CASE Sweep(a)
  <2>1. /\ writes' = writes /\ routes' \in {routes, routes \ {a}}
        /\ pending' = {r \in pending : IF r[2] \in CallMethods THEN r[1] # a ELSE Awaited(r[1], r[2])}
        /\ early' = IF ~Starting(pending') THEN NothingEarly
                    ELSE IF cleaner[a] = "forget" THEN [early EXCEPT ![a] = <<>>] ELSE early
    BY <1>3 DEF Sweep
  <2>2. ReadTypes'
    <3>1. <<>> \in Seq(Events) /\ early \in [Attempts -> Seq(Events)]
      BY <1>1 DEF ReadTypes
    <3>2. early' \in [Attempts -> Seq(Events)]
      BY <2>1, <3>1 DEF NothingEarly
    <3> QED
      BY <1>1, <3>2 DEF ReadTypes
  <2>3. ReaderInv'
    <3>1. (RefusalQueued' => RefusalQueued) /\ (OneRefusal => OneRefusal')
      BY <2>1 DEF RefusalQueued, OneRefusal
    <3> QED
      BY <1>1, <3>1, ReaderQuiet DEF ReadInv, ReadersInv
  <2>4. ASSUME NEW b \in Attempts PROVE CountInv(b)'
    <3>1. Asking(b)' = Asking(b)
      BY <1>1 DEF Asking
    <3>2. early'[b] = early[b] \/ stage'[b] = "ended" \/ closed'
      <4>1. CASE b = a
        BY <1>1, <1>2, <4>1
      <4>2. CASE b # a /\ ~Starting(pending')
        <5>1. <<b, "thread/start">> \in pending => <<b, "thread/start">> \in pending'
          BY <2>1, <4>2 DEF CallMethods
        <5>2. early'[b] = <<>>
          BY <2>1, <4>2 DEF NothingEarly
        <5> QED
          BY <1>1, <4>2, <5>1, <5>2, DropsCount
      <4>3. CASE b # a /\ Starting(pending')
        BY <1>1, <2>1, <4>3 DEF ReadTypes
      <4> QED
        BY <4>1, <4>2, <4>3
    <3>3. (b \in routes' <=> b \in routes) \/ stage'[b] = "ended"
      BY <1>1, <1>2, <2>1
    <3> HIDE DEF Asking
    <3> QED
      BY <1>1, <3>1, <3>2, <3>3, CountQuiet DEF ReadInv, ReadersInv
  <2> QED
    BY <2>2, <2>3, <2>4 DEF ReadersInv
<1>4. ASSUME UNCHANGED <<routes, early>>, writes' = writes \/ \E m \in Asked : Ask(a, m)
      PROVE  ReadersInv'
  <2>1. (RefusalQueued' => RefusalQueued) /\ (OneRefusal => OneRefusal')
    <3>1. CASE writes' = writes
      BY <3>1 DEF RefusalQueued, OneRefusal
    <3>2. CASE \E m \in Asked : Ask(a, m)
      BY <1>1, <3>2, AskRefuses
    <3> QED
      BY <1>4, <3>1, <3>2
  <2> HIDE DEF RefusalQueued, OneRefusal
  <2> QED
    BY <1>1, <1>4, <2>1, MoveCounts
<1>5. CASE Look(a) \/ Seek(a) \/ GiveUpSeeking(a) \/ CleanupTimeout(a) \/ NameThread(a)
  BY <1>5, <1>4 DEF Look, Seek, GiveUpSeeking, CleanupTimeout, NameThread, Elsewhere
<1>6. CASE Snapshot(a) \/ CleanupContinues(a)
  BY <1>6, <1>4 DEF Snapshot, CleanupContinues, Elsewhere, CleanupMethods, Asked
<1> QED
  BY <1>3, <1>5, <1>6 DEF Cleanup
-----------------------------------------------------------------------------
LEMMA TakeRefuses ==
  ASSUME writes \in Seq(Lines), writes # <<>>, writes' = Tail(writes)
  PROVE  /\ RefusalQueued' => RefusalQueued
         /\ Head(writes)[2] = "refusal" => RefusalQueued
         /\ OneRefusal => OneRefusal' /\ (Head(writes)[2] = "refusal" => ~RefusalQueued')
<1>1. /\ Len(writes) \in Nat \ {0} /\ Len(writes') = Len(writes) - 1 /\ Head(writes) = writes[1]
      /\ \A i \in 1..Len(writes') : writes'[i] = writes[i + 1] /\ i + 1 \in 1..Len(writes)
  OBVIOUS
<1> QED
  BY <1>1 DEF RefusalQueued, OneRefusal

LEMMA WriteCounts ==
  ASSUME ReadInv, NamingInv', WriteNext
  PROVE  ReadersInv'
<1> DEFINE w == Head(writes)
<1>1. /\ writes \in Seq(Lines) /\ writes # <<>> /\ writes' = Tail(writes) /\ ReadTypes
      /\ UNCHANGED <<stage, got, cleaner, asked>>
  BY DEF WriteNext, ReadInv, ReadersInv, NamingInv, WakeInv, AcceptInv, AcceptTypes
<1>2. /\ RefusalQueued' => RefusalQueued
      /\ w[2] = "refusal" => RefusalQueued
      /\ OneRefusal => OneRefusal' /\ (w[2] = "refusal" => ~RefusalQueued')
  BY <1>1, TakeRefuses
<1>3. ASSUME UNCHANGED <<sub, early, emitted, routes, closed>>,
             \A b \in Attempts : thread[b] # "none" => thread'[b] # "none",
             reader' = reader \/ (w[2] = "refusal" /\ reader' = "refused")
      PROVE  ReadersInv'
  <2>1. ReadTypes'
    BY <1>1, <1>3 DEF ReadTypes
  <2>2. ReaderInv /\ (reader' # reader => reader = "refusing" \/ closed)
    <3> HIDE DEF RefusalQueued, OneRefusal, w
    <3> QED
      BY <1>2, <1>3 DEF ReadInv, ReadersInv, ReaderInv
  <2>3. ReaderInv'
    <3>1. CASE reader' = reader
      BY <1>1, <1>2, <1>3, <2>2, <3>1, ReaderQuiet
    <3>2. CASE reader' # reader
      <4> HIDE DEF RefusalQueued, OneRefusal, w
      <4>1. asked' \in Sent /\ thread'[asked'.att] # "none"
        BY <1>1, <1>2, <1>3, <2>2, <3>2 DEF ReaderInv, Sent
      <4> QED
        BY <1>1, <1>2, <1>3, <2>2, <3>2, <4>1 DEF ReaderInv
    <3> QED
      BY <3>1, <3>2
  <2>4. ASSUME NEW b \in Attempts PROVE CountInv(b)'
    <3>1. closed' \/ (Asking(b)' <=> Asking(b))
      BY <1>1, <1>3, <2>2 DEF Asking
    <3> HIDE DEF Asking, w
    <3> QED
      BY <1>1, <1>3, <3>1, CountQuiet DEF ReadInv, ReadersInv
  <2> QED
    BY <2>1, <2>3, <2>4 DEF ReadersInv
<1>4. CASE FailSession /\ UNCHANGED server /\ (reader' = reader \/ reader' = "gone")
  <2>1. closed' /\ ReadTypes' /\ \A a \in Attempts : CountInv(a)'
    BY <1>1, <1>4, FailCounts DEF server, ReadTypes
  <2>2. ReaderInv'
    <3> HIDE DEF RefusalQueued, OneRefusal, w
    <3> QED
      BY <1>1, <1>2, <1>4, <2>1, ReaderQuiet DEF ReadInv, ReadersInv, server
  <2> QED
    BY <2>1, <2>2 DEF ReadersInv
<1>5. CASE w[2] # "refusal" /\ Awaited(w[1], w[2]) /\ Serve(w[1], w[2]) /\ UNCHANGED <<table, answer, sub, reader>>
  <2>1. w[1] \in Attempts /\ w[2] \in Asked
    BY <1>1, <1>5 DEF Lines
  <2>2. UNCHANGED emitted
    BY <1>5 DEF Serve
  <2>3. thread' \in {thread, [thread EXCEPT ![w[1]] = "open"], [thread EXCEPT ![w[1]] = "closed"]}
    <3> HIDE DEF w
    <3> QED
      BY <1>5, <2>1 DEF Serve, Asked, CallMethods, CleanupMethods
  <2>4. \A b \in Attempts : thread[b] # "none" => thread'[b] # "none"
    <3> HIDE DEF w
    <3> QED
      BY <2>1, <2>3 DEF ReadInv, NamingInv
  <2> QED
    BY <1>3, <1>5, <2>2, <2>4 DEF table
<1>6. CASE UNCHANGED <<server, table, answer, sub>> /\ (reader' = reader \/ (w[2] = "refusal" /\ reader' = "refused"))
  BY <1>3, <1>6 DEF server, table
<1> QED
  BY <1>4, <1>5, <1>6 DEF WriteNext

LEMMA EmitCounts ==
  ASSUME ReadInv, NEW a \in Attempts, NEW kind \in Kinds, Emit(a, kind)
  PROVE  ReadersInv'
<1> DEFINE e == Event(a, kind, emitted[a] + 1, turn[a] # "unstarted")
<1>1. /\ reader = "reading" /\ thread[a] # "none" /\ emitted' = [emitted EXCEPT ![a] = @ + 1]
      /\ UNCHANGED <<stage, got, thread>> /\ ReadTypes /\ ReaderInv /\ writes \in Seq(Lines)
  BY DEF Emit, ReadInv, ReadersInv, NamingInv, WakeInv, AcceptInv, AcceptTypes
<1>2. emitted' \in [Attempts -> Nat] /\ emitted'[a] = emitted[a] + 1 /\ \A b \in Attempts \ {a} : emitted'[b] = emitted[b]
  BY <1>1 DEF ReadTypes
<1>3. e \in Sent /\ e.att = a /\ e.num = emitted[a] + 1
  <2> DEFINE b == turn[a] # "unstarted"
  <2>1. b \in BOOLEAN /\ emitted[a] + 1 \in Nat /\ kind \in EventKinds
    BY <1>1, TransportAssumption DEF ReadTypes
  <2>2. e = [att |-> a, kind |-> kind, num |-> emitted[a] + 1, turn |-> b]
    BY DEF Event
  <2> HIDE DEF e, b
  <2> QED
    BY <2>1, <2>2 DEF Sent
<1> HIDE DEF e
<1>4. \A b \in Attempts : ~Asking(b) /\ AskingCount(b) = 0
  BY <1>1 DEF Asking, AskingCount
<1>5. ~closed /\ stage[a] # "ended" /\ sub[a].failed = FALSE =>
        emitted'[a] = got[a].seen + Len(sub[a].queue) + Len(early[a]) + 1
  <2>1. ASSUME ~closed, stage[a] # "ended", sub[a].failed = FALSE
        PROVE  emitted[a] = got[a].seen + Len(sub[a].queue) + Len(early[a]) + 0
    <3> HIDE DEF Asking, AskingCount
    <3> QED
      BY <1>4, <2>1 DEF ReadInv, ReadersInv, CountInv
  <2>2. got[a].seen \in Nat /\ Len(sub[a].queue) \in Nat /\ Len(early[a]) \in Nat
    BY <1>1 DEF ReadTypes, GotSoFar, Subscriptions
  <2>3. \A x, y, z \in Nat : x + y + z + 0 = x + y + z
    OBVIOUS
  <2> QED
    BY <1>2, <2>1, <2>2, <2>3
<1>6. CASE Route(a, e) /\ UNCHANGED <<asked, writes>>
  <2>1. ReadTypes' /\ \A b \in Attempts : CountInv(b)'
    BY <1>1, <1>2, <1>3, <1>4, <1>5, <1>6, RouteCounts
  <2>2. reader' = "reading" \/ (reader' = "gone" /\ closed')
    <3>1. FailSession => closed'
      BY DEF FailSession, table
    <3> QED
      BY <1>6, <3>1 DEF Route
  <2>3. (RefusalQueued' => RefusalQueued) /\ (OneRefusal => OneRefusal') /\ (closed => closed')
    BY <1>6 DEF RefusalQueued, OneRefusal, Route, FailSession, table
  <2>4. ReaderInv'
    <3> HIDE DEF RefusalQueued, OneRefusal
    <3> QED
      BY <1>1, <1>6, <2>2, <2>3, ReaderQuiet
  <2> QED
    BY <2>1, <2>4 DEF ReadersInv
<1>7. CASE /\ asked' = e /\ UNCHANGED <<table, answer, sub>>
           /\ IF closed THEN reader' = "gone" /\ UNCHANGED writes
              ELSE reader' = "refusing" /\ writes' = Append(writes, <<a, "refusal">>)
  <2>1. ReadTypes'
    BY <1>1, <1>2, <1>7 DEF ReadTypes, table
  <2>2. asked' \in Sent /\ thread'[asked'.att] # "none"
    BY <1>1, <1>3, <1>7
  <2>3. CASE closed
    <3>1. ReaderInv'
      BY <1>1, <1>7, <2>2, <2>3 DEF ReaderInv, table
    <3>2. \A b \in Attempts : CountInv(b)'
      BY <1>1, <1>7, <2>3 DEF table, CountInv, ReadInv, ReadersInv
    <3> QED
      BY <2>1, <3>1, <3>2 DEF ReadersInv
  <2>4. CASE ~closed
    <3>1. OneRefusal'
      <4>1. ~RefusalQueued
        BY <1>1, <2>4 DEF ReaderInv
      <4>2. /\ Len(writes) \in Nat /\ Len(writes') = Len(writes) + 1
            /\ \A i \in 1..Len(writes) : writes'[i] = writes[i]
            /\ \A i \in 1..Len(writes') : i \in 1..Len(writes) \/ i = Len(writes) + 1
        BY <1>1, <1>7, <2>4
      <4> QED
        BY <4>1, <4>2 DEF RefusalQueued, OneRefusal
    <3>2. ReaderInv'
      <4> HIDE DEF RefusalQueued, OneRefusal
      <4> QED
        BY <1>7, <2>2, <2>4, <3>1 DEF ReaderInv, table
    <3>3. ASSUME NEW b \in Attempts \ {a} PROVE CountInv(b)'
      <4>1. ~Asking(b)'
        BY <1>3, <1>7, <2>4 DEF Asking
      <4> HIDE DEF Asking
      <4> QED
        BY <1>1, <1>2, <1>4, <1>7, <4>1, CountQuiet DEF ReadInv, ReadersInv, table
    <3>4. CountInv(a)'
      <4>1. Asking(a)' /\ AskingCount(a)' = 1 /\ asked'.num = emitted'[a]
        BY <1>2, <1>3, <1>7, <2>4 DEF Asking, AskingCount
      <4>2. UNCHANGED <<sub, got, early, routes, closed, stage, thread>>
        BY <1>1, <1>7 DEF table
      <4> HIDE DEF Asking, AskingCount
      <4>3. CountInv(a)
        BY DEF ReadInv, ReadersInv
      <4> QED
        BY <1>5, <4>1, <4>2, <4>3 DEF CountInv, Numbered
    <3> QED
      BY <2>1, <3>2, <3>3, <3>4 DEF ReadersInv
  <2> QED
    BY <2>3, <2>4
<1> QED
  BY <1>6, <1>7 DEF Emit, e

LEMMA RefusedCounts ==
  ASSUME ReadInv, RouteRefused
  PROVE  ReadersInv'
<1> DEFINE a == asked.att
<1>1. /\ reader = "refused" /\ Route(a, asked)
      /\ UNCHANGED <<stage, got, writes, asked, thread, emitted>> /\ ReadTypes /\ ReaderInv
  BY DEF RouteRefused, server, ReadInv, ReadersInv
<1>2. asked \in Sent /\ a \in Attempts /\ thread[a] # "none"
  BY <1>1 DEF ReaderInv, Sent
<1>3. \A b \in Attempts \ {a} : emitted'[b] = emitted[b] /\ ~Asking(b)
  BY <1>1 DEF Asking
<1>4. ~closed /\ stage[a] # "ended" /\ sub[a].failed = FALSE =>
        /\ emitted'[a] = got[a].seen + Len(sub[a].queue) + Len(early[a]) + 1
        /\ asked.num = emitted'[a]
  <2>1. Asking(a) /\ AskingCount(a) = 1
    BY <1>1 DEF Asking, AskingCount
  <2> HIDE DEF Asking, AskingCount, a
  <2> QED
    BY <1>1, <1>2, <2>1 DEF ReadInv, ReadersInv, CountInv
<1>5. ReadTypes' /\ \A b \in Attempts : CountInv(b)'
  <2>1. emitted' \in [Attempts -> Nat] /\ asked.att = a
    BY <1>1 DEF ReadTypes
  <2> HIDE DEF a
  <2> QED
    BY <1>1, <1>2, <1>3, <1>4, <2>1, RouteCounts
<1>6. reader' = "reading" \/ (reader' = "gone" /\ closed')
  BY <1>1 DEF Route, FailSession, table
<1>7. (RefusalQueued' <=> RefusalQueued) /\ (OneRefusal' <=> OneRefusal) /\ (closed => closed')
  BY <1>1 DEF RefusalQueued, OneRefusal, Route, FailSession, table
<1>8. ReaderInv'
  <2> HIDE DEF RefusalQueued, OneRefusal
  <2> QED
    BY <1>1, <1>2, <1>6, <1>7 DEF ReaderInv
<1> QED
  BY <1>5, <1>8 DEF ReadersInv

LEMMA RespondCounts ==
  ASSUME ReadInv, NEW a \in Attempts, NEW m \in Asked, NEW kind \in AnswerTexts, Respond(a, m, kind)
  PROVE  ReadersInv'
<1> DEFINE named == m = "thread/start" /\ kind \in {"ok", "mismatch"}
<1>1. /\ UNCHANGED <<stage, got, emitted, reader, asked, thread, writes, closed>>
      /\ ReadTypes /\ ReaderInv /\ <<a, m, kind>> \in owed /\ \A b \in Attempts : CountInv(b)
  BY DEF Respond, table, ReadInv, ReadersInv
<1>2. ReaderInv'
  <2>1. (RefusalQueued' => RefusalQueued) /\ (OneRefusal => OneRefusal')
    BY <1>1 DEF RefusalQueued, OneRefusal
  <2> HIDE DEF RefusalQueued, OneRefusal
  <2> QED
    BY <1>1, <2>1, ReaderQuiet
<1>3. \A b \in Attempts : /\ Asking(b)' = Asking(b) /\ AskingCount(b)' = AskingCount(b)
                          /\ stage[b] = "ended" => stage'[b] = "ended"
  BY <1>1 DEF Asking, AskingCount
<1>4. ASSUME NEW b \in Attempts, sub'[b] = sub[b], b \in routes' <=> b \in routes,
             early'[b] = early[b] \/ stage'[b] = "ended" \/ closed'
      PROVE  CountInv(b)'
  <2> HIDE DEF Asking
  <2> QED
    BY <1>1, <1>3, <1>4, CountQuiet
<1>5. CASE <<a, m>> \notin pending
  BY <1>1, <1>2, <1>4, <1>5 DEF Respond, table, ReadTypes, ReadersInv
<1>6. CASE <<a, m>> \in pending
  <2>1. /\ pending' = pending \ {<<a, m>>}
        /\ ~Starting(pending') => early' = NothingEarly
    BY <1>6 DEF Respond
  <2>2. ~closed
    BY <1>6 DEF ReadInv, NamingInv, WakeInv, SessionInv, ClosedInv
  <2>3. ASSUME NEW b \in Attempts, b # a \/ m # "thread/start", ~Starting(pending')
        PROVE  early'[b] = early[b] \/ stage'[b] = "ended" \/ closed'
    <3>1. early[b] = <<>> \/ stage'[b] = "ended" \/ closed'
      BY <1>1, <2>1, <2>3, DropsCount
    <3> QED
      BY <2>1, <2>3, <3>1 DEF NothingEarly
  <2>4. <<>> \in Seq(Events) /\ NothingEarly \in [Attempts -> Seq(Events)]
    <3>1. <<>> \in Seq(Events)
      OBVIOUS
    <3> QED
      BY <3>1 DEF NothingEarly
  <2>5. CASE ~named
    <3>1. /\ sub' = IF m = "turn/start" /\ kind = "ok" THEN [sub EXCEPT ![a].turn = TRUE] ELSE sub
          /\ early' \in {NothingEarly, early} /\ (Starting(pending') => early' = early) /\ routes' = routes
      BY <1>6, <2>5 DEF Respond
    <3>2. ReadTypes'
      <4>1. sub' \in [Attempts -> Subscriptions]
        BY <1>1, <3>1 DEF ReadTypes, Subscriptions
      <4> QED
        BY <1>1, <2>4, <3>1, <4>1 DEF ReadTypes
    <3>3. \A b \in Attempts : sub'[b].failed = sub[b].failed /\ sub'[b].queue = sub[b].queue
      BY <1>1, <3>1 DEF ReadTypes, Subscriptions
    <3>4. ASSUME NEW b \in Attempts PROVE early'[b] = early[b] \/ stage'[b] = "ended" \/ closed'
      <4>1. CASE Starting(pending')
        BY <3>1, <4>1
      <4>2. CASE b # a \/ m # "thread/start"
        BY <2>3, <3>1, <4>2
      <4>3. CASE b = a /\ m = "thread/start" /\ ~Starting(pending')
        <5>1. stage[a] = "ended" \/ thread[a] = "none"
          <6>1. NameInv(a) /\ kind \in NewOwed(a)
            BY <1>1, <4>3 DEF ReadInv, NamingInv, NewOwed
          <6> HIDE DEF NewOwed
          <6> QED
            BY <2>5, <4>3, <6>1 DEF NameInv
        <5>2. stage[a] = "ended" \/ early[a] = <<>>
          BY <1>1, <2>2, <5>1 DEF CountInv
        <5> QED
          BY <1>1, <2>1, <4>3, <5>2 DEF NothingEarly
      <4> QED
        BY <4>1, <4>2, <4>3
    <3>5. ASSUME NEW b \in Attempts PROVE CountInv(b)'
      <4>1. CASE sub'[b] = sub[b]
        BY <1>4, <3>1, <3>4, <4>1
      <4>2. CASE sub'[b] # sub[b]
        <5>1. CountInv(b) /\ (early'[b] = early[b] \/ stage'[b] = "ended")
          BY <1>1, <2>2, <3>4
        <5> HIDE DEF Asking, AskingCount
        <5> QED
          BY <1>1, <1>3, <3>1, <3>3, <5>1 DEF CountInv, Numbered
      <4> QED
        BY <4>1, <4>2
    <3> QED
      BY <1>2, <3>2, <3>5 DEF ReadersInv
  <2>6. CASE named
    <3> DEFINE d == Named(a, sub[a], early[a])
    <3>1. /\ sub' = [sub EXCEPT ![a] = d] /\ routes' = routes \cup {a}
          /\ early' = IF ~Starting(pending') THEN NothingEarly ELSE [early EXCEPT ![a] = <<>>]
      BY <1>6, <2>6 DEF Respond
    <3>2. /\ d \in Subscriptions
          /\ d.failed = FALSE /\ sub[a].queue = <<>> => sub[a].failed = FALSE /\ d.queue = early[a]
      <4>1. sub[a] \in Subscriptions /\ early[a] \in Seq(Events)
        BY <1>1 DEF ReadTypes
      <4> QED
        BY <4>1, NamedQueues
    <3> HIDE DEF d
    <3>3. /\ sub'[a] = d /\ ReadTypes' /\ early'[a] = <<>>
          /\ \A b \in Attempts \ {a} : sub'[b] = sub[b] /\ (Starting(pending') => early'[b] = early[b])
      BY <1>1, <2>4, <3>1, <3>2 DEF ReadTypes, NothingEarly
    <3>4. ASSUME NEW b \in Attempts \ {a} PROVE CountInv(b)'
      <4>1. early'[b] = early[b] \/ stage'[b] = "ended" \/ closed'
        BY <2>3, <3>3
      <4> QED
        BY <1>4, <3>1, <3>3, <4>1
    <3>5. CASE stage[a] = "ended"
      <4>1. CountInv(a)'
        BY <1>1, <3>5 DEF CountInv
      <4> QED
        BY <1>2, <3>3, <3>4, <4>1 DEF ReadersInv
    <3>6. CASE stage[a] # "ended"
      <4>1. stage[a] = "thread/start" /\ answer[a] = "none" /\ NameInv(a)
        BY <1>6, <2>6, <3>6 DEF ReadInv, NamingInv, NameInv
      <4>2. a \notin routes /\ sub[a].queue = <<>>
        BY <1>1, <1>6, <2>2, <2>6, <3>6, <4>1 DEF CountInv, NameInv
      <4>3. d.failed = FALSE =>
              /\ Numbered(d.queue, got[a].seen, a) /\ Numbered(<<>>, got[a].seen + Len(d.queue), a)
              /\ emitted[a] = got[a].seen + Len(d.queue) + Len(<<>>) + AskingCount(a)
              /\ Asking(a) => asked.num = emitted[a]
        <5>1. Len(<<>>) = 0 /\ \A from : Numbered(<<>>, from, a)
          BY DEF Numbered
        <5>2. got[a].seen \in Nat /\ Len(early[a]) \in Nat /\ got[a].seen + 0 = got[a].seen
              /\ got[a].seen + Len(early[a]) \in Nat
          BY <1>1 DEF ReadTypes, GotSoFar
        <5>3. got[a].seen + 0 + Len(early[a]) = got[a].seen + Len(early[a]) + 0
          BY <5>2
        <5>4. d.failed = FALSE =>
                /\ Numbered(early[a], got[a].seen + 0, a)
                /\ emitted[a] = got[a].seen + 0 + Len(early[a]) + AskingCount(a)
                /\ Asking(a) => asked.num = emitted[a]
          <6> HIDE DEF Asking, AskingCount
          <6> QED
            BY <1>1, <2>2, <3>2, <3>6, <4>2, <5>1 DEF CountInv
        <5> HIDE DEF Asking, AskingCount
        <5> QED
          BY <3>2, <4>2, <5>1, <5>2, <5>3, <5>4
      <4>4. CountInv(a)'
        <5>1. Numbered(sub[a].queue, got[a].seen, a)' = Numbered(d.queue, got[a].seen, a)
          BY <1>1, <3>3 DEF Numbered
        <5>2. Numbered(early[a], got[a].seen + Len(sub[a].queue), a)' = Numbered(<<>>, got[a].seen + Len(d.queue), a)
          BY <1>1, <3>3 DEF Numbered
        <5>3. AskingCount(a)' = AskingCount(a) /\ Asking(a)' = Asking(a)
          BY <1>3
        <5> HIDE DEF Asking, AskingCount
        <5> QED
          BY <1>1, <3>1, <3>3, <4>1, <4>3, <5>1, <5>2, <5>3 DEF CountInv
      <4> QED
        BY <1>2, <3>3, <3>4, <4>4 DEF ReadersInv
    <3> QED
      BY <3>5, <3>6
  <2> QED
    BY <2>5, <2>6
<1> QED
  BY <1>5, <1>6

LEMMA StepRead == ReadInv /\ [Next]_vars => ReadInv'
<1> SUFFICES ASSUME ReadInv, [Next]_vars PROVE ReadInv'
  OBVIOUS
<1>1. NamingInv'
  BY StepNaming DEF ReadInv
<1> SUFFICES ReadersInv'
  BY <1>1 DEF ReadInv
<1>2. CASE \E c \in Calls : Enter(c) \/ Call(c) \/ Deadline(c)
  BY <1>2, CallCounts
<1>3. CASE \E a \in Attempts : Cleanup(a) \/ GiveUpSeeking(a) \/ CleanupTimeout(a)
  BY <1>3, CleanupCounts
<1>4. CASE \E a \in Attempts, kind \in Kinds : Emit(a, kind)
  BY <1>4, EmitCounts
<1>5. CASE \E r \in owed : Respond(r[1], r[2], r[3])
  BY <1>5, RespondCounts DEF ReadInv, NamingInv, WakeInv, AcceptInv, AcceptTypes
<1>6. CASE WriteNext
  BY <1>1, <1>6, WriteCounts
<1>7. CASE RouteRefused
  BY <1>7, RefusedCounts
<1>8. CASE EndOfOutput \/ Stop
  <2>1. /\ FailSession /\ UNCHANGED <<stage, got, emitted, thread, asked, writes>> /\ reader' = "gone"
    BY <1>8 DEF EndOfOutput, Stop, Untouched, server
  <2>2. closed' /\ ReadTypes' /\ \A a \in Attempts : CountInv(a)'
    BY <2>1, FailCounts DEF ReadInv, ReadersInv, ReadTypes
  <2>3. (RefusalQueued' => RefusalQueued) /\ (OneRefusal => OneRefusal')
    BY <2>1 DEF RefusalQueued, OneRefusal
  <2>4. ReaderInv'
    <3> HIDE DEF RefusalQueued, OneRefusal
    <3> QED
      BY <2>1, <2>2, <2>3, ReaderQuiet DEF ReadInv, ReadersInv
  <2> QED
    BY <2>2, <2>4 DEF ReadersInv
<1>9. CASE Exit \/ Listen \/ CountLeases \/ UNCHANGED vars
  <2>1. UNCHANGED <<sub, got, early, emitted, reader, asked, thread, closed, routes, stage, writes>>
    BY <1>9 DEF Exit, Listen, CountLeases, Untouched, table, server, calls, vars
  <2>2. (RefusalQueued' => RefusalQueued) /\ (OneRefusal => OneRefusal')
    BY <2>1 DEF RefusalQueued, OneRefusal
  <2> HIDE DEF RefusalQueued, OneRefusal
  <2> QED
    BY <2>1, <2>2, MoveCounts
<1> QED
  BY <1>2, <1>3, <1>4, <1>5, <1>6, <1>7, <1>8, <1>9 DEF Next, Close

\* Every event of a thread reaches its subscriber once and in the order of the
\* server, also what arrived before thread/start was answered, for any buffer
\* bounds and faults: until the subscription or the session fails, what was read
\* and what is held is all that was emitted (read_loop, deliver).
THEOREM NoEventIsMissed == Spec => []EventsComplete
<1>1. ReadInv => EventsComplete
  <2> SUFFICES ASSUME ReadInv, NEW a \in Attempts, Listening(a), ~sub[a].failed, ~closed, reader = "reading"
               PROVE  LET held == sub[a].queue \o early[a]
                      IN /\ got[a].seen + Len(held) = emitted[a]
                         /\ \A i \in 1..Len(held) : held[i].att = a /\ held[i].num = got[a].seen + i
    BY DEF EventsComplete
  <2> DEFINE q == sub[a].queue
             k == early[a]
             held == q \o k
             seen == got[a].seen
  <2>1. stage[a] # "ended" /\ CountInv(a) /\ ReadTypes /\ ~Asking(a) /\ AskingCount(a) = 0
    BY DEF Listening, CallMethods, ReadInv, ReadersInv, Asking, AskingCount
  <2>2. q \in Seq(Events) /\ k \in Seq(Events) /\ seen \in Nat /\ emitted[a] \in Nat /\ sub[a].failed = FALSE
    BY <2>1 DEF ReadTypes, Subscriptions, GotSoFar
  <2>3. Numbered(q, seen, a) /\ Numbered(k, seen + Len(q), a) /\ emitted[a] = seen + Len(q) + Len(k) + 0
    <3> HIDE DEF Asking, AskingCount
    <3> QED
      BY <2>1, <2>2 DEF CountInv
  <2> HIDE DEF q, k, seen
  <2>4. /\ Len(held) = Len(q) + Len(k) /\ Len(q) \in Nat /\ Len(k) \in Nat
        /\ \A i \in 1..Len(held) : held[i] = IF i <= Len(q) THEN q[i] ELSE k[i - Len(q)]
    BY <2>2
  <2> HIDE DEF held
  <2>5. ASSUME NEW i \in 1..Len(held) PROVE held[i].att = a /\ held[i].num = seen + i
    <3>1. CASE i <= Len(q)
      BY <2>3, <2>4, <3>1 DEF Numbered
    <3>2. CASE i > Len(q)
      <4>1. i - Len(q) \in 1..Len(k) /\ held[i] = k[i - Len(q)]
        BY <2>4, <3>2
      <4>2. held[i].att = a /\ held[i].num = seen + Len(q) + (i - Len(q))
        BY <2>3, <4>1 DEF Numbered
      <4>3. seen + Len(q) + (i - Len(q)) = seen + i
        BY <2>2, <2>4
      <4> QED
        BY <4>2, <4>3
    <3> QED
      BY <2>4, <3>1, <3>2
  <2>6. seen + Len(held) = emitted[a]
    BY <2>2, <2>3, <2>4
  <2> QED
    BY <2>5, <2>6 DEF held, q, k, seen
<1> QED
  BY <1>1, InitRead, StepRead, PTL DEF Spec

\* An attempt whose subscription fails while it waits for an event finds one in
\* its queue, so it wakes and sees the failure (deliver, Shared::fail).
THEOREM FailuresWake == Spec => []FailureWakes
<1>1. ReadInv => FailureWakes
  BY DEF ReadInv, ReadersInv, ReadTypes, Subscriptions, CountInv, FailureWakes
<1> QED
  BY <1>1, InitRead, StepRead, PTL DEF Spec
-----------------------------------------------------------------------------
Ends(e) == e.kind \in {"completed", "turn_failed"}
\* The reader refuses a request, and nothing else.
AskedInv == reader \in {"refusing", "refused"} \/ RefusalQueued => asked.kind = "request"
\* What came early is kept while a thread may be named.
EarlyInv == ~Starting(pending) => early = NothingEarly
\* A thread with a turn is known to its attempt, and an end that was told is one.
TurnInv(a) ==
  /\ a \in routes \/ turn[a] # "unstarted" => sub[a].thread = TRUE
  /\ sub[a].completed = TRUE \/ (\E i \in 1..Len(early[a]) : Ends(early[a][i])) => turn[a] = "over"
TurnsInv == AskedInv /\ EarlyInv /\ \A a \in Attempts : TurnInv(a)

\* An attempt that ended has a cleanup, which leaves nothing registered behind.
LeftInv(a) ==
  /\ stage[a] = "ended" => cleaner[a] # "none"
  /\ \A m \in Asked : <<a, m>> \in pending => stage[a] # "none" /\ cleaner[a] # "done"

\* What is waited for is an attempt's.
PendingInv == pending \subseteq Attempts \X Asked

\* No answer can name the thread any more.
Mute(a) ==
  LET new == <<a, "thread/start">>
  IN new \notin pending \/ (~InQueue(new) /\ \A k \in AnswerKinds : <<a, "thread/start", k>> \notin owed)
\* What a cleanup was told, and what it has seen to at each of its steps.
ToldInv(a) ==
  \A k \in AnswerTexts :
    /\ <<a, "turn/interrupt", k>> \in owed => stage[a] = "ended" /\ turn[a] # "running"
    /\ <<a, "thread/read", k>> \in owed => stage[a] = "ended" /\ (k = "running" \/ turn[a] # "running")
StepInv(a) ==
  /\ (\/ cleaner[a] \in {"seek", "thread/unsubscribe", "name", "forget", "sweep", "done"}
      \/ cleaner[a] = "thread/read" /\ answer[a] \notin {"none", "running"}
      \/ cleaner[a] = "turn/interrupt" /\ answer[a] # "none") => turn[a] # "running"
  /\ cleaner[a] \in CleanupMethods \cup {"forget"} => sub[a].thread = TRUE
  /\ cleaner[a] \in {"snapshot", "name"} => sub[a].thread = TRUE \/ Mute(a)
  /\ cleaner[a] = "sweep" => a \notin routes /\ Mute(a)
  /\ cleaner[a] = "done" => a \notin routes
HoldInv(a) == ToldInv(a) /\ (closed \/ StepInv(a))
TidyInv == ReadInv /\ TurnsInv /\ PendingInv /\ \A a \in Attempts : LeftInv(a) /\ HoldInv(a)
-----------------------------------------------------------------------------
LEMMA ReadFacts ==
  ReadInv => /\ sub \in [Attempts -> Subscriptions] /\ early \in [Attempts -> Seq(Events)]
             /\ stage \in [Attempts -> Stages] /\ answer \in [Attempts -> AnswerTexts]
             /\ turn \in [Attempts -> {"unstarted", "running", "over"}] /\ cleaner \in [Attempts -> CleanerSteps]
             /\ writes \in Seq(Lines) /\ owed \subseteq Attempts \X Asked \X AnswerTexts
             /\ routes \subseteq Attempts /\ closed \in BOOLEAN /\ try \in [Calls -> 1..MaxTries]
             /\ \A a \in Attempts : StartInv(a) /\ WaitInv(a) /\ NameInv(a)
BY DEF ReadInv, ReadersInv, ReadTypes, NamingInv, WakeInv, SessionInv, AcceptInv, AcceptTypes, CloseInv

LEMMA TurnStays ==
  ASSUME TurnsInv, turn' = turn, asked' = asked, routes' \subseteq routes,
         reader' = reader \/ reader' \in {"reading", "gone"} \/ RefusalQueued, RefusalQueued' => RefusalQueued,
         ~Starting(pending') => early' = NothingEarly,
         \A a \in Attempts : /\ sub'[a].thread = sub[a].thread /\ sub'[a].completed = sub[a].completed
                             /\ early'[a] \in {early[a], <<>>}
  PROVE  TurnsInv'
<1>1. AskedInv'
  <2> HIDE DEF RefusalQueued
  <2> QED
    BY DEF TurnsInv, AskedInv
<1>2. EarlyInv'
  BY DEF EarlyInv
<1>3. ASSUME NEW a \in Attempts PROVE TurnInv(a)'
  <2>1. (\E i \in 1..Len(early'[a]) : Ends(early'[a][i])) => \E i \in 1..Len(early[a]) : Ends(early[a][i])
    OBVIOUS
  <2> QED
    BY <2>1 DEF TurnsInv, TurnInv
<1> QED
  BY <1>1, <1>2, <1>3 DEF TurnsInv

LEMMA AskStarts ==
  ASSUME NEW a, NEW m, Ask(a, m), EarlyInv, early' = early
  PROVE  ~Starting(pending') => early' = NothingEarly
BY DEF Ask, EarlyInv, Starting

LEMMA CallTurns ==
  ASSUME ReadInv, TurnsInv, NEW c \in Calls, Enter(c) \/ Call(c) \/ Deadline(c)
  PROVE  TurnsInv'
<1> DEFINE a == <<c, try[c]>>
<1>1. a \in Attempts /\ sub \in [Attempts -> Subscriptions] /\ writes \in Seq(Lines)
  BY ReadFacts DEF Attempts
<1>2. UNCHANGED <<turn, asked, reader, routes, early>>
  BY DEF Enter, Call, Deadline, StartAttempt, ThreadStarted, TurnStarted, StartRejected, CheckEvents,
         ReceiveEvent, Retry, DropLease, NotifyWaiters, EndAttempt, server, table
<1>3. sub' = sub \/ sub' = [sub EXCEPT ![a].queue = Tail(@)]
  BY DEF Enter, Call, Deadline, StartAttempt, ThreadStarted, TurnStarted, StartRejected, CheckEvents,
         ReceiveEvent, Retry, DropLease, NotifyWaiters, EndAttempt
<1>4. UNCHANGED <<pending, writes>> \/ Ask(a, "thread/start") \/ Ask(a, "turn/start")
  BY DEF Enter, Call, Deadline, StartAttempt, ThreadStarted, TurnStarted, StartRejected, CheckEvents,
         ReceiveEvent, Retry, DropLease, NotifyWaiters, EndAttempt, server, table
<1>5. \A b \in Attempts : sub'[b].thread = sub[b].thread /\ sub'[b].completed = sub[b].completed
  <2> SUFFICES ASSUME NEW b \in Attempts PROVE sub'[b].thread = sub[b].thread /\ sub'[b].completed = sub[b].completed
    OBVIOUS
  <2>1. sub[b] \in Subscriptions
    BY <1>1
  <2>2. sub'[b] = sub[b] \/ sub'[b] = [sub[b] EXCEPT !.queue = Tail(sub[a].queue)]
    BY <1>1, <1>3
  <2> QED
    BY <2>1, <2>2 DEF Subscriptions
<1>6. (RefusalQueued' => RefusalQueued) /\ (~Starting(pending') => early' = NothingEarly)
  <2>1. CASE UNCHANGED <<pending, writes>>
    BY <1>2, <2>1 DEF RefusalQueued, TurnsInv, EarlyInv
  <2>2. ASSUME NEW m \in CallMethods, Ask(a, m) PROVE (RefusalQueued' => RefusalQueued) /\ (~Starting(pending') => early' = NothingEarly)
    <3>1. m \in Asked
      BY DEF Asked
    <3> HIDE DEF a
    <3> QED
      BY <1>1, <1>2, <2>2, <3>1, AskRefuses, AskStarts DEF TurnsInv
  <2> QED
    BY <1>4, <2>1, <2>2 DEF CallMethods
<1> HIDE DEF RefusalQueued
<1> QED
  BY <1>2, <1>5, <1>6, TurnStays

LEMMA CleanupTurns ==
  ASSUME ReadInv, TurnsInv, NEW a \in Attempts, Cleanup(a) \/ GiveUpSeeking(a) \/ CleanupTimeout(a)
  PROVE  TurnsInv'
<1>1. UNCHANGED <<turn, asked, reader, sub>> /\ routes' \subseteq routes /\ writes \in Seq(Lines)
  BY ReadFacts DEF Cleanup, Look, Seek, GiveUpSeeking, Snapshot, CleanupContinues, CleanupTimeout, NameThread, Sweep,
         Elsewhere, server
<1>2. \/ UNCHANGED <<pending, writes, early>>
      \/ Sweep(a)
      \/ UNCHANGED early /\ \E m \in CleanupMethods : Ask(a, m)
  BY DEF Cleanup, Look, Seek, GiveUpSeeking, Snapshot, CleanupContinues, CleanupTimeout, NameThread,
         Elsewhere, CleanupMethods
<1>3. CASE UNCHANGED <<pending, writes, early>>
  BY <1>1, <1>3, TurnStays DEF RefusalQueued, TurnsInv, EarlyInv
<1>4. CASE Sweep(a)
  <2>1. /\ writes' = writes /\ (~Starting(pending') => early' = NothingEarly)
        /\ early' = NothingEarly \/ early' = [early EXCEPT ![a] = <<>>] \/ early' = early
    BY <1>4 DEF Sweep
  <2>2. \A b \in Attempts : early'[b] \in {early[b], <<>>}
    BY <2>1, ReadFacts DEF NothingEarly
  <2>3. RefusalQueued' => RefusalQueued
    BY <2>1 DEF RefusalQueued
  <2> HIDE DEF RefusalQueued
  <2> QED
    BY <1>1, <2>1, <2>2, <2>3, TurnStays
<1>5. CASE UNCHANGED early /\ \E m \in CleanupMethods : Ask(a, m)
  <2>1. (RefusalQueued' => RefusalQueued) /\ (~Starting(pending') => early' = NothingEarly)
    BY <1>1, <1>5, AskRefuses, AskStarts DEF TurnsInv, Asked
  <2> HIDE DEF RefusalQueued
  <2> QED
    BY <1>1, <1>5, <2>1, TurnStays
<1> QED
  BY <1>2, <1>3, <1>4, <1>5

LEMMA FailTurns ==
  ASSUME ReadInv, TurnsInv, FailSession, turn' = turn, asked' = asked, reader' = reader \/ reader' \in {"reading", "gone"},
         RefusalQueued' => RefusalQueued
  PROVE  TurnsInv'
<1>1. CASE closed
  <2>1. UNCHANGED <<routes, pending, early, sub>>
    BY <1>1 DEF FailSession, table
  <2> HIDE DEF RefusalQueued
  <2> QED
    BY <2>1, TurnStays DEF TurnsInv, EarlyInv
<1>2. CASE ~closed
  <2>1. /\ routes' = routes /\ early' = [a \in Attempts |-> <<>>]
        /\ sub' = [a \in Attempts |->
                     IF a \in routes THEN [Offered(a, sub[a], Nudge(a)) EXCEPT !.failed = TRUE] ELSE sub[a]]
    BY <1>2 DEF FailSession, NothingEarly
  <2>2. ASSUME NEW a \in Attempts PROVE sub'[a].thread = sub[a].thread /\ sub'[a].completed = sub[a].completed
    <3>1. sub[a] \in Subscriptions
      BY ReadFacts
    <3> QED
      BY <2>1, <3>1 DEF Offered, Subscriptions
  <2>3. early' = NothingEarly
    BY <2>1 DEF NothingEarly
  <2> HIDE DEF RefusalQueued
  <2> QED
    BY <2>1, <2>2, <2>3, TurnStays
<1> QED
  BY <1>1, <1>2

LEMMA DeliveredEnds ==
  ASSUME NEW a \in Attempts, NEW s \in Subscriptions, NEW e \in Events
  PROVE  /\ Delivered(a, s, e).thread = s.thread
         /\ Delivered(a, s, e).completed = TRUE => s.completed = TRUE \/ Ends(e)
<1> DEFINE t == Offered(a, s, e)
           u == t.turn \/ e.turn
           c == t.completed \/ e.kind \in {"completed", "turn_failed"}
           f == t.failed \/ e.kind = "request" \/ t = s
<1>1. t \in Subscriptions
  BY OfferedAppends
<1>2. t.thread = s.thread /\ t.completed = s.completed
  BY DEF Offered, Subscriptions
<1>3. Delivered(a, s, e) = [t EXCEPT !.turn = u, !.completed = c, !.failed = f]
  BY DEF Delivered
<1>4. c = TRUE => t.completed = TRUE \/ Ends(e)
  BY <1>1 DEF Subscriptions, Ends
<1> HIDE DEF t, u, c, f
<1>5. ASSUME NEW d, d = [t EXCEPT !.turn = u, !.completed = c, !.failed = f]
      PROVE  d.thread = t.thread /\ d.completed = c
  BY <1>1, <1>5 DEF Subscriptions
<1> QED
  BY <1>2, <1>3, <1>4, <1>5

LEMMA NamedEnds ==
  ASSUME NEW a \in Attempts, NEW s \in Subscriptions, NEW events \in Seq(Events)
  PROVE  /\ Named(a, s, events).thread = TRUE
         /\ Named(a, s, events).completed = TRUE =>
              s.completed = TRUE \/ \E i \in 1..Len(events) : Ends(events[i])
<1>1. Named(a, s, events).thread = TRUE
  BY DEF Named
<1>2. Named(a, s, events).completed = (s.completed \/ \E e \in ToSet(events) : Ends(e))
  BY DEF Named, Ends
<1>3. (\E e \in ToSet(events) : Ends(e)) => \E i \in 1..Len(events) : Ends(events[i])
  BY DEF ToSet
<1>4. s.completed \in BOOLEAN
  BY DEF Subscriptions
<1> QED
  BY <1>1, <1>2, <1>3, <1>4

LEMMA RouteTurns ==
  ASSUME ReadInv, TurnsInv, NEW a \in Attempts, NEW e \in Sent, Route(a, e), UNCHANGED <<asked, writes>>,
         turn' \in {turn, [turn EXCEPT ![a] = "over"]}, turn' # turn => turn[a] # "unstarted",
         Ends(e) => turn'[a] = "over"
  PROVE  TurnsInv'
<1>1. /\ e \in Events /\ sub[a] \in Subscriptions /\ early[a] \in Seq(Events)
      /\ sub \in [Attempts -> Subscriptions] /\ early \in [Attempts -> Seq(Events)]
      /\ turn \in [Attempts -> {"unstarted", "running", "over"}]
  BY ReadFacts DEF Sent, Events
<1>2. RefusalQueued' => RefusalQueued
  BY DEF RefusalQueued
<1>3. reader' \in {"reading", "gone"}
  BY DEF Route
<1>4. AskedInv'
  <2> HIDE DEF RefusalQueued
  <2> QED
    BY <1>2, <1>3 DEF TurnsInv, AskedInv
<1>5. ASSUME NEW b \in Attempts
      PROVE  (turn[b] = "over" => turn'[b] = "over") /\ (turn'[b] # "unstarted" => turn[b] # "unstarted")
  BY <1>1, <1>5
<1>6. ASSUME UNCHANGED <<sub, routes>>, \A b \in Attempts : early'[b] \in {early[b], <<>>} \/ (b = a /\ early'[b] = Append(early[b], e))
      PROVE  \A b \in Attempts : TurnInv(b)'
  <2> SUFFICES ASSUME NEW b \in Attempts PROVE TurnInv(b)'
    OBVIOUS
  <2>1. TurnInv(b)
    BY DEF TurnsInv
  <2>2. (\E i \in 1..Len(early'[b]) : Ends(early'[b][i])) => (\E i \in 1..Len(early[b]) : Ends(early[b][i])) \/ (b = a /\ Ends(e))
    <3>1. CASE early'[b] \in {early[b], <<>>}
      BY <3>1
    <3>2. CASE b = a /\ early'[b] = Append(early[b], e)
      <4>1. \A i \in 1..Len(early'[b]) : (i \in 1..Len(early[b]) /\ early'[b][i] = early[b][i]) \/ early'[b][i] = e
        BY <1>1, <3>2, AppendedSeq
      <4> QED
        BY <3>2, <4>1
    <3> QED
      BY <1>6, <3>1, <3>2
  <2> QED
    BY <1>5, <1>6, <2>1, <2>2 DEF TurnInv
<1>7. CASE FailSession
  <2>1. ASSUME UNCHANGED <<sub, routes, early, pending>> PROVE TurnsInv'
    BY <1>4, <1>6, <2>1 DEF TurnsInv, EarlyInv
  <2>2. CASE closed
    BY <1>7, <2>1, <2>2 DEF FailSession, table
  <2>3. CASE ~closed
    <3>1. /\ routes' = routes /\ early' = [b \in Attempts |-> <<>>]
          /\ sub' = [b \in Attempts |->
                       IF b \in routes THEN [Offered(b, sub[b], Nudge(b)) EXCEPT !.failed = TRUE] ELSE sub[b]]
      BY <1>7, <2>3 DEF FailSession, NothingEarly
    <3>2. ASSUME NEW b \in Attempts PROVE sub'[b].thread = sub[b].thread /\ sub'[b].completed = sub[b].completed
      <4>1. sub[b] \in Subscriptions
        BY ReadFacts
      <4> QED
        BY <3>1, <4>1 DEF Offered, Subscriptions
    <3>3. ASSUME NEW b \in Attempts PROVE TurnInv(b)'
      <4>1. ~(\E i \in 1..Len(early'[b]) : Ends(early'[b][i]))
        BY <3>1
      <4> QED
        BY <1>5, <3>1, <3>2, <4>1 DEF TurnsInv, TurnInv
    <3> QED
      BY <1>4, <3>1, <3>3 DEF TurnsInv, EarlyInv, NothingEarly
  <2> QED
    BY <2>2, <2>3 DEF ReadInv
<1>8. CASE a \in routes
  <2> DEFINE d == Delivered(a, sub[a], e)
  <2>1. sub' = [sub EXCEPT ![a] = d] /\ UNCHANGED <<pending, routes, early>>
    BY <1>8 DEF Route, table
  <2>2. d.thread = sub[a].thread /\ (d.completed = TRUE => sub[a].completed = TRUE \/ Ends(e))
    BY <1>1, DeliveredEnds
  <2> HIDE DEF d
  <2>3. ASSUME NEW b \in Attempts PROVE TurnInv(b)'
    <3>1. TurnInv(b)
      BY DEF TurnsInv
    <3>2. sub'[b].thread = sub[b].thread /\ (sub'[b].completed = TRUE => sub[b].completed = TRUE \/ (b = a /\ Ends(e)))
      BY <1>1, <2>1, <2>2
    <3> QED
      BY <1>5, <2>1, <3>1, <3>2 DEF TurnInv
  <2> QED
    BY <1>4, <2>1, <2>3 DEF TurnsInv, EarlyInv
<1>9. CASE a \notin routes /\ ~Starting(pending)
  <2>1. UNCHANGED <<sub, pending, routes, early>>
    BY <1>9 DEF Route, table
  <2> QED
    BY <1>4, <1>6, <2>1 DEF TurnsInv, EarlyInv
<1>10. CASE a \notin routes /\ Starting(pending) /\ ~FailSession
  <2>1. early' = [early EXCEPT ![a] = Append(@, e)] /\ UNCHANGED <<sub, routes, pending>>
    BY <1>10 DEF Route
  <2>2. \A b \in Attempts : TurnInv(b)'
    BY <1>1, <1>6, <2>1
  <2> QED
    BY <1>4, <1>10, <2>1, <2>2 DEF TurnsInv, EarlyInv
<1> QED
  BY <1>7, <1>8, <1>9, <1>10

LEMMA EmitTurns ==
  ASSUME ReadInv, TurnsInv, NEW a \in Attempts, NEW kind \in Kinds, Emit(a, kind)
  PROVE  TurnsInv'
<1> DEFINE e == Event(a, kind, emitted[a] + 1, turn[a] # "unstarted")
<1>1. e \in Sent /\ e.kind = kind
  <2> DEFINE b == turn[a] # "unstarted"
  <2>1. b \in BOOLEAN /\ emitted[a] + 1 \in Nat /\ kind \in EventKinds
    BY TransportAssumption DEF ReadInv, ReadersInv, ReadTypes
  <2>2. e = [att |-> a, kind |-> kind, num |-> emitted[a] + 1, turn |-> b]
    BY DEF Event
  <2> HIDE DEF e, b
  <2> QED
    BY <2>1, <2>2 DEF Sent
<1> HIDE DEF e
<1>2. /\ turn' = IF kind \in {"completed", "turn_failed"} THEN [turn EXCEPT ![a] = "over"] ELSE turn
      /\ kind # "note" => turn[a] = "running"
      /\ turn \in [Attempts -> {"unstarted", "running", "over"}]
  BY ReadFacts DEF Emit
<1>3. CASE Route(a, e) /\ UNCHANGED <<asked, writes>>
  BY <1>1, <1>2, <1>3, RouteTurns DEF Ends
<1>4. CASE kind = "request"
  <2>1. asked' = e /\ UNCHANGED <<table, sub, turn>>
    BY <1>2, <1>4 DEF Emit, e
  <2> QED
    BY <1>1, <1>4, <2>1 DEF TurnsInv, TurnInv, AskedInv, EarlyInv, table
<1> QED
  BY <1>3, <1>4 DEF Emit, e

LEMMA RefusedTurns ==
  ASSUME ReadInv, TurnsInv, RouteRefused
  PROVE  TurnsInv'
<1> DEFINE a == asked.att
<1>1. reader = "refused" /\ Route(a, asked) /\ UNCHANGED <<writes, asked, turn>>
  BY DEF RouteRefused, server
<1>2. asked \in Sent /\ a \in Attempts /\ ~Ends(asked)
  BY <1>1 DEF ReadInv, ReadersInv, ReaderInv, Sent, TurnsInv, AskedInv, Ends
<1> HIDE DEF a
<1> QED
  BY <1>1, <1>2, RouteTurns

LEMMA RespondTurns ==
  ASSUME ReadInv, TurnsInv, NEW a \in Attempts, NEW m \in Asked, NEW kind \in AnswerTexts, Respond(a, m, kind)
  PROVE  TurnsInv'
<1> DEFINE named == m = "thread/start" /\ kind \in {"ok", "mismatch"}
<1>1. /\ UNCHANGED <<turn, reader, asked, writes>>
      /\ sub \in [Attempts -> Subscriptions] /\ early \in [Attempts -> Seq(Events)]
  BY ReadFacts DEF Respond
<1>2. RefusalQueued' => RefusalQueued
  BY <1>1 DEF RefusalQueued
<1>3. CASE <<a, m>> \notin pending
  <2>1. UNCHANGED <<sub, pending, routes, early>>
    BY <1>3 DEF Respond, table
  <2> HIDE DEF RefusalQueued
  <2> QED
    BY <1>1, <1>2, <2>1, TurnStays DEF TurnsInv, EarlyInv
<1>4. CASE <<a, m>> \in pending /\ ~named
  <2>1. /\ sub' = sub \/ sub' = [sub EXCEPT ![a].turn = TRUE]
        /\ early' = (IF ~Starting(pending') THEN NothingEarly ELSE early) /\ routes' = routes
    BY <1>4 DEF Respond
  <2>2. ASSUME NEW b \in Attempts PROVE /\ sub'[b].thread = sub[b].thread /\ sub'[b].completed = sub[b].completed
                                        /\ early'[b] \in {early[b], <<>>}
    <3>1. sub[b] \in Subscriptions
      BY <1>1
    <3>2. sub'[b] = sub[b] \/ sub'[b] = [sub[b] EXCEPT !.turn = TRUE]
      BY <1>1, <2>1
    <3>3. sub'[b].thread = sub[b].thread /\ sub'[b].completed = sub[b].completed
      BY <3>1, <3>2 DEF Subscriptions
    <3> QED
      BY <2>1, <3>3 DEF NothingEarly
  <2> HIDE DEF RefusalQueued
  <2> QED
    BY <1>1, <1>2, <2>1, <2>2, TurnStays
<1>5. CASE <<a, m>> \in pending /\ named
  <2> DEFINE d == Named(a, sub[a], early[a])
  <2>1. /\ sub' = [sub EXCEPT ![a] = d] /\ routes' = routes \cup {a}
        /\ early' = IF ~Starting(pending') THEN NothingEarly ELSE [early EXCEPT ![a] = <<>>]
    BY <1>5 DEF Respond
  <2>2. /\ d.thread = TRUE
        /\ d.completed = TRUE => sub[a].completed = TRUE \/ \E i \in 1..Len(early[a]) : Ends(early[a][i])
    <3>1. sub[a] \in Subscriptions /\ early[a] \in Seq(Events)
      BY <1>1
    <3> QED
      BY <3>1, NamedEnds
  <2> HIDE DEF d
  <2>3. AskedInv'
    <3> HIDE DEF RefusalQueued
    <3> QED
      BY <1>1, <1>2 DEF TurnsInv, AskedInv
  <2>4. ASSUME NEW b \in Attempts PROVE TurnInv(b)'
    <3>1. TurnInv(b)
      BY DEF TurnsInv
    <3>2. early'[b] \in {early[b], <<>>}
      BY <1>1, <2>1 DEF NothingEarly
    <3>3. (\E i \in 1..Len(early'[b]) : Ends(early'[b][i])) => \E i \in 1..Len(early[b]) : Ends(early[b][i])
      BY <3>2
    <3>4. CASE b = a
      <4>1. sub'[b] = d
        BY <1>1, <2>1, <3>4
      <4> QED
        BY <1>1, <2>2, <3>1, <3>3, <3>4, <4>1 DEF TurnInv
    <3>5. CASE b # a
      <4>1. sub'[b] = sub[b] /\ (b \in routes' => b \in routes)
        BY <1>1, <2>1, <3>5
      <4> QED
        BY <1>1, <3>1, <3>3, <4>1 DEF TurnInv
    <3> QED
      BY <3>4, <3>5
  <2> QED
    BY <2>1, <2>3, <2>4 DEF TurnsInv, EarlyInv
<1> QED
  BY <1>3, <1>4, <1>5

LEMMA TakenFrom ==
  ASSUME writes \in Seq(Lines), writes # <<>>, NEW a \in Attempts, NEW m \in Asked, Head(writes) = <<a, m>>
  PROVE  InQueue(<<a, m>>) /\ (m = "turn/start" => Queued(a))
<1>1. Head(writes) = writes[1] /\ 1 \in 1..Len(writes)
  OBVIOUS
<1> QED
  BY <1>1 DEF InQueue, Queued

\* A turn begins only for an attempt that waits for it, and is known to it.
LEMMA ServedTurns ==
  ASSUME ReadInv, NEW a \in Attempts, NEW m \in Asked, writes # <<>>, Head(writes) = <<a, m>>,
         Awaited(a, m), Serve(a, m)
  PROVE  /\ m = "turn/start" => /\ stage[a] = "turn/start" /\ a \in routes /\ turn[a] = "unstarted"
                                /\ turn' \in {turn, [turn EXCEPT ![a] = "unstarted"], [turn EXCEPT ![a] = "running"]}
         /\ m = "turn/interrupt" => turn' = [turn EXCEPT ![a] = IF @ = "running" THEN "over" ELSE @]
         /\ m \notin {"turn/start", "turn/interrupt"} => turn' = turn
<1>1. CASE m = "turn/start"
  <2>1. /\ stage[a] = "turn/start" /\ a \in routes
    BY <1>1, ReadFacts DEF Awaited, CallMethods, WaitInv, Subscribed
  <2>2. turn[a] = "unstarted"
    <3>1. Queued(a) /\ StartInv(a)
      BY <1>1, ReadFacts, TakenFrom
    <3> HIDE DEF Queued, Owing
    <3> QED
      BY <3>1 DEF StartInv
  <2>3. turn' \in {[turn EXCEPT ![a] = "unstarted"], [turn EXCEPT ![a] = "running"]}
    BY <1>1 DEF Serve
  <2> QED
    BY <1>1, <2>1, <2>2, <2>3
<1>2. CASE m # "turn/start"
  BY <1>2 DEF Serve, Asked, CallMethods, CleanupMethods
<1> QED
  BY <1>1, <1>2

LEMMA WriteTurns ==
  ASSUME ReadInv, TurnsInv, WriteNext
  PROVE  TurnsInv'
<1> DEFINE w == Head(writes)
<1>1. /\ writes \in Seq(Lines) /\ writes # <<>> /\ writes' = Tail(writes) /\ UNCHANGED asked
      /\ turn \in [Attempts -> {"unstarted", "running", "over"}]
  BY ReadFacts DEF WriteNext
<1>2. (RefusalQueued' => RefusalQueued) /\ (w[2] = "refusal" => RefusalQueued)
  BY <1>1, TakeRefuses
<1>3. reader' = reader \/ reader' = "gone" \/ RefusalQueued
  <2> HIDE DEF RefusalQueued, w
  <2> QED
    BY <1>2 DEF WriteNext, w
<1>4. CASE UNCHANGED <<server, table, answer, sub>>
  <2> HIDE DEF RefusalQueued
  <2> QED
    BY <1>1, <1>2, <1>3, <1>4, TurnStays DEF server, table, TurnsInv, EarlyInv
<1>5. CASE FailSession /\ UNCHANGED server /\ reader' \in {reader, "gone"}
  <2> HIDE DEF RefusalQueued
  <2> QED
    BY <1>1, <1>2, <1>5, FailTurns DEF server
<1>6. CASE w[2] # "refusal" /\ Awaited(w[1], w[2]) /\ Serve(w[1], w[2]) /\ UNCHANGED <<table, answer, sub, reader>>
  <2>1. PICK a \in Attempts, m \in Asked : Head(writes) = <<a, m>> /\ Awaited(a, m) /\ Serve(a, m)
    <3>1. w[1] \in Attempts /\ w[2] \in Asked /\ w = <<w[1], w[2]>>
      BY <1>1, <1>6 DEF Lines
    <3> HIDE DEF w
    <3>2. Head(writes) = <<w[1], w[2]>>
      BY <3>1 DEF w
    <3> QED
      BY <1>6, <3>1, <3>2
  <2>2. /\ m = "turn/start" => /\ stage[a] = "turn/start" /\ a \in routes /\ turn[a] = "unstarted"
                               /\ turn' \in {turn, [turn EXCEPT ![a] = "unstarted"], [turn EXCEPT ![a] = "running"]}
        /\ m = "turn/interrupt" => turn' = [turn EXCEPT ![a] = IF @ = "running" THEN "over" ELSE @]
        /\ m \notin {"turn/start", "turn/interrupt"} => turn' = turn
    BY <1>1, <2>1, ServedTurns
  <2>3. ASSUME NEW b \in Attempts PROVE TurnInv(b)'
    <3>1. TurnInv(b)
      BY DEF TurnsInv
    <3>2. /\ turn[b] = "over" => turn'[b] = "over"
          /\ turn'[b] # "unstarted" => turn[b] # "unstarted" \/ b \in routes
      BY <1>1, <2>2
    <3> QED
      BY <1>6, <3>1, <3>2 DEF TurnInv, table
  <2>4. AskedInv' /\ EarlyInv'
    <3> HIDE DEF RefusalQueued
    <3> QED
      BY <1>1, <1>2, <1>6 DEF TurnsInv, AskedInv, EarlyInv, table
  <2> QED
    BY <2>3, <2>4 DEF TurnsInv
<1> QED
  BY <1>4, <1>5, <1>6 DEF WriteNext

LEMMA StepTurns == ReadInv /\ TurnsInv /\ [Next]_vars => TurnsInv'
<1> SUFFICES ASSUME ReadInv, TurnsInv, [Next]_vars PROVE TurnsInv'
  OBVIOUS
<1>1. CASE \E c \in Calls : Enter(c) \/ Call(c) \/ Deadline(c)
  BY <1>1, CallTurns
<1>2. CASE \E a \in Attempts : Cleanup(a) \/ GiveUpSeeking(a) \/ CleanupTimeout(a)
  BY <1>2, CleanupTurns
<1>3. CASE \E a \in Attempts, kind \in Kinds : Emit(a, kind)
  BY <1>3, EmitTurns
<1>4. CASE \E r \in owed : Respond(r[1], r[2], r[3])
  BY <1>4, RespondTurns, ReadFacts
<1>5. CASE WriteNext
  BY <1>5, WriteTurns
<1>6. CASE RouteRefused
  BY <1>6, RefusedTurns
<1>7. CASE EndOfOutput \/ Stop
  <2>1. FailSession /\ UNCHANGED <<turn, asked, writes>> /\ reader' = "gone"
    BY <1>7 DEF EndOfOutput, Stop, Untouched, server
  <2>2. RefusalQueued' => RefusalQueued
    BY <2>1 DEF RefusalQueued
  <2> HIDE DEF RefusalQueued
  <2> QED
    BY <2>1, <2>2, FailTurns
<1>8. CASE Exit \/ Listen \/ CountLeases \/ UNCHANGED vars
  <2>1. UNCHANGED <<sub, early, reader, asked, turn, pending, routes, writes>>
    BY <1>8 DEF Exit, Listen, CountLeases, Untouched, table, server, calls, vars
  <2>2. RefusalQueued' => RefusalQueued
    BY <2>1 DEF RefusalQueued
  <2> HIDE DEF RefusalQueued
  <2> QED
    BY <2>1, <2>2, TurnStays DEF TurnsInv, EarlyInv
<1> QED
  BY <1>1, <1>2, <1>3, <1>4, <1>5, <1>6, <1>7, <1>8 DEF Next, Close

-----------------------------------------------------------------------------
\* What a step of a call does to the attempts.
LEMMA CallTouches ==
  ASSUME ReadInv, NEW c \in Calls, Enter(c) \/ Call(c) \/ Deadline(c)
  PROVE  LET a == <<c, try[c]>>
         IN /\ a \in Attempts
            /\ UNCHANGED <<turn, owed, routes, closed>>
            /\ \/ UNCHANGED <<stage, cleaner, pending, answer, writes>>
               \/ /\ stage[a] # "ended" /\ cleaner[a] = "none"
                  /\ \A b \in Attempts \ {a} : stage'[b] = stage[b] /\ cleaner'[b] = cleaner[b]
                  /\ stage'[a] # "none"
                  /\ IF stage'[a] = "ended" THEN cleaner'[a] = "look" ELSE cleaner'[a] = "none"
                  /\ UNCHANGED <<pending, answer, writes>> \/ \E m \in CallMethods : Ask(a, m)
<1> DEFINE a == <<c, try[c]>>
<1>1. /\ a \in Attempts /\ stage \in [Attempts -> Stages] /\ cleaner \in [Attempts -> CleanerSteps] /\ StartInv(a)
      /\ TriesInv(c)
  BY ReadFacts DEF Attempts, ReadInv, NamingInv, WakeInv, AcceptInv
<1>2. stage[a] # "ended" => cleaner[a] = "none"
  BY <1>1 DEF StartInv
<1>3. UNCHANGED <<turn, owed, routes, closed>>
  BY DEF Enter, Call, Deadline, StartAttempt, ThreadStarted, TurnStarted, StartRejected, CheckEvents,
         ReceiveEvent, Retry, DropLease, NotifyWaiters, EndAttempt, server, table
<1>4. CASE Enter(c) \/ Retry(c) \/ DropLease(c) \/ NotifyWaiters(c)
  BY <1>1, <1>3, <1>4 DEF Enter, Retry, DropLease, NotifyWaiters, server, table, calls
<1>5. ASSUME NEW again \in BOOLEAN, EndAttempt(c, again), stage[a] # "ended"
      PROVE  /\ \A b \in Attempts \ {a} : stage'[b] = stage[b] /\ cleaner'[b] = cleaner[b]
             /\ stage'[a] = "ended" /\ cleaner'[a] = "look" /\ UNCHANGED <<pending, answer, writes>>
  BY <1>1, <1>5 DEF EndAttempt, table
<1>6. ASSUME NEW s \in Stages \ {"none", "ended"}, stage' = [stage EXCEPT ![a] = s], cleaner' = cleaner, stage[a] # "ended"
      PROVE  /\ \A b \in Attempts \ {a} : stage'[b] = stage[b] /\ cleaner'[b] = cleaner[b]
             /\ stage'[a] \notin {"none", "ended"} /\ cleaner'[a] = "none"
  BY <1>1, <1>2, <1>6
<1>7. CASE StartAttempt(c)
  <2>1. stage[a] = "none" /\ Ask(a, "thread/start") /\ stage' = [stage EXCEPT ![a] = "thread/start"] /\ cleaner' = cleaner
    BY <1>1, <1>7 DEF StartAttempt, TriesInv
  <2> HIDE DEF a
  <2> QED
    BY <1>1, <1>2, <1>3, <1>6, <2>1 DEF a, CallMethods, Stages
<1>8. CASE ThreadStarted(c)
  <2>1. stage[a] = "thread/start" /\ Ask(a, "turn/start") /\ stage' = [stage EXCEPT ![a] = "turn/start"] /\ cleaner' = cleaner
    BY <1>8 DEF ThreadStarted
  <2> HIDE DEF a
  <2> QED
    BY <1>1, <1>2, <1>3, <1>6, <2>1 DEF a, CallMethods, Stages
<1>9. ASSUME stage[a] # "ended",
             \/ \E again \in BOOLEAN : EndAttempt(c, again)
             \/ \E s \in {"check", "receive"} : stage' = [stage EXCEPT ![a] = s] /\ UNCHANGED <<cleaner, pending, answer, writes>>
      PROVE  /\ stage[a] # "ended" /\ cleaner[a] = "none"
             /\ \A b \in Attempts \ {a} : stage'[b] = stage[b] /\ cleaner'[b] = cleaner[b]
             /\ stage'[a] # "none"
             /\ IF stage'[a] = "ended" THEN cleaner'[a] = "look" ELSE cleaner'[a] = "none"
             /\ UNCHANGED <<pending, answer, writes>>
  <2> HIDE DEF a
  <2>1. CASE \E again \in BOOLEAN : EndAttempt(c, again)
    BY <1>2, <1>5, <1>9, <2>1
  <2>2. CASE \E s \in {"check", "receive"} : stage' = [stage EXCEPT ![a] = s] /\ UNCHANGED <<cleaner, pending, answer, writes>>
    BY <1>2, <1>6, <1>9, <2>2 DEF Stages
  <2> QED
    BY <1>9, <2>1, <2>2
<1>10. CASE TurnStarted(c) \/ CheckEvents(c) \/ ReceiveEvent(c) \/ StartRejected(c)
  <2>1. /\ stage[a] # "ended"
        /\ \/ \E again \in BOOLEAN : EndAttempt(c, again)
           \/ \E s \in {"check", "receive"} : stage' = [stage EXCEPT ![a] = s] /\ UNCHANGED <<cleaner, pending, answer, writes>>
    BY <1>10 DEF TurnStarted, CheckEvents, ReceiveEvent, StartRejected, Retryable, CallMethods, table
  <2> HIDE DEF a
  <2> QED
    BY <1>1, <1>3, <1>9, <2>1 DEF a
<1>11. CASE Deadline(c)
  <2>1. \/ stage[a] # "ended" /\ EndAttempt(c, FALSE)
        \/ UNCHANGED <<stage, cleaner, pending, answer, writes>>
    BY <1>11 DEF Deadline, table
  <2> HIDE DEF a
  <2> QED
    BY <1>1, <1>3, <1>9, <2>1 DEF a
<1> QED
  BY <1>4, <1>7, <1>8, <1>10, <1>11 DEF Call

LEMMA StepLeft ==
  ASSUME ReadInv, \A b \in Attempts : LeftInv(b), [Next]_vars
  PROVE  \A b \in Attempts : LeftInv(b)'
<1>1. ASSUME UNCHANGED <<stage, cleaner>>, pending' \subseteq pending
      PROVE  \A b \in Attempts : LeftInv(b)'
  BY <1>1 DEF LeftInv
<1>2. ASSUME NEW a \in Attempts, NEW m, Ask(a, m)
      PROVE  \A b \in Attempts, n \in Asked : <<b, n>> \in pending' => <<b, n>> \in pending \/ b = a
  BY <1>2 DEF Ask
<1>3. ASSUME NEW c \in Calls, Enter(c) \/ Call(c) \/ Deadline(c)
      PROVE  \A b \in Attempts : LeftInv(b)'
  <2> DEFINE a == <<c, try[c]>>
  <2>1. CASE UNCHANGED <<stage, cleaner, pending, answer, writes>>
    BY <1>1, <2>1
  <2>2. CASE /\ a \in Attempts /\ stage'[a] # "none" /\ cleaner'[a] \in {"look", "none"}
             /\ stage'[a] = "ended" => cleaner'[a] = "look"
             /\ \A b \in Attempts \ {a} : stage'[b] = stage[b] /\ cleaner'[b] = cleaner[b]
             /\ UNCHANGED pending \/ \E m \in CallMethods : Ask(a, m)
    <3> HIDE DEF a
    <3>1. \A b \in Attempts, n \in Asked : <<b, n>> \in pending' => <<b, n>> \in pending \/ b = a
      BY <1>2, <2>2
    <3> QED
      BY <2>2, <3>1 DEF LeftInv
  <2> QED
    BY <1>3, <2>1, <2>2, CallTouches
<1>4. ASSUME NEW a \in Attempts, Cleanup(a) \/ GiveUpSeeking(a) \/ CleanupTimeout(a)
      PROVE  \A b \in Attempts : LeftInv(b)'
  <2>1. /\ cleaner \in [Attempts -> CleanerSteps] /\ stage' = stage
        /\ stage[a] = "ended"
    <3>1. cleaner[a] # "none" /\ StartInv(a)
      BY <1>4, ReadFacts DEF Cleanup, Look, Seek, GiveUpSeeking, Snapshot, CleanupContinues, CleanupTimeout,
           NameThread, Sweep, CleanupMethods
    <3> QED
      BY <1>4, <3>1, ReadFacts DEF StartInv, Cleanup, Look, Seek, GiveUpSeeking, Snapshot, CleanupContinues,
           CleanupTimeout, NameThread, Sweep, Elsewhere
  <2>2. CASE Sweep(a)
    <3>1. /\ cleaner' = [cleaner EXCEPT ![a] = "done"] /\ cleaner[a] \notin CleanupMethods
          /\ pending' = {r \in pending : IF r[2] \in CallMethods THEN r[1] # a ELSE Awaited(r[1], r[2])}
      BY <2>2 DEF Sweep, Clean, CleanupMethods
    <3>2. ASSUME NEW m \in Asked, <<a, m>> \in pending' PROVE FALSE
      BY <3>1, <3>2 DEF Awaited, Asked
    <3> QED
      BY <2>1, <3>1, <3>2 DEF LeftInv
  <2>3. CASE ~Sweep(a)
    <3>1. (\E s \in CleanerSteps \ {"none", "done"} : Clean(a, s))
      BY <1>4, <2>3 DEF Cleanup, Look, Seek, GiveUpSeeking, Snapshot, CleanupContinues, CleanupTimeout,
           NameThread, CleanerSteps, CleanupMethods
    <3>2. cleaner'[a] \notin {"none", "done"} /\ \A b \in Attempts \ {a} : cleaner'[b] = cleaner[b]
      BY <2>1, <3>1 DEF Clean
    <3>3. UNCHANGED pending \/ \E m \in CleanupMethods : Ask(a, m)
      BY <1>4, <2>3 DEF Cleanup, Look, Seek, GiveUpSeeking, Snapshot, CleanupContinues, CleanupTimeout,
           NameThread, CleanupMethods
    <3>4. \A b \in Attempts, n \in Asked : <<b, n>> \in pending' => <<b, n>> \in pending \/ b = a
      BY <1>2, <3>3
    <3> QED
      BY <2>1, <3>2, <3>4 DEF LeftInv
  <2> QED
    BY <2>2, <2>3
<1>5. FailSession => pending' \subseteq pending
  BY DEF FailSession, table
<1>6. CASE \E a \in Attempts, kind \in Kinds : Emit(a, kind)
  BY <1>1, <1>5, <1>6, RouteRests DEF Emit, table
<1>7. CASE \E r \in owed : Respond(r[1], r[2], r[3])
  BY <1>1, <1>7 DEF Respond, table
<1>8. CASE WriteNext
  BY <1>1, <1>5, <1>8 DEF WriteNext, table
<1>9. CASE RouteRefused
  BY <1>1, <1>5, <1>9, RouteRests DEF RouteRefused
<1>10. CASE EndOfOutput \/ Stop
  BY <1>1, <1>5, <1>10 DEF EndOfOutput, Stop, Untouched
<1>11. CASE Exit \/ Listen \/ CountLeases \/ UNCHANGED vars
  BY <1>1, <1>11 DEF Exit, Listen, CountLeases, Untouched, table, vars
<1> QED
  BY <1>3, <1>4, <1>6, <1>7, <1>8, <1>9, <1>10, <1>11 DEF Next, Close

LEMMA StepPending ==
  ASSUME ReadInv, PendingInv, [Next]_vars
  PROVE  PendingInv'
<1>1. ASSUME pending' \subseteq pending PROVE PendingInv'
  BY <1>1 DEF PendingInv
<1>2. ASSUME NEW a \in Attempts, NEW m \in Asked, Ask(a, m) PROVE PendingInv'
  BY <1>2 DEF PendingInv, Ask
<1>3. CallMethods \subseteq Asked /\ CleanupMethods \subseteq Asked
  BY DEF Asked
<1>4. ASSUME NEW c \in Calls, Enter(c) \/ Call(c) \/ Deadline(c) PROVE PendingInv'
  <2> DEFINE a == <<c, try[c]>>
  <2>1. CASE UNCHANGED <<stage, cleaner, pending, answer, writes>>
    BY <1>1, <2>1
  <2>2. CASE a \in Attempts /\ (UNCHANGED pending \/ \E m \in CallMethods : Ask(a, m))
    <3> HIDE DEF a
    <3> QED
      BY <1>1, <1>2, <1>3, <2>2
  <2> QED
    BY <1>4, <2>1, <2>2, CallTouches
<1>5. ASSUME NEW a \in Attempts, Cleanup(a) \/ GiveUpSeeking(a) \/ CleanupTimeout(a) PROVE PendingInv'
  <2>1. CASE Sweep(a)
    BY <1>1, <2>1 DEF Sweep
  <2>2. CASE ~Sweep(a)
    <3>1. UNCHANGED pending \/ \E m \in CleanupMethods : Ask(a, m)
      BY <1>5, <2>2 DEF Cleanup, Look, Seek, GiveUpSeeking, Snapshot, CleanupContinues, CleanupTimeout,
           NameThread, CleanupMethods
    <3> QED
      BY <1>1, <1>2, <1>3, <3>1
  <2> QED
    BY <2>1, <2>2
<1>6. FailSession => pending' \subseteq pending
  BY DEF FailSession, table
<1>7. CASE \E a \in Attempts, kind \in Kinds : Emit(a, kind)
  BY <1>1, <1>6, <1>7, RouteRests DEF Emit, table
<1>8. CASE \E r \in owed : Respond(r[1], r[2], r[3])
  BY <1>1, <1>8 DEF Respond, table
<1>9. CASE WriteNext
  BY <1>1, <1>6, <1>9 DEF WriteNext, table
<1>10. CASE RouteRefused
  BY <1>1, <1>6, <1>10, RouteRests DEF RouteRefused
<1>11. CASE EndOfOutput \/ Stop
  BY <1>1, <1>6, <1>11 DEF EndOfOutput, Stop, Untouched
<1>12. CASE Exit \/ Listen \/ CountLeases \/ UNCHANGED vars
  BY <1>1, <1>12 DEF Exit, Listen, CountLeases, Untouched, table, vars
<1> QED
  BY <1>4, <1>5, <1>7, <1>8, <1>9, <1>10, <1>11, <1>12 DEF Next, Close
-----------------------------------------------------------------------------
\* An attempt whose cleanup does not move, and for which the server does nothing new.
LEMMA HoldQuiet ==
  ASSUME NEW a \in Attempts, HoldInv(a), closed \in BOOLEAN, cleaner[a] # "none" => stage[a] = "ended",
         \/ cleaner'[a] = cleaner[a]
         \/ cleaner[a] = "none" /\ cleaner'[a] = "look",
         stage[a] = "ended" => stage'[a] = "ended" /\ (turn'[a] = "running" => turn[a] = "running"),
         \A k \in AnswerTexts : /\ <<a, "turn/interrupt", k>> \in owed' => <<a, "turn/interrupt", k>> \in owed
                                /\ <<a, "thread/read", k>> \in owed' => <<a, "thread/read", k>> \in owed,
         closed => closed',
         cleaner[a] # "none" /\ ~closed' =>
           /\ answer'[a] = answer[a] /\ (sub[a].thread = TRUE => sub'[a].thread = TRUE)
           /\ a \in routes' => a \in routes
           /\ Mute(a) => Mute(a)'
  PROVE  HoldInv(a)'
<1>1. ToldInv(a)'
  BY DEF HoldInv, ToldInv
<1>2. CASE ~closed'
  <2>1. ASSUME cleaner[a] = "none" PROVE StepInv(a)'
    BY <2>1 DEF StepInv, CleanupMethods
  <2>2. ASSUME cleaner[a] # "none" PROVE StepInv(a)'
    <3> HIDE DEF Mute
    <3> QED
      BY <1>2, <2>2 DEF HoldInv, StepInv
  <2>3. StepInv(a)'
    BY <2>1, <2>2
  <2> QED
    BY <1>1, <2>3 DEF HoldInv
<1> QED
  BY <1>1, <1>2 DEF HoldInv

LEMMA MuteStays ==
  ASSUME NEW a \in Attempts,
         <<a, "thread/start">> \in pending' => <<a, "thread/start">> \in pending,
         InQueue(<<a, "thread/start">>)' => InQueue(<<a, "thread/start">>),
         \A k \in AnswerKinds : <<a, "thread/start", k>> \in owed' => <<a, "thread/start", k>> \in owed
  PROVE  Mute(a) => Mute(a)'
<1> HIDE DEF InQueue
<1> QED
  BY DEF Mute

\* The session goes on or fails, and no attempt moves.
LEMMA HoldRests ==
  ASSUME ReadInv, \A b \in Attempts : HoldInv(b), UNCHANGED <<cleaner, stage, owed>>,
         \A b \in Attempts : turn'[b] = "running" => turn[b] = "running",
         UNCHANGED <<pending, routes, closed, answer>> \/ FailSession,
         \A b \in Attempts : (InQueue(<<b, "thread/start">>)' => InQueue(<<b, "thread/start">>)),
         \A b \in Attempts : sub[b].thread = TRUE => sub'[b].thread = TRUE \/ closed'
  PROVE  \A b \in Attempts : HoldInv(b)'
<1> SUFFICES ASSUME NEW a \in Attempts PROVE HoldInv(a)'
  OBVIOUS
<1>1. closed \in BOOLEAN /\ (cleaner[a] # "none" => stage[a] = "ended")
  BY ReadFacts DEF StartInv
<1>2. closed' \/ UNCHANGED <<pending, routes, closed, answer>>
  BY DEF FailSession, table
<1>3. closed => closed'
  BY DEF FailSession, table
<1>4. closed' \/ (Mute(a) => Mute(a)')
  <2> HIDE DEF InQueue
  <2> QED
    BY <1>2, MuteStays
<1> HIDE DEF Mute, InQueue
<1> QED
  BY <1>1, <1>2, <1>3, <1>4, HoldQuiet

LEMMA AskMutes ==
  ASSUME ReadInv, NEW a \in Attempts, NEW m \in Asked, Ask(a, m), owed' = owed,
         NEW b \in Attempts, b # a \/ m # "thread/start"
  PROVE  Mute(b) => Mute(b)'
<1> DEFINE new == <<b, "thread/start">>
<1>1. new \in Lines /\ new # <<a, m>> /\ writes \in Seq(Lines)
  BY ReadFacts DEF Lines, Asked, CallMethods
<1>2. InQueue(new)' => InQueue(new)
  BY <1>1, AskQueues
<1>3. new \in pending' => new \in pending
  BY <1>1 DEF Ask
<1> HIDE DEF InQueue
<1> QED
  BY <1>2, <1>3, MuteStays

LEMMA CallHolds ==
  ASSUME ReadInv, \A b \in Attempts : HoldInv(b), NEW c \in Calls, Enter(c) \/ Call(c) \/ Deadline(c)
  PROVE  \A b \in Attempts : HoldInv(b)'
<1> DEFINE a == <<c, try[c]>>
<1> SUFFICES ASSUME NEW b \in Attempts PROVE HoldInv(b)'
  OBVIOUS
<1>1. /\ closed \in BOOLEAN /\ (cleaner[b] # "none" => stage[b] = "ended") /\ sub \in [Attempts -> Subscriptions]
      /\ answer \in [Attempts -> AnswerTexts]
  BY ReadFacts DEF StartInv
<1>2. sub'[b].thread = sub[b].thread
  <2>1. sub' = sub \/ sub' = [sub EXCEPT ![a].queue = Tail(@)]
    BY DEF Enter, Call, Deadline, StartAttempt, ThreadStarted, TurnStarted, StartRejected, CheckEvents,
           ReceiveEvent, Retry, DropLease, NotifyWaiters, EndAttempt
  <2>2. sub[b] \in Subscriptions
    BY <1>1
  <2>3. sub'[b] = sub[b] \/ sub'[b] = [sub[b] EXCEPT !.queue = Tail(sub[a].queue)]
    BY <1>1, <2>1
  <2> QED
    BY <2>2, <2>3 DEF Subscriptions
<1>3. a \in Attempts /\ UNCHANGED <<turn, owed, routes, closed>>
  BY CallTouches
<1>4. CASE UNCHANGED <<stage, cleaner, pending, answer, writes>>
  <2>1. InQueue(<<b, "thread/start">>)' => InQueue(<<b, "thread/start">>)
    BY <1>4 DEF InQueue
  <2>2. Mute(b) => Mute(b)'
    BY <1>3, <1>4, <2>1, MuteStays
  <2> HIDE DEF Mute
  <2> QED
    BY <1>1, <1>2, <1>3, <1>4, <2>2, HoldQuiet
<1>5. CASE /\ stage[a] # "ended" /\ cleaner[a] = "none"
           /\ \A d \in Attempts \ {a} : stage'[d] = stage[d] /\ cleaner'[d] = cleaner[d]
           /\ stage'[a] # "none"
           /\ IF stage'[a] = "ended" THEN cleaner'[a] = "look" ELSE cleaner'[a] = "none"
           /\ UNCHANGED <<pending, answer, writes>> \/ \E m \in CallMethods : Ask(a, m)
  <2> HIDE DEF a
  <2>1. CASE b = a
    <3> HIDE DEF Mute
    <3> QED
      BY <1>1, <1>3, <1>5, <2>1, HoldQuiet
  <2>2. CASE b # a
    <3>1. answer'[b] = answer[b] /\ (Mute(b) => Mute(b)')
      <4>1. CASE UNCHANGED <<pending, answer, writes>>
        <5>1. InQueue(<<b, "thread/start">>)' => InQueue(<<b, "thread/start">>)
          BY <4>1 DEF InQueue
        <5> QED
          BY <1>3, <4>1, <5>1, MuteStays
      <4>2. CASE \E m \in CallMethods : Ask(a, m)
        <5>1. PICK m \in CallMethods : Ask(a, m)
          BY <4>2
        <5>2. m \in Asked
          BY DEF Asked
        <5>3. answer'[b] = answer[b]
          BY <1>1, <2>2, <5>1 DEF Ask
        <5> QED
          BY <1>3, <2>2, <5>1, <5>2, <5>3, AskMutes
      <4> QED
        BY <1>5, <4>1, <4>2
    <3> HIDE DEF Mute
    <3> QED
      BY <1>1, <1>2, <1>3, <1>5, <2>2, <3>1, HoldQuiet
  <2> QED
    BY <2>1, <2>2
<1> QED
  BY <1>4, <1>5, CallTouches

LEMMA ServeHolds ==
  ASSUME ReadInv, TurnsInv, \A b \in Attempts : HoldInv(b), NEW a \in Attempts, NEW m \in Asked,
         writes # <<>>, Head(writes) = <<a, m>>, writes' = Tail(writes), Awaited(a, m), Serve(a, m),
         UNCHANGED <<stage, cleaner, answer, sub, pending, routes, closed>>
  PROVE  \A b \in Attempts : HoldInv(b)'
<1> SUFFICES ASSUME NEW b \in Attempts PROVE HoldInv(b)'
  OBVIOUS
<1>1. /\ closed \in BOOLEAN /\ (cleaner[b] # "none" => stage[b] = "ended") /\ writes \in Seq(Lines)
      /\ turn \in [Attempts -> {"unstarted", "running", "over"}] /\ <<b, "thread/start">> \in Lines
      /\ cleaner[a] # "none" => stage[a] = "ended"
  BY ReadFacts DEF StartInv, Lines, Asked, CallMethods
<1>2. /\ m = "turn/start" => stage[a] = "turn/start"
      /\ turn'[b] = turn[b] \/ (b = a /\ m = "turn/start") \/ turn'[b] = "over"
      /\ b = a /\ m = "turn/interrupt" => turn'[b] # "running"
      /\ m = "thread/read" => turn' = turn
  BY <1>1, ServedTurns
<1>3. \E k \in AnswerTexts : owed' \in {owed, owed \cup {<<a, m, k>>}} /\ (m = "thread/read" => k = turn[a])
  <2>1. CASE m = "thread/start"
    BY <2>1, TransportAssumption DEF Serve, Owe, AnswerTexts
  <2>2. CASE m = "turn/start"
    <3>1. \E kind \in Answers : Owe(a, m, kind) \/ UNCHANGED owed
      BY <2>2 DEF Serve
    <3> QED
      BY <2>2, <3>1, TransportAssumption DEF AnswerTexts, Owe
  <2>3. CASE m = "thread/read"
    BY <1>1, <2>3 DEF Serve, Owe, AnswerTexts
  <2>4. CASE m = "turn/interrupt" \/ m = "thread/unsubscribe"
    BY <2>4 DEF Serve, Owe, AnswerTexts, AnswerKinds
  <2> QED
    BY <2>1, <2>2, <2>3, <2>4 DEF Asked, CallMethods, CleanupMethods
<1>4. PICK k \in AnswerTexts : owed' \in {owed, owed \cup {<<a, m, k>>}} /\ (m = "thread/read" => k = turn[a])
  BY <1>3
<1>5. stage[a] = "ended" => m \in CleanupMethods
  BY DEF Awaited, Asked, CallMethods
<1>6. m \in CleanupMethods => stage[a] = "ended"
  BY <1>1 DEF Awaited, CallMethods, CleanupMethods
<1>7. cleaner[b] # "none" => (Mute(b) => Mute(b)')
  <2>1. InQueue(<<b, "thread/start">>)' => InQueue(<<b, "thread/start">>)
    BY <1>1, Dequeued
  <2>2. cleaner[b] # "none" => b # a \/ m # "thread/start"
    BY <1>1, <1>5 DEF CleanupMethods
  <2> HIDE DEF InQueue, Mute
  <2> QED
    BY <1>4, <2>1, <2>2, MuteStays
<1>8. stage[b] = "ended" => (turn'[b] = "running" => turn[b] = "running")
  BY <1>2
<1>9. CASE b # a \/ m \notin {"turn/interrupt", "thread/read"}
  <2>1. \A l \in AnswerTexts : /\ <<b, "turn/interrupt", l>> \in owed' => <<b, "turn/interrupt", l>> \in owed
                               /\ <<b, "thread/read", l>> \in owed' => <<b, "thread/read", l>> \in owed
    BY <1>4, <1>9
  <2> HIDE DEF Mute
  <2> QED
    BY <1>1, <1>7, <1>8, <2>1, HoldQuiet
<1>10. CASE b = a /\ m \in {"turn/interrupt", "thread/read"}
  <2>1. stage[b] = "ended" /\ HoldInv(b)
    BY <1>6, <1>10 DEF CleanupMethods
  <2>2. ToldInv(b)'
    BY <1>2, <1>4, <1>8, <1>10, <2>1 DEF HoldInv, ToldInv
  <2>3. closed \/ StepInv(b)'
    <3> HIDE DEF Mute
    <3> QED
      BY <1>7, <1>8, <2>1 DEF HoldInv, StepInv, CleanupMethods
  <2> QED
    BY <2>2, <2>3 DEF HoldInv
<1> QED
  BY <1>9, <1>10

LEMMA WriteHolds ==
  ASSUME ReadInv, TurnsInv, \A b \in Attempts : HoldInv(b), WriteNext
  PROVE  \A b \in Attempts : HoldInv(b)'
<1> DEFINE w == Head(writes)
<1>1. /\ writes \in Seq(Lines) /\ writes # <<>> /\ writes' = Tail(writes) /\ UNCHANGED <<stage, cleaner>>
      /\ \A b \in Attempts : <<b, "thread/start">> \in Lines
  BY ReadFacts DEF WriteNext, Lines, Asked, CallMethods
<1>2. \A b \in Attempts : InQueue(<<b, "thread/start">>)' => InQueue(<<b, "thread/start">>)
  BY <1>1, Dequeued
<1>3. FailSession => closed'
  BY DEF FailSession, table
<1>4. CASE UNCHANGED <<server, sub>> /\ UNCHANGED <<table, answer>>
  <2>1. UNCHANGED <<owed, turn, pending, routes, closed, answer, sub>>
    BY <1>4 DEF server, table
  <2> HIDE DEF InQueue
  <2> QED
    BY <1>1, <1>2, <2>1, HoldRests
<1>5. CASE FailSession /\ UNCHANGED server
  <2>1. UNCHANGED <<owed, turn>> /\ closed'
    BY <1>3, <1>5 DEF server
  <2> HIDE DEF InQueue
  <2> QED
    BY <1>1, <1>2, <1>5, <2>1, HoldRests
<1>6. CASE w[2] # "refusal" /\ Awaited(w[1], w[2]) /\ Serve(w[1], w[2]) /\ UNCHANGED <<table, answer, sub>>
  <2>1. w[1] \in Attempts /\ w[2] \in Asked /\ w = <<w[1], w[2]>>
    BY <1>1, <1>6 DEF Lines
  <2> HIDE DEF w
  <2>2. Head(writes) = <<w[1], w[2]>>
    BY <2>1 DEF w
  <2>3. UNCHANGED <<pending, routes, closed>>
    BY <1>6 DEF table
  <2> QED
    BY <1>1, <1>6, <2>1, <2>2, <2>3, ServeHolds
<1> QED
  BY <1>4, <1>5, <1>6 DEF WriteNext

LEMMA RouteHolds ==
  ASSUME ReadInv, \A b \in Attempts : HoldInv(b), NEW a \in Attempts, NEW e \in Sent, Route(a, e),
         UNCHANGED <<cleaner, stage, owed, writes>>,
         \A b \in Attempts : turn'[b] = "running" => turn[b] = "running"
  PROVE  \A b \in Attempts : HoldInv(b)'
<1>1. UNCHANGED <<pending, routes, closed, answer>> \/ FailSession
  BY RouteRests
<1>2. \A b \in Attempts : InQueue(<<b, "thread/start">>)' => InQueue(<<b, "thread/start">>)
  BY DEF InQueue
<1>3. \A b \in Attempts : sub[b].thread = TRUE => sub'[b].thread = TRUE \/ closed'
  <2>1. /\ sub \in [Attempts -> Subscriptions] /\ sub[a] \in Subscriptions /\ e \in Events
    BY ReadFacts DEF Sent, Events
  <2>2. Delivered(a, sub[a], e).thread = sub[a].thread
    BY <2>1, DeliveredEnds
  <2>3. sub' \in {sub, [sub EXCEPT ![a] = Delivered(a, @, e)]} \/ closed'
    BY DEF Route, FailSession, table
  <2> QED
    BY <2>1, <2>2, <2>3
<1> HIDE DEF InQueue
<1> QED
  BY <1>1, <1>2, <1>3, HoldRests

LEMMA EmitHolds ==
  ASSUME ReadInv, \A b \in Attempts : HoldInv(b), NEW a \in Attempts, NEW kind \in Kinds, Emit(a, kind)
  PROVE  \A b \in Attempts : HoldInv(b)'
<1> DEFINE e == Event(a, kind, emitted[a] + 1, turn[a] # "unstarted")
<1>1. e \in Sent
  <2> DEFINE b == turn[a] # "unstarted"
  <2>1. b \in BOOLEAN /\ emitted[a] + 1 \in Nat /\ kind \in EventKinds
    BY TransportAssumption DEF ReadInv, ReadersInv, ReadTypes
  <2>2. e = [att |-> a, kind |-> kind, num |-> emitted[a] + 1, turn |-> b]
    BY DEF Event
  <2> HIDE DEF e, b
  <2> QED
    BY <2>1, <2>2 DEF Sent
<1> HIDE DEF e
<1>2. UNCHANGED <<cleaner, stage, owed>> /\ \A b \in Attempts : turn'[b] = "running" => turn[b] = "running"
  <2>1. turn \in [Attempts -> {"unstarted", "running", "over"}]
    BY ReadFacts
  <2> QED
    BY <2>1 DEF Emit
<1>3. CASE Route(a, e) /\ UNCHANGED <<asked, writes>>
  BY <1>1, <1>2, <1>3, RouteHolds
<1>4. CASE kind = "request"
  <2>1. UNCHANGED <<pending, routes, closed, answer, sub>> /\ (UNCHANGED writes \/ writes' = Append(writes, <<a, "refusal">>))
    BY <1>4 DEF Emit, table
  <2>2. ASSUME NEW b \in Attempts PROVE InQueue(<<b, "thread/start">>)' => InQueue(<<b, "thread/start">>)
    <3>1. /\ writes \in Seq(Lines) /\ <<a, "refusal">> \in Lines /\ <<b, "thread/start">> \in Lines
          /\ <<b, "thread/start">> # <<a, "refusal">>
      BY ReadFacts DEF Lines, Asked, CallMethods
    <3>2. CASE UNCHANGED writes
      BY <3>2 DEF InQueue
    <3>3. CASE writes' = Append(writes, <<a, "refusal">>)
      BY <3>1, <3>3, Appended
    <3> QED
      BY <2>1, <3>2, <3>3
  <2> HIDE DEF InQueue
  <2> QED
    BY <1>2, <2>1, <2>2, HoldRests
<1> QED
  BY <1>3, <1>4 DEF Emit, e

LEMMA RefusedHolds ==
  ASSUME ReadInv, \A b \in Attempts : HoldInv(b), RouteRefused
  PROVE  \A b \in Attempts : HoldInv(b)'
<1> DEFINE a == asked.att
<1>1. reader = "refused" /\ Route(a, asked) /\ UNCHANGED <<writes, turn, cleaner, stage, owed>>
  BY DEF RouteRefused, server
<1>2. asked \in Sent /\ a \in Attempts
  BY <1>1 DEF ReadInv, ReadersInv, ReaderInv, Sent
<1> HIDE DEF a
<1> QED
  BY <1>1, <1>2, RouteHolds

LEMMA RespondHolds ==
  ASSUME ReadInv, \A b \in Attempts : LeftInv(b) /\ HoldInv(b),
         NEW a \in Attempts, NEW m \in Asked, NEW kind \in AnswerTexts, Respond(a, m, kind)
  PROVE  \A b \in Attempts : HoldInv(b)'
<1> DEFINE named == m = "thread/start" /\ kind \in {"ok", "mismatch"}
<1> SUFFICES ASSUME NEW b \in Attempts PROVE HoldInv(b)'
  OBVIOUS
<1>1. /\ UNCHANGED <<turn, stage, cleaner, writes, closed>> /\ <<a, m, kind>> \in owed
      /\ owed' = owed \ {<<a, m, kind>>} /\ pending' \subseteq pending
      /\ closed \in BOOLEAN /\ (cleaner[b] # "none" => stage[b] = "ended")
      /\ sub \in [Attempts -> Subscriptions] /\ answer \in [Attempts -> AnswerTexts]
  BY ReadFacts DEF Respond, table, StartInv
<1>2. sub[b].thread = TRUE => sub'[b].thread = TRUE
  <2>1. sub' \in {sub, [sub EXCEPT ![a] = Named(a, @, early[a])], [sub EXCEPT ![a].turn = TRUE]}
    BY DEF Respond
  <2>2. sub[b] \in Subscriptions
    BY <1>1
  <2>3. sub'[b] = sub[b] \/ sub'[b] = Named(a, sub[a], early[a]) \/ sub'[b] = [sub[b] EXCEPT !.turn = TRUE]
    BY <1>1, <2>1
  <2>4. Named(a, sub[a], early[a]).thread = TRUE
    BY DEF Named
  <2> QED
    BY <2>2, <2>3, <2>4 DEF Subscriptions
<1>3. Mute(b) => Mute(b)'
  <2>1. InQueue(<<b, "thread/start">>)' => InQueue(<<b, "thread/start">>)
    BY <1>1 DEF InQueue
  <2> HIDE DEF InQueue
  <2> QED
    BY <1>1, <2>1, MuteStays
<1>4. ASSUME b # a \/ <<a, m>> \notin pending \/ cleaner[b] = "none" PROVE HoldInv(b)'
  <2>1. cleaner[b] # "none" => answer'[b] = answer[b] /\ (b \in routes' => b \in routes)
    BY <1>1, <1>4 DEF Respond, table
  <2> HIDE DEF Mute
  <2> QED
    BY <1>1, <1>2, <1>3, <2>1, HoldQuiet
<1>5. CASE b = a /\ <<a, m>> \in pending /\ cleaner[b] # "none"
  <2>1. /\ HoldInv(b) /\ LeftInv(b) /\ stage[b] = "ended" /\ cleaner[b] # "done"
    BY <1>1, <1>5 DEF LeftInv
  <2>2. ToldInv(b)'
    BY <1>1, <2>1 DEF HoldInv, ToldInv
  <2>3. CASE named
    <3>1. /\ sub'[b].thread = TRUE /\ answer' = answer
      BY <1>1, <1>5, <2>1, <2>3 DEF Respond, Awaited, CallMethods, Named
    <3>2. cleaner[b] = "sweep" => closed
      BY <1>1, <1>5, <2>1, <2>3 DEF HoldInv, StepInv, Mute, AnswerKinds
    <3>3. closed \/ StepInv(b)'
      <4> HIDE DEF Mute
      <4> QED
        BY <1>1, <1>3, <2>1, <3>1, <3>2 DEF HoldInv, StepInv
    <3> QED
      BY <1>1, <2>2, <3>3 DEF HoldInv
  <2>4. CASE ~named
    <3>1. routes' = routes /\ answer'[b] \in {answer[b], kind} /\ (answer'[b] # answer[b] => m = cleaner[b])
      BY <1>1, <1>5, <2>1, <2>4 DEF Respond, Awaited, CallMethods
    <3>2. /\ m = "turn/interrupt" => turn[b] # "running"
          /\ m = "thread/read" => kind = "running" \/ turn[b] # "running"
      BY <1>1, <1>5, <2>1 DEF HoldInv, ToldInv
    <3>3. closed \/ StepInv(b)'
      <4> HIDE DEF Mute
      <4> QED
        BY <1>1, <1>2, <1>3, <2>1, <3>1, <3>2 DEF HoldInv, StepInv
    <3> QED
      BY <1>1, <2>2, <3>3 DEF HoldInv
  <2> QED
    BY <2>3, <2>4
<1> QED
  BY <1>4, <1>5

\* The cleanups, none of which gives up before it is answered.
LEMMA CleanupHolds ==
  ASSUME "slow" \notin Faults, ReadInv, TurnsInv, \A b \in Attempts : LeftInv(b) /\ HoldInv(b),
         NEW a \in Attempts, Cleanup(a) \/ GiveUpSeeking(a) \/ CleanupTimeout(a)
  PROVE  \A b \in Attempts : HoldInv(b)'
<1>1. /\ UNCHANGED <<turn, stage, sub, closed, owed>> /\ routes' \subseteq routes
      /\ cleaner \in [Attempts -> CleanerSteps] /\ closed \in BOOLEAN /\ answer \in [Attempts -> AnswerTexts]
      /\ sub[a] \in Subscriptions
  BY ReadFacts DEF Cleanup, Look, Seek, GiveUpSeeking, Snapshot, CleanupContinues, CleanupTimeout, NameThread, Sweep,
         Elsewhere, server
<1>2. UNCHANGED <<answer, pending, writes>> \/ Sweep(a) \/ \E m \in CleanupMethods : Ask(a, m)
  BY DEF Cleanup, Look, Seek, GiveUpSeeking, Snapshot, CleanupContinues, CleanupTimeout, NameThread, CleanupMethods
<1>3. \A b \in Attempts : Mute(b) => Mute(b)'
  <2> SUFFICES ASSUME NEW b \in Attempts PROVE Mute(b) => Mute(b)'
    OBVIOUS
  <2>1. CASE UNCHANGED <<answer, pending, writes>> \/ Sweep(a)
    <3>1. writes' = writes /\ pending' \subseteq pending
      BY <2>1 DEF Sweep
    <3>2. InQueue(<<b, "thread/start">>)' => InQueue(<<b, "thread/start">>)
      BY <3>1 DEF InQueue
    <3> HIDE DEF InQueue
    <3> QED
      BY <1>1, <3>1, <3>2, MuteStays
  <2>2. CASE \E m \in CleanupMethods : Ask(a, m)
    <3>1. PICK m \in CleanupMethods : Ask(a, m)
      BY <2>2
    <3>2. m \in Asked /\ m # "thread/start"
      BY DEF Asked, CleanupMethods
    <3> QED
      BY <1>1, <3>1, <3>2, AskMutes
  <2> QED
    BY <1>2, <2>1, <2>2
<1>4. ASSUME NEW b \in Attempts \ {a} PROVE HoldInv(b)'
  <2>1. cleaner'[b] = cleaner[b] /\ answer'[b] = answer[b]
    <3>1. \E s : Clean(a, s)
      BY DEF Cleanup, Look, Seek, GiveUpSeeking, Snapshot, CleanupContinues, CleanupTimeout, NameThread, Sweep
    <3>2. cleaner'[b] = cleaner[b]
      BY <1>1, <3>1 DEF Clean
    <3>3. answer'[b] = answer[b]
      BY <1>1, <1>2 DEF Sweep, Ask
    <3> QED
      BY <3>2, <3>3
  <2>2. cleaner[b] # "none" => stage[b] = "ended"
    BY ReadFacts DEF StartInv
  <2> HIDE DEF Mute
  <2> QED
    BY <1>1, <1>3, <2>1, <2>2, HoldQuiet
<1>5. HoldInv(a) /\ LeftInv(a) /\ TurnInv(a) /\ ToldInv(a)'
  BY <1>1 DEF HoldInv, ToldInv, TurnsInv
<1>6. sub[a].thread \in BOOLEAN /\ sub[a].completed \in BOOLEAN /\ sub[a].turn \in BOOLEAN
  BY <1>1 DEF Subscriptions
<1> SUFFICES ASSUME ~closed PROVE StepInv(a)'
  BY <1>1, <1>4, <1>5 DEF HoldInv
<1>7. StepInv(a)
  BY <1>5 DEF HoldInv
<1>8. sub[a].thread = FALSE => turn[a] # "running" /\ a \notin routes
  BY <1>5 DEF TurnInv
<1>9. ASSUME NEW s \in CleanerSteps, Clean(a, s) PROVE cleaner'[a] = s
  BY <1>1, <1>9 DEF Clean
<1>10. ASSUME NEW m, Ask(a, m) PROVE answer'[a] = "none"
  BY <1>1, <1>10 DEF Ask
<1>11. CASE Look(a)
  <2>1. cleaner'[a] = IF sub[a].thread THEN "snapshot" ELSE "seek"
    BY <1>9, <1>11 DEF Look, CleanerSteps
  <2> HIDE DEF Mute
  <2> QED
    BY <1>1, <1>6, <1>8, <2>1 DEF StepInv, CleanupMethods
<1>12. CASE Seek(a)
  <2>1. cleaner[a] = "seek" /\ cleaner'[a] \in {"look", "name"} /\ (cleaner'[a] = "name" => <<a, "thread/start">> \notin pending)
        /\ pending' = pending
    BY <1>9, <1>12 DEF Seek, CleanerSteps, CallMethods
  <2>2. cleaner'[a] = "name" => Mute(a)'
    BY <2>1 DEF Mute
  <2> HIDE DEF Mute
  <2> QED
    BY <1>1, <1>7, <2>1, <2>2 DEF StepInv, CleanupMethods
<1>13. CASE GiveUpSeeking(a)
  <2>1. /\ cleaner'[a] = "snapshot" /\ UNCHANGED <<writes, owed>>
        /\ ~Contains(writes, <<a, "thread/start">>) /\ \A k \in AnswerKinds : <<a, "thread/start", k>> \notin owed
    BY <1>1, <1>9, <1>13 DEF GiveUpSeeking, CleanerSteps, CallMethods
  <2>2. Mute(a)'
    BY <2>1 DEF Mute, InQueue, Contains
  <2> HIDE DEF Mute
  <2> QED
    BY <2>1, <2>2 DEF StepInv, CleanupMethods
<1>14. CASE Snapshot(a)
  <2>1. CASE sub[a].thread = FALSE
    <3>1. cleaner[a] = "snapshot" /\ cleaner'[a] = "name"
      BY <1>9, <1>14, <2>1 DEF Snapshot, CleanerSteps
    <3> HIDE DEF Mute
    <3> QED
      BY <1>1, <1>3, <1>7, <1>8, <2>1, <3>1 DEF StepInv, CleanupMethods
  <2>2. CASE sub[a].thread = TRUE
    <3>1. PICK m \in CleanupMethods : Clean(a, m) /\ Ask(a, m) /\ (m = "thread/unsubscribe" => sub[a].completed)
      BY <1>14, <2>2 DEF Snapshot, CleanupMethods
    <3>2. cleaner'[a] = m /\ answer'[a] = "none"
      BY <1>9, <1>10, <3>1 DEF CleanerSteps
    <3>3. m = "thread/unsubscribe" => turn[a] = "over"
      BY <1>5, <1>6, <3>1 DEF TurnInv
    <3> HIDE DEF Mute
    <3> QED
      BY <1>1, <2>2, <3>2, <3>3 DEF StepInv, CleanupMethods
  <2> QED
    BY <1>6, <2>1, <2>2
<1>15. CASE CleanupContinues(a)
  <2>1. cleaner[a] \in CleanupMethods /\ answer[a] # "none" /\ sub[a].thread = TRUE
    BY <1>7, <1>15 DEF CleanupContinues, StepInv
  <2>2. CASE cleaner[a] = "thread/unsubscribe"
    <3>1. cleaner'[a] = "name"
      BY <1>9, <1>15, <2>2 DEF CleanupContinues, CleanerSteps
    <3> HIDE DEF Mute
    <3> QED
      BY <1>1, <1>7, <2>1, <2>2, <3>1 DEF StepInv, CleanupMethods
  <2>3. CASE cleaner[a] # "thread/unsubscribe"
    <3> DEFINE m == IF cleaner[a] = "thread/read" /\ answer[a] = "running" THEN "turn/interrupt" ELSE "thread/unsubscribe"
    <3>1. Clean(a, m) /\ Ask(a, m)
      BY <1>15, <2>3 DEF CleanupContinues
    <3>2. cleaner'[a] = m /\ answer'[a] = "none"
      BY <1>9, <1>10, <3>1 DEF CleanerSteps, CleanupMethods
    <3>3. m = "thread/unsubscribe" => turn[a] # "running"
      BY <1>7, <2>1, <2>3 DEF StepInv, CleanupMethods
    <3>4. m \in {"turn/interrupt", "thread/unsubscribe"}
      OBVIOUS
    <3> HIDE DEF Mute, m
    <3> QED
      BY <1>1, <2>1, <3>2, <3>3, <3>4 DEF StepInv, CleanupMethods
  <2> QED
    BY <2>2, <2>3
<1>16. CASE NameThread(a)
  <2>1. cleaner[a] = "name" /\ cleaner'[a] = IF sub[a].thread THEN "forget" ELSE "sweep"
    BY <1>9, <1>16 DEF NameThread, CleanerSteps
  <2> HIDE DEF Mute
  <2> QED
    BY <1>1, <1>3, <1>6, <1>7, <1>8, <2>1 DEF StepInv, CleanupMethods
<1>17. CASE Sweep(a)
  <2>1. /\ cleaner[a] \in {"forget", "sweep"} /\ cleaner'[a] = "done"
        /\ routes' = IF cleaner[a] = "forget" THEN routes \ {a} ELSE routes
    BY <1>9, <1>17 DEF Sweep, CleanerSteps
  <2> HIDE DEF Mute
  <2> QED
    BY <1>1, <1>7, <2>1 DEF StepInv, CleanupMethods
<1>18. ~CleanupTimeout(a)
  BY DEF CleanupTimeout
<1> QED
  BY <1>11, <1>12, <1>13, <1>14, <1>15, <1>16, <1>17, <1>18 DEF Cleanup

LEMMA InitTidy == Init => TidyInv
<1> SUFFICES ASSUME Init PROVE TidyInv
  OBVIOUS
<1>1. ReadInv
  BY InitRead
<1>2. /\ stage = [a \in Attempts |-> "none"] /\ cleaner = [a \in Attempts |-> "none"]
      /\ turn = [a \in Attempts |-> "unstarted"] /\ sub = [a \in Attempts |-> NewSubscription]
      /\ pending = {} /\ routes = {} /\ early = NothingEarly /\ writes = <<>> /\ reader = "reading" /\ owed = {}
  BY DEF Init
<1>3. TurnsInv
  <2>1. AskedInv /\ EarlyInv
    BY <1>2 DEF AskedInv, RefusalQueued, EarlyInv
  <2> QED
    BY <1>2, <2>1 DEF TurnsInv, TurnInv, NewSubscription, NothingEarly
<1>4. PendingInv
  BY <1>2 DEF PendingInv
<1>5. ASSUME NEW a \in Attempts PROVE LeftInv(a) /\ HoldInv(a)
  BY <1>2 DEF LeftInv, HoldInv, ToldInv, StepInv, CleanupMethods
<1> QED
  BY <1>1, <1>3, <1>4, <1>5 DEF TidyInv

LEMMA StepTidy ==
  ASSUME "slow" \notin Faults
  PROVE  TidyInv /\ [Next]_vars => TidyInv'
<1> SUFFICES ASSUME TidyInv, [Next]_vars PROVE TidyInv'
  OBVIOUS
<1>1. ReadInv /\ TurnsInv /\ PendingInv /\ \A a \in Attempts : LeftInv(a) /\ HoldInv(a)
  BY DEF TidyInv
<1>2. ReadInv' /\ TurnsInv' /\ PendingInv' /\ \A a \in Attempts : LeftInv(a)'
  BY <1>1, StepRead, StepTurns, StepPending, StepLeft
<1> SUFFICES \A a \in Attempts : HoldInv(a)'
  BY <1>2 DEF TidyInv
<1>3. CASE \E c \in Calls : Enter(c) \/ Call(c) \/ Deadline(c)
  BY <1>1, <1>3, CallHolds
<1>4. CASE \E a \in Attempts : Cleanup(a) \/ GiveUpSeeking(a) \/ CleanupTimeout(a)
  BY <1>1, <1>4, CleanupHolds
<1>5. CASE \E a \in Attempts, kind \in Kinds : Emit(a, kind)
  BY <1>1, <1>5, EmitHolds
<1>6. CASE \E r \in owed : Respond(r[1], r[2], r[3])
  <2>1. owed \subseteq Attempts \X Asked \X AnswerTexts
    BY <1>1, ReadFacts
  <2>2. PICK a \in Attempts, m \in Asked, kind \in AnswerTexts : Respond(a, m, kind)
    BY <1>6, <2>1
  <2> QED
    BY <1>1, <2>2, RespondHolds
<1>7. CASE WriteNext
  BY <1>1, <1>7, WriteHolds
<1>8. CASE RouteRefused
  BY <1>1, <1>8, RefusedHolds
<1>9. ASSUME UNCHANGED <<cleaner, stage, owed, turn, writes>>,
             FailSession \/ UNCHANGED <<pending, routes, closed, answer, sub>>
      PROVE  \A a \in Attempts : HoldInv(a)'
  <2>1. \A b \in Attempts : InQueue(<<b, "thread/start">>)' => InQueue(<<b, "thread/start">>)
    BY <1>9 DEF InQueue
  <2>2. FailSession => closed'
    BY DEF FailSession, table
  <2> HIDE DEF InQueue
  <2> QED
    BY <1>1, <1>9, <2>1, <2>2, HoldRests
<1>10. CASE EndOfOutput \/ Stop
  BY <1>9, <1>10 DEF EndOfOutput, Stop, Untouched, server
<1>11. CASE Exit \/ Listen \/ CountLeases \/ UNCHANGED vars
  BY <1>9, <1>11 DEF Exit, Listen, CountLeases, Untouched, table, server, calls, vars
<1> QED
  BY <1>3, <1>4, <1>5, <1>6, <1>7, <1>8, <1>10, <1>11 DEF Next, Close

\* A call leaves nothing behind, however it ended, however late answers and events come and
\* whichever of its requests are lost: once its cleanup is over no turn of it runs in an open
\* session, and when every attempt is cleaned up the session holds nothing for any of them.
\* Only a cleanup whose own timeouts strike, which is "slow", may leave a turn behind
\* (transport.rs cleanup).
THEOREM CallsLeaveNothing ==
  ASSUME "slow" \notin Faults
  PROVE  Spec => []TurnsAreCleanedUp
<1>1. TidyInv => TurnsAreCleanedUp
  <2> SUFFICES ASSUME TidyInv PROVE TurnsAreCleanedUp
    OBVIOUS
  <2>1. /\ EarlyInv /\ pending \subseteq Attempts \X Asked /\ routes \subseteq Attempts
        /\ stage \in [Attempts -> Stages] /\ closed \in BOOLEAN
        /\ \A a \in Attempts : LeftInv(a) /\ HoldInv(a) /\ StartInv(a) /\ NameInv(a)
    BY ReadFacts DEF TidyInv, TurnsInv, PendingInv
  <2>2. NoTurnLeftRunning
    BY <2>1 DEF NoTurnLeftRunning, HoldInv, StepInv
  <2>3. ASSUME \A a \in Attempts : stage[a] \in {"none", "ended"} /\ cleaner[a] \in {"none", "done"}
        PROVE  pending = {} /\ (closed \/ routes = {}) /\ early = NothingEarly
    <3>1. pending = {}
      BY <2>1, <2>3 DEF LeftInv
    <3>2. early = NothingEarly
      BY <2>1, <3>1 DEF EarlyInv, Starting
    <3>3. ASSUME ~closed, NEW a \in routes PROVE FALSE
      <4>1. a \in Attempts /\ stage[a] # "none"
        BY <2>1, <3>3 DEF NameInv
      <4>2. cleaner[a] = "done"
        BY <2>1, <2>3, <4>1 DEF LeftInv
      <4> QED
        BY <2>1, <3>3, <4>1, <4>2 DEF HoldInv, StepInv
    <3> QED
      BY <3>1, <3>2, <3>3
  <2> QED
    BY <2>2, <2>3 DEF TurnsAreCleanedUp, NothingIsKept
<1> QED
  BY <1>1, InitTidy, StepTidy, PTL DEF Spec
=============================================================================
