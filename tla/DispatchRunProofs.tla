--------------------------- MODULE DispatchRunProofs ---------------------------
(***************************************************************************)
(* What DispatchRun guarantees for any number of resolvers, supervisors and *)
(* submitters, any attempt budget and any combination of faults.            *)
(***************************************************************************)
EXTENDS DispatchRun, TLAPS

\* The definitions that only name a value, and the groups of variables.
USE DEF Idle, NoUpdate, Ready, Labels, ExecutionSteps, ErrorSteps, SubmitSteps, ResolveSteps,
        codex, counts, vars

LEMMA NullTypes ==
  /\ NoCandidate \in CandidateRecords
  /\ NoLocal \in LocalRecords
  /\ NoTurn \in TurnRecords
  /\ NoOutcome \notin OutcomeRecords
BY DEF NoCandidate, CandidateRecords, NoLocal, LocalRecords, NoTurn, TurnRecords,
       NoOutcome, OutcomeRecords, OutcomeKinds

LEMMA GotoType ==
  ASSUME TypeOK, NEW p \in Procs, NEW l \in Labels, Goto(p, l)
  PROVE  pc' \in [Procs -> Labels] /\ local' \in [Procs -> LocalRecords]
BY NullTypes DEF TypeOK, Goto

LEMMA OnErrorType ==
  ASSUME TypeOK, NEW p \in Procs
  PROVE  OnError(p) \in Labels
BY DEF OnError

LEMMA ChangeStatusType ==
  ASSUME TypeOK, NEW p \in Procs, NEW to \in RunStatuses, NEW l \in Labels,
         ChangeStatus(p, to, l)
  PROVE  /\ pc' \in [Procs -> Labels] /\ local' \in [Procs -> LocalRecords]
         /\ upd' \in [Procs -> RunStatuses \cup {NoUpdate}]
<1>1. CASE ValidRunTransition(run.status, to)
  <2>1. Goto(p, l) /\ upd' = [upd EXCEPT ![p] = to]
    BY <1>1 DEF ChangeStatus
  <2>. QED BY <2>1, GotoType DEF TypeOK
<1>2. CASE ~ValidRunTransition(run.status, to)
  <2>1. Goto(p, OnError(p)) /\ upd' = upd
    BY <1>2 DEF ChangeStatus
  <2>. QED BY <2>1, GotoType, OnErrorType DEF TypeOK
<1>. QED BY <1>1, <1>2

LEMMA FindOutcomeType ==
  ASSUME TypeOK, NEW p \in Procs, NEW o \in OutcomeRecords, NEW l \in Labels,
         FindOutcome(p, o, l)
  PROVE  TypeOK'
<1>1. ins' \in [Procs -> OutcomeRecords \cup {NoOutcome}]
  BY DEF FindOutcome, TypeOK
<1>2. pc' \in [Procs -> Labels] /\ local' \in [Procs -> LocalRecords]
  <2>1. OnError(p) \in Labels
    BY OnErrorType
  <2>. QED BY <2>1, GotoType DEF FindOutcome
<1>. QED BY <1>1, <1>2 DEF FindOutcome, TypeOK

LEMMA TerminalStatusType ==
  ASSUME NEW k \in OutcomeKinds
  PROVE  /\ TerminalStatus(k) \in RunStatuses /\ TerminalStatus(k) \in TaskStatuses
         /\ IsTerminal(TerminalStatus(k))
BY DEF OutcomeKinds, TerminalStatus, RunStatuses, TaskStatuses, IsTerminal, TerminalStatuses

LEMMA SupervisorOutcomeType ==
  /\ SupervisorOutcome("failed", "time") \in OutcomeRecords
  /\ SupervisorOutcome("failed", "error") \in OutcomeRecords
  /\ SupervisorOutcome("failed", "no_candidate") \in OutcomeRecords
  /\ SupervisorOutcome("canceled", "interrupted") \in OutcomeRecords
BY NullTypes DEF SupervisorOutcome, OutcomeRecords, OutcomeKinds

\* The outcome of a verdict, and why it is evidenced: an accepting disposition
\* is given only to a candidate of that status that passed the checks.
LEMMA VerdictOutcomeType ==
  ASSUME NEW w \in Submitters, NEW c \in CandidateRecords, Committable(c),
         NEW o, o = [kind |-> VerdictKind(Disposition(c)), reason |-> "verdict",
                     by |-> w, cand |-> c]
  PROVE  o \in OutcomeRecords /\ Evidenced(o)
<1>1. VerdictKind(Disposition(c)) \in OutcomeKinds
  BY DEF VerdictKind, OutcomeKinds
<1>2. o \in OutcomeRecords
  BY <1>1 DEF OutcomeRecords
<1>3. VerdictKind(Disposition(c)) = "success" => c.status = "success" /\ c.checks
  BY DEF VerdictKind, Disposition
<1>4. VerdictKind(Disposition(c)) = "partial" => c.status = "partial" /\ c.checks /\ c.risks
  BY DEF VerdictKind, Disposition
<1>. QED BY <1>2, <1>3, <1>4, RolesAssumption DEF Evidenced
-----------------------------------------------------------------------------
(* Type correctness.  TypeInv is inductive: a resolver must know its        *)
(* decision and an insert must have its outcome for the types to be kept.   *)

TypeInv == TypeOK /\ ResolversDecide /\ InsertsAreEvidenced

LEMMA InitType == Init => TypeInv
<1>. SUFFICES ASSUME Init PROVE TypeInv
  OBVIOUS
<1>1. TypeOK
  <2>1. run \in [status : RunStatuses, approval : ApprovalStatuses, thread : Supervisors \cup {NoThread}]
    BY DEF Init, RunStatuses, ApprovalStatuses
  <2>2. approval \in ApprovalStatuses /\ task \in TaskStatuses
    BY DEF Init, ApprovalStatuses, TaskStatuses
  <2>3. turn \in [Attempts -> TurnRecords] /\ local \in [Procs -> LocalRecords]
    BY NullTypes DEF Init
  <2>. QED BY <2>1, <2>2, <2>3 DEF Init, TypeOK
<1>2. ResolversDecide /\ InsertsAreEvidenced
  BY DEF Init, ResolversDecide, InsertsAreEvidenced, Procs
<1>. QED BY <1>1, <1>2 DEF TypeInv

\* The two halves of TypeInv that say what a label means, for a step of p.
LEMMA FrameDecide ==
  ASSUME TypeInv, NEW p \in Procs, p \notin Resolvers, NEW l, pc' = [pc EXCEPT ![p] = l],
         decision' = decision
  PROVE  ResolversDecide'
BY DEF TypeInv, TypeOK, ResolversDecide

LEMMA FrameInserts ==
  ASSUME TypeInv, NEW p \in Procs, NEW l, l \notin {"insert", "lastInsert"},
         pc' = [pc EXCEPT ![p] = l], ins' = ins
  PROVE  InsertsAreEvidenced'
BY DEF TypeInv, TypeOK, InsertsAreEvidenced

\* The shape of a status change and of an outcome about to be recorded.
LEMMA ChangeStatusShape ==
  ASSUME TypeOK, NEW p \in Procs, NEW to \in RunStatuses, NEW l \in Labels, ChangeStatus(p, to, l)
  PROVE  \E m \in {l, OnError(p)} : m \in Labels /\ pc' = [pc EXCEPT ![p] = m] /\ Goto(p, m)
BY OnErrorType DEF ChangeStatus, Goto

LEMMA OnErrorLabel ==
  ASSUME NEW p
  PROVE  OnError(p) \in {"gone", "error", Idle}
BY DEF OnError

\* FindOutcome keeps TypeInv when the outcome is evidenced.
LEMMA FindOutcomeInv ==
  ASSUME TypeInv, NEW p \in Procs, p \notin Resolvers, NEW o \in OutcomeRecords, Evidenced(o),
         NEW l \in Labels, FindOutcome(p, o, l)
  PROVE  TypeInv'
<1>1. TypeOK'
  BY FindOutcomeType DEF TypeInv
<1>2. PICK m \in Labels : Goto(p, m) /\ (m \in {"insert", "lastInsert"} => outcome = NoOutcome)
  BY OnErrorType, OnErrorLabel DEF FindOutcome, TypeInv
<1>3. ResolversDecide'
  BY <1>2, FrameDecide DEF Goto, FindOutcome
<1>4. InsertsAreEvidenced'
  BY <1>2 DEF FindOutcome, TypeInv, TypeOK, InsertsAreEvidenced, Goto
<1>. QED BY <1>1, <1>3, <1>4 DEF TypeInv

LEMMA ResolverType ==
  ASSUME TypeInv, NEW r \in Resolvers, Resolver(r)
  PROVE  TypeInv'
<1>. r \in Procs /\ TypeOK /\ r \notin Supervisors /\ r \notin Submitters
  BY RolesAssumption DEF Procs, TypeInv
<1>1. ASSUME NEW d \in {"approved", "rejected"}, StartResolve(r, d) PROVE TypeInv'
  BY <1>1 DEF StartResolve, TypeInv, TypeOK, Goto, ResolversDecide, InsertsAreEvidenced
<1>2. CASE ResolveRequest(r)
  BY <1>2 DEF ResolveRequest, TypeInv, TypeOK, Goto, ResolversDecide, InsertsAreEvidenced, ApprovalStatuses
<1>3. CASE SetApprovalState(r)
  BY <1>3 DEF SetApprovalState, TypeInv, TypeOK, Goto, ResolversDecide, InsertsAreEvidenced, ApprovalStatuses
<1>4. CASE DecideRun(r)
  <2>1. \E to \in {"approved", "canceled"}, l \in {"dispatch", "gone"} : ChangeStatus(r, to, l)
    BY <1>4 DEF DecideRun
  <2>2. TypeOK'
    BY <1>4, <2>1, ChangeStatusType DEF DecideRun, TypeOK, RunStatuses
  <2>3. PICK m \in {"dispatch", "gone"} : pc' = [pc EXCEPT ![r] = m]
    BY <2>1 DEF ChangeStatus, Goto, OnError
  <2>4. ResolversDecide'
    BY <1>4, <2>3 DEF DecideRun, TypeInv, TypeOK, ResolversDecide
  <2>5. InsertsAreEvidenced'
    BY <1>4, <2>3, FrameInserts DEF DecideRun
  <2>. QED BY <2>2, <2>4, <2>5 DEF TypeInv
<1>5. CASE MarkDispatched(r)
  BY <1>5 DEF MarkDispatched, TypeInv, TypeOK, Goto, ResolversDecide, InsertsAreEvidenced, TaskStatuses
<1>. QED BY <1>1, <1>2, <1>3, <1>4, <1>5 DEF Resolver

\* A status change of a process that is not a resolver.
LEMMA ChangeStatusInv ==
  ASSUME TypeInv, NEW p \in Procs, p \notin Resolvers, NEW to \in RunStatuses,
         NEW l \in Labels \ {"insert", "lastInsert"}, ChangeStatus(p, to, l),
         UNCHANGED <<run, approval, task, outcome, counts, codex, ins, decision>>
  PROVE  TypeInv'
<1>1. TypeOK'
  BY ChangeStatusType DEF TypeInv, TypeOK
<1>2. PICK m : m \notin {"insert", "lastInsert"} /\ pc' = [pc EXCEPT ![p] = m]
  BY ChangeStatusShape, OnErrorLabel DEF TypeInv
<1>. QED BY <1>1, <1>2, FrameDecide, FrameInserts DEF TypeInv

LEMMA SupervisorEvidence ==
  \A k, r : k \in {"failed", "canceled"} => Evidenced(SupervisorOutcome(k, r))
BY DEF Evidenced, SupervisorOutcome

\* The variables that are rows and artifacts, and a step of a process that is not
\* a resolver to a label where nothing is about to be inserted.
RowsType ==
  /\ run \in [status : RunStatuses, approval : ApprovalStatuses, thread : Supervisors \cup {NoThread}]
  /\ approval \in ApprovalStatuses /\ task \in TaskStatuses
  /\ outcome \in OutcomeRecords \cup {NoOutcome}
  /\ failures \in Nat /\ candidates \in Nat /\ pending \in BOOLEAN
  /\ turn \in [Attempts -> TurnRecords]

LEMMA RowsAreTyped == ASSUME TypeInv PROVE RowsType
BY DEF TypeInv, TypeOK, RowsType

LEMMA MoveInv ==
  ASSUME TypeInv, NEW p \in Procs, p \notin Resolvers,
         NEW l \in Labels \ {"insert", "lastInsert"}, pc' = [pc EXCEPT ![p] = l],
         local' \in [Procs -> LocalRecords], RowsType', UNCHANGED <<upd, ins, decision>>
  PROVE  TypeInv'
<1>1. TypeOK'
  BY DEF RowsType, TypeInv, TypeOK
<1>. QED BY <1>1, FrameDecide, FrameInserts DEF TypeInv

LEMMA GotoInv ==
  ASSUME TypeInv, NEW p \in Procs, p \notin Resolvers,
         NEW l \in Labels \ {"insert", "lastInsert"}, Goto(p, l),
         RowsType', UNCHANGED <<upd, ins, decision>>
  PROVE  TypeInv'
BY MoveInv, GotoType DEF TypeInv, Goto

LEMMA LaunchType ==
  ASSUME TypeInv, NEW s \in Supervisors, Launch(s)
  PROVE  TypeInv'
<1>. s \in Procs /\ s \notin Resolvers
  BY RolesAssumption DEF Procs
<1>. QED BY GotoInv, RowsAreTyped DEF Launch, RowsType

\* Changing one attempt's entry and turn keeps the type, in the budget or not.
LEMMA TurnUpdate ==
  ASSUME NEW f \in [Attempts -> TurnRecords], NEW n,
         NEW state \in {"none", "active", "completed", "interrupted"}
  PROVE  /\ [f EXCEPT ![n].state = state, ![n].accepted = @ + 1] \in [Attempts -> TurnRecords]
         /\ [f EXCEPT ![n].state = state] \in [Attempts -> TurnRecords]
<1>1. CASE n \in Attempts
  <2>. f[n] \in TurnRecords /\ f[n].accepted + 1 \in Nat
    BY <1>1 DEF TurnRecords
  <2>1. [f[n] EXCEPT !.state = state, !.accepted = @ + 1] \in TurnRecords
    BY DEF TurnRecords
  <2>2. [f EXCEPT ![n].state = state, ![n].accepted = @ + 1]
          = [f EXCEPT ![n] = [f[n] EXCEPT !.state = state, !.accepted = @ + 1]]
    BY <1>1
  <2>3. [f EXCEPT ![n].state = state] \in [Attempts -> TurnRecords]
    BY <1>1 DEF TurnRecords
  <2>. QED BY <2>1, <2>2, <2>3
<1>2. CASE n \notin Attempts
  BY <1>2
<1>. QED BY <1>1, <1>2

LEMMA EntryUpdate ==
  ASSUME NEW f \in [Attempts -> TurnRecords], NEW n, NEW box \in {"none", "pending", "sent"},
         NEW thread \in Supervisors \cup {NoThread},
         NEW state \in {"none", "active", "completed", "interrupted"}
  PROVE  /\ [f EXCEPT ![n].outbox = box, ![n].thread = thread] \in [Attempts -> TurnRecords]
         /\ [f EXCEPT ![n].outbox = box, ![n].state = state, ![n].accepted = @ + 1]
              \in [Attempts -> TurnRecords]
<1>1. CASE n \in Attempts
  <2>. f[n] \in TurnRecords /\ f[n].accepted + 1 \in Nat
    BY <1>1 DEF TurnRecords
  <2>1. [f EXCEPT ![n].outbox = box, ![n].thread = thread] \in [Attempts -> TurnRecords]
    BY <1>1 DEF TurnRecords
  <2>2. [f[n] EXCEPT !.outbox = box, !.state = state, !.accepted = @ + 1] \in TurnRecords
    BY DEF TurnRecords
  <2>3. [f EXCEPT ![n].outbox = box, ![n].state = state, ![n].accepted = @ + 1]
          = [f EXCEPT ![n] = [f[n] EXCEPT !.outbox = box, !.state = state, !.accepted = @ + 1]]
    BY <1>1
  <2>. QED BY <2>1, <2>2, <2>3
<1>2. CASE n \notin Attempts
  BY <1>2
<1>. QED BY <1>1, <1>2

LEMMA SupervisorType ==
  ASSUME TypeInv, NEW s \in Supervisors, Supervisor(s)
  PROVE  TypeInv'
<1>. s \in Procs /\ TypeOK /\ s \notin Resolvers /\ s \notin Submitters
  BY RolesAssumption DEF Procs, TypeInv
<1>1. CASE Claim(s)
  <2>1. RowsType'
    BY <1>1, RowsAreTyped DEF Claim, RowsType, RunStatuses
  <2>2. CASE Goto(s, "error")
    BY <1>1, <2>1, <2>2, GotoInv DEF Claim
  <2>3. CASE pc' = [pc EXCEPT ![s] = "prepare"] /\ local' = [local EXCEPT ![s].thread = run.thread]
    <3>1. local' \in [Procs -> LocalRecords]
      BY <2>3 DEF TypeOK, LocalRecords
    <3>. QED BY <1>1, <2>1, <2>3, <3>1, MoveInv DEF Claim
  <2>. QED BY <1>1, <2>2, <2>3 DEF Claim
<1>2. CASE Prepare(s)
  <2>1. RowsType'
    BY <1>2, RowsAreTyped DEF Prepare, RowsType, TypeOK, LocalRecords
  <2>2. local' \in [Procs -> LocalRecords]
    BY <1>2 DEF Prepare, TypeOK, LocalRecords
  <2>. QED BY <1>2, <2>1, <2>2, MoveInv DEF Prepare
<1>3. CASE PrepareFails(s)
  BY <1>3, GotoInv, RowsAreTyped DEF PrepareFails, RowsType
<1>3h. CASE HandshakeHangs(s)
  BY <1>3h, GotoInv, RowsAreTyped DEF HandshakeHangs, RowsType
<1>4. CASE MarkInProgress(s)
  BY <1>4, GotoInv, RowsAreTyped DEF MarkInProgress, RowsType, TaskStatuses
<1>5. CASE EnterRunning(s)
  BY <1>5, ChangeStatusInv DEF EnterRunning, RunStatuses
<1>6. CASE Enqueue(s)
  <2>1. RowsType'
    <3>1. local[s].thread \in Supervisors \cup {NoThread}
      BY DEF TypeOK, LocalRecords
    <3>. QED BY <1>6, <3>1, RowsAreTyped, EntryUpdate DEF Enqueue, RowsType
  <2>2. local' \in [Procs -> LocalRecords]
    BY <1>6 DEF Enqueue, NextAttempt, TypeOK, LocalRecords
  <2>3. PICK l \in {"await", "error", "sent"} : pc' = [pc EXCEPT ![s] = l]
    BY <1>6 DEF Enqueue
  <2>. QED BY <1>6, <2>1, <2>2, <2>3, MoveInv DEF Enqueue
<1>7. CASE TurnStarted(s)
  <2>1. RowsType'
    BY <1>7, RowsAreTyped, EntryUpdate DEF TurnStarted, RowsType
  <2>. QED BY <1>7, <2>1, GotoInv DEF TurnStarted
<1>8. CASE TurnStartFails(s)
  <2>1. RowsType'
    <3>1. turn' \in [Attempts -> TurnRecords]
      <4>. DEFINE n == local[s].attempt
      <4>1. turn \in [Attempts -> TurnRecords]
        BY RowsAreTyped DEF RowsType
      <4>2. [turn EXCEPT ![n].state = "active", ![n].accepted = @ + 1] \in [Attempts -> TurnRecords]
        BY <4>1, TurnUpdate
      <4>. QED BY <1>8, <4>1, <4>2 DEF TurnStartFails
    <3>. QED BY <1>8, <3>1, RowsAreTyped DEF TurnStartFails, RowsType
  <2>. QED BY <1>8, <2>1, GotoInv DEF TurnStartFails
<1>9. CASE AfterSend(s)
  <2>1. CASE local[s].attempt = 1
    BY <1>9, <2>1, GotoInv, RowsAreTyped DEF AfterSend, RowsType
  <2>2. CASE local[s].attempt # 1
    BY <1>9, <2>2, ChangeStatusInv DEF AfterSend, RunStatuses
  <2>. QED BY <2>1, <2>2
<1>10. CASE TimeBudget(s)
  BY <1>10, FindOutcomeInv, SupervisorOutcomeType, SupervisorEvidence DEF TimeBudget
<1>11. CASE Deliver(s)
  BY <1>11, GotoInv, RowsAreTyped DEF Deliver, RowsType
<1>12. CASE SyncPending(s)
  <2>1. CASE \E to \in {"needs_user", "running"} : ChangeStatus(s, to, "poll")
    BY <1>12, <2>1, ChangeStatusInv DEF SyncPending, RunStatuses
  <2>2. CASE upd' = upd /\ Goto(s, "poll")
    BY <1>12, <2>2, GotoInv, RowsAreTyped DEF SyncPending, RowsType
  <2>. QED BY <1>12, <2>1, <2>2 DEF SyncPending
<1>13. CASE PollTerminal(s)
  BY <1>13, GotoInv, RowsAreTyped DEF PollTerminal, RowsType
<1>14. CASE Pump(s)
  <2>1. turn' \in [Attempts -> TurnRecords]
    <3>1. \A n \in Attempts : turn[n] \in TurnRecords /\ [turn[n] EXCEPT !.outbox = "sent"] \in TurnRecords
      BY RowsAreTyped DEF RowsType, TurnRecords
    <3>2. Reconciled(local[s].thread) \in [Attempts -> TurnRecords]
      BY <3>1 DEF Reconciled
    <3>. QED BY <1>14, <3>2, RowsAreTyped DEF Pump, RowsType
  <2>. QED BY <1>14, <2>1, GotoInv, RowsAreTyped DEF Pump, RowsType
<1>15. CASE JudgeTurn(s)
  <2>1. CASE \E l \in {Idle, "loop", "send"} :
               Goto(s, l) /\ UNCHANGED <<run, approval, task, outcome, counts, codex, upd, ins, decision>>
    BY <2>1, GotoInv, RowsAreTyped DEF RowsType
  <2>2. CASE \/ FindOutcome(s, SupervisorOutcome("canceled", "interrupted"), "insert")
             \/ FindOutcome(s, SupervisorOutcome("failed", "no_candidate"), "insert")
    BY <2>2, FindOutcomeInv, SupervisorOutcomeType, SupervisorEvidence
  <2>. QED BY <1>15, <2>1, <2>2 DEF JudgeTurn
<1>16. CASE CountFailures(s)
  <2>1. local' \in [Procs -> LocalRecords]
    BY <1>16, NullTypes DEF CountFailures, TypeOK, LocalRecords
  <2>2. PICK l \in {Idle, "record"} : pc' = [pc EXCEPT ![s] = l]
    BY <1>16 DEF CountFailures
  <2>. QED BY <1>16, <2>1, <2>2, MoveInv, RowsAreTyped DEF CountFailures, RowsType
<1>17. CASE RecordFailure(s)
  BY <1>17, GotoInv, RowsAreTyped DEF RecordFailure, RowsType
<1>18. CASE GiveUp(s)
  BY <1>18, FindOutcomeInv, SupervisorOutcomeType, SupervisorEvidence DEF GiveUp
<1>19. CASE RetryLater(s)
  BY <1>19, ChangeStatusInv DEF RetryLater, RunStatuses
<1>. QED BY <1>1, <1>2, <1>3, <1>3h, <1>4, <1>5, <1>6, <1>7, <1>8, <1>9, <1>10, <1>11, <1>12, <1>13, <1>14, <1>15, <1>16, <1>17, <1>18, <1>19 DEF Supervisor

LEMMA SubmitterType ==
  ASSUME TypeInv, NEW w \in Submitters, Submitter(w)
  PROVE  TypeInv'
<1>. w \in Procs /\ TypeOK /\ w \notin Resolvers /\ w \notin Supervisors
  BY RolesAssumption DEF Procs, TypeInv
<1>. local[w].cand \in CandidateRecords
  BY DEF TypeOK, LocalRecords
<1>1. ASSUME NEW c \in Candidates, Submit(w, c) PROVE TypeInv'
  <2>1. [status |-> c.status, checks |-> c.checks, risks |-> c.risks, attempt |-> candidates + 1]
          \in CandidateRecords
    BY <1>1, InputsAssumption DEF AllCandidates, CandidateRecords, TypeOK
  <2>2. local' \in [Procs -> LocalRecords]
    <3>. DEFINE thread == IF c.status = "needs_user" THEN run.thread ELSE NoThread
                cand == [status |-> c.status, checks |-> c.checks, risks |-> c.risks,
                         attempt |-> candidates + 1]
    <3>1. thread \in Supervisors \cup {NoThread} /\ cand \in CandidateRecords
      BY <2>1 DEF TypeOK
    <3>2. local' = [local EXCEPT ![w].thread = thread, ![w].cand = cand]
      BY <1>1 DEF Submit
    <3>. HIDE DEF thread, cand
    <3>3. local[w] \in LocalRecords /\ local \in [Procs -> LocalRecords]
      BY DEF TypeOK
    <3>4. [local[w] EXCEPT !.thread = thread, !.cand = cand] \in LocalRecords
      BY <3>1, <3>3 DEF LocalRecords
    <3>5. local' = [local EXCEPT ![w] = [local[w] EXCEPT !.thread = thread, !.cand = cand]]
      BY <3>2, <3>3
    <3>. QED BY <3>3, <3>4, <3>5
  <2>. QED BY <1>1, <2>2, MoveInv, RowsAreTyped DEF Submit, RowsType
<1>2. CASE RecordCandidate(w)
  BY <1>2, GotoInv, RowsAreTyped DEF RecordCandidate, RowsType
<1>3. CASE AskUser(w)
  BY <1>3, GotoInv, RowsAreTyped DEF AskUser, RowsType
<1>4. CASE StartEvaluation(w)
  BY <1>4, ChangeStatusInv DEF StartEvaluation, RunStatuses
<1>5. CASE EvaluationFails(w)
  BY <1>5, GotoInv, RowsAreTyped DEF EvaluationFails, RowsType
<1>6. CASE Settle(w)
  <2>. DEFINE to == NextStatus(Disposition(local[w].cand))
              l == IF Disposition(local[w].cand) \in {"retry", "needs_user"} THEN Idle ELSE "commit"
  <2>1. to \in RunStatuses /\ l \in Labels \ {"insert", "lastInsert"}
    BY DEF NextStatus, RunStatuses
  <2>2. ChangeStatus(w, to, l)
    BY <1>6 DEF Settle
  <2>. HIDE DEF to, l
  <2>. QED BY <1>6, <2>1, <2>2, ChangeStatusInv DEF Settle
<1>7. CASE CommitVerdict(w)
  <2>. DEFINE c == local[w].cand
              o == [kind |-> VerdictKind(Disposition(c)), reason |-> "verdict", by |-> w, cand |-> c]
  <2>1. CASE Committable(c)
    <3>1. o \in OutcomeRecords /\ Evidenced(o)
      BY <2>1, VerdictOutcomeType
    <3>2. FindOutcome(w, o, "insert")
      BY <1>7, <2>1 DEF CommitVerdict
    <3>. HIDE DEF o
    <3>. QED BY <3>1, <3>2, FindOutcomeInv
  <2>2. CASE ~Committable(c)
    BY <1>7, <2>2, GotoInv, RowsAreTyped DEF CommitVerdict, RowsType
  <2>. QED BY <2>1, <2>2
<1>. QED BY <1>1, <1>2, <1>3, <1>4, <1>5, <1>6, <1>7 DEF Submitter

LEMMA WriteType ==
  ASSUME TypeInv, NEW p \in Procs, WriteStatus(p)
  PROVE  TypeInv'
BY DEF WriteStatus, TypeInv, TypeOK, ResolversDecide, InsertsAreEvidenced

LEMMA InsertType ==
  ASSUME TypeInv, NEW p \in Procs, InsertOutcome(p)
  PROVE  TypeInv'
<1>1. p \notin Resolvers /\ ins[p] \in OutcomeRecords
  BY DEF InsertOutcome, TypeInv, ResolversDecide, InsertsAreEvidenced
<1>2. TerminalStatus(ins[p].kind) \in RunStatuses \cap TaskStatuses
  BY <1>1, TerminalStatusType DEF OutcomeRecords
<1>3. PICK l \in {Idle, "error"} : Goto(p, l)
  BY <1>1 DEF InsertOutcome, OnError
<1>4. TypeOK'
  <2>1. pc' \in [Procs -> Labels] /\ local' \in [Procs -> LocalRecords]
    BY <1>3, GotoType DEF TypeInv
  <2>2. run' \in [status : RunStatuses, approval : ApprovalStatuses, thread : Supervisors \cup {NoThread}]
        /\ task' \in TaskStatuses /\ outcome' \in OutcomeRecords \cup {NoOutcome}
    BY <1>1, <1>2 DEF InsertOutcome, TypeInv, TypeOK
  <2>3. ins' \in [Procs -> OutcomeRecords \cup {NoOutcome}]
    BY DEF InsertOutcome, TypeInv, TypeOK
  <2>. QED BY <2>1, <2>2, <2>3 DEF InsertOutcome, TypeInv, TypeOK
<1>5. ResolversDecide'
  BY <1>1, <1>3, FrameDecide DEF InsertOutcome, Goto
<1>6. InsertsAreEvidenced'
  BY <1>3 DEF InsertOutcome, TypeInv, TypeOK, InsertsAreEvidenced, Goto
<1>. QED BY <1>4, <1>5, <1>6 DEF TypeInv

LEMMA CrashType ==
  ASSUME TypeInv, NEW p \in Procs, Crash(p)
  PROVE  TypeInv'
<1>1. PICK l \in {Idle, "gone"} : Goto(p, l) /\ (p \in Resolvers /\ l = "gone" => pc[p] # Idle)
  BY DEF Crash
<1>2. TypeOK'
  BY <1>1, GotoType DEF Crash, TypeInv, TypeOK
<1>3. ResolversDecide'
  BY <1>1 DEF Crash, TypeInv, TypeOK, ResolversDecide, Goto
<1>4. InsertsAreEvidenced'
  BY <1>1 DEF Crash, TypeInv, TypeOK, InsertsAreEvidenced, Goto
<1>. QED BY <1>2, <1>3, <1>4 DEF TypeInv

LEMMA WorldType ==
  ASSUME TypeInv, UserAnswers \/ \E n \in Attempts : TurnEnds(n)
  PROVE  TypeInv'
<1>1. CASE UserAnswers
  BY <1>1 DEF UserAnswers, TypeInv, TypeOK, ResolversDecide, InsertsAreEvidenced
<1>2. ASSUME NEW n \in Attempts, TurnEnds(n) PROVE TypeInv'
  <2>1. turn' \in [Attempts -> TurnRecords]
    <3>1. turn \in [Attempts -> TurnRecords]
      BY DEF TypeInv, TypeOK
    <3>2. PICK state \in {"completed", "interrupted"} : turn' = [turn EXCEPT ![n].state = state]
      BY <1>2 DEF TurnEnds
    <3>. QED BY <3>1, <3>2, TurnUpdate
  <2>. QED BY <1>2, <2>1 DEF TurnEnds, TypeInv, TypeOK, ResolversDecide, InsertsAreEvidenced
<1>. QED BY <1>1, <1>2

LEMMA StutterType ==
  ASSUME TypeInv, UNCHANGED vars
  PROVE  TypeInv'
BY DEF TypeInv, TypeOK, ResolversDecide, InsertsAreEvidenced

LEMMA StepType == TypeInv /\ [Next]_vars => TypeInv'
<1>. SUFFICES ASSUME TypeInv, [Next]_vars PROVE TypeInv'
  OBVIOUS
<1>1. ASSUME NEW p \in Procs, Process(p) \/ Crash(p) PROVE TypeInv'
  BY <1>1, ResolverType, SupervisorType, SubmitterType, WriteType, InsertType, CrashType
     DEF Process
<1>2. ASSUME NEW s \in Supervisors, Launch(s) PROVE TypeInv'
  BY <1>2, LaunchType
<1>. QED BY <1>1, <1>2, WorldType, StutterType DEF Next

\* The types hold in every reachable state, whoever takes part and whatever
\* fails: a status, an approval state and an outcome kind are never confused
\* (src/dispatch/model.rs), and what reaches the outcome transaction went
\* through the evaluator or is a supervisor's.
THEOREM TypeCorrect == Spec => [](TypeOK /\ InsertsAreEvidenced)
<1>1. TypeInv => TypeOK /\ InsertsAreEvidenced
  BY DEF TypeInv
<1>. QED BY <1>1, InitType, StepType, PTL DEF Spec
-----------------------------------------------------------------------------
(* What a step changes: only the process that takes it moves, the outcome    *)
(* is only written by the transaction, and the status of the run only by the *)
(* claim, by an UPDATE and by the transaction.                               *)

\* The statuses that processes write outside the transaction and the claim.
StatusesWritten == {"approved", "canceled", "running", "needs_user", "evaluating"}

LEMMA GotoMoves ==
  ASSUME TypeInv, NEW p \in Procs, NEW l, Goto(p, l)
  PROVE  pc' = [pc EXCEPT ![p] = l] /\ \A q \in Procs \ {p} : local'[q] = local[q]
BY DEF Goto, TypeInv, TypeOK

MovesOnly(p) ==
  \A q \in Procs \ {p} : pc'[q] = pc[q] /\ upd'[q] = upd[q] /\ local'[q] = local[q]

LEMMA ChangeStatusMoves ==
  ASSUME TypeInv, NEW p \in Procs, NEW to, NEW l, ChangeStatus(p, to, l)
  PROVE  MovesOnly(p) /\ upd'[p] \in {upd[p], to}
BY DEF ChangeStatus, Goto, TypeInv, TypeOK, MovesOnly

LEMMA FindOutcomeMoves ==
  ASSUME TypeInv, NEW p \in Procs, NEW o, NEW l, FindOutcome(p, o, l)
  PROVE  MovesOnly(p) /\ upd' = upd /\ UNCHANGED <<run, outcome, turn, decision>>
BY DEF FindOutcome, Goto, TypeInv, TypeOK, MovesOnly

\* What every step of p but the transaction and the status write does.
QuietStep(p) ==
  /\ MovesOnly(p)
  /\ outcome' = outcome
  /\ upd'[p] = upd[p] \/ upd'[p] \in StatusesWritten \cup {NoUpdate}
  /\ run'.status = run.status \/ (run.status = "approved" /\ run'.status = "starting")

LEMMA ResolverQuiet ==
  ASSUME TypeInv, NEW r \in Resolvers, Resolver(r)
  PROVE  QuietStep(r)
<1>. r \in Procs
  BY DEF Procs
<1>1. ASSUME NEW d \in {"approved", "rejected"}, StartResolve(r, d) PROVE QuietStep(r)
  BY <1>1 DEF StartResolve, Goto, TypeInv, TypeOK, QuietStep, MovesOnly
<1>2. CASE ResolveRequest(r)
  BY <1>2 DEF ResolveRequest, Goto, TypeInv, TypeOK, QuietStep, MovesOnly
<1>3. CASE SetApprovalState(r)
  BY <1>3 DEF SetApprovalState, Goto, TypeInv, TypeOK, QuietStep, MovesOnly
<1>4. CASE DecideRun(r)
  BY <1>4, ChangeStatusMoves DEF DecideRun, QuietStep, StatusesWritten
<1>5. CASE MarkDispatched(r)
  BY <1>5 DEF MarkDispatched, Goto, TypeInv, TypeOK, QuietStep, MovesOnly
<1>. QED BY <1>1, <1>2, <1>3, <1>4, <1>5 DEF Resolver

LEMMA SupervisorQuiet ==
  ASSUME TypeInv, NEW s \in Supervisors, Supervisor(s) \/ Launch(s)
  PROVE  QuietStep(s)
<1>. s \in Procs
  BY DEF Procs
<1>1. CASE Launch(s)
  BY <1>1 DEF Launch, Goto, TypeInv, TypeOK, QuietStep, MovesOnly
<1>2. CASE Claim(s)
  BY <1>2 DEF Claim, Goto, TypeInv, TypeOK, QuietStep, MovesOnly
<1>3. CASE Prepare(s)
  BY <1>3 DEF Prepare, Goto, TypeInv, TypeOK, QuietStep, MovesOnly
<1>4. CASE PrepareFails(s)
  BY <1>4 DEF PrepareFails, Goto, TypeInv, TypeOK, QuietStep, MovesOnly
<1>4h. CASE HandshakeHangs(s)
  BY <1>4h DEF HandshakeHangs, Goto, TypeInv, TypeOK, QuietStep, MovesOnly
<1>5. CASE MarkInProgress(s)
  BY <1>5 DEF MarkInProgress, Goto, TypeInv, TypeOK, QuietStep, MovesOnly
<1>6. CASE EnterRunning(s)
  BY <1>6, ChangeStatusMoves DEF EnterRunning, QuietStep, StatusesWritten
<1>7. CASE Enqueue(s)
  BY <1>7 DEF Enqueue, Goto, TypeInv, TypeOK, QuietStep, MovesOnly
<1>8. CASE TurnStarted(s)
  BY <1>8 DEF TurnStarted, Goto, TypeInv, TypeOK, QuietStep, MovesOnly
<1>9. CASE TurnStartFails(s)
  BY <1>9 DEF TurnStartFails, Goto, TypeInv, TypeOK, QuietStep, MovesOnly
<1>10. CASE AfterSend(s)
  BY <1>10, ChangeStatusMoves DEF AfterSend, Goto, TypeInv, TypeOK, QuietStep, MovesOnly, StatusesWritten
<1>11. CASE TimeBudget(s)
  BY <1>11, FindOutcomeMoves DEF TimeBudget, QuietStep
<1>12. CASE Deliver(s)
  BY <1>12 DEF Deliver, Goto, TypeInv, TypeOK, QuietStep, MovesOnly
<1>13. CASE SyncPending(s)
  BY <1>13, ChangeStatusMoves DEF SyncPending, Goto, TypeInv, TypeOK, QuietStep, MovesOnly, StatusesWritten
<1>14. CASE PollTerminal(s)
  BY <1>14 DEF PollTerminal, Goto, TypeInv, TypeOK, QuietStep, MovesOnly
<1>15. CASE Pump(s)
  BY <1>15 DEF Pump, Goto, TypeInv, TypeOK, QuietStep, MovesOnly
<1>16. CASE JudgeTurn(s)
  BY <1>16, FindOutcomeMoves DEF JudgeTurn, Goto, TypeInv, TypeOK, QuietStep, MovesOnly
<1>17. CASE CountFailures(s)
  BY <1>17 DEF CountFailures, Goto, TypeInv, TypeOK, QuietStep, MovesOnly
<1>18. CASE RecordFailure(s)
  BY <1>18 DEF RecordFailure, Goto, TypeInv, TypeOK, QuietStep, MovesOnly
<1>19. CASE GiveUp(s)
  BY <1>19, FindOutcomeMoves DEF GiveUp, QuietStep
<1>20. CASE RetryLater(s)
  BY <1>20, ChangeStatusMoves DEF RetryLater, QuietStep, StatusesWritten
<1>. QED BY <1>1, <1>2, <1>3, <1>4, <1>4h, <1>5, <1>6, <1>7, <1>8, <1>9, <1>10, <1>11, <1>12, <1>13, <1>14, <1>15, <1>16, <1>17, <1>18, <1>19, <1>20 DEF Supervisor

LEMMA SubmitterQuiet ==
  ASSUME TypeInv, NEW w \in Submitters, Submitter(w)
  PROVE  QuietStep(w)
<1>. w \in Procs
  BY DEF Procs
<1>1. ASSUME NEW c \in Candidates, Submit(w, c) PROVE QuietStep(w)
  BY <1>1 DEF Submit, TypeInv, TypeOK, QuietStep, MovesOnly
<1>2. CASE RecordCandidate(w)
  BY <1>2 DEF RecordCandidate, Goto, TypeInv, TypeOK, QuietStep, MovesOnly
<1>3. CASE AskUser(w)
  BY <1>3 DEF AskUser, Goto, TypeInv, TypeOK, QuietStep, MovesOnly
<1>4. CASE StartEvaluation(w)
  BY <1>4, ChangeStatusMoves DEF StartEvaluation, QuietStep, StatusesWritten
<1>5. CASE EvaluationFails(w)
  BY <1>5 DEF EvaluationFails, Goto, TypeInv, TypeOK, QuietStep, MovesOnly
<1>6. CASE Settle(w)
  <2>1. NextStatus(Disposition(local[w].cand)) \in StatusesWritten
    BY DEF NextStatus, StatusesWritten
  <2>. QED BY <1>6, <2>1, ChangeStatusMoves DEF Settle, QuietStep
<1>7. CASE CommitVerdict(w)
  <2>1. CASE Committable(local[w].cand)
    BY <1>7, <2>1, FindOutcomeMoves DEF CommitVerdict, QuietStep
  <2>2. CASE ~Committable(local[w].cand)
    BY <1>7, <2>2 DEF CommitVerdict, Goto, TypeInv, TypeOK, QuietStep, MovesOnly
  <2>. QED BY <2>1, <2>2
<1>. QED BY <1>1, <1>2, <1>3, <1>4, <1>5, <1>6, <1>7 DEF Submitter

LEMMA CrashQuiet ==
  ASSUME TypeInv, NEW p \in Procs, Crash(p)
  PROVE  QuietStep(p)
BY DEF Crash, Goto, TypeInv, TypeOK, QuietStep, MovesOnly

\* Every step, in the terms above.
LEMMA StepShape ==
  ASSUME TypeInv, [Next]_vars
  PROVE  \/ \E p \in Procs : QuietStep(p) \/ WriteStatus(p) \/ InsertOutcome(p)
         \/ UNCHANGED <<run, outcome, pc, upd, ins, decision, local>>
<1>1. ASSUME NEW p \in Procs, Process(p) \/ Crash(p)
      PROVE  QuietStep(p) \/ WriteStatus(p) \/ InsertOutcome(p)
  BY <1>1, ResolverQuiet, SupervisorQuiet, SubmitterQuiet, CrashQuiet DEF Process
<1>2. ASSUME NEW s \in Supervisors, Launch(s) PROVE s \in Procs /\ QuietStep(s)
  BY <1>2, SupervisorQuiet DEF Procs
<1>3. CASE UserAnswers \/ \E n \in Attempts : TurnEnds(n)
  BY <1>3 DEF UserAnswers, TurnEnds
<1>. QED BY <1>1, <1>2, <1>3 DEF Next
-----------------------------------------------------------------------------
(* Outcomes.                                                                 *)

OutcomeInv == TypeInv /\ UpdatesNeverConclude /\ TerminalHasOutcome /\ OutcomeIsEvidenced

LEMMA InitOutcome == Init => OutcomeInv
<1>. SUFFICES ASSUME Init PROVE OutcomeInv
  OBVIOUS
<1>1. UpdatesNeverConclude /\ TerminalHasOutcome
  BY DEF Init, UpdatesNeverConclude, TerminalHasOutcome
<1>2. OutcomeIsEvidenced
  BY DEF Init, OutcomeIsEvidenced, Evidenced, NoOutcome
<1>. QED BY <1>1, <1>2, InitType DEF OutcomeInv

\* A recorded outcome is never replaced; a new one is what was about to be inserted.
LEMMA OutcomeIsFinal ==
  ASSUME TypeInv, [Next]_vars
  PROVE  \/ outcome' = outcome
         \/ \E p \in Procs : /\ InsertOutcome(p) /\ outcome = NoOutcome
                             /\ outcome' = ins[p] /\ ins[p] \in OutcomeRecords /\ Evidenced(ins[p])
                             /\ run'.status = TerminalStatus(ins[p].kind)
<1>1. CASE \E p \in Procs : QuietStep(p)
  BY <1>1 DEF QuietStep
<1>2. CASE \E p \in Procs : WriteStatus(p)
  BY <1>2 DEF WriteStatus
<1>3. ASSUME NEW p \in Procs, InsertOutcome(p), outcome' # outcome
      PROVE  /\ outcome = NoOutcome /\ outcome' = ins[p]
             /\ ins[p] \in OutcomeRecords /\ Evidenced(ins[p])
             /\ run'.status = TerminalStatus(ins[p].kind)
  BY <1>3 DEF InsertOutcome, TypeInv, TypeOK, InsertsAreEvidenced
<1>. QED BY <1>1, <1>2, <1>3, StepShape

LEMMA StepOutcome == OutcomeInv /\ [Next]_vars => OutcomeInv'
<1>. SUFFICES ASSUME OutcomeInv, [Next]_vars PROVE OutcomeInv'
  OBVIOUS
<1>. TypeInv /\ TypeOK /\ TypeInv'
  BY StepType DEF OutcomeInv, TypeInv
<1>1. UpdatesNeverConclude'
  <2>1. ASSUME NEW p \in Procs, QuietStep(p) PROVE UpdatesNeverConclude'
    BY <2>1 DEF QuietStep, MovesOnly, StatusesWritten, OutcomeInv, UpdatesNeverConclude
  <2>2. ASSUME NEW p \in Procs, WriteStatus(p) PROVE UpdatesNeverConclude'
    BY <2>2 DEF WriteStatus, TypeOK, OutcomeInv, UpdatesNeverConclude
  <2>3. ASSUME NEW p \in Procs, InsertOutcome(p) PROVE UpdatesNeverConclude'
    BY <2>3 DEF InsertOutcome, OutcomeInv, UpdatesNeverConclude
  <2>. QED BY <2>1, <2>2, <2>3, StepShape DEF OutcomeInv, UpdatesNeverConclude
<1>2. TerminalHasOutcome'
  <2>1. CASE outcome' # outcome
    <3>1. PICK p \in Procs : outcome' = ins[p] /\ ins[p] \in OutcomeRecords
                              /\ run'.status = TerminalStatus(ins[p].kind)
      BY <2>1, OutcomeIsFinal
    <3>. QED BY <3>1, NullTypes DEF TerminalHasOutcome
  <2>2. CASE outcome' = outcome
    <3>1. ASSUME NEW p \in Procs, QuietStep(p) PROVE TerminalHasOutcome'
      BY <2>2, <3>1 DEF QuietStep, OutcomeInv, TerminalHasOutcome
    <3>2. ASSUME NEW p \in Procs, WriteStatus(p) PROVE TerminalHasOutcome'
      BY <2>2, <3>2 DEF WriteStatus, TypeOK, OutcomeInv, TerminalHasOutcome, UpdatesNeverConclude
    <3>3. ASSUME NEW p \in Procs, InsertOutcome(p) PROVE TerminalHasOutcome'
      <4>1. CASE outcome = NoOutcome
        BY <2>2, <3>3, <4>1, NullTypes DEF InsertOutcome, TypeInv, InsertsAreEvidenced
      <4>2. CASE outcome # NoOutcome
        BY <2>2, <3>3, <4>2 DEF InsertOutcome, OutcomeInv, TerminalHasOutcome
      <4>. QED BY <4>1, <4>2
    <3>. QED BY <2>2, <3>1, <3>2, <3>3, StepShape DEF OutcomeInv, TerminalHasOutcome
  <2>. QED BY <2>1, <2>2
<1>3. OutcomeIsEvidenced'
  BY OutcomeIsFinal DEF OutcomeInv, OutcomeIsEvidenced
<1>. QED BY <1>1, <1>2, <1>3 DEF OutcomeInv

\* A run that reads succeeded, partial or failed has an outcome that says so:
\* no late UPDATE of update_dispatch_run_status ever fakes a conclusion.
THEOREM ConclusionsHaveOutcomes == Spec => []TerminalHasOutcome
<1>1. OutcomeInv => TerminalHasOutcome
  BY DEF OutcomeInv
<1>. QED BY <1>1, InitOutcome, StepOutcome, PTL DEF Spec

\* Every recorded success or partial success rests on a candidate that claimed
\* it and passed the checks of evaluate_candidate, whoever recorded it.
THEOREM SuccessIsEvidenced == Spec => []OutcomeIsEvidenced
<1>1. OutcomeInv => OutcomeIsEvidenced
  BY DEF OutcomeInv
<1>. QED BY <1>1, InitOutcome, StepOutcome, PTL DEF Spec
-----------------------------------------------------------------------------
(* The grant.                                                                *)

GrantInv == TypeInv /\ GrantPrecedesWork

LEMMA InitGrant == Init => GrantInv
<1>. SUFFICES ASSUME Init PROVE GrantPrecedesWork
  BY InitType DEF GrantInv
<1>. QED BY DEF Init, GrantPrecedesWork, Procs

\* A grant is for good: no step of any process takes it back.
LEMMA GrantStays ==
  ASSUME TypeInv, [Next]_vars, Granted
  PROVE  Granted'
<1>1. PICK r \in Resolvers : decision[r] = "approved" /\ pc[r] \in {"decide", "dispatch", "gone"}
  BY DEF Granted
<1>. r \in Procs /\ r \notin Supervisors /\ r \notin Submitters
  BY RolesAssumption DEF Procs
<1>2. ASSUME NEW p \in Procs, Process(p) \/ Crash(p)
      PROVE  decision'[r] = decision[r] /\ pc'[r] \in {"decide", "dispatch", "gone"}
  <2>1. CASE p = r
    <3>1. CASE Resolver(r)
      BY <1>1, <3>1 DEF Resolver, StartResolve, ResolveRequest, SetApprovalState, DecideRun, MarkDispatched,
                        ChangeStatus, Goto, OnError, TypeInv, TypeOK
    <3>2. CASE WriteStatus(r)
      BY <1>1, <3>2 DEF WriteStatus
    <3>3. CASE Crash(r)
      BY <1>1, <3>3 DEF Crash, Goto, TypeInv, TypeOK
    <3>4. ~InsertOutcome(r)
      BY <1>1 DEF InsertOutcome
    <3>. QED BY <1>2, <2>1, <3>1, <3>2, <3>3, <3>4 DEF Process
  <2>2. CASE p # r
    <3>1. pc'[r] = pc[r]
      <4>1. QuietStep(p) \/ WriteStatus(p) \/ InsertOutcome(p)
        BY <1>2, ResolverQuiet, SupervisorQuiet, SubmitterQuiet, CrashQuiet DEF Process
      <4>2. CASE QuietStep(p)
        BY <2>2, <4>2 DEF QuietStep, MovesOnly
      <4>3. CASE WriteStatus(p)
        BY <4>3 DEF WriteStatus
      <4>4. CASE InsertOutcome(p)
        BY <2>2, <4>4 DEF InsertOutcome, Goto, TypeInv, TypeOK
      <4>. QED BY <4>1, <4>2, <4>3, <4>4
    <3>2. decision'[r] = decision[r]
      <4>1. CASE p \in Resolvers /\ Resolver(p)
        BY <2>2, <4>1 DEF Resolver, StartResolve, ResolveRequest, SetApprovalState, DecideRun,
                          MarkDispatched, TypeInv, TypeOK
      <4>2. CASE p \in Supervisors /\ Supervisor(p)
        BY <4>2 DEF Supervisor, Claim, Prepare, PrepareFails, HandshakeHangs, MarkInProgress, EnterRunning,
                    Enqueue, TurnStarted, TurnStartFails, AfterSend, TimeBudget, Deliver, SyncPending,
                    PollTerminal, Pump, JudgeTurn, CountFailures, RecordFailure, GiveUp, RetryLater,
                    FindOutcome
      <4>3. CASE p \in Submitters /\ Submitter(p)
        BY <4>3 DEF Submitter, Submit, RecordCandidate, AskUser, StartEvaluation, EvaluationFails,
                    Settle, CommitVerdict, FindOutcome
      <4>4. CASE WriteStatus(p) \/ InsertOutcome(p) \/ Crash(p)
        BY <4>4 DEF WriteStatus, InsertOutcome, Crash
      <4>. QED BY <1>2, <4>1, <4>2, <4>3, <4>4 DEF Process
    <3>. QED BY <1>1, <3>1, <3>2
  <2>. QED BY <2>1, <2>2
<1>3. ASSUME NEW s \in Supervisors, Launch(s)
      PROVE  decision'[r] = decision[r] /\ pc'[r] = pc[r]
  BY <1>3 DEF Launch, Goto, TypeInv, TypeOK
<1>4. CASE UserAnswers \/ (\E n \in Attempts : TurnEnds(n)) \/ UNCHANGED vars
  BY <1>1, <1>4 DEF UserAnswers, TurnEnds, Granted
<1>. QED BY <1>1, <1>2, <1>3, <1>4 DEF Next, Granted

LEMMA StepGrant == GrantInv /\ [Next]_vars => GrantInv'
<1>. SUFFICES ASSUME GrantInv, [Next]_vars, ~Granted'
              PROVE  GrantPrecedesWork'
  BY StepType DEF GrantInv, GrantPrecedesWork
<1>. TypeInv /\ TypeOK /\ ~Granted
  BY GrantStays DEF GrantInv, TypeInv
<1>1. /\ run.status \in {"proposed", "canceled"}
      /\ outcome = NoOutcome
      /\ \A s \in Supervisors : pc[s] = Idle
      /\ \A w \in Submitters : pc[w] \in {Idle, "record", "ask", "evaluate"}
      /\ \A p \in Procs : upd[p] \in {NoUpdate, "canceled"}
  BY DEF GrantInv, GrantPrecedesWork
<1>. DEFINE Before == /\ run'.status \in {"proposed", "canceled"}
                      /\ outcome' = NoOutcome
                      /\ \A s \in Supervisors : pc'[s] = Idle
                      /\ \A w \in Submitters : pc'[w] \in {Idle, "record", "ask", "evaluate"}
                      /\ \A p \in Procs : upd'[p] \in {NoUpdate, "canceled"}
<1>2. ASSUME NEW r \in Resolvers, Resolver(r) PROVE Before
  <2>. r \in Procs /\ r \notin Supervisors /\ r \notin Submitters
    BY RolesAssumption DEF Procs
  <2>. QuietStep(r)
    BY <1>2, ResolverQuiet
  <2>1. upd'[r] \in {NoUpdate, "canceled"}
    <3>1. CASE DecideRun(r)
      <4>1. decision[r] = "rejected"
        BY <3>1 DEF DecideRun, TypeInv, ResolversDecide, Granted
      <4>. QED BY <1>1, <3>1, <4>1, ChangeStatusMoves DEF DecideRun
    <3>2. CASE ~DecideRun(r)
      BY <1>1, <1>2, <3>2 DEF Resolver, StartResolve, ResolveRequest, SetApprovalState, MarkDispatched
    <3>. QED BY <3>1, <3>2
  <2>2. \A q \in Supervisors \cup Submitters : q \in Procs \ {r}
    BY DEF Procs
  <2>. QED BY <1>1, <2>1, <2>2 DEF QuietStep, MovesOnly
<1>3. ASSUME NEW s \in Supervisors PROVE ~Supervisor(s) /\ ~Launch(s)
  BY <1>1 DEF Supervisor, Launch, Claim, Prepare, PrepareFails, HandshakeHangs, MarkInProgress, EnterRunning,
              Enqueue, TurnStarted, TurnStartFails, AfterSend, TimeBudget, Deliver, SyncPending,
              PollTerminal, Pump, JudgeTurn, CountFailures, RecordFailure, GiveUp, RetryLater
<1>4. ASSUME NEW w \in Submitters, Submitter(w) PROVE Before
  <2>. w \in Procs /\ w \notin Supervisors /\ QuietStep(w)
    BY <1>4, SubmitterQuiet, RolesAssumption DEF Procs
  <2>1. \/ \E c \in Candidates : Submit(w, c)
        \/ RecordCandidate(w) \/ AskUser(w) \/ StartEvaluation(w)
    BY <1>1, <1>4 DEF Submitter, EvaluationFails, Settle, CommitVerdict
  <2>2. pc'[w] \in {Idle, "record", "ask", "evaluate"} /\ upd'[w] = upd[w]
    <3>1. CASE StartEvaluation(w)
      <4>1. ~ValidRunTransition(run.status, "evaluating")
        BY <1>1 DEF ValidRunTransition, RunEdge
      <4>2. OnError(w) = Idle
        BY RolesAssumption DEF OnError
      <4>. QED BY <3>1, <4>1, <4>2 DEF StartEvaluation, ChangeStatus, Goto, TypeOK
    <3>2. CASE ~StartEvaluation(w)
      BY <2>1, <3>2 DEF Submit, RecordCandidate, AskUser, Goto, TypeOK
    <3>. QED BY <3>1, <3>2
  <2>3. \A q \in Supervisors : q \in Procs \ {w}
    BY DEF Procs
  <2>4. \A q \in Submitters : q \in Procs
    BY DEF Procs
  <2>. QED BY <1>1, <2>2, <2>3, <2>4 DEF QuietStep, MovesOnly
<1>5. ASSUME NEW p \in Procs, WriteStatus(p) PROVE Before
  BY <1>1, <1>5 DEF WriteStatus, TypeOK
<1>6. ASSUME NEW p \in Procs PROVE ~InsertOutcome(p)
  BY <1>1 DEF InsertOutcome, TypeInv, ResolversDecide, Procs
<1>7. ASSUME NEW p \in Procs, Crash(p) PROVE Before
  <2>1. \A q \in Supervisors \cup Submitters : q \in Procs
    BY DEF Procs
  <2>2. p \in Supervisors \cup Submitters => pc'[p] = Idle
    BY <1>1, <1>7 DEF Crash, Goto, TypeOK
  <2>. QED BY <1>1, <1>7, <2>1, <2>2 DEF Crash, Goto, TypeOK
<1>8. ASSUME UserAnswers \/ (\E n \in Attempts : TurnEnds(n)) \/ UNCHANGED vars PROVE Before
  BY <1>1, <1>8 DEF UserAnswers, TurnEnds
<1>9. Before
  <2>. HIDE DEF Before
  <2>1. ASSUME NEW p \in Procs, Process(p) \/ Crash(p) PROVE Before
    BY <1>2, <1>3, <1>4, <1>5, <1>6, <1>7, <2>1 DEF Process
  <2>. QED BY <1>3, <1>8, <2>1 DEF Next
<1>. QED BY <1>9 DEF GrantPrecedesWork

\* Nothing executes and nothing is concluded before somebody approved the
\* dispatch, for any number of approvals, rejections, launches and failures.
THEOREM ApprovalIsRequired == Spec => []ApprovalGatesExecution
<1>1. GrantInv => ApprovalGatesExecution
  BY DEF GrantInv, GrantPrecedesWork, ApprovalGatesExecution
<1>. QED BY <1>1, InitGrant, StepGrant, PTL DEF Spec
-----------------------------------------------------------------------------
(* The refinement: initial states map to initial states and every step maps *)
(* to a Grant, a Close or a stutter of RunContract.                          *)

LEMMA InitContract == Init => Contract!Init
BY DEF Init, Contract!Init, Granted, Procs

LEMMA StepContract ==
  GrantInv /\ [Next]_vars => [Contract!Next]_Contract!contractVars
<1>. SUFFICES ASSUME GrantInv, [Next]_vars PROVE [Contract!Next]_Contract!contractVars
  OBVIOUS
<1>. TypeInv
  BY DEF GrantInv
<1>1. Granted \in BOOLEAN /\ Granted' \in BOOLEAN
  BY DEF Granted
<1>2. CASE outcome' = outcome
  <2>1. Granted => Granted'
    BY GrantStays
  <2>. QED BY <1>1, <1>2, <2>1 DEF Contract!Next, Contract!Grant, Contract!contractVars
<1>3. CASE outcome' # outcome
  <2>1. PICK p \in Procs : InsertOutcome(p) /\ outcome = NoOutcome
                            /\ outcome' = ins[p] /\ ins[p] \in OutcomeRecords
    BY <1>3, OutcomeIsFinal
  <2>2. Granted
    BY <2>1 DEF GrantInv, GrantPrecedesWork, InsertOutcome, TypeInv, ResolversDecide, Procs
  <2>3. Granted'
    BY <2>2, GrantStays
  <2>. QED BY <1>1, <2>1, <2>2, <2>3 DEF Contract!Next, Contract!Close
<1>. QED BY <1>2, <1>3

\* A dispatch run implements RunContract: at most one outcome is ever recorded,
\* for good, and only after a grant.
THEOREM RunImplementsContract == Spec => RefinesContract
<1>. QED BY InitGrant, StepGrant, InitContract, StepContract, PTL
         DEF Spec, RefinesContract, Contract!Spec
-----------------------------------------------------------------------------
(* Turns.  The outbox entry is the lock: who inserted it may ask, nobody    *)
(* else, and a failed or interrupted request leaves it in place.            *)

TurnInv == TypeInv /\ SenderOwnsEntry /\ NoTurnWithoutEntry /\ OneTurnPerAttempt

LEMMA InitTurn == Init => TurnInv
<1>. SUFFICES ASSUME Init PROVE SenderOwnsEntry /\ NoTurnWithoutEntry /\ OneTurnPerAttempt
  BY InitType DEF TurnInv
<1>. QED BY DEF Init, SenderOwnsEntry, NoTurnWithoutEntry, OneTurnPerAttempt, NoTurn, Procs

\* Nobody starts to wait for a turn, and no entry changes but those that a
\* reconnect finds accepted.
CalmTurns ==
  \A n \in Attempts :
    \/ turn'[n] = turn[n]
    \/ turn[n].accepted # 0 /\ turn'[n].accepted = turn[n].accepted /\ turn'[n].outbox = "sent"

CalmStep ==
  /\ CalmTurns
  /\ \A s \in Supervisors : pc'[s] = "await" => pc[s] = "await" /\ local'[s].attempt = local[s].attempt

LEMMA CalmKeeps == ASSUME TurnInv, CalmStep, TypeInv' PROVE TurnInv'
BY DEF TurnInv, CalmStep, CalmTurns, SenderOwnsEntry, NoTurnWithoutEntry, OneTurnPerAttempt

LEMMA ResolverCalm ==
  ASSUME TypeInv, NEW r \in Resolvers, Resolver(r)
  PROVE  CalmStep
<1>1. \A s \in Supervisors : s \in Procs \ {r}
  BY RolesAssumption DEF Procs
<1>2. turn' = turn
  BY DEF Resolver, StartResolve, ResolveRequest, SetApprovalState, DecideRun, MarkDispatched
<1>3. r \in Procs
  BY DEF Procs
<1>. QED BY <1>1, <1>2, <1>3, ResolverQuiet DEF QuietStep, MovesOnly, CalmStep, CalmTurns

LEMMA SubmitterCalm ==
  ASSUME TypeInv, NEW w \in Submitters, Submitter(w)
  PROVE  CalmStep
<1>1. \A s \in Supervisors : s \in Procs \ {w}
  BY RolesAssumption DEF Procs
<1>2. turn' = turn
  BY DEF Submitter, Submit, RecordCandidate, AskUser, StartEvaluation, EvaluationFails, Settle,
         CommitVerdict, FindOutcome
<1>. QED BY <1>1, <1>2, SubmitterQuiet DEF QuietStep, MovesOnly, CalmStep, CalmTurns

\* A step of a supervisor that neither enqueues nor asks.
LEMMA SupervisorCalm ==
  ASSUME TypeInv, NEW s \in Supervisors, Supervisor(s) \/ Launch(s),
         ~Enqueue(s), ~TurnStarted(s), ~TurnStartFails(s)
  PROVE  CalmStep
<1>. s \in Procs /\ s \notin Resolvers /\ QuietStep(s)
  BY SupervisorQuiet, RolesAssumption DEF Procs
<1>. SUFFICES CalmTurns /\ pc'[s] # "await"
  BY DEF QuietStep, MovesOnly, CalmStep, Procs
<1>1. CASE Launch(s)
  BY <1>1 DEF Launch, CalmTurns, Goto, TypeInv, TypeOK
<1>2. CASE Claim(s)
  BY <1>2 DEF Claim, CalmTurns, Goto, TypeInv, TypeOK
<1>3. CASE Prepare(s)
  BY <1>3 DEF Prepare, CalmTurns, Goto, TypeInv, TypeOK
<1>4. CASE PrepareFails(s)
  BY <1>4 DEF PrepareFails, CalmTurns, Goto, TypeInv, TypeOK
<1>4h. CASE HandshakeHangs(s)
  BY <1>4h DEF HandshakeHangs, CalmTurns, Goto, TypeInv, TypeOK
<1>5. CASE MarkInProgress(s)
  BY <1>5 DEF MarkInProgress, CalmTurns, Goto, TypeInv, TypeOK
<1>6. CASE EnterRunning(s)
  BY <1>6 DEF EnterRunning, CalmTurns, Goto, TypeInv, TypeOK, ChangeStatus, OnError
<1>7. CASE AfterSend(s)
  BY <1>7 DEF AfterSend, CalmTurns, Goto, TypeInv, TypeOK, ChangeStatus, OnError
<1>8. CASE TimeBudget(s)
  BY <1>8 DEF TimeBudget, CalmTurns, Goto, TypeInv, TypeOK, FindOutcome, OnError
<1>9. CASE Deliver(s)
  BY <1>9 DEF Deliver, CalmTurns, Goto, TypeInv, TypeOK
<1>10. CASE SyncPending(s)
  BY <1>10 DEF SyncPending, CalmTurns, Goto, TypeInv, TypeOK, ChangeStatus, OnError
<1>11. CASE PollTerminal(s)
  BY <1>11 DEF PollTerminal, CalmTurns, Goto, TypeInv, TypeOK
<1>12. CASE Pump(s)
  <2>1. \A n \in Attempts : turn[n] \in TurnRecords
    BY DEF TypeInv, TypeOK
  <2>2. ASSUME turn' = Reconciled(local[s].thread) PROVE CalmTurns
    BY <2>1, <2>2 DEF Reconciled, CalmTurns, TurnRecords
  <2>3. ASSUME turn' = turn PROVE CalmTurns
    BY <2>3 DEF CalmTurns
  <2>4. pc'[s] # "await"
    BY <1>12 DEF Pump, Goto, TypeInv, TypeOK
  <2>. QED BY <1>12, <2>2, <2>3, <2>4 DEF Pump
<1>13. CASE JudgeTurn(s)
  BY <1>13 DEF JudgeTurn, CalmTurns, Goto, TypeInv, TypeOK, FindOutcome, OnError
<1>14. CASE CountFailures(s)
  BY <1>14 DEF CountFailures, CalmTurns, Goto, TypeInv, TypeOK
<1>15. CASE RecordFailure(s)
  BY <1>15 DEF RecordFailure, CalmTurns, Goto, TypeInv, TypeOK
<1>16. CASE GiveUp(s)
  BY <1>16 DEF GiveUp, CalmTurns, Goto, TypeInv, TypeOK, FindOutcome, OnError
<1>17. CASE RetryLater(s)
  BY <1>17 DEF RetryLater, CalmTurns, Goto, TypeInv, TypeOK, ChangeStatus, OnError
<1>. QED BY <1>1, <1>2, <1>3, <1>4, <1>4h, <1>5, <1>6, <1>7, <1>8, <1>9, <1>10, <1>11, <1>12, <1>13, <1>14, <1>15, <1>16, <1>17 DEF Supervisor

LEMMA StepTurn == TurnInv /\ [Next]_vars => TurnInv'
<1>. SUFFICES ASSUME TurnInv, [Next]_vars PROVE TurnInv'
  OBVIOUS
<1>. TypeInv /\ TypeOK /\ TypeInv'
  BY StepType DEF TurnInv, TypeInv
<1>1. ASSUME NEW s \in Supervisors, Enqueue(s) PROVE TurnInv'
  <2>. DEFINE n == NextAttempt(s)
  <2>. s \in Procs /\ QuietStep(s)
    BY <1>1, SupervisorQuiet DEF Procs, Supervisor
  <2>1. CASE turn[n].outbox = "none" /\ n \in Attempts
    <3>1. /\ turn'[n].outbox = "pending" /\ turn'[n].accepted = turn[n].accepted
          /\ \A m \in Attempts \ {n} : turn'[m] = turn[m]
      BY <1>1, <2>1 DEF Enqueue, TypeOK, TurnRecords
    <3>2. pc'[s] = "await" /\ local'[s].attempt = n
      BY <1>1, <2>1 DEF Enqueue, TypeOK, LocalRecords
    <3>3. turn[n].accepted = 0 /\ \A t \in Supervisors : pc[t] = "await" => local[t].attempt # n
      BY <2>1 DEF TurnInv, NoTurnWithoutEntry, SenderOwnsEntry
    <3>4. \A t \in Supervisors \ {s} : pc'[t] = pc[t] /\ local'[t] = local[t]
      BY DEF QuietStep, MovesOnly, Procs
    <3>. HIDE DEF n
    <3>5. SenderOwnsEntry'
      BY <2>1, <3>1, <3>2, <3>3, <3>4 DEF TurnInv, SenderOwnsEntry
    <3>6. NoTurnWithoutEntry' /\ OneTurnPerAttempt'
      BY <2>1, <3>1, <3>3 DEF TurnInv, NoTurnWithoutEntry, OneTurnPerAttempt
    <3>. QED BY <3>5, <3>6 DEF TurnInv
  <2>2. CASE n \notin Attempts
    <3>1. turn' = turn
      BY <1>1, <2>2 DEF Enqueue, TypeOK
    <3>2. local'[s].attempt = n
      BY <1>1 DEF Enqueue, TypeOK, LocalRecords
    <3>3. \A t \in Supervisors \ {s} : pc'[t] = pc[t] /\ local'[t] = local[t]
      BY DEF QuietStep, MovesOnly, Procs
    <3>. HIDE DEF n
    <3>. QED BY <2>2, <3>1, <3>2, <3>3 DEF TurnInv, SenderOwnsEntry, NoTurnWithoutEntry, OneTurnPerAttempt
  <2>3. CASE turn[n].outbox # "none"
    <3>1. turn' = turn /\ pc'[s] # "await"
      BY <1>1, <2>3 DEF Enqueue, TypeOK
    <3>2. CalmStep
      BY <3>1 DEF CalmStep, CalmTurns, QuietStep, MovesOnly, Procs
    <3>. QED BY <3>2, CalmKeeps
  <2>. QED BY <2>1, <2>2, <2>3
<1>2. ASSUME NEW s \in Supervisors, TurnStarted(s) \/ TurnStartFails(s) PROVE TurnInv'
  <2>. DEFINE n == local[s].attempt
  <2>. s \in Procs /\ QuietStep(s)
    BY <1>2, SupervisorQuiet DEF Procs, Supervisor
  <2>1. pc[s] = "await" /\ pc'[s] # "await"
    BY <1>2 DEF TurnStarted, TurnStartFails, Goto, TypeOK
  <2>2. \A t \in Supervisors \ {s} : pc'[t] = pc[t] /\ local'[t] = local[t]
    BY DEF QuietStep, MovesOnly, Procs
  <2>3. CASE n \in Attempts
    <3>1. turn[n].outbox = "pending" /\ turn[n].accepted = 0
          /\ \A t \in Supervisors \ {s} : pc[t] = "await" => local[t].attempt # n
      BY <2>1, <2>3 DEF TurnInv, SenderOwnsEntry
    <3>2. /\ turn'[n].outbox \in {"pending", "sent"} /\ turn'[n].accepted \in {0, 1}
          /\ \A m \in Attempts \ {n} : turn'[m] = turn[m]
      BY <1>2, <2>3, <3>1 DEF TurnStarted, TurnStartFails, TypeOK, TurnRecords
    <3>. HIDE DEF n
    <3>3. SenderOwnsEntry'
      BY <2>1, <2>2, <2>3, <3>1, <3>2 DEF TurnInv, SenderOwnsEntry
    <3>4. NoTurnWithoutEntry' /\ OneTurnPerAttempt'
      BY <2>3, <3>2 DEF TurnInv, NoTurnWithoutEntry, OneTurnPerAttempt
    <3>. QED BY <3>3, <3>4 DEF TurnInv
  <2>4. CASE n \notin Attempts
    <3>1. turn' = turn
      BY <1>2, <2>4 DEF TurnStarted, TurnStartFails, TypeOK
    <3>2. CalmStep
      BY <2>1, <2>2, <3>1 DEF CalmStep, CalmTurns
    <3>. QED BY <3>2, CalmKeeps
  <2>. QED BY <2>3, <2>4
<1>3. ASSUME NEW n \in Attempts, TurnEnds(n) PROVE TurnInv'
  <2>1. \A m \in Attempts : turn'[m].outbox = turn[m].outbox /\ turn'[m].accepted = turn[m].accepted
    BY <1>3 DEF TurnEnds, TypeOK, TurnRecords
  <2>2. pc' = pc /\ local' = local
    BY <1>3 DEF TurnEnds
  <2>. QED BY <2>1, <2>2 DEF TurnInv, SenderOwnsEntry, NoTurnWithoutEntry, OneTurnPerAttempt
<1>4. ASSUME NEW p \in Procs, Crash(p) \/ WriteStatus(p) \/ InsertOutcome(p) PROVE TurnInv'
  <2>1. CalmStep
    <3>1. CASE Crash(p)
      BY <3>1 DEF Crash, Goto, CalmStep, CalmTurns, TypeOK, Procs
    <3>2. CASE WriteStatus(p)
      BY <3>2 DEF WriteStatus, CalmStep, CalmTurns
    <3>3. CASE InsertOutcome(p)
      BY <3>3 DEF InsertOutcome, Goto, OnError, CalmStep, CalmTurns, TypeOK, Procs
    <3>. QED BY <1>4, <3>1, <3>2, <3>3
  <2>. QED BY <2>1, CalmKeeps
<1>5. ASSUME NEW p \in Procs, Process(p) PROVE TurnInv'
  BY <1>1, <1>2, <1>4, <1>5, ResolverCalm, SubmitterCalm, SupervisorCalm, CalmKeeps DEF Process
<1>6. ASSUME NEW s \in Supervisors, Launch(s) PROVE TurnInv'
  <2>1. ~Enqueue(s) /\ ~TurnStarted(s) /\ ~TurnStartFails(s)
    BY <1>6 DEF Launch, Enqueue, TurnStarted, TurnStartFails
  <2>. QED BY <1>6, <2>1, SupervisorCalm, CalmKeeps
<1>7. ASSUME UserAnswers \/ UNCHANGED vars PROVE TurnInv'
  BY <1>7, CalmKeeps DEF UserAnswers, CalmStep, CalmTurns
<1>. QED BY <1>3, <1>4, <1>5, <1>6, <1>7 DEF Next

\* Codex is asked at most once for the turn of an attempt, however many
\* supervisors run, fail and are killed at any point of send.
THEOREM AttemptsAreStartedOnce == Spec => []OneTurnPerAttempt
<1>1. TurnInv => OneTurnPerAttempt
  BY DEF TurnInv
<1>. QED BY <1>1, InitTurn, StepTurn, PTL DEF Spec
-----------------------------------------------------------------------------
(* The budget of a lone supervisor, with one decision of the user.  A run is  *)
(* launched again only when it reads approved, and it reads approved again    *)
(* only by the retry of a supervisor that was still starting and has failures *)
(* left: a supervisor that dies between its last failure and the outcome      *)
(* leaves a run that nobody can launch.                                       *)

Lone ==
  /\ \A q, r \in Resolvers : q = r
  /\ \A s, t \in Supervisors : s = t

Early == {"proposed", "approved", "starting"}

UpdatesAreWritten == \A p \in Procs : upd[p] \in StatusesWritten \cup {NoUpdate}

\* The status stays proposed until the resolver writes its decision, once.
DecidedOnce ==
  /\ \A r \in Resolvers :
       /\ pc[r] \in {Idle, "resolve", "grant", "decide"} => run.status = "proposed" /\ upd[r] = NoUpdate
       /\ pc[r] = "decide" => run.approval = decision[r]
       /\ upd[r] # NoUpdate => run.status = "proposed"
       /\ upd[r] = "approved" => run.approval = "approved"
  /\ run.status \in {"approved", "starting"} => run.approval = "approved"

\* No evaluation begins before the run is running.
EarlyIsQuiet ==
  \A w \in Submitters :
    /\ upd[w] # "approved"
    /\ run.status \in Early => upd[w] = NoUpdate /\ pc[w] \in {Idle, "record", "ask", "evaluate"}

AtWork == {"claim"} \cup ExecutionSteps \cup {"error", "record", "retry"}

\* Who works, and who may be launched, has a failure left.
FailuresLeft ==
  /\ failures <= MaxAttempts
  /\ run.status \in {"proposed", "approved"} => failures < MaxAttempts
  /\ \A s \in Supervisors :
       /\ run.status = "proposed" => pc[s] = Idle /\ upd[s] = NoUpdate
       /\ run.status = "approved" => pc[s] \in {Idle, "claim"} /\ upd[s] = NoUpdate
       /\ pc[s] = "claim" => run.status = "approved"
       /\ upd[s] = "approved" => run.status = "starting" /\ pc[s] = Idle /\ failures < MaxAttempts
       /\ pc[s] \in AtWork => failures < MaxAttempts
       /\ pc[s] = "record" => local[s].count = failures + 1

BudgetInv == TypeInv /\ UpdatesAreWritten /\ DecidedOnce /\ EarlyIsQuiet /\ FailuresLeft

LEMMA InitBudget == Init => BudgetInv
<1>. SUFFICES ASSUME Init PROVE BudgetInv
  OBVIOUS
<1>1. /\ \A p \in Procs : pc[p] = Idle /\ upd[p] = NoUpdate
      /\ run.status = "proposed" /\ failures = 0
  BY DEF Init
<1>2. MaxAttempts \in Nat /\ 0 < MaxAttempts
  BY BoundsAssumption
<1>3. UpdatesAreWritten /\ DecidedOnce /\ EarlyIsQuiet
  BY <1>1 DEF UpdatesAreWritten, DecidedOnce, EarlyIsQuiet, Procs
<1>4. FailuresLeft
  BY <1>1, <1>2 DEF FailuresLeft, Procs, AtWork
<1>. QED BY <1>3, <1>4, InitType DEF BudgetInv

LEMMA ResolverBudget ==
  ASSUME Lone, BudgetInv, NEW r \in Resolvers, Resolver(r)
  PROVE  DecidedOnce' /\ EarlyIsQuiet' /\ FailuresLeft'
<1>. r \in Procs /\ TypeInv /\ TypeOK
  BY DEF BudgetInv, TypeInv, Procs
<1>0. \A q \in Resolvers : q = r
  BY DEF Lone
<1>1. \A q \in Supervisors \cup Submitters : q \in Procs \ {r}
  BY RolesAssumption DEF Procs
<1>2. run'.status = run.status /\ failures' = failures /\ QuietStep(r)
  BY ResolverQuiet DEF Resolver, StartResolve, ResolveRequest, SetApprovalState, DecideRun, MarkDispatched, TypeOK
<1>3. EarlyIsQuiet' /\ FailuresLeft'
  BY <1>1, <1>2 DEF BudgetInv, EarlyIsQuiet, FailuresLeft, QuietStep, MovesOnly
<1>4. DecidedOnce'
  <2>1. ASSUME NEW d \in {"approved", "rejected"}, StartResolve(r, d) PROVE DecidedOnce'
    BY <1>0, <2>1 DEF StartResolve, Goto, BudgetInv, DecidedOnce, TypeOK
  <2>2. CASE ResolveRequest(r)
    BY <1>0, <2>2 DEF ResolveRequest, Goto, BudgetInv, DecidedOnce, TypeOK
  <2>3. CASE SetApprovalState(r)
    <3>1. run.status = "proposed" /\ upd[r] = NoUpdate
      BY <2>3 DEF SetApprovalState, BudgetInv, DecidedOnce
    <3>2. run'.approval = decision[r] /\ upd' = upd /\ decision' = decision /\ pc'[r] = "decide"
      BY <2>3 DEF SetApprovalState, Goto, TypeOK
    <3>. QED BY <1>0, <1>2, <3>1, <3>2 DEF DecidedOnce
  <2>4. CASE DecideRun(r)
    <3>1. run.status = "proposed" /\ upd[r] = NoUpdate /\ run.approval = decision[r]
      BY <2>4 DEF DecideRun, BudgetInv, DecidedOnce
    <3>2. PICK to \in {"approved", "canceled"}, l \in {"dispatch", "gone"} :
            ChangeStatus(r, to, l) /\ (to = "approved" => decision[r] = "approved")
      BY <2>4 DEF DecideRun
    <3>3. upd'[r] = to /\ pc'[r] = l /\ run' = run
      BY <2>4, <3>1, <3>2 DEF DecideRun, ChangeStatus, ValidRunTransition, RunEdge, Goto, TypeOK
    <3>. QED BY <1>0, <3>1, <3>2, <3>3 DEF DecidedOnce
  <2>5. CASE MarkDispatched(r)
    BY <1>0, <2>5 DEF MarkDispatched, Goto, BudgetInv, DecidedOnce, TypeOK
  <2>. QED BY <2>1, <2>2, <2>3, <2>4, <2>5 DEF Resolver
<1>. QED BY <1>3, <1>4

\* A step of a supervisor past its claim that records nothing and hands nothing back.
LEMMA WorkerBudget ==
  ASSUME Lone, BudgetInv, NEW s \in Supervisors, pc[s] \notin {Idle, "claim"}, upd[s] = NoUpdate,
         run'.status = run.status, failures' = failures,
         upd'[s] \in {NoUpdate, "running", "needs_user"}, pc'[s] \notin {"claim", "record"},
         pc'[s] \in AtWork => pc[s] \in AtWork
  PROVE  FailuresLeft'
<1>1. \A t \in Supervisors : t = s
  BY DEF Lone
<1>2. run.status \notin {"proposed", "approved"}
  BY DEF BudgetInv, FailuresLeft
<1>. QED BY <1>1, <1>2 DEF BudgetInv, FailuresLeft

LEMMA SupervisorFailures ==
  ASSUME Lone, BudgetInv, NEW s \in Supervisors, Supervisor(s) \/ Launch(s)
  PROVE  FailuresLeft'
<1>. s \in Procs /\ s \notin Resolvers /\ TypeInv /\ TypeOK
  BY RolesAssumption DEF BudgetInv, TypeInv, Procs
<1>. USE DEF AtWork
<1>0. (\A t \in Supervisors : t = s) /\ MaxAttempts \in Nat /\ failures \in Nat
  BY BoundsAssumption DEF Lone, TypeOK
<1>1. CASE Launch(s)
  <2>1. run.status = "approved" /\ pc[s] = Idle /\ upd[s] = NoUpdate
    BY <1>1 DEF Launch
  <2>2. run' = run /\ failures' = failures /\ upd' = upd /\ pc'[s] = "claim"
    BY <1>1 DEF Launch, Goto, TypeOK
  <2>. QED BY <1>0, <2>1, <2>2 DEF BudgetInv, FailuresLeft
<1>2. CASE Claim(s)
  <2>1. run.status = "approved" /\ run.approval = "approved" /\ failures < MaxAttempts /\ upd[s] = NoUpdate
    BY <1>2 DEF Claim, BudgetInv, FailuresLeft, DecidedOnce
  <2>2. run'.status = "starting" /\ failures' = failures /\ upd' = upd /\ pc'[s] = "prepare"
    BY <1>2, <2>1 DEF Claim, TypeOK
  <2>. QED BY <1>0, <2>1, <2>2 DEF BudgetInv, FailuresLeft
<1>3. CASE Prepare(s)
  BY <1>3, WorkerBudget DEF Prepare, TypeOK
<1>4. CASE PrepareFails(s)
  BY <1>4, WorkerBudget DEF PrepareFails, Goto, TypeOK
<1>4h. CASE HandshakeHangs(s)
  BY <1>4h, WorkerBudget DEF HandshakeHangs, Goto, TypeOK
<1>5. CASE MarkInProgress(s)
  BY <1>5, WorkerBudget DEF MarkInProgress, Goto, TypeOK
<1>6. CASE EnterRunning(s)
  BY <1>6, WorkerBudget DEF EnterRunning, ChangeStatus, OnError, Goto, TypeOK
<1>7. CASE Enqueue(s)
  <2>1. pc'[s] \in {"await", "error", "sent"}
    BY <1>7 DEF Enqueue, TypeOK
  <2>. QED BY <1>7, <2>1, WorkerBudget DEF Enqueue
<1>8. CASE TurnStarted(s)
  BY <1>8, WorkerBudget DEF TurnStarted, Goto, TypeOK
<1>9. CASE TurnStartFails(s)
  BY <1>9, WorkerBudget DEF TurnStartFails, Goto, TypeOK
<1>10. CASE AfterSend(s)
  BY <1>10, WorkerBudget DEF AfterSend, ChangeStatus, OnError, Goto, TypeOK
<1>11. CASE TimeBudget(s)
  BY <1>11, WorkerBudget DEF TimeBudget, FindOutcome, OnError, Goto, TypeOK
<1>12. CASE Deliver(s)
  BY <1>12, WorkerBudget DEF Deliver, Goto, TypeOK
<1>13. CASE SyncPending(s)
  BY <1>13, WorkerBudget DEF SyncPending, ChangeStatus, OnError, Goto, TypeOK
<1>14. CASE PollTerminal(s)
  BY <1>14, WorkerBudget DEF PollTerminal, Goto, TypeOK
<1>15. CASE Pump(s)
  BY <1>15, WorkerBudget DEF Pump, Goto, TypeOK
<1>16. CASE JudgeTurn(s)
  BY <1>16, WorkerBudget DEF JudgeTurn, FindOutcome, OnError, Goto, TypeOK
<1>17. CASE CountFailures(s)
  <2>1. pc[s] = "error" /\ upd[s] = NoUpdate /\ run' = run /\ failures' = failures /\ upd' = upd
    BY <1>17 DEF CountFailures
  <2>2. pc'[s] = Idle \/ (pc'[s] = "record" /\ local'[s].count = failures + 1)
    <3>1. local[s] \in LocalRecords
      BY DEF TypeOK
    <3>. QED BY <1>17, <3>1 DEF CountFailures, TypeOK, LocalRecords
  <2>. QED BY <1>0, <2>1, <2>2 DEF BudgetInv, FailuresLeft
<1>18. CASE RecordFailure(s)
  <2>1. /\ pc[s] = "record" /\ upd[s] = NoUpdate /\ run' = run /\ upd' = upd
        /\ failures' = failures + 1
        /\ pc'[s] = IF local[s].count >= MaxAttempts THEN "giveUp" ELSE "retry"
    BY <1>18 DEF RecordFailure, Goto, TypeOK
  <2>2. /\ failures < MaxAttempts /\ local[s].count = failures + 1
        /\ run.status \notin {"proposed", "approved"}
    BY <2>1 DEF BudgetInv, FailuresLeft
  <2>. QED BY <1>0, <2>1, <2>2 DEF FailuresLeft
<1>19. CASE GiveUp(s)
  BY <1>19, WorkerBudget DEF GiveUp, FindOutcome, OnError, Goto, TypeOK
<1>20. CASE RetryLater(s)
  <2>1. pc[s] = "retry" /\ upd[s] = NoUpdate /\ run' = run /\ failures' = failures
    BY <1>20 DEF RetryLater
  <2>2. failures < MaxAttempts /\ run.status \notin {"proposed", "approved"}
    BY <2>1 DEF BudgetInv, FailuresLeft
  <2>3. CASE ValidRunTransition(run.status, "approved")
    <3>1. upd'[s] = "approved" /\ pc'[s] = Idle
      BY <1>20, <2>3 DEF RetryLater, ChangeStatus, Goto, TypeOK
    <3>2. run.status = "starting"
      BY <2>2, <2>3 DEF ValidRunTransition, RunEdge, TerminalStatuses
    <3>. QED BY <1>0, <2>1, <2>2, <3>1, <3>2 DEF FailuresLeft
  <2>4. CASE ~ValidRunTransition(run.status, "approved")
    BY <1>20, <2>1, <2>4, WorkerBudget DEF RetryLater, ChangeStatus, OnError, Goto, TypeOK
  <2>. QED BY <2>3, <2>4
<1>. QED BY <1>1, <1>2, <1>3, <1>4, <1>4h, <1>5, <1>6, <1>7, <1>8, <1>9, <1>10, <1>11, <1>12, <1>13, <1>14, <1>15,
            <1>16, <1>17, <1>18, <1>19, <1>20 DEF Supervisor

LEMMA SupervisorBudget ==
  ASSUME Lone, BudgetInv, NEW s \in Supervisors, Supervisor(s) \/ Launch(s)
  PROVE  DecidedOnce' /\ EarlyIsQuiet' /\ FailuresLeft'
<1>. TypeInv /\ TypeOK
  BY DEF BudgetInv, TypeInv
<1>1. \A q \in Resolvers \cup Submitters : q \in Procs \ {s}
  BY RolesAssumption DEF Procs
<1>2. QuietStep(s) /\ run'.approval = run.approval /\ decision' = decision
  BY SupervisorQuiet DEF Supervisor, Launch, Claim, Prepare, PrepareFails, HandshakeHangs, MarkInProgress, EnterRunning,
              Enqueue, TurnStarted, TurnStartFails, AfterSend, TimeBudget, Deliver, SyncPending, FindOutcome,
              PollTerminal, Pump, JudgeTurn, CountFailures, RecordFailure, GiveUp, RetryLater, TypeOK
<1>3. DecidedOnce' /\ EarlyIsQuiet'
  BY <1>1, <1>2 DEF QuietStep, MovesOnly, BudgetInv, DecidedOnce, EarlyIsQuiet, Early
<1>. QED BY <1>3, SupervisorFailures

LEMMA SubmitterBudget ==
  ASSUME BudgetInv, NEW w \in Submitters, Submitter(w)
  PROVE  DecidedOnce' /\ EarlyIsQuiet' /\ FailuresLeft'
<1>. w \in Procs /\ w \notin Resolvers /\ w \notin Supervisors /\ TypeInv /\ TypeOK
  BY RolesAssumption DEF BudgetInv, TypeInv, Procs
<1>1. \A q \in Resolvers \cup Supervisors : q \in Procs \ {w}
  BY DEF Procs
<1>2. QuietStep(w) /\ run' = run /\ failures' = failures /\ decision' = decision
  BY SubmitterQuiet DEF Submitter, Submit, RecordCandidate, AskUser, StartEvaluation, EvaluationFails,
     Settle, CommitVerdict, FindOutcome
<1>3. DecidedOnce' /\ FailuresLeft'
  BY <1>1, <1>2 DEF QuietStep, MovesOnly, BudgetInv, DecidedOnce, FailuresLeft
<1>4. /\ upd'[w] # "approved"
      /\ run.status \in Early => upd'[w] = NoUpdate /\ pc'[w] \in {Idle, "record", "ask", "evaluate"}
  <2>1. OnError(w) = Idle
    BY DEF OnError
  <2>2. CASE StartEvaluation(w)
    <3>1. run.status \in Early => ~ValidRunTransition(run.status, "evaluating")
      BY DEF ValidRunTransition, RunEdge, Early
    <3>. QED BY <2>1, <2>2, <3>1 DEF StartEvaluation, ChangeStatus, Goto, TypeOK
  <2>3. CASE Settle(w)
    <3>1. run.status \notin Early
      BY <2>3 DEF Settle, BudgetInv, EarlyIsQuiet
    <3>2. NextStatus(Disposition(local[w].cand)) # "approved"
      BY DEF NextStatus
    <3>. QED BY <2>3, <3>1, <3>2, ChangeStatusMoves DEF Settle
  <2>4. CASE ~StartEvaluation(w) /\ ~Settle(w)
    <3>1. upd' = upd /\ (run.status \in Early => pc'[w] \in {Idle, "record", "ask", "evaluate"})
      BY <2>4 DEF BudgetInv, EarlyIsQuiet, Submitter, Submit, RecordCandidate, AskUser, EvaluationFails,
         CommitVerdict, FindOutcome, Goto, TypeOK
    <3>. QED BY <3>1 DEF BudgetInv, EarlyIsQuiet
  <2>. QED BY <2>2, <2>3, <2>4
<1>5. EarlyIsQuiet'
  BY <1>2, <1>4 DEF QuietStep, MovesOnly, BudgetInv, EarlyIsQuiet, Procs
<1>. QED BY <1>3, <1>5

LEMMA WriteBudget ==
  ASSUME Lone, BudgetInv, NEW p \in Procs, WriteStatus(p)
  PROVE  DecidedOnce' /\ EarlyIsQuiet' /\ FailuresLeft'
<1>. TypeInv /\ TypeOK
  BY DEF BudgetInv, TypeInv
<1>1. /\ upd[p] \in StatusesWritten /\ run'.status = upd[p] /\ run'.approval = run.approval
      /\ upd'[p] = NoUpdate /\ \A q \in Procs \ {p} : upd'[q] = upd[q]
      /\ UNCHANGED <<failures, pc, decision, local>>
  BY DEF WriteStatus, BudgetInv, UpdatesAreWritten, TypeOK
<1>2. \A q \in Resolvers \cup Supervisors \cup Submitters : q \in Procs
  BY DEF Procs
<1>3. CASE p \in Resolvers
  <2>1. /\ \A q \in Resolvers : q = p
        /\ \A q \in Supervisors \cup Submitters : q # p
    BY <1>3, RolesAssumption DEF Lone
  <2>2. run.status = "proposed" /\ pc[p] \notin {Idle, "resolve", "grant", "decide"}
    BY <1>1, <1>3 DEF StatusesWritten, BudgetInv, DecidedOnce
  <2>3. DecidedOnce'
    BY <1>1, <1>3, <2>1, <2>2 DEF StatusesWritten, BudgetInv, DecidedOnce
  <2>4. EarlyIsQuiet' /\ FailuresLeft'
    BY <1>1, <1>2, <2>1, <2>2 DEF StatusesWritten, BudgetInv, EarlyIsQuiet, FailuresLeft, Early, AtWork
  <2>. QED BY <2>3, <2>4
<1>4. CASE p \in Supervisors
  <2>1. /\ \A q \in Supervisors : q = p
        /\ \A q \in Resolvers \cup Submitters : q # p
    BY <1>4, RolesAssumption DEF Lone
  <2>2. /\ run.status \notin {"proposed", "approved"}
        /\ upd[p] = "approved" => run.status = "starting" /\ pc[p] = Idle /\ failures < MaxAttempts
    BY <1>1, <1>4 DEF StatusesWritten, BudgetInv, FailuresLeft
  <2>3. DecidedOnce'
    BY <1>1, <1>2, <2>1, <2>2 DEF StatusesWritten, BudgetInv, DecidedOnce
  <2>4. EarlyIsQuiet'
    BY <1>1, <1>2, <2>1, <2>2 DEF StatusesWritten, BudgetInv, EarlyIsQuiet, Early
  <2>5. FailuresLeft'
    BY <1>1, <1>4, <2>1, <2>2 DEF StatusesWritten, BudgetInv, FailuresLeft
  <2>. QED BY <2>3, <2>4, <2>5
<1>5. CASE p \in Submitters
  <2>1. \A q \in Supervisors \cup Resolvers : q # p
    BY <1>5, RolesAssumption
  <2>2. run.status \notin Early /\ upd[p] # "approved"
    BY <1>1, <1>5 DEF StatusesWritten, BudgetInv, EarlyIsQuiet
  <2>3. DecidedOnce' /\ FailuresLeft'
    BY <1>1, <1>2, <2>1, <2>2 DEF StatusesWritten, BudgetInv, DecidedOnce, FailuresLeft, Early
  <2>4. EarlyIsQuiet'
    BY <1>1, <1>2, <2>2 DEF StatusesWritten, BudgetInv, EarlyIsQuiet, Early
  <2>. QED BY <2>3, <2>4
<1>. QED BY <1>3, <1>4, <1>5 DEF Procs

LEMMA InsertBudget ==
  ASSUME Lone, BudgetInv, NEW p \in Procs, InsertOutcome(p)
  PROVE  DecidedOnce' /\ EarlyIsQuiet' /\ FailuresLeft'
<1>. TypeInv /\ TypeOK
  BY DEF BudgetInv, TypeInv
<1>1. p \in Supervisors \cup Submitters /\ p \notin Resolvers
  BY DEF InsertOutcome, TypeInv, ResolversDecide, Procs
<1>2. /\ pc[p] \in {"insert", "lastInsert"} /\ UNCHANGED <<failures, upd, decision>>
      /\ \A q \in Procs \ {p} : pc'[q] = pc[q] /\ local'[q] = local[q]
      /\ run'.approval = run.approval
  BY DEF InsertOutcome, Goto, TypeOK
<1>3. run.status \notin {"proposed", "approved"}
  BY <1>1, <1>2 DEF BudgetInv, FailuresLeft, EarlyIsQuiet, Early
<1>4. run'.status = run.status \/ run'.status \in TerminalStatuses
  <2>1. ins[p] \in OutcomeRecords
    BY <1>2 DEF TypeInv, InsertsAreEvidenced
  <2>2. TerminalStatus(ins[p].kind) \in TerminalStatuses
    BY <2>1, TerminalStatusType DEF OutcomeRecords, IsTerminal
  <2>. QED BY <2>2 DEF InsertOutcome, TypeOK
<1>5. pc'[p] = Idle \/ (pc'[p] = "error" /\ p \in Supervisors /\ pc[p] = "insert")
  BY <1>1, <1>2 DEF InsertOutcome, Goto, OnError, TypeOK
<1>6. \A q \in Resolvers \cup Supervisors \cup Submitters : q \in Procs
  BY DEF Procs
<1>7. DecidedOnce' /\ EarlyIsQuiet'
  BY <1>1, <1>2, <1>3, <1>4, <1>5, <1>6, RolesAssumption
     DEF BudgetInv, DecidedOnce, EarlyIsQuiet, Early, TerminalStatuses
<1>8. FailuresLeft'
  <2>1. ASSUME NEW s \in Supervisors PROVE upd[s] = "approved" => run'.status = "starting"
    <3>1. ASSUME upd[s] = "approved" PROVE run.status = "starting" /\ pc[s] = Idle
      BY <3>1 DEF BudgetInv, FailuresLeft
    <3>2. upd[s] = "approved" => p \in Supervisors
      BY <1>1, <1>2, <3>1 DEF BudgetInv, EarlyIsQuiet, Early
    <3>3. CASE run' = run
      BY <3>1, <3>3
    <3>4. CASE run' # run /\ upd[s] = "approved"
      <4>1. CASE p = s
        BY <1>2, <3>1, <3>4, <4>1
      <4>2. CASE p # s
        BY <3>2, <3>4, <4>2 DEF Lone
      <4>. QED BY <4>1, <4>2
    <3>. QED BY <3>3, <3>4
  <2>. QED BY <1>1, <1>2, <1>3, <1>4, <1>5, <1>6, <2>1 DEF BudgetInv, FailuresLeft, AtWork, TerminalStatuses
<1>. QED BY <1>7, <1>8

LEMMA CrashBudget ==
  ASSUME BudgetInv, NEW p \in Procs, Crash(p)
  PROVE  DecidedOnce' /\ EarlyIsQuiet' /\ FailuresLeft'
<1>. TypeInv /\ TypeOK
  BY DEF BudgetInv, TypeInv
<1>1. /\ UNCHANGED <<run, failures, decision>> /\ upd'[p] = NoUpdate
      /\ \A q \in Procs \ {p} : pc'[q] = pc[q] /\ local'[q] = local[q] /\ upd'[q] = upd[q]
      /\ pc'[p] = IF pc[p] \in {"decide", "dispatch", "gone"} THEN "gone" ELSE Idle
  BY DEF Crash, Goto, TypeOK
<1>2. \A q \in Resolvers \cup Supervisors \cup Submitters : q \in Procs
  BY DEF Procs
<1>3. DecidedOnce'
  <2>1. ASSUME p \in Resolvers, pc'[p] = Idle PROVE run.status = "proposed"
    BY <1>1, <2>1 DEF BudgetInv, DecidedOnce, TypeInv, ResolversDecide
  <2>. QED BY <1>1, <1>2, <2>1 DEF BudgetInv, DecidedOnce
<1>4. EarlyIsQuiet'
  BY <1>1, <1>2 DEF BudgetInv, EarlyIsQuiet
<1>5. FailuresLeft'
  BY <1>1, <1>2 DEF BudgetInv, FailuresLeft, AtWork
<1>. QED BY <1>3, <1>4, <1>5

LEMMA StepBudget == Lone /\ BudgetInv /\ [Next]_vars => BudgetInv'
<1>. SUFFICES ASSUME Lone, BudgetInv, [Next]_vars PROVE BudgetInv'
  OBVIOUS
<1>. TypeInv /\ TypeOK /\ TypeInv'
  BY StepType DEF BudgetInv, TypeInv
<1>1. UpdatesAreWritten'
  <2>1. ASSUME NEW p \in Procs, QuietStep(p) PROVE UpdatesAreWritten'
    BY <2>1 DEF QuietStep, MovesOnly, BudgetInv, UpdatesAreWritten
  <2>2. ASSUME NEW p \in Procs, WriteStatus(p) \/ InsertOutcome(p) PROVE UpdatesAreWritten'
    BY <2>2 DEF WriteStatus, InsertOutcome, TypeOK, BudgetInv, UpdatesAreWritten
  <2>. QED BY <2>1, <2>2, StepShape DEF BudgetInv, UpdatesAreWritten
<1>2. DecidedOnce' /\ EarlyIsQuiet' /\ FailuresLeft'
  <2>1. ASSUME NEW p \in Procs, Process(p) \/ Crash(p) PROVE DecidedOnce' /\ EarlyIsQuiet' /\ FailuresLeft'
    BY <2>1, ResolverBudget, SupervisorBudget, SubmitterBudget, WriteBudget, InsertBudget, CrashBudget DEF Process
  <2>2. CASE UserAnswers \/ (\E n \in Attempts : TurnEnds(n)) \/ UNCHANGED vars
    BY <2>2 DEF UserAnswers, TurnEnds, BudgetInv, DecidedOnce, EarlyIsQuiet, FailuresLeft
  <2>. QED BY <2>1, <2>2, SupervisorBudget DEF Next
<1>. QED BY <1>1, <1>2 DEF BudgetInv

\* A lone supervisor, with one decision of the user, records no more failures than the
\* run has attempts, whatever agents hand in, whatever fails and whenever a process is
\* killed (supervisor.rs record_runtime_error).  Two supervisors or two approvals may
\* exceed it: a late UPDATE makes a concluded run read approved again.
THEOREM FailuresStayInBudget == ASSUME Lone PROVE Spec => []RetriesStayInBudget
<1>1. BudgetInv => RetriesStayInBudget
  BY DEF BudgetInv, FailuresLeft, RetriesStayInBudget
<1>2. BudgetInv /\ [Next]_vars => BudgetInv'
  BY StepBudget
<1>. QED BY <1>1, <1>2, InitBudget, PTL DEF Spec
=============================================================================
