----------------------------- MODULE DispatchRun -----------------------------
(***************************************************************************)
(* One dispatch run and every process that works on it.                     *)
(*                                                                         *)
(* The processes share nothing but the SQLite file.  They are:              *)
(*   Resolvers    one `dispatch approve` / `dispatch reject` invocation     *)
(*                each (DispatchRuntime::resolve_dispatch_approval);        *)
(*   Supervisors  `issue-finder supervise --run-id` processes, spawned by   *)
(*                launch and running RunSupervisor::run;                    *)
(*   Submitters   callers of DispatchRuntime::submit_result: the worker's   *)
(*                MCP server, or an A2A import.                             *)
(* A SQL statement commits by itself, so a step of the model is one SQL     *)
(* statement, or one transaction, or one call to the Codex app server,      *)
(* with the reads whose result cannot change before it.  In particular      *)
(* update_dispatch_run_status is a SELECT (ChangeStatus) and, later, an     *)
(* UPDATE (WriteStatus).                                                    *)
(***************************************************************************)
EXTENDS DispatchStore, FiniteSets

CONSTANTS Resolvers, Supervisors, Submitters,
          NoThread,       \* run without a Codex thread
          MaxAttempts,    \* runtime_policy.max_attempts of the task package
          MaxCandidates,  \* bound: candidate_result artifacts written
          Candidates,     \* the candidate results agents hand in
          Faults          \* the failures the environment may cause

Procs == Resolvers \cup Supervisors \cup Submitters

\* What evaluate_candidate tells apart in a result: its status, whether the
\* deterministic checks pass, and whether it names residual risks.
AllCandidates ==
  [status : {"success", "partial", "failed", "needs_user"},
   checks : BOOLEAN, risks : BOOLEAN]

\* What the environment may do to a process: fail its start, its work or its
\* evaluation, leave a handshake without an answer, kill it.
FaultKinds == {"prepare", "runtime", "evaluation", "silence", "crash"}

ASSUME RolesAssumption ==
  /\ Resolvers \cap Supervisors = {}
  /\ Resolvers \cap Submitters = {}
  /\ Supervisors \cap Submitters = {}
  /\ NoThread \notin Supervisors
  /\ "supervisor" \notin Submitters    \* the word outcomes of supervisors carry
ASSUME BoundsAssumption == MaxAttempts \in Nat \ {0} /\ MaxCandidates \in Nat
ASSUME InputsAssumption == Candidates \subseteq AllCandidates /\ Faults \subseteq FaultKinds

VARIABLES
  run,         \* the dispatch_runs row: status, approval_state, selected thread
  approval,    \* status of the run's row in approval_requests
  task,        \* issue_tasks.status
  outcome,     \* the run's row in dispatch_run_outcomes
  failures,    \* number of dispatch_failures rows of the run
  candidates,  \* number of candidate_result artifacts of the run
  pending,     \* a pending_requests row of the thread has status 'pending'
  turn,        \* per attempt: its codex_outbox entry and its turn
  pc,          \* where each process is
  upd,         \* the status a process has validated and is about to write
  ins,         \* the outcome a process is about to insert
  decision,    \* what each resolver was invoked to decide
  local        \* what a process remembers: a supervisor its thread, attempt and
               \* failure count, a submitter the thread and the candidate it hands in
vars == <<run, approval, task, outcome, failures, candidates, pending, turn,
          pc, upd, ins, decision, local>>
codex == <<pending, turn>>
counts == <<failures, candidates>>
-----------------------------------------------------------------------------
NoUpdate == "none"
NoCandidate == [status |-> "none", checks |-> FALSE, risks |-> FALSE, attempt |-> 0]
NoOutcome == [kind |-> "none", reason |-> "none", by |-> "nobody", cand |-> NoCandidate]
NoLocal == [thread |-> NoThread, attempt |-> 0, count |-> 0, cand |-> NoCandidate]
NoTurn == [outbox |-> "none", thread |-> NoThread, state |-> "none", accepted |-> 0]

Attempts == 1..MaxAttempts

\* Where a process is when it does no work: a supervisor that was not spawned
\* or has exited, a submitter between calls, a resolver not yet invoked.
Idle == "idle"

\* The steps of record_runtime_error: an error in them ends the process.
ErrorSteps == {"error", "giveUp", "retry", "lastInsert"}

\* The steps of a supervisor whose claim succeeded.
ExecutionSteps ==
  {"prepare", "hung", "begin", "toRunning", "send", "await", "sent", "loop", "sync",
   "poll", "pump", "judge", "insert"}

SubmitSteps == {"record", "ask", "evaluate", "evaluated", "commit", "insert"}
ResolveSteps == {"resolve", "grant", "decide", "dispatch", "gone"}
Labels == {Idle, "claim"} \cup ExecutionSteps \cup ErrorSteps \cup SubmitSteps \cup ResolveSteps

\* An error is reported to the caller of a command and a tool; a supervisor
\* runs record_runtime_error first.
OnError(p) ==
  IF p \in Resolvers THEN "gone"
  ELSE IF p \in Supervisors /\ pc[p] \notin ErrorSteps THEN "error" ELSE Idle

\* The memory of a process is gone when its work is.
Goto(p, label) ==
  /\ pc' = [pc EXCEPT ![p] = label]
  /\ local' = IF label = Idle THEN [local EXCEPT ![p] = NoLocal] ELSE local

Ready(p, label) == pc[p] = label /\ upd[p] = NoUpdate

\* The read half of update_dispatch_run_status: bail on an invalid transition,
\* otherwise the UPDATE follows and then the process is at next.
ChangeStatus(p, to, next) ==
  IF ValidRunTransition(run.status, to)
  THEN upd' = [upd EXCEPT ![p] = to] /\ Goto(p, next)
  ELSE upd' = upd /\ Goto(p, OnError(p))

\* The write half overwrites whatever the row says by now.
WriteStatus(p) ==
  /\ upd[p] # NoUpdate
  /\ run' = [run EXCEPT !.status = upd[p]]
  /\ upd' = [upd EXCEPT ![p] = NoUpdate]
  /\ UNCHANGED <<approval, task, outcome, counts, codex, pc, ins, decision, local>>

\* record_dispatch_run_outcome up to the transaction: an identical outcome is
\* returned, another one is an error, none means this one will be inserted.
FindOutcome(p, o, insertLabel) ==
  /\ ins' = IF outcome = NoOutcome THEN [ins EXCEPT ![p] = o] ELSE ins
  /\ Goto(p, IF outcome = NoOutcome THEN insertLabel
             ELSE IF outcome = o THEN Idle ELSE OnError(p))
  /\ UNCHANGED <<run, approval, task, outcome, counts, codex, upd, decision>>

\* The transaction without UNIQUE(run_id).
InsertOutcome_NoUniqueIndex(p) ==
  /\ pc[p] \in {"insert", "lastInsert"}
  /\ outcome' = ins[p]
  /\ run' = [run EXCEPT !.status = TerminalStatus(ins[p].kind)]
  /\ task' = TerminalStatus(ins[p].kind)
  /\ Goto(p, Idle)
  /\ ins' = [ins EXCEPT ![p] = NoOutcome]
  /\ UNCHANGED <<approval, counts, codex, upd, decision>>

\* INSERT OR IGNORE: the loser of the race still rewrites run and task.
InsertOutcome_IgnoresConflict(p) ==
  /\ pc[p] \in {"insert", "lastInsert"}
  /\ outcome' = IF outcome = NoOutcome THEN ins[p] ELSE outcome
  /\ run' = [run EXCEPT !.status = TerminalStatus(ins[p].kind)]
  /\ task' = TerminalStatus(ins[p].kind)
  /\ Goto(p, Idle)
  /\ ins' = [ins EXCEPT ![p] = NoOutcome]
  /\ UNCHANGED <<approval, counts, codex, upd, decision>>

\* The transaction.  UNIQUE(run_id) makes the INSERT fail when another process
\* was faster; run and issue task change with the INSERT or not at all.
InsertOutcome(p) ==
  /\ pc[p] \in {"insert", "lastInsert"}
  /\ IF outcome = NoOutcome
     THEN /\ outcome' = ins[p]
          /\ run' = [run EXCEPT !.status = TerminalStatus(ins[p].kind)]
          /\ task' = TerminalStatus(ins[p].kind)
          /\ Goto(p, Idle)
     ELSE UNCHANGED <<outcome, run, task>> /\ Goto(p, OnError(p))
  /\ ins' = [ins EXCEPT ![p] = NoOutcome]
  /\ UNCHANGED <<approval, counts, codex, upd, decision>>
-----------------------------------------------------------------------------
(* resolve_dispatch_approval: five statements, no transaction.              *)

\* The read of the latest pending Dispatch approval; without one the call fails.
StartResolve(r, d) ==
  /\ Ready(r, Idle)
  /\ approval = "pending"
  /\ decision' = [decision EXCEPT ![r] = d]
  /\ Goto(r, "resolve")
  /\ UNCHANGED <<run, approval, task, outcome, counts, codex, upd, ins>>

\* resolve_approval_request has no WHERE status = 'pending'.
ResolveRequest(r) ==
  /\ Ready(r, "resolve")
  /\ approval' = decision[r]
  /\ Goto(r, "grant")
  /\ UNCHANGED <<run, task, outcome, counts, codex, upd, ins, decision>>

SetApprovalState(r) ==
  /\ Ready(r, "grant")
  /\ run' = [run EXCEPT !.approval = decision[r]]
  /\ Goto(r, "decide")
  /\ UNCHANGED <<approval, task, outcome, counts, codex, upd, ins, decision>>

DecideRun(r) ==
  /\ Ready(r, "decide")
  /\ IF decision[r] = "approved"
     THEN ChangeStatus(r, "approved", "dispatch")
     ELSE ChangeStatus(r, "canceled", "gone")
  /\ UNCHANGED <<run, approval, task, outcome, counts, codex, ins, decision>>

MarkDispatched(r) ==
  /\ Ready(r, "dispatch")
  /\ task' = "dispatched"
  /\ Goto(r, "gone")
  /\ UNCHANGED <<run, approval, outcome, counts, codex, upd, ins, decision>>

Resolver(r) ==
  \/ \E d \in {"approved", "rejected"} : StartResolve(r, d)
  \/ ResolveRequest(r) \/ SetApprovalState(r) \/ DecideRun(r) \/ MarkDispatched(r)
-----------------------------------------------------------------------------
(* The supervisor, up to the first turn.                                    *)

\* A launch that leaves the check to the process it spawns.
Launch_Unchecked(s) ==
  /\ Ready(s, Idle)
  /\ Goto(s, "claim")
  /\ UNCHANGED <<run, approval, task, outcome, counts, codex, upd, ins, decision>>

\* launch checks the status and spawns the process; it does not claim the run.
Launch(s) ==
  /\ Ready(s, Idle)
  /\ run.status = "approved"
  /\ Goto(s, "claim")
  /\ UNCHANGED <<run, approval, task, outcome, counts, codex, upd, ins, decision>>

\* claim_dispatch_run_for_execution: one conditional UPDATE.
Claim(s) ==
  /\ Ready(s, "claim")
  /\ IF run.status = "approved" /\ run.approval = "approved"
     THEN /\ run' = [run EXCEPT !.status = "starting"]
          /\ pc' = [pc EXCEPT ![s] = "prepare"]
          /\ local' = [local EXCEPT ![s].thread = run.thread]
     ELSE UNCHANGED run /\ Goto(s, "error")
  /\ UNCHANGED <<approval, task, outcome, counts, codex, upd, ins, decision>>

\* Package checks, connect_worker, discovery, thread/resume or thread/start,
\* goal, and the thread id in the row.  The thread of a run that has none is
\* named after the supervisor that started it.
Prepare(s) ==
  LET thread == IF local[s].thread = NoThread THEN s ELSE local[s].thread
  IN /\ Ready(s, "prepare")
     /\ run' = [run EXCEPT !.thread = thread]
     /\ pc' = [pc EXCEPT ![s] = "begin"]
     /\ local' = [local EXCEPT ![s].thread = thread]
     /\ UNCHANGED <<approval, task, outcome, counts, codex, upd, ins, decision>>

PrepareFails(s) ==
  /\ "prepare" \in Faults
  /\ Ready(s, "prepare")
  /\ Goto(s, "error")
  /\ UNCHANGED <<run, approval, task, outcome, counts, codex, upd, ins, decision>>

\* Codex does not answer the handshake of a new connection, of the start or of
\* the reconnect inside pump_once's loop.  Nothing times that wait out and the
\* time budget is not looked at meanwhile: only its death ends the supervisor.
HandshakeHangs(s) ==
  /\ "silence" \in Faults
  /\ Ready(s, "prepare") \/ Ready(s, "pump")
  /\ Goto(s, "hung")
  /\ UNCHANGED <<run, approval, task, outcome, counts, codex, upd, ins, decision>>

MarkInProgress(s) ==
  /\ Ready(s, "begin")
  /\ task' = "in_progress"
  /\ Goto(s, "toRunning")
  /\ UNCHANGED <<run, approval, outcome, counts, codex, upd, ins, decision>>

EnterRunning(s) ==
  /\ Ready(s, "toRunning")
  /\ ChangeStatus(s, "running", "send")
  /\ UNCHANGED <<run, approval, task, outcome, counts, codex, ins, decision>>

\* The turn to start: one more than the last one this supervisor started.
NextAttempt(s) == local[s].attempt + 1

\* A send that does not look whether the entry exists.
Enqueue_Resends(s) ==
  LET n == NextAttempt(s)
  IN /\ Ready(s, "send")
     /\ turn' = [turn EXCEPT ![n].outbox = "pending", ![n].thread = local[s].thread]
     /\ pc' = [pc EXCEPT ![s] = "await"]
     /\ local' = [local EXCEPT ![s].attempt = n]
     /\ UNCHANGED <<run, approval, task, outcome, counts, pending, upd, ins, decision>>

\* send: INSERT OR IGNORE under the client id <run>:attempt:<n>.  An entry that
\* is already there is reused when it was sent with the same payload (the
\* prompt of a later attempt carries feedback, which may have changed), and is
\* an error when its delivery is uncertain or it belongs to another thread.
Enqueue(s) ==
  LET n == NextAttempt(s)
      entry == turn[n]
      label == IF entry.outbox = "none" THEN {"await"}
               ELSE IF entry.outbox = "pending" \/ entry.thread # local[s].thread THEN {"error"}
               ELSE IF n = 1 THEN {"sent"} ELSE {"sent", "error"}
  IN /\ Ready(s, "send")
     /\ turn' = IF entry.outbox = "none"
                THEN [turn EXCEPT ![n].outbox = "pending", ![n].thread = local[s].thread]
                ELSE turn
     /\ \E l \in label : pc' = [pc EXCEPT ![s] = l]
     /\ local' = [local EXCEPT ![s].attempt = n]
     /\ UNCHANGED <<run, approval, task, outcome, counts, pending, upd, ins, decision>>

\* turn/start is accepted, the turn is projected and the entry marked sent.
TurnStarted(s) ==
  LET n == local[s].attempt
  IN /\ Ready(s, "await")
     /\ turn' = [turn EXCEPT ![n].outbox = "sent", ![n].state = "active", ![n].accepted = @ + 1]
     /\ Goto(s, "sent")
     /\ UNCHANGED <<run, approval, task, outcome, counts, pending, upd, ins, decision>>

\* The request fails or times out, after Codex accepted the turn or before:
\* the entry stays pending either way.
TurnStartFails(s) ==
  LET n == local[s].attempt
  IN /\ "runtime" \in Faults
     /\ Ready(s, "await")
     /\ \/ turn' = [turn EXCEPT ![n].state = "active", ![n].accepted = @ + 1]
        \/ turn' = turn
     /\ Goto(s, "error")
     /\ UNCHANGED <<run, approval, task, outcome, counts, pending, upd, ins, decision>>

\* After the first turn the loop starts; a later one sets the run to Running.
AfterSend(s) ==
  /\ Ready(s, "sent")
  /\ IF local[s].attempt = 1
     THEN upd' = upd /\ Goto(s, "loop") ELSE ChangeStatus(s, "running", "loop")
  /\ UNCHANGED <<run, approval, task, outcome, counts, codex, ins, decision>>
-----------------------------------------------------------------------------
(* The supervision loop.                                                    *)

\* record_exhausted and the interrupted-turn outcome: neither has a result.
SupervisorOutcome(kind, reason) ==
  [kind |-> kind, reason |-> reason, by |-> "supervisor", cand |-> NoCandidate]

\* A budget that stops counting while the user is asked.
TimeBudget_NotWhileAsking(s) ==
  /\ Ready(s, "loop")
  /\ run.status # "needs_user"
  /\ FindOutcome(s, SupervisorOutcome("failed", "time"), "insert")

\* max_time_seconds has elapsed.  Time is not modelled: it may always be so.
TimeBudget(s) ==
  /\ Ready(s, "loop")
  /\ FindOutcome(s, SupervisorOutcome("failed", "time"), "insert")

\* deliver_ready_responses and deliver_control_outbox: calls to Codex.
Deliver(s) ==
  /\ Ready(s, "loop")
  /\ \/ Goto(s, "sync")
     \/ "runtime" \in Faults /\ Goto(s, "error")
  /\ UNCHANGED <<run, approval, task, outcome, counts, codex, upd, ins, decision>>

\* NeedsUser while some request of the thread is unanswered, Running after.
SyncPending(s) ==
  /\ Ready(s, "sync")
  /\ IF pending /\ run.status # "needs_user" THEN ChangeStatus(s, "needs_user", "poll")
     ELSE IF ~pending /\ run.status = "needs_user" THEN ChangeStatus(s, "running", "poll")
     ELSE upd' = upd /\ Goto(s, "poll")
  /\ UNCHANGED <<run, approval, task, outcome, counts, codex, ins, decision>>

PollTerminal(s) ==
  /\ Ready(s, "poll")
  /\ Goto(s, IF IsTerminal(run.status) THEN Idle ELSE "pump")
  /\ UNCHANGED <<run, approval, task, outcome, counts, codex, upd, ins, decision>>

\* reconcile_pending_outbox: an entry whose turn Codex turns out to have is sent.
Reconciled(thread) ==
  [n \in Attempts |->
     IF turn[n].thread = thread /\ turn[n].outbox = "pending" /\ turn[n].accepted > 0
     THEN [turn[n] EXCEPT !.outbox = "sent"] ELSE turn[n]]

\* pump_once: a notification or nothing within a second, a request for the
\* user, a lost connection that is restored and the thread read again, or an error.
Pump(s) ==
  /\ Ready(s, "pump")
  /\ \/ Goto(s, "judge") /\ UNCHANGED codex
     \/ Goto(s, "judge") /\ pending' = TRUE /\ UNCHANGED turn
     \/ Goto(s, "loop") /\ turn' = Reconciled(local[s].thread) /\ UNCHANGED pending
     \/ "runtime" \in Faults /\ Goto(s, "error") /\ UNCHANGED codex
  /\ UNCHANGED <<run, approval, task, outcome, counts, upd, ins, decision>>

\* latest_turn of the thread is the one this supervisor waits for.
IsLatestTurn(s) ==
  \A n \in Attempts :
    turn[n].thread = local[s].thread /\ turn[n].accepted > 0 => n <= local[s].attempt

\* What a turn that ended means.  Between the read of the turn and that of the
\* run nothing is written and an ended turn stays ended, so they are one step.
JudgeTurn(s) ==
  LET state == turn[local[s].attempt].state
  IN /\ Ready(s, "judge")
     /\ IF ~IsLatestTurn(s) \/ state \notin {"completed", "interrupted"}
        THEN /\ Goto(s, "loop")
             /\ UNCHANGED <<run, approval, task, outcome, counts, codex, upd, ins, decision>>
        ELSE IF state = "interrupted"
        THEN FindOutcome(s, SupervisorOutcome("canceled", "interrupted"), "insert")
        ELSE IF ~IsTerminal(run.status) /\ run.status # "needs_user" /\ local[s].attempt >= MaxAttempts
        THEN FindOutcome(s, SupervisorOutcome("failed", "no_candidate"), "insert")
        ELSE /\ Goto(s, IF IsTerminal(run.status) THEN Idle
                        ELSE IF run.status = "needs_user" THEN "loop" ELSE "send")
             /\ UNCHANGED <<run, approval, task, outcome, counts, codex, upd, ins, decision>>
-----------------------------------------------------------------------------
(* record_runtime_error: what a supervisor does with any error of run_inner, *)
(* a lost claim included.                                                    *)

CountFailures(s) ==
  /\ Ready(s, "error")
  /\ pc' = [pc EXCEPT ![s] = IF IsTerminal(run.status) THEN Idle ELSE "record"]
  /\ local' = [local EXCEPT ![s] = IF IsTerminal(run.status) THEN NoLocal
                                   ELSE [@ EXCEPT !.count = failures + 1]]
  /\ UNCHANGED <<run, approval, task, outcome, counts, codex, upd, ins, decision>>

\* A record of the failure that never gives up.
RecordFailure_NoLimit(s) ==
  /\ Ready(s, "record")
  /\ failures' = failures + 1
  /\ Goto(s, "retry")
  /\ UNCHANGED <<run, approval, task, outcome, candidates, codex, upd, ins, decision>>

\* The count that decides is the one read before the INSERT.
RecordFailure(s) ==
  /\ Ready(s, "record")
  /\ failures' = failures + 1
  /\ Goto(s, IF local[s].count >= MaxAttempts THEN "giveUp" ELSE "retry")
  /\ UNCHANGED <<run, approval, task, outcome, candidates, codex, upd, ins, decision>>

GiveUp(s) ==
  /\ Ready(s, "giveUp")
  /\ FindOutcome(s, SupervisorOutcome("failed", "error"), "lastInsert")

\* A retry that keeps the run claimed.
RetryLater_KeepsClaim(s) ==
  /\ Ready(s, "retry")
  /\ Goto(s, Idle)
  /\ UNCHANGED <<run, approval, task, outcome, counts, codex, upd, ins, decision>>

\* Back to "approved", so that the run can be launched again.  From Running,
\* NeedsUser and Evaluating there is no such transition and the process ends.
RetryLater(s) ==
  /\ Ready(s, "retry")
  /\ ChangeStatus(s, "approved", Idle)
  /\ UNCHANGED <<run, approval, task, outcome, counts, codex, ins, decision>>

Supervisor(s) ==
  \/ Claim(s) \/ Prepare(s) \/ PrepareFails(s) \/ HandshakeHangs(s)
  \/ MarkInProgress(s) \/ EnterRunning(s)
  \/ Enqueue(s) \/ TurnStarted(s) \/ TurnStartFails(s) \/ AfterSend(s)
  \/ TimeBudget(s) \/ Deliver(s) \/ SyncPending(s) \/ PollTerminal(s) \/ Pump(s) \/ JudgeTurn(s)
  \/ CountFailures(s) \/ RecordFailure(s) \/ GiveUp(s) \/ RetryLater(s)
-----------------------------------------------------------------------------
(* submit_result: evaluate_candidate, then commit_terminal_outcome.         *)

\* An evaluator that believes what the candidate says of itself.
Disposition_IgnoresChecks(c) ==
  IF c.status = "needs_user" THEN "needs_user"
  ELSE IF c.status = "failed" THEN "failed"
  ELSE IF c.status = "success" THEN "accepted_success"
  ELSE IF c.risks THEN "accepted_partial"
  ELSE IF c.attempt < MaxAttempts THEN "retry" ELSE "failed"

\* The disposition, its status and its outcome depend on the candidate and on
\* the attempt number it was given (artifacts counted before it was written).
Disposition(c) ==
  IF c.status = "needs_user" THEN "needs_user"
  ELSE IF c.status = "failed" THEN "failed"
  ELSE IF c.status = "success" /\ c.checks THEN "accepted_success"
  ELSE IF c.status = "partial" /\ c.checks
       THEN IF c.risks THEN "accepted_partial" ELSE "retry"
  ELSE IF c.attempt < MaxAttempts THEN "retry" ELSE "failed"

NextStatus(disposition) ==
  IF disposition = "retry" THEN "running"
  ELSE IF disposition = "needs_user" THEN "needs_user" ELSE "evaluating"

VerdictKind(disposition) ==
  IF disposition = "accepted_success" THEN "success"
  ELSE IF disposition = "accepted_partial" THEN "partial" ELSE "failed"

\* validate_outcome of a verdict: the result artifact must say the same.
Committable(c) == c.status = VerdictKind(Disposition(c))

\* The run row is read once, at the start of the call; its thread is used later
\* only to ask the user.
Submit(w, c) ==
  /\ Ready(w, Idle)
  /\ ~IsTerminal(run.status)
  /\ candidates < MaxCandidates
  /\ local' = [local EXCEPT ![w].thread = IF c.status = "needs_user" THEN run.thread ELSE NoThread,
                            ![w].cand = [status |-> c.status, checks |-> c.checks,
                                         risks |-> c.risks, attempt |-> candidates + 1]]
  /\ pc' = [pc EXCEPT ![w] = "record"]
  /\ UNCHANGED <<run, approval, task, outcome, counts, codex, upd, ins, decision>>

RecordCandidate(w) ==
  /\ Ready(w, "record")
  /\ candidates' = candidates + 1
  /\ Goto(w, IF local[w].cand.status = "needs_user" THEN "ask" ELSE "evaluate")
  /\ UNCHANGED <<run, approval, task, outcome, failures, codex, upd, ins, decision>>

\* record_candidate_user_request; a request without a thread is nobody's.
AskUser(w) ==
  /\ Ready(w, "ask")
  /\ pending' = (pending \/ local[w].thread # NoThread)
  /\ Goto(w, "evaluate")
  /\ UNCHANGED <<run, approval, task, outcome, counts, turn, upd, ins, decision>>

StartEvaluation(w) ==
  /\ Ready(w, "evaluate")
  /\ ChangeStatus(w, "evaluating", "evaluated")
  /\ UNCHANGED <<run, approval, task, outcome, counts, codex, ins, decision>>

\* git status fails in the workspace, or the report cannot be written.
EvaluationFails(w) ==
  /\ "evaluation" \in Faults
  /\ Ready(w, "evaluated")
  /\ Goto(w, Idle)
  /\ UNCHANGED <<run, approval, task, outcome, counts, codex, upd, ins, decision>>

Settle(w) ==
  LET verdict == Disposition(local[w].cand)
  IN /\ Ready(w, "evaluated")
     /\ ChangeStatus(w, NextStatus(verdict),
                     IF verdict \in {"retry", "needs_user"} THEN Idle ELSE "commit")
     /\ UNCHANGED <<run, approval, task, outcome, counts, codex, ins, decision>>

CommitVerdict(w) ==
  LET c == local[w].cand
  IN /\ Ready(w, "commit")
     /\ IF Committable(c)
        THEN FindOutcome(w, [kind |-> VerdictKind(Disposition(c)), reason |-> "verdict",
                             by |-> w, cand |-> c], "insert")
        ELSE /\ Goto(w, Idle)
             /\ UNCHANGED <<run, approval, task, outcome, counts, codex, upd, ins, decision>>

Submitter(w) ==
  \/ \E c \in Candidates : Submit(w, c)
  \/ RecordCandidate(w) \/ AskUser(w) \/ StartEvaluation(w) \/ EvaluationFails(w)
  \/ Settle(w) \/ CommitVerdict(w)
-----------------------------------------------------------------------------
(* The world outside: the turn, the user, and the death of a process.       *)

TurnEnds(n) ==
  /\ turn[n].state = "active"
  /\ \E state \in {"completed", "interrupted"} : turn' = [turn EXCEPT ![n].state = state]
  /\ UNCHANGED <<run, approval, task, outcome, counts, pending, pc, upd, ins, decision, local>>

\* queue_pending_response of every open request.
UserAnswers ==
  /\ pending
  /\ pending' = FALSE
  /\ UNCHANGED <<run, approval, task, outcome, counts, turn, pc, upd, ins, decision, local>>

\* Nothing a process holds in memory survives; nobody runs its error handling.
\* A resolver that died after granting leaves its grant behind.
Crash(p) ==
  /\ "crash" \in Faults
  /\ pc[p] \notin {Idle, "gone"} \/ upd[p] # NoUpdate
  /\ Goto(p, IF pc[p] \in {"decide", "dispatch", "gone"} THEN "gone" ELSE Idle)
  /\ upd' = [upd EXCEPT ![p] = NoUpdate]
  /\ ins' = [ins EXCEPT ![p] = NoOutcome]
  /\ UNCHANGED <<run, approval, task, outcome, counts, codex, decision>>
-----------------------------------------------------------------------------
\* propose_dispatch has created the run and its approval request.
Init ==
  /\ run = [status |-> "proposed", approval |-> "pending", thread |-> NoThread]
  /\ approval = "pending"
  /\ task = "user_approved"
  /\ outcome = NoOutcome
  /\ failures = 0
  /\ candidates = 0
  /\ pending = FALSE
  /\ turn = [n \in Attempts |-> NoTurn]
  /\ pc = [p \in Procs |-> Idle]
  /\ upd = [p \in Procs |-> NoUpdate]
  /\ ins = [p \in Procs |-> NoOutcome]
  /\ decision = [r \in Resolvers |-> "none"]
  /\ local = [p \in Procs |-> NoLocal]

Process(p) ==
  \/ WriteStatus(p) \/ InsertOutcome(p)
  \/ p \in Resolvers /\ Resolver(p)
  \/ p \in Supervisors /\ Supervisor(p)
  \/ p \in Submitters /\ Submitter(p)

Next ==
  \/ \E p \in Procs : Process(p) \/ Crash(p)
  \/ \E s \in Supervisors : Launch(s)
  \/ \E n \in Attempts : TurnEnds(n)
  \/ UserAnswers

Spec == Init /\ [][Next]_vars
-----------------------------------------------------------------------------
(* Properties.                                                              *)

CandidateRecords ==
  [status : {"success", "partial", "failed", "needs_user", "none"},
   checks : BOOLEAN, risks : BOOLEAN, attempt : Nat]

OutcomeRecords ==
  [kind : OutcomeKinds,
   reason : {"time", "interrupted", "no_candidate", "error", "verdict"},
   by : Submitters \cup {"supervisor"}, cand : CandidateRecords]

TurnRecords ==
  [outbox : {"none", "pending", "sent"}, thread : Supervisors \cup {NoThread},
   state : {"none", "active", "completed", "interrupted"}, accepted : Nat]

LocalRecords ==
  [thread : Supervisors \cup {NoThread}, attempt : Nat, count : Nat, cand : CandidateRecords]

\* The type of every variable.
TypeOK ==
  /\ run \in [status : RunStatuses, approval : ApprovalStatuses,
              thread : Supervisors \cup {NoThread}]
  /\ approval \in ApprovalStatuses
  /\ task \in TaskStatuses
  /\ outcome \in OutcomeRecords \cup {NoOutcome}
  /\ failures \in Nat
  /\ candidates \in Nat
  /\ pending \in BOOLEAN
  /\ turn \in [Attempts -> TurnRecords]
  /\ pc \in [Procs -> Labels]
  /\ upd \in [Procs -> RunStatuses \cup {NoUpdate}]
  /\ ins \in [Procs -> OutcomeRecords \cup {NoOutcome}]
  /\ decision \in [Resolvers -> {"none", "approved", "rejected"}]
  /\ local \in [Procs -> LocalRecords]

\* Somebody was invoked to approve, and wrote approval_state = 'approved'.
Granted ==
  \E r \in Resolvers : decision[r] = "approved" /\ pc[r] \in {"decide", "dispatch", "gone"}

Executing(s) == pc[s] \in ExecutionSteps

\* No process executes the run, and no outcome exists, before a user approved
\* the dispatch: whatever the interleaving of approvals, rejections, launches,
\* failed claims and their retries (policy.rs: "dispatch to an execution agent
\* requires approval").
ApprovalGatesExecution ==
  ~Granted => outcome = NoOutcome /\ \A s \in Supervisors : pc[s] = Idle

\* A run that reads succeeded, partial or failed has an outcome that says so,
\* although statuses and outcomes are also written by different statements.
TerminalHasOutcome ==
  run.status \in {"succeeded", "partial", "failed"} =>
    outcome # NoOutcome /\ TerminalStatus(outcome.kind) = run.status

Evidenced(o) ==
  LET c == o.cand
  IN /\ o.kind = "success" => c.status = "success" /\ c.checks
     /\ o.kind = "partial" => c.status = "partial" /\ c.checks /\ c.risks
     /\ o.by = "supervisor" => o.kind \in {"failed", "canceled"}

\* A success was evidenced: the candidate it points to claimed success and
\* passed every deterministic check; a partial one also named its risks; an
\* outcome written by a supervisor has no candidate and is never a success.
OutcomeIsEvidenced == Evidenced(outcome)

\* However many supervisors believe they execute the run, Codex is asked at
\* most once for the turn of an attempt (the outbox entry is the lock).
OneTurnPerAttempt == \A n \in Attempts : turn[n].accepted <= 1

\* A lone supervisor with one decision of the user, whatever fails and whenever it
\* is killed, records no more failures than the run has attempts: it gives up
\* instead of retrying.
RetriesStayInBudget == failures <= MaxAttempts

\* The run does what RunContract promises: at most one outcome is ever
\* recorded, it is never replaced or deleted, and only after a grant.
Contract == INSTANCE RunContract WITH
  Outcomes <- OutcomeRecords, NoOutcome <- NoOutcome, granted <- Granted, outcome <- outcome
RefinesContract == Contract!Spec

\* At most one process executes the run
\* (tests/dispatch_store.rs, dispatch_execution_claim_is_single_winner).
SingleExecutor == Cardinality({s \in Supervisors : Executing(s)}) <= 1

\* Every verdict that reaches commit_terminal_outcome can be committed.
VerdictIsCommittable ==
  \A w \in Submitters : pc[w] = "commit" => Committable(local[w].cand)
-----------------------------------------------------------------------------
(* The inductive invariant behind the theorems of DispatchRunProofs.        *)

\* A resolver only resolves, and knows what it was asked to decide.
ResolversDecide ==
  \A r \in Resolvers :
    pc[r] = Idle \/ (pc[r] \in ResolveSteps /\ decision[r] \in {"approved", "rejected"})

\* What is about to be inserted has been through the evaluator or is a
\* supervisor's: nothing else ever reaches the transaction.
InsertsAreEvidenced ==
  \A p \in Procs : pc[p] \in {"insert", "lastInsert"} =>
    ins[p] \in OutcomeRecords /\ Evidenced(ins[p])

\* No status write in flight claims a success, a partial success or a failure:
\* only the transaction that inserts the outcome writes those.
UpdatesNeverConclude == \A p \in Procs : upd[p] \notin {"succeeded", "partial", "failed"}

\* Before a grant the run is a proposal, or a canceled one, and nothing that
\* is in flight can change that.
GrantPrecedesWork ==
  ~Granted =>
    /\ run.status \in {"proposed", "canceled"}
    /\ outcome = NoOutcome
    /\ \A s \in Supervisors : pc[s] = Idle
    /\ \A w \in Submitters : pc[w] \in {Idle, "record", "ask", "evaluate"}
    /\ \A p \in Procs : upd[p] \in {NoUpdate, "canceled"}

\* The supervisor that inserted an attempt's outbox entry is the only one that
\* may ask for its turn, and has not asked yet.
SenderOwnsEntry ==
  \A s \in Supervisors : pc[s] = "await" /\ local[s].attempt \in Attempts =>
    LET n == local[s].attempt
    IN /\ turn[n].outbox = "pending" /\ turn[n].accepted = 0
       /\ \A t \in Supervisors \ {s} : pc[t] = "await" => local[t].attempt # n

NoTurnWithoutEntry == \A n \in Attempts : turn[n].outbox = "none" => turn[n].accepted = 0

InductiveInvariant ==
  /\ TypeOK /\ ResolversDecide
  /\ InsertsAreEvidenced /\ UpdatesNeverConclude
  /\ TerminalHasOutcome /\ OutcomeIsEvidenced
  /\ GrantPrecedesWork
  /\ SenderOwnsEntry /\ NoTurnWithoutEntry /\ OneTurnPerAttempt
-----------------------------------------------------------------------------
(* Scheduling: a live process takes its next step, which for a handshake may *)
(* be to wait forever; every other wait in it has a timeout.  The time      *)
(* budget is a wall clock that never runs back, so once a supervisor keeps  *)
(* coming to the top of its loop it finds the budget spent: strong fairness. *)

Working(p) ==
  \/ WriteStatus(p) \/ InsertOutcome(p)
  \/ p \in Resolvers /\ (ResolveRequest(p) \/ SetApprovalState(p) \/ DecideRun(p) \/ MarkDispatched(p))
  \/ p \in Supervisors /\ Supervisor(p)
  \/ p \in Submitters /\ (RecordCandidate(p) \/ AskUser(p) \/ StartEvaluation(p)
                          \/ EvaluationFails(p) \/ Settle(p) \/ CommitVerdict(p))

Fairness ==
  /\ \A p \in Procs : WF_vars(Working(p))
  /\ \A s \in Supervisors : SF_vars(TimeBudget(s))

FairSpec == Spec /\ Fairness

\* The owner keeps launching the run as long as it is approved.
Relaunched == WF_vars(\E s \in Supervisors : Launch(s))
RelaunchSpec == FairSpec /\ Relaunched

Hung(s) == pc[s] = "hung"

\* A supervisor that gets through its handshakes exits: no error, no missing
\* answer to a request and no silent turn keeps it alive past the time budget.
\* The one exception is a handshake Codex never answers, which nothing times out.
SupervisorExits == \A s \in Supervisors : pc[s] = "claim" ~> (pc[s] = Idle \/ Hung(s))

\* The run failed after it entered Running: record_runtime_error wrote its
\* failure, but the way back to Approved does not exist from there.  No
\* supervisor works on the run and none can be launched.
Stranded ==
  /\ failures > 0 /\ run.status \in {"running", "needs_user", "evaluating"}
  /\ \A s \in Supervisors : pc[s] = Idle

\* An approved run whose owner launches it whenever that is possible reaches an
\* outcome or is canceled, or it stops at one of the two points the supervisor
\* has no way out of: a failure after Running, which strands the run with the
\* failure on record, and a handshake that is not answered.  A start that fails
\* before Running does neither: the run is launched again, or given up.
ApprovedRunConcludes ==
  run.status = "approved" ~>
    (outcome # NoOutcome \/ run.status = "canceled" \/ Stranded \/ \E s \in Supervisors : Hung(s))
=============================================================================
