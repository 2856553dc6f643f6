---------------------------- MODULE DispatchStore ----------------------------
(***************************************************************************)
(* The vocabulary of the dispatch database (src/dispatch/model.rs and the  *)
(* free functions of src/dispatch/store.rs): the statuses a run, an        *)
(* approval and an issue task can have, the transition table that guards   *)
(* update_dispatch_run_status, and what an outcome kind does to the run    *)
(* and to its issue task.  Constant-level, so the facts about it are proved *)
(* once (DispatchRunProofs) and used by every module that extends it.      *)
(***************************************************************************)
EXTENDS Naturals

RunStatuses ==
  {"proposed", "approved", "starting", "running", "needs_user", "evaluating",
   "succeeded", "partial", "failed", "canceled"}

ApprovalStatuses == {"pending", "approved", "rejected", "canceled"}

TaskStatuses ==
  {"user_approved", "dispatched", "in_progress",
   "succeeded", "partial", "failed", "canceled"}

OutcomeKinds == {"success", "partial", "failed", "canceled"}

\* dispatch_terminal: no supervisor and no evaluator works on such a run.
TerminalStatuses == {"succeeded", "partial", "failed", "canceled"}
IsTerminal(status) == status \in TerminalStatuses

\* valid_run_transition.  "starting" may go back to "approved" (a retry), but
\* "running", "needs_user" and "evaluating" may not; "needs_user" leads nowhere
\* near an outcome except through "running".
RunEdge(from, to) ==
  \/ from = "proposed"   /\ to \in {"approved", "canceled"}
  \/ from = "approved"   /\ to \in {"starting", "canceled"}
  \/ from = "starting"   /\ to \in {"running", "failed", "approved"}
  \/ from = "running"    /\ to \in {"needs_user", "evaluating", "failed", "canceled"}
  \/ from = "needs_user" /\ to \in {"running", "canceled"}
  \/ from = "evaluating" /\ to \in {"running", "needs_user"} \cup TerminalStatuses

ValidRunTransition(from, to) == from = to \/ RunEdge(from, to)

\* The run keeps the word of the outcome: "success" is not a run status.
TerminalStatus_Verbatim(kind) == kind

\* DispatchOutcomeKind::terminal_status; the issue task gets the same word.
TerminalStatus(kind) == IF kind = "success" THEN "succeeded" ELSE kind
=============================================================================
