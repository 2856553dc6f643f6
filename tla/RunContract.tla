----------------------------- MODULE RunContract -----------------------------
(***************************************************************************)
(* What a dispatch run promises to the person who owns it, with no          *)
(* processes, no rows and no statuses: execution is granted at some point,  *)
(* and after that at most one outcome is ever recorded, for good.           *)
(* DispatchRun is shown to implement this.                                  *)
(***************************************************************************)
CONSTANTS Outcomes,     \* the outcomes that can be recorded
          NoOutcome     \* "nothing recorded yet"

VARIABLES granted,      \* somebody approved the dispatch
          outcome       \* the recorded outcome
contractVars == <<granted, outcome>>

Init == granted = FALSE /\ outcome = NoOutcome

Grant == ~granted /\ granted' = TRUE /\ UNCHANGED outcome

Close == granted /\ outcome = NoOutcome /\ outcome' \in Outcomes /\ UNCHANGED granted

Next == Grant \/ Close

Spec == Init /\ [][Next]_contractVars
=============================================================================
