---------------------------- MODULE MCSupervision ----------------------------
(* The supervisor of a dispatch run and its app-server client, one at a time,*)
(* each under the fairness of its own module.                               *)
EXTENDS MCDispatchRun, AppServerClient

CONSTANTS k1, steer

OneClient == {k1}
OneControl == {steer}

VARIABLE part
supervisionVars == <<part, vars, clientVars>>

SupervisionInit == Init /\ ClientInit /\ part \in {"run", "client"}

\* Bound: the second connection carries one notification.
BoundedNotes == \A s \in Clients : epoch'[s] > 1 => conn'[s].notes <= 1

SupervisionNext ==
  /\ UNCHANGED part
  /\ \/ part = "run" /\ Next /\ UNCHANGED clientVars
     \/ part = "client" /\ ClientNext /\ BoundedNotes /\ UNCHANGED vars

\* Fairness and Relaunched of DispatchRun.
RunFairness ==
  /\ \A p \in Procs : WF_vars(part = "run" /\ Working(p))
  /\ \A s \in Supervisors : SF_vars(part = "run" /\ TimeBudget(s))
  /\ WF_vars(part = "run" /\ \E s \in Supervisors : Launch(s))

\* The fairness of ClientFairSpec.
ClientFairness ==
  \A s \in Clients : /\ WF_clientVars(part = "client" /\ Worker(s))
                     /\ WF_clientVars(part = "client" /\ Loop(s))
                     /\ WF_clientVars(part = "client" /\ Handle(s))
                     /\ WF_clientVars(part = "client" /\ TimesOut(s))

SupervisionSpec ==
  /\ SupervisionInit
  /\ [][SupervisionNext]_supervisionVars
  /\ RunFairness /\ ClientFairness
=============================================================================
