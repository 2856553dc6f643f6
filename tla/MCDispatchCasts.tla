--------------------------- MODULE MCDispatchCasts ---------------------------
(* DispatchRun with several casts in one state space.                       *)
EXTENDS MCDispatchRun

\* Invocations, supervisor processes and submitters are interchangeable.
CastSymmetry ==
  Permutations(TwoResolvers) \cup Permutations(TwoSupervisors) \cup Permutations(TwoSubmitters)

\* Who takes part: two invocations and two supervisors, or one of each with two
\* submitters.  The others stay idle.
VARIABLE cast
Casts ==
  {Resolvers \cup Supervisors}
    \cup {{r, s} \cup Submitters : r \in Resolvers, s \in Supervisors}
MaxFailures == 2  \* bound: failure rows of two supervisors
CastNext ==
  /\ Next /\ cast' = cast
  /\ \A p \in Procs \ cast : pc'[p] = pc[p]
  /\ Supervisors \subseteq cast => failures' <= MaxFailures
CastInit == Init /\ cast \in Casts
CastSpec == CastInit /\ [][CastNext]_<<vars, cast>>
=============================================================================
