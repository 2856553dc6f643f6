------------------------------- MODULE MemoryHints -------------------------------
(***************************************************************************)
(* What the memory concludes and how a user controls it                       *)
(* (src/memory/commands.rs, store.rs, hints.rs, dreaming.rs, ingest.rs,       *)
(* controls.rs): outcomes of dispatches become raw events with nodes, a dream *)
(* draws candidate hints from them, the user reviews the hints, suppresses    *)
(* them or makes the memory forget, and a ranking uses those in force.        *)
(*                                                                           *)
(* Commands are processes on one database; a step is one statement, and a    *)
(* command may die between any two.  All hints here are of one scope.         *)
(***************************************************************************)
EXTENDS Naturals, Sequences, FiniteSets, SequencesExt

CONSTANTS Curators,  \* processes that run memory commands
          Outcomes,  \* dispatch outcomes recorded so far
          Targets,   \* statuses a user asks for
          MaxDreams, MaxChanges  \* bounds

VARIABLES raw,     \* per outcome, its raw event: "none", "kept" or "gone"
          node,    \* per outcome, the node of that event
          dreams,  \* the evidence of each dream and its status
          hints,   \* per dream: its hint's status and the statuses it had before
          control, \* the hint that suppresses the scope
          curator, \* the command each process is in
          approvedByUser, \* history: hints a user approved
          tombstonedByUser, \* history: hints a user was told are tombstoned
          forgot,  \* history: outcomes a user was told are forgotten
          overlappedMemory  \* history: two commands ran at once
memoryTables == <<raw, node, dreams, hints, control>>
memoryVars == <<memoryTables, curator, approvedByUser, tombstonedByUser, forgot, overlappedMemory>>
-----------------------------------------------------------------------------
ActiveStatuses == {"approved", "pinned", "deprioritized"}
HintStatuses == ActiveStatuses \cup {"candidate", "rejected", "suppressed", "stale", "tombstoned"}
ASSUME MemoryAssumption == Targets \subseteq HintStatuses \ {"candidate"} /\ 0 \notin Outcomes
NoHint == [status |-> "none", before |-> <<>>]
Away == [at |-> "away", hint |-> 0, target |-> "none", seen |-> "none", outcome |-> 0, todo |-> {},
         evidence |-> {}]
\* Hint 0 is the control hint of the scope.
Hint(h) == IF h = 0 THEN control ELSE hints[h]
HintIds == {0} \cup DOMAIN hints

\* validate_hint_transition
ValidTransition_Pin(from, to) ==
  \/ from = to
  \/ from = "candidate" /\ to \in ActiveStatuses \cup {"rejected", "tombstoned"}
  \/ from \in ActiveStatuses \cup {"suppressed"} /\ to \notin {"candidate", "rejected"}
  \/ from \in {"rejected", "stale"} /\ to = "tombstoned"
ValidTransition(from, to) ==
  \/ from = to
  \/ from = "candidate" /\ to \in {"approved", "rejected", "tombstoned"}
  \/ from \in ActiveStatuses \cup {"suppressed"} /\ to \notin {"candidate", "rejected"}
  \/ from \in {"rejected", "stale"} /\ to = "tombstoned"

Began(c, rec) ==
  /\ curator[c] = Away /\ curator' = [curator EXCEPT ![c] = rec]
  /\ overlappedMemory' = (overlappedMemory \/ \E d \in Curators : curator[d] # Away)
Moved(c, rec) == curator' = [curator EXCEPT ![c] = rec] /\ overlappedMemory' = overlappedMemory
NoHistory == UNCHANGED <<approvedByUser, tombstonedByUser, forgot>>
-----------------------------------------------------------------------------
(* transition_hint_status, restore_hint_prior_status                         *)

\* Changes recorded so far, which the bound counts.
Changes == Len(control.before) + FoldSeq(LAMBDA h, n : n + Len(h.before), 0, hints)
UpdateHint(c, h, target) ==
  /\ Hint(h) # NoHint /\ Changes < MaxChanges
  /\ Began(c, [Away EXCEPT !.at = "read", !.hint = h, !.target = target])
  /\ UNCHANGED memoryTables /\ NoHistory
\* Where a command goes when a hint is done: on with the tombstoning of dreams.
Afterwards(rec) == IF rec.outcome # 0 THEN [rec EXCEPT !.at = "dreams", !.hint = 0, !.target = "none", !.seen = "none"]
                   ELSE Away
Told(rec) == IF rec.target = "tombstoned" THEN tombstonedByUser' = tombstonedByUser \cup {rec.hint}
             ELSE UNCHANGED tombstonedByUser
ReadHint(c) ==
  LET rec == curator[c] from == Hint(rec.hint).status IN
  /\ rec.at = "read"
  /\ IF from = rec.target THEN Moved(c, Afterwards(rec)) /\ Told(rec)
     ELSE /\ Moved(c, IF ValidTransition(from, rec.target)
                      THEN [rec EXCEPT !.at = "write", !.seen = from] ELSE Away)
          /\ UNCHANGED tombstonedByUser
  /\ UNCHANGED <<memoryTables, approvedByUser, forgot>>
\* A restore that leaves it to the update whether a hint may change.
RestoreHint_Any(c, h) ==
  /\ Changes < MaxChanges /\ Hint(h).before # <<>>
  /\ Began(c, [Away EXCEPT !.at = "write", !.hint = h, !.seen = Hint(h).status,
                           !.target = Hint(h).before[Len(Hint(h).before)]])
  /\ UNCHANGED memoryTables /\ NoHistory
\* The status before the latest change, which is no transition to validate; the
\* two reads see the same row unless commands overlap.
RestoreHint(c, h) ==
  /\ Changes < MaxChanges /\ Hint(h).before # <<>> /\ Hint(h).status # "tombstoned"
  /\ Began(c, [Away EXCEPT !.at = "write", !.hint = h, !.seen = Hint(h).status,
                           !.target = Hint(h).before[Len(Hint(h).before)]])
  /\ UNCHANGED memoryTables /\ NoHistory
SetHint(h, rec) ==
  IF h = 0 THEN control' = rec /\ hints' = hints ELSE hints' = [hints EXCEPT ![h] = rec] /\ control' = control
WriteHint(c) ==
  LET rec == curator[c] IN
  /\ rec.at = "write"
  /\ SetHint(rec.hint, [Hint(rec.hint) EXCEPT !.status = rec.target])
  /\ approvedByUser' = IF rec.target = "approved" THEN approvedByUser \cup {rec.hint} ELSE approvedByUser
  /\ Moved(c, [rec EXCEPT !.at = "change"])
  /\ UNCHANGED <<raw, node, dreams, tombstonedByUser, forgot>>
RecordChange(c) ==
  LET rec == curator[c] IN
  /\ rec.at = "change"
  /\ SetHint(rec.hint, [Hint(rec.hint) EXCEPT !.before = Append(@, rec.seen)])
  /\ Moved(c, Afterwards(rec)) /\ Told(rec)
  /\ UNCHANGED <<raw, node, dreams, approvedByUser, forgot>>
\* memory_suppress_scope: one hint per scope, made once; a later call returns it as
\* it is by then.
SuppressScope(c) ==
  /\ curator[c] = Away
  /\ control' = IF control = NoHint THEN [NoHint EXCEPT !.status = "suppressed"] ELSE control
  /\ UNCHANGED <<raw, node, dreams, hints, curator, approvedByUser, tombstonedByUser, forgot, overlappedMemory>>
-----------------------------------------------------------------------------
(* memory_dream: sync_dispatch_outcome_feedback, then MemoryDreamEngine.     *)

Dream(c) ==
  /\ Len(dreams) < MaxDreams
  /\ Began(c, [Away EXCEPT !.at = "sync", !.todo = Outcomes])
  /\ UNCHANGED memoryTables /\ NoHistory
\* A sync that takes a forgotten event for a missing one.
SyncRaw_Revives(c, o) ==
  /\ curator[c].at = "sync" /\ o \in curator[c].todo
  /\ raw' = [raw EXCEPT ![o] = "kept"]
  /\ Moved(c, [curator[c] EXCEPT !.at = "node", !.outcome = o, !.todo = @ \ {o}])
  /\ UNCHANGED <<node, dreams, hints, control>> /\ NoHistory
\* ensure_raw_event: a row that is there is left alone, forgotten or not.
SyncRaw(c, o) ==
  /\ curator[c].at = "sync" /\ o \in curator[c].todo
  /\ raw' = [raw EXCEPT ![o] = IF @ = "none" THEN "kept" ELSE @]
  /\ Moved(c, [curator[c] EXCEPT !.at = "node", !.outcome = o, !.todo = @ \ {o}])
  /\ UNCHANGED <<node, dreams, hints, control>> /\ NoHistory
SyncNode(c) ==
  LET o == curator[c].outcome IN
  /\ curator[c].at = "node"
  /\ node' = [node EXCEPT ![o] = IF @ = "none" THEN "kept" ELSE @]
  /\ Moved(c, [curator[c] EXCEPT !.at = "sync", !.outcome = 0])
  /\ UNCHANGED <<raw, dreams, hints, control>> /\ NoHistory
\* DreamEvidence::collect drops what is forgotten.
CollectEvidence(c) ==
  /\ curator[c].at = "sync" /\ curator[c].todo = {}
  /\ LET kept == {o \in Outcomes : raw[o] = "kept"}
     IN Moved(c, IF kept = {} THEN Away ELSE [Away EXCEPT !.at = "dream", !.evidence = kept])
  /\ UNCHANGED memoryTables /\ NoHistory
InsertDream(c) ==
  /\ curator[c].at = "dream" /\ Len(dreams) < MaxDreams
  /\ dreams' = Append(dreams, [evidence |-> curator[c].evidence, status |-> "candidate"])
  /\ hints' = Append(hints, NoHint)
  /\ Moved(c, [Away EXCEPT !.at = "hint", !.hint = Len(dreams) + 1])
  /\ UNCHANGED <<raw, node, control>> /\ NoHistory
InsertHint(c) ==
  /\ curator[c].at = "hint"
  /\ hints' = [hints EXCEPT ![curator[c].hint].status = "candidate"]
  /\ Moved(c, Away)
  /\ UNCHANGED <<raw, node, dreams, control>> /\ NoHistory
-----------------------------------------------------------------------------
(* memory_tombstone of a raw event.                                          *)

Tombstone(c, o) ==
  /\ raw[o] # "none" /\ Began(c, [Away EXCEPT !.at = "forget", !.outcome = o])
  /\ UNCHANGED memoryTables /\ NoHistory
TombstoneRaw(c) ==
  /\ curator[c].at = "forget" /\ raw' = [raw EXCEPT ![curator[c].outcome] = "gone"]
  /\ Moved(c, [curator[c] EXCEPT !.at = "nodes"])
  /\ UNCHANGED <<node, dreams, hints, control>> /\ NoHistory
DreamsOn(o) == {d \in DOMAIN dreams : o \in dreams[d].evidence}
\* tombstone_nodes_by_id, which takes the edges and the indexes with it.
TombstoneNodes(c) ==
  /\ curator[c].at = "nodes"
  /\ node' = [node EXCEPT ![curator[c].outcome] = IF @ = "none" THEN @ ELSE "gone"]
  /\ Moved(c, [curator[c] EXCEPT !.at = "dreams", !.todo = DreamsOn(curator[c].outcome)])
  /\ UNCHANGED <<raw, dreams, hints, control>> /\ NoHistory
\* tombstone_dreams_by_evidence, each dream and then its hints.
TombstoneDream(c, d) ==
  /\ curator[c].at = "dreams" /\ d \in curator[c].todo
  /\ dreams' = [dreams EXCEPT ![d].status = "tombstoned"]
  /\ Moved(c, [curator[c] EXCEPT !.todo = @ \ {d}, !.hint = d, !.target = "tombstoned",
                                 !.at = IF hints[d] = NoHint THEN "dreams" ELSE "read"])
  /\ UNCHANGED <<raw, node, hints, control>> /\ NoHistory
FinishTombstone(c) ==
  /\ curator[c].at = "dreams" /\ curator[c].todo = {}
  /\ forgot' = forgot \cup {curator[c].outcome} /\ Moved(c, Away)
  /\ UNCHANGED <<memoryTables, approvedByUser, tombstonedByUser>>
Killed(c) ==
  /\ curator[c] # Away /\ Moved(c, Away) /\ UNCHANGED memoryTables /\ NoHistory
-----------------------------------------------------------------------------
MemoryInit ==
  /\ raw = [o \in Outcomes |-> "none"] /\ node = [o \in Outcomes |-> "none"]
  /\ dreams = <<>> /\ hints = <<>> /\ control = NoHint
  /\ curator = [c \in Curators |-> Away]
  /\ approvedByUser = {} /\ tombstonedByUser = {} /\ forgot = {} /\ overlappedMemory = FALSE
MemoryNext ==
  \E c \in Curators :
    \/ \E h \in HintIds : RestoreHint(c, h) \/ \E t \in Targets : UpdateHint(c, h, t)
    \/ ReadHint(c) \/ WriteHint(c) \/ RecordChange(c) \/ SuppressScope(c)
    \/ Dream(c) \/ \E o \in Outcomes : SyncRaw(c, o) \/ Tombstone(c, o)
    \/ SyncNode(c) \/ CollectEvidence(c) \/ InsertDream(c) \/ InsertHint(c)
    \/ TombstoneRaw(c) \/ TombstoneNodes(c) \/ FinishTombstone(c)
    \/ \E d \in DOMAIN dreams : TombstoneDream(c, d)
    \/ Killed(c)
MemorySpec == MemoryInit /\ [][MemoryNext]_memoryVars
-----------------------------------------------------------------------------
\* decision_eligible_hints of the scope: nothing while any hint of it suppresses.
InForce == IF \E h \in HintIds : Hint(h).status = "suppressed" THEN {}
           ELSE {h \in HintIds : Hint(h).status \in ActiveStatuses}

\* Whatever reviews and restores overlap or die: a hint a dream proposed takes part in
\* a ranking only when a user approved it some time.
InForceWasApproved == InForce \ {0} \subseteq approvedByUser
\* Once a user was told that an event is forgotten, no hint in force rests on it
\* and no later dream does, however often an earlier attempt to forget died
\* half-way, as long as no two commands overlap.
ForgottenHasNoSay ==
  ~overlappedMemory => \A h \in InForce \ {0} : dreams[h].evidence \cap forgot = {}
\* Once a user was told that a hint is tombstoned it stays so, as long as no two
\* commands overlap: no review, restore or later dream brings it back.
TombstonesStay ==
  ~overlappedMemory => \A h \in tombstonedByUser : Hint(h).status = "tombstoned"

\* What the user said about the memory holds: a hint takes part in a ranking only if it
\* was approved, none that was tombstoned comes back, and none rests on an event that was
\* forgotten (store.rs, dreaming.rs, commands.rs).
HintsFollowTheUser == InForceWasApproved /\ TombstonesStay /\ ForgottenHasNoSay
=============================================================================
