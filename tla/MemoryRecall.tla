------------------------------ MODULE MemoryRecall ------------------------------
(***************************************************************************)
(* What recalling a memory does to it (src/memory/activation.rs, graph.rs,    *)
(* writeback.rs): an activation scores the nodes a query matches and those an *)
(* edge leads to, and its writeback spends the resource of each recalled node *)
(* and strengthens the first.                                                *)
(*                                                                           *)
(* Scores are in units of 1/10000, strength counts gains of 0.25 and resource *)
(* the spendings of 0.2 that are left.  Every statement of a writeback is a   *)
(* step of its own: the state is stored before the record that says so.      *)
(***************************************************************************)
EXTENDS Naturals, Integers, Sequences, FiniteSets, Arrangement

CONSTANTS Readers,   \* processes that activate and write back
          Memories,  \* nodes, each of a raw event of its own, by id
          Trust,     \* per node: trust level of its event
          Queries,   \* what an activation may match: per node the indexes it is found in
          MaxActivations, Limit, MaxDeaths  \* bounds

ASSUME RecallAssumption ==
  /\ Memories \subseteq Nat /\ IsFiniteSet(Memories) /\ Limit \in Nat \ {0}
  /\ Trust \in [Memories -> {"user", "github", "system", "agent", "llm"}]
  /\ \A q \in Queries : q.found \in [Memories -> SUBSET {"fts", "rare", "entity"}]

VARIABLES forgotten,  \* nodes whose raw event is tombstoned
          state,      \* per node: strength, resource, recalls, reinforcements
          edgeGains,  \* how often the edge between the nodes was reinforced
          activated,  \* per activation: its items, by rank
          records,    \* rows of memory_writebacks
          reader,     \* what each process is doing
          deaths, overlappedRecall  \* history
recallVars == <<forgotten, state, edgeGains, activated, records, reader, deaths, overlappedRecall>>
-----------------------------------------------------------------------------
Actions == <<"recalled", "resource", "reinforced">>
Fresh == [strength |-> 0, resource |-> 5, recalls |-> 0, reinforcements |-> 0]
AtRest == [at |-> "rest", run |-> 0, left |-> <<>>, act |-> 0, mine |-> Fresh, gains |-> 0]
Least(a, b) == IF a < b THEN a ELSE b

\* add_text_seed_matches, add_entity_seed_matches: the direct score.
Weight == [fts |-> 4500, rare |-> 7500, entity |-> 9000]
Direct(q, n) == IF n \in forgotten THEN 0
                ELSE (IF "fts" \in q.found[n] THEN Weight.fts ELSE 0)
                     + (IF "rare" \in q.found[n] THEN Weight.rare ELSE 0)
                     + (IF "entity" \in q.found[n] THEN Weight.entity ELSE 0)
\* add_near_ripple: an edge leads from its matched end to the other; from both
\* ends only to the second.
EdgeScore == 8000 + 1200 * edgeGains
Ripple(q, n) ==
  LET from == CHOOSE m \in Memories : \A k \in Memories : m <= k
      seed(m) == Direct(q, m) > 0
  IN IF Cardinality(Memories) < 2 \/ n \in forgotten \/ forgotten # {} THEN 0
     ELSE IF n # from /\ seed(from) THEN EdgeScore
     ELSE IF n = from /\ ~seed(from) /\ \E m \in Memories \ {n} : seed(m) THEN EdgeScore ELSE 0
\* role_trust_penalty and the other terms of settle_candidates.
TrustPenalty == [user |-> 0, github |-> 500, system |-> 1500, agent |-> 2000, llm |-> 11000]
ResourcePenalty_Doubled(n) == 2 * 1300 * (5 - state[n].resource)
ResourcePenalty(n) == Least(1300 * (5 - state[n].resource), 6500)
Score(q, n) ==
  Direct(q, n) + Ripple(q, n) + Least(375 * state[n].strength, 4500)
  + (IF n \in q.recent THEN 2500 ELSE 0) - ResourcePenalty(n) - TrustPenalty[Trust[n]]
  - (IF Direct(q, n) = 0 THEN 1500 ELSE 0)
Recalled(q) == {n \in Memories : n \notin forgotten /\ Direct(q, n) + Ripple(q, n) > 0 /\ Score(q, n) > 0}
\* The items of an activation: by score, then by id, at most Limit of them.
Ranked(q) ==
  LET before == {p \in Memories \X Memories :
                   Score(q, p[1]) > Score(q, p[2]) \/ (Score(q, p[1]) = Score(q, p[2]) /\ p[1] < p[2])}
      order == Arranged(Recalled(q), before)
  IN [k \in 1 .. Least(Len(order), Limit) |->
        [node |-> order[k], direct |-> Direct(q, order[k]) > 0, ripple |-> Ripple(q, order[k]) > 0, rank |-> k]]
-----------------------------------------------------------------------------
Became(r, rec) ==
  /\ reader' = [reader EXCEPT ![r] = rec]
  /\ overlappedRecall' = (overlappedRecall
       \/ (rec # AtRest /\ \E s \in Readers \ {r} : reader[s] # AtRest))

Activate(r, q) ==
  /\ reader[r] = AtRest /\ Len(activated) < MaxActivations
  /\ activated' = Append(activated, Ranked(q))
  /\ UNCHANGED <<forgotten, state, edgeGains, records, reader, deaths, overlappedRecall>>
\* MemoryWritebackGuard::apply; it may be called again for the same activation.
BeginWriteback(r, a) ==
  /\ reader[r] = AtRest /\ activated[a] # <<>>
  /\ Became(r, [AtRest EXCEPT !.at = "item", !.run = a, !.left = activated[a]])
  /\ UNCHANGED <<forgotten, state, edgeGains, activated, records, deaths>>

NextItem(rec) == IF Len(rec.left) <= 1 THEN AtRest
                 ELSE [AtRest EXCEPT !.at = "item", !.run = rec.run, !.left = Tail(rec.left)]
\* A writeback that does not ask whether the event was forgotten.
ReadState_Unchecked(r) ==
  /\ reader[r].at = "item"
  /\ Became(r, [reader[r] EXCEPT !.at = "store", !.act = 1, !.mine = state[Head(reader[r].left).node]])
  /\ UNCHANGED <<forgotten, state, edgeGains, activated, records, deaths>>
\* node_can_write_back, then state_or_default: one read for all three actions.
ReadState(r) ==
  LET node == Head(reader[r].left).node IN
  /\ reader[r].at = "item"
  /\ IF node \in forgotten THEN Became(r, NextItem(reader[r]))
     ELSE Became(r, [reader[r] EXCEPT !.at = "store", !.act = 1, !.mine = state[node]])
  /\ UNCHANGED <<forgotten, state, edgeGains, activated, records, deaths>>

CanReinforce(item) == item.rank = 1 /\ item.direct /\ Trust[item.node] # "llm" /\ item.node \notin forgotten
\* Where the item goes on when an action is done or was done before.
OnWith(rec) ==
  LET item == Head(rec.left) IN
  IF rec.act = 1 \/ (rec.act = 2 /\ CanReinforce(item)) THEN [rec EXCEPT !.at = "store", !.act = @ + 1]
  ELSE IF rec.act = 3 /\ item.ripple THEN [rec EXCEPT !.at = "edge"] ELSE NextItem(rec)
Row(rec) == <<rec.run, Head(rec.left).node, Actions[rec.act]>>
Applied(s, act) ==
  CASE act = 1 -> [s EXCEPT !.recalls = @ + 1]
    [] act = 2 -> [s EXCEPT !.resource = IF @ = 0 THEN 0 ELSE @ - 1]
    [] act = 3 -> [s EXCEPT !.strength = @ + 1, !.reinforcements = @ + 1]

\* Applied whether or not it was recorded before.
StoreState_Again(r) ==
  LET rec == reader[r] new == Applied(rec.mine, rec.act) IN
  /\ rec.at = "store"
  /\ state' = [state EXCEPT ![Head(rec.left).node] = new]
  /\ Became(r, [rec EXCEPT !.at = "record", !.mine = new])
  /\ UNCHANGED <<forgotten, edgeGains, activated, records, deaths>>
\* apply_recalled, apply_resource_decrement, apply_reinforced: unless recorded,
\* the whole state is stored, as this call has it ...
StoreState(r) ==
  LET rec == reader[r] new == Applied(rec.mine, rec.act) IN
  /\ rec.at = "store"
  /\ IF Row(rec) \in records THEN Became(r, OnWith(rec)) /\ UNCHANGED state
     ELSE /\ state' = [state EXCEPT ![Head(rec.left).node] = new]
          /\ Became(r, [rec EXCEPT !.at = "record", !.mine = new])
  /\ UNCHANGED <<forgotten, edgeGains, activated, records, deaths>>
\* ... and then the record, which fails when another call was first.
InsertRecord(r) ==
  LET rec == reader[r] IN
  /\ rec.at = "record" /\ records' = records \cup {Row(rec)}
  /\ Became(r, IF Row(rec) \in records THEN AtRest ELSE OnWith(rec))
  /\ UNCHANGED <<forgotten, state, edgeGains, activated, deaths>>

EdgeRow(rec) == <<rec.run, Head(rec.left).node, "edge">>
\* reinforce_related_edges reads the edges afresh for each item.
ReadEdge(r) ==
  LET rec == reader[r] IN
  /\ rec.at = "edge"
  /\ IF EdgeRow(rec) \in records \/ forgotten # {} THEN Became(r, NextItem(rec))
     ELSE Became(r, [rec EXCEPT !.at = "edge_store", !.gains = edgeGains])
  /\ UNCHANGED <<forgotten, state, edgeGains, activated, records, deaths>>
StoreEdge(r) ==
  /\ reader[r].at = "edge_store" /\ edgeGains' = reader[r].gains + 1
  /\ Became(r, [reader[r] EXCEPT !.at = "edge_record"])
  /\ UNCHANGED <<forgotten, state, activated, records, deaths>>
RecordEdge(r) ==
  /\ reader[r].at = "edge_record" /\ records' = records \cup {EdgeRow(reader[r])}
  /\ Became(r, IF EdgeRow(reader[r]) \in records THEN AtRest ELSE NextItem(reader[r]))
  /\ UNCHANGED <<forgotten, state, edgeGains, activated, deaths>>

\* tombstone_raw_event as a reader sees it (MemoryForgetting has its steps).
Forget(n) ==
  /\ n \notin forgotten /\ forgotten' = forgotten \cup {n}
  /\ overlappedRecall' = (overlappedRecall \/ \E r \in Readers : reader[r] # AtRest)
  /\ UNCHANGED <<state, edgeGains, activated, records, reader, deaths>>
Die(r) ==
  /\ reader[r] # AtRest /\ deaths < MaxDeaths /\ deaths' = deaths + 1
  /\ reader' = [reader EXCEPT ![r] = AtRest]
  /\ UNCHANGED <<forgotten, state, edgeGains, activated, records, overlappedRecall>>
-----------------------------------------------------------------------------
RecallInit ==
  /\ forgotten = {} /\ state = [n \in Memories |-> Fresh] /\ edgeGains = 0
  /\ activated = <<>> /\ records = {} /\ reader = [r \in Readers |-> AtRest]
  /\ deaths = 0 /\ overlappedRecall = FALSE
RecallNext ==
  \/ \E r \in Readers :
       \/ \E q \in Queries : Activate(r, q)
       \/ \E a \in DOMAIN activated : BeginWriteback(r, a)
       \/ ReadState(r) \/ StoreState(r) \/ InsertRecord(r)
       \/ ReadEdge(r) \/ StoreEdge(r) \/ RecordEdge(r) \/ Die(r)
  \/ \E n \in Memories : Forget(n)
RecallSpec == RecallInit /\ [][RecallNext]_recallVars
-----------------------------------------------------------------------------
Rows(n, act) == Cardinality({r \in records : r[2] = n /\ r[3] = act})
\* As long as no two commands overlap, what the records say was applied: however
\* often a writeback dies and is called again, it is applied for each activation,
\* and once more at most for every time it died.
RecallsMatchRecords ==
  ~overlappedRecall => \A n \in Memories :
    LET busy == IF \E r \in Readers : reader[r].at = "record" THEN 1 ELSE 0 IN
    /\ Rows(n, "recalled") <= state[n].recalls
    /\ Rows(n, "reinforced") <= state[n].reinforcements
    /\ state[n].recalls <= Rows(n, "recalled") + deaths + busy
    /\ state[n].reinforcements <= Rows(n, "reinforced") + deaths + busy
    /\ Rows(n, "edge") <= edgeGains
\* A forgotten memory is neither changed nor recalled any more, as long as no two
\* commands overlap.
ForgottenIsUnchanged ==
  [][~overlappedRecall' => \A n \in forgotten : state'[n] = state[n]]_recallVars
ForgottenIsNotRecalled ==
  [][~overlappedRecall' /\ activated' # activated =>
       LET items == activated'[Len(activated')] IN
       \A k \in DOMAIN items : items[k].node \notin forgotten]_recallVars
ForgottenIsLeftAlone == ForgottenIsUnchanged /\ ForgottenIsNotRecalled
\* Recalling spends what nothing gives back; still a memory an entity leads to is
\* found however often it was recalled, unless only a model inferred it.
NeverExhausted ==
  \A q \in Queries, n \in Memories \ forgotten :
    "entity" \in q.found[n] /\ Trust[n] # "llm" => n \in Recalled(q)

\* Neither a writeback that dies between the state and its record, nor the resource
\* that recalling spends and nothing restores, makes the memory wrong: what was applied
\* is what the records say, and what should be found is (writeback.rs, activation.rs).
RecallIsAccounted == RecallsMatchRecords /\ NeverExhausted
=============================================================================
