----------------------------- MODULE FeedSelection -----------------------------
(***************************************************************************)
(* How a scout round chooses: which candidates it enriches, whose competition *)
(* evidence it completes, which it asks the decision model about, and which it *)
(* shows (src/recommendation/engine.rs, competition_completion.rs,            *)
(* src/discovery.rs).                                                         *)
(*                                                                           *)
(* A candidate has an id, its repository and a trust tier; a ranked item also *)
(* whether it may be displayed, whether its evidence of competing work is     *)
(* missing, and whether its score is worth completing that evidence for.      *)
(* Sequences are in the order of sort_candidates or sort_by_feed, best first. *)
(***************************************************************************)
EXTENDS Naturals, Sequences, FiniteSets, SequencesExt, FiniteSetsExt, Arrangement

CONSTANTS
  SafePositions,  \* positions no item with missing evidence takes
  TopPositions,   \* positions that few such items take
  TopMissing,     \* how few
  PrimaryPerRepo, CompletedPerRepo  \* items of one repository, before and after completion

ASSUME SelectionAssumption ==
  SafePositions \in Nat /\ TopPositions \in Nat /\ TopMissing \in Nat /\ CompletedPerRepo \in Nat
-----------------------------------------------------------------------------
(* Bounded counts.                                                           *)

CeilPercent(n, percent) == (n * percent + 99) \div 100
HardPass(limit) == CeilPercent(limit, 70)
FallbackTarget(limit) == CeilPercent(limit, 80)
Prefill(limit) == Min({2 * limit, limit + 15})
CompletionBudget(limit) == Min({2 * limit, 30})

OfRepo(seq, repo) == Cardinality({n \in DOMAIN seq : seq[n].repo = repo})
-----------------------------------------------------------------------------
(* select_enrichment_candidates: shares of the budget per tier, what a tier    *)
(* leaves going to the next, then whoever is left.                            *)

Quota == [overlay |-> 5, profile |-> 4, gfi |-> 3, global |-> 2]
TakeCandidates(candidates, taken, tier, n) ==
  FoldLeft(LAMBDA s, c :
             IF /\ Len(s) < Len(taken) + n /\ tier \in {"any", c.tier}
                /\ \A m \in DOMAIN s : s[m].id # c.id /\ OfRepo(s, c.repo) < Quota[c.tier]
             THEN Append(s, c) ELSE s,
           taken, candidates)
SelectEnrichment(candidates, budget) ==
  LET share(percent) == (budget * percent) \div 100
      overlay == TakeCandidates(candidates, <<>>, "overlay", share(15))
      forProfile == share(35) + share(15) - Len(overlay)
      profile == TakeCandidates(candidates, overlay, "profile", forProfile)
      forGfi == share(30) + forProfile - (Len(profile) - Len(overlay))
      gfi == TakeCandidates(candidates, profile, "gfi", forGfi)
      global == TakeCandidates(candidates, gfi, "global", budget - share(15) - share(35) - share(30))
      all == TakeCandidates(candidates, global, "any", Max({0, budget - Len(global)}))
      chosen == Among(candidates, Range(all))
  IN SubSeq(chosen, 1, Min({budget, Len(chosen)}))
-----------------------------------------------------------------------------
(* What would be displayed, and whose evidence is completed.                  *)

DisplayCount(ranked, limit, perRepo) ==
  Len(FoldLeft(LAMBDA s, i : IF i.displayable /\ Len(s) < limit /\ OfRepo(s, i.repo) < perRepo
                             THEN Append(s, i) ELSE s, <<>>, ranked))

\* plan_completion: the keys to complete, and those the budget leaves.
VisibleIsh(ranked, n, limit) ==
  \/ /\ ranked[n].displayable
     /\ Cardinality({m \in 1..n : ranked[m].displayable}) <= 2 * limit
  \/ n <= Max({4 * limit, 10}) /\ ranked[n].worth
PlanCompletion(ranked, limit) ==
  LET wanted == Upward({n \in DOMAIN ranked : ranked[n].missing = "unfetched" /\ VisibleIsh(ranked, n, limit)})
      kept == IF limit = 0 THEN 0 ELSE Min({CompletionBudget(limit), Len(wanted)})
      ids(from, to) == {ranked[wanted[n]].id : n \in from..to}
  IN [complete |-> ids(1, kept), skipped |-> IF limit = 0 THEN {} ELSE ids(kept + 1, Len(wanted))]

\* semantic_pool_indices: the head of the pool and a spread over the rest.
PoolIndices(pool, budget) ==
  LET b == Min({budget, pool}) leading == Max({1, (b * 3) \div 4}) rest == b - leading IN
  IF b \in {0, pool} THEN [n \in 1..b |-> n]
  ELSE [n \in 1..b |-> IF n <= leading THEN n
                       ELSE leading + ((n - leading) * (pool - leading)) \div (rest + 1) + 1]
-----------------------------------------------------------------------------
(* select_display_candidates.                                                *)

IsMissing(i) == i.missing # "no"
CanPlaceMissing(position, topMissing) ==
  /\ position > SafePositions
  /\ position <= TopPositions => topMissing < TopMissing
MissingOnTop(page) == Cardinality({n \in DOMAIN page : n <= TopPositions /\ IsMissing(page[n])})
Fits(page, i) == IsMissing(i) => CanPlaceMissing(Len(page) + 1, MissingOnTop(page))
PlaceOrDefer(s, i, limit, perRepo) ==
  IF ~i.displayable \/ Len(s.page) = limit \/ OfRepo(s.page, i.repo) >= perRepo THEN s
  ELSE IF Fits(s.page, i) THEN [s EXCEPT !.page = Append(@, i)] ELSE [s EXCEPT !.deferred = Append(@, i)]
PlaceDeferred(page, i, limit, perRepo) ==
  IF Len(page) < limit /\ Len(page) >= SafePositions /\ OfRepo(page, i.repo) < perRepo /\ Fits(page, i)
  THEN Append(page, i) ELSE page
SelectDisplay(ranked, limit, perRepo) ==
  LET first == FoldLeft(LAMBDA s, i : PlaceOrDefer(s, i, limit, perRepo),
                        [page |-> <<>>, deferred |-> <<>>], ranked)
  IN FoldLeft(LAMBDA page, i : PlaceDeferred(page, i, limit, perRepo), first.page, first.deferred)
=============================================================================
