------------------------------ MODULE ScoutRound ------------------------------
(***************************************************************************)
(* One scout of the recommendation engine (src/recommendation/engine.rs): it *)
(* reads lanes of candidates until enough can be displayed, completes the    *)
(* evidence of competing work, asks the decision model about a bounded pool,  *)
(* checks the provisional page again and shows it.                           *)
(*                                                                           *)
(* The user and other commands append feedback at any moment; every ranking   *)
(* reads the log anew.  The results of concurrent requests are collected      *)
(* before anything uses them, so a batch is one step.                         *)
(***************************************************************************)
EXTENDS Integers, FeedSelection, TLC

CONSTANTS
  Lanes,      \* per stage, the ids its discovery returns, best first
  RepoOf, TierOf, WorthOf,  \* of each id: repository, tier, intrinsic rank
  PageLimit,  \* items asked for
  EnrichLimit, FallbackLimit, TrustedLimit, RefillLimit, StageLimit,  \* per stage
  BatchSize, TimelineCandidates, CandidateBudget,
  MaxFeedback \* bound: feedback the user gives during the scout

VARIABLES round,  \* the scout: its options, where it is and what it ranked
          log,    \* feedback events: issues shown, and issues dismissed
          asked,  \* history: candidates enriched in each stage, judged by the model
          stirred \* history: the log changed since the last pass of the recheck
scoutVars == <<round, log, asked, stirred>>
-----------------------------------------------------------------------------
Ids == DOMAIN RepoOf
GlobalStages == {"first", "trusted", "global", "trustedRefill", "globalRefill"}
RepositoryStages == <<"beginner", "signals", "recent100", "recent300", "recent500">>
ASSUME ScoutAssumption ==
  /\ DOMAIN Lanes = GlobalStages \cup Range(RepositoryStages)
  /\ \A s \in DOMAIN Lanes : Lanes[s] \in Seq(Ids) /\ IsInjective(Lanes[s])
  /\ BatchSize \in Nat \ {0} /\ PageLimit \in Nat \ {0}
  /\ Ids \subseteq Nat /\ WorthOf \in [Ids -> Int]
  /\ {EnrichLimit, FallbackLimit, TrustedLimit, RefillLimit, StageLimit, CandidateBudget} \subseteq Nat

Codex == round.policy = "codex"
PerRepo == IF round.mode = "global" THEN PrimaryPerRepo ELSE PageLimit
PerRepoAtLast == IF round.mode = "global" THEN CompletedPerRepo ELSE PageLimit
KeysOf(seq) == {seq[n].id : n \in DOMAIN seq}

\* recommendation_assessment.  Codex takes no account of dismissals, and knows an
\* item by GitHub facts and semantic answers.
Visible(i) ==
  IF Codex THEN i.facts # "blocked" /\ i.verdict # "unfit"
  ELSE ~i.poor /\ i.id \notin log.dismissed
BoardScore(i) ==
  WorthOf[i.id] + (IF i.facts = "blocked" THEN 6 ELSE IF i.verdict = "fit" THEN 20 ELSE 10)
                - (IF i.id \in log.shown THEN 5 ELSE 0)
\* apply_feed_ranking: assessments from the log as it is, and the order they give.
Assessed(i) == [i EXCEPT !.displayable = Visible(i), !.worth = BoardScore(i) >= 10, !.score = BoardScore(i)]
Ahead(a, b) ==
  \/ a.displayable /\ ~b.displayable
  \/ a.displayable = b.displayable /\ a.score > b.score
  \/ a.displayable = b.displayable /\ a.score = b.score /\ a.id < b.id
FeedRanking(ranked) == StablySorted(AsTuple([n \in DOMAIN ranked |-> Assessed(ranked[n])]), Ahead)

Goes(at) == round' = [round EXCEPT !.at = at]
Quiet == UNCHANGED <<log, asked>>
\* What the scout itself does leaves the history of the log as it is.
Undisturbed == stirred' = stirred
-----------------------------------------------------------------------------
NoRound == [at |-> "idle", mode |-> "none", policy |-> "none", stage |-> "none", ranked |-> <<>>,
            queue |-> <<>>, taken |-> 0, left |-> 0, stop |-> 0, found |-> {}, checked |-> {}, page |-> <<>>]
ScoutInit ==
  /\ round = NoRound /\ log = [shown |-> {}, dismissed |-> {}]
  /\ asked = [s \in DOMAIN Lanes \cup {"model"} |-> 0] /\ stirred = FALSE

\* scout: which run, and under which feedback policy.
Begin ==
  /\ round.at = "idle"
  /\ \E mode \in {"global", "repository"}, policy \in {"codex", "legacy"} :
       round' = [NoRound EXCEPT !.at = "discover", !.mode = mode, !.policy = policy,
                                !.stage = IF mode = "global" THEN "first" ELSE "beginner"]
  /\ Quiet /\ Undisturbed

\* Additional candidates whose keys are ranked already are dropped; a repository
\* stage also drops those an earlier stage returned.
Fresh_Duplicated(lane) == lane
Fresh(lane) ==
  Among(lane, Ids \ (KeysOf(round.ranked) \cup (IF round.mode = "repository" THEN round.found ELSE {})))
Candidate(id) == [id |-> id, repo |-> RepoOf[id], tier |-> TierOf[id]]
Selected(lane, budget) ==
  LET candidates == [n \in DOMAIN lane |-> Candidate(lane[n])]
      chosen == IF round.mode = "global" THEN SelectEnrichment(candidates, budget)
                ELSE SubSeq(candidates, 1, Min({budget, Len(candidates)}))
  IN [n \in DOMAIN chosen |-> chosen[n].id]
StageBudget(stage) ==
  CASE stage = "first" -> EnrichLimit
    [] stage = "trusted" -> Min({TrustedLimit, FallbackLimit})
    [] stage = "global" -> round.left
    [] stage \in {"trustedRefill", "globalRefill"} -> RefillLimit
    [] OTHER -> StageLimit
StopAt(stage) ==
  CASE stage = "first" -> Prefill(PageLimit)
    [] stage \in {"trusted", "trustedRefill"} -> Max({FallbackTarget(PageLimit), Prefill(PageLimit)})
    [] stage \in {"global", "globalRefill"} -> Max({HardPass(PageLimit), Prefill(PageLimit)})
    [] OTHER -> PageLimit
\* The lane of a stage arrives.  A lane that fails ends the scout, except that the
\* signals fail one by one, in silence, and a recent window ends the reading.
Discover ==
  /\ round.at = "discover"
  /\ \/ \E lane \in {Lanes[round.stage]} \cup (IF round.stage = "signals" THEN {<<>>} ELSE {}) :
        LET queue == Selected(Fresh(lane), StageBudget(round.stage)) IN
        round' = [round EXCEPT !.at = "rank", !.queue = queue, !.taken = 0, !.stop = StopAt(round.stage),
                               !.found = @ \cup Range(lane)]
     \/ round.stage # "signals" /\ Goes(IF round.stage \in {"recent100", "recent300", "recent500"}
                                        THEN "decide" ELSE "failed")
  /\ Quiet /\ Undisturbed

\* rank_single_issue: Codex asks for its availability first, and for nothing else
\* when that excludes it; the first candidates of a stage have a timeline.
Enriched(id, n, failed, blocked, poor) ==
  [id |-> id, repo |-> RepoOf[id], displayable |-> TRUE, worth |-> TRUE, score |-> 0,
   missing |-> IF n > TimelineCandidates \/ id \in blocked THEN "unfetched"
               ELSE IF id \in failed THEN "failed" ELSE "no",
   facts |-> IF ~Codex THEN "none" ELSE IF id \in blocked THEN "blocked" ELSE "free",
   depth |-> IF Codex THEN "initial" ELSE "none",
   verdict |-> IF Codex THEN "pending" ELSE "none", poor |-> ~Codex /\ id \in poor]
RankBatch ==
  LET size == Min({BatchSize, Len(round.queue)})
      batch == SubSeq(round.queue, 1, size) IN
  /\ round.at = "rank" /\ size > 0
  /\ \E failed \in SUBSET Range(batch) :
     \E blocked \in SUBSET (IF Codex THEN Range(batch) ELSE {}), poor \in SUBSET (IF Codex THEN {} ELSE Range(batch)) :
       LET ranked == FeedRanking(round.ranked \o
                        [n \in 1..size |-> Enriched(batch[n], round.taken + n, failed, blocked, poor)])
            enough == DisplayCount(ranked, PageLimit, PerRepo) >= round.stop IN
        round' = [round EXCEPT !.ranked = ranked, !.taken = @ + size,
                    !.queue = IF enough THEN <<>> ELSE SubSeq(@, size + 1, Len(@))]
  /\ asked' = [asked EXCEPT ![round.stage] = @ + size]
  /\ UNCHANGED log /\ Undisturbed
\* The stage has run.  The first fallbacks come before the completion, and what
\* the trusted one consumed is no longer there for the global one.
\* A trusted fallback that hands its whole budget on.
LeftForGlobal_Whole == FallbackLimit
LeftForGlobal == FallbackLimit - round.taken
Ranked ==
  LET left == IF round.stage = "trusted" THEN LeftForGlobal ELSE round.left
      short == DisplayCount(round.ranked, PageLimit, PerRepo) < HardPass(PageLimit) IN
  /\ round.at = "rank" /\ round.queue = <<>>
  /\ round' = CASE round.stage = "first" /\ short -> [round EXCEPT !.at = "discover", !.stage = "trusted"]
                [] round.stage = "trusted" /\ short /\ left > 0 ->
                     [round EXCEPT !.at = "discover", !.stage = "global", !.left = left]
                [] OTHER -> [round EXCEPT !.at = "complete", !.left = left]
  /\ Quiet /\ Undisturbed

\* complete_competition_evidence, and the stage after it.  In legacy rounds the
\* completed evidence may make an item poor.
NextStage(ranked) ==
  LET short == Len(SelectDisplay(ranked, PageLimit, PerRepoAtLast)) < HardPass(PageLimit)
      lacking == DisplayCount(ranked, PageLimit, PerRepo) < PageLimit
      place == CHOOSE n \in DOMAIN RepositoryStages : RepositoryStages[n] = round.stage IN
  CASE round.mode = "global" /\ short /\ round.stage \in {"first", "trusted", "global"} -> "trustedRefill"
    [] round.mode = "global" /\ short /\ round.stage = "trustedRefill" -> "globalRefill"
    [] round.mode = "repository" /\ lacking /\ round.stage # "recent500" -> RepositoryStages[place + 1]
    [] OTHER -> "none"
Complete ==
  LET sorted == FeedRanking(round.ranked)
      plan == PlanCompletion(sorted, PageLimit) IN
  /\ round.at = "complete"
  /\ \E failed \in SUBSET plan.complete :
     \E poor \in SUBSET (IF Codex THEN {} ELSE plan.complete) :
       LET done(i) == IF i.id \in plan.skipped THEN [i EXCEPT !.missing = "skipped"]
                       ELSE IF i.id \in plan.complete
                       THEN [i EXCEPT !.missing = IF i.id \in failed THEN "failed" ELSE "no", !.poor = i.id \in poor]
                       ELSE i
            ranked == FeedRanking(AsTuple([n \in DOMAIN sorted |-> done(sorted[n])]))
            next == NextStage(ranked) IN
        round' = [round EXCEPT !.ranked = ranked, !.stage = IF next = "none" THEN @ ELSE next,
                               !.at = IF next = "none" THEN "decide" ELSE "discover"]
  /\ Quiet /\ Undisturbed
-----------------------------------------------------------------------------
(* apply_decision.                                                           *)

Blocked(i) == i.facts = "blocked"
Pool(eligible) ==
  LET chosen == PoolIndices(Len(eligible), CandidateBudget) IN {eligible[chosen[n]] : n \in DOMAIN chosen}
\* The configuration may be invalid; each judgement fails alone, and then leaves the
\* item as open as an unclear answer does.
DecideBatch ==
  LET eligible == Upward({n \in DOMAIN round.ranked : ~Blocked(round.ranked[n])})
      pool == Pool(eligible)
      verdicts == {"fit", "unfit", "open"} IN
  /\ round.at = "decide"
  /\ IF ~Codex \/ round.ranked = <<>> THEN Goes("recheck") /\ UNCHANGED asked
     ELSE \/ \E verdict \in [pool -> verdicts] :
               /\ round' = [round EXCEPT !.at = "recheck", !.ranked = [n \in DOMAIN @ |->
                     [@[n] EXCEPT !.verdict = IF n \in pool THEN verdict[n]
                                              ELSE IF Blocked(round.ranked[n]) THEN "skipped_facts" ELSE "skipped_budget"]]]
               /\ asked' = [asked EXCEPT !["model"] = @ + Cardinality(pool)]
          \/ /\ round' = [round EXCEPT !.at = "recheck",
                           !.ranked = [n \in DOMAIN @ |-> [@[n] EXCEPT !.verdict = "open"]]]
             /\ UNCHANGED asked
  /\ UNCHANGED log /\ Undisturbed
-----------------------------------------------------------------------------
(* recheck_shortlist: the first item of the provisional page not checked yet *)
(* gets fresh facts, which may take it off the page.                          *)

\* A recheck that keeps the order and visibility from before its checks.
Provisional_Stale == round.ranked
Provisional == FeedRanking(round.ranked)
Recheck ==
  LET ranked == Provisional
      page == SelectDisplay(ranked, PageLimit, PerRepoAtLast)
      todo == {n \in DOMAIN page : page[n].id \notin round.checked}
      key == page[Min(todo)].id IN
  /\ round.at = "recheck"
  /\ IF ~Codex \/ todo = {} THEN round' = [round EXCEPT !.at = "final", !.ranked = IF Codex THEN ranked ELSE @]
     ELSE \E facts \in {"free", "blocked", "partial"} :
            round' = [round EXCEPT !.checked = @ \cup {key},
                       !.ranked = [n \in DOMAIN ranked |-> IF ranked[n].id = key
                                     THEN [ranked[n] EXCEPT !.facts = facts, !.depth = "final"] ELSE ranked[n]]]
  /\ Quiet /\ stirred' = FALSE

\* apply_final_feed_ranking reads the log once more; the page is selected from that.
FinalRanking_AsRechecked == round.ranked
FinalRanking == FeedRanking(round.ranked)
Finish ==
  /\ round.at = "final"
  /\ round' = [round EXCEPT !.at = "expose", !.ranked = FinalRanking,
                 !.page = SelectDisplay(FinalRanking, PageLimit, PerRepoAtLast)]
  /\ Quiet /\ Undisturbed
\* record_exposure: one event per item; when one cannot be written the scout fails.
Expose ==
  LET todo == {n \in DOMAIN round.page : round.page[n].id \notin log.shown} IN
  /\ round.at = "expose"
  /\ IF todo = {} THEN Goes("return") /\ UNCHANGED log
     ELSE \/ log' = [log EXCEPT !.shown = @ \cup {round.page[Min(todo)].id}] /\ UNCHANGED round
          \/ Goes("failed") /\ UNCHANGED log
  /\ UNCHANGED asked /\ Undisturbed
\* The end of scout: the page that was recorded is sorted by the scores it has before it
\* is returned, so the places the selection gave for missing evidence are not kept.  (A
\* legacy scout applies its ranking hints once more, which are in WorthOf and constant.)
Return ==
  /\ round.at = "return"
  /\ round' = [round EXCEPT !.at = "done", !.page = StablySorted(@, Ahead)]
  /\ Quiet /\ Undisturbed

\* Another command records that it showed an issue, or the user dismisses one, as
\* long as the scout still reads the log.
FeedbackArrives ==
  /\ round.at \notin {"idle", "expose", "return", "done", "failed"} /\ Cardinality(log.dismissed) < MaxFeedback
  /\ \E i \in Ids, kind \in {"shown", "dismissed"} :
       /\ i \notin log[kind] /\ Cardinality(log.shown \ KeysOf(round.page)) < MaxFeedback
       /\ log' = [log EXCEPT ![kind] = @ \cup {i}]
  /\ stirred' = (round.at = "final" \/ stirred) /\ UNCHANGED <<round, asked>>

ScoutStep == Begin \/ Discover \/ RankBatch \/ Ranked \/ Complete \/ DecideBatch \/ Recheck \/ Finish \/ Expose
             \/ Return
Rest == round.at \in {"done", "failed"} /\ UNCHANGED scoutVars
ScoutNext == ScoutStep \/ FeedbackArrives \/ Rest
ScoutSpec == ScoutInit /\ [][ScoutNext]_scoutVars
-----------------------------------------------------------------------------
(* Properties.                                                               *)

\* Safety.  Everything a Codex scout shows was checked again, on the page it is
\* shown on, and the fresh facts do not exclude it, although each check may bring
\* another item forward; only feedback recorded after the last check may bring an
\* unchecked item forward (recheck_shortlist, apply_final_feed_ranking).
ShownWereRechecked ==
  round.at \in {"expose", "return", "done"} /\ Codex /\ ~stirred =>
    \A n \in DOMAIN round.page : round.page[n].depth = "final" /\ ~Blocked(round.page[n])

\* Safety.  No issue is ranked or shown twice however the lanes overlap, and the
\* page keeps its size and its share for each repository to the end.  Until it is
\* returned, nothing with missing evidence has one of its first places: that is what
\* select_display_candidates chooses, and scout sorts the chosen page again by score,
\* which may bring such an item to the top (engine.rs:254-257).
PageIsFair ==
  /\ IsInjective([n \in DOMAIN round.ranked |-> round.ranked[n].id])
  /\ IsInjective([n \in DOMAIN round.page |-> round.page[n].id])
  /\ Len(round.page) <= PageLimit
  /\ \A n \in DOMAIN round.page : OfRepo(round.page, round.page[n].repo) <= PerRepoAtLast
  /\ round.at # "done" =>
       /\ \A n \in DOMAIN round.page : IsMissing(round.page[n]) => n > SafePositions
       /\ MissingOnTop(round.page) <= TopMissing

\* Safety.  Whatever a scout meets, what it asks of GitHub and of the model stays
\* within its limits: the two fallbacks share one, and an issue the facts exclude
\* is not put to the model (run_global_scout, apply_decision).
AskedWithinLimits ==
  /\ asked["trusted"] + asked["global"] <= FallbackLimit
  /\ asked["model"] <= CandidateBudget
  /\ \A n \in DOMAIN round.ranked :
       round.ranked[n].depth = "initial" /\ Blocked(round.ranked[n]) =>
         round.ranked[n].verdict \notin {"fit", "unfit"}

\* Action.  A dismissal made while the scout was reading is honoured by the page
\* of a legacy scout (apply_final_feed_ranking reads the log again).
DismissedMeanwhileIsHidden ==
  [][round'.at = "expose" /\ round.at = "final" /\ ~Codex =>
       KeysOf(round'.page) \cap log.dismissed = {}]_scoutVars

\* Safety.  What a scout shows was checked where it is shown, is a fair page, and cost no
\* more than its limits (engine.rs run_global_scout).
FeedIsCheckedAndFair == ShownWereRechecked /\ PageIsFair /\ AskedWithinLimits
=============================================================================
