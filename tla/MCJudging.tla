------------------------------ MODULE MCJudging ------------------------------
(* How issues are judged and chosen, one component at a time: a scout, the   *)
(* judgement it asks a model for, the adapters of the models and the policy  *)
(* over screened issues.                                                     *)
EXTENDS FreshFacts, Judgement, DecisionAdapters

CONSTANTS s1, s2

TwoScreens == {s1, s2}
Aliyun == {"aliyun"}
BothProviders == {"aliyun", "clef"}
ScreenSymmetry == Permutations(TwoScreens)
-----------------------------------------------------------------------------
(* A scout over four candidates of two repositories.                         *)
RepoOfEach == <<"a", "a", "b", "b">>
TierOfEach == <<"global", "profile", "global", "global">>
WorthOfEach == <<4, 3, 2, 1>>
FiveLanes ==
  [first |-> <<1>>, trusted |-> <<3, 2>>, global |-> <<2, 4>>, trustedRefill |-> <<2, 3>>,
   globalRefill |-> <<4>>, beginner |-> <<1>>, signals |-> <<2>>, recent100 |-> <<1, 3>>,
   recent300 |-> <<1, 3>>, recent500 |-> <<1, 3>>]
-----------------------------------------------------------------------------
(* Two questions, and what two models may answer.                            *)
Ask(id, kind) ==
  [id |-> id, kind |-> kind, prompt |-> TRUE, asciiId |-> TRUE,
   options |-> IF kind = "boolean" THEN <<>> ELSE <<"x", "y">>,
   values |-> IF kind = "score" THEN <<0, 5>> ELSE <<>>]
TwoQuestions ==
  {[candidate |-> "c", input |-> "i", questions |-> <<Ask("q", k), Ask("r", l)>>] : k \in Kinds, l \in Kinds}

NativeAnswers ==
  [type : {"choice"}, choice : {"x", "y", "z"}, dist : {<<70, 30>>, <<100>>, <<50, 40>>},
   score : {0}, legend : {TRUE}, share : {60}]
  \cup [type : {"score"}, choice : {"x"}, dist : {<<70, 30>>, <<50, 50>>},
        score : {30, 50}, legend : BOOLEAN, share : {60}]
  \cup [type : {"boolean"}, choice : {"x"}, dist : {<<>>},
        score : {0}, legend : {TRUE}, share : {40, 101}]
ATrueAnswer ==
  [type |-> "choice", choice |-> "x", dist |-> <<70, 30>>, score |-> 0, legend |-> TRUE, share |-> 60]
NativeResponses ==
  [answers : [{"q", "r"} -> NativeAnswers] \cup [{"q"} -> NativeAnswers], model : {Model, "other"},
   outputTokens : {0}, metadata : {TRUE}, envelope : {TRUE}, usage : {TRUE}]
  \cup [answers : [{"q", "r"} -> {ATrueAnswer}], model : {Model}, outputTokens : {0, 3},
        metadata : BOOLEAN, envelope : BOOLEAN, usage : BOOLEAN]

\* Environments: keys named in the configuration, set, unset or blank.
Environments ==
  {[k \in s \cup {"A"} |-> CASE k = "TOKEN_ENV" -> "T" [] k = "ACCOUNT_ENV" -> "A" [] k = "A" -> a
                              [] k = "ACCOUNT" -> b [] OTHER -> t] :
     s \in SUBSET {"TOKEN_ENV", "ACCOUNT_ENV", "ACCOUNT", "TOKEN", "T"},
     a \in {"a", "b", "", "bad"}, b \in {"a", "b", ""}, t \in {"secret", ""}}
ConfiguredAccounts ==
  [account : {"", "a", "b"}, endpoint : {"", "a", "b", "bad"}, env : Environments]
FewComments ==
  {d \in [total : [known : BOOLEAN, n : 0..4], lengths : UNION {[1..k -> 0..3] : k \in 0..3},
          dated : BOOLEAN, absent : SUBSET (1..3)] :
     d.absent \subseteq {n \in DOMAIN d.lengths : d.lengths[n] = 0}}
-----------------------------------------------------------------------------
(* Screened issues, what a model may answer and what a check may find.       *)
Repository(s, w, f, i, x) ==
  [stars |-> s, watchers |-> w, forks |-> f, issues |-> i, age |-> 900, archived |-> x]
SomeRepositories ==
  { Repository(2000, 5, 10, 3, FALSE), Repository(80, 0, 300, 3, FALSE),
    Repository(80, 1, 0, 0, TRUE) }
KnownStatus(state, held, linkedOpen) == [state |-> state, held |-> held, linkedOpen |-> linkedOpen]
SomeStatuses ==
  { NoStatus, KnownStatus("closed", FALSE, 0), KnownStatus("open", TRUE, 0), KnownStatus("open", FALSE, 1) }
SomeAnswers ==
  [task : {"concrete_change", "support_question", "unclear"}, description : {"clear", "partial"},
   contribution : {"interest_only", "working", "unknown"}, scope : {"bounded", "broad"},
   preference : {"matches", "mismatch"}, verification : {"present"},
   maintainer : {"encouraged", "deferred"}]
Resolver(state, merged, base) ==
  [verified |-> TRUE, relation |-> "resolves", state |-> state, merged |-> merged, base |-> base,
   errors |-> FALSE]
SomePulls ==
  { {}, {Resolver("open", "no", "main")}, {Resolver("closed", "yes", "main")},
    {Resolver("closed", "yes", "old")},
    {[Resolver("open", "no", "main") EXCEPT !.relation = "mention"]},
    {[Resolver("unknown", "unknown", "unknown") EXCEPT !.verified = FALSE, !.errors = TRUE]} }
NothingChecked ==
  [depth |-> "initial", state |-> "unknown", held |-> "unknown", archived |-> "unknown",
   locked |-> "unknown", linked |-> [status |-> "partial"], searched |-> [status |-> "not_checked"],
   pulls |-> {}]
SomeChecks ==
  {NothingChecked} \cup
  { [NothingChecked EXCEPT !.depth = "final", !.state = s, !.held = h, !.archived = "no",
       !.locked = "no", !.linked.status = c, !.searched.status = "complete", !.pulls = p] :
      s \in {"open", "closed", "unknown"}, h \in {"no", "yes"}, c \in {"complete", "partial"},
      p \in SomePulls }
-----------------------------------------------------------------------------
VARIABLE part
judgingVars == <<part, scoutVars, judgeVars, adaptedVars, screeningVars>>

NothingAdapted == [what |-> "nothing"]
\* The components whose turn it is not stand at one of their initial states.
JudgingInit ==
  /\ part \in {"scout", "judgement", "adapters", "screening"}
  /\ ScoutInit /\ JudgeInit
  /\ IF part = "adapters" THEN AdapterInit ELSE adapted = NothingAdapted
  /\ ScreeningInit
  /\ part = "screening" \/ (/\ screened.references = 0 /\ screened.status = NoStatus
                            /\ screened.repository = Repository(80, 1, 0, 0, TRUE))

\* A bound of the judgement: the first screening has nothing to refresh.
NothingToRefreshAtFirst == \A s \in Screens : screen'[s].at = "details" /\ begun' = 1 => ~screen'[s].order.refresh

JudgingNext ==
  /\ UNCHANGED part
  /\ \/ part = "scout" /\ ScoutNext /\ UNCHANGED <<judgeVars, adaptedVars, screeningVars>>
     \/ /\ part = "judgement" /\ JudgeNext /\ NothingToRefreshAtFirst
        /\ UNCHANGED <<scoutVars, adaptedVars, screeningVars>>
     \/ part = "adapters" /\ AdapterNext /\ UNCHANGED <<scoutVars, judgeVars, screeningVars>>
     \/ part = "screening" /\ ScreeningNext /\ UNCHANGED <<scoutVars, judgeVars, adaptedVars>>

JudgingSpec == JudgingInit /\ [][JudgingNext]_judgingVars
=============================================================================
