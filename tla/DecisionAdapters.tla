--------------------------- MODULE DecisionAdapters ---------------------------
(***************************************************************************)
(* The adapters of the native decision services applied to every answer,       *)
(* configuration and discussion of the given sets.                             *)
(***************************************************************************)
EXTENDS DecisionContract

CONSTANTS NativeProviders, Requests, Natives, Configurations, Discussions

ASSUME AdapterAssumption ==
  /\ \A r \in Requests : r.questions \in Seq(Range(r.questions))
  /\ \A n \in Natives : \A id \in DOMAIN n.answers : n.answers[id].dist \in Seq(Nat)
  /\ \A d \in Discussions : d.total \in [known : BOOLEAN, n : Nat] /\ d.lengths \in Seq(Nat)
                            /\ d.absent \subseteq DOMAIN d.lengths

VARIABLE adapted  \* what was given, and what came of it
adaptedVars == <<adapted>>
-----------------------------------------------------------------------------
AdapterInit ==
  \/ \E p \in NativeProviders, r \in Requests, n \in Natives :
       adapted = [what |-> "asked", provider |-> p, request |-> r, native |-> n]
  \/ \E c \in Configurations : adapted = [what |-> "configured", given |-> c]
  \/ \E d \in Discussions : adapted = [what |-> "discussed", given |-> d]
AskNative ==
  /\ adapted.what = "asked"
  /\ adapted' = [what |-> "answered", request |-> adapted.request,
                 answer |-> Decide(adapted.provider, adapted.request, adapted.native)]
Configure ==
  adapted.what = "configured" /\ adapted' = [what |-> "provider", given |-> adapted.given,
                                             provider |-> Configured(adapted.given)]
Gather ==
  LET d == adapted.given IN
  adapted.what = "discussed" /\ adapted' = [what |-> "material", given |-> d,
                                            of |-> FromComments(d.total, d.lengths, d.dated, d.absent)]
AdapterNext == AskNative \/ Configure \/ Gather
AdapterSpec == AdapterInit /\ [][AdapterNext]_adaptedVars
-----------------------------------------------------------------------------
\* What an adapter lets through is an answer to its request by the contract every
\* judgment is held to: each question once, an allowed option, a distribution that
\* sums to one and whose expected value is its own (native.rs parse_response
\* builds what contract.rs validates).
AnswersHonourTheContract ==
  adapted.what = "answered" /\ adapted.answer.status # "refused" =>
    ValidResponse(adapted.request, adapted.answer)
\* Selecting an account and a token together never asks another account or uses
\* another credential, whatever endpoint and account the configuration file names
\* (provider.rs: errors never silently change models or accounts).
NeverAnotherAccount ==
  adapted.what = "provider" /\ adapted.provider # NoProvider =>
    LET env == adapted.given.env IN
    IF "ACCOUNT_ENV" \in DOMAIN env
    THEN adapted.provider.account = env[env["ACCOUNT_ENV"]] /\ adapted.provider.token = env["TOKEN_ENV"]
    ELSE adapted.provider.token = "TOKEN" /\ "TOKEN_ENV" \notin DOMAIN env
\* A discussion said to be complete has every comment, its text in full, and what is kept of
\* any discussion fits the limits (evidence.rs from_comments).
CompleteIsWhole ==
  adapted.what = "material" =>
    /\ adapted.of.status = "complete" => adapted.of.kept = adapted.given.lengths /\ adapted.of.omitted = 0
                                        /\ adapted.given.absent = {}
    /\ Total(adapted.of.kept) <= CommentsLimit /\ Len(adapted.of.kept) <= SampleLimit

\* What enters a judgment keeps its contract: the answers, the account that is asked and
\* the discussion that is shown (decision/native.rs, provider.rs, evidence.rs).
AdaptersAreSound == AnswersHonourTheContract /\ NeverAnotherAccount /\ CompleteIsWhole
=============================================================================
