--------------------------- MODULE DecisionContract ---------------------------
(***************************************************************************)
(* What a decision provider must answer, and how the native services' answers *)
(* become that (src/decision/contract.rs, native.rs, clef.rs, aliyun.rs,      *)
(* provider.rs, evidence.rs, questions.rs).                                   *)
(*                                                                           *)
(* A question has an id, a kind and its options; the options of a score have  *)
(* increasing values.  Probabilities are whole percents, so sums are exact    *)
(* where the code allows 1e-6.  A missing text is "".                          *)
(***************************************************************************)
EXTENDS Naturals, Sequences, FiniteSets, SequencesExt, FiniteSetsExt, Functions
-----------------------------------------------------------------------------
(* The contract.                                                             *)

Kinds == {"boolean", "choice", "score"}
Named(ids) == IsInjective(ids) /\ "" \notin Range(ids)
\* DecisionRequest::validate.
ValidRequest(request) ==
  /\ request.candidate # "" /\ request.input # "" /\ request.questions # <<>>
  /\ Named([n \in DOMAIN request.questions |-> request.questions[n].id])
  /\ \A q \in Range(request.questions) :
       /\ q.prompt
       /\ q.kind # "boolean" => Len(q.options) >= 2 /\ Named(q.options)
       /\ q.kind = "score" => \A n \in 1..Len(q.options) - 1 : q.values[n] < q.values[n + 1]

Total(dist) == FoldLeft(+, 0, dist)
Expected(q, dist) == FoldLeft(+, 0, [n \in DOMAIN dist |-> dist[n] * q.values[n]])
\* distribution_valid, validate_probabilities.  No distribution at all is fine.
ValidProbabilities(q, a) ==
  \/ a.dist = <<>>
  \/ q.kind = "boolean" /\ Len(a.dist) = 1 /\ a.dist[1] \in 0..100
  \/ /\ q.kind # "boolean" /\ DOMAIN a.dist = DOMAIN q.options
     /\ \A n \in DOMAIN a.dist : a.dist[n] \in 0..100
     /\ Total(a.dist) = 100
     /\ q.kind = "score" => a.expected = Expected(q, a.dist)

Answered(answers) == {n \in DOMAIN answers : answers[n].status = "answered"}
\* The status a response must carry.
StatusOf(answers) ==
  IF \A n \in DOMAIN answers : answers[n].status = "failed" THEN "failed"
    ELSE IF Answered(answers) = DOMAIN answers THEN "complete"
    ELSE "partial"
Allowed(q) == IF q.kind = "boolean" THEN {"true", "false"} ELSE Range(q.options)
\* DecisionResponse::validate.
ValidResponse(request, response) ==
  /\ ValidRequest(request)
  /\ response.candidate = request.candidate /\ response.input = request.input
  /\ Named([n \in DOMAIN response.answers |-> response.answers[n].id])
  /\ Len(response.answers) = Len(request.questions)
  /\ \A a \in Range(response.answers) : \E q \in Range(request.questions) :
       /\ q.id = a.id
       /\ IF a.status = "answered" THEN a.answer \in Allowed(q) /\ ValidProbabilities(q, a)
                                   ELSE a.answer = "" /\ a.dist = <<>>
  /\ response.status = StatusOf(response.answers)

-----------------------------------------------------------------------------
(* The native protocol.  A native answer maps options to probabilities by name *)
(* (those of a score by index), so it may name others or leave some out.       *)

Model == "fixed"
\* request_body: what the protocol can carry.
Encodable(request) ==
  /\ ValidRequest(request)
  /\ \A q \in Range(request.questions) :
       /\ q.kind = "choice" => Len(q.options) <= 255
       /\ q.kind = "score" => Len(q.options) \in 2..10
\* validate_request of Clef.
ClefEncodable(request) ==
  Encodable(request) /\ Len(request.questions) \in 1..64
    /\ \A q \in Range(request.questions) : q.asciiId

\* The first of the likeliest.
Likeliest(dist) == CHOOSE n \in DOMAIN dist :
                     \A m \in DOMAIN dist : dist[m] < dist[n] \/ (dist[m] = dist[n] /\ m >= n)
IndexMean(dist) == FoldLeft(+, 0, [n \in DOMAIN dist |-> dist[n] * (n - 1)])
Refused(id) == [id |-> id, status |-> "refused", answer |-> "", dist |-> <<>>, expected |-> 0]
CoversAll(q, native) == DOMAIN native.dist = DOMAIN q.options /\ Total(native.dist) = 100
\* One answer of parse_response.  The share of a native answer is the probability
\* of a boolean, the confidence of the others.
MapAnswer(q, native) ==
  LET answered(answer, dist, expected) ==
        [id |-> q.id, status |-> "answered", answer |-> answer, dist |-> dist, expected |-> expected]
  IN IF native.type # q.kind \/ native.share \notin 0..100 THEN Refused(q.id)
     ELSE IF q.kind = "boolean" THEN answered(IF native.share >= 50 THEN "true" ELSE "false", <<native.share>>, 0)
     ELSE IF ~CoversAll(q, native) THEN Refused(q.id)
     ELSE IF q.kind = "choice" /\ native.choice \in Range(q.options) THEN answered(native.choice, native.dist, 0)
     ELSE IF q.kind = "score" /\ native.legend /\ native.score = IndexMean(native.dist)
     THEN answered(q.options[Likeliest(native.dist)], native.dist, Expected(q, native.dist))
     ELSE Refused(q.id)
\* Scores whose expected value is that of the level index.
MapAnswers_ByIndex(request, native) ==
  [n \in DOMAIN request.questions |->
     LET q == request.questions[n] a == MapAnswer(q, native.answers[q.id]) IN
     IF q.kind = "score" /\ a.status = "answered" THEN [a EXCEPT !.expected = IndexMean(a.dist)] ELSE a]
MapAnswers(request, native) ==
  [n \in DOMAIN request.questions |-> MapAnswer(request.questions[n], native.answers[request.questions[n].id])]
NoResponse == [candidate |-> "", input |-> "", status |-> "refused", answers |-> <<>>]
\* parse_response, up to the validation that ends it.
Parse(request, native) ==
  LET ids == {q.id : q \in Range(request.questions)}
      mapped == MapAnswers(request, native)
  IN IF native.model # Model \/ native.outputTokens > 0 \/ DOMAIN native.answers # ids \/ ~native.metadata
        \/ \E n \in DOMAIN mapped : mapped[n].status = "refused"
     THEN NoResponse
     ELSE [candidate |-> request.candidate, input |-> request.input, status |-> "complete", answers |-> mapped]
\* decide_inner of Aliyun, and of Clef, which unwraps an envelope, wants usage
\* reported and the likeliest option chosen.
Decide(provider, request, native) ==
  LET response == Parse(request, native)
      sound == \A n \in DOMAIN response.answers :
                 LET a == response.answers[n] q == request.questions[n] IN
                 q.kind = "choice" => \A m \in DOMAIN a.dist : \E k \in DOMAIN q.options :
                                        q.options[k] = a.answer /\ a.dist[m] <= a.dist[k]
  IN IF \/ ~Encodable(request)
        \/ provider = "clef" /\ (~ClefEncodable(request) \/ ~native.envelope \/ ~native.usage \/ ~sound)
     THEN NoResponse ELSE response
-----------------------------------------------------------------------------
(* Which account and credential a configuration asks with.                    *)

ValidAccount(account) == account \notin {"", "bad"}
NoProvider == [kind |-> "none", account |-> "", token |-> ""]
\* configured_value: the environment's value counts even when it is empty.
ConfiguredValue(env, key, configured) == IF key \in DOMAIN env THEN env[key] ELSE configured
\* environment_selector: the name of a variable, which must be one.
EnvironmentSelector(env, key) == IF key \in DOMAIN env THEN env[key] ELSE ""
BadSelector(env) == \E key \in {"TOKEN_ENV", "ACCOUNT_ENV"} \cap DOMAIN env : ~ValidAccount(env[key])
\* The configured endpoint taken whatever account was selected.
Configured_AnyEndpoint(c) ==
  LET tokenVar == EnvironmentSelector(c.env, "TOKEN_ENV")
      accountVar == EnvironmentSelector(c.env, "ACCOUNT_ENV")
      chosen == tokenVar # "" /\ accountVar # ""
      account == IF chosen THEN ConfiguredValue(c.env, accountVar, "") ELSE ConfiguredValue(c.env, "ACCOUNT", c.account)
      endpoint == IF c.endpoint = "" THEN account ELSE c.endpoint
      key == IF chosen THEN tokenVar ELSE "TOKEN"
  IN IF BadSelector(c.env) \/ (tokenVar = "") # (accountVar = "") \/ ~ValidAccount(endpoint) \/ ConfiguredValue(c.env, key, "") = ""
     THEN NoProvider ELSE [kind |-> "clef", account |-> endpoint, token |-> key]
\* ConfiguredProvider::new and cloudflare_selection for Clef Flash.  An endpoint
\* stands for the account in its path.
Configured(c) ==
  LET tokenVar == EnvironmentSelector(c.env, "TOKEN_ENV")
      accountVar == EnvironmentSelector(c.env, "ACCOUNT_ENV")
      chosen == tokenVar # "" /\ accountVar # ""
      account == IF chosen THEN ConfiguredValue(c.env, accountVar, "")
                 ELSE ConfiguredValue(c.env, "ACCOUNT", c.account)
      endpoint == IF c.endpoint = "" THEN account ELSE c.endpoint
      key == IF chosen THEN tokenVar ELSE "TOKEN"
  IN IF \/ BadSelector(c.env) \/ (tokenVar = "") # (accountVar = "")
        \/ (chosen \/ c.endpoint = "") /\ ~ValidAccount(account)
        \/ chosen /\ endpoint # account
        \/ ~ValidAccount(endpoint)
        \/ ConfiguredValue(c.env, key, "") = ""
     THEN NoProvider ELSE [kind |-> "clef", account |-> endpoint, token |-> key]
-----------------------------------------------------------------------------
(* The discussion a question is asked about: the lengths of its comments,     *)
(* oldest first, and the places whose text GitHub did not give.               *)

CONSTANTS SampleLimit, CommentLimit, CommentsLimit  \* newest comments, and lengths
ASSUME ContractAssumption == SampleLimit \in Nat /\ CommentLimit \in Nat /\ CommentsLimit \in Nat
Bounded(length, limit) == Min({length, limit})
\* A discussion taken for whole when every comment of it is there, cut or not.
FromComments_Uncut(total, lengths, dated, absent) ==
  LET kept == SubSeq(lengths, Max({1, Len(lengths) - SampleLimit + 1}), Len(lengths)) IN
  [kept |-> [n \in DOMAIN kept |-> Bounded(kept[n], CommentLimit)], omitted |-> 0,
   status |-> IF total.known /\ total.n = Len(kept) /\ dated THEN "complete" ELSE "sampled"]
NewestComments(lengths) == SubSeq(lengths, Max({1, Len(lengths) - SampleLimit + 1}), Len(lengths))
\* One comment more, in what room there is, goes before those kept.
TakeComment(kept, length) ==
  LET room == CommentsLimit - Total(kept) IN
  IF room = 0 THEN kept ELSE <<Bounded(length, Min({CommentLimit, room}))>> \o kept
KeptComments(newest) == FoldLeft(TakeComment, <<>>, Reverse(newest))
\* CommentsEvidence::from_comments: the newest that fit, from the newest back.
FromComments(total, lengths, dated, absent) ==
  LET kept == KeptComments(NewestComments(lengths))
      given == \A n \in DOMAIN kept : Len(lengths) - Len(kept) + n \notin absent
      cut == \E n \in DOMAIN kept : kept[n] < lengths[Len(lengths) - Len(kept) + n]
  IN [kept |-> kept, omitted |-> IF total.known THEN Max({total.n, Len(kept)}) - Len(kept) ELSE 0,
      status |-> IF total.known /\ total.n = Len(kept) /\ ~cut /\ given /\ dated
                THEN "complete" ELSE "sampled"]
=============================================================================
