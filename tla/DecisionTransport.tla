-------------------------- MODULE DecisionTransport --------------------------
(***************************************************************************)
(* One Codex app-server session shared by concurrent classifications         *)
(* (src/decision/codex/transport.rs, src/decision/codex.rs): the calls with  *)
(* their attempts, the cleanup each attempt leaves behind, the reader and    *)
(* the writer of the session, the process behind it, and the close of the    *)
(* provider, which waits for every call and cleanup.                         *)
(*                                                                           *)
(* The session is initialised.  A message of the server is in the pipe from  *)
(* when the server owes it until the reader takes it; the server handles     *)
(* requests in the order written and answers in any order.                   *)
(***************************************************************************)
EXTENDS Naturals, Sequences, FiniteSets, SequencesExt

CONSTANTS Calls,       \* decide_inner calls
          MaxTries,    \* attempts of a call
          MaxEvents,   \* MAX_EVENTS, the bound of every event buffer
          MaxEmitted,  \* bound: events the server emits
          Answers,     \* how the server may answer thread/start and turn/start
          Kinds,       \* the events it may emit
          Faults       \* what may go wrong

\* "mismatch": the thread has another model.  "overload": a refusal that may be
\* retried, by its code -32001 or as httpConnectionFailed; that the server took
\* nothing when it says so is the server's word and assumed here.
\* "unknown": an error that leaves open whether the request was accepted.
AnswerKinds == {"ok", "mismatch", "overload", "unknown"}
EventKinds == {"note", "item", "final", "tool", "completed", "turn_failed", "request"}
\* "note" is an event outside a running turn, the others belong to one.
\* "slow": timeouts of the cleanup strike.  "lost": a request is never answered.
\* "exit": the server process ends.
FaultKinds == {"slow", "lost", "exit"}

ASSUME TransportAssumption ==
  /\ MaxTries \in Nat \ {0} /\ MaxEvents \in Nat \ {0} /\ MaxEmitted \in Nat
  /\ Answers \subseteq AnswerKinds /\ Kinds \subseteq EventKinds /\ Faults \subseteq FaultKinds

\* An attempt has one subscription and at most one thread, named after it.
Attempts == Calls \X (1..MaxTries)
CallMethods == {"thread/start", "turn/start"}
CleanupMethods == {"thread/read", "turn/interrupt", "thread/unsubscribe"}
Requests == Attempts \X (CallMethods \cup CleanupMethods)

VARIABLES
  phase, try,             \* each call
  stage, got,             \* each attempt: where it is, what it has read
  cleaner,                \* the cleanup of each attempt
  answer,                 \* the oneshot an attempt or its cleanup waits on
  sub,                    \* the identity and the event channel of each attempt
  pending, routes, early, closed,  \* Routes; early by attempt, in the order of arrival
  writes,                 \* the queue of the writer
  reader, asked,          \* the reader, and the server request it refuses
  thread, turn, emitted, owed, alive,  \* the server
  lease, closing, closer, woken        \* Activity, and who closes
calls == <<phase, try>>
table == <<pending, routes, early, closed>>
server == <<thread, turn, emitted, owed, alive>>
activity == <<lease, closing, closer, woken>>
vars == <<calls, stage, got, cleaner, answer, sub, table, writes, reader, asked, server, activity>>
-----------------------------------------------------------------------------
Event(a, kind, num, hasTurn) == [att |-> a, kind |-> kind, num |-> num, turn |-> hasTurn]
Nudge(a) == Event(a, "nudge", 0, FALSE)

NothingEarly == [a \in Attempts |-> <<>>]
EarlyCount == FoldFunction(LAMBDA events, n : Len(events) + n, 0, early)

Starting(requests) == \E a \in Attempts : <<a, "thread/start">> \in requests

\* The receiver of the answer still exists.
Awaited(a, m) == IF m \in CallMethods THEN stage[a] = m ELSE cleaner[a] = m

\* rpc_failure: -32001 and httpConnectionFailed, unless the message forbids it.
Retryable(kind) == kind = "overload"

\* try_send on a channel whose receiver may be gone.
Offered(a, s, e) ==
  IF stage[a] # "ended" /\ Len(s.queue) < MaxEvents THEN [s EXCEPT !.queue = Append(@, e)] ELSE s

\* A tool request that fails the subscription and is not queued.
Delivered_MarksOnly(a, s, e) ==
  LET t == IF e.kind = "request" THEN s ELSE Offered(a, s, e)
  IN [t EXCEPT !.turn = @ \/ e.turn,
               !.completed = @ \/ e.kind \in {"completed", "turn_failed"},
               !.failed = @ \/ t = s]

\* deliver
Delivered(a, s, e) ==
  LET t == Offered(a, s, e)
  IN [t EXCEPT !.turn = @ \/ e.turn,
               !.completed = @ \/ e.kind \in {"completed", "turn_failed"},
               !.failed = @ \/ e.kind = "request" \/ t = s]

\* A failing session that leaves its callers waiting.
FailSession_KeepsPending ==
  IF closed THEN UNCHANGED <<table, answer, sub>>
  ELSE /\ closed' = TRUE /\ early' = NothingEarly /\ UNCHANGED <<pending, routes, answer>>
       /\ sub' = [a \in Attempts |->
                   IF a \in routes THEN [Offered(a, sub[a], Nudge(a)) EXCEPT !.failed = TRUE] ELSE sub[a]]

\* Shared::fail
FailSession ==
  IF closed THEN UNCHANGED <<table, answer, sub>>
  ELSE /\ closed' = TRUE /\ pending' = {} /\ early' = NothingEarly /\ UNCHANGED routes
       /\ answer' = [a \in Attempts |->
                      IF \E m \in CallMethods \cup CleanupMethods : <<a, m>> \in pending /\ Awaited(a, m)
                      THEN "closed" ELSE answer[a]]
       /\ sub' = [a \in Attempts |->
                   IF a \in routes THEN [Offered(a, sub[a], Nudge(a)) EXCEPT !.failed = TRUE] ELSE sub[a]]

\* Shared::rpc: register the request, queue the write and wait.  A request that
\* is registered and not yet queued behaves as one whose write is discarded.
Ask(a, m) ==
  IF closed
  THEN answer' = [answer EXCEPT ![a] = "closed"] /\ UNCHANGED <<pending, writes>>
  ELSE /\ answer' = [answer EXCEPT ![a] = "none"]
       /\ pending' = pending \cup {<<a, m>>}
       /\ writes' = Append(writes, <<a, m>>)
-----------------------------------------------------------------------------
(* A call: Activity::enter, up to MaxTries attempts, a deadline.             *)

Enter(c) ==
  /\ phase[c] = "idle"
  /\ IF closing
     THEN phase' = [phase EXCEPT ![c] = "done"] /\ UNCHANGED lease
     ELSE phase' = [phase EXCEPT ![c] = "ready"] /\ lease' = [lease EXCEPT ![c] = "held"]
  /\ UNCHANGED <<try, stage, got, cleaner, answer, sub, table, writes, reader, asked, server>>
  /\ UNCHANGED <<closing, closer, woken>>

StartAttempt(c) ==
  LET a == <<c, try[c]>>
  IN /\ phase[c] = "ready"
     /\ phase' = [phase EXCEPT ![c] = "working"]
     /\ stage' = [stage EXCEPT ![a] = "thread/start"]
     /\ Ask(a, "thread/start")
     /\ UNCHANGED <<try, got, cleaner, sub, routes, early, closed, reader, asked, server, activity>>

\* The attempt is dropped: its cleanup runs on its own and keeps the lease.
EndAttempt(c, again) ==
  LET a == <<c, try[c]>>
  IN /\ stage' = [stage EXCEPT ![a] = "ended"]
     /\ cleaner' = [cleaner EXCEPT ![a] = "look"]
     /\ phase' = [phase EXCEPT ![c] = IF again /\ try[c] < MaxTries THEN "backoff" ELSE "done"]
     /\ UNCHANGED <<try, got, answer, sub, table, writes, reader, asked, server, activity>>

ThreadStarted(c) ==
  LET a == <<c, try[c]>>
  IN /\ phase[c] = "working" /\ stage[a] = "thread/start" /\ answer[a] = "ok"
     /\ stage' = [stage EXCEPT ![a] = "turn/start"]
     /\ Ask(a, "turn/start")
     /\ UNCHANGED <<calls, got, cleaner, sub, routes, early, closed, reader, asked, server, activity>>

TurnStarted(c) ==
  LET a == <<c, try[c]>>
  IN /\ phase[c] = "working" /\ stage[a] = "turn/start" /\ answer[a] = "ok"
     /\ stage' = [stage EXCEPT ![a] = "check"]
     /\ UNCHANGED <<calls, got, cleaner, answer, sub, table, writes, reader, asked, server, activity>>

StartRejected(c) ==
  LET a == <<c, try[c]>>
  IN /\ phase[c] = "working" /\ stage[a] \in CallMethods /\ answer[a] \notin {"none", "ok"}
     /\ EndAttempt(c, Retryable(answer[a]))

\* The head of the loop of generate.
CheckEvents(c) ==
  LET a == <<c, try[c]>>
  IN /\ phase[c] = "working" /\ stage[a] = "check"
     /\ IF sub[a].failed \/ (got[a].completed /\ got[a].final)
        THEN EndAttempt(c, FALSE)
        ELSE /\ stage' = [stage EXCEPT ![a] = "receive"]
             /\ UNCHANGED <<calls, got, cleaner, answer, sub, table, writes, reader, asked, server, activity>>

ReceiveEvent(c) ==
  LET a == <<c, try[c]>>
      e == Head(sub[a].queue)
  IN /\ phase[c] = "working" /\ stage[a] = "receive" /\ sub[a].queue # <<>>
     /\ IF e.kind \in {"tool", "turn_failed"}
        THEN EndAttempt(c, FALSE)
        ELSE /\ stage' = [stage EXCEPT ![a] = "check"]
             /\ sub' = [sub EXCEPT ![a].queue = Tail(@)]
             /\ got' = [got EXCEPT ![a] =
                         [seen |-> IF e.kind = "nudge" THEN @.seen ELSE e.num,
                          final |-> @.final \/ e.kind = "final",
                          completed |-> @.completed \/ e.kind = "completed"]]
             /\ UNCHANGED <<calls, cleaner, answer, table, writes, reader, asked, server, activity>>

\* A timeout that is tried again.
Deadline_Retries(c) ==
  \/ /\ phase[c] = "working" /\ stage[<<c, try[c]>>] # "ended"
     /\ EndAttempt(c, TRUE)
  \/ /\ phase[c] \in {"ready", "backoff"}
     /\ phase' = [phase EXCEPT ![c] = "done"]
     /\ UNCHANGED <<try, stage, got, cleaner, answer, sub, table, writes, reader, asked, server, activity>>

\* The timeout of the call, or the drop of its future.
Deadline(c) ==
  \/ /\ phase[c] = "working" /\ stage[<<c, try[c]>>] # "ended"
     /\ EndAttempt(c, FALSE)
  \/ /\ phase[c] \in {"ready", "backoff"}
     /\ phase' = [phase EXCEPT ![c] = "done"]
     /\ UNCHANGED <<try, stage, got, cleaner, answer, sub, table, writes, reader, asked, server, activity>>

Retry(c) ==
  /\ phase[c] = "backoff"
  /\ phase' = [phase EXCEPT ![c] = "ready"]
  /\ try' = [try EXCEPT ![c] = @ + 1]
  /\ UNCHANGED <<stage, got, cleaner, answer, sub, table, writes, reader, asked, server, activity>>

\* A lease that the cleanups do not share.
DropLease_IgnoresCleanup(c) ==
  /\ lease[c] = "held" /\ phase[c] = "done"
  /\ lease' = [lease EXCEPT ![c] = "dropped"]
  /\ UNCHANGED <<calls, stage, got, cleaner, answer, sub, table, writes, reader, asked, server>>
  /\ UNCHANGED <<closing, closer, woken>>

\* Lease::drop, when the call and all its cleanups are gone: count, then notify.
DropLease(c) ==
  /\ lease[c] = "held" /\ phase[c] = "done"
  /\ \A n \in 1..MaxTries : cleaner[<<c, n>>] \in {"none", "done"}
  /\ lease' = [lease EXCEPT ![c] = "dropped"]
  /\ UNCHANGED <<calls, stage, got, cleaner, answer, sub, table, writes, reader, asked, server>>
  /\ UNCHANGED <<closing, closer, woken>>

\* A lease that notifies before it is counted out.
NotifyWaiters_Early(c) ==
  /\ lease[c] = "dropped"
  /\ lease' = [lease EXCEPT ![c] = "none"]
  /\ UNCHANGED <<calls, stage, got, cleaner, answer, sub, table, writes, reader, asked, server>>
  /\ UNCHANGED <<closing, closer, woken>>

NotifyWaiters(c) ==
  /\ lease[c] = "dropped"
  /\ lease' = [lease EXCEPT ![c] = "none"]
  /\ woken' = (woken \/ closer \in {"check", "wait"})
  /\ UNCHANGED <<calls, stage, got, cleaner, answer, sub, table, writes, reader, asked, server>>
  /\ UNCHANGED <<closing, closer>>
-----------------------------------------------------------------------------
(* The cleanup of an attempt (drop of Attempt, cleanup).                     *)

Clean(a, step) == cleaner' = [cleaner EXCEPT ![a] = step]

\* What cleanup leaves alone.
Elsewhere == <<calls, stage, got, sub, routes, early, closed, reader, asked, server, activity>>

\* Wait for the thread: it is known, or no request can make it known.
Look(a) ==
  /\ cleaner[a] = "look"
  /\ Clean(a, IF sub[a].thread THEN "snapshot" ELSE "seek")
  /\ UNCHANGED <<answer, pending, writes, Elsewhere>>

Seek(a) ==
  /\ cleaner[a] = "seek"
  /\ Clean(a, IF \E m \in CallMethods : <<a, m>> \in pending THEN "look" ELSE "name")
  /\ UNCHANGED <<answer, pending, writes, Elsewhere>>

\* 50 rounds have passed: the answer is slow, or the request was never written.
GiveUpSeeking(a) ==
  /\ \/ "slow" \in Faults
     \/ \A m \in CallMethods :
          ~Contains(writes, <<a, m>>) /\ \A kind \in AnswerKinds : <<a, m, kind>> \notin owed
  /\ cleaner[a] \in {"look", "seek"}
  /\ Clean(a, "snapshot")
  /\ UNCHANGED <<answer, pending, writes, Elsewhere>>

\* A cleanup that only unsubscribes when it does not know the turn.
Snapshot_NoRead(a) ==
  /\ cleaner[a] = "snapshot"
  /\ IF ~sub[a].thread
     THEN Clean(a, "name") /\ UNCHANGED <<answer, pending, writes>>
     ELSE LET m == IF sub[a].turn /\ ~sub[a].completed THEN "turn/interrupt" ELSE "thread/unsubscribe"
          IN Clean(a, m) /\ Ask(a, m)
  /\ UNCHANGED Elsewhere

\* A completed turn needs no interrupt, an unknown one is asked for.
Snapshot(a) ==
  /\ cleaner[a] = "snapshot"
  /\ IF ~sub[a].thread
     THEN Clean(a, "name") /\ UNCHANGED <<answer, pending, writes>>
     ELSE LET m == IF sub[a].completed THEN "thread/unsubscribe"
                   ELSE IF sub[a].turn THEN "turn/interrupt" ELSE "thread/read"
          IN Clean(a, m) /\ Ask(a, m)
  /\ UNCHANGED Elsewhere

\* The request is answered, or its 450 ms have passed.
CleanupContinues(a) ==
  /\ cleaner[a] \in CleanupMethods
  /\ answer[a] # "none" \/ "slow" \in Faults
  /\ LET m == IF cleaner[a] = "thread/read" /\ answer[a] = "running" THEN "turn/interrupt"
              ELSE "thread/unsubscribe"
     IN IF cleaner[a] = "thread/unsubscribe"
        THEN Clean(a, "name") /\ UNCHANGED <<answer, pending, writes>>
        ELSE Clean(a, m) /\ Ask(a, m)
  /\ UNCHANGED Elsewhere

\* CLEANUP_TIMEOUT strikes at an await.
CleanupTimeout(a) ==
  /\ "slow" \in Faults
  /\ cleaner[a] \in {"look"} \cup CleanupMethods
  /\ Clean(a, "name")
  /\ UNCHANGED <<answer, pending, writes, Elsewhere>>

\* The thread is read, then Routes is locked and swept.
NameThread(a) ==
  /\ cleaner[a] = "name"
  /\ Clean(a, IF sub[a].thread THEN "forget" ELSE "sweep")
  /\ UNCHANGED <<answer, pending, writes, Elsewhere>>

\* A sweep that leaves the unanswered requests of the attempt behind.
Sweep_KeepsPending(a) ==
  /\ cleaner[a] \in {"forget", "sweep"}
  /\ Clean(a, "done")
  /\ routes' = IF cleaner[a] = "forget" THEN routes \ {a} ELSE routes
  /\ early' = IF ~Starting(pending) THEN NothingEarly
              ELSE IF cleaner[a] = "forget" THEN [early EXCEPT ![a] = <<>>] ELSE early
  /\ UNCHANGED <<calls, stage, got, answer, sub, pending, closed, writes, reader, asked, server, activity>>

Sweep(a) ==
  /\ cleaner[a] \in {"forget", "sweep"}
  /\ Clean(a, "done")
  /\ routes' = IF cleaner[a] = "forget" THEN routes \ {a} ELSE routes
  /\ pending' = {r \in pending : IF r[2] \in CallMethods THEN r[1] # a ELSE Awaited(r[1], r[2])}
  /\ early' = IF ~Starting(pending') THEN NothingEarly
              ELSE IF cleaner[a] = "forget" THEN [early EXCEPT ![a] = <<>>] ELSE early
  /\ UNCHANGED <<calls, stage, got, answer, sub, closed, writes, reader, asked, server, activity>>
-----------------------------------------------------------------------------
(* The writer, and the server that reads what it writes.                     *)

Owe(a, m, kind) == owed' = owed \cup {<<a, m, kind>>}

\* The server takes a request: its effect is immediate, its answer may be late
\* or, with "lost", never come.
Serve(a, m) ==
  /\ CASE m = "thread/start" ->
            \E kind \in Answers :
              /\ thread' = IF kind \in {"ok", "mismatch"} THEN [thread EXCEPT ![a] = "open"] ELSE thread
              /\ UNCHANGED turn
              /\ Owe(a, m, kind) \/ ("lost" \in Faults /\ UNCHANGED owed)
       [] m = "turn/start" ->
            \E kind \in Answers \ {"mismatch"} :
              /\ turn' \in {[turn EXCEPT ![a] = t] : t \in
                             CASE kind = "ok" -> {"running"} [] kind = "overload" -> {"unstarted"}
                               [] OTHER -> {"unstarted", "running"}}
              /\ UNCHANGED thread
              /\ Owe(a, m, kind) \/ ("lost" \in Faults /\ UNCHANGED owed)
       [] m = "thread/read" ->
            /\ Owe(a, m, turn[a]) \/ ("lost" \in Faults /\ UNCHANGED owed)
            /\ UNCHANGED <<thread, turn>>
       [] m = "turn/interrupt" ->
            /\ turn' = [turn EXCEPT ![a] = IF @ = "running" THEN "over" ELSE @]
            /\ Owe(a, m, "ok") \/ ("lost" \in Faults /\ UNCHANGED owed)
            /\ UNCHANGED thread
       [] m = "thread/unsubscribe" ->
            /\ thread' = [thread EXCEPT ![a] = "closed"]
            /\ Owe(a, m, "ok") \/ ("lost" \in Faults /\ UNCHANGED owed)
            /\ UNCHANGED turn
  /\ UNCHANGED <<emitted, alive>>

\* write_loop: a request nobody waits for any more is discarded unwritten; a
\* write that fails ends the session.
WriteNext ==
  LET w == Head(writes)
  IN /\ writes # <<>> /\ closer # "stopped"
     /\ writes' = Tail(writes)
     /\ IF w[2] = "refusal" THEN
          IF alive THEN reader' = "refused" /\ UNCHANGED <<server, table, answer, sub>>
          ELSE FailSession /\ reader' = "gone" /\ UNCHANGED server
        ELSE
          /\ UNCHANGED reader
          /\ IF ~Awaited(w[1], w[2]) THEN UNCHANGED <<server, table, answer, sub>>
             ELSE IF alive THEN Serve(w[1], w[2]) /\ UNCHANGED <<table, answer, sub>>
             ELSE FailSession /\ UNCHANGED server
     /\ UNCHANGED <<calls, stage, got, cleaner, asked, activity>>

Exit ==
  /\ "exit" \in Faults /\ alive
  /\ alive' = FALSE
  /\ UNCHANGED <<calls, stage, got, cleaner, answer, sub, table, writes, reader, asked, activity>>
  /\ UNCHANGED <<thread, turn, emitted, owed>>
-----------------------------------------------------------------------------
(* The reader (read_loop): it takes what the server sends.                   *)

\* A known thread gets its event, an unknown one may be about to be named.
Route(a, e) ==
  IF a \in routes THEN
    /\ sub' = [sub EXCEPT ![a] = Delivered(a, @, e)]
    /\ reader' = "reading" /\ UNCHANGED <<table, answer>>
  ELSE IF ~Starting(pending) THEN reader' = "reading" /\ UNCHANGED <<table, answer, sub>>
  ELSE IF EarlyCount >= MaxEvents THEN FailSession /\ reader' = "gone"
  ELSE /\ early' = [early EXCEPT ![a] = Append(@, e)]
       /\ reader' = "reading" /\ UNCHANGED <<pending, routes, closed, answer, sub>>

\* An event, or a request for a tool, which is refused before it is routed.
Emit(a, kind) ==
  LET e == Event(a, kind, emitted[a] + 1, turn[a] # "unstarted")
  IN /\ reader = "reading" /\ thread[a] # "none" /\ FoldFunction(+, 0, emitted) < MaxEmitted
     /\ (kind = "note") # (turn[a] = "running")
     /\ emitted' = [emitted EXCEPT ![a] = @ + 1]
     /\ turn' = IF kind \in {"completed", "turn_failed"} THEN [turn EXCEPT ![a] = "over"] ELSE turn
     /\ IF kind = "request" THEN
          /\ asked' = e
          /\ IF closed THEN reader' = "gone" /\ UNCHANGED writes
             ELSE reader' = "refusing" /\ writes' = Append(writes, <<a, "refusal">>)
          /\ UNCHANGED <<table, answer, sub>>
        ELSE Route(a, e) /\ UNCHANGED <<asked, writes>>
     /\ UNCHANGED <<calls, stage, got, cleaner, thread, owed, alive, activity>>

RouteRefused ==
  /\ reader = "refused"
  /\ Route(asked.att, asked)
  /\ UNCHANGED <<calls, stage, got, cleaner, writes, asked, server, activity>>

\* A reader that drops what came before the thread was named.
Respond_ForgetsEarly(a, m, kind) ==
  /\ reader = "reading" /\ <<a, m, kind>> \in owed
  /\ owed' = owed \ {<<a, m, kind>>}
  /\ IF <<a, m>> \notin pending THEN UNCHANGED <<table, answer, sub>>
     ELSE /\ pending' = pending \ {<<a, m>>}
          /\ answer' = IF Awaited(a, m) THEN [answer EXCEPT ![a] = kind] ELSE answer
          /\ IF m = "thread/start" /\ kind \in {"ok", "mismatch"} THEN
               /\ sub' = [sub EXCEPT ![a].thread = TRUE]
               /\ routes' = routes \cup {a}
             ELSE
               /\ sub' = IF m = "turn/start" /\ kind = "ok" THEN [sub EXCEPT ![a].turn = TRUE] ELSE sub
               /\ UNCHANGED routes
          /\ early' = IF ~Starting(pending') THEN NothingEarly ELSE early
          /\ UNCHANGED closed
  /\ UNCHANGED <<calls, stage, got, cleaner, writes, reader, asked, thread, turn, emitted, alive, activity>>

\* A thread gets its name and then, in order, the events that came before: those
\* that fit are queued.
Named(a, s, events) ==
  LET room == IF stage[a] = "ended" THEN 0 ELSE MaxEvents - Len(s.queue)
      fit == IF Len(events) <= room THEN Len(events) ELSE room
  IN [thread |-> TRUE,
      turn |-> s.turn \/ \E e \in ToSet(events) : e.turn,
      completed |-> s.completed \/ \E e \in ToSet(events) : e.kind \in {"completed", "turn_failed"},
      failed |-> s.failed \/ fit # Len(events) \/ \E e \in ToSet(events) : e.kind = "request",
      queue |-> s.queue \o SubSeq(events, 1, fit)]

\* A response: a new thread is registered together with its early events.
Respond(a, m, kind) ==
  /\ reader = "reading" /\ <<a, m, kind>> \in owed
  /\ owed' = owed \ {<<a, m, kind>>}
  /\ IF <<a, m>> \notin pending THEN UNCHANGED <<table, answer, sub>>
     ELSE /\ pending' = pending \ {<<a, m>>}
          /\ answer' = IF Awaited(a, m) THEN [answer EXCEPT ![a] = kind] ELSE answer
          /\ IF m = "thread/start" /\ kind \in {"ok", "mismatch"} THEN
               /\ sub' = [sub EXCEPT ![a] = Named(a, @, early[a])]
               /\ routes' = routes \cup {a}
               /\ early' = IF ~Starting(pending') THEN NothingEarly ELSE [early EXCEPT ![a] = <<>>]
             ELSE
               /\ sub' = IF m = "turn/start" /\ kind = "ok" THEN [sub EXCEPT ![a].turn = TRUE] ELSE sub
               /\ early' = IF ~Starting(pending') THEN NothingEarly ELSE early
               /\ UNCHANGED routes
          /\ UNCHANGED closed
  /\ UNCHANGED <<calls, stage, got, cleaner, writes, reader, asked, thread, turn, emitted, alive, activity>>

EndOfOutput ==
  /\ ~alive /\ reader = "reading"
  /\ FailSession /\ reader' = "gone"
  /\ UNCHANGED <<calls, stage, got, cleaner, writes, asked, server, activity>>
-----------------------------------------------------------------------------
(* CodexProvider::close: Activity::close, then Session::stop.                *)

Untouched == <<calls, stage, got, cleaner, writes, asked, thread, turn, emitted, owed, lease>>

\* The notification is created before the leases are counted.
Listen ==
  /\ closer = "open" \/ (closer = "wait" /\ woken)
  /\ closer' = "check" /\ woken' = FALSE
  /\ UNCHANGED <<Untouched, answer, sub, table, reader, alive, closing>>

CountLeases ==
  /\ closer = "check"
  /\ closing' = TRUE
  /\ closer' = IF \E c \in Calls : lease[c] = "held" THEN "wait" ELSE "stop"
  /\ UNCHANGED <<Untouched, answer, sub, table, reader, alive, woken>>

Stop ==
  /\ closer = "stop"
  /\ FailSession
  /\ closer' = "stopped" /\ reader' = "gone" /\ alive' = FALSE
  /\ UNCHANGED <<Untouched, closing, woken>>
-----------------------------------------------------------------------------
NewSubscription ==
  [thread |-> FALSE, turn |-> FALSE, completed |-> FALSE, failed |-> FALSE, queue |-> <<>>]
NothingGot == [seen |-> 0, final |-> FALSE, completed |-> FALSE]

Init ==
  /\ phase = [c \in Calls |-> "idle"] /\ try = [c \in Calls |-> 1]
  /\ stage = [a \in Attempts |-> "none"] /\ got = [a \in Attempts |-> NothingGot]
  /\ cleaner = [a \in Attempts |-> "none"] /\ answer = [a \in Attempts |-> "none"]
  /\ sub = [a \in Attempts |-> NewSubscription]
  /\ pending = {} /\ routes = {} /\ early = NothingEarly /\ closed = FALSE
  /\ writes = <<>> /\ reader = "reading" /\ asked = <<>>
  /\ thread = [a \in Attempts |-> "none"] /\ turn = [a \in Attempts |-> "unstarted"]
  /\ emitted = [a \in Attempts |-> 0] /\ owed = {} /\ alive = TRUE
  /\ lease = [c \in Calls |-> "none"]
  /\ closing = FALSE /\ closer = "open" /\ woken = FALSE

Call(c) ==
  \/ StartAttempt(c) \/ ThreadStarted(c) \/ TurnStarted(c) \/ StartRejected(c)
  \/ CheckEvents(c) \/ ReceiveEvent(c) \/ Retry(c)
  \/ DropLease(c) \/ NotifyWaiters(c)

Cleanup(a) == Look(a) \/ Seek(a) \/ Snapshot(a) \/ CleanupContinues(a) \/ NameThread(a) \/ Sweep(a)

Close == Listen \/ CountLeases \/ Stop

Next ==
  \/ \E c \in Calls : Enter(c) \/ Call(c) \/ Deadline(c)
  \/ \E a \in Attempts :
       \/ Cleanup(a) \/ GiveUpSeeking(a) \/ CleanupTimeout(a)
       \/ \E kind \in Kinds : Emit(a, kind)
  \/ \E r \in owed : Respond(r[1], r[2], r[3])
  \/ WriteNext \/ RouteRefused \/ EndOfOutput \/ Exit
  \/ Close

Spec == Init /\ [][Next]_vars

\* Tasks are scheduled and timers fire; the server owes nothing.
FairSpec ==
  /\ Spec
  /\ \A c \in Calls : WF_vars(Call(c) \/ Deadline(c))
  /\ \A a \in Attempts : WF_vars(Cleanup(a)) /\ WF_vars(GiveUpSeeking(a))
  /\ WF_vars(Close)
-----------------------------------------------------------------------------
(* Properties.                                                              *)

Events == [att : Attempts, kind : EventKinds \cup {"nudge"}, num : Nat, turn : BOOLEAN]
Subscriptions ==
  [thread : BOOLEAN, turn : BOOLEAN, completed : BOOLEAN, failed : BOOLEAN,
   queue : Seq(Events)]

\* The type of every variable; no buffer exceeds its bound.
TypeOK ==
  /\ phase \in [Calls -> {"idle", "ready", "working", "backoff", "done"}]
  /\ try \in [Calls -> 1..MaxTries]
  /\ stage \in [Attempts -> CallMethods \cup {"none", "check", "receive", "ended"}]
  /\ got \in [Attempts -> [seen : Nat, final : BOOLEAN, completed : BOOLEAN]]
  /\ cleaner \in [Attempts -> CleanupMethods \cup
                    {"none", "look", "seek", "snapshot", "name", "forget", "sweep", "done"}]
  /\ answer \in [Attempts -> AnswerKinds \cup {"none", "closed", "unstarted", "running", "over"}]
  /\ sub \in [Attempts -> Subscriptions]
  /\ \A a \in Attempts : Len(sub[a].queue) <= MaxEvents
  /\ pending \subseteq Requests /\ routes \subseteq Attempts
  /\ early \in [Attempts -> Seq(Events)] /\ EarlyCount <= MaxEvents
  /\ closed \in BOOLEAN /\ reader \in {"reading", "refusing", "refused", "gone"}
  /\ thread \in [Attempts -> {"none", "open", "closed"}]
  /\ turn \in [Attempts -> {"unstarted", "running", "over"}]
  /\ lease \in [Calls -> {"none", "held", "dropped"}]
  /\ closer \in {"open", "check", "wait", "stop", "stopped"}

Listening(a) == stage[a] \in CallMethods \cup {"check", "receive"}

\* A subscriber that has not failed gets every event of its thread, each once and
\* in the order of the server, those that came before its thread had a name
\* included.
EventsComplete ==
  \A a \in Attempts :
    Listening(a) /\ ~sub[a].failed /\ ~closed /\ reader = "reading" =>
      LET held == sub[a].queue \o early[a]
      IN /\ got[a].seen + Len(held) = emitted[a]
         /\ \A i \in 1..Len(held) : held[i].att = a /\ held[i].num = got[a].seen + i

\* Who waits for events learns that his subscription has failed.
FailureWakes ==
  \A a \in Attempts : stage[a] = "receive" /\ sub[a].failed => sub[a].queue # <<>>

\* When the session is closed nobody is left waiting for an answer
\* (tests/decision_concurrent_provider.rs,
\* shared_process_exit_finishes_all_four_waiters_without_retrying_turns).
NoWaiterIsForgotten ==
  closed => \A a \in Attempts :
    /\ stage[a] \in CallMethods \/ cleaner[a] \in CleanupMethods => answer[a] # "none"
    /\ stage[a] \in {"check", "receive"} => sub[a].failed

\* A call never has two turns accepted: only what was rejected is tried again
\* (docs/decision.md: never an unconfirmed duplicate submission).
OneAcceptedTurn ==
  \A c \in Calls : Cardinality({n \in 1..MaxTries : turn[<<c, n>>] # "unstarted"}) <= 1

\* When its cleanup is over the turn of an attempt is not running, unless a
\* timeout struck, an answer was lost or the session failed.
NoTurnLeftRunning ==
  \A a \in Attempts : cleaner[a] = "done" /\ ~closed => turn[a] # "running"

\* The process is stopped when no call and no cleanup can still use it
\* (tests/decision_concurrent_provider.rs,
\* close_waits_for_four_active_decisions_and_cleanup_while_rejecting_new_work).
StopsWhenQuiet ==
  closer \in {"stop", "stopped"} =>
    /\ \A c \in Calls : phase[c] \in {"idle", "done"}
    /\ \A a \in Attempts : cleaner[a] \in {"none", "done"}

\* When every attempt is cleaned up the session holds nothing for it.
NothingIsKept ==
  (\A a \in Attempts : stage[a] \in {"none", "ended"} /\ cleaner[a] \in {"none", "done"}) =>
    pending = {} /\ (closed \/ routes = {}) /\ early = NothingEarly

\* A close ends: the last lease is not missed.
CloseEnds == closer # "open" ~> closer = "stopped"

\* When its cleanup is over the thread of an attempt is unsubscribed
\* (tests/decision_concurrent_provider.rs: "every completed, rejected, expired or
\* cancelled thread must be cleaned up").
ThreadsAreUnsubscribed ==
  \A a \in Attempts : cleaner[a] = "done" /\ ~closed => thread[a] # "open"

\* A call leaves nothing behind: no turn of it runs on after its caller gave up, and the
\* session keeps no state of a thread no call waits for (transport.rs cleanup).
TurnsAreCleanedUp == NoTurnLeftRunning /\ NothingIsKept
=============================================================================
