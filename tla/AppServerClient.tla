---------------------------- MODULE AppServerClient ----------------------------
(***************************************************************************)
(* The app-server client of a supervisor process                             *)
(* (src/dispatch/codex_runtime/client.rs, protocol.rs, projection.rs): the   *)
(* worker task that owns the connection, the bounded event queue between it  *)
(* and the supervisor's loop, the controls and the answers the loop delivers *)
(* from the database, and the reconnect.                                     *)
(*                                                                           *)
(* The supervisor has one call at a time and does not read events while it   *)
(* waits, so a lossless event that finds the queue full holds up the answer  *)
(* behind it until the call times out.  Every supervisor starts an app       *)
(* server of its own; servers number their requests from AskBase.            *)
(***************************************************************************)
EXTENDS Naturals, Sequences, FiniteSets, SequencesExt

CONSTANTS Clients,         \* supervisor processes, each with a client
          Controls,        \* turn/steer and turn/interrupt entries users queue
          QueueCapacity,   \* QUEUE_CAPACITY of the event channel
          AskBase,         \* the first id of a server's own requests
          MaxNotes,        \* bound: notifications of one connection
          MaxAsks,         \* bound: server requests of one connection
          MaxConnections   \* bound: connections of one supervisor

ASSUME ClientAssumption ==
  QueueCapacity \in Nat \ {0} /\ AskBase \in Nat /\ MaxNotes \in Nat /\ MaxAsks \in Nat

VARIABLES conn,   \* per supervisor: the worker, its channels, the server behind it
          epoch,  \* number of the connection
          place,  \* where the supervisor's loop is
          call,   \* the oneshot it waits on
          todo,   \* rows it has read and not yet delivered
          outbox, \* codex_outbox: the control entries, oldest first
          rows,   \* pending_requests, oldest first
          arrived \* controls a server has taken
clientVars == <<conn, epoch, place, call, todo, outbox, rows, arrived>>
-----------------------------------------------------------------------------
NoCall == [stage |-> "none", what |-> "none", item |-> "none"]
Nothing == [n |-> 0, lossless |-> FALSE]
\* A connection right after the handshake.
Connected(mode) ==
  [worker |-> "on", mode |-> mode, wire |-> <<>>, queue |-> <<>>, held |-> <<>>, skipped |-> 0,
   next |-> 1, awaited |-> 0, sent |-> <<>>, up |-> TRUE, notes |-> 0, asks |-> 0, open |-> {},
   told |-> 0, last |-> Nothing]
Closed == [Connected("stdio") EXCEPT !.worker = "gone", !.up = FALSE]

Note(n, lossless) == [kind |-> "note", n |-> n, lossless |-> lossless]
\* The count is lost on the way.
Lagged_Once(count) == [kind |-> "lag", n |-> 1, lossless |-> TRUE]
Lagged(count) == [kind |-> "lag", n |-> count, lossless |-> TRUE]
\* A question may be dropped like any notification.
Question_BestEffort(id) == [kind |-> "ask", n |-> id, lossless |-> FALSE]
Question(id) == [kind |-> "ask", n |-> id, lossless |-> TRUE]
Reply(id) == [kind |-> "reply", n |-> id, lossless |-> TRUE]
Disconnected == [kind |-> "disconnected", n |-> 0, lossless |-> TRUE]

Connect(s, mode) ==
  /\ epoch[s] < MaxConnections
  /\ epoch' = [epoch EXCEPT ![s] = @ + 1]
  /\ conn' = [conn EXCEPT ![s] = Connected(mode)]
  /\ place' = [place EXCEPT ![s] = "resume"]
  /\ call' = [call EXCEPT ![s] = NoCall] /\ todo' = [todo EXCEPT ![s] = <<>>]
  /\ UNCHANGED <<outbox, rows, arrived>>
-----------------------------------------------------------------------------
(* The worker: a select over commands and lines.  It does neither while it   *)
(* waits to enqueue (held).                                                  *)

Running(s) == conn[s].worker = "on" /\ conn[s].held = <<>>

\* The loop of the worker ends: nobody waits for an answer any more; a daemon
\* connection announces it.
Ended(c) == [c EXCEPT !.worker = IF c.mode = "daemon" THEN "ending" ELSE "gone", !.awaited = 0,
                      !.held = IF c.mode = "daemon" THEN <<Disconnected>> ELSE <<>>]
FailCall(s) == [call EXCEPT ![s].stage = IF @ = "written" THEN "failed" ELSE @]

TakeCommand(s) ==
  /\ Running(s) /\ call[s].stage = "queued"
  /\ LET c == conn[s]
         response == call[s].what = "respond"
     IN \/ /\ c.up /\ response
           /\ conn' = [conn EXCEPT ![s].sent =
                         Append(@, [what |-> "respond", id |-> call[s].item.id, item |-> "none"])]
           /\ call' = [call EXCEPT ![s].stage = "answered"]
        \/ /\ ~c.up /\ response
           /\ call' = [call EXCEPT ![s].stage = "failed"] /\ conn' = conn
        \/ /\ c.up /\ ~response
           /\ conn' = [conn EXCEPT ![s].next = @ + 1, ![s].awaited = c.next,
                ![s].sent = Append(@, [what |-> call[s].what, id |-> c.next, item |-> call[s].item])]
           /\ call' = [call EXCEPT ![s].stage = "written"]
        \/ /\ ~c.up /\ ~response
           /\ conn' = [conn EXCEPT ![s] = Ended(c)]
           /\ call' = [call EXCEPT ![s].stage = "failed"]
  /\ UNCHANGED <<epoch, place, todo, outbox, rows, arrived>>

\* The announcement follows the event it should precede.
Announced_After(skipped, m) == IF skipped > 0 THEN <<m, Lagged(skipped)>> ELSE <<m>>
\* A lossless event waits for room behind the announcement of what was skipped.
Announced(skipped, m) == IF skipped > 0 THEN <<Lagged(skipped), m>> ELSE <<m>>

\* route_message hands a line to whoever waits for its id, whatever the line is;
\* else it is an event, or a line nobody wants.
RouteMessage(s) ==
  /\ Running(s) /\ conn[s].wire # <<>>
  /\ LET c == conn[s]
         m == Head(c.wire)
         read == [c EXCEPT !.wire = Tail(@)]
         answers == m.kind \in {"reply", "ask"} /\ m.n = c.awaited
     IN /\ conn' = [conn EXCEPT ![s] =
             IF answers THEN [read EXCEPT !.awaited = 0]
             ELSE IF m.kind = "reply" THEN read
             ELSE IF m.lossless
             THEN [read EXCEPT !.held = Announced(c.skipped, m), !.skipped = 0]
             ELSE IF Len(c.queue) < QueueCapacity THEN [read EXCEPT !.queue = Append(@, m)]
             ELSE [read EXCEPT !.skipped = @ + 1]]
        /\ call' = IF answers THEN [call EXCEPT ![s].stage = "answered"] ELSE call
  /\ UNCHANGED <<epoch, place, todo, outbox, rows, arrived>>

EnterQueue(s) ==
  /\ conn[s].held # <<>> /\ Len(conn[s].queue) < QueueCapacity
  /\ conn' = [conn EXCEPT ![s].queue = Append(@, Head(conn[s].held)), ![s].held = Tail(@),
       ![s].worker = IF @ = "ending" /\ Len(conn[s].held) = 1 THEN "gone" ELSE @]
  /\ UNCHANGED <<epoch, place, call, todo, outbox, rows, arrived>>

EndOfStream(s) ==
  /\ Running(s) /\ conn[s].wire = <<>> /\ ~conn[s].up
  /\ conn' = [conn EXCEPT ![s] = Ended(@)]
  /\ call' = FailCall(s)
  /\ UNCHANGED <<epoch, place, todo, outbox, rows, arrived>>
-----------------------------------------------------------------------------
(* The supervisor: it connects, resumes its thread, and then loops over the  *)
(* ready answers, the pending controls and one event.                        *)

\* The process ends: its loop is done, an error left it, or it was killed.
\* The channels and the worker go with it.
Leave(s) ==
  /\ place[s] # "off"
  /\ place' = [place EXCEPT ![s] = "off"]
  /\ conn' = [conn EXCEPT ![s] = Closed]
  /\ call' = [call EXCEPT ![s] = NoCall] /\ todo' = [todo EXCEPT ![s] = <<>>]
  /\ UNCHANGED <<epoch, outbox, rows, arrived>>

StartSupervisor(s) == place[s] = "off" /\ Connect(s, "stdio")

Begin(s, what, item) ==
  /\ call' = [call EXCEPT ![s] = [stage |-> "queued", what |-> what, item |-> item]]
  /\ UNCHANGED <<conn, epoch, outbox, rows, arrived>>

\* thread/resume, and after a reconnect thread/read: one call stands for both.
Resume(s) == /\ place[s] = "resume" /\ call[s] = NoCall
             /\ Begin(s, "resume", "none") /\ UNCHANGED <<place, todo>>

\* A call of request or respond comes back with an error, or its timeout ends it.
CallFails(s) == call[s].stage = "failed" /\ Leave(s)
\* The loop waits for an answer for as long as it takes.
TimesOut_Never(s) == FALSE /\ Leave(s)
TimesOut(s) == call[s].stage \in {"queued", "written"} /\ Leave(s)
CommandRefused(s) ==
  /\ call[s].stage = "queued" /\ conn[s].worker = "gone" /\ Leave(s)

\* A call that was only written counts as done.
CallReturns_Written(s) ==
  /\ call[s].stage = "written"
  /\ call' = [call EXCEPT ![s] = NoCall]
  /\ outbox' = [i \in DOMAIN outbox |->
       IF outbox[i].control = call[s].item THEN [outbox[i] EXCEPT !.status = "sent"] ELSE outbox[i]]
  /\ place' = [place EXCEPT ![s] = IF call[s].what = "resume" THEN "responses" ELSE @]
  /\ UNCHANGED <<conn, epoch, todo, rows, arrived>>
\* The statement after the answer: resolve_server_request, mark_sent.
CallReturns(s) ==
  /\ call[s].stage = "answered"
  /\ call' = [call EXCEPT ![s] = NoCall]
  /\ \/ /\ call[s].what = "resume"
        /\ place' = [place EXCEPT ![s] = "responses"]
        /\ UNCHANGED <<outbox, rows>>
     \/ /\ call[s].what = "respond"
        /\ rows' = [i \in DOMAIN rows |->
             IF rows[i].ask = call[s].item THEN [rows[i] EXCEPT !.status = "resolved"] ELSE rows[i]]
        /\ UNCHANGED <<place, outbox>>
     \/ /\ call[s].what = "control"
        /\ outbox' = [i \in DOMAIN outbox |->
             IF outbox[i].control = call[s].item THEN [outbox[i] EXCEPT !.status = "sent"]
             ELSE outbox[i]]
        /\ UNCHANGED <<place, rows>>
  /\ UNCHANGED <<conn, epoch, todo, arrived>>

\* ready_responses and pending_control_entries: of every thread the first, of
\* the supervisor's own thread the second (a control belongs to no other here).
WithStatus(status, entries) ==
  FoldLeft(LAMBDA found, e : IF e.status = status THEN Append(found, e) ELSE found, <<>>, entries)
ReadReady(s) ==
  /\ place[s] = "responses" /\ place' = [place EXCEPT ![s] = "respond"]
  /\ todo' = [todo EXCEPT ![s] = WithStatus("ready", rows)]
  /\ UNCHANGED <<conn, epoch, call, outbox, rows, arrived>>
ReadControls(s) ==
  /\ place[s] = "respond" /\ todo[s] = <<>> /\ call[s] = NoCall
  /\ place' = [place EXCEPT ![s] = "control"]
  /\ todo' = [todo EXCEPT ![s] = WithStatus("pending", outbox)]
  /\ UNCHANGED <<conn, epoch, call, outbox, rows, arrived>>

DeliverResponse(s) ==
  /\ place[s] = "respond" /\ call[s] = NoCall /\ todo[s] # <<>>
  /\ Begin(s, "respond", Head(todo[s]).ask)
  /\ todo' = [todo EXCEPT ![s] = Tail(@)] /\ place' = place
DeliverControl(s) ==
  /\ place[s] = "control" /\ call[s] = NoCall /\ todo[s] # <<>>
  /\ Begin(s, "control", Head(todo[s]).control)
  /\ todo' = [todo EXCEPT ![s] = Tail(@)] /\ place' = place
DeliveryDone(s) ==
  /\ place[s] = "control" /\ call[s] = NoCall /\ todo[s] = <<>>
  /\ place' = [place EXCEPT ![s] = "pump"]
  /\ UNCHANGED <<conn, epoch, call, todo, outbox, rows, arrived>>

\* pump_once projects one event; the supervisor waits a second for it.
PumpOnce(s) ==
  /\ place[s] = "pump" /\ place' = [place EXCEPT ![s] = "responses"]
  /\ conn[s].queue # <<>> \/ conn[s].worker # "gone"
  /\ LET c == conn[s]
         e == Head(c.queue)
     IN IF c.queue = <<>> THEN UNCHANGED <<conn, rows>>
        ELSE /\ conn' = [conn EXCEPT ![s].queue = Tail(@),
                  ![s].told = IF e.kind = "note" THEN @ + 1
                              ELSE IF e.kind = "lag" THEN @ + e.n ELSE @,
                  ![s].last = IF e.kind = "note" THEN [n |-> e.n, lossless |-> e.lossless] ELSE @]
             /\ rows' = IF e.kind # "ask" THEN rows
                        ELSE Append(rows, [ask |-> [sup |-> s, epoch |-> epoch[s], id |-> e.n],
                                           status |-> "pending"])
  /\ UNCHANGED <<epoch, call, todo, outbox, arrived>>
\* A reconnect may fail; then, and when the bound is reached, the error ends the
\* supervisor.
Reconnect(s) ==
  /\ place[s] = "pump" /\ conn[s].queue = <<>> /\ conn[s].worker = "gone"
  /\ Leave(s) \/ \E mode \in {"daemon", "stdio"} : Connect(s, mode)
-----------------------------------------------------------------------------
(* Commands of the user: statements on the database.                         *)
QueueControl(c) ==
  /\ \A i \in DOMAIN outbox : outbox[i].control # c
  /\ outbox' = Append(outbox, [control |-> c, status |-> "pending"])
  /\ UNCHANGED <<conn, epoch, place, call, todo, rows, arrived>>
AnswerRequest(i) ==
  /\ rows[i].status = "pending" /\ rows' = [rows EXCEPT ![i].status = "ready"]
  /\ UNCHANGED <<conn, epoch, place, call, todo, outbox, arrived>>

(* The server.                                                               *)
Handle(s) ==
  /\ conn[s].up /\ conn[s].sent # <<>>
  /\ LET m == Head(conn[s].sent)
     IN /\ conn' = [conn EXCEPT ![s].sent = Tail(@),
             ![s].wire = IF m.what = "respond" THEN @ ELSE Append(@, Reply(m.id)),
             ![s].open = IF m.what = "respond" THEN @ \ {m.id} ELSE @]
        /\ arrived' = IF m.what = "control" THEN arrived \cup {m.item} ELSE arrived
  /\ UNCHANGED <<epoch, place, call, todo, outbox, rows>>
Notify(s) ==
  /\ conn[s].up /\ conn[s].notes < MaxNotes
  /\ \E lossless \in BOOLEAN :
       conn' = [conn EXCEPT ![s].notes = @ + 1,
                            ![s].wire = Append(@, Note(conn[s].notes + 1, lossless))]
  /\ UNCHANGED <<epoch, place, call, todo, outbox, rows, arrived>>
ServerAsks(s) ==
  /\ conn[s].up /\ conn[s].asks < MaxAsks
  /\ LET id == AskBase + conn[s].asks
     IN conn' = [conn EXCEPT ![s].asks = @ + 1, ![s].open = @ \cup {id},
                             ![s].wire = Append(@, Question(id))]
  /\ UNCHANGED <<epoch, place, call, todo, outbox, rows, arrived>>
ServerExits(s) ==
  /\ conn[s].up /\ conn' = [conn EXCEPT ![s].up = FALSE]
  /\ UNCHANGED <<epoch, place, call, todo, outbox, rows, arrived>>
-----------------------------------------------------------------------------
ClientInit ==
  /\ conn = [s \in Clients |-> Closed] /\ epoch = [s \in Clients |-> 0]
  /\ place = [s \in Clients |-> "off"] /\ call = [s \in Clients |-> NoCall]
  /\ todo = [s \in Clients |-> <<>>]
  /\ outbox = <<>> /\ rows = <<>> /\ arrived = {}

Worker(s) == TakeCommand(s) \/ RouteMessage(s) \/ EnterQueue(s) \/ EndOfStream(s)
Loop(s) == \/ Resume(s) \/ CallFails(s) \/ CommandRefused(s) \/ CallReturns(s)
           \/ ReadReady(s) \/ ReadControls(s) \/ DeliverResponse(s) \/ DeliverControl(s)
           \/ DeliveryDone(s) \/ PumpOnce(s) \/ Reconnect(s)
ClientNext ==
  \/ \E s \in Clients :
       \/ StartSupervisor(s) \/ Worker(s) \/ Loop(s) \/ TimesOut(s) \/ Leave(s)
       \/ Handle(s) \/ Notify(s) \/ ServerAsks(s) \/ ServerExits(s)
  \/ \E c \in Controls : QueueControl(c)
  \/ \E i \in DOMAIN rows : AnswerRequest(i)
ClientSpec == ClientInit /\ [][ClientNext]_clientVars
\* The tasks run, the server takes what it is sent, timers fire.  A handshake has
\* no timer: here it returns, and in DispatchRun (HandshakeHangs) it may not.
ClientFairSpec ==
  /\ ClientSpec
  /\ \A s \in Clients : /\ WF_clientVars(Worker(s)) /\ WF_clientVars(Loop(s))
                            /\ WF_clientVars(Handle(s)) /\ WF_clientVars(TimesOut(s))
-----------------------------------------------------------------------------
Carried(c) == c.queue \o c.held \o c.wire
\* How many notifications events stand for.
Stands(e) == CASE e.kind = "note" -> 1 [] e.kind = "lag" -> e.n [] OTHER -> 0
Accounted(events) == FoldLeft(LAMBDA sum, e : sum + Stands(e), 0, events)

\* Every notification of a live connection is projected, on its way, counted as
\* skipped or announced as lag: the queue drops none in silence.
NotesAddUp ==
  \A s \in Clients : LET c == conn[s] IN
    c.worker = "on" => c.told + Accounted(Carried(c)) + c.skipped = c.notes

\* A lossless notification is projected only after everything before it was
\* projected or announced as lag, in the order of the server.
LagComesFirst ==
  \A s \in Clients : conn[s].last.lossless => conn[s].told >= conn[s].last.n

\* A control is marked sent only when a server has taken it, whatever crashed,
\* timed out or reconnected on the way.
SentControlsArrived ==
  \A i \in DOMAIN outbox : outbox[i].status = "sent" => outbox[i].control \in arrived

\* A question the server waits for is on its way to the table or in it, as long
\* as the connection lives: a full queue may delay it and must not lose it.
\* (It needs AskBase above the ids of the client's own calls: see RouteMessage.)
QuestionsReachTheTable ==
  \A s \in Clients : \A id \in conn[s].open :
    conn[s].worker = "on" =>
      \/ \E i \in DOMAIN Carried(conn[s]) : Carried(conn[s])[i] = Question(id)
      \/ \E i \in DOMAIN rows : rows[i].ask = [sup |-> s, epoch |-> epoch[s], id |-> id]

\* A queued control leaves the queue, or its supervisor ends: no order of events,
\* answers and exits keeps the loop waiting for ever, as long as the handshake of
\* every reconnect is answered.
ControlsMove ==
  \A s \in Clients, c \in Controls :
    (\E i \in DOMAIN outbox : outbox[i] = [control |-> c, status |-> "pending"]) /\ place[s] # "off"
      ~> (\E i \in DOMAIN outbox : outbox[i] = [control |-> c, status |-> "sent"]) \/ place[s] = "off"

\* What passes between the server and the run arrives or is said to be missing:
\* notifications add up and are not overtaken by the news that some were skipped,
\* a question reaches the table and a control marked sent reached the server
\* (client.rs route_message, protocol.rs deliver_control_outbox).
NothingIsLostInSilence ==
  NotesAddUp /\ LagComesFirst /\ SentControlsArrived /\ QuestionsReachTheTable
=============================================================================
