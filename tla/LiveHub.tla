------------------------------ MODULE LiveHub ------------------------------
(***************************************************************************)
(* The fan-out of app/services/live_hub.py and the WebSocket handler of    *)
(* app/api/v1/routes/live.py that registers its clients.                   *)
(*                                                                         *)
(* Ingestion threads publish from outside the event loop: a publish only   *)
(* schedules a callback.  Everything else runs on the loop, one step at a  *)
(* time between two awaits: the callbacks, in order, the drain task, and   *)
(* one handler per client.  A frame is named by the order in which it was  *)
(* published.  A client reads at its own pace and may stop reading, when   *)
(* its send does not complete, or leave, when its send raises.             *)
(***************************************************************************)
EXTENDS Naturals, Sequences, FiniteSets, SequencesExt

CONSTANTS
  Clients,      \* WebSocket connections
  Sessions,     \* session ids, as the hub's keys
  MaxQueue,     \* MAX_QUEUE
  MaxFrames     \* bound on the frames published

ASSUME BoundsAssumption == MaxQueue \in Nat /\ MaxFrames \in Nat

VARIABLES
  published,  \* how many frames were published
  scheduled,  \* the _put callbacks the loop has not run yet
  queue,      \* LiveHub._queue
  dropped,    \* frames that met a full queue
  conns,      \* LiveHub._conns
  drain,      \* the drain task: the frame it sends and the sends not completed
  client,     \* what each client's connection and handler do
  received    \* the frames each client was sent

vars == <<published, scheduled, queue, dropped, conns, drain, client, received>>

NoSend == [frame |-> 0, waiting |-> {}, dead |-> {}]

Init ==
  /\ published = 0
  /\ scheduled = <<>>
  /\ queue = <<>>
  /\ dropped = {}
  /\ conns = [s \in Sessions |-> {}]
  /\ drain = NoSend
  /\ client = [c \in Clients |-> "away"]
  /\ received = [c \in Clients |-> <<>>]

-----------------------------------------------------------------------------
(* Thread side *)

\* publish_threadsafe: call_soon_threadsafe(_put).
Publish(s) ==
  /\ published < MaxFrames
  /\ published' = published + 1
  /\ scheduled' = Append(scheduled, [id |-> published + 1, to |-> s])
  /\ UNCHANGED <<queue, dropped, conns, drain, client, received>>

-----------------------------------------------------------------------------
(* Loop side: the callbacks and the drain task *)

\* Mutant: a full queue drops without counting.
PutUncounted(f) ==
  /\ queue' = IF Len(queue) < MaxQueue THEN Append(queue, f) ELSE queue
  /\ UNCHANGED dropped

\* Mutant: a new frame overtakes those that wait.
PutFirst(f) ==
  /\ queue' = IF Len(queue) < MaxQueue THEN <<f>> \o queue ELSE queue
  /\ dropped' = IF Len(queue) < MaxQueue THEN dropped ELSE dropped \cup {f.id}

\* put_nowait: a full queue drops the frame and counts it.
Put(f) ==
  /\ queue' = IF Len(queue) < MaxQueue THEN Append(queue, f) ELSE queue
  /\ dropped' = IF Len(queue) < MaxQueue THEN dropped ELSE dropped \cup {f.id}

RunCallback ==
  /\ scheduled # <<>>
  /\ Put(Head(scheduled))
  /\ scheduled' = Tail(scheduled)
  /\ UNCHANGED <<published, conns, drain, client, received>>

\* queue.get() and the snapshot of the peers of _fanout.
DrainGet ==
  /\ drain = NoSend
  /\ queue # <<>>
  /\ queue' = Tail(queue)
  /\ drain' = [NoSend EXCEPT !.frame = Head(queue).id, !.waiting = conns[Head(queue).to]]
  /\ UNCHANGED <<published, scheduled, dropped, conns, client, received>>

\* gather: every send_json completes or raises on its own.
SendDone(c) ==
  /\ c \in drain.waiting
  /\ client[c] = "open"
  /\ received' = [received EXCEPT ![c] = Append(@, drain.frame)]
  /\ drain' = [drain EXCEPT !.waiting = @ \ {c}]
  /\ UNCHANGED <<published, scheduled, queue, dropped, conns, client>>

SendFails(c) ==
  /\ c \in drain.waiting
  /\ client[c] \in {"left", "closed"}
  /\ drain' = [drain EXCEPT !.waiting = @ \ {c}, !.dead = @ \cup {c}]
  /\ UNCHANGED <<published, scheduled, queue, dropped, conns, client, received>>

\* Every send has an outcome: the dead peers are unregistered.
DrainDone ==
  /\ drain # NoSend
  /\ drain.waiting = {}
  /\ conns' = [s \in Sessions |-> conns[s] \ drain.dead]
  /\ drain' = NoSend
  /\ UNCHANGED <<published, scheduled, queue, dropped, client, received>>

-----------------------------------------------------------------------------
(* Loop side: the handlers *)

\* The handshake is over: register, then "ready".
Attach(c, s) ==
  /\ client[c] = "away"
  /\ conns' = [conns EXCEPT ![s] = @ \cup {c}]
  /\ client' = [client EXCEPT ![c] = "open"]
  /\ UNCHANGED <<published, scheduled, queue, dropped, drain, received>>

\* The client stops reading and reads again.
Stall(c) ==
  /\ client[c] = "open"
  /\ client' = [client EXCEPT ![c] = "stalled"]
  /\ UNCHANGED <<published, scheduled, queue, dropped, conns, drain, received>>

ReadAgain(c) ==
  /\ client[c] = "stalled"
  /\ client' = [client EXCEPT ![c] = "open"]
  /\ UNCHANGED <<published, scheduled, queue, dropped, conns, drain, received>>

\* The client disconnects; its handler has not noticed.
Leave(c) ==
  /\ client[c] \in {"open", "stalled"}
  /\ client' = [client EXCEPT ![c] = "left"]
  /\ UNCHANGED <<published, scheduled, queue, dropped, conns, drain, received>>

\* Mutant: the handler leaves the entry of its client to the fan-out.
UnregisterNot(c) == conns

Unregister(c) == [s \in Sessions |-> conns[s] \ {c}]

\* receive_text raises, or the token is about to expire: `finally` unregisters.
Detach(c) ==
  /\ client[c] \in {"open", "stalled", "left"}
  /\ conns' = Unregister(c)
  /\ client' = [client EXCEPT ![c] = "closed"]
  /\ UNCHANGED <<published, scheduled, queue, dropped, drain, received>>

-----------------------------------------------------------------------------
DrainStep == DrainGet \/ DrainDone \/ \E c \in Clients : SendDone(c) \/ SendFails(c)

Next ==
  \/ \E s \in Sessions : Publish(s)
  \/ RunCallback
  \/ DrainStep
  \/ \E c \in Clients :
       \/ \E s \in Sessions : Attach(c, s)
       \/ Stall(c) \/ ReadAgain(c) \/ Leave(c) \/ Detach(c)

\* The loop runs its callbacks and its drain task, and a handler notices that its client
\* has left.  A client that has stopped reading need not read again.
Fairness ==
  /\ WF_vars(RunCallback)
  /\ WF_vars(DrainStep)
  /\ \A c \in Clients : WF_vars(client[c] = "left" /\ Detach(c))

Spec == Init /\ [][Next]_vars /\ Fairness
-----------------------------------------------------------------------------
(* Properties *)

FrameRecord == [id : 1 .. MaxFrames, to : Sessions]

\* Every variable keeps its type, and the queue its bound: the callbacks, the queue, the
\* connections and the drain task of the hub.
TypeOK ==
  /\ published \in 0 .. MaxFrames
  /\ scheduled \in Seq(FrameRecord)
  /\ queue \in Seq(FrameRecord) /\ Len(queue) <= MaxQueue
  /\ dropped \subseteq 1 .. MaxFrames
  /\ conns \in [Sessions -> SUBSET Clients]
  /\ drain \in [frame : 0 .. MaxFrames, waiting : SUBSET Clients, dead : SUBSET Clients]
  /\ client \in [Clients -> {"away", "open", "stalled", "left", "closed"}]
  /\ received \in [Clients -> Seq(1 .. MaxFrames)]

\* A client sees the frames of its session in the order in which they were published and
\* none of them twice, although they cross from threads to the loop and are sent to all
\* clients concurrently.
FramesInOrder ==
  \A c \in Clients : \A i, j \in DOMAIN received[c] :
    i < j => received[c][i] < received[c][j]

\* Frame n is on its way to client c, which watches its session.
OnItsWay(c, n) ==
  \E i \in DOMAIN scheduled : scheduled[i].id = n /\ c \in conns[scheduled[i].to]

\* While every client reads, a client that watches a session is sent every frame of it,
\* unless the queue was full and the frame is counted as dropped.
FramesArrive ==
  \A c \in Clients, n \in 1 .. MaxFrames :
    OnItsWay(c, n) ~>
      \/ n \in dropped \cup Range(received[c])
      \/ client[c] # "open"
      \/ \E d \in Clients : client[d] = "stalled"

\* A connection that is gone leaves no entry behind, whether its handler or the fan-out
\* notices first.
GoneClientsLeave ==
  \A c \in Clients :
    client[c] = "left" ~> \A s \in Sessions : c \notin conns[s]
=============================================================================
