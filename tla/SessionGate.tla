---------------------------- MODULE SessionGate ----------------------------
(***************************************************************************)
(* The dormancy switch of app/services/session_gate.py with everything     *)
(* that touches it: the lifecycle handlers that refresh it after their     *)
(* commit, the two daemon threads that park on it, the HTTP poller and the *)
(* MQTT subscriber of app/services/transports, and the lifespan of         *)
(* app/main.py that starts and stops them.                                 *)
(*                                                                         *)
(* A refresh is three steps, because refresh() reads the database before   *)
(* it takes the gate's lock and sets the event after it has released it.   *)
(* The event is one threading.Event shared by both threads: set() wakes    *)
(* every thread that is waiting, and the first to run clears it.           *)
(***************************************************************************)
EXTENDS Naturals, FiniteSets

CONSTANTS
  Handlers,        \* threadpool workers running a lifecycle request
  Sessions,        \* GPS-tracked sessions
  DatabaseFails,   \* may the SELECT of refresh() raise?
  HandlerFails,    \* may a handler die between its commit and its refresh?
  Redeploys        \* may the process be stopped and started again?

ASSUME SwitchesAssumption == {DatabaseFails, HandlerFails, Redeploys} \subseteq BOOLEAN

VARIABLES
  attachable,  \* sessions committed as active or paused
  open,        \* SessionGate._open
  changed,     \* the flag of SessionGate._changed
  handler,     \* where each handler is, and what its refresh has read
  poller,      \* where run_http_poller_loop is
  mqtt,        \* where run_mqtt_subscriber is
  connected,   \* the `connected` event of the MQTT link
  buffered,    \* does BUFFER hold a reading?
  main         \* where the lifespan of the process is

gate == <<attachable, open, changed, handler>>
link == <<mqtt, connected>>
vars == <<attachable, open, changed, handler, poller, mqtt, connected, buffered, main>>

\* Mutant: a failed SELECT closes the gate.
FoundFailClosed == {attachable # {}} \cup (IF DatabaseFails THEN {FALSE} ELSE {})

\* What the SELECT of refresh() decides: "fail open", one that raises counts as an
\* attachable session.
Found == {attachable # {}} \cup (IF DatabaseFails THEN {TRUE} ELSE {})

\* The process starts: lifespan refreshes the gate before it starts the threads.
Init ==
  /\ attachable \in SUBSET Sessions
  /\ open \in Found
  /\ changed = open
  /\ handler = [h \in Handlers |-> [pc |-> "idle", found |-> FALSE]]
  /\ poller = "check"
  /\ mqtt = "check"
  /\ connected = FALSE
  /\ buffered = FALSE
  /\ main = "serving"

\* `stop`, the event both loops test.
Stopped == main \in {"stopping", "flushed"}

-----------------------------------------------------------------------------
(* Lifecycle handlers: commit, then GATE.refresh(). *)

\* start, then stop or cancel, then pause or resume: what the commit did to the set.
Commit(h, sessions) ==
  /\ main = "serving"
  /\ handler[h].pc = "idle"
  /\ attachable' = sessions
  /\ handler' = [handler EXCEPT ![h].pc = "read"]
  /\ UNCHANGED <<open, changed, poller, link, buffered, main>>

StartSession(h) == \E s \in Sessions \ attachable : Commit(h, attachable \cup {s})
EndSession(h)   == \E s \in attachable : Commit(h, attachable \ {s})
PauseOrResume(h) == attachable # {} /\ Commit(h, attachable)

\* stop and cancel flush the buffer before they commit.
HandlerFlush(h) ==
  /\ main = "serving"
  /\ handler[h].pc = "idle"
  /\ attachable # {}
  /\ buffered' = FALSE
  /\ UNCHANGED <<gate, poller, link, main>>

RefreshRead(h) ==
  /\ handler[h].pc = "read"
  /\ \E found \in Found : handler' = [handler EXCEPT ![h] = [pc |-> "publish", found |-> found]]
  /\ UNCHANGED <<attachable, open, changed, poller, link, buffered, main>>

\* The lock section.
RefreshPublish(h) ==
  /\ handler[h].pc = "publish"
  /\ open' = handler[h].found
  /\ handler' = [handler EXCEPT ![h].pc = IF handler[h].found # open THEN "signal" ELSE "idle"]
  /\ UNCHANGED <<attachable, changed, poller, link, buffered, main>>

\* Event.set() wakes whoever waits now.
Woken(pc) == IF pc = "wait" THEN "woken" ELSE pc

RefreshSignal(h) ==
  /\ handler[h].pc = "signal"
  /\ changed' = TRUE
  /\ poller' = Woken(poller)
  /\ mqtt' = Woken(mqtt)
  /\ handler' = [handler EXCEPT ![h].pc = "idle"]
  /\ UNCHANGED <<attachable, open, connected, buffered, main>>

\* The connection is lost in db.refresh(session), between the commit and the refresh.
HandlerFailure(h) ==
  /\ HandlerFails
  /\ handler[h].pc = "read"
  /\ handler' = [handler EXCEPT ![h].pc = "idle"]
  /\ UNCHANGED <<attachable, open, changed, poller, link, buffered, main>>

-----------------------------------------------------------------------------
(* wait_for_change *)

Park(pc) == IF changed THEN "woken" ELSE "wait"

\* Mutant: no timeout, the event is the only thing that ends a wait.
TimedOutNever(pc) == FALSE

TimedOut(pc) == pc = "wait"

-----------------------------------------------------------------------------
(* run_http_poller_loop *)

\* One iteration begins: the flush timer, then the gate.
PollerCheck ==
  /\ poller = "check"
  /\ ~ Stopped
  /\ buffered' \in {buffered, FALSE}
  /\ poller' = IF open THEN "poll" ELSE "park"
  /\ UNCHANGED <<gate, link, main>>

PollerPark ==
  /\ poller = "park"
  /\ poller' = Park(poller)
  /\ UNCHANGED <<gate, link, buffered, main>>

PollerTimeout ==
  /\ TimedOut(poller)
  /\ poller' = "check"
  /\ UNCHANGED <<gate, link, buffered, main>>

PollerClear ==
  /\ poller = "woken"
  /\ changed' = FALSE
  /\ poller' = "check"
  /\ UNCHANGED <<attachable, open, handler, link, buffered, main>>

\* fetch_all_feeds and store_readings, which bypass the buffer, then the cadence.
PollerCycle ==
  /\ poller = "poll"
  /\ poller' = "check"
  /\ UNCHANGED <<gate, link, buffered, main>>

\* `stop` is set: the loop ends with a flush of its own.
PollerEnd ==
  /\ poller = "check"
  /\ Stopped
  /\ poller' = "ended"
  /\ buffered' = FALSE
  /\ UNCHANGED <<gate, link, main>>

-----------------------------------------------------------------------------
(* run_mqtt_subscriber *)

MqttCheck ==
  /\ mqtt = "check"
  /\ ~ Stopped
  /\ mqtt' = IF open THEN "connect" ELSE "park"
  /\ connected' = IF open THEN FALSE ELSE connected
  /\ UNCHANGED <<gate, poller, buffered, main>>

MqttEnd ==
  /\ mqtt = "check"
  /\ Stopped
  /\ mqtt' = "ended"
  /\ UNCHANGED <<gate, poller, connected, buffered, main>>

MqttPark ==
  /\ mqtt = "park"
  /\ mqtt' = Park(mqtt)
  /\ UNCHANGED <<gate, poller, connected, buffered, main>>

MqttTimeout ==
  /\ TimedOut(mqtt)
  /\ mqtt' = "check"
  /\ UNCHANGED <<gate, poller, connected, buffered, main>>

MqttClear ==
  /\ mqtt = "woken"
  /\ changed' = FALSE
  /\ mqtt' = "check"
  /\ UNCHANGED <<attachable, open, handler, poller, connected, buffered, main>>

\* The network thread lives from loop_start to loop_stop.
Networked == {"connect", "stream", "teardown"}

Connack ==
  /\ mqtt \in Networked
  /\ connected' = TRUE
  /\ UNCHANGED <<gate, poller, mqtt, buffered, main>>

LinkDrops ==
  /\ mqtt \in Networked
  /\ connected' = FALSE
  /\ UNCHANGED <<gate, poller, mqtt, buffered, main>>

\* on_message: BUFFER.add.
Message ==
  /\ mqtt \in Networked
  /\ connected
  /\ buffered' = TRUE
  /\ UNCHANGED <<gate, poller, link, main>>

Subscribed ==
  /\ mqtt = "connect"
  /\ connected
  /\ mqtt' = "stream"
  /\ UNCHANGED <<gate, poller, connected, buffered, main>>

\* connect() raises or CONNACK does not come in time.
HandshakeFails ==
  /\ mqtt = "connect"
  /\ mqtt' = "teardown"
  /\ UNCHANGED <<gate, poller, connected, buffered, main>>

\* Mutant: the streaming loop does not look at the gate.
LeaveStreamOnDropOnly ==
  /\ mqtt = "stream"
  /\ ~ connected
  /\ mqtt' = "teardown"
  /\ UNCHANGED <<gate, poller, connected, buffered, main>>

LeaveStream ==
  /\ mqtt = "stream"
  /\ ~ open \/ ~ connected \/ Stopped
  /\ mqtt' = "teardown"
  /\ UNCHANGED <<gate, poller, connected, buffered, main>>

\* loop_stop() and disconnect().
LoopStop ==
  /\ mqtt = "teardown"
  /\ mqtt' = "stopped"
  /\ UNCHANGED <<gate, poller, connected, buffered, main>>

\* Mutant: nothing is flushed once the link is down.
TeardownFlushNever ==
  /\ mqtt = "stopped"
  /\ mqtt' = "check"
  /\ UNCHANGED <<gate, poller, connected, buffered, main>>

\* BUFFER.flush(): written or, on an error, given up for the backfill.
TeardownFlush ==
  /\ mqtt = "stopped"
  /\ buffered' = FALSE
  /\ mqtt' = "check"
  /\ UNCHANGED <<gate, poller, connected, main>>

-----------------------------------------------------------------------------
(* The lifespan: a redeploy stops the process and starts a new one. *)

\* The server drains its requests, then stop.set() and GATE.wake().
BeginShutdown ==
  /\ Redeploys
  /\ main = "serving"
  /\ \A h \in Handlers : handler[h].pc = "idle"
  /\ main' = "stopping"
  /\ changed' = TRUE
  /\ poller' = Woken(poller)
  /\ mqtt' = Woken(mqtt)
  /\ UNCHANGED <<attachable, open, handler, connected, buffered>>

ShutdownFlush ==
  /\ main = "stopping"
  /\ main' = "flushed"
  /\ buffered' = FALSE
  /\ UNCHANGED <<gate, poller, link>>

\* The process exits without joining its daemon threads.
Exit ==
  /\ main = "flushed"
  /\ main' = "exited"
  /\ UNCHANGED <<gate, poller, link, buffered>>

Boot ==
  /\ main = "exited"
  /\ main' = "serving"
  /\ open' \in Found
  /\ changed' = open'
  /\ poller' = "check"
  /\ mqtt' = "check"
  /\ connected' = FALSE
  /\ buffered' = FALSE
  /\ UNCHANGED <<attachable, handler>>

-----------------------------------------------------------------------------
RefreshStep(h) == RefreshRead(h) \/ RefreshPublish(h) \/ RefreshSignal(h)

\* A daemon thread runs until the process exits.
PollerStep ==
  /\ main # "exited"
  /\ \/ PollerCheck \/ PollerPark \/ PollerTimeout \/ PollerClear \/ PollerCycle
     \/ PollerEnd

MqttStep ==
  /\ main # "exited"
  /\ \/ MqttCheck \/ MqttPark \/ MqttTimeout \/ MqttClear \/ Subscribed \/ HandshakeFails
     \/ LeaveStream \/ LoopStop \/ TeardownFlush \/ MqttEnd

Network == main # "exited" /\ (Connack \/ LinkDrops \/ Message)

Lifespan == BeginShutdown \/ ShutdownFlush \/ Exit \/ Boot

Next ==
  \/ \E h \in Handlers :
       \/ HandlerFlush(h)
       \/ StartSession(h) \/ EndSession(h) \/ PauseOrResume(h)
       \/ RefreshStep(h)
       \/ HandlerFailure(h)
  \/ PollerStep
  \/ MqttStep
  \/ Network
  \/ Lifespan

\* Threads that can run are scheduled, and a timed wait ends: the handlers' worker and
\* both daemon threads take their next step.  Clients and the broker need do nothing.
Fairness ==
  /\ \A h \in Handlers : WF_vars(RefreshStep(h))
  /\ WF_vars(PollerStep)
  /\ WF_vars(MqttStep)

Spec == Init /\ [][Next]_vars /\ Fairness
-----------------------------------------------------------------------------
(* Properties *)

TransportPcs == {"check", "park", "wait", "woken", "ended"}

\* Every variable keeps its type: the gate, its event, the refreshes in flight and the
\* two ingestion threads.
TypeOK ==
  /\ attachable \subseteq Sessions
  /\ {open, changed, connected, buffered} \subseteq BOOLEAN
  /\ handler \in [Handlers -> [pc : {"idle", "read", "publish", "signal"}, found : BOOLEAN]]
  /\ poller \in TransportPcs \cup {"poll"}
  /\ mqtt \in TransportPcs \cup Networked \cup {"stopped"}
  /\ main \in {"serving", "stopping", "flushed", "exited"}

\* "Never strand buffered readings across a disconnect" (mqtt_subscriber.py): once the
\* link is down and its loop is back at the gate, BUFFER holds nothing of it.
NothingStranded == mqtt \in TransportPcs => ~ buffered

\* GATE.wake() "so it can exit promptly": both threads end once the process is stopping,
\* unless it exits before they do.
StopEndsThreads ==
  Stopped ~> (poller = "ended" /\ mqtt = "ended") \/ main \in {"exited", "serving"}

\* An open gate is noticed: the parked poller comes back to polling unless the gate closes
\* again or the process stops, even when the other thread has cleared the shared event first.
OpenGateWakesPoller == open ~> (poller = "poll" \/ ~ open \/ main # "serving")

\* A closed gate is noticed: the subscriber gives up its broker connection.
ClosedGateDropsLink == ~ open ~> (mqtt \in TransportPcs \/ open \/ main = "exited")

\* Some refresh is about to publish that a session is attachable, and none that it is not.
OnlyOpeningReads ==
  /\ \E h \in Handlers : handler[h].pc = "publish" /\ handler[h].found
  /\ \A h \in Handlers : handler[h].pc = "publish" => handler[h].found

\* Once one refresh has seen an attachable session, the session is polled for as long as
\* it stays attachable and the process serves: refreshes that fail later, handlers that die
\* before theirs and the shared event cannot undo it.  What can is a refresh that read the
\* table before the session was committed and has yet to publish, hence the premise.
SessionIsPolled ==
  attachable # {} /\ OnlyOpeningReads
    ~> (poller = "poll" \/ attachable = {} \/ main # "serving")
=============================================================================
