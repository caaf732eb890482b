------------------------- MODULE SessionGateProofs -------------------------
(***************************************************************************)
(* Type correctness of the gate and its threads, that no reading is        *)
(* stranded in the buffer by a closing broker link, for any number of      *)
(* handlers and sessions.                                                  *)
(***************************************************************************)
EXTENDS SessionGate, TLAPS

\* The subscriber is back at the gate only through the flush that follows loop_stop(), and
\* no message arrives while it is there: NothingStranded is inductive by itself.
LEMMA StrandedStep == NothingStranded /\ [Next]_vars => NothingStranded'
<1> SUFFICES ASSUME NothingStranded, [Next]_vars
             PROVE  NothingStranded'
  OBVIOUS
<1> USE DEF NothingStranded, TransportPcs
<1>1. CASE UNCHANGED vars
  BY <1>1 DEF vars
<1>2. ASSUME NEW h \in Handlers,
             HandlerFlush(h) \/ StartSession(h) \/ EndSession(h) \/ PauseOrResume(h)
               \/ RefreshRead(h) \/ RefreshPublish(h) \/ HandlerFailure(h)
      PROVE  NothingStranded'
  BY <1>2 DEF HandlerFlush, StartSession, EndSession, PauseOrResume, Commit, RefreshRead,
              RefreshPublish, HandlerFailure, link
<1>3. ASSUME NEW h \in Handlers, RefreshSignal(h)
      PROVE  NothingStranded'
  BY <1>3 DEF RefreshSignal, Woken
<1>4. CASE PollerStep
  BY <1>4 DEF PollerStep, PollerCheck, PollerPark, PollerTimeout, PollerClear, PollerCycle,
              PollerEnd, link
<1>5. CASE MqttStep
  <2>1. CASE MqttCheck \/ MqttPark \/ MqttTimeout \/ MqttClear \/ MqttEnd
    BY <2>1 DEF MqttCheck, MqttPark, MqttTimeout, MqttClear, MqttEnd, TimedOut
  <2>2. CASE Subscribed \/ HandshakeFails \/ LeaveStream \/ LoopStop \/ TeardownFlush
    BY <2>2 DEF Subscribed, HandshakeFails, LeaveStream, LoopStop, TeardownFlush
  <2> QED
    BY <1>5, <2>1, <2>2 DEF MqttStep
<1>6. CASE Network
  BY <1>6 DEF Network, Connack, LinkDrops, Message, Networked, link
<1>7. CASE Lifespan
  BY <1>7 DEF Lifespan, BeginShutdown, ShutdownFlush, Exit, Boot, Woken, link
<1> QED
  BY <1>1, <1>2, <1>3, <1>4, <1>5, <1>6, <1>7 DEF Next, RefreshStep

\* mqtt_subscriber.py, "never strand buffered readings across a disconnect": whatever the
\* handlers, the poller and the broker do, BUFFER is empty of the link's readings whenever
\* the subscriber is parked at the gate or has ended.
THEOREM NothingIsStranded == Spec => []NothingStranded
<1>1. Init => NothingStranded
  BY DEF Init, NothingStranded
<1> QED
  BY <1>1, StrandedStep, PTL DEF Spec

-----------------------------------------------------------------------------
LEMMA FoundType == Found \subseteq BOOLEAN
  BY DEF Found

LEMMA TypesInit == Init => TypeOK
<1> SUFFICES ASSUME Init
             PROVE  TypeOK
  OBVIOUS
<1>1. {open, changed, connected, buffered} \subseteq BOOLEAN
  BY FoundType DEF Init
<1>2. handler \in [Handlers -> [pc : {"idle", "read", "publish", "signal"}, found : BOOLEAN]]
  BY DEF Init
<1> QED
  BY <1>1, <1>2 DEF Init, TypeOK, TransportPcs

LEMMA WokenType ==
  ASSUME NEW S, NEW pc \in TransportPcs \cup S
  PROVE  Woken(pc) \in TransportPcs \cup S /\ Park(pc) \in TransportPcs
  BY DEF Woken, Park, TransportPcs

LEMMA HandlerType ==
  ASSUME TypeOK, NEW h \in Handlers
  PROVE  handler[h].pc \in {"idle", "read", "publish", "signal"} /\ handler[h].found \in BOOLEAN
  BY DEF TypeOK

LEMMA TypesStep == TypeOK /\ [Next]_vars => TypeOK'
<1> SUFFICES ASSUME TypeOK, [Next]_vars
             PROVE  TypeOK'
  OBVIOUS
<1>1. CASE UNCHANGED vars
  BY <1>1 DEF vars, TypeOK
<1>2. ASSUME NEW h \in Handlers,
             HandlerFlush(h) \/ StartSession(h) \/ EndSession(h) \/ PauseOrResume(h)
               \/ RefreshPublish(h) \/ HandlerFailure(h)
      PROVE  TypeOK'
  <2>1. CASE HandlerFlush(h)
    BY <2>1 DEF HandlerFlush, gate, link, TypeOK
  <2>2. CASE RefreshPublish(h)
    BY <2>2, HandlerType DEF RefreshPublish, link, TypeOK
  <2>3. CASE HandlerFailure(h)
    BY <2>3 DEF HandlerFailure, link, TypeOK
  <2>4. ASSUME NEW sessions \in SUBSET Sessions, Commit(h, sessions)
        PROVE  TypeOK'
    BY <2>4 DEF Commit, link, TypeOK
  <2>5. CASE StartSession(h) \/ EndSession(h) \/ PauseOrResume(h)
    <3>1. attachable \subseteq Sessions
      BY DEF TypeOK
    <3> QED
      BY <2>4, <2>5, <3>1 DEF StartSession, EndSession, PauseOrResume
  <2> QED
    BY <1>2, <2>1, <2>2, <2>3, <2>5
<1>3. ASSUME NEW h \in Handlers, RefreshRead(h)
      PROVE  TypeOK'
  BY <1>3, FoundType DEF RefreshRead, link, TypeOK
<1>4. ASSUME NEW h \in Handlers, RefreshSignal(h)
      PROVE  TypeOK'
  BY <1>4, WokenType DEF RefreshSignal, TypeOK
<1>5. CASE PollerStep
  <2>1. CASE PollerPark
    BY <2>1, WokenType DEF PollerPark, gate, link, TypeOK
  <2>2. CASE PollerCheck \/ PollerTimeout \/ PollerClear \/ PollerCycle \/ PollerEnd
    BY <2>2 DEF PollerCheck, PollerTimeout, PollerClear, PollerCycle, PollerEnd, gate, link,
         TypeOK, TransportPcs
  <2> QED
    BY <1>5, <2>1, <2>2 DEF PollerStep
<1>6. CASE MqttStep
  <2>1. CASE MqttPark
    BY <2>1, WokenType DEF MqttPark, gate, TypeOK
  <2>2. CASE MqttCheck \/ MqttTimeout \/ MqttClear \/ MqttEnd
    BY <2>2 DEF MqttCheck, MqttTimeout, MqttClear, MqttEnd, gate, TypeOK, TransportPcs, Networked
  <2>3. CASE Subscribed \/ HandshakeFails \/ LeaveStream \/ LoopStop \/ TeardownFlush
    BY <2>3 DEF Subscribed, HandshakeFails, LeaveStream, LoopStop, TeardownFlush, gate, TypeOK,
         TransportPcs, Networked
  <2> QED
    BY <1>6, <2>1, <2>2, <2>3 DEF MqttStep
<1>7. CASE Network
  BY <1>7 DEF Network, Connack, LinkDrops, Message, gate, link, TypeOK
<1>8. CASE Lifespan
  <2>1. CASE BeginShutdown
    BY <2>1, WokenType DEF BeginShutdown, TypeOK
  <2>2. CASE ShutdownFlush \/ Exit \/ Boot
    BY <2>2, FoundType DEF ShutdownFlush, Exit, Boot, gate, link, TypeOK, TransportPcs
  <2> QED
    BY <1>8, <2>1, <2>2 DEF Lifespan
<1> QED
  BY <1>1, <1>2, <1>3, <1>4, <1>5, <1>6, <1>7, <1>8 DEF Next, RefreshStep

\* Every variable of the gate, its event, the refreshes in flight and the two threads keeps
\* its type, whatever the handlers, the broker and a redeploy do.
THEOREM GateTypes == Spec => []TypeOK
  BY TypesInit, TypesStep, PTL DEF Spec
=============================================================================
