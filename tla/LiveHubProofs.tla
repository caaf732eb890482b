--------------------------- MODULE LiveHubProofs ---------------------------
(***************************************************************************)
(* Theorems about LiveHub, for every number of clients, sessions and       *)
(* frames and every bound of the queue.                                    *)
(***************************************************************************)
EXTENDS LiveHub, TLAPS

\* A frame is on one of five stations: published last, a callback, in the queue, in the
\* drain task, received. The ids grow from each station to the one before it and within
\* each; the drain task holds a frame no client that waits for it has seen.
Ascending(q) == \A i, j \in DOMAIN q : i < j => q[i].id < q[j].id

Stations ==
  /\ \A i \in DOMAIN scheduled : scheduled[i].id <= published
  /\ Ascending(scheduled) /\ Ascending(queue)
  /\ \A i \in DOMAIN queue, k \in DOMAIN scheduled : queue[i].id < scheduled[k].id
  /\ \A i \in DOMAIN queue : queue[i].id <= published /\ drain.frame < queue[i].id
  /\ \A i \in DOMAIN scheduled : drain.frame < scheduled[i].id
  /\ drain.frame <= published

Seen ==
  \A c \in Clients : \A n \in DOMAIN received[c] :
    /\ received[c][n] <= published
    /\ c \in drain.waiting => received[c][n] < drain.frame
    /\ \A i \in DOMAIN queue : received[c][n] < queue[i].id
    /\ \A i \in DOMAIN scheduled : received[c][n] < scheduled[i].id

\* A frame that is sent is one that was published.
Sending == drain.waiting # {} => drain.frame # 0

-----------------------------------------------------------------------------
\* Types.

LEMMA TypesInit == Init => TypeOK /\ Sending
  BY BoundsAssumption DEF Init, TypeOK, NoSend, Sending

LEMMA NoSendType ==
  /\ NoSend \in [frame : 0 .. MaxFrames, waiting : SUBSET Clients, dead : SUBSET Clients]
  /\ NoSend.frame = 0 /\ NoSend.waiting = {} /\ NoSend.dead = {}
  BY BoundsAssumption DEF NoSend

LEMMA SendType ==
  ASSUME NEW n \in 0 .. MaxFrames, NEW w \in SUBSET Clients
  PROVE  /\ [NoSend EXCEPT !.frame = n, !.waiting = w]
              \in [frame : 0 .. MaxFrames, waiting : SUBSET Clients, dead : SUBSET Clients]
         /\ [NoSend EXCEPT !.frame = n, !.waiting = w].frame = n
         /\ [NoSend EXCEPT !.frame = n, !.waiting = w].waiting = w
  BY DEF NoSend

LEMMA QueueEnds ==
  ASSUME NEW S, NEW q \in Seq(S), q # <<>>
  PROVE  Head(q) \in S /\ Tail(q) \in Seq(S) /\ Len(Tail(q)) = Len(q) - 1
  OBVIOUS

LEMMA TypesStep == TypeOK /\ Sending /\ [Next]_vars => TypeOK' /\ Sending'
<1> SUFFICES ASSUME TypeOK, Sending, [Next]_vars
             PROVE  TypeOK' /\ Sending'
  OBVIOUS
<1> USE BoundsAssumption
<1>1. CASE UNCHANGED vars
  BY <1>1 DEF vars, TypeOK, Sending
<1>2. ASSUME NEW s \in Sessions, Publish(s)
      PROVE  TypeOK' /\ Sending'
  <2>1. [id |-> published + 1, to |-> s] \in FrameRecord /\ published' \in 0 .. MaxFrames
    BY <1>2 DEF Publish, TypeOK, FrameRecord
  <2>2. scheduled' \in Seq(FrameRecord)
    BY <1>2, <2>1 DEF Publish, TypeOK
  <2> QED
    BY <1>2, <2>1, <2>2 DEF Publish, TypeOK, Sending
<1>3. CASE RunCallback
  <2> DEFINE f == Head(scheduled)
  <2>1. f \in FrameRecord /\ scheduled' \in Seq(FrameRecord)
    BY <1>3, QueueEnds DEF RunCallback, TypeOK
  <2>2. queue' \in Seq(FrameRecord) /\ Len(queue') <= MaxQueue
    BY <1>3, <2>1 DEF RunCallback, Put, TypeOK
  <2>3. dropped' \subseteq 1 .. MaxFrames
    BY <1>3, <2>1 DEF RunCallback, Put, TypeOK, FrameRecord
  <2> QED
    BY <1>3, <2>1, <2>2, <2>3 DEF RunCallback, TypeOK, Sending
<1>4. CASE DrainGet
  <2>1. /\ Head(queue) \in FrameRecord /\ queue' \in Seq(FrameRecord) /\ Len(queue') <= MaxQueue
    BY <1>4, QueueEnds DEF DrainGet, TypeOK
  <2> DEFINE n == Head(queue).id
             w == conns[Head(queue).to]
  <2>2. n \in 0 .. MaxFrames /\ n # 0 /\ w \in SUBSET Clients
    BY <2>1 DEF TypeOK, FrameRecord
  <2>3. drain' = [NoSend EXCEPT !.frame = n, !.waiting = w]
    BY <1>4 DEF DrainGet
  <2> HIDE DEF n, w
  <2>4. /\ drain' \in [frame : 0 .. MaxFrames, waiting : SUBSET Clients, dead : SUBSET Clients]
        /\ drain'.frame = n
    BY <2>2, <2>3, SendType
  <2> QED
    BY <1>4, <2>1, <2>2, <2>4 DEF DrainGet, TypeOK, Sending
<1>5. ASSUME NEW c \in Clients, SendDone(c)
      PROVE  TypeOK' /\ Sending'
  <2>1. drain.frame \in 1 .. MaxFrames
    BY <1>5 DEF SendDone, TypeOK, Sending
  <2>2. received' \in [Clients -> Seq(1 .. MaxFrames)]
    BY <1>5, <2>1 DEF SendDone, TypeOK
  <2> QED
    BY <1>5, <2>2 DEF SendDone, TypeOK, Sending
<1>6. ASSUME NEW c \in Clients, SendFails(c)
      PROVE  TypeOK' /\ Sending'
  BY <1>6 DEF SendFails, TypeOK, Sending
<1>7. CASE DrainDone
  <2>1. conns' \in [Sessions -> SUBSET Clients]
    BY <1>7 DEF DrainDone, TypeOK
  <2>2. drain' = NoSend
    BY <1>7 DEF DrainDone
  <2> QED
    BY <1>7, <2>1, <2>2, NoSendType DEF DrainDone, TypeOK, Sending
<1>8. ASSUME NEW c \in Clients, \/ \E s \in Sessions : Attach(c, s)
                                \/ Stall(c) \/ ReadAgain(c) \/ Leave(c) \/ Detach(c)
      PROVE  TypeOK' /\ Sending'
  <2>1. client' \in [Clients -> {"away", "open", "stalled", "left", "closed"}]
    BY <1>8 DEF Attach, Stall, ReadAgain, Leave, Detach, TypeOK
  <2>2. conns' \in [Sessions -> SUBSET Clients]
    BY <1>8 DEF Attach, Stall, ReadAgain, Leave, Detach, Unregister, TypeOK
  <2>3. UNCHANGED <<published, scheduled, queue, dropped, drain, received>>
    BY <1>8 DEF Attach, Stall, ReadAgain, Leave, Detach
  <2> QED
    BY <2>1, <2>2, <2>3 DEF TypeOK, Sending
<1> QED
  BY <1>1, <1>2, <1>3, <1>4, <1>5, <1>6, <1>7, <1>8 DEF Next, DrainStep

\* Every variable of the hub keeps its type, and the queue its bound, whatever the threads
\* publish and the clients do.
THEOREM HubTypes == Spec => []TypeOK
<1>1. Spec => [](TypeOK /\ Sending)
  BY TypesInit, TypesStep, PTL DEF Spec
<1> QED
  BY <1>1, PTL

-----------------------------------------------------------------------------
\* Order.

Ordered == Stations /\ Seen /\ FramesInOrder

LEMMA OrderedInit == Init => Ordered
  BY DEF Init, Ordered, Stations, Seen, FramesInOrder, Ascending, NoSend

\* An appended element that is above the others keeps a queue ascending.
LEMMA AppendAscends ==
  ASSUME NEW S, NEW q \in Seq(S), NEW f \in S, Ascending(q),
         \A i \in DOMAIN q : q[i].id < f.id
  PROVE  Ascending(Append(q, f))
  BY DEF Ascending

\* An element of a longer queue is an old one or the one that was appended.
LEMMA Appended ==
  ASSUME NEW S, NEW q \in Seq(S), NEW f \in S, NEW i \in DOMAIN Append(q, f)
  PROVE  \/ i \in DOMAIN q /\ Append(q, f)[i] = q[i]
         \/ i = Len(q) + 1 /\ Append(q, f)[i] = f
  OBVIOUS

\* An element of the rest of a queue is the next one of the queue.
LEMMA TailElement ==
  ASSUME NEW S, NEW q \in Seq(S), q # <<>>, NEW i \in DOMAIN Tail(q)
  PROVE  /\ i + 1 \in DOMAIN q /\ Tail(q)[i] = q[i + 1]
         /\ 1 \in DOMAIN q /\ Head(q) = q[1] /\ 1 < i + 1
  OBVIOUS

LEMMA TailAscends ==
  ASSUME NEW S, NEW q \in Seq(S), q # <<>>, Ascending(q)
  PROVE  /\ Ascending(Tail(q))
         /\ \A i \in DOMAIN Tail(q) : Head(q).id < Tail(q)[i].id
<1>1. \A i \in DOMAIN Tail(q) : i + 1 \in DOMAIN q /\ Tail(q)[i] = q[i + 1] /\ i \in Nat
  BY TailElement
<1>2. 1 \in DOMAIN q /\ Head(q) = q[1]
  OBVIOUS
<1>3. \A i, j \in DOMAIN Tail(q) : i < j => q[i + 1].id < q[j + 1].id
  BY <1>1 DEF Ascending
<1>4. \A i \in DOMAIN Tail(q) : q[1].id < q[i + 1].id
  BY <1>1, <1>2, TailElement DEF Ascending
<1> QED
  BY <1>1, <1>2, <1>3, <1>4 DEF Ascending

LEMMA Elements ==
  ASSUME NEW S, NEW q \in Seq(S), NEW i \in DOMAIN q
  PROVE  q[i] \in S
  OBVIOUS

\* What the proofs use of the types: ids are numbers, and none is zero.
LEMMA Ids ==
  ASSUME TypeOK
  PROVE  /\ \A i \in DOMAIN scheduled : scheduled[i] \in FrameRecord /\ scheduled[i].id \in 1 .. MaxFrames
         /\ \A i \in DOMAIN queue : queue[i] \in FrameRecord /\ queue[i].id \in 1 .. MaxFrames
         /\ \A c \in Clients : \A n \in DOMAIN received[c] : received[c][n] \in 1 .. MaxFrames
         /\ drain.frame \in 0 .. MaxFrames /\ published \in 0 .. MaxFrames
<1>1. \A i \in DOMAIN scheduled : scheduled[i] \in FrameRecord
  BY DEF TypeOK
<1>2. \A i \in DOMAIN queue : queue[i] \in FrameRecord
  BY DEF TypeOK
<1>3. ASSUME NEW c \in Clients, NEW n \in DOMAIN received[c]
      PROVE  received[c][n] \in 1 .. MaxFrames
  <2>1. received[c] \in Seq(1 .. MaxFrames)
    BY DEF TypeOK
  <2> QED
    BY <2>1, Elements
<1> QED
  BY <1>1, <1>2, <1>3 DEF TypeOK, FrameRecord

LEMMA OrderedStep == TypeOK /\ Sending /\ Ordered /\ [Next]_vars => Ordered'
<1> SUFFICES ASSUME TypeOK, Sending, Ordered, [Next]_vars
             PROVE  Ordered'
  OBVIOUS
<1> USE BoundsAssumption
<1>0. Stations /\ Seen /\ FramesInOrder
  BY DEF Ordered
<1>1. CASE UNCHANGED vars
  BY <1>0, <1>1 DEF vars, Ordered, Stations, Seen, FramesInOrder, Ascending
<1>2. ASSUME NEW s \in Sessions, Publish(s)
      PROVE  Ordered'
  <2> DEFINE f == [id |-> published + 1, to |-> s]
  <2>1. /\ f \in FrameRecord /\ f.id = published + 1 /\ f.id > published
        /\ published' = published + 1 /\ scheduled' = Append(scheduled, f)
        /\ UNCHANGED <<queue, drain, received>>
    BY <1>2 DEF Publish, FrameRecord, TypeOK
  <2> HIDE DEF f
  <2>2. scheduled \in Seq(FrameRecord)
    BY DEF TypeOK
  <2>3. \A i \in DOMAIN scheduled : scheduled[i].id < f.id
    BY <1>0, <2>1, Ids DEF Stations
  <2>4. Ascending(scheduled)'
    BY <1>0, <2>1, <2>2, <2>3, AppendAscends DEF Stations
  <2>5. \A i \in DOMAIN scheduled' : (\/ i \in DOMAIN scheduled /\ scheduled'[i] = scheduled[i]
                                     \/ scheduled'[i] = f)
    BY <2>1, <2>2, Appended
  <2>6. Stations'
    BY <1>0, <2>1, <2>4, <2>5, Ids DEF Stations, Ascending
  <2>7. Seen'
    BY <1>0, <2>1, <2>5, Ids DEF Seen
  <2> QED
    BY <1>0, <2>1, <2>6, <2>7 DEF Ordered, FramesInOrder
<1>3. CASE RunCallback
  <2> DEFINE f == Head(scheduled)
  <2>1. /\ scheduled # <<>> /\ scheduled \in Seq(FrameRecord) /\ queue \in Seq(FrameRecord)
        /\ scheduled' = Tail(scheduled) /\ UNCHANGED <<published, drain, received>>
    BY <1>3 DEF RunCallback, TypeOK
  <2>2. 1 \in DOMAIN scheduled /\ f = scheduled[1] /\ f \in FrameRecord
    BY <2>1
  <2>3. \A i \in DOMAIN scheduled' : \E k \in DOMAIN scheduled : scheduled'[i] = scheduled[k]
    BY <2>1, TailElement
  <2>4. Ascending(scheduled)' /\ \A i \in DOMAIN scheduled' : f.id < scheduled'[i].id
    BY <1>0, <2>1, TailAscends DEF Stations
  <2>5. queue' = queue \/ queue' = Append(queue, f)
    BY <1>3 DEF RunCallback, Put
  <2> HIDE DEF f
  <2>6. \A i \in DOMAIN queue : queue[i].id < f.id
    BY <1>0, <2>2 DEF Stations
  <2>7. Ascending(queue)'
    BY <1>0, <2>1, <2>2, <2>5, <2>6, AppendAscends DEF Stations, Ascending
  <2>8. \A i \in DOMAIN queue' : (\/ i \in DOMAIN queue /\ queue'[i] = queue[i]
                                 \/ queue'[i] = f)
    <3>1. CASE queue' = queue
      BY <3>1
    <3>2. CASE queue' = Append(queue, f)
      BY <2>1, <2>2, <3>2, Appended
    <3> QED
      BY <2>5, <3>1, <3>2
  <2>9. Stations'
    BY <1>0, <2>1, <2>2, <2>3, <2>4, <2>7, <2>8, Ids DEF Stations
  <2>10. Seen'
    <3> SUFFICES ASSUME NEW c \in Clients, NEW n \in DOMAIN received[c]
                 PROVE  /\ received[c][n] <= published
                        /\ c \in drain.waiting => received[c][n] < drain.frame
                        /\ \A i \in DOMAIN queue' : received[c][n] < queue'[i].id
                        /\ \A i \in DOMAIN scheduled' : received[c][n] < scheduled'[i].id
      BY <2>1 DEF Seen
    <3>1. received[c][n] < f.id
      BY <1>0, <2>2 DEF Seen
    <3> QED
      BY <1>0, <2>3, <2>8, <3>1 DEF Seen
  <2> QED
    BY <1>0, <2>1, <2>9, <2>10 DEF Ordered, FramesInOrder
<1>4. CASE DrainGet
  <2> DEFINE n == Head(queue).id
             w == conns[Head(queue).to]
  <2>1. /\ queue # <<>> /\ queue \in Seq(FrameRecord)
        /\ queue' = Tail(queue) /\ UNCHANGED <<published, scheduled, received>>
        /\ drain' = [NoSend EXCEPT !.frame = n, !.waiting = w]
    BY <1>4 DEF DrainGet, TypeOK
  <2>2. 1 \in DOMAIN queue /\ Head(queue) = queue[1] /\ n = queue[1].id
    BY <2>1
  <2>3. n \in 0 .. MaxFrames /\ w \in SUBSET Clients
    <3>1. Head(queue) \in FrameRecord
      BY <2>1, QueueEnds
    <3> QED
      BY <3>1 DEF TypeOK, FrameRecord
  <2>4. \A i \in DOMAIN queue' : \E k \in DOMAIN queue : queue'[i] = queue[k]
    BY <2>1, TailElement
  <2>5. Ascending(queue)' /\ \A i \in DOMAIN queue' : n < queue'[i].id
    BY <1>0, <2>1, TailAscends DEF Stations
  <2> HIDE DEF n, w
  <2>6. drain'.frame = n
    BY <2>1, <2>3, SendType
  <2>7. Stations'
    BY <1>0, <2>1, <2>2, <2>4, <2>5, <2>6, Ids DEF Stations, Ascending
  <2>8. Seen'
    BY <1>0, <2>1, <2>2, <2>4, <2>6, Ids DEF Seen
  <2> QED
    BY <1>0, <2>1, <2>7, <2>8 DEF Ordered, FramesInOrder
<1>5. ASSUME NEW c \in Clients, SendDone(c)
      PROVE  Ordered'
  <2>1. /\ c \in drain.waiting /\ drain.frame \in 1 .. MaxFrames /\ received[c] \in Seq(1 .. MaxFrames)
        /\ drain'.frame = drain.frame /\ drain'.waiting = drain.waiting \ {c}
        /\ UNCHANGED <<published, scheduled, queue>>
    BY <1>5 DEF SendDone, TypeOK, Sending
  <2>2. /\ received'[c] = Append(received[c], drain.frame)
        /\ \A d \in Clients \ {c} : received'[d] = received[d]
    BY <1>5 DEF SendDone, TypeOK
  <2>3. Stations'
    BY <1>0, <2>1 DEF Stations, Ascending
  <2>4. \A n \in DOMAIN received'[c] :
          \/ n \in DOMAIN received[c] /\ received'[c][n] = received[c][n] /\ n < Len(received[c]) + 1
          \/ n = Len(received[c]) + 1 /\ received'[c][n] = drain.frame
    BY <2>1, <2>2
  <2>5. \A n \in DOMAIN received[c] : received[c][n] < drain.frame
    BY <1>0, <2>1 DEF Seen
  <2>6. Seen'
    <3>1. ASSUME NEW n \in DOMAIN received'[c]
          PROVE  /\ received'[c][n] <= published'
                 /\ \A i \in DOMAIN queue' : received'[c][n] < queue'[i].id
                 /\ \A i \in DOMAIN scheduled' : received'[c][n] < scheduled'[i].id
      BY <1>0, <2>1, <2>4 DEF Seen, Stations
    <3>2. c \notin drain'.waiting
      BY <2>1
    <3>3. ASSUME NEW d \in Clients \ {c}, NEW n \in DOMAIN received'[d]
          PROVE  /\ received'[d][n] <= published'
                 /\ d \in drain'.waiting => received'[d][n] < drain'.frame
                 /\ \A i \in DOMAIN queue' : received'[d][n] < queue'[i].id
                 /\ \A i \in DOMAIN scheduled' : received'[d][n] < scheduled'[i].id
      BY <1>0, <2>1, <2>2 DEF Seen
    <3> QED
      BY <3>1, <3>2, <3>3 DEF Seen
  <2>7. FramesInOrder'
    <3>1. ASSUME NEW i \in DOMAIN received'[c], NEW j \in DOMAIN received'[c], i < j
          PROVE  received'[c][i] < received'[c][j]
      BY <1>0, <2>1, <2>4, <2>5, <3>1 DEF FramesInOrder
    <3>2. \A d \in Clients \ {c} : \A i, j \in DOMAIN received'[d] :
            i < j => received'[d][i] < received'[d][j]
      BY <1>0, <2>2 DEF FramesInOrder
    <3> QED
      BY <3>1, <3>2 DEF FramesInOrder
  <2> QED
    BY <2>3, <2>6, <2>7 DEF Ordered
<1>6. ASSUME NEW c \in Clients, SendFails(c)
      PROVE  Ordered'
  <2>1. /\ drain'.frame = drain.frame /\ drain'.waiting = drain.waiting \ {c}
        /\ UNCHANGED <<published, scheduled, queue, received>>
    BY <1>6 DEF SendFails, TypeOK
  <2> QED
    BY <1>0, <2>1 DEF Ordered, Stations, Seen, FramesInOrder, Ascending
<1>7. CASE DrainDone
  <2>1. /\ drain'.frame = 0 /\ drain'.waiting = {}
        /\ UNCHANGED <<published, scheduled, queue, received>>
    BY <1>7, NoSendType DEF DrainDone
  <2>2. Stations'
    BY <1>0, <2>1, Ids DEF Stations, Ascending
  <2> QED
    BY <1>0, <2>1, <2>2 DEF Ordered, Seen, FramesInOrder
<1>8. ASSUME NEW c \in Clients, \/ \E s \in Sessions : Attach(c, s)
                                \/ Stall(c) \/ ReadAgain(c) \/ Leave(c) \/ Detach(c)
      PROVE  Ordered'
  <2>1. UNCHANGED <<published, scheduled, queue, dropped, drain, received>>
    BY <1>8 DEF Attach, Stall, ReadAgain, Leave, Detach
  <2> QED
    BY <1>0, <2>1 DEF Ordered, Stations, Seen, FramesInOrder, Ascending
<1> QED
  BY <1>1, <1>2, <1>3, <1>4, <1>5, <1>6, <1>7, <1>8 DEF Next, DrainStep

\* A client is sent the frames of its session in the order of their publication and none
\* twice: FramesInOrder holds for every number of clients and frames and every queue.
THEOREM FramesKeepOrder == Spec => []FramesInOrder
<1>1. Init => TypeOK /\ Sending /\ Ordered
  BY TypesInit, OrderedInit
<1>2. TypeOK /\ Sending /\ Ordered /\ [Next]_vars => (TypeOK /\ Sending /\ Ordered)'
  BY TypesStep, OrderedStep
<1>3. Ordered => FramesInOrder
  BY DEF Ordered
<1> QED
  BY <1>1, <1>2, <1>3, PTL DEF Spec
=============================================================================
