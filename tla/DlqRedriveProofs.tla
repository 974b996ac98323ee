-------------------------- MODULE DlqRedriveProofs --------------------------
(***************************************************************************)
(* Proofs about DlqRedrive, for every set of events, unparsable or not,    *)
(* every number of workers, every batch size, retry limit and number of    *)
(* faults: type correctness, no event is lost, archived events are         *)
(* exhausted ones, and the system implements EventCustody; and, where the  *)
(* dead-letter queue is read one message at a time, an event has one live  *)
(* copy and a bounded number of replays as long as nothing fails outside   *)
(* the code.                                                               *)
(***************************************************************************)
EXTENDS DlqRedrive, DataFacts

-----------------------------------------------------------------------------
(* A message belongs to an accepted event, and its retry count is within   *)
(* the limit and backed by as many runs of the nested handler.             *)
Sound(m) ==
  /\ m.event \in accepted
  /\ m.retry <= RetryLimit
  /\ m.retry <= replays[m.event]

MessagesSound ==
  /\ \A m \in stored : Sound(m)
  /\ \A w \in Worker : \A m \in batch[w] : Sound(m)

AsyncAccepted == \A e \in Event : async[e] > 0 => e \in accepted

(* A worker deals with messages of its batch only, and the message whose   *)
(* failure it is disposing of has been replayed once more than it counts.  *)
WorkersSound ==
  \A w \in Worker :
    /\ done[w] \subseteq batch[w]
    /\ failing[w] \subseteq batch[w]
    /\ \A m \in failing[w] : m.queue = "dlq" => m.retry < replays[m.event]

(* A message that was dealt with, and so may be deleted, has been shipped, *)
(* archived, or followed by a copy with a higher retry count.              *)
Succeeded(m) ==
  \/ m.event \in Settled
  \/ \E n \in stored : n.event = m.event /\ n.retry > m.retry

HandledIsSafe == \A w \in Worker : \A m \in done[w] : Succeeded(m)

IInv ==
  /\ TypeOK
  /\ MessagesSound
  /\ AsyncAccepted
  /\ WorkersSound
  /\ HandledIsSafe
  /\ NoEventLost
  /\ ArchivedOnlyExhausted

\* Every event begins with its own asynchronous invocation.
LEMMA InitInv == Init => IInv
BY ConstantsAssumption
   DEF Init, IInv, TypeOK, MessagesSound, AsyncAccepted, WorkersSound, HandledIsSafe,
       NoEventLost, ArchivedOnlyExhausted

-----------------------------------------------------------------------------
(* The actions that move no message and settle nothing: a worker lets go   *)
(* of its batch, or a message becomes receivable.                          *)
LEMMA LetGoInv ==
  ASSUME NEW w \in Worker, IInv, LetGo(w),
         UNCHANGED <<accepted, async, queues, shipped, archived, replays>>,
         faults' \in 0 .. MaxFaults
  PROVE  IInv'
<1> USE DEF IInv, queues
<1>1. TypeOK'
  BY DEF LetGo, TypeOK
<1>2. \A v \in Worker : /\ batch'[v] \subseteq batch[v] /\ done'[v] \subseteq done[v]
                        /\ failing'[v] \subseteq failing[v]
  BY DEF LetGo, TypeOK
<1>3. \A v \in Worker : done'[v] \subseteq batch'[v] /\ failing'[v] \subseteq batch'[v]
  BY DEF LetGo, TypeOK, WorkersSound
<1>4. MessagesSound' /\ WorkersSound'
  BY <1>2, <1>3 DEF MessagesSound, Sound, WorkersSound
<1>5. HandledIsSafe'
  BY <1>2 DEF HandledIsSafe, Succeeded, Settled
<1>6. AsyncAccepted' /\ NoEventLost' /\ ArchivedOnlyExhausted'
  BY DEF AsyncAccepted, NoEventLost, ArchivedOnlyExhausted, Settled, Held
<1> QED
  BY <1>1, <1>4, <1>5, <1>6

\* Faults stay within their bound.
LEMMA FaultType == TypeOK /\ Fault => faults' \in 0 .. MaxFaults
BY ConstantsAssumption DEF TypeOK, Fault

\* A message that becomes receivable was stored before.
LEMMA BecomeVisibleInv ==
  ASSUME NEW m \in stored, IInv, BecomeVisible(m)
  PROVE  IInv'
<1> USE DEF IInv, workers
<1>1. TypeOK'
  BY FaultType DEF BecomeVisible, TypeOK
<1>2. MessagesSound' /\ WorkersSound' /\ HandledIsSafe'
  BY DEF BecomeVisible, MessagesSound, Sound, WorkersSound, HandledIsSafe, Succeeded, Settled
<1>3. AsyncAccepted' /\ NoEventLost' /\ ArchivedOnlyExhausted'
  BY DEF BecomeVisible, AsyncAccepted, NoEventLost, ArchivedOnlyExhausted, Settled, Held
<1> QED
  BY <1>1, <1>2, <1>3

-----------------------------------------------------------------------------
(* The Lambda service and the source queue. *)
LEMMA ArriveAsyncInv ==
  ASSUME NEW e \in Event, IInv, ArriveAsync(e)
  PROVE  IInv'
<1> USE DEF IInv, workers, queues
<1>1. TypeOK'
  BY ConstantsAssumption DEF ArriveAsync, TypeOK
<1>2. MessagesSound' /\ WorkersSound' /\ HandledIsSafe'
  BY DEF ArriveAsync, MessagesSound, Sound, WorkersSound, HandledIsSafe, Succeeded, Settled
<1>3. AsyncAccepted'
  BY DEF ArriveAsync, AsyncAccepted, TypeOK
<1>4. NoEventLost' /\ ArchivedOnlyExhausted'
  BY ConstantsAssumption
     DEF ArriveAsync, NoEventLost, ArchivedOnlyExhausted, Settled, Held, TypeOK
<1> QED
  BY <1>1, <1>2, <1>3, <1>4

\* An asynchronous invocation that ships settles its event.
LEMMA AsyncShipInv ==
  ASSUME NEW e \in Event, IInv, AsyncShip(e)
  PROVE  IInv'
<1> USE DEF IInv, workers, queues
<1>1. TypeOK'
  BY ConstantsAssumption DEF AsyncShip, TypeOK
<1>2. MessagesSound' /\ WorkersSound' /\ HandledIsSafe'
  BY DEF AsyncShip, MessagesSound, Sound, WorkersSound, HandledIsSafe, Succeeded, Settled
<1>3. AsyncAccepted'
  BY DEF AsyncShip, AsyncAccepted, TypeOK
<1>4. NoEventLost' /\ ArchivedOnlyExhausted'
  BY DEF AsyncShip, NoEventLost, ArchivedOnlyExhausted, Settled, Held, TypeOK
<1> QED
  BY <1>1, <1>2, <1>3, <1>4

(* What Write adds to the queues. *)
LEMMA WriteAdds ==
  ASSUME TypeOK, NEW e \in Event, NEW q \in Queue, NEW r \in Nat, Write(e, q, r)
  PROVE  \E n \in Message : /\ n.event = e /\ n.queue = q /\ n.retry = r
                            /\ stored' = stored \cup {n} /\ stored' \subseteq Message
                            /\ visible' = visible /\ visible' \subseteq stored'
                            /\ sent' \in Nat
<1> DEFINE n == [id |-> sent, event |-> e, queue |-> q, retry |-> r]
<1>1. n \in Message
  BY DEF TypeOK, Message
<1> QED
  BY <1>1 DEF Write, TypeOK

\* The last failed attempt writes the event to the queue.
LEMMA AsyncFailInv ==
  ASSUME NEW e \in Event, IInv, AsyncFail(e)
  PROVE  IInv'
<1> USE DEF IInv, workers, queues
<1>1. async[e] \in Nat /\ async[e] > 0 /\ async' = [async EXCEPT ![e] = async[e] - 1]
  BY ConstantsAssumption DEF AsyncFail, TypeOK
<1>2. e \in accepted
  BY <1>1 DEF AsyncAccepted
<1>3. AsyncAccepted'
  BY <1>1 DEF AsyncFail, AsyncAccepted, TypeOK
<1>4. ArchivedOnlyExhausted'
  BY DEF AsyncFail, ArchivedOnlyExhausted
<1>5. async' \in [Event -> 0 .. AsyncAttempts]
  BY <1>1, ConstantsAssumption DEF TypeOK
<1>6. CASE async[e] = 1
  <2>1. Write(e, "dlq", 0)
    BY <1>6 DEF AsyncFail
  <2>2. PICK n \in Message : /\ n.event = e /\ n.retry = 0
                            /\ stored' = stored \cup {n} /\ stored' \subseteq Message
                            /\ visible' = visible /\ visible' \subseteq stored'
                            /\ sent' \in Nat
    BY <2>1, WriteAdds DEF Queue
  <2>3. TypeOK'
    BY <1>5, <2>2 DEF AsyncFail, TypeOK
  <2>4. Sound(n)
    BY <1>2, <2>2, ConstantsAssumption DEF Sound, TypeOK
  <2>5. MessagesSound' /\ WorkersSound' /\ HandledIsSafe'
    BY <2>2, <2>4 DEF AsyncFail, MessagesSound, Sound, WorkersSound, HandledIsSafe,
                      Succeeded, Settled
  <2>6. NoEventLost'
    BY <1>1, <2>2 DEF AsyncFail, NoEventLost, Settled, Held, TypeOK
  <2> QED
    BY <1>3, <1>4, <2>3, <2>5, <2>6
<1>7. CASE async[e] # 1
  <2>1. UNCHANGED queues
    BY <1>7 DEF AsyncFail
  <2>2. TypeOK'
    BY <1>5, <2>1 DEF AsyncFail, TypeOK
  <2>3. MessagesSound' /\ WorkersSound' /\ HandledIsSafe'
    BY <2>1 DEF AsyncFail, MessagesSound, Sound, WorkersSound, HandledIsSafe,
                Succeeded, Settled
  <2>4. NoEventLost'
    BY <1>1, <1>7, <2>1 DEF AsyncFail, NoEventLost, Settled, Held, TypeOK
  <2> QED
    BY <1>3, <1>4, <2>2, <2>3, <2>4
<1> QED
  BY <1>6, <1>7

\* A new message is a new copy of its event.
LEMMA ArriveSourceInv ==
  ASSUME NEW e \in Event, IInv, ArriveSource(e)
  PROVE  IInv'
<1> USE DEF IInv, workers
<1>1. PICK n \in Message : /\ n.event = e /\ n.retry = 0
                          /\ stored' = stored \cup {n} /\ stored' \subseteq Message
                          /\ visible' = visible /\ visible' \subseteq stored'
                          /\ sent' \in Nat
  BY WriteAdds DEF ArriveSource, Queue
<1>2. TypeOK'
  BY <1>1 DEF ArriveSource, TypeOK
<1>3. Sound(n)'
  BY <1>1, ConstantsAssumption DEF ArriveSource, Sound, TypeOK
<1>4. MessagesSound' /\ WorkersSound' /\ HandledIsSafe'
  BY <1>1, <1>3 DEF ArriveSource, MessagesSound, Sound, WorkersSound, HandledIsSafe,
                    Succeeded, Settled
<1>5. AsyncAccepted' /\ ArchivedOnlyExhausted'
  BY DEF ArriveSource, AsyncAccepted, ArchivedOnlyExhausted
<1>6. NoEventLost'
  BY <1>1 DEF ArriveSource, NoEventLost, Settled, Held, TypeOK
<1> QED
  BY <1>2, <1>4, <1>5, <1>6
-----------------------------------------------------------------------------
(* The workers. *)
LEMMA ReceiveInv ==
  ASSUME NEW w \in Worker, NEW B \in SUBSET visible, IInv, Receive(w, B)
  PROVE  IInv'
<1> USE DEF IInv
<1>1. B \subseteq stored /\ batch[w] = {}
  BY DEF Receive, Busy, TypeOK
<1>2. batch' \in [Worker -> SUBSET Message]
  BY <1>1 DEF Receive, TypeOK
<1>3. TypeOK'
  BY <1>1, <1>2 DEF Receive, TypeOK
<1>4. \A v \in Worker : batch'[v] = IF v = w THEN B ELSE batch[v]
  BY DEF Receive, TypeOK
<1>5. MessagesSound'
  BY <1>1, <1>4 DEF Receive, MessagesSound, Sound
<1>6. WorkersSound'
  BY <1>1, <1>4 DEF Receive, WorkersSound
<1>7. HandledIsSafe' /\ AsyncAccepted' /\ NoEventLost' /\ ArchivedOnlyExhausted'
  BY DEF Receive, HandledIsSafe, Succeeded, AsyncAccepted, NoEventLost,
         ArchivedOnlyExhausted, Settled, Held
<1> QED
  BY <1>3, <1>5, <1>6, <1>7

(* Running the nested handler only ever adds to the count of replays. *)
LEMMA ReplayedCounts ==
  ASSUME TypeOK, NEW m \in Message, Replayed(m)
  PROVE  /\ replays' \in [Event -> Nat]
         /\ \A e \in Event : replays[e] <= replays'[e]
         /\ m.queue = "dlq" => replays'[m.event] = replays[m.event] + 1
BY DEF Replayed, TypeOK, Message

(* A greater count leaves messages sound and archived events exhausted. *)
LEMMA ReplayedKeeps ==
  ASSUME IInv, replays' \in [Event -> Nat],
         \A e \in Event : replays[e] <= replays'[e],
         UNCHANGED <<accepted, stored, batch, archived>>
  PROVE  MessagesSound' /\ ArchivedOnlyExhausted'
<1>1. ASSUME NEW m \in Message, Sound(m) PROVE Sound(m)'
  BY <1>1, ConstantsAssumption DEF Sound, IInv, TypeOK, Message
<1>2. MessagesSound'
  BY <1>1 DEF MessagesSound, IInv, TypeOK
<1>3. ArchivedOnlyExhausted'
  BY ConstantsAssumption DEF ArchivedOnlyExhausted, IInv, TypeOK
<1> QED
  BY <1>2, <1>3

\* A record that is shipped settles its event.
LEMMA ShipInv ==
  ASSUME NEW w \in Worker, NEW m \in batch[w], IInv, Ship(w, m)
  PROVE  IInv'
<1> USE DEF IInv, queues
<1>1. m \in Message /\ m.event \in Event
  BY DEF TypeOK, Message
<1>2. /\ replays' \in [Event -> Nat]
      /\ \A e \in Event : replays[e] <= replays'[e]
  BY <1>1, ReplayedCounts DEF Ship
<1>3. TypeOK'
  BY <1>1, <1>2 DEF Ship, TypeOK
<1>4. MessagesSound' /\ ArchivedOnlyExhausted'
  BY <1>2, ReplayedKeeps DEF Ship
<1>5. \A v \in Worker : done'[v] \subseteq done[v] \cup {m} /\ done'[v] \subseteq batch[v]
  BY DEF Ship, TypeOK, WorkersSound
<1>6. WorkersSound'
  <2>1. ASSUME NEW v \in Worker, NEW n \in failing[v], n.queue = "dlq"
        PROVE  n.retry < replays'[n.event]
    BY <1>2, <2>1 DEF WorkersSound, TypeOK, Message
  <2> QED
    BY <1>5, <2>1 DEF Ship, WorkersSound
<1>7. HandledIsSafe'
  BY <1>5 DEF Ship, HandledIsSafe, Succeeded, Settled
<1>8. AsyncAccepted' /\ NoEventLost'
  BY DEF Ship, AsyncAccepted, NoEventLost, Settled, Held
<1> QED
  BY <1>3, <1>4, <1>6, <1>7, <1>8

\* A record that fails was counted before.
LEMMA FailInv ==
  ASSUME NEW w \in Worker, NEW m \in batch[w], IInv, Fail(w, m)
  PROVE  IInv'
<1> USE DEF IInv, queues
<1>1. m \in Message /\ m.event \in Event /\ m.retry \in Nat
  BY DEF TypeOK, Message
<1>2. /\ replays' \in [Event -> Nat]
      /\ \A e \in Event : replays[e] <= replays'[e]
      /\ m.queue = "dlq" => replays'[m.event] = replays[m.event] + 1
  BY <1>1, ReplayedCounts DEF Fail
<1>3. TypeOK'
  BY <1>1, <1>2 DEF Fail, TypeOK
<1>4. MessagesSound' /\ ArchivedOnlyExhausted'
  BY <1>2, ReplayedKeeps DEF Fail
<1>5. WorkersSound'
  <2>1. m.queue = "dlq" => m.retry < replays'[m.event]
    BY <1>1, <1>2 DEF MessagesSound, Sound, TypeOK
  <2>2. ASSUME NEW v \in Worker, NEW n \in failing[v], n.queue = "dlq"
        PROVE  n.retry < replays'[n.event]
    BY <1>2, <2>2 DEF WorkersSound, TypeOK, Message
  <2>3. \A v \in Worker : failing'[v] \subseteq failing[v] \cup {m}
                         /\ (v # w => failing'[v] = failing[v])
    BY DEF Fail, TypeOK
  <2> QED
    BY <2>1, <2>2, <2>3 DEF Fail, WorkersSound
<1>6. HandledIsSafe' /\ AsyncAccepted' /\ NoEventLost'
  BY DEF Fail, HandledIsSafe, Succeeded, AsyncAccepted, NoEventLost, Settled, Held
<1> QED
  BY <1>3, <1>4, <1>5, <1>6

\* An event is archived only if it has been counted out.
LEMMA ArchiveInv ==
  ASSUME NEW w \in Worker, IInv, Archive(w)
  PROVE  IInv'
<1> USE DEF IInv, queues
<1>1. PICK m \in failing[w] : /\ m.queue = "dlq" /\ m.retry >= RetryLimit
                             /\ archived' = archived \cup {m.event}
                             /\ done' = [done EXCEPT ![w] = @ \cup {m}]
  BY DEF Archive
<1>2. m \in batch[w] /\ m \in Message /\ m.event \in Event /\ m.retry \in Nat
  BY <1>1 DEF WorkersSound, TypeOK, Message
<1>3. TypeOK'
  BY <1>1, <1>2 DEF Archive, TypeOK
<1>4. replays[m.event] > RetryLimit
  BY <1>1, <1>2, ConstantsAssumption DEF WorkersSound, TypeOK
<1>5. ArchivedOnlyExhausted'
  BY <1>1, <1>4 DEF Archive, ArchivedOnlyExhausted
<1>6. \A v \in Worker : /\ done'[v] \subseteq done[v] \cup {m} /\ done'[v] \subseteq batch[v]
                        /\ failing'[v] \subseteq failing[v]
  BY <1>1, <1>2 DEF Archive, TypeOK, WorkersSound
<1>7. MessagesSound' /\ WorkersSound'
  BY <1>6 DEF Archive, MessagesSound, Sound, WorkersSound
<1>8. HandledIsSafe'
  BY <1>1, <1>6 DEF Archive, HandledIsSafe, Succeeded, Settled
<1>9. AsyncAccepted' /\ NoEventLost'
  BY <1>1 DEF Archive, AsyncAccepted, NoEventLost, Settled, Held
<1> QED
  BY <1>3, <1>5, <1>7, <1>8, <1>9

\* A resent message has a greater count than the one it replaces.
LEMMA ResendInv ==
  ASSUME NEW w \in Worker, IInv, Resend(w)
  PROVE  IInv'
<1> USE DEF IInv
<1>1. PICK m \in failing[w] : /\ m.queue = "dlq" /\ m.retry < RetryLimit
                             /\ Write(m.event, "dlq", m.retry + 1)
                             /\ done' = [done EXCEPT ![w] = @ \cup {m}]
  BY DEF Resend
<1>2. m \in batch[w] /\ m \in Message /\ m.event \in Event /\ m.retry \in Nat
  BY <1>1 DEF WorkersSound, TypeOK, Message
<1>3. PICK n \in Message : /\ n.event = m.event /\ n.retry = m.retry + 1
                          /\ stored' = stored \cup {n} /\ stored' \subseteq Message
                          /\ visible' = visible /\ visible' \subseteq stored'
                          /\ sent' \in Nat
  BY <1>1, <1>2, WriteAdds DEF Queue
<1>4. TypeOK'
  BY <1>1, <1>2, <1>3 DEF Resend, TypeOK
<1>5. Sound(n)
  BY <1>1, <1>2, <1>3, ConstantsAssumption
     DEF Sound, MessagesSound, WorkersSound, TypeOK
<1>6. \A v \in Worker : /\ done'[v] \subseteq done[v] \cup {m} /\ done'[v] \subseteq batch[v]
                        /\ failing'[v] \subseteq failing[v]
  BY <1>1, <1>2 DEF Resend, TypeOK, WorkersSound
<1>7. MessagesSound' /\ WorkersSound'
  BY <1>3, <1>5, <1>6 DEF Resend, MessagesSound, Sound, WorkersSound
<1>8. HandledIsSafe'
  <2>1. Succeeded(m)'
    BY <1>2, <1>3 DEF Succeeded
  <2>2. ASSUME NEW x, Succeeded(x) PROVE Succeeded(x)'
    BY <1>3, <2>2 DEF Resend, Succeeded, Settled
  <2> QED
    BY <1>6, <2>1, <2>2 DEF HandledIsSafe
<1>9. AsyncAccepted' /\ NoEventLost' /\ ArchivedOnlyExhausted'
  BY <1>3 DEF Resend, AsyncAccepted, NoEventLost, ArchivedOnlyExhausted, Settled, Held
<1> QED
  BY <1>4, <1>7, <1>8, <1>9

-----------------------------------------------------------------------------
(* Why deleting a batch loses nothing: the copy of an event with the       *)
(* highest retry count is never among the messages dealt with, unless the  *)
(* event is settled.                                                       *)
LEMMA Survivor ==
  ASSUME IInv, NEW w \in Worker, batch[w] = done[w],
         NEW m \in stored, m.event \notin Settled
  PROVE  \E n \in stored \ batch[w] : n.event = m.event /\ n.retry >= m.retry
<1> DEFINE Copies == {n \in stored : n.event = m.event /\ n.retry >= m.retry}
           T == {n.retry : n \in Copies}
<1>1. \A n \in Copies : n.retry \in Nat /\ n.retry <= RetryLimit
  BY DEF IInv, TypeOK, Message, MessagesSound, Sound
<1>2. T \subseteq Nat /\ \A t \in T : t <= RetryLimit
  BY <1>1
<1>3. m \in Copies /\ m.retry \in T
  BY DEF IInv, TypeOK, Message
<1>4. PICK x \in T : \A y \in T : y <= x
  <2> HIDE DEF T
  <2> QED
    BY <1>2, <1>3, GreatestElement, ConstantsAssumption
<1>5. PICK n \in Copies : n.retry = x
  BY <1>4
<1>6. ASSUME n \in batch[w] PROVE FALSE
  <2>1. PICK k \in stored : k.event = m.event /\ k.retry > n.retry
    BY <1>5, <1>6 DEF IInv, HandledIsSafe, Succeeded
  <2>2. k.retry \in Nat /\ n.retry \in Nat /\ m.retry \in Nat /\ n.retry >= m.retry
    BY <1>5 DEF IInv, TypeOK, Message
  <2>3. k \in Copies
    BY <2>1, <2>2
  <2>4. k.retry <= n.retry
    BY <1>4, <1>5, <2>3
  <2> QED
    BY <2>1, <2>2, <2>4
<1> QED
  BY <1>5, <1>6

\* The batch that is deleted has no last copy.
LEMMA CompleteInv ==
  ASSUME NEW w \in Worker, IInv, Complete(w)
  PROVE  IInv'
<1> USE DEF IInv
<1>1. stored' = stored \ batch[w] /\ batch[w] = done[w]
  BY DEF Complete
<1>2. TypeOK'
  BY DEF Complete, LetGo, TypeOK
<1>3. \A v \in Worker : /\ batch'[v] \subseteq batch[v] /\ done'[v] \subseteq done[v]
                        /\ failing'[v] \subseteq failing[v]
                        /\ done'[v] \subseteq batch'[v] /\ failing'[v] \subseteq batch'[v]
  BY DEF Complete, LetGo, TypeOK, WorkersSound
<1>4. MessagesSound' /\ WorkersSound'
  BY <1>3 DEF Complete, MessagesSound, Sound, WorkersSound
<1>5. HandledIsSafe'
  <2>1. ASSUME NEW v \in Worker, NEW m \in done[v], m.event \notin Settled
        PROVE  \E k \in stored' : k.event = m.event /\ k.retry > m.retry
    <3>1. PICK n \in stored : n.event = m.event /\ n.retry > m.retry
      BY <2>1 DEF HandledIsSafe, Succeeded
    <3>2. PICK k \in stored \ batch[w] : k.event = m.event /\ k.retry >= n.retry
      BY <1>1, <2>1, <3>1, Survivor
    <3>3. m.retry \in Nat /\ n.retry \in Nat /\ k.retry \in Nat
      BY DEF TypeOK, Message
    <3> QED
      BY <1>1, <3>1, <3>2, <3>3
  <2> QED
    BY <1>3, <2>1 DEF Complete, HandledIsSafe, Succeeded, Settled
<1>6. NoEventLost'
  <2>1. ASSUME NEW e \in accepted, e \notin Settled PROVE e \in Held'
    <3>1. e \in Event /\ e \in Held
      BY <2>1 DEF NoEventLost, TypeOK
    <3>2. CASE async[e] > 0
      BY <3>1, <3>2 DEF Complete, Held
    <3>3. CASE \E m \in stored : m.event = e
      BY <1>1, <2>1, <3>1, <3>3, Survivor DEF Held
    <3> QED
      BY <3>1, <3>2, <3>3 DEF Held
  <2> QED
    BY <2>1 DEF Complete, NoEventLost, Settled
<1>7. AsyncAccepted' /\ ArchivedOnlyExhausted'
  BY DEF Complete, AsyncAccepted, ArchivedOnlyExhausted
<1> QED
  BY <1>2, <1>4, <1>5, <1>6, <1>7
-----------------------------------------------------------------------------
\* The invariant depends on the variables alone.
LEMMA StutterInv == IInv /\ UNCHANGED vars => IInv'
BY DEF vars, queues, workers, IInv, TypeOK, MessagesSound, Sound, AsyncAccepted,
       WorkersSound, HandledIsSafe, Succeeded, NoEventLost, ArchivedOnlyExhausted,
       Settled, Held

\* Every step keeps the invariant.
LEMMA NextInv == IInv /\ [Next]_vars => IInv'
<1> SUFFICES ASSUME IInv, [Next]_vars PROVE IInv'
  OBVIOUS
<1>1. ASSUME NEW e \in Event,
             ArriveAsync(e) \/ ArriveSource(e) \/ AsyncShip(e) \/ AsyncFail(e)
      PROVE  IInv'
  BY <1>1, ArriveAsyncInv, ArriveSourceInv, AsyncShipInv, AsyncFailInv
<1>2. ASSUME NEW m \in stored, BecomeVisible(m) PROVE IInv'
  BY <1>2, BecomeVisibleInv
<1>3. ASSUME NEW w \in Worker, NEW B \in SUBSET visible, Receive(w, B) PROVE IInv'
  BY <1>3, ReceiveInv
<1>4. ASSUME NEW w \in Worker, Step(w) PROVE IInv'
  <2>1. ASSUME NEW m \in batch[w], RejectBody(w, m) PROVE IInv'
    BY <2>1, LetGoInv DEF RejectBody, IInv, TypeOK
  <2> QED
    BY <1>4, <2>1, ShipInv, FailInv DEF Step
<1>5. ASSUME NEW w \in Worker, Dispose(w) PROVE IInv'
  <2>1. CASE ReturnErr(w)
    BY <2>1, LetGoInv DEF ReturnErr, IInv, TypeOK
  <2> QED
    BY <1>5, <2>1, ArchiveInv, ResendInv DEF Dispose
<1>6. ASSUME NEW w \in Worker, RescueRefused(w) \/ Crash(w) PROVE IInv'
  BY <1>6, LetGoInv, FaultType DEF RescueRefused, Crash, IInv
<1>7. ASSUME NEW w \in Worker, Complete(w) PROVE IInv'
  BY <1>7, CompleteInv
<1>8. CASE UNCHANGED vars
  BY <1>8, StutterInv
<1> QED
  BY <1>1, <1>2, <1>3, <1>4, <1>5, <1>6, <1>7, <1>8 DEF Next

(* The strengthened invariant holds in every reachable state. *)
THEOREM Inductive == Spec => []IInv
BY InitInv, NextInv, PTL DEF Spec

(* Every variable keeps its type; in particular no worker, delay or        *)
(* timeout makes a message receivable that is not stored.                  *)
THEOREM TypeCorrect == Spec => []TypeOK
<1>1. IInv => TypeOK
  BY DEF IInv
<1> QED
  BY <1>1, Inductive, PTL

(* No event is lost, for any number of crashes, refused calls and early    *)
(* redeliveries, any batch size and any share of unparsable messages.      *)
THEOREM NoEventLostHolds == Spec => []NoEventLost
<1>1. IInv => NoEventLost
  BY DEF IInv
<1> QED
  BY <1>1, Inductive, PTL

(* An archived event has failed more than DLQ_RETRY_LIMIT times.           *)
THEOREM ArchivedOnlyExhaustedHolds == Spec => []ArchivedOnlyExhausted
<1>1. IInv => ArchivedOnlyExhausted
  BY DEF IInv
<1> QED
  BY <1>1, Inductive, PTL

-----------------------------------------------------------------------------
(* Refinement.                                                             *)
(* An event of a worker's batch is held by a queue, or settled.            *)
LEMMA InCustody ==
  ASSUME IInv, NEW w \in Worker, NEW m \in batch[w]
  PROVE  m.event \in Event /\ m.event \in Held \cup Settled
BY DEF IInv, TypeOK, Message, MessagesSound, Sound, NoEventLost

(* Settling the event of a message a worker has in hand is a step of       *)
(* EventCustody, or no step if it was settled before.                      *)
LEMMA SettleRefines ==
  ASSUME IInv, NEW w \in Worker, NEW m \in batch[w],
         Settled' = Settled \cup {m.event}, Held' = Held, accepted' = accepted
  PROVE  [Custody!Next]_(Custody!vars)
<1>1. CASE m.event \in Held
  BY <1>1 DEF Custody!Next, Custody!Settle
<1>2. CASE m.event \in Settled
  <2>1. Settled' = Settled
    BY <1>2
  <2> QED
    BY <2>1 DEF Custody!vars
<1> QED
  BY <1>1, <1>2, InCustody

\* Every step is one of custody, or none.
LEMMA NextRefines == IInv /\ [Next]_vars => [Custody!Next]_(Custody!vars)
<1> SUFFICES ASSUME IInv, [Next]_vars PROVE [Custody!Next]_(Custody!vars)
  OBVIOUS
<1>1. ASSUME NEW e \in Event, ArriveAsync(e) PROVE Custody!Accept
  <2>1. Held' = Held \cup {e} /\ Settled' = Settled
    BY <1>1, ConstantsAssumption DEF ArriveAsync, queues, Held, Settled, IInv, TypeOK
  <2> QED
    BY <1>1, <2>1 DEF ArriveAsync, Custody!Accept
<1>2. ASSUME NEW e \in Event, ArriveSource(e) PROVE Custody!Accept
  <2>1. PICK n \in Message : n.event = e /\ stored' = stored \cup {n}
    BY <1>2, WriteAdds, ConstantsAssumption DEF ArriveSource, Queue, IInv
  <2>2. Held' = Held \cup {e} /\ Settled' = Settled
    BY <1>2, <2>1 DEF ArriveSource, Held, Settled
  <2> QED
    BY <1>2, <2>2 DEF ArriveSource, Custody!Accept
<1>3. ASSUME NEW e \in Event, AsyncShip(e) PROVE Custody!Settle
  <2>1. Settled' = Settled \cup {e} /\ e \in Held
    BY <1>3 DEF AsyncShip, Settled, Held
  <2>2. CASE \E m \in stored : m.event = e
    <3>1. Held' = Held
      BY <1>3, <2>2 DEF AsyncShip, queues, Held, IInv, TypeOK
    <3> QED
      BY <1>3, <2>1, <3>1 DEF AsyncShip, Custody!Settle
  <2>3. CASE ~ \E m \in stored : m.event = e
    <3>1. Held' = Held \ {e}
      BY <1>3, <2>3 DEF AsyncShip, queues, Held, IInv, TypeOK
    <3> QED
      BY <1>3, <2>1, <3>1 DEF AsyncShip, Custody!Settle
  <2> QED
    BY <2>2, <2>3
<1>4. ASSUME NEW e \in Event, AsyncFail(e) PROVE UNCHANGED Custody!vars
  <2>1. async[e] \in Nat /\ async[e] > 0 /\ async' = [async EXCEPT ![e] = async[e] - 1]
    BY <1>4, ConstantsAssumption DEF AsyncFail, IInv, TypeOK
  <2>2. CASE async[e] = 1
    <3>1. PICK n \in Message : n.event = e /\ stored' = stored \cup {n}
      BY <1>4, <2>2, WriteAdds, ConstantsAssumption DEF AsyncFail, Queue, IInv
    <3>2. Held' = Held
      BY <2>1, <3>1 DEF Held, IInv, TypeOK
    <3> QED
      BY <1>4, <3>2 DEF AsyncFail, Settled, Custody!vars
  <2>3. CASE async[e] # 1
    <3>1. Held' = Held
      BY <1>4, <2>1, <2>3 DEF AsyncFail, queues, Held, IInv, TypeOK
    <3> QED
      BY <1>4, <3>1 DEF AsyncFail, Settled, Custody!vars
  <2> QED
    BY <2>2, <2>3
<1>5. ASSUME NEW m \in stored, BecomeVisible(m) PROVE UNCHANGED Custody!vars
  BY <1>5 DEF BecomeVisible, Held, Settled, Custody!vars
<1>6. ASSUME NEW w \in Worker, NEW B \in SUBSET visible, Receive(w, B)
      PROVE  UNCHANGED Custody!vars
  BY <1>6 DEF Receive, Held, Settled, Custody!vars
<1>7. ASSUME NEW w \in Worker, NEW m \in batch[w], Ship(w, m)
      PROVE  [Custody!Next]_(Custody!vars)
  BY <1>7, SettleRefines DEF Ship, queues, Held, Settled
<1>8. ASSUME NEW w \in Worker, NEW m \in batch[w], Fail(w, m) \/ RejectBody(w, m)
      PROVE  UNCHANGED Custody!vars
  BY <1>8 DEF Fail, RejectBody, queues, Held, Settled, Custody!vars
<1>9. ASSUME NEW w \in Worker, ReturnErr(w) \/ RescueRefused(w) \/ Crash(w)
      PROVE  UNCHANGED Custody!vars
  BY <1>9 DEF ReturnErr, RescueRefused, Crash, queues, Held, Settled, Custody!vars
<1>10. ASSUME NEW w \in Worker, Archive(w) PROVE [Custody!Next]_(Custody!vars)
  <2>1. PICK m \in failing[w] : archived' = archived \cup {m.event}
    BY <1>10 DEF Archive
  <2>2. m \in batch[w]
    BY DEF IInv, WorkersSound
  <2> QED
    BY <1>10, <2>1, <2>2, SettleRefines DEF Archive, queues, Held, Settled
<1>11. ASSUME NEW w \in Worker, Resend(w) PROVE [Custody!Next]_(Custody!vars)
  <2>1. PICK m \in failing[w] : Write(m.event, "dlq", m.retry + 1)
    BY <1>11 DEF Resend
  <2>2. m \in batch[w] /\ m.event \in Event /\ m.retry \in Nat
    BY DEF IInv, WorkersSound, TypeOK, Message
  <2>3. PICK n \in Message : n.event = m.event /\ stored' = stored \cup {n}
    BY <2>1, <2>2, WriteAdds DEF Queue, IInv
  <2>4. Held' = Held \cup {m.event}
    BY <1>11, <2>2, <2>3 DEF Resend, Held
  <2>5. CASE m.event \in Held
    <3>1. Held' = Held
      BY <2>4, <2>5
    <3> QED
      BY <1>11, <3>1 DEF Resend, Settled, Custody!vars
  <2>6. CASE m.event \in Settled
    BY <1>11, <2>4, <2>6 DEF Resend, Settled, Custody!Next, Custody!Repeat
  <2> QED
    BY <2>2, <2>5, <2>6, InCustody
<1>12. ASSUME NEW w \in Worker, Complete(w) PROVE Custody!Release
  <2>1. stored' = stored \ batch[w] /\ UNCHANGED <<accepted, async, shipped, archived>>
    BY <1>12 DEF Complete
  <2>2. Held' \subseteq Held
    BY <2>1 DEF Held
  <2>3. ASSUME NEW e \in Held \ Held' PROVE e \in Settled
    <3>1. PICK m \in stored : m.event = e
      BY <2>1, <2>3 DEF Held
    <3>2. ASSUME e \notin Settled PROVE FALSE
      <4>1. batch[w] = done[w]
        BY <1>12 DEF Complete
      <4>2. \E n \in stored \ batch[w] : n.event = e
        BY <3>1, <3>2, <4>1, Survivor
      <4> QED
        BY <2>1, <2>3, <4>2 DEF Held
    <3> QED
      BY <3>2
  <2>4. Settled' = Settled
    BY <2>1 DEF Settled
  <2> QED
    BY <2>1, <2>2, <2>3, <2>4 DEF Custody!Release
<1>13. CASE UNCHANGED vars
  BY <1>13 DEF vars, queues, Held, Settled, Custody!vars
<1> QED
  BY <1>1, <1>2, <1>3, <1>4, <1>5, <1>6, <1>7, <1>8, <1>9, <1>10, <1>11, <1>12, <1>13
     DEF Next, Step, Dispose, Custody!Next

(* Handler, queues and Lambda service together keep custody of every       *)
(* event: only settled events are forgotten, and only they are repeated.   *)
THEOREM KeepsCustodyHolds == Spec => KeepsCustody
<1>1. Init => Custody!Init
  BY DEF Init, Custody!Init, Held, Settled
<1>2. IInv /\ [Next]_vars => [Custody!Next]_(Custody!vars)
  BY NextRefines
<1> QED
  BY <1>1, <1>2, Inductive, PTL DEF Spec, KeepsCustody, Custody!Spec

-----------------------------------------------------------------------------
(* The retry loop while nothing is at fault.                               *)
(* What OneLiveCopy and ReplaysBounded need to be inductive, while nothing *)
(* is at fault.  An event that is still with the Lambda service, or yet to *)
(* come, has no message and no replay.                                     *)
Untouched ==
  \A e \in Event : async[e] > 0 \/ e \notin accepted =>
    replays[e] = 0 /\ \A m \in stored : m.event # e

(* A message in hand is stored, not receivable, and in one hand only.      *)
InOneHand ==
  \A w \in Worker : \A m \in batch[w] :
    /\ m \in stored \ visible
    /\ \A v \in Worker : m \in batch[v] => v = w

(* A batch of the DLQ is one message; a failure is not yet dealt with.     *)
OneByOne ==
  \A w \in Worker :
    /\ failing[w] \cap done[w] = {}
    /\ \A m, n \in batch[w] : m.queue = "dlq" => n = m

(* Copies are only made of messages of the DLQ.                            *)
OneSourceCopy ==
  \A m, n \in stored : m.event = n.event /\ m.queue = "source" => m = n

OneCopy ==
  \A m, n \in stored : m.event = n.event => m = n \/ Handled(m) \/ Handled(n)

(* The retry count of a live message is the number of replays so far; the  *)
(* one that has just failed has one more.                                  *)
Failing(m) == \E w \in Worker : m \in failing[w]

Counted ==
  \A m \in stored : m.queue = "dlq" /\ ~ Handled(m) =>
    /\ replays[m.event] <= m.retry + 1
    /\ ~ Failing(m) => replays[m.event] <= m.retry

Bounded == \A e \in Event : replays[e] <= RetryLimit + 1

Calm ==
  /\ IsFiniteSet(stored)
  /\ Untouched /\ InOneHand /\ OneByOne /\ OneSourceCopy /\ OneCopy /\ Counted /\ Bounded

LInv == IInv /\ (faults = 0 => Calm)

\* At first each event has one copy and no replay.
LEMMA LInit == Init => LInv
<1> SUFFICES ASSUME Init PROVE LInv
  OBVIOUS
<1>1. stored = {} /\ replays = [e \in Event |-> 0] /\ \A w \in Worker : batch[w] = {} /\ failing[w] = {}
  BY DEF Init
<1>2. IsFiniteSet({})
  BY FS_EmptySet
<1>3. Untouched /\ InOneHand /\ OneByOne /\ OneSourceCopy /\ OneCopy /\ Counted
  BY <1>1 DEF Untouched, InOneHand, OneByOne, OneSourceCopy, OneCopy, Counted
<1>4. Bounded
  BY <1>1, ConstantsAssumption DEF Bounded
<1> QED
  BY <1>1, <1>2, <1>3, <1>4, InitInv DEF LInv, Calm

(* A worker lets go of a batch in which nothing of the DLQ has been dealt with. *)
LEMMA CalmLetGo ==
  ASSUME IInv, Calm, NEW w \in Worker, LetGo(w),
         UNCHANGED <<accepted, async, queues, replays>>,
         \A m \in done[w] \cup failing[w] : m.queue # "dlq"
  PROVE  Calm'
<1> USE DEF queues
<1>0. TypeOK
  BY DEF IInv
<1>1. \A v \in Worker : /\ batch'[v] \subseteq batch[v] /\ done'[v] \subseteq done[v]
                        /\ failing'[v] \subseteq failing[v]
                        /\ v # w => done'[v] = done[v] /\ failing'[v] = failing[v]
  BY <1>0 DEF LetGo, TypeOK
<1>2. Untouched' /\ OneSourceCopy' /\ Bounded' /\ IsFiniteSet(stored)'
  BY DEF Calm, Untouched, OneSourceCopy, Bounded
<1>3. InOneHand' /\ OneByOne'
  BY <1>1 DEF Calm, InOneHand, OneByOne
<1>4. \A m \in stored : m.queue = "dlq" => (Handled(m)' <=> Handled(m)) /\ (Failing(m)' <=> Failing(m))
  <2> TAKE m \in stored
  <2> HAVE m.queue = "dlq"
  <2>1. m \notin done[w] /\ m \notin failing[w]
    OBVIOUS
  <2>2. \A v \in Worker : (m \in done'[v] <=> m \in done[v]) /\ (m \in failing'[v] <=> m \in failing[v])
    BY <1>1, <2>1
  <2> QED
    BY <2>2 DEF Handled, Failing
<1>5. Counted'
  BY <1>4 DEF Calm, Counted
<1>6. OneCopy'
  <2> SUFFICES ASSUME NEW m \in stored, NEW n \in stored, m.event = n.event, m # n
               PROVE  Handled(m)' \/ Handled(n)'
    BY DEF OneCopy
  <2>1. m.queue # "source" /\ n.queue # "source"
    BY DEF Calm, OneSourceCopy
  <2>2. m.queue = "dlq" /\ n.queue = "dlq"
    BY <1>0, <2>1 DEF TypeOK, Message, Queue
  <2>3. Handled(m) \/ Handled(n)
    BY DEF Calm, OneCopy
  <2> QED
    BY <1>4, <2>2, <2>3
<1> QED
  BY <1>2, <1>3, <1>5, <1>6 DEF Calm

(* In the batch of a message of the DLQ nothing else has been done. *)
LEMMA AloneInBatch ==
  ASSUME IInv, Calm, NEW w \in Worker, NEW m \in batch[w], m \notin done[w], m.queue = "dlq"
  PROVE  batch[w] = {m} /\ done[w] = {} /\ failing[w] \subseteq {m}
BY DEF IInv, WorkersSound, Calm, OneByOne

\* A message that nobody holds becomes receivable.
LEMMA CalmBecomeVisible ==
  ASSUME IInv, Calm, NEW m \in stored, BecomeVisible(m), ~ InHands(m)
  PROVE  Calm'
<1>1. UNCHANGED <<accepted, async, stored, batch, done, failing, replays>> /\ visible' = visible \cup {m}
  BY DEF BecomeVisible, workers
<1>2. InOneHand'
  BY <1>1 DEF Calm, InOneHand, InHands
<1> QED
  BY <1>1, <1>2 DEF Calm, Untouched, OneByOne, OneSourceCopy, OneCopy, Counted, Bounded, Handled, Failing

\* A new event has one copy.
LEMMA CalmArriveAsync ==
  ASSUME IInv, Calm, NEW e \in Event, ArriveAsync(e)
  PROVE  Calm'
<1>1. UNCHANGED <<stored, visible, batch, done, failing, replays>> /\ accepted' = accepted \cup {e} /\ e \notin accepted
      /\ \A f \in Event : f # e => async'[f] = async[f]
  BY DEF ArriveAsync, workers, queues, IInv, TypeOK
<1>2. Untouched'
  BY <1>1 DEF Calm, Untouched
<1> QED
  BY <1>1, <1>2 DEF Calm, InOneHand, OneByOne, OneSourceCopy, OneCopy, Counted, Bounded, Handled, Failing

\* A shipped event has none.
LEMMA CalmAsyncShip ==
  ASSUME IInv, Calm, NEW e \in Event, AsyncShip(e)
  PROVE  Calm'
<1>1. UNCHANGED <<stored, visible, batch, done, failing, replays, accepted>>
      /\ \A f \in Event : async'[f] = async[f] \/ (f = e /\ async'[f] = 0)
  BY DEF AsyncShip, workers, queues, IInv, TypeOK
<1>2. Untouched'
  BY <1>1 DEF Calm, Untouched
<1> QED
  BY <1>1, <1>2 DEF Calm, InOneHand, OneByOne, OneSourceCopy, OneCopy, Counted, Bounded, Handled, Failing

(* The first message of an event. *)
LEMMA CalmFirst ==
  ASSUME IInv, Calm, NEW e \in Event, NEW q \in Queue, Write(e, q, 0),
         UNCHANGED <<batch, done, failing, replays>>, replays[e] = 0, \A m \in stored : m.event # e,
         Untouched'
  PROVE  Calm'
<1>0. TypeOK
  BY DEF IInv
<1>1. PICK n \in Message : /\ n.event = e /\ n.queue = q /\ n.retry = 0
                          /\ stored' = stored \cup {n} /\ visible' = visible
  BY <1>0, WriteAdds, ConstantsAssumption
<1>2. IsFiniteSet(stored')
  BY <1>1, FS_AddElement DEF Calm
<1>3. n \notin visible
  BY <1>0, <1>1 DEF TypeOK
<1>4. InOneHand' /\ OneByOne' /\ Bounded'
  BY <1>1, <1>3 DEF Calm, InOneHand, OneByOne, Bounded
<1>5. OneSourceCopy' /\ OneCopy'
  BY <1>1 DEF Calm, OneSourceCopy, OneCopy, Handled
<1>6. Counted'
  BY <1>1 DEF Calm, Counted, Handled, Failing
<1> QED
  BY <1>2, <1>4, <1>5, <1>6 DEF Calm

\* A failed invocation hands its copy on to the queue.
LEMMA CalmAsyncFail ==
  ASSUME IInv, Calm, NEW e \in Event, AsyncFail(e)
  PROVE  Calm'
<1>1. UNCHANGED <<batch, done, failing, replays, accepted>> /\ async[e] \in Nat /\ async[e] > 0
      /\ async' = [async EXCEPT ![e] = async[e] - 1] /\ e \in accepted
      /\ replays[e] = 0 /\ \A m \in stored : m.event # e
  BY ConstantsAssumption DEF AsyncFail, workers, IInv, TypeOK, AsyncAccepted, Calm, Untouched
<1>2. CASE async[e] = 1
  <2>1. Write(e, "dlq", 0)
    BY <1>2 DEF AsyncFail
  <2>2. PICK n \in Message : n.event = e /\ stored' = stored \cup {n}
    BY <2>1, WriteAdds DEF IInv, Queue
  <2>3. Untouched'
    BY <1>1, <1>2, <2>2 DEF Calm, Untouched, IInv, TypeOK
  <2> QED
    BY <1>1, <2>1, <2>3, CalmFirst DEF Queue
<1>3. CASE async[e] # 1
  <2>1. UNCHANGED <<stored, visible>>
    BY <1>3 DEF AsyncFail, queues
  <2>2. Untouched'
    BY <1>1, <2>1 DEF Calm, Untouched, IInv, TypeOK
  <2> QED
    BY <1>1, <2>1, <2>2 DEF Calm, InOneHand, OneByOne, OneSourceCopy, OneCopy, Counted, Bounded, Handled, Failing
<1> QED
  BY <1>2, <1>3

\* A new message has one copy.
LEMMA CalmArriveSource ==
  ASSUME IInv, Calm, NEW e \in Event, ArriveSource(e)
  PROVE  Calm'
<1>1. UNCHANGED <<batch, done, failing, replays, async>> /\ Write(e, "source", 0)
      /\ accepted' = accepted \cup {e} /\ e \notin accepted
      /\ replays[e] = 0 /\ \A m \in stored : m.event # e
  BY DEF ArriveSource, workers, Calm, Untouched
<1>2. PICK n \in Message : n.event = e /\ stored' = stored \cup {n}
  BY <1>1, WriteAdds, ConstantsAssumption DEF IInv, Queue
<1>3. ~ (async[e] > 0)
  BY <1>1 DEF IInv, AsyncAccepted
<1>4. Untouched'
  BY <1>1, <1>2, <1>3 DEF Calm, Untouched
<1> QED
  BY <1>1, <1>4, CalmFirst DEF Queue

\* A copy moves from its queue to an environment.
LEMMA CalmReceive ==
  ASSUME DlqBatch = 1, IInv, Calm, NEW w \in Worker, NEW B \in SUBSET visible, Receive(w, B)
  PROVE  Calm'
<1>1. UNCHANGED <<accepted, async, stored, done, failing, replays>> /\ batch[w] = {}
      /\ visible' = visible \ B /\ B \subseteq stored
      /\ \A v \in Worker : batch'[v] = IF v = w THEN B ELSE batch[v]
  BY DEF Receive, Busy, IInv, TypeOK
<1>2. InOneHand'
  BY <1>1 DEF Calm, InOneHand
<1>3. ASSUME NEW m \in B, NEW n \in B, m.queue = "dlq" PROVE n = m
  <2>1. Cardinality(B) <= 1
    BY <1>3 DEF Receive, BatchSize
  <2>2. IsFiniteSet(B)
    BY <1>1, FS_Subset DEF Calm
  <2>3. Cardinality(B) \in Nat /\ Cardinality(B) # 0
    BY <1>3, <2>2, FS_CardinalityType, FS_EmptySet
  <2>4. Cardinality(B) = 1
    BY <2>1, <2>3
  <2>5. PICK x : B = {x}
    BY <2>2, <2>4, FS_Singleton
  <2> QED
    BY <2>5
<1>4. OneByOne'
  BY <1>1, <1>3 DEF Calm, OneByOne
<1> QED
  BY <1>1, <1>2, <1>4 DEF Calm, Untouched, OneSourceCopy, OneCopy, Counted, Bounded, Handled, Failing

(* A message at hand is the only live one of its event. *)
LEMMA OnlyLive ==
  ASSUME IInv, Calm, NEW w \in Worker, NEW m \in batch[w], m \notin done[w]
  PROVE  /\ m \in stored /\ m.event \in Event /\ ~ Handled(m)
         /\ \A n \in stored : n.event = m.event => n = m \/ Handled(n)
<1>1. m \in stored /\ \A v \in Worker : m \in batch[v] => v = w
  BY DEF Calm, InOneHand
<1>2. ~ Handled(m)
  BY <1>1 DEF Handled, IInv, WorkersSound
<1> QED
  BY <1>1, <1>2 DEF Calm, OneCopy, IInv, TypeOK, Message

(* What one run of the nested handler does to the counts. *)
LEMMA CalmReplay ==
  ASSUME IInv, Calm, NEW w \in Worker, NEW m \in batch[w], m \in ToDo(w), Replayed(m)
  PROVE  /\ replays' \in [Event -> Nat]
         /\ \A e \in Event : e # m.event => replays'[e] = replays[e]
         /\ m.queue = "dlq" => replays'[m.event] = replays[m.event] + 1 /\ replays[m.event] <= m.retry
         /\ m.queue # "dlq" => replays'[m.event] = replays[m.event]
         /\ \A e \in Event : replays'[e] <= RetryLimit + 1
<1>0. TypeOK /\ m \in Message /\ m.event \in Event /\ m.retry \in Nat
  BY DEF IInv, TypeOK, Message
<1>1. m \notin done[w] /\ failing[w] = {}
  BY DEF ToDo
<1>2. m \in stored /\ ~ Handled(m) /\ ~ Failing(m)
  <2>1. m \in stored /\ ~ Handled(m)
    BY <1>1, OnlyLive
  <2>2. \A v \in Worker : m \in failing[v] => v = w
    BY DEF Calm, InOneHand, IInv, WorkersSound
  <2> QED
    BY <1>1, <2>1, <2>2 DEF Failing
<1>3. m.queue = "dlq" => replays[m.event] <= m.retry
  BY <1>2 DEF Calm, Counted
<1>4. m.retry <= RetryLimit
  BY DEF IInv, MessagesSound, Sound
<1>5. /\ replays' \in [Event -> Nat]
      /\ \A e \in Event : e # m.event => replays'[e] = replays[e]
      /\ m.queue = "dlq" => replays'[m.event] = replays[m.event] + 1
      /\ m.queue # "dlq" => replays'[m.event] = replays[m.event]
  BY <1>0 DEF Replayed, TypeOK
<1>6. ASSUME NEW e \in Event PROVE replays'[e] <= RetryLimit + 1
  <2>1. replays[e] <= RetryLimit + 1 /\ replays[e] \in Nat /\ RetryLimit \in Nat
    BY <1>0, ConstantsAssumption DEF Calm, Bounded, TypeOK
  <2>2. CASE e = m.event /\ m.queue = "dlq"
    BY <1>0, <1>3, <1>4, <1>5, <2>1, <2>2
  <2>3. CASE ~ (e = m.event /\ m.queue = "dlq")
    BY <1>5, <2>1, <2>3
  <2> QED
    BY <2>2, <2>3
<1> QED
  BY <1>3, <1>5, <1>6

(* Nothing of an event that is with the Lambda service is at hand. *)
LEMMA UntouchedKept ==
  ASSUME IInv, Calm, UNCHANGED <<accepted, async>>, NEW m \in stored, m.event \in Event,
         \A e \in Event : e # m.event => replays'[e] = replays[e],
         \A k \in stored' : k \in stored \/ k.event = m.event
  PROVE  Untouched'
BY DEF Calm, Untouched

\* A shipped record is no copy any more.
LEMMA CalmShip ==
  ASSUME IInv, Calm, NEW w \in Worker, NEW m \in batch[w], Ship(w, m)
  PROVE  Calm'
<1>0. TypeOK /\ m \in ToDo(w) /\ m \notin done[w] /\ Replayed(m)
  BY DEF IInv, Ship, ToDo
<1>1. UNCHANGED <<accepted, async, stored, visible, batch, failing>>
      /\ \A v \in Worker : done'[v] = IF v = w THEN done[v] \cup {m} ELSE done[v]
  BY <1>0 DEF Ship, queues, TypeOK
<1>2. failing[w] = {}
  BY <1>0 DEF ToDo
<1>3. /\ m \in stored /\ m.event \in Event /\ ~ Handled(m)
      /\ \A n \in stored : n.event = m.event => n = m \/ Handled(n)
  BY <1>0, OnlyLive
<1>4. \A x : Handled(x)' <=> Handled(x) \/ x = m
  BY <1>1 DEF Handled
<1>5. /\ \A e \in Event : e # m.event => replays'[e] = replays[e]
      /\ \A e \in Event : replays'[e] <= RetryLimit + 1
  BY <1>0, CalmReplay
<1>6. Bounded'
  BY <1>5 DEF Bounded
<1>7. Untouched'
  BY <1>1, <1>3, <1>5, UntouchedKept
<1>8. InOneHand' /\ OneSourceCopy' /\ IsFiniteSet(stored')
  BY <1>1 DEF Calm, InOneHand, OneSourceCopy
<1>9. OneByOne'
  BY <1>1, <1>2 DEF Calm, OneByOne
<1>10. OneCopy'
  BY <1>1, <1>4 DEF Calm, OneCopy
<1>11. Counted'
  <2> SUFFICES ASSUME NEW k \in stored, k.queue = "dlq", ~ Handled(k)'
               PROVE  /\ replays'[k.event] <= k.retry + 1
                      /\ ~ Failing(k)' => replays'[k.event] <= k.retry
    BY <1>1 DEF Counted
  <2>1. ~ Handled(k) /\ k.event # m.event /\ k.event \in Event
    BY <1>0, <1>3, <1>4 DEF TypeOK, Message
  <2>2. replays'[k.event] = replays[k.event] /\ (Failing(k)' <=> Failing(k))
    BY <1>1, <1>5, <2>1 DEF Failing
  <2> QED
    BY <2>1, <2>2 DEF Calm, Counted
<1> QED
  BY <1>6, <1>7, <1>8, <1>9, <1>10, <1>11 DEF Calm

\* A record that fails is replayed, and stays the one copy.
LEMMA CalmFail ==
  ASSUME IInv, Calm, NEW w \in Worker, NEW m \in batch[w], Fail(w, m)
  PROVE  Calm'
<1>0. TypeOK /\ m \in ToDo(w) /\ m \notin done[w] /\ Replayed(m) /\ m.retry \in Nat
  BY DEF IInv, Fail, ToDo, TypeOK, Message
<1>1. UNCHANGED <<accepted, async, stored, visible, batch, done>>
      /\ \A v \in Worker : failing'[v] = IF v = w THEN {m} ELSE failing[v]
  BY <1>0 DEF Fail, queues, TypeOK
<1>2. failing[w] = {}
  BY <1>0 DEF ToDo
<1>3. /\ m \in stored /\ m.event \in Event /\ ~ Handled(m)
      /\ \A n \in stored : n.event = m.event => n = m \/ Handled(n)
  BY <1>0, OnlyLive
<1>4. /\ \A e \in Event : e # m.event => replays'[e] = replays[e]
      /\ \A e \in Event : replays'[e] <= RetryLimit + 1
      /\ m.queue = "dlq" => replays'[m.event] = replays[m.event] + 1 /\ replays[m.event] <= m.retry
  BY <1>0, CalmReplay
<1>5. \A x : (Handled(x)' <=> Handled(x)) /\ (Failing(x)' <=> Failing(x) \/ x = m)
  BY <1>1, <1>2 DEF Handled, Failing
<1>6. Bounded'
  BY <1>4 DEF Bounded
<1>7. Untouched'
  BY <1>1, <1>3, <1>4, UntouchedKept
<1>8. InOneHand' /\ OneSourceCopy' /\ IsFiniteSet(stored')
  BY <1>1 DEF Calm, InOneHand, OneSourceCopy
<1>9. OneByOne'
  BY <1>0, <1>1 DEF Calm, OneByOne
<1>10. OneCopy'
  BY <1>1, <1>5 DEF Calm, OneCopy
<1>11. Counted'
  <2> SUFFICES ASSUME NEW k \in stored, k.queue = "dlq", ~ Handled(k)'
               PROVE  /\ replays'[k.event] <= k.retry + 1
                      /\ ~ Failing(k)' => replays'[k.event] <= k.retry
    BY <1>1 DEF Counted
  <2>1. CASE k = m
    <3>1. Failing(k)' /\ replays[m.event] \in Nat
      BY <1>0, <1>3, <1>5, <2>1 DEF TypeOK
    <3> QED
      BY <1>0, <1>4, <2>1, <3>1
  <2>2. CASE k # m
    <3>1. ~ Handled(k) /\ k.event # m.event /\ k.event \in Event
      BY <1>0, <1>3, <1>5, <2>2 DEF TypeOK, Message
    <3>2. replays'[k.event] = replays[k.event] /\ (Failing(k)' <=> Failing(k))
      BY <1>4, <1>5, <2>2, <3>1
    <3> QED
      BY <3>1, <3>2 DEF Calm, Counted
  <2> QED
    BY <2>1, <2>2
<1> QED
  BY <1>6, <1>7, <1>8, <1>9, <1>10, <1>11 DEF Calm

\* A record that is no event stays the one copy.
LEMMA CalmRejectBody ==
  ASSUME IInv, Calm, NEW w \in Worker, NEW m \in batch[w], RejectBody(w, m)
  PROVE  Calm'
<1>1. m \notin done[w] /\ failing[w] = {} /\ LetGo(w) /\ UNCHANGED <<accepted, async, queues, replays>>
  BY DEF RejectBody, ToDo
<1>2. \A n \in done[w] : n.queue # "dlq"
  <2> SUFFICES ASSUME NEW n \in done[w], n.queue = "dlq" PROVE FALSE
    OBVIOUS
  <2>1. n \in batch[w]
    BY DEF IInv, WorkersSound
  <2>2. m = n
    BY <2>1 DEF Calm, OneByOne
  <2> QED
    BY <1>1, <2>2
<1> QED
  BY <1>1, <1>2, CalmLetGo

\* A failed batch goes back to its queue.
LEMMA CalmReturnErr ==
  ASSUME IInv, Calm, NEW w \in Worker, ReturnErr(w)
  PROVE  Calm'
<1>1. PICK m \in failing[w] : m.queue # "dlq"
  BY DEF ReturnErr
<1>2. LetGo(w) /\ UNCHANGED <<accepted, async, queues, replays>>
  BY DEF ReturnErr
<1>3. \A n \in batch[w] : n.queue # "dlq"
  BY <1>1 DEF IInv, WorkersSound, Calm, OneByOne
<1>4. \A n \in done[w] \cup failing[w] : n.queue # "dlq"
  BY <1>3 DEF IInv, WorkersSound
<1> QED
  BY <1>2, <1>4, CalmLetGo

(* A failure of the DLQ is disposed of: its message counts as handled. *)
LEMMA Disposed ==
  ASSUME IInv, Calm, NEW w \in Worker, NEW m \in failing[w], m.queue = "dlq",
         done' = [done EXCEPT ![w] = @ \cup {m}], failing' = [failing EXCEPT ![w] = {}],
         UNCHANGED batch
  PROVE  /\ m \in stored /\ m.event \in Event
         /\ \A x : Handled(x)' <=> Handled(x) \/ x = m
         /\ \A x : Failing(x)' <=> Failing(x) /\ x # m
         /\ OneByOne'
         /\ \A n \in stored : n.event = m.event => n = m \/ Handled(n)
<1>0. TypeOK /\ m \in batch[w] /\ m \notin done[w]
  BY DEF IInv, WorkersSound, Calm, OneByOne
<1>1. done[w] = {} /\ failing[w] = {m} /\ batch[w] = {m}
  BY <1>0, AloneInBatch
<1>2. \A v \in Worker : /\ done'[v] = IF v = w THEN {m} ELSE done[v]
                        /\ failing'[v] = IF v = w THEN {} ELSE failing[v]
  BY <1>0, <1>1 DEF TypeOK
<1>3. \A v \in Worker : m \in failing[v] => v = w
  BY <1>0 DEF IInv, WorkersSound, Calm, InOneHand
<1>4. \A x : Handled(x)' <=> Handled(x) \/ x = m
  BY <1>1, <1>2 DEF Handled
<1>5. \A x : Failing(x)' <=> Failing(x) /\ x # m
  BY <1>1, <1>2, <1>3 DEF Failing
<1>6. OneByOne'
  BY <1>2 DEF Calm, OneByOne
<1> QED
  BY <1>0, <1>4, <1>5, <1>6, OnlyLive

\* An archived event has no copy.
LEMMA CalmArchive ==
  ASSUME IInv, Calm, NEW w \in Worker, Archive(w)
  PROVE  Calm'
<1>0. UNCHANGED <<accepted, async, stored, visible, batch, replays>>
  BY DEF Archive, queues
<1>1. PICK m \in failing[w] : /\ m.queue = "dlq" /\ done' = [done EXCEPT ![w] = @ \cup {m}]
  BY DEF Archive
<1>2. /\ m \in stored /\ m.event \in Event
      /\ \A x : Handled(x)' <=> Handled(x) \/ x = m
      /\ \A x : Failing(x)' <=> Failing(x) /\ x # m
      /\ OneByOne'
  BY <1>0, <1>1, Disposed DEF Archive
<1>3. Untouched' /\ InOneHand' /\ OneSourceCopy' /\ Bounded' /\ IsFiniteSet(stored')
  BY <1>0 DEF Calm, Untouched, InOneHand, OneSourceCopy, Bounded
<1>4. OneCopy'
  BY <1>0, <1>2 DEF Calm, OneCopy
<1>5. Counted'
  BY <1>0, <1>2 DEF Calm, Counted
<1> QED
  BY <1>2, <1>3, <1>4, <1>5 DEF Calm

\* A resent event changes its copy for another.
LEMMA CalmResend ==
  ASSUME IInv, Calm, NEW w \in Worker, Resend(w)
  PROVE  Calm'
<1>0. UNCHANGED <<accepted, async, batch, replays>> /\ TypeOK
  BY DEF Resend, IInv
<1>1. PICK m \in failing[w] : /\ m.queue = "dlq" /\ m.retry < RetryLimit
                             /\ Write(m.event, "dlq", m.retry + 1)
                             /\ done' = [done EXCEPT ![w] = @ \cup {m}]
  BY DEF Resend
<1>2. /\ m \in stored /\ m.event \in Event
      /\ \A x : Handled(x)' <=> Handled(x) \/ x = m
      /\ \A x : Failing(x)' <=> Failing(x) /\ x # m
      /\ OneByOne'
      /\ \A n \in stored : n.event = m.event => n = m \/ Handled(n)
  BY <1>0, <1>1, Disposed DEF Resend
<1>3. m.retry \in Nat /\ m \in Message
  BY <1>0, <1>2 DEF TypeOK, Message
<1>4. PICK n \in Message : /\ n.event = m.event /\ n.retry = m.retry + 1 /\ n.queue = "dlq"
                          /\ stored' = stored \cup {n} /\ visible' = visible
  BY <1>0, <1>1, <1>2, <1>3, WriteAdds DEF Queue
<1>5. ~ Handled(m) /\ replays[m.event] <= m.retry + 1
  <2>1. m \in batch[w] /\ m \notin done[w]
    BY DEF IInv, WorkersSound, Calm, OneByOne
  <2>2. ~ Handled(m)
    BY <2>1, OnlyLive
  <2> QED
    BY <1>1, <1>2, <2>2 DEF Calm, Counted
<1>6. IsFiniteSet(stored') /\ Bounded'
  BY <1>0, <1>4, FS_AddElement DEF Calm, Bounded
<1>7. Untouched'
  BY <1>0, <1>2, <1>4, UntouchedKept
<1>8. InOneHand'
  <2>1. stored \ visible \subseteq stored' \ visible'
    BY <1>4
  <2> QED
    BY <1>0, <2>1 DEF Calm, InOneHand
<1>9. OneSourceCopy'
  <2>1. \A k \in stored : k.event = m.event => k.queue # "source"
    BY <1>1, <1>2 DEF Calm, OneSourceCopy
  <2> QED
    BY <1>4, <2>1 DEF Calm, OneSourceCopy
<1>10. OneCopy'
  <2> SUFFICES ASSUME NEW j \in stored', NEW k \in stored', j.event = k.event, j # k
               PROVE  Handled(j)' \/ Handled(k)'
    BY DEF OneCopy
  <2>1. CASE j \in stored /\ k \in stored
    BY <1>2, <2>1 DEF Calm, OneCopy
  <2>2. CASE j = n /\ k \in stored
    BY <1>2, <1>4, <2>2
  <2>3. CASE k = n /\ j \in stored
    BY <1>2, <1>4, <2>3
  <2> QED
    BY <1>4, <2>1, <2>2, <2>3
<1>11. Counted'
  <2> SUFFICES ASSUME NEW k \in stored', k.queue = "dlq", ~ Handled(k)'
               PROVE  /\ replays[k.event] <= k.retry + 1
                      /\ ~ Failing(k)' => replays[k.event] <= k.retry
    BY <1>0 DEF Counted
  <2>1. CASE k = n
    <3>1. replays[m.event] \in Nat
      BY <1>0, <1>2 DEF TypeOK
    <3> QED
      BY <1>3, <1>4, <1>5, <2>1, <3>1
  <2>2. CASE k \in stored
    BY <1>2, <2>2 DEF Calm, Counted
  <2> QED
    BY <1>4, <2>1, <2>2
<1> QED
  BY <1>2, <1>6, <1>7, <1>8, <1>9, <1>10, <1>11 DEF Calm

\* A deleted batch held no copy.
LEMMA CalmComplete ==
  ASSUME IInv, Calm, NEW w \in Worker, Complete(w)
  PROVE  Calm'
<1>0. UNCHANGED <<accepted, async, replays>> /\ TypeOK
      /\ stored' = stored \ batch[w] /\ visible' = visible \ batch[w] /\ batch[w] = done[w]
  BY DEF Complete, IInv
<1>1. \A v \in Worker : /\ batch'[v] = IF v = w THEN {} ELSE batch[v]
                        /\ done'[v] = IF v = w THEN {} ELSE done[v]
                        /\ failing'[v] = IF v = w THEN {} ELSE failing[v]
  BY <1>0 DEF Complete, LetGo, TypeOK
<1>2. failing[w] = {}
  BY <1>0 DEF IInv, WorkersSound, Calm, OneByOne
<1>3. \A m \in stored' : (Handled(m)' <=> Handled(m)) /\ (Failing(m)' <=> Failing(m))
  BY <1>0, <1>1, <1>2 DEF Handled, Failing
<1>4. IsFiniteSet(stored')
  BY <1>0, FS_Subset DEF Calm
<1>5. InOneHand'
  BY <1>0, <1>1 DEF Calm, InOneHand
<1>6. OneByOne'
  BY <1>1 DEF Calm, OneByOne
<1>7. Untouched' /\ OneSourceCopy' /\ Bounded'
  BY <1>0 DEF Calm, Untouched, OneSourceCopy, Bounded
<1>8. OneCopy' /\ Counted'
  BY <1>0, <1>3 DEF Calm, OneCopy, Counted
<1> QED
  BY <1>4, <1>5, <1>6, <1>7, <1>8 DEF Calm

\* Every step keeps the number of copies and of replays.
LEMMA LNext == ASSUME DlqBatch = 1 PROVE LInv /\ [Next]_vars => LInv'
<1> SUFFICES ASSUME LInv, [Next]_vars PROVE LInv'
  OBVIOUS
<1>0. IInv /\ IInv' /\ faults \in Nat
  BY NextInv, ConstantsAssumption DEF LInv, IInv, TypeOK
<1> SUFFICES ASSUME faults' = 0 PROVE Calm'
  BY <1>0 DEF LInv
<1>a. ~ Fault
  BY <1>0 DEF Fault
<1>1. ASSUME NEW e \in Event, ArriveAsync(e) \/ ArriveSource(e) \/ AsyncShip(e) \/ AsyncFail(e)
      PROVE  Calm'
  <2>1. faults = 0
    BY <1>1 DEF ArriveAsync, ArriveSource, AsyncShip, AsyncFail
  <2> QED
    BY <1>0, <1>1, <2>1, CalmArriveAsync, CalmArriveSource, CalmAsyncShip, CalmAsyncFail DEF LInv
<1>2. ASSUME NEW m \in stored, BecomeVisible(m) PROVE Calm'
  <2>1. faults = 0 /\ ~ InHands(m)
    BY <1>a, <1>2 DEF BecomeVisible
  <2> QED
    BY <1>0, <1>2, <2>1, CalmBecomeVisible DEF LInv
<1>3. ASSUME NEW w \in Worker, NEW B \in SUBSET visible, Receive(w, B) PROVE Calm'
  <2>1. faults = 0
    BY <1>3 DEF Receive
  <2> QED
    BY <1>0, <1>3, <2>1, CalmReceive DEF LInv
<1>4. ASSUME NEW w \in Worker, Step(w) PROVE Calm'
  <2>1. faults = 0
    BY <1>4 DEF Step, Ship, Fail, RejectBody
  <2> QED
    BY <1>0, <1>4, <2>1, CalmShip, CalmFail, CalmRejectBody DEF LInv, Step
<1>5. ASSUME NEW w \in Worker, Dispose(w) PROVE Calm'
  <2>1. faults = 0
    BY <1>5 DEF Dispose, ReturnErr, Archive, Resend
  <2> QED
    BY <1>0, <1>5, <2>1, CalmReturnErr, CalmArchive, CalmResend DEF LInv, Dispose
<1>6. ASSUME NEW w \in Worker, RescueRefused(w) \/ Crash(w) PROVE Calm'
  BY <1>a, <1>6 DEF RescueRefused, Crash
<1>7. ASSUME NEW w \in Worker, Complete(w) PROVE Calm'
  <2>1. faults = 0
    BY <1>7 DEF Complete
  <2> QED
    BY <1>0, <1>7, <2>1, CalmComplete DEF LInv
<1>8. CASE UNCHANGED vars
  BY <1>8 DEF vars, queues, workers, LInv, Calm, Untouched, InOneHand, OneByOne, OneSourceCopy,
              OneCopy, Counted, Bounded, Handled, Failing
<1> QED
  BY <1>1, <1>2, <1>3, <1>4, <1>5, <1>6, <1>7, <1>8 DEF Next

(* Without a fault, the retry loop keeps one live copy of an event, for    *)
(* every number of events and workers and every retry limit.               *)
THEOREM OneLiveCopyHolds == ASSUME DlqBatch = 1 PROVE Spec => []OneLiveCopy
<1>1. LInv => OneLiveCopy
  BY DEF LInv, Calm, OneCopy, OneLiveCopy
<1>2. LInv /\ [Next]_vars => LInv'
  BY LNext
<1> QED
  BY <1>1, <1>2, LInit, PTL DEF Spec

(* Without a fault, an event of the DLQ is tried at most once more than    *)
(* the configured limit.                                                   *)
THEOREM ReplaysBoundedHolds == ASSUME DlqBatch = 1 PROVE Spec => []ReplaysBounded
<1>1. LInv => ReplaysBounded
  BY DEF LInv, Calm, Bounded, ReplaysBounded
<1>2. LInv /\ [Next]_vars => LInv'
  BY LNext
<1> QED
  BY <1>1, <1>2, LInit, PTL DEF Spec
=============================================================================
