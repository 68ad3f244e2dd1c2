------------------------------- MODULE SessionIOProofs -------------------------------
(***************************************************************************)
(* Properties of a session slot proved for all values of the constants:    *)
(* first the invariant that does not depend on how CompleteIO accounts for *)
(* I/O, then, on top of it, the accounting and the single finalization of  *)
(* a connection.                                                           *)
(***************************************************************************)
EXTENDS SessionIO, TLAPS, FiniteSetTheorems

(* SlotInv is inductive as it stands.  The parts the runs check (TypeOK,
   SingleConsumer, TasksAccounted, TasksOfConnection) are not inductive alone:
   that a queued task belongs to the connection in the slot needs the handler's
   knowledge in HolderState and AcceptAlone, and that a freed slot has no task
   left needs the one finalization that NoticesSound and KeysHandedOut give. *)
SlotInv ==
    /\ TypeOK
    /\ KeysHandedOut
    /\ AcceptAlone
    /\ SingleConsumer
    /\ HolderState
    /\ TasksAccounted
    /\ TasksOfConnection
    /\ NoticesSound

(* What a step may do to the task queue. *)
QueueKept == UNCHANGED <<tasks, taskCount>>
QueueGrown ==
    /\ life = "ACTIVE"
    /\ tasks' \in Seq(Task)
    /\ Len(tasks') = Len(tasks) + 1
    /\ taskCount' = taskCount + 1
    /\ \A i \in 1..Len(tasks') : tasks'[i].key = sid
QueueShrunk ==
    /\ tasks # <<>>
    /\ tasks' \in Seq(Task)
    /\ Len(tasks') = Len(tasks) - 1
    /\ \A i \in 1..Len(tasks') : tasks'[i].key = sid

\* A task enqueued by TryEnqueueTask carries the key of the connection in the slot, because
\* the key and the ACTIVE state are checked with the enqueue.
LEMMA EnqueueEffect ==
  ASSUME SlotInv, NEW k, NEW type \in TaskType, CanEnqueue(k), EnqueueTask(type, k)
  PROVE QueueGrown
<1>1. k \in SessionIds /\ k = sid /\ life = "ACTIVE"
  BY DEF SlotInv, CanEnqueue, KeysHandedOut, TypeOK, Ids
<1> DEFINE e == [type |-> type, key |-> k]
<1>2. e \in Task /\ e.key = sid
  BY <1>1 DEF Task
<1>3. tasks \in Seq(Task) /\ \A i \in 1..Len(tasks) : tasks[i].key = sid
  BY DEF SlotInv, TypeOK, TasksOfConnection
<1>4. tasks' = Append(tasks, e) /\ taskCount' = taskCount + 1
  BY DEF EnqueueTask
<1> HIDE DEF e
<1>5. QED BY <1>1, <1>2, <1>3, <1>4 DEF QueueGrown

\* RequestDisconnect leaves the queue alone or adds one task of the present connection.
LEMMA RequestEffect ==
  ASSUME SlotInv, NEW k, RequestDisconnect(k)
  PROVE QueueKept \/ QueueGrown
BY EnqueueEffect DEF RequestDisconnect, QueueKept, TaskType

\* Dequeue removes one task and keeps the others.
LEMMA ShrinkEffect ==
  ASSUME SlotInv, Len(tasks) > 0, tasks' = Tail(tasks)
  PROVE QueueShrunk
<1>1. tasks \in Seq(Task) /\ \A i \in 1..Len(tasks) : tasks[i].key = sid
  BY DEF SlotInv, TypeOK, TasksOfConnection
<1>2. QED BY <1>1 DEF QueueShrunk

\* Discarding as many tasks as there are leaves none.
LEMMA DiscardEffect ==
  ASSUME SlotInv, NEW n \in Nat, n = Len(tasks), tasks' = SubSeq(tasks, n + 1, Len(tasks))
  PROVE tasks' = <<>>
BY DEF SlotInv, TypeOK

\* The inductive invariant of the slot holds for any number of threads, buffers, ids and
\* tasks: the types, one consumer, exact task accounting, no task of another connection, and
\* what each thread of Session.cpp and TetrisServer::FinalizeDisconnect relies on.
THEOREM SlotInvariant == Spec => []SlotInv
<1> USE IdsAssumption
<1>1. Init => SlotInv
  <2> SUFFICES ASSUME Init PROVE SlotInv
    OBVIOUS
  <2>1. TypeOK
    <3>1. life \in LifeState /\ sid \in Ids /\ recvKey \in Ids /\ used \subseteq SessionIds
      BY DEF Init, LifeState, Ids
    <3>2. pending \in Int /\ recvOut \in Nat /\ tasks \in Seq(Task) /\ taskCount \in Nat
      BY DEF Init
    <3>3. /\ bufState \in [Buffers -> {"AVAILABLE", "IN_USE"}]
          /\ bufKey \in [Buffers -> Ids]
          /\ bufIO \in [Buffers -> BOOLEAN]
          /\ notices \in [SessionIds -> Nat]
      BY DEF Init, Ids
    <3>4. right \in BOOLEAN /\ misfire \in BOOLEAN
      BY DEF Init
    <3>5. /\ iopc \in [IOThreads -> IOPoint]
          /\ iokey \in [IOThreads -> Ids]
          /\ iobuf \in [IOThreads -> Buffers \cup {NoBuf}]
      BY DEF Init, IOPoint, Ids
    <3>6. /\ wpc \in [Workers -> WorkerPoint]
          /\ wkey \in [Workers -> Ids]
          /\ wbuf \in [Workers -> Buffers \cup {NoBuf}]
          /\ wleft \in [Workers -> Nat]
      BY DEF Init, WorkerPoint, Ids
    <3>7. QED BY <3>1, <3>2, <3>3, <3>4, <3>5, <3>6 DEF TypeOK
  <2>2. KeysHandedOut
    BY DEF Init, KeysHandedOut
  <2>3. AcceptAlone
    BY DEF Init, AcceptAlone
  <2>4. SingleConsumer
    BY DEF Init, SingleConsumer, Holders
  <2>5. HolderState
    BY DEF Init, HolderState
  <2>6. TasksAccounted
    BY DEF Init, TasksAccounted, Holders
  <2>7. TasksOfConnection
    BY DEF Init, TasksOfConnection
  <2>8. NoticesSound
    BY DEF Init, NoticesSound
  <2>9. QED BY <2>1, <2>2, <2>3, <2>4, <2>5, <2>6, <2>7, <2>8 DEF SlotInv
<1>2. SlotInv /\ [Next]_vars => SlotInv'
  <2> SUFFICES ASSUME SlotInv, [Next]_vars PROVE SlotInv'
    OBVIOUS
  <2> USE DEF SlotInv
  <2>1. ASSUME NEW t \in IOThreads, BeginAccept(t) PROVE SlotInv'
    <3> USE <2>1 DEF BeginAccept, Goto, recvVars, bufVars, taskVars, wkVars
    <3>1. TypeOK'
      BY DEF TypeOK, LifeState, IOPoint
    <3>2. KeysHandedOut'
      BY DEF KeysHandedOut, TypeOK
    <3>3. AcceptAlone'
      BY DEF AcceptAlone, TypeOK
    <3>4. HolderState'
      BY DEF HolderState, TypeOK
    <3>5. TasksOfConnection'
      BY DEF TasksOfConnection, TypeOK
    <3>6. NoticesSound'
      BY DEF NoticesSound, TypeOK
    <3>7. SingleConsumer' /\ TasksAccounted'
      BY DEF SingleConsumer, TasksAccounted, Holders
    <3>8. QED BY <3>1, <3>2, <3>3, <3>4, <3>5, <3>6, <3>7
  <2>2. ASSUME NEW t \in IOThreads, InitSession(t) PROVE SlotInv'
    <3> USE <2>2 DEF InitSession, Goto, bufVars, taskVars, wkVars
    <3>f0. life = "INITIALIZING" /\ sid = NoId /\ tasks = <<>>
      BY DEF AcceptAlone, KeysHandedOut, TasksOfConnection
    <3>f1. \A w \in Workers : wpc[w] \in {"idle", "send"}
      BY <3>f0 DEF HolderState, TypeOK, WorkerPoint
    <3>f2. sid' \in SessionIds /\ sid' \notin used /\ notices[sid'] = 0
      BY DEF KeysHandedOut, TypeOK
    <3>1. TypeOK'
      BY <3>f0, <3>f1, <3>f2 DEF TypeOK, LifeState, IOPoint, Ids
    <3>2. KeysHandedOut'
      BY <3>f0, <3>f1, <3>f2 DEF KeysHandedOut, TypeOK
    <3>3. AcceptAlone'
      BY <3>f0, <3>f1, <3>f2 DEF AcceptAlone, TypeOK
    <3>4. HolderState'
      BY <3>f0, <3>f1, <3>f2 DEF HolderState, TypeOK
    <3>5. TasksOfConnection'
      BY <3>f0, <3>f1, <3>f2 DEF TasksOfConnection, TypeOK
    <3>6. NoticesSound'
      <4>1. \A w \in Workers : wpc'[w] \in {"idle", "send"}
        BY <3>f1
      <4>2. notices'[sid'] = 0
        BY <3>f2
      <4>3. QED BY <4>1, <4>2 DEF NoticesSound
    <3>7. SingleConsumer' /\ TasksAccounted'
      BY DEF SingleConsumer, TasksAccounted, Holders
    <3>8. QED BY <3>1, <3>2, <3>3, <3>4, <3>5, <3>6, <3>7
  <2>3. ASSUME NEW t \in IOThreads, FirstRecv(t) PROVE SlotInv'
    <3> USE <2>3 DEF FirstRecv, RecvPacket, Return, bufVars, taskVars, wkVars
    <3>1. TypeOK'
      BY DEF TypeOK, IOPoint, Ids
    <3>2. KeysHandedOut'
      BY DEF KeysHandedOut, TypeOK
    <3>3. AcceptAlone'
      BY DEF AcceptAlone, TypeOK
    <3>4. SingleConsumer' /\ HolderState' /\ TasksAccounted' /\ TasksOfConnection' /\ NoticesSound'
      BY DEF SingleConsumer, HolderState, TasksAccounted, TasksOfConnection, NoticesSound, Holders
    <3>5. QED BY <3>1, <3>2, <3>3, <3>4
  <2>4. ASSUME NEW t \in IOThreads, DequeueRecv(t) PROVE SlotInv'
    <3> USE <2>4 DEF DequeueRecv, Goto, slotVars, bufVars, taskVars, wkVars
    <3>1. TypeOK'
      BY DEF TypeOK, IOPoint
    <3>2. AcceptAlone'
      BY DEF AcceptAlone, TypeOK
    <3>3. KeysHandedOut' /\ SingleConsumer' /\ HolderState' /\ TasksAccounted' /\ TasksOfConnection' /\ NoticesSound'
      BY DEF KeysHandedOut, SingleConsumer, HolderState, TasksAccounted, TasksOfConnection,
         NoticesSound, Holders
    <3>4. QED BY <3>1, <3>2, <3>3
  <2>5. ASSUME NEW t \in IOThreads, ProcessSessionCompletion(t) PROVE SlotInv'
    <3> USE <2>5 DEF ProcessSessionCompletion, MatchesSessionKey, Return, slotVars, recvVars,
       bufVars, taskVars, wkVars
    <3>1. TypeOK'
      <4>1. iopc' \in [IOThreads -> IOPoint]
        BY DEF TypeOK, IOPoint, Ids
      <4>2. iokey' \in [IOThreads -> Ids]
        BY DEF TypeOK, IOPoint, Ids
      <4>3. iobuf' = iobuf
        BY DEF TypeOK, IOPoint, Ids
      <4>4. QED BY <4>1, <4>2, <4>3 DEF TypeOK
    <3>2. KeysHandedOut'
      <4>1. CASE MatchesSessionKey(recvKey)
        BY <4>1 DEF KeysHandedOut, TypeOK
      <4>2. CASE ~(MatchesSessionKey(recvKey))
        BY <4>2 DEF KeysHandedOut, TypeOK
      <4>3. QED BY <4>1, <4>2
    <3>3. AcceptAlone'
      <4>1. CASE MatchesSessionKey(recvKey)
        BY <4>1 DEF AcceptAlone, TypeOK
      <4>2. CASE ~(MatchesSessionKey(recvKey))
        BY <4>2 DEF AcceptAlone, TypeOK
      <4>3. QED BY <4>1, <4>2
    <3>4. SingleConsumer' /\ HolderState' /\ TasksAccounted' /\ TasksOfConnection' /\ NoticesSound'
      BY DEF SingleConsumer, HolderState, TasksAccounted, TasksOfConnection, NoticesSound, Holders
    <3>5. QED BY <3>1, <3>2, <3>3, <3>4
  <2>6. ASSUME NEW t \in IOThreads, RejectReceive(t) PROVE SlotInv'
    <3> USE <2>6 DEF RejectReceive, Goto, slotVars, recvVars, bufVars, wkVars
    <3>f0. QueueKept \/ QueueGrown
      BY RequestEffect
    <3>1. TypeOK'
      BY <3>f0 DEF TypeOK, IOPoint, QueueKept, QueueGrown
    <3>2. AcceptAlone'
      BY <3>f0 DEF AcceptAlone, TypeOK
    <3>3. HolderState'
      BY <3>f0 DEF HolderState, TypeOK, QueueKept, QueueGrown
    <3>4. TasksAccounted'
      BY <3>f0 DEF TasksAccounted, TypeOK, Holders, QueueKept, QueueGrown
    <3>5. TasksOfConnection'
      BY <3>f0 DEF TasksOfConnection, TypeOK, QueueKept, QueueGrown
    <3>6. KeysHandedOut' /\ SingleConsumer' /\ NoticesSound'
      BY DEF KeysHandedOut, SingleConsumer, NoticesSound, Holders
    <3>7. QED BY <3>1, <3>2, <3>3, <3>4, <3>5, <3>6
  <2>7. ASSUME NEW t \in IOThreads, EnqueuePacket(t) PROVE SlotInv'
    <3> USE <2>7 DEF EnqueuePacket, Goto, slotVars, recvVars, bufVars, ioVars, wkVars
    <3>f0. QueueKept \/ QueueGrown
      BY EnqueueEffect DEF QueueKept
    <3>1. TypeOK'
      <4>1. CASE CanEnqueue(iokey[t])
        BY <3>f0, <4>1 DEF TypeOK, IOPoint, QueueKept, QueueGrown
      <4>2. CASE ~(CanEnqueue(iokey[t]))
        BY <3>f0, <4>2 DEF TypeOK, IOPoint, QueueKept, QueueGrown
      <4>3. QED BY <4>1, <4>2
    <3>2. AcceptAlone'
      <4>1. CASE CanEnqueue(iokey[t])
        BY <3>f0, <4>1 DEF AcceptAlone, TypeOK
      <4>2. CASE ~(CanEnqueue(iokey[t]))
        BY <3>f0, <4>2 DEF AcceptAlone, TypeOK
      <4>3. QED BY <4>1, <4>2
    <3>3. HolderState'
      <4>1. CASE CanEnqueue(iokey[t])
        BY <3>f0, <4>1 DEF HolderState, TypeOK, QueueKept, QueueGrown
      <4>2. CASE ~(CanEnqueue(iokey[t]))
        BY <3>f0, <4>2 DEF HolderState, TypeOK, QueueKept, QueueGrown
      <4>3. QED BY <4>1, <4>2
    <3>4. TasksAccounted'
      <4>1. CASE CanEnqueue(iokey[t])
        BY <3>f0, <4>1 DEF TasksAccounted, TypeOK, Holders, QueueKept, QueueGrown
      <4>2. CASE ~(CanEnqueue(iokey[t]))
        BY <3>f0, <4>2 DEF TasksAccounted, TypeOK, Holders, QueueKept, QueueGrown
      <4>3. QED BY <4>1, <4>2
    <3>5. TasksOfConnection'
      <4>1. CASE CanEnqueue(iokey[t])
        BY <3>f0, <4>1 DEF TasksOfConnection, TypeOK, QueueKept, QueueGrown
      <4>2. CASE ~(CanEnqueue(iokey[t]))
        BY <3>f0, <4>2 DEF TasksOfConnection, TypeOK, QueueKept, QueueGrown
      <4>3. QED BY <4>1, <4>2
    <3>6. KeysHandedOut' /\ SingleConsumer' /\ NoticesSound'
      BY DEF KeysHandedOut, SingleConsumer, NoticesSound, Holders
    <3>7. QED BY <3>1, <3>2, <3>3, <3>4, <3>5, <3>6
  <2>8. ASSUME NEW t \in IOThreads, EndRecvBuffer(t) PROVE SlotInv'
    <3> USE <2>8 DEF EndRecvBuffer, Goto, slotVars, recvVars, bufVars, taskVars, wkVars
    <3>1. TypeOK'
      BY DEF TypeOK, IOPoint
    <3>2. AcceptAlone'
      BY DEF AcceptAlone, TypeOK
    <3>3. KeysHandedOut' /\ SingleConsumer' /\ HolderState' /\ TasksAccounted' /\ TasksOfConnection' /\ NoticesSound'
      BY DEF KeysHandedOut, SingleConsumer, HolderState, TasksAccounted, TasksOfConnection,
         NoticesSound, Holders
    <3>4. QED BY <3>1, <3>2, <3>3
  <2>9. ASSUME NEW t \in IOThreads, Rearm(t) PROVE SlotInv'
    <3> USE <2>9 DEF Rearm, RecvPacket, Goto, bufVars, taskVars, wkVars
    <3>1. TypeOK'
      BY DEF TypeOK, IOPoint
    <3>2. KeysHandedOut'
      BY DEF KeysHandedOut, TypeOK
    <3>3. AcceptAlone'
      BY DEF AcceptAlone, TypeOK
    <3>4. SingleConsumer' /\ HolderState' /\ TasksAccounted' /\ TasksOfConnection' /\ NoticesSound'
      BY DEF SingleConsumer, HolderState, TasksAccounted, TasksOfConnection, NoticesSound, Holders
    <3>5. QED BY <3>1, <3>2, <3>3, <3>4
  <2>10. ASSUME NEW t \in IOThreads, ProcessSendCompletion(t) PROVE SlotInv'
    <3> USE <2>10 DEF ProcessSendCompletion, Goto, slotVars, recvVars, bufVars, wkVars
    <3>f0. QueueKept \/ QueueGrown
      BY RequestEffect DEF QueueKept
    <3>1. TypeOK'
      BY <3>f0 DEF TypeOK, IOPoint, QueueKept, QueueGrown
    <3>2. AcceptAlone'
      BY <3>f0 DEF AcceptAlone, TypeOK
    <3>3. HolderState'
      BY <3>f0 DEF HolderState, TypeOK, QueueKept, QueueGrown
    <3>4. TasksAccounted'
      BY <3>f0 DEF TasksAccounted, TypeOK, Holders, QueueKept, QueueGrown
    <3>5. TasksOfConnection'
      BY <3>f0 DEF TasksOfConnection, TypeOK, QueueKept, QueueGrown
    <3>6. KeysHandedOut' /\ SingleConsumer' /\ NoticesSound'
      BY DEF KeysHandedOut, SingleConsumer, NoticesSound, Holders
    <3>7. QED BY <3>1, <3>2, <3>3, <3>4, <3>5, <3>6
  <2>11. ASSUME NEW t \in IOThreads, ReleaseBuffer(t) PROVE SlotInv'
    <3> USE <2>11 DEF ReleaseBuffer, slotVars, recvVars, taskVars, wkVars
    <3>1. TypeOK'
      BY DEF TypeOK, IOPoint
    <3>2. AcceptAlone'
      BY DEF AcceptAlone, TypeOK
    <3>3. KeysHandedOut' /\ SingleConsumer' /\ HolderState' /\ TasksAccounted' /\ TasksOfConnection' /\ NoticesSound'
      BY DEF KeysHandedOut, SingleConsumer, HolderState, TasksAccounted, TasksOfConnection,
         NoticesSound, Holders
    <3>4. QED BY <3>1, <3>2, <3>3
  <2>12. ASSUME NEW t \in IOThreads, CompleteIO(t) PROVE SlotInv'
    <3> USE <2>12 DEF CompleteIO, MatchesSessionKey, Goto, Return, slotVars, recvVars, bufVars,
       taskVars, wkVars
    <3>1. TypeOK'
      BY DEF TypeOK, IOPoint, Ids
    <3>2. KeysHandedOut'
      BY DEF KeysHandedOut, TypeOK
    <3>3. AcceptAlone'
      BY DEF AcceptAlone, TypeOK
    <3>4. SingleConsumer' /\ HolderState' /\ TasksAccounted' /\ TasksOfConnection' /\ NoticesSound'
      BY DEF SingleConsumer, HolderState, TasksAccounted, TasksOfConnection, NoticesSound, Holders
    <3>5. QED BY <3>1, <3>2, <3>3, <3>4
  <2>13. ASSUME NEW t \in IOThreads, DecrementPending(t) PROVE SlotInv'
    <3> USE <2>13 DEF DecrementPending, Goto, Return, recvVars, bufVars, taskVars, wkVars
    <3>1. TypeOK'
      <4>1. pending' \in Int
        BY DEF TypeOK, IOPoint, Ids
      <4>2. iopc' \in [IOThreads -> IOPoint]
        BY DEF TypeOK, IOPoint, Ids
      <4>3. iokey' \in [IOThreads -> Ids]
        BY DEF TypeOK, IOPoint, Ids
      <4>4. iobuf' = iobuf
        BY DEF TypeOK, IOPoint, Ids
      <4>5. QED BY <4>1, <4>2, <4>3, <4>4 DEF TypeOK
    <3>2. KeysHandedOut'
      <4>1. CASE pending = 1
        BY <4>1 DEF KeysHandedOut, TypeOK
      <4>2. CASE ~(pending = 1)
        BY <4>2 DEF KeysHandedOut, TypeOK
      <4>3. QED BY <4>1, <4>2
    <3>3. AcceptAlone'
      <4>1. CASE pending = 1
        BY <4>1 DEF AcceptAlone, TypeOK
      <4>2. CASE ~(pending = 1)
        BY <4>2 DEF AcceptAlone, TypeOK
      <4>3. QED BY <4>1, <4>2
    <3>4. SingleConsumer' /\ HolderState' /\ TasksAccounted' /\ TasksOfConnection' /\ NoticesSound'
      BY DEF SingleConsumer, HolderState, TasksAccounted, TasksOfConnection, NoticesSound, Holders
    <3>5. QED BY <3>1, <3>2, <3>3, <3>4
  <2>14. ASSUME NEW t \in IOThreads, ExchangeDisconnecting(t) PROVE SlotInv'
    <3> USE <2>14 DEF ExchangeDisconnecting, Return, recvVars, bufVars, taskVars, wkVars
    <3>f0. \A k \in SessionIds : life = "DISCONNECT_PENDING" => notices'[k] = IF k = iokey[t] THEN notices[k] + 1 ELSE notices[k]
      BY DEF TypeOK
    <3>f1. life = "DISCONNECT_PENDING" => \A w \in Workers : wpc[w] \notin {"finalize", "free"}
      BY DEF HolderState
    <3>1. TypeOK'
      <4>1. life' \in LifeState
        BY <3>f0, <3>f1 DEF TypeOK, LifeState, IOPoint, Ids
      <4>2. notices' \in [SessionIds -> Nat]
        BY <3>f0, <3>f1 DEF TypeOK, LifeState, IOPoint, Ids
      <4>3. misfire' \in BOOLEAN
        BY <3>f0, <3>f1 DEF TypeOK, LifeState, IOPoint, Ids
      <4>4. iopc' \in [IOThreads -> IOPoint]
        BY <3>f0, <3>f1 DEF TypeOK, LifeState, IOPoint, Ids
      <4>5. iokey' \in [IOThreads -> Ids]
        BY <3>f0, <3>f1 DEF TypeOK, LifeState, IOPoint, Ids
      <4>6. QED BY <4>1, <4>2, <4>3, <4>4, <4>5 DEF TypeOK
    <3>2. KeysHandedOut'
      <4>1. \A k \in SessionIds : notices'[k] > 0 => k \in used
        <5>1. CASE life = "DISCONNECT_PENDING"
          BY <5>1, <3>f0 DEF KeysHandedOut
        <5>2. CASE life # "DISCONNECT_PENDING"
          BY <5>2 DEF KeysHandedOut
        <5>3. QED BY <5>1, <5>2
      <4>2. \A u \in IOThreads : iokey'[u] \in used \cup {NoId}
        BY DEF KeysHandedOut, TypeOK
      <4>3. life' \in {"NONE", "INITIALIZING"} <=> sid = NoId
        BY DEF KeysHandedOut
      <4>4. QED BY <4>1, <4>2, <4>3 DEF KeysHandedOut
    <3>3. AcceptAlone'
      <4>1. CASE life = "DISCONNECT_PENDING"
        BY <3>f0, <3>f1, <4>1 DEF AcceptAlone, TypeOK
      <4>2. CASE ~(life = "DISCONNECT_PENDING")
        BY <3>f0, <3>f1, <4>2 DEF AcceptAlone, TypeOK
      <4>3. QED BY <4>1, <4>2
    <3>4. HolderState'
      <4>1. CASE life = "DISCONNECT_PENDING"
        BY <3>f0, <3>f1, <4>1 DEF HolderState, TypeOK
      <4>2. CASE ~(life = "DISCONNECT_PENDING")
        BY <3>f0, <3>f1, <4>2 DEF HolderState, TypeOK
      <4>3. QED BY <4>1, <4>2
    <3>5. TasksOfConnection'
      <4>1. CASE life = "DISCONNECT_PENDING"
        BY <3>f0, <3>f1, <4>1 DEF TasksOfConnection, TypeOK
      <4>2. CASE ~(life = "DISCONNECT_PENDING")
        BY <3>f0, <3>f1, <4>2 DEF TasksOfConnection, TypeOK
      <4>3. QED BY <4>1, <4>2
    <3>6. NoticesSound'
      <4>1. CASE life = "DISCONNECT_PENDING"
        BY <3>f0, <3>f1, <4>1 DEF NoticesSound, TypeOK
      <4>2. CASE ~(life = "DISCONNECT_PENDING")
        BY <3>f0, <3>f1, <4>2 DEF NoticesSound, TypeOK
      <4>3. QED BY <4>1, <4>2
    <3>7. SingleConsumer' /\ TasksAccounted'
      BY DEF SingleConsumer, TasksAccounted, Holders
    <3>8. QED BY <3>1, <3>2, <3>3, <3>4, <3>5, <3>6, <3>7
  <2>15. ASSUME NEW t \in IOThreads, NEW b \in Buffers, DequeueSend(t, b) PROVE SlotInv'
    <3> USE <2>15 DEF DequeueSend, slotVars, recvVars, taskVars, wkVars
    <3>1. TypeOK'
      BY DEF TypeOK, IOPoint
    <3>2. KeysHandedOut'
      BY DEF KeysHandedOut, TypeOK
    <3>3. AcceptAlone'
      BY DEF AcceptAlone, TypeOK
    <3>4. SingleConsumer' /\ HolderState' /\ TasksAccounted' /\ TasksOfConnection' /\ NoticesSound'
      BY DEF SingleConsumer, HolderState, TasksAccounted, TasksOfConnection, NoticesSound, Holders
    <3>5. QED BY <3>1, <3>2, <3>3, <3>4
  <2>16. ASSUME NEW w \in Workers, SendPacket(w) PROVE SlotInv'
    <3> USE <2>16 DEF SendPacket, Leave, recvVars, taskVars, ioVars
    <3>1. TypeOK'
      <4>1. pending' \in Int
        BY DEF TypeOK, WorkerPoint, Ids
      <4>2. bufState' \in [Buffers -> {"AVAILABLE", "IN_USE"}]
        BY DEF TypeOK, WorkerPoint, Ids
      <4>3. bufKey' \in [Buffers -> Ids]
        BY DEF TypeOK, WorkerPoint, Ids
      <4>4. bufIO' \in [Buffers -> BOOLEAN]
        BY DEF TypeOK, WorkerPoint, Ids
      <4>5. wpc' \in [Workers -> WorkerPoint]
        BY DEF TypeOK, WorkerPoint, Ids
      <4>6. wkey' \in [Workers -> Ids]
        BY DEF TypeOK, WorkerPoint, Ids
      <4>7. wbuf' \in [Workers -> Buffers \cup {NoBuf}]
        BY DEF TypeOK, WorkerPoint, Ids
      <4>8. wleft' \in [Workers -> Nat]
        BY DEF TypeOK, WorkerPoint, Ids
      <4>9. QED BY <4>1, <4>2, <4>3, <4>4, <4>5, <4>6, <4>7, <4>8 DEF TypeOK
    <3>2. KeysHandedOut'
      <4>1. CASE life = "ACTIVE"
        BY <4>1 DEF KeysHandedOut, TypeOK
      <4>2. CASE ~(life = "ACTIVE")
        BY <4>2 DEF KeysHandedOut, TypeOK
      <4>3. QED BY <4>1, <4>2
    <3>3. SingleConsumer'
      <4>1. CASE life = "ACTIVE"
        BY <4>1 DEF SingleConsumer, TypeOK, Holders
      <4>2. CASE ~(life = "ACTIVE")
        BY <4>2 DEF SingleConsumer, TypeOK, Holders
      <4>3. QED BY <4>1, <4>2
    <3>4. HolderState'
      <4>1. CASE life = "ACTIVE"
        BY <4>1 DEF HolderState, TypeOK
      <4>2. CASE ~(life = "ACTIVE")
        BY <4>2 DEF HolderState, TypeOK
      <4>3. QED BY <4>1, <4>2
    <3>5. TasksAccounted'
      <4>1. CASE life = "ACTIVE"
        BY <4>1 DEF TasksAccounted, TypeOK, Holders
      <4>2. CASE ~(life = "ACTIVE")
        BY <4>2 DEF TasksAccounted, TypeOK, Holders
      <4>3. QED BY <4>1, <4>2
    <3>6. NoticesSound'
      <4>1. CASE life = "ACTIVE"
        BY <4>1 DEF NoticesSound, TypeOK
      <4>2. CASE ~(life = "ACTIVE")
        BY <4>2 DEF NoticesSound, TypeOK
      <4>3. QED BY <4>1, <4>2
    <3>7. AcceptAlone' /\ TasksOfConnection'
      BY DEF AcceptAlone, TasksOfConnection
    <3>8. QED BY <3>1, <3>2, <3>3, <3>4, <3>5, <3>6, <3>7
  <2>17. ASSUME NEW w \in Workers, StartTaskProcessing(w) PROVE SlotInv'
    <3> USE <2>17 DEF StartTaskProcessing, RightFree, slotVars, recvVars, bufVars, ioVars
    <3>f0. Holders = {} /\ Holders' = {w}
      BY DEF SingleConsumer, TypeOK, Holders
    <3>1. TypeOK'
      BY <3>f0 DEF TypeOK, WorkerPoint
    <3>2. SingleConsumer'
      BY <3>f0 DEF SingleConsumer, TypeOK, Holders
    <3>3. HolderState'
      BY <3>f0 DEF HolderState, TypeOK
    <3>4. TasksAccounted'
      BY <3>f0 DEF TasksAccounted, TypeOK, Holders
    <3>5. NoticesSound'
      BY <3>f0 DEF NoticesSound, TypeOK
    <3>6. KeysHandedOut' /\ AcceptAlone' /\ TasksOfConnection'
      BY DEF KeysHandedOut, AcceptAlone, TasksOfConnection
    <3>7. QED BY <3>1, <3>2, <3>3, <3>4, <3>5, <3>6
  <2>18. ASSUME NEW w \in Workers, ProcessPacketTask(w) PROVE SlotInv'
    <3> USE <2>18 DEF ProcessPacketTask, Restored, slotVars, recvVars, bufVars, ioVars
    <3>f0. QueueShrunk
      BY ShrinkEffect DEF Holders, TypeOK, TasksAccounted
    <3>f1. Holders = {w} /\ Holders' = {w}
      BY DEF Holders, SingleConsumer
    <3>1. TypeOK'
      <4>1. taskCount' \in Nat
        BY <3>f0, <3>f1 DEF TypeOK, QueueShrunk
      <4>2. wleft' \in [Workers -> Nat]
        BY <3>f0, <3>f1 DEF TypeOK, QueueShrunk
      <4>3. tasks' \in Seq(Task)
        BY <3>f0, <3>f1 DEF TypeOK, QueueShrunk
      <4>4. QED BY <4>1, <4>2, <4>3 DEF TypeOK
    <3>2. HolderState'
      <4>1. CASE EndsClaim(Head(tasks))
        BY <3>f0, <3>f1, <4>1 DEF HolderState, TypeOK, QueueShrunk
      <4>2. CASE ~(EndsClaim(Head(tasks)))
        BY <3>f0, <3>f1, <4>2 DEF HolderState, TypeOK, QueueShrunk
      <4>3. QED BY <4>1, <4>2
    <3>3. TasksAccounted'
      <4>1. Len(tasks) = taskCount + wleft[w] /\ taskCount \in Nat /\ wleft[w] \in Nat
        BY <3>f1 DEF TasksAccounted, TypeOK
      <4>2. Len(tasks') = taskCount' + wleft'[w]
        <5>1. CASE EndsClaim(Head(tasks))
          <6>1. wleft'[w] = 0 /\ taskCount' = taskCount + wleft[w] - 1
            BY <4>1, <5>1 DEF TypeOK
          <6>2. QED BY <4>1, <6>1, <3>f0 DEF QueueShrunk
        <5>2. CASE ~EndsClaim(Head(tasks))
          <6>1. wleft'[w] = wleft[w] - 1 /\ taskCount' = taskCount
            BY <4>1, <5>2 DEF TypeOK
          <6>2. QED BY <4>1, <6>1, <3>f0 DEF QueueShrunk
        <5>3. QED BY <5>1, <5>2
      <4>3. QED BY <4>2, <3>f1 DEF TasksAccounted
    <3>4. TasksOfConnection'
      <4>1. CASE EndsClaim(Head(tasks))
        BY <3>f0, <3>f1, <4>1 DEF TasksOfConnection, TypeOK, QueueShrunk
      <4>2. CASE ~(EndsClaim(Head(tasks)))
        BY <3>f0, <3>f1, <4>2 DEF TasksOfConnection, TypeOK, QueueShrunk
      <4>3. QED BY <4>1, <4>2
    <3>5. KeysHandedOut' /\ AcceptAlone' /\ SingleConsumer' /\ NoticesSound'
      BY DEF KeysHandedOut, AcceptAlone, SingleConsumer, NoticesSound, Holders
    <3>6. QED BY <3>1, <3>2, <3>3, <3>4, <3>5
  <2>19. ASSUME NEW w \in Workers, BeginDisconnect(w) PROVE SlotInv'
    <3> USE <2>19 DEF BeginDisconnect, MatchesSessionKey, recvVars, bufVars, ioVars
    <3>f0. QueueShrunk
      BY ShrinkEffect DEF Holders, TypeOK, TasksAccounted
    <3>f1. life = "ACTIVE"
      BY DEF HolderState
    <3>f2. Holders = {w} /\ Holders' = {w}
      BY <3>f1 DEF Holders, SingleConsumer, TypeOK
    <3>1. TypeOK'
      <4>1. life' \in LifeState
        BY <3>f0, <3>f1, <3>f2 DEF TypeOK, LifeState, WorkerPoint, QueueShrunk
      <4>2. tasks' \in Seq(Task)
        BY <3>f0, <3>f1, <3>f2 DEF TypeOK, LifeState, WorkerPoint, QueueShrunk
      <4>3. wpc' \in [Workers -> WorkerPoint]
        BY <3>f0, <3>f1, <3>f2 DEF TypeOK, LifeState, WorkerPoint, QueueShrunk
      <4>4. wleft' \in [Workers -> Nat]
        BY <3>f0, <3>f1, <3>f2 DEF TypeOK, LifeState, WorkerPoint, QueueShrunk
      <4>5. QED BY <4>1, <4>2, <4>3, <4>4 DEF TypeOK
    <3>2. KeysHandedOut'
      BY <3>f0, <3>f1, <3>f2 DEF KeysHandedOut, TypeOK
    <3>3. AcceptAlone'
      BY <3>f0, <3>f1, <3>f2 DEF AcceptAlone, TypeOK
    <3>4. SingleConsumer'
      BY <3>f0, <3>f1, <3>f2 DEF SingleConsumer, TypeOK, Holders
    <3>5. HolderState'
      <4>1. \A v \in Workers : v # w => wpc[v] \in {"idle", "send"}
        BY <3>f1, <3>f2 DEF Holders, HolderState, TypeOK, WorkerPoint
      <4>2. \A v \in Workers : v # w => wpc'[v] = wpc[v] /\ wleft'[v] = wleft[v]
        BY DEF TypeOK
      <4>3. wpc'[w] = "begin" /\ life' = "DISCONNECT_PENDING" /\ wkey[w] = sid
        BY <3>f1 DEF TypeOK, HolderState
      <4>4. QED BY <4>1, <4>2, <4>3 DEF HolderState
    <3>6. TasksAccounted'
      <4>1. Len(tasks) = taskCount + wleft[w] /\ taskCount \in Nat /\ wleft[w] \in Nat
        BY <3>f2 DEF TasksAccounted, TypeOK
      <4>2. wleft'[w] = wleft[w] - 1
        BY DEF TypeOK
      <4>3. QED BY <4>1, <4>2, <3>f0, <3>f2 DEF TasksAccounted, QueueShrunk
    <3>7. TasksOfConnection'
      BY <3>f0, <3>f1, <3>f2 DEF TasksOfConnection, TypeOK, QueueShrunk
    <3>8. NoticesSound'
      BY <3>f0, <3>f1, <3>f2 DEF NoticesSound, TypeOK
    <3>9. QED BY <3>1, <3>2, <3>3, <3>4, <3>5, <3>6, <3>7, <3>8
  <2>20. ASSUME NEW w \in Workers, EndBeginDisconnect(w) PROVE SlotInv'
    <3> USE <2>20 DEF EndBeginDisconnect, IORegistered, StillPending, GotoWorker, recvVars,
       bufVars, taskVars, ioVars
    <3>f0. \A k \in SessionIds : life = "DISCONNECT_PENDING" /\ pending = 0 => notices'[k] = IF k = sid THEN notices[k] + 1 ELSE notices[k]
      BY DEF TypeOK, HolderState
    <3>f1. life = "DISCONNECT_PENDING" => \A v \in Workers : wpc[v] \notin {"finalize", "free"}
      BY DEF HolderState
    <3>f2. sid \in used
      BY DEF HolderState, KeysHandedOut
    <3>1. TypeOK'
      <4>1. life' \in LifeState /\ wpc' \in [Workers -> WorkerPoint]
        BY DEF TypeOK, LifeState, WorkerPoint
      <4>2. notices' \in [SessionIds -> Nat]
        <5>1. CASE ~IORegistered /\ StillPending
          <6>1. notices \in [SessionIds -> Nat] /\ wkey[w] \in SessionIds
            BY <3>f2 DEF TypeOK, HolderState
          <6>2. notices' = [notices EXCEPT ![wkey[w]] = @ + 1]
            BY <5>1
          <6>3. QED BY <6>1, <6>2
        <5>2. CASE ~(~IORegistered /\ StillPending)
          BY <5>2 DEF TypeOK
        <5>3. QED BY <5>1, <5>2
      <4>3. QED BY <4>1, <4>2 DEF TypeOK
    <3>2. KeysHandedOut'
      <4>1. CASE ~IORegistered /\ StillPending
        BY <3>f0, <3>f1, <3>f2, <4>1 DEF KeysHandedOut, TypeOK
      <4>2. CASE ~(~IORegistered /\ StillPending)
        BY <3>f0, <3>f1, <3>f2, <4>2 DEF KeysHandedOut, TypeOK
      <4>3. QED BY <4>1, <4>2
    <3>3. AcceptAlone'
      <4>1. CASE ~IORegistered /\ StillPending
        BY <3>f0, <3>f1, <3>f2, <4>1 DEF AcceptAlone, TypeOK
      <4>2. CASE ~(~IORegistered /\ StillPending)
        BY <3>f0, <3>f1, <3>f2, <4>2 DEF AcceptAlone, TypeOK
      <4>3. QED BY <4>1, <4>2
    <3>4. SingleConsumer'
      <4>1. CASE ~IORegistered /\ StillPending
        BY <3>f0, <3>f1, <3>f2, <4>1 DEF SingleConsumer, TypeOK, Holders
      <4>2. CASE ~(~IORegistered /\ StillPending)
        BY <3>f0, <3>f1, <3>f2, <4>2 DEF SingleConsumer, TypeOK, Holders
      <4>3. QED BY <4>1, <4>2
    <3>5. HolderState'
      <4>1. CASE ~IORegistered /\ StillPending
        BY <3>f0, <3>f1, <3>f2, <4>1 DEF HolderState, TypeOK
      <4>2. CASE ~(~IORegistered /\ StillPending)
        BY <3>f0, <3>f1, <3>f2, <4>2 DEF HolderState, TypeOK
      <4>3. QED BY <4>1, <4>2
    <3>6. TasksAccounted'
      <4>1. CASE ~IORegistered /\ StillPending
        BY <3>f0, <3>f1, <3>f2, <4>1 DEF TasksAccounted, TypeOK, Holders
      <4>2. CASE ~(~IORegistered /\ StillPending)
        BY <3>f0, <3>f1, <3>f2, <4>2 DEF TasksAccounted, TypeOK, Holders
      <4>3. QED BY <4>1, <4>2
    <3>7. TasksOfConnection'
      <4>1. CASE ~IORegistered /\ StillPending
        BY <3>f0, <3>f1, <3>f2, <4>1 DEF TasksOfConnection, TypeOK
      <4>2. CASE ~(~IORegistered /\ StillPending)
        BY <3>f0, <3>f1, <3>f2, <4>2 DEF TasksOfConnection, TypeOK
      <4>3. QED BY <4>1, <4>2
    <3>8. NoticesSound'
      <4>1. CASE ~IORegistered /\ StillPending
        BY <3>f0, <3>f1, <3>f2, <4>1 DEF NoticesSound, TypeOK
      <4>2. CASE ~(~IORegistered /\ StillPending)
        BY <3>f0, <3>f1, <3>f2, <4>2 DEF NoticesSound, TypeOK
      <4>3. QED BY <4>1, <4>2
    <3>9. QED BY <3>1, <3>2, <3>3, <3>4, <3>5, <3>6, <3>7, <3>8
  <2>21. ASSUME NEW w \in Workers, DiscardRemaining(w) PROVE SlotInv'
    <3> USE <2>21 DEF DiscardRemaining, Leave, slotVars, recvVars, bufVars, ioVars
    <3>f0. tasks' = <<>>
      BY DiscardEffect DEF Holders, TypeOK, TasksAccounted
    <3>f1. Holders' = {}
      BY DEF Holders, SingleConsumer, TypeOK
    <3>1. TypeOK'
      <4>1. tasks' \in Seq(Task)
        BY <3>f0, <3>f1 DEF TypeOK, WorkerPoint, Ids
      <4>2. taskCount' \in Nat
        BY <3>f0, <3>f1 DEF TypeOK, WorkerPoint, Ids
      <4>3. right' \in BOOLEAN
        BY <3>f0, <3>f1 DEF TypeOK, WorkerPoint, Ids
      <4>4. wpc' \in [Workers -> WorkerPoint]
        BY <3>f0, <3>f1 DEF TypeOK, WorkerPoint, Ids
      <4>5. wkey' \in [Workers -> Ids]
        BY <3>f0, <3>f1 DEF TypeOK, WorkerPoint, Ids
      <4>6. wbuf' \in [Workers -> Buffers \cup {NoBuf}]
        BY <3>f0, <3>f1 DEF TypeOK, WorkerPoint, Ids
      <4>7. wleft' \in [Workers -> Nat]
        BY <3>f0, <3>f1 DEF TypeOK, WorkerPoint, Ids
      <4>8. QED BY <4>1, <4>2, <4>3, <4>4, <4>5, <4>6, <4>7 DEF TypeOK
    <3>2. SingleConsumer'
      BY <3>f0, <3>f1 DEF SingleConsumer, TypeOK, Holders
    <3>3. HolderState'
      BY <3>f0, <3>f1 DEF HolderState, TypeOK
    <3>4. TasksAccounted'
      BY <3>f0, <3>f1 DEF TasksAccounted, TypeOK, Holders
    <3>5. TasksOfConnection'
      BY <3>f0, <3>f1 DEF TasksOfConnection, TypeOK
    <3>6. NoticesSound'
      BY <3>f0, <3>f1 DEF NoticesSound, TypeOK
    <3>7. KeysHandedOut' /\ AcceptAlone'
      BY DEF KeysHandedOut, AcceptAlone
    <3>8. QED BY <3>1, <3>2, <3>3, <3>4, <3>5, <3>6, <3>7
  <2>22. ASSUME NEW w \in Workers, CompleteTaskProcessing(w) PROVE SlotInv'
    <3> USE <2>22 DEF CompleteTaskProcessing, Leave, slotVars, recvVars, bufVars, ioVars
    <3>1. TypeOK'
      BY DEF TypeOK, WorkerPoint, Ids
    <3>2. SingleConsumer'
      BY DEF SingleConsumer, TypeOK, Holders
    <3>3. HolderState'
      BY DEF HolderState, TypeOK
    <3>4. TasksAccounted'
      BY DEF TasksAccounted, TypeOK, Holders
    <3>5. NoticesSound'
      BY DEF NoticesSound, TypeOK
    <3>6. KeysHandedOut' /\ AcceptAlone' /\ TasksOfConnection'
      BY DEF KeysHandedOut, AcceptAlone, TasksOfConnection
    <3>7. QED BY <3>1, <3>2, <3>3, <3>4, <3>5, <3>6
  <2>23. ASSUME NEW w \in Workers, DiscardTasks(w) PROVE SlotInv'
    <3> USE <2>23 DEF DiscardTasks, GotoWorker, slotVars, recvVars, bufVars, ioVars
    <3>f0. tasks' = <<>>
      BY DiscardEffect DEF Holders, TypeOK, TasksAccounted, HolderState
    <3>f1. Holders = {w} /\ Holders' = {}
      BY DEF Holders, SingleConsumer, TypeOK
    <3>1. TypeOK'
      <4>1. tasks' \in Seq(Task)
        BY <3>f0, <3>f1 DEF TypeOK, WorkerPoint
      <4>2. taskCount' \in Nat
        BY <3>f0, <3>f1 DEF TypeOK, WorkerPoint
      <4>3. right' \in BOOLEAN
        BY <3>f0, <3>f1 DEF TypeOK, WorkerPoint
      <4>4. wpc' \in [Workers -> WorkerPoint]
        BY <3>f0, <3>f1 DEF TypeOK, WorkerPoint
      <4>5. QED BY <4>1, <4>2, <4>3, <4>4 DEF TypeOK
    <3>2. SingleConsumer'
      BY <3>f0, <3>f1 DEF SingleConsumer, TypeOK, Holders
    <3>3. HolderState'
      BY <3>f0, <3>f1 DEF HolderState, TypeOK
    <3>4. TasksAccounted'
      BY <3>f0, <3>f1 DEF TasksAccounted, TypeOK, Holders
    <3>5. TasksOfConnection'
      BY <3>f0, <3>f1 DEF TasksOfConnection, TypeOK
    <3>6. NoticesSound'
      BY <3>f0, <3>f1 DEF NoticesSound, TypeOK
    <3>7. KeysHandedOut' /\ AcceptAlone'
      BY DEF KeysHandedOut, AcceptAlone
    <3>8. QED BY <3>1, <3>2, <3>3, <3>4, <3>5, <3>6, <3>7
  <2>24. ASSUME NEW w \in Workers, FreeSlot(w) PROVE SlotInv'
    <3> USE <2>24 DEF FreeSlot, Leave, bufVars, taskVars, ioVars
    <3>f0. life = "DISCONNECTING" /\ sid = wkey[w] /\ tasks = <<>> /\ ~right
      BY DEF HolderState
    <3>f1. \A v \in Workers : v # w => wpc[v] \in {"idle", "send"}
      BY <3>f0 DEF SingleConsumer, Holders, NoticesSound, TypeOK, WorkerPoint, KeysHandedOut, Ids
    <3>1. TypeOK'
      BY <3>f0, <3>f1 DEF TypeOK, LifeState, WorkerPoint, Ids
    <3>2. KeysHandedOut'
      BY <3>f0, <3>f1 DEF KeysHandedOut, TypeOK
    <3>3. AcceptAlone'
      BY <3>f0, <3>f1 DEF AcceptAlone, TypeOK
    <3>4. SingleConsumer'
      BY <3>f0, <3>f1 DEF SingleConsumer, TypeOK, Holders
    <3>5. HolderState'
      BY <3>f0, <3>f1 DEF HolderState, TypeOK
    <3>6. TasksAccounted'
      BY <3>f0, <3>f1 DEF TasksAccounted, TypeOK, Holders
    <3>7. TasksOfConnection'
      BY <3>f0, <3>f1 DEF TasksOfConnection, TypeOK
    <3>8. NoticesSound'
      BY <3>f0, <3>f1 DEF NoticesSound, TypeOK
    <3>9. QED BY <3>1, <3>2, <3>3, <3>4, <3>5, <3>6, <3>7, <3>8
  <2>25. ASSUME NEW w \in Workers, NEW b \in Buffers, TakeBuffer(w, b) PROVE SlotInv'
    <3> USE <2>25 DEF TakeBuffer, BufferAvailable, slotVars, recvVars, taskVars, ioVars
    <3>1. TypeOK'
      BY DEF TypeOK, WorkerPoint, Ids
    <3>2. KeysHandedOut'
      BY DEF KeysHandedOut, TypeOK
    <3>3. SingleConsumer'
      BY DEF SingleConsumer, TypeOK, Holders
    <3>4. HolderState'
      BY DEF HolderState, TypeOK
    <3>5. TasksAccounted'
      BY DEF TasksAccounted, TypeOK, Holders
    <3>6. NoticesSound'
      BY DEF NoticesSound, TypeOK
    <3>7. AcceptAlone' /\ TasksOfConnection'
      BY DEF AcceptAlone, TasksOfConnection
    <3>8. QED BY <3>1, <3>2, <3>3, <3>4, <3>5, <3>6, <3>7
  <2>26. ASSUME NEW w \in Workers, NEW k \in SessionIds, FinalizeDisconnect(w, k) PROVE SlotInv'
    <3> USE <2>26 DEF FinalizeDisconnect, MatchesSessionKey, RightFree, slotVars, recvVars,
       bufVars, ioVars, wkVars
    <3>f0. \A j \in SessionIds : notices'[j] = IF j = k THEN notices[j] - 1 ELSE notices[j]
      BY DEF TypeOK
    <3>f1. sid = k => \A v \in Workers : wpc[v] \notin {"finalize", "free"}
      BY DEF NoticesSound
    <3>f2. MatchesSessionKey(k) /\ life = "DISCONNECTING" => Holders = {} /\ Holders' = {w}
      BY DEF Holders, SingleConsumer, TypeOK
    <3>1. TypeOK'
      <4>1. notices' \in [SessionIds -> Nat]
        BY <3>f0, <3>f1, <3>f2 DEF TypeOK, WorkerPoint, Ids
      <4>2. right' \in BOOLEAN
        BY <3>f0, <3>f1, <3>f2 DEF TypeOK, WorkerPoint, Ids
      <4>3. wpc' \in [Workers -> WorkerPoint]
        BY <3>f0, <3>f1, <3>f2 DEF TypeOK, WorkerPoint, Ids
      <4>4. wkey' \in [Workers -> Ids]
        BY <3>f0, <3>f1, <3>f2 DEF TypeOK, WorkerPoint, Ids
      <4>5. wbuf' = wbuf /\ wleft' = wleft
        BY <3>f0, <3>f1, <3>f2 DEF TypeOK, WorkerPoint, Ids
      <4>6. QED BY <4>1, <4>2, <4>3, <4>4, <4>5 DEF TypeOK
    <3>2. KeysHandedOut'
      <4>1. CASE MatchesSessionKey(k) /\ life = "DISCONNECTING"
        BY <3>f0, <3>f1, <3>f2, <4>1 DEF KeysHandedOut, TypeOK
      <4>2. CASE ~(MatchesSessionKey(k) /\ life = "DISCONNECTING")
        BY <3>f0, <3>f1, <3>f2, <4>2 DEF KeysHandedOut, TypeOK
      <4>3. QED BY <4>1, <4>2
    <3>3. SingleConsumer'
      <4>1. CASE MatchesSessionKey(k) /\ life = "DISCONNECTING"
        BY <3>f0, <3>f1, <3>f2, <4>1 DEF SingleConsumer, TypeOK, Holders
      <4>2. CASE ~(MatchesSessionKey(k) /\ life = "DISCONNECTING")
        BY <3>f0, <3>f1, <3>f2, <4>2 DEF SingleConsumer, TypeOK, Holders
      <4>3. QED BY <4>1, <4>2
    <3>4. HolderState'
      <4>1. CASE MatchesSessionKey(k) /\ life = "DISCONNECTING"
        BY <3>f0, <3>f1, <3>f2, <4>1 DEF HolderState, TypeOK
      <4>2. CASE ~(MatchesSessionKey(k) /\ life = "DISCONNECTING")
        BY <3>f0, <3>f1, <3>f2, <4>2 DEF HolderState, TypeOK
      <4>3. QED BY <4>1, <4>2
    <3>5. TasksAccounted'
      <4>1. CASE MatchesSessionKey(k) /\ life = "DISCONNECTING"
        <5>1. Holders = {} /\ Holders' = {w}
          BY <3>f2, <4>1
        <5>2. Len(tasks) = taskCount /\ taskCount \in Nat
          BY <5>1 DEF TasksAccounted, TypeOK
        <5>3. wleft[w] = 0
          BY DEF HolderState
        <5>4. QED BY <4>1, <5>1, <5>2, <5>3 DEF TasksAccounted
      <4>2. CASE ~(MatchesSessionKey(k) /\ life = "DISCONNECTING")
        BY <4>2 DEF TasksAccounted, Holders
      <4>3. QED BY <4>1, <4>2
    <3>6. NoticesSound'
      <4>1. CASE MatchesSessionKey(k) /\ life = "DISCONNECTING"
        BY <3>f0, <3>f1, <3>f2, <4>1 DEF NoticesSound, TypeOK
      <4>2. CASE ~(MatchesSessionKey(k) /\ life = "DISCONNECTING")
        BY <3>f0, <3>f1, <3>f2, <4>2 DEF NoticesSound, TypeOK
      <4>3. QED BY <4>1, <4>2
    <3>7. AcceptAlone' /\ TasksOfConnection'
      BY DEF AcceptAlone, TasksOfConnection
    <3>8. QED BY <3>1, <3>2, <3>3, <3>4, <3>5, <3>6, <3>7
  <2>27. CASE UNCHANGED vars
    BY <2>27 DEF vars, slotVars, recvVars, bufVars, taskVars, ioVars, wkVars, Holders, TypeOK,
                KeysHandedOut, AcceptAlone, SingleConsumer, HolderState, TasksAccounted, TasksOfConnection, NoticesSound
  <2>28. QED BY <2>1, <2>2, <2>3, <2>4, <2>5, <2>6, <2>7, <2>8, <2>9, <2>10, <2>11, <2>12, <2>13,
     <2>14, <2>15, <2>16, <2>17, <2>18, <2>19, <2>20, <2>21, <2>22, <2>23, <2>24, <2>25, <2>26,
     <2>27 DEF Next, IONext, IOStep, WorkerNext, WorkerStep
<1>3. QED BY <1>1, <1>2, PTL DEF Spec

\* The variables of the slot keep their types, whatever the number of threads and buffers.
THEOREM TypeCorrect == Spec => []TypeOK
BY SlotInvariant, PTL DEF SlotInv

\* is_processing_tasks_ admits one worker at a time to the session.
THEOREM OneConsumer == Spec => []SingleConsumer
BY SlotInvariant, PTL DEF SlotInv

\* task_count_ and the claim of the worker account for every queued task.
THEOREM TaskCountExact == Spec => []TasksAccounted
BY SlotInvariant, PTL DEF SlotInv

\* A task of one connection is never in the queue of another, even when the compare-exchange
\* of CompleteIO misfires.
THEOREM NoForeignTask == Spec => []TasksOfConnection
BY SlotInvariant, PTL DEF SlotInv

-----------------------------------------------------------------------------
(* The accounting of I/O and the single finalization. *)

\* misfire is a history variable: no step forgets a misfire of CompleteIO.
LEMMA MisfireKept ==
  ASSUME [Next]_vars, ~misfire'
  PROVE  ~misfire
BY DEF Next, IONext, IOStep, WorkerNext, WorkerStep, BeginAccept, InitSession, FirstRecv,
   DequeueRecv,
   ProcessSessionCompletion, RejectReceive, EnqueuePacket, EndRecvBuffer, Rearm, DequeueSend,
   ProcessSendCompletion, ReleaseBuffer, CompleteIO, DecrementPending, ExchangeDisconnecting,
   TakeBuffer, SendPacket, StartTaskProcessing, ProcessPacketTask, BeginDisconnect,
   EndBeginDisconnect, DiscardRemaining, CompleteTaskProcessing, FinalizeDisconnect, DiscardTasks,
   FreeSlot, vars

-----------------------------------------------------------------------------
\* Every step keeps the send buffers exclusive: TrySetInUse is the only way to an owner.
LEMMA BufferStep ==
  ASSUME SlotInv, BufferExclusive, [Next]_vars
  PROVE  BufferExclusive'
<1> USE DEF SlotInv
<1>1. ASSUME NEW t \in IOThreads, BeginAccept(t) PROVE BufferExclusive'
  BY <1>1 DEF BeginAccept, Goto, recvVars, bufVars, taskVars, wkVars, BufferExclusive, TypeOK
<1>2. ASSUME NEW t \in IOThreads, InitSession(t) PROVE BufferExclusive'
  BY <1>2 DEF InitSession, Goto, bufVars, taskVars, wkVars, BufferExclusive, TypeOK
<1>3. ASSUME NEW t \in IOThreads, FirstRecv(t) PROVE BufferExclusive'
  BY <1>3 DEF FirstRecv, Return, bufVars, taskVars, wkVars, BufferExclusive, TypeOK
<1>4. ASSUME NEW t \in IOThreads, DequeueRecv(t) PROVE BufferExclusive'
  BY <1>4 DEF DequeueRecv, Goto, slotVars, bufVars, taskVars, wkVars, BufferExclusive, TypeOK
<1>5. ASSUME NEW t \in IOThreads, ProcessSessionCompletion(t) PROVE BufferExclusive'
  BY <1>5 DEF ProcessSessionCompletion, Return, slotVars, recvVars, bufVars, taskVars, wkVars,
     BufferExclusive, TypeOK
<1>6. ASSUME NEW t \in IOThreads, RejectReceive(t) PROVE BufferExclusive'
  BY <1>6 DEF RejectReceive, Goto, slotVars, recvVars, bufVars, wkVars, BufferExclusive, TypeOK
<1>7. ASSUME NEW t \in IOThreads, EnqueuePacket(t) PROVE BufferExclusive'
  BY <1>7 DEF EnqueuePacket, Goto, slotVars, recvVars, bufVars, ioVars, wkVars, BufferExclusive,
     TypeOK
<1>8. ASSUME NEW t \in IOThreads, EndRecvBuffer(t) PROVE BufferExclusive'
  BY <1>8 DEF EndRecvBuffer, Goto, slotVars, recvVars, bufVars, taskVars, wkVars, BufferExclusive,
     TypeOK
<1>9. ASSUME NEW t \in IOThreads, Rearm(t) PROVE BufferExclusive'
  BY <1>9 DEF Rearm, Goto, bufVars, taskVars, wkVars, BufferExclusive, TypeOK
<1>10. ASSUME NEW t \in IOThreads, ProcessSendCompletion(t) PROVE BufferExclusive'
  BY <1>10 DEF ProcessSendCompletion, Goto, slotVars, recvVars, bufVars, wkVars, BufferExclusive,
     TypeOK
<1>11. ASSUME NEW t \in IOThreads, ReleaseBuffer(t) PROVE BufferExclusive'
  BY <1>11 DEF ReleaseBuffer, slotVars, recvVars, taskVars, wkVars, BufferExclusive, TypeOK
<1>12. ASSUME NEW t \in IOThreads, CompleteIO(t) PROVE BufferExclusive'
  BY <1>12 DEF CompleteIO, Goto, Return, slotVars, recvVars, bufVars, taskVars, wkVars,
     BufferExclusive, TypeOK
<1>13. ASSUME NEW t \in IOThreads, DecrementPending(t) PROVE BufferExclusive'
  BY <1>13 DEF DecrementPending, Goto, Return, recvVars, bufVars, taskVars, wkVars,
     BufferExclusive, TypeOK
<1>14. ASSUME NEW t \in IOThreads, ExchangeDisconnecting(t) PROVE BufferExclusive'
  BY <1>14 DEF ExchangeDisconnecting, Return, recvVars, bufVars, taskVars, wkVars,
     BufferExclusive, TypeOK
<1>15. ASSUME NEW t \in IOThreads, NEW b \in Buffers, DequeueSend(t, b) PROVE BufferExclusive'
  BY <1>15 DEF DequeueSend, slotVars, recvVars, taskVars, wkVars, BufferExclusive, TypeOK
<1>16. ASSUME NEW w \in Workers, SendPacket(w) PROVE BufferExclusive'
  <2>1. CASE life = "ACTIVE"
    <3>1. /\ wpc[w] = "send" /\ UNCHANGED <<bufState, ioVars>>
          /\ bufIO' = [bufIO EXCEPT ![wbuf[w]] = TRUE]
          /\ wpc' = [wpc EXCEPT ![w] = "idle"]
          /\ wbuf' = [wbuf EXCEPT ![w] = NoBuf]
      BY <1>16, <2>1 DEF SendPacket, Leave
    <3>2. QED BY <3>1 DEF ioVars, BufferExclusive, TypeOK
  <2>2. CASE life # "ACTIVE"
    <3>1. /\ wpc[w] = "send" /\ UNCHANGED <<bufIO, ioVars>>
          /\ bufState' = [bufState EXCEPT ![wbuf[w]] = "AVAILABLE"]
          /\ wpc' = [wpc EXCEPT ![w] = "idle"]
          /\ wbuf' = [wbuf EXCEPT ![w] = NoBuf]
      BY <1>16, <2>2 DEF SendPacket, Leave
    <3>2. QED BY <3>1 DEF ioVars, BufferExclusive, TypeOK
  <2>3. QED BY <2>1, <2>2
<1>17. ASSUME NEW w \in Workers, StartTaskProcessing(w) PROVE BufferExclusive'
  BY <1>17 DEF StartTaskProcessing, slotVars, recvVars, bufVars, ioVars, BufferExclusive, TypeOK
<1>18. ASSUME NEW w \in Workers, ProcessPacketTask(w) PROVE BufferExclusive'
  BY <1>18 DEF ProcessPacketTask, slotVars, recvVars, bufVars, ioVars, BufferExclusive, TypeOK
<1>19. ASSUME NEW w \in Workers, BeginDisconnect(w) PROVE BufferExclusive'
  <2>1. \A v \in Workers : wpc'[v] = "send" => wpc[v] = "send"
    BY <1>19 DEF BeginDisconnect, TypeOK
  <2>2. UNCHANGED <<bufVars, ioVars, wbuf>>
    BY <1>19 DEF BeginDisconnect
  <2>3. QED BY <2>1, <2>2 DEF bufVars, ioVars, BufferExclusive
<1>20. ASSUME NEW w \in Workers, EndBeginDisconnect(w) PROVE BufferExclusive'
  BY <1>20 DEF EndBeginDisconnect, GotoWorker, recvVars, bufVars, taskVars, ioVars,
     BufferExclusive, TypeOK
<1>21. ASSUME NEW w \in Workers, DiscardRemaining(w) PROVE BufferExclusive'
  BY <1>21 DEF DiscardRemaining, Leave, slotVars, recvVars, bufVars, ioVars, BufferExclusive, TypeOK
<1>22. ASSUME NEW w \in Workers, CompleteTaskProcessing(w) PROVE BufferExclusive'
  BY <1>22 DEF CompleteTaskProcessing, Leave, slotVars, recvVars, bufVars, ioVars,
     BufferExclusive, TypeOK
<1>23. ASSUME NEW w \in Workers, DiscardTasks(w) PROVE BufferExclusive'
  BY <1>23 DEF DiscardTasks, GotoWorker, slotVars, recvVars, bufVars, ioVars, BufferExclusive,
     TypeOK
<1>24. ASSUME NEW w \in Workers, FreeSlot(w) PROVE BufferExclusive'
  BY <1>24 DEF FreeSlot, Leave, bufVars, taskVars, ioVars, BufferExclusive, TypeOK
<1>25. ASSUME NEW w \in Workers, NEW b \in Buffers, TakeBuffer(w, b) PROVE BufferExclusive'
  BY <1>25 DEF TakeBuffer, BufferAvailable, slotVars, recvVars, taskVars, ioVars, BufferExclusive,
     TypeOK
<1>26. ASSUME NEW w \in Workers, NEW k \in SessionIds, FinalizeDisconnect(w, k) PROVE BufferExclusive'
  BY <1>26 DEF FinalizeDisconnect, slotVars, recvVars, bufVars, ioVars, wkVars, BufferExclusive,
     TypeOK
<1>27. CASE UNCHANGED vars
  BY <1>27 DEF vars, bufVars, ioVars, wkVars, BufferExclusive
<1>28. QED BY <1>1, <1>2, <1>3, <1>4, <1>5, <1>6, <1>7, <1>8, <1>9, <1>10, <1>11, <1>12, <1>13,
   <1>14, <1>15, <1>16, <1>17, <1>18, <1>19, <1>20, <1>21, <1>22, <1>23, <1>24, <1>25, <1>26,
   <1>27 DEF Next, IONext, IOStep, WorkerNext, WorkerStep

-----------------------------------------------------------------------------
(* Until a misfire, the I/O accounting is exact.  The parts need each other: the count
   being exact gives that nothing is registered when it is seen at zero, which keeps a
   reused slot free of old requests, which keeps the count exact when InitSession
   resets it. *)
IOInv ==
    /\ ReuseAfterIO
    /\ PendingExact
    /\ RecvExclusive
    /\ IOSettled

\* The slot is occupied.
Live == life \notin {"NONE", "INITIALIZING"}

\* The sets that io_pending_count_ counts are finite.
LEMMA FiniteIO ==
  ASSUME TypeOK
  PROVE  /\ IsFiniteSet(Handlers) /\ Cardinality(Handlers) \in Nat
         /\ IsFiniteSet(SendsOut) /\ Cardinality(SendsOut) \in Nat
<1>1. Handlers \subseteq IOThreads /\ SendsOut \subseteq Buffers
  BY DEF Handlers, SendsOut
<1>2. IsFiniteSet(Handlers) /\ IsFiniteSet(SendsOut)
  BY <1>1, FS_Subset, ThreadsAssumption, BuffersAssumption
<1>3. QED BY <1>2, FS_CardinalityType

\* A count of zero means that nothing is registered, queued or handled.
LEMMA NothingCounted ==
  ASSUME TypeOK, IOInv, ~misfire, Live, pending = 0
  PROVE  recvOut = 0 /\ SendsOut = {} /\ Handlers = {}
<1>1. pending = recvOut + Cardinality(SendsOut) + Cardinality(Handlers)
  BY DEF IOInv, PendingExact, Live
<1>2. recvOut = 0 /\ Cardinality(SendsOut) = 0 /\ Cardinality(Handlers) = 0
  BY <1>1, FiniteIO DEF TypeOK
<1>3. QED BY <1>2, FiniteIO, FS_EmptySet

\* A thread that handles a request is counted, so the connection it works for is still in the
\* slot: FindSession in the handlers of IOThread.cpp never fails before a misfire.
LEMMA HandlerFacts ==
  ASSUME TypeOK, IOInv, ~misfire, NEW t \in Handlers
  PROVE  /\ Live /\ pending > 0
         /\ iopc[t] # "recv" => iokey[t] = sid
<1>1. Live
  BY DEF IOInv, ReuseAfterIO, NoReuseWithPendingIO, NoPendingIO, Live
<1>2. Cardinality(Handlers) # 0
  BY FiniteIO, FS_EmptySet
<1>3. pending > 0
  BY <1>1, <1>2, FiniteIO DEF IOInv, PendingExact, Live, TypeOK
<1>4. QED BY <1>1, <1>3 DEF IOInv, PendingExact, Live

\* A step that keeps the requests and their handlers keeps the accounting.
LEMMA IOStepKept ==
  ASSUME TypeOK, IOInv, ~misfire,
         UNCHANGED <<recvOut, recvKey, pending, sid>>, Handlers' = Handlers, SendsOut' = SendsOut,
         \A b \in SendsOut : bufKey'[b] = bufKey[b],
         \A t \in Handlers : iopc'[t] # "recv" => iokey'[t] = sid,
         RecvHandlers' \subseteq RecvHandlers,
         \A t \in IOThreads : iopc'[t] = "recv" => iopc[t] = "recv",
         (\E t \in IOThreads : iopc'[t] = "accepted") => (\E t \in IOThreads : iopc[t] = "accepted"),
         (life' \in {"NONE", "INITIALIZING"}) = (life \in {"NONE", "INITIALIZING"}),
         life' = "DISCONNECTING" => pending = 0
  PROVE  IOInv'
<1>1. ReuseAfterIO'
  BY DEF IOInv, ReuseAfterIO, NoReuseWithPendingIO, NoPendingIO
<1>2. PendingExact'
  BY DEF IOInv, PendingExact
<1>3. RecvExclusive'
  BY DEF IOInv, RecvExclusive
<1>4. IOSettled'
  BY DEF IOInv, IOSettled
<1>5. QED BY <1>1, <1>2, <1>3, <1>4 DEF IOInv

\* The points of Handlers and of RecvHandlers.
HandlerPoint == {"recv", "recvBuffer", "rearm", "send", "release", "complete", "decrement"}
RecvPoint == {"recv", "recvBuffer", "rearm"}
Vacant(state) == state \in {"NONE", "INITIALIZING"}

\* Thread t goes from one point of a handler to another, and nothing is registered or ends.
ThreadMoves(t, p, q) ==
    /\ UNCHANGED <<recvOut, recvKey, pending, sid, bufIO, bufKey>>
    /\ iopc' = [iopc EXCEPT ![t] = p]
    /\ iokey' = [iokey EXCEPT ![t] = q]
    /\ p \in HandlerPoint <=> iopc[t] \in HandlerPoint
    /\ p \in HandlerPoint => q = sid
    /\ p \in RecvPoint => iopc[t] \in RecvPoint
    /\ p \notin {"recv", "accepted"}
    /\ Vacant(life') <=> Vacant(life)
    /\ life' = "DISCONNECTING" => pending = 0

\* Such a move keeps the accounting.
LEMMA ThreadKept ==
  ASSUME TypeOK, IOInv, ~misfire, NEW t \in IOThreads, NEW p, NEW q, ThreadMoves(t, p, q)
  PROVE  IOInv'
<1> USE DEF ThreadMoves
<1>1. Handlers' = Handlers
  BY DEF Handlers, HandlerPoint, TypeOK
<1>2. SendsOut' = SendsOut /\ \A b \in SendsOut : bufKey'[b] = bufKey[b]
  BY DEF SendsOut
<1>3. RecvHandlers' \subseteq RecvHandlers
  BY DEF RecvHandlers, RecvPoint, TypeOK
<1>4. /\ \A u \in IOThreads : iopc'[u] = "recv" => iopc[u] = "recv"
      /\ (\E u \in IOThreads : iopc'[u] = "accepted") => (\E u \in IOThreads : iopc[u] = "accepted")
  BY DEF TypeOK
<1>5. ASSUME NEW u \in Handlers, iopc'[u] # "recv" PROVE iokey'[u] = sid
  <2>1. CASE u = t
    BY <1>1, <1>5, <2>1 DEF Handlers, HandlerPoint, TypeOK
  <2>2. CASE u # t
    <3>1. u \in IOThreads /\ iopc'[u] = iopc[u] /\ iokey'[u] = iokey[u]
      BY <2>2 DEF TypeOK, Handlers
    <3>2. QED BY <1>5, <3>1, HandlerFacts
  <2>3. QED BY <2>1, <2>2
<1>6. (life' \in {"NONE", "INITIALIZING"}) = (life \in {"NONE", "INITIALIZING"})
  BY DEF Vacant
<1>7. QED BY <1>1, <1>2, <1>3, <1>4, <1>5, <1>6, IOStepKept

\* So does a step of a worker that registers nothing and does not free the slot.
LEMMA WorkerKept ==
  ASSUME TypeOK, IOInv, ~misfire,
         UNCHANGED <<recvOut, recvKey, pending, sid, bufIO, ioVars>>,
         \A b \in SendsOut : bufKey'[b] = bufKey[b],
         Vacant(life') <=> Vacant(life),
         life' = "DISCONNECTING" => pending = 0
  PROVE  IOInv'
<1>1. Handlers' = Handlers /\ RecvHandlers' = RecvHandlers /\ SendsOut' = SendsOut
  BY DEF Handlers, RecvHandlers, SendsOut, ioVars
<1>2. \A t \in Handlers : iopc'[t] # "recv" => iokey'[t] = sid
  BY HandlerFacts DEF ioVars
<1>3. (life' \in {"NONE", "INITIALIZING"}) = (life \in {"NONE", "INITIALIZING"})
  BY DEF Vacant
<1>4. QED BY <1>1, <1>2, <1>3, IOStepKept DEF ioVars

\* Every step of the I/O threads and of the workers keeps the accounting.
LEMMA IOInvStep ==
  ASSUME SlotInv, BufferExclusive, IOInv, [Next]_vars PROVE IOInv'
<1> SUFFICES ASSUME ~misfire' PROVE IOInv'
  BY DEF IOInv, ReuseAfterIO, PendingExact, RecvExclusive, IOSettled
<1>0. ~misfire
  BY MisfireKept
<1> USE <1>0
<1>t. TypeOK
  BY DEF SlotInv
<1>s. life = "DISCONNECTING" => pending = 0
  BY DEF IOInv, IOSettled
<1>1. ASSUME NEW t \in IOThreads, BeginAccept(t) PROVE IOInv'
  <2>1. /\ UNCHANGED <<recvOut, recvKey, pending, sid, bufIO, bufKey, iokey>>
        /\ iopc' = [iopc EXCEPT ![t] = "init"] /\ iopc[t] = "idle"
        /\ life = "NONE" /\ life' = "INITIALIZING"
    BY <1>1 DEF BeginAccept, Goto, recvVars, bufVars
  <2>2. iokey' = [iokey EXCEPT ![t] = iokey[t]]
    BY <1>t, <2>1 DEF TypeOK
  <2>3. ThreadMoves(t, "init", iokey[t])
    BY <1>t, <2>1, <2>2 DEF ThreadMoves, HandlerPoint, RecvPoint, Vacant
  <2>4. QED BY <1>t, <2>3, ThreadKept
<1>2. ASSUME NEW t \in IOThreads, InitSession(t) PROVE IOInv'
  <2>1. life = "INITIALIZING" /\ recvOut = 0 /\ SendsOut = {} /\ Handlers = {}
    BY <1>2 DEF InitSession, SlotInv, AcceptAlone, IOInv, ReuseAfterIO, NoReuseWithPendingIO,
       NoPendingIO
  <2>2. /\ recvOut' = 0 /\ pending' = 0 /\ life' = "ACTIVE"
        /\ iopc' = [iopc EXCEPT ![t] = "accepted"] /\ bufIO' = bufIO
    BY <1>2, <2>1 DEF InitSession, Goto, bufVars
  <2>3. SendsOut' = {} /\ Handlers' = {} /\ RecvHandlers' = {}
    BY <1>t, <2>1, <2>2 DEF SendsOut, Handlers, RecvHandlers, TypeOK
  <2>4. \A u \in IOThreads : iopc'[u] # "recv"
    BY <2>3 DEF RecvHandlers
  <2>5. Cardinality({}) = 0
    BY FS_EmptySet
  <2>6. QED
    <3>1. ReuseAfterIO' /\ RecvExclusive' /\ IOSettled'
      BY <2>2, <2>3, <2>4 DEF ReuseAfterIO, NoReuseWithPendingIO, RecvExclusive, IOSettled
    <3>2. PendingExact'
      BY <2>2, <2>3, <2>5 DEF PendingExact
    <3>3. QED BY <3>1, <3>2 DEF IOInv
<1>3. ASSUME NEW t \in IOThreads, FirstRecv(t) PROVE IOInv'
  <2>1. /\ iopc[t] = "accepted" /\ UNCHANGED <<life, sid, bufIO, bufKey>>
        /\ iopc' = [iopc EXCEPT ![t] = "idle"] /\ iokey' = [iokey EXCEPT ![t] = NoId]
    BY <1>3 DEF FirstRecv, Return, bufVars
  <2>2. CASE life = "ACTIVE"
    <3>1. recvKey' = sid /\ recvOut' = recvOut + 1 /\ pending' = pending + 1
      BY <1>3, <2>2 DEF FirstRecv, RecvPacket
    <3>2. recvOut = 0 /\ RecvHandlers = {}
      BY <2>1 DEF IOInv, RecvExclusive
    <3>3. SendsOut' = SendsOut /\ Handlers' = Handlers /\ RecvHandlers' = {}
      BY <1>t, <2>1, <3>2 DEF SendsOut, Handlers, RecvHandlers, TypeOK
    <3>4. \A u \in IOThreads : iopc'[u] # "accepted"
      BY <1>t, <2>1 DEF SlotInv, AcceptAlone, TypeOK
    <3>5. \A u \in Handlers : iopc'[u] # "recv" => iokey'[u] = sid
      BY <1>t, <2>1, HandlerFacts DEF Handlers, TypeOK
    <3>6. pending = recvOut + Cardinality(SendsOut) + Cardinality(Handlers)
      BY <2>2 DEF IOInv, PendingExact
    <3>7. PendingExact'
      <4>1. \A b \in SendsOut : bufKey[b] = sid
        BY <2>2 DEF IOInv, PendingExact
      <4>2. pending' = recvOut' + Cardinality(SendsOut') + Cardinality(Handlers')
        BY <1>t, <3>1, <3>3, <3>6, FiniteIO DEF TypeOK
      <4>3. QED BY <2>1, <2>2, <3>1, <3>3, <3>5, <4>1, <4>2 DEF PendingExact
    <3>8. RecvExclusive'
      BY <3>1, <3>2, <3>3, <3>4 DEF RecvExclusive
    <3>9. ReuseAfterIO' /\ IOSettled'
      BY <2>1, <2>2, <3>1, <3>3 DEF ReuseAfterIO, NoReuseWithPendingIO, IOSettled, RecvHandlers
    <3>10. QED BY <3>7, <3>8, <3>9 DEF IOInv
  <2>3. CASE life # "ACTIVE"
    <3>1. UNCHANGED <<recvOut, recvKey, pending>>
      BY <1>3, <2>3 DEF FirstRecv, RecvPacket
    <3>2. ThreadMoves(t, "idle", NoId)
      BY <1>t, <1>s, <2>1, <3>1 DEF ThreadMoves, HandlerPoint, RecvPoint, Vacant
    <3>3. QED BY <1>t, <3>2, ThreadKept
  <2>4. QED BY <2>2, <2>3
<1>4. ASSUME NEW t \in IOThreads, DequeueRecv(t) PROVE IOInv'
  <2>1. /\ iopc[t] = "idle" /\ recvOut > 0 /\ recvOut' = recvOut - 1
        /\ iopc' = [iopc EXCEPT ![t] = "recv"]
        /\ UNCHANGED <<life, sid, pending, recvKey, bufIO, bufKey, iokey>>
    BY <1>4 DEF DequeueRecv, Goto, slotVars, bufVars
  <2>2. Live
    BY <2>1 DEF Live, IOInv, ReuseAfterIO, NoReuseWithPendingIO, NoPendingIO
  <2>3. recvOut = 1 /\ RecvHandlers = {} /\ \A u \in IOThreads : iopc[u] # "accepted"
    BY <1>t, <2>1 DEF IOInv, RecvExclusive, TypeOK
  <2>4. /\ Handlers' = Handlers \cup {t} /\ t \notin Handlers
        /\ SendsOut' = SendsOut /\ RecvHandlers' = {t}
    BY <1>t, <2>1, <2>3 DEF Handlers, SendsOut, RecvHandlers, TypeOK
  <2>5. Cardinality(Handlers') = Cardinality(Handlers) + 1
    BY <1>t, <2>4, FiniteIO, FS_AddElement
  <2>6. /\ pending = recvOut + Cardinality(SendsOut) + Cardinality(Handlers)
        /\ recvKey = sid /\ \A b \in SendsOut : bufKey[b] = sid
    BY <2>1, <2>2 DEF Live, IOInv, PendingExact
  <2>7. \A u \in Handlers' : iopc'[u] # "recv" => iokey'[u] = sid
    BY <1>t, <2>1, <2>4, HandlerFacts DEF Handlers, TypeOK
  <2>8. PendingExact'
    <3>1. pending' = recvOut' + Cardinality(SendsOut') + Cardinality(Handlers')
      BY <1>t, <2>1, <2>4, <2>5, <2>6, FiniteIO DEF TypeOK
    <3>2. QED BY <2>1, <2>4, <2>6, <2>7, <3>1 DEF PendingExact
  <2>9. RecvExclusive'
    BY <1>t, <2>1, <2>3, <2>4 DEF RecvExclusive, TypeOK
  <2>10. ReuseAfterIO' /\ IOSettled'
    BY <1>s, <2>1, <2>2, <2>6 DEF Live, ReuseAfterIO, NoReuseWithPendingIO, IOSettled
  <2>11. QED BY <2>8, <2>9, <2>10 DEF IOInv
<1>5. ASSUME NEW t \in IOThreads, ProcessSessionCompletion(t) PROVE IOInv'
  <2>1. t \in Handlers /\ recvKey = sid
    BY <1>5 DEF ProcessSessionCompletion, Handlers, IOInv, IOSettled
  <2>2. MatchesSessionKey(recvKey)
    BY <1>t, <2>1, HandlerFacts DEF MatchesSessionKey, Live
  <2>3. /\ iopc[t] = "recv" /\ iopc' = [iopc EXCEPT ![t] = "recvBuffer"]
        /\ iokey' = [iokey EXCEPT ![t] = recvKey]
        /\ UNCHANGED <<life, sid, pending, recvOut, recvKey, bufIO, bufKey>>
    BY <1>5, <2>2 DEF ProcessSessionCompletion, slotVars, recvVars, bufVars
  <2>4. ThreadMoves(t, "recvBuffer", recvKey)
    BY <1>t, <1>s, <2>1, <2>3 DEF ThreadMoves, HandlerPoint, RecvPoint, Vacant
  <2>5. QED BY <1>t, <2>4, ThreadKept
<1>6. ASSUME NEW t \in IOThreads, RejectReceive(t) PROVE IOInv'
  <2>1. /\ iopc[t] = "recvBuffer" /\ iopc' = [iopc EXCEPT ![t] = "complete"]
        /\ UNCHANGED <<life, sid, pending, recvOut, recvKey, bufIO, bufKey, iokey>>
    BY <1>6 DEF RejectReceive, Goto, slotVars, recvVars, bufVars
  <2>2. iokey[t] = sid
    BY <1>t, <2>1, HandlerFacts DEF Handlers
  <2>3. iokey' = [iokey EXCEPT ![t] = sid]
    BY <1>t, <2>1, <2>2 DEF TypeOK
  <2>4. ThreadMoves(t, "complete", sid)
    BY <1>t, <1>s, <2>1, <2>3 DEF ThreadMoves, HandlerPoint, RecvPoint, Vacant
  <2>5. QED BY <1>t, <2>4, ThreadKept
<1>7. ASSUME NEW t \in IOThreads, EnqueuePacket(t) PROVE IOInv'
  <2>1. /\ iopc[t] = "recvBuffer" /\ UNCHANGED <<life, sid, pending, recvOut, recvKey, bufIO, bufKey, iokey>>
        /\ \/ iopc' = iopc
           \/ iopc' = [iopc EXCEPT ![t] = "complete"]
    BY <1>7 DEF EnqueuePacket, Goto, slotVars, recvVars, bufVars, ioVars
  <2>2. PICK p \in {"recvBuffer", "complete"} : iopc' = [iopc EXCEPT ![t] = p]
    BY <1>t, <2>1 DEF TypeOK
  <2>3. iokey[t] = sid
    BY <1>t, <2>1, HandlerFacts DEF Handlers
  <2>4. iokey' = [iokey EXCEPT ![t] = sid]
    BY <1>t, <2>1, <2>3 DEF TypeOK
  <2>5. ThreadMoves(t, p, sid)
    BY <1>t, <1>s, <2>1, <2>2, <2>4 DEF ThreadMoves, HandlerPoint, RecvPoint, Vacant
  <2>6. QED BY <1>t, <2>5, ThreadKept
<1>8. ASSUME NEW t \in IOThreads, EndRecvBuffer(t) PROVE IOInv'
  <2>1. /\ iopc[t] = "recvBuffer" /\ iopc' = [iopc EXCEPT ![t] = "rearm"]
        /\ UNCHANGED <<life, sid, pending, recvOut, recvKey, bufIO, bufKey, iokey>>
    BY <1>8 DEF EndRecvBuffer, Goto, slotVars, recvVars, bufVars
  <2>2. iokey[t] = sid
    BY <1>t, <2>1, HandlerFacts DEF Handlers
  <2>3. iokey' = [iokey EXCEPT ![t] = sid]
    BY <1>t, <2>1, <2>2 DEF TypeOK
  <2>4. ThreadMoves(t, "rearm", sid)
    BY <1>t, <1>s, <2>1, <2>3 DEF ThreadMoves, HandlerPoint, RecvPoint, Vacant
  <2>5. QED BY <1>t, <2>4, ThreadKept
<1>9. ASSUME NEW t \in IOThreads, Rearm(t) PROVE IOInv'
  <2>1. /\ iopc[t] = "rearm" /\ UNCHANGED <<life, sid, bufIO, bufKey, iokey>>
        /\ iopc' = [iopc EXCEPT ![t] = "complete"]
    BY <1>9 DEF Rearm, Goto, bufVars
  <2>2. iokey[t] = sid
    BY <1>t, <2>1, HandlerFacts DEF Handlers
  <2>3. CASE life = "ACTIVE"
    <3>1. recvKey' = sid /\ recvOut' = recvOut + 1 /\ pending' = pending + 1
      BY <1>9, <2>3 DEF Rearm, RecvPacket
    <3>2. t \in RecvHandlers
      BY <2>1 DEF RecvHandlers
    <3>3. /\ recvOut = 0 /\ \A u \in RecvHandlers : u = t
          /\ \A u \in IOThreads : iopc[u] # "accepted"
      BY <1>t, <3>2 DEF IOInv, RecvExclusive, TypeOK
    <3>4. SendsOut' = SendsOut /\ Handlers' = Handlers /\ RecvHandlers' = {}
      BY <1>t, <2>1, <3>3 DEF SendsOut, Handlers, RecvHandlers, TypeOK
    <3>5. \A u \in Handlers : iopc'[u] # "recv" => iokey'[u] = sid
      BY <1>t, <2>1, <2>2, HandlerFacts DEF Handlers, TypeOK
    <3>6. /\ pending = recvOut + Cardinality(SendsOut) + Cardinality(Handlers)
          /\ \A b \in SendsOut : bufKey[b] = sid
      BY <2>3 DEF IOInv, PendingExact
    <3>7. PendingExact'
      <4>1. pending' = recvOut' + Cardinality(SendsOut') + Cardinality(Handlers')
        BY <1>t, <3>1, <3>4, <3>6, FiniteIO DEF TypeOK
      <4>2. QED BY <2>1, <3>1, <3>4, <3>5, <3>6, <4>1 DEF PendingExact
    <3>8. RecvExclusive'
      BY <1>t, <2>1, <3>1, <3>3, <3>4 DEF RecvExclusive, TypeOK
    <3>9. ReuseAfterIO' /\ IOSettled'
      BY <2>1, <2>3, <3>4 DEF ReuseAfterIO, NoReuseWithPendingIO, IOSettled, RecvHandlers
    <3>10. QED BY <3>7, <3>8, <3>9 DEF IOInv
  <2>4. CASE life # "ACTIVE"
    <3>1. UNCHANGED <<recvOut, recvKey, pending>>
      BY <1>9, <2>4 DEF Rearm, RecvPacket
    <3>2. iokey' = [iokey EXCEPT ![t] = sid]
      BY <1>t, <2>1, <2>2 DEF TypeOK
    <3>3. ThreadMoves(t, "complete", sid)
      BY <1>t, <1>s, <2>1, <3>1, <3>2 DEF ThreadMoves, HandlerPoint, RecvPoint, Vacant
    <3>4. QED BY <1>t, <3>3, ThreadKept
  <2>5. QED BY <2>3, <2>4
<1>10. ASSUME NEW t \in IOThreads, ProcessSendCompletion(t) PROVE IOInv'
  <2>1. /\ iopc[t] = "send" /\ iopc' = [iopc EXCEPT ![t] = "release"]
        /\ UNCHANGED <<life, sid, pending, recvOut, recvKey, bufIO, bufKey, iokey>>
    BY <1>10 DEF ProcessSendCompletion, Goto, slotVars, recvVars, bufVars
  <2>2. iokey[t] = sid
    BY <1>t, <2>1, HandlerFacts DEF Handlers
  <2>3. iokey' = [iokey EXCEPT ![t] = sid]
    BY <1>t, <2>1, <2>2 DEF TypeOK
  <2>4. ThreadMoves(t, "release", sid)
    BY <1>t, <1>s, <2>1, <2>3 DEF ThreadMoves, HandlerPoint, RecvPoint, Vacant
  <2>5. QED BY <1>t, <2>4, ThreadKept
<1>11. ASSUME NEW t \in IOThreads, ReleaseBuffer(t) PROVE IOInv'
  <2>1. /\ iopc[t] = "release" /\ iopc' = [iopc EXCEPT ![t] = "complete"]
        /\ UNCHANGED <<life, sid, pending, recvOut, recvKey, bufIO, bufKey, iokey>>
    BY <1>11 DEF ReleaseBuffer, slotVars, recvVars
  <2>2. iokey[t] = sid
    BY <1>t, <2>1, HandlerFacts DEF Handlers
  <2>3. iokey' = [iokey EXCEPT ![t] = sid]
    BY <1>t, <2>1, <2>2 DEF TypeOK
  <2>4. ThreadMoves(t, "complete", sid)
    BY <1>t, <1>s, <2>1, <2>3 DEF ThreadMoves, HandlerPoint, RecvPoint, Vacant
  <2>5. QED BY <1>t, <2>4, ThreadKept
<1>12. ASSUME NEW t \in IOThreads, CompleteIO(t) PROVE IOInv'
  <2>1. iokey[t] = sid /\ Live /\ pending > 0
    BY <1>t, <1>12, HandlerFacts DEF CompleteIO, Handlers
  <2>2. MatchesSessionKey(iokey[t])
    BY <2>1 DEF MatchesSessionKey, Live
  <2>3. /\ iopc[t] = "complete" /\ iopc' = [iopc EXCEPT ![t] = "decrement"]
        /\ UNCHANGED <<life, sid, pending, recvOut, recvKey, bufIO, bufKey, iokey>>
    BY <1>12, <2>1, <2>2 DEF CompleteIO, Goto, slotVars, recvVars, bufVars
  <2>4. iokey' = [iokey EXCEPT ![t] = sid]
    BY <1>t, <2>1, <2>3 DEF TypeOK
  <2>5. ThreadMoves(t, "decrement", sid)
    BY <1>t, <1>s, <2>3, <2>4 DEF ThreadMoves, HandlerPoint, RecvPoint, Vacant
  <2>6. QED BY <1>t, <2>5, ThreadKept
<1>13. ASSUME NEW t \in IOThreads, DecrementPending(t) PROVE IOInv'
  <2>1. t \in Handlers /\ Live /\ pending > 0
    BY <1>t, <1>13, HandlerFacts DEF DecrementPending, Handlers
  <2>2. /\ pending' = pending - 1
        /\ UNCHANGED <<life, sid, recvOut, recvKey, bufIO, bufKey>>
    BY <1>13 DEF DecrementPending, recvVars, bufVars
  <2>3. PICK p \in {"exchange", "idle"} : iopc' = [iopc EXCEPT ![t] = p]
    BY <1>13 DEF DecrementPending, Goto, Return
  <2>4. \A u \in IOThreads : u # t => iopc'[u] = iopc[u] /\ iokey'[u] = iokey[u]
    BY <1>t, <1>13 DEF DecrementPending, Goto, Return, TypeOK
  <2>5. /\ Handlers' = Handlers \ {t} /\ SendsOut' = SendsOut
        /\ RecvHandlers' \subseteq RecvHandlers
        /\ \A u \in IOThreads : iopc'[u] \in {"recv", "accepted"} => iopc[u] = iopc'[u]
    BY <1>t, <2>2, <2>3 DEF Handlers, SendsOut, RecvHandlers, TypeOK
  <2>6. Cardinality(Handlers') = Cardinality(Handlers) - 1
    BY <1>t, <2>1, <2>5, FiniteIO, FS_RemoveElement
  <2>7. /\ pending = recvOut + Cardinality(SendsOut) + Cardinality(Handlers)
        /\ recvOut > 0 => recvKey = sid
        /\ \A b \in SendsOut : bufKey[b] = sid
    BY <2>1 DEF Live, IOInv, PendingExact
  <2>8. PendingExact'
    <3>1. pending' = recvOut' + Cardinality(SendsOut') + Cardinality(Handlers')
      BY <1>t, <2>2, <2>5, <2>6, <2>7, FiniteIO DEF TypeOK
    <3>2. \A u \in Handlers' : iopc'[u] # "recv" => iokey'[u] = sid
      BY <1>t, <2>4, <2>5, HandlerFacts DEF Handlers
    <3>3. QED BY <2>2, <2>5, <2>7, <3>1, <3>2 DEF PendingExact
  <2>9. RecvExclusive'
    BY <2>2, <2>5 DEF IOInv, RecvExclusive
  <2>10. ReuseAfterIO'
    BY <2>1, <2>2 DEF Live, ReuseAfterIO, NoReuseWithPendingIO
  <2>11. IOSettled'
    BY <1>s, <2>1, <2>2, <2>5 DEF IOInv, IOSettled
  <2>12. QED BY <2>8, <2>9, <2>10, <2>11 DEF IOInv
<1>14. ASSUME NEW t \in IOThreads, ExchangeDisconnecting(t) PROVE IOInv'
  <2>1. /\ iopc[t] = "exchange"
        /\ iopc' = [iopc EXCEPT ![t] = "idle"] /\ iokey' = [iokey EXCEPT ![t] = NoId]
        /\ UNCHANGED <<sid, pending, recvOut, recvKey, bufIO, bufKey>>
    BY <1>14 DEF ExchangeDisconnecting, Return, recvVars, bufVars
  <2>2. \/ life = "DISCONNECT_PENDING" /\ life' = "DISCONNECTING" /\ pending = 0
        \/ life' = life
    BY <1>14 DEF ExchangeDisconnecting
  <2>3. ThreadMoves(t, "idle", NoId)
    BY <1>t, <1>s, <2>1, <2>2 DEF ThreadMoves, HandlerPoint, RecvPoint, Vacant
  <2>4. QED BY <1>t, <2>3, ThreadKept
<1>15. ASSUME NEW t \in IOThreads, NEW b \in Buffers, DequeueSend(t, b) PROVE IOInv'
  <2>1. /\ iopc[t] = "idle" /\ bufIO[b] /\ bufIO' = [bufIO EXCEPT ![b] = FALSE]
        /\ iopc' = [iopc EXCEPT ![t] = "send"] /\ iokey' = [iokey EXCEPT ![t] = bufKey[b]]
        /\ UNCHANGED <<life, sid, pending, recvOut, recvKey, bufKey>>
    BY <1>15 DEF DequeueSend, slotVars, recvVars
  <2>2. b \in SendsOut /\ Live
    BY <2>1 DEF SendsOut, Live, IOInv, ReuseAfterIO, NoReuseWithPendingIO, NoPendingIO
  <2>3. SendsOut' = SendsOut \ {b}
    BY <1>t, <2>1 DEF SendsOut, TypeOK
  <2>4. /\ Handlers' = Handlers \cup {t} /\ t \notin Handlers /\ RecvHandlers' = RecvHandlers
        /\ \A u \in IOThreads : iopc'[u] \in {"recv", "accepted"} => iopc[u] = iopc'[u]
    BY <1>t, <2>1 DEF Handlers, RecvHandlers, TypeOK
  <2>5. Cardinality(Handlers') = Cardinality(Handlers) + 1
    BY <1>t, <2>4, FiniteIO, FS_AddElement
  <2>6. Cardinality(SendsOut') = Cardinality(SendsOut) - 1
    BY <1>t, <2>2, <2>3, FiniteIO, FS_RemoveElement
  <2>7. /\ pending = recvOut + Cardinality(SendsOut) + Cardinality(Handlers)
        /\ recvOut > 0 => recvKey = sid
        /\ \A c \in SendsOut : bufKey[c] = sid
    BY <2>2 DEF Live, IOInv, PendingExact
  <2>8. PendingExact'
    <3>1. pending' = recvOut' + Cardinality(SendsOut') + Cardinality(Handlers')
      BY <1>t, <2>1, <2>5, <2>6, <2>7, FiniteIO DEF TypeOK
    <3>2. \A u \in Handlers' : iopc'[u] # "recv" => iokey'[u] = sid
      BY <1>t, <2>1, <2>2, <2>4, <2>7, HandlerFacts DEF Handlers, TypeOK
    <3>3. QED BY <2>1, <2>3, <2>7, <3>1, <3>2 DEF PendingExact
  <2>9. RecvExclusive'
    BY <2>1, <2>4 DEF IOInv, RecvExclusive
  <2>10. ReuseAfterIO'
    BY <2>1, <2>2 DEF Live, ReuseAfterIO, NoReuseWithPendingIO
  <2>11. IOSettled'
    BY <1>s, <2>1, <2>4 DEF IOInv, IOSettled
  <2>12. QED BY <2>8, <2>9, <2>10, <2>11 DEF IOInv
<1>16. ASSUME NEW w \in Workers, SendPacket(w) PROVE IOInv'
  <2>1. wpc[w] = "send" /\ UNCHANGED <<life, sid, recvOut, recvKey, ioVars>>
    BY <1>16 DEF SendPacket, recvVars
  <2>2. CASE life = "ACTIVE"
    <3>1. /\ bufKey' = [bufKey EXCEPT ![wbuf[w]] = sid]
          /\ bufIO' = [bufIO EXCEPT ![wbuf[w]] = TRUE] /\ pending' = pending + 1
      BY <1>16, <2>2 DEF SendPacket
    <3>2. wbuf[w] \in Buffers /\ ~bufIO[wbuf[w]]
      BY <2>1 DEF BufferExclusive
    <3>3. SendsOut' = SendsOut \cup {wbuf[w]} /\ wbuf[w] \notin SendsOut
      BY <1>t, <3>1, <3>2 DEF SendsOut, TypeOK
    <3>4. Cardinality(SendsOut') = Cardinality(SendsOut) + 1
      BY <1>t, <3>3, FiniteIO, FS_AddElement
    <3>5. Handlers' = Handlers /\ RecvHandlers' = RecvHandlers
      BY <2>1 DEF Handlers, RecvHandlers, ioVars
    <3>6. /\ pending = recvOut + Cardinality(SendsOut) + Cardinality(Handlers)
          /\ recvOut > 0 => recvKey = sid
          /\ \A c \in SendsOut : bufKey[c] = sid
          /\ \A u \in Handlers : iopc[u] # "recv" => iokey[u] = sid
      BY <2>2 DEF IOInv, PendingExact
    <3>7. PendingExact'
      <4>1. pending' = recvOut' + Cardinality(SendsOut') + Cardinality(Handlers')
        BY <1>t, <2>1, <3>1, <3>4, <3>5, <3>6, FiniteIO DEF TypeOK
      <4>2. \A c \in SendsOut' : bufKey'[c] = sid
        BY <1>t, <3>1, <3>2, <3>3, <3>6 DEF SendsOut, TypeOK
      <4>3. QED BY <2>1, <3>5, <3>6, <4>1, <4>2 DEF PendingExact, ioVars
    <3>8. RecvExclusive'
      BY <2>1, <3>5 DEF IOInv, RecvExclusive, ioVars
    <3>9. ReuseAfterIO' /\ IOSettled'
      BY <2>1, <2>2 DEF IOInv, ReuseAfterIO, NoReuseWithPendingIO, IOSettled, ioVars
    <3>10. QED BY <3>7, <3>8, <3>9 DEF IOInv
  <2>3. CASE life # "ACTIVE"
    <3>1. UNCHANGED <<bufKey, bufIO, pending>>
      BY <1>16, <2>3 DEF SendPacket
    <3>2. QED BY <1>t, <1>s, <2>1, <3>1, WorkerKept DEF Vacant
  <2>4. QED BY <2>2, <2>3
<1>17. ASSUME NEW w \in Workers, StartTaskProcessing(w) PROVE IOInv'
  <2>1. UNCHANGED <<life, sid, pending, recvOut, recvKey, bufIO, bufKey, ioVars>>
    BY <1>17 DEF StartTaskProcessing, slotVars, recvVars, bufVars
  <2>2. QED BY <1>t, <1>s, <2>1, WorkerKept DEF Vacant
<1>18. ASSUME NEW w \in Workers, ProcessPacketTask(w) PROVE IOInv'
  <2>1. UNCHANGED <<life, sid, pending, recvOut, recvKey, bufIO, bufKey, ioVars>>
    BY <1>18 DEF ProcessPacketTask, slotVars, recvVars, bufVars
  <2>2. QED BY <1>t, <1>s, <2>1, WorkerKept DEF Vacant
<1>19. ASSUME NEW w \in Workers, BeginDisconnect(w) PROVE IOInv'
  <2>1. UNCHANGED <<sid, pending, recvOut, recvKey, bufIO, bufKey, ioVars>>
    BY <1>19 DEF BeginDisconnect, recvVars, bufVars
  <2>2. life = "ACTIVE"
    BY <1>19 DEF BeginDisconnect, SlotInv, HolderState
  <2>3. life' = "DISCONNECT_PENDING"
    BY <1>19, <2>2 DEF BeginDisconnect
  <2>4. QED BY <1>t, <2>1, <2>2, <2>3, WorkerKept DEF Vacant
<1>20. ASSUME NEW w \in Workers, EndBeginDisconnect(w) PROVE IOInv'
  <2>1. UNCHANGED <<sid, pending, recvOut, recvKey, bufIO, bufKey, ioVars>>
    BY <1>20 DEF EndBeginDisconnect, recvVars, bufVars
  <2>2. \/ life = "DISCONNECT_PENDING" /\ life' = "DISCONNECTING" /\ pending = 0
        \/ life' = life
    BY <1>20 DEF EndBeginDisconnect, IORegistered, StillPending
  <2>3. QED BY <1>t, <1>s, <2>1, <2>2, WorkerKept DEF Vacant
<1>21. ASSUME NEW w \in Workers, DiscardRemaining(w) PROVE IOInv'
  <2>1. UNCHANGED <<life, sid, pending, recvOut, recvKey, bufIO, bufKey, ioVars>>
    BY <1>21 DEF DiscardRemaining, slotVars, recvVars, bufVars
  <2>2. QED BY <1>t, <1>s, <2>1, WorkerKept DEF Vacant
<1>22. ASSUME NEW w \in Workers, CompleteTaskProcessing(w) PROVE IOInv'
  <2>1. UNCHANGED <<life, sid, pending, recvOut, recvKey, bufIO, bufKey, ioVars>>
    BY <1>22 DEF CompleteTaskProcessing, slotVars, recvVars, bufVars
  <2>2. QED BY <1>t, <1>s, <2>1, WorkerKept DEF Vacant
<1>23. ASSUME NEW w \in Workers, DiscardTasks(w) PROVE IOInv'
  <2>1. UNCHANGED <<life, sid, pending, recvOut, recvKey, bufIO, bufKey, ioVars>>
    BY <1>23 DEF DiscardTasks, slotVars, recvVars, bufVars
  <2>2. QED BY <1>t, <1>s, <2>1, WorkerKept DEF Vacant
<1>24. ASSUME NEW w \in Workers, FreeSlot(w) PROVE IOInv'
  <2>1. life = "DISCONNECTING" /\ wkey[w] = sid
    BY <1>24 DEF FreeSlot, SlotInv, HolderState
  <2>2. recvOut = 0 /\ SendsOut = {} /\ Handlers = {}
    BY <1>t, <1>s, <2>1, NothingCounted DEF Live
  <2>3. life' = "NONE" /\ UNCHANGED <<recvOut, bufIO, ioVars>>
    BY <1>24, <2>1 DEF FreeSlot, bufVars
  <2>4. recvOut' = 0 /\ SendsOut' = {} /\ Handlers' = {}
    BY <2>2, <2>3 DEF SendsOut, Handlers, ioVars
  <2>5. RecvHandlers' = {} /\ \A t \in IOThreads : iopc'[t] # "recv"
    BY <2>4 DEF RecvHandlers, Handlers
  <2>6. QED BY <2>3, <2>4, <2>5 DEF IOInv, ReuseAfterIO, NoReuseWithPendingIO, NoPendingIO,
                                    PendingExact, RecvExclusive, IOSettled
<1>25. ASSUME NEW w \in Workers, NEW b \in Buffers, TakeBuffer(w, b) PROVE IOInv'
  <2>1. /\ UNCHANGED <<life, sid, pending, recvOut, recvKey, bufIO, ioVars>>
        /\ bufState[b] = "AVAILABLE" /\ bufKey' = [bufKey EXCEPT ![b] = NoId]
    BY <1>25 DEF TakeBuffer, BufferAvailable, slotVars, recvVars
  <2>2. b \notin SendsOut
    BY <2>1 DEF SendsOut, BufferExclusive
  <2>3. \A c \in SendsOut : bufKey'[c] = bufKey[c]
    BY <1>t, <2>1, <2>2 DEF SendsOut, TypeOK
  <2>4. QED BY <1>t, <1>s, <2>1, <2>3, WorkerKept DEF Vacant
<1>26. ASSUME NEW w \in Workers, NEW k \in SessionIds, FinalizeDisconnect(w, k) PROVE IOInv'
  <2>1. UNCHANGED <<life, sid, pending, recvOut, recvKey, bufIO, bufKey, ioVars>>
    BY <1>26 DEF FinalizeDisconnect, slotVars, recvVars, bufVars
  <2>2. QED BY <1>t, <1>s, <2>1, WorkerKept DEF Vacant
<1>27. CASE UNCHANGED vars
  BY <1>t, <1>s, <1>27, WorkerKept DEF vars, slotVars, recvVars, bufVars, Vacant
<1>28. QED BY <1>1, <1>2, <1>3, <1>4, <1>5, <1>6, <1>7, <1>8, <1>9, <1>10, <1>11, <1>12, <1>13,
              <1>14, <1>15, <1>16, <1>17, <1>18, <1>19, <1>20, <1>21, <1>22, <1>23, <1>24,
              <1>25, <1>26, <1>27 DEF Next, IONext, IOStep, WorkerNext, WorkerStep

-----------------------------------------------------------------------------
\* Worker w runs TetrisServer::FinalizeDisconnect past its first check.
Finalizing(w) == wpc[w] \in {"finalize", "free"}

\* Until a misfire, a DISCONNECT task names the connection in the slot, and a DISCONNECTING
\* connection has one or is being finalized.
NoticeDue ==
    ~misfire => \A k \in SessionIds :
        /\ sid # k => notices[k] = 0
        /\ sid = k /\ life = "DISCONNECTING" => notices[k] > 0 \/ \E w \in Workers : Finalizing(w)

\* A step that leaves the slot, the notices and the finalizations alone.
LEMMA NoticeKept ==
  ASSUME TypeOK, NoticeDue, ~misfire, UNCHANGED <<sid, notices>>,
         life' = "DISCONNECTING" => life = "DISCONNECTING",
         \A w \in Workers : Finalizing(w) => Finalizing(w)'
  PROVE  NoticeDue'
BY DEF NoticeDue

\* Every step keeps that: only the two winners of the compare-exchange post a task.
LEMMA NoticeStep ==
  ASSUME SlotInv, NoticeDue, [Next]_vars PROVE NoticeDue'
<1> SUFFICES ASSUME ~misfire' PROVE NoticeDue'
  BY DEF NoticeDue
<1>0. ~misfire
  BY MisfireKept
<1>t. TypeOK
  BY DEF SlotInv
<1>1. ASSUME NEW t \in IOThreads, IONext(t), ~InitSession(t), ~ExchangeDisconnecting(t) PROVE NoticeDue'
  <2>1. UNCHANGED <<sid, notices, wpc>> /\ life' \in {life, "INITIALIZING"}
    BY <1>1 DEF IONext, IOStep, BeginAccept, FirstRecv, DequeueRecv, ProcessSessionCompletion,
       RejectReceive, EnqueuePacket, EndRecvBuffer, Rearm, DequeueSend, ProcessSendCompletion,
       ReleaseBuffer, CompleteIO, DecrementPending, slotVars, wkVars
  <2>2. QED BY <1>0, <1>t, <2>1, NoticeKept DEF Finalizing
<1>2. ASSUME NEW t \in IOThreads, InitSession(t) PROVE NoticeDue'
  <2>1. UNCHANGED notices /\ life' = "ACTIVE"
    BY <1>2 DEF InitSession
  <2>2. sid = NoId /\ NoId \notin SessionIds
    BY <1>2, IdsAssumption DEF InitSession, SlotInv, AcceptAlone, KeysHandedOut
  <2>3. QED BY <1>0, <2>1, <2>2 DEF NoticeDue
<1>3. ASSUME NEW t \in IOThreads, ExchangeDisconnecting(t) PROVE NoticeDue'
  <2>1. CASE life = "DISCONNECT_PENDING"
    <3>1. UNCHANGED sid /\ sid = iokey[t] /\ notices' = [notices EXCEPT ![sid] = @ + 1]
      BY <1>3, <2>1 DEF ExchangeDisconnecting
    <3>2. \A k \in SessionIds : notices'[k] = IF k = sid THEN notices[k] + 1 ELSE notices[k]
      BY <1>t, <3>1 DEF TypeOK
    <3>3. QED BY <1>0, <1>t, <3>1, <3>2 DEF NoticeDue, TypeOK
  <2>2. CASE life # "DISCONNECT_PENDING"
    <3>1. UNCHANGED <<sid, notices, life, wpc>>
      BY <1>3, <2>2 DEF ExchangeDisconnecting, wkVars
    <3>2. QED BY <1>0, <1>t, <3>1, NoticeKept DEF Finalizing
  <2>3. QED BY <2>1, <2>2
<1>4. ASSUME NEW w \in Workers, EndBeginDisconnect(w) PROVE NoticeDue'
  <2>1. UNCHANGED sid /\ sid = wkey[w] /\ wpc[w] = "begin" /\ wpc' = [wpc EXCEPT ![w] = "discard"]
    BY <1>4 DEF EndBeginDisconnect, GotoWorker, SlotInv, HolderState
  <2>2. CASE ~IORegistered /\ StillPending
    <3>1. notices' = [notices EXCEPT ![sid] = @ + 1]
      BY <1>4, <2>1, <2>2 DEF EndBeginDisconnect
    <3>2. \A k \in SessionIds : notices'[k] = IF k = sid THEN notices[k] + 1 ELSE notices[k]
      BY <1>t, <3>1 DEF TypeOK
    <3>3. QED BY <1>0, <1>t, <2>1, <3>2 DEF NoticeDue, TypeOK
  <2>3. CASE ~(~IORegistered /\ StillPending)
    <3>1. UNCHANGED <<life, notices>>
      BY <1>4, <2>3 DEF EndBeginDisconnect
    <3>2. \A v \in Workers : Finalizing(v) => Finalizing(v)'
      BY <1>t, <2>1 DEF Finalizing, TypeOK
    <3>3. QED BY <1>0, <1>t, <2>1, <3>1, <3>2, NoticeKept
  <2>4. QED BY <2>2, <2>3
<1>5. ASSUME NEW w \in Workers, NEW k \in SessionIds, FinalizeDisconnect(w, k) PROVE NoticeDue'
  <2>1. notices[k] > 0 /\ k = sid /\ life = "DISCONNECTING"
    BY <1>0, <1>5 DEF FinalizeDisconnect, NoticeDue, SlotInv, NoticesSound
  <2>2. wpc' = [wpc EXCEPT ![w] = "finalize"] /\ UNCHANGED sid
    BY <1>5, <2>1 DEF FinalizeDisconnect, MatchesSessionKey, slotVars
  <2>3. Finalizing(w)'
    BY <1>t, <2>2 DEF Finalizing, TypeOK
  <2>4. \A j \in SessionIds : j # k => notices'[j] = notices[j]
    BY <1>t, <1>5 DEF FinalizeDisconnect, TypeOK
  <2>5. QED BY <1>0, <2>1, <2>2, <2>3, <2>4 DEF NoticeDue
<1>6. ASSUME NEW w \in Workers, FreeSlot(w) PROVE NoticeDue'
  <2>1. life = "DISCONNECTING" /\ sid = wkey[w]
    BY <1>6 DEF FreeSlot, SlotInv, HolderState
  <2>2. life' = "NONE" /\ UNCHANGED notices
    BY <1>6, <2>1 DEF FreeSlot
  <2>3. \A k \in SessionIds : sid = k => notices[k] = 0
    BY <1>6 DEF FreeSlot, SlotInv, NoticesSound
  <2>4. QED BY <1>0, <2>2, <2>3 DEF NoticeDue
<1>7. ASSUME NEW w \in Workers, WorkerNext(w), ~EndBeginDisconnect(w), ~FreeSlot(w),
             \A k \in SessionIds : ~FinalizeDisconnect(w, k)
      PROVE NoticeDue'
  <2>1. UNCHANGED <<sid, notices>> /\ life' \in {life, "DISCONNECT_PENDING"}
    BY <1>7 DEF WorkerNext, WorkerStep, TakeBuffer, SendPacket, StartTaskProcessing,
       ProcessPacketTask,
       BeginDisconnect, DiscardRemaining, CompleteTaskProcessing, DiscardTasks, slotVars
  <2>2. \A v \in Workers : Finalizing(v) => Finalizing(v)'
    BY <1>t, <1>7 DEF WorkerNext, WorkerStep, TakeBuffer, SendPacket, StartTaskProcessing,
       ProcessPacketTask, BeginDisconnect, DiscardRemaining, CompleteTaskProcessing, DiscardTasks,
       Leave, GotoWorker, Finalizing, TypeOK
  <2>3. QED BY <1>0, <1>t, <2>1, <2>2, NoticeKept
<1>8. CASE UNCHANGED vars
  BY <1>0, <1>t, <1>8, NoticeKept DEF vars, slotVars, wkVars, Finalizing
<1>9. QED
  <2>1. CASE \E t \in IOThreads : IONext(t)
    BY <1>1, <1>2, <1>3, <2>1
  <2>2. CASE \E w \in Workers : WorkerNext(w)
    BY <1>4, <1>5, <1>6, <1>7, <2>2
  <2>3. QED BY <1>8, <2>1, <2>2 DEF Next

\* With the invariant of the slot, that is exactly one finalization.
LEMMA NoticeDueOne ==
  ASSUME SlotInv, NoticeDue PROVE OneNotice
<1> SUFFICES ASSUME ~misfire, NEW k \in SessionIds
             PROVE  notices[k] + Cardinality(Finalizers(k)) =
                       IF life = "DISCONNECTING" /\ sid = k THEN 1 ELSE 0
  BY DEF OneNotice
<1>1. notices[k] \in Nat
  BY DEF SlotInv, TypeOK
<1>2. CASE \E w \in Workers : w \in Finalizers(k)
  <2>1. PICK w \in Workers : w \in Finalizers(k)
    BY <1>2
  <2>2. life = "DISCONNECTING" /\ sid = k
    BY <2>1 DEF SlotInv, HolderState, Finalizers
  <2>3. Finalizers(k) = {w} /\ notices[k] = 0
    BY <2>1, <2>2 DEF SlotInv, NoticesSound, Finalizers
  <2>4. Cardinality(Finalizers(k)) = 1
    BY <2>3, FS_Singleton
  <2>5. QED BY <2>2, <2>3, <2>4
<1>3. CASE ~ \E w \in Workers : w \in Finalizers(k)
  <2>1. Finalizers(k) = {}
    BY <1>3 DEF Finalizers
  <2>2. Cardinality(Finalizers(k)) = 0
    BY <2>1, FS_EmptySet
  <2>3. CASE sid = k /\ life = "DISCONNECTING"
    <3>1. \A w \in Workers : ~Finalizing(w)
      BY <1>3, <2>3 DEF SlotInv, HolderState, Finalizers, Finalizing
    <3>2. notices[k] > 0 /\ notices[k] <= 1
      BY <2>3, <3>1 DEF NoticeDue, SlotInv, NoticesSound
    <3>3. QED BY <1>1, <2>2, <2>3, <3>2
  <2>4. CASE ~(sid = k /\ life = "DISCONNECTING")
    <3>1. notices[k] = 0
      BY <2>4 DEF NoticeDue, SlotInv, NoticesSound
    <3>2. QED BY <2>2, <2>4, <3>1
  <2>5. QED BY <2>3, <2>4
<1>4. QED BY <1>2, <1>3

-----------------------------------------------------------------------------
\* A send buffer has one owner at a time, whatever the sizes of the pool and of the heap.
THEOREM BufferOwnership == Spec => []BufferExclusive
<1>1. Init => BufferExclusive
  BY DEF Init, BufferExclusive
<1>2. SlotInv /\ BufferExclusive /\ [Next]_vars => BufferExclusive'
  BY BufferStep
<1>3. QED BY <1>1, <1>2, SlotInvariant, PTL DEF Spec

\* The accounting of CompleteIO, RecvPacket and SendPacket is an invariant.
THEOREM IOInvariant == Spec => []IOInv
<1>1. Init => IOInv
  <2> SUFFICES ASSUME Init PROVE IOInv
    OBVIOUS
  <2>1. Handlers = {} /\ SendsOut = {} /\ RecvHandlers = {}
    BY DEF Init, Handlers, SendsOut, RecvHandlers
  <2>2. QED BY <2>1 DEF Init, IOInv, ReuseAfterIO, NoReuseWithPendingIO, NoPendingIO,
                        PendingExact, RecvExclusive, IOSettled
<1>2. SlotInv /\ BufferExclusive /\ IOInv /\ [Next]_vars => IOInv'
  BY IOInvStep
<1>3. QED BY <1>1, <1>2, SlotInvariant, BufferOwnership, PTL DEF Spec

\* Unless the compare-exchange of CompleteIO misfires, a slot that can be given to another
\* connection has no receive or send of the previous one left.
THEOREM SafeReuse == Spec => []ReuseAfterIO
BY IOInvariant, PTL DEF IOInv

\* Unless it misfires, io_pending_count_ is exactly the number of outstanding requests.
THEOREM CountExact == Spec => []PendingExact
BY IOInvariant, PTL DEF IOInv

\* Unless it misfires, recv_over_ has one user at a time.
THEOREM OneReceive == Spec => []RecvExclusive
BY IOInvariant, PTL DEF IOInv

\* Unless it misfires, a DISCONNECTING connection is finalized by exactly one DISCONNECT task.
THEOREM OneFinalization == Spec => []OneNotice
<1>1. Init => NoticeDue
  BY IdsAssumption DEF Init, NoticeDue
<1>2. SlotInv /\ NoticeDue /\ [Next]_vars => NoticeDue'
  BY NoticeStep
<1>3. SlotInv /\ NoticeDue => OneNotice
  BY NoticeDueOne
<1>4. QED BY <1>1, <1>2, <1>3, SlotInvariant, PTL DEF Spec
=============================================================================
