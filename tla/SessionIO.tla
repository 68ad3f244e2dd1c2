------------------------------- MODULE SessionIO -------------------------------
(***************************************************************************)
(* One slot of TetrisServer::sessions_: the life of the connections that   *)
(* occupy it, the asynchronous receive and send requests registered for    *)
(* it, its task queue and its processing right.  The I/O threads run the   *)
(* completion handlers of IOThread.cpp; a worker is a lobby or a game      *)
(* thread while it works on this session (sends to it, consumes its tasks, *)
(* or finalizes its disconnection).                                        *)
(*                                                                         *)
(* A step is what the code does under one lock or in one atomic access     *)
(* whose interleaving with the other threads matters; in particular the    *)
(* decrement of io_pending_count_ and the compare-exchange that follows it *)
(* in Session::CompleteIO are two steps.  Rooms are in LobbyRoom: here the *)
(* session is never in ModeState::ROOM.                                    *)
(***************************************************************************)
EXTENDS Integers, Sequences, FiniteSets

CONSTANTS
    IOThreads,      \* threads of IOThreadManager
    Workers,        \* lobby and game threads
    PoolBuffers,    \* Session::send_buffer_pool_
    HeapBuffers,    \* buffers SendPacket allocates when the pool is exhausted (a bound)
    SessionIds,     \* the ids GenerateSessionID will return (a bound)
    NoId,           \* session_id 0
    NoBuf,          \* no buffer
    MaxTasks        \* bound: tasks waiting in session_tasks_; a producer waits at the bound

Buffers == PoolBuffers \cup HeapBuffers
Ids == SessionIds \cup {NoId}

ASSUME ThreadsAssumption == IsFiniteSet(IOThreads)
ASSUME BuffersAssumption == IsFiniteSet(Buffers) /\ NoBuf \notin Buffers
ASSUME IdsAssumption == NoId \notin SessionIds
ASSUME MaxTasksAssumption == MaxTasks \in Nat \ {0}

VARIABLES
    life,           \* life_state_
    sid,            \* session_key_.session_id
    pending,        \* io_pending_count_
    used,           \* ids handed out so far: GenerateSessionID never repeats one
    recvOut,        \* receives registered on recv_over_ and not yet dequeued
    recvKey,        \* recv_over_.ex_over.session_key
    bufState,       \* SendBuffer::buffer_state (a heap buffer is AVAILABLE when not allocated)
    bufKey,         \* SendBuffer::ex_over.session_key
    bufIO,          \* the send registered on the buffer is not yet dequeued
    tasks,          \* session_tasks_.task_queue_
    taskCount,      \* session_tasks_.task_count_
    right,          \* is_processing_tasks_
    notices,        \* LobbyTaskType::DISCONNECT tasks waiting in the lobby, by session id
    iopc,           \* where each I/O thread is in its handler,
    iokey,          \*   the session key it was given,
    iobuf,          \*   and the send buffer it was given
    wpc,            \* where each worker is,
    wkey,           \*   the session key it works for,
    wbuf,           \*   the buffer it fills,
    wleft,          \*   and the claimed tasks it has not dequeued
    misfire         \* history: CompleteIO's compare-exchange hit a slot that had I/O registered,
                    \* or that another connection occupied

slotVars  == <<life, sid, pending, used>>
recvVars  == <<recvOut, recvKey>>
bufVars   == <<bufState, bufKey, bufIO>>
taskVars  == <<tasks, taskCount, right>>
ioVars    == <<iopc, iokey, iobuf>>
wkVars    == <<wpc, wkey, wbuf, wleft>>
vars == <<slotVars, recvVars, bufVars, taskVars, notices, ioVars, wkVars, misfire>>

LifeState == {"NONE", "INITIALIZING", "ACTIVE", "DISCONNECT_PENDING", "DISCONNECTING"}
TaskType  == {"PACKET", "REMOVE_PLAYER", "DISCONNECT"}
Task      == [type : TaskType, key : SessionIds]

\* Program points of an I/O thread and of a worker.
IOPoint == {"idle", "init", "accepted", "recv", "recvBuffer", "rearm",
            "send", "release", "complete", "decrement", "exchange"}
WorkerPoint == {"idle", "send", "consume", "begin", "discard", "finalize", "free"}

Init ==
    /\ life = "NONE" /\ sid = NoId /\ pending = 0 /\ used = {}
    /\ recvOut = 0 /\ recvKey = NoId
    /\ bufState = [b \in Buffers |-> "AVAILABLE"]
    /\ bufKey = [b \in Buffers |-> NoId]
    /\ bufIO = [b \in Buffers |-> FALSE]
    /\ tasks = <<>> /\ taskCount = 0 /\ right = FALSE
    /\ notices = [k \in SessionIds |-> 0]
    /\ iopc = [t \in IOThreads |-> "idle"]
    /\ iokey = [t \in IOThreads |-> NoId]
    /\ iobuf = [t \in IOThreads |-> NoBuf]
    /\ wpc = [w \in Workers |-> "idle"]
    /\ wkey = [w \in Workers |-> NoId]
    /\ wbuf = [w \in Workers |-> NoBuf]
    /\ wleft = [w \in Workers |-> 0]
    /\ misfire = FALSE

-----------------------------------------------------------------------------
(* Session and TetrisServer operations used by several handlers. *)

\* Session::MatchesSessionKey, and so FindSession: the slot is occupied by connection k.
MatchesSessionKey(k) ==
    /\ life \notin {"NONE", "INITIALIZING"}
    /\ sid = k

\* TryEnqueueTask: only the connection that owns the slot, and only while it is ACTIVE.
\* (CanEnqueueStale, like EnqueueTaskUnstamped, is a mutant of the definition after it.)
CanEnqueueStale(k) == sid = k
CanEnqueue(k) == life = "ACTIVE" /\ sid = k

EnqueueTaskUnstamped(type, k) ==
    /\ Len(tasks) < MaxTasks
    /\ tasks' = Append(tasks, [type |-> type, key |-> NoId])
    /\ taskCount' = taskCount + 1

EnqueueTask(type, k) ==
    /\ Len(tasks) < MaxTasks
    /\ tasks' = Append(tasks, [type |-> type, key |-> k])
    /\ taskCount' = taskCount + 1

\* RequestDisconnect: a DISCONNECT task when the key is still valid, otherwise nothing.
RequestDisconnect(k) ==
    \/ CanEnqueue(k) /\ EnqueueTask("DISCONNECT", k)
    \/ ~CanEnqueue(k) /\ UNCHANGED <<tasks, taskCount>>

\* TryStartTaskProcessing: compare-exchange of is_processing_tasks_ from false.
RightFreeUnchecked == TRUE
RightFree == ~right

\* The end of BeginDisconnect tests io_pending_count_ and then compare-exchanges life_state_
\* from DISCONNECT_PENDING.
\* (An operator named ...Ignored, ...Unchecked and the like is a mutant of the next one.)
IORegisteredIgnored == FALSE
IORegistered == pending # 0

StillPendingIgnored == TRUE
StillPending == life = "DISCONNECT_PENDING"

\* SendBuffer::TrySetInUse: compare-exchange of buffer_state from AVAILABLE.
BufferAvailableIgnored(b) == TRUE
BufferAvailable(b) == bufState[b] = "AVAILABLE"

\* The part of a claim of n tasks that is given back after its first task.
RestoredOffByOne(n) == n
Restored(n) == n - 1

\* Session::RecvPacket registers a receive on recv_over_ under the current key.
RecvPacket ==
    \/ /\ life = "ACTIVE"
       /\ recvKey' = sid
       /\ recvOut' = recvOut + 1
       /\ pending' = pending + 1
    \/ /\ life # "ACTIVE"
       /\ UNCHANGED <<recvOut, recvKey, pending>>

\* An I/O thread goes on in its handler, or returns to GetQueuedCompletionStatus.
Goto(t, point) ==
    /\ iopc' = [iopc EXCEPT ![t] = point]
    /\ UNCHANGED <<iokey, iobuf>>

Return(t) ==
    /\ iopc' = [iopc EXCEPT ![t] = "idle"]
    /\ iokey' = [iokey EXCEPT ![t] = NoId]
    /\ UNCHANGED iobuf

\* A worker goes on, or is done with the session.
GotoWorker(w, point) ==
    /\ wpc' = [wpc EXCEPT ![w] = point]
    /\ UNCHANGED <<wkey, wbuf, wleft>>

Leave(w) ==
    /\ wpc' = [wpc EXCEPT ![w] = "idle"]
    /\ wkey' = [wkey EXCEPT ![w] = NoId]
    /\ wbuf' = [wbuf EXCEPT ![w] = NoBuf]
    /\ wleft' = [wleft EXCEPT ![w] = 0]

-----------------------------------------------------------------------------
(* I/O threads: accepting a connection.  One AcceptEx is outstanding at a time,
   and it is posted again when CompleteAccept ends. *)

BeginAccept(t) ==
    /\ iopc[t] = "idle"
    /\ \A u \in IOThreads : iopc[u] \notin {"init", "accepted"}
    /\ SessionIds \ used # {}
    /\ life = "NONE"
    /\ life' = "INITIALIZING"
    /\ Goto(t, "init")
    /\ UNCHANGED <<sid, pending, used, recvVars, bufVars, taskVars, notices, wkVars, misfire>>

InitSession(t) ==
    /\ iopc[t] = "init"
    /\ \E k \in SessionIds \ used :
         /\ sid' = k
         /\ used' = used \cup {k}
         /\ recvKey' = k
    /\ pending' = 0
    /\ life' = "ACTIVE"
    /\ Goto(t, "accepted")
    /\ UNCHANGED <<recvOut, bufVars, taskVars, notices, wkVars, misfire>>

FirstRecv(t) ==
    /\ iopc[t] = "accepted"
    /\ RecvPacket
    /\ Return(t)
    /\ UNCHANGED <<life, sid, used, bufVars, taskVars, notices, wkVars, misfire>>

-----------------------------------------------------------------------------
(* I/O threads: completion of the receive. *)

\* GetQueuedCompletionStatus hands a completed receive to thread t.
DequeueRecv(t) ==
    /\ iopc[t] = "idle"
    /\ recvOut > 0
    /\ recvOut' = recvOut - 1
    /\ Goto(t, "recv")
    /\ UNCHANGED <<slotVars, recvKey, bufVars, taskVars, notices, wkVars, misfire>>

\* Mutant: the next receive is registered before the buffer has been processed.
ProcessSessionCompletionRearmed(t) ==
    /\ iopc[t] = "recv"
    /\ MatchesSessionKey(recvKey)
    /\ iopc' = [iopc EXCEPT ![t] = "recvBuffer"]
    /\ iokey' = [iokey EXCEPT ![t] = recvKey]
    /\ UNCHANGED iobuf
    /\ RecvPacket
    /\ UNCHANGED <<life, sid, used, bufVars, taskVars, notices, wkVars, misfire>>

\* The key is read from recv_over_; a completion whose session is gone is dropped.
ProcessSessionCompletion(t) ==
    /\ iopc[t] = "recv"
    /\ \/ /\ MatchesSessionKey(recvKey)
          /\ iopc' = [iopc EXCEPT ![t] = "recvBuffer"]
          /\ iokey' = [iokey EXCEPT ![t] = recvKey]
          /\ UNCHANGED iobuf
       \/ /\ ~MatchesSessionKey(recvKey)
          /\ Return(t)
    /\ UNCHANGED <<slotVars, recvVars, bufVars, taskVars, notices, wkVars, misfire>>

\* Mutant: the early return skips CompleteSessionIO.
RejectReceiveUncounted(t) ==
    /\ iopc[t] = "recvBuffer"
    /\ RequestDisconnect(iokey[t])
    /\ Return(t)
    /\ UNCHANGED <<slotVars, recvVars, bufVars, right, notices, wkVars, misfire>>

\* A failed or empty receive, or a malformed header after some packets, asks for a
\* disconnection, and no receive is registered again.
RejectReceive(t) ==
    /\ iopc[t] = "recvBuffer"
    /\ RequestDisconnect(iokey[t])
    /\ Goto(t, "complete")
    /\ UNCHANGED <<slotVars, recvVars, bufVars, right, notices, wkVars, misfire>>

\* ProcessRecvBuffer: one complete packet of the buffer becomes a task; a packet that is
\* refused ends the loop, and no receive is registered again.  A C2S_DISCONNECT packet
\* is a DISCONNECT task: ProcessSessionTask treats the two alike.
EnqueuePacket(t) ==
    /\ iopc[t] = "recvBuffer"
    /\ \/ /\ CanEnqueue(iokey[t])
          /\ \E type \in TaskType : EnqueueTask(type, iokey[t])
          /\ UNCHANGED ioVars
       \/ /\ ~CanEnqueue(iokey[t])
          /\ Goto(t, "complete")
          /\ UNCHANGED <<tasks, taskCount>>
    /\ UNCHANGED <<slotVars, recvVars, bufVars, right, notices, wkVars, misfire>>

\* No complete packet is left: the remainder is kept and should_receive is true.
EndRecvBuffer(t) ==
    /\ iopc[t] = "recvBuffer"
    /\ Goto(t, "rearm")
    /\ UNCHANGED <<slotVars, recvVars, bufVars, taskVars, notices, wkVars, misfire>>

Rearm(t) ==
    /\ iopc[t] = "rearm"
    /\ RecvPacket
    /\ Goto(t, "complete")
    /\ UNCHANGED <<life, sid, used, bufVars, taskVars, notices, wkVars, misfire>>

-----------------------------------------------------------------------------
(* I/O threads: completion of a send. *)

DequeueSend(t, b) ==
    /\ iopc[t] = "idle"
    /\ bufIO[b]
    /\ bufIO' = [bufIO EXCEPT ![b] = FALSE]
    /\ iopc' = [iopc EXCEPT ![t] = "send"]
    /\ iokey' = [iokey EXCEPT ![t] = bufKey[b]]
    /\ iobuf' = [iobuf EXCEPT ![t] = b]
    /\ UNCHANGED <<slotVars, recvVars, bufState, bufKey, taskVars, notices, wkVars, misfire>>

ProcessSendCompletion(t) ==
    /\ iopc[t] = "send"
    /\ \/ UNCHANGED <<tasks, taskCount>>
       \/ RequestDisconnect(iokey[t])
    /\ Goto(t, "release")
    /\ UNCHANGED <<slotVars, recvVars, bufVars, right, notices, wkVars, misfire>>

\* SendBuffer::Clear, or delete: the buffer is given back before the I/O is accounted for.
ReleaseBuffer(t) ==
    /\ iopc[t] = "release"
    /\ bufState' = [bufState EXCEPT ![iobuf[t]] = "AVAILABLE"]
    /\ iopc' = [iopc EXCEPT ![t] = "complete"]
    /\ iobuf' = [iobuf EXCEPT ![t] = NoBuf]
    /\ UNCHANGED iokey
    /\ UNCHANGED <<slotVars, recvVars, bufKey, bufIO, taskVars, notices, wkVars, misfire>>

-----------------------------------------------------------------------------
(* I/O threads: CompleteSessionIO, the accounting of a finished request. *)

\* FindSession, MatchesSessionKey and the test of io_pending_count_.
CompleteIO(t) ==
    /\ iopc[t] = "complete"
    /\ \/ /\ MatchesSessionKey(iokey[t]) /\ pending > 0
          /\ Goto(t, "decrement")
       \/ /\ ~(MatchesSessionKey(iokey[t]) /\ pending > 0)
          /\ Return(t)
    /\ UNCHANGED <<slotVars, recvVars, bufVars, taskVars, notices, wkVars, misfire>>

DecrementPending(t) ==
    /\ iopc[t] = "decrement"
    /\ pending' = pending - 1
    /\ \/ pending = 1 /\ Goto(t, "exchange")
       \/ pending # 1 /\ Return(t)
    /\ UNCHANGED <<life, sid, used, recvVars, bufVars, taskVars, notices, wkVars, misfire>>

\* The count was seen at zero: compare-exchange DISCONNECT_PENDING to DISCONNECTING, and
\* on success a DISCONNECT task for the key of the request goes to the lobby.
ExchangeDisconnecting(t) ==
    /\ iopc[t] = "exchange"
    /\ \/ /\ life = "DISCONNECT_PENDING"
          /\ life' = "DISCONNECTING"
          /\ notices' = [notices EXCEPT ![iokey[t]] = @ + 1]
          /\ misfire' = (misfire \/ pending # 0 \/ sid # iokey[t])
       \/ /\ life # "DISCONNECT_PENDING"
          /\ UNCHANGED <<life, notices, misfire>>
    /\ Return(t)
    /\ UNCHANGED <<sid, pending, used, recvVars, bufVars, taskVars, wkVars>>

-----------------------------------------------------------------------------
(* Workers: sending. *)

\* FindAvailableBuffer, or new when the scan of the pool found every buffer in use.
TakeBuffer(w, b) ==
    /\ wpc[w] = "idle"
    /\ BufferAvailable(b)
    /\ b \in PoolBuffers \/ \E p \in PoolBuffers : bufState[p] = "IN_USE"
    /\ bufState' = [bufState EXCEPT ![b] = "IN_USE"]
    /\ bufKey' = [bufKey EXCEPT ![b] = NoId]
    /\ wpc' = [wpc EXCEPT ![w] = "send"]
    /\ wbuf' = [wbuf EXCEPT ![w] = b]
    /\ UNCHANGED <<wkey, wleft>>
    /\ UNCHANGED <<slotVars, recvVars, bufIO, taskVars, notices, ioVars, misfire>>

\* The part of SendPacket under the shared socket lock.  A WSASend that fails at once posts
\* its completion itself, so the request is registered either way.
SendPacket(w) ==
    /\ wpc[w] = "send"
    /\ \/ /\ life = "ACTIVE"
          /\ bufKey' = [bufKey EXCEPT ![wbuf[w]] = sid]
          /\ bufIO' = [bufIO EXCEPT ![wbuf[w]] = TRUE]
          /\ pending' = pending + 1
          /\ UNCHANGED bufState
       \/ /\ life # "ACTIVE"
          /\ bufState' = [bufState EXCEPT ![wbuf[w]] = "AVAILABLE"]
          /\ UNCHANGED <<bufKey, bufIO, pending>>
    /\ Leave(w)
    /\ UNCHANGED <<life, sid, used, recvVars, taskVars, notices, ioVars, misfire>>

-----------------------------------------------------------------------------
(* Workers: consuming the tasks of the session under its processing right. *)

\* TryStartTaskProcessing with the checks around it, and ClaimTaskCount.
StartTaskProcessing(w) ==
    /\ wpc[w] = "idle"
    /\ life = "ACTIVE"
    /\ RightFree
    /\ right' = TRUE
    /\ taskCount' = 0
    /\ wpc' = [wpc EXCEPT ![w] = "consume"]
    /\ wkey' = [wkey EXCEPT ![w] = sid]
    /\ wleft' = [wleft EXCEPT ![w] = taskCount]
    /\ UNCHANGED wbuf
    /\ UNCHANGED <<slotVars, recvVars, bufVars, tasks, notices, ioVars, misfire>>

\* After this packet the rest of the claim is restored: C2S_REMOVE_PLAYER, or the session
\* is no longer ACTIVE.
EndsClaim(task) ==
    \/ task.type = "REMOVE_PLAYER" /\ MatchesSessionKey(task.key)
    \/ life # "ACTIVE"

\* ProcessSessionTask for a packet (a reply is a SendPacket of its own).
ProcessPacketTask(w) ==
    /\ wpc[w] = "consume" /\ wleft[w] > 0
    /\ Head(tasks).type # "DISCONNECT" \/ ~MatchesSessionKey(Head(tasks).key)
    /\ tasks' = Tail(tasks)
    /\ \/ /\ EndsClaim(Head(tasks))
          /\ taskCount' = taskCount + Restored(wleft[w])
          /\ wleft' = [wleft EXCEPT ![w] = 0]
       \/ /\ ~EndsClaim(Head(tasks))
          /\ wleft' = [wleft EXCEPT ![w] = @ - 1]
          /\ UNCHANGED taskCount
    /\ UNCHANGED <<wpc, wkey, wbuf>>
    /\ UNCHANGED <<slotVars, recvVars, bufVars, right, notices, ioVars, misfire>>

\* ProcessSessionTask for DISCONNECT: BeginDisconnect closes the socket.
BeginDisconnect(w) ==
    /\ wpc[w] = "consume" /\ wleft[w] > 0
    /\ Head(tasks).type = "DISCONNECT" /\ MatchesSessionKey(Head(tasks).key)
    /\ tasks' = Tail(tasks)
    /\ \/ /\ life = "ACTIVE"
          /\ life' = "DISCONNECT_PENDING"
          /\ wpc' = [wpc EXCEPT ![w] = "begin"]
       \/ /\ life # "ACTIVE"
          /\ wpc' = [wpc EXCEPT ![w] = "discard"]
          /\ UNCHANGED life
    /\ wleft' = [wleft EXCEPT ![w] = @ - 1]
    /\ UNCHANGED <<wkey, wbuf>>
    /\ UNCHANGED <<sid, pending, used, recvVars, bufVars, taskCount, right, notices, ioVars, misfire>>

\* Mutant: only CompleteIO moves to DISCONNECTING.
EndBeginDisconnectPassive(w) ==
    /\ wpc[w] = "begin"
    /\ GotoWorker(w, "discard")
    /\ UNCHANGED <<slotVars, recvVars, bufVars, taskVars, notices, ioVars, misfire>>

\* The end of BeginDisconnect: without registered I/O it moves to DISCONNECTING itself.
EndBeginDisconnect(w) ==
    /\ wpc[w] = "begin"
    /\ \/ /\ ~IORegistered /\ StillPending
          /\ life' = "DISCONNECTING"
          /\ notices' = [notices EXCEPT ![wkey[w]] = @ + 1]
       \/ /\ ~(~IORegistered /\ StillPending)
          /\ UNCHANGED <<life, notices>>
    /\ GotoWorker(w, "discard")
    /\ UNCHANGED <<sid, pending, used, recvVars, bufVars, taskVars, ioVars, misfire>>

\* DISCARD_REMAINING: the rest of the claim and everything queued since is dropped.
DiscardRemaining(w) ==
    /\ wpc[w] = "discard"
    /\ tasks' = SubSeq(tasks, wleft[w] + taskCount + 1, Len(tasks))
    /\ taskCount' = 0
    /\ right' = FALSE
    /\ Leave(w)
    /\ UNCHANGED <<slotVars, recvVars, bufVars, notices, ioVars, misfire>>

CompleteTaskProcessing(w) ==
    /\ wpc[w] = "consume" /\ wleft[w] = 0
    /\ right' = FALSE
    /\ Leave(w)
    /\ UNCHANGED <<slotVars, recvVars, bufVars, tasks, taskCount, notices, ioVars, misfire>>

-----------------------------------------------------------------------------
(* Workers: TetrisServer::FinalizeDisconnect, run by a lobby thread for a DISCONNECT task. *)

\* A notice for a connection that is gone is dropped.  While another worker has the right
\* the task is queued again, which leaves the state as it is.
FinalizeDisconnect(w, k) ==
    /\ wpc[w] = "idle"
    /\ notices[k] > 0
    /\ \/ /\ MatchesSessionKey(k) /\ life = "DISCONNECTING"
          /\ RightFree
          /\ right' = TRUE
          /\ wpc' = [wpc EXCEPT ![w] = "finalize"]
          /\ wkey' = [wkey EXCEPT ![w] = k]
          /\ UNCHANGED <<wbuf, wleft>>
       \/ /\ ~(MatchesSessionKey(k) /\ life = "DISCONNECTING")
          /\ UNCHANGED <<right, wkVars>>
    /\ notices' = [notices EXCEPT ![k] = @ - 1]
    /\ UNCHANGED <<slotVars, recvVars, bufVars, tasks, taskCount, ioVars, misfire>>

\* DiscardTasks and CompleteTaskProcessing (outside a room).
DiscardTasks(w) ==
    /\ wpc[w] = "finalize"
    /\ tasks' = SubSeq(tasks, taskCount + 1, Len(tasks))
    /\ taskCount' = 0
    /\ right' = FALSE
    /\ GotoWorker(w, "free")
    /\ UNCHANGED <<slotVars, recvVars, bufVars, notices, ioVars, misfire>>

\* Session::FinalizeDisconnect: the slot can be given to another connection.
FreeSlot(w) ==
    /\ wpc[w] = "free"
    /\ \/ /\ life = "DISCONNECTING" /\ sid = wkey[w]
          /\ life' = "NONE" /\ sid' = NoId /\ recvKey' = NoId
       \/ /\ ~(life = "DISCONNECTING" /\ sid = wkey[w])
          /\ UNCHANGED <<life, sid, recvKey>>
    /\ Leave(w)
    /\ UNCHANGED <<pending, used, recvOut, bufVars, taskVars, notices, ioVars, misfire>>

-----------------------------------------------------------------------------
IOStep(t) ==
    \/ InitSession(t) \/ FirstRecv(t)
    \/ ProcessSessionCompletion(t) \/ RejectReceive(t) \/ EnqueuePacket(t)
    \/ EndRecvBuffer(t) \/ Rearm(t)
    \/ ProcessSendCompletion(t) \/ ReleaseBuffer(t)
    \/ CompleteIO(t) \/ DecrementPending(t) \/ ExchangeDisconnecting(t)

IONext(t) ==
    \/ BeginAccept(t) \/ DequeueRecv(t)
    \/ \E b \in Buffers : DequeueSend(t, b)
    \/ IOStep(t)

WorkerStep(w) ==
    \/ SendPacket(w)
    \/ ProcessPacketTask(w) \/ BeginDisconnect(w) \/ EndBeginDisconnect(w)
    \/ DiscardRemaining(w) \/ CompleteTaskProcessing(w)
    \/ DiscardTasks(w) \/ FreeSlot(w)

WorkerNext(w) ==
    \/ \E b \in Buffers : TakeBuffer(w, b)
    \/ StartTaskProcessing(w)
    \/ \E k \in SessionIds : FinalizeDisconnect(w, k)
    \/ WorkerStep(w)

Next ==
    \/ \E t \in IOThreads : IONext(t)
    \/ \E w \in Workers : WorkerNext(w)

Spec == Init /\ [][Next]_vars

(* A handler or a call that has begun runs to its end.  The completion port hands requests
   out in order, so one that has finished is not overtaken forever; closing the socket
   finishes a receive.  Every tick a lobby thread visits the session and the DISCONNECT
   tasks, and a visit that finds the right taken is repeated in the next tick. *)
Fairness ==
    /\ \A t \in IOThreads : WF_vars(IOStep(t))
    /\ \A w \in Workers : WF_vars(WorkerStep(w))
    /\ \A b \in Buffers : SF_vars(\E t \in IOThreads : DequeueSend(t, b))
    /\ SF_vars(life # "ACTIVE" /\ \E t \in IOThreads : DequeueRecv(t))
    /\ SF_vars(\E w \in Workers : StartTaskProcessing(w))
    /\ SF_vars(\E w \in Workers, k \in SessionIds : FinalizeDisconnect(w, k))

FairSpec == Spec /\ Fairness
-----------------------------------------------------------------------------
(* Properties. *)

\* The variables keep their types; a claim is never negative.
TypeOK ==
    /\ life \in LifeState
    /\ sid \in Ids
    /\ pending \in Int
    /\ used \subseteq SessionIds
    /\ recvOut \in Nat
    /\ recvKey \in Ids
    /\ bufState \in [Buffers -> {"AVAILABLE", "IN_USE"}]
    /\ bufKey \in [Buffers -> Ids]
    /\ bufIO \in [Buffers -> BOOLEAN]
    /\ tasks \in Seq(Task)
    /\ taskCount \in Nat
    /\ right \in BOOLEAN
    /\ notices \in [SessionIds -> Nat]
    /\ iopc \in [IOThreads -> IOPoint]
    /\ iokey \in [IOThreads -> Ids]
    /\ iobuf \in [IOThreads -> Buffers \cup {NoBuf}]
    /\ wpc \in [Workers -> WorkerPoint]
    /\ wkey \in [Workers -> Ids]
    /\ wbuf \in [Workers -> Buffers \cup {NoBuf}]
    /\ wleft \in [Workers -> Nat]
    /\ misfire \in BOOLEAN

\* The threads that handle a request which io_pending_count_ still counts.
Handlers == {t \in IOThreads : iopc[t] \in {"recv", "recvBuffer", "rearm", "send", "release",
                                            "complete", "decrement"}}
\* The sends the system has not handed back yet.
SendsOut == {b \in Buffers : bufIO[b]}

\* Nothing registered for the slot is still on its way or being handled.
NoPendingIO == recvOut = 0 /\ SendsOut = {} /\ Handlers = {}

\* A slot that can be given to another connection has no I/O of the previous one left: the
\* guarantee of the disconnection protocol around io_pending_count_.
NoReuseWithPendingIO == life \in {"NONE", "INITIALIZING"} => NoPendingIO

\* The same guarantee, until CompleteIO's compare-exchange acts on a count that is no
\* longer zero or on another connection: no other interleaving breaks it.
ReuseAfterIO == ~misfire => NoReuseWithPendingIO

\* Until then io_pending_count_ is exactly the number of requests that are registered,
\* queued or being handled, and each of them carries the key of the present connection.
PendingExact ==
    (~misfire /\ life \notin {"NONE", "INITIALIZING"}) =>
        /\ pending = recvOut + Cardinality(SendsOut) + Cardinality(Handlers)
        /\ recvOut > 0 => recvKey = sid
        /\ \A b \in SendsOut : bufKey[b] = sid
        /\ \A t \in Handlers : iopc[t] # "recv" => iokey[t] = sid

\* The requests of the slot that read or write recv_over_.
RecvHandlers == {t \in IOThreads : iopc[t] \in {"recv", "recvBuffer", "rearm"}}

\* recv_over_ has one user: a registered receive, or the one thread that handles its
\* completion and has not registered the next (no receive before the first one either).
RecvExclusive ==
    ~misfire =>
        /\ recvOut <= 1
        /\ recvOut = 1 => RecvHandlers = {}
        /\ \A t, u \in RecvHandlers : t = u
        /\ (\E t \in IOThreads : iopc[t] = "accepted") => recvOut = 0 /\ RecvHandlers = {}

\* A send buffer has one owner: the worker that fills it, the request that sends it, or the
\* thread that releases it; an AVAILABLE buffer has none.
BufferExclusive ==
    /\ \A b \in Buffers : bufIO[b] => bufState[b] = "IN_USE"
    /\ \A w \in Workers : wpc[w] = "send" =>
          /\ wbuf[w] \in Buffers /\ bufState[wbuf[w]] = "IN_USE" /\ ~bufIO[wbuf[w]]
          /\ \A v \in Workers : wpc[v] = "send" /\ wbuf[v] = wbuf[w] => v = w
          /\ \A t \in IOThreads : iopc[t] \in {"send", "release"} => iobuf[t] # wbuf[w]
    /\ \A t \in IOThreads : iopc[t] \in {"send", "release"} =>
          /\ iobuf[t] \in Buffers /\ bufState[iobuf[t]] = "IN_USE" /\ ~bufIO[iobuf[t]]
          /\ \A u \in IOThreads :
                iopc[u] \in {"send", "release"} /\ iobuf[u] = iobuf[t] => u = t

\* The workers that hold the processing right of the session.
Holders == {w \in Workers : wpc[w] \in {"consume", "begin", "discard", "finalize"}}

\* At most one worker processes the session, and then the right is taken.
SingleConsumer ==
    /\ \A v, w \in Holders : v = w
    /\ right <=> Holders # {}

\* The count and the claim of the holder account for every queued task: a Dequeue of a
\* claimed task never waits for one that does not exist, and no task is left uncounted.
TasksAccounted ==
    /\ (Holders = {} => Len(tasks) = taskCount)
    /\ \A w \in Holders : Len(tasks) = taskCount + wleft[w]

\* A slot that is free, or about to be freed, has no task of its last connection left, and a
\* queued task always belongs to the connection in the slot.
TasksOfConnection ==
    /\ \A i \in 1..Len(tasks) : tasks[i].key = sid
    /\ life \in {"NONE", "INITIALIZING"} => tasks = <<>>

\* The workers that finalize connection k.
Finalizers(k) == {w \in Workers : wpc[w] \in {"finalize", "free"} /\ wkey[w] = k}

\* Until a misfire, a DISCONNECTING connection has exactly one DISCONNECT task or finalizing
\* worker and every other connection has none: it is finalized, and only once.
OneNotice ==
    ~misfire => \A k \in SessionIds :
        notices[k] + Cardinality(Finalizers(k)) =
            IF life = "DISCONNECTING" /\ sid = k THEN 1 ELSE 0

(* The inductive invariant of the slot: what the threads know at each point. *)

\* The slot is named by an id exactly while it is occupied, and only ids that were handed
\* out occur anywhere: an id of InitSession is new to every request, task and notice.
KeysHandedOut ==
    /\ life \in {"NONE", "INITIALIZING"} <=> sid = NoId
    /\ sid \in used \cup {NoId}
    /\ recvKey \in used \cup {NoId}
    /\ \A b \in Buffers : bufKey[b] \in used \cup {NoId}
    /\ \A t \in IOThreads : iokey[t] \in used \cup {NoId}
    /\ \A k \in SessionIds : notices[k] > 0 => k \in used

\* What a worker relies on while it has the right, or has just given it up to free the slot.
HolderState ==
    \A w \in Workers :
        /\ wpc[w] \in {"idle", "send", "finalize", "free"} => wleft[w] = 0
        /\ wpc[w] = "consume" => life = "ACTIVE" /\ wkey[w] = sid
        /\ wpc[w] \in {"begin", "discard"} =>
              life \in {"DISCONNECT_PENDING", "DISCONNECTING"} /\ wkey[w] = sid
        /\ wpc[w] \in {"finalize", "free"} => life = "DISCONNECTING" /\ wkey[w] = sid
        /\ wpc[w] = "free" => tasks = <<>> /\ ~right

\* The connection in the slot has no DISCONNECT task before it is DISCONNECTING and at most
\* one finalization, waiting or running, from then on.
NoticesSound ==
    \A k \in SessionIds : sid = k =>
        /\ life # "DISCONNECTING" => notices[k] = 0
        /\ notices[k] <= 1
        /\ \A w \in Workers : wpc[w] \in {"finalize", "free"} => notices[k] = 0
        /\ \A v, w \in Workers :
              wpc[v] \in {"finalize", "free"} /\ wpc[w] \in {"finalize", "free"} => v = w

\* At most one thread accepts, and the slot it initializes is reserved for it.
AcceptAlone ==
    /\ \A t, u \in IOThreads :
          iopc[t] \in {"init", "accepted"} /\ iopc[u] \in {"init", "accepted"} => t = u
    /\ \A t \in IOThreads : iopc[t] = "init" => life = "INITIALIZING"

\* Without a misfire DISCONNECTING means that no request is registered, and the thread that
\* reads recv_over_ finds the present key in it.
IOSettled ==
    ~misfire =>
        /\ life = "DISCONNECTING" => pending = 0
        /\ \A t \in IOThreads : iopc[t] = "recv" => recvKey = sid

\* A connection with a queued request to disconnect gives up its slot, unless CompleteIO
\* misfires: nothing waits for ever on the I/O count, on the right or on a DISCONNECT task.
DisconnectCompletes ==
    \A k \in SessionIds :
        (sid = k /\ \E i \in 1..Len(tasks) : tasks[i].type = "DISCONNECT")
            ~> (sid # k \/ misfire)
=============================================================================
