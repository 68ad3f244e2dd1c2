---------------------------- MODULE PacketStream ----------------------------
(***************************************************************************)
(* The client's connection (net/network.py, net/packet_manager.py) and the *)
(* part of the main loop that empties its queue (main/game_loop.py).       *)
(*                                                                         *)
(* The server's packets travel as a stream of bytes.  The receive thread   *)
(* takes fragments of any length from the socket, merges them into         *)
(* recv_buffer, cuts complete packets off it, decodes them and puts them   *)
(* on a bounded queue, spinning while it is full.  The main thread empties *)
(* the queue between two frames, except while the screen is about to       *)
(* change.  A byte is a pair: which packet it belongs to, and which byte   *)
(* of it it is.                                                            *)
(***************************************************************************)
EXTENDS PacketLayout, Integers

CONSTANTS
    Traffic,     \* bound: pairs of what the server has sent and the client's last packet
    Chunks,      \* fragment lengths the socket may return, next to all there is
    BUF_SIZE,    \* the most one recv returns
    MaxQueue,    \* MAX_QUEUE_SIZE
    NoPacket     \* neither a packet nor a request

ASSUME StreamAssumption ==
    /\ BUF_SIZE \in Nat \ {0} /\ MaxQueue \in Nat \ {0}
    /\ Chunks \subseteq Nat \ {0}
    /\ \A t \in Traffic : /\ t[1] \in Seq(ServerPackets \cup Range(ServerTest))
                         /\ t[2] \in BuilderPackets \cup {NoPacket}

VARIABLES
    link,         \* the connection: "none", "up", "fin" closed by the server, "reset"
    running,      \* NetworkWorker.running
    sock_open,    \* NetworkWorker.sock has not been closed by the receive thread
    sent,         \* the packets the server sent, in their order
    stream,       \* their bytes: <<i, k>> is byte k of packet i
    arrived,      \* how many bytes of the stream recv has returned
    thread,       \* the receive thread: "none", "recv", "cut", "put" or "ended"
    recv_buffer,  \* PacketManager.recv_buffer
    offset,       \* process_packet's offset into it
    data,         \* the decoded packet the thread is putting
    queue,        \* PacketManager.queue
    handled,      \* the packets given to a screen
    changing,     \* state.next_state is not None
    request       \* the last packet sent: as the client built it, as the server reads it

socket == <<link, running, sock_open>>
buffer == <<recv_buffer, offset, data>>
Down == UNION {Range(t[1]) : t \in Traffic}   \* the packets the server sends
Up == {t[2] : t \in Traffic} \ {NoPacket}     \* the packets the client's builder sends
streamVars == <<socket, sent, stream, arrived, thread, buffer, queue, handled, changing, request>>

-----------------------------------------------------------------------------
\* struct.unpack_from("<H", buf, offset): the size, when the two bytes are the
\* size field of a packet; what else stands there is no valid size.
ReadSize(at) ==
    IF recv_buffer[at + 1][2] = 1 /\ recv_buffer[at + 2] = <<recv_buffer[at + 1][1], 2>>
    THEN SizeOf(sent[recv_buffer[at + 1][1]].body)
    ELSE 0

\* bytes_to_struct raises for a type that is not registered, and struct.unpack
\* for a packet whose length is not that of the format.
Decodes(packet) ==
    /\ Registered(packet.type)
    /\ SizeOf(StructType(packet.type).body) = SizeOf(packet.body)

\* fill_data: the fields of the packet as the client's format splits them.
Filled(packet) == Packet(packet.type, StructType(packet.type).body)

HasHeader == Len(recv_buffer) - offset >= HeaderSize
HasPacket == HasHeader /\ Len(recv_buffer) - offset >= ReadSize(offset)

-----------------------------------------------------------------------------
StreamInit ==
    /\ link = "none" /\ running = FALSE /\ sock_open = FALSE
    /\ sent = << >> /\ stream = << >> /\ arrived = 0 /\ thread = "none"
    /\ recv_buffer = << >> /\ offset = 0 /\ data = NoPacket
    /\ queue = << >> /\ handled = << >> /\ changing = FALSE
    /\ request = [wrote |-> NoPacket, read |-> NoPacket]

\* connect_to_server succeeds; a failed attempt leaves everything as it was
\* and the login screen offers another one.
Connect ==
    /\ link = "none"
    /\ link' = "up" /\ running' = TRUE /\ sock_open' = TRUE /\ thread' = "recv"
    /\ UNCHANGED <<sent, stream, arrived, buffer, queue, handled, changing, request>>

\* The server (external): it sends a packet, closes the connection, or the
\* connection breaks and what was under way is lost.
ServerSend ==
    /\ link = "up"
    /\ \E p \in Down :
         /\ <<Append(sent, p), request.wrote>> \in Traffic
         /\ sent' = Append(sent, p)
         /\ stream' = stream \o [k \in 1..SizeOf(p.body) |-> <<Len(sent) + 1, k>>]
    /\ UNCHANGED <<socket, arrived, thread, buffer, queue, handled, changing, request>>

ServerCloses ==
    /\ link = "up"
    /\ \E end \in {"fin", "reset"} : link' = end
    /\ UNCHANGED <<running, sock_open, sent, stream, arrived, thread, buffer, queue, handled, changing, request>>

\* merge_packet
Merged(fragment) == recv_buffer \o fragment

\* recv_loop: a fragment arrives and is merged.
Recv ==
    /\ thread = "recv" /\ link \in {"up", "fin"}
    /\ LET there == Len(stream) - arrived
       IN \E n \in Chunks \cup {there, BUF_SIZE} :
            /\ n \in 1..there /\ n <= BUF_SIZE
            /\ arrived' = arrived + n
            /\ recv_buffer' = Merged(SubSeq(stream, arrived + 1, arrived + n))
    /\ offset' = 0 /\ thread' = "cut"
    /\ UNCHANGED <<socket, sent, stream, data, queue, handled, changing, request>>

\* recv_loop: an empty fragment ends the loop; an exception also closes the
\* socket.  Neither clears running.
RecvEnds ==
    /\ thread = "recv"
    /\ \/ link = "fin" /\ arrived = Len(stream) /\ UNCHANGED sock_open
       \/ link = "reset" /\ sock_open' = FALSE
    /\ thread' = "ended"
    /\ UNCHANGED <<link, running, sent, stream, arrived, buffer, queue, handled, changing, request>>

\* Mutant: what was cut stays in the buffer.
EndProcessKept ==
    /\ thread = "cut" /\ ~HasPacket
    /\ thread' = "recv" /\ offset' = 0
    /\ UNCHANGED <<socket, sent, stream, arrived, recv_buffer, data, queue, handled, changing, request>>

\* process_packet: no complete packet is left; what was cut is deleted.
EndProcess ==
    /\ thread = "cut" /\ ~HasPacket
    /\ recv_buffer' = SubSeq(recv_buffer, offset + 1, Len(recv_buffer))
    /\ offset' = 0 /\ thread' = "recv"
    /\ UNCHANGED <<socket, sent, stream, arrived, data, queue, handled, changing, request>>

\* process_packet: the next packet is cut and decoded.
CutPacket ==
    /\ thread = "cut" /\ HasPacket
    /\ LET packet == sent[recv_buffer[offset + 1][1]]
       IN /\ ReadSize(offset) >= HeaderSize /\ Decodes(packet)
          /\ data' = Filled(packet)
    /\ thread' = "put"
    /\ UNCHANGED <<socket, sent, stream, arrived, recv_buffer, offset, queue, handled, changing, request>>

\* process_packet raises: an impossible size, an unknown type, a wrong length.
\* recv_loop closes the socket and the thread is gone.
CutFails ==
    /\ thread = "cut" /\ HasPacket
    /\ ~(ReadSize(offset) >= HeaderSize /\ Decodes(sent[recv_buffer[offset + 1][1]]))
    /\ thread' = "ended" /\ sock_open' = FALSE
    /\ UNCHANGED <<link, running, sent, stream, arrived, buffer, queue, handled, changing, request>>

\* Mutant: one packet per fragment is cut, the rest waits for the next one.
PutThenRecv ==
    /\ thread = "put" /\ Len(queue) < MaxQueue
    /\ queue' = Append(queue, data) /\ data' = NoPacket
    /\ recv_buffer' = SubSeq(recv_buffer, offset + ReadSize(offset) + 1, Len(recv_buffer))
    /\ offset' = 0 /\ thread' = "recv"
    /\ UNCHANGED <<socket, sent, stream, arrived, handled, changing, request>>

\* put_nowait succeeds once the queue has room; until then the thread spins.
Put ==
    /\ thread = "put" /\ Len(queue) < MaxQueue
    /\ queue' = Append(queue, data) /\ data' = NoPacket
    /\ offset' = offset + ReadSize(offset) /\ thread' = "cut"
    /\ UNCHANGED <<socket, sent, stream, arrived, recv_buffer, handled, changing, request>>

\* drain_packets: one packet to the screen, which may queue its successor.
DrainPacket ==
    /\ queue # << >> /\ ~changing
    /\ queue' = Tail(queue) /\ handled' = Append(handled, Head(queue))
    /\ changing' \in BOOLEAN
    /\ UNCHANGED <<socket, sent, stream, arrived, thread, buffer, request>>

\* update: the fade-out is over and the next screen takes the place of this one.
ChangeScreen ==
    /\ changing
    /\ changing' = FALSE
    /\ UNCHANGED <<socket, sent, stream, arrived, thread, buffer, queue, handled, request>>

\* send_packet: the bytes of a builder's packet, which the server casts to the
\* struct of its type; on a socket that is closed or broken it only returns False.
SendPacket ==
    /\ running /\ sock_open /\ link = "up"
    /\ \E p \in Up : <<sent, p>> \in Traffic /\ request' = [wrote |-> p,
                                 read |-> CHOOSE q \in ServerCasts : q.type = p.type]
    /\ UNCHANGED <<socket, sent, stream, arrived, thread, buffer, queue, handled, changing>>

\* Nothing is left to do: the run of the model ends here.
Finished ==
    /\ thread = "ended" /\ queue = << >> /\ ~changing
    /\ UNCHANGED streamVars

StreamNext ==
    \/ Connect \/ ServerSend \/ ServerCloses
    \/ Recv \/ RecvEnds \/ EndProcess \/ CutPacket \/ CutFails \/ Put
    \/ DrainPacket \/ ChangeScreen \/ SendPacket \/ Finished

StreamSpec == StreamInit /\ [][StreamNext]_streamVars

\* The receive thread and the main thread are scheduled, TCP delivers what it
\* carries, and a fade-out takes half a second of frames.
StreamFairness ==
    /\ WF_streamVars(Recv) /\ WF_streamVars(RecvEnds)
    /\ WF_streamVars(EndProcess) /\ WF_streamVars(CutPacket) /\ WF_streamVars(CutFails) /\ WF_streamVars(Put)
    /\ WF_streamVars(DrainPacket) /\ WF_streamVars(ChangeScreen)

FairStream == StreamSpec /\ StreamFairness

-----------------------------------------------------------------------------
\* The variables stay in their types; in particular the queue never outgrows
\* MAX_QUEUE_SIZE.
StreamTyped ==
    /\ link \in {"none", "up", "fin", "reset"} /\ running \in BOOLEAN /\ sock_open \in BOOLEAN
    /\ sent \in Seq(Down) /\ arrived \in 0..Len(stream)
    /\ thread \in {"none", "recv", "cut", "put", "ended"}
    /\ offset \in 0..Len(recv_buffer) /\ Len(queue) <= MaxQueue /\ changing \in BOOLEAN

\* recv_buffer holds, from the offset on, the last bytes that were received, and they
\* begin with the packet after those on the queue or handled, so that a size is only
\* ever read at a packet boundary.
BufferAligned ==
    LET cut == arrived - (Len(recv_buffer) - offset)
        packets == Len(handled) + Len(queue)
    IN /\ SubSeq(recv_buffer, offset + 1, Len(recv_buffer)) = SubSeq(stream, cut + 1, arrived)
       /\ IF cut = Len(stream) THEN packets = Len(sent) ELSE stream[cut + 1] = <<packets + 1, 1>>

\* S2C_TEST, which the load generator's packets make the server send.
Foreign(n) == \E i \in 1..n : ~Registered(sent[i].type) /\ sent[i] \in Range(ServerTest)

\* The receive thread only ends when the connection did: every packet the server
\* sends, the load generator's test packet apart, has a format of the same length
\* in the client's registry (recv_loop, bytes_to_struct).
ThreadLives == thread = "ended" => link # "up" \/ Foreign(Len(sent))

\* The server reads the fields of a request where the client's builder wrote them.
RequestUnderstood == request.read = request.wrote

\* The connection is sound on both sides: the types, the alignment of the buffer, a
\* receive thread that lives as long as the connection, and requests that the server
\* reads as they were built (process_packet, recv_loop, send_packet).
StreamSound == StreamTyped /\ BufferAligned /\ ThreadLives /\ RequestUnderstood

\* The byte stream, the buffer, the queue and the drain implement a plain queue of
\* packets: whatever fragments recv returned, what a screen is given is what the
\* server sent, packet by packet and field by field, with nothing lost, doubled or
\* reordered (merge_packet, process_packet, bytes_to_struct, drain_packets).
Fifo == INSTANCE PacketFifo WITH Packets <- Down
Implements == Fifo!Spec

\* A packet that was sent is handled, unless the connection or the thread ends:
\* neither a full queue, nor a split packet, nor a change of screen holds it back
\* for good (process_packet, drain_packets).
AllHandled == \A n \in {Len(t[1]) : t \in Traffic} \ {0} :
    Len(sent) >= n ~> (Len(handled) >= n \/ link # "up" \/ Foreign(Len(sent)))
=============================================================================
