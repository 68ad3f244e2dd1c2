----------------------------- MODULE PacketFifo -----------------------------
(***************************************************************************)
(* What a screen of the client may rely on: the packets the server sent    *)
(* reach handle_packet one at a time, each once, complete and in order.    *)
(* Nothing says that they arrive: a connection may end.                    *)
(***************************************************************************)
EXTENDS Naturals, Sequences

CONSTANT Packets    \* the packets of the protocol

VARIABLES sent,     \* what the server sent on this connection
          handled   \* what the client's screens were given

vars == <<sent, handled>>

Init == /\ sent = << >>
        /\ handled = << >>

Send == /\ \E p \in Packets : sent' = Append(sent, p)
        /\ UNCHANGED handled

Handle == /\ Len(handled) < Len(sent)
          /\ handled' = Append(handled, sent[Len(handled) + 1])
          /\ UNCHANGED sent

Next == Send \/ Handle

Spec == Init /\ [][Next]_vars
=============================================================================
