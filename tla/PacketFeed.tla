----------------------------- MODULE PacketFeed -----------------------------
(***************************************************************************)
(* What the DMA path promises to a subscriber of the ZeroMQ socket: the    *)
(* hardware stream yields packets 1, 2, 3, ... and the subscriber receives *)
(* some of them, in stream order, each at most once and each whole (header *)
(* and body of the same packet).  Packets may be lost; they are never      *)
(* reordered, repeated or torn.                                            *)
(***************************************************************************)
EXTENDS Naturals, Sequences

VARIABLES
    arrived,    \* how many packets the stream has yielded
    out         \* the messages sent to the subscriber: [hdr, body] packet numbers

vars == <<arrived, out>>

Whole(p) == [hdr |-> p, body |-> p]

Init ==
    /\ arrived = 0
    /\ out = << >>

Arrive ==
    /\ arrived' = arrived + 1
    /\ UNCHANGED out

\* Packet p reaches the subscriber; every packet sent before it is older.
Deliver(p) ==
    /\ p \in 1..arrived
    /\ \A i \in DOMAIN out : out[i].hdr < p
    /\ out' = Append(out, Whole(p))
    /\ UNCHANGED arrived

Next == Arrive \/ \E p \in 1..arrived : Deliver(p)

Spec == Init /\ [][Next]_vars
=============================================================================
