----------------------------- MODULE MCDmaProxy -----------------------------
(* Small instances of DmaProxy for TLC.                                    *)
EXTENDS DmaProxy

\* One kind of averaged packet, one of samples, and one nobody knows.
MCPacket == {[id |-> "AVG", len |-> 2], [id |-> "ADC", len |-> 3],
             [id |-> "OTHER", len |-> 1]}
=============================================================================
