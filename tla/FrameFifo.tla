----------------------------- MODULE FrameFifo ------------------------------
(***************************************************************************)
(* What axi_stream_ts_data.sv promises. The words taken from the ADC are   *)
(* numbered as they are taken. Each one taken while the stream is on, or   *)
(* while a frame is open, comes out once, in the order taken, in a frame   *)
(* that has a header and the time of its first word before its words. Only *)
(* a word taken while the stream is off and no frame is open is dropped.   *)
(***************************************************************************)
EXTENDS Integers, Sequences

CONSTANTS
    Stamps,         \* input words are numbered 0..(Stamps - 1) and again from 0
    MaxWords,       \* words a frame may have
    Numbers,        \* frame numbers are 0..(Numbers - 1) and wrap
    Cuts            \* whether the stream may be switched off between two words

VARIABLES
    on,             \* whether the stream is on
    input,          \* number of the next word to be taken, which is also its time
    num,            \* number of the last frame begun
    open,           \* the words of the frame being collected
    fifo            \* the words of closed frames that are still to be taken

vars == <<on, input, num, open, fifo>>

\* A word on the wire: what it holds, and whether it ends a frame.
Word(kind, value, last) == [kind |-> kind, value |-> value, last |-> last]

Header(n, len) == Word("header", <<n, len>>, FALSE)

\* The header counts the words that follow it.
Frame(n, words, len) ==
    <<Header(n, len), Word("time", Head(words), FALSE)>>
        \o [i \in 1..Len(words) |-> Word("data", words[i], i = Len(words))]

Init ==
    /\ on = FALSE /\ input = 0
    /\ num = 0
    /\ open = << >>
    /\ fifo = << >>

\* Taking a word is the only thing that advances the input.
Taken == input' = (input + 1) % Stamps

Begin ==
    /\ open = << >> /\ on
    /\ Taken
    /\ open' = <<input>>
    /\ num' = (num + 1) % Numbers

Add ==
    /\ open # << >>
    /\ Len(open) < MaxWords
    /\ Taken
    /\ open' = Append(open, input)
    /\ UNCHANGED num

Drop ==
    /\ open = << >> /\ ~on
    /\ Taken
    /\ UNCHANGED <<num, open>>

\* A frame that was cut between two words is announced one word too long.
Close(rest) ==
    /\ open # << >>
    /\ \E extra \in IF Cuts THEN {0, 1} ELSE {0} :
         fifo' = rest \o Frame(num, open, Len(open) + 1 + extra)
    /\ open' = << >>
    /\ UNCHANGED <<input, num>>

\* In one clock the stream may be switched, and a word may be taken from the front of
\* the queue, while a frame grows or closes.
Next ==
    \E rest \in {fifo} \cup (IF fifo = << >> THEN {} ELSE {Tail(fifo)}) :
        /\ on' \in BOOLEAN
        /\ \/ (Begin \/ Add \/ Drop) /\ fifo' = rest
           \/ Close(rest)
           \/ UNCHANGED <<input, num, open>> /\ fifo' = rest

Spec == Init /\ [][Next]_vars
=============================================================================
