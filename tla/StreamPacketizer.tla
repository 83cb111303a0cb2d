-------------------------- MODULE StreamPacketizer ---------------------------
(***************************************************************************)
(* axi_stream_ts_data.sv: the circuit that frames the ADC stream. A state  *)
(* machine writes a frame's words into a circular buffer from the third    *)
(* word on, goes back for the header and the timestamp, and only then      *)
(* shows the frame to the read side. Every step is one clock; all          *)
(* registers take their next value from the present ones.                  *)
(* Operators whose name begins with Mutant are faulty variants of the      *)
(* definition that follows them; no specification uses them.               *)
(***************************************************************************)
EXTENDS Integers, Sequences

CONSTANTS
    Depth,          \* words in the buffer: 2^15 in the code
    MaxPktLen,      \* MAX_PKT_LEN, 8192 in the code
    NumSamples,     \* what STREAM_CTRL may ask for
    Stamps,         \* input words are numbered 0..(Stamps - 1) and again from 0
    Numbers,        \* frame numbers wrap: 2^32 in the code
    Cuts,           \* whether the stream may be switched off between two words
    MaxSwitches     \* bound: times STREAM_CTRL is written to switch the stream

ASSUME SizeAssumption ==
    /\ MaxPktLen \in Nat /\ MaxPktLen > 2
    /\ Depth \in Nat /\ Depth > MaxPktLen
    /\ NumSamples \subseteq Nat \ {0}
    /\ Stamps \in Nat \ {0} /\ Numbers \in Nat \ {0}
    /\ Cuts \in BOOLEAN
    /\ MaxSwitches \in Nat

\* wr_cnt, max_samples and the field of STREAM_CTRL have 16 bits and must not wrap.
ASSUME WidthAssumption == MaxPktLen < 65536 /\ \A asked \in NumSamples : asked < 65536

VARIABLES
    ena,            \* STREAM_CTRL: Ena
    switches,       \* times it has changed
    stamp,          \* the input word, which is also its timestamp
    in_state, in_tready, in_pkts, num_pkts_in,
    wr_ena, wr_dat, wr_cnt, wr_pos, wr_start,
    max_samples, r_timestamp,
    r_data,         \* the buffer
    used, space_check,
    rd_pos, out_pkts, out_tvalid, out_tfirst,
    out             \* out_tdata and out_tlast

inVars == <<ena, switches, stamp>>
writeVars == <<in_state, in_tready, in_pkts, num_pkts_in, wr_ena, wr_dat, wr_cnt,
               wr_pos, wr_start, max_samples, r_timestamp>>
spaceVars == <<used, space_check>>
readVars == <<rd_pos, out_pkts, out_tvalid, out_tfirst, out>>
vars == <<inVars, writeVars, r_data, spaceVars, readVars>>

\* Positions have one bit more than the buffer needs, frame counts have not.
Pos(p) == p % (2 * Depth)
Cell(p) == p % Depth
Stamp == 0..(Stamps - 1)

Word(kind, value, last) == [kind |-> kind, value |-> value, last |-> last]
Nothing == Word("none", 0, FALSE)

TypeOK ==
    /\ ena \in BOOLEAN /\ switches \in 0..MaxSwitches /\ stamp \in Stamp
    /\ in_state \in {"IDLE", "DATA", "WR_LEN", "WR_TS", "WR_UPDATE"}
    /\ in_tready \in BOOLEAN /\ wr_ena \in BOOLEAN
    /\ in_pkts \in 0..(Depth - 1) /\ out_pkts \in 0..(Depth - 1)
    /\ num_pkts_in \in 0..(Numbers - 1)
    /\ wr_cnt \in 0..MaxPktLen + 1
    /\ wr_pos \in 0..(2 * Depth - 1) /\ wr_start \in 0..(2 * Depth - 1)
    /\ rd_pos \in 0..(2 * Depth - 1)
    /\ max_samples \in 0..(MaxPktLen - 3)
    /\ r_timestamp \in Stamp
    /\ used \in 0..Depth
    /\ space_check \in BOOLEAN
    /\ out_tvalid \in BOOLEAN /\ out_tfirst \in BOOLEAN
    /\ DOMAIN r_data = 0..(Depth - 1)
    /\ \A w \in {out, wr_dat} \cup {r_data[i] : i \in DOMAIN r_data} :
          w.kind \in {"none", "header", "time", "data"} /\ w.last \in BOOLEAN

\* After rst, whose clock still latches nothing.
Init ==
    /\ ena = FALSE /\ switches = 0 /\ stamp = 0
    /\ in_state = "IDLE" /\ in_tready = FALSE
    /\ in_pkts = 0 /\ num_pkts_in = 0
    /\ wr_ena = FALSE /\ wr_dat = Nothing /\ wr_cnt = 0
    /\ wr_pos = 0 /\ wr_start = 0
    /\ max_samples = 0 /\ r_timestamp = 0
    /\ r_data = [i \in 0..(Depth - 1) |-> Nothing]
    /\ used = 0 /\ space_check = FALSE
    /\ rd_pos = 0 /\ out_pkts = 0
    /\ out_tvalid = FALSE /\ out_tfirst = FALSE /\ out = Nothing

----------------------------------------------------------------------------
(* The write side. `captured` says that a word is taken in this clock.     *)

Frozen == UNCHANGED <<in_pkts, num_pkts_in, wr_start, r_timestamp, max_samples>>

MaxSamples == MaxPktLen - 2

\* What STREAM_CTRL asks for is not limited.
MutantLimit(asked) == asked
Limit(asked) == IF asked > MaxSamples THEN MaxSamples ELSE asked

\* In ST_IDLE: where the words of the next frame go, and how many there may be.
Prepare ==
    /\ in_state = "IDLE"
    /\ wr_pos' = Pos(wr_start + 2)
    /\ r_timestamp' = stamp
    /\ \E asked \in NumSamples : max_samples' = Limit(asked) - 1
    /\ UNCHANGED <<wr_start, in_pkts>>

\* max_pkt_len, which nothing drives, is not 3: a frame never has only one word here.
Begin(captured) ==
    /\ Prepare
    /\ captured /\ ena
    /\ num_pkts_in' = (num_pkts_in + 1) % Numbers
    /\ wr_cnt' = 2
    /\ wr_dat' = Word("data", stamp, FALSE)
    /\ wr_ena' = TRUE
    /\ in_tready' = TRUE
    /\ in_state' = "DATA"

\* Words that arrive while the stream is off are dropped.
Idle(captured) ==
    /\ Prepare
    /\ ~(captured /\ ena)
    /\ wr_cnt' = 0
    /\ wr_ena' = FALSE
    /\ in_tready' = space_check
    /\ UNCHANGED <<num_pkts_in, wr_dat, in_state>>

AddWord(captured) ==
    /\ in_state = "DATA"
    /\ captured
    /\ wr_pos' = Pos(wr_pos + 1)
    /\ wr_cnt' = wr_cnt + 1
    /\ wr_ena' = TRUE
    /\ Frozen

\* The stream was switched off or the frame is full; in_tlast is tied to zero.
IsLast == ~ena \/ wr_cnt > max_samples

More(captured) ==
    /\ AddWord(captured)
    /\ ~IsLast
    /\ wr_dat' = Word("data", stamp, FALSE)
    /\ UNCHANGED <<in_tready, in_state>>

Full(captured) ==
    /\ AddWord(captured)
    /\ IsLast
    /\ wr_dat' = Word("data", stamp, TRUE)
    /\ in_tready' = FALSE
    /\ in_state' = "WR_LEN"

\* The last word is written again at the next position: it is there twice.
MutantCut(captured) ==
    /\ in_state = "DATA"
    /\ ~captured /\ ~ena
    /\ wr_dat' = [wr_dat EXCEPT !.last = TRUE]
    /\ wr_cnt' = wr_cnt + 1
    /\ wr_ena' = TRUE
    /\ in_tready' = FALSE
    /\ in_state' = "WR_LEN"
    /\ wr_pos' = Pos(wr_pos + 1)
    /\ Frozen

\* A stream that was switched off waits for its next word.
MutantCutWaits(captured) ==
    /\ in_state = "DATA"
    /\ ~captured /\ ~ena
    /\ in_tready' = TRUE
    /\ wr_ena' = FALSE
    /\ UNCHANGED <<in_state, wr_dat, wr_cnt, wr_pos>>
    /\ Frozen

\* Switched off between two words: the last one is written again, and counted again.
Cut(captured) ==
    /\ in_state = "DATA"
    /\ ~captured /\ ~ena
    /\ wr_dat' = [wr_dat EXCEPT !.last = TRUE]
    /\ wr_cnt' = wr_cnt + 1
    /\ wr_ena' = TRUE
    /\ in_tready' = FALSE
    /\ in_state' = "WR_LEN"
    /\ UNCHANGED wr_pos
    /\ Frozen

WaitForWord(captured) ==
    /\ in_state = "DATA"
    /\ ~captured /\ ena
    /\ in_tready' = TRUE
    /\ wr_ena' = FALSE
    /\ UNCHANGED <<in_state, wr_dat, wr_cnt, wr_pos>>
    /\ Frozen

WriteLength ==
    /\ in_state = "WR_LEN"
    /\ wr_start' = Pos(wr_pos + 1)
    /\ wr_pos' = wr_start
    /\ wr_dat' = Word("header", <<num_pkts_in, wr_cnt>>, FALSE)
    /\ wr_ena' = TRUE
    /\ wr_cnt' = 0
    /\ in_state' = "WR_TS"
    /\ UNCHANGED <<in_tready, in_pkts, num_pkts_in, r_timestamp, max_samples>>

WriteTimestamp ==
    /\ in_state = "WR_TS"
    /\ wr_pos' = Pos(wr_pos + 1)
    /\ wr_dat' = Word("time", r_timestamp, FALSE)
    /\ wr_ena' = TRUE
    /\ in_state' = "WR_UPDATE"
    /\ UNCHANGED <<in_tready, wr_cnt>>
    /\ Frozen

\* The frame is not shown to the read side.
MutantShow == UNCHANGED in_pkts
Show == in_pkts' = (in_pkts + 1) % Depth

Update ==
    /\ in_state = "WR_UPDATE"
    /\ Show
    /\ wr_pos' = wr_start
    /\ wr_dat' = Nothing
    /\ wr_ena' = FALSE
    /\ in_state' = "IDLE"
    /\ UNCHANGED <<in_tready, wr_cnt, num_pkts_in, wr_start, r_timestamp, max_samples>>

WriteSide(captured) ==
    \/ Begin(captured) \/ Idle(captured)
    \/ More(captured) \/ Full(captured)
    \/ Cut(captured) \/ WaitForWord(captured)
    \/ WriteLength \/ WriteTimestamp \/ Update

\* The memory: what was latched in the clock before goes in now.
Written == IF wr_ena THEN [r_data EXCEPT ![Cell(wr_pos)] = wr_dat] ELSE r_data
Store == r_data' = Written

----------------------------------------------------------------------------
(* The space check, two registers behind the positions, unsigned.          *)

\* Only the samples of a frame are allowed for.
MutantSpace ==
    /\ used' = Pos(wr_start - rd_pos)
    /\ space_check' = (used > Depth \/ Depth - used > MaxSamples)

Space ==
    /\ used' = Pos(wr_start - rd_pos)
    /\ space_check' = (used > Depth \/ Depth - used > MaxPktLen)

----------------------------------------------------------------------------
(* The read side.                                                          *)

Fetch ==
    /\ out' = r_data[Cell(rd_pos)]
    /\ out_tvalid' = TRUE
    /\ rd_pos' = Pos(rd_pos + 1)
    /\ UNCHANGED out_pkts

First ==
    /\ ~out_tvalid
    /\ in_pkts # out_pkts
    /\ Fetch
    /\ out_tfirst' = TRUE

Empty ==
    /\ ~out_tvalid
    /\ in_pkts = out_pkts
    /\ out' = Nothing
    /\ out_tfirst' = FALSE
    /\ UNCHANGED <<out_tvalid, rd_pos, out_pkts>>

Following(ready) ==
    /\ out_tvalid /\ ready
    /\ ~out.last
    /\ Fetch
    /\ out_tfirst' = FALSE

Finish(ready) ==
    /\ out_tvalid /\ ready
    /\ out.last
    /\ out' = Nothing
    /\ out_tvalid' = FALSE
    /\ out_tfirst' = FALSE
    /\ out_pkts' = (out_pkts + 1) % Depth
    /\ UNCHANGED rd_pos

Hold(ready) ==
    /\ out_tvalid /\ ~ready
    /\ UNCHANGED readVars

ReadSide(ready) == First \/ Empty \/ Following(ready) \/ Finish(ready) \/ Hold(ready)

----------------------------------------------------------------------------
(* One clock. The source does not look at in_tready: a word that meets a   *)
(* low in_tready is lost, so only words that are captured are numbered.    *)
Clock(captured, ready) ==
    /\ captured => in_tready
    /\ Cuts \/ ena \/ captured \/ in_state # "DATA"
    /\ WriteSide(captured)
    /\ stamp' = IF captured THEN (stamp + 1) % Stamps ELSE stamp
    /\ Store /\ Space /\ ReadSide(ready)

\* Software writes the enable bit.
Switch ==
    /\ switches < MaxSwitches
    /\ ena' = ~ena
    /\ switches' = switches + 1

Keep == UNCHANGED <<ena, switches>>

Next == \E captured, ready \in BOOLEAN : Clock(captured, ready) /\ (Keep \/ Switch)

\* The clock runs. Now and then there is a clock without a word from the ADC, which is
\* slower than the clock, and with the DMA engine ready to take one.
Spec == Init /\ [][Next]_vars /\ WF_vars(Clock(FALSE, TRUE) /\ Keep)

----------------------------------------------------------------------------
(* The refinement mapping.                                                 *)

\* Where the closed frames end: wr_start runs ahead while a header is written.
Committed ==
    CASE in_state = "WR_TS" -> wr_pos
      [] in_state = "WR_UPDATE" -> Pos(wr_pos - 1)
      [] OTHER -> wr_start

\* Where the words of the open frame end.
Collected ==
    CASE in_state = "IDLE" -> Pos(wr_start + 2)
      [] in_state \in {"DATA", "WR_LEN"} -> Pos(wr_pos + 1)
      [] OTHER -> wr_start

\* The words stored from one position up to another.
Stored(from, to) == [i \in 1..Pos(to - from) |-> Written[Cell(from + i - 1)]]

Unread == Stored(rd_pos, Committed)
Open == Stored(Pos(Committed + 2), Collected)

Fifo == INSTANCE FrameFifo
    WITH MaxWords <- IF MaxPktLen < 4 THEN 2 ELSE MaxSamples,
         on <- ena,
         input <- stamp,
         num <- num_pkts_in,
         open <- [i \in DOMAIN Open |-> Open[i].value],
         fifo <- (IF out_tvalid THEN <<out>> ELSE << >>) \o Unread

\* Every word that is captured while the stream is on or a frame is open comes out, once
\* and in order, and nothing else does: in whole frames, each with its number and the
\* time of its first word. The length of a frame that was cut may be one too many.
FifoSpec == Fifo!Spec

\* The write side never reaches a word the read side has yet to fetch: the check of
\* the space is old enough to be passed and recent enough to be right.
NoOverrun ==
    /\ in_state # "IDLE" => Pos(Collected - rd_pos) <= Depth
    /\ wr_ena => \A i \in 0..(Len(Unread) - 1) : Cell(rd_pos + i) # Cell(wr_pos)

\* The circuit gets ready for another word again and again.
ReadyAgain == []<>in_tready

\* Switching the stream off flushes what was collected.
FlushedWhenOff == <>[]~ena => <>[](Open = << >> /\ Unread = << >> /\ ~out_tvalid)

\* The length in a header is what dma_thread takes it for: the words after the header,
\* of which all but the timestamp are samples (task_dma.c:166).
HeaderCountsWords ==
    out_tvalid /\ out_tfirst =>
        LET len == out.value[2] IN
        /\ len \in DOMAIN Unread
        /\ Unread[len].last
        /\ \A i \in 1..(len - 1) : ~Unread[i].last
=============================================================================
