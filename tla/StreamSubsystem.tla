-------------------------- MODULE StreamSubsystem ---------------------------
(***************************************************************************)
(* subsystem_stream.sv: what stands between the ADC and the packetizer of  *)
(* module StreamPacketizer. A conversion that is not decimated becomes     *)
(* five words in all-channel mode, half a word if one channel is chosen    *)
(* twice, and one word otherwise. Nothing looks at in_tready here: words   *)
(* that meet a low in_tready are lost.                                     *)
(*                                                                         *)
(* Of a conversion only its time matters, zero in every clock without one; *)
(* of a word, which part of a conversion it is. All registers take their   *)
(* next value from the present ones, with those of the packetizer.         *)
(* Operators whose name begins with Mutant are faulty variants of the      *)
(* definition that follows them; no specification uses them.               *)
(***************************************************************************)
EXTENDS StreamPacketizer

CONSTANTS
    Periods,        \* clocks from one conversion to the next; at least 8, and 8 or 9 for SampRate 0
    Divs,           \* scaled_div: conversions skipped between two that are streamed
    MaxModes        \* bound: times software changes the mode

ASSUME SourceAssumption ==
    /\ Periods \subseteq Nat \ {0} /\ Periods # {}
    /\ Divs \subseteq Nat /\ Divs # {}
    /\ MaxModes \in Nat

VARIABLES
    mode,               \* "all": spare_reg1[3]; "pair": ch0_sel = ch1_sel; or "two"
    modes,              \* times it has changed
    wait,               \* clocks until the next conversion
    div,
    in_tvalid, in_ts,   \* one clock after the ADC; in_ts: there is a time, not zero
    stream_in_tvalid, stream_in_ts, stream_in_beat,
    word,               \* what stream_in_tdata is
    stalled,            \* the DMA engine is not ready
    room,               \* history: space_check one clock ago
    steady,             \* history: no change of mode since the stream was off, at rest
    events,             \* history: streamed conversions since the mode changed, up to 2
    stamped, first      \* history: r_timestamp is not zero, and the frame's first word

sourceVars == <<div, in_tvalid, in_ts, stream_in_tvalid, stream_in_ts, stream_in_beat, word>>
historyVars == <<room, steady, events, stamped, first>>
allVars == <<vars, mode, modes, wait, stalled, sourceVars, historyVars>>

Mode == {"all", "pair", "two"}
Parts == {"none", "start", "rest", "error", "half", "samples"}
Beats == 16

SubsystemTypeOK ==
    /\ TypeOK
    /\ mode \in Mode /\ modes \in 0..MaxModes
    /\ \E p \in Periods : wait \in 0..(p - 1)
    /\ \E d \in Divs : div \in 0..d
    /\ in_tvalid \in BOOLEAN /\ in_ts \in BOOLEAN
    /\ stream_in_tvalid \in BOOLEAN /\ stream_in_ts \in BOOLEAN
    /\ stream_in_beat \in 0..(Beats - 1)
    /\ word \in Parts /\ first \in Parts
    /\ stalled \in BOOLEAN /\ room \in BOOLEAN /\ steady \in BOOLEAN /\ stamped \in BOOLEAN
    /\ events \in 0..2

\* After rst, which leaves stream_in_beat at 0: as if a conversion were going on.
SubsystemInit ==
    /\ Init
    /\ mode \in Mode /\ modes = 0
    /\ wait \in {p - 1 : p \in Periods}
    /\ div = 0 /\ in_tvalid = FALSE /\ in_ts = FALSE
    /\ stream_in_tvalid = FALSE /\ stream_in_ts = FALSE
    /\ stream_in_beat = 0 /\ word = "none"
    /\ stalled = FALSE /\ room = FALSE /\ steady = FALSE /\ events = 0
    /\ stamped = FALSE /\ first = "none"

----------------------------------------------------------------------------
\* The ADC (external): a conversion is valid for one clock.
valid == wait = 0

Adc ==
    IF valid THEN wait' \in {p - 1 : p \in Periods} ELSE wait' = wait - 1

\* One conversion is let through, div of them are skipped.
Decimate ==
    /\ in_ts' = valid
    /\ in_tvalid' = (ena /\ valid /\ div = 0)
    /\ IF ~ena THEN div' = 0
       ELSE IF ~valid THEN UNCHANGED div
       ELSE IF div > 0 THEN div' = div - 1
       ELSE div' \in Divs

\* The count of beats has more than its four bits.
MutantNextBeat == stream_in_beat + 1
NextBeat == (stream_in_beat + 1) % Beats

\* An event has one word more.
MutantLastBeat == 6

\* An event of the all-channel mode is over when its fifth word has gone; the count of
\* beats stays there.
LastBeat == 5

\* A conversion that comes before the last event is over is marked as an error.
StartEvent ==
    /\ mode = "all" /\ in_tvalid
    /\ stream_in_beat' = 1
    /\ word' = IF stream_in_beat = LastBeat THEN "start" ELSE "error"
    /\ stream_in_tvalid' = TRUE

\* The count of beats does not stop.
MutantContinueEvent ==
    /\ mode = "all" /\ ~in_tvalid
    /\ stream_in_beat' = NextBeat
    /\ word' = "rest"
    /\ stream_in_tvalid' = (stream_in_beat # LastBeat)

ContinueEvent ==
    /\ mode = "all" /\ ~in_tvalid
    /\ stream_in_beat' = IF stream_in_beat = LastBeat THEN LastBeat ELSE NextBeat
    /\ word' = "rest"
    /\ stream_in_tvalid' = (stream_in_beat # LastBeat)

\* Two samples of the one channel make a word; the beat tells which of them is next.
PairSamples ==
    /\ mode = "pair"
    /\ stream_in_tvalid' = (in_tvalid /\ stream_in_beat % 2 = 1)
    /\ IF in_tvalid
       THEN /\ stream_in_beat' = NextBeat
            /\ word' = IF stream_in_beat % 2 = 1 THEN "samples" ELSE "half"
       ELSE UNCHANGED <<stream_in_beat, word>>

TwoSamples ==
    /\ mode = "two"
    /\ stream_in_tvalid' = in_tvalid
    /\ word' = "samples"
    /\ UNCHANGED stream_in_beat

\* A time that was there once stays.
MutantStampWord == stream_in_ts' = (in_ts \/ stream_in_ts)

\* The time goes beside the word, one register behind in_ts.
StampWord == stream_in_ts' = in_ts

Source ==
    /\ Adc /\ Decimate /\ StampWord
    /\ StartEvent \/ ContinueEvent \/ PairSamples \/ TwoSamples

----------------------------------------------------------------------------
\* No word is on its way and no event is going on.
AtRest ==
    /\ ~ena /\ in_state = "IDLE"
    /\ ~in_tvalid /\ ~stream_in_tvalid
    /\ mode = "all" => stream_in_beat = LastBeat

\* Software writes a register; it is too slow to switch the stream on again before it
\* has come to rest.
SwitchStream == (ena \/ AtRest) /\ Switch /\ UNCHANGED <<mode, modes>>

SwitchMode ==
    /\ modes < MaxModes
    /\ modes' = modes + 1
    /\ mode' \in Mode \ {mode}
    /\ Keep

NoWrite == Keep /\ UNCHANGED <<mode, modes>>

captured == stream_in_tvalid /\ in_tready

Observe ==
    /\ room' = space_check
    /\ steady' = (mode' = mode /\ (steady \/ AtRest))
    /\ events' = IF mode' # mode THEN 0
                 ELSE IF in_tvalid /\ events < 2 THEN events + 1 ELSE events
    /\ IF in_state = "IDLE" THEN stamped' = stream_in_ts /\ first' = word
                            ELSE UNCHANGED <<stamped, first>>

\* The DMA engine (external) stalls between packets, when it has no descriptor. Only
\* stalls that fill the buffer are of interest.
Dma(ready) ==
    /\ ready \/ out_tfirst
    /\ stalled /\ space_check => ~ready
    /\ stalled' = ~ready

SubsystemNext ==
    /\ \E ready \in BOOLEAN : Dma(ready) /\ Clock(captured, ready)
    /\ Source
    /\ SwitchStream \/ SwitchMode \/ NoWrite
    /\ Observe

SubsystemSpec == SubsystemInit /\ [][SubsystemNext]_allVars

----------------------------------------------------------------------------
\* A frame has just closed: the packetizer took nothing for four clocks, this the last.
JustClosed == in_state = "IDLE" /\ wr_pos = wr_start

\* As long as the mode stays what it was when the stream was switched on, a word is lost
\* only while the buffer is full, with two exceptions in all-channel mode, for frames of
\* whole events. Conversions come eight or nine clocks apart (SampRate 0): after eight,
\* the first word of an event meets the packetizer in the clock after a frame and is
\* lost. And a frame that began inside an event, after that or a full buffer, ends
\* inside one too, and the rest of that one is lost. Nothing is ever lost inside a frame.
LossesExplained ==
    steady /\ ena /\ stream_in_tvalid /\ ~in_tready =>
        \/ in_state = "IDLE" /\ ~room
        \/ mode = "all" /\ word = "start" /\ JustClosed
        \/ mode = "all" /\ word = "rest" /\ first = "rest" /\ in_state # "DATA"

\* A frame that begins in the middle of an event, after words were lost, can be told by
\* its timestamp of zero; every other frame has the time of its first word.
StampTellsStart ==
    steady /\ in_state # "IDLE" => (stamped <=> first \in {"start", "samples"})

\* The comment on the error mark: it occurs just after a change of mode, that is in the
\* first event; no later conversion finds the event before it unfinished.
ErrorMarksSwitch == stream_in_tvalid /\ word = "error" => events <= 1
=============================================================================
