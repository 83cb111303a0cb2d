----------------------- MODULE StreamSubsystem_proofs ------------------------
(***************************************************************************)
(* Theorems about StreamSubsystem: the packetizer keeps its promises       *)
(* behind the stream source; an event that begins finds the one before it  *)
(* over; a frame's timestamp tells whether it began with an event; and as  *)
(* long as the mode stays what it was, it is known which words are lost.   *)
(* All of this is about clocks: the source has eight or more from one      *)
(* conversion to the next, five of which the words of an event take, and   *)
(* the packetizer takes nothing for four when it has closed a frame.       *)
(***************************************************************************)
EXTENDS StreamSubsystem, StreamPacketizer_proofs

USE SourceAssumption DEF SourceAssumption

(***************************************************************************)
(* The packetizer inside the subsystem.                                    *)
(***************************************************************************)

\* A clock of the subsystem is one of the packetizer, whatever the source does.
LEMMA ClockOfPacketizer == [SubsystemNext]_allVars => [Next]_vars
<1>1. SubsystemNext => Next
  <2> SUFFICES ASSUME SubsystemNext PROVE Next
    OBVIOUS
  <2>1. PICK ready \in BOOLEAN : Clock(captured, ready)
    BY DEF SubsystemNext
  <2>2. Keep \/ Switch
    BY DEF SubsystemNext, SwitchStream, SwitchMode, NoWrite
  <2>3. PICK taken \in BOOLEAN : Clock(taken, ready)
    <3>1. captured \in BOOLEAN
      BY DEF captured
    <3> QED
      BY <2>1, <3>1
  <2> QED
    BY <2>2, <2>3 DEF Next
<1>2. UNCHANGED allVars => UNCHANGED vars
  BY DEF allVars
<1> QED
  BY <1>1, <1>2

LEMMA PacketizerInv == SubsystemSpec => []FullInv
<1>1. SubsystemInit => FullInv
  BY MapsInit DEF SubsystemInit
<1>2. FullInv /\ [SubsystemNext]_allVars => FullInv'
  BY ClockOfPacketizer, FullNext
<1> QED
  BY <1>1, <1>2, PTL DEF SubsystemSpec

\* What a clock does to the registers that the source's properties speak of.
SourceStep ==
    /\ Source /\ Observe
    /\ SwitchStream \/ SwitchMode \/ NoWrite
    /\ WriteSide(captured) /\ (captured => in_tready)

LEMMA StepOfSource == SubsystemNext => SourceStep
  BY DEF SubsystemNext, SourceStep, Clock

\* The source without the packetizer and the history.
SourceRegisters ==
    UNCHANGED <<mode, modes, wait, div, in_tvalid, in_ts, stream_in_tvalid, stream_in_ts,
                stream_in_beat, word, steady, events, stamped, first, room>>

LEMMA Stutter == UNCHANGED allVars => SourceRegisters /\ UNCHANGED <<ena, writeVars>>
  BY DEF allVars, vars, inVars, sourceVars, historyVars, SourceRegisters

(***************************************************************************)
(* Type correctness.                                                       *)
(***************************************************************************)

SourceTyped ==
    /\ mode \in Mode /\ modes \in 0..MaxModes
    /\ \E p \in Periods : wait \in 0..(p - 1)
    /\ \E d \in Divs : div \in 0..d
    /\ in_tvalid \in BOOLEAN /\ in_ts \in BOOLEAN
    /\ stream_in_tvalid \in BOOLEAN /\ stream_in_ts \in BOOLEAN
    /\ stream_in_beat \in 0..(Beats - 1)
    /\ word \in Parts /\ first \in Parts
    /\ stalled \in BOOLEAN /\ room \in BOOLEAN /\ steady \in BOOLEAN /\ stamped \in BOOLEAN
    /\ events \in 0..2

LEMMA AdcTyped ==
  ASSUME SourceTyped, Adc
  PROVE  /\ wait \in Nat /\ wait' \in Nat
         /\ \E p \in Periods : wait' \in 0..(p - 1)
         /\ valid => wait' + 1 \in Periods
         /\ ~valid => wait > 0 /\ wait' = wait - 1
<1>1. PICK p \in Periods : wait \in 0..(p - 1)
  BY DEF SourceTyped
<1>2. \A q \in Periods : q \in Nat /\ q > 0
  OBVIOUS
<1>3. CASE valid
  <2>1. PICK q \in Periods : wait' = q - 1
    BY <1>3 DEF Adc
  <2> QED
    BY <1>1, <1>2, <1>3, <2>1
<1>4. CASE ~valid
  BY <1>1, <1>2, <1>4 DEF Adc, valid
<1> QED
  BY <1>3, <1>4

LEMMA BeatTyped ==
  ASSUME SourceTyped, StartEvent \/ ContinueEvent \/ PairSamples \/ TwoSamples
  PROVE  /\ stream_in_beat' \in 0..(Beats - 1)
         /\ stream_in_tvalid' \in BOOLEAN
         /\ word' \in Parts
<1>1. NextBeat \in 0..(Beats - 1)
  BY DEF NextBeat, Beats, SourceTyped
<1>2. CASE StartEvent
  BY <1>2 DEF StartEvent, Beats, Parts
<1>3. CASE ContinueEvent
  BY <1>1, <1>3 DEF ContinueEvent, Beats, Parts, LastBeat
<1>4. CASE PairSamples
  BY <1>1, <1>4, Zenon DEF PairSamples, Parts, SourceTyped
<1>5. CASE TwoSamples
  BY <1>5, Zenon DEF TwoSamples, Parts, SourceTyped
<1> QED
  BY <1>2, <1>3, <1>4, <1>5

LEMMA DecimateTyped ==
  ASSUME SourceTyped, Decimate, ena \in BOOLEAN
  PROVE  /\ in_ts' \in BOOLEAN /\ in_tvalid' \in BOOLEAN
         /\ \E d \in Divs : div' \in 0..d
<1>1. in_ts' \in BOOLEAN /\ in_tvalid' \in BOOLEAN
  BY Zenon DEF Decimate, valid
<1>2. PICK d \in Divs : div \in 0..d
  BY DEF SourceTyped
<1>3. \A e \in Divs : e \in Nat
  OBVIOUS
<1>4. div' \in {0, div, div - 1} \/ div' \in Divs
  BY DEF Decimate
<1>5. div' = div - 1 => div > 0
  BY <1>2, <1>3 DEF Decimate
<1>6. CASE div' \in Divs
  BY <1>1, <1>3, <1>6
<1>7. CASE div' \in {0, div, div - 1}
  BY <1>1, <1>2, <1>3, <1>5, <1>7
<1> QED
  BY <1>4, <1>6, <1>7

LEMMA SourceTypedStep ==
  ASSUME TypeOK, SourceTyped, SubsystemNext
  PROVE  SourceTyped'
<1>1. Source /\ Observe /\ (SwitchStream \/ SwitchMode \/ NoWrite)
  BY DEF SubsystemNext
<1>2. \E p \in Periods : wait' \in 0..(p - 1)
  BY <1>1, AdcTyped DEF Source
<1>3. stream_in_beat' \in 0..(Beats - 1) /\ stream_in_tvalid' \in BOOLEAN /\ word' \in Parts
  BY <1>1, BeatTyped DEF Source
<1>4. in_ts' \in BOOLEAN /\ in_tvalid' \in BOOLEAN /\ \E d \in Divs : div' \in 0..d
  BY <1>1, DecimateTyped DEF Source, TypeOK
<1>5. mode' \in Mode /\ modes' \in 0..MaxModes
  BY <1>1 DEF SwitchStream, SwitchMode, NoWrite, SourceTyped
<1>6. stream_in_ts' \in BOOLEAN
  BY <1>1 DEF Source, StampWord, SourceTyped
<1>7. stalled' \in BOOLEAN
  BY Zenon DEF SubsystemNext, Dma
<1>8. room' \in BOOLEAN /\ steady' \in BOOLEAN
  BY <1>1, Zenon DEF Observe, TypeOK
<1>9. events' \in 0..2
  BY <1>1 DEF Observe, SourceTyped
<1>10. stamped' \in BOOLEAN /\ first' \in Parts
  BY <1>1 DEF Observe, SourceTyped
<1> QED
  BY <1>2, <1>3, <1>4, <1>5, <1>6, <1>7, <1>8, <1>9, <1>10 DEF SourceTyped

LEMMA SourceTypedHolds == SubsystemSpec => [](TypeOK /\ SourceTyped)
<1>1. SubsystemInit => SourceTyped
  <2> SUFFICES ASSUME SubsystemInit PROVE SourceTyped
    OBVIOUS
  <2>1. PICK p \in Periods : wait = p - 1
    BY DEF SubsystemInit
  <2>2. wait \in 0..(p - 1)
    BY <2>1
  <2>3. PICK d \in Divs : d \in Nat
    OBVIOUS
  <2>4. div \in 0..d
    BY <2>3 DEF SubsystemInit
  <2>5. /\ in_tvalid \in BOOLEAN /\ in_ts \in BOOLEAN
        /\ stream_in_tvalid \in BOOLEAN /\ stream_in_ts \in BOOLEAN
        /\ stalled \in BOOLEAN /\ room \in BOOLEAN /\ steady \in BOOLEAN /\ stamped \in BOOLEAN
    BY DEF SubsystemInit
  <2>6. /\ mode \in Mode /\ modes \in 0..MaxModes /\ events \in 0..2
        /\ stream_in_beat \in 0..(Beats - 1) /\ word \in Parts /\ first \in Parts
    BY DEF SubsystemInit, Beats, Parts
  <2> QED
    BY <2>2, <2>3, <2>4, <2>5, <2>6 DEF SourceTyped
<1>2. TypeOK /\ SourceTyped /\ [SubsystemNext]_allVars => SourceTyped'
  <2> SUFFICES ASSUME TypeOK, SourceTyped, UNCHANGED allVars PROVE SourceTyped'
    BY SourceTypedStep
  <2> QED
    BY DEF SourceTyped, allVars, sourceVars, historyVars
<1>3. FullInv => TypeOK
  BY DEF FullInv, Inv
<1> QED
  BY <1>1, <1>2, <1>3, PacketizerInv, PTL DEF SubsystemSpec

\* The counts of the source never leave their range, with those of the packetizer behind
\* it, in whatever mode and however often software changes it: stream_in_beat keeps to its
\* four bits and the decimator to the skip it was last given.
THEOREM SubsystemTypeCorrect == SubsystemSpec => []SubsystemTypeOK
<1>1. TypeOK /\ SourceTyped => SubsystemTypeOK
  BY DEF SourceTyped, SubsystemTypeOK
<1> QED
  BY <1>1, SourceTypedHolds, PTL
-----------------------------------------------------------------------------
(***************************************************************************)
(* The events of the source. An event has five words and a conversion is   *)
(* streamed at most every fifth clock, so that the next event finds        *)
(* stream_in_beat at its end.                                              *)
(***************************************************************************)

EventsApart == \A p \in Periods : p >= 5

\* A conversion that is in the input registers was valid one clock ago.
Conversion ==
    /\ in_tvalid => in_ts
    /\ in_ts => wait + 1 \in Periods

\* While the mode stays: the words of an event come one a clock, the first with the time
\* of its conversion, and no other conversion comes before the last of them.
AllSteady ==
    steady /\ mode = "all" =>
        /\ stream_in_beat \in 1..LastBeat
        /\ stream_in_beat < LastBeat =>
              stream_in_tvalid /\ ~in_ts /\ wait + 1 + stream_in_beat \in Periods
        /\ stream_in_tvalid =>
              /\ word \in {"start", "rest"}
              /\ word = "start" <=> stream_in_beat = 1
              /\ word = "start" <=> stream_in_ts

OtherSteady ==
    steady /\ mode # "all" /\ stream_in_tvalid => word = "samples" /\ stream_in_ts

\* What is known of the word a frame began with.
FirstWord ==
    steady /\ in_state # "IDLE" =>
        /\ IF mode = "all" THEN first \in {"start", "rest"} ELSE first = "samples"
        /\ stamped <=> first # "rest"

SourceInv == Conversion /\ AllSteady /\ OtherSteady /\ FirstWord

LEMMA ConversionStep ==
  ASSUME SourceTyped, Adc, Decimate
  PROVE  Conversion'
  BY AdcTyped DEF Decimate, Conversion

\* How a stream gets steady: it was at rest.
LEMMA SteadyStep ==
  ASSUME SourceStep, TypeOK, SourceTyped, steady'
  PROVE  /\ mode' = mode
         /\ ~steady => AtRest
         /\ AtRest => in_state' = "IDLE" /\ ~captured
<1>1. mode' = mode /\ (~steady => AtRest)
  BY DEF SourceStep, Observe
<1>2. ASSUME AtRest PROVE in_state' = "IDLE" /\ ~captured
  <2>1. in_state = "IDLE" /\ ~captured
    BY <1>2 DEF AtRest, captured
  <2> QED
    BY <2>1 DEF SourceStep, WriteSide, Begin, Idle, More, Full, AddWord, Cut, WaitForWord,
                WriteLength, WriteTimestamp, Update
<1> QED
  BY <1>1, <1>2

LEMMA AllSteadyStep ==
  ASSUME EventsApart, SourceStep, TypeOK, SourceTyped, Conversion, AllSteady
  PROVE  AllSteady'
<1> SUFFICES ASSUME steady', mode' = "all"
             PROVE  /\ stream_in_beat' \in 1..LastBeat
                    /\ stream_in_beat' < LastBeat =>
                         /\ stream_in_tvalid' /\ ~in_ts'
                         /\ wait' + 1 + stream_in_beat' \in Periods
                    /\ stream_in_tvalid' =>
                         /\ word' \in {"start", "rest"}
                         /\ word' = "start" <=> stream_in_beat' = 1
                         /\ word' = "start" <=> stream_in_ts'
  BY DEF AllSteady
<1>1. mode = "all"
  BY SteadyStep
<1>2. /\ wait \in Nat /\ in_ts' = valid /\ stream_in_ts' = in_ts
      /\ valid <=> wait = 0
      /\ ~valid => wait' = wait - 1
  BY AdcTyped DEF SourceStep, Source, Decimate, StampWord, valid
<1>3. /\ stream_in_beat \in 1..LastBeat
      /\ stream_in_beat < LastBeat =>
           ~in_tvalid /\ ~in_ts /\ wait + 1 + stream_in_beat \in Periods
  <2>1. CASE steady
    BY <1>1, <2>1 DEF AllSteady, Conversion
  <2>2. CASE ~steady
    BY <1>1, <2>2, SteadyStep DEF AtRest, LastBeat
  <2> QED
    BY <2>1, <2>2
<1>4. CASE in_tvalid
  <2>1. in_ts /\ wait + 1 \in Periods /\ wait >= 4
    BY <1>2, <1>4 DEF Conversion, EventsApart
  <2>2. stream_in_beat = LastBeat
    BY <1>3, <1>4 DEF LastBeat
  <2>3. stream_in_beat' = 1 /\ word' = "start" /\ stream_in_tvalid'
    BY <1>1, <1>4, <2>2
       DEF SourceStep, Source, StartEvent, ContinueEvent, PairSamples, TwoSamples
  <2>4. wait' = wait - 1 /\ ~in_ts' /\ stream_in_ts'
    BY <1>2, <2>1
  <2>5. wait' + 1 + stream_in_beat' = wait + 1
    BY <1>2, <2>3, <2>4
  <2> QED
    BY <2>1, <2>3, <2>4, <2>5 DEF LastBeat
<1>5. CASE ~in_tvalid
  <2>0. ContinueEvent
    BY <1>1, <1>5 DEF SourceStep, Source, StartEvent, PairSamples, TwoSamples
  <2>1. CASE stream_in_beat = LastBeat
    <3>1. stream_in_beat' = LastBeat /\ ~stream_in_tvalid'
      BY <2>0, <2>1, Zenon DEF ContinueEvent
    <3> QED
      BY <3>1 DEF LastBeat
  <2>2. CASE stream_in_beat # LastBeat
    <3>1. stream_in_beat \in 1..4 /\ wait + 1 + stream_in_beat \in Periods /\ ~in_ts
      BY <1>3, <2>2 DEF LastBeat
    <3>2. stream_in_beat' = stream_in_beat + 1 /\ word' = "rest" /\ stream_in_tvalid'
      <4>1. NextBeat = stream_in_beat + 1
        BY <3>1 DEF NextBeat, Beats
      <4> QED
        BY <2>0, <2>2, <4>1, Zenon DEF ContinueEvent
    <3>3. stream_in_beat < 4 => wait > 0
      BY <1>2, <3>1 DEF EventsApart
    <3>4. stream_in_beat < 4 => ~in_ts' /\ wait' + 1 + stream_in_beat' \in Periods
      <4> SUFFICES ASSUME stream_in_beat < 4
                   PROVE  ~in_ts' /\ wait' + 1 + stream_in_beat' \in Periods
        OBVIOUS
      <4>1. wait' + 1 + stream_in_beat' = wait + 1 + stream_in_beat
        BY <1>2, <3>1, <3>2, <3>3
      <4> QED
        BY <1>2, <3>1, <3>3, <4>1
    <3> QED
      BY <1>2, <3>1, <3>2, <3>4 DEF LastBeat
  <2> QED
    BY <2>1, <2>2
<1> QED
  BY <1>4, <1>5

LEMMA OtherSteadyStep ==
  ASSUME SourceStep, TypeOK, SourceTyped, Conversion
  PROVE  OtherSteady'
<1> SUFFICES ASSUME steady', mode' # "all", stream_in_tvalid'
             PROVE  word' = "samples" /\ stream_in_ts'
  BY DEF OtherSteady
<1>1. mode # "all"
  BY SteadyStep
<1>2. PairSamples \/ TwoSamples
  BY <1>1 DEF SourceStep, Source, StartEvent, ContinueEvent
<1>3. in_tvalid /\ word' = "samples"
  BY <1>2 DEF PairSamples, TwoSamples
<1>4. stream_in_ts' = in_ts
  BY DEF SourceStep, Source, StampWord
<1> QED
  BY <1>3, <1>4 DEF Conversion

\* A frame begins with the word that is there.
LEMMA FrameBegins ==
  ASSUME SourceStep, in_state = "IDLE", in_state' # "IDLE"
  PROVE  /\ captured /\ ena /\ in_state' = "DATA" /\ stream_in_tvalid
         /\ wr_cnt' = 2 /\ in_tready' = TRUE
         /\ \E asked \in NumSamples : max_samples' = Limit(asked) - 1
         /\ stamped' = stream_in_ts /\ first' = word
<1>1. Begin(captured)
  BY DEF SourceStep, WriteSide, Begin, Idle, More, Full, AddWord, Cut, WaitForWord,
         WriteLength, WriteTimestamp, Update
<1> QED
  BY <1>1 DEF Begin, Prepare, captured, SourceStep, Observe

LEMMA FirstWordStep ==
  ASSUME SourceStep, TypeOK, SourceTyped, AllSteady, OtherSteady, FirstWord
  PROVE  FirstWord'
<1> SUFFICES ASSUME steady', in_state' # "IDLE" PROVE FirstWord'
  BY DEF FirstWord
<1>1. mode' = mode /\ steady
  BY SteadyStep
<1>2. CASE in_state = "IDLE"
  <2>1. stream_in_tvalid /\ stamped' = stream_in_ts /\ first' = word
    BY <1>2, FrameBegins
  <2>2. CASE mode = "all"
    BY <1>1, <2>1, <2>2 DEF AllSteady, FirstWord, SourceTyped
  <2>3. CASE mode # "all"
    BY <1>1, <2>1, <2>3 DEF OtherSteady, FirstWord, SourceTyped
  <2> QED
    BY <2>2, <2>3
<1>3. CASE in_state # "IDLE"
  BY <1>1, <1>3 DEF SourceStep, Observe, FirstWord
<1> QED
  BY <1>2, <1>3

LEMMA SourceInvHolds == EventsApart => (SubsystemSpec => []SourceInv)
<1> SUFFICES ASSUME EventsApart PROVE SubsystemSpec => []SourceInv
  OBVIOUS
<1>1. SubsystemInit => SourceInv
  BY DEF SubsystemInit, Init, SourceInv, Conversion, AllSteady, OtherSteady, FirstWord
<1>2. TypeOK /\ SourceTyped /\ SourceInv /\ [SubsystemNext]_allVars => SourceInv'
  <2> SUFFICES ASSUME TypeOK, SourceTyped, SourceInv, [SubsystemNext]_allVars
               PROVE  SourceInv'
    OBVIOUS
  <2>1. CASE SubsystemNext
    <3>1. SourceStep
      BY <2>1, StepOfSource
    <3> QED
      BY <3>1, ConversionStep, AllSteadyStep, OtherSteadyStep, FirstWordStep
         DEF SourceInv, SourceStep, Source
  <2>2. CASE UNCHANGED allVars
    BY <2>2, Stutter DEF SourceRegisters, writeVars, SourceInv, Conversion, AllSteady,
                         OtherSteady, FirstWord
  <2> QED
    BY <2>1, <2>2
<1> QED
  BY <1>1, <1>2, SourceTypedHolds, PTL DEF SubsystemSpec

\* While the mode stays, the timestamp of a frame tells how it began, in every mode and
\* for every decimation and size of frame: if a conversion takes at least five clocks, the
\* words of an event never carry the time of the conversion after it.
THEOREM TimestampsTell ==
  ASSUME EventsApart
  PROVE  SubsystemSpec => []StampTellsStart
<1>1. SourceInv => StampTellsStart
  BY DEF SourceInv, FirstWord, StampTellsStart
<1> QED
  BY <1>1, SourceInvHolds, PTL

(***************************************************************************)
(* The mark of an unfinished event.                                        *)
(***************************************************************************)

\* After the first conversion in a mode, each finds the event before it over.
EventOver ==
    events >= 1 /\ mode = "all" =>
        /\ stream_in_beat \in 1..LastBeat
        /\ stream_in_beat < LastBeat => ~in_tvalid /\ wait + stream_in_beat >= LastBeat - 1

ErrorInv == Conversion /\ EventOver /\ ErrorMarksSwitch

LEMMA EventOverStep ==
  ASSUME EventsApart, SourceStep, SourceTyped, Conversion, EventOver
  PROVE  EventOver'
<1> SUFFICES ASSUME events' >= 1, mode' = "all"
             PROVE  /\ stream_in_beat' \in 1..LastBeat
                    /\ stream_in_beat' < LastBeat =>
                         ~in_tvalid' /\ wait' + stream_in_beat' >= LastBeat - 1
  BY DEF EventOver
<1>1. mode = "all" /\ (in_tvalid \/ events >= 1)
  BY DEF SourceStep, Observe, SourceTyped
<1>2. /\ wait \in Nat /\ wait' \in Nat
      /\ in_tvalid' => valid
      /\ valid <=> wait = 0
      /\ ~valid => wait' = wait - 1
  BY AdcTyped DEF SourceStep, Source, Decimate, valid
<1>3. CASE in_tvalid
  <2>1. wait >= 4
    BY <1>2, <1>3 DEF Conversion, EventsApart
  <2>2. stream_in_beat' = 1
    BY <1>1, <1>3
       DEF SourceStep, Source, StartEvent, ContinueEvent, PairSamples, TwoSamples
  <2>3. ~valid
    BY <1>2, <2>1
  <2>4. wait' = wait - 1 /\ ~in_tvalid'
    BY <1>2, <2>3
  <2> QED
    BY <1>2, <2>1, <2>2, <2>4 DEF LastBeat
<1>4. CASE ~in_tvalid
  <2>0. ContinueEvent
    BY <1>1, <1>4 DEF SourceStep, Source, StartEvent, PairSamples, TwoSamples
  <2>1. CASE stream_in_beat = LastBeat
    <3>1. stream_in_beat' = LastBeat
      BY <2>0, <2>1, Zenon DEF ContinueEvent
    <3> QED
      BY <3>1 DEF LastBeat
  <2>2. CASE stream_in_beat # LastBeat
    <3>1. stream_in_beat \in 1..4 /\ wait + stream_in_beat >= 4
      BY <1>1, <1>4, <2>2 DEF EventOver, LastBeat
    <3>2. NextBeat = stream_in_beat + 1
      BY <3>1 DEF NextBeat, Beats
    <3>3. stream_in_beat' = stream_in_beat + 1
      BY <2>0, <2>2, <3>2, Zenon DEF ContinueEvent
    <3>4. CASE stream_in_beat = 4
      BY <3>3, <3>4 DEF LastBeat
    <3>5. CASE stream_in_beat < 4
      <4>1. wait > 0
        BY <1>2, <3>1, <3>5
      <4>2. ~valid
        BY <1>2, <4>1
      <4>3. wait' = wait - 1 /\ ~in_tvalid'
        BY <1>2, <4>2
      <4> QED
        BY <1>2, <3>1, <3>3, <3>5, <4>3 DEF LastBeat
    <3> QED
      BY <3>1, <3>4, <3>5
  <2> QED
    BY <2>1, <2>2
<1> QED
  BY <1>3, <1>4

LEMMA ErrorMarkStep ==
  ASSUME SourceStep, SourceTyped, EventOver
  PROVE  ErrorMarksSwitch'
<1> SUFFICES ASSUME stream_in_tvalid', word' = "error" PROVE events' <= 1
  BY DEF ErrorMarksSwitch
<1>1. StartEvent /\ stream_in_beat # LastBeat
  BY DEF SourceStep, Source, StartEvent, ContinueEvent, PairSamples, TwoSamples
<1>2. ~(events >= 1)
  BY <1>1 DEF StartEvent, EventOver, SourceTyped, Beats, LastBeat
<1> QED
  BY <1>2 DEF SourceStep, Observe, SourceTyped

\* The word an event begins with is marked as an error at most once after a change of
\* mode, in its first event: if a conversion takes at least five clocks, no later one
\* finds the event before it unfinished.
THEOREM ErrorsMarkSwitches ==
  ASSUME EventsApart
  PROVE  SubsystemSpec => []ErrorMarksSwitch
<1>1. SubsystemInit => ErrorInv
  BY DEF SubsystemInit, ErrorInv, Conversion, EventOver, ErrorMarksSwitch
<1>2. TypeOK /\ SourceTyped /\ ErrorInv /\ [SubsystemNext]_allVars => ErrorInv'
  <2> SUFFICES ASSUME TypeOK, SourceTyped, ErrorInv, [SubsystemNext]_allVars
               PROVE  ErrorInv'
    OBVIOUS
  <2>1. CASE SubsystemNext
    <3>1. SourceStep
      BY <2>1, StepOfSource
    <3> QED
      BY <3>1, ConversionStep, EventOverStep, ErrorMarkStep DEF ErrorInv, SourceStep, Source
  <2>2. CASE UNCHANGED allVars
    BY <2>2, Stutter DEF SourceRegisters, ErrorInv, Conversion, EventOver, ErrorMarksSwitch
  <2> QED
    BY <2>1, <2>2
<1>3. ErrorInv => ErrorMarksSwitch
  BY DEF ErrorInv
<1> QED
  BY <1>1, <1>2, <1>3, SourceTypedHolds, PTL DEF SubsystemSpec

(***************************************************************************)
(* Which words are lost while there is room. A frame of whole events that  *)
(* began with an event ends with one, and no event begins before the last  *)
(* of the four clocks that the packetizer then needs.                      *)
(***************************************************************************)

\* What the deserializer guarantees: it waits for 17 periods of a clock of half the length.
ConversionsApart == \A p \in Periods : p >= 8

WholeEvents == \A asked \in NumSamples : Limit(asked) % 5 = 0

\* How many words of the event have gone by before the one that is there.
Phase == IF stream_in_tvalid THEN stream_in_beat - 1 ELSE 0

\* The words of a frame that began with an event are counted in step with the event's.
Aligned ==
    steady /\ mode = "all" /\ in_state = "DATA" /\ first = "start" =>
        (wr_cnt - 1) % 5 = Phase

\* A frame has as many words as were asked for, and is never kept waiting.
FrameSize ==
    in_state = "DATA" => in_tready /\ \E asked \in NumSamples : max_samples = Limit(asked) - 1

\* The conversion after a word is still far.
Alone ==
    steady /\ stream_in_tvalid =>
        /\ ~in_ts
        /\ mode = "all" => wait + 1 + stream_in_beat \in Periods
        /\ mode # "all" => wait + 2 \in Periods

Closing == {"WR_LEN", "WR_TS", "WR_UPDATE"}

\* While a frame is closed no event begins.
NoneBegins ==
    steady /\ ena =>
        /\ in_state = "WR_LEN" => ~in_tvalid /\ wait >= IF mode = "all" THEN 1 ELSE 2
        /\ in_state = "WR_TS" => ~in_tvalid /\ wait >= IF mode = "all" THEN 0 ELSE 1
        /\ in_state = "WR_UPDATE" /\ mode # "all" => ~in_tvalid

\* A word that comes then is of an event the frame ended inside, as it began inside one;
\* in the clock after that it may also be the first of the next event.
Pause ==
    steady /\ ena /\ stream_in_tvalid =>
        /\ in_state \in Closing => mode = "all" /\ word = "rest" /\ first = "rest"
        /\ in_state = "IDLE" /\ ~in_tready /\ room =>
              /\ mode = "all"
              /\ (word = "start" /\ JustClosed) \/ (word = "rest" /\ first = "rest")

LossInv == FrameSize /\ Aligned /\ Alone /\ NoneBegins /\ Pause

LEMMA WholeLimit ==
  ASSUME WholeEvents, NEW size \in NumSamples
  PROVE  /\ Limit(size) \in Nat /\ Limit(size) >= 5
         /\ Limit(size) % 5 = 0
<1>1. size \in Nat /\ size > 0 /\ MaxSamples \in Nat /\ MaxSamples > 0
  BY SizeAssumption DEF SizeAssumption, MaxSamples
<1>2. Limit(size) \in Nat /\ Limit(size) > 0
  BY <1>1 DEF Limit
<1>3. Limit(size) % 5 = 0
  BY DEF WholeEvents
<1>4. Limit(size) < 5 => Limit(size) % 5 = Limit(size)
  BY <1>2, SmallMod
<1> QED
  BY <1>2, <1>3, <1>4

\* What a clock does to the conversion on its way.
LEMMA Conversions ==
  ASSUME SourceStep, SourceTyped
  PROVE  /\ wait \in Nat /\ wait' \in Nat
         /\ in_tvalid' => in_ts'
         /\ in_ts' <=> wait = 0
         /\ wait > 0 => wait' = wait - 1
<1>1. (in_ts' <=> valid) /\ (in_tvalid' => valid)
  BY Zenon DEF SourceStep, Source, Decimate, valid
<1>2. wait \in Nat /\ wait' \in Nat /\ (~valid => wait' = wait - 1)
  BY AdcTyped DEF SourceStep, Source
<1> QED
  BY <1>1, <1>2 DEF valid

\* The word that a clock brings: the event goes on, a new one begins, or there is none.
LEMMA NextWord ==
  ASSUME SourceStep, TypeOK, SourceTyped, AllSteady, steady', mode' = "all"
  PROVE  /\ mode = "all" /\ stream_in_beat \in 1..LastBeat
         /\ stream_in_beat < LastBeat => stream_in_tvalid
         /\ in_tvalid => stream_in_tvalid' /\ stream_in_beat' = 1
         /\ in_tvalid /\ stream_in_beat = LastBeat => word' = "start"
         /\ ~in_tvalid => word' = "rest"
         /\ ~in_tvalid /\ stream_in_beat = LastBeat => ~stream_in_tvalid'
         /\ ~in_tvalid /\ stream_in_beat < LastBeat =>
                stream_in_tvalid' /\ stream_in_beat' = stream_in_beat + 1
<1>1. mode = "all"
  BY SteadyStep
<1>2. stream_in_beat \in 1..LastBeat /\ (stream_in_beat < LastBeat => stream_in_tvalid)
  <2>1. CASE steady
    BY <1>1, <2>1 DEF AllSteady
  <2>2. CASE ~steady
    BY <1>1, <2>2, SteadyStep DEF AtRest, LastBeat
  <2> QED
    BY <2>1, <2>2
<1>3. CASE in_tvalid
  BY <1>1, <1>2, <1>3
     DEF SourceStep, Source, StartEvent, ContinueEvent, PairSamples, TwoSamples
<1>4. CASE ~in_tvalid
  <2>0. ContinueEvent
    BY <1>1, <1>4 DEF SourceStep, Source, StartEvent, PairSamples, TwoSamples
  <2>1. CASE stream_in_beat = LastBeat
    <3>1. ~stream_in_tvalid' /\ word' = "rest"
      BY <2>0, <2>1, Zenon DEF ContinueEvent
    <3> QED
      BY <1>1, <1>2, <1>4, <2>1, <3>1 DEF LastBeat
  <2>2. CASE stream_in_beat # LastBeat
    <3>1. NextBeat = stream_in_beat + 1
      BY <1>2, <2>2 DEF NextBeat, Beats, LastBeat
    <3>2. stream_in_beat' = stream_in_beat + 1 /\ stream_in_tvalid' /\ word' = "rest"
      BY <2>0, <2>2, <3>1, Zenon DEF ContinueEvent
    <3> QED
      BY <1>1, <1>2, <1>4, <2>2, <3>2
  <2> QED
    BY <2>1, <2>2
<1> QED
  BY <1>3, <1>4

\* In the other modes a word comes only with a conversion.
LEMMA OtherWord ==
  ASSUME SourceStep, mode # "all", stream_in_tvalid'
  PROVE  in_tvalid
  BY DEF SourceStep, Source, StartEvent, ContinueEvent, PairSamples, TwoSamples

\* Without a conversion on its way, a word can only go on with the event that is there.
LEMMA EventGoesOn ==
  ASSUME SourceStep, TypeOK, SourceTyped, AllSteady, steady', ~in_tvalid, stream_in_tvalid'
  PROVE  /\ mode = "all" /\ mode' = mode
         /\ stream_in_tvalid /\ stream_in_beat < LastBeat /\ word' = "rest"
<1>1. mode' = mode
  BY SteadyStep
<1>2. mode = "all"
  BY OtherWord
<1>3. stream_in_beat \in 1..LastBeat /\ stream_in_beat # LastBeat
  BY <1>1, <1>2, NextWord
<1>4. stream_in_beat < LastBeat
  BY <1>3 DEF LastBeat
<1> QED
  BY <1>1, <1>2, <1>4, NextWord

LEMMA AloneStep ==
  ASSUME ConversionsApart, SourceStep, TypeOK, SourceTyped, Conversion, AllSteady, Alone
  PROVE  Alone'
<1> SUFFICES ASSUME steady', stream_in_tvalid'
             PROVE  /\ ~in_ts'
                    /\ mode' = "all" => wait' + 1 + stream_in_beat' \in Periods
                    /\ mode' # "all" => wait' + 2 \in Periods
  BY DEF Alone
<1>1. mode' = mode
  BY SteadyStep
<1>2. CASE in_tvalid
  <2>1. in_ts /\ wait + 1 \in Periods /\ wait >= 7
    BY <1>2, Conversions DEF Conversion, ConversionsApart
  <2>2. ~in_ts' /\ wait' + 2 = wait + 1
    BY <2>1, Conversions
  <2>3. mode = "all" => stream_in_beat' = 1
    BY <1>1, <1>2, NextWord
  <2> QED
    BY <1>1, <2>1, <2>2, <2>3, Conversions
<1>3. CASE ~in_tvalid
  <2>1. mode = "all"
    BY <1>3, OtherWord
  <2>2. /\ stream_in_beat \in 1..4 /\ stream_in_tvalid /\ stream_in_beat' = stream_in_beat + 1
    BY <1>1, <1>3, <2>1, NextWord DEF LastBeat
  <2>3. steady
    BY <2>2, SteadyStep DEF AtRest
  <2>4. wait + 1 + stream_in_beat \in Periods
    BY <2>1, <2>2, <2>3 DEF Alone
  <2>5. wait > 0
    BY <2>2, <2>4, Conversions DEF ConversionsApart
  <2>6. ~in_ts' /\ wait' + 1 + stream_in_beat' = wait + 1 + stream_in_beat
    BY <2>2, <2>5, Conversions
  <2> QED
    BY <1>1, <2>1, <2>4, <2>6
<1> QED
  BY <1>2, <1>3

LEMMA FrameSizeStep ==
  ASSUME SourceStep, FrameSize
  PROVE  FrameSize'
<1> SUFFICES ASSUME in_state' = "DATA"
             PROVE  in_tready' /\ \E asked \in NumSamples : max_samples' = Limit(asked) - 1
  BY DEF FrameSize
<1>1. CASE in_state = "IDLE"
  BY <1>1, FrameBegins
<1>2. CASE in_state # "IDLE"
  <2>1. More(captured) \/ WaitForWord(captured)
    BY <1>2 DEF SourceStep, WriteSide, Begin, Prepare, Idle, Full, AddWord, Cut,
                WriteLength, WriteTimestamp, Update
  <2> QED
    BY <2>1 DEF More, WaitForWord, AddWord, Frozen, FrameSize
<1> QED
  BY <1>1, <1>2

LEMMA AlignedStep ==
  ASSUME ConversionsApart, SourceStep, TypeOK, SourceTyped, Conversion, AllSteady, FrameSize,
         Aligned, Alone
  PROVE  Aligned'
<1> SUFFICES ASSUME steady', mode' = "all", in_state' = "DATA", first' = "start"
             PROVE  (wr_cnt' - 1) % 5 = Phase'
  BY DEF Aligned
<1>1. mode = "all" /\ steady
  BY SteadyStep
<1>2. /\ stream_in_beat \in 1..5
      /\ stream_in_beat < 5 => stream_in_tvalid
  BY NextWord DEF LastBeat
<1>3. stream_in_tvalid => ~in_tvalid
  BY <1>1 DEF Alone, Conversion
<1>4. Phase \in 0..4 /\ Phase' = IF stream_in_tvalid /\ stream_in_beat < 5 THEN Phase + 1 ELSE 0
  BY <1>2, <1>3, NextWord DEF Phase, LastBeat
<1>5. CASE in_state = "IDLE"
  <2>1. stream_in_tvalid /\ word = "start" /\ wr_cnt' = 2
    BY <1>5, FrameBegins
  <2>2. stream_in_beat = 1
    BY <1>1, <2>1 DEF AllSteady
  <2>3. Phase' = 1
    BY <1>4, <2>1, <2>2 DEF Phase
  <2> QED
    BY <2>1, <2>3
<1>6. CASE in_state # "IDLE"
  <2>1. More(captured) \/ WaitForWord(captured)
    BY <1>6 DEF SourceStep, WriteSide, Begin, Prepare, Idle, Full, AddWord, Cut,
                WriteLength, WriteTimestamp, Update
  <2>2. in_state = "DATA" /\ first = "start"
    BY <1>6, <2>1 DEF More, WaitForWord, AddWord, SourceStep, Observe
  <2>3. (wr_cnt - 1) % 5 = Phase /\ wr_cnt \in Nat
    BY <1>1, <2>2 DEF Aligned, TypeOK
  <2>4. CASE More(captured)
    <3>1. stream_in_tvalid /\ wr_cnt' = wr_cnt + 1
      BY <2>4 DEF More, AddWord, captured
    <3>2. wr_cnt % 5 = IF Phase < 4 THEN Phase + 1 ELSE 0
      BY <1>4, <2>3
    <3>3. Phase < 4 <=> stream_in_beat < 5
      BY <1>2, <3>1 DEF Phase
    <3> QED
      BY <1>4, <2>3, <3>1, <3>2, <3>3
  <2>5. CASE WaitForWord(captured)
    <3>1. ~stream_in_tvalid /\ wr_cnt' = wr_cnt
      BY <2>2, <2>5 DEF WaitForWord, FrameSize, captured
    <3> QED
      BY <1>4, <2>3, <3>1 DEF Phase
  <2> QED
    BY <2>1, <2>4, <2>5
<1> QED
  BY <1>5, <1>6

\* A frame that is closed while the stream is on has all its words. If it began with an
\* event, its last one was the last of an event.
LEMMA FrameCloses ==
  ASSUME ConversionsApart, WholeEvents, SourceStep, TypeOK, Layout, SourceTyped, SourceInv,
         LossInv, steady', ena', in_state = "DATA", in_state' = "WR_LEN"
  PROVE  /\ NoneBegins'
         /\ stream_in_tvalid' => mode' = "all" /\ word' = "rest" /\ first' = "rest"
<1>1. steady /\ mode' = mode /\ first' = first
  BY SteadyStep DEF SourceStep, Observe
<1>2. ena
  BY DEF SourceStep, SwitchStream, SwitchMode, NoWrite, Switch, Keep, AtRest
<1>3. Full(captured)
  BY <1>2 DEF SourceStep, WriteSide, Begin, Prepare, Idle, More, Cut, WaitForWord,
              WriteLength, WriteTimestamp, Update
<1>4. stream_in_tvalid /\ wr_cnt > max_samples
  BY <1>2, <1>3 DEF Full, AddWord, IsLast, captured
<1>5. PICK size \in NumSamples : max_samples = Limit(size) - 1
  BY DEF LossInv, FrameSize
<1>6. max_samples >= 4 /\ (max_samples + 1) % 5 = 0 /\ max_samples \in Nat
  <2>1. /\ Limit(size) \in Nat /\ Limit(size) >= 5
        /\ Limit(size) % 5 = 0
    BY WholeLimit
  <2>2. max_samples + 1 = Limit(size) /\ max_samples >= 4 /\ max_samples \in Nat
    BY <1>5, <2>1
  <2> QED
    BY <2>1, <2>2
<1>7. wr_cnt = max_samples + 1 /\ wr_cnt \in Nat
  BY <1>4, <1>6 DEF Layout, TypeOK
<1>8. ~in_ts /\ ~in_tvalid
  BY <1>1, <1>4 DEF LossInv, Alone, SourceInv, Conversion
<1>9. ASSUME mode = "all", first # "rest" PROVE stream_in_beat = LastBeat
  <2>1. first = "start"
    BY <1>1, <1>9 DEF SourceInv, FirstWord
  <2>2. (wr_cnt - 1) % 5 = stream_in_beat - 1
    BY <1>1, <1>4, <1>9, <2>1 DEF LossInv, Aligned, Phase
  <2>3. (wr_cnt - 1) % 5 = 4
    BY <1>6, <1>7
  <2>4. stream_in_beat \in Nat
    BY DEF SourceTyped, Beats
  <2> QED
    BY <2>2, <2>3, <2>4 DEF LastBeat
<1>10. wait >= IF mode = "all" THEN 2 ELSE 3
  <2>1. CASE mode = "all"
    <3>1. wait + 1 + stream_in_beat \in Periods
      BY <1>1, <1>4, <2>1 DEF LossInv, Alone
    <3>2. stream_in_beat \in 1..5
      BY <1>1, <2>1 DEF SourceInv, AllSteady, LastBeat
    <3> QED
      BY <2>1, <3>1, <3>2, Conversions DEF ConversionsApart
  <2>2. CASE mode # "all"
    <3>1. wait + 2 \in Periods
      BY <1>1, <1>4, <2>2 DEF LossInv, Alone
    <3> QED
      BY <2>2, <3>1, Conversions DEF ConversionsApart
  <2> QED
    BY <2>1, <2>2
<1>11. ~in_tvalid' /\ wait' >= IF mode' = "all" THEN 1 ELSE 2
  BY <1>1, <1>10, Conversions
<1>12. NoneBegins'
  BY <1>11 DEF NoneBegins
<1>13. ASSUME stream_in_tvalid' PROVE mode' = "all" /\ word' = "rest" /\ first' = "rest"
  <2>1. mode = "all" /\ stream_in_beat < LastBeat /\ word' = "rest"
    BY <1>8, <1>13, EventGoesOn DEF SourceInv
  <2>2. stream_in_beat # LastBeat
    BY <2>1 DEF LastBeat
  <2> QED
    BY <1>1, <1>9, <2>1, <2>2
<1> QED
  BY <1>12, <1>13

\* The states of the write side follow each other.
LEMMA NextState ==
  ASSUME SourceStep, TypeOK
  PROVE  /\ in_state' = "WR_LEN" => in_state = "DATA"
         /\ in_state' = "WR_TS" => in_state = "WR_LEN"
         /\ in_state' = "WR_UPDATE" => in_state = "WR_TS"
         /\ in_state' = "IDLE" => Idle(captured) \/ Update
  BY DEF SourceStep, WriteSide, Begin, Prepare, Idle, More, Full, AddWord, Cut, WaitForWord,
         WriteLength, WriteTimestamp, Update

\* What holds of the clock before one in which a frame is being closed.
LEMMA StillSteady ==
  ASSUME SourceStep, TypeOK, SourceTyped, steady', ena', in_state \in Closing
  PROVE  steady /\ ena /\ mode' = mode /\ first' = first
<1>1. ~AtRest /\ in_state # "IDLE"
  BY DEF AtRest, Closing
<1>2. steady /\ mode' = mode
  BY <1>1, SteadyStep
<1>3. ena
  BY <1>1 DEF SourceStep, SwitchStream, SwitchMode, NoWrite, Switch, Keep
<1> QED
  BY <1>1, <1>2, <1>3 DEF SourceStep, Observe

LEMMA NoneBeginsStep ==
  ASSUME ConversionsApart, WholeEvents, SourceStep, TypeOK, Layout, SourceTyped,
         SourceInv, LossInv
  PROVE  NoneBegins'
<1> SUFFICES ASSUME steady', ena'
             PROVE  NoneBegins'
  BY DEF NoneBegins
<1>1. CASE in_state' = "WR_LEN"
  BY <1>1, NextState, FrameCloses
<1>2. CASE in_state' = "WR_TS"
  <2>1. in_state = "WR_LEN" /\ in_state \in Closing
    BY <1>2, NextState DEF Closing
  <2>2. wait >= IF mode = "all" THEN 1 ELSE 2
    BY <2>1, StillSteady DEF LossInv, NoneBegins
  <2>3. ~in_tvalid' /\ wait' >= IF mode' = "all" THEN 0 ELSE 1
    BY <2>1, <2>2, StillSteady, Conversions
  <2> QED
    BY <1>2, <2>3 DEF NoneBegins
<1>3. CASE in_state' = "WR_UPDATE"
  <2>1. in_state = "WR_TS" /\ in_state \in Closing
    BY <1>3, NextState DEF Closing
  <2>2. mode # "all" => wait >= 1
    BY <2>1, StillSteady DEF LossInv, NoneBegins
  <2>3. mode' # "all" => ~in_tvalid'
    BY <2>1, <2>2, StillSteady, Conversions
  <2> QED
    BY <1>3, <2>3 DEF NoneBegins
<1> QED
  BY <1>1, <1>2, <1>3 DEF NoneBegins

LEMMA PauseStep ==
  ASSUME ConversionsApart, WholeEvents, SourceStep, TypeOK, Layout, SourceTyped,
         SourceInv, LossInv
  PROVE  Pause'
<1> SUFFICES ASSUME steady', ena', stream_in_tvalid'
             PROVE  /\ in_state' \in Closing =>
                          mode' = "all" /\ word' = "rest" /\ first' = "rest"
                    /\ in_state' = "IDLE" /\ ~in_tready' /\ room' =>
                          /\ mode' = "all"
                          /\ \/ word' = "start" /\ JustClosed'
                             \/ word' = "rest" /\ first' = "rest"
  BY DEF Pause
<1>1. ASSUME in_state \in Closing, ~in_tvalid
      PROVE  mode' = "all" /\ word' = "rest" /\ first' = "rest"
  <2>1. mode = "all" /\ mode' = mode /\ stream_in_tvalid /\ word' = "rest"
    BY <1>1, EventGoesOn DEF SourceInv
  <2>2. first = "rest" /\ first' = first
    BY <1>1, <2>1, StillSteady DEF LossInv, Pause
  <2> QED
    BY <2>1, <2>2
<1>2. CASE in_state' = "WR_LEN"
  BY <1>2, NextState, FrameCloses
<1>3. CASE in_state' = "WR_TS" \/ in_state' = "WR_UPDATE"
  <2>1. in_state \in {"WR_LEN", "WR_TS"} /\ in_state \in Closing
    BY <1>3, NextState DEF Closing
  <2>2. ~in_tvalid
    BY <2>1, StillSteady DEF LossInv, NoneBegins
  <2> QED
    BY <1>1, <1>3, <2>1, <2>2
<1>4. CASE in_state' = "IDLE"
  <2>1. CASE Idle(captured)
    <3>1. in_tready' = space_check /\ room' = space_check
      BY <2>1 DEF Idle, SourceStep, Observe
    <3> QED
      BY <1>4, <3>1 DEF Closing
  <2>2. CASE Update
    <3>1. in_state = "WR_UPDATE" /\ in_state \in Closing /\ JustClosed'
      BY <2>2 DEF Update, Closing, JustClosed
    <3>2. CASE ~in_tvalid
      BY <1>1, <1>4, <3>1, <3>2 DEF Closing
    <3>3. CASE in_tvalid
      <4>1. steady /\ mode = "all" /\ mode' = mode
        BY <3>1, <3>3, StillSteady DEF LossInv, NoneBegins
      <4>2. ~stream_in_tvalid
        BY <3>3, <4>1 DEF LossInv, Alone, SourceInv, Conversion
      <4>3. stream_in_beat = LastBeat
        BY <4>1, <4>2 DEF SourceInv, AllSteady, LastBeat
      <4>4. word' = "start"
        BY <3>3, <4>1, <4>3, NextWord DEF SourceInv
      <4> QED
        BY <1>4, <3>1, <4>1, <4>4 DEF Closing
    <3> QED
      BY <3>2, <3>3
  <2> QED
    BY <1>4, <2>1, <2>2, NextState
<1> QED
  BY <1>2, <1>3, <1>4 DEF Closing

\* Which words are lost while the mode stays and the stream is on, for every size of
\* buffer, frame and event skip, if frames have whole events: those that find the buffer
\* full; in all-channel mode also the first word of an event, in the clock after a frame,
\* and the rest of an event in which a frame ended that also began in one. Conversions
\* are eight clocks apart or more, the least that the deserializer can do.
THEOREM LossesAreExplained ==
  ASSUME ConversionsApart, WholeEvents
  PROVE  SubsystemSpec => []LossesExplained
<1>1. EventsApart
  BY DEF ConversionsApart, EventsApart
<1>2. SubsystemInit => LossInv
  BY DEF SubsystemInit, Init, LossInv, FrameSize, Aligned, Alone, NoneBegins, Pause
<1>3. FullInv /\ SourceTyped /\ SourceInv /\ LossInv /\ [SubsystemNext]_allVars => LossInv'
  <2> SUFFICES ASSUME FullInv, SourceTyped, SourceInv, LossInv, [SubsystemNext]_allVars
               PROVE  LossInv'
    OBVIOUS
  <2>1. CASE SubsystemNext
    <3>1. SourceStep /\ TypeOK /\ Layout
      BY <2>1, StepOfSource DEF FullInv, Inv
    <3>2. FrameSize'
      BY <3>1, FrameSizeStep DEF LossInv
    <3>3. Aligned' /\ Alone'
      BY <3>1, AlignedStep, AloneStep DEF LossInv, SourceInv
    <3>4. NoneBegins'
      BY <3>1, NoneBeginsStep
    <3>5. Pause'
      BY <3>1, PauseStep
    <3> QED
      BY <3>2, <3>3, <3>4, <3>5 DEF LossInv
  <2>2. CASE UNCHANGED allVars
    BY <2>2, Stutter DEF SourceRegisters, writeVars, LossInv, FrameSize, Aligned, Phase, Alone,
                         NoneBegins, Pause, JustClosed
  <2> QED
    BY <2>1, <2>2
<1>4. FullInv /\ LossInv => LossesExplained
  <2> SUFFICES ASSUME TypeOK, LossInv, steady, ena, stream_in_tvalid, ~in_tready
               PROVE  \/ in_state = "IDLE" /\ ~room
                      \/ mode = "all" /\ word = "start" /\ JustClosed
                      \/ mode = "all" /\ word = "rest" /\ first = "rest" /\ in_state # "DATA"
    BY DEF FullInv, Inv, LossesExplained
  <2>1. in_state # "DATA"
    BY DEF LossInv, FrameSize
  <2>2. in_state = "IDLE" \/ in_state \in Closing
    BY <2>1 DEF TypeOK, Closing
  <2> QED
    BY <2>1, <2>2 DEF LossInv, Pause
<1> QED
  BY <1>1, <1>2, <1>3, <1>4, PacketizerInv, SourceInvHolds, SourceTypedHolds, PTL
     DEF SubsystemSpec

(***************************************************************************)
(* The packetizer's promises behind the source.                            *)
(***************************************************************************)

\* Behind the source, whatever mode, skip and conversion times do: the words that found
\* in_tready while the stream was on or a frame open are what the frames that come out are
\* made of, in their order, each once, and no other word.
THEOREM SubsystemImplementsFifo == SubsystemSpec => FifoSpec
<1>1. SubsystemInit => Fifo!Init
  BY MapsInit DEF SubsystemInit
<1>2. FullInv /\ FullInv' /\ [SubsystemNext]_allVars => [Fifo!Next]_Fifo!vars
  BY ClockOfPacketizer, MapsStep, MapsStutter
<1> QED
  BY <1>1, <1>2, PacketizerInv, PTL DEF SubsystemSpec, FifoSpec, Fifo!Spec

\* A source that looks at nothing never makes the write side overwrite what is unread: the
\* check of the space is all that protects it, and it is enough.
THEOREM SubsystemNotOverrun == SubsystemSpec => []NoOverrun
<1>1. FullInv => NoOverrun
  BY NoOverrunHolds DEF FullInv
<1> QED
  BY <1>1, PacketizerInv, PTL
=============================================================================
