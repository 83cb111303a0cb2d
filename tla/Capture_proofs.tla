--------------------------- MODULE Capture_proofs ----------------------------
(***************************************************************************)
(* Theorems about Capture, whatever the reader, the triggers and the       *)
(* switch do: packets are whole, counters keep their ranges, no report is  *)
(* lost without a stall, and a report is about the samples of its region.  *)
(***************************************************************************)
EXTENDS Capture, FiniteSetTheorems, TLAPS

USE CaptureAssumption DEF CaptureAssumption

\* The word in tdata is the one after those read, from the report latched when the
\* packetizer was free; while there is no word nothing is half sent.
SenderInv ==
    /\ active \in BOOLEAN /\ tvalid \in BOOLEAN /\ tlast \in BOOLEAN
    /\ got \in 0..Words
    /\ captured_d = taken
    /\ tvalid => /\ count = got
                 /\ active <=> got < Words
                 /\ tlast <=> got = Words
                 /\ tdata = IF got = 0 THEN Header ELSE <<taken, got>>
    /\ ~tvalid => ~active /\ got = 0

LEMMA SenderInvInit == Init => SenderInv
<1> SUFFICES ASSUME Init PROVE SenderInv
  OBVIOUS
<1>1. ~active /\ ~tvalid /\ ~tlast /\ got = 0 /\ captured_d = taken
  BY DEF Init
<1>2. active \in BOOLEAN /\ tvalid \in BOOLEAN /\ tlast \in BOOLEAN
  BY DEF Init
<1> QED
  BY <1>1, <1>2 DEF SenderInv

\* One clock of the packetizer, with what it adds to the history.
LEMMA SenderInvClock ==
  ASSUME SenderInv,
         NEW valid \in BOOLEAN, NEW ready \in BOOLEAN,
         Sender(ready), SenderHistory(valid, ready)
  PROVE  SenderInv'
<1>0. captured_d' = taken'
  BY DEF SenderInv, Sender, Latch, SenderHistory
<1>1. CASE tvalid /\ ready /\ NextWord
  <2>1. taken' = taken
    BY <1>1 DEF Free, SenderHistory
  <2>2. CASE got < Words
    <3>1. /\ ~tlast /\ active /\ count = got
          /\ got' = got + 1
      BY <1>1, <2>2 DEF SenderInv, SenderHistory
    <3>2. /\ tvalid' = TRUE /\ count' = got'
          /\ active' = (got < Words - 1) /\ tlast' = (got = Words - 1)
          /\ tdata' = <<captured_d, got'>>
      BY <1>1, <3>1 DEF NextWord
    <3> QED
      BY <1>0, <2>1, <2>2, <3>1, <3>2 DEF SenderInv
  <2>3. CASE got = Words
    <3>1. tlast /\ ~active /\ got' = 0
      BY <1>1, <2>3 DEF SenderInv, SenderHistory
    <3>2. ~tvalid' /\ ~active'
      BY <1>1, <3>1 DEF NextWord
    <3>3. active' \in BOOLEAN /\ tvalid' \in BOOLEAN /\ tlast' \in BOOLEAN
      BY <1>1, <3>1 DEF SenderInv, NextWord
    <3> QED
      BY <1>0, <3>1, <3>2, <3>3 DEF SenderInv
  <2> QED
    BY <2>2, <2>3 DEF SenderInv
<1>2. CASE tvalid /\ ~ready /\ UNCHANGED <<active, count, tvalid, tdata, tlast>>
  BY <1>0, <1>2 DEF SenderInv, SenderHistory, Free
<1>3. CASE ~tvalid /\ ~active /\ cap_reg /\ StartReport
  <2>1. active' /\ tvalid' /\ ~tlast' /\ count' = 0 /\ tdata' = Header
    BY <1>3 DEF StartReport
  <2>2. active' \in BOOLEAN /\ tvalid' \in BOOLEAN /\ tlast' \in BOOLEAN
    BY <1>3 DEF StartReport
  <2>3. got' = 0
    BY <1>3 DEF SenderInv, SenderHistory
  <2> QED
    BY <1>0, <2>1, <2>2, <2>3 DEF SenderInv
<1>4. CASE ~tvalid /\ ~(~active /\ cap_reg) /\ Quiet
  BY <1>0, <1>4 DEF SenderInv, SenderHistory, Quiet
<1> QED
  BY <1>1, <1>2, <1>3, <1>4 DEF Sender

LEMMA SenderInvStep == SenderInv /\ [Next]_vars => SenderInv'
<1> SUFFICES ASSUME SenderInv, [Next]_vars PROVE SenderInv'
  OBVIOUS
<1>1. CASE Switch
  BY <1>1 DEF SenderInv, Switch, senderVars
<1>2. CASE \E valid, good, trig, ready \in BOOLEAN : Clock(valid, good, trig, ready)
  <2>1. PICK valid, good, trig, ready \in BOOLEAN : Clock(valid, good, trig, ready)
    BY <1>2
  <2> QED
    BY <2>1, SenderInvClock DEF Clock
<1>3. CASE UNCHANGED vars
  BY <1>3 DEF SenderInv, vars, senderVars, historyVars
<1> QED
  BY <1>1, <1>2, <1>3 DEF Next

\* What simple_packetizer sends is always one whole report, word by word: a report formed
\* while another is being sent never gets into it, however long the reader takes.
THEOREM PacketsWhole == Spec => []PacketWhole
<1>1. SenderInv => PacketWhole
  BY DEF SenderInv, PacketWhole
<1> QED
  BY <1>1, SenderInvInit, SenderInvStep, PTL DEF Spec
-----------------------------------------------------------------------------
(***************************************************************************)
(* Type correctness: no counter leaves its range. A cycle ends before it   *)
(* would open one region too many.                                         *)
(***************************************************************************)

RegionLeft == cycle_cnt # 0 => region_cnt < Regions

Sized == RegionLeft /\ SenderInv

LEMMA AdvanceInRange ==
  ASSUME TypeOK, NEW valid \in BOOLEAN
  PROVE  Advance(valid) \in 0..(CycleMod - 1)
  BY DEF TypeOK, Advance

LEMMA ControlTyped ==
  ASSUME TypeOK, RegionLeft, NEW valid \in BOOLEAN, NEW trig \in BOOLEAN,
         Control(valid, trig)
  PROVE  /\ cycle_cnt' \in 0..(CycleMod - 1)
         /\ region_cnt' \in 0..Regions /\ sample_cnt' \in 0..RegionSize
         /\ RegionLeft'
<1>1. CASE Off
  BY <1>1 DEF Off, RegionLeft
<1>2. CASE Region(valid)
  <2>1. region_cnt < Regions
    BY <1>2 DEF Region, cycle_active, RegionLeft
  <2>2. CASE region_end(valid)
    <3>1. region_cnt' = region_cnt + 1 /\ sample_cnt' = 0
      BY <1>2, <2>2 DEF Region
    <3>2. cycle_cnt' = 0 \/ region_cnt + 1 < Regions
      BY <1>2, <2>1, <2>2 DEF Region, all_end, TypeOK
    <3>3. cycle_cnt' \in 0..(CycleMod - 1)
      BY <1>2, AdvanceInRange DEF Region
    <3> QED
      BY <2>1, <3>1, <3>2, <3>3 DEF TypeOK, RegionLeft
  <2>3. CASE ~region_end(valid)
    <3>1. region_cnt' = region_cnt /\ cycle_cnt' = Advance(valid)
      BY <1>2, <2>3 DEF Region, all_end
    <3>2. sample_cnt' = IF valid THEN sample_cnt + 1 ELSE sample_cnt
      BY <1>2, <2>3 DEF Region
    <3>3. sample_cnt' \in 0..RegionSize
      BY <2>3, <3>2 DEF region_end, TypeOK
    <3> QED
      BY <2>1, <3>1, <3>3, AdvanceInRange DEF TypeOK, RegionLeft
  <2> QED
    BY <2>2, <2>3
<1>3. CASE trig /\ Triggered
  BY <1>3 DEF Triggered, RegionLeft
<1>4. CASE ~trig /\ Delaying(valid)
  <2>1. cycle_cnt' # 0 => cycle_cnt # 0
    BY <1>4 DEF Delaying, Advance
  <2> QED
    BY <1>4, <2>1, AdvanceInRange DEF Delaying, TypeOK, RegionLeft
<1> QED
  BY <1>1, <1>2, <1>3, <1>4 DEF Control

LEMMA SummaryTyped ==
  ASSUME TypeOK, NEW valid \in BOOLEAN, valid => next \in Sample, Summary(valid)
  PROVE  /\ start_reg' \in BOOLEAN /\ started' \in BOOLEAN /\ cap_reg' \in BOOLEAN
         /\ pkt_counter' \in Nat /\ cap_ts' \in {0} \cup Sample
         /\ samples_captured' \subseteq Sample
<1>1. start_reg' \in BOOLEAN /\ started' \in BOOLEAN /\ cap_reg' \in BOOLEAN
  BY Zenon DEF TypeOK, Summary, cap_start, cap_ena, captured, begins
<1>2. pkt_counter' \in Nat
  BY DEF TypeOK, Summary
<1>3. CountSamples(valid)
  BY DEF Summary
<1>4. CASE cap_reg
  BY <1>1, <1>2, <1>3, <1>4 DEF TypeOK, CountSamples
<1>5. CASE ~cap_reg /\ running(valid) /\ valid
  BY <1>1, <1>2, <1>3, <1>5 DEF TypeOK, CountSamples
<1>6. CASE ~cap_reg /\ ~(running(valid) /\ valid)
  BY <1>1, <1>2, <1>3, <1>6 DEF TypeOK, CountSamples
<1> QED
  BY <1>4, <1>5, <1>6

LEMMA ChannelTyped ==
  ASSUME TypeOK, NEW valid \in BOOLEAN, NEW good \in BOOLEAN,
         valid => next \in Sample, Channel(valid, good)
  PROVE  /\ result' \in {0} \cup Sample
         /\ ch_sum' \subseteq Sample /\ ch_sum_win' \subseteq Sample
         /\ extremes' \subseteq Sample /\ ch_misc' \subseteq Sample
<1>1. result' \in {0} \cup Sample
  BY DEF Channel
<1>2. result # 0 => {result} \subseteq Sample
  BY DEF TypeOK
<1>3. Add(valid)
  BY DEF Channel
<1>4. CASE begins(valid)
  BY <1>1, <1>3, <1>4 DEF Add, BeginRegion, TypeOK
<1>5. CASE cap_reg /\ ~begins(valid)
  BY <1>1, <1>2, <1>3, <1>5 DEF Add, Restarted, TypeOK
<1>6. CASE ~cap_reg /\ ~begins(valid) /\ running(valid) /\ result # 0
  BY <1>1, <1>2, <1>3, <1>6 DEF Add, Accumulate, TypeOK
<1>7. CASE ~cap_reg /\ ~begins(valid) /\ ~(running(valid) /\ result # 0)
  BY <1>1, <1>3, <1>7 DEF Add, Rest, TypeOK
<1> QED
  BY <1>4, <1>5, <1>6, <1>7

LEMMA SenderTyped ==
  ASSUME TypeOK, SenderInv, NEW valid \in BOOLEAN, NEW ready \in BOOLEAN,
         Sender(ready), SenderHistory(valid, ready)
  PROVE  /\ captured_d' \in Nat /\ taken' \in Nat
         /\ count' \in 0..Words /\ tdata' \in Nat \X (0..Words)
         /\ smooth' \in BOOLEAN
<1>1. captured_d' \in Nat /\ taken' \in Nat
  BY DEF TypeOK, Sender, Latch, SenderHistory
<1>2. smooth' \in BOOLEAN
  BY Zenon DEF TypeOK, SenderHistory, captured
<1>3. Header \in Nat \X (0..Words)
  BY DEF Header
<1>4. CASE tvalid /\ ready /\ NextWord
  <2>1. CASE active
    <3>1. count' = count + 1 /\ tdata' = <<captured_d, count + 1>>
      BY <1>4, <2>1 DEF NextWord
    <3>2. count \in 0..Words /\ count < Words
      BY <1>4, <2>1 DEF SenderInv
    <3>3. count' \in 0..Words
      BY <3>1, <3>2
    <3> QED
      BY <1>1, <1>2, <3>1, <3>3 DEF TypeOK
  <2>2. CASE ~active
    BY <1>1, <1>2, <1>3, <1>4, <2>2 DEF NextWord
  <2> QED
    BY <2>1, <2>2
<1>5. CASE tvalid /\ ~ready /\ UNCHANGED <<active, count, tvalid, tdata, tlast>>
  BY <1>1, <1>2, <1>5 DEF TypeOK
<1>6. CASE StartReport \/ Quiet
  BY <1>1, <1>2, <1>3, <1>6 DEF StartReport, Quiet
<1> QED
  BY <1>4, <1>5, <1>6 DEF Sender

LEMMA RegionHistoryTyped ==
  ASSUME TypeOK, RegionLeft, NEW valid \in BOOLEAN, valid => next \in Sample,
         RegionHistory(valid)
  PROVE  /\ open' \subseteq Sample
         /\ {closing', closed'} \subseteq [samples : SUBSET Sample, number : 0..Regions]
<1> DEFINE samples == IF valid THEN open \cup {next} ELSE open
           over == cycle_active /\ (region_end(valid) \/ cycle_cnt' = 0)
<1>1. samples \subseteq Sample
  BY DEF TypeOK
<1>2. over => region_cnt + 1 \in 0..Regions
  BY DEF TypeOK, RegionLeft, cycle_active
<1>3. /\ open' = IF cycle_active /\ ~over THEN samples ELSE {}
      /\ closing' = IF over THEN [samples |-> samples, number |-> region_cnt + 1] ELSE closing
      /\ closed' = closing
  BY Zenon DEF RegionHistory
<1> HIDE DEF samples, over
<1>4. over => [samples |-> samples, number |-> region_cnt + 1]
                \in [samples : SUBSET Sample, number : 0..Regions]
  BY <1>1, <1>2
<1> QED
  BY <1>1, <1>3, <1>4 DEF TypeOK

LEMMA TypedInit == Init => TypeOK /\ Sized
<1> SUFFICES ASSUME Init PROVE TypeOK /\ Sized
  OBVIOUS
<1>1. NoRegion \in [samples : SUBSET Sample, number : 0..Regions]
  BY DEF NoRegion
<1>2. Header \in Nat \X (0..Words)
  BY DEF Header
<1>3. on \in BOOLEAN /\ start_reg \in BOOLEAN /\ started \in BOOLEAN /\ cap_reg \in BOOLEAN
  BY DEF Init
<1>4. active \in BOOLEAN /\ tvalid \in BOOLEAN /\ tlast \in BOOLEAN /\ smooth \in BOOLEAN
  BY DEF Init
<1>5. 0 \in 0..MaxSwitches /\ Period \in 0..Period /\ 1 \in 1..(MaxSamples + 1)
  OBVIOUS
<1>6. 0 \in 0..(CycleMod - 1) /\ 0 \in 0..Regions /\ 0 \in 0..RegionSize /\ 0 \in 0..Words
  OBVIOUS
<1>7. TypeOK
  BY <1>1, <1>2, <1>3, <1>4, <1>5, <1>6 DEF Init, TypeOK
<1> QED
  BY <1>7, SenderInvInit DEF Init, Sized, RegionLeft

LEMMA TypedStep == TypeOK /\ Sized /\ [Next]_vars => (TypeOK /\ Sized)'
<1> SUFFICES ASSUME TypeOK, Sized, [Next]_vars PROVE (TypeOK /\ Sized)'
  OBVIOUS
<1>0. SenderInv' /\ RegionLeft /\ SenderInv
  BY SenderInvStep DEF Sized
<1>1. CASE Switch
  <2>1. /\ on' \in BOOLEAN /\ smooth' \in BOOLEAN
        /\ switches' \in 0..MaxSwitches
    <3>1. switches' \in 0..MaxSwitches
      BY <1>1 DEF Switch, TypeOK
    <3>2. on' \in BOOLEAN /\ smooth' \in BOOLEAN
      BY <1>1, Zenon DEF Switch, TypeOK
    <3> QED
      BY <3>1, <3>2
  <2>2. RegionLeft'
    BY <1>0, <1>1 DEF Switch, controlVars, RegionLeft
  <2>3. TypeOK'
    BY <1>1, <2>1 DEF Switch, TypeOK, controlVars, summaryVars, channelVars, senderVars
  <2> QED
    BY <1>0, <2>2, <2>3 DEF Sized
<1>2. CASE \E valid, good, trig, ready \in BOOLEAN : Clock(valid, good, trig, ready)
  <2>1. PICK valid, good, trig, ready \in BOOLEAN : Clock(valid, good, trig, ready)
    BY <1>2
  <2>2. valid => next \in Sample
    BY <2>1 DEF Clock, TypeOK, Sample
  <2>3. age' \in 0..Period /\ next' \in 1..(MaxSamples + 1) /\ bad' \subseteq Sample
    BY <2>1, <2>2 DEF Clock, TypeOK, Sample
  <2>4. /\ cycle_cnt' \in 0..(CycleMod - 1)
        /\ region_cnt' \in 0..Regions /\ sample_cnt' \in 0..RegionSize
        /\ RegionLeft'
    BY <1>0, <2>1, ControlTyped DEF Clock
  <2>5. /\ start_reg' \in BOOLEAN /\ started' \in BOOLEAN /\ cap_reg' \in BOOLEAN
        /\ pkt_counter' \in Nat /\ cap_ts' \in {0} \cup Sample
        /\ samples_captured' \subseteq Sample
    BY <2>1, <2>2, SummaryTyped DEF Clock
  <2>6. /\ result' \in {0} \cup Sample
        /\ ch_sum' \subseteq Sample /\ ch_sum_win' \subseteq Sample
        /\ extremes' \subseteq Sample /\ ch_misc' \subseteq Sample
    BY <2>1, <2>2, ChannelTyped DEF Clock
  <2>7. /\ captured_d' \in Nat /\ taken' \in Nat
        /\ count' \in 0..Words /\ tdata' \in Nat \X (0..Words)
        /\ smooth' \in BOOLEAN
    BY <1>0, <2>1, SenderTyped DEF Clock
  <2>8. /\ open' \subseteq Sample
        /\ {closing', closed'} \subseteq [samples : SUBSET Sample, number : 0..Regions]
    BY <1>0, <2>1, <2>2, RegionHistoryTyped DEF Clock
  <2>9. on' \in BOOLEAN /\ switches' \in 0..MaxSwitches
    BY <2>1 DEF Clock, TypeOK
  <2>10. /\ active' \in BOOLEAN /\ tvalid' \in BOOLEAN /\ tlast' \in BOOLEAN
         /\ got' \in 0..Words
    BY <1>0 DEF SenderInv
  <2>11. TypeOK'
    BY <2>3, <2>4, <2>5, <2>6, <2>7, <2>8, <2>9, <2>10, Zenon DEF TypeOK, Sample
  <2> QED
    BY <1>0, <2>4, <2>11 DEF Sized
<1>3. CASE UNCHANGED vars
  <2>1. TypeOK'
    BY <1>3 DEF TypeOK, vars, envVars, controlVars, summaryVars, channelVars, senderVars,
                historyVars
  <2>2. RegionLeft'
    BY <1>0, <1>3 DEF RegionLeft, vars, controlVars
  <2> QED
    BY <1>0, <2>1, <2>2 DEF Sized
<1> QED
  BY <1>1, <1>2, <1>3 DEF Next

\* Whatever the delays, the regions and the wrap of cycle_cnt: region_cnt never passes the
\* number of regions, no sample is counted into a region that is full, and a packet has no
\* word beyond its last.
THEOREM TypeCorrect == Spec => []TypeOK
<1> QED
  BY TypedInit, TypedStep, PTL DEF Spec
-----------------------------------------------------------------------------
(***************************************************************************)
(* No report is lost without a stall or a switch. The argument is a race:  *)
(* the packetizer needs Left clocks until it is free again, and the next   *)
(* report cannot be formed before Due clocks have passed. It is won if a   *)
(* region is long enough for a packet and no window is longer than         *)
(* cycle_cnt can count.                                                    *)
(***************************************************************************)

\* The clocks n samples take at least, and the samples of n regions.
Span(n) == n * Period
Inside(n) == n * (RegionSize + 1)

RegionHoldsReport == Span(RegionSize + 1) >= Words + 2
WindowIsCounted == EnaDelay + StartDelay + Inside(Regions) < CycleMod

\* Where a cycle is, its three counters agree: sample_cnt counts only in a region, and
\* cycle_cnt has passed the delays and the regions before this one.
InStep ==
    /\ ~cycle_active => sample_cnt = 0
    /\ ~cycle_active /\ cycle_cnt # 0 => region_cnt = 0
    /\ cycle_active =>
         /\ region_cnt < Regions
         /\ cycle_cnt = EnaDelay + StartDelay + 1 + sample_cnt
                          + Inside(Regions) - Inside(Regions - region_cnt)

\* The summary is one clock behind: it starts in the clock after the sample that opened
\* the first region, and sees the end of a region in the clock after its last sample.
OneBehind ==
    /\ started => cycle_active \/ cycle_cnt = 0
    /\ cycle_active /\ ~started => sample_cnt = 0 /\ ~start_reg /\ age = 1
    /\ cycle_active /\ started /\ sample_cnt = 0 /\ ~start_reg => age = 1
    /\ on /\ started /\ cycle_cnt = 0 => age = 1

\* A report is there two clocks after a sample, and either the next region has begun or
\* the cycle is over and at most triggered anew.
ReportFormed ==
    on /\ cap_reg =>
        /\ age = 2
        /\ \/ cycle_active /\ started /\ start_reg /\ sample_cnt = 0
           \/ ~cycle_active /\ ~started /\ cycle_cnt \in {0, 1}

\* The region has just ended: cap_reg comes next.
Ending == started /\ (cycle_cnt = 0 \/ (sample_cnt = 0 /\ ~start_reg))

Due == IF cap_reg THEN 0
       ELSE IF Ending THEN 1
       ELSE IF cycle_active THEN Span(RegionSize + 1 - sample_cnt) - age + 2
       ELSE Span(RegionSize + 2) - age + 2

Left == Words + 1 - got

Race == smooth /\ tvalid => on /\ Left <= Due

LEMMA SpanStep == \A n \in Nat : Span(n) \in Nat /\ Span(n + 1) = Span(n) + Period
  BY SMT DEF Span

LEMMA InsideStep ==
  \A n \in Nat : Inside(n) \in Nat /\ Inside(n + 1) = Inside(n) + RegionSize + 1
  BY SMT DEF Inside

\* Inside a window cycle_cnt does not wrap.
LEMMA NoWrap ==
  ASSUME TypeOK, InStep, WindowIsCounted, cycle_active, ~all_end(TRUE)
  PROVE  cycle_cnt + 1 < CycleMod
<1>1. PICK n \in Nat : n + 1 = Regions - region_cnt
  BY DEF TypeOK, InStep
<1>2. Inside(n) \in Nat /\ Inside(n + 1) = Inside(n) + RegionSize + 1 /\ Inside(Regions) \in Nat
  BY <1>1, InsideStep
<1>3. /\ cycle_cnt = EnaDelay + StartDelay + 1 + sample_cnt + Inside(Regions) - Inside(n + 1)
      /\ sample_cnt \in 0..RegionSize /\ region_cnt \in 0..Regions
  BY <1>1 DEF TypeOK, InStep
<1>4. CASE sample_cnt < RegionSize
  BY <1>2, <1>3, <1>4 DEF WindowIsCounted
<1>5. CASE sample_cnt = RegionSize
  <2>1. n # 0
    BY <1>1, <1>3, <1>5 DEF all_end, region_end
  <2>2. PICK m \in Nat : m + 1 = n
    BY <2>1
  <2>3. Inside(m) \in Nat /\ Inside(m + 1) = Inside(m) + RegionSize + 1
    BY <2>2, InsideStep
  <2> QED
    BY <1>2, <1>3, <1>5, <2>2, <2>3 DEF WindowIsCounted
<1> QED
  BY <1>3, <1>4, <1>5

\* What a clock does to a cycle in one of its regions, while averaging is on.
LEMMA RegionClock ==
  ASSUME TypeOK, InStep, WindowIsCounted, NEW valid \in BOOLEAN, NEW trig \in BOOLEAN,
         Control(valid, trig), on, cycle_active
  PROVE  /\ ~valid => UNCHANGED <<cycle_cnt, region_cnt, sample_cnt>> /\ cycle_active'
         /\ valid /\ sample_cnt # RegionSize =>
              /\ cycle_cnt' = cycle_cnt + 1 /\ cycle_active'
              /\ sample_cnt' = sample_cnt + 1 /\ region_cnt' = region_cnt
         /\ valid /\ sample_cnt = RegionSize =>
              /\ sample_cnt' = 0 /\ region_cnt' = region_cnt + 1
              /\ \/ cycle_cnt' = 0 /\ region_cnt = Regions - 1 /\ ~cycle_active'
                 \/ cycle_cnt' = cycle_cnt + 1 /\ region_cnt # Regions - 1 /\ cycle_active'
<1>1. Region(valid)
  BY DEF Control, Off, Triggered, Delaying
<1>2. cycle_cnt \in Nat /\ cycle_cnt # 0 /\ cycle_cnt < CycleMod
  BY DEF TypeOK, cycle_active
<1>3. CASE ~valid
  BY <1>1, <1>2, <1>3 DEF Region, region_end, all_end, Advance, cycle_active
<1>4. CASE valid
  <2>1. ~all_end(TRUE) => Advance(valid) = cycle_cnt + 1
    BY <1>2, <1>4, NoWrap DEF Advance
  <2>2. all_end(valid) <=> sample_cnt = RegionSize /\ region_cnt = Regions - 1
    BY <1>4 DEF all_end, region_end
  <2>3. ~all_end(valid) => cycle_cnt' = cycle_cnt + 1 /\ cycle_active'
    <3> SUFFICES ASSUME ~all_end(valid) PROVE cycle_cnt' = cycle_cnt + 1 /\ cycle_active'
      OBVIOUS
    <3>1. Advance(valid) = cycle_cnt + 1
      BY <1>4, <2>1 DEF all_end, region_end
    <3>2. cycle_cnt' = cycle_cnt + 1
      BY <1>1, <3>1 DEF Region
    <3> QED
      BY <1>2, <3>2 DEF cycle_active
  <2>4. all_end(valid) => cycle_cnt' = 0 /\ ~cycle_active'
    BY <1>1 DEF Region, cycle_active
  <2>5. /\ sample_cnt' = IF sample_cnt = RegionSize THEN 0 ELSE sample_cnt + 1
        /\ region_cnt' = IF sample_cnt = RegionSize THEN region_cnt + 1 ELSE region_cnt
    BY <1>1, <1>4 DEF Region, region_end
  <2> QED
    BY <1>4, <2>2, <2>3, <2>4, <2>5
<1> QED
  BY <1>3, <1>4

\* Outside the regions: the cycle stays idle or goes through its delays, until a sample
\* opens the first region.
LEMMA DelayClock ==
  ASSUME TypeOK, InStep, NEW valid \in BOOLEAN, NEW trig \in BOOLEAN,
         Control(valid, trig), on, ~cycle_active
  PROVE  /\ sample_cnt' = 0
         /\ cycle_cnt' # 0 => region_cnt' = 0
         /\ cycle_active' => valid /\ cycle_cnt' = EnaDelay + StartDelay + 1 /\ cycle_cnt # 0
         /\ cycle_cnt = 0 => cycle_cnt' \in {0, 1}
         /\ cycle_cnt = 1 /\ ~valid => cycle_cnt' = 1
<1>1. CASE trig /\ Triggered
  BY <1>1 DEF Triggered, cycle_active
<1>2. CASE ~trig /\ Delaying(valid)
  <2>1. sample_cnt' = 0 /\ region_cnt' = region_cnt
    BY <1>2 DEF Delaying, InStep
  <2>2. cycle_cnt \in 0..(CycleMod - 1) /\ cycle_cnt <= EnaDelay + StartDelay
    BY DEF TypeOK, cycle_active
  <2>3. CASE cycle_cnt # 0 /\ valid
    <3>1. cycle_cnt' = (cycle_cnt + 1) % CycleMod /\ region_cnt = 0
      BY <1>2, <2>3 DEF Delaying, Advance, InStep
    <3>2. cycle_cnt' = 0 \/ cycle_cnt' = cycle_cnt + 1
      BY <2>2, <3>1
    <3> QED
      BY <2>1, <2>2, <2>3, <3>1, <3>2 DEF cycle_active
  <2>4. CASE cycle_cnt = 0 \/ ~valid
    <3>1. cycle_cnt' = cycle_cnt
      BY <1>2, <2>4 DEF Delaying, Advance
    <3> QED
      BY <2>1, <2>2, <3>1 DEF cycle_active, InStep
  <2> QED
    BY <2>3, <2>4
<1> QED
  BY <1>1, <1>2 DEF Control, Off, Region

LEMMA OffClock ==
  ASSUME NEW valid \in BOOLEAN, NEW trig \in BOOLEAN, Control(valid, trig), ~on
  PROVE  cycle_cnt' = 0 /\ region_cnt' = 0 /\ sample_cnt' = 0 /\ ~cycle_active'
  BY DEF Control, Off, Region, Triggered, Delaying, cycle_active

LEMMA InStepClock ==
  ASSUME TypeOK, InStep, WindowIsCounted, NEW valid \in BOOLEAN, NEW trig \in BOOLEAN,
         Control(valid, trig)
  PROVE  InStep'
<1>1. CASE ~on
  BY <1>1, OffClock DEF InStep
<1>2. CASE on /\ ~cycle_active
  <2>1. /\ sample_cnt' = 0 /\ (cycle_cnt' # 0 => region_cnt' = 0)
        /\ cycle_active' => cycle_cnt' = EnaDelay + StartDelay + 1
    BY <1>2, DelayClock
  <2>2. Inside(Regions) \in Nat
    BY InsideStep
  <2>3. cycle_active' =>
           /\ region_cnt' < Regions
           /\ cycle_cnt' = EnaDelay + StartDelay + 1 + sample_cnt'
                             + Inside(Regions) - Inside(Regions - region_cnt')
    BY <2>1, <2>2 DEF cycle_active
  <2> QED
    BY <2>1, <2>3 DEF InStep
<1>3. CASE on /\ cycle_active
  <2>1. /\ region_cnt < Regions /\ region_cnt \in Nat
        /\ cycle_cnt = EnaDelay + StartDelay + 1 + sample_cnt
                         + Inside(Regions) - Inside(Regions - region_cnt)
        /\ sample_cnt \in 0..RegionSize
    BY <1>3 DEF InStep, TypeOK
  <2>2. CASE ~valid
    <3>1. UNCHANGED <<cycle_cnt, region_cnt, sample_cnt>> /\ cycle_active'
      BY <1>3, <2>2, RegionClock
    <3> QED
      BY <2>1, <3>1 DEF InStep
  <2>3. CASE valid /\ sample_cnt # RegionSize
    <3>1. /\ cycle_cnt' = cycle_cnt + 1 /\ cycle_active'
          /\ sample_cnt' = sample_cnt + 1 /\ region_cnt' = region_cnt
      BY <1>3, <2>3, RegionClock
    <3>2. Inside(Regions) \in Nat /\ Inside(Regions - region_cnt) \in Nat
      BY <2>1, InsideStep
    <3> QED
      BY <2>1, <3>1, <3>2 DEF InStep
  <2>4. CASE valid /\ sample_cnt = RegionSize
    <3>1. /\ sample_cnt' = 0 /\ region_cnt' = region_cnt + 1
          /\ \/ cycle_cnt' = 0 /\ region_cnt = Regions - 1 /\ ~cycle_active'
             \/ cycle_cnt' = cycle_cnt + 1 /\ region_cnt # Regions - 1 /\ cycle_active'
      BY <1>3, <2>4, RegionClock
    <3>2. CASE region_cnt = Regions - 1
      BY <3>1, <3>2 DEF InStep
    <3>3. CASE region_cnt # Regions - 1
      <4>1. PICK n \in Nat : n = Regions - region_cnt'
        BY <2>1, <3>1, <3>3
      <4>2. /\ Inside(n) \in Nat /\ Inside(n + 1) = Inside(n) + RegionSize + 1
            /\ Inside(Regions) \in Nat /\ n + 1 = Regions - region_cnt
        BY <2>1, <3>1, <4>1, InsideStep
      <4>3. cycle_cnt' = EnaDelay + StartDelay + 1 + sample_cnt'
                          + Inside(Regions) - Inside(Regions - region_cnt')
        BY <2>1, <2>4, <3>1, <3>3, <4>1, <4>2
      <4> QED
        BY <2>1, <3>1, <3>3, <4>3 DEF InStep
    <3> QED
      BY <3>2, <3>3
  <2> QED
    BY <2>2, <2>3, <2>4
<1> QED
  BY <1>1, <1>2, <1>3

\* The time since the last sample, as far as a Clock changes it.
Ages(valid) ==
    /\ valid => age = Period
    /\ age' = IF valid THEN 1 ELSE IF age < Period THEN age + 1 ELSE age

\* What the summary makes of a clock, by where the cycle is.
LEMMA SummaryClock ==
  ASSUME TypeOK, OneBehind, NEW valid \in BOOLEAN, Summary(valid)
  PROVE  /\ ~cycle_active => ~started' /\ ~start_reg'
         /\ cycle_active /\ ~started => ~cap_reg' /\ (~valid => started' /\ start_reg')
         /\ cycle_active /\ started =>
              /\ started'
              /\ sample_cnt # 0 => ~start_reg' /\ ~cap_reg'
              /\ sample_cnt = 0 /\ start_reg => ~cap_reg'
              /\ sample_cnt = 0 /\ ~valid => start_reg'
         /\ cap_reg' => started
<1>1. /\ start_reg' <=> cap_start(valid)
      /\ started' <=> cap_ena /\ (cap_start(valid) \/ started)
      /\ cap_reg' <=> started /\ ((cap_start(valid) /\ ~start_reg) \/ ~cap_ena)
  BY DEF Summary, captured, begins
<1>2. cycle_active => cap_ena
  BY DEF cycle_active, cap_ena, TypeOK
<1>3. cycle_cnt = 0 => ~cap_ena
  BY DEF cap_ena
<1>4. cap_start(valid) => cycle_active /\ sample_cnt = 0
  BY DEF cap_start
<1>5. cycle_active /\ sample_cnt = 0 => cap_start(valid)
  BY DEF cap_start, all_end, region_end
<1>6. started => cycle_active \/ cycle_cnt = 0
  BY DEF OneBehind
<1>7. CASE ~cycle_active
  BY <1>1, <1>3, <1>4, <1>6, <1>7
<1>8. CASE cycle_active /\ ~started
  BY <1>1, <1>2, <1>4, <1>5, <1>8 DEF OneBehind
<1>9. CASE cycle_active /\ started
  BY <1>1, <1>2, <1>4, <1>5, <1>9
<1> QED
  BY <1>7, <1>8, <1>9

LEMMA OneBehindClock ==
  ASSUME TypeOK, InStep, OneBehind, WindowIsCounted, NEW valid \in BOOLEAN,
         NEW trig \in BOOLEAN, Control(valid, trig), Summary(valid), Ages(valid), on' = on
  PROVE  OneBehind'
<1>1. CASE ~on
  <2>1. cycle_cnt' = 0 /\ ~cycle_active'
    BY <1>1, OffClock
  <2> QED
    BY <1>1, <2>1 DEF OneBehind
<1>2. CASE on /\ ~cycle_active
  <2>1. ~started' /\ ~start_reg' /\ sample_cnt' = 0 /\ (cycle_active' => valid)
    BY <1>2, SummaryClock, DelayClock
  <2> QED
    BY <2>1 DEF OneBehind, Ages
<1>3. CASE on /\ cycle_active /\ ~started
  <2>1. ~valid
    BY <1>3 DEF OneBehind, Ages
  <2>2. started' /\ start_reg' /\ cycle_active' /\ cycle_cnt' = cycle_cnt
    BY <1>3, <2>1, SummaryClock, RegionClock
  <2>3. cycle_cnt # 0
    BY <1>3 DEF cycle_active
  <2> QED
    BY <2>2, <2>3 DEF OneBehind
<1>4. CASE on /\ cycle_active /\ started
  <2>1. started' /\ cycle_cnt # 0 /\ cycle_cnt \in Nat
    BY <1>4, SummaryClock DEF cycle_active, TypeOK
  <2>2. CASE ~valid
    <3>1. cycle_active' /\ cycle_cnt' = cycle_cnt /\ sample_cnt' = sample_cnt
      BY <1>4, <2>2, RegionClock
    <3>2. sample_cnt = 0 => start_reg'
      BY <1>4, <2>2, SummaryClock
    <3> QED
      BY <2>1, <3>1, <3>2 DEF OneBehind
  <2>3. CASE valid
    <3>1. age' = 1
      BY <2>3 DEF Ages
    <3>2. cycle_active' \/ cycle_cnt' = 0
      BY <1>4, <2>3, RegionClock
    <3> QED
      BY <2>1, <3>1, <3>2 DEF OneBehind
  <2> QED
    BY <2>2, <2>3
<1> QED
  BY <1>1, <1>2, <1>3, <1>4

LEMMA BehindStep ==
  WindowIsCounted /\ TypeOK /\ InStep /\ OneBehind /\ [Next]_vars => InStep' /\ OneBehind'
<1> SUFFICES ASSUME WindowIsCounted, TypeOK, InStep, OneBehind, [Next]_vars
             PROVE  InStep' /\ OneBehind'
  OBVIOUS
<1>1. CASE Switch \/ UNCHANGED vars
  <2>1. /\ UNCHANGED <<cycle_cnt, region_cnt, sample_cnt, start_reg, started, age>>
        /\ on' => on \/ ~started
    BY <1>1 DEF Switch, vars, envVars, controlVars, summaryVars
  <2>2. cycle_active' = cycle_active
    BY <2>1 DEF cycle_active
  <2> QED
    BY <2>1, <2>2 DEF InStep, OneBehind, Inside
<1>2. CASE \E valid, good, trig, ready \in BOOLEAN : Clock(valid, good, trig, ready)
  <2>1. PICK valid, good, trig, ready \in BOOLEAN : Clock(valid, good, trig, ready)
    BY <1>2
  <2>2. Control(valid, trig) /\ Summary(valid) /\ Ages(valid) /\ on' = on
    BY <2>1 DEF Clock, Ages
  <2> QED
    BY <2>2, InStepClock, OneBehindClock
<1> QED
  BY <1>1, <1>2 DEF Next

LEMMA ReportFormedClock ==
  ASSUME TypeOK, InStep, OneBehind, WindowIsCounted, NEW valid \in BOOLEAN,
         NEW trig \in BOOLEAN, Control(valid, trig), Summary(valid), Ages(valid), on' = on
  PROVE  ReportFormed'
<1> SUFFICES ASSUME on, cap_reg'
             PROVE  /\ age' = 2
                    /\ \/ cycle_active' /\ started' /\ start_reg' /\ sample_cnt' = 0
                       \/ ~cycle_active' /\ ~started' /\ cycle_cnt' \in {0, 1}
  BY DEF ReportFormed
<1>1. started
  BY SummaryClock
<1>2. age = 1 => ~valid /\ age' = 2
  BY DEF Ages
<1>3. CASE cycle_active
  <2>1. sample_cnt = 0 /\ ~start_reg
    BY <1>1, <1>3, SummaryClock
  <2>2. ~valid /\ age' = 2
    BY <1>1, <1>2, <1>3, <2>1 DEF OneBehind
  <2>3. cycle_active' /\ sample_cnt' = 0
    BY <1>3, <2>1, <2>2, RegionClock
  <2>4. started' /\ start_reg'
    BY <1>1, <1>3, <2>1, <2>2, SummaryClock
  <2> QED
    BY <2>2, <2>3, <2>4
<1>4. CASE ~cycle_active
  <2>1. cycle_cnt = 0
    BY <1>1, <1>4 DEF OneBehind
  <2>2. age' = 2
    BY <1>1, <1>2, <2>1 DEF OneBehind
  <2>3. cycle_cnt' \in {0, 1} /\ ~started'
    BY <1>4, <2>1, DelayClock, SummaryClock
  <2>4. ~cycle_active'
    BY <2>3 DEF cycle_active
  <2> QED
    BY <2>2, <2>3, <2>4
<1> QED
  BY <1>3, <1>4

\* What Due is, by where the cycle is.
DueBounds ==
    /\ Due \in Int /\ Due >= 0
    /\ ~cap_reg => Due >= 1
    /\ ~cap_reg /\ ~Ending /\ cycle_active => Due = Span(RegionSize + 1 - sample_cnt) - age + 2
    /\ ~cap_reg /\ ~Ending /\ ~cycle_active => Due = Span(RegionSize + 2) - age + 2

LEMMA DueIs == TypeOK => DueBounds
<1> SUFFICES ASSUME TypeOK PROVE DueBounds
  OBVIOUS
<1>1. PICK m \in Nat : m + 1 = RegionSize + 1 - sample_cnt
  BY DEF TypeOK
<1>2. Span(m) \in Nat /\ Span(m + 1) = Span(m) + Period
  BY <1>1, SpanStep
<1>3. (RegionSize + 1) + 1 = RegionSize + 2 /\ RegionSize + 1 \in Nat
  OBVIOUS
<1>4. Span(RegionSize + 1) \in Nat /\ Span(RegionSize + 2) = Span(RegionSize + 1) + Period
  BY <1>3, SpanStep
<1>5. age \in 0..Period
  BY DEF TypeOK
<1> QED
  BY <1>1, <1>2, <1>4, <1>5 DEF DueBounds, Due

\* In a clock the next report comes at most one clock nearer.
LEMMA DueClock ==
  ASSUME TypeOK, TypeOK', InStep, OneBehind, WindowIsCounted, NEW valid \in BOOLEAN,
         NEW trig \in BOOLEAN, Control(valid, trig), Summary(valid), Ages(valid),
         on, ~cap_reg
  PROVE  Due' >= Due - 1
<1>bounds. DueBounds /\ DueBounds'
  BY DueIs, PTL
<1>0. /\ Due' \in Int /\ Due' >= 0
      /\ ~cap_reg' => Due' >= 1
      /\ ~cap_reg' /\ ~Ending' /\ cycle_active' =>
            Due' = Span(RegionSize + 1 - sample_cnt') - age' + 2
      /\ ~cap_reg' /\ ~Ending' /\ ~cycle_active' => Due' = Span(RegionSize + 2) - age' + 2
  BY <1>bounds DEF DueBounds, Span
<1>1. age' \in 0..Period /\ age \in 0..Period /\ (valid => age = Period /\ age' = 1)
      /\ (~valid => age' <= age + 1)
  BY DEF Ages, TypeOK
<1>2. CASE Ending
  BY <1>0, <1>2 DEF Due
<1>3. CASE ~Ending /\ ~cycle_active
  <2>1. Due = Span(RegionSize + 2) - age + 2
    BY <1>bounds, <1>3 DEF DueBounds
  <2>2. ~started /\ ~started' /\ ~cap_reg'
    BY <1>3, SummaryClock DEF Ending, OneBehind
  <2>3. ~Ending'
    BY <2>2 DEF Ending
  <2>4. /\ Span(RegionSize + 1) \in Nat
        /\ Span(RegionSize + 2) = Span(RegionSize + 1) + Period
    <3>1. (RegionSize + 1) + 1 = RegionSize + 2 /\ RegionSize + 1 \in Nat
      OBVIOUS
    <3> QED
      BY <3>1, SpanStep
  <2>5. CASE cycle_active'
    <3>1. valid /\ sample_cnt' = 0
      BY <1>3, <2>5, DelayClock
    <3>2. Due' = Span(RegionSize + 1) - age' + 2
      BY <1>0, <2>2, <2>3, <2>5, <3>1
    <3> QED
      BY <1>1, <2>1, <2>4, <3>1, <3>2
  <2>6. CASE ~cycle_active'
    <3>1. Due' = Span(RegionSize + 2) - age' + 2
      BY <1>0, <2>2, <2>3, <2>6
    <3> QED
      BY <1>1, <2>1, <2>4, <3>1
  <2> QED
    BY <2>5, <2>6
<1>4. CASE ~Ending /\ cycle_active
  <2>1. Due = Span(RegionSize + 1 - sample_cnt) - age + 2
    BY <1>bounds, <1>4 DEF DueBounds
  <2>2. PICK m \in Nat : m + 1 = RegionSize + 1 - sample_cnt
    BY DEF TypeOK
  <2>3. Span(m) \in Nat /\ Span(m + 1) = Span(m) + Period /\ sample_cnt \in 0..RegionSize
    BY <2>2, SpanStep DEF TypeOK
  <2>4. cycle_cnt # 0 /\ cycle_cnt \in Nat
    BY <1>4 DEF cycle_active, TypeOK
  <2>5. CASE ~started
    <3>1. sample_cnt = 0 /\ ~valid
      BY <1>1, <1>4, <2>5 DEF OneBehind
    <3>2. /\ cycle_active' /\ sample_cnt' = sample_cnt /\ cycle_cnt' = cycle_cnt
          /\ started' /\ start_reg' /\ ~cap_reg'
      BY <1>4, <2>5, <3>1, RegionClock, SummaryClock
    <3>3. ~Ending'
      BY <2>4, <3>2 DEF Ending
    <3> QED
      BY <1>0, <1>1, <2>1, <2>2, <2>3, <3>1, <3>2, <3>3
  <2>6. CASE started
    <3>1. sample_cnt # 0 \/ start_reg
      BY <1>4, <2>6 DEF Ending
    <3>2. ~cap_reg' /\ started'
      BY <1>4, <2>6, <3>1, SummaryClock
    <3>3. CASE ~valid
      <4>1. cycle_active' /\ sample_cnt' = sample_cnt /\ cycle_cnt' = cycle_cnt
        BY <1>4, <3>3, RegionClock
      <4>2. sample_cnt = 0 => start_reg'
        BY <1>4, <2>6, <3>3, SummaryClock
      <4>3. ~Ending'
        BY <2>4, <4>1, <4>2 DEF Ending
      <4> QED
        BY <1>0, <1>1, <2>1, <2>2, <2>3, <3>2, <3>3, <4>1, <4>3
    <3>4. CASE valid /\ sample_cnt # RegionSize
      <4>1. cycle_active' /\ sample_cnt' = sample_cnt + 1 /\ cycle_cnt' = cycle_cnt + 1
        BY <1>4, <3>4, RegionClock
      <4>2. ~Ending' /\ RegionSize + 1 - sample_cnt' = m
        BY <2>2, <2>3, <2>4, <4>1 DEF Ending
      <4> QED
        BY <1>0, <1>1, <2>1, <2>2, <2>3, <3>2, <3>4, <4>1, <4>2
    <3>5. CASE valid /\ sample_cnt = RegionSize
      <4>1. Span(1) = Period /\ RegionSize + 1 - sample_cnt = 1
        BY <2>3, <3>5 DEF Span
      <4>2. Due = 2 /\ Due' >= 1
        BY <1>0, <1>1, <2>1, <3>2, <3>5, <4>1
      <4> QED
        BY <1>0, <4>2
    <3> QED
      BY <3>3, <3>4, <3>5
  <2> QED
    BY <2>5, <2>6
<1> QED
  BY <1>2, <1>3, <1>4

\* When a report is taken the next one is far enough away.
LEMMA ReportTaken ==
  ASSUME TypeOK, TypeOK', OneBehind, ReportFormed, InStep, WindowIsCounted, RegionHoldsReport,
         NEW valid \in BOOLEAN, NEW trig \in BOOLEAN, Control(valid, trig), Summary(valid),
         Ages(valid), on, cap_reg, ~cap_reg'
  PROVE  Due' >= Words + 1
<1>bounds. DueBounds'
  BY DueIs, PTL
<1>0. /\ ~Ending' /\ cycle_active' => Due' = Span(RegionSize + 1 - sample_cnt') - age' + 2
      /\ ~Ending' /\ ~cycle_active' => Due' = Span(RegionSize + 2) - age' + 2
  BY <1>bounds DEF DueBounds, Span
<1>1. age = 2 /\ ~valid /\ age' = 3
  BY DEF ReportFormed, Ages
<1>2. /\ Span(RegionSize + 1) \in Nat /\ Span(RegionSize + 1) >= Words + 2
      /\ Span(RegionSize + 2) = Span(RegionSize + 1) + Period
  <2>1. (RegionSize + 1) + 1 = RegionSize + 2 /\ RegionSize + 1 \in Nat
    OBVIOUS
  <2> QED
    BY <2>1, SpanStep DEF RegionHoldsReport
<1>3. CASE cycle_active /\ started /\ start_reg /\ sample_cnt = 0
  <2>1. cycle_active' /\ sample_cnt' = 0 /\ cycle_cnt' = cycle_cnt /\ cycle_cnt # 0
    BY <1>1, <1>3, RegionClock DEF cycle_active
  <2>2. started' /\ start_reg'
    BY <1>1, <1>3, SummaryClock
  <2>3. ~Ending'
    BY <2>1, <2>2 DEF Ending
  <2> QED
    BY <1>0, <1>1, <1>2, <2>1, <2>3
<1>4. CASE ~cycle_active /\ ~started /\ cycle_cnt \in {0, 1}
  <2>1. cycle_cnt' \in {0, 1} /\ ~started'
    BY <1>1, <1>4, DelayClock, SummaryClock
  <2>2. ~Ending' /\ ~cycle_active'
    BY <2>1 DEF Ending, cycle_active
  <2> QED
    BY <1>0, <1>1, <1>2, <2>2
<1> QED
  BY <1>3, <1>4 DEF ReportFormed

LEMMA RaceClock ==
  ASSUME TypeOK, TypeOK', SenderInv, InStep, OneBehind, ReportFormed, Race,
         WindowIsCounted, RegionHoldsReport,
         NEW valid \in BOOLEAN, NEW trig \in BOOLEAN, NEW ready \in BOOLEAN,
         Control(valid, trig), Summary(valid), Ages(valid),
         Sender(ready), SenderHistory(valid, ready), on' = on
  PROVE  Race'
<1> SUFFICES ASSUME smooth', tvalid' PROVE on' /\ Left' <= Due'
  BY DEF Race
<1>1. CASE Free /\ cap_reg
  <2>1. on /\ ~captured(valid)
    BY <1>1 DEF SenderHistory
  <2>2. ~cap_reg'
    BY <2>1 DEF Summary
  <2>3. got' = 0
    BY <1>1 DEF SenderHistory, SenderInv, Free
  <2>4. Due' >= Words + 1
    BY <1>1, <2>1, <2>2, ReportTaken
  <2>5. Left' = Words + 1
    BY <2>3 DEF Left
  <2> QED
    BY <2>1, <2>4, <2>5
<1>2. CASE ~(Free /\ cap_reg)
  <2>1. smooth /\ (ready \/ ~tvalid)
    BY <1>2 DEF SenderHistory
  <2>2. tvalid /\ ready /\ active
    BY <1>2, <2>1 DEF Sender, NextWord, Quiet, StartReport, Free, SenderInv
  <2>3. got < Words /\ got \in Nat /\ got' = got + 1
    BY <2>2 DEF SenderInv, SenderHistory
  <2>4. on /\ Left <= Due
    BY <2>1, <2>2 DEF Race
  <2>5. Left = Words + 1 - got /\ Left' = Words + 1 - got'
    BY DEF Left
  <2>6. ~cap_reg
    BY <2>3, <2>4, <2>5 DEF Due
  <2>7. Due' >= Due - 1
    BY <2>4, <2>6, DueClock
  <2>8. DueBounds /\ DueBounds'
    BY DueIs, PTL
  <2>9. Due \in Int /\ Due' \in Int
    BY <2>8 DEF DueBounds
  <2> QED
    BY <2>3, <2>4, <2>5, <2>7, <2>9
<1> QED
  BY <1>1, <1>2

RaceInv == ReportFormed /\ Race

LEMMA RaceStep ==
  WindowIsCounted /\ RegionHoldsReport /\ TypeOK /\ TypeOK' /\ Sized
      /\ InStep /\ OneBehind /\ RaceInv /\ [Next]_vars => RaceInv'
<1> SUFFICES ASSUME WindowIsCounted, RegionHoldsReport, TypeOK, TypeOK', Sized,
                    InStep, OneBehind, RaceInv, [Next]_vars
             PROVE  RaceInv'
  OBVIOUS
<1>0. ReportFormed /\ Race /\ SenderInv
  BY DEF RaceInv, Sized
<1>1. CASE Switch
  BY <1>1 DEF Switch, RaceInv, ReportFormed, Race, summaryVars
<1>2. CASE \E valid, good, trig, ready \in BOOLEAN : Clock(valid, good, trig, ready)
  <2>1. PICK valid, good, trig, ready \in BOOLEAN : Clock(valid, good, trig, ready)
    BY <1>2
  <2>2. /\ Control(valid, trig) /\ Summary(valid) /\ Sender(ready)
        /\ SenderHistory(valid, ready) /\ on' = on
    BY <2>1 DEF Clock
  <2>3. Ages(valid)
    BY <2>1 DEF Clock, Ages
  <2> QED
    BY <1>0, <2>2, <2>3, ReportFormedClock, RaceClock DEF RaceInv
<1>3. CASE UNCHANGED vars
  <2>1. UNCHANGED <<cycle_cnt, sample_cnt, start_reg, started, cap_reg, age, on, smooth,
                    tvalid, got>>
    BY <1>3 DEF vars, envVars, controlVars, summaryVars, senderVars, historyVars
  <2>2. cycle_active' = cycle_active /\ Ending' = Ending /\ Left' = Left
    BY <2>1 DEF cycle_active, Ending, Left
  <2>3. Due' = Due
    BY <2>1, <2>2 DEF Due, Span
  <2> QED
    BY <1>0, <2>1, <2>2, <2>3 DEF RaceInv, ReportFormed, Race
<1> QED
  BY <1>1, <1>2, <1>3 DEF Next

\* Whatever the triggers, the stalls and the switch do, simple_packetizer is free when a
\* report is formed unless something held it up: provided that a region lasts two clocks
\* longer than a report has words, and that cycle_cnt does not wrap within a window.
THEOREM ReportsInTime ==
  ASSUME RegionHoldsReport, WindowIsCounted
  PROVE  Spec => []NoReportLost
<1>1. Init => InStep /\ OneBehind /\ RaceInv
  <2> SUFFICES ASSUME Init PROVE InStep /\ OneBehind /\ RaceInv
    OBVIOUS
  <2>1. cycle_cnt = 0 /\ sample_cnt = 0 /\ ~started /\ ~cap_reg /\ ~tvalid
    BY DEF Init
  <2>2. ~cycle_active
    BY <2>1 DEF cycle_active
  <2> QED
    BY <2>1, <2>2 DEF RaceInv, InStep, OneBehind, ReportFormed, Race
<1>2. TypeOK /\ Sized /\ RaceInv => NoReportLost
  <2> SUFFICES ASSUME TypeOK, Sized, RaceInv, cap_reg, smooth PROVE Free
    BY DEF NoReportLost
  <2>1. SenderInv /\ Race
    BY DEF Sized, RaceInv
  <2>2. CASE tvalid
    <3>1. Left <= 0 /\ Left = Words + 1 - got /\ got \in 0..Words
      BY <2>1, <2>2 DEF Race, Due, Left, SenderInv
    <3> QED
      BY <3>1
  <2>3. CASE ~tvalid
    BY <2>1, <2>3 DEF SenderInv, Free
  <2> QED
    BY <2>2, <2>3
<1> QED
  BY <1>1, <1>2, BehindStep, RaceStep, TypedInit, TypedStep, PTL DEF Spec
-----------------------------------------------------------------------------
(***************************************************************************)
(* A report is about its region. The samples subsystem_capture has counted *)
(* are those capture_control took into the region it is in, or into the    *)
(* one it has just closed.                                                 *)
(***************************************************************************)

\* A report in the register has its samples no longer counted.
Counted == IF cap_reg THEN {} ELSE samples_captured

SameSamples ==
    /\ open = IF cycle_active /\ ~Ending THEN Counted ELSE {}
    /\ ~cycle_active /\ ~Ending => Counted = {}
    /\ Ending => closing.samples = Counted /\ region_cnt \in {0, closing.number}

\* Also while averaging is being switched off, no sample comes with a report unless the
\* cycle is over.
ReportAlone ==
    cap_reg => /\ cycle_cnt # 0 => age = 2
               /\ cycle_active => started /\ start_reg /\ sample_cnt = 0

ReportIsRegion ==
    cap_reg =>
      /\ region_cnt \in {0, closed.number}
      /\ closed.samples \subseteq samples_captured
      /\ samples_captured \ closed.samples \subseteq {next - 1}
      /\ region_cnt # 0 => samples_captured = closed.samples

\* The timestamp is that of the first sample counted.
FirstStamp ==
    /\ \A s \in samples_captured : s < next
    /\ samples_captured = {} => cap_ts = 0
    /\ samples_captured # {} =>
         cap_ts \in samples_captured /\ \A s \in samples_captured : cap_ts <= s

ReportInv == SameSamples /\ ReportAlone /\ ReportIsRegion /\ FirstStamp

Grown(valid, samples) == IF valid THEN samples \cup {next} ELSE samples

LEMMA HistoryClock ==
  ASSUME NEW valid \in BOOLEAN, RegionHistory(valid)
  PROVE  /\ closed' = closing
         /\ ~cycle_active => open' = {} /\ closing' = closing
         /\ cycle_active /\ (region_end(valid) \/ cycle_cnt' = 0) =>
              /\ open' = {}
              /\ closing' = [samples |-> Grown(valid, open), number |-> region_cnt + 1]
         /\ cycle_active /\ ~(region_end(valid) \/ cycle_cnt' = 0) =>
              open' = Grown(valid, open) /\ closing' = closing
  BY Zenon DEF RegionHistory, Grown

\* A report is formed exactly after Ending, and counting goes on from Counted.
LEMMA CountClock ==
  ASSUME TypeOK, OneBehind, ReportAlone, NEW valid \in BOOLEAN, Summary(valid), Ages(valid)
  PROVE  /\ cap_reg' <=> Ending
         /\ samples_captured' = IF started /\ ~cap_reg THEN Grown(valid, Counted) ELSE Counted
         /\ cap_ts' = IF cap_reg THEN 0
                      ELSE IF started /\ valid /\ cap_ts = 0 THEN next ELSE cap_ts
<1>1. cycle_active <=> cycle_cnt > EnaDelay + StartDelay
  BY DEF cycle_active, TypeOK
<1>2. cycle_active => cap_ena
  BY <1>1 DEF cap_ena, TypeOK
<1>3. cycle_cnt = 0 => ~cap_ena
  BY DEF cap_ena
<1>4. cap_start(valid) <=> cycle_active /\ sample_cnt = 0
  BY DEF cap_start, all_end, region_end
<1>5. started => cycle_active \/ cycle_cnt = 0
  BY DEF OneBehind
<1>6. captured(valid) <=> started /\ ((cap_start(valid) /\ ~start_reg) \/ ~cap_ena)
  BY DEF captured, begins
<1>7. captured(valid) <=> Ending
  <2>1. CASE cycle_cnt = 0
    BY <1>3, <1>6, <2>1 DEF Ending
  <2>2. CASE cycle_cnt # 0
    BY <1>2, <1>4, <1>5, <1>6, <2>2 DEF Ending
  <2> QED
    BY <2>1, <2>2
<1>8. (cap_reg' <=> captured(valid)) /\ CountSamples(valid)
  BY DEF Summary
<1>9. CASE cap_reg
  <2>1. ~(cap_ena /\ valid)
    BY <1>3, <1>9 DEF ReportAlone, Ages
  <2>2. samples_captured' = {} /\ cap_ts' = 0
    BY <1>8, <1>9, <2>1 DEF CountSamples
  <2> QED
    BY <1>7, <1>8, <1>9, <2>2 DEF Counted
<1>10. CASE ~cap_reg
  <2>1. running(valid) /\ valid <=> started /\ valid
    BY <1>4 DEF OneBehind, Ages, running
  <2>2. CASE started /\ valid
    <3>1. /\ samples_captured' = samples_captured \cup {next}
          /\ cap_ts' = IF cap_ts = 0 THEN next ELSE cap_ts
      BY <1>8, <1>10, <2>1, <2>2 DEF CountSamples
    <3> QED
      BY <1>7, <1>8, <1>10, <2>2, <3>1 DEF Counted, Grown
  <2>3. CASE ~(started /\ valid)
    <3>1. samples_captured' = samples_captured /\ cap_ts' = cap_ts
      BY <1>8, <1>10, <2>1, <2>3 DEF CountSamples
    <3> QED
      BY <1>7, <1>8, <1>10, <2>3, <3>1 DEF Counted, Grown
  <2> QED
    BY <2>2, <2>3
<1> QED
  BY <1>9, <1>10

LEMMA FirstStampClock ==
  ASSUME TypeOK, OneBehind, ReportAlone, FirstStamp, NEW valid \in BOOLEAN, Summary(valid),
         Ages(valid), next' = IF valid THEN next + 1 ELSE next
  PROVE  FirstStamp'
<1>1. /\ samples_captured' = IF started /\ ~cap_reg THEN Grown(valid, Counted) ELSE Counted
      /\ cap_ts' = IF cap_reg THEN 0
                   ELSE IF started /\ valid /\ cap_ts = 0 THEN next ELSE cap_ts
  BY CountClock
<1>2. next \in Nat /\ next > 0 /\ next' >= next /\ samples_captured \subseteq Nat
  BY DEF TypeOK, Sample
<1>3. CASE cap_reg
  BY <1>1, <1>3 DEF Counted, FirstStamp
<1>4. CASE ~cap_reg /\ started /\ valid
  <2>1. samples_captured' = samples_captured \cup {next} /\ next' = next + 1
    BY <1>1, <1>4 DEF Counted, Grown
  <2>2. cap_ts' = IF cap_ts = 0 THEN next ELSE cap_ts
    BY <1>1, <1>4
  <2>3. CASE samples_captured = {}
    <3>1. samples_captured' = {next} /\ cap_ts' = next
      BY <2>1, <2>2, <2>3 DEF FirstStamp
    <3> QED
      BY <1>2, <2>1, <3>1 DEF FirstStamp
  <2>4. CASE samples_captured # {}
    <3>1. cap_ts \in samples_captured /\ cap_ts # 0 /\ cap_ts < next
      BY <2>4 DEF FirstStamp, TypeOK, Sample
    <3>2. cap_ts' = cap_ts
      BY <2>2, <3>1
    <3>3. \A s \in samples_captured' : s < next' /\ cap_ts <= s
      BY <1>2, <2>1, <2>4, <3>1 DEF FirstStamp
    <3> QED
      BY <2>1, <3>1, <3>2, <3>3 DEF FirstStamp
  <2> QED
    BY <2>3, <2>4
<1>5. CASE ~cap_reg /\ ~(started /\ valid)
  <2>1. samples_captured' = samples_captured /\ cap_ts' = cap_ts
    BY <1>1, <1>5 DEF Counted, Grown
  <2> QED
    BY <1>2, <2>1 DEF FirstStamp
<1> QED
  BY <1>3, <1>4, <1>5

LEMMA ReportAloneClock ==
  ASSUME TypeOK, InStep, OneBehind, WindowIsCounted, ReportAlone, NEW valid \in BOOLEAN,
         NEW trig \in BOOLEAN, Control(valid, trig), Summary(valid), Ages(valid)
  PROVE  ReportAlone'
<1> SUFFICES ASSUME cap_reg' PROVE ReportAlone'
  BY DEF ReportAlone
<1>1. started /\ Ending
  BY CountClock DEF Ending
<1>2. age = 1 => ~valid /\ age' = 2
  BY DEF Ages
<1>3. CASE ~on
  BY <1>3, OffClock DEF ReportAlone
<1>4. CASE on /\ cycle_active
  <2>1. sample_cnt = 0 /\ ~start_reg
    BY <1>1, <1>4 DEF Ending, cycle_active
  <2>2. ~valid /\ age' = 2
    BY <1>1, <1>2, <1>4, <2>1 DEF OneBehind
  <2>3. started' /\ start_reg' /\ sample_cnt' = 0
    BY <1>1, <1>4, <2>1, <2>2, RegionClock, SummaryClock
  <2> QED
    BY <2>2, <2>3 DEF ReportAlone
<1>5. CASE on /\ ~cycle_active
  <2>1. cycle_cnt = 0
    BY <1>1, <1>5 DEF OneBehind
  <2>2. age' = 2
    BY <1>1, <1>2, <1>5, <2>1 DEF OneBehind
  <2>3. cycle_cnt' \in {0, 1}
    BY <1>5, <2>1, DelayClock
  <2>4. ~cycle_active'
    BY <2>3 DEF cycle_active
  <2> QED
    BY <2>2, <2>4 DEF ReportAlone
<1> QED
  BY <1>3, <1>4, <1>5

LEMMA ReportIsRegionClock ==
  ASSUME TypeOK, InStep, OneBehind, WindowIsCounted, ReportAlone, SameSamples,
         NEW valid \in BOOLEAN, NEW trig \in BOOLEAN, Control(valid, trig), Summary(valid),
         Ages(valid), RegionHistory(valid), next' = IF valid THEN next + 1 ELSE next
  PROVE  ReportIsRegion'
<1> SUFFICES ASSUME cap_reg' PROVE ReportIsRegion'
  BY DEF ReportIsRegion
<1>1. Ending /\ started
  BY CountClock DEF Ending
<1>2. closed' = closing /\ closing.samples = Counted /\ region_cnt \in {0, closing.number}
  BY <1>1, HistoryClock DEF SameSamples
<1>3. samples_captured' = IF started /\ ~cap_reg THEN Grown(valid, Counted) ELSE Counted
  BY CountClock
<1>4. ~on => region_cnt' = 0
  BY OffClock
<1>5. CASE ~valid
  <2>1. samples_captured' = closed'.samples
    BY <1>2, <1>3, <1>5 DEF Grown
  <2>2. region_cnt' = 0 \/ region_cnt' = region_cnt
    BY <1>5 DEF Control, Off, Region, Triggered, Delaying, region_end
  <2>3. region_cnt' \in {0, closed'.number}
    BY <1>2, <2>2
  <2> QED
    BY <2>1, <2>3 DEF ReportIsRegion
<1>6. CASE valid
  <2>1. age # 1
    BY <1>6 DEF Ages
  <2>2. ~on
    BY <1>1, <2>1 DEF OneBehind, Ending
  <2>3. /\ closed'.samples \subseteq samples_captured'
        /\ samples_captured' \subseteq closed'.samples \cup {next}
    BY <1>2, <1>3, <1>6 DEF Grown
  <2>4. next' - 1 = next
    BY <1>6 DEF TypeOK
  <2> QED
    BY <1>4, <2>2, <2>3, <2>4 DEF ReportIsRegion
<1> QED
  BY <1>5, <1>6

LEMMA SameSamplesClock ==
  ASSUME TypeOK, InStep, OneBehind, WindowIsCounted, ReportAlone, SameSamples,
         NEW valid \in BOOLEAN, NEW trig \in BOOLEAN, Control(valid, trig), Summary(valid),
         Ages(valid), RegionHistory(valid)
  PROVE  SameSamples'
<1>1. /\ cap_reg' <=> Ending
      /\ samples_captured' = IF started /\ ~cap_reg THEN Grown(valid, Counted) ELSE Counted
  BY CountClock
<1>2. Counted' = IF cap_reg' THEN {} ELSE samples_captured'
  BY DEF Counted
<1>3. cycle_active => cycle_cnt # 0
  BY DEF cycle_active
<1>4. Ending => started /\ (cycle_cnt = 0 \/ (sample_cnt = 0 /\ ~start_reg))
  BY DEF Ending
\* Outside the regions nothing is counted, whatever happens to averaging.
<1>5. CASE ~cycle_active
  <2>1. open' = {}
    BY <1>5, HistoryClock
  <2>2. Counted' = {}
    <3>1. CASE Ending
      BY <1>1, <1>2, <3>1
    <3>2. CASE ~Ending
      <4>1. ~started /\ Counted = {}
        BY <1>5, <3>2 DEF OneBehind, SameSamples, Ending
      <4> QED
        BY <1>1, <1>2, <4>1
    <3> QED
      BY <3>1, <3>2
  <2>3. ~started'
    BY <1>5, SummaryClock
  <2> QED
    BY <2>1, <2>2, <2>3 DEF SameSamples, Ending
\* The cycle is given up: a report follows, of the samples so far.
<1>6. CASE cycle_active /\ ~on
  <2>1. cycle_cnt' = 0 /\ ~cycle_active' /\ region_cnt' = 0
    BY <1>6, OffClock
  <2>2. open' = {} /\ closing' = [samples |-> Grown(valid, open), number |-> region_cnt + 1]
    BY <1>6, <2>1, HistoryClock
  <2>3. Counted' = Grown(valid, open)
    <3>1. CASE Ending
      <4>1. ~valid
        BY <1>3, <1>4, <1>6, <3>1 DEF OneBehind, Ages
      <4>2. open = {}
        BY <3>1 DEF SameSamples
      <4> QED
        BY <1>1, <1>2, <3>1, <4>1, <4>2 DEF Grown
    <3>2. CASE ~Ending /\ started /\ ~cap_reg
      <4>1. open = Counted
        BY <1>6, <3>2 DEF SameSamples
      <4> QED
        BY <1>1, <1>2, <3>2, <4>1
    <3>3. CASE ~Ending /\ (~started \/ cap_reg)
      <4>1. ~valid
        BY <1>3, <1>6, <3>3 DEF OneBehind, ReportAlone, Ages
      <4>2. open = Counted
        BY <1>6, <3>3 DEF SameSamples
      <4> QED
        BY <1>1, <1>2, <3>3, <4>1, <4>2 DEF Grown
    <3> QED
      BY <3>1, <3>2, <3>3
  <2>4. Ending'
    <3>1. started'
      <4>1. CASE started
        BY <1>6, <4>1, SummaryClock
      <4>2. CASE ~started
        BY <1>6, <4>2, SummaryClock DEF OneBehind, Ages
      <4> QED
        BY <4>1, <4>2
    <3> QED
      BY <2>1, <3>1 DEF Ending
  <2> QED
    BY <2>1, <2>2, <2>3, <2>4 DEF SameSamples
<1>7. CASE cycle_active /\ on /\ ~valid
  <2>1. UNCHANGED <<cycle_cnt, region_cnt, sample_cnt>> /\ cycle_active'
    BY <1>7, RegionClock
  <2>2. open' = open
    BY <1>3, <1>7, <2>1, HistoryClock DEF region_end, Grown
  <2>3. Counted' = open
    <3>1. CASE Ending
      BY <1>1, <1>2, <3>1 DEF SameSamples
    <3>2. CASE ~Ending
      <4>1. open = Counted
        BY <1>7, <3>2 DEF SameSamples
      <4> QED
        BY <1>1, <1>2, <1>7, <3>2, <4>1 DEF Grown
    <3> QED
      BY <3>1, <3>2
  <2>4. ~Ending'
    <3>1. sample_cnt = 0 => start_reg'
      BY <1>7, SummaryClock DEF OneBehind
    <3> QED
      BY <1>3, <1>7, <2>1, <3>1 DEF Ending
  <2> QED
    BY <2>1, <2>2, <2>3, <2>4 DEF SameSamples
\* A sample in a region; its last one closes it.
<1>8. CASE cycle_active /\ on /\ valid
  <2>1. age # 1 /\ age # 2
    BY <1>8 DEF Ages
  <2>2. started /\ ~cap_reg /\ ~Ending
    BY <1>3, <1>4, <1>8, <2>1 DEF OneBehind, ReportAlone
  <2>3. open = Counted
    BY <1>8, <2>2 DEF SameSamples
  <2>4. Counted' = Grown(valid, open) /\ started'
    BY <1>1, <1>2, <1>8, <2>2, <2>3, SummaryClock
  <2>5. CASE sample_cnt # RegionSize
    <3>1. /\ cycle_cnt' = cycle_cnt + 1 /\ cycle_active'
          /\ sample_cnt' = sample_cnt + 1 /\ region_cnt' = region_cnt
      BY <1>8, <2>5, RegionClock
    <3>2. cycle_cnt' # 0 /\ sample_cnt' # 0
      BY <3>1 DEF TypeOK
    <3>3. open' = Grown(valid, open)
      BY <1>8, <2>5, <3>2, HistoryClock DEF region_end
    <3> QED
      BY <2>4, <3>1, <3>2, <3>3 DEF SameSamples, Ending
  <2>6. CASE sample_cnt = RegionSize
    <3>1. /\ sample_cnt' = 0 /\ region_cnt' = region_cnt + 1
          /\ (cycle_cnt' = 0 /\ ~cycle_active') \/ cycle_active'
      BY <1>8, <2>6, RegionClock
    <3>2. ~start_reg'
      BY <1>8, <2>2, <2>6, SummaryClock
    <3>3. Ending'
      BY <2>4, <3>1, <3>2 DEF Ending
    <3>4. open' = {} /\ closing' = [samples |-> Grown(valid, open), number |-> region_cnt + 1]
      BY <1>8, <2>6, HistoryClock DEF region_end
    <3> QED
      BY <2>4, <3>1, <3>3, <3>4 DEF SameSamples
  <2> QED
    BY <2>5, <2>6
<1> QED
  BY <1>5, <1>6, <1>7, <1>8

LEMMA ReportInvStep ==
  WindowIsCounted /\ TypeOK /\ InStep /\ OneBehind /\ ReportInv /\ [Next]_vars => ReportInv'
<1> SUFFICES ASSUME WindowIsCounted, TypeOK, InStep, OneBehind, ReportInv, [Next]_vars
             PROVE  ReportInv'
  OBVIOUS
<1>0. SameSamples /\ ReportAlone /\ ReportIsRegion /\ FirstStamp
  BY DEF ReportInv
<1>1. CASE Switch \/ UNCHANGED vars
  <2>1. UNCHANGED <<cycle_cnt, region_cnt, sample_cnt, start_reg, started, cap_reg, cap_ts,
                    samples_captured, age, next, open, closing, closed>>
    BY <1>1 DEF Switch, vars, envVars, controlVars, summaryVars, historyVars
  <2>2. cycle_active' = cycle_active /\ Ending' = Ending /\ Counted' = Counted
    BY <2>1 DEF cycle_active, Ending, Counted
  <2> QED
    BY <1>0, <2>1, <2>2
       DEF ReportInv, SameSamples, ReportAlone, ReportIsRegion, FirstStamp
<1>2. CASE \E valid, good, trig, ready \in BOOLEAN : Clock(valid, good, trig, ready)
  <2>1. PICK valid, good, trig, ready \in BOOLEAN : Clock(valid, good, trig, ready)
    BY <1>2
  <2>2. /\ Control(valid, trig) /\ Summary(valid) /\ RegionHistory(valid)
        /\ next' = IF valid THEN next + 1 ELSE next
    BY <2>1 DEF Clock
  <2>3. Ages(valid)
    BY <2>1 DEF Clock, Ages
  <2> QED
    BY <1>0, <2>2, <2>3, SameSamplesClock, ReportAloneClock, ReportIsRegionClock,
       FirstStampClock DEF ReportInv
<1> QED
  BY <1>1, <1>2 DEF Next

LEMMA ReportInvInit == Init => InStep /\ OneBehind /\ ReportInv
<1> SUFFICES ASSUME Init PROVE InStep /\ OneBehind /\ ReportInv
  OBVIOUS
<1>1. /\ cycle_cnt = 0 /\ sample_cnt = 0 /\ ~started /\ ~cap_reg
      /\ samples_captured = {} /\ cap_ts = 0 /\ open = {}
  BY DEF Init
<1>2. ~cycle_active /\ ~Ending /\ Counted = {}
  BY <1>1 DEF cycle_active, Ending, Counted
<1>3. InStep /\ OneBehind
  BY <1>1, <1>2 DEF InStep, OneBehind
<1>4. ReportInv
  BY <1>1, <1>2 DEF ReportInv, SameSamples, ReportAlone, ReportIsRegion, FirstStamp
<1> QED
  BY <1>3, <1>4

\* Min of FiniteSetsExt, for a set that has a least member.
LEMMA LeastIsMin ==
  ASSUME NEW S \in SUBSET Nat, NEW x \in S, \A y \in S : x <= y
  PROVE  Min(S) = x
<1>1. \A m \in S : (\A y \in S : m <= y) => m = x
  OBVIOUS
<1> QED
  BY <1>1 DEF Min

\* Whatever the triggers and the switch do: a report counts exactly the samples of its
\* region and has the timestamp of the first, for all delays and regions in which
\* cycle_cnt does not wrap. Neither the spacing of samples nor the length of a report
\* matters.
THEOREM ReportsTheirRegion ==
  ASSUME WindowIsCounted
  PROVE  Spec => []RegionReport
<1>1. Init => InStep /\ OneBehind /\ ReportInv
  BY ReportInvInit
<1>2. TypeOK /\ ReportInv => RegionReport
  <2> SUFFICES ASSUME TypeOK, ReportInv, cap_reg PROVE RegionReport
    BY DEF RegionReport
  <2>1. ReportIsRegion /\ FirstStamp /\ samples_captured \in SUBSET Nat
    BY DEF ReportInv, TypeOK, Sample
  <2>2. cap_ts = IF samples_captured = {} THEN 0 ELSE Min(samples_captured)
    BY <2>1, LeastIsMin DEF FirstStamp
  <2> QED
    BY <2>1, <2>2 DEF ReportIsRegion, RegionReport
<1> QED
  BY <1>1, <1>2, BehindStep, ReportInvStep, TypedInit, TypedStep, PTL DEF Spec
-----------------------------------------------------------------------------
(***************************************************************************)
(* The sums of a report are about its samples. The channel adds a sample   *)
(* one clock after it was counted, and what it had not yet added when the  *)
(* report was formed is the last sample at most.                           *)
(***************************************************************************)

\* The sample on its way into the sums is the newest, and it is there for one clock.
OnItsWay == result # 0 => result = next - 1 /\ age = 1 /\ result \notin bad

Earlier == \A s \in ch_sum_win \cup bad : s < next

Greatest(m, samples) == m \in samples /\ \A s \in samples : s <= m

\* ch_misc has the extremes of all samples added but the last.
MiscBehind == ch_sum # {} => \E m \in ch_sum : Greatest(m, ch_sum) /\ ch_misc = ch_sum \ {m}

\* Between windows the sums are empty. While a region is collected they have its valid
\* samples but the one on its way.
Collecting ==
    ~cap_reg =>
      /\ ~started => samples_captured = {} /\ ch_sum = {}
      /\ started => /\ result \in samples_captured \cup {0}
                    /\ ch_sum = (samples_captured \ bad) \ {result}
                    /\ ch_sum_win \cap samples_captured = ch_sum
                    /\ extremes = ch_sum
                    /\ MiscBehind

\* In a report they have the valid samples but possibly the greatest.
Reported ==
    cap_reg =>
      /\ \E m : /\ m = 0 \/ Greatest(m, samples_captured)
                /\ ch_sum = (samples_captured \ bad) \ {m}
      /\ ch_sum_win \cap samples_captured = ch_sum
      /\ MiscBehind

SumsInv == OnItsWay /\ Earlier /\ Collecting /\ Reported

\* What a clock adds, by where the summary is: nothing new gets into a report, and what
\* begins a region begins with no sums of its own.
LEMMA AddClock ==
  ASSUME TypeOK, OneBehind, ReportAlone, OnItsWay, NEW valid \in BOOLEAN, Summary(valid),
         Ages(valid), Add(valid)
  PROVE  /\ cap_reg => ch_sum' = {} /\ extremes' = {} /\ (started' => ~valid)
         /\ ~cap_reg /\ ~started =>
              /\ ch_sum' = ch_sum /\ ~cap_reg'
              /\ started' => ~valid /\ extremes' = {}
         /\ ~cap_reg /\ started =>
              /\ ~cap_reg' => started'
              /\ \/ cap_reg' /\ ~valid /\ UNCHANGED <<ch_sum, ch_sum_win, ch_misc>>
                 \/ result # 0 /\ Accumulate
                 \/ result = 0 /\ Rest
<1>1. begins(valid) <=> cycle_active /\ sample_cnt = 0 /\ ~start_reg
  BY DEF begins, cap_start, all_end, region_end
<1>2. /\ ~cycle_active => ~started'
      /\ cap_reg' => started
  BY SummaryClock
<1>3. cycle_active => cycle_cnt # 0
  BY DEF cycle_active
<1>4. CASE cap_reg
  <2>1. Restarted(cap_ena)
    BY <1>1, <1>4 DEF Add, ReportAlone
  <2>2. cap_ena => result = 0
    BY <1>4 DEF ReportAlone, OnItsWay, cap_ena
  <2>3. ch_sum' = {} /\ extremes' = {}
    BY <2>1, <2>2 DEF Restarted
  <2>4. started' => ~valid
    BY <1>2, <1>3, <1>4 DEF ReportAlone, Ages
  <2> QED
    BY <1>4, <2>3, <2>4
<1>5. CASE ~cap_reg /\ ~started
  <2>1. CASE cycle_active
    <3>1. begins(valid) /\ ~valid
      BY <1>1, <1>5, <2>1 DEF OneBehind, Ages
    <3>2. ch_sum' = ch_sum /\ extremes' = {}
      BY <3>1 DEF Add, BeginRegion
    <3> QED
      BY <1>2, <1>5, <3>1, <3>2
  <2>2. CASE ~cycle_active
    <3>1. ~begins(valid) /\ ~running(valid)
      BY <1>1, <1>5, <2>2 DEF running, cap_start
    <3>2. ch_sum' = ch_sum
      BY <1>5, <3>1 DEF Add, Rest
    <3> QED
      BY <1>2, <1>5, <2>2, <3>2
  <2> QED
    BY <2>1, <2>2
<1>6. CASE ~cap_reg /\ started
  <2>1. cap_reg' <=> Ending
    BY CountClock
  <2>2. ~cap_reg' => started'
    <3>1. ~Ending => cycle_active
      BY <1>6 DEF Ending, OneBehind
    <3> QED
      BY <1>6, <2>1, <3>1, SummaryClock
  <2>3. CASE begins(valid)
    <3>1. cap_reg'
      BY <1>1, <1>6, <2>1, <2>3 DEF Ending
    <3>2. ~valid
      BY <1>1, <1>6, <2>3 DEF OneBehind, Ages
    <3>3. UNCHANGED <<ch_sum, ch_sum_win, ch_misc>>
      BY <1>6, <2>3 DEF Add, BeginRegion
    <3> QED
      BY <1>6, <3>1, <3>2, <3>3
  <2>4. CASE ~begins(valid)
    <3>1. IF result # 0 THEN Accumulate ELSE Rest
      BY <1>6, <2>4 DEF Add, running
    <3> QED
      BY <1>6, <2>2, <3>1
  <2> QED
    BY <2>3, <2>4
<1> QED
  BY <1>4, <1>5, <1>6

\* With the sample on its way added, the sums are complete.
LEMMA AddedIsComplete ==
  ASSUME TypeOK, FirstStamp, OnItsWay, Collecting, ~cap_reg, started,
         (result # 0 /\ Accumulate) \/ (result = 0 /\ Rest)
  PROVE  /\ ch_sum' = samples_captured \ bad
         /\ ch_sum_win' \cap samples_captured = ch_sum'
         /\ extremes' = ch_sum'
         /\ MiscBehind'
<1>1. /\ result \in samples_captured \cup {0}
      /\ ch_sum = (samples_captured \ bad) \ {result}
      /\ ch_sum_win \cap samples_captured = ch_sum
      /\ extremes = ch_sum
      /\ MiscBehind
  BY DEF Collecting
<1>2. 0 \notin samples_captured
  BY DEF TypeOK, Sample
<1>3. CASE result # 0 /\ Accumulate
  <2>1. /\ ch_sum' = ch_sum \cup {result} /\ ch_sum_win' = ch_sum_win \cup {result}
        /\ extremes' = extremes \cup {result} /\ ch_misc' = extremes
    BY <1>3 DEF Accumulate
  <2>2. result \in samples_captured \ bad /\ result = next - 1
    BY <1>1, <1>3 DEF OnItsWay
  <2>3. result \notin ch_sum
    BY <1>1
  <2>4. \A s \in ch_sum' : s <= result
    BY <1>1, <2>1, <2>2 DEF FirstStamp, TypeOK, Sample
  <2>5. ch_misc' = ch_sum' \ {result}
    BY <1>1, <2>1, <2>3
  <2>6. MiscBehind'
    BY <2>1, <2>4, <2>5 DEF MiscBehind, Greatest
  <2> QED
    BY <1>1, <2>1, <2>2, <2>6
<1>4. CASE result = 0 /\ Rest
  BY <1>1, <1>2, <1>4 DEF Rest, MiscBehind, Greatest
<1> QED
  BY <1>3, <1>4

LEMMA OnItsWayClock ==
  ASSUME TypeOK, OnItsWay, Earlier, NEW valid \in BOOLEAN, NEW good \in BOOLEAN,
         Channel(valid, good), Ages(valid),
         next' = IF valid THEN next + 1 ELSE next,
         bad' = IF good THEN bad ELSE bad \cup {next}, ~good => valid
  PROVE  OnItsWay' /\ Earlier'
<1>1. next \in Nat /\ next' >= next /\ (valid => next < next') /\ ch_sum_win \subseteq Nat
      /\ bad \subseteq Nat
  BY DEF TypeOK, Sample
<1>2. OnItsWay'
  <2>1. result' = IF valid /\ good THEN next ELSE 0
    BY DEF Channel
  <2>2. next \notin bad
    BY <1>1 DEF Earlier
  <2>3. valid => age' = 1 /\ next' - 1 = next
    BY <1>1 DEF Ages
  <2> QED
    BY <2>1, <2>2, <2>3 DEF OnItsWay
<1>3. \A s \in ch_sum_win' : s < next
  <2>1. ch_sum_win' \subseteq ch_sum_win \cup {result}
    BY DEF Channel, Add, BeginRegion, Restarted, Accumulate, Rest
  <2>2. ch_sum_win' \subseteq ch_sum_win \/ (result # 0 /\ result < next)
    BY <1>1, <2>1 DEF Channel, Add, BeginRegion, Restarted, Accumulate, Rest, OnItsWay
  <2> QED
    BY <2>1, <2>2 DEF Earlier
<1>4. \A s \in ch_sum_win' : s < next'
  <2>1. ch_sum_win' \subseteq Nat
    BY <1>1 DEF Channel, Add, BeginRegion, Restarted, Accumulate, Rest, TypeOK, Sample
  <2> QED
    BY <1>1, <1>3, <2>1
<1>5. \A s \in bad' : s < next'
  BY <1>1 DEF Earlier
<1> QED
  BY <1>2, <1>4, <1>5 DEF Earlier

LEMMA SumsClock ==
  ASSUME TypeOK, OneBehind, ReportAlone, FirstStamp, SumsInv,
         NEW valid \in BOOLEAN, NEW good \in BOOLEAN,
         Summary(valid), Channel(valid, good), Ages(valid),
         bad' = IF good THEN bad ELSE bad \cup {next}, ~good => valid
  PROVE  Collecting' /\ Reported'
<1>1. OnItsWay /\ Earlier /\ Collecting /\ Reported
  BY DEF SumsInv
<1>2. Add(valid) /\ result' = IF valid /\ good THEN next ELSE 0
  BY DEF Channel
<1>3. samples_captured' = IF started /\ ~cap_reg THEN Grown(valid, Counted) ELSE Counted
  BY CountClock
<1>4. CASE cap_reg
  <2>1. samples_captured' = {}
    BY <1>3, <1>4 DEF Counted
  <2>2. ch_sum' = {} /\ extremes' = {} /\ (started' => result' = 0)
    BY <1>1, <1>2, <1>4, AddClock
  <2>3. MiscBehind'
    BY <2>2 DEF MiscBehind
  <2> QED
    BY <2>1, <2>2, <2>3 DEF Collecting, Reported
<1>5. CASE ~cap_reg /\ ~started
  <2>1. samples_captured' = {} /\ ch_sum = {}
    BY <1>1, <1>3, <1>5 DEF Counted, Collecting
  <2>2. /\ ch_sum' = {} /\ ~cap_reg'
        /\ started' => extremes' = {} /\ result' = 0
    BY <1>1, <1>2, <1>5, <2>1, AddClock
  <2>3. MiscBehind'
    BY <2>2 DEF MiscBehind
  <2> QED
    BY <2>1, <2>2, <2>3 DEF Collecting, Reported
<1>6. CASE ~cap_reg /\ started
  <2>1. samples_captured' = Grown(valid, samples_captured)
    BY <1>3, <1>6 DEF Counted
  <2>2. \A s \in samples_captured \cup ch_sum_win : s < next /\ s # next /\ s # 0
    BY <1>1 DEF FirstStamp, Earlier, TypeOK, Sample
\* A region begins and clears the sums' way: the sample on it is lost.
  <2>3. CASE cap_reg' /\ ~valid /\ UNCHANGED <<ch_sum, ch_sum_win, ch_misc>>
    <3>1. samples_captured' = samples_captured /\ bad' = bad
      BY <2>1, <2>3 DEF Grown
    <3>2. result = 0 \/ Greatest(result, samples_captured)
      BY <1>1, <1>6, <2>2 DEF Collecting, OnItsWay, Greatest, TypeOK, Sample
    <3>3. /\ ch_sum = (samples_captured \ bad) \ {result}
          /\ ch_sum_win \cap samples_captured = ch_sum
          /\ MiscBehind
      BY <1>1, <1>6 DEF Collecting
    <3>4. MiscBehind'
      BY <2>3, <3>3 DEF MiscBehind, Greatest
    <3> QED
      BY <2>3, <3>1, <3>2, <3>3, <3>4 DEF Collecting, Reported, Greatest
  <2>4. CASE (result # 0 /\ Accumulate) \/ (result = 0 /\ Rest)
    <3>1. /\ ch_sum' = samples_captured \ bad
          /\ ch_sum_win' \cap samples_captured = ch_sum'
          /\ extremes' = ch_sum'
          /\ MiscBehind'
      BY <1>1, <1>6, <2>4, AddedIsComplete
    <3>2. next \notin ch_sum_win'
      <4>1. ch_sum_win' \subseteq ch_sum_win \cup {result}
        BY <2>4 DEF Accumulate, Rest
      <4>2. result # next
        BY <1>1 DEF OnItsWay, TypeOK
      <4> QED
        BY <2>2, <4>1, <4>2
    <3>3. ch_sum_win' \cap samples_captured' = ch_sum'
      BY <2>1, <3>1, <3>2 DEF Grown
    <3>4. ~valid => samples_captured' = samples_captured /\ bad' = bad /\ result' = 0
      BY <1>2, <2>1 DEF Grown
    <3>5. valid => /\ samples_captured' = samples_captured \cup {next}
                   /\ result' = IF good THEN next ELSE 0
      BY <1>2, <2>1 DEF Grown
    <3>6. ch_sum' = (samples_captured' \ bad') \ {result'}
      <4>1. CASE ~valid
        BY <2>2, <3>1, <3>4, <4>1
      <4>2. CASE valid /\ good
        BY <2>2, <3>1, <3>5, <4>2
      <4>3. CASE valid /\ ~good
        BY <2>2, <3>1, <3>5, <4>3
      <4> QED
        BY <4>1, <4>2, <4>3
    <3>7. Collecting'
      <4>1. ~cap_reg' => started'
        BY <1>1, <1>2, <1>6, AddClock
      <4>2. result' \in samples_captured' \cup {0}
        BY <3>4, <3>5
      <4> QED
        BY <3>1, <3>3, <3>6, <4>1, <4>2 DEF Collecting
    <3>8. result' = 0 \/ Greatest(result', samples_captured')
      <4>1. CASE result' = 0
        BY <4>1
      <4>2. CASE result' # 0
        <5>1. result' = next /\ samples_captured' = samples_captured \cup {next}
          BY <3>4, <3>5, <4>2
        <5>2. \A s \in samples_captured \cup {next} : s <= next
          BY <2>2 DEF TypeOK, Sample
        <5> QED
          BY <5>1, <5>2 DEF Greatest
      <4> QED
        BY <4>1, <4>2
    <3>9. Reported'
      BY <3>1, <3>3, <3>6, <3>8 DEF Reported, Greatest
    <3> QED
      BY <3>7, <3>9
  <2> QED
    BY <1>1, <1>2, <1>6, <2>3, <2>4, AddClock
<1> QED
  BY <1>4, <1>5, <1>6

LEMMA SumsInvStep ==
  TypeOK /\ OneBehind /\ ReportInv /\ SumsInv /\ [Next]_vars => SumsInv'
<1> SUFFICES ASSUME TypeOK, OneBehind, ReportInv, SumsInv, [Next]_vars
             PROVE  SumsInv'
  OBVIOUS
<1>1. CASE Switch \/ UNCHANGED vars
  <2>1. UNCHANGED <<started, cap_reg, samples_captured, age, next, bad, channelVars>>
    BY <1>1 DEF Switch, vars, envVars, summaryVars
  <2> QED
    BY <2>1 DEF SumsInv, OnItsWay, Earlier, Collecting, Reported, MiscBehind, Greatest,
                channelVars
<1>2. CASE \E valid, good, trig, ready \in BOOLEAN : Clock(valid, good, trig, ready)
  <2>1. PICK valid, good, trig, ready \in BOOLEAN : Clock(valid, good, trig, ready)
    BY <1>2
  <2>2. /\ Summary(valid) /\ Channel(valid, good)
        /\ next' = IF valid THEN next + 1 ELSE next
        /\ bad' = IF good THEN bad ELSE bad \cup {next}
        /\ ~good => valid
    BY <2>1 DEF Clock
  <2>3. Ages(valid)
    BY <2>1 DEF Clock, Ages
  <2>4. ReportAlone /\ FirstStamp /\ OnItsWay /\ Earlier
    BY DEF ReportInv, SumsInv
  <2> QED
    BY <2>2, <2>3, <2>4, OnItsWayClock, SumsClock DEF SumsInv
<1> QED
  BY <1>1, <1>2 DEF Next

\* Max of FiniteSetsExt, for a set that has a greatest member.
LEMMA GreatestIsMax ==
  ASSUME NEW S \in SUBSET Nat, NEW x, Greatest(x, S)
  PROVE  Max(S) = x
<1>1. x \in S /\ x \in Nat /\ \A y \in S : x >= y
  BY DEF Greatest
<1>2. \A m \in S : (\A y \in S : m >= y) => m = x
  BY <1>1
<1> QED
  BY <1>1, <1>2 DEF Max

\* The sums of a report have the valid samples it counts, the last one possibly excepted,
\* the window's sums have the same of them, and the extremes are one sample behind: in
\* every window cycle_cnt can count, whatever samples are invalid on the channel.
THEOREM SumsAreOfTheRegion ==
  ASSUME WindowIsCounted
  PROVE  Spec => []SumsMatch
<1>1. Init => SumsInv
  BY DEF Init, SumsInv, OnItsWay, Earlier, Collecting, Reported
<1>2. TypeOK /\ SumsInv => SumsMatch
  <2> SUFFICES ASSUME TypeOK, SumsInv, cap_reg PROVE SumsMatch
    BY DEF SumsMatch
  <2>1. PICK m : /\ m = 0 \/ Greatest(m, samples_captured)
                 /\ ch_sum = (samples_captured \ bad) \ {m}
    BY DEF SumsInv, Reported
  <2>2. ch_sum_win \cap samples_captured = ch_sum /\ MiscBehind
    BY DEF SumsInv, Reported
  <2>3. samples_captured \in SUBSET Nat /\ ch_sum \in SUBSET Nat /\ 0 \notin samples_captured
    BY DEF TypeOK, Sample
  <2>4. \A s \in samples_captured \ (ch_sum \cup bad) : s = Max(samples_captured)
    <3>1. CASE m = 0
      BY <2>1, <2>3, <3>1
    <3>2. CASE Greatest(m, samples_captured)
      BY <2>1, <2>3, <3>2, GreatestIsMax
    <3> QED
      BY <2>1, <3>1, <3>2
  <2>5. Cardinality(ch_sum) > 1 => ch_misc = ch_sum \ {Max(ch_sum)}
    <3> SUFFICES ASSUME Cardinality(ch_sum) > 1 PROVE ch_misc = ch_sum \ {Max(ch_sum)}
      OBVIOUS
    <3>1. ch_sum # {}
      BY FS_EmptySet
    <3>2. PICK n \in ch_sum : Greatest(n, ch_sum) /\ ch_misc = ch_sum \ {n}
      BY <2>2, <3>1 DEF MiscBehind
    <3>3. Max(ch_sum) = n
      BY <2>3, <3>2, GreatestIsMax
    <3> QED
      BY <3>2, <3>3
  <2> QED
    BY <2>1, <2>2, <2>4, <2>5 DEF SumsMatch
<1>3. Init => InStep /\ OneBehind /\ ReportInv
  BY ReportInvInit
<1> QED
  BY <1>1, <1>2, <1>3, BehindStep, ReportInvStep, SumsInvStep, TypedInit, TypedStep, PTL
     DEF Spec
=============================================================================
