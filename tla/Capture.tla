------------------------------ MODULE Capture -------------------------------
(***************************************************************************)
(* The averaging path of the FPGA: capture_control.v opens regions of ADC  *)
(* samples after a trigger, subsystem_capture.sv adds up the samples of a  *)
(* region and of the whole window, and simple_packetizer.sv sends the      *)
(* report of a region word by word. Every Clock step is one clock; all     *)
(* registers take their next value from the present ones.                  *)
(* A sum, a sum of squares or a count is the set of the samples it was     *)
(* made of, a sample is its number and also its timestamp, and one channel *)
(* stands for the sixteen. The internal trigger of the test mode is one of *)
(* the triggers Clock may see.                                             *)
(* Operators whose name begins with Mutant are faulty variants of the      *)
(* definition that follows them; no specification uses them.               *)
(***************************************************************************)
EXTENDS Naturals, FiniteSets, FiniteSetsExt

CONSTANTS
    EnaDelay, StartDelay,   \* spare_reg1[19:8] and [31:20], in samples
    Regions,                \* cap_regions, spare_reg2[3:0]
    RegionSize,             \* cap_region_size: a region has one sample more
    CycleMod,               \* cycle_cnt wraps: 2^16 in the code
    Period,                 \* least number of clocks between two samples
    Words,                  \* words of a report without its header, 115 in the code
    MaxSamples,             \* bound: samples in a behaviour
    MaxBad,                 \* bound: samples the channel has no valid data for
    MaxSwitches             \* bound: times averaging is switched on or off

\* A report takes two clocks to form and must be out of the way of the next sample.
ASSUME CaptureAssumption ==
    /\ EnaDelay \in Nat \ {0} /\ StartDelay \in Nat
    /\ Regions \in Nat \ {0} /\ RegionSize \in Nat \ {0}
    /\ CycleMod \in Nat /\ CycleMod > 1 /\ Period \in Nat /\ Period > 3
    /\ Words \in Nat /\ Words > 1
    /\ MaxSamples \in Nat /\ MaxBad \in Nat /\ MaxSwitches \in Nat

VARIABLES
    on, switches,           \* spare_reg1[0], and how often it has changed
    age,                    \* clocks since the last sample, up to Period
    next,                   \* the number of the next sample
    bad,                    \* samples that were not valid on the channel
    cycle_cnt, region_cnt, sample_cnt,                          \* capture_control
    start_reg, started, cap_reg, pkt_counter, samples_captured, cap_ts,
    result,                 \* the sample in result_sum and result_sq, 0 if none
    ch_sum, ch_sum_win,     \* with the squares and counts that go with them
    extremes, ch_misc,      \* ch_min and ch_max, and their copy in ch_misc
    captured_d, count, active, tvalid, tlast, tdata,            \* simple_packetizer
    open, closing, closed,  \* history: the regions capture_control made
    taken, got,             \* history: the report being sent, words read of it
    smooth                  \* history: since a report was taken no stall, no switch

envVars == <<on, switches, age, next, bad>>
controlVars == <<cycle_cnt, region_cnt, sample_cnt>>
summaryVars == <<start_reg, started, cap_reg, pkt_counter, samples_captured, cap_ts>>
channelVars == <<result, ch_sum, ch_sum_win, extremes, ch_misc>>
senderVars == <<captured_d, count, active, tvalid, tlast, tdata>>
historyVars == <<open, closing, closed, taken, got, smooth>>
vars == <<envVars, controlVars, summaryVars, channelVars, senderVars, historyVars>>

Sample == 1..MaxSamples

\* A word of a report is the report's number and its place; the header names neither.
Header == <<0, 0>>
NoRegion == [samples |-> {}, number |-> 0]

TypeOK ==
    /\ on \in BOOLEAN /\ switches \in 0..MaxSwitches
    /\ age \in 0..Period /\ next \in 1..(MaxSamples + 1) /\ bad \subseteq Sample
    /\ cycle_cnt \in 0..(CycleMod - 1)
    /\ region_cnt \in 0..Regions /\ sample_cnt \in 0..RegionSize
    /\ start_reg \in BOOLEAN /\ started \in BOOLEAN /\ cap_reg \in BOOLEAN
    /\ pkt_counter \in Nat /\ cap_ts \in {0} \cup Sample
    /\ samples_captured \subseteq Sample
    /\ result \in {0} \cup Sample
    /\ ch_sum \subseteq Sample /\ ch_sum_win \subseteq Sample
    /\ extremes \subseteq Sample /\ ch_misc \subseteq Sample
    /\ captured_d \in Nat /\ count \in 0..Words
    /\ active \in BOOLEAN /\ tvalid \in BOOLEAN /\ tlast \in BOOLEAN
    /\ tdata \in Nat \X (0..Words)
    /\ open \subseteq Sample
    /\ {closing, closed} \subseteq [samples : SUBSET Sample, number : 0..Regions]
    /\ taken \in Nat /\ got \in 0..Words /\ smooth \in BOOLEAN

\* After reset; averaging is off until software switches it on.
Init ==
    /\ on = FALSE /\ switches = 0 /\ age = Period /\ next = 1 /\ bad = {}
    /\ cycle_cnt = 0 /\ region_cnt = 0 /\ sample_cnt = 0
    /\ start_reg = FALSE /\ started = FALSE /\ cap_reg = FALSE
    /\ pkt_counter = 0 /\ samples_captured = {} /\ cap_ts = 0
    /\ result = 0 /\ ch_sum = {} /\ ch_sum_win = {} /\ extremes = {} /\ ch_misc = {}
    /\ captured_d = 0 /\ count = 0 /\ active = FALSE
    /\ tvalid = FALSE /\ tlast = FALSE /\ tdata = Header
    /\ open = {} /\ closing = NoRegion /\ closed = NoRegion
    /\ taken = 0 /\ got = 0 /\ smooth = TRUE
-----------------------------------------------------------------------------
(***************************************************************************)
(* capture_control: cycle_cnt counts samples from the trigger on.          *)
(***************************************************************************)

cycle_active == cycle_cnt # 0 /\ cycle_cnt > EnaDelay + StartDelay
region_end(valid) == valid /\ sample_cnt = RegionSize
MutantAllEnd(valid) == region_end(valid) /\ region_cnt = Regions
all_end(valid) == region_end(valid) /\ region_cnt = Regions - 1

cap_ena == cycle_cnt >= EnaDelay
cap_start(valid) == sample_cnt = 0 /\ cycle_active /\ ~all_end(valid)

Advance(valid) == IF cycle_cnt # 0 /\ valid THEN (cycle_cnt + 1) % CycleMod ELSE cycle_cnt

Off == ~on /\ cycle_cnt' = 0 /\ region_cnt' = 0 /\ sample_cnt' = 0

Region(valid) ==
    /\ on /\ cycle_active
    /\ cycle_cnt' = IF all_end(valid) THEN 0 ELSE Advance(valid)
    /\ sample_cnt' = IF region_end(valid) THEN 0
                     ELSE IF valid THEN sample_cnt + 1 ELSE sample_cnt
    /\ region_cnt' = IF region_end(valid) THEN region_cnt + 1 ELSE region_cnt

\* Idle, or waiting for the first region: a trigger starts the cycle, or starts it again.
Triggered == on /\ ~cycle_active /\ cycle_cnt' = 1 /\ region_cnt' = 0 /\ sample_cnt' = 0

Delaying(valid) ==
    /\ on /\ ~cycle_active
    /\ cycle_cnt' = Advance(valid)
    /\ UNCHANGED <<region_cnt, sample_cnt>>

Control(valid, trig) ==
    \/ Off
    \/ Region(valid)
    \/ trig /\ Triggered
    \/ ~trig /\ Delaying(valid)
-----------------------------------------------------------------------------
(***************************************************************************)
(* subsystem_capture: what is kept once, and what is kept for a channel.   *)
(***************************************************************************)

begins(valid) == cap_start(valid) /\ ~start_reg         \* init_mm
captured(valid) == started /\ (begins(valid) \/ ~cap_ena)
running(valid) == (cap_ena /\ cap_start(valid)) \/ started

MutantStamp(valid) ==
    /\ samples_captured' = IF cap_reg THEN {}
                           ELSE IF running(valid) /\ valid THEN samples_captured \cup {next}
                           ELSE samples_captured
    /\ cap_ts' = IF running(valid) /\ valid /\ cap_ts = 0 THEN next ELSE cap_ts

\* samples_captured and cap_ts: the region's samples so far and the first one's timestamp.
CountSamples(valid) ==
    IF cap_reg
    THEN LET again == cap_ena /\ valid
         IN  /\ samples_captured' = IF again THEN {next} ELSE {}
             /\ cap_ts' = IF again THEN next ELSE 0
    ELSE IF running(valid) /\ valid
    THEN /\ samples_captured' = samples_captured \cup {next}
         /\ cap_ts' = IF cap_ts = 0 THEN next ELSE cap_ts
    ELSE UNCHANGED <<samples_captured, cap_ts>>

Summary(valid) ==
    /\ start_reg' = cap_start(valid)
    /\ started' = (cap_ena /\ (cap_start(valid) \/ started))
    /\ cap_reg' = captured(valid)
    /\ pkt_counter' = IF captured(valid) THEN pkt_counter + 1 ELSE pkt_counter
    /\ CountSamples(valid)

\* A region begins: its extremes start afresh, and the window's sums if it is the first.
BeginRegion ==
    /\ extremes' = {}
    /\ ch_sum_win' = IF started THEN ch_sum_win ELSE {}
    /\ UNCHANGED <<ch_sum, ch_misc>>

Restarted(full) ==
    /\ ch_sum' = IF full /\ result # 0 THEN {result} ELSE {}
    /\ extremes' = {}
    /\ UNCHANGED <<ch_sum_win, ch_misc>>

Accumulate ==
    /\ ch_sum' = ch_sum \cup {result}
    /\ ch_sum_win' = ch_sum_win \cup {result}
    /\ extremes' = extremes \cup {result}
    /\ ch_misc' = extremes

Rest == UNCHANGED <<ch_sum, ch_sum_win, extremes, ch_misc>>

MutantAdd(valid) ==
    CASE begins(valid) -> BeginRegion
      [] captured(valid) /\ ~begins(valid) -> Restarted(cap_ena)
      [] OTHER -> IF running(valid) /\ result # 0 THEN Accumulate ELSE Rest

Add(valid) ==
    CASE begins(valid) -> BeginRegion
      [] cap_reg /\ ~begins(valid) -> Restarted(cap_ena)
      [] OTHER -> IF running(valid) /\ result # 0 THEN Accumulate ELSE Rest

Channel(valid, good) ==
    /\ result' = IF valid /\ good THEN next ELSE 0
    /\ Add(valid)
-----------------------------------------------------------------------------
(***************************************************************************)
(* simple_packetizer: a header and the words of the report it holds.       *)
(***************************************************************************)

MutantHold == TRUE
Free == ~active /\ ~tvalid                              \* ready_for_capture

Latch == captured_d' = IF Free /\ cap_reg THEN pkt_counter ELSE captured_d

MutantNextWord ==
    /\ active' = (active /\ count < Words)
    /\ count' = IF active THEN count + 1 ELSE 0
    /\ tvalid' = active
    /\ tdata' = IF active THEN <<captured_d, count + 1>> ELSE Header
    /\ tlast' = (active /\ count = Words)
NextWord ==
    /\ active' = (active /\ count < Words - 1)
    /\ count' = IF active THEN count + 1 ELSE 0
    /\ tvalid' = active
    /\ tdata' = IF active THEN <<captured_d, count + 1>> ELSE Header
    /\ tlast' = (active /\ count = Words - 1)

StartReport ==
    /\ active' = TRUE /\ count' = 0 /\ tvalid' = TRUE
    /\ tdata' = Header /\ tlast' = FALSE

Quiet ==
    /\ active' = FALSE /\ count' = 0 /\ tvalid' = FALSE
    /\ tdata' = Header /\ tlast' = FALSE

Sender(ready) ==
    /\ Latch
    /\ \/ tvalid /\ ready /\ NextWord
       \/ tvalid /\ ~ready /\ UNCHANGED <<active, count, tvalid, tdata, tlast>>
       \/ ~tvalid /\ ~active /\ cap_reg /\ StartReport
       \/ ~tvalid /\ ~(~active /\ cap_reg) /\ Quiet
-----------------------------------------------------------------------------
(***************************************************************************)
(* History: what capture_control took for a region, and what was read.     *)
(***************************************************************************)

\* A region is over with its last sample, or when the cycle is given up.
RegionHistory(valid) ==
    LET samples == IF valid THEN open \cup {next} ELSE open
        over == cycle_active /\ (region_end(valid) \/ cycle_cnt' = 0)
    IN  /\ open' = IF cycle_active /\ ~over THEN samples ELSE {}
        /\ closing' = IF over THEN [samples |-> samples, number |-> region_cnt + 1] ELSE closing
        /\ closed' = closing

SenderHistory(valid, ready) ==
    /\ taken' = IF Free /\ cap_reg THEN pkt_counter ELSE taken
    /\ got' = IF tvalid /\ ready THEN IF tlast THEN 0 ELSE got + 1 ELSE got
    /\ smooth' = IF Free /\ cap_reg THEN on /\ ~captured(valid) ELSE smooth /\ (ready \/ ~tvalid)

\* One clock: a sample or none, good on this channel or not, a trigger or none, and a
\* reader that takes a word or not.
Clock(valid, good, trig, ready) ==
    /\ valid => age = Period /\ next <= MaxSamples
    /\ ~good => valid /\ Cardinality(bad) < MaxBad
    /\ age' = IF valid THEN 1 ELSE IF age < Period THEN age + 1 ELSE age
    /\ next' = IF valid THEN next + 1 ELSE next
    /\ bad' = IF good THEN bad ELSE bad \cup {next}
    /\ Control(valid, trig)
    /\ Summary(valid)
    /\ Channel(valid, good)
    /\ Sender(ready)
    /\ RegionHistory(valid) /\ SenderHistory(valid, ready)
    /\ UNCHANGED <<on, switches>>

\* Software writes spare_reg1, which a TCP client may do at any clock; two writes are far
\* more clocks apart than the circuit needs to end a cycle.
Switch ==
    /\ switches < MaxSwitches
    /\ on \/ (cycle_cnt = 0 /\ ~started /\ ~cap_reg)
    /\ on' = ~on /\ switches' = switches + 1 /\ smooth' = FALSE
    /\ UNCHANGED <<age, next, bad, controlVars, summaryVars, channelVars, senderVars,
                   open, closing, closed, taken, got>>

Next ==
    \/ Switch
    \/ \E valid, good, trig, ready \in BOOLEAN : Clock(valid, good, trig, ready)

Spec == Init /\ [][Next]_vars
-----------------------------------------------------------------------------
(***************************************************************************)
(* Properties.                                                             *)
(***************************************************************************)

\* When a report is formed (subsystem_capture.sv:149) it counts the samples of the region
\* capture_control has closed, neither a neighbour's nor those between two windows, and
\* carries the timestamp of the first. It names the region, counted from one, unless the
\* cycle was given up or triggered again meanwhile: then it says 0, and if it was given up
\* a sample that came just then may be counted too.
RegionReport ==
    cap_reg =>
      /\ region_cnt \in {0, closed.number}
      /\ closed.samples \subseteq samples_captured
      /\ samples_captured \ closed.samples \subseteq {next - 1}
      /\ region_cnt # 0 => samples_captured = closed.samples
      /\ cap_ts = IF samples_captured = {} THEN 0 ELSE Min(samples_captured)

\* The channel's sums in a report (subsystem_capture.sv:79-133) have the valid samples the
\* report counts, except that the last one may be missing: at a boundary between two
\* regions it is. The window's sums have exactly the same of these samples, and the
\* extremes are those of all but the last sample that was added.
SumsMatch ==
    cap_reg =>
      /\ ch_sum \subseteq samples_captured \ bad
      /\ \A s \in samples_captured \ (ch_sum \cup bad) : s = Max(samples_captured)
      /\ ch_sum_win \cap samples_captured = ch_sum
      /\ Cardinality(ch_sum) > 1 => ch_misc = ch_sum \ {Max(ch_sum)}

\* What simple_packetizer.sv:46-83 sends is a header and then all words of the one report
\* that was formed when it was free, in order and with tlast on the last: reports formed
\* meanwhile, a stalled reader or a switch never mix two of them.
PacketWhole ==
    tvalid => /\ tdata = IF got = 0 THEN Header ELSE <<taken, got>>
              /\ tlast = (got = Words)

\* A report is lost (simple_packetizer.sv:68) only if the reader stalled or averaging was
\* switched since the last one was taken, or switched off so that the next region ended
\* with its first clock: regions long enough for a packet, header and one idle clock
\* included, do not overtake the packetizer.
NoReportLost == cap_reg /\ smooth => Free

\* capture_control.v:61 says "do not allow retrigger during cycle": once triggered,
\* cycle_cnt goes on counting samples or back to zero. It does not hold while the cycle
\* waits for its first region, and a trigger input that stays high holds it there.
NoRetrigger == [][cycle_cnt # 0 => cycle_cnt' \in {cycle_cnt, cycle_cnt + 1, 0}]_vars
=============================================================================
