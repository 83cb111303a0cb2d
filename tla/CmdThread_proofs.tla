-------------------------- MODULE CmdThread_proofs --------------------------
(***************************************************************************)
(* What the runs of CmdThread check of the calibration and of the server   *)
(* behind it, for every number of channels, taps, clients and restarts.    *)
(*                                                                         *)
(* The invariant follows the sweep: where each register and delay line is  *)
(* in each phase (Settled), what the counters can have counted since they  *)
(* were cleared (Counting), and that the tap chosen from the counts is not *)
(* a bad one (Chosen). The last rests on every array of counts having a    *)
(* first longest run of zeroes if it has a zero (MiddleExists).            *)
(***************************************************************************)
EXTENDS CmdThread, TLAPS, WellFoundedInduction

USE AdcAssumption, CmdAssumption

----------------------------------------------------------------------------
(* The middle of the first longest run exists and is a good tap.           *)

Less == {p \in Nat \X Nat : p[1] < p[2]}

LEMMA LessWellFounded == IsWellFoundedOn(Less, Nat)
<1>1. Less = OpToRel(<, Nat)
  BY DEF Less, OpToRel
<1> QED
  BY <1>1, NatLessThanWellFounded

LEMMA InLess == \A i, j \in Nat : <<i, j>> \in Less <=> i < j
  BY DEF Less

\* Every set of naturals has a least element.
LEMMA LeastIn ==
  ASSUME NEW S \in SUBSET Nat, S # {}
  PROVE  \E x \in S : \A y \in S : x <= y
<1>1. \E x \in S : \A y \in S : <<y, x>> \notin Less
  BY LessWellFounded, WFMin
<1>2. PICK x \in S : \A y \in S : <<y, x>> \notin Less
  BY <1>1
<1>3. ASSUME NEW y \in S PROVE x <= y
  <2>1. x \in Nat /\ y \in Nat /\ ~(y < x)
    BY <1>2, InLess
  <2> QED
    BY <2>1
<1> QED
  BY <1>3

\* Every bounded set of naturals has a greatest element.
LEMMA GreatestIn ==
  ASSUME NEW k \in Nat, NEW S \in SUBSET (0..k), S # {}
  PROVE  \E x \in S : \A y \in S : y <= x
<1> DEFINE D == {k - y : y \in S}
<1>1. \A y \in S : k - y \in Nat
  OBVIOUS
<1>2. D \in SUBSET Nat /\ D # {}
  BY <1>1
<1>3. PICK d \in D : \A e \in D : d <= e
  BY <1>2, LeastIn
<1>4. PICK x \in S : d = k - x
  OBVIOUS
<1>5. \A y \in S : k - x <= k - y
  BY <1>3, <1>4
<1>6. \A y \in S : y <= x
  BY <1>5
<1> QED
  BY <1>6

\* A first longest run exists as soon as there is a good tap.
LEMMA LongestExists ==
  ASSUME NEW N \in Nat \ {0}, NEW errors, NEW i \in 0..(N - 1), errors[i] = 0
  PROVE  \E a \in 0..N : \E l \in 1..N : IsFirstLongest(errors, N, a, l)
<1> DEFINE At(l) == {a \in 0..(N - l) : IsRun(errors, a, l)}
           Lengths == {l \in 1..N : At(l) # {}}
<1>1. i \in At(1)
  BY DEF IsRun
<1>2. Lengths \in SUBSET (0..N) /\ Lengths # {}
  <2>1. At(1) # {}
    BY <1>1
  <2> HIDE DEF At
  <2>2. 1 \in Lengths
    BY <2>1
  <2> QED
    BY <2>2
<1> HIDE DEF Lengths
<1>3. PICK l \in Lengths : \A m \in Lengths : m <= l
  BY <1>2, GreatestIn
<1>4. l \in 1..N /\ At(l) # {} /\ At(l) \in SUBSET Nat
  BY DEF Lengths
<1>5. PICK a \in At(l) : \A b \in At(l) : a <= b
  BY <1>4, LeastIn
<1>6. a \in 0..(N - l) /\ a \in 0..N /\ IsRun(errors, a, l)
  BY <1>4, <1>5
<1>7. ASSUME NEW b \in 0..N, NEW m \in 1..(N - b), IsRun(errors, b, m)
      PROVE  m < l \/ (m = l /\ a <= b)
  <2>1. m \in 1..N /\ b \in At(m)
    BY <1>7
  <2>2. m \in Lengths
    BY <2>1 DEF Lengths
  <2>3. m <= l
    BY <1>3, <2>2
  <2>4. CASE m = l
    BY <1>5, <2>1, <2>4
  <2> QED
    BY <1>4, <2>1, <2>3, <2>4
<1> QED
  BY <1>4, <1>6, <1>7 DEF IsFirstLongest

\* What SetBest writes: a tap, and one that saw no error if there is any such.
LEMMA MiddleExists ==
  ASSUME NEW errors
  PROVE  /\ MiddleTap(errors) \in Tap
         /\ (\E t \in Tap : errors[t] = 0) => errors[MiddleTap(errors)] = 0
<1>1. CASE \E t \in Tap : errors[t] = 0
  <2>1. PICK a \in 0..Taps, l \in 1..Taps : IsFirstLongest(errors, Taps, a, l)
    BY <1>1, LongestExists DEF Tap
  <2>2. (l \div 2) \in 0..(l - 1)
    BY <2>1
  <2>3. a + (l \div 2) \in Tap
    BY <2>1, <2>2 DEF Tap, IsFirstLongest
  <2>4. IsMiddle(errors, Taps, a + (l \div 2))
    BY <2>1 DEF IsMiddle
  <2>5. MiddleTap(errors) \in Tap /\ IsMiddle(errors, Taps, MiddleTap(errors))
    BY <2>3, <2>4 DEF MiddleTap
  <2>6. PICK b \in 0..Taps, m \in 1..Taps :
            IsFirstLongest(errors, Taps, b, m) /\ MiddleTap(errors) = b + (m \div 2)
    BY <1>1, <2>5 DEF IsMiddle, Tap
  <2>7. (m \div 2) \in 0..(m - 1)
    BY <2>6
  <2>8. b + (m \div 2) \in b..(b + m - 1)
    BY <2>6, <2>7
  <2> QED
    BY <2>5, <2>6, <2>8 DEF IsFirstLongest, IsRun
<1>2. CASE ~ \E t \in Tap : errors[t] = 0
  <2>1. IsMiddle(errors, Taps, 0) /\ 0 \in Tap
    BY <1>2 DEF IsMiddle, Tap
  <2> QED
    BY <1>2, <2>1 DEF MiddleTap
<1> QED
  BY <1>1, <1>2

----------------------------------------------------------------------------
(* The inductive invariant.                                                *)

InLoop == {"delay", "read", "best"}
InSweep == {"delay", "sleep reset", "reset", "sleep run", "run", "sleep read", "read"}
AtTap == {"reset", "sleep run", "run", "sleep read", "read"}
AfterBest == {"sleep leave", "leave", "sleep count", "count", "start", "serve"}
Loaded == {"leave", "sleep count", "count", "start", "serve"}

\* Where the loops of adc_init are.
Position ==
    /\ pc \in InSweep => n < Taps
    /\ pc \in InLoop => ch < Channels
    /\ pc \notin InLoop => ch = 0
    /\ pc # "serve" => changed = {}

\* Where the registers and the delay lines are in the sweep.
Settled ==
    /\ pc = "delay" => \A c \in Channel : c < ch => load[c] = n
    /\ pc = "sleep reset" => \A c \in Channel : load[c] = n
    /\ pc \in AtTap => \A c \in Channel : load[c] = n /\ delay[c] = n

\* What has been counted since the counters were cleared.
Counting ==
    /\ pc = "sleep run" => clear /\ (converted => \A c \in Channel : count[c] = 0)
    /\ pc = "run" => \A c \in Channel : count[c] = 0
    /\ pc \in {"sleep read", "read"} =>
          /\ ~clear /\ testpat
          /\ \A c \in Channel :
                /\ link[c][n] = "clean" => count[c] = 0
                /\ link[c][n] = "bad" /\ converted => count[c] > 0
    /\ pc = "run" => clear
    /\ pc = "read" => converted

\* Channel c is sent to a tap that is not bad if it has a clean one.
GoodLoad(c) == (\E t \in Tap : link[c][t] = "clean") => link[c][load[c]] # "bad"

\* The counts say all of it when the sweep is over.
Chosen ==
    /\ pc \in {"best"} \cup AfterBest => n = Taps
    /\ pc = "best" => \A c \in Channel : c < ch => GoodLoad(c)
    /\ pc \in AfterBest /\ "ADC_DELAY_IN" \notin changed => \A c \in Channel : GoodLoad(c)
    /\ pc \in Loaded /\ "ADC_DELAY_IN" \notin changed =>
          \A c \in Channel : delay[c] = load[c]

\* Before the first restart only data_init, or a client, has started the stream.
Quiet ==
    /\ stream /\ restarts = 0 => pc = "serve"
    /\ pc = "start" => ~testpat
    /\ pc = "serve" /\ "ADC_CTRL" \notin changed => ~testpat

Inv == CmdTypeOK /\ Position /\ Settled /\ Counting /\ CountsBelongToTap /\ Chosen /\ Quiet

USE DEF InLoop, InSweep, AtTap, AfterBest, Loaded

LEMMA InitInv == CmdInit => Inv
<1> SUFFICES ASSUME CmdInit PROVE Inv
  OBVIOUS
<1> USE DEF CmdInit, Init
<1>1. 0 \in Tap /\ 0 \in Channel /\ 0 < Taps /\ 0 < Channels
  BY DEF Tap, Channel
<1>2. TypeOK
  <2>1. load \in [Channel -> Tap] /\ delay \in [Channel -> Tap]
    BY <1>1
  <2>2. /\ count \in [Channel -> 0..Saturation]
        /\ error_counters \in [Channel -> [Tap -> 0..Saturation]]
    OBVIOUS
  <2>3. n \in 0..Taps /\ ch \in 0..Channels /\ restarts \in 0..MaxRestarts
    OBVIOUS
  <2>4. pc \in Steps \cup Sleeps
    BY DEF Steps, Sleeps
  <2> QED
    BY <2>1, <2>2, <2>3, <2>4 DEF TypeOK
<1>3. CmdTypeOK
  <2>1. writes \in 0..MaxWrites /\ changed \subseteq Register
    OBVIOUS
  <2> QED
    BY <1>2, <2>1, Zenon DEF CmdTypeOK
<1>4. Position /\ Chosen /\ Quiet /\ Counting
  BY <1>1 DEF Position, Chosen, Quiet, Counting
<1>5. Settled
  BY <1>1 DEF Settled, Channel
<1>6. CountsBelongToTap
  BY <1>1 DEF CountsBelongToTap, Measured, Tap
<1> QED
  BY <1>3, <1>4, <1>5, <1>6 DEF Inv

\* Min of two, which Convert caps the counters with.
LEMMA MinOfTwo == \A a, b \in Nat : Min({a, b}) = IF a <= b THEN a ELSE b
<1> SUFFICES ASSUME NEW a \in Nat, NEW b \in Nat
             PROVE  Min({a, b}) = IF a <= b THEN a ELSE b
  OBVIOUS
<1> QED
  BY DEF Min

\* What one conversion does to a counter.
LEMMA ConvertCounts ==
  ASSUME CmdTypeOK, Convert, NEW c \in Channel
  PROVE  /\ count'[c] \in 0..Saturation
         /\ clear => count'[c] = 0
         /\ ~clear /\ link[c][delay[c]] = "clean" => count'[c] = count[c]
         /\ ~clear /\ testpat /\ link[c][delay[c]] = "bad" => count'[c] > 0
<1>1. PICK e \in [Channel -> {0, 1}] :
        /\ \A d \in Channel : e[d] \in ErrorsOf(d)
        /\ count' = [d \in Channel |->
                        IF clear THEN 0 ELSE Min({count[d] + e[d], Saturation})]
  BY DEF Convert
<1>2. /\ count[c] \in 0..Saturation /\ e[c] \in {0, 1} /\ e[c] \in ErrorsOf(c)
      /\ count'[c] = IF clear THEN 0 ELSE Min({count[c] + e[c], Saturation})
  BY <1>1 DEF CmdTypeOK, TypeOK
<1>3. /\ link[c][delay[c]] = "clean" => e[c] = 0
      /\ testpat /\ link[c][delay[c]] = "bad" => e[c] = 1
  BY <1>2 DEF ErrorsOf
<1>4. Min({count[c] + e[c], Saturation}) =
        IF count[c] + e[c] <= Saturation THEN count[c] + e[c] ELSE Saturation
  BY <1>2, MinOfTwo
<1> QED
  BY <1>2, <1>3, <1>4
----------------------------------------------------------------------------
(* The invariant is kept, one lemma per action.                            *)

USE DEF vars, fpgaVars, cmdVars, allVars

\* Where adc_init uses its loop counters they index the arrays.
LEMMA LoopBounds ==
  ASSUME TypeOK, Position
  PROVE  /\ pc \in {"delay", "read"} => n \in Tap
         /\ pc \in InLoop => ch \in Channel
<1>1. n \in 0..Taps /\ ch \in 0..Channels
  BY DEF TypeOK
<1>2. /\ pc \in {"delay", "read"} => n < Taps
      /\ pc \in InLoop => ch < Channels
  BY DEF Position
<1> HIDE DEF InLoop
<1>3. n < Taps => n \in Tap
  BY <1>1 DEF Tap
<1>4. ch < Channels => ch \in Channel
  BY <1>1 DEF Channel
<1> QED
  BY <1>2, <1>3, <1>4

\* The value of a loop counter that indexes an array, and the next one.
LEMMA Bounds ==
  /\ \A t \in Tap : t \in Nat /\ t < Taps /\ t + 1 \in 0..Taps /\ t \in 0..Taps
  /\ \A c \in Channel : /\ c \in Nat /\ c < Channels /\ c \in 0..Channels
                        /\ c + 1 \in 0..Channels
  /\ \A c, d \in Channel : d = Channels - 1 => c < d \/ c = d
  /\ 0 \in 0..Channels /\ 0 \in 0..Taps
BY DEF Tap, Channel

\* A turn of an inner loop over the channels.
LEMMA InnerLoop ==
  ASSUME NEW next, ch \in Channel, LoopChannels(next)
  PROVE  \/ ch' \in Channel /\ ch' = ch + 1 /\ pc' = pc
         \/ ch' = 0 /\ ch = Channels - 1 /\ pc' = next
<1>1. Channels \in Nat \ {0} /\ ch \in 0..(Channels - 1)
  BY DEF Channel
<1>2. CASE ch + 1 < Channels
  BY <1>1, <1>2 DEF LoopChannels, Channel
<1>3. CASE ~(ch + 1 < Channels)
  BY <1>1, <1>3 DEF LoopChannels
<1> QED
  BY <1>2, <1>3

\* Every step keeps the types: the loops stay inside the arrays.
LEMMA TypeStep ==
  ASSUME CmdTypeOK, Position, [CmdNext]_allVars
  PROVE  CmdTypeOK'
<1> USE DEF CmdTypeOK, TypeOK
<1>1. CASE Fpga
  <2>1. CASE Convert /\ UNCHANGED cmdVars
    <3>1. \A c \in Channel : count'[c] \in 0..Saturation
      BY <2>1, ConvertCounts
    <3>2. \E f : count' = [c \in Channel |-> f[c]]
      <4>1. PICK e \in [Channel -> {0, 1}] : count' = [c \in Channel |->
                    IF clear THEN 0 ELSE Min({count[c] + e[c], Saturation})]
        BY <2>1 DEF Convert
      <4>2. count' = [c \in Channel |-> count'[c]]
        BY <4>1
      <4> QED
        BY <4>2
    <3>3. count' \in [Channel -> 0..Saturation]
      BY <3>1, <3>2
    <3> QED
      BY <2>1, <3>3 DEF Convert
  <2>2. ASSUME NEW c \in Channel, LoadDelay(c), UNCHANGED cmdVars
        PROVE  CmdTypeOK'
    <3>1. delay' \in [Channel -> Tap]
      BY <2>2 DEF LoadDelay
    <3> QED
      BY <2>2, <3>1 DEF LoadDelay
  <2> QED
    BY <1>1, <2>1, <2>2 DEF Fpga
<1>2. CASE Calibrate
  <2> SUFFICES TypeOK'
    BY <1>2 DEF Calibrate
  <2> USE DEF Position, Steps, Sleeps
  <2>1. CASE SetDelay
    <3>1. pc = "delay"
      BY <2>1 DEF SetDelay
    <3>2. ch \in Channel /\ n \in Tap
      BY <3>1, LoopBounds
    <3>3. load' \in [Channel -> Tap]
      BY <2>1, <3>2 DEF SetDelay
    <3>4. ch' \in 0..Channels /\ pc' \in {pc, "sleep reset"}
      <4> HIDE DEF CmdTypeOK, TypeOK, Position, InLoop, InSweep
      <4> QED
        BY <2>1, <3>2, InnerLoop, Bounds DEF SetDelay
    <3> QED
      BY <2>1, <3>3, <3>4 DEF SetDelay
  <2>2. CASE ResetCounters \/ RunCounters \/ LeaveTest
    BY <2>2 DEF ResetCounters, RunCounters, LeaveTest, WriteCtrl
  <2>3. CASE ReadCounter
    <3>1. pc = "read"
      BY <2>3 DEF ReadCounter
    <3>2. ch \in Channel /\ n \in Tap
      BY <3>1, LoopBounds
    <3>3. error_counters' \in [Channel -> [Tap -> 0..Saturation]]
      BY <2>3, <3>2 DEF ReadCounter
    <3>4. n' \in 0..Taps /\ ch' \in 0..Channels /\ pc' \in {pc, "delay", "best"}
      <4> HIDE DEF CmdTypeOK, TypeOK, Position, InLoop, InSweep
      <4> QED
        BY <2>3, <3>2, Bounds DEF ReadCounter
    <3> QED
      BY <2>3, <3>3, <3>4 DEF ReadCounter
  <2>4. CASE SetBest
    <3>1. pc = "best"
      BY <2>4 DEF SetBest
    <3>2. ch \in Channel
      BY <3>1, LoopBounds
    <3>3. load' \in [Channel -> Tap]
      BY <2>4, MiddleExists DEF SetBest
    <3>4. ch' \in 0..Channels /\ pc' \in {pc, "sleep leave"}
      <4> HIDE DEF CmdTypeOK, TypeOK, Position, InLoop, InSweep
      <4> QED
        BY <2>4, <3>2, InnerLoop, Bounds DEF SetBest
    <3> QED
      BY <2>4, <3>3, <3>4 DEF SetBest
  <2>5. CASE Release \/ StartStream
    BY <2>5 DEF Release, StartStream
  <2>6. CASE Wake
    BY <2>6 DEF Wake, Sleep
  <2> QED
    BY <1>2, <2>1, <2>2, <2>3, <2>4, <2>5, <2>6 DEF Calibrate, Thread
<1>3. ASSUME NEW c \in Client, Ask(c) PROVE CmdTypeOK'
  BY <1>3 DEF Ask
<1>4. CASE Serve
  <2>1. ASSUME NEW c \in Client, Receive(c) PROVE CmdTypeOK'
    BY <2>1 DEF Receive
  <2>2. CASE WriteDelay
    <3>1. load' \in [Channel -> Tap]
      BY <2>2 DEF WriteDelay
    <3> QED
      BY <2>2, <3>1 DEF WriteDelay, WriteRegister, Execute, Register
  <2>3. CASE WriteAdcCtrl
    BY <2>3 DEF WriteAdcCtrl, WriteRegister, Execute, Register
  <2>4. CASE WriteStreamCtrl
    BY <2>4 DEF WriteStreamCtrl, WriteRegister, Execute, Register
  <2>5. CASE NothingWritten
    BY <2>5 DEF NothingWritten, Execute
  <2>6. CASE Send
    BY <2>6 DEF Send
  <2> QED
    BY <1>4, <2>1, <2>2, <2>3, <2>4, <2>5, <2>6 DEF Serve
<1>5. CASE RestartThread
  <2>1. error_counters' \in [Channel -> [Tap -> 0..Saturation]]
    BY <1>5 DEF RestartThread, Restart
  <2>2. restarts' \in 0..MaxRestarts /\ n' \in 0..Taps /\ ch' \in 0..Channels
    BY <1>5 DEF RestartThread, Restart
  <2> QED
    BY <1>5, <2>1, <2>2 DEF RestartThread, Restart, Steps
<1>6. CASE UNCHANGED allVars
  BY <1>6
<1> QED
  BY <1>1, <1>3, <1>2, <1>4, <1>5, <1>6 DEF CmdNext

\* Everything of the invariant but the types.
Rest == Position /\ Settled /\ Counting /\ CountsBelongToTap /\ Chosen /\ Quiet

\* The variables that Rest speaks of.
restVars == <<link, load, delay, testpat, clear, count, converted, stream, pc, n, ch,
              error_counters, restarts, changed>>

\* A step of the server or of a client that writes no register.
LEMMA RestUnchanged ==
  ASSUME Rest, UNCHANGED restVars
  PROVE  Rest'
BY DEF Rest, restVars, Position, Settled, Counting, CountsBelongToTap, Measured,
       Chosen, GoodLoad, Quiet

LEMMA LoadDelayRest ==
  ASSUME CmdTypeOK, Rest, NEW d \in Channel, LoadDelay(d), UNCHANGED cmdVars
  PROVE  Rest'
<1> USE DEF LoadDelay
<1>1. \A c \in Channel : delay'[c] = IF c = d THEN load[d] ELSE delay[c]
  BY DEF CmdTypeOK, TypeOK
<1>2. delay[d] # load[d]
  OBVIOUS
<1>3. Settled'
  BY <1>1 DEF Rest, Settled
<1>4. Counting' /\ Position' /\ Quiet'
  BY DEF Rest, Counting, Position, Quiet
<1>5. CountsBelongToTap'
  BY DEF Rest, CountsBelongToTap, Measured
<1>6. Chosen'
  BY <1>1 DEF Rest, Chosen, GoodLoad
<1> QED
  BY <1>3, <1>4, <1>5, <1>6 DEF Rest

LEMMA ConvertRest ==
  ASSUME CmdTypeOK, Rest, Convert, UNCHANGED cmdVars
  PROVE  Rest'
<1>1. UNCHANGED <<link, load, delay, testpat, clear, stream, pc, n, ch,
                  error_counters, restarts, changed>> /\ converted'
  BY DEF Convert
<1>2. Settled' /\ Position' /\ Quiet'
  BY <1>1 DEF Rest, Settled, Position, Quiet
<1>3. CountsBelongToTap' /\ Chosen'
  BY <1>1 DEF Rest, CountsBelongToTap, Measured, Chosen, GoodLoad
<1>4. Counting'
  <2>1. CASE pc \in {"sleep run", "run"}
    BY <1>1, <2>1, ConvertCounts DEF Rest, Counting
  <2>2. CASE pc \in {"sleep read", "read"}
    <3>1. ~clear /\ testpat /\ \A c \in Channel : delay[c] = n
      BY <2>2 DEF Rest, Counting, Settled
    <3>2. ASSUME NEW c \in Channel
          PROVE  /\ link[c][n] = "clean" => count'[c] = 0
                 /\ link[c][n] = "bad" => count'[c] > 0
      BY <2>2, <3>1, ConvertCounts DEF Rest, Counting
    <3> QED
      BY <1>1, <2>2, <3>1, <3>2 DEF Rest, Counting
  <2>3. CASE pc \notin {"sleep run", "run", "sleep read", "read"}
    BY <1>1, <2>3 DEF Counting
  <2> QED
    BY <2>1, <2>2, <2>3
<1> QED
  BY <1>2, <1>3, <1>4 DEF Rest

LEMMA SetDelayRest ==
  ASSUME CmdTypeOK, Rest, SetDelay, UNCHANGED cmdVars
  PROVE  Rest'
<1>1. pc = "delay" /\ ch \in Channel /\ n \in Tap
  BY LoopBounds DEF SetDelay, CmdTypeOK, Rest
<1>2. \A c \in Channel : load'[c] = IF c = ch THEN n ELSE load[c]
  BY <1>1 DEF SetDelay, CmdTypeOK, TypeOK
<1>3. \A c \in Channel : c < ch => load[c] = n
  BY <1>1 DEF Rest, Settled
<1>4. UNCHANGED <<link, delay, count, testpat, clear, stream, n, error_counters,
                  restarts, changed>>
  BY DEF SetDelay
<1>5. /\ n < Taps /\ changed = {} /\ ~(stream /\ restarts = 0)
      /\ \A c \in Channel : c \in Nat /\ c < Channels
  BY <1>1, Bounds DEF Rest, Position, Quiet
<1>6. CountsBelongToTap'
  <2>1. pc' = pc \/ pc' = "sleep reset"
    BY <1>1, InnerLoop DEF SetDelay
  <2>2. pc # "read" /\ pc' # "read"
    BY <1>1, <2>1
  <2> QED
    BY <1>4, <2>2 DEF Rest, CountsBelongToTap, Measured
<1>7. CASE ch' \in Channel /\ ch' = ch + 1 /\ pc' = pc
  <2>1. Position' /\ Counting' /\ Chosen' /\ Quiet'
    BY <1>1, <1>4, <1>5, <1>7 DEF Position, Counting, Chosen, Quiet
  <2>2. \A c \in Channel : c < ch' => c < ch \/ c = ch
    BY <1>1, <1>5, <1>7
  <2>3. Settled'
    BY <1>1, <1>2, <1>3, <1>4, <1>7, <2>2 DEF Settled
  <2> QED
    BY <1>6, <2>1, <2>3 DEF Rest
<1>8. CASE ch' = 0 /\ ch = Channels - 1 /\ pc' = "sleep reset"
  <2>1. Position' /\ Counting' /\ Chosen' /\ Quiet'
    BY <1>1, <1>4, <1>5, <1>8 DEF Position, Counting, Chosen, Quiet
  <2>2. \A c \in Channel : c < ch \/ c = ch
    BY <1>1, <1>8, Bounds
  <2>3. Settled'
    BY <1>2, <1>3, <1>4, <1>8, <2>2 DEF Settled
  <2> QED
    BY <1>6, <2>1, <2>3 DEF Rest
<1> QED
  BY <1>1, <1>7, <1>8, InnerLoop DEF SetDelay

\* The writes to ADC_CTRL of the sweep.
LEMMA WriteCtrlRest ==
  ASSUME CmdTypeOK, Rest, ResetCounters \/ RunCounters \/ LeaveTest, UNCHANGED cmdVars
  PROVE  Rest'
<1> USE DEF ResetCounters, RunCounters, LeaveTest, WriteCtrl
<1>1. UNCHANGED <<link, load, delay, count, stream, n, ch, error_counters, restarts,
                  changed>>
  OBVIOUS
<1>2. ~converted' /\ \/ pc = "reset" /\ pc' = "sleep run" /\ testpat' /\ clear'
                     \/ pc = "run" /\ pc' = "sleep read" /\ testpat' /\ ~clear'
                     \/ pc = "leave" /\ pc' = "sleep count"
  OBVIOUS
<1> HIDE DEF ResetCounters, RunCounters, LeaveTest, WriteCtrl
<1>3. Position' /\ Settled' /\ Quiet'
  BY <1>1, <1>2 DEF Rest, Position, Settled, Quiet
<1>4. Counting' /\ Chosen'
  BY <1>1, <1>2 DEF Rest, Counting, Chosen, GoodLoad
<1>5. CountsBelongToTap'
  BY <1>1, <1>2 DEF Rest, CountsBelongToTap, Measured
<1> QED
  BY <1>3, <1>4, <1>5 DEF Rest

\* The count of a channel is read while its delay line is at the tap of the sweep, and
\* all there is of it has been counted there.
LEMMA ReadCounterRest ==
  ASSUME CmdTypeOK, Rest, ReadCounter, UNCHANGED cmdVars
  PROVE  Rest'
<1>1. pc = "read" /\ ch \in Channel /\ n \in Tap
  BY LoopBounds DEF ReadCounter, CmdTypeOK, Rest
<1>2. /\ \A c \in Channel : c \in Nat /\ c < Channels
      /\ \A t \in Tap : t \in Nat
      /\ n \in Nat /\ n < Taps /\ ch \in Nat
  BY <1>1, Bounds
<1>3. UNCHANGED <<link, load, delay, count, converted, testpat, clear, stream,
                  restarts, changed>>
  BY DEF ReadCounter
<1>4. \A c \in Channel, t \in Tap :
        error_counters'[c][t] =
          IF c = ch /\ t = n THEN count[ch] ELSE error_counters[c][t]
  BY <1>1 DEF ReadCounter, CmdTypeOK, TypeOK
<1>5. /\ link[ch][n] = "clean" => count[ch] = 0
      /\ link[ch][n] = "bad" => count[ch] > 0
  BY <1>1 DEF Rest, Counting
<1>6. /\ changed = {} /\ ~(stream /\ restarts = 0)
      /\ \A c \in Channel : load[c] = n /\ delay[c] = n
  BY <1>1 DEF Rest, Position, Quiet, Settled
<1>7. ASSUME NEW c \in Channel, NEW t \in Tap,
             t < n \/ (t = n /\ c <= ch)
      PROVE  /\ link[c][t] = "clean" => error_counters'[c][t] = 0
             /\ link[c][t] = "bad" => error_counters'[c][t] > 0
  <2>1. CASE c = ch /\ t = n
    BY <1>4, <1>5, <2>1
  <2>2. CASE ~(c = ch /\ t = n)
    <3>1. t \in Measured(c)
      BY <1>1, <1>2, <1>7, <2>2 DEF Measured
    <3>2. error_counters'[c][t] = error_counters[c][t]
      BY <1>4, <2>2
    <3> QED
      BY <3>1, <3>2 DEF Rest, CountsBelongToTap
  <2> QED
    BY <2>1, <2>2
<1>8. CASE ch + 1 < Channels
  <2>1. ch' = ch + 1 /\ pc' = pc /\ n' = n
    BY <1>8 DEF ReadCounter
  <2>2. \A c \in Channel : c < ch' => c <= ch
    BY <1>2, <2>1
  <2>3. CountsBelongToTap'
    BY <1>1, <1>3, <1>7, <2>1, <2>2 DEF CountsBelongToTap, Measured
  <2>4. Position' /\ Quiet' /\ Settled' /\ Chosen'
    BY <1>1, <1>2, <1>3, <1>6, <1>8, <2>1 DEF Position, Quiet, Settled, Chosen
  <2>5. Counting'
    BY <1>1, <1>3, <2>1 DEF Rest, Counting
  <2> QED
    BY <2>3, <2>4, <2>5 DEF Rest
<1>9. CASE ~(ch + 1 < Channels)
  <2>1. ch' = 0 /\ n' = n + 1 /\ pc' = IF n + 1 < Taps THEN "delay" ELSE "best"
    BY <1>9 DEF ReadCounter
  <2>2. \A c \in Channel : c <= ch /\ ~(c < ch')
    BY <1>2, <1>9, <2>1
  <2>3. \A t \in Tap : t < n' => t < n \/ t = n
    BY <1>2, <2>1
  <2>4. CountsBelongToTap'
    BY <1>3, <1>7, <2>1, <2>2, <2>3 DEF CountsBelongToTap, Measured
  <2>5. pc' = "best" => n' = Taps
    BY <1>2, <2>1
  <2>6. Position' /\ Quiet' /\ Settled' /\ Counting'
    BY <1>2, <1>3, <1>6, <2>1, <2>2 DEF Position, Quiet, Settled, Counting
  <2>7. Chosen'
    BY <2>1, <2>2, <2>5 DEF Chosen
  <2> QED
    BY <2>4, <2>6, <2>7 DEF Rest
<1> QED
  BY <1>8, <1>9

\* The tap that is chosen saw no error, so it is not a bad one.
LEMMA SetBestRest ==
  ASSUME CmdTypeOK, Rest, SetBest, UNCHANGED cmdVars
  PROVE  Rest'
<1>1. pc = "best" /\ ch \in Channel /\ n = Taps
  BY LoopBounds DEF SetBest, CmdTypeOK, Rest, Chosen
<1>2. \A c \in Channel :
        load'[c] = IF c = ch THEN MiddleTap(error_counters[ch]) ELSE load[c]
  BY <1>1 DEF SetBest, CmdTypeOK, TypeOK
<1>3. UNCHANGED <<link, delay, count, testpat, clear, stream, n, error_counters,
                  restarts, changed>>
  BY DEF SetBest
<1>4. \A t \in Tap : t \in Measured(ch)
  BY <1>1, Bounds DEF Measured
<1>5. \A t \in Tap : /\ link[ch][t] = "clean" => error_counters[ch][t] = 0
                     /\ link[ch][t] = "bad" => error_counters[ch][t] > 0
  BY <1>1, <1>4 DEF Rest, CountsBelongToTap
<1>6. (\E t \in Tap : link[ch][t] = "clean") => link[ch][load'[ch]] # "bad"
  <2> SUFFICES ASSUME NEW t \in Tap, link[ch][t] = "clean"
               PROVE  link[ch][load'[ch]] # "bad"
    OBVIOUS
  <2>1. /\ MiddleTap(error_counters[ch]) \in Tap
        /\ error_counters[ch][MiddleTap(error_counters[ch])] = 0
    BY <1>5, MiddleExists
  <2>2. link[ch][MiddleTap(error_counters[ch])] # "bad"
    BY <1>5, <2>1
  <2> QED
    BY <1>1, <1>2, <2>2
<1>7. \A c \in Channel : c < ch => GoodLoad(c)
  BY <1>1 DEF Rest, Chosen
<1>8. ASSUME NEW c \in Channel, c < ch \/ c = ch
      PROVE  (\E t \in Tap : link[c][t] = "clean") => link[c][load'[c]] # "bad"
  BY <1>1, <1>2, <1>6, <1>7, <1>8 DEF GoodLoad
<1>9. changed = {} /\ ~(stream /\ restarts = 0)
  BY <1>1 DEF Rest, Position, Quiet
<1>10. CountsBelongToTap'
  <2>1. pc' = pc \/ pc' = "sleep leave"
    BY <1>1, InnerLoop DEF SetBest
  <2>2. pc # "read" /\ pc' # "read"
    BY <1>1, <2>1
  <2> QED
    BY <1>3, <2>2 DEF Rest, CountsBelongToTap, Measured
<1>11. CASE ch' \in Channel /\ ch' = ch + 1 /\ pc' = pc
  <2>1. Position' /\ Settled' /\ Counting' /\ Quiet'
    BY <1>1, <1>3, <1>9, <1>11, Bounds DEF Position, Settled, Counting, Quiet
  <2>2. \A c \in Channel : c < ch' => c < ch \/ c = ch
    BY <1>1, <1>11, Bounds
  <2>3. Chosen'
    BY <1>1, <1>3, <1>8, <1>11, <2>2 DEF Chosen, GoodLoad
  <2> QED
    BY <1>10, <2>1, <2>3 DEF Rest
<1>12. CASE ch' = 0 /\ ch = Channels - 1 /\ pc' = "sleep leave"
  <2>1. Position' /\ Settled' /\ Counting' /\ Quiet'
    BY <1>1, <1>3, <1>9, <1>12 DEF Position, Settled, Counting, Quiet
  <2>2. \A c \in Channel : c < ch \/ c = ch
    BY <1>1, <1>12, Bounds
  <2>3. Chosen'
    BY <1>1, <1>3, <1>8, <1>12, <2>2 DEF Chosen, GoodLoad
  <2> QED
    BY <1>10, <2>1, <2>3 DEF Rest
<1> QED
  BY <1>1, <1>11, <1>12, InnerLoop DEF SetBest

\* adc_init ends with the test pattern off, and the stream starts after that.
LEMMA EndRest ==
  ASSUME CmdTypeOK, Rest, Release \/ StartStream, UNCHANGED cmdVars
  PROVE  Rest'
<1> USE DEF Release, StartStream
<1>1. UNCHANGED <<link, load, delay, count, converted, n, ch, error_counters, restarts,
                  changed>>
  OBVIOUS
<1>2. \/ pc = "count" /\ pc' = "start" /\ ~testpat' /\ UNCHANGED stream
      \/ pc = "start" /\ pc' = "serve" /\ UNCHANGED testpat
  OBVIOUS
<1> HIDE DEF Release, StartStream
<1>3. Position' /\ Settled'
  <2>1. changed = {} \/ pc = "serve"
    BY DEF Rest, Position
  <2> QED
    BY <1>1, <1>2, <2>1 DEF Rest, Position, Settled
<1>4. Counting' /\ Chosen'
  BY <1>1, <1>2 DEF Rest, Counting, Chosen, GoodLoad
<1>5. CountsBelongToTap'
  BY <1>1, <1>2 DEF Rest, CountsBelongToTap, Measured
<1>6. Quiet'
  BY <1>1, <1>2 DEF Rest, Quiet
<1> QED
  BY <1>3, <1>4, <1>5, <1>6 DEF Rest

\* A millisecond is enough: the delay lines are where their registers say, and the
\* counters have seen a conversion.
LEMMA WakeRest ==
  ASSUME CmdTypeOK, Rest, Wake, UNCHANGED cmdVars
  PROVE  Rest'
<1> USE DEF Wake, Sleep
<1>1. UNCHANGED <<link, load, delay, count, converted, testpat, clear, stream, n, ch,
                  error_counters, restarts, changed>>
  OBVIOUS
<1>2. converted /\ delay = load
  OBVIOUS
<1>3. \/ pc = "sleep reset" /\ pc' = "reset"
      \/ pc = "sleep run" /\ pc' = "run"
      \/ pc = "sleep read" /\ pc' = "read"
      \/ pc = "sleep leave" /\ pc' = "leave"
      \/ pc = "sleep count" /\ pc' = "count"
  OBVIOUS
<1> HIDE DEF Wake, Sleep
<1>4. Position'
  <2>1. 0 < Channels
    BY Bounds
  <2>2. ch = 0 /\ changed = {}
    BY <1>3 DEF Rest, Position
  <2>3. pc' \in InSweep => n < Taps
    BY <1>3 DEF Rest, Position
  <2> QED
    BY <1>1, <1>3, <2>1, <2>2, <2>3 DEF Position
<1>5. Settled' /\ Quiet'
  BY <1>1, <1>2, <1>3 DEF Rest, Settled, Quiet
<1>6. Counting' /\ Chosen'
  BY <1>1, <1>2, <1>3 DEF Rest, Counting, Chosen, GoodLoad
<1>7. CountsBelongToTap'
  <2>1. CASE pc' = "read"
    <3>1. ch' = 0 /\ pc # "read"
      BY <1>1, <1>3, <2>1 DEF Rest, Position
    <3>2. \A c \in Channel : ~(c < ch')
      BY <3>1, Bounds
    <3> QED
      BY <1>1, <3>1, <3>2 DEF Rest, CountsBelongToTap, Measured
  <2>2. CASE pc' # "read"
    BY <1>1, <1>3, <2>2 DEF Rest, CountsBelongToTap, Measured
  <2> QED
    BY <2>1, <2>2
<1> QED
  BY <1>4, <1>5, <1>6, <1>7 DEF Rest

\* A client may change what it likes; what it has changed is no longer claimed.
LEMMA ServeRest ==
  ASSUME CmdTypeOK, Rest, Serve
  PROVE  Rest'
<1>1. ASSUME NEW c \in Client, Receive(c) PROVE Rest'
  BY <1>1, RestUnchanged DEF Receive, restVars
<1>2. CASE NothingWritten
  BY <1>2, RestUnchanged DEF NothingWritten, Execute, restVars
<1>3. CASE Send
  BY <1>3, RestUnchanged DEF Send, restVars
<1>4. CASE WriteDelay \/ WriteAdcCtrl \/ WriteStreamCtrl
  <2> USE DEF WriteDelay, WriteAdcCtrl, WriteStreamCtrl, WriteRegister, Execute
  <2>1. /\ pc = "serve"
        /\ UNCHANGED <<link, delay, count, converted, pc, n, ch, error_counters, restarts>>
    BY <1>4
  <2>2. /\ \/ UNCHANGED load
           \/ changed' = changed \cup {"ADC_DELAY_IN"}
        /\ \/ UNCHANGED testpat
           \/ changed' = changed \cup {"ADC_CTRL"}
        /\ changed \subseteq changed'
    BY <1>4
  <2> HIDE DEF WriteDelay, WriteAdcCtrl, WriteStreamCtrl, WriteRegister, Execute
  <2>3. Position' /\ Settled' /\ Counting'
    BY <2>1 DEF Rest, Position, Settled, Counting
  <2>4. CountsBelongToTap'
    BY <2>1 DEF Rest, CountsBelongToTap, Measured
  <2>5. Chosen'
    BY <2>1, <2>2 DEF Rest, Chosen, GoodLoad
  <2>6. Quiet'
    BY <2>1, <2>2 DEF Rest, Quiet
  <2> QED
    BY <2>3, <2>4, <2>5, <2>6 DEF Rest
<1> QED
  BY <1>1, <1>2, <1>3, <1>4 DEF Serve

\* The registers keep what the killed application left in them; nothing of it is claimed
\* until they are written again.
LEMMA RestartRest ==
  ASSUME CmdTypeOK, Rest, RestartThread
  PROVE  Rest'
<1>1. pc' = "delay" /\ n' = 0 /\ ch' = 0 /\ changed' = {} /\ restarts' # 0
  BY DEF RestartThread, Restart, CmdTypeOK, TypeOK
<1>2. /\ \A c \in Channel : ~(c < 0)
      /\ \A t \in Tap : ~(t < 0)
      /\ 0 < Taps /\ 0 < Channels
  BY Bounds
<1>3. Position' /\ Settled' /\ Counting' /\ Chosen' /\ Quiet'
  BY <1>1, <1>2 DEF Position, Settled, Counting, Chosen, Quiet
<1>4. CountsBelongToTap'
  BY <1>1, <1>2 DEF CountsBelongToTap, Measured
<1> QED
  BY <1>3, <1>4 DEF Rest

----------------------------------------------------------------------------
(* The theorems.                                                           *)

LEMMA NextInv ==
  ASSUME Inv, [CmdNext]_allVars
  PROVE  Inv'
<1>1. CmdTypeOK /\ Position /\ Rest
  BY DEF Inv, Rest
<1>2. CmdTypeOK'
  BY <1>1, TypeStep
<1>3. Rest'
  <2>1. CASE Fpga
    BY <1>1, <2>1, ConvertRest, LoadDelayRest DEF Fpga
  <2>2. CASE Calibrate
    BY <1>1, <2>2, SetDelayRest, WriteCtrlRest, ReadCounterRest, SetBestRest, EndRest,
       WakeRest DEF Calibrate, Thread
  <2>3. ASSUME NEW c \in Client, Ask(c) PROVE Rest'
    BY <1>1, <2>3, RestUnchanged DEF Ask, restVars
  <2>4. CASE Serve
    BY <1>1, <2>4, ServeRest
  <2>5. CASE RestartThread
    BY <1>1, <2>5, RestartRest
  <2>6. CASE UNCHANGED allVars
    BY <1>1, <2>6, RestUnchanged DEF restVars
  <2> QED
    BY <2>1, <2>2, <2>3, <2>4, <2>5, <2>6 DEF CmdNext
<1> QED
  BY <1>2, <1>3 DEF Inv, Rest

\* The calibration and the server keep the types of what they hold, and the loops of
\* adc_init stay inside their arrays.
THEOREM CmdTypeCorrect == CmdSpec => []CmdTypeOK
<1>1. Inv => CmdTypeOK
  BY DEF Inv
<1> QED
  BY InitInv, NextInv, <1>1, PTL DEF CmdSpec

\* Every count that adc_init has read belongs to its own tap, for every number of
\* channels and taps, wherever an application that was killed left the registers.
THEOREM CountsAreOfTheirTap == CmdSpec => []CountsBelongToTap
<1>1. Inv => CountsBelongToTap
  BY DEF Inv
<1> QED
  BY InitInv, NextInv, <1>1, PTL DEF CmdSpec

\* A channel with a clean tap is served at a tap that is not bad, with its delay line
\* already there, until a client moves a delay line.
THEOREM ServesAtGoodTap == CmdSpec => []StaysAtGoodTap
<1>1. Inv => StaysAtGoodTap
  <2> SUFFICES ASSUME Chosen, "ADC_DELAY_IN" \notin changed, pc \in {"start", "serve"},
                      NEW c \in Channel
               PROVE  /\ delay[c] = load[c]
                      /\ (\E t \in Tap : link[c][t] = "clean") => link[c][delay[c]] # "bad"
    BY DEF Inv, StaysAtGoodTap, ServedAtGoodTap
  <2>1. delay[c] = load[c] /\ GoodLoad(c)
    BY DEF Chosen
  <2> QED
    BY <2>1 DEF GoodLoad
<1> QED
  BY InitInv, NextInv, <1>1, PTL DEF CmdSpec

\* Before the application is first killed, no test data is streamed that no client has
\* asked for.
THEOREM StreamsNoTestData == CmdSpec => []NoUnaskedTestData
<1>1. Inv => NoUnaskedTestData
  BY DEF Inv, Quiet, NoUnaskedTestData, NoTestDataStreamed
<1> QED
  BY InitInv, NextInv, <1>1, PTL DEF CmdSpec
=============================================================================
