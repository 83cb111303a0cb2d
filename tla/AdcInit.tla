------------------------------ MODULE AdcInit -------------------------------
(***************************************************************************)
(* The start of cmd_thread (task_cmd.c): adc_init sweeps the input delay   *)
(* of every ADC channel with the test pattern on, reads how often each tap *)
(* failed, sets each channel to the middle of its longest good run and     *)
(* leaves test mode; data_init then starts the stream.                     *)
(*                                                                         *)
(* The other actor is the FPGA: it loads a new delay some time after its   *)
(* register was written (delay_reset_seq.sv) and counts bad conversions    *)
(* (subsystem_adc.sv) all the while. The registers of the FPGA survive a   *)
(* restart of the application. Module CmdThread composes these actions     *)
(* with the clients and the serving loop into one specification.           *)
(***************************************************************************)
EXTENDS LongestRun, FiniteSetsExt

CONSTANTS
    Channels,       \* number of ADC channels: 16 in the code
    Taps,           \* number of delay taps: 512 in the code
    Saturation,     \* where an error counter stops: 65535 in the code
    MaxRestarts     \* bound: times the application is killed and restarted

ASSUME AdcAssumption ==
    /\ Channels \in Nat \ {0} /\ Taps \in Nat \ {0}
    /\ Saturation \in Nat \ {0} /\ MaxRestarts \in Nat

Channel == 0..(Channels - 1)
Tap == 0..(Taps - 1)

(* A tap of a link samples the pattern correctly always, never, or just    *)
(* sometimes.                                                              *)
Quality == {"clean", "marginal", "bad"}

VARIABLES
    link,           \* quality of each tap of each channel's link
    load,           \* the ADC_DELAY_IN registers
    delay,          \* the tap each channel's delay line is at
    testpat,        \* ADC_CTRL: TestPat
    clear,          \* ADC_CTRL: ClrCnt
    count,          \* the error counters, ADC_TEST_DATA
    converted,      \* a conversion has been counted since the thread went to sleep
    stream,         \* STREAM_CTRL: Ena
    pc,             \* where cmd_thread is
    n,              \* the tap of the sweep
    ch,             \* the channel of the inner loop
    error_counters, \* what adc_init has read, by channel and tap
    restarts        \* restarts so far

fpgaVars == <<link, delay, count, converted>>
vars == <<link, load, delay, testpat, clear, count, converted, stream, pc, n, ch,
          error_counters, restarts>>

\* The steps of the thread, and those that end in usleep(1000).
Steps == {"delay", "reset", "run", "read", "best", "leave", "count", "start", "serve"}
Sleeps == {"sleep reset", "sleep run", "sleep read", "sleep leave", "sleep count"}

TypeOK ==
    /\ link \in [Channel -> [Tap -> Quality]]
    /\ load \in [Channel -> Tap] /\ delay \in [Channel -> Tap]
    /\ testpat \in BOOLEAN /\ clear \in BOOLEAN
    /\ converted \in BOOLEAN /\ stream \in BOOLEAN
    /\ count \in [Channel -> 0..Saturation]
    /\ pc \in Steps \cup Sleeps
    /\ n \in 0..Taps /\ ch \in 0..Channels
    /\ error_counters \in [Channel -> [Tap -> 0..Saturation]]
    /\ restarts \in 0..MaxRestarts

Init ==
    /\ link \in [Channel -> [Tap -> Quality]]
    /\ load = [c \in Channel |-> 0] /\ delay = load
    /\ testpat = FALSE /\ clear = FALSE /\ stream = FALSE
    /\ count = [c \in Channel |-> 0]
    /\ converted = FALSE
    /\ pc = "delay" /\ n = 0 /\ ch = 0
    /\ error_counters = [c \in Channel |-> [t \in Tap |-> 0]]
    /\ restarts = 0

----------------------------------------------------------------------------
(* The FPGA.                                                               *)

\* delay_reset_seq leaves ST_IDLE for a new load value and comes back 42 clocks later.
LoadDelay(c) ==
    /\ delay[c] # load[c]
    /\ delay' = [delay EXCEPT ![c] = load[c]]
    /\ UNCHANGED <<link, load, testpat, clear, count, converted, stream, pc, n, ch,
                   error_counters, restarts>>

\* Outside test mode the pattern is not compared, but a lost DCO still counts.
ErrorsOf(c) ==
    CASE link[c][delay[c]] = "clean" -> {0}
      [] link[c][delay[c]] = "bad" /\ testpat -> {1}
      [] OTHER -> {0, 1}

\* The counters do not stop at their limit.
MutantConvert ==
    /\ \E e \in [Channel -> {0, 1}] :
         /\ \A c \in Channel : e[c] \in ErrorsOf(c)
         /\ count' = [c \in Channel |-> IF clear THEN 0 ELSE count[c] + e[c]]
    /\ converted' = TRUE
    /\ UNCHANGED <<link, load, delay, testpat, clear, stream, pc, n, ch,
                   error_counters, restarts>>

\* A conversion is checked on all channels; ClrCnt holds the counters at zero.
Convert ==
    /\ \E e \in [Channel -> {0, 1}] :
         /\ \A c \in Channel : e[c] \in ErrorsOf(c)
         /\ count' = [c \in Channel |->
                        IF clear THEN 0 ELSE Min({count[c] + e[c], Saturation})]
    /\ converted' = TRUE
    /\ UNCHANGED <<link, load, delay, testpat, clear, stream, pc, n, ch,
                   error_counters, restarts>>

----------------------------------------------------------------------------
(* adc_init.                                                               *)

\* The inner loops run over the channels and then go on at `next`.
LoopChannels(next) ==
    IF ch + 1 < Channels THEN ch' = ch + 1 /\ UNCHANGED pc
                         ELSE ch' = 0 /\ pc' = next

\* A millisecond: the delay lines have settled and many conversions were counted.
Sleep(here, next) ==
    /\ pc = here
    /\ converted
    /\ delay = load
    /\ pc' = next
    /\ UNCHANGED <<fpgaVars, load, testpat, clear, stream, n, ch, error_counters, restarts>>

\* A write to ADC_CTRL that ends in a sleep.
WriteCtrl(here, pattern, clearing, next) ==
    /\ pc = here
    /\ testpat' = pattern
    /\ clear' = clearing
    /\ converted' = FALSE
    /\ pc' = next
    /\ UNCHANGED <<link, load, delay, count, stream, n, ch, error_counters, restarts>>

SetDelay ==
    /\ pc = "delay"
    /\ load' = [load EXCEPT ![ch] = n]
    /\ LoopChannels("sleep reset")
    /\ converted' = FALSE
    /\ UNCHANGED <<link, delay, count, testpat, clear, stream, n, error_counters, restarts>>

\* The counters are left running from the tap before.
MutantResetCounters == WriteCtrl("reset", TRUE, FALSE, "sleep run")

ResetCounters == WriteCtrl("reset", TRUE, TRUE, "sleep run")
RunCounters == WriteCtrl("run", TRUE, FALSE, "sleep read")

\* The loop counter wraps before it reaches the number of taps.
MutantReadCounter ==
    /\ pc = "read"
    /\ error_counters' = [error_counters EXCEPT ![ch][n] = count[ch]]
    /\ IF ch + 1 < Channels
       THEN ch' = ch + 1 /\ UNCHANGED <<pc, n>>
       ELSE ch' = 0 /\ n' = (n + 1) % Taps /\ pc' = "delay"
    /\ UNCHANGED <<fpgaVars, load, testpat, clear, stream, restarts>>

\* The counters of all channels, one register after the other.
ReadCounter ==
    /\ pc = "read"
    /\ error_counters' = [error_counters EXCEPT ![ch][n] = count[ch]]
    /\ IF ch + 1 < Channels
       THEN ch' = ch + 1 /\ UNCHANGED <<pc, n>>
       ELSE ch' = 0 /\ n' = n + 1 /\ pc' = IF n + 1 < Taps THEN "delay" ELSE "best"
    /\ UNCHANGED <<fpgaVars, load, testpat, clear, stream, restarts>>

\* Half the number of good taps, wherever they are.
MutantMiddleTap(errors) == Cardinality({t \in Tap : errors[t] = 0}) \div 2

\* find_mid_of_longest_run, whose loop is module TapFinder.
MiddleTap(errors) == CHOOSE t \in Tap : IsMiddle(errors, Taps, t)

SetBest ==
    /\ pc = "best"
    /\ load' = [load EXCEPT ![ch] = MiddleTap(error_counters[ch])]
    /\ LoopChannels("sleep leave")
    /\ converted' = FALSE
    /\ UNCHANGED <<link, delay, count, testpat, clear, stream, n, error_counters, restarts>>

LeaveTest == WriteCtrl("leave", FALSE, TRUE, "sleep count")

\* The last write leaves TestPat set.
MutantRelease ==
    /\ pc = "count"
    /\ testpat' = TRUE
    /\ clear' = FALSE
    /\ pc' = "start"
    /\ UNCHANGED <<fpgaVars, load, stream, n, ch, error_counters, restarts>>

\* adc_init ends without a sleep after its last write.
Release ==
    /\ pc = "count"
    /\ testpat' = FALSE
    /\ clear' = FALSE
    /\ pc' = "start"
    /\ UNCHANGED <<fpgaVars, load, stream, n, ch, error_counters, restarts>>

\* data_init; commands are served from here on.
StartStream ==
    /\ pc = "start"
    /\ stream' = TRUE
    /\ pc' = "serve"
    /\ UNCHANGED <<fpgaVars, load, testpat, clear, n, ch, error_counters, restarts>>

Wake ==
    \/ Sleep("sleep reset", "reset")
    \/ Sleep("sleep run", "run")
    \/ Sleep("sleep read", "read")
    \/ Sleep("sleep leave", "leave")
    \/ Sleep("sleep count", "count")

\* error_counters is on the stack of adc_init: what it holds is overwritten.
Restart ==
    /\ restarts < MaxRestarts
    /\ restarts' = restarts + 1
    /\ pc' = "delay" /\ n' = 0 /\ ch' = 0
    /\ error_counters' = [c \in Channel |-> [t \in Tap |-> 0]]
    /\ UNCHANGED <<fpgaVars, load, testpat, clear, stream>>

Thread ==
    \/ SetDelay \/ ResetCounters \/ RunCounters \/ ReadCounter
    \/ SetBest \/ LeaveTest \/ Release \/ StartStream \/ Wake

----------------------------------------------------------------------------
\* The taps whose counters have been read in this sweep.
Measured(c) == {t \in Tap : t < n \/ (t = n /\ pc = "read" /\ c < ch)}

\* A count that was read belongs to its own tap: a tap that never fails shows no
\* error and a tap that always fails shows some, although the counters run on
\* through every change of delay.
CountsBelongToTap ==
    \A c \in Channel : \A t \in Measured(c) :
        /\ link[c][t] = "clean" => error_counters[c][t] = 0
        /\ link[c][t] = "bad" => error_counters[c][t] > 0

\* A channel with a clean tap is served at a tap that is not bad, and the delay
\* line is already there when the stream starts.
ServedAtGoodTap ==
    pc \in {"start", "serve"} =>
        \A c \in Channel :
            /\ delay[c] = load[c]
            /\ (\E t \in Tap : link[c][t] = "clean") => link[c][delay[c]] # "bad"

\* The first start never streams the test pattern as data.
NoTestDataStreamed == stream /\ restarts = 0 => ~testpat
=============================================================================
