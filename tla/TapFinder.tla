----------------------------- MODULE TapFinder ------------------------------
(***************************************************************************)
(* find_mid_of_longest_run of task_cmd.c, one iteration of its loop a      *)
(* step. The error counts of a channel over its delay taps are an input.   *)
(***************************************************************************)
EXTENDS LongestRun

CONSTANTS
    N,          \* the number of delay taps: 512 in the code
    Count       \* the values an error counter can have

ASSUME NAssumption == N \in Nat \ {0}
ASSUME CountAssumption == Count \subseteq Nat

VARIABLES
    channel_errors,     \* the array of N error counts
    cur,                \* the tap looked at next
    run,                \* length of the run of good taps that ends before cur
    pos,                \* where that run began
    max_pos, max_run,   \* the best run that has ended
    result              \* what was returned; -1 before the return

vars == <<channel_errors, cur, run, pos, max_pos, max_run, result>>

TypeOK ==
    /\ channel_errors \in [0..(N - 1) -> Count]
    /\ cur \in 0..N
    /\ run \in 0..N /\ pos \in 0..N
    /\ max_run \in 0..N /\ max_pos \in 0..N
    /\ result \in (0..N) \cup {-1}

Init ==
    /\ channel_errors \in [0..(N - 1) -> Count]
    /\ cur = 0
    /\ run = 0 /\ pos = 0
    /\ max_pos = 0 /\ max_run = 0
    /\ result = -1

GoodTap ==
    /\ cur < N
    /\ channel_errors[cur] = 0
    /\ pos' = IF run = 0 THEN cur ELSE pos
    /\ run' = run + 1
    /\ cur' = cur + 1
    /\ UNCHANGED <<channel_errors, max_pos, max_run, result>>

\* The later of two equal runs wins.
MutantKeepBest ==
    IF max_run <= run
    THEN max_pos' = pos /\ max_run' = run
    ELSE UNCHANGED <<max_pos, max_run>>

\* The run that ends here replaces the best one if it is longer.
KeepBest ==
    IF max_run < run
    THEN max_pos' = pos /\ max_run' = run
    ELSE UNCHANGED <<max_pos, max_run>>

\* The length of the run is not reset.
MutantBadTap ==
    /\ cur < N
    /\ channel_errors[cur] # 0
    /\ KeepBest
    /\ cur' = cur + 1
    /\ UNCHANGED <<channel_errors, run, pos, result>>

BadTap ==
    /\ cur < N
    /\ channel_errors[cur] # 0
    /\ KeepBest
    /\ run' = 0
    /\ cur' = cur + 1
    /\ UNCHANGED <<channel_errors, pos, result>>

\* The last run may not have ended before the array did.
Return ==
    /\ cur = N
    /\ result = -1
    /\ KeepBest
    /\ result' = max_pos' + (max_run' \div 2)
    /\ UNCHANGED <<channel_errors, cur, run, pos>>

Next == GoodTap \/ BadTap \/ Return

Spec == Init /\ [][Next]_vars

----------------------------------------------------------------------------
\* The value returned is the middle of the first longest run of good taps.
ReturnsMiddle == result # -1 => IsMiddle(channel_errors, N, result)

\* If any tap saw no error, the tap that is returned saw none, and neither did the
\* taps beside it as far as the run is wide: it is not at an edge unless it must be.
ReturnsGoodTap ==
    result # -1 /\ (\E i \in 0..(N - 1) : channel_errors[i] = 0) =>
        /\ result \in 0..(N - 1)
        /\ channel_errors[result] = 0
        /\ max_run > 2 => /\ channel_errors[result - 1] = 0
                          /\ channel_errors[result + 1] = 0
=============================================================================
