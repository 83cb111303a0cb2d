----------------------------- MODULE LongestRun -----------------------------
(***************************************************************************)
(* What find_mid_of_longest_run of task_cmd.c is to compute: the middle of *)
(* the first of the longest runs of delay taps that saw no error.          *)
(***************************************************************************)
EXTENDS Integers

\* Taps a, a+1, ..., a+l-1 of the array of error counts saw no error.
IsRun(errors, a, l) == \A i \in a..(a + l - 1) : errors[i] = 0

\* The run of length l at a is the longest of the n taps, and the first of that length.
IsFirstLongest(errors, n, a, l) ==
    /\ l \in 1..n
    /\ a \in 0..(n - l)
    /\ IsRun(errors, a, l)
    /\ \A b \in 0..n : \A m \in 1..(n - b) :
          IsRun(errors, b, m) => m < l \/ (m = l /\ a <= b)

\* The tap to use: without a single good tap it is 0.
IsMiddle(errors, n, tap) ==
    \/ \E a \in 0..n : \E l \in 1..n :
          IsFirstLongest(errors, n, a, l) /\ tap = a + (l \div 2)
    \/ (\A i \in 0..(n - 1) : errors[i] # 0) /\ tap = 0
=============================================================================
