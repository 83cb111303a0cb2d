-------------------------- MODULE TapFinder_proofs --------------------------
(***************************************************************************)
(* The loop of find_mid_of_longest_run returns the middle of the first     *)
(* longest run of good taps, for every number of taps and every array of   *)
(* error counts.                                                           *)
(*                                                                         *)
(* The loop invariant says what run and max_run know after the taps below  *)
(* cur: run is the whole run that ends there (it cannot be extended to the *)
(* left), and every run below cur lies inside it or is not longer than the *)
(* best one, and not as long unless it begins after it.                    *)
(***************************************************************************)
EXTENDS TapFinder, TLAPS

USE NAssumption, CountAssumption

\* run is the whole run that ends before cur.
Current ==
    /\ run <= cur
    /\ run > 0 => pos = cur - run
    /\ IsRun(channel_errors, cur - run, run)
    /\ cur - run > 0 => channel_errors[cur - run - 1] # 0

\* max_run is a run of good taps that ended before run began.
Best ==
    /\ max_pos + max_run <= cur - run
    /\ max_run = 0 => max_pos = 0
    /\ IsRun(channel_errors, max_pos, max_run)

\* Nothing that ended before run began is longer, or as long and earlier.
Longest ==
    \A b \in 0..N : \A m \in 1..N :
        b + m <= cur - run /\ IsRun(channel_errors, b, m)
            => m < max_run \/ (m = max_run /\ max_pos <= b)

LoopInv == Current /\ Best /\ Longest

\* What the function knows after its last comparison.
Answered ==
    result # -1 =>
        /\ cur = N
        /\ result = max_pos + (max_run \div 2)
        /\ max_pos + max_run <= N
        /\ max_run = 0 => max_pos = 0
        /\ IsRun(channel_errors, max_pos, max_run)
        /\ \A b \in 0..N : \A m \in 1..N :
              b + m <= N /\ IsRun(channel_errors, b, m)
                  => m < max_run \/ (m = max_run /\ max_pos <= b)

Inv == TypeOK /\ (result = -1 => LoopInv) /\ Answered

LEMMA InitInv == Init => Inv
  BY DEF Init, Inv, TypeOK, LoopInv, Current, Best, Longest, Answered, IsRun

LEMMA Half == \A k \in Nat : (k \div 2) \in 0..k /\ (k > 0 => (k \div 2) < k)
  OBVIOUS

\* A run below cur that does not end before run began lies inside run.
LEMMA InsideRun ==
  ASSUME TypeOK, Current, NEW b \in 0..N, NEW m \in 1..N,
         b + m <= cur, b + m > cur - run, IsRun(channel_errors, b, m)
  PROVE  b >= cur - run
<1> SUFFICES ASSUME b < cur - run PROVE FALSE
  BY DEF TypeOK
<1>1. cur - run - 1 \in b..(b + m - 1)
  BY DEF TypeOK
<1>2. channel_errors[cur - run - 1] = 0
  BY <1>1 DEF IsRun
<1> QED
  BY <1>2 DEF Current, TypeOK

LEMMA GoodTapKeeps == ASSUME Inv, GoodTap PROVE Inv'
<1>0. /\ cur \in 0..(N - 1) /\ run \in 0..N /\ result = -1 /\ LoopInv
      /\ channel_errors[cur] = 0 /\ UNCHANGED <<channel_errors, max_pos, max_run, result>>
      /\ cur' = cur + 1 /\ run' = run + 1 /\ run <= cur
  BY DEF Inv, GoodTap, TypeOK, Answered, LoopInv, Current
<1>1. TypeOK'
  BY <1>0 DEF Inv, GoodTap, TypeOK
<1>2. cur' - run' = cur - run
  BY <1>0
<1>3. Current'
  <2>1. pos' = cur' - run'
    <3>1. CASE run = 0
      BY <1>0, <1>2, <3>1 DEF GoodTap
    <3>2. CASE run > 0
      <4>1. pos = cur - run
        BY <3>2, <1>0 DEF LoopInv, Current
      <4>2. pos' = pos
        BY <1>0, <3>2 DEF GoodTap
      <4> QED
        BY <1>2, <4>1, <4>2
    <3> QED
      BY <1>0, <3>1, <3>2
  <2>2. IsRun(channel_errors, cur - run, run + 1)
    <3> SUFFICES ASSUME NEW i \in (cur - run)..(cur - run + (run + 1) - 1)
                 PROVE  channel_errors[i] = 0
      BY DEF IsRun
    <3>1. i \in (cur - run)..(cur - run + run - 1) \/ i = cur
      BY <1>0
    <3> QED
      BY <1>0, <3>1 DEF LoopInv, Current, IsRun
  <2> QED
    BY <1>0, <1>2, <2>1, <2>2 DEF LoopInv, Current
<1>4. Best' /\ Longest'
  BY <1>0, <1>2 DEF LoopInv, Best, Longest
<1> QED
  BY <1>0, <1>1, <1>3, <1>4 DEF Inv, LoopInv, Answered

\* KeepBest: the better of the best run and the one that ends before cur, over
\* every run below cur.
LEMMA KeepBestIsBest ==
  ASSUME TypeOK, LoopInv, KeepBest
  PROVE  /\ max_pos' \in 0..N /\ max_run' \in 0..N
         /\ max_pos' + max_run' <= cur
         /\ max_run' = 0 => max_pos' = 0
         /\ IsRun(channel_errors, max_pos', max_run')
         /\ \A b \in 0..N : \A m \in 1..N :
               b + m <= cur /\ IsRun(channel_errors, b, m)
                   => m < max_run' \/ (m = max_run' /\ max_pos' <= b)
<1>0. /\ cur \in 0..N /\ run \in 0..N /\ pos \in 0..N /\ run <= cur
      /\ max_pos \in 0..N /\ max_run \in 0..N
      /\ run > 0 => pos = cur - run
  BY DEF TypeOK, LoopInv, Current
<1>1. ASSUME NEW b \in 0..N, NEW m \in 1..N, b + m <= cur, IsRun(channel_errors, b, m)
      PROVE  \/ m < max_run \/ (m = max_run /\ max_pos <= b)
             \/ m <= run /\ b >= cur - run /\ b + m > cur - run
  <2>1. CASE b + m <= cur - run
    BY <1>1, <2>1 DEF LoopInv, Longest
  <2>2. CASE b + m > cur - run
    <3>1. b >= cur - run
      BY <1>1, <2>2, InsideRun DEF LoopInv
    <3> QED
      BY <1>0, <1>1, <2>2, <3>1
  <2> QED
    BY <1>0, <2>1, <2>2
<1>2. CASE max_run < run
  <2>1. max_pos' = cur - run /\ max_run' = run
    BY <1>0, <1>2 DEF KeepBest
  <2>2. IsRun(channel_errors, max_pos', max_run')
    BY <2>1 DEF LoopInv, Current
  <2> QED
    BY <1>0, <1>1, <1>2, <2>1, <2>2
<1>3. CASE ~(max_run < run)
  <2>1. max_pos' = max_pos /\ max_run' = max_run
    BY <1>3 DEF KeepBest
  <2>2. /\ IsRun(channel_errors, max_pos, max_run) /\ max_pos + max_run <= cur - run
        /\ max_run = 0 => max_pos = 0
    BY DEF LoopInv, Best
  <2> QED
    BY <1>0, <1>1, <1>3, <2>1, <2>2
<1> QED
  BY <1>2, <1>3

LEMMA BadTapKeeps == ASSUME Inv, BadTap PROVE Inv'
<1>0. /\ cur \in 0..(N - 1) /\ result = -1 /\ LoopInv /\ TypeOK /\ KeepBest
      /\ channel_errors[cur] # 0 /\ UNCHANGED <<channel_errors, pos, result>>
      /\ cur' = cur + 1 /\ run' = 0
  BY DEF Inv, BadTap, TypeOK, Answered
<1>1. TypeOK'
  BY <1>0, KeepBestIsBest DEF TypeOK
<1>2. Current'
  BY <1>0 DEF Current, IsRun
<1>3. Best'
  BY <1>0, KeepBestIsBest DEF Best, TypeOK
<1>4. Longest'
  <2> SUFFICES ASSUME NEW b \in 0..N, NEW m \in 1..N,
                      b + m <= cur + 1, IsRun(channel_errors, b, m)
               PROVE  m < max_run' \/ (m = max_run' /\ max_pos' <= b)
    BY <1>0 DEF Longest
  <2>1. b + m <= cur
    <3> SUFFICES ASSUME b + m = cur + 1 PROVE FALSE
      BY <1>0
    <3>1. cur \in b..(b + m - 1)
      BY <1>0
    <3> QED
      BY <1>0, <3>1 DEF IsRun
  <2> QED
    BY <1>0, <2>1, KeepBestIsBest
<1> QED
  BY <1>0, <1>1, <1>2, <1>3, <1>4 DEF Inv, LoopInv, Answered

LEMMA ReturnKeeps == ASSUME Inv, Return PROVE Inv'
<1>0. /\ cur = N /\ result = -1 /\ LoopInv /\ TypeOK /\ KeepBest
      /\ UNCHANGED <<channel_errors, cur, run, pos>>
      /\ result' = max_pos' + (max_run' \div 2)
  BY DEF Inv, Return
<1>1. /\ max_pos' \in 0..N /\ max_run' \in 0..N
      /\ max_pos' + max_run' <= N
      /\ max_run' = 0 => max_pos' = 0
      /\ IsRun(channel_errors, max_pos', max_run')
      /\ \A b \in 0..N : \A m \in 1..N :
            b + m <= N /\ IsRun(channel_errors, b, m)
                => m < max_run' \/ (m = max_run' /\ max_pos' <= b)
  BY <1>0, KeepBestIsBest
<1>2. result' \in 0..N
  <2>1. ASSUME NEW p \in 0..N, NEW r \in 0..N, p + r <= N
        PROVE  p + (r \div 2) \in 0..N
    <3>1. (r \div 2) \in 0..r
      BY Half
    <3> QED
      BY <2>1, <3>1
  <2>2. max_pos' + max_run' <= N /\ max_pos' \in 0..N /\ max_run' \in 0..N
    BY <1>1, Zenon
  <2> QED
    BY <1>0, <2>1, <2>2, Zenon
<1>3. TypeOK'
  BY <1>0, <1>1, <1>2 DEF TypeOK
<1>4. result' # -1
  BY <1>2
<1>5. Answered'
  BY <1>0, <1>1, Zenon DEF Answered
<1> QED
  BY <1>3, <1>4, <1>5 DEF Inv

THEOREM InvHolds == Spec => []Inv
<1>1. Inv /\ [Next]_vars => Inv'
  <2> SUFFICES ASSUME Inv, [Next]_vars PROVE Inv'
    OBVIOUS
  <2>1. CASE UNCHANGED vars
    BY <2>1 DEF vars, Inv, TypeOK, LoopInv, Current, Best, Longest, Answered
  <2> QED
    BY <2>1, GoodTapKeeps, BadTapKeeps, ReturnKeeps DEF Next
<1> QED
  BY <1>1, InitInv, PTL DEF Spec

\* For 512 taps or any other number, the tap returned is the middle of the first
\* longest run of taps without an error, and 0 when there is none.
THEOREM MiddleReturned == Spec => []ReturnsMiddle
<1>1. Inv => ReturnsMiddle
  <2> SUFFICES ASSUME Inv, result # -1 PROVE IsMiddle(channel_errors, N, result)
    BY DEF ReturnsMiddle
  <2>0. /\ max_pos \in 0..N /\ max_run \in 0..N /\ max_pos + max_run <= N
        /\ max_run = 0 => max_pos = 0
        /\ result = max_pos + (max_run \div 2)
        /\ IsRun(channel_errors, max_pos, max_run)
        /\ \A b \in 0..N : \A m \in 1..N :
              b + m <= N /\ IsRun(channel_errors, b, m)
                  => m < max_run \/ (m = max_run /\ max_pos <= b)
    BY DEF Inv, TypeOK, Answered
  <2>1. CASE max_run > 0
    <3>1. IsFirstLongest(channel_errors, N, max_pos, max_run)
      BY <2>0, <2>1 DEF IsFirstLongest
    <3> QED
      BY <2>0, <2>1, <3>1 DEF IsMiddle
  <2>2. CASE max_run = 0
    <3>1. ASSUME NEW i \in 0..(N - 1), channel_errors[i] = 0 PROVE FALSE
      <4>1. IsRun(channel_errors, i, 1)
        BY <3>1 DEF IsRun
      <4>2. 1 < max_run \/ 1 = max_run
        BY <2>0, <4>1
      <4> QED
        BY <2>2, <4>2
    <3> QED
      BY <2>0, <2>2, <3>1 DEF IsMiddle
  <2> QED
    BY <2>0, <2>1, <2>2
<1> QED
  BY <1>1, InvHolds, PTL

\* If any tap saw no error the tap returned saw none, and it is inside its run
\* whenever the run is longer than two taps.
THEOREM GoodTapReturned == Spec => []ReturnsGoodTap
<1>1. Inv => ReturnsGoodTap
  <2> SUFFICES ASSUME Inv, result # -1,
                      NEW g \in 0..(N - 1), channel_errors[g] = 0
               PROVE  /\ result \in 0..(N - 1)
                      /\ channel_errors[result] = 0
                      /\ max_run > 2 => /\ channel_errors[result - 1] = 0
                                        /\ channel_errors[result + 1] = 0
    BY DEF ReturnsGoodTap
  <2>0. /\ max_pos \in 0..N /\ max_run \in 0..N /\ max_pos + max_run <= N
        /\ result = max_pos + (max_run \div 2)
        /\ IsRun(channel_errors, max_pos, max_run)
    BY DEF Inv, TypeOK, Answered
  <2>1. max_run > 0
    <3>1. IsRun(channel_errors, g, 1)
      BY DEF IsRun
    <3>2. g \in 0..N /\ 1 \in 1..N /\ g + 1 <= N
      OBVIOUS
    <3>3. 1 < max_run \/ 1 = max_run
      BY <3>1, <3>2 DEF Inv, Answered
    <3> QED
      BY <2>0, <3>3
  <2>2. /\ result \in max_pos..(max_pos + max_run - 1)
        /\ max_run > 2 => /\ result - 1 \in max_pos..(max_pos + max_run - 1)
                          /\ result + 1 \in max_pos..(max_pos + max_run - 1)
    <3>1. ASSUME NEW r \in Nat, r > 2 PROVE r \div 2 >= 1 /\ (r \div 2) + 1 < r
      BY <3>1
    <3>2. (max_run \div 2) \in 0..max_run /\ (max_run \div 2) < max_run
      BY <2>0, <2>1, Half
    <3> QED
      BY <2>0, <2>1, <3>1, <3>2
  <2>3. \A i \in max_pos..(max_pos + max_run - 1) : channel_errors[i] = 0
    BY <2>0 DEF IsRun
  <2> QED
    BY <2>0, <2>2, <2>3
<1> QED
  BY <1>1, InvHolds, PTL

\* The variables of the function keep their types: no index leaves the array.
THEOREM TypeCorrect == Spec => []TypeOK
<1>1. Inv => TypeOK
  BY DEF Inv
<1> QED
  BY <1>1, InvHolds, PTL
=============================================================================
