----------------------- MODULE StreamPacketizer_proofs -----------------------
(***************************************************************************)
(* Theorems about StreamPacketizer, for every size of the buffer and of a  *)
(* frame, and whatever the reader and the switch do: no register leaves    *)
(* its range, nothing that is still to be read is overwritten, the circuit *)
(* implements the queue of frames of FrameFifo, and the length in a header *)
(* is right unless the stream is switched off between two words.           *)
(***************************************************************************)
EXTENDS StreamPacketizer, SequenceTheorems, TLAPS

Position == 0..(2 * Depth - 1)

LEMMA Sizes == Depth \in Nat /\ Depth > 3 /\ MaxPktLen \in Nat /\ MaxPktLen > 2 /\ Depth > MaxPktLen
<1>1. MaxPktLen \in Nat /\ MaxPktLen > 2 /\ Depth \in Nat /\ Depth > MaxPktLen
  BY SizeAssumption DEF SizeAssumption
<1> QED
  BY <1>1

(***************************************************************************)
(* Positions without the operator %: the provers do linear arithmetic.     *)
(***************************************************************************)

LEMMA SmallMod ==
  ASSUME NEW M \in Nat, M > 0, NEW x \in Int
  PROVE  /\ 0 <= x /\ x < M => x % M = x
         /\ M <= x /\ x < 2 * M => x % M = x - M
         /\ 2 * M <= x /\ x < 3 * M => x % M = x - 2 * M
         /\ -M <= x /\ x < 0 => x % M = x + M
  BY SMT

LEMMA PosIs ==
  ASSUME NEW x \in Int
  PROVE  /\ 0 <= x /\ x < 2 * Depth => Pos(x) = x
         /\ 2 * Depth <= x /\ x < 4 * Depth => Pos(x) = x - 2 * Depth
         /\ -(2 * Depth) <= x /\ x < 0 => Pos(x) = x + 2 * Depth
<1>1. 2 * Depth \in Nat /\ 2 * Depth > 0
  BY Sizes
<1>2. PICK M \in Nat : M = 2 * Depth
  BY <1>1
<1>3. M > 0
  BY <1>1, <1>2
<1>4. /\ 0 <= x /\ x < M => x % M = x
      /\ M <= x /\ x < 2 * M => x % M = x - M
      /\ -M <= x /\ x < 0 => x % M = x + M
  BY <1>3, SmallMod
<1>5. Pos(x) = x % M
  BY <1>2 DEF Pos
<1>6. 4 * Depth = 2 * M
  BY <1>2, Sizes
<1> QED
  BY <1>2, <1>4, <1>5, <1>6

LEMMA CellIs ==
  ASSUME NEW x \in Int
  PROVE  /\ 0 <= x /\ x < Depth => Cell(x) = x
         /\ Depth <= x /\ x < 2 * Depth => Cell(x) = x - Depth
         /\ 2 * Depth <= x /\ x < 3 * Depth => Cell(x) = x - 2 * Depth
  BY Sizes, SmallMod DEF Cell

\* How far it is from one position to another.
Gap(from, to) == IF to >= from THEN to - from ELSE to - from + 2 * Depth

LEMMA GapIs ==
  ASSUME NEW p \in Position, NEW q \in Position
  PROVE  /\ Pos(q - p) = Gap(p, q) /\ Gap(p, q) \in Position
         /\ Pos(p + Gap(p, q)) = q
  BY Sizes, PosIs DEF Gap, Position

LEMMA GapIsNat ==
  ASSUME NEW p \in Position, NEW q \in Position
  PROVE  Gap(p, q) \in Nat /\ (Gap(p, q) = 0 <=> p = q)
  BY Sizes DEF Gap, Position

LEMMA StepOn ==
  ASSUME NEW p \in Position, NEW k \in 0..Depth
  PROVE  /\ Pos(p + k) \in Position
         /\ Gap(p, Pos(p + k)) = k
         /\ \A i \in 0..Depth : k + i <= 2 * Depth - 1 => Pos(Pos(p + k) + i) = Pos(p + k + i)
         /\ \A i \in 0..Depth : k + i <= Depth => Cell(Pos(p + k) + i) = Cell(p + k + i)
  BY Sizes, PosIs, CellIs DEF Gap, Position

\* The cells of less than Depth words on end are different.
LEMMA CellsDiffer ==
  ASSUME NEW p \in Position, NEW i \in 0..(Depth - 1), NEW j \in 0..(Depth - 1), i # j
  PROVE  Cell(p + i) # Cell(p + j)
  BY Sizes, CellIs DEF Position

LEMMA CellInBuffer ==
  ASSUME NEW p \in Position, NEW i \in 0..Depth
  PROVE  Cell(p + i) \in 0..(Depth - 1)
  BY Sizes, CellIs DEF Position

(***************************************************************************)
(* Frames in a stretch of the buffer. mem has n of them from position rd   *)
(* up to c if there are n words marked as last, no two of them next to     *)
(* each other, and the stretch ends with one. The count of frames is       *)
(* compared modulo Depth, so it matters that n is smaller.                 *)
(***************************************************************************)

Ends(e, n, rd, c, mem) ==
    /\ e \in [1..n -> Nat]
    /\ \A i \in 1..n : e[i] < Gap(rd, c)
    /\ \A i, j \in 1..n : i < j => e[j] - e[i] >= 2 * (j - i)
    /\ n = 0 => rd = c
    /\ n > 0 => e[n] = Gap(rd, c) - 1
    /\ \A k \in 0..(Gap(rd, c) - 1) : mem[Cell(rd + k)].last <=> \E i \in 1..n : e[i] = k

Frames(n, rd, c, mem) == \E e \in [1..n -> Nat] : Ends(e, n, rd, c, mem)

\* There are fewer frames than words, with room for the one being read.
LEMMA FewFrames ==
  ASSUME NEW n \in Nat, NEW rd \in Position, NEW c \in Position, NEW mem,
         Gap(rd, c) <= Depth, Frames(n, rd, c, mem)
  PROVE  n + 1 < Depth /\ (n = 0 <=> rd = c)
<1>1. PICK e \in [1..n -> Nat] : Ends(e, n, rd, c, mem)
  BY DEF Frames
<1>2. CASE n > 1
  <2>1. e[n] - e[1] >= 2 * (n - 1) /\ e[n] = Gap(rd, c) - 1 /\ e[1] \in Nat /\ e[n] \in Nat
    BY <1>1, <1>2 DEF Ends
  <2>2. Gap(rd, c) \in Nat /\ Gap(rd, c) # 0 /\ (rd = c => Gap(rd, c) = 0)
    BY <1>2, <2>1, Sizes DEF Gap, Position
  <2> QED
    BY <1>2, <2>1, <2>2, Sizes
<1>3. CASE n = 1
  <2>1. e[1] = Gap(rd, c) - 1 /\ e[1] \in Nat
    BY <1>1, <1>3 DEF Ends
  <2>2. rd = c => Gap(rd, c) = 0
    BY Sizes DEF Gap, Position
  <2> QED
    BY <1>3, <2>1, <2>2, Sizes
<1>4. CASE n = 0
  BY <1>1, <1>4, Sizes DEF Ends
<1> QED
  BY <1>2, <1>3, <1>4

\* What is written elsewhere does not matter.
LEMMA FramesKept ==
  ASSUME NEW n \in Nat, NEW rd \in Position, NEW c \in Position, NEW mem, NEW mem2,
         Frames(n, rd, c, mem),
         \A k \in 0..(Gap(rd, c) - 1) : mem2[Cell(rd + k)] = mem[Cell(rd + k)]
  PROVE  Frames(n, rd, c, mem2)
<1>1. PICK e \in [1..n -> Nat] : Ends(e, n, rd, c, mem)
  BY DEF Frames
<1>2. Ends(e, n, rd, c, mem2)
  BY <1>1 DEF Ends
<1> QED
  BY <1>2 DEF Frames

\* A frame of len words is added at the end.
LEMMA FrameAdded ==
  ASSUME NEW n \in Nat, NEW rd \in Position, NEW c \in Position, NEW mem,
         NEW len \in 2..Depth, Gap(rd, c) + len <= Depth,
         Frames(n, rd, c, mem),
         \A k \in 0..(len - 1) : mem[Cell(c + k)].last <=> k = len - 1
  PROVE  Frames(n + 1, rd, Pos(c + len), mem)
<1>1. PICK e \in [1..n -> Nat] : Ends(e, n, rd, c, mem)
  BY DEF Frames
<1>2. PICK g \in Nat : g = Gap(rd, c)
  BY GapIsNat
<1>3. Gap(rd, Pos(c + len)) = g + len /\ c = Pos(rd + g) /\ g \in 0..Depth
  <2>1. c = Pos(rd + g) /\ g \in 0..Depth
    BY <1>2, GapIs, Sizes
  <2>2. g + len \in 0..Depth /\ g + len <= 2 * Depth - 1 /\ len \in 0..Depth
    BY <1>2, Sizes
  <2>3. Pos(c + len) = Pos(rd + g + len)
    BY <2>1, <2>2, StepOn
  <2>4. rd + g + len = rd + (g + len)
    BY <1>2, Sizes DEF Position
  <2>5. Gap(rd, Pos(rd + (g + len))) = g + len
    BY <2>2, StepOn
  <2> QED
    BY <2>1, <2>3, <2>4, <2>5
<1>4. \A k \in 0..(len - 1) : Cell(c + k) = Cell(rd + (g + k))
  <2>1. \A k \in 0..(len - 1) : Cell(Pos(rd + g) + k) = Cell(rd + g + k)
    <3> SUFFICES ASSUME NEW k \in 0..(len - 1) PROVE Cell(Pos(rd + g) + k) = Cell(rd + g + k)
      OBVIOUS
    <3>1. g \in 0..Depth /\ k \in 0..Depth /\ g + k <= Depth
      BY <1>2, <1>3, Sizes
    <3> QED
      BY <3>1, StepOn
  <2> QED
    BY <1>2, <1>3, <2>1 DEF Position
<1> DEFINE f == [i \in 1..(n + 1) |-> IF i = n + 1 THEN g + len - 1 ELSE e[i]]
<1>5. f \in [1..(n + 1) -> Nat]
  BY <1>1, <1>2
<1>6. /\ \A i \in 1..n : f[i] = e[i] /\ e[i] \in Nat /\ e[i] < g
      /\ f[n + 1] = g + len - 1
  BY <1>1, <1>2 DEF Ends
<1> HIDE DEF f
<1>7. \A i \in 1..(n + 1) : f[i] < g + len
  BY <1>2, <1>6
<1>8. \A i, j \in 1..(n + 1) : i < j => f[j] - f[i] >= 2 * (j - i)
  <2> SUFFICES ASSUME NEW i \in 1..(n + 1), NEW j \in 1..(n + 1), i < j
               PROVE  f[j] - f[i] >= 2 * (j - i)
    OBVIOUS
  <2>1. CASE j \in 1..n
    BY <1>1, <1>6, <2>1 DEF Ends
  <2>2. CASE j = n + 1
    <3>1. n \in 1..n /\ i \in 1..n /\ (i = n \/ i < n)
      BY <2>2
    <3>2. e[n] = g - 1 /\ (i < n => e[n] - e[i] >= 2 * (n - i))
      BY <1>1, <1>2, <3>1 DEF Ends
    <3>3. f[i] = e[i] /\ e[i] \in Nat /\ f[j] = g + len - 1
      BY <1>6, <2>2, <3>1
    <3>4. PICK x \in Nat : x = e[i]
      BY <3>3
    <3>5. i < n => g - 1 - x >= 2 * (n - i)
      BY <3>2, <3>4
    <3>6. i = n => x = g - 1
      BY <3>2, <3>4
    <3>7. g + len - 1 - x >= 2 * (j - i)
      BY <1>2, <2>2, <3>1, <3>5, <3>6
    <3> QED
      BY <3>3, <3>4, <3>7
  <2> QED
    BY <2>1, <2>2
<1>9. \A k \in 0..(g + len - 1) : mem[Cell(rd + k)].last <=> \E i \in 1..(n + 1) : f[i] = k
  <2> SUFFICES ASSUME NEW k \in 0..(g + len - 1)
               PROVE  mem[Cell(rd + k)].last <=> \E i \in 1..(n + 1) : f[i] = k
    OBVIOUS
  <2>1. CASE k < g
    <3>1. mem[Cell(rd + k)].last <=> \E i \in 1..n : e[i] = k
      BY <1>1, <1>2, <2>1 DEF Ends
    <3>2. (\E i \in 1..n : e[i] = k) <=> \E i \in 1..(n + 1) : f[i] = k
      BY <1>2, <1>6, <2>1
    <3> QED
      BY <3>1, <3>2
  <2>2. CASE k >= g
    <3>1. k - g \in 0..(len - 1) /\ g + (k - g) = k
      BY <1>2, <2>2
    <3>2. Cell(c + (k - g)) = Cell(rd + k)
      BY <1>4, <3>1
    <3>3. mem[Cell(c + (k - g))].last <=> k - g = len - 1
      BY <3>1
    <3>4. k - g = len - 1 <=> k = g + len - 1
      BY <1>2
    <3>5. k = g + len - 1 <=> \E i \in 1..(n + 1) : f[i] = k
      BY <1>2, <1>6, <2>2
    <3> QED
      BY <3>2, <3>3, <3>4, <3>5
  <2> QED
    BY <1>2, <2>1, <2>2
<1>10. n + 1 # 0 /\ f[n + 1] = Gap(rd, Pos(c + len)) - 1
  BY <1>3, <1>6
<1>11. Ends(f, n + 1, rd, Pos(c + len), mem)
  <2>1. PICK h : h = g + len /\ Gap(rd, Pos(c + len)) = h
    BY <1>3
  <2>2. /\ \A i \in 1..(n + 1) : f[i] < h
        /\ \A k \in 0..(h - 1) : mem[Cell(rd + k)].last <=> \E i \in 1..(n + 1) : f[i] = k
        /\ f[n + 1] = h - 1
    BY <1>7, <1>9, <1>10, <2>1
  <2> QED
    BY <1>5, <1>8, <1>10, <2>1, <2>2 DEF Ends
<1> QED
  BY <1>5, <1>11 DEF Frames

\* The first word of the stretch is fetched.
LEMMA FrameFetched ==
  ASSUME NEW n \in Nat, NEW rd \in Position, NEW c \in Position, NEW mem,
         Gap(rd, c) <= Depth, n > 0, Frames(n, rd, c, mem)
  PROVE  /\ mem[Cell(rd)].last => Frames(n - 1, Pos(rd + 1), c, mem)
         /\ ~mem[Cell(rd)].last => Frames(n, Pos(rd + 1), c, mem)
         /\ Gap(Pos(rd + 1), c) = Gap(rd, c) - 1
<1>1. PICK e \in [1..n -> Nat] : Ends(e, n, rd, c, mem)
  BY DEF Frames
<1>2. PICK g \in Nat : g = Gap(rd, c)
  BY GapIsNat
<1>3. /\ \A i \in 1..n : e[i] \in Nat /\ e[i] < g
      /\ \A i, j \in 1..n : i < j => e[j] - e[i] >= 2 * (j - i)
      /\ e[n] = g - 1 /\ n \in 1..n /\ 1 \in 1..n
      /\ \A k \in 0..(g - 1) : mem[Cell(rd + k)].last <=> \E i \in 1..n : e[i] = k
  BY <1>1, <1>2 DEF Ends
<1>4. Gap(Pos(rd + 1), c) = g - 1 /\ g > 0
  BY <1>2, <1>3, PosIs, Sizes DEF Gap, Position
<1>5. \A k \in 0..(g - 2) : Cell(Pos(rd + 1) + k) = Cell(rd + (k + 1))
  <2> SUFFICES ASSUME NEW k \in 0..(g - 2)
               PROVE  Cell(Pos(rd + 1) + k) = Cell(rd + (k + 1))
    OBVIOUS
  <2>1. Cell(Pos(rd + 1) + k) = Cell(rd + 1 + k)
    <3>1. 1 \in 0..Depth /\ k \in 0..Depth /\ 1 + k <= Depth
      BY <1>2, Sizes
    <3>2. \A i \in 0..Depth : 1 + i <= Depth => Cell(Pos(rd + 1) + i) = Cell(rd + 1 + i)
      BY <3>1, StepOn
    <3> QED
      BY <3>1, <3>2
  <2>2. rd + 1 + k = rd + (k + 1)
    BY Sizes, <1>2 DEF Position
  <2> QED
    BY <2>1, <2>2
<1>6. mem[Cell(rd)].last <=> \E i \in 1..n : e[i] = 0
  <2>1. rd + 0 = rd
    BY Sizes DEF Position
  <2>2. 0 \in 0..(g - 1)
    BY <1>2, <1>4
  <2> QED
    BY <1>3, <2>1, <2>2
<1>7. \A k \in 0..(g - 2) : mem[Cell(Pos(rd + 1) + k)].last <=> \E i \in 1..n : e[i] = k + 1
  <2> SUFFICES ASSUME NEW k \in 0..(g - 2)
               PROVE  mem[Cell(Pos(rd + 1) + k)].last <=> \E i \in 1..n : e[i] = k + 1
    OBVIOUS
  <2>1. k + 1 \in 0..(g - 1)
    BY <1>2
  <2> QED
    BY <1>3, <1>5, <2>1
<1>8. CASE ~mem[Cell(rd)].last
  <2> DEFINE f == [i \in 1..n |-> e[i] - 1]
  <2>1. \A i \in 1..n : f[i] = e[i] - 1 /\ f[i] \in Nat /\ f[i] < g - 1
    BY <1>2, <1>3, <1>6, <1>8
  <2>2. f \in [1..n -> Nat]
    BY <2>1
  <2> HIDE DEF f
  <2>3. \A i, j \in 1..n : i < j => f[j] - f[i] >= 2 * (j - i)
    BY <1>3, <2>1
  <2>4. f[n] = g - 1 - 1
    BY <1>3, <2>1
  <2>5. \A k \in 0..(g - 1 - 1) :
           mem[Cell(Pos(rd + 1) + k)].last <=> \E i \in 1..n : f[i] = k
    <3>1. \A k \in Nat : (\E i \in 1..n : e[i] = k + 1) <=> \E i \in 1..n : f[i] = k
      <4> SUFFICES ASSUME NEW k \in Nat
                   PROVE  (\E i \in 1..n : e[i] = k + 1) <=> \E i \in 1..n : f[i] = k
        OBVIOUS
      <4>1. \A i \in 1..n : e[i] = k + 1 <=> f[i] = k
        BY <1>3, <2>1
      <4> QED
        BY <4>1, Zenon
    <3>2. \A k \in 0..(g - 1 - 1) : k \in 0..(g - 2) /\ k \in Nat
      BY <1>2
    <3> QED
      BY <1>7, <3>1, <3>2
  <2>6. Ends(f, n, Pos(rd + 1), c, mem)
    BY <1>4, <2>1, <2>2, <2>3, <2>4, <2>5 DEF Ends
  <2> QED
    BY <1>2, <1>4, <1>8, <2>2, <2>6 DEF Frames
<1>9. CASE mem[Cell(rd)].last
  <2>1. e[1] = 0
    <3>1. PICK i \in 1..n : e[i] = 0
      BY <1>6, <1>9
    <3>2. i = 1 \/ e[i] - e[1] >= 2 * (i - 1)
      BY <1>3
    <3> QED
      BY <1>3, <3>1, <3>2
  <2>2. PICK m \in Nat : m = n - 1
    OBVIOUS
  <2> DEFINE f == [i \in 1..m |-> e[i + 1] - 1]
  <2>3. \A i \in 1..m : i + 1 \in 1..n /\ f[i] = e[i + 1] - 1 /\ f[i] \in Nat /\ f[i] < g - 1
    <3> SUFFICES ASSUME NEW i \in 1..m
                 PROVE  i + 1 \in 1..n /\ f[i] = e[i + 1] - 1 /\ f[i] \in Nat /\ f[i] < g - 1
      OBVIOUS
    <3>1. i + 1 \in 1..n
      BY <2>2
    <3>2. e[i + 1] - e[1] >= 2 * (i + 1 - 1)
      BY <1>3, <3>1
    <3> QED
      BY <1>2, <1>3, <2>1, <3>1, <3>2
  <2>4. f \in [1..m -> Nat]
    BY <2>3
  <2> HIDE DEF f
  <2>5. \A i, j \in 1..m : i < j => f[j] - f[i] >= 2 * (j - i)
    <3> SUFFICES ASSUME NEW i \in 1..m, NEW j \in 1..m, i < j PROVE f[j] - f[i] >= 2 * (j - i)
      OBVIOUS
    <3>1. /\ i + 1 \in 1..n /\ f[i] = e[i + 1] - 1 /\ e[i + 1] \in Nat
          /\ j + 1 \in 1..n /\ f[j] = e[j + 1] - 1 /\ e[j + 1] \in Nat
      BY <1>3, <2>3
    <3>2. e[j + 1] - e[i + 1] >= 2 * (j + 1 - (i + 1))
      BY <1>3, <3>1
    <3>3. (e[j + 1] - 1) - (e[i + 1] - 1) >= 2 * (j - i)
      BY <3>1, <3>2
    <3> QED
      BY <3>1, <3>3
  <2>6. m > 0 => f[m] = g - 1 - 1
    BY <1>3, <2>2, <2>3
  <2>7. m = 0 => Pos(rd + 1) = c
    <3>1. m = 0 => g - 1 = 0
      BY <1>2, <1>3, <2>1, <2>2
    <3>2. Pos(rd + 1) \in Position
      BY StepOn, Sizes
    <3> QED
      BY <1>4, <3>1, <3>2, GapIsNat
  <2>8. \A k \in 0..(g - 1 - 1) :
           mem[Cell(Pos(rd + 1) + k)].last <=> \E i \in 1..m : f[i] = k
    <3> SUFFICES ASSUME NEW k \in 0..(g - 1 - 1)
                 PROVE  mem[Cell(Pos(rd + 1) + k)].last <=> \E i \in 1..m : f[i] = k
      OBVIOUS
    <3>1. k \in 0..(g - 2) /\ k \in Nat
      BY <1>2
    <3>2. ASSUME NEW i \in 1..n, e[i] = k + 1 PROVE \E h \in 1..m : f[h] = k
      <4>1. i # 1 /\ i - 1 \in 1..m /\ (i - 1) + 1 = i
        BY <2>1, <2>2, <3>1, <3>2
      <4>2. f[i - 1] = e[i] - 1
        BY <2>3, <4>1
      <4> QED
        BY <3>1, <3>2, <4>1, <4>2
    <3>3. ASSUME NEW h \in 1..m, f[h] = k PROVE \E i \in 1..n : e[i] = k + 1
      <4>1. h + 1 \in 1..n /\ e[h + 1] \in Nat /\ k = e[h + 1] - 1
        BY <1>3, <2>3, <3>3
      <4> QED
        BY <3>1, <4>1
    <3> QED
      BY <1>7, <3>1, <3>2, <3>3
  <2>9. Ends(f, m, Pos(rd + 1), c, mem)
    BY <1>4, <2>3, <2>4, <2>5, <2>6, <2>7, <2>8 DEF Ends
  <2> QED
    BY <1>2, <1>4, <1>9, <2>2, <2>4, <2>9 DEF Frames
<1> QED
  BY <1>8, <1>9

(***************************************************************************)
(* The invariant. Layout says where the write side is, seen from the end   *)
(* of the closed frames, Room what the space check has granted, OpenMarks  *)
(* which words of the open frame are marked as last, and Whole that the    *)
(* read side has whole frames before it, as many as the counters say.      *)
(***************************************************************************)

OpenLen ==
    CASE in_state = "IDLE" -> 0
      [] in_state \in {"DATA", "WR_LEN"} -> Gap(wr_start, wr_pos) + 1
      [] OTHER -> Gap(Committed, wr_start)

Layout ==
    /\ in_state = "IDLE" => ~wr_ena
    /\ in_state = "DATA" =>
          /\ Gap(wr_start, wr_pos) = wr_cnt
          /\ wr_cnt >= 2 /\ (wr_cnt = 2 \/ wr_cnt <= max_samples + 1)
    /\ in_state = "WR_LEN" =>
          /\ wr_ena /\ wr_cnt \in 3..MaxPktLen
          /\ Gap(wr_start, wr_pos) \in {wr_cnt, wr_cnt - 1}
    /\ in_state \in {"WR_TS", "WR_UPDATE"} => wr_ena /\ OpenLen \in 3..(MaxPktLen + 1)
    /\ {"kind", "last"} \subseteq DOMAIN wr_dat

Room ==
    /\ in_state = "IDLE" =>
          /\ Gap(rd_pos, wr_start) <= used
          /\ in_tready \/ space_check => Gap(rd_pos, wr_start) + MaxPktLen < Depth
    /\ in_state # "IDLE" => Gap(rd_pos, Committed) + MaxPktLen < Depth
    /\ in_state = "WR_UPDATE" => Gap(rd_pos, wr_start) <= used
    /\ in_state \in {"WR_LEN", "WR_TS", "WR_UPDATE"} => ~in_tready

Filled(k) == k >= 2 \/ in_state = "WR_UPDATE" \/ (in_state = "WR_TS" /\ k = 0)

OpenMarks ==
    \A k \in 0..(OpenLen - 1) : Filled(k) =>
        (Written[Cell(Committed + k)].last <=> in_state # "DATA" /\ k = OpenLen - 1)

\* How many frames a count is ahead of another; both wrap at Depth.
Ahead(a, b) == IF a >= b THEN a - b ELSE a - b + Depth

Behind == Ahead(in_pkts, out_pkts)

Counted(n) ==
    /\ Behind = n + (IF out_tvalid /\ out.last THEN 1 ELSE 0)
    /\ out_tvalid /\ ~out.last => n > 0

Whole == \E n \in Nat : Frames(n, rd_pos, Committed, Written) /\ Counted(n)

Inv == TypeOK /\ Layout /\ Room /\ OpenMarks /\ Whole

(***************************************************************************)
(* The types that the arithmetic needs.                                    *)
(***************************************************************************)

States == {"IDLE", "DATA", "WR_LEN", "WR_TS", "WR_UPDATE"}

Places ==
    /\ in_state \in States
    /\ wr_pos \in Position /\ wr_start \in Position /\ rd_pos \in Position
    /\ wr_cnt \in Nat /\ wr_cnt <= MaxPktLen + 1
    /\ max_samples \in Nat /\ max_samples <= MaxPktLen - 3
    /\ used \in Nat /\ used <= Depth

LEMMA PlacesTyped == TypeOK => Places
  BY Sizes DEF TypeOK, Places, Position, States

\* Where the closed frames end, and how long the open one is.
LEMMA CommittedPlace ==
  ASSUME Places, Layout
  PROVE  /\ Committed \in Position
         /\ OpenLen \in 0..(MaxPktLen + 1)
         /\ in_state \in {"IDLE", "DATA", "WR_LEN"} => Committed = wr_start
         /\ in_state = "WR_TS" => Committed = wr_pos
         /\ in_state = "WR_UPDATE" => wr_pos = Pos(Committed + 1)
         /\ in_state = "IDLE" => OpenLen = 0
         /\ in_state \in {"DATA", "WR_LEN"} => OpenLen >= 3 /\ wr_pos = Pos(wr_start + (OpenLen - 1))
         /\ in_state \in {"WR_TS", "WR_UPDATE"} => OpenLen >= 3 /\ wr_start = Pos(Committed + OpenLen)
<1>1. CASE in_state = "IDLE"
  BY <1>1, Sizes DEF Places, Committed, OpenLen
<1>2. CASE in_state \in {"DATA", "WR_LEN"}
  <2>1. Committed = wr_start /\ OpenLen = Gap(wr_start, wr_pos) + 1
    BY <1>2 DEF Committed, OpenLen
  <2>2. PICK g \in Nat : g = Gap(wr_start, wr_pos)
    BY GapIsNat DEF Places
  <2>3. g >= 2 /\ g <= MaxPktLen
    BY <1>2, <2>2, Sizes DEF Places, Layout
  <2>4. wr_pos = Pos(wr_start + g)
    BY <2>2, GapIs DEF Places
  <2> QED
    BY <1>2, <2>1, <2>2, <2>3, <2>4, Sizes DEF Places
<1>3. CASE in_state = "WR_TS"
  <2>1. Committed = wr_pos
    BY <1>3 DEF Committed
  <2>2. OpenLen = Gap(Committed, wr_start)
    BY <1>3 DEF OpenLen
  <2>3. OpenLen \in 3..(MaxPktLen + 1)
    BY <1>3 DEF Layout
  <2>4. wr_start = Pos(Committed + OpenLen)
    BY <2>1, <2>2, GapIs DEF Places
  <2> QED
    BY <1>3, <2>1, <2>3, <2>4, Sizes DEF Places
<1>4. CASE in_state = "WR_UPDATE"
  <2>1. Committed = Pos(wr_pos - 1)
    BY <1>4 DEF Committed
  <2>2. Committed \in Position /\ wr_pos = Pos(Committed + 1)
    BY <2>1, PosIs, Sizes DEF Places, Position
  <2>3. OpenLen = Gap(Committed, wr_start)
    BY <1>4 DEF OpenLen
  <2>4. OpenLen \in 3..(MaxPktLen + 1)
    BY <1>4 DEF Layout
  <2>5. wr_start = Pos(Committed + OpenLen)
    BY <2>2, <2>3, GapIs DEF Places
  <2> QED
    BY <1>4, <2>2, <2>4, <2>5, Sizes
<1> QED
  BY <1>1, <1>2, <1>3, <1>4 DEF Places, States

(***************************************************************************)
(* The write side, one lemma per action: where it is afterwards, seen from *)
(* the end of the closed frames, and what it has latched for the memory.   *)
(***************************************************************************)

\* The positions after a step, at words beyond the end of the closed frames.
Latched(c, len, at) ==
    /\ in_state' \in States /\ wr_pos' \in Position /\ wr_start' \in Position
    /\ wr_cnt' \in Nat /\ wr_cnt' <= MaxPktLen + 1
    /\ max_samples' \in Nat /\ max_samples' <= MaxPktLen - 3
    /\ Layout'
    /\ Committed' = c
    /\ OpenLen' = len
    /\ wr_pos' = Pos(c + at)

LEMMA LimitIs ==
  ASSUME NEW asked \in NumSamples
  PROVE  Limit(asked) - 1 \in Nat /\ Limit(asked) - 1 <= MaxPktLen - 3
<1>1. asked \in Nat /\ asked > 0
  BY SizeAssumption DEF SizeAssumption
<1> QED
  BY <1>1, Sizes DEF Limit, MaxSamples

LEMMA PrepareStep ==
  ASSUME Places, Prepare
  PROVE  /\ wr_start' = wr_start /\ wr_pos' \in Position /\ Gap(wr_start, wr_pos') = 2
         /\ max_samples' \in Nat /\ max_samples' <= MaxPktLen - 3
<1>1. wr_start \in Position /\ 2 \in 0..Depth
  BY Sizes DEF Places
<1>2. wr_start' = wr_start /\ wr_pos' = Pos(wr_start + 2)
  BY DEF Prepare
<1>3. wr_pos' \in Position /\ Gap(wr_start, wr_pos') = 2
  BY <1>1, <1>2, StepOn
<1>4. PICK asked \in NumSamples : max_samples' = Limit(asked) - 1
  BY DEF Prepare
<1>5. max_samples' \in Nat /\ max_samples' <= MaxPktLen - 3
  BY <1>4, LimitIs
<1> QED
  BY <1>2, <1>3, <1>5

LEMMA BeginStep ==
  ASSUME Places, Layout, NEW captured, Begin(captured)
  PROVE  /\ in_state = "IDLE" /\ captured /\ in_state' = "DATA" /\ wr_ena' /\ in_tready'
         /\ wr_dat'.last = FALSE /\ wr_dat'.kind = "data"
         /\ Latched(Committed, 3, 2)
<1>1. in_state = "IDLE" /\ captured /\ in_state' = "DATA" /\ wr_cnt' = 2 /\ Prepare /\ wr_ena' /\ in_tready'
  BY DEF Begin, Prepare
<1>2. wr_dat' = Word("data", stamp, FALSE)
  BY DEF Begin
<1>3. {"kind", "last"} \subseteq DOMAIN wr_dat' /\ wr_dat'.last = FALSE /\ wr_dat'.kind = "data"
  BY <1>2 DEF Word
<1>4. /\ wr_start' = wr_start /\ wr_pos' \in Position /\ Gap(wr_start, wr_pos') = 2
      /\ max_samples' \in Nat /\ max_samples' <= MaxPktLen - 3
  BY <1>1, PrepareStep
<1>5. Committed' = Committed /\ Committed = wr_start
  BY <1>1, <1>4 DEF Committed
<1>6. OpenLen' = 3
  BY <1>1, <1>4 DEF OpenLen
<1>7. Layout'
  BY <1>1, <1>3, <1>4 DEF Layout
<1>8. wr_pos' = Pos(Committed + 2)
  BY <1>5 DEF Begin, Prepare
<1>9. wr_cnt' \in Nat /\ wr_cnt' <= MaxPktLen + 1 /\ wr_start' \in Position /\ in_state' \in States
  BY <1>1, <1>4, Sizes DEF Places, States
<1> QED
  BY <1>1, <1>3, <1>4, <1>5, <1>6, <1>7, <1>8, <1>9 DEF Latched

LEMMA IdleStep ==
  ASSUME Places, Layout, NEW captured, Idle(captured)
  PROVE  /\ in_state = "IDLE" /\ in_state' = "IDLE" /\ ~wr_ena'
         /\ Latched(Committed, 0, 2)
<1>1. /\ in_state = "IDLE" /\ in_state' = "IDLE" /\ wr_cnt' = 0 /\ Prepare /\ ~wr_ena'
      /\ wr_dat' = wr_dat
  BY DEF Idle, Prepare
<1>2. /\ wr_start' = wr_start /\ wr_pos' \in Position
      /\ max_samples' \in Nat /\ max_samples' <= MaxPktLen - 3
  BY <1>1, PrepareStep
<1>3. Committed' = Committed /\ Committed = wr_start
  BY <1>1, <1>2 DEF Committed
<1>4. OpenLen' = 0
  BY <1>1 DEF OpenLen
<1>5. Layout'
  BY <1>1 DEF Layout
<1>6. wr_pos' = Pos(Committed + 2)
  BY <1>3 DEF Idle, Prepare
<1>7. wr_cnt' \in Nat /\ wr_cnt' <= MaxPktLen + 1 /\ wr_start' \in Position /\ in_state' \in States
  BY <1>1, <1>2, Sizes DEF Places, States
<1> QED
  BY <1>1, <1>2, <1>3, <1>4, <1>5, <1>6, <1>7 DEF Latched

\* A word is added, the last or another one.
LEMMA AddStep ==
  ASSUME Places, Layout, NEW captured, More(captured) \/ Full(captured)
  PROVE  /\ in_state = "DATA" /\ captured
         /\ More(captured) => in_state' = "DATA"
         /\ Full(captured) => in_state' = "WR_LEN" /\ ~in_tready'
         /\ wr_ena' /\ wr_dat'.kind = "data" /\ (wr_dat'.last <=> in_state' # "DATA")
         /\ Latched(Committed, OpenLen + 1, OpenLen)
<1>1. /\ in_state = "DATA" /\ captured /\ wr_pos' = Pos(wr_pos + 1) /\ wr_cnt' = wr_cnt + 1
      /\ wr_start' = wr_start /\ max_samples' = max_samples /\ wr_ena'
  BY DEF More, Full, AddWord, Frozen
<1>2. \/ in_state' = "DATA" /\ More(captured) /\ ~Full(captured)
      \/ in_state' = "WR_LEN" /\ Full(captured) /\ ~More(captured) /\ ~in_tready'
  BY DEF More, Full, AddWord
<1>3. /\ {"kind", "last"} \subseteq DOMAIN wr_dat'
      /\ wr_dat'.kind = "data" /\ (wr_dat'.last <=> in_state' # "DATA")
  <2>1. CASE More(captured)
    BY <1>2, <2>1 DEF More, Word
  <2>2. CASE Full(captured)
    BY <1>2, <2>2 DEF Full, Word
  <2> QED
    BY <2>1, <2>2
<1>4. PICK g \in Nat : g = Gap(wr_start, wr_pos)
  BY GapIsNat DEF Places
<1>5. g = wr_cnt /\ g >= 2 /\ g <= MaxPktLen - 1 /\ max_samples <= MaxPktLen - 3
  BY <1>1, <1>4, Sizes DEF Layout, Places
<1>6. Committed = wr_start /\ Committed' = wr_start
  BY <1>1, <1>2 DEF Committed
<1>7. OpenLen = g + 1
  BY <1>1, <1>4 DEF OpenLen
<1>8. wr_pos' = Pos(wr_start + (g + 1)) /\ wr_pos' \in Position /\ Gap(wr_start, wr_pos') = g + 1
  <2>1. wr_pos = Pos(wr_start + g) /\ wr_start \in Position
    BY <1>4, GapIs DEF Places
  <2>2. g \in 0..Depth /\ 1 \in 0..Depth /\ g + 1 <= 2 * Depth - 1 /\ g + 1 \in 0..Depth
    BY <1>5, Sizes
  <2>3. Pos(Pos(wr_start + g) + 1) = Pos(wr_start + g + 1)
    BY <2>1, <2>2, StepOn
  <2>4. wr_start + g + 1 = wr_start + (g + 1)
    BY <1>4, Sizes DEF Places, Position
  <2>5. wr_pos' = Pos(wr_start + (g + 1))
    BY <1>1, <2>1, <2>3, <2>4
  <2>6. Pos(wr_start + (g + 1)) \in Position /\ Gap(wr_start, Pos(wr_start + (g + 1))) = g + 1
    BY <2>1, <2>2, StepOn
  <2> QED
    BY <2>5, <2>6
<1>9. OpenLen' = g + 2
  <2>1. OpenLen' = Gap(wr_start', wr_pos') + 1
    BY <1>2 DEF OpenLen
  <2>2. Gap(wr_start', wr_pos') = g + 1
    BY <1>1, <1>8
  <2> QED
    BY <2>1, <2>2
<1>10. Layout'
  <2>1. CASE in_state' = "DATA"
    <3>1. wr_cnt <= max_samples /\ wr_cnt \in Nat /\ max_samples \in Nat
      BY <1>2, <2>1, Sizes DEF More, IsLast, Places
    <3>2. Gap(wr_start', wr_pos') = wr_cnt' /\ wr_cnt' >= 2 /\ wr_cnt' <= max_samples' + 1
      BY <1>1, <1>5, <1>8, <3>1
    <3> QED
      BY <1>3, <2>1, <3>2 DEF Layout
  <2>2. CASE in_state' = "WR_LEN"
    BY <1>1, <1>3, <1>4, <1>5, <1>8, <2>2, Sizes DEF Layout
  <2> QED
    BY <1>2, <2>1, <2>2
<1>11. /\ wr_cnt' \in Nat /\ wr_cnt' <= MaxPktLen + 1 /\ wr_start' \in Position
       /\ in_state' \in States /\ max_samples' \in Nat /\ max_samples' <= MaxPktLen - 3
  <2>1. wr_cnt \in Nat /\ wr_start \in Position /\ max_samples \in Nat
    BY DEF Places
  <2>2. wr_cnt' \in Nat /\ wr_cnt' <= MaxPktLen + 1
    BY <1>1, <1>5, <2>1, Sizes
  <2> QED
    BY <1>1, <1>2, <1>5, <2>1, <2>2 DEF States
<1>12. OpenLen + 1 = g + 2 /\ wr_pos' = Pos(Committed + OpenLen)
  BY <1>4, <1>6, <1>7, <1>8
<1> QED
  BY <1>1, <1>2, <1>3, <1>6, <1>8, <1>9, <1>10, <1>11, <1>12 DEF Latched

LEMMA CutStep ==
  ASSUME Places, Layout, NEW captured, Cut(captured)
  PROVE  /\ in_state = "DATA" /\ in_state' = "WR_LEN" /\ ~in_tready'
         /\ wr_ena' /\ wr_dat'.kind = wr_dat.kind /\ wr_dat'.last = TRUE
         /\ Latched(Committed, OpenLen, OpenLen - 1)
<1>1. /\ in_state = "DATA" /\ in_state' = "WR_LEN" /\ wr_pos' = wr_pos /\ wr_cnt' = wr_cnt + 1
      /\ wr_start' = wr_start /\ max_samples' = max_samples /\ wr_ena' /\ ~in_tready'
      /\ wr_dat' = [wr_dat EXCEPT !.last = TRUE]
  BY DEF Cut, Frozen
<1>2. /\ {"kind", "last"} \subseteq DOMAIN wr_dat'
      /\ wr_dat'.kind = wr_dat.kind /\ wr_dat'.last = TRUE
  BY <1>1 DEF Layout
<1>3. PICK g \in Nat : g = Gap(wr_start, wr_pos)
  BY GapIsNat DEF Places
<1>4. /\ g = wr_cnt /\ g >= 2 /\ g <= MaxPktLen - 1
      /\ wr_start \in Position /\ wr_pos \in Position
      /\ max_samples \in Nat /\ max_samples <= MaxPktLen - 3
  BY <1>1, <1>3, Sizes DEF Layout, Places
<1>5. Committed = wr_start /\ Committed' = wr_start
  BY <1>1 DEF Committed
<1>6. OpenLen = g + 1
  BY <1>1, <1>3 DEF OpenLen
<1>7. OpenLen' = g + 1
  BY <1>1, <1>3 DEF OpenLen
<1>8. wr_cnt' = g + 1
  BY <1>1, <1>4
<1>9. Layout'
  <2>1. Gap(wr_start', wr_pos') \in {wr_cnt', wr_cnt' - 1} /\ wr_cnt' \in 3..MaxPktLen
    BY <1>1, <1>3, <1>4, <1>8, Sizes
  <2> QED
    BY <1>1, <1>2, <2>1 DEF Layout
<1>10. wr_cnt' \in Nat /\ wr_cnt' <= MaxPktLen + 1
  BY <1>3, <1>4, <1>8, Sizes
<1>11. wr_pos' = Pos(Committed + (OpenLen - 1))
  <2>1. wr_pos = Pos(wr_start + g)
    BY <1>3, <1>4, GapIs
  <2>2. OpenLen - 1 = g
    BY <1>3, <1>6
  <2> QED
    BY <1>1, <2>2, <1>5, <2>1
<1> QED
  BY <1>1, <1>2, <1>4, <1>5, <1>6, <1>7, <1>9, <1>10, <1>11 DEF Latched, States

LEMMA WaitStep ==
  ASSUME Places, Layout, NEW captured, WaitForWord(captured)
  PROVE  /\ in_state = "DATA" /\ in_state' = "DATA"
         /\ ~wr_ena' /\ wr_dat' = wr_dat
         /\ Latched(Committed, OpenLen, OpenLen - 1)
<1>1. /\ in_state = "DATA" /\ in_state' = "DATA" /\ wr_pos' = wr_pos /\ wr_cnt' = wr_cnt
      /\ wr_start' = wr_start /\ max_samples' = max_samples /\ ~wr_ena' /\ wr_dat' = wr_dat
  BY DEF WaitForWord, Frozen
<1>2. PICK g \in Nat : g = Gap(wr_start, wr_pos)
  BY GapIsNat DEF Places
<1>3. /\ g = wr_cnt /\ g <= MaxPktLen - 1
      /\ wr_start \in Position /\ wr_pos \in Position
      /\ max_samples \in Nat /\ max_samples <= MaxPktLen - 3
  BY <1>1, <1>2, Sizes DEF Layout, Places
<1>4. Committed = wr_start /\ Committed' = wr_start
  BY <1>1 DEF Committed
<1>5. OpenLen = g + 1
  BY <1>1, <1>2 DEF OpenLen
<1>6. OpenLen' = g + 1
  BY <1>1, <1>2 DEF OpenLen
<1>7. Layout'
  BY <1>1 DEF Layout
<1>8. wr_cnt' \in Nat /\ wr_cnt' <= MaxPktLen + 1
  BY <1>1, <1>2, <1>3, Sizes
<1>9. wr_pos' = Pos(Committed + (OpenLen - 1))
  <2>1. wr_pos = Pos(wr_start + g)
    BY <1>2, <1>3, GapIs
  <2>2. OpenLen - 1 = g
    BY <1>2, <1>5
  <2> QED
    BY <1>1, <2>2, <1>4, <2>1
<1> QED
  BY <1>1, <1>3, <1>4, <1>5, <1>6, <1>7, <1>8, <1>9 DEF Latched, States

LEMMA LengthStep ==
  ASSUME Places, Layout, WriteLength
  PROVE  /\ in_state = "WR_LEN" /\ in_state' = "WR_TS" /\ in_tready' = in_tready
         /\ wr_ena' /\ wr_dat'.kind = "header" /\ wr_dat'.last = FALSE
         /\ wr_start' = Pos(Committed + OpenLen)
         /\ Latched(Committed, OpenLen, 0)
<1>1. /\ in_state = "WR_LEN" /\ in_state' = "WR_TS" /\ wr_pos' = wr_start /\ wr_cnt' = 0
      /\ wr_start' = Pos(wr_pos + 1) /\ max_samples' = max_samples /\ wr_ena'
      /\ in_tready' = in_tready
      /\ wr_dat' = Word("header", <<num_pkts_in, wr_cnt>>, FALSE)
  BY DEF WriteLength
<1>2. /\ {"kind", "last"} \subseteq DOMAIN wr_dat'
      /\ wr_dat'.kind = "header" /\ wr_dat'.last = FALSE
  BY <1>1 DEF Word
<1>3. PICK g \in Nat : g = Gap(wr_start, wr_pos)
  BY GapIsNat DEF Places
<1>4. /\ g >= 2 /\ g <= MaxPktLen
      /\ wr_start \in Position /\ wr_pos \in Position
      /\ max_samples \in Nat /\ max_samples <= MaxPktLen - 3
  BY <1>1, <1>3, Sizes DEF Layout, Places
<1>5. Committed = wr_start /\ Committed' = wr_start
  BY <1>1 DEF Committed
<1>6. OpenLen = g + 1
  BY <1>1, <1>3 DEF OpenLen
<1>7. /\ wr_start' = Pos(wr_start + (g + 1)) /\ wr_start' \in Position
      /\ Gap(wr_start, wr_start') = g + 1
  <2>1. wr_pos = Pos(wr_start + g)
    BY <1>3, <1>4, GapIs
  <2>2. g \in 0..Depth /\ 1 \in 0..Depth /\ g + 1 <= 2 * Depth - 1 /\ g + 1 \in 0..Depth
    BY <1>4, Sizes
  <2>3. Pos(Pos(wr_start + g) + 1) = Pos(wr_start + g + 1)
    BY <1>4, <2>2, StepOn
  <2>4. wr_start + g + 1 = wr_start + (g + 1)
    BY <1>3, <1>4, Sizes DEF Position
  <2>5. wr_start' = Pos(wr_start + (g + 1))
    BY <1>1, <2>1, <2>3, <2>4
  <2>6. Pos(wr_start + (g + 1)) \in Position /\ Gap(wr_start, Pos(wr_start + (g + 1))) = g + 1
    BY <1>4, <2>2, StepOn
  <2> QED
    BY <2>5, <2>6
<1>8. OpenLen' = g + 1
  <2>1. OpenLen' = Gap(Committed', wr_start')
    BY <1>1 DEF OpenLen
  <2> QED
    BY <1>5, <1>7, <2>1
<1>9. Layout'
  <2>1. g + 1 \in 3..(MaxPktLen + 1)
    BY <1>4, Sizes
  <2> QED
    BY <1>1, <1>2, <1>8, <2>1 DEF Layout
<1>10. wr_cnt' \in Nat /\ wr_cnt' <= MaxPktLen + 1
  BY <1>1, Sizes
<1>11. wr_pos' = Pos(Committed + 0)
  BY <1>1, <1>4, <1>5, PosIs, Sizes DEF Position
<1> QED
  BY <1>1, <1>2, <1>4, <1>5, <1>6, <1>7, <1>8, <1>9, <1>10, <1>11 DEF Latched, States

LEMMA TimestampStep ==
  ASSUME Places, Layout, WriteTimestamp
  PROVE  /\ in_state = "WR_TS" /\ in_state' = "WR_UPDATE" /\ in_tready' = in_tready
         /\ wr_ena' /\ wr_dat'.kind = "time" /\ wr_dat'.last = FALSE
         /\ wr_start' = wr_start
         /\ Latched(Committed, OpenLen, 1)
<1>1. /\ in_state = "WR_TS" /\ in_state' = "WR_UPDATE" /\ wr_pos' = Pos(wr_pos + 1)
      /\ wr_cnt' = wr_cnt /\ in_tready' = in_tready
      /\ wr_start' = wr_start /\ max_samples' = max_samples /\ wr_ena'
      /\ wr_dat' = Word("time", r_timestamp, FALSE)
  BY DEF WriteTimestamp, Frozen
<1>2. /\ {"kind", "last"} \subseteq DOMAIN wr_dat'
      /\ wr_dat'.kind = "time" /\ wr_dat'.last = FALSE
  BY <1>1 DEF Word
<1>3. /\ wr_start \in Position /\ wr_pos \in Position
      /\ max_samples \in Nat /\ max_samples <= MaxPktLen - 3
      /\ wr_cnt \in Nat /\ wr_cnt <= MaxPktLen + 1
  BY DEF Places
<1>4. Committed = wr_pos
  BY <1>1 DEF Committed
<1>5. Committed' = wr_pos /\ wr_pos' \in Position
  <2>1. Committed' = Pos(wr_pos' - 1)
    BY <1>1 DEF Committed
  <2> QED
    BY <1>1, <1>3, <2>1, PosIs, Sizes DEF Position
<1>6. OpenLen' = OpenLen
  <2>1. OpenLen' = Gap(Committed', wr_start') /\ OpenLen = Gap(Committed, wr_start)
    BY <1>1 DEF OpenLen
  <2> QED
    BY <1>1, <1>4, <1>5, <2>1
<1>7. OpenLen \in 3..(MaxPktLen + 1)
  BY <1>1 DEF Layout
<1>8. Layout'
  BY <1>1, <1>2, <1>6, <1>7 DEF Layout
<1> QED
  BY <1>1, <1>2, <1>3, <1>4, <1>5, <1>6, <1>8 DEF Latched, States

LEMMA UpdateStep ==
  ASSUME Places, Layout, Update
  PROVE  /\ in_state = "WR_UPDATE" /\ in_state' = "IDLE" /\ in_tready' = in_tready
         /\ wr_start' = wr_start
         /\ ~wr_ena' /\ wr_dat' = Nothing /\ Show
         /\ Latched(Pos(Committed + OpenLen), 0, 0)
<1>1. /\ in_state = "WR_UPDATE" /\ in_state' = "IDLE" /\ wr_pos' = wr_start
      /\ wr_cnt' = wr_cnt /\ in_tready' = in_tready /\ Show
      /\ wr_start' = wr_start /\ max_samples' = max_samples /\ ~wr_ena' /\ wr_dat' = Nothing
  BY DEF Update
<1>2. {"kind", "last"} \subseteq DOMAIN wr_dat'
  BY <1>1 DEF Word, Nothing
<1>3. /\ wr_start \in Position
      /\ max_samples \in Nat /\ max_samples <= MaxPktLen - 3
      /\ wr_cnt \in Nat /\ wr_cnt <= MaxPktLen + 1
  BY DEF Places
<1>4. Committed' = wr_start
  BY <1>1 DEF Committed
<1>5. wr_start = Pos(Committed + OpenLen)
  BY <1>1, CommittedPlace
<1>6. OpenLen' = 0
  BY <1>1 DEF OpenLen
<1>7. Layout'
  BY <1>1, <1>2 DEF Layout
<1>8. wr_pos' = Pos(wr_start + 0)
  BY <1>1, <1>3, PosIs, Sizes DEF Position
<1> QED
  BY <1>1, <1>3, <1>4, <1>5, <1>6, <1>7, <1>8 DEF Latched, States

(***************************************************************************)
(* The memory with the word that is being written.                         *)
(***************************************************************************)

LEMMA WrittenStep ==
  ASSUME TypeOK, Store
  PROVE  /\ DOMAIN Written = 0..(Depth - 1)
         /\ wr_ena' => Written' = [Written EXCEPT ![Cell(wr_pos')] = wr_dat']
         /\ ~wr_ena' => Written' = Written
<1>1. DOMAIN r_data = 0..(Depth - 1)
  BY DEF TypeOK
<1>2. DOMAIN Written = 0..(Depth - 1)
  BY <1>1 DEF Written
<1>3. Written' = IF wr_ena' THEN [r_data' EXCEPT ![Cell(wr_pos')] = wr_dat'] ELSE r_data'
  BY DEF Written
<1>4. r_data' = Written
  BY DEF Store
<1> QED
  BY <1>2, <1>3, <1>4

\* A word goes into one cell of those that follow c, and into no other.
LEMMA WordGoesIn ==
  ASSUME TypeOK, Store, wr_ena',
         NEW c \in Position, NEW at \in 0..(Depth - 1), wr_pos' = Pos(c + at)
  PROVE  /\ Written'[Cell(c + at)] = wr_dat'
         /\ \A k \in 0..(Depth - 1) : k # at => Written'[Cell(c + k)] = Written[Cell(c + k)]
<1>1. DOMAIN Written = 0..(Depth - 1) /\ Written' = [Written EXCEPT ![Cell(wr_pos')] = wr_dat']
  BY WrittenStep
<1>2. Cell(wr_pos') = Cell(c + at)
  <2>1. at \in 0..Depth /\ 0 \in 0..Depth /\ at + 0 <= Depth
    BY Sizes
  <2>2. Cell(Pos(c + at) + 0) = Cell(c + at + 0) /\ Pos(c + at) \in Position
    BY <2>1, StepOn
  <2>3. Pos(c + at) + 0 = Pos(c + at) /\ c + at + 0 = c + at
    BY <2>2, Sizes DEF Position
  <2> QED
    BY <2>2, <2>3
<1>3. \A k \in 0..(Depth - 1) : Cell(c + k) \in 0..(Depth - 1)
  BY CellInBuffer, Sizes
<1>4. \A k \in 0..(Depth - 1) : k # at => Cell(c + k) # Cell(c + at)
  BY CellsDiffer
<1> QED
  BY <1>1, <1>2, <1>3, <1>4

\* A position at words beyond c is not among those up to c.
LEMMA Apart ==
  ASSUME NEW rd \in Position, NEW c \in Position, NEW at \in Nat, Gap(rd, c) + at < Depth
  PROVE  \A k \in 0..(Gap(rd, c) - 1) : Cell(rd + k) # Cell(Pos(c + at))
<1>1. PICK g \in Nat : g = Gap(rd, c)
  BY GapIsNat
<1>2. g \in 0..Depth /\ at \in 0..Depth /\ g + at \in 0..(Depth - 1) /\ g + at <= Depth
  BY <1>1, Sizes
<1>3. c = Pos(rd + g)
  BY <1>1, GapIs
<1>4. Cell(Pos(c + at)) = Cell(rd + (g + at))
  <2>1. Pos(Pos(rd + g) + at) = Pos(rd + g + at)
    <3>1. g + at <= 2 * Depth - 1
      BY <1>2, Sizes
    <3> QED
      BY <1>2, <3>1, StepOn
  <2>2. rd + g + at = rd + (g + at)
    BY <1>1, Sizes DEF Position
  <2>3. g + at \in 0..Depth /\ 0 \in 0..Depth /\ (g + at) + 0 <= Depth
    BY <1>2, Sizes
  <2>4. Pos(rd + (g + at)) \in Position /\ Cell(Pos(rd + (g + at)) + 0) = Cell(rd + (g + at) + 0)
    BY <2>3, StepOn
  <2>5. Pos(rd + (g + at)) + 0 = Pos(rd + (g + at)) /\ rd + (g + at) + 0 = rd + (g + at)
    BY <1>1, <2>4, Sizes DEF Position
  <2> QED
    BY <1>3, <2>1, <2>2, <2>4, <2>5
<1>5. \A k \in 0..(g - 1) : k \in 0..(Depth - 1) /\ k # g + at
  BY <1>2, Sizes
<1> QED
  BY <1>1, <1>2, <1>4, <1>5, CellsDiffer

LEMMA GapAdds ==
  ASSUME NEW p \in Position, NEW c \in Position, NEW len \in Nat, Gap(p, c) + len <= Depth
  PROVE  Gap(p, Pos(c + len)) = Gap(p, c) + len
<1>1. PICK g \in Nat : g = Gap(p, c)
  BY GapIsNat
<1>2. g \in 0..Depth /\ len \in 0..Depth /\ g + len \in 0..Depth /\ g + len <= 2 * Depth - 1
  BY <1>1, Sizes
<1>3. c = Pos(p + g)
  BY <1>1, GapIs
<1>4. Pos(Pos(p + g) + len) = Pos(p + g + len)
  BY <1>2, StepOn
<1>5. p + g + len = p + (g + len)
  BY <1>1, Sizes DEF Position
<1>6. Gap(p, Pos(p + (g + len))) = g + len
  BY <1>2, StepOn
<1> QED
  BY <1>1, <1>3, <1>4, <1>5, <1>6

LEMMA GapShrinks ==
  ASSUME NEW p \in Position, NEW q \in Position, p # q
  PROVE  Pos(p + 1) \in Position /\ Gap(Pos(p + 1), q) = Gap(p, q) - 1
  BY PosIs, Sizes DEF Gap, Position

(***************************************************************************)
(* Backlog: what is closed and not yet fetched fits, and while a frame is  *)
(* open the largest one fits behind it.                                    *)
(***************************************************************************)

LEMMA Backlog ==
  ASSUME Places, Layout, Room
  PROVE  /\ Gap(rd_pos, Committed) \in Nat /\ Gap(rd_pos, Committed) <= Depth
         /\ Gap(rd_pos, wr_start) \in Nat /\ Gap(rd_pos, wr_start) <= Depth
         /\ in_state \in {"WR_TS", "WR_UPDATE"} =>
               Gap(rd_pos, wr_start) = Gap(rd_pos, Committed) + OpenLen /\ rd_pos # wr_start
<1>1. /\ Committed \in Position /\ rd_pos \in Position /\ wr_start \in Position
      /\ OpenLen \in 0..(MaxPktLen + 1) /\ used \in Nat /\ used <= Depth
  BY CommittedPlace DEF Places
<1>2. Gap(rd_pos, Committed) \in Nat /\ Gap(rd_pos, wr_start) \in Nat
  BY <1>1, GapIsNat
<1>3. CASE in_state = "IDLE"
  <2>1. Committed = wr_start
    BY <1>3, CommittedPlace
  <2>2. Gap(rd_pos, wr_start) <= used
    BY <1>3 DEF Room
  <2> QED
    BY <1>1, <1>2, <1>3, <2>1, <2>2, Sizes
<1>4. CASE in_state \in {"DATA", "WR_LEN"}
  <2>1. Committed = wr_start
    BY <1>4, CommittedPlace
  <2>2. Gap(rd_pos, Committed) + MaxPktLen < Depth
    BY <1>4 DEF Room
  <2> QED
    BY <1>1, <1>2, <1>4, <2>1, <2>2, Sizes
<1>5. CASE in_state \in {"WR_TS", "WR_UPDATE"}
  <2>1. OpenLen >= 3 /\ wr_start = Pos(Committed + OpenLen) /\ OpenLen \in Nat
    BY <1>1, <1>5, CommittedPlace, Sizes
  <2>2. Gap(rd_pos, Committed) + MaxPktLen < Depth
    BY <1>5 DEF Room
  <2>3. Gap(rd_pos, Committed) + OpenLen <= Depth
    BY <1>1, <1>2, <2>1, <2>2, Sizes
  <2>4. Gap(rd_pos, wr_start) = Gap(rd_pos, Committed) + OpenLen
    BY <1>1, <2>1, <2>3, GapAdds
  <2>5. rd_pos # wr_start
    BY <1>1, <1>2, <2>1, <2>4, GapIsNat
  <2> QED
    BY <1>1, <1>2, <1>5, <2>2, <2>3, <2>4, <2>5, Sizes
<1> QED
  BY <1>3, <1>4, <1>5 DEF Places, States

\* The word being written is not among those still to be fetched.
LEMMA WriteApart ==
  ASSUME Places, Layout, Room, wr_ena
  PROVE  \A k \in 0..(Gap(rd_pos, Committed) - 1) : Cell(rd_pos + k) # Cell(wr_pos)
<1>1. in_state # "IDLE" /\ in_state \in States
  BY DEF Layout, Places
<1>2. Gap(rd_pos, Committed) + MaxPktLen < Depth
  BY <1>1 DEF Room
<1>3. Committed \in Position /\ rd_pos \in Position /\ Gap(rd_pos, Committed) \in Nat
  BY CommittedPlace, Backlog DEF Places
<1>4. \E at \in 0..MaxPktLen : wr_pos = Pos(Committed + at)
  <2>1. CASE in_state \in {"DATA", "WR_LEN"}
    <3>1. OpenLen - 1 \in 0..MaxPktLen /\ wr_pos = Pos(Committed + (OpenLen - 1))
      BY <2>1, CommittedPlace, Sizes
    <3> QED
      BY <3>1
  <2>2. CASE in_state = "WR_TS"
    <3>1. wr_pos = Pos(Committed + 0)
      BY <2>2, <1>3, CommittedPlace, PosIs, Sizes DEF Position
    <3> QED
      BY <3>1, Sizes
  <2>3. CASE in_state = "WR_UPDATE"
    <3>1. wr_pos = Pos(Committed + 1) /\ 1 \in 0..MaxPktLen
      BY <2>3, CommittedPlace, Sizes
    <3> QED
      BY <3>1
  <2> QED
    BY <1>1, <2>1, <2>2, <2>3 DEF States
<1>5. PICK at \in 0..MaxPktLen : wr_pos = Pos(Committed + at)
  BY <1>4
<1>6. at \in Nat /\ Gap(rd_pos, Committed) + at < Depth
  BY <1>2, <1>3, <1>5, Sizes
<1> QED
  BY <1>3, <1>5, <1>6, Apart

(***************************************************************************)
(* The write side as a whole.                                              *)
(***************************************************************************)

\* A word is taken, or a frame goes on, only where the largest frame fits.
LEMMA Granted ==
  ASSUME Places, Layout, Room, NEW captured \in BOOLEAN, captured => in_tready,
         WriteSide(captured), in_state' # "IDLE" \/ wr_ena'
  PROVE  Gap(rd_pos, Committed) + MaxPktLen < Depth
<1>1. CASE in_state # "IDLE"
  BY <1>1 DEF Room
<1>2. CASE in_state = "IDLE"
  <2>1. Begin(captured)
    BY <1>2, IdleStep DEF WriteSide, More, Full, AddWord, Cut, WaitForWord, WriteLength,
                          WriteTimestamp, Update
  <2>2. in_tready
    BY <2>1, BeginStep
  <2>3. Committed = wr_start
    BY <1>2, CommittedPlace
  <2> QED
    BY <1>2, <2>2, <2>3 DEF Room
<1> QED
  BY <1>1, <1>2

\* Only the update moves the end of the closed frames.
LEMMA WriteMoves ==
  ASSUME Places, Layout, NEW captured, WriteSide(captured)
  PROVE  /\ Layout' /\ in_state' \in States /\ wr_pos' \in Position /\ wr_start' \in Position
         /\ wr_cnt' \in Nat /\ wr_cnt' <= MaxPktLen + 1
         /\ max_samples' \in Nat /\ max_samples' <= MaxPktLen - 3
         /\ in_state = "WR_UPDATE" =>
               /\ Update /\ in_state' = "IDLE" /\ Committed' = Pos(Committed + OpenLen)
         /\ in_state # "WR_UPDATE" => Committed' = Committed /\ in_pkts' = in_pkts
<1>1. CASE Begin(captured)
  <2>1. in_state = "IDLE" /\ in_pkts' = in_pkts
    BY <1>1 DEF Begin, Prepare
  <2> QED
    BY <1>1, <2>1, BeginStep DEF Latched
<1>2. CASE Idle(captured)
  <2>1. in_state = "IDLE" /\ in_pkts' = in_pkts
    BY <1>2 DEF Idle, Prepare
  <2> QED
    BY <1>2, <2>1, IdleStep DEF Latched
<1>3. CASE More(captured) \/ Full(captured)
  <2>1. in_state = "DATA" /\ in_pkts' = in_pkts
    BY <1>3 DEF More, Full, AddWord, Frozen
  <2> QED
    BY <1>3, <2>1, AddStep DEF Latched
<1>4. CASE Cut(captured)
  <2>1. in_state = "DATA" /\ in_pkts' = in_pkts
    BY <1>4 DEF Cut, Frozen
  <2> QED
    BY <1>4, <2>1, CutStep DEF Latched
<1>5. CASE WaitForWord(captured)
  <2>1. in_state = "DATA" /\ in_pkts' = in_pkts
    BY <1>5 DEF WaitForWord, Frozen
  <2> QED
    BY <1>5, <2>1, WaitStep DEF Latched
<1>6. CASE WriteLength
  <2>1. in_state = "WR_LEN" /\ in_pkts' = in_pkts
    BY <1>6 DEF WriteLength
  <2> QED
    BY <1>6, <2>1, LengthStep DEF Latched
<1>7. CASE WriteTimestamp
  <2>1. in_state = "WR_TS" /\ in_pkts' = in_pkts
    BY <1>7 DEF WriteTimestamp, Frozen
  <2> QED
    BY <1>7, <2>1, TimestampStep DEF Latched
<1>8. CASE Update
  <2>1. in_state = "WR_UPDATE"
    BY <1>8 DEF Update
  <2> QED
    BY <1>8, <2>1, UpdateStep DEF Latched
<1> QED
  BY <1>1, <1>2, <1>3, <1>4, <1>5, <1>6, <1>7, <1>8 DEF WriteSide

\* What a step writes is beyond what is still to be fetched.
LEMMA KeepsUnread ==
  ASSUME TypeOK, Layout, Room, NEW captured \in BOOLEAN, captured => in_tready,
         WriteSide(captured), Store
  PROVE  \A k \in 0..(Gap(rd_pos, Committed) - 1) :
            Written'[Cell(rd_pos + k)] = Written[Cell(rd_pos + k)]
<1>1. Places /\ Layout'
  BY PlacesTyped, WriteMoves
<1>2. CASE ~wr_ena'
  BY <1>2, WrittenStep
<1>3. CASE wr_ena'
  <2>1. Gap(rd_pos, Committed) + MaxPktLen < Depth
    BY <1>1, <1>3, Granted
  <2>2. in_state # "WR_UPDATE"
    BY <1>1, <1>3, UpdateStep, WriteMoves
  <2>3. Committed' = Committed /\ Committed \in Position /\ rd_pos \in Position
    BY <1>1, <2>2, WriteMoves, CommittedPlace DEF Places
  <2>4. PICK g \in Nat : g = Gap(rd_pos, Committed)
    BY <2>3, GapIsNat
  <2>5. \E at \in 0..MaxPktLen : wr_pos' = Pos(Committed + at)
    <3>1. CASE Begin(captured)
      <4>1. wr_pos' = Pos(Committed + 2)
        BY <1>1, <3>1, BeginStep DEF Latched
      <4>2. 2 \in 0..MaxPktLen
        BY Sizes
      <4> QED
        BY <4>1, <4>2
    <3>2. CASE More(captured) \/ Full(captured)
      <4>1. wr_pos' = Pos(Committed + OpenLen) /\ in_state = "DATA"
        BY <1>1, <3>2, AddStep DEF Latched
      <4>2. OpenLen \in 0..MaxPktLen
        <5>1. OpenLen = Gap(wr_start, wr_pos) + 1
          BY <4>1 DEF OpenLen
        <5>2. Gap(wr_start, wr_pos) = wr_cnt /\ wr_cnt >= 2 /\ wr_cnt <= MaxPktLen - 1
          BY <1>1, <4>1, Sizes DEF Layout, Places
        <5>3. wr_cnt \in Nat
          BY <1>1 DEF Places
        <5> QED
          BY <5>1, <5>2, <5>3, Sizes
      <4> QED
        BY <4>1, <4>2
    <3>3. CASE Cut(captured)
      <4>1. wr_pos' = Pos(Committed + (OpenLen - 1)) /\ in_state = "DATA"
        BY <1>1, <3>3, CutStep DEF Latched
      <4>2. OpenLen - 1 \in 0..MaxPktLen
        BY <1>1, <4>1, CommittedPlace, Sizes
      <4> QED
        BY <4>1, <4>2
    <3>4. CASE WriteLength
      <4>1. wr_pos' = Pos(Committed + 0) /\ 0 \in 0..MaxPktLen
        BY <1>1, <3>4, LengthStep, Sizes DEF Latched
      <4> QED
        BY <4>1
    <3>5. CASE WriteTimestamp
      <4>1. wr_pos' = Pos(Committed + 1) /\ 1 \in 0..MaxPktLen
        BY <1>1, <3>5, TimestampStep, Sizes DEF Latched
      <4> QED
        BY <4>1
    <3> QED
      BY <1>1, <1>3, <3>1, <3>2, <3>3, <3>4, <3>5, IdleStep, WaitStep, UpdateStep DEF WriteSide
  <2>6. PICK at \in 0..MaxPktLen : wr_pos' = Pos(Committed + at)
    BY <2>5
  <2>7. at \in Nat /\ at \in 0..(Depth - 1) /\ g + at < Depth
    BY <2>1, <2>4, <2>6, Sizes
  <2>8. \A k \in 0..(g - 1) : Cell(rd_pos + k) # Cell(wr_pos')
    BY <2>3, <2>4, <2>6, <2>7, Apart
  <2>9. /\ DOMAIN Written = 0..(Depth - 1)
        /\ Written' = [Written EXCEPT ![Cell(wr_pos')] = wr_dat']
    BY <1>3, WrittenStep
  <2>10. \A k \in 0..(g - 1) : Cell(rd_pos + k) \in 0..(Depth - 1)
    <3>1. \A k \in 0..(g - 1) : k \in 0..Depth
      BY <2>7, Sizes
    <3> QED
      BY <2>3, <3>1, CellInBuffer
  <2> QED
    BY <2>4, <2>8, <2>9, <2>10
<1> QED
  BY <1>2, <1>3

(***************************************************************************)
(* The marks of the open frame.                                            *)
(***************************************************************************)

LEMMA MarksStep ==
  ASSUME TypeOK, Layout, OpenMarks, NEW captured, WriteSide(captured), Store
  PROVE  OpenMarks'
<1>1. Places
  BY PlacesTyped
<1>2. Committed \in Position /\ OpenLen \in 0..(MaxPktLen + 1)
  BY <1>1, CommittedPlace
<1>3. PICK c \in Position : c = Committed
  BY <1>2
<1>4. PICK len \in 0..Depth : len = OpenLen
  BY <1>2, Sizes
<1>5. SUFFICES ASSUME NEW k \in 0..(OpenLen' - 1), Filled(k)'
               PROVE  Written'[Cell(Committed' + k)].last <=>
                         in_state' # "DATA" /\ k = OpenLen' - 1
  BY DEF OpenMarks
<1>6. \A j \in 0..(len - 1) : Filled(j) =>
          (Written[Cell(c + j)].last <=> in_state # "DATA" /\ j = len - 1)
  BY <1>3, <1>4 DEF OpenMarks
<1>7. \A j \in 0..(len - 1) : j >= 2 => Filled(j)
  BY DEF Filled
<1>8. CASE Begin(captured)
  <2>1. /\ in_state' = "DATA" /\ wr_ena' /\ wr_dat'.last = FALSE
        /\ OpenLen' = 3 /\ Committed' = c /\ wr_pos' = Pos(c + 2)
    BY <1>1, <1>3, <1>8, BeginStep DEF Latched
  <2>2. k = 2
    BY <1>5, <2>1 DEF Filled
  <2>3. 2 \in 0..(Depth - 1)
    BY Sizes
  <2>4. Written'[Cell(c + 2)] = wr_dat'
    BY <2>1, <2>3, WordGoesIn
  <2> QED
    BY <2>1, <2>2, <2>4
<1>9. CASE Idle(captured) \/ Update
  <2>1. OpenLen' = 0
    BY <1>1, <1>9, IdleStep, UpdateStep DEF Latched
  <2> QED
    BY <1>5, <2>1
<1>10. CASE More(captured) \/ Full(captured)
  <2>1. /\ in_state = "DATA" /\ in_state' \in {"DATA", "WR_LEN"} /\ wr_ena'
        /\ wr_dat'.last <=> in_state' # "DATA"
        /\ OpenLen' = len + 1 /\ Committed' = c /\ wr_pos' = Pos(c + len)
    BY <1>1, <1>3, <1>4, <1>10, AddStep DEF Latched
  <2>2. k >= 2 /\ k \in 0..len
    BY <1>4, <1>5, <2>1 DEF Filled
  <2>3. len \in 0..(Depth - 1)
    <3>1. Layout' /\ in_state' \in States
      BY <1>1, WriteMoves
    <3>2. OpenLen = Gap(wr_start, wr_pos) + 1 /\ Gap(wr_start, wr_pos) = wr_cnt
      BY <2>1 DEF OpenLen, Layout
    <3>3. wr_cnt \in Nat /\ wr_cnt <= MaxPktLen - 1
      BY <1>1, <2>1, Sizes DEF Layout, Places
    <3> QED
      BY <1>4, <3>2, <3>3, Sizes
  <2>4. /\ Written'[Cell(c + len)] = wr_dat'
        /\ \A j \in 0..(Depth - 1) : j # len => Written'[Cell(c + j)] = Written[Cell(c + j)]
    BY <2>1, <2>3, WordGoesIn
  <2>5. CASE k = len
    BY <2>1, <2>4, <2>5
  <2>6. CASE k # len
    <3>1. k \in 0..(len - 1) /\ k \in 0..(Depth - 1)
      BY <1>4, <2>2, <2>3, <2>6, Sizes
    <3>2. ~Written[Cell(c + k)].last
      BY <1>6, <1>7, <2>1, <2>2, <3>1
    <3>3. Written'[Cell(c + k)] = Written[Cell(c + k)]
      BY <2>4, <2>6, <3>1
    <3>4. k # OpenLen' - 1
      BY <2>1, <2>6, <1>4
    <3> QED
      BY <2>1, <3>2, <3>3, <3>4
  <2> QED
    BY <2>5, <2>6
<1>11. CASE Cut(captured)
  <2>1. /\ in_state = "DATA" /\ in_state' = "WR_LEN" /\ wr_ena' /\ wr_dat'.last = TRUE
        /\ OpenLen' = len /\ Committed' = c /\ wr_pos' = Pos(c + (len - 1))
    BY <1>1, <1>3, <1>4, <1>11, CutStep DEF Latched
  <2>2. k >= 2 /\ k \in 0..(len - 1) /\ len - 1 \in 0..(Depth - 1)
    <3>1. k >= 2 /\ k \in 0..(len - 1)
      BY <1>5, <2>1 DEF Filled
    <3> QED
      BY <1>4, <3>1, Sizes
  <2>3. /\ Written'[Cell(c + (len - 1))] = wr_dat'
        /\ \A j \in 0..(Depth - 1) : j # len - 1 => Written'[Cell(c + j)] = Written[Cell(c + j)]
    BY <2>1, <2>2, WordGoesIn
  <2>4. CASE k = len - 1
    BY <2>1, <2>3, <2>4
  <2>5. CASE k # len - 1
    <3>1. ~Written[Cell(c + k)].last
      BY <1>6, <1>7, <2>1, <2>2
    <3>2. k \in 0..(Depth - 1)
      BY <2>2, Sizes
    <3>3. Written'[Cell(c + k)] = Written[Cell(c + k)]
      BY <2>3, <2>5, <3>2
    <3> QED
      BY <2>1, <2>5, <3>1, <3>3
  <2> QED
    BY <2>4, <2>5
<1>12. CASE WaitForWord(captured)
  <2>1. /\ in_state = "DATA" /\ in_state' = "DATA" /\ ~wr_ena'
        /\ OpenLen' = len /\ Committed' = c
    BY <1>1, <1>3, <1>4, <1>12, WaitStep DEF Latched
  <2>2. Written' = Written
    BY <2>1, WrittenStep
  <2>3. k >= 2 /\ k \in 0..(len - 1)
    BY <1>5, <2>1 DEF Filled
  <2> QED
    BY <1>6, <1>7, <2>1, <2>2, <2>3
<1>13. CASE WriteLength
  <2>1. /\ in_state = "WR_LEN" /\ in_state' = "WR_TS" /\ wr_ena' /\ wr_dat'.last = FALSE
        /\ OpenLen' = len /\ Committed' = c /\ wr_pos' = Pos(c + 0)
    BY <1>1, <1>3, <1>4, <1>13, LengthStep DEF Latched
  <2>2. (k >= 2 \/ k = 0) /\ k \in 0..(len - 1) /\ 0 \in 0..(Depth - 1) /\ len >= 3
    <3>1. len >= 3
      BY <1>1, <1>4, <2>1, CommittedPlace
    <3> QED
      BY <1>5, <2>1, <3>1, Sizes DEF Filled
  <2>3. /\ Written'[Cell(c + 0)] = wr_dat'
        /\ \A j \in 0..(Depth - 1) : j # 0 => Written'[Cell(c + j)] = Written[Cell(c + j)]
    BY <2>1, <2>2, WordGoesIn
  <2>4. CASE k = 0
    BY <2>1, <2>2, <2>3, <2>4
  <2>5. CASE k >= 2
    <3>1. Written[Cell(c + k)].last <=> k = len - 1
      BY <1>6, <1>7, <2>1, <2>2, <2>5
    <3>2. k \in 0..(Depth - 1)
      BY <1>4, <2>2, Sizes
    <3>3. Written'[Cell(c + k)] = Written[Cell(c + k)]
      BY <2>3, <2>5, <3>2
    <3> QED
      BY <2>1, <3>1, <3>3
  <2> QED
    BY <2>2, <2>4, <2>5
<1>14. CASE WriteTimestamp
  <2>1. /\ in_state = "WR_TS" /\ in_state' = "WR_UPDATE" /\ wr_ena' /\ wr_dat'.last = FALSE
        /\ OpenLen' = len /\ Committed' = c /\ wr_pos' = Pos(c + 1)
    BY <1>1, <1>3, <1>4, <1>14, TimestampStep DEF Latched
  <2>2. k \in 0..(len - 1) /\ 1 \in 0..(Depth - 1) /\ len >= 3
    <3>1. len >= 3
      BY <1>1, <1>4, <2>1, CommittedPlace
    <3> QED
      BY <1>5, <2>1, <3>1, Sizes
  <2>3. /\ Written'[Cell(c + 1)] = wr_dat'
        /\ \A j \in 0..(Depth - 1) : j # 1 => Written'[Cell(c + j)] = Written[Cell(c + j)]
    BY <2>1, <2>2, WordGoesIn
  <2>4. CASE k = 1
    BY <2>1, <2>2, <2>3, <2>4
  <2>5. CASE k # 1
    <3>1. Filled(k)
      BY <2>1, <2>2, <2>5 DEF Filled
    <3>2. Written[Cell(c + k)].last <=> k = len - 1
      BY <1>6, <2>1, <2>2, <3>1
    <3>3. k \in 0..(Depth - 1)
      BY <1>4, <2>2, Sizes
    <3>4. Written'[Cell(c + k)] = Written[Cell(c + k)]
      BY <2>3, <2>5, <3>3
    <3> QED
      BY <2>1, <3>2, <3>4
  <2> QED
    BY <2>4, <2>5
<1> QED
  BY <1>8, <1>9, <1>10, <1>11, <1>12, <1>13, <1>14 DEF WriteSide

(***************************************************************************)
(* The read side.                                                          *)
(***************************************************************************)

\* rd_pos stays, or moves on by one of the words of closed frames.
Advance == rd_pos' = rd_pos \/ (rd_pos # Committed /\ rd_pos' = Pos(rd_pos + 1))

\* What is behind a position the read side cannot pass only gets less.
LEMMA GapFalls ==
  ASSUME NEW p \in Position, NEW q \in Position, NEW p2,
         p2 = p \/ (p # q /\ p2 = Pos(p + 1))
  PROVE  p2 \in Position /\ Gap(p2, q) \in Nat /\ Gap(p2, q) <= Gap(p, q)
<1>1. CASE p2 = p
  BY <1>1, GapIsNat
<1>2. CASE p # q /\ p2 = Pos(p + 1)
  <2>1. p2 \in Position /\ Gap(p2, q) = Gap(p, q) - 1
    BY <1>2, GapShrinks
  <2>2. Gap(p2, q) \in Nat /\ Gap(p, q) \in Nat
    BY <2>1, GapIsNat
  <2> QED
    BY <2>1, <2>2
<1> QED
  BY <1>1, <1>2

LEMMA ReadMoves ==
  ASSUME TypeOK, Layout, Room, Whole, NEW ready, ReadSide(ready)
  PROVE  Advance
<1>1. Places /\ Gap(rd_pos, Committed) <= Depth /\ Committed \in Position /\ rd_pos \in Position
  BY PlacesTyped, Backlog, CommittedPlace DEF Places
<1>2. PICK n \in Nat : Frames(n, rd_pos, Committed, Written) /\ Counted(n)
  BY DEF Whole
<1>3. n = 0 <=> rd_pos = Committed
  BY <1>1, <1>2, FewFrames
<1>4. CASE First
  <2>1. ~out_tvalid /\ in_pkts # out_pkts /\ rd_pos' = Pos(rd_pos + 1)
    BY <1>4 DEF First, Fetch
  <2>2. in_pkts \in Nat /\ out_pkts \in Nat /\ in_pkts < Depth /\ out_pkts < Depth
    BY Sizes DEF TypeOK
  <2>3. Behind = n
    BY <1>2, <2>1 DEF Counted
  <2>4. Behind # 0
    BY <2>1, <2>2, Sizes DEF Behind, Ahead
  <2> QED
    BY <1>3, <2>1, <2>3, <2>4 DEF Advance
<1>5. CASE Following(ready)
  <2>1. out_tvalid /\ ~out.last /\ rd_pos' = Pos(rd_pos + 1)
    BY <1>5 DEF Following, Fetch
  <2>2. n > 0
    BY <1>2, <2>1 DEF Counted
  <2> QED
    BY <1>2, <1>3, <2>1, <2>2 DEF Advance
<1>6. CASE Empty \/ Finish(ready) \/ Hold(ready)
  BY <1>6 DEF Empty, Finish, Hold, readVars, Advance
<1> QED
  BY <1>4, <1>5, <1>6 DEF ReadSide

(***************************************************************************)
(* The space check.                                                        *)
(***************************************************************************)

LEMMA SpaceStep ==
  ASSUME TypeOK, Layout, Room, Space
  PROVE  /\ used' = Gap(rd_pos, wr_start) /\ used' \in Nat /\ used' <= Depth
         /\ space_check' \in BOOLEAN
         /\ space_check' <=> used + MaxPktLen < Depth
<1>1. Places
  BY PlacesTyped
<1>2. used' = Gap(rd_pos, wr_start)
  BY <1>1, GapIs DEF Space, Places
<1>3. used' \in Nat /\ used' <= Depth
  BY <1>1, <1>2, Backlog
<1>4. space_check' = (used > Depth \/ Depth - used > MaxPktLen)
  BY DEF Space
<1>5. used \in Nat /\ used <= Depth
  BY <1>1 DEF Places
<1>6. (used > Depth \/ Depth - used > MaxPktLen) <=> used + MaxPktLen < Depth
  BY <1>5, Sizes
<1>7. space_check' \in BOOLEAN
  BY <1>4, Zenon
<1>8. space_check' <=> used + MaxPktLen < Depth
  BY <1>4, <1>6, Zenon
<1> QED
  BY <1>2, <1>3, <1>7, <1>8

LEMMA RoomStep ==
  ASSUME TypeOK, Layout, Room, NEW captured \in BOOLEAN, captured => in_tready,
         WriteSide(captured), Space, Advance
  PROVE  Room'
<1>1. Places /\ Layout'
  BY PlacesTyped, WriteMoves
<1>2. /\ Committed \in Position /\ rd_pos \in Position /\ wr_start \in Position
      /\ used \in Nat /\ used <= Depth
  BY <1>1, CommittedPlace DEF Places
<1>3. /\ rd_pos' \in Position /\ Gap(rd_pos', Committed) \in Nat
      /\ Gap(rd_pos', Committed) <= Gap(rd_pos, Committed)
  BY <1>2, GapFalls DEF Advance
<1>4. /\ Gap(rd_pos, Committed) \in Nat /\ Gap(rd_pos, Committed) <= Depth
      /\ Gap(rd_pos, wr_start) \in Nat /\ Gap(rd_pos, wr_start) <= Depth
  BY <1>1, Backlog
<1>5. /\ used' = Gap(rd_pos, wr_start) /\ used' \in Nat /\ used' <= Depth
      /\ space_check' <=> used + MaxPktLen < Depth
  BY SpaceStep
\* A step that ends in ST_IDLE.
<1>6. ASSUME in_state' = "IDLE", wr_start' = wr_start, Gap(rd_pos, wr_start) <= used,
             in_tready' => Gap(rd_pos, wr_start) + MaxPktLen < Depth,
             rd_pos' = rd_pos \/ (rd_pos # wr_start /\ rd_pos' = Pos(rd_pos + 1))
      PROVE  Room'
  <2>1. Gap(rd_pos', wr_start) \in Nat /\ Gap(rd_pos', wr_start) <= Gap(rd_pos, wr_start)
    BY <1>2, <1>6, GapFalls
  <2>2. Gap(rd_pos', wr_start') <= used'
    BY <1>5, <1>6, <2>1
  <2>3. in_tready' \/ space_check' => Gap(rd_pos', wr_start') + MaxPktLen < Depth
    <3>1. in_tready' \/ space_check' => Gap(rd_pos, wr_start) + MaxPktLen < Depth
      <4>1. space_check' => Gap(rd_pos, wr_start) + MaxPktLen < Depth
        BY <1>2, <1>4, <1>5, <1>6, Sizes
      <4> QED
        BY <1>6, <4>1
    <3>2. Gap(rd_pos, wr_start) + MaxPktLen < Depth => Gap(rd_pos', wr_start') + MaxPktLen < Depth
      BY <1>4, <1>6, <2>1, Sizes
    <3> QED
      BY <3>1, <3>2
  <2> QED
    BY <1>6, <2>2, <2>3 DEF Room
\* A step with an open frame afterwards.
<1>7. ASSUME in_state' # "IDLE", Committed' = Committed,
             in_state' \in {"WR_LEN", "WR_TS", "WR_UPDATE"} => ~in_tready',
             in_state' = "WR_UPDATE" => Gap(rd_pos', wr_start') <= used'
      PROVE  Room'
  <2>1. Gap(rd_pos, Committed) + MaxPktLen < Depth
    BY <1>1, <1>7, Granted
  <2>2. Gap(rd_pos', Committed') + MaxPktLen < Depth
    BY <1>3, <1>4, <1>7, <2>1, Sizes
  <2> QED
    BY <1>7, <2>2 DEF Room
<1>8. CASE Begin(captured)
  BY <1>1, <1>7, <1>8, BeginStep DEF Latched
<1>9. CASE Idle(captured)
  <2>1. /\ in_state = "IDLE" /\ in_state' = "IDLE" /\ wr_start' = wr_start
        /\ in_tready' = space_check
    BY <1>9 DEF Idle, Prepare
  <2>2. Committed = wr_start
    BY <1>1, <2>1, CommittedPlace
  <2>3. /\ Gap(rd_pos, wr_start) <= used
        /\ space_check => Gap(rd_pos, wr_start) + MaxPktLen < Depth
    BY <2>1 DEF Room
  <2>4. rd_pos' = rd_pos \/ (rd_pos # wr_start /\ rd_pos' = Pos(rd_pos + 1))
    BY <2>2 DEF Advance
  <2> QED
    BY <1>6, <2>1, <2>3, <2>4
<1>10. CASE More(captured) \/ Full(captured)
  <2>1. /\ in_state' = "DATA" \/ (in_state' = "WR_LEN" /\ ~in_tready')
        /\ Committed' = Committed
    BY <1>1, <1>10, AddStep DEF Latched
  <2> QED
    BY <1>7, <2>1
<1>11. CASE Cut(captured)
  BY <1>1, <1>7, <1>11, CutStep DEF Latched
<1>12. CASE WaitForWord(captured)
  BY <1>1, <1>7, <1>12, WaitStep DEF Latched
<1>13. CASE WriteLength
  <2>1. in_state = "WR_LEN" /\ in_state' = "WR_TS" /\ in_tready' = in_tready /\ Committed' = Committed
    BY <1>1, <1>13, LengthStep DEF Latched
  <2>2. ~in_tready
    BY <2>1 DEF Room
  <2> QED
    BY <1>7, <2>1, <2>2
<1>14. CASE WriteTimestamp
  <2>1. /\ in_state = "WR_TS" /\ in_state' = "WR_UPDATE" /\ in_tready' = in_tready
        /\ Committed' = Committed /\ wr_start' = wr_start
    BY <1>1, <1>14, TimestampStep DEF Latched
  <2>2. ~in_tready
    BY <2>1 DEF Room
  <2>3. rd_pos # wr_start
    BY <1>1, <2>1, Backlog
  <2>4. Gap(rd_pos', wr_start) <= Gap(rd_pos, wr_start)
    BY <1>2, <2>3, GapFalls DEF Advance
  <2> QED
    BY <1>5, <1>7, <2>1, <2>2, <2>4
<1>15. CASE Update
  <2>1. /\ in_state = "WR_UPDATE" /\ in_state' = "IDLE" /\ in_tready' = in_tready
        /\ wr_start' = wr_start
    BY <1>1, <1>15, UpdateStep
  <2>2. ~in_tready /\ Gap(rd_pos, wr_start) <= used
    BY <2>1 DEF Room
  <2>3. rd_pos # wr_start
    BY <1>1, <2>1, Backlog
  <2>4. rd_pos' = rd_pos \/ (rd_pos # wr_start /\ rd_pos' = Pos(rd_pos + 1))
    BY <2>3 DEF Advance
  <2> QED
    BY <1>6, <2>1, <2>2, <2>4
<1> QED
  BY <1>8, <1>9, <1>10, <1>11, <1>12, <1>13, <1>14, <1>15 DEF WriteSide

(***************************************************************************)
(* Frames and their counts.                                                *)
(***************************************************************************)

\* After the write side: one frame more with the update.
LEMMA FramesWritten ==
  ASSUME TypeOK, Layout, Room, OpenMarks, NEW captured \in BOOLEAN, captured => in_tready,
         WriteSide(captured), Store,
         NEW n \in Nat, Frames(n, rd_pos, Committed, Written)
  PROVE  /\ in_state = "WR_UPDATE" => Frames(n + 1, rd_pos, Committed', Written')
         /\ in_state # "WR_UPDATE" => Frames(n, rd_pos, Committed', Written')
         /\ Committed' \in Position /\ Gap(rd_pos, Committed') <= Depth
<1>1. Places /\ rd_pos \in Position /\ Committed \in Position
  BY PlacesTyped, CommittedPlace DEF Places
<1>2. Frames(n, rd_pos, Committed, Written')
  <2>1. \A k \in 0..(Gap(rd_pos, Committed) - 1) :
            Written'[Cell(rd_pos + k)] = Written[Cell(rd_pos + k)]
    BY KeepsUnread
  <2> QED
    BY <1>1, <2>1, FramesKept
<1>3. CASE in_state # "WR_UPDATE"
  <2>1. Committed' = Committed
    BY <1>1, <1>3, WriteMoves
  <2> QED
    BY <1>1, <1>2, <1>3, <2>1, Backlog
<1>4. CASE in_state = "WR_UPDATE"
  <2>1. Committed' = Pos(Committed + OpenLen) /\ Update /\ in_state' = "IDLE"
    BY <1>1, <1>4, WriteMoves
  <2>2. OpenLen \in 3..(MaxPktLen + 1)
    BY <1>4 DEF Layout
  <2>3. wr_start = Committed' /\ Gap(rd_pos, wr_start) = Gap(rd_pos, Committed) + OpenLen
        /\ Gap(rd_pos, wr_start) <= Depth
    BY <1>1, <1>4, <2>1, CommittedPlace, Backlog
  <2>4. ~wr_ena'
    BY <1>1, <2>1, UpdateStep
  <2>5. Written' = Written
    BY <2>4, WrittenStep
  <2>6. \A k \in 0..(OpenLen - 1) : Written'[Cell(Committed + k)].last <=> k = OpenLen - 1
    BY <1>4, <2>5 DEF OpenMarks, Filled
  <2>7. OpenLen \in 2..Depth /\ Gap(rd_pos, Committed) + OpenLen <= Depth
    BY <2>2, <2>3, Sizes
  <2>8. PICK len \in 2..Depth : len = OpenLen
    BY <2>7
  <2>9. Frames(n + 1, rd_pos, Pos(Committed + len), Written')
    BY <1>1, <1>2, <2>6, <2>7, <2>8, FrameAdded
  <2> QED
    BY <1>1, <1>4, <2>1, <2>3, <2>8, <2>9 DEF Places
<1> QED
  BY <1>3, <1>4

LEMMA CountUp ==
  ASSUME NEW a \in 0..(Depth - 1)
  PROVE  /\ (a + 1) % Depth \in 0..(Depth - 1)
         /\ a + 1 < Depth => (a + 1) % Depth = a + 1
         /\ a + 1 = Depth => (a + 1) % Depth = 0
<1>1. a + 1 \in Int /\ 0 <= a + 1 /\ a + 1 <= Depth
  BY Sizes
<1>2. a + 1 < Depth => (a + 1) % Depth = a + 1
  BY <1>1, Sizes, SmallMod
<1>3. a + 1 = Depth => (a + 1) % Depth = 0
  <2>1. Depth <= a + 1 /\ a + 1 < 2 * Depth => (a + 1) % Depth = a + 1 - Depth
    BY <1>1, Sizes, SmallMod
  <2> QED
    BY <1>1, <2>1, Sizes
<1> QED
  BY <1>1, <1>2, <1>3, Sizes

LEMMA AheadMoves ==
  ASSUME NEW a \in 0..(Depth - 1), NEW b \in 0..(Depth - 1)
  PROVE  /\ Ahead(a, b) \in Nat
         /\ Ahead(a, b) + 1 < Depth => Ahead((a + 1) % Depth, b) = Ahead(a, b) + 1
         /\ Ahead(a, b) > 0 => Ahead(a, (b + 1) % Depth) = Ahead(a, b) - 1
<1>1. CASE a + 1 < Depth /\ b + 1 < Depth
  BY <1>1, CountUp, Sizes DEF Ahead
<1>2. CASE a + 1 = Depth /\ b + 1 < Depth
  BY <1>2, CountUp, Sizes DEF Ahead
<1>3. CASE a + 1 < Depth /\ b + 1 = Depth
  BY <1>3, CountUp, Sizes DEF Ahead
<1>4. CASE a + 1 = Depth /\ b + 1 = Depth
  BY <1>4, CountUp, Sizes DEF Ahead
<1> QED
  BY <1>1, <1>2, <1>3, <1>4, Sizes

\* The word the read side fetches is the one that is written last, if it is written.
LEMMA FetchesWritten ==
  ASSUME TypeOK, Layout, Room, rd_pos # Committed
  PROVE  r_data[Cell(rd_pos)] = Written[Cell(rd_pos)]
<1>1. Places /\ rd_pos \in Position /\ Committed \in Position
  BY PlacesTyped, CommittedPlace DEF Places
<1>2. Gap(rd_pos, Committed) \in Nat /\ Gap(rd_pos, Committed) # 0
  BY <1>1, GapIsNat
<1>3. 0 \in 0..(Gap(rd_pos, Committed) - 1) /\ rd_pos + 0 = rd_pos
  BY <1>1, <1>2, Sizes DEF Position
<1>4. Cell(rd_pos) \in 0..(Depth - 1) /\ DOMAIN r_data = 0..(Depth - 1)
  <2>1. Cell(rd_pos + 0) \in 0..(Depth - 1)
    BY <1>1, CellInBuffer, Sizes
  <2> QED
    BY <1>3, <2>1 DEF TypeOK
<1>5. CASE wr_ena
  <2>1. Cell(rd_pos) # Cell(wr_pos)
    BY <1>1, <1>3, <1>5, WriteApart
  <2> QED
    BY <1>4, <1>5, <2>1 DEF Written
<1>6. CASE ~wr_ena
  BY <1>6 DEF Written
<1> QED
  BY <1>5, <1>6

LEMMA WholeStep ==
  ASSUME Inv, NEW captured \in BOOLEAN, captured => in_tready, NEW ready,
         WriteSide(captured), Store, Space, ReadSide(ready)
  PROVE  Whole'
<1>1. /\ TypeOK /\ Layout /\ Room /\ OpenMarks /\ Whole /\ Places
      /\ rd_pos \in Position /\ Committed \in Position
      /\ in_pkts \in 0..(Depth - 1) /\ out_pkts \in 0..(Depth - 1)
  BY PlacesTyped, CommittedPlace DEF Inv, Places, TypeOK
<1>2. PICK n \in Nat : Frames(n, rd_pos, Committed, Written) /\ Counted(n)
  BY <1>1 DEF Whole
<1>3. Gap(rd_pos, Committed) <= Depth
  BY <1>1, Backlog
<1>4. n = 0 <=> rd_pos = Committed
  BY <1>1, <1>2, <1>3, FewFrames
<1>5. PICK m \in Nat :
          /\ Frames(m, rd_pos, Committed', Written')
          /\ in_state = "WR_UPDATE" => m = n + 1
          /\ in_state # "WR_UPDATE" => m = n
  <2>1. /\ in_state = "WR_UPDATE" => Frames(n + 1, rd_pos, Committed', Written')
        /\ in_state # "WR_UPDATE" => Frames(n, rd_pos, Committed', Written')
    BY <1>1, <1>2, FramesWritten
  <2>2. n + 1 \in Nat
    OBVIOUS
  <2>3. CASE in_state = "WR_UPDATE"
    BY <2>1, <2>2, <2>3
  <2>4. CASE in_state # "WR_UPDATE"
    BY <2>1, <2>4
  <2> QED
    BY <2>3, <2>4
<1>6. Committed' \in Position /\ Gap(rd_pos, Committed') <= Depth
  BY <1>1, <1>2, FramesWritten
<1>7. m + 1 < Depth
  BY <1>1, <1>5, <1>6, FewFrames
<1>8. PICK x \in {0, 1} : x = IF out_tvalid /\ out.last THEN 1 ELSE 0
  OBVIOUS
<1>9. Ahead(in_pkts, out_pkts) = n + x
  BY <1>2, <1>8 DEF Counted, Behind
<1>10. in_pkts' \in 0..(Depth - 1) /\ Ahead(in_pkts', out_pkts) = m + x
  <2>1. CASE in_state = "WR_UPDATE"
    <3>1. in_pkts' = (in_pkts + 1) % Depth
      BY <1>1, <2>1, WriteMoves DEF Update, Show
    <3>2. m = n + 1 /\ n + x + 1 < Depth
      BY <1>5, <1>7, <1>8, <2>1, Sizes
    <3>3. Ahead((in_pkts + 1) % Depth, out_pkts) = n + x + 1
      BY <1>1, <1>9, <3>2, AheadMoves
    <3> QED
      BY <1>1, <1>8, <3>1, <3>2, <3>3, CountUp
  <2>2. CASE in_state # "WR_UPDATE"
    BY <1>1, <1>5, <1>9, <2>2, WriteMoves
  <2> QED
    BY <2>1, <2>2
<1>11. CASE First \/ Following(ready)
  <2>1. /\ out' = r_data[Cell(rd_pos)] /\ out_tvalid' = TRUE
        /\ rd_pos' = Pos(rd_pos + 1) /\ out_pkts' = out_pkts
        /\ ~(out_tvalid /\ out.last)
    BY <1>11 DEF First, Following, Fetch
  <2>2. Pos(rd_pos + 1) # rd_pos
    BY <1>1, PosIs, Sizes DEF Position
  <2>3. rd_pos # Committed
    BY <1>1, <2>1, <2>2, ReadMoves DEF Advance
  <2>4. n > 0 /\ m > 0
    BY <1>4, <1>5, <2>3
  <2>5. out' = Written'[Cell(rd_pos)]
    <3>1. Gap(rd_pos, Committed) \in Nat /\ Gap(rd_pos, Committed) # 0
      BY <1>1, <2>3, GapIsNat
    <3>2. 0 \in 0..(Gap(rd_pos, Committed) - 1) /\ rd_pos + 0 = rd_pos
      BY <1>1, <3>1, Sizes DEF Position
    <3>3. Written'[Cell(rd_pos + 0)] = Written[Cell(rd_pos + 0)]
      BY <1>1, <3>2, KeepsUnread
    <3>4. r_data[Cell(rd_pos)] = Written[Cell(rd_pos)]
      BY <1>1, <2>3, FetchesWritten
    <3> QED
      BY <2>1, <3>2, <3>3, <3>4
  <2>6. /\ Written'[Cell(rd_pos)].last => Frames(m - 1, Pos(rd_pos + 1), Committed', Written')
        /\ ~Written'[Cell(rd_pos)].last => Frames(m, Pos(rd_pos + 1), Committed', Written')
    BY <1>1, <1>5, <1>6, <2>4, FrameFetched
  <2>7. x = 0 /\ Ahead(in_pkts', out_pkts') = m
    BY <1>5, <1>8, <1>10, <2>1
  <2>8. CASE out'.last
    <3>1. m - 1 \in Nat /\ Frames(m - 1, rd_pos', Committed', Written')
      BY <2>1, <2>4, <2>5, <2>6, <2>8
    <3>2. Counted(m - 1)'
      BY <1>5, <2>1, <2>7, <2>8 DEF Counted, Behind
    <3> QED
      BY <3>1, <3>2 DEF Whole
  <2>9. CASE ~out'.last
    <3>1. Frames(m, rd_pos', Committed', Written')
      BY <2>1, <2>5, <2>6, <2>9
    <3>2. Counted(m)'
      BY <1>5, <2>1, <2>4, <2>7, <2>9 DEF Counted, Behind
    <3> QED
      BY <3>1, <3>2 DEF Whole
  <2> QED
    BY <2>8, <2>9
<1>12. CASE Empty
  <2>1. ~out_tvalid /\ rd_pos' = rd_pos /\ out_pkts' = out_pkts /\ out_tvalid' = out_tvalid
    BY <1>12 DEF Empty
  <2>2. x = 0
    BY <1>8, <2>1
  <2>3. Counted(m)'
    BY <1>5, <1>10, <2>1, <2>2 DEF Counted, Behind
  <2> QED
    BY <1>5, <2>1, <2>3 DEF Whole
<1>13. CASE Finish(ready)
  <2>1. /\ out_tvalid /\ out.last /\ ~out_tvalid' /\ rd_pos' = rd_pos
        /\ out_pkts' = (out_pkts + 1) % Depth
    BY <1>13 DEF Finish
  <2>2. x = 1
    BY <1>8, <2>1
  <2>3. Ahead(in_pkts', out_pkts') = m
    <3>1. Ahead(in_pkts', out_pkts) = m + 1 /\ m + 1 > 0
      BY <1>5, <1>10, <2>2
    <3>2. Ahead(in_pkts', (out_pkts + 1) % Depth) = m + 1 - 1
      BY <1>1, <1>10, <3>1, AheadMoves
    <3> QED
      BY <1>5, <2>1, <3>2
  <2>4. Counted(m)'
    BY <1>5, <2>1, <2>3 DEF Counted, Behind
  <2> QED
    BY <1>5, <2>1, <2>4 DEF Whole
<1>14. CASE Hold(ready)
  <2>1. rd_pos' = rd_pos /\ out_pkts' = out_pkts /\ out_tvalid' = out_tvalid /\ out' = out
    BY <1>14 DEF Hold, readVars
  <2>2. Counted(m)'
    <3>1. Ahead(in_pkts', out_pkts') = m + (IF out_tvalid /\ out.last THEN 1 ELSE 0)
      BY <1>8, <1>10, <2>1
    <3>2. out_tvalid /\ ~out.last => m > 0
      BY <1>2, <1>5 DEF Counted
    <3> QED
      BY <2>1, <3>1, <3>2 DEF Counted, Behind
  <2> QED
    BY <1>5, <2>1, <2>2 DEF Whole
<1> QED
  BY <1>11, <1>12, <1>13, <1>14 DEF ReadSide

(***************************************************************************)
(* Types.                                                                  *)
(***************************************************************************)

Kinds == {"none", "header", "time", "data"}
WordOK(w) == w.kind \in Kinds /\ w.last \in BOOLEAN

LEMMA WordsTyped ==
  TypeOK => WordOK(out) /\ WordOK(wr_dat) /\ \A i \in 0..(Depth - 1) : WordOK(r_data[i])
  BY DEF TypeOK, WordOK, Kinds

LEMMA NewWord ==
  ASSUME NEW kind \in Kinds, NEW value, NEW last \in BOOLEAN
  PROVE  WordOK(Word(kind, value, last))
  BY DEF WordOK, Word

LEMMA WordStep ==
  ASSUME TypeOK, Layout, NEW captured, WriteSide(captured)
  PROVE  WordOK(wr_dat') /\ wr_ena' \in BOOLEAN /\ in_tready' \in BOOLEAN
<1>1. WordOK(wr_dat) /\ in_tready \in BOOLEAN /\ space_check \in BOOLEAN
  BY WordsTyped DEF TypeOK
<1>2. Kinds = {"none", "header", "time", "data"} /\ TRUE \in BOOLEAN /\ FALSE \in BOOLEAN
  BY DEF Kinds
<1>3. CASE Begin(captured)
  BY <1>2, <1>3, NewWord DEF Begin
<1>4. CASE Idle(captured)
  BY <1>1, <1>2, <1>4 DEF Idle
<1>5. CASE More(captured)
  <2>1. wr_dat' = Word("data", stamp, FALSE) /\ wr_ena' = TRUE /\ in_tready' = in_tready
    BY <1>5 DEF More, AddWord
  <2> QED
    BY <1>1, <1>2, <2>1, NewWord
<1>6. CASE Full(captured)
  <2>1. wr_dat' = Word("data", stamp, TRUE) /\ wr_ena' = TRUE /\ in_tready' = FALSE
    BY <1>6 DEF Full, AddWord
  <2> QED
    BY <1>2, <2>1, NewWord
<1>7. CASE Cut(captured)
  <2>1. wr_dat' = [wr_dat EXCEPT !.last = TRUE] /\ wr_ena' = TRUE /\ in_tready' = FALSE
    BY <1>7 DEF Cut
  <2>2. wr_dat'.kind = wr_dat.kind /\ wr_dat'.last = TRUE
    BY <2>1 DEF Layout
  <2> QED
    BY <1>1, <2>1, <2>2 DEF WordOK
<1>8. CASE WaitForWord(captured)
  <2>1. wr_dat' = wr_dat /\ wr_ena' = FALSE /\ in_tready' = TRUE
    BY <1>8 DEF WaitForWord
  <2> QED
    BY <1>1, <1>2, <2>1
<1>9. CASE WriteLength
  <2>1. wr_dat' = Word("header", <<num_pkts_in, wr_cnt>>, FALSE) /\ wr_ena' = TRUE /\ in_tready' = in_tready
    BY <1>9 DEF WriteLength
  <2> QED
    BY <1>1, <1>2, <2>1, NewWord
<1>10. CASE WriteTimestamp
  <2>1. wr_dat' = Word("time", r_timestamp, FALSE) /\ wr_ena' = TRUE /\ in_tready' = in_tready
    BY <1>10 DEF WriteTimestamp
  <2> QED
    BY <1>1, <1>2, <2>1, NewWord
<1>11. CASE Update
  <2>1. wr_dat' = Nothing /\ wr_ena' = FALSE /\ in_tready' = in_tready
    BY <1>11 DEF Update
  <2>2. WordOK(Word("none", 0, FALSE))
    BY <1>2, NewWord
  <2> QED
    BY <1>1, <1>2, <2>1, <2>2 DEF Nothing
<1> QED
  BY <1>3, <1>4, <1>5, <1>6, <1>7, <1>8, <1>9, <1>10, <1>11 DEF WriteSide

\* What is counted modulo a number.
LEMMA Wraps ==
  ASSUME NEW M \in Nat \ {0}, NEW x \in 0..(M - 1)
  PROVE  (x + 1) % M \in 0..(M - 1)
  BY SMT

LEMMA NumbersStep ==
  ASSUME TypeOK, NEW captured, WriteSide(captured)
  PROVE  num_pkts_in' \in 0..(Numbers - 1) /\ r_timestamp' \in Stamp /\ in_pkts' \in 0..(Depth - 1)
<1>1. /\ num_pkts_in \in 0..(Numbers - 1) /\ r_timestamp \in Stamp /\ stamp \in Stamp
      /\ in_pkts \in 0..(Depth - 1)
  BY DEF TypeOK
<1>2. (num_pkts_in + 1) % Numbers \in 0..(Numbers - 1)
  BY <1>1, Wraps, SizeAssumption DEF SizeAssumption
<1>3. (in_pkts + 1) % Depth \in 0..(Depth - 1)
  BY <1>1, CountUp
<1>4. CASE Begin(captured) \/ Idle(captured)
  <2>1. r_timestamp' = stamp /\ in_pkts' = in_pkts
    BY <1>4 DEF Begin, Idle, Prepare
  <2>2. num_pkts_in' = num_pkts_in \/ num_pkts_in' = (num_pkts_in + 1) % Numbers
    BY <1>4 DEF Begin, Idle
  <2> QED
    BY <1>1, <1>2, <2>1, <2>2
<1>5. CASE More(captured) \/ Full(captured) \/ Cut(captured) \/ WaitForWord(captured) \/ WriteTimestamp
  <2>1. num_pkts_in' = num_pkts_in /\ r_timestamp' = r_timestamp /\ in_pkts' = in_pkts
    BY <1>5 DEF More, Full, AddWord, Cut, WaitForWord, WriteTimestamp, Frozen
  <2> QED
    BY <1>1, <2>1
<1>6. CASE WriteLength
  BY <1>1, <1>6 DEF WriteLength
<1>7. CASE Update
  BY <1>1, <1>3, <1>7 DEF Update, Show
<1> QED
  BY <1>4, <1>5, <1>6, <1>7 DEF WriteSide

LEMMA OutStep ==
  ASSUME TypeOK, NEW ready, ReadSide(ready), rd_pos \in Position
  PROVE  /\ WordOK(out') /\ out_tvalid' \in BOOLEAN /\ out_tfirst' \in BOOLEAN
         /\ out_pkts' \in 0..(Depth - 1) /\ rd_pos' \in Position
<1>1. /\ WordOK(out) /\ out_tvalid \in BOOLEAN /\ out_tfirst \in BOOLEAN
      /\ out_pkts \in 0..(Depth - 1)
  BY WordsTyped DEF TypeOK
<1>2. WordOK(Nothing)
  BY NewWord DEF Nothing, Kinds
<1>3. (out_pkts + 1) % Depth \in 0..(Depth - 1)
  BY <1>1, CountUp
<1>4. WordOK(r_data[Cell(rd_pos)])
  <2>1. Cell(rd_pos + 0) \in 0..(Depth - 1)
    BY CellInBuffer, Sizes
  <2>2. rd_pos + 0 = rd_pos
    BY Sizes DEF Position
  <2> QED
    BY <2>1, <2>2, WordsTyped
<1>5. Pos(rd_pos + 1) \in Position
  BY PosIs, Sizes DEF Position
<1>6. CASE First \/ Following(ready)
  BY <1>1, <1>4, <1>5, <1>6 DEF First, Following, Fetch
<1>7. CASE Empty
  BY <1>1, <1>2, <1>7 DEF Empty
<1>8. CASE Finish(ready)
  BY <1>1, <1>2, <1>3, <1>8 DEF Finish
<1>9. CASE Hold(ready)
  BY <1>1, <1>9 DEF Hold, readVars
<1> QED
  BY <1>6, <1>7, <1>8, <1>9 DEF ReadSide

\* TypeOK in the terms used above.
Typed ==
    /\ ena \in BOOLEAN /\ switches \in 0..MaxSwitches /\ stamp \in Stamp
    /\ Places
    /\ in_tready \in BOOLEAN /\ wr_ena \in BOOLEAN
    /\ in_pkts \in 0..(Depth - 1) /\ out_pkts \in 0..(Depth - 1)
    /\ num_pkts_in \in 0..(Numbers - 1)
    /\ r_timestamp \in Stamp
    /\ space_check \in BOOLEAN
    /\ out_tvalid \in BOOLEAN /\ out_tfirst \in BOOLEAN
    /\ DOMAIN r_data = 0..(Depth - 1)
    /\ WordOK(out) /\ WordOK(wr_dat) /\ \A i \in 0..(Depth - 1) : WordOK(r_data[i])

LEMMA TypedIs == Typed => TypeOK
<1> SUFFICES ASSUME Typed PROVE TypeOK
  OBVIOUS
<1>1. wr_cnt \in 0..MaxPktLen + 1 /\ max_samples \in 0..(MaxPktLen - 3) /\ used \in 0..Depth
  BY Sizes DEF Typed, Places
<1>2. in_state \in States /\ wr_pos \in Position /\ wr_start \in Position /\ rd_pos \in Position
  BY DEF Typed, Places
<1>3. \A w \in {out, wr_dat} \cup {r_data[i] : i \in DOMAIN r_data} : WordOK(w)
  BY DEF Typed
<1> QED
  BY <1>1, <1>2, <1>3 DEF Typed, TypeOK, WordOK, Kinds, States, Position

LEMMA TypeStep ==
  ASSUME TypeOK, Layout, Room, NEW captured \in BOOLEAN, NEW ready,
         Clock(captured, ready), Keep \/ Switch
  PROVE  TypeOK'
<1>1. Places
  BY PlacesTyped
<1>2. ena' \in BOOLEAN /\ switches' \in 0..MaxSwitches
  <2>1. CASE Keep
    BY <2>1 DEF Keep, TypeOK
  <2>2. CASE Switch
    <3>1. switches \in 0..MaxSwitches /\ MaxSwitches \in Nat
      BY SizeAssumption DEF SizeAssumption, TypeOK
    <3>2. switches' \in 0..MaxSwitches
      BY <2>2, <3>1 DEF Switch
    <3>3. ena' \in BOOLEAN
      BY <2>2, Zenon DEF Switch
    <3> QED
      BY <3>2, <3>3
  <2> QED
    BY <2>1, <2>2
<1>3. stamp' \in Stamp
  <2>1. stamp \in Stamp /\ Stamp = 0..(Stamps - 1)
    BY DEF TypeOK, Stamp
  <2>2. (stamp + 1) % Stamps \in Stamp
    BY <2>1, Wraps, SizeAssumption DEF SizeAssumption
  <2>3. stamp' = stamp \/ stamp' = (stamp + 1) % Stamps
    BY DEF Clock
  <2> QED
    BY <2>1, <2>2, <2>3
<1>4. WriteSide(captured) /\ Store /\ Space /\ ReadSide(ready)
  BY DEF Clock
<1>5. /\ in_state' \in States /\ wr_pos' \in Position /\ wr_start' \in Position
      /\ wr_cnt' \in Nat /\ wr_cnt' <= MaxPktLen + 1
      /\ max_samples' \in Nat /\ max_samples' <= MaxPktLen - 3
  BY <1>1, <1>4, WriteMoves
<1>6. used' \in Nat /\ used' <= Depth /\ space_check' \in BOOLEAN
  BY <1>4, SpaceStep
<1>7. rd_pos \in Position
  BY <1>1 DEF Places
<1>8. /\ WordOK(out') /\ out_tvalid' \in BOOLEAN /\ out_tfirst' \in BOOLEAN
      /\ out_pkts' \in 0..(Depth - 1) /\ rd_pos' \in Position
  BY <1>4, <1>7, OutStep
<1>9. Places'
  BY <1>5, <1>6, <1>8 DEF Places
<1>10. WordOK(wr_dat') /\ wr_ena' \in BOOLEAN /\ in_tready' \in BOOLEAN
  BY <1>4, WordStep
<1>11. num_pkts_in' \in 0..(Numbers - 1) /\ r_timestamp' \in Stamp /\ in_pkts' \in 0..(Depth - 1)
  BY <1>4, NumbersStep
<1>12. DOMAIN r_data' = 0..(Depth - 1) /\ \A i \in 0..(Depth - 1) : WordOK(r_data'[i])
  <2>1. DOMAIN r_data = 0..(Depth - 1)
    BY DEF TypeOK
  <2>2. r_data' = IF wr_ena THEN [r_data EXCEPT ![Cell(wr_pos)] = wr_dat] ELSE r_data
    BY <1>4 DEF Store, Written
  <2>3. DOMAIN r_data' = 0..(Depth - 1)
    BY <2>1, <2>2
  <2>4. \A i \in 0..(Depth - 1) : r_data'[i] = r_data[i] \/ r_data'[i] = wr_dat
    BY <2>1, <2>2
  <2> QED
    BY <2>3, <2>4, WordsTyped
<1>13. Typed'
  BY <1>2, <1>3, <1>8, <1>9, <1>10, <1>11, <1>12, <1>6 DEF Typed
<1> QED
  BY <1>13, TypedIs, PTL

(***************************************************************************)
(* The invariant holds.                                                    *)
(***************************************************************************)

LEMMA InvInit == Init => Inv
<1> SUFFICES ASSUME Init PROVE Inv
  OBVIOUS
<1>1. 0 \in Position /\ 0 \in Stamp /\ 0 \in 0..(Numbers - 1) /\ 0 \in 0..MaxSwitches
  BY Sizes, SizeAssumption DEF SizeAssumption, Position, Stamp
<1>2. WordOK(Nothing) /\ {"kind", "last"} \subseteq DOMAIN Nothing
  BY NewWord DEF Nothing, Kinds, Word
<1>3. Places
  BY <1>1, Sizes DEF Init, Places, States
<1>4. Typed
  <2>1. DOMAIN r_data = 0..(Depth - 1) /\ \A i \in 0..(Depth - 1) : r_data[i] = Nothing
    BY DEF Init
  <2>2. 0 \in 0..(Depth - 1)
    BY Sizes
  <2> QED
    BY <1>1, <1>2, <1>3, <2>1, <2>2 DEF Init, Typed
<1>5. TypeOK
  BY <1>4, TypedIs
<1>6. Layout
  BY <1>2 DEF Init, Layout
<1>7. Gap(0, 0) = 0
  BY DEF Gap
<1>8. Room
  BY <1>7 DEF Init, Room
<1>9. in_state = "IDLE" /\ Committed = 0 /\ OpenLen = 0 /\ rd_pos = 0
  BY DEF Init, Committed, OpenLen
<1>10. OpenMarks
  BY <1>9 DEF OpenMarks
<1>11. Whole
  <2>1. Frames(0, rd_pos, Committed, Written)
    <3> DEFINE e == [i \in 1..0 |-> 0]
    <3>1. e \in [1..0 -> Nat]
      OBVIOUS
    <3>2. Ends(e, 0, rd_pos, Committed, Written)
      BY <1>7, <1>9, <3>1 DEF Ends
    <3> QED
      BY <3>1, <3>2 DEF Frames
  <2>2. Counted(0)
    BY DEF Init, Counted, Behind, Ahead
  <2> QED
    BY <2>1, <2>2 DEF Whole
<1> QED
  BY <1>5, <1>6, <1>8, <1>10, <1>11 DEF Inv

LEMMA InvNext == ASSUME Inv, [Next]_vars PROVE Inv'
<1>1. CASE Next
  <2>1. PICK captured \in BOOLEAN, ready \in BOOLEAN : Clock(captured, ready) /\ (Keep \/ Switch)
    BY <1>1 DEF Next
  <2>2. TypeOK /\ Layout /\ Room /\ OpenMarks /\ Whole /\ Places
    BY PlacesTyped DEF Inv
  <2>3. /\ captured => in_tready
        /\ WriteSide(captured) /\ Store /\ Space /\ ReadSide(ready)
    BY <2>1 DEF Clock
  <2>4. TypeOK'
    BY <2>1, <2>2, TypeStep
  <2>5. Layout'
    BY <2>2, <2>3, WriteMoves
  <2>6. Room'
    <3>1. Advance
      BY <2>2, <2>3, ReadMoves
    <3> QED
      BY <2>2, <2>3, <3>1, RoomStep
  <2>7. OpenMarks'
    BY <2>2, <2>3, MarksStep
  <2>8. Whole'
    BY <2>3, WholeStep
  <2> QED
    BY <2>4, <2>5, <2>6, <2>7, <2>8 DEF Inv
<1>2. CASE UNCHANGED vars
  <2>1. /\ UNCHANGED <<in_state, in_tready, in_pkts, wr_ena, wr_dat, wr_cnt, wr_pos, wr_start>>
        /\ UNCHANGED <<max_samples, r_data, used, space_check, rd_pos, out_pkts, out_tvalid, out>>
        /\ UNCHANGED <<ena, switches, stamp, num_pkts_in, r_timestamp, out_tfirst>>
    BY <1>2 DEF vars, inVars, writeVars, spaceVars, readVars
  <2>2. Committed' = Committed /\ Written' = Written
    BY <2>1 DEF Committed, Written
  <2>3. OpenLen' = OpenLen
    BY <2>1, <2>2 DEF OpenLen
  <2>4. TypeOK'
    BY <2>1 DEF Inv, TypeOK
  <2>5. Layout'
    BY <2>1, <2>3 DEF Inv, Layout
  <2>6. Room'
    BY <2>1, <2>2 DEF Inv, Room
  <2>7. OpenMarks'
    BY <2>1, <2>2, <2>3 DEF Inv, OpenMarks, Filled
  <2>8. Whole'
    <3>1. PICK n \in Nat : Frames(n, rd_pos, Committed, Written) /\ Counted(n)
      BY DEF Inv, Whole
    <3>2. Counted(n)'
      BY <2>1, <3>1 DEF Counted, Behind
    <3> QED
      BY <2>1, <2>2, <3>1, <3>2 DEF Whole
  <2> QED
    BY <2>4, <2>5, <2>6, <2>7, <2>8 DEF Inv
<1> QED
  BY <1>1, <1>2

\* Every reachable state has whole frames before the read side and room behind them.
LEMMA InvHolds == Spec => []Inv
<1>1. Init => Inv
  BY InvInit
<1>2. Inv /\ [Next]_vars => Inv'
  BY InvNext
<1> QED
  BY <1>1, <1>2, PTL DEF Spec

\* No register, count or position of the circuit leaves its range, for every size of
\* buffer and frame: `used` never passes the size of the buffer.
THEOREM TypeCorrect == Spec => []TypeOK
<1>1. Inv => TypeOK
  BY DEF Inv
<1> QED
  BY <1>1, InvHolds, PTL

LEMMA UnreadLength ==
  ASSUME Places, Layout, Gap(rd_pos, Committed) \in Nat
  PROVE  Len(Unread) = Gap(rd_pos, Committed)
<1>1. PICK g \in Nat : g = Gap(rd_pos, Committed)
  OBVIOUS
<1>2. Pos(Committed - rd_pos) = g
  BY <1>1, CommittedPlace, GapIs DEF Places
<1> DEFINE S == {Written[Cell(rd_pos + i - 1)] : i \in 1..g}
<1>3. Unread = [i \in 1..g |-> Written[Cell(rd_pos + i - 1)]]
  BY <1>2 DEF Unread, Stored
<1>4. Unread \in [1..g -> S] /\ DOMAIN Unread = 1..g
  BY <1>3
<1> HIDE DEF S
<1>5. Unread \in Seq(S)
  BY <1>4, SeqDef
<1>6. Len(Unread) \in Nat /\ DOMAIN Unread = 1..Len(Unread)
  BY <1>5, LenProperties
<1>7. 1..g = 1..Len(Unread)
  BY <1>4, <1>6
<1> QED
  BY <1>1, <1>6, <1>7

\* Where the words of the open frame end.
LEMMA CollectedPlace ==
  ASSUME Places, Layout, in_state # "IDLE"
  PROVE  Collected = Pos(Committed + OpenLen)
<1>1. wr_start \in Position /\ OpenLen \in 0..(MaxPktLen + 1)
  BY CommittedPlace DEF Places
<1>2. CASE in_state \in {"DATA", "WR_LEN"}
  <2>1. /\ Collected = Pos(wr_pos + 1) /\ Committed = wr_start
        /\ OpenLen >= 3 /\ wr_pos = Pos(wr_start + (OpenLen - 1))
    BY <1>2, CommittedPlace DEF Collected
  <2>2. PICK k \in 0..Depth : k = OpenLen - 1
    BY <1>1, <2>1, Sizes
  <2>3. 1 \in 0..Depth /\ k + 1 <= 2 * Depth - 1
    BY Sizes, <2>2
  <2>4. Pos(Pos(wr_start + k) + 1) = Pos(wr_start + k + 1)
    BY <1>1, <2>3, StepOn
  <2>5. wr_start + k + 1 = wr_start + OpenLen
    BY <1>1, <2>2, Sizes DEF Position
  <2> QED
    BY <2>1, <2>2, <2>4, <2>5
<1>3. CASE in_state \in {"WR_TS", "WR_UPDATE"}
  <2>1. Collected = wr_start
    BY <1>3 DEF Collected
  <2> QED
    BY <1>3, <2>1, CommittedPlace
<1> QED
  BY <1>2, <1>3 DEF Places, States

LEMMA NoOverrunHolds == Inv => NoOverrun
<1> SUFFICES ASSUME Inv PROVE NoOverrun
  OBVIOUS
<1>1. TypeOK /\ Layout /\ Room /\ Places
  BY PlacesTyped DEF Inv
<1>2. /\ Committed \in Position /\ rd_pos \in Position /\ wr_start \in Position /\ wr_pos \in Position
      /\ OpenLen \in 0..(MaxPktLen + 1)
  BY <1>1, CommittedPlace DEF Places
<1>3. Gap(rd_pos, Committed) \in Nat
  BY <1>1, Backlog
<1>4. ASSUME in_state # "IDLE" PROVE Pos(Collected - rd_pos) <= Depth
  <2>1. Gap(rd_pos, Committed) + MaxPktLen < Depth
    BY <1>1, <1>4 DEF Room
  <2>2. OpenLen \in Nat /\ Gap(rd_pos, Committed) + OpenLen <= Depth
    BY <1>2, <1>3, <2>1, Sizes
  <2>3. Collected = Pos(Committed + OpenLen)
    BY <1>1, <1>4, CollectedPlace
  <2>4. OpenLen \in 0..Depth
    BY <1>3, <2>2, Sizes
  <2>5. Collected \in Position
    BY <1>2, <2>3, <2>4, StepOn
  <2>6. Gap(rd_pos, Collected) = Gap(rd_pos, Committed) + OpenLen
    BY <1>2, <2>2, <2>3, GapAdds
  <2>7. Pos(Collected - rd_pos) = Gap(rd_pos, Collected)
    BY <1>2, <2>5, GapIs
  <2> QED
    BY <2>2, <2>6, <2>7
<1>5. ASSUME wr_ena PROVE \A i \in 0..(Len(Unread) - 1) : Cell(rd_pos + i) # Cell(wr_pos)
  BY <1>1, <1>3, <1>5, UnreadLength, WriteApart
<1> QED
  BY <1>4, <1>5 DEF NoOverrun

\* For every size of buffer and frame, and whatever the reader and the switch do: the
\* write side never reaches a word the read side has yet to fetch.
THEOREM BufferNotOverrun == Spec => []NoOverrun
  BY NoOverrunHolds, InvHolds, PTL

----------------------------------------------------------------------------
(***************************************************************************)
(* The refinement. Inv says where the write side may be; Content adds what *)
(* it has written, and the stretches of the buffer that the mapping names  *)
(* are compared as sequences.                                              *)
(***************************************************************************)

(***************************************************************************)
(* Stretches of the buffer as sequences.                                   *)
(***************************************************************************)

LEMMA IsSeq ==
  ASSUME NEW n \in Nat, NEW W, NEW f \in [1..n -> W]
  PROVE  f \in Seq(W) /\ Len(f) = n
<1>1. f \in Seq(W)
  BY SeqDef
<1>2. Len(f) \in Nat /\ DOMAIN f = 1..Len(f) /\ DOMAIN f = 1..n
  BY <1>1, LenProperties
<1> QED
  BY <1>1, <1>2

Block(rd, c, mem) == [i \in 1..Gap(rd, c) |-> mem[Cell(rd + i - 1)]]

\* A word that was fetched, if there is one, before a stretch of the buffer.
Queue(valid, o, rd, c, mem) == (IF valid THEN <<o>> ELSE << >>) \o Block(rd, c, mem)

LEMMA BlockIs ==
  ASSUME NEW rd \in Position, NEW c \in Position, Gap(rd, c) <= Depth,
         NEW mem, NEW W, \A i \in 0..(Depth - 1) : mem[i] \in W
  PROVE  /\ Block(rd, c, mem) \in Seq(W)
         /\ Len(Block(rd, c, mem)) = Gap(rd, c)
         /\ \A i \in 1..Gap(rd, c) : Block(rd, c, mem)[i] = mem[Cell(rd + i - 1)]
<1>1. PICK g \in Nat : g = Gap(rd, c)
  BY GapIsNat
<1>2. \A i \in 1..g : Cell(rd + i - 1) \in 0..(Depth - 1)
  <2> SUFFICES ASSUME NEW i \in 1..g PROVE Cell(rd + i - 1) \in 0..(Depth - 1)
    OBVIOUS
  <2>1. i - 1 \in 0..Depth /\ rd + (i - 1) = rd + i - 1
    BY <1>1, Sizes DEF Position
  <2>2. Cell(rd + (i - 1)) \in 0..(Depth - 1)
    BY <2>1, CellInBuffer
  <2> QED
    BY <2>1, <2>2
<1>3. /\ Block(rd, c, mem) \in [1..g -> W]
      /\ \A i \in 1..g : Block(rd, c, mem)[i] = mem[Cell(rd + i - 1)]
  BY <1>1, <1>2 DEF Block
<1> QED
  BY <1>1, <1>3, IsSeq

LEMMA QueueIs ==
  ASSUME NEW rd \in Position, NEW c \in Position, Gap(rd, c) <= Depth,
         NEW mem, NEW W, \A i \in 0..(Depth - 1) : mem[i] \in W, NEW o \in W
  PROVE  /\ << >> \o Block(rd, c, mem) = Block(rd, c, mem)
         /\ <<o>> \o Block(rd, c, mem) \in Seq(W)
         /\ Len(<<o>> \o Block(rd, c, mem)) = Gap(rd, c) + 1
         /\ (<<o>> \o Block(rd, c, mem))[1] = o
         /\ \A i \in 1..Gap(rd, c) : (<<o>> \o Block(rd, c, mem))[i + 1] = mem[Cell(rd + i - 1)]
<1>1. /\ Block(rd, c, mem) \in Seq(W) /\ Len(Block(rd, c, mem)) = Gap(rd, c)
      /\ \A i \in 1..Gap(rd, c) : Block(rd, c, mem)[i] = mem[Cell(rd + i - 1)]
  BY BlockIs
<1>2. PICK b \in Seq(W) : b = Block(rd, c, mem)
  BY <1>1
<1>3. PICK g \in Nat : g = Gap(rd, c)
  BY GapIsNat
<1>4. << >> \o b = b
  BY ConcatEmptySeq
<1>5. <<o>> \in Seq(W) /\ Len(<<o>>) = 1 /\ <<o>>[1] = o
  OBVIOUS
<1>6. /\ <<o>> \o b \in Seq(W) /\ Len(<<o>> \o b) = 1 + Len(b)
      /\ \A i \in 1..(1 + Len(b)) : (<<o>> \o b)[i] = IF i <= 1 THEN <<o>>[i] ELSE b[i - 1]
  BY <1>5, ConcatProperties
<1>7. Len(b) = g /\ \A i \in 1..g : b[i] = mem[Cell(rd + i - 1)]
  BY <1>1, <1>2, <1>3
<1>8. (<<o>> \o b)[1] = o /\ \A i \in 1..g : (<<o>> \o b)[i + 1] = b[i]
  BY <1>5, <1>6, <1>7
<1> QED
  BY <1>2, <1>3, <1>4, <1>6, <1>7, <1>8

\* The word before the stretch is taken.
LEMMA QueueTaken ==
  ASSUME NEW W, NEW b \in Seq(W), NEW o \in W
  PROVE  <<o>> \o b # << >> /\ Tail(<<o>> \o b) = b
<1>1. <<o>> \in Seq(W) /\ Len(<<o>>) = 1
  OBVIOUS
<1>2. /\ <<o>> \o b \in Seq(W) /\ Len(<<o>> \o b) = 1 + Len(b)
      /\ \A i \in 1..(1 + Len(b)) : (<<o>> \o b)[i] = IF i <= 1 THEN <<o>>[i] ELSE b[i - 1]
  BY <1>1, ConcatProperties
<1>3. PICK q \in Seq(W) : q = <<o>> \o b
  BY <1>2
<1>4. Len(b) \in Nat
  BY LenProperties
<1>5. q # << >>
  BY <1>2, <1>3, <1>4, EmptySeq
<1>6. /\ Tail(q) \in Seq(W) /\ Len(Tail(q)) = Len(b)
      /\ \A i \in 1..Len(b) : Tail(q)[i] = q[i + 1]
  BY <1>2, <1>3, <1>4, <1>5, HeadTailProperties
<1>7. \A i \in 1..Len(b) : q[i + 1] = b[i]
  BY <1>2, <1>3, <1>4
<1>8. Tail(q) = b
  BY <1>6, <1>7, SeqEqual
<1> QED
  BY <1>3, <1>5, <1>8

\* The first word of the stretch is fetched.
LEMMA QueueFetched ==
  ASSUME NEW rd \in Position, NEW c \in Position, Gap(rd, c) <= Depth, rd # c,
         NEW mem, NEW W, \A i \in 0..(Depth - 1) : mem[i] \in W
  PROVE  <<mem[Cell(rd)]>> \o Block(Pos(rd + 1), c, mem) = Block(rd, c, mem)
<1>1. PICK g \in Nat : g = Gap(rd, c)
  BY GapIsNat
<1>2. PICK rd2 \in Position : rd2 = Pos(rd + 1)
  BY GapShrinks
<1>3. Gap(rd2, c) = g - 1 /\ Gap(rd2, c) <= Depth /\ g - 1 \in Nat
  <2>1. Gap(rd2, c) = g - 1
    BY <1>1, <1>2, GapShrinks
  <2>2. g # 0
    BY <1>1, GapIsNat
  <2> QED
    BY <1>1, <2>1, <2>2, Sizes
<1>4. mem[Cell(rd)] \in W /\ rd + 1 - 1 = rd
  <2>1. Cell(rd + 0) \in 0..(Depth - 1)
    BY CellInBuffer, Sizes
  <2>2. rd + 0 = rd /\ rd + 1 - 1 = rd
    BY Sizes DEF Position
  <2> QED
    BY <2>1, <2>2
<1>5. PICK o \in W : o = mem[Cell(rd)]
  BY <1>4
<1>6. PICK q \in Seq(W) : q = <<o>> \o Block(rd2, c, mem)
  BY <1>2, <1>3, QueueIs
<1>7. /\ Len(q) = g /\ q[1] = o
      /\ \A i \in 1..(g - 1) : q[i + 1] = mem[Cell(rd2 + i - 1)]
  <2>1. /\ Len(q) = Gap(rd2, c) + 1 /\ q[1] = o
        /\ \A i \in 1..Gap(rd2, c) : q[i + 1] = mem[Cell(rd2 + i - 1)]
    <3>1. /\ <<o>> \o Block(rd2, c, mem) \in Seq(W)
          /\ Len(<<o>> \o Block(rd2, c, mem)) = Gap(rd2, c) + 1
          /\ (<<o>> \o Block(rd2, c, mem))[1] = o
          /\ \A i \in 1..Gap(rd2, c) : (<<o>> \o Block(rd2, c, mem))[i + 1] = mem[Cell(rd2 + i - 1)]
      BY <1>2, <1>3, QueueIs
    <3> QED
      BY <1>6, <3>1
  <2> QED
    BY <1>1, <1>3, <2>1
<1>8. \A i \in 1..g : q[i] = mem[Cell(rd + i - 1)]
  <2> SUFFICES ASSUME NEW i \in 1..g PROVE q[i] = mem[Cell(rd + i - 1)]
    OBVIOUS
  <2>1. CASE i = 1
    BY <1>4, <1>5, <1>7, <2>1
  <2>2. CASE i > 1
    <3>1. PICK j \in 1..(g - 1) : i = j + 1
      <4>1. i - 1 \in 1..(g - 1) /\ i = (i - 1) + 1
        BY <1>1, <2>2
      <4> QED
        BY <4>1
    <3>2. q[i] = mem[Cell(rd2 + j - 1)]
      BY <1>7, <3>1
    <3>3. Cell(rd2 + j - 1) = Cell(rd + i - 1)
      <4>1. 1 \in 0..Depth /\ j - 1 \in 0..Depth /\ 1 + (j - 1) <= Depth
        BY <1>1, <3>1, Sizes
      <4>2. Cell(Pos(rd + 1) + (j - 1)) = Cell(rd + 1 + (j - 1))
        BY <4>1, StepOn
      <4>3. rd2 + (j - 1) = rd2 + j - 1 /\ rd + 1 + (j - 1) = rd + i - 1
        BY <3>1, <1>2, Sizes DEF Position
      <4> QED
        BY <1>2, <4>2, <4>3
    <3> QED
      BY <3>2, <3>3
  <2> QED
    BY <1>1, <2>1, <2>2
<1>9. PICK b \in Seq(W) : b = Block(rd, c, mem)
  BY BlockIs
<1>10. Len(b) = g /\ \A i \in 1..g : b[i] = mem[Cell(rd + i - 1)]
  BY <1>1, <1>9, BlockIs
<1>11. q = b
  BY <1>7, <1>8, <1>10, SeqEqual
<1> QED
  BY <1>2, <1>5, <1>6, <1>9, <1>11

\* A stretch is followed by len words more.
LEMMA BlockGrows ==
  ASSUME NEW rd \in Position, NEW c \in Position, NEW len \in 1..Depth, Gap(rd, c) + len <= Depth,
         NEW mem, NEW W, \A i \in 0..(Depth - 1) : mem[i] \in W
  PROVE  /\ [i \in 1..len |-> mem[Cell(c + i - 1)]] \in Seq(W)
         /\ Block(rd, Pos(c + len), mem) = Block(rd, c, mem) \o [i \in 1..len |-> mem[Cell(c + i - 1)]]
<1>1. PICK g \in Nat : g = Gap(rd, c)
  BY GapIsNat
<1>2. /\ Pos(c + len) \in Position /\ Gap(rd, Pos(c + len)) = g + len /\ g + len <= Depth
      /\ Gap(rd, c) <= Depth /\ len \in Nat
  <2>1. len \in 0..Depth /\ len \in Nat
    BY Sizes
  <2>2. Pos(c + len) \in Position
    BY <2>1, StepOn
  <2>3. Gap(rd, Pos(c + len)) = g + len
    BY <1>1, <2>1, GapAdds
  <2> QED
    BY <1>1, <2>1, <2>2, <2>3, Sizes
<1>3. \A i \in 1..len : Cell(c + i - 1) \in 0..(Depth - 1)
  <2> SUFFICES ASSUME NEW i \in 1..len PROVE Cell(c + i - 1) \in 0..(Depth - 1)
    OBVIOUS
  <2>1. i - 1 \in 0..Depth /\ c + (i - 1) = c + i - 1
    BY Sizes DEF Position
  <2>2. Cell(c + (i - 1)) \in 0..(Depth - 1)
    BY <2>1, CellInBuffer
  <2> QED
    BY <2>1, <2>2
<1> DEFINE f == [i \in 1..len |-> mem[Cell(c + i - 1)]]
<1>4. f \in [1..len -> W] /\ \A i \in 1..len : f[i] = mem[Cell(c + i - 1)]
  BY <1>3
<1>5. f \in Seq(W) /\ Len(f) = len
  BY <1>2, <1>4, IsSeq
<1> HIDE DEF f
<1>6. PICK a \in Seq(W) : a = Block(rd, c, mem)
  BY <1>2, BlockIs
<1>7. Len(a) = g /\ \A i \in 1..g : a[i] = mem[Cell(rd + i - 1)]
  BY <1>1, <1>2, <1>6, BlockIs
<1>8. PICK b \in Seq(W) : b = Block(rd, Pos(c + len), mem)
  BY <1>2, BlockIs
<1>9. Len(b) = g + len /\ \A i \in 1..(g + len) : b[i] = mem[Cell(rd + i - 1)]
  BY <1>1, <1>2, <1>8, BlockIs
<1>10. /\ a \o f \in Seq(W) /\ Len(a \o f) = g + len
       /\ \A i \in 1..(g + len) : (a \o f)[i] = IF i <= g THEN a[i] ELSE f[i - g]
  BY <1>5, <1>7, ConcatProperties
<1>11. \A i \in 1..(g + len) : (a \o f)[i] = b[i]
  <2> SUFFICES ASSUME NEW i \in 1..(g + len) PROVE (a \o f)[i] = b[i]
    OBVIOUS
  <2>1. CASE i <= g
    <3>1. i \in 1..g
      BY <1>1, <2>1
    <3>2. (a \o f)[i] = a[i]
      BY <1>10, <2>1
    <3> QED
      BY <1>7, <1>9, <3>1, <3>2
  <2>2. CASE i > g
    <3>1. PICK j \in 1..len : i = g + j
      <4>1. i - g \in 1..len /\ i = g + (i - g)
        BY <1>1, <1>2, <2>2
      <4> QED
        BY <4>1
    <3>2. (a \o f)[i] = mem[Cell(c + j - 1)]
      <4>1. (a \o f)[i] = f[i - g]
        <5>1. ~(i <= g)
          BY <1>1, <1>2, <2>2
        <5> QED
          BY <1>10, <5>1
      <4>2. i - g = j
        BY <1>1, <3>1
      <4> QED
        BY <1>4, <3>1, <4>1, <4>2
    <3>3. Cell(c + j - 1) = Cell(rd + i - 1)
      <4>1. g \in 0..Depth /\ j - 1 \in 0..Depth /\ g + (j - 1) <= Depth
        BY <1>1, <1>2, <3>1, Sizes
      <4>2. c = Pos(rd + g)
        BY <1>1, GapIs
      <4>3. Cell(Pos(rd + g) + (j - 1)) = Cell(rd + g + (j - 1))
        BY <4>1, StepOn
      <4>4. c + (j - 1) = c + j - 1 /\ rd + g + (j - 1) = rd + i - 1
        BY <1>1, <3>1, Sizes DEF Position
      <4> QED
        BY <4>2, <4>3, <4>4
    <3> QED
      BY <1>9, <3>2, <3>3
  <2>3. i <= g \/ i > g
    BY <1>1, <1>2
  <2> QED
    BY <2>1, <2>2, <2>3
<1>12. a \o f = b
  BY <1>9, <1>10, <1>11, SeqEqual
<1> QED
  BY <1>5, <1>6, <1>8, <1>12 DEF f
\* Only the words between the two positions matter.
LEMMA BlockKept ==
  ASSUME NEW rd \in Position, NEW c \in Position, Gap(rd, c) <= Depth,
         NEW mem, NEW mem2,
         \A k \in 0..(Gap(rd, c) - 1) : mem2[Cell(rd + k)] = mem[Cell(rd + k)]
  PROVE  Block(rd, c, mem2) = Block(rd, c, mem)
<1>1. PICK g \in Nat : g = Gap(rd, c)
  BY GapIsNat
<1>2. \A i \in 1..g : mem2[Cell(rd + i - 1)] = mem[Cell(rd + i - 1)]
  <2> SUFFICES ASSUME NEW i \in 1..g PROVE mem2[Cell(rd + i - 1)] = mem[Cell(rd + i - 1)]
    OBVIOUS
  <2>1. i - 1 \in 0..(g - 1) /\ rd + (i - 1) = rd + i - 1
    BY <1>1, Sizes DEF Position
  <2>2. mem2[Cell(rd + (i - 1))] = mem[Cell(rd + (i - 1))]
    BY <1>1, <2>1
  <2> QED
    BY <2>1, <2>2
<1> QED
  BY <1>1, <1>2 DEF Block

(***************************************************************************)
(* What the read side still has to deliver, and a step of the read side.   *)
(***************************************************************************)

Words == Queue(out_tvalid, out, rd_pos, Committed, Written)

\* The same before the write side has moved.
Taken == Queue(out_tvalid', out', rd_pos', Committed, Written)

Takes == Taken = Words \/ (Words # << >> /\ Taken = Tail(Words))

LEMMA ReadStep ==
  ASSUME TypeOK, Layout, Room, Whole, NEW ready, ReadSide(ready)
  PROVE  /\ Takes
         /\ First \/ Empty \/ Hold(ready) => Taken = Words
         /\ Finish(ready) => Words # << >> /\ Taken = Tail(Words)
         /\ rd_pos' \in Position /\ Gap(rd_pos', Committed) \in Nat
         /\ Gap(rd_pos', Committed) <= Gap(rd_pos, Committed)
<1>1. Places /\ rd_pos \in Position /\ Committed \in Position
  BY PlacesTyped, CommittedPlace DEF Places
<1>2. Gap(rd_pos, Committed) \in Nat /\ Gap(rd_pos, Committed) <= Depth
  BY <1>1, Backlog
<1>3. Advance
  BY ReadMoves
<1>4. PICK rd \in Position : rd = rd_pos
  BY <1>1
<1>5. PICK c \in Position : c = Committed
  BY <1>1
<1>6. PICK mem : mem = Written
  OBVIOUS
<1>7. PICK W : out \in W /\ \A i \in 0..(Depth - 1) : mem[i] \in W
  <2> DEFINE U == {out} \cup {mem[i] : i \in 0..(Depth - 1)}
  <2>1. out \in U /\ \A i \in 0..(Depth - 1) : mem[i] \in U
    OBVIOUS
  <2> QED
    BY <2>1
<1>8. Block(rd, c, mem) \in Seq(W)
  BY <1>2, <1>4, <1>5, <1>7, BlockIs
<1>9. << >> \o Block(rd, c, mem) = Block(rd, c, mem)
  BY <1>8, ConcatEmptySeq
<1>10. Words = IF out_tvalid THEN <<out>> \o Block(rd, c, mem) ELSE Block(rd, c, mem)
  BY <1>4, <1>5, <1>6, <1>9 DEF Words, Queue
<1>11. ASSUME First \/ Following(ready) PROVE Takes /\ (First => Taken = Words)
  <2>1. out' = r_data[Cell(rd)] /\ out_tvalid' /\ rd_pos' = Pos(rd + 1)
    BY <1>4, <1>11 DEF First, Following, Fetch
  <2>2. Pos(rd + 1) # rd
    BY <1>4, PosIs, Sizes DEF Position
  <2>3. rd # c
    BY <1>3, <1>4, <1>5, <2>1, <2>2 DEF Advance
  <2>4. out' = mem[Cell(rd)]
    BY <1>4, <1>5, <1>6, <2>1, <2>3, FetchesWritten
  <2>5. <<mem[Cell(rd)]>> \o Block(Pos(rd + 1), c, mem) = Block(rd, c, mem)
    BY <1>2, <1>4, <1>5, <1>7, <2>3, QueueFetched
  <2>6. Taken = Block(rd, c, mem)
    BY <1>5, <1>6, <2>1, <2>4, <2>5 DEF Taken, Queue
  <2>7. CASE First
    <3>1. ~out_tvalid
      BY <2>7 DEF First
    <3> QED
      BY <1>10, <2>6, <3>1 DEF Takes
  <2>8. CASE Following(ready)
    <3>1. out_tvalid
      BY <2>8 DEF Following
    <3>2. Words = <<out>> \o Block(rd, c, mem)
      BY <1>10, <3>1
    <3>3. Words # << >> /\ Tail(Words) = Block(rd, c, mem)
      BY <1>7, <1>8, <3>2, QueueTaken
    <3> QED
      BY <2>6, <3>1, <3>3 DEF Takes, First
  <2> QED
    BY <1>11, <2>7, <2>8
<1>12. ASSUME Empty \/ Hold(ready) PROVE Takes /\ Taken = Words
  <2>1. rd_pos' = rd /\ (out_tvalid' <=> out_tvalid) /\ (out_tvalid => out' = out)
    BY <1>4, <1>12 DEF Empty, Hold, readVars
  <2>2. Taken = IF out_tvalid THEN <<out>> \o Block(rd, c, mem) ELSE Block(rd, c, mem)
    BY <1>5, <1>6, <1>9, <2>1 DEF Taken, Queue
  <2> QED
    BY <1>10, <2>2 DEF Takes
<1>13. ASSUME Finish(ready) PROVE Takes /\ Words # << >> /\ Taken = Tail(Words)
  <2>1. out_tvalid /\ ~out_tvalid' /\ rd_pos' = rd
    BY <1>4, <1>13 DEF Finish
  <2>2. Taken = Block(rd, c, mem)
    BY <1>5, <1>6, <1>9, <2>1 DEF Taken, Queue
  <2>3. Words = <<out>> \o Block(rd, c, mem)
    BY <1>10, <2>1
  <2>4. Words # << >> /\ Tail(Words) = Block(rd, c, mem)
    BY <1>7, <1>8, <2>3, QueueTaken
  <2> QED
    BY <2>2, <2>4 DEF Takes
<1>14. rd_pos' \in Position /\ Gap(rd_pos', Committed) \in Nat
       /\ Gap(rd_pos', Committed) <= Gap(rd_pos, Committed)
  BY <1>1, <1>3, GapFalls DEF Advance
<1> QED
  BY <1>11, <1>12, <1>13, <1>14 DEF ReadSide

(***************************************************************************)
(* What the words of the open frame are.                                   *)
(***************************************************************************)

\* The word at a place of the open frame.
At(k) == Written[Cell(Committed + k)]

Sample(w, last) == w = Word("data", w.value, last) /\ w.value \in Stamp

\* The lengths the header may announce.
Announced == IF Cuts THEN {OpenLen - 1, OpenLen} ELSE {OpenLen - 1}

Content ==
    /\ in_state # "IDLE" =>
          /\ \A k \in 2..(OpenLen - 1) :
                Sample(At(k), FALSE) \/ Sample(At(k), TRUE)
          /\ At(2).value = r_timestamp
    /\ in_state = "DATA" => wr_dat = At(OpenLen - 1)
    /\ in_state = "WR_LEN" => wr_cnt \in Announced
    /\ in_state \in {"WR_TS", "WR_UPDATE"} =>
          \E h \in Announced : At(0) = Word("header", <<num_pkts_in, h>>, FALSE)
    /\ in_state = "WR_UPDATE" => At(1) = Word("time", r_timestamp, FALSE)
LEMMA ContentStep ==
  ASSUME TypeOK, Layout, Content, NEW captured, WriteSide(captured), Store,
         Cuts \/ ena \/ captured \/ in_state # "DATA"
  PROVE  Content'
<1>1. Places /\ stamp \in Stamp
  BY PlacesTyped DEF TypeOK
<1>2. PICK c \in Position : c = Committed
  BY <1>1, CommittedPlace
<1>3. PICK len \in 0..Depth : len = OpenLen
  BY <1>1, CommittedPlace, Sizes
<1>4. in_state = "DATA" => wr_cnt = len - 1 /\ len <= MaxPktLen
  <2> SUFFICES ASSUME in_state = "DATA" PROVE wr_cnt = len - 1 /\ len <= MaxPktLen
    OBVIOUS
  <2>1. OpenLen = Gap(wr_start, wr_pos) + 1 /\ Gap(wr_start, wr_pos) = wr_cnt
    BY DEF OpenLen, Layout
  <2>2. wr_cnt \in Nat /\ wr_cnt <= MaxPktLen - 1
    BY <1>1, Sizes DEF Layout, Places
  <2> QED
    BY <1>3, <2>1, <2>2, Sizes
<1>5. /\ in_state # "IDLE" =>
            /\ \A k \in 2..(len - 1) :
                  Sample(Written[Cell(c + k)], FALSE) \/ Sample(Written[Cell(c + k)], TRUE)
            /\ Written[Cell(c + 2)].value = r_timestamp
      /\ in_state = "DATA" => wr_dat = Written[Cell(c + (len - 1))]
      /\ in_state = "WR_LEN" => wr_cnt \in Announced
      /\ in_state \in {"WR_TS", "WR_UPDATE"} =>
            \E h \in Announced : Written[Cell(c + 0)] = Word("header", <<num_pkts_in, h>>, FALSE)
      /\ in_state = "WR_UPDATE" => Written[Cell(c + 1)] = Word("time", r_timestamp, FALSE)
  BY <1>2, <1>3 DEF Content, At
<1>6. CASE Begin(captured)
  <2>1. /\ in_state' = "DATA" /\ wr_ena' /\ wr_dat' = Word("data", stamp, FALSE)
        /\ OpenLen' = 3 /\ Committed' = c /\ wr_pos' = Pos(c + 2) /\ r_timestamp' = stamp
    BY <1>1, <1>2, <1>6, BeginStep DEF Latched, Begin, Prepare
  <2>2. 2 \in 0..(Depth - 1)
    BY Sizes
  <2>3. Written'[Cell(c + 2)] = Word("data", stamp, FALSE)
    BY <2>1, <2>2, WordGoesIn
  <2>4. Word("data", stamp, FALSE).value = stamp
    BY DEF Word
  <2>5. Sample(Written'[Cell(c + 2)], FALSE) /\ Written'[Cell(c + 2)].value = r_timestamp'
    BY <1>1, <2>1, <2>3, <2>4 DEF Sample
  <2>6. \A k \in 2..(OpenLen' - 1) : k = 2
    BY <2>1
  <2>7. OpenLen' - 1 = 2
    BY <2>1
  <2> QED
    BY <2>1, <2>3, <2>5, <2>6, <2>7 DEF Content, At
<1>7. CASE Idle(captured) \/ Update
  <2>1. in_state' = "IDLE"
    BY <1>1, <1>7, IdleStep, UpdateStep
  <2> QED
    BY <2>1 DEF Content
<1>8. CASE More(captured) \/ Full(captured)
  <2>1. /\ in_state = "DATA" /\ in_state' \in {"DATA", "WR_LEN"} /\ wr_ena'
        /\ OpenLen' = len + 1 /\ Committed' = c /\ wr_pos' = Pos(c + len)
        /\ r_timestamp' = r_timestamp /\ wr_cnt' = wr_cnt + 1
        /\ wr_dat' = Word("data", stamp, FALSE) \/ wr_dat' = Word("data", stamp, TRUE)
    BY <1>1, <1>2, <1>3, <1>8, AddStep DEF Latched, More, Full, AddWord, Frozen
  <2>2. len \in 0..(Depth - 1) /\ len >= 3
    BY <1>1, <1>3, <1>4, <2>1, CommittedPlace, Sizes
  <2>3. /\ Written'[Cell(c + len)] = wr_dat'
        /\ \A k \in 0..(Depth - 1) : k # len => Written'[Cell(c + k)] = Written[Cell(c + k)]
    BY <2>1, <2>2, WordGoesIn
  <2>4. wr_dat'.value = stamp
    BY <2>1 DEF Word
  <2>5. Sample(wr_dat', FALSE) \/ Sample(wr_dat', TRUE)
    BY <1>1, <2>1, <2>4 DEF Sample
  <2>6. \A k \in 2..(OpenLen' - 1) :
            Sample(Written'[Cell(c + k)], FALSE) \/ Sample(Written'[Cell(c + k)], TRUE)
    <3> SUFFICES ASSUME NEW k \in 2..(OpenLen' - 1)
                 PROVE  Sample(Written'[Cell(c + k)], FALSE) \/ Sample(Written'[Cell(c + k)], TRUE)
      OBVIOUS
    <3>1. CASE k = len
      BY <2>3, <2>5, <3>1
    <3>2. CASE k # len
      <4>1. k \in 2..(len - 1) /\ k \in 0..(Depth - 1)
        BY <1>3, <2>1, <2>2, <3>2, Sizes
      <4> QED
        BY <1>5, <2>1, <2>3, <3>2, <4>1
    <3> QED
      BY <3>1, <3>2
  <2>7. Written'[Cell(c + 2)].value = r_timestamp'
    <3>1. 2 \in 0..(Depth - 1) /\ 2 # len
      BY <2>2, Sizes
    <3> QED
      BY <1>5, <2>1, <2>3, <3>1
  <2>8. OpenLen' - 1 = len /\ wr_cnt' = len
    BY <1>4, <2>1, <2>2
  <2>9. wr_cnt' \in Announced'
    BY <2>1, <2>8 DEF Announced
  <2> QED
    BY <2>1, <2>3, <2>6, <2>7, <2>8, <2>9 DEF Content, At
<1>9. CASE Cut(captured)
  <2>1. /\ in_state = "DATA" /\ in_state' = "WR_LEN" /\ wr_ena'
        /\ OpenLen' = len /\ Committed' = c /\ wr_pos' = Pos(c + (len - 1))
        /\ r_timestamp' = r_timestamp /\ wr_cnt' = wr_cnt + 1
        /\ wr_dat' = [wr_dat EXCEPT !.last = TRUE] /\ ~captured /\ ~ena
    BY <1>1, <1>2, <1>3, <1>9, CutStep DEF Latched, Cut, Frozen
  <2>2. len - 1 \in 2..(Depth - 1) /\ len - 1 \in 0..(Depth - 1) /\ len - 1 \in 2..(len - 1)
    BY <1>1, <1>3, <1>4, <2>1, CommittedPlace, Sizes
  <2>3. /\ Written'[Cell(c + (len - 1))] = wr_dat'
        /\ \A k \in 0..(Depth - 1) : k # len - 1 => Written'[Cell(c + k)] = Written[Cell(c + k)]
    BY <2>1, <2>2, WordGoesIn
  <2>4. PICK v \in Stamp : v = wr_dat.value /\ (wr_dat = Word("data", v, FALSE) \/ wr_dat = Word("data", v, TRUE))
    BY <1>5, <2>1, <2>2 DEF Sample
  <2>5. wr_dat' = Word("data", v, TRUE)
    <3>1. CASE wr_dat = Word("data", v, FALSE)
      BY <2>1, <3>1 DEF Word
    <3>2. CASE wr_dat = Word("data", v, TRUE)
      BY <2>1, <3>2 DEF Word
    <3> QED
      BY <2>4, <3>1, <3>2
  <2>6. wr_dat'.value = v
    BY <2>5 DEF Word
  <2>7. Sample(wr_dat', TRUE)
    BY <2>5, <2>6 DEF Sample
  <2>8. \A k \in 2..(OpenLen' - 1) :
            Sample(Written'[Cell(c + k)], FALSE) \/ Sample(Written'[Cell(c + k)], TRUE)
    <3> SUFFICES ASSUME NEW k \in 2..(OpenLen' - 1)
                 PROVE  Sample(Written'[Cell(c + k)], FALSE) \/ Sample(Written'[Cell(c + k)], TRUE)
      OBVIOUS
    <3>1. CASE k = len - 1
      BY <2>3, <2>7, <3>1
    <3>2. CASE k # len - 1
      <4>1. k \in 2..(len - 1) /\ k \in 0..(Depth - 1)
        BY <1>3, <2>1, <2>2, Sizes
      <4> QED
        BY <1>5, <2>1, <2>3, <3>2, <4>1
    <3> QED
      BY <3>1, <3>2
  <2>9. Written'[Cell(c + 2)].value = r_timestamp'
    <3>1. CASE len - 1 = 2
      BY <1>5, <2>1, <2>3, <2>4, <2>6, <3>1
    <3>2. CASE len - 1 # 2
      <4>1. 2 \in 0..(Depth - 1)
        BY Sizes
      <4> QED
        BY <1>5, <2>1, <2>3, <3>2, <4>1
    <3> QED
      BY <3>1, <3>2
  <2>10. wr_cnt' \in Announced'
    <3>1. Cuts
      BY <2>1
    <3>2. wr_cnt' = len
      BY <1>3, <1>4, <2>1
    <3> QED
      BY <2>1, <3>1, <3>2 DEF Announced
  <2> QED
    BY <2>1, <2>8, <2>9, <2>10 DEF Content, At
<1>10. CASE WaitForWord(captured)
  <2>1. /\ in_state = "DATA" /\ in_state' = "DATA" /\ ~wr_ena' /\ wr_dat' = wr_dat
        /\ OpenLen' = len /\ Committed' = c /\ r_timestamp' = r_timestamp
    BY <1>1, <1>2, <1>3, <1>10, WaitStep DEF Latched, WaitForWord, Frozen
  <2>2. Written' = Written
    BY <2>1, WrittenStep
  <2> QED
    BY <1>5, <2>1, <2>2 DEF Content, At
<1>11. CASE WriteLength
  <2>1. /\ in_state = "WR_LEN" /\ in_state' = "WR_TS" /\ wr_ena'
        /\ OpenLen' = len /\ Committed' = c /\ wr_pos' = Pos(c + 0)
        /\ r_timestamp' = r_timestamp /\ num_pkts_in' = num_pkts_in
        /\ wr_dat' = Word("header", <<num_pkts_in, wr_cnt>>, FALSE)
    BY <1>1, <1>2, <1>3, <1>11, LengthStep DEF Latched, WriteLength
  <2>2. 0 \in 0..(Depth - 1)
    BY Sizes
  <2>3. /\ Written'[Cell(c + 0)] = wr_dat'
        /\ \A k \in 0..(Depth - 1) : k # 0 => Written'[Cell(c + k)] = Written[Cell(c + k)]
    BY <2>1, <2>2, WordGoesIn
  <2>4. \A k \in 2..(len - 1) : k \in 0..(Depth - 1) /\ k # 0
    BY <1>3, Sizes
  <2>5. 2 \in 0..(Depth - 1)
    BY Sizes
  <2>6. Announced' = Announced
    BY <1>3, <2>1 DEF Announced
  <2>7. \E h \in Announced' : Written'[Cell(c + 0)] = Word("header", <<num_pkts_in', h>>, FALSE)
    BY <1>5, <2>1, <2>3, <2>6
  <2>8. \A k \in 2..(len - 1) :
            Sample(Written'[Cell(c + k)], FALSE) \/ Sample(Written'[Cell(c + k)], TRUE)
    <3> SUFFICES ASSUME NEW k \in 2..(len - 1)
                 PROVE  Sample(Written'[Cell(c + k)], FALSE) \/ Sample(Written'[Cell(c + k)], TRUE)
      OBVIOUS
    <3>1. Written'[Cell(c + k)] = Written[Cell(c + k)]
      BY <2>3, <2>4
    <3>2. Sample(Written[Cell(c + k)], FALSE) \/ Sample(Written[Cell(c + k)], TRUE)
      BY <1>5, <2>1
    <3> QED
      BY <3>1, <3>2
  <2>9. Written'[Cell(c + 2)].value = r_timestamp'
    <3>1. Written'[Cell(c + 2)] = Written[Cell(c + 2)]
      BY <2>3, <2>5
    <3>2. Written[Cell(c + 2)].value = r_timestamp
      BY <1>5, <2>1
    <3> QED
      BY <2>1, <3>1, <3>2
  <2> QED
    BY <2>1, <2>7, <2>8, <2>9 DEF Content, At
<1>12. CASE WriteTimestamp
  <2>1. /\ in_state = "WR_TS" /\ in_state' = "WR_UPDATE" /\ wr_ena'
        /\ OpenLen' = len /\ Committed' = c /\ wr_pos' = Pos(c + 1)
        /\ r_timestamp' = r_timestamp /\ num_pkts_in' = num_pkts_in
        /\ wr_dat' = Word("time", r_timestamp, FALSE)
    BY <1>1, <1>2, <1>3, <1>12, TimestampStep DEF Latched, WriteTimestamp, Frozen
  <2>2. 1 \in 0..(Depth - 1)
    BY Sizes
  <2>3. /\ Written'[Cell(c + 1)] = wr_dat'
        /\ \A k \in 0..(Depth - 1) : k # 1 => Written'[Cell(c + k)] = Written[Cell(c + k)]
    BY <2>1, <2>2, WordGoesIn
  <2>4. \A k \in 2..(len - 1) : k \in 0..(Depth - 1) /\ k # 1
    BY <1>3, Sizes
  <2>5. 2 \in 0..(Depth - 1) /\ 0 \in 0..(Depth - 1)
    BY Sizes
  <2>6. Announced' = Announced
    BY <1>3, <2>1 DEF Announced
  <2>7. \E h \in Announced' : Written'[Cell(c + 0)] = Word("header", <<num_pkts_in', h>>, FALSE)
    <3>1. Written'[Cell(c + 0)] = Written[Cell(c + 0)]
      BY <2>3, <2>5
    <3>2. PICK h \in Announced : Written[Cell(c + 0)] = Word("header", <<num_pkts_in, h>>, FALSE)
      BY <1>5, <2>1
    <3> QED
      BY <2>1, <2>6, <3>1, <3>2
  <2>8. \A k \in 2..(len - 1) :
            Sample(Written'[Cell(c + k)], FALSE) \/ Sample(Written'[Cell(c + k)], TRUE)
    <3> SUFFICES ASSUME NEW k \in 2..(len - 1)
                 PROVE  Sample(Written'[Cell(c + k)], FALSE) \/ Sample(Written'[Cell(c + k)], TRUE)
      OBVIOUS
    <3>1. Written'[Cell(c + k)] = Written[Cell(c + k)]
      BY <2>3, <2>4
    <3>2. Sample(Written[Cell(c + k)], FALSE) \/ Sample(Written[Cell(c + k)], TRUE)
      BY <1>5, <2>1
    <3> QED
      BY <3>1, <3>2
  <2>9. Written'[Cell(c + 2)].value = r_timestamp'
    <3>1. Written'[Cell(c + 2)] = Written[Cell(c + 2)]
      BY <2>3, <2>5
    <3>2. Written[Cell(c + 2)].value = r_timestamp
      BY <1>5, <2>1
    <3> QED
      BY <2>1, <3>1, <3>2
  <2> QED
    BY <2>1, <2>3, <2>7, <2>8, <2>9 DEF Content, At
<1> QED
  BY <1>6, <1>7, <1>8, <1>9, <1>10, <1>11, <1>12 DEF WriteSide
(***************************************************************************)
(* The open frame as FrameFifo sees it.                                    *)
(***************************************************************************)

Values == [i \in DOMAIN Open |-> Open[i].value]

\* The open frame has its header and timestamp still before it.
LEMMA ValuesAre ==
  ASSUME Places, Layout
  PROVE  /\ in_state = "IDLE" => Values = [i \in 1..0 |-> At(i + 1).value]
         /\ in_state # "IDLE" => Values = [i \in 1..(OpenLen - 2) |-> At(i + 1).value]
<1>1. PICK c \in Position : c = Committed
  BY CommittedPlace
<1>2. PICK len \in 0..Depth : len = OpenLen
  BY CommittedPlace, Sizes
<1>3. 2 \in 0..Depth
  BY Sizes
<1>4. PICK p \in Position : p = Pos(c + 2)
  BY <1>3, StepOn
<1>5. CASE in_state = "IDLE"
  <2>1. Collected = p
    BY <1>1, <1>4, <1>5 DEF Collected, Committed
  <2>2. Pos(p - p) = 0
    BY PosIs, Sizes DEF Position
  <2>3. Open = [i \in 1..0 |-> Written[Cell(p + i - 1)]]
    BY <1>1, <1>4, <2>1, <2>2 DEF Open, Stored
  <2> QED
    BY <1>5, <2>3 DEF Values
<1>6. CASE in_state # "IDLE"
  <2>1. Collected = Pos(c + len) /\ len >= 3
    <3>1. in_state \in {"DATA", "WR_LEN"} \/ in_state \in {"WR_TS", "WR_UPDATE"}
      BY <1>6 DEF Places, States
    <3> QED
      BY <1>1, <1>2, <1>6, <3>1, CollectedPlace, CommittedPlace
  <2>2. PICK n \in 1..Depth : n = len - 2
    <3>1. len - 2 \in 1..Depth
      BY <1>2, <2>1, Sizes
    <3> QED
      BY <3>1
  <2>3. n \in 0..Depth /\ 2 + n = len /\ 2 + n <= 2 * Depth - 1 /\ c + 2 + n = c + len
    BY <1>2, <2>2, Sizes DEF Position
  <2>4. Pos(p + n) = Pos(c + len)
    BY <1>3, <1>4, <2>3, StepOn
  <2>5. Gap(p, Pos(p + n)) = n /\ Pos(p + n) \in Position
    BY <2>3, StepOn
  <2>6. Pos(Collected - p) = n
    BY <2>1, <2>4, <2>5, GapIs
  <2>7. Open = [i \in 1..n |-> Written[Cell(p + i - 1)]]
    BY <1>1, <1>4, <2>6 DEF Open, Stored
  <2>8. \A i \in 1..n : Cell(p + i - 1) = Cell(c + (i + 1))
    <3> SUFFICES ASSUME NEW i \in 1..n PROVE Cell(p + i - 1) = Cell(c + (i + 1))
      OBVIOUS
    <3>1. i - 1 \in 0..Depth /\ 2 + (i - 1) <= Depth
      BY <1>2, <2>2, Sizes
    <3>2. Cell(Pos(c + 2) + (i - 1)) = Cell(c + 2 + (i - 1))
      BY <1>3, <3>1, StepOn
    <3>3. p + (i - 1) = p + i - 1 /\ c + 2 + (i - 1) = c + (i + 1)
      BY <2>2, Sizes DEF Position
    <3> QED
      BY <1>4, <3>2, <3>3
  <2>9. Open = [i \in 1..n |-> At(i + 1)]
    BY <1>1, <2>7, <2>8 DEF At
  <2>10. Values = [i \in 1..n |-> At(i + 1).value]
    BY <2>9 DEF Values
  <2> QED
    BY <1>2, <1>6, <2>2, <2>10
<1> QED
  BY <1>5, <1>6

\* Nothing is collected, or the values of the words behind the first two.
ValuesHold ==
    /\ Values \in Seq(Stamp)
    /\ in_state = "IDLE" => Values = << >>
    /\ in_state # "IDLE" =>
          /\ Len(Values) = OpenLen - 2 /\ Len(Values) \in Nat \ {0}
          /\ \A i \in 1..(OpenLen - 2) : Values[i] = At(i + 1).value

LEMMA ValuesSeq == TypeOK /\ Layout /\ Content => ValuesHold
<1> SUFFICES ASSUME TypeOK, Layout, Content PROVE ValuesHold
  OBVIOUS
<1>1. Places
  BY PlacesTyped
<1>2. PICK len \in 0..Depth : len = OpenLen
  BY <1>1, CommittedPlace, Sizes
<1>3. CASE in_state = "IDLE"
  <2>1. Values \in [1..0 -> Stamp]
    BY <1>1, <1>3, ValuesAre
  <2>2. Values \in Seq(Stamp) /\ Len(Values) = 0
    BY <2>1, IsSeq
  <2> QED
    BY <1>3, <2>2, EmptySeq DEF ValuesHold
<1>4. CASE in_state # "IDLE"
  <2>1. len >= 3
    <3>1. in_state \in {"DATA", "WR_LEN"} \/ in_state \in {"WR_TS", "WR_UPDATE"}
      BY <1>1, <1>4 DEF Places, States
    <3> QED
      BY <1>1, <1>2, <3>1, CommittedPlace
  <2>2. PICK n \in Nat \ {0} : n = len - 2
    <3>1. len - 2 \in Nat \ {0}
      BY <1>2, <2>1, Sizes
    <3> QED
      BY <3>1
  <2>3. \A i \in 1..n : At(i + 1).value \in Stamp
    <3> SUFFICES ASSUME NEW i \in 1..n PROVE At(i + 1).value \in Stamp
      OBVIOUS
    <3>1. i + 1 \in 2..(OpenLen - 1)
      BY <1>2, <2>2, Sizes
    <3> QED
      BY <1>4, <3>1 DEF Content, Sample
  <2>4. Values = [i \in 1..n |-> At(i + 1).value]
    BY <1>1, <1>2, <1>4, <2>2, ValuesAre
  <2>5. Values \in [1..n -> Stamp] /\ \A i \in 1..n : Values[i] = At(i + 1).value
    BY <2>3, <2>4
  <2>6. Values \in Seq(Stamp) /\ Len(Values) = n
    BY <2>5, IsSeq
  <2> QED
    BY <1>2, <1>4, <2>2, <2>5, <2>6 DEF ValuesHold
<1> QED
  BY <1>3, <1>4
\* The limit of a frame as FrameFifo has it.
MaxWords == IF MaxPktLen < 4 THEN 2 ELSE MaxSamples

LEMMA ValuesStep ==
  ASSUME TypeOK, Layout, Content, ValuesHold, ValuesHold',
         NEW captured, WriteSide(captured), Store
  PROVE  /\ Begin(captured) => Values = << >> /\ Values' = <<stamp>>
         /\ More(captured) \/ Full(captured) =>
               /\ Values # << >> /\ Len(Values) < MaxWords
               /\ Values' = Append(Values, stamp)
         /\ ~(Begin(captured) \/ More(captured) \/ Full(captured) \/ Update) => Values' = Values
         /\ Update => Values # << >> /\ Values' = << >>
<1>1. Places /\ stamp \in Stamp
  BY PlacesTyped DEF TypeOK
<1>2. PICK c \in Position : c = Committed
  BY <1>1, CommittedPlace
<1>3. PICK len \in 0..Depth : len = OpenLen
  BY <1>1, CommittedPlace, Sizes
<1>4. /\ Values \in Seq(Stamp)
      /\ in_state = "IDLE" => Values = << >>
      /\ in_state # "IDLE" =>
            /\ Len(Values) = len - 2 /\ Len(Values) \in Nat \ {0}
            /\ \A i \in 1..(len - 2) : Values[i] = Written[Cell(c + (i + 1))].value
  BY <1>2, <1>3 DEF ValuesHold, At
<1>5. /\ Values' \in Seq(Stamp)
      /\ in_state' = "IDLE" => Values' = << >>
      /\ in_state' # "IDLE" =>
            /\ Len(Values') = OpenLen' - 2 /\ Len(Values') \in Nat \ {0}
            /\ \A i \in 1..(OpenLen' - 2) : Values'[i] = Written'[Cell(Committed' + (i + 1))].value
  BY DEF ValuesHold, At
<1>6. in_state # "IDLE" => Values # << >> /\ len >= 3
  BY <1>3, <1>4, EmptySeq
<1>7. ASSUME Committed' = c, OpenLen' = len, in_state # "IDLE", in_state' # "IDLE",
             \A k \in 2..(len - 1) : Written'[Cell(c + k)].value = Written[Cell(c + k)].value
      PROVE  Values' = Values
  <2>1. \A i \in 1..(len - 2) : i + 1 \in 2..(len - 1)
    BY <1>3
  <2>2. \A i \in 1..(len - 2) : Values'[i] = Values[i]
    BY <1>4, <1>5, <1>7, <2>1
  <2> QED
    BY <1>4, <1>5, <1>7, <2>2, SeqEqual
<1>8. ASSUME Begin(captured) PROVE Values = << >> /\ Values' = <<stamp>>
  <2>1. /\ in_state = "IDLE" /\ in_state' = "DATA" /\ wr_ena' /\ wr_dat' = Word("data", stamp, FALSE)
        /\ OpenLen' = 3 /\ Committed' = c /\ wr_pos' = Pos(c + 2)
    BY <1>1, <1>2, <1>8, BeginStep DEF Latched, Begin
  <2>2. 2 \in 0..(Depth - 1)
    BY Sizes
  <2>3. Written'[Cell(c + 2)] = Word("data", stamp, FALSE)
    BY <2>1, <2>2, WordGoesIn
  <2>4. Written'[Cell(c + 2)].value = stamp
    BY <2>3 DEF Word
  <2>5. Len(Values') = 1 /\ Values'[1] = stamp
    BY <1>5, <2>1, <2>4
  <2>6. <<stamp>> \in Seq(Stamp) /\ Len(<<stamp>>) = 1 /\ <<stamp>>[1] = stamp
    BY <1>1
  <2>7. Values' = <<stamp>>
    BY <1>5, <2>5, <2>6, SeqEqual
  <2> QED
    BY <1>4, <2>1, <2>7
<1>9. ASSUME More(captured) \/ Full(captured)
      PROVE  /\ Values # << >> /\ Len(Values) < MaxWords
             /\ Values' = Append(Values, stamp)
  <2>1. /\ in_state = "DATA" /\ in_state' # "IDLE" /\ wr_ena'
        /\ OpenLen' = len + 1 /\ Committed' = c /\ wr_pos' = Pos(c + len)
        /\ wr_dat' = Word("data", stamp, FALSE) \/ wr_dat' = Word("data", stamp, TRUE)
    BY <1>1, <1>2, <1>3, <1>9, AddStep DEF Latched, More, Full
  <2>2. /\ wr_cnt \in Nat /\ len = wr_cnt + 1 /\ max_samples \in Nat /\ max_samples <= MaxPktLen - 3
        /\ wr_cnt = 2 \/ wr_cnt <= max_samples + 1
    <3>1. OpenLen = Gap(wr_start, wr_pos) + 1 /\ Gap(wr_start, wr_pos) = wr_cnt
      BY <2>1 DEF OpenLen, Layout
    <3> QED
      BY <1>1, <1>3, <2>1, <3>1 DEF Layout, Places
  <2>3. len \in 0..(Depth - 1) /\ len - 2 < MaxWords
    BY <2>2, Sizes DEF MaxWords, MaxSamples
  <2>4. /\ Written'[Cell(c + len)] = wr_dat'
        /\ \A k \in 0..(Depth - 1) : k # len => Written'[Cell(c + k)] = Written[Cell(c + k)]
    BY <2>1, <2>3, WordGoesIn
  <2>5. wr_dat'.value = stamp
    BY <2>1 DEF Word
  <2>6. /\ Append(Values, stamp) \in Seq(Stamp) /\ Len(Append(Values, stamp)) = len - 1
        /\ \A i \in 1..(len - 2) : Append(Values, stamp)[i] = Values[i]
        /\ Append(Values, stamp)[len - 1] = stamp
    <3>1. Len(Values) = len - 2 /\ len - 2 + 1 = len - 1
      BY <1>3, <1>4, <2>1
    <3> QED
      BY <1>1, <1>4, <3>1, AppendProperties
  <2>7. Len(Values') = len - 1
    BY <1>3, <1>5, <2>1
  <2>8. \A i \in 1..(len - 1) : Values'[i] = Append(Values, stamp)[i]
    <3> SUFFICES ASSUME NEW i \in 1..(len - 1) PROVE Values'[i] = Append(Values, stamp)[i]
      OBVIOUS
    <3>1. Values'[i] = Written'[Cell(c + (i + 1))].value
      <4>1. i \in 1..(OpenLen' - 2)
        BY <1>3, <2>1
      <4> QED
        BY <1>5, <2>1, <4>1
    <3>2. CASE i = len - 1
      <4>1. c + (i + 1) = c + len
        BY <1>3, <3>2, Sizes
      <4> QED
        BY <2>4, <2>5, <2>6, <3>1, <3>2, <4>1
    <3>3. CASE i # len - 1
      <4>1. i \in 1..(len - 2) /\ i + 1 # len /\ i + 1 \in 0..(Depth - 1)
        BY <1>3, <2>3, <3>3, Sizes
      <4>2. Written'[Cell(c + (i + 1))] = Written[Cell(c + (i + 1))]
        BY <2>4, <4>1
      <4>3. Values[i] = Written[Cell(c + (i + 1))].value
        BY <1>4, <2>1, <4>1
      <4> QED
        BY <2>6, <3>1, <4>1, <4>2, <4>3
    <3> QED
      BY <3>2, <3>3
  <2>9. Values' = Append(Values, stamp)
    BY <1>5, <2>6, <2>7, <2>8, SeqEqual
  <2> QED
    BY <1>4, <1>6, <2>1, <2>3, <2>9
<1>10. ASSUME Update PROVE Values # << >> /\ Values' = << >>
  <2>1. in_state = "WR_UPDATE" /\ in_state' = "IDLE"
    BY <1>10 DEF Update
  <2> QED
    BY <1>5, <1>6, <2>1
<1>11. ASSUME Idle(captured) PROVE Values' = Values
  <2>1. in_state = "IDLE" /\ in_state' = "IDLE"
    BY <1>11 DEF Idle, Prepare
  <2> QED
    BY <1>4, <1>5, <2>1
<1>12. ASSUME Cut(captured) PROVE Values' = Values
  <2>1. /\ in_state = "DATA" /\ in_state' = "WR_LEN" /\ wr_ena'
        /\ OpenLen' = len /\ Committed' = c /\ wr_pos' = Pos(c + (len - 1))
        /\ wr_dat' = [wr_dat EXCEPT !.last = TRUE]
    BY <1>1, <1>2, <1>3, <1>12, CutStep DEF Latched, Cut
  <2>2. len - 1 \in 0..(Depth - 1) /\ len - 1 \in 2..(len - 1)
    BY <1>3, <1>6, <2>1, Sizes
  <2>3. /\ Written'[Cell(c + (len - 1))] = wr_dat'
        /\ \A k \in 0..(Depth - 1) : k # len - 1 => Written'[Cell(c + k)] = Written[Cell(c + k)]
    BY <2>1, <2>2, WordGoesIn
  <2>4. wr_dat = Written[Cell(c + (len - 1))]
    BY <1>2, <1>3, <2>1 DEF Content, At
  <2>5. wr_dat'.value = wr_dat.value
    <3>1. PICK v : wr_dat = Word("data", v, FALSE) \/ wr_dat = Word("data", v, TRUE)
      BY <1>2, <1>3, <2>1, <2>2, <2>4 DEF Content, At, Sample
    <3> QED
      BY <2>1, <3>1 DEF Word
  <2>6. \A k \in 2..(len - 1) : Written'[Cell(c + k)].value = Written[Cell(c + k)].value
    <3> SUFFICES ASSUME NEW k \in 2..(len - 1)
                 PROVE  Written'[Cell(c + k)].value = Written[Cell(c + k)].value
      OBVIOUS
    <3>1. k \in 0..(Depth - 1)
      BY <1>3, Sizes
    <3> QED
      BY <2>3, <2>4, <2>5, <3>1
  <2> QED
    BY <1>7, <2>1, <2>6
<1>13. ASSUME WaitForWord(captured) PROVE Values' = Values
  <2>1. /\ in_state = "DATA" /\ in_state' = "DATA" /\ ~wr_ena'
        /\ OpenLen' = len /\ Committed' = c
    BY <1>1, <1>2, <1>3, <1>13, WaitStep DEF Latched
  <2>2. Written' = Written
    BY <2>1, WrittenStep
  <2> QED
    BY <1>7, <2>1, <2>2
<1>14. ASSUME WriteLength \/ WriteTimestamp PROVE Values' = Values
  <2>1. PICK at \in {0, 1} :
            /\ in_state # "IDLE" /\ in_state' # "IDLE" /\ wr_ena'
            /\ OpenLen' = len /\ Committed' = c /\ wr_pos' = Pos(c + at)
    <3>1. CASE WriteLength
      BY <1>1, <1>2, <1>3, <3>1, LengthStep DEF Latched
    <3>2. CASE WriteTimestamp
      BY <1>1, <1>2, <1>3, <3>2, TimestampStep DEF Latched
    <3> QED
      BY <1>14, <3>1, <3>2
  <2>2. at \in 0..(Depth - 1)
    BY Sizes
  <2>3. \A k \in 0..(Depth - 1) : k # at => Written'[Cell(c + k)] = Written[Cell(c + k)]
    BY <2>1, <2>2, WordGoesIn
  <2>4. \A k \in 2..(len - 1) : Written'[Cell(c + k)].value = Written[Cell(c + k)].value
    <3> SUFFICES ASSUME NEW k \in 2..(len - 1)
                 PROVE  Written'[Cell(c + k)].value = Written[Cell(c + k)].value
      OBVIOUS
    <3>1. k \in 0..(Depth - 1) /\ k # at
      BY <1>3, Sizes
    <3> QED
      BY <2>3, <3>1
  <2> QED
    BY <1>7, <2>1, <2>4
<1> QED
  BY <1>8, <1>9, <1>10, <1>11, <1>12, <1>13, <1>14 DEF WriteSide
(***************************************************************************)
(* The frame in the buffer, and what the read side has before it.          *)
(***************************************************************************)

\* The words of the open frame once its header and its timestamp are there.
Collection == [i \in 1..OpenLen |-> Written[Cell(Committed + i - 1)]]

LEMMA WholeFrame ==
  ASSUME TypeOK, Layout, OpenMarks, Content, ValuesHold, in_state = "WR_UPDATE"
  PROVE  \E extra \in IF Cuts THEN {0, 1} ELSE {0} :
            Collection = Fifo!Frame(num_pkts_in, Values, Len(Values) + 1 + extra)
<1>1. Places
  BY PlacesTyped
<1>2. PICK c \in Position : c = Committed
  BY <1>1, CommittedPlace
<1>3. PICK len \in 0..Depth : len = OpenLen
  BY <1>1, CommittedPlace, Sizes
<1>4. len >= 3
  BY <1>1, <1>3, CommittedPlace
<1>5. PICK n \in Nat \ {0} : n = len - 2
  <2>1. len - 2 \in Nat \ {0}
    BY <1>3, <1>4, Sizes
  <2> QED
    BY <2>1
<1>6. PICK vals \in Seq(Stamp) : vals = Values
  BY DEF ValuesHold
<1>7. Len(vals) = n /\ \A i \in 1..n : vals[i] = At(i + 1).value /\ vals[i] \in Stamp
  <2>1. Len(vals) = n /\ \A i \in 1..n : vals[i] = At(i + 1).value
    BY <1>3, <1>5, <1>6 DEF ValuesHold
  <2>2. \A i \in 1..n : vals[i] \in Stamp
    BY <2>1, ElementOfSeq
  <2> QED
    BY <2>1, <2>2
<1>8. PICK h \in Announced : At(0) = Word("header", <<num_pkts_in, h>>, FALSE)
  BY DEF Content
<1>9. PICK extra \in IF Cuts THEN {0, 1} ELSE {0} : h = n + 1 + extra
  BY <1>3, <1>5, <1>8 DEF Announced
<1>10. At(1) = Word("time", vals[1], FALSE)
  <2>1. At(1) = Word("time", r_timestamp, FALSE) /\ At(2).value = r_timestamp
    BY DEF Content
  <2>2. vals[1] = At(2).value
    BY <1>5, <1>7
  <2> QED
    BY <2>1, <2>2
<1>11. \A i \in 1..n : At(i + 1) = Word("data", vals[i], i = n)
  <2> SUFFICES ASSUME NEW i \in 1..n PROVE At(i + 1) = Word("data", vals[i], i = n)
    OBVIOUS
  <2>1. i + 1 \in 2..(OpenLen - 1) /\ i + 1 \in 0..(OpenLen - 1)
    BY <1>3, <1>5
  <2>2. Sample(At(i + 1), FALSE) \/ Sample(At(i + 1), TRUE)
    BY <2>1 DEF Content
  <2>3. At(i + 1).last <=> i + 1 = OpenLen - 1
    <3>1. Filled(i + 1)
      BY DEF Filled
    <3> QED
      BY <2>1, <3>1 DEF OpenMarks, At
  <2>4. i + 1 = OpenLen - 1 <=> i = n
    BY <1>3, <1>5
  <2>5. CASE Sample(At(i + 1), FALSE)
    <3>1. At(i + 1) = Word("data", vals[i], FALSE)
      BY <1>7, <2>5 DEF Sample
    <3>2. ~At(i + 1).last
      BY <3>1 DEF Word
    <3>3. (i = n) = FALSE
      BY <2>3, <2>4, <3>2
    <3> QED
      BY <3>1, <3>3
  <2>6. CASE Sample(At(i + 1), TRUE)
    <3>1. At(i + 1) = Word("data", vals[i], TRUE)
      BY <1>7, <2>6 DEF Sample
    <3>2. At(i + 1).last
      BY <3>1 DEF Word
    <3>3. (i = n) = TRUE
      BY <2>3, <2>4, <3>2
    <3> QED
      BY <3>1, <3>3
  <2> QED
    BY <2>2, <2>5, <2>6
<1>12. PICK a, t : a = Word("header", <<num_pkts_in, h>>, FALSE) /\ t = Word("time", vals[1], FALSE)
  OBVIOUS
<1>13. PICK body : body = [i \in 1..n |-> Word("data", vals[i], i = n)]
  OBVIOUS
<1>14. /\ DOMAIN body = 1..n /\ body = [i \in 1..n |-> body[i]]
       /\ \A i \in 1..n : body[i] = At(i + 1)
  BY <1>11, <1>13
<1>15. Fifo!Frame(num_pkts_in, Values, Len(Values) + 1 + extra) = <<a, t>> \o body
  <2>1. Head(vals) = vals[1]
    BY <1>5, <1>6, <1>7
  <2> QED
    BY <1>6, <1>7, <1>9, <1>12, <1>13, <2>1 DEF Fifo!Frame, Fifo!Header, Fifo!Word, Word
<1>16. PICK W : a \in W /\ t \in W /\ \A i \in 1..n : body[i] \in W
  <2> DEFINE U == {a, t} \cup {body[i] : i \in 1..n}
  <2>1. a \in U /\ t \in U /\ \A i \in 1..n : body[i] \in U
    OBVIOUS
  <2> QED
    BY <2>1
<1>17. body \in Seq(W) /\ Len(body) = n
  <2>1. body \in [1..n -> W]
    BY <1>14, <1>16
  <2> QED
    BY <2>1, IsSeq
<1>18. PICK head \in Seq(W) : head = <<a, t>> /\ Len(head) = 2 /\ head[1] = At(0) /\ head[2] = At(1)
  <2>1. <<a, t>> \in Seq(W) /\ Len(<<a, t>>) = 2 /\ <<a, t>>[1] = a /\ <<a, t>>[2] = t
    BY <1>16
  <2>2. a = At(0) /\ t = At(1)
    BY <1>8, <1>10, <1>12
  <2>3. \E head \in Seq(W) : head = <<a, t>>
    BY <2>1
  <2> QED
    BY <2>1, <2>2, <2>3
<1>19. /\ head \o body \in Seq(W) /\ Len(head \o body) = 2 + n
       /\ \A i \in 1..(2 + n) : (head \o body)[i] = IF i <= 2 THEN head[i] ELSE body[i - 2]
  <2>1. /\ head \o body \in Seq(W) /\ Len(head \o body) = Len(head) + Len(body)
        /\ \A i \in 1..(Len(head) + Len(body)) :
              (head \o body)[i] = IF i <= Len(head) THEN head[i] ELSE body[i - Len(head)]
    BY <1>17, <1>18, ConcatProperties
  <2> QED
    BY <1>17, <1>18, <2>1
<1>20. \A i \in 1..len : (head \o body)[i] = At(i - 1)
  <2> SUFFICES ASSUME NEW i \in 1..len PROVE (head \o body)[i] = At(i - 1)
    OBVIOUS
  <2>1. i \in 1..(2 + n) /\ (i = 1 \/ i = 2 \/ i > 2)
    BY <1>3, <1>5
  <2>2. CASE i = 1
    <3>1. (head \o body)[1] = head[1]
      BY <1>19, <2>1, <2>2
    <3> QED
      BY <1>18, <2>2, <3>1
  <2>3. CASE i = 2
    <3>1. (head \o body)[2] = head[2]
      BY <1>19, <2>1, <2>3
    <3> QED
      BY <1>18, <2>3, <3>1
  <2>4. CASE i > 2
    <3>1. i - 2 \in 1..n /\ (i - 2) + 1 = i - 1 /\ ~(i <= 2)
      BY <2>1, <2>4
    <3>2. (head \o body)[i] = body[i - 2]
      BY <1>19, <2>1, <3>1
    <3>3. body[i - 2] = At((i - 2) + 1)
      BY <1>14, <3>1
    <3> QED
      BY <3>1, <3>2, <3>3
  <2> QED
    BY <2>1, <2>2, <2>3, <2>4
<1>21. \A i \in 1..len : Collection[i] = At(i - 1)
  <2> SUFFICES ASSUME NEW i \in 1..len PROVE Collection[i] = At(i - 1)
    OBVIOUS
  <2>1. Committed + (i - 1) = Committed + i - 1
    BY <1>2, Sizes DEF Position
  <2> QED
    BY <1>3, <2>1 DEF Collection, At
<1>22. Collection \in Seq(W) /\ Len(Collection) = len
  <2>1. \A i \in 1..len : (head \o body)[i] \in W
    BY <1>3, <1>5, <1>19, ElementOfSeq
  <2>2. \A i \in 1..len : Collection[i] \in W
    BY <1>20, <1>21, <2>1
  <2>3. Collection \in [1..len -> W]
    BY <1>3, <2>2 DEF Collection
  <2> QED
    BY <1>3, <2>3, IsSeq
<1>23. Collection = head \o body
  BY <1>3, <1>5, <1>19, <1>20, <1>21, <1>22, SeqEqual
<1> QED
  BY <1>15, <1>18, <1>23
\* What the write side does to the words before the read side: nothing, or it adds a frame.
LEMMA WordsStep ==
  ASSUME TypeOK, Layout, Room, Whole, NEW captured \in BOOLEAN, captured => in_tready,
         NEW ready, WriteSide(captured), Store, ReadSide(ready)
  PROVE  /\ in_state # "WR_UPDATE" => Words' = Taken
         /\ in_state = "WR_UPDATE" => Words' = Taken \o Collection
<1>1. Places /\ rd_pos \in Position /\ Committed \in Position
  BY PlacesTyped, CommittedPlace DEF Places
<1>2. PICK c \in Position : c = Committed
  BY <1>1
<1>3. PICK rd \in Position : rd = rd_pos' /\ Gap(rd, c) \in Nat /\ Gap(rd, c) <= Gap(rd_pos, c)
  BY <1>2, ReadStep
<1>4. Gap(rd_pos, c) \in Nat /\ Gap(rd_pos, c) <= Depth
  BY <1>1, <1>2, Backlog
<1>5. PICK mem : mem = Written
  OBVIOUS
<1>6. Taken = (IF out_tvalid' THEN <<out'>> ELSE << >>) \o Block(rd, c, mem)
  BY <1>2, <1>3, <1>5 DEF Taken, Queue
<1>7. Words' = (IF out_tvalid' THEN <<out'>> ELSE << >>) \o Block(rd, Committed', Written')
  BY <1>3 DEF Words, Queue
<1>8. CASE in_state # "WR_UPDATE"
  <2>1. Committed' = c
    BY <1>1, <1>2, <1>8, WriteMoves
  <2>2. \A k \in 0..(Gap(rd_pos, c) - 1) : Written'[Cell(rd_pos + k)] = mem[Cell(rd_pos + k)]
    BY <1>2, <1>5, KeepsUnread
  <2>3. \A k \in 0..(Gap(rd, c) - 1) : Written'[Cell(rd + k)] = mem[Cell(rd + k)]
    <3>1. CASE rd = rd_pos
      BY <2>2, <3>1
    <3>2. CASE rd # rd_pos
      <4>1. rd_pos # c /\ rd = Pos(rd_pos + 1)
        BY <1>2, <1>3, <3>2, ReadMoves DEF Advance
      <4>2. Gap(rd, c) = Gap(rd_pos, c) - 1
        BY <1>1, <4>1, GapShrinks
      <4> SUFFICES ASSUME NEW k \in 0..(Gap(rd, c) - 1)
                   PROVE  Written'[Cell(rd + k)] = mem[Cell(rd + k)]
        OBVIOUS
      <4>3. k + 1 \in 0..(Gap(rd_pos, c) - 1)
        BY <1>4, <4>2
      <4>4. k \in 0..Depth /\ 1 \in 0..Depth /\ 1 + k <= Depth
        BY <1>4, <4>2, Sizes
      <4>5. Cell(Pos(rd_pos + 1) + k) = Cell(rd_pos + 1 + k)
        BY <1>1, <4>4, StepOn
      <4>6. rd_pos + 1 + k = rd_pos + (k + 1)
        BY <1>1, <4>4, Sizes DEF Position
      <4>7. Written'[Cell(rd_pos + (k + 1))] = mem[Cell(rd_pos + (k + 1))]
        BY <2>2, <4>3
      <4> QED
        BY <4>1, <4>5, <4>6, <4>7
    <3> QED
      BY <3>1, <3>2
  <2>4. PICK mem2 : mem2 = Written'
    OBVIOUS
  <2>5. Block(rd, c, mem2) = Block(rd, c, mem)
    <3>1. Gap(rd, c) <= Depth
      BY <1>3, <1>4, Sizes
    <3>2. \A k \in 0..(Gap(rd, c) - 1) : mem2[Cell(rd + k)] = mem[Cell(rd + k)]
      BY <2>3, <2>4
    <3> QED
      BY <3>1, <3>2, BlockKept
  <2> QED
    BY <1>6, <1>7, <1>8, <2>1, <2>4, <2>5
<1>9. CASE in_state = "WR_UPDATE"
  <2>1. PICK len \in 1..Depth : len = OpenLen /\ len <= MaxPktLen + 1
    <3>1. OpenLen >= 3 /\ OpenLen \in 0..(MaxPktLen + 1)
      BY <1>1, <1>9, CommittedPlace
    <3> QED
      BY <3>1, Sizes
  <2>2. Committed' = Pos(c + len) /\ Written' = mem
    <3>1. Update /\ Committed' = Pos(Committed + OpenLen)
      BY <1>1, <1>9, WriteMoves
    <3>2. ~wr_ena'
      BY <3>1 DEF Update
    <3> QED
      BY <1>2, <1>5, <2>1, <3>1, <3>2, WrittenStep
  <2>3. Gap(rd, c) + len <= Depth
    <3>1. Gap(rd_pos, c) + MaxPktLen < Depth
      BY <1>2, <1>9 DEF Room
    <3> QED
      BY <1>3, <1>4, <2>1, <3>1, Sizes
  <2>4. PICK W : out' \in W /\ \A i \in 0..(Depth - 1) : mem[i] \in W
    <3> DEFINE U == {out'} \cup {mem[i] : i \in 0..(Depth - 1)}
    <3>1. out' \in U /\ \A i \in 0..(Depth - 1) : mem[i] \in U
      OBVIOUS
    <3> QED
      BY <3>1
  <2>5. /\ [i \in 1..len |-> mem[Cell(c + i - 1)]] \in Seq(W)
        /\ Block(rd, Pos(c + len), mem) = Block(rd, c, mem) \o [i \in 1..len |-> mem[Cell(c + i - 1)]]
    BY <2>3, <2>4, BlockGrows
  <2>6. Collection = [i \in 1..len |-> mem[Cell(c + i - 1)]]
    BY <1>2, <1>5, <2>1 DEF Collection
  <2>7. PICK f \in Seq(W) : f = Collection
    BY <2>5, <2>6
  <2>8. PICK b \in Seq(W) : b = Block(rd, c, mem)
    <3>1. Gap(rd, c) <= Depth
      BY <1>3, <1>4, Sizes
    <3> QED
      BY <2>4, <3>1, BlockIs
  <2>9. PICK o \in Seq(W) : o = IF out_tvalid' THEN <<out'>> ELSE << >>
    <3>1. <<out'>> \in Seq(W) /\ << >> \in Seq(W)
      BY <2>4
    <3>2. (IF out_tvalid' THEN <<out'>> ELSE << >>) \in Seq(W)
      BY <3>1
    <3> QED
      BY <3>2
  <2>10. (o \o b) \o f = o \o (b \o f)
    BY ConcatAssociative
  <2>11. Words' = o \o (b \o f)
    BY <1>7, <2>2, <2>5, <2>6, <2>7, <2>8, <2>9
  <2>12. Taken = o \o b
    BY <1>6, <2>8, <2>9
  <2> QED
    BY <1>9, <2>7, <2>10, <2>11, <2>12
<1> QED
  BY <1>8, <1>9
(***************************************************************************)
(* The theorem.                                                            *)
(***************************************************************************)

FullInv == Inv /\ Content

LEMMA FullNext == FullInv /\ [Next]_vars => FullInv'
<1> SUFFICES ASSUME Inv, Content, [Next]_vars PROVE Inv' /\ Content'
  BY DEF FullInv
<1>1. Inv'
  BY InvNext
<1>2. CASE Next
  <2>1. PICK captured \in BOOLEAN, ready \in BOOLEAN : Clock(captured, ready) /\ (Keep \/ Switch)
    BY <1>2 DEF Next
  <2>2. Content'
    BY <2>1, ContentStep DEF Clock, Inv
  <2> QED
    BY <1>1, <2>2
<1>3. CASE UNCHANGED vars
  <2>1. /\ UNCHANGED <<in_state, num_pkts_in, wr_ena, wr_dat, wr_cnt, wr_pos, wr_start>>
        /\ UNCHANGED <<r_timestamp, r_data>>
    BY <1>3 DEF vars, writeVars
  <2>2. Committed' = Committed /\ Written' = Written
    BY <2>1 DEF Committed, Written
  <2>3. OpenLen' = OpenLen
    BY <2>1, <2>2 DEF OpenLen
  <2>4. Content'
    BY <2>1, <2>2, <2>3 DEF Content, At, Announced
  <2> QED
    BY <1>1, <2>4
<1> QED
  BY <1>2, <1>3

\* The queue of FrameFifo.
Shown == (IF out_tvalid THEN <<out>> ELSE << >>) \o Unread

LEMMA ShownIs == TypeOK /\ Layout => Shown = Words
<1> SUFFICES ASSUME TypeOK, Layout PROVE Shown = Words
  OBVIOUS
<1>1. rd_pos \in Position /\ Committed \in Position
  BY PlacesTyped, CommittedPlace DEF Places
<1>2. Pos(Committed - rd_pos) = Gap(rd_pos, Committed)
  BY <1>1, GapIs
<1>3. Unread = Block(rd_pos, Committed, Written)
  BY <1>2 DEF Unread, Stored, Block
<1> QED
  BY <1>3 DEF Shown, Words, Queue

LEMMA MapsStep == FullInv /\ FullInv' /\ Next => Fifo!Next
<1> SUFFICES ASSUME FullInv, FullInv', Next PROVE Fifo!Next
  OBVIOUS
<1>1. /\ Inv /\ TypeOK /\ Layout /\ Room /\ OpenMarks /\ Whole /\ Content /\ stamp \in Stamp
      /\ TypeOK' /\ Layout' /\ Content'
  BY DEF FullInv, Inv, TypeOK
<1>2. ValuesHold /\ ValuesHold'
  <2>1. TypeOK' /\ Layout' /\ Content' => ValuesHold'
    BY ValuesSeq, PTL
  <2> QED
    BY <1>1, <2>1, ValuesSeq
<1>3. Shown = Words /\ Shown' = Words'
  <2>1. TypeOK' /\ Layout' => (Shown = Words)'
    BY ShownIs, PTL
  <2> QED
    BY <1>1, <2>1, ShownIs
<1>4. PICK captured \in BOOLEAN, ready \in BOOLEAN : Clock(captured, ready) /\ (Keep \/ Switch)
  BY DEF Next
<1>5. /\ captured => in_tready
      /\ WriteSide(captured) /\ Store /\ ReadSide(ready)
  BY <1>4 DEF Clock
<1>6. Takes
  BY <1>1, <1>5, ReadStep
<1>7. /\ in_state # "WR_UPDATE" => Words' = Taken
      /\ in_state = "WR_UPDATE" => Words' = Taken \o Collection
  BY <1>1, <1>5, WordsStep
<1>8. /\ Begin(captured) => Values = << >> /\ Values' = <<stamp>>
      /\ More(captured) \/ Full(captured) =>
            /\ Values # << >> /\ Len(Values) < MaxWords
            /\ Values' = Append(Values, stamp)
      /\ ~(Begin(captured) \/ More(captured) \/ Full(captured) \/ Update) => Values' = Values
      /\ Update => Values # << >> /\ Values' = << >>
  BY <1>1, <1>2, <1>5, ValuesStep
<1>9. Taken \in {Shown} \cup (IF Shown = << >> THEN {} ELSE {Tail(Shown)})
  BY <1>3, <1>6 DEF Takes
<1>10. PICK taken \in {Shown} \cup (IF Shown = << >> THEN {} ELSE {Tail(Shown)}) : taken = Taken
  BY <1>9
<1>11. ena \in BOOLEAN /\ ena' \in BOOLEAN
  BY <1>1 DEF TypeOK
<1>12. /\ captured => stamp' = (stamp + 1) % Stamps
       /\ ~captured => stamp' = stamp
       /\ in_state \notin {"IDLE", "DATA"} => ~captured
  <2>1. stamp' = IF captured THEN (stamp + 1) % Stamps ELSE stamp
    BY <1>4 DEF Clock
  <2>2. in_state \in {"WR_LEN", "WR_TS", "WR_UPDATE"} => ~in_tready
    BY <1>1 DEF Room
  <2>3. in_state \in {"IDLE", "DATA", "WR_LEN", "WR_TS", "WR_UPDATE"}
    BY <1>1 DEF TypeOK
  <2> QED
    BY <1>5, <2>1, <2>2, <2>3
<1>13. CASE Begin(captured)
  <2>1. /\ in_state # "WR_UPDATE" /\ num_pkts_in' = (num_pkts_in + 1) % Numbers
        /\ ena /\ stamp' = (stamp + 1) % Stamps
    BY <1>13, <1>12 DEF Begin, Prepare
  <2>2. Values = << >> /\ Values' = <<stamp>> /\ Shown' = taken
    BY <1>3, <1>7, <1>8, <1>10, <1>13, <2>1
  <2> QED
    BY <1>10, <1>11, <2>1, <2>2 DEF Fifo!Next, Fifo!Begin, Fifo!Taken, Shown, Values
<1>14. CASE More(captured) \/ Full(captured)
  <2>1. /\ in_state # "WR_UPDATE" /\ num_pkts_in' = num_pkts_in
        /\ stamp' = (stamp + 1) % Stamps
    BY <1>14, <1>12 DEF More, Full, AddWord, Frozen
  <2>2. /\ Values # << >> /\ Len(Values) < MaxWords
        /\ Values' = Append(Values, stamp) /\ Shown' = taken
    BY <1>3, <1>7, <1>8, <1>10, <1>14, <2>1
  <2> QED
    BY <1>10, <1>11, <2>1, <2>2 DEF Fifo!Next, Fifo!Add, Fifo!Taken, Shown, Values, MaxWords
<1>15. CASE Update
  <2>1. in_state = "WR_UPDATE" /\ num_pkts_in' = num_pkts_in /\ stamp' = stamp
    BY <1>15, <1>12 DEF Update
  <2>2. PICK extra \in IF Cuts THEN {0, 1} ELSE {0} :
            Collection = Fifo!Frame(num_pkts_in, Values, Len(Values) + 1 + extra)
    BY <1>1, <1>2, <2>1, WholeFrame
  <2>3. /\ Values # << >> /\ Values' = << >>
        /\ Shown' = taken \o Fifo!Frame(num_pkts_in, Values, Len(Values) + 1 + extra)
    BY <1>3, <1>7, <1>8, <1>10, <1>15, <2>1, <2>2
  <2> QED
    BY <1>10, <1>11, <2>1, <2>3 DEF Fifo!Next, Fifo!Close, Shown, Values
<1>16. CASE ~(Begin(captured) \/ More(captured) \/ Full(captured) \/ Update)
  <2>1. in_state # "WR_UPDATE" /\ num_pkts_in' = num_pkts_in
    BY <1>5, <1>16 DEF WriteSide, Idle, Prepare, Cut, WaitForWord, WriteLength, WriteTimestamp, Frozen
  <2>2. Values' = Values /\ Shown' = taken
    BY <1>3, <1>7, <1>8, <1>10, <1>16, <2>1
  <2>3. CASE captured
    <3>1. in_state = "IDLE" /\ ~ena
      BY <1>5, <1>16, <1>12, <2>3
         DEF WriteSide, Idle, Prepare, Cut, WaitForWord, WriteLength, WriteTimestamp
    <3>2. Values = << >>
      BY <1>2, <3>1 DEF ValuesHold
    <3>3. stamp' = (stamp + 1) % Stamps
      BY <1>12, <2>3
    <3> QED
      BY <1>10, <1>11, <2>1, <2>2, <3>1, <3>2, <3>3
         DEF Fifo!Next, Fifo!Drop, Fifo!Taken, Shown, Values
  <2>4. CASE ~captured
    <3>1. stamp' = stamp
      BY <1>12, <2>4
    <3> QED
      BY <1>10, <1>11, <2>1, <2>2, <3>1 DEF Fifo!Next, Shown, Values
  <2> QED
    BY <2>3, <2>4
<1> QED
  BY <1>13, <1>14, <1>15, <1>16

LEMMA MapsStutter == UNCHANGED vars => UNCHANGED Fifo!vars
<1> SUFFICES ASSUME UNCHANGED vars PROVE UNCHANGED Fifo!vars
  OBVIOUS
<1>1. /\ UNCHANGED <<in_state, num_pkts_in, wr_ena, wr_dat, wr_pos, wr_start>>
      /\ UNCHANGED <<r_data, rd_pos, out_tvalid, out, ena, stamp>>
  BY DEF vars, inVars, writeVars, readVars
<1>2. Committed' = Committed /\ Collected' = Collected /\ Written' = Written
  BY <1>1 DEF Committed, Collected, Written
<1>3. Open' = Open /\ Unread' = Unread
  BY <1>1, <1>2 DEF Open, Unread, Stored
<1> QED
  BY <1>1, <1>3 DEF Fifo!vars

LEMMA MapsInit == Init => FullInv /\ Fifo!Init
<1> SUFFICES ASSUME Init PROVE FullInv /\ Fifo!Init
  OBVIOUS
<1>1. Inv /\ TypeOK /\ Layout
  BY InvInit DEF Inv
<1>2. /\ in_state = "IDLE" /\ num_pkts_in = 0 /\ ~out_tvalid /\ rd_pos = 0 /\ wr_start = 0
      /\ ena = FALSE /\ stamp = 0
  BY DEF Init
<1>3. Content
  BY <1>2 DEF Content
<1>4. Values = << >>
  BY <1>1, <1>2, <1>3, ValuesSeq DEF ValuesHold
<1>5. Unread = << >>
  <2>1. Committed = 0
    BY <1>2 DEF Committed
  <2>2. Pos(0 - 0) = 0
    BY PosIs, Sizes
  <2>3. Unread = [i \in 1..0 |-> Written[Cell(rd_pos + i - 1)]]
    BY <1>2, <2>1, <2>2 DEF Unread, Stored
  <2>4. Unread \in [1..0 -> {}]
    BY <2>3
  <2>5. Unread \in Seq({}) /\ Len(Unread) = 0
    BY <2>4, IsSeq
  <2> QED
    BY <2>5, EmptySeq
<1>6. << >> \o << >> = << >>
  BY EmptySeq, ConcatEmptySeq
<1> QED
  BY <1>1, <1>2, <1>3, <1>4, <1>5, <1>6 DEF FullInv, Fifo!Init, Values

\* For every size of buffer and frame, and whatever the reader and the switch do: every
\* word that is captured while the stream is on or a frame is open comes out, once and in
\* order, and nothing else; the frames are whole, each with its number and the time of its
\* first word, and the header counts the words (one too many at most after a cut).
THEOREM ImplementsFifo == Spec => FifoSpec
<1>1. Init => FullInv /\ Fifo!Init
  BY MapsInit
<1>2. FullInv /\ [Next]_vars => FullInv'
  BY FullNext
<1>3. FullInv /\ FullInv' /\ [Next]_vars => [Fifo!Next]_Fifo!vars
  BY MapsStep, MapsStutter
<1> QED
  BY <1>1, <1>2, <1>3, PTL DEF Spec, FifoSpec, Fifo!Spec

(***************************************************************************)
(* The length in a header, when the stream is never switched off between   *)
(* two words. The words that are still to be sent are whole frames but for *)
(* the beginning of the first: every header among them announces its       *)
(* frame, a header follows every last word, and the words end with a last  *)
(* one. What is offered as first is a header, and so is what comes next    *)
(* when nothing is offered.                                                *)
(***************************************************************************)

\* The len words after the i-th are the rest of a frame.
Announces(q, i, len) ==
    /\ len \in Nat \ {0} /\ i + len \in 1..Len(q)
    /\ q[i + len].last
    /\ \A j \in 1..(len - 1) : ~q[i + j].last

Headed(q) == \A i \in 1..Len(q) : q[i].kind = "header" => Announces(q, i, q[i].value[2])
Follows(q) == \A i \in 1..(Len(q) - 1) : q[i].last => q[i + 1].kind = "header"
StopsLast(q) == Len(q) > 0 => q[Len(q)].last
Framed(q) == Headed(q) /\ Follows(q) /\ StopsLast(q)

Front ==
    (~out_tvalid \/ out_tfirst) /\ Words # << >> => Words[1].kind = "header"

HeadInv == Framed(Words) /\ Front

\* After position i, q stands in r, so much further on.
Moved(q, r, i, shift) ==
    \A k \in 1..Len(q) : k > i => k + shift \in 1..Len(r) /\ r[k + shift] = q[k]

\* What is announced does not depend on what stands before or behind.
LEMMA AnnouncesIn ==
  ASSUME NEW V, NEW W, NEW q \in Seq(V), NEW r \in Seq(W), NEW shift \in Int,
         NEW i \in 1..Len(q), NEW len, Announces(q, i, len), Moved(q, r, i, shift)
  PROVE  Announces(r, i + shift, len)
<1>1. /\ len \in Nat \ {0} /\ i + len \in 1..Len(q) /\ q[i + len].last
      /\ \A j \in 1..(len - 1) : ~q[i + j].last
  BY DEF Announces
<1>2. Len(q) \in Nat /\ Len(r) \in Nat
  BY LenProperties
<1>3. \A j \in 1..len : i + shift + j \in 1..Len(r) /\ r[i + shift + j] = q[i + j]
  <2> SUFFICES ASSUME NEW j \in 1..len
               PROVE  i + shift + j \in 1..Len(r) /\ r[i + shift + j] = q[i + j]
    OBVIOUS
  <2>1. i + j \in 1..Len(q)
    BY <1>1, <1>2
  <2>2. (i + j) + shift = i + shift + j /\ i + j > i
    BY <1>1
  <2> QED
    BY <2>1, <2>2 DEF Moved
<1>4. i + shift + len \in 1..Len(r) /\ r[i + shift + len].last
  <2>1. len \in 1..len
    BY <1>1
  <2> QED
    BY <1>1, <1>3, <2>1
<1>5. \A j \in 1..(len - 1) : ~r[i + shift + j].last
  <2> SUFFICES ASSUME NEW j \in 1..(len - 1) PROVE ~r[i + shift + j].last
    OBVIOUS
  <2>1. j \in 1..len
    BY <1>1
  <2> QED
    BY <1>1, <1>3, <2>1
<1> QED
  BY <1>1, <1>4, <1>5 DEF Announces

LEMMA TailFramed ==
  ASSUME NEW W, NEW q \in Seq(W), q # << >>, Framed(q)
  PROVE  Framed(Tail(q))
<1>1. PICK n \in Nat \ {0} : n = Len(q)
  BY EmptySeq, LenProperties
<1>2. PICK t \in Seq(W) : t = Tail(q)
  BY HeadTailProperties
<1>3. Len(t) = n - 1 /\ \A i \in 1..(n - 1) : t[i] = q[i + 1]
  BY <1>1, <1>2, HeadTailProperties
<1>4. Headed(t)
  <2> SUFFICES ASSUME NEW i \in 1..Len(t), t[i].kind = "header"
               PROVE  Announces(t, i, t[i].value[2])
    BY DEF Headed
  <2>1. i + 1 \in 1..n /\ t[i] = q[i + 1] /\ (i + 1) + (-1) = i
    BY <1>1, <1>3
  <2>2. Announces(q, i + 1, t[i].value[2])
    BY <1>1, <2>1 DEF Framed, Headed
  <2>3. Moved(q, t, i + 1, -1)
    <3> SUFFICES ASSUME NEW k \in 1..n, k > i + 1
                 PROVE  k + (-1) \in 1..Len(t) /\ t[k + (-1)] = q[k]
      BY <1>1 DEF Moved
    <3>1. k + (-1) \in 1..(n - 1) /\ (k + (-1)) + 1 = k
      BY <1>3
    <3> QED
      BY <1>3, <3>1
  <2>4. -1 \in Int /\ i + 1 \in 1..Len(q)
    BY <1>1, <2>1
  <2>5. Announces(t, (i + 1) + (-1), t[i].value[2])
    BY <2>2, <2>3, <2>4, AnnouncesIn, Zenon
  <2> QED
    BY <2>1, <2>5
<1>5. Follows(t)
  <2> SUFFICES ASSUME NEW i \in 1..(n - 2), t[i].last PROVE t[i + 1].kind = "header"
    BY <1>3 DEF Follows
  <2>1. /\ i + 1 \in 1..(n - 1) /\ t[i] = q[i + 1] /\ t[i + 1] = q[(i + 1) + 1]
    BY <1>1, <1>3
  <2> QED
    BY <1>1, <2>1 DEF Framed, Follows
<1>6. StopsLast(t)
  <2>1. Len(t) > 0 => t[n - 1] = q[(n - 1) + 1] /\ (n - 1) + 1 = n /\ n > 0
    BY <1>1, <1>3
  <2> QED
    BY <1>1, <1>3, <2>1 DEF Framed, StopsLast
<1> QED
  BY <1>2, <1>4, <1>5, <1>6 DEF Framed

LEMMA CommonSeq ==
  ASSUME NEW V, NEW W, NEW q \in Seq(V), NEW r \in Seq(W)
  PROVE  \E U : q \in Seq(U) /\ r \in Seq(U)
<1>1. q \in [1..Len(q) -> V \cup W] /\ Len(q) \in Nat
  BY ElementOfSeq, LenProperties
<1>2. r \in [1..Len(r) -> V \cup W] /\ Len(r) \in Nat
  BY ElementOfSeq, LenProperties
<1>3. q \in Seq(V \cup W) /\ r \in Seq(V \cup W)
  BY <1>1, <1>2, IsSeq
<1> QED
  BY <1>3

LEMMA FirstOfConcat ==
  ASSUME NEW V, NEW W, NEW q \in Seq(V), NEW r \in Seq(W), q # << >>
  PROVE  (q \o r)[1] = q[1]
<1>1. PICK U : q \in Seq(U) /\ r \in Seq(U)
  BY CommonSeq
<1>2. PICK m \in Nat \ {0} : m = Len(q)
  BY EmptySeq, LenProperties
<1>3. PICK n \in Nat : n = Len(r)
  BY LenProperties
<1>4. \A i \in 1..(m + n) : (q \o r)[i] = IF i <= m THEN q[i] ELSE r[i - m]
  BY <1>1, <1>2, <1>3, ConcatProperties
<1>5. 1 \in 1..(m + n) /\ 1 <= m
  BY <1>2, <1>3
<1> QED
  BY <1>4, <1>5

LEMMA ConcatFramed ==
  ASSUME NEW V, NEW W, NEW q \in Seq(V), NEW r \in Seq(W),
         Framed(q), Framed(r), r # << >>, r[1].kind = "header"
  PROVE  Framed(q \o r)
<1>1. PICK m \in Nat : m = Len(q)
  BY LenProperties
<1>2. PICK n \in Nat \ {0} : n = Len(r)
  BY EmptySeq, LenProperties
<1>3. PICK U : q \in Seq(U) /\ r \in Seq(U)
  BY CommonSeq
<1>4. PICK c \in Seq(U) : c = q \o r
  BY <1>3, ConcatProperties
<1>5. /\ Len(c) = m + n
      /\ \A i \in 1..(m + n) : c[i] = IF i <= m THEN q[i] ELSE r[i - m]
  BY <1>1, <1>2, <1>3, <1>4, ConcatProperties
<1>6. \A i \in 1..m : i \in 1..Len(c) /\ c[i] = q[i]
  BY <1>5
<1>7. \A i \in 1..n : i + m \in 1..Len(c) /\ c[i + m] = r[i]
  <2> SUFFICES ASSUME NEW i \in 1..n PROVE i + m \in 1..Len(c) /\ c[i + m] = r[i]
    OBVIOUS
  <2>1. i + m \in 1..(m + n) /\ ~(i + m <= m) /\ (i + m) - m = i
    BY <1>1, <1>2
  <2> QED
    BY <1>5, <2>1
<1>8. \A i \in 1..Len(c) : i \in 1..m \/ \E j \in 1..n : i = j + m
  <2> SUFFICES ASSUME NEW i \in 1..Len(c), i \notin 1..m PROVE \E j \in 1..n : i = j + m
    OBVIOUS
  <2>1. i \in 1..(m + n)
    BY <1>5
  <2>2. i - m \in 1..n /\ i = (i - m) + m
    BY <1>1, <1>2, <2>1
  <2> QED
    BY <2>2
<1>9. Headed(c)
  <2> SUFFICES ASSUME NEW i \in 1..Len(c), c[i].kind = "header"
               PROVE  Announces(c, i, c[i].value[2])
    BY DEF Headed
  <2>1. CASE i \in 1..m
    <3>1. c[i] = q[i] /\ Announces(q, i, c[i].value[2]) /\ i + 0 = i
      BY <1>1, <1>6, <2>1 DEF Framed, Headed
    <3>2. Moved(q, c, i, 0) /\ 0 \in Int
      BY <1>1, <1>6 DEF Moved
    <3>3. i \in 1..Len(q)
      BY <1>1, <2>1
    <3>4. Announces(c, i + 0, c[i].value[2])
      BY <3>1, <3>2, <3>3, AnnouncesIn, Zenon
    <3> QED
      BY <3>1, <3>4
  <2>2. ASSUME NEW j \in 1..n, i = j + m PROVE Announces(c, i, c[i].value[2])
    <3>1. c[i] = r[j] /\ Announces(r, j, c[i].value[2])
      BY <1>2, <1>7, <2>2 DEF Framed, Headed
    <3>2. Moved(r, c, j, m)
      BY <1>2, <1>7 DEF Moved
    <3>3. m \in Int /\ j \in 1..Len(r)
      BY <1>1, <1>2
    <3>4. Announces(c, j + m, c[i].value[2])
      BY <3>1, <3>2, <3>3, AnnouncesIn, Zenon
    <3> QED
      BY <2>2, <3>4
  <2> QED
    BY <1>8, <2>1, <2>2
<1>10. Follows(c)
  <2> SUFFICES ASSUME NEW i \in 1..(m + n - 1), c[i].last PROVE c[i + 1].kind = "header"
    BY <1>5 DEF Follows
  <2>1. CASE i < m
    <3>1. i \in 1..m /\ i + 1 \in 1..m /\ i \in 1..(m - 1)
      BY <2>1
    <3> QED
      BY <1>1, <1>6, <3>1 DEF Framed, Follows
  <2>2. CASE i = m
    <3>1. c[1 + m] = r[1] /\ 1 + m = i + 1
      BY <1>7, <2>2
    <3> QED
      BY <3>1
  <2>3. CASE i > m
    <3>1. PICK j \in 1..(n - 1) : i = j + m
      <4>1. i - m \in 1..(n - 1) /\ i = (i - m) + m
        BY <2>3
      <4> QED
        BY <4>1
    <3>2. j \in 1..n /\ j + 1 \in 1..n /\ i + 1 = (j + 1) + m
      BY <3>1
    <3>3. c[i] = r[j] /\ c[i + 1] = r[j + 1]
      BY <1>7, <3>1, <3>2
    <3> QED
      BY <1>2, <3>3 DEF Framed, Follows
  <2> QED
    BY <2>1, <2>2, <2>3
<1>11. StopsLast(c)
  <2>1. c[n + m] = r[n] /\ n + m = Len(c) /\ r[n].last
    BY <1>2, <1>5, <1>7 DEF Framed, StopsLast
  <2> QED
    BY <2>1 DEF StopsLast
<1> QED
  BY <1>4, <1>9, <1>10, <1>11 DEF Framed

\* The words that stand in the buffer, the one on offer first.
LEMMA WordsAre ==
  ASSUME TypeOK, Layout, Room, Whole
  PROVE  \E W : /\ Words \in Seq(W)
                /\ out_tvalid => Words # << >> /\ Words[1] = out
<1>1. Places /\ rd_pos \in Position /\ Committed \in Position
  BY PlacesTyped, CommittedPlace DEF Places
<1>2. Gap(rd_pos, Committed) \in Nat /\ Gap(rd_pos, Committed) <= Depth
  BY <1>1, Backlog
<1>3. PICK rd \in Position, c \in Position : rd = rd_pos /\ c = Committed
  BY <1>1
<1>4. PICK mem : mem = Written
  OBVIOUS
<1>5. PICK W : out \in W /\ \A i \in 0..(Depth - 1) : mem[i] \in W
  <2> DEFINE U == {out} \cup {mem[i] : i \in 0..(Depth - 1)}
  <2>1. out \in U /\ \A i \in 0..(Depth - 1) : mem[i] \in U
    OBVIOUS
  <2> QED
    BY <2>1
<1>6. Gap(rd, c) <= Depth
  BY <1>2, <1>3
<1>7. \A i \in 0..(Depth - 1) : mem[i] \in W
  BY <1>5
<1>8. PICK o \in W : o = out
  BY <1>5
<1>9. /\ << >> \o Block(rd, c, mem) = Block(rd, c, mem)
      /\ <<o>> \o Block(rd, c, mem) \in Seq(W)
      /\ Len(<<o>> \o Block(rd, c, mem)) = Gap(rd, c) + 1
      /\ (<<o>> \o Block(rd, c, mem))[1] = o
  <2>1. << >> \o Block(rd, c, mem) = Block(rd, c, mem)
    BY <1>6, <1>7, <1>8, QueueIs
  <2>2. <<o>> \o Block(rd, c, mem) \in Seq(W)
    BY <1>6, <1>7, <1>8, QueueIs
  <2>3. Len(<<o>> \o Block(rd, c, mem)) = Gap(rd, c) + 1
    BY <1>6, <1>7, <1>8, QueueIs
  <2>4. (<<o>> \o Block(rd, c, mem))[1] = o
    BY <1>6, <1>7, <1>8, QueueIs
  <2> QED
    BY <2>1, <2>2, <2>3, <2>4
<1>10. Block(rd, c, mem) \in Seq(W)
  BY <1>6, <1>7, BlockIs
<1>11. Words = IF out_tvalid THEN <<o>> \o Block(rd, c, mem) ELSE Block(rd, c, mem)
  BY <1>3, <1>4, <1>8, <1>9 DEF Words, Queue
<1>12. <<o>> \o Block(rd, c, mem) # << >>
  <2>1. Gap(rd, c) + 1 # 0
    BY GapIsNat
  <2> QED
    BY <1>9, <2>1, EmptySeq
<1> QED
  BY <1>8, <1>9, <1>10, <1>11, <1>12

\* A frame that is about to be shown, and what its header announces.
LEMMA CollectionFramed ==
  ASSUME TypeOK, Layout, OpenMarks, Content, in_state = "WR_UPDATE", ~Cuts
  PROVE  /\ \E W : Collection \in Seq(W)
         /\ Collection # << >> /\ Collection[1].kind = "header"
         /\ Framed(Collection)
<1>1. Places
  BY PlacesTyped
<1>2. PICK c \in Position : c = Committed
  BY <1>1, CommittedPlace
<1>3. PICK len \in Nat : len = OpenLen /\ len >= 3
  BY <1>1, CommittedPlace
<1>4. \A i \in 1..len : Collection[i] = At(i - 1)
  <2> SUFFICES ASSUME NEW i \in 1..len PROVE Collection[i] = At(i - 1)
    OBVIOUS
  <2>1. Committed + (i - 1) = Committed + i - 1
    BY <1>2, Sizes DEF Position
  <2> QED
    BY <1>3, <2>1 DEF Collection, At
<1>5. PICK W : Collection \in Seq(W) /\ Len(Collection) = len
  <2> DEFINE U == {Collection[i] : i \in 1..len}
  <2>1. Collection \in [1..len -> U]
    BY <1>3 DEF Collection
  <2>2. Collection \in Seq(U) /\ Len(Collection) = len
    BY <2>1, IsSeq
  <2> QED
    BY <2>2
<1>6. /\ At(0) = Word("header", <<num_pkts_in, len - 1>>, FALSE)
      /\ At(1) = Word("time", r_timestamp, FALSE)
  BY <1>3 DEF Content, Announced
<1>7. \A k \in 0..(len - 1) : At(k).last <=> k = len - 1
  <2> SUFFICES ASSUME NEW k \in 0..(len - 1) PROVE At(k).last <=> k = len - 1
    OBVIOUS
  <2>1. Filled(k)
    BY DEF Filled
  <2> QED
    BY <1>3, <2>1 DEF OpenMarks, At
<1>8. /\ At(0).kind = "header" /\ At(0).value = <<num_pkts_in, len - 1>>
      /\ At(1).kind = "time"
  BY <1>6 DEF Word
<1>9. \A k \in 2..(len - 1) : At(k).kind = "data"
  <2> SUFFICES ASSUME NEW k \in 2..(len - 1) PROVE At(k).kind = "data"
    OBVIOUS
  <2>1. Sample(At(k), FALSE) \/ Sample(At(k), TRUE)
    BY <1>3 DEF Content
  <2>2. At(k) = Word("data", At(k).value, FALSE) \/ At(k) = Word("data", At(k).value, TRUE)
    BY <2>1 DEF Sample
  <2> QED
    BY <2>2 DEF Word
<1>10. PICK q \in Seq(W) : q = Collection
  BY <1>5
<1>11. \A i \in 1..len : q[i].last <=> i = len
  <2> SUFFICES ASSUME NEW i \in 1..len PROVE q[i].last <=> i = len
    OBVIOUS
  <2>1. i - 1 \in 0..(len - 1) /\ (i - 1 = len - 1 <=> i = len)
    BY <1>3
  <2> QED
    BY <1>4, <1>7, <1>10, <2>1
<1>12. \A i \in 1..len : q[i].kind = "header" => i = 1
  <2> SUFFICES ASSUME NEW i \in 1..len, i # 1 PROVE q[i].kind # "header"
    OBVIOUS
  <2>1. i - 1 = 1 \/ i - 1 \in 2..(len - 1)
    BY <1>3
  <2>2. q[i] = At(i - 1)
    BY <1>4, <1>10
  <2>3. At(i - 1).kind \in {"time", "data"}
    BY <1>8, <1>9, <2>1
  <2> QED
    BY <2>2, <2>3
<1>13. 1 \in 1..len /\ q[1] = At(0) /\ Len(q) = len
  BY <1>3, <1>4, <1>5, <1>10
<1>14. q[1].kind = "header" /\ q[1].value[2] = len - 1
  BY <1>8, <1>13
<1>15. Announces(q, 1, len - 1)
  <2>1. len - 1 \in Nat \ {0} /\ 1 + (len - 1) = len /\ len \in 1..len
    BY <1>3
  <2>2. \A j \in 1..(len - 1 - 1) : 1 + j \in 1..len /\ 1 + j # len
    BY <1>3
  <2> QED
    BY <1>11, <1>13, <2>1, <2>2 DEF Announces
<1>16. Headed(q)
  BY <1>12, <1>13, <1>14, <1>15 DEF Headed
<1>17. Follows(q)
  <2>1. \A i \in 1..(len - 1) : i \in 1..len /\ i # len
    BY <1>3
  <2> QED
    BY <1>11, <1>13, <2>1 DEF Follows
<1>18. StopsLast(q)
  <2>1. len \in 1..len
    BY <1>3
  <2> QED
    BY <1>11, <1>13, <2>1 DEF StopsLast
<1>19. q # << >>
  <2>1. len # 0
    BY <1>3
  <2> QED
    BY <1>13, <2>1, EmptySeq
<1> QED
  BY <1>5, <1>10, <1>14, <1>16, <1>17, <1>18, <1>19 DEF Framed

\* What the read side leaves is framed, and what it offers next is right.
LEMMA TakenFramed ==
  ASSUME TypeOK, Layout, Room, Whole, HeadInv, NEW ready, ReadSide(ready)
  PROVE  /\ \E W : Taken \in Seq(W)
         /\ Framed(Taken)
         /\ (~out_tvalid' \/ out_tfirst') /\ Taken # << >> => Taken[1].kind = "header"
<1>1. PICK W : /\ Words \in Seq(W)
               /\ out_tvalid => Words # << >> /\ Words[1] = out
  BY WordsAre
<1>2. /\ Takes
      /\ First \/ Empty \/ Hold(ready) => Taken = Words
      /\ Finish(ready) => Words # << >> /\ Taken = Tail(Words)
  BY ReadStep
<1>3. Taken \in Seq(W) /\ Framed(Taken)
  <2>1. CASE Taken = Words
    BY <1>1, <2>1 DEF HeadInv
  <2>2. CASE Words # << >> /\ Taken = Tail(Words)
    BY <1>1, <2>2, HeadTailProperties, TailFramed DEF HeadInv
  <2> QED
    BY <1>2, <2>1, <2>2 DEF Takes
<1>4. ASSUME First \/ Empty \/ Hold(ready), ~out_tvalid' \/ out_tfirst', Taken # << >>
      PROVE  Taken[1].kind = "header"
  <2>1. ~out_tvalid \/ out_tfirst
    BY <1>4 DEF First, Empty, Hold, readVars
  <2> QED
    BY <1>2, <1>4, <2>1 DEF HeadInv, Front
<1>5. ASSUME Finish(ready), Taken # << >> PROVE Taken[1].kind = "header"
  <2>1. PICK n \in Nat \ {0} : n = Len(Words)
    BY <1>1, <1>2, <1>5, EmptySeq, LenProperties
  <2>2. Len(Tail(Words)) = n - 1 /\ \A i \in 1..(n - 1) : Tail(Words)[i] = Words[i + 1]
    BY <1>1, <1>2, <1>5, <2>1, HeadTailProperties
  <2>3. n - 1 # 0
    BY <1>2, <1>3, <1>5, <2>2, EmptySeq
  <2>4. 1 \in 1..(n - 1) /\ Taken[1] = Words[1 + 1]
    BY <1>2, <1>5, <2>1, <2>2, <2>3
  <2>5. Words[1] = out /\ out.last
    BY <1>1, <1>5 DEF Finish
  <2> QED
    BY <2>1, <2>4, <2>5 DEF HeadInv, Framed, Follows
<1>6. ASSUME Following(ready) PROVE out_tvalid' /\ ~out_tfirst'
  BY <1>6 DEF Following, Fetch
<1> QED
  BY <1>3, <1>4, <1>5, <1>6 DEF ReadSide

LEMMA HeadStep ==
  ASSUME FullInv, HeadInv, ~Cuts, [Next]_vars
  PROVE  HeadInv'
<1>1. TypeOK /\ Layout /\ Room /\ OpenMarks /\ Whole /\ Content
  BY DEF FullInv, Inv
<1>2. CASE UNCHANGED vars
  <2>1. /\ UNCHANGED <<in_state, wr_ena, wr_dat, wr_pos, wr_start>>
        /\ UNCHANGED <<r_data, rd_pos, out_tvalid, out_tfirst, out>>
    BY <1>2 DEF vars, writeVars, readVars
  <2>2. Committed' = Committed /\ Written' = Written
    BY <2>1 DEF Committed, Written
  <2>3. Words' = Words
    BY <2>1, <2>2 DEF Words, Queue, Block
  <2> QED
    BY <2>1, <2>3 DEF HeadInv, Front, Framed, Headed, Follows, StopsLast, Announces
<1>3. CASE Next
  <2>1. PICK captured \in BOOLEAN, ready \in BOOLEAN : Clock(captured, ready) /\ (Keep \/ Switch)
    BY <1>3 DEF Next
  <2>2. /\ captured => in_tready
        /\ WriteSide(captured) /\ Store /\ ReadSide(ready)
    BY <2>1 DEF Clock
  <2>3. PICK W : /\ Taken \in Seq(W) /\ Framed(Taken)
                 /\ (~out_tvalid' \/ out_tfirst') /\ Taken # << >> => Taken[1].kind = "header"
    BY <1>1, <2>2, TakenFramed
  <2>4. /\ in_state # "WR_UPDATE" => Words' = Taken
        /\ in_state = "WR_UPDATE" => Words' = Taken \o Collection
    BY <1>1, <2>1, <2>2, WordsStep
  <2>5. PICK t \in Seq(W) : t = Taken
    BY <2>3
  <2>6. Framed(Words') /\ ((~out_tvalid' \/ out_tfirst') /\ Words' # << >> => Words'[1].kind = "header")
    <3>1. CASE in_state # "WR_UPDATE"
      BY <2>3, <2>4, <3>1
    <3>2. CASE in_state = "WR_UPDATE"
      <4>1. PICK V : Collection \in Seq(V)
        BY <1>1, <3>2, CollectionFramed
      <4>2. Collection # << >> /\ Collection[1].kind = "header" /\ Framed(Collection)
        BY <1>1, <3>2, CollectionFramed
      <4>3. PICK f \in Seq(V) : f = Collection
        BY <4>1
      <4>4. Framed(t \o f)
        BY <2>3, <2>5, <4>2, <4>3, ConcatFramed
      <4>5. (~out_tvalid' \/ out_tfirst') => (t \o f)[1].kind = "header"
        <5>1. CASE t = << >>
          <6>1. t \o f = f
            BY <5>1, ConcatEmptySeq
          <6> QED
            BY <4>2, <4>3, <6>1
        <5>2. CASE t # << >>
          <6>1. (t \o f)[1] = t[1]
            BY <5>2, FirstOfConcat
          <6> QED
            BY <2>3, <2>5, <5>2, <6>1
        <5> QED
          BY <5>1, <5>2
      <4> QED
        BY <2>4, <2>5, <3>2, <4>3, <4>4, <4>5
    <3> QED
      BY <3>1, <3>2
  <2>7. Framed(Words)'
    BY <2>6 DEF Framed, Headed, Follows, StopsLast, Announces
  <2>8. Front'
    BY <2>6 DEF Front
  <2> QED
    BY <2>7, <2>8 DEF HeadInv
<1> QED
  BY <1>2, <1>3

LEMMA HeadInit == Init => HeadInv
<1> SUFFICES ASSUME Init PROVE HeadInv
  OBVIOUS
<1>1. Fifo!Init /\ TypeOK /\ Layout
  BY MapsInit DEF FullInv, Inv
<1>2. Shown = << >>
  BY <1>1 DEF Fifo!Init, Shown
<1>3. Words = << >>
  BY <1>1, <1>2, ShownIs
<1>4. Len(<< >>) = 0
  OBVIOUS
<1> QED
  BY <1>3, <1>4 DEF HeadInv, Front, Framed, Headed, Follows, StopsLast

\* The words behind the one on offer.
LEMMA UnreadIs ==
  ASSUME TypeOK, Layout, Room, Whole, out_tvalid
  PROVE  Unread = Tail(Words)
<1>1. Places /\ rd_pos \in Position /\ Committed \in Position
  BY PlacesTyped, CommittedPlace DEF Places
<1>2. PICK rd \in Position, c \in Position : rd = rd_pos /\ c = Committed
  BY <1>1
<1>3. Gap(rd, c) <= Depth
  BY <1>1, <1>2, Backlog
<1>4. PICK mem : mem = Written
  OBVIOUS
<1>5. PICK W : out \in W /\ \A i \in 0..(Depth - 1) : mem[i] \in W
  <2> DEFINE U == {out} \cup {mem[i] : i \in 0..(Depth - 1)}
  <2>1. out \in U /\ \A i \in 0..(Depth - 1) : mem[i] \in U
    OBVIOUS
  <2> QED
    BY <2>1
<1>6. \A i \in 0..(Depth - 1) : mem[i] \in W
  BY <1>5
<1>7. PICK b \in Seq(W) : b = Block(rd, c, mem)
  BY <1>3, <1>6, BlockIs
<1>8. Words = <<out>> \o b
  BY <1>2, <1>4, <1>7 DEF Words, Queue
<1>9. Unread = b
  <2>1. Pos(c - rd) = Gap(rd, c)
    BY GapIs
  <2> QED
    BY <1>2, <1>4, <1>7, <2>1 DEF Unread, Stored, Block
<1> QED
  BY <1>5, <1>8, <1>9, QueueTaken

LEMMA HeaderCounts == FullInv /\ HeadInv => HeaderCountsWords
<1> SUFFICES ASSUME FullInv, HeadInv, out_tvalid, out_tfirst
             PROVE  /\ out.value[2] \in DOMAIN Unread
                    /\ Unread[out.value[2]].last
                    /\ \A i \in 1..(out.value[2] - 1) : ~Unread[i].last
  BY DEF HeaderCountsWords
<1>1. TypeOK /\ Layout /\ Room /\ Whole
  BY DEF FullInv, Inv
<1>2. PICK W : Words \in Seq(W) /\ Words # << >> /\ Words[1] = out
  BY <1>1, WordsAre
<1>3. PICK n \in Nat \ {0} : n = Len(Words)
  BY <1>2, EmptySeq, LenProperties
<1>4. Announces(Words, 1, out.value[2])
  <2>1. 1 \in 1..Len(Words) /\ Words[1].kind = "header"
    BY <1>2, <1>3 DEF HeadInv, Front
  <2> QED
    BY <1>2, <2>1 DEF HeadInv, Framed, Headed
<1>5. PICK len \in Nat \ {0} : len = out.value[2]
  BY <1>4 DEF Announces
<1>6. 1 + len \in 1..n /\ Words[1 + len].last /\ \A j \in 1..(len - 1) : ~Words[1 + j].last
  BY <1>3, <1>4, <1>5 DEF Announces
<1>7. PICK g \in Nat : /\ DOMAIN Unread = 1..g /\ n = g + 1
                       /\ \A i \in 1..g : Unread[i] = Words[1 + i]
  <2>1. /\ Unread \in Seq(W) /\ Len(Unread) = n - 1
        /\ \A i \in 1..(n - 1) : Unread[i] = Words[i + 1]
    BY <1>1, <1>2, <1>3, UnreadIs, HeadTailProperties
  <2>2. DOMAIN Unread = 1..(n - 1) /\ n - 1 \in Nat /\ n = (n - 1) + 1
    BY <1>3, <2>1, LenProperties
  <2>3. \A i \in 1..(n - 1) : i + 1 = 1 + i
    OBVIOUS
  <2> QED
    BY <2>1, <2>2, <2>3
<1>8. len \in 1..g /\ \A j \in 1..(len - 1) : j \in 1..g
  BY <1>6, <1>7
<1> QED
  BY <1>5, <1>6, <1>7, <1>8

\* For every size of buffer and frame: as long as the stream is only switched off while a
\* word is taken, the length in a header is the number of words that follow it in its
\* frame, which is what dma_thread takes it for. A cut between two words is all that
\* makes it wrong.
THEOREM HeaderRightWithoutCuts ==
  ASSUME ~Cuts
  PROVE  Spec => []HeaderCountsWords
<1>1. Init => FullInv /\ HeadInv
  BY MapsInit, HeadInit
<1>2. FullInv /\ HeadInv /\ [Next]_vars => FullInv' /\ HeadInv'
  BY FullNext, HeadStep
<1>3. FullInv /\ HeadInv => HeaderCountsWords
  BY HeaderCounts
<1> QED
  BY <1>1, <1>2, <1>3, PTL DEF Spec
=============================================================================
