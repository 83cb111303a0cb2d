-------------------------- MODULE Discovery_proofs ---------------------------
(***************************************************************************)
(* What the run of Discovery checks, for every number of boards, every     *)
(* length of the host's list, of its buffers and of the delays.            *)
(*                                                                         *)
(* The list is nodes in the order of their allocation. As long as it was   *)
(* never emptied it is the nodes from `responses` to the last one, each of *)
(* which points to the next (Shape); what the function Listed collects     *)
(* along the pointers is then found without induction, by the least node   *)
(* at which it would be something else.                                    *)
(***************************************************************************)
EXTENDS Discovery, SequenceTheorems, WellFoundedInduction, TLAPS

Node == [device : Device, next : Nat]

\* The devices of all nodes, in the order of their allocation.
Devices(list) == [i \in 1..Len(list) |-> list[i].device]

----------------------------------------------------------------------------
(* What Listed collects.                                                   *)

Less == {p \in Nat \X Nat : p[1] < p[2]}

\* Every set of naturals has a least element.
LEMMA LeastIn ==
  ASSUME NEW S \in SUBSET Nat, S # {}
  PROVE  \E x \in S : \A y \in S : x <= y
<1>1. IsWellFoundedOn(Less, Nat)
  <2>1. Less = OpToRel(<, Nat)
    BY DEF Less, OpToRel
  <2> QED
    BY <2>1, NatLessThanWellFounded
<1>2. \E x \in S : \A y \in S : <<y, x>> \notin Less
  BY <1>1, WFMin
<1>3. PICK x \in S : \A y \in S : <<y, x>> \notin Less
  BY <1>2
<1>4. \A i, j \in Nat : <<i, j>> \in Less <=> i < j
  BY DEF Less
<1>5. ASSUME NEW y \in S PROVE x <= y
  <2>1. x \in Nat /\ y \in Nat /\ ~(y < x)
    BY <1>3, <1>4
  <2> QED
    BY <2>1
<1> QED
  BY <1>5

\* A node points to the one allocated after it or is the end of a list, as the last is.
Linked(list) ==
    \A i \in 1..Len(list) :
        \/ list[i].next = 0
        \/ list[i].next = i + 1 /\ i < Len(list)

Collects(f, list) ==
    f = [p \in 0..Len(list) |->
            IF p = 0 THEN << >> ELSE <<list[p].device>> \o f[list[p].next]]

LEMMA ListedIs == Listed = (CHOOSE f : Collects(f, nodes))[responses]
  BY DEF Listed, Collects, Pointer

\* Every bounded set of naturals has a greatest element.
LEMMA GreatestIn ==
  ASSUME NEW k \in Nat, NEW S \in SUBSET (0..k), S # {}
  PROVE  \E x \in S : \A y \in S : y <= x
<1> DEFINE D == {k - y : y \in S}
<1>1. \A y \in S : k - y \in Nat
  OBVIOUS
<1>2. D \in SUBSET Nat /\ D # {}
  BY <1>1
<1>3. PICK d \in D : \A e \in D : d <= e
  BY <1>2, LeastIn
<1>4. PICK x \in S : d = k - x
  OBVIOUS
<1>5. \A y \in S : k - x <= k - y
  BY <1>3, <1>4
<1>6. \A y \in S : y <= x
  BY <1>5
<1> QED
  BY <1>6

LEMMA DevicesTyped ==
  ASSUME NEW list \in Seq(Node)
  PROVE  /\ Len(list) \in Nat
         /\ Devices(list) \in Seq(Device)
         /\ Len(Devices(list)) = Len(list)
         /\ \A i \in 1..Len(list) : Devices(list)[i] = list[i].device /\ list[i] \in Node
<1>1. Len(list) \in Nat /\ \A i \in 1..Len(list) : list[i] \in Node
  BY ElementOfSeq, LenProperties
<1>2. \A i \in 1..Len(list) : list[i].device \in Device
  BY <1>1 DEF Node
<1>3. Devices(list) \in [1..Len(list) -> Device]
  BY <1>1, <1>2 DEF Devices
<1>4. Devices(list) \in Seq(Device)
  BY <1>1, <1>3, SeqDef
<1>5. Len(Devices(list)) = Len(list)
  BY <1>1, <1>3, <1>4, LenProperties DEF Devices
<1> QED
  BY <1>1, <1>4, <1>5 DEF Devices

\* The function of Listed exists: from a node it collects up to the end of its list.
LEMMA CollectorExists ==
  ASSUME NEW list \in Seq(Node), Linked(list)
  PROVE  \E f : Collects(f, list)
<1> DEFINE N == Len(list)
           devs == Devices(list)
           Ends(p) == {e \in p..N : list[e].next = 0}
           End(p) == CHOOSE e \in Ends(p) : \A d \in Ends(p) : e <= d
           f == [p \in 0..N |-> IF p = 0 THEN << >> ELSE SubSeq(devs, p, End(p))]
<1>1. N \in Nat /\ devs \in Seq(Device) /\ Len(devs) = N
  BY DevicesTyped
<1>2. ASSUME NEW p \in 1..N
      PROVE  End(p) \in Ends(p) /\ \A d \in Ends(p) : End(p) <= d
  <2>1. list[N].next = 0
    BY <1>1, <1>2 DEF Linked
  <2>2. N \in Ends(p) /\ Ends(p) \in SUBSET Nat
    BY <1>1, <1>2, <2>1
  <2>3. \E e \in Ends(p) : \A d \in Ends(p) : e <= d
    BY <2>2, LeastIn
  <2> HIDE DEF Ends
  <2> QED
    BY <2>3
<1>3. ASSUME NEW p \in 1..N
      PROVE  SubSeq(devs, p, End(p)) = <<list[p].device>> \o f[list[p].next]
  <2>1. End(p) \in p..N /\ list[End(p)].next = 0 /\ devs[p] = list[p].device
    BY <1>2, <1>3, DevicesTyped
  <2>2. SubSeq(devs, p, End(p)) = <<devs[p]>> \o SubSeq(devs, p + 1, End(p))
    BY <1>1, <1>3, <2>1, SubSeqRecursiveFirst
  <2>3. SubSeq(devs, p + 1, End(p)) = f[list[p].next]
    <3>1. CASE list[p].next = 0
      <4>1. p \in Ends(p)
        BY <1>1, <1>3, <3>1
      <4>2. End(p) = p
        BY <1>2, <1>3, <2>1, <4>1
      <4>3. SubSeq(devs, p + 1, p) = << >>
        BY <1>3, SubSeqEmpty
      <4> QED
        BY <1>1, <3>1, <4>2, <4>3
    <3>2. CASE list[p].next = p + 1 /\ p < N
      <4>1. p + 1 \in 1..N /\ p + 1 # 0
        BY <1>1, <1>3, <3>2
      <4>2. End(p + 1) \in (p + 1)..N /\ list[End(p + 1)].next = 0
        BY <1>2, <4>1
      <4>3. End(p) # p
        BY <2>1, <3>2, <4>1
      <4>4. End(p) \in Ends(p + 1) /\ End(p + 1) \in Ends(p)
        BY <1>1, <1>3, <2>1, <4>2, <4>3
      <4>5. End(p) <= End(p + 1) /\ End(p + 1) <= End(p)
        BY <1>2, <1>3, <4>1, <4>4
      <4>6. End(p) = End(p + 1)
        BY <1>3, <2>1, <4>2, <4>5
      <4>7. f[p + 1] = SubSeq(devs, p + 1, End(p + 1))
        <5>1. p + 1 \in 0..N
          BY <1>1, <4>1
        <5> QED
          BY <4>1, <5>1
      <4> QED
        BY <3>2, <4>6, <4>7
    <3> QED
      BY <1>3, <3>1, <3>2 DEF Linked
  <2> QED
    BY <2>1, <2>2, <2>3
<1>4. f = [p \in 0..N |-> IF p = 0 THEN << >> ELSE <<list[p].device>> \o f[list[p].next]]
  <2>1. \A p \in 0..N : p # 0 => p \in 1..N
    BY <1>1
  <2> HIDE DEF End
  <2> QED
    BY <1>3, <2>1
<1>5. Collects(f, list)
  BY <1>4 DEF Collects
<1> QED
  BY <1>5

LEMMA CollectedAt ==
  ASSUME NEW list \in Seq(Node), NEW f, Collects(f, list)
  PROVE  /\ f[0] = << >>
         /\ \A p \in 1..Len(list) : f[p] = <<list[p].device>> \o f[list[p].next]
<1>1. 0 \in 0..Len(list) /\ \A p \in 1..Len(list) : p \in 0..Len(list) /\ p # 0
  BY DevicesTyped
<1>2. \A p \in 0..Len(list) :
        f[p] = IF p = 0 THEN << >> ELSE <<list[p].device>> \o f[list[p].next]
  BY Zenon DEF Collects
<1> QED
  BY <1>1, <1>2

\* Along nodes that each point to the next it collects all of them.
LEMMA CollectorCollects ==
  ASSUME NEW list \in Seq(Node), NEW f, Collects(f, list),
         NEW r \in 1..Len(list), list[Len(list)].next = 0,
         \A i \in r..(Len(list) - 1) : list[i].next = i + 1
  PROVE  f[r] = SubSeq(Devices(list), r, Len(list))
<1> DEFINE N == Len(list)
           devs == Devices(list)
           Wrong == {i \in r..N : f[i] # SubSeq(devs, i, N)}
<1>1. N \in Nat /\ devs \in Seq(Device) /\ Len(devs) = N
  BY DevicesTyped
<1> SUFFICES ASSUME f[r] # SubSeq(devs, r, N) PROVE FALSE
  OBVIOUS
<1>2. Wrong # {}
  <2>1. r \in r..N
    BY <1>1
  <2> QED
    BY <2>1
<1>3. Wrong \in SUBSET (0..N)
  BY <1>1
<1>4. PICK j \in Wrong : \A i \in Wrong : i <= j
  <2> HIDE DEF Wrong, N
  <2> QED
    BY <1>1, <1>2, <1>3, GreatestIn
<1>5. j \in 1..N /\ j \in r..N /\ j # 0 /\ devs[j] = list[j].device
  BY <1>1, DevicesTyped
<1>6. f[j] = <<list[j].device>> \o f[list[j].next]
  BY <1>5, CollectedAt
<1>7. SubSeq(devs, j, N) = <<devs[j]>> \o SubSeq(devs, j + 1, N)
  BY <1>1, <1>5, SubSeqRecursiveFirst
<1>8. f[list[j].next] = SubSeq(devs, j + 1, N)
  <2>1. CASE j = N
    <3>1. f[0] = << >>
      BY CollectedAt
    <3>2. SubSeq(devs, j + 1, N) = << >>
      BY <1>1, <2>1, SubSeqEmpty
    <3> QED
      BY <2>1, <3>1, <3>2
  <2>2. CASE j # N
    <3>1. j + 1 \in r..N /\ j \in r..(N - 1)
      BY <1>1, <1>5, <2>2
    <3>2. j + 1 \notin Wrong
      BY <1>4, <1>5
    <3> QED
      BY <3>1, <3>2
  <2> QED
    BY <2>1, <2>2
<1> QED
  BY <1>4, <1>5, <1>6, <1>7, <1>8

----------------------------------------------------------------------------
(* The list.                                                               *)

\* The list is the nodes from responses to the last; once it was emptied, nothing leads
\* to the nodes that are linked behind the old last one.
Shape ==
    /\ nodes \in Seq(Node) /\ Linked(nodes)
    /\ latest \in {0, Len(nodes)}
    /\ responses # 0 =>
          /\ latest # 0 /\ ~drained
          /\ \A i \in responses..(Len(nodes) - 1) : nodes[i].next = i + 1
          /\ pending = SubSeq(Devices(nodes), responses, Len(nodes))
    /\ responses = 0 /\ ~drained => latest = 0 /\ pending = << >>
    /\ drained => latest # 0

ListInv == ListTypeOK /\ Shape /\ num_responses = Len(pending)

LEMMA ListInitInv == ListInit => ListInv
<1> SUFFICES ASSUME ListInit PROVE ListInv
  OBVIOUS
<1>1. Len(<< >>) = 0 /\ << >> \in Seq(Node) /\ << >> \in Seq(Device)
  BY EmptySeq
<1>2. ListTypeOK
  <2>1. DOMAIN nodes = {} /\ Len(nodes) = 0 /\ 0 <= MaxNodes /\ 0 \in 0..MaxBeacons
    BY <1>1, ListAssumption DEF ListInit
  <2>2. responses \in Pointer /\ latest \in Pointer
    BY <2>1 DEF ListInit, Pointer
  <2> QED
    BY <1>1, <2>1, <2>2 DEF ListInit, ListTypeOK
<1>3. Shape
  BY <1>1 DEF ListInit, Shape, Linked
<1> QED
  BY <1>1, <1>2, <1>3 DEF ListInit, ListInv

\* The invariant says what Listed is.
LEMMA ListInvMeans == ListInv => ListIsPending
<1> SUFFICES ASSUME ListInv PROVE ListIsPending
  OBVIOUS
<1>1. nodes \in Seq(Node) /\ Linked(nodes) /\ responses \in 0..Len(nodes) /\ Len(nodes) \in Nat
  BY DevicesTyped DEF ListInv, Shape, ListTypeOK, Pointer
<1> DEFINE f == CHOOSE f : Collects(f, nodes)
<1>2. Collects(f, nodes)
  BY <1>1, CollectorExists
<1>3. Listed = f[responses]
  BY ListedIs
<1> HIDE DEF f
<1>4. CASE responses = 0
  <2>1. Listed = << >>
    BY <1>1, <1>2, <1>3, <1>4, CollectedAt
  <2> QED
    BY <1>4, <2>1 DEF ListInv, Shape, ListIsPending
<1>5. CASE responses # 0
  <2>1. /\ responses \in 1..Len(nodes) /\ ~drained
        /\ \A i \in responses..(Len(nodes) - 1) : nodes[i].next = i + 1
        /\ pending = SubSeq(Devices(nodes), responses, Len(nodes))
    BY <1>1, <1>5 DEF ListInv, Shape
  <2>2. nodes[Len(nodes)].next = 0
    BY <1>1, <2>1 DEF Linked
  <2>3. Listed = pending
    BY <1>1, <1>2, <1>3, <2>1, <2>2, CollectorCollects
  <2> QED
    BY <2>1, <2>3 DEF ListInv, ListIsPending
<1> QED
  BY <1>4, <1>5

\* The nodes after a beacon was recorded.
LEMMA NodesRecorded ==
  ASSUME Shape, NEW d \in Device, Record(d)
  PROVE  /\ nodes' \in Seq(Node) /\ Len(nodes) \in Nat /\ Len(nodes') = Len(nodes) + 1
         /\ \A i \in 1..Len(nodes) :
                nodes'[i].next = IF i = latest THEN Len(nodes) + 1 ELSE nodes[i].next
         /\ nodes'[Len(nodes) + 1].next = 0
         /\ Devices(nodes') = Append(Devices(nodes), d)
<1> DEFINE node == [device |-> d, next |-> 0]
           N == Len(nodes)
<1>1. nodes \in Seq(Node) /\ N \in Nat /\ node \in Node /\ latest \in {0, N}
      /\ \A i \in 1..N : nodes[i] \in Node
  BY DevicesTyped DEF Shape, Node
<1>2. \E linked \in Seq(Node) :
        /\ Len(linked) = N /\ nodes' = Append(linked, node)
        /\ \A i \in 1..N : /\ linked[i].next = IF i = latest THEN N + 1 ELSE nodes[i].next
                           /\ linked[i].device = nodes[i].device
  <2>1. CASE latest = 0
    BY <1>1, <2>1 DEF Record, Link
  <2>2. CASE latest # 0
    <3>1. latest \in 1..N /\ N + 1 \in Nat
      BY <1>1, <2>2
    <3> DEFINE linked == [nodes EXCEPT ![latest].next = N + 1]
               changed == [nodes[latest] EXCEPT !.next = N + 1]
    <3>2. nodes' = Append(linked, node)
      BY <2>2 DEF Record, Link
    <3>3. changed \in Node /\ changed.next = N + 1 /\ changed.device = nodes[latest].device
      BY <1>1, <3>1 DEF Node
    <3>4. linked = [nodes EXCEPT ![latest] = changed]
      OBVIOUS
    <3> HIDE DEF changed
    <3>5. /\ linked \in Seq(Node) /\ Len(linked) = N
          /\ \A i \in 1..N : linked[i] = IF i = latest THEN changed ELSE nodes[i]
      <4> HIDE DEF linked
      <4> QED
        BY <1>1, <3>1, <3>3, <3>4, ExceptSeq
    <3> HIDE DEF linked
    <3>6. \A i \in 1..N : /\ linked[i].next = IF i = latest THEN N + 1 ELSE nodes[i].next
                          /\ linked[i].device = nodes[i].device
      BY <3>3, <3>5
    <3> QED
      BY <3>2, <3>5, <3>6
  <2> QED
    BY <2>1, <2>2
<1>3. PICK linked \in Seq(Node) :
        /\ Len(linked) = N /\ nodes' = Append(linked, node)
        /\ \A i \in 1..N : /\ linked[i].next = IF i = latest THEN N + 1 ELSE nodes[i].next
                           /\ linked[i].device = nodes[i].device
  BY <1>2
<1> HIDE DEF node
<1>4. /\ nodes' \in Seq(Node) /\ Len(nodes') = N + 1
      /\ \A i \in 1..N : nodes'[i] = linked[i]
      /\ nodes'[N + 1] = node
  BY <1>1, <1>3, AppendProperties
<1>5. node.next = 0 /\ node.device = d
  BY DEF node
<1>6. Devices(nodes') = Append(Devices(nodes), d)
  <2>1. /\ Devices(nodes') \in Seq(Device) /\ Len(Devices(nodes')) = N + 1
        /\ \A i \in 1..(N + 1) : Devices(nodes')[i] = nodes'[i].device
    BY <1>4, DevicesTyped
  <2>2. /\ Devices(nodes) \in Seq(Device) /\ Len(Devices(nodes)) = N
        /\ \A i \in 1..N : Devices(nodes)[i] = nodes[i].device
    BY <1>1, DevicesTyped
  <2>3. /\ Append(Devices(nodes), d) \in Seq(Device)
        /\ Len(Append(Devices(nodes), d)) = N + 1
        /\ \A i \in 1..N : Append(Devices(nodes), d)[i] = nodes[i].device
        /\ Append(Devices(nodes), d)[N + 1] = d
    BY <2>2, AppendProperties
  <2>4. ASSUME NEW i \in 1..(N + 1)
        PROVE  Devices(nodes')[i] = Append(Devices(nodes), d)[i]
    <3>1. CASE i = N + 1
      BY <1>4, <1>5, <2>1, <2>3, <3>1
    <3>2. CASE i \in 1..N
      <4>1. Devices(nodes')[i] = linked[i].device
        BY <1>4, <2>1, <3>2
      <4>2. linked[i].device = nodes[i].device /\ Append(Devices(nodes), d)[i] = nodes[i].device
        BY <1>3, <2>3, <3>2
      <4> QED
        BY <4>1, <4>2
    <3>3. i = N + 1 \/ i \in 1..N
      <4>1. N \in Nat
        BY <1>1
      <4> HIDE DEF N
      <4> QED
        BY <4>1
    <3> QED
      BY Zenon, <3>1, <3>2, <3>3
  <2> QED
    BY <2>1, <2>3, <2>4, SeqEqual
<1> QED
  BY <1>1, <1>3, <1>4, <1>5, <1>6

\* The last devices of a sequence that was appended to.
LEMMA LastOfAppended ==
  ASSUME NEW devs \in Seq(Device), NEW d \in Device
  PROVE  /\ SubSeq(Append(devs, d), Len(devs) + 1, Len(devs) + 1) = Append(<< >>, d)
         /\ \A r \in 1..Len(devs) :
                SubSeq(Append(devs, d), r, Len(devs) + 1) = Append(SubSeq(devs, r, Len(devs)), d)
<1>1. PICK N \in Nat : N = Len(devs)
  BY LenProperties
<1>2. /\ Append(devs, d) = devs \o <<d>> /\ Append(devs, d) \in Seq(Device)
      /\ Len(Append(devs, d)) = N + 1 /\ Append(devs, d)[N + 1] = d
  BY <1>1, AppendProperties, AppendIsConcat
<1>3. N + 1 \in 1..(N + 1) /\ N + 1 \in Nat /\ (N + 1) + 1 > N + 1
  BY <1>1
<1>4. SubSeq(Append(devs, d), N + 1, N + 1) = <<d>>
  <2>1. SubSeq(Append(devs, d), N + 1, N + 1) =
          <<Append(devs, d)[N + 1]>> \o SubSeq(Append(devs, d), (N + 1) + 1, N + 1)
    BY <1>2, <1>3, SubSeqRecursiveFirst
  <2>2. SubSeq(Append(devs, d), (N + 1) + 1, N + 1) = << >>
    BY <1>3, SubSeqEmpty
  <2>3. <<d>> \o << >> = <<d>>
    OBVIOUS
  <2> QED
    BY <1>2, <2>1, <2>2, <2>3
<1>5. Append(<< >>, d) = <<d>>
  OBVIOUS
<1>6. ASSUME NEW r \in 1..N
      PROVE  SubSeq(Append(devs, d), r, N + 1) = Append(SubSeq(devs, r, N), d)
  <2>1. r \in 1..(N + 1) /\ r <= N + 1 /\ r - 1 <= N /\ N \in (r - 1)..N
    BY <1>1, <1>6
  <2>2. SubSeq(Append(devs, d), r, N + 1) =
          SubSeq(Append(devs, d), r, N) \o <<Append(devs, d)[N + 1]>>
    <3>1. \A i \in r..(N + 1) : Append(devs, d)[i] \in Device
      BY <1>1, <1>2, <1>6, ElementOfSeq
    <3>2. (N + 1) - 1 = N
      BY <1>1
    <3> QED
      BY <1>1, <1>2, <2>1, <3>1, <3>2, SubSeqRecursiveSecond
  <2>3. SubSeq(devs \o <<d>>, r, N) = SubSeq(devs, r, N)
    <3>1. <<d>> \in Seq(Device)
      OBVIOUS
    <3> QED
      BY <1>1, <1>6, <2>1, <3>1, SubSeqOfConcat1
  <2>4. SubSeq(devs, r, N) \in Seq(Device)
    <3>1. \A i \in r..N : devs[i] \in Device
      BY <1>1, <1>6, ElementOfSeq
    <3> QED
      BY <1>1, <1>6, <3>1, SubSeqProperties
  <2> QED
    BY <1>2, <2>2, <2>3, <2>4, AppendIsConcat
<1> QED
  BY <1>1, <1>4, <1>5, <1>6

\* A beacon that is recorded comes last.
LEMMA RecordInv ==
  ASSUME ListInv, num_responses < MaxBeacons, NEW d \in Device, Record(d)
  PROVE  ListInv'
<1>1. PICK N \in Nat : N = Len(nodes)
  BY DevicesTyped DEF ListInv, Shape
<1>2. /\ nodes \in Seq(Node) /\ Linked(nodes) /\ latest \in {0, N}
      /\ pending \in Seq(Device) /\ N < MaxNodes /\ responses \in 0..N
      /\ num_responses \in 0..MaxBeacons /\ drained \in BOOLEAN
      /\ num_responses = Len(pending)
  BY <1>1 DEF ListInv, Shape, ListTypeOK, Pointer, Record
<1>3. Devices(nodes) \in Seq(Device) /\ Len(Devices(nodes)) = N
  BY <1>1, <1>2, DevicesTyped
<1>4. /\ nodes' \in Seq(Node) /\ Len(nodes') = N + 1
      /\ \A i \in 1..N : nodes'[i].next = IF i = latest THEN N + 1 ELSE nodes[i].next
      /\ nodes'[N + 1].next = 0
      /\ Devices(nodes') = Append(Devices(nodes), d)
  BY <1>1, NodesRecorded DEF ListInv
<1>5. /\ num_responses' = num_responses + 1 /\ pending' = Append(pending, d)
      /\ drained' = drained /\ latest' = N + 1
      /\ responses' = IF latest # 0 THEN responses ELSE N + 1
  BY <1>1 DEF Record, Link
<1>6. /\ responses # 0 =>
           /\ latest # 0 /\ ~drained
           /\ \A i \in responses..(N - 1) : nodes[i].next = i + 1
           /\ pending = SubSeq(Devices(nodes), responses, N)
      /\ responses = 0 /\ ~drained => latest = 0 /\ pending = << >>
      /\ drained => latest # 0
  BY <1>1 DEF ListInv, Shape
<1>7. Linked(nodes')
  <2>1. ASSUME NEW i \in 1..(N + 1)
        PROVE  nodes'[i].next = 0 \/ (nodes'[i].next = i + 1 /\ i < N + 1)
    <3>1. CASE i = N + 1
      BY <1>4, <3>1
    <3>2. CASE i \in 1..N
      <4>1. nodes[i].next = 0 \/ (nodes[i].next = i + 1 /\ i < N)
        BY <1>1, <1>2, <3>2 DEF Linked
      <4>2. nodes'[i].next = IF i = latest THEN N + 1 ELSE nodes[i].next
        BY <1>4, <3>2
      <4> QED
        BY <1>2, <3>2, <4>1, <4>2
    <3> QED
      BY <3>1, <3>2
  <2> QED
    BY <1>4, <2>1 DEF Linked
<1>8. pending' \in Seq(Device) /\ Len(pending') = Len(pending) + 1
  BY <1>2, <1>5, AppendProperties
<1>9. responses' # 0 =>
        /\ ~drained'
        /\ \A i \in responses'..N : nodes'[i].next = i + 1
        /\ pending' = SubSeq(Devices(nodes'), responses', N + 1)
  <2>1. CASE latest = 0
    <3>1. responses = 0 /\ pending = << >> /\ ~drained /\ responses' = N + 1
      BY <1>5, <1>6, <2>1
    <3>2. SubSeq(Append(Devices(nodes), d), N + 1, N + 1) = Append(<< >>, d)
      BY <1>3, LastOfAppended
    <3>3. \A i \in (N + 1)..N : FALSE
      OBVIOUS
    <3> QED
      BY <1>4, <1>5, <3>1, <3>2, <3>3
  <2>2. CASE latest # 0 /\ responses # 0
    <3>1. /\ responses \in 1..N /\ latest = N /\ ~drained /\ responses' = responses
          /\ \A i \in responses..(N - 1) : nodes[i].next = i + 1
          /\ pending = SubSeq(Devices(nodes), responses, N)
      <4>1. responses \in 1..N /\ latest = N
        BY <1>2, <2>2
      <4>2. responses' = responses
        BY <1>5, <2>2
      <4> QED
        BY Zenon, <1>6, <2>2, <4>1, <4>2
    <3>2. ASSUME NEW i \in responses..N PROVE nodes'[i].next = i + 1
      <4>1. i \in 1..N /\ (i = N \/ i \in responses..(N - 1))
        BY <3>1
      <4> QED
        BY <1>4, <3>1, <4>1
    <3>3. SubSeq(Append(Devices(nodes), d), responses, N + 1) = Append(pending, d)
      BY <1>3, <3>1, LastOfAppended
    <3> QED
      BY <1>4, <1>5, <3>1, <3>2, <3>3
  <2>3. CASE latest # 0 /\ responses = 0
    BY <1>5, <2>3
  <2> QED
    BY <2>1, <2>2, <2>3
<1>10. Shape'
  <2>1. latest' \in {0, Len(nodes')} /\ latest' # 0
    BY <1>4, <1>5
  <2>2. responses' = 0 => drained'
    BY <1>5, <1>6
  <2>3. Len(nodes') - 1 = N
    BY <1>4
  <2> QED
    BY <1>4, <1>7, <1>9, <2>1, <2>2, <2>3 DEF Shape
<1>11. ListTypeOK'
  <2>1. ASSUME NEW i \in DOMAIN nodes'
        PROVE  nodes'[i].device \in Device /\ nodes'[i].next \in 0..(N + 1)
    <3>1. i \in 1..(N + 1)
      BY <1>4, LenProperties
    <3>2. nodes'[i] \in Node
      BY <1>4, <3>1, ElementOfSeq
    <3>3. nodes'[i].next = 0 \/ (nodes'[i].next = i + 1 /\ i < N + 1)
      BY <1>4, <1>7, <3>1 DEF Linked
    <3> QED
      BY <3>1, <3>2, <3>3 DEF Node
  <2>2. responses' \in 0..(N + 1) /\ latest' \in 0..(N + 1)
    BY <1>2, <1>5
  <2>3. num_responses' \in 0..MaxBeacons
    BY <1>2, <1>5, ListAssumption
  <2>4. N + 1 <= MaxNodes
    BY <1>2, ListAssumption
  <2> QED
    BY <1>2, <1>4, <1>5, <1>8, <2>1, <2>2, <2>3, <2>4 DEF ListTypeOK, Pointer
<1> QED
  BY <1>2, <1>5, <1>8, <1>10, <1>11 DEF ListInv

\* The first beacon is handed out; after the last one nothing is listed any more.
LEMMA GetNextInv ==
  ASSUME ListInv, GetNext
  PROVE  ListInv'
<1>1. PICK N \in Nat : N = Len(nodes)
  BY DevicesTyped DEF ListInv, Shape
<1>2. /\ nodes \in Seq(Node) /\ Linked(nodes) /\ latest \in {0, N}
      /\ pending \in Seq(Device) /\ responses \in 1..N
      /\ num_responses \in 0..MaxBeacons /\ num_responses = Len(pending)
  BY <1>1 DEF ListInv, Shape, ListTypeOK, Pointer, GetNext
<1>3. Devices(nodes) \in Seq(Device) /\ Len(Devices(nodes)) = N
  BY <1>1, <1>2, DevicesTyped
<1>4. /\ latest # 0 /\ ~drained
      /\ \A i \in responses..(N - 1) : nodes[i].next = i + 1
      /\ pending = SubSeq(Devices(nodes), responses, N)
  BY <1>1 DEF ListInv, Shape, GetNext
<1>5. /\ responses' = nodes[responses].next
      /\ num_responses' = num_responses - 1 /\ pending' = Tail(pending)
      /\ drained' = (drained \/ responses' = 0)
      /\ nodes' = nodes /\ latest' = latest
  BY DEF GetNext
<1>6. N \in responses..N
  BY <1>2
<1>7. pending' = SubSeq(Devices(nodes), responses + 1, N)
  BY <1>2, <1>3, <1>4, <1>5, <1>6, HeadTailOfSubSeq
<1>8. Len(pending) = N - responses + 1
  <2>1. \A i \in responses..N : Devices(nodes)[i] \in Device
    BY <1>2, <1>3, ElementOfSeq
  <2>2. Len(SubSeq(Devices(nodes), responses, N)) = N - responses + 1
    BY <1>2, <2>1, SubSeqProperties
  <2> QED
    BY <1>4, <2>2
<1>9. pending' \in Seq(Device) /\ Len(pending') = Len(pending) - 1
  <2>1. pending # << >>
    BY <1>2, <1>8, EmptySeq
  <2> QED
    BY <1>2, <1>5, <2>1, HeadTailProperties
<1>10. num_responses' \in 0..MaxBeacons /\ num_responses' = Len(pending')
  BY <1>2, <1>5, <1>8, <1>9, ListAssumption
<1>11. CASE responses = N
  <2>1. responses' = 0
    BY <1>1, <1>2, <1>5, <1>11 DEF Linked
  <2>2. drained' /\ responses' \in Pointer' /\ drained' \in BOOLEAN
    <3>1. drained' = TRUE
      BY Zenon, <1>5, <2>1
    <3>2. responses' \in Pointer'
      BY <1>1, <1>5, <2>1 DEF Pointer
    <3> QED
      BY <3>1, <3>2
  <2>3. Shape'
    BY <1>1, <1>2, <1>4, <1>5, <2>1, <2>2 DEF Shape
  <2>4. ListTypeOK'
    BY <1>5, <1>9, <1>10, <2>2 DEF ListInv, ListTypeOK, Pointer
  <2> QED
    BY <1>10, <2>3, <2>4 DEF ListInv
<1>12. CASE responses # N
  <2>1. responses \in responses..(N - 1)
    BY <1>2, <1>12
  <2>2. responses' = responses + 1
    BY <1>4, <1>5, <2>1
  <2>3. responses' \in 1..N /\ responses' # 0 /\ responses' \in Pointer'
    BY <1>1, <1>2, <1>5, <1>12, <2>2 DEF Pointer
  <2>4. ~drained' /\ drained' \in BOOLEAN
    BY <1>4, <1>5, <2>3
  <2>5. \A i \in responses'..(N - 1) : i \in responses..(N - 1)
    BY <1>2, <2>2
  <2>6. \A i \in responses'..(N - 1) : nodes[i].next = i + 1
    BY <1>4, <2>5
  <2>7. Shape'
    BY <1>1, <1>2, <1>4, <1>5, <1>7, <2>2, <2>3, <2>4, <2>6 DEF Shape
  <2>8. ListTypeOK'
    BY <1>5, <1>9, <1>10, <2>3, <2>4 DEF ListInv, ListTypeOK, Pointer
  <2> QED
    BY <1>10, <2>7, <2>8 DEF ListInv
<1> QED
  BY <1>11, <1>12

LEMMA ReopenInv ==
  ASSUME ListInv, Reopen
  PROVE  ListInv'
<1>1. Len(<< >>) = 0 /\ << >> \in Seq(Device) /\ Len(nodes) \in Nat
  BY DevicesTyped, EmptySeq DEF ListInv, Shape
<1>2. /\ responses' = 0 /\ latest' = 0 /\ num_responses' = 0
      /\ pending' = << >> /\ drained' = FALSE /\ nodes' = nodes
  BY DEF Reopen
<1>3. ListTypeOK'
  <2>1. 0 \in Pointer /\ Pointer' = Pointer /\ 0 \in 0..MaxBeacons
    BY <1>1, <1>2, ListAssumption DEF Pointer
  <2> QED
    BY <1>1, <1>2, <2>1 DEF ListInv, ListTypeOK
<1>4. Shape'
  BY <1>1, <1>2 DEF ListInv, Shape
<1> QED
  BY <1>1, <1>2, <1>3, <1>4 DEF ListInv

LEMMA ListStays ==
  ASSUME ListInv, UNCHANGED listVars
  PROVE  ListInv'
BY DEF ListInv, listVars, ListTypeOK, Shape, Pointer, Linked, Devices

----------------------------------------------------------------------------
(* The sockets and the threads.                                            *)

DevicesOK ==
    /\ state \in [Board -> {"off", "up", "deaf"}]
    /\ age \in [Board -> 0..MinDelay]
    /\ sleep \in [Board -> 0..(Nap + 1)]
    /\ last \in [Board -> {"none", "answered", "missed"}]
    /\ misses \in 0..MaxMisses

SocketsOK == inbox \in [Board -> Seq(Datagram)] /\ mail \in Seq(Datagram)

\* A board that is off has answered nothing; after an answer the rate limit ends no later
\* than the sleep.
Rested ==
    \A d \in Board :
        /\ state[d] = "off" => last[d] = "none"
        /\ last[d] = "answered" => age[d] + sleep[d] >= MinDelay

LEMMA ArrivalsTyped ==
  ASSUME NEW buffer \in Seq(Datagram), NEW room, NEW m \in Datagram,
         NEW b \in Arrivals(buffer, room, m)
  PROVE  b \in Seq(Datagram)
<1>1. CASE b = buffer
  BY <1>1
<1>2. CASE \E i \in 0..Len(buffer) :
             b = SubSeq(buffer, 1, i) \o <<m>> \o SubSeq(buffer, i + 1, Len(buffer))
  <2>1. PICK i \in 0..Len(buffer) :
          b = SubSeq(buffer, 1, i) \o <<m>> \o SubSeq(buffer, i + 1, Len(buffer))
    BY <1>2
  <2>2. Len(buffer) \in Nat /\ i \in Int /\ i + 1 \in Int
    BY LenProperties
  <2>3. \A j \in 1..Len(buffer) : buffer[j] \in Datagram
    BY ElementOfSeq
  <2>4. SubSeq(buffer, 1, i) \in Seq(Datagram)
    <3>1. \A j \in 1..i : buffer[j] \in Datagram
      BY <2>2, <2>3
    <3> QED
      BY <2>2, <3>1, SubSeqProperties
  <2>5. SubSeq(buffer, i + 1, Len(buffer)) \in Seq(Datagram)
    <3>1. \A j \in (i + 1)..Len(buffer) : buffer[j] \in Datagram
      BY <2>2, <2>3
    <3> QED
      BY <2>2, <3>1, SubSeqProperties
  <2>6. <<m>> \in Seq(Datagram)
    OBVIOUS
  <2>7. SubSeq(buffer, 1, i) \o <<m>> \in Seq(Datagram)
    BY <2>4, <2>6, ConcatProperties
  <2> QED
    BY <2>1, <2>5, <2>7, ConcatProperties
<1> QED
  BY <1>1, <1>2 DEF Arrivals

LEMMA BroadcastTyped ==
  ASSUME SocketsOK, NEW m \in Datagram, NEW open, Broadcast(m, open)
  PROVE  SocketsOK'
<1>1. mail' \in Seq(Datagram)
  BY ArrivalsTyped DEF SocketsOK, Broadcast
<1>2. ASSUME NEW d \in Board PROVE inbox'[d] \in Seq(Datagram)
  <2>1. inbox[d] \in Seq(Datagram)
    BY DEF SocketsOK
  <2>2. inbox'[d] = inbox[d] \/ inbox'[d] \in Arrivals(inbox[d], Buffered, m)
    BY DEF Broadcast
  <2> QED
    BY <2>1, <2>2, ArrivalsTyped
<1>3. \E S : inbox' \in [Board -> S]
  BY DEF Broadcast
<1> QED
  BY <1>1, <1>2, <1>3 DEF SocketsOK

LEMMA TailTyped ==
  ASSUME NEW buffer \in Seq(Datagram), buffer # << >>
  PROVE  Head(buffer) \in Datagram /\ Tail(buffer) \in Seq(Datagram)
BY HeadTailProperties

LEMMA DatagramsTyped ==
  /\ \A for \in SUBSET Device : Request(for) \in Datagram
  /\ \A d \in Device : Beacon(d) \in Datagram
<1>1. "request" \in {"request", "beacon"} /\ "beacon" \in {"request", "beacon"}
  OBVIOUS
<1> QED
  BY <1>1 DEF Request, Beacon, Datagram

\* The sockets hold datagrams.
LEMMA SocketsStep ==
  ASSUME SocketsOK, [Next]_vars
  PROVE  SocketsOK'
<1>1. \A d \in Board : d \in Device
  BY DiscoveryAssumption
<1>2. ASSUME NEW d \in Board, Start(d) PROVE SocketsOK'
  <2>1. Beacon(d) \in Datagram
    BY <1>1, DatagramsTyped
  <2> QED
    BY <1>2, <2>1, BroadcastTyped DEF Start, SocketsOK
<1>3. ASSUME NEW d \in Board, Poll(d) PROVE SocketsOK'
  <2>1. inbox' = inbox \/ (inbox[d] # << >> /\ inbox' = [inbox EXCEPT ![d] = Tail(@)])
    BY <1>3 DEF Poll, PollNothing, Ignore, Miss, Answer, Considered, Receive
  <2>2. inbox' \in [Board -> Seq(Datagram)]
    <3>1. inbox[d] \in Seq(Datagram)
      BY DEF SocketsOK
    <3>2. inbox[d] # << >> => Tail(inbox[d]) \in Seq(Datagram)
      BY <3>1, TailTyped
    <3> QED
      BY <2>1, <3>2 DEF SocketsOK
  <2>3. mail' = mail \/ mail' \in Arrivals(mail, HostBuffered, Beacon(d))
    BY <1>3 DEF Poll, PollNothing, Ignore, Miss, Answer
  <2>4. Beacon(d) \in Datagram
    BY <1>1, DatagramsTyped
  <2>5. mail' \in Seq(Datagram)
    BY <2>3, <2>4, ArrivalsTyped DEF SocketsOK
  <2> QED
    BY <2>2, <2>5 DEF SocketsOK
<1>4. CASE AskAll
  BY <1>4, BroadcastTyped, DatagramsTyped DEF AskAll
<1>5. CASE AskSome
  <2>1. PICK for \in (SUBSET Device) \ {Device} : Broadcast(Request(for), Up)
    BY <1>5 DEF AskSome
  <2> QED
    BY <2>1, BroadcastTyped, DatagramsTyped
<1>6. CASE SendRequest
  <2>1. PICK d \in Sought : Broadcast(Beacon(d), Up)
    BY <1>6 DEF SendRequest
  <2>2. Beacon(d) \in Datagram
    BY DatagramsTyped, DiscoveryAssumption
  <2> QED
    BY <2>1, <2>2, BroadcastTyped
<1>7. CASE Update
  BY <1>7, TailTyped DEF Update, SocketsOK, deviceVars
<1>8. CASE UNCHANGED <<inbox, mail>>
  BY <1>8 DEF SocketsOK
<1>9. CASE Restart
  <2>1. inbox' = inbox /\ mail' = << >>
    BY <1>9 DEF Restart, deviceVars
  <2> QED
    BY <2>1, EmptySeq DEF SocketsOK
<1>10. Tick \/ Take \/ UNCHANGED vars => UNCHANGED <<inbox, mail>>
  BY DEF Tick, Take, vars, deviceVars
<1> QED
  BY Zenon, <1>2, <1>3, <1>4, <1>5, <1>6, <1>7, <1>8, <1>9, <1>10 DEF Next

\* What is recorded is a beacon of a device.
LEMMA ListStep ==
  ASSUME ListInv, SocketsOK, [Next]_vars
  PROVE  ListInv'
<1>1. CASE UNCHANGED listVars
  BY <1>1, ListStays
<1>2. CASE Update
  <2>1. CASE \E d \in Head(mail).for : Record(d)
    <3>1. PICK d \in Head(mail).for : Record(d)
      BY <2>1
    <3>2. Head(mail) \in Datagram /\ num_responses < MaxBeacons
      BY <1>2, TailTyped DEF Update, SocketsOK
    <3>3. d \in Device
      BY <3>1, <3>2 DEF Datagram
    <3> QED
      BY <3>1, <3>2, <3>3, RecordInv
  <2> QED
    BY Zenon, <1>1, <1>2, <2>1 DEF Update
<1>3. CASE Take
  BY <1>3, GetNextInv DEF Take
<1>4. CASE Restart
  BY <1>4, ReopenInv DEF Restart
<1>5. ASSUME NEW d \in Board, Start(d) \/ Poll(d) PROVE UNCHANGED listVars
  BY <1>5 DEF Start, Poll, PollNothing, Ignore, Miss, Answer, Considered, Receive, listVars
<1>6. Tick \/ AskAll \/ AskSome \/ SendRequest \/ UNCHANGED vars => UNCHANGED listVars
  BY DEF Tick, AskAll, AskSome, SendRequest, vars
<1> QED
  BY Zenon, <1>1, <1>2, <1>3, <1>4, <1>5, <1>6 DEF Next

LEMMA LesserAndGreater ==
  ASSUME NEW a \in Int, NEW b \in Int
  PROVE  Min({a, b}) = (IF a <= b THEN a ELSE b) /\ Max({a, b}) = (IF a >= b THEN a ELSE b)
BY DEF Min, Max

\* What a second does to a board.
LEMMA Ticked ==
  ASSUME DevicesOK, Tick, NEW d \in Board
  PROVE  /\ age'[d] = IF age[d] < MinDelay THEN age[d] + 1 ELSE MinDelay
         /\ sleep'[d] = IF sleep[d] > 0 THEN sleep[d] - 1 ELSE 0
         /\ age[d] \in 0..MinDelay /\ sleep[d] \in 0..(Nap + 1)
<1>1. age[d] \in 0..MinDelay /\ sleep[d] \in 0..(Nap + 1) /\ MinDelay \in Nat /\ Nap \in Nat
  BY DiscoveryAssumption DEF DevicesOK
<1>2. age'[d] = Min({age[d] + 1, MinDelay}) /\ sleep'[d] = Max({sleep[d] - 1, 0})
  BY DEF Tick
<1>3. age[d] + 1 \in Int /\ MinDelay \in Int /\ sleep[d] - 1 \in Int /\ 0 \in Int
  BY <1>1
<1>4. Min({age[d] + 1, MinDelay}) = IF age[d] + 1 <= MinDelay THEN age[d] + 1 ELSE MinDelay
  BY Zenon, <1>3, LesserAndGreater
<1>5. Max({sleep[d] - 1, 0}) = IF sleep[d] - 1 >= 0 THEN sleep[d] - 1 ELSE 0
  BY Zenon, <1>3, LesserAndGreater
<1> QED
  BY <1>1, <1>2, <1>4, <1>5

LEMMA DevicesStep ==
  ASSUME DevicesOK, [Next]_vars
  PROVE  DevicesOK'
<1>1. MinDelay \in Nat /\ Nap \in Nat /\ MaxMisses \in Nat
  BY DiscoveryAssumption
<1>2. 0 \in 0..MinDelay /\ 1 \in 0..(Nap + 1) /\ Nap + 1 \in 0..(Nap + 1)
  BY <1>1
<1>3. ASSUME NEW d \in Board, Start(d) PROVE DevicesOK'
  <2>1. \/ state' = [state EXCEPT ![d] = "deaf"] /\ age' = age
        \/ /\ state' = [state EXCEPT ![d] = "up"]
           /\ \E a \in 0..MinDelay : age' = [age EXCEPT ![d] = a]
    BY <1>3 DEF Start
  <2>2. sleep' = sleep /\ last' = last /\ misses' = misses
    BY <1>3 DEF Start
  <2> QED
    BY <2>1, <2>2 DEF DevicesOK
<1>4. ASSUME NEW d \in Board, Poll(d) PROVE DevicesOK'
  <2>1. /\ state' = state /\ misses' = misses
        /\ age' = age \/ age' = [age EXCEPT ![d] = 0]
        /\ sleep' = [sleep EXCEPT ![d] = 1] \/ sleep' = [sleep EXCEPT ![d] = Nap + 1]
        /\ \/ last' = last \/ last' = [last EXCEPT ![d] = "missed"]
           \/ last' = [last EXCEPT ![d] = "answered"]
    BY <1>4 DEF Poll, PollNothing, Ignore, Miss, Answer, Considered, Receive
  <2> QED
    BY <1>2, <2>1 DEF DevicesOK
<1>5. CASE Tick
  <2>1. \A d \in Board : age'[d] \in 0..MinDelay /\ sleep'[d] \in 0..(Nap + 1)
    BY <1>1, <1>5, Ticked
  <2>2. age' = [d \in Board |-> age'[d]] /\ sleep' = [d \in Board |-> sleep'[d]]
    BY <1>5 DEF Tick
  <2>3. state' = state /\ last' = last /\ misses' = misses
    BY <1>5 DEF Tick
  <2> QED
    BY <2>1, <2>2, <2>3 DEF DevicesOK
<1>6. CASE AskSome
  <2>1. misses < MaxMisses /\ misses' = misses + 1 /\ UNCHANGED <<state, age, sleep, last>>
    BY <1>6 DEF AskSome
  <2>2. misses' \in 0..MaxMisses
    BY <1>1, <2>1 DEF DevicesOK
  <2> QED
    BY <2>1, <2>2 DEF DevicesOK
<1>7. CASE UNCHANGED <<state, age, sleep, last, misses>>
  BY <1>7 DEF DevicesOK
<1>8. AskAll \/ SendRequest \/ Update \/ Take \/ Restart \/ UNCHANGED vars
        => UNCHANGED <<state, age, sleep, last, misses>>
  BY DEF AskAll, SendRequest, Update, Take, Restart, vars, deviceVars
<1> QED
  BY Zenon, <1>3, <1>4, <1>5, <1>6, <1>7, <1>8 DEF Next

LEMMA RestedStep ==
  ASSUME MinDelay <= Nap + 1, DevicesOK, Rested, [Next]_vars
  PROVE  Rested'
<1>1. MinDelay \in Nat /\ Nap \in Nat
  BY DiscoveryAssumption
<1> SUFFICES ASSUME NEW e \in Board
             PROVE  /\ state'[e] = "off" => last'[e] = "none"
                    /\ last'[e] = "answered" => age'[e] + sleep'[e] >= MinDelay
  BY DEF Rested
<1>2. /\ state[e] = "off" => last[e] = "none"
      /\ last[e] = "answered" => age[e] + sleep[e] >= MinDelay
      /\ age[e] \in 0..MinDelay /\ sleep[e] \in 0..(Nap + 1)
  BY DEF Rested, DevicesOK
<1>3. CASE UNCHANGED <<state, age, sleep, last>>
  BY <1>2, <1>3
<1>4. ASSUME NEW d \in Board, Start(d)
      PROVE  /\ state'[e] = "off" => last'[e] = "none"
             /\ last'[e] = "answered" => age'[e] + sleep'[e] >= MinDelay
  <2>1. state[d] = "off" /\ sleep' = sleep /\ last' = last
    BY <1>4 DEF Start
  <2>2. d # e => state'[e] = state[e] /\ age'[e] = age[e]
    BY <1>4 DEF Start, DevicesOK
  <2>3. CASE d = e
    <3>1. last'[e] = "none"
      BY <1>2, <2>1, <2>3
    <3> QED
      BY <3>1
  <2>4. CASE d # e
    BY <1>2, <2>1, <2>2, <2>4
  <2> QED
    BY <2>3, <2>4
<1>5. ASSUME NEW d \in Board, Poll(d)
      PROVE  /\ state'[e] = "off" => last'[e] = "none"
             /\ last'[e] = "answered" => age'[e] + sleep'[e] >= MinDelay
  <2>1. state' = state /\ state[d] = "up" /\ sleep[d] = 0
    BY <1>5 DEF Poll, PollNothing, Ignore, Miss, Answer, Considered, Receive, Wakes
  <2>2. d # e => age'[e] = age[e] /\ sleep'[e] = sleep[e] /\ last'[e] = last[e]
    BY <1>5 DEF Poll, PollNothing, Ignore, Miss, Answer, Considered, Receive, DevicesOK
  <2>3. CASE d = e
    <3>1. \/ age' = age /\ last' = last /\ sleep' = [sleep EXCEPT ![d] = 1]
          \/ last' = [last EXCEPT ![d] = "missed"]
          \/ age' = [age EXCEPT ![d] = 0] /\ sleep' = [sleep EXCEPT ![d] = Nap + 1]
      BY <1>5 DEF Poll, PollNothing, Ignore, Miss, Answer, Considered, Receive
    <3>2. CASE age' = age /\ last' = last /\ sleep' = [sleep EXCEPT ![d] = 1]
      <4>1. sleep'[e] = 1
        BY <2>3, <3>2 DEF DevicesOK
      <4> QED
        BY <1>1, <1>2, <2>1, <2>3, <3>2, <4>1
    <3>3. CASE last' = [last EXCEPT ![d] = "missed"]
      <4>1. last'[e] = "missed"
        BY <2>3, <3>3 DEF DevicesOK
      <4> QED
        BY <2>1, <2>3, <4>1
    <3>4. CASE age' = [age EXCEPT ![d] = 0] /\ sleep' = [sleep EXCEPT ![d] = Nap + 1]
      <4>1. age'[e] = 0 /\ sleep'[e] = Nap + 1
        BY <2>3, <3>4 DEF DevicesOK
      <4>2. 0 + (Nap + 1) >= MinDelay
        BY <1>1
      <4> QED
        BY <2>1, <2>3, <4>1, <4>2
    <3> QED
      BY <3>1, <3>2, <3>3, <3>4
  <2>4. CASE d # e
    BY <1>2, <2>1, <2>2, <2>4
  <2> QED
    BY <2>3, <2>4
<1>6. CASE Tick
  <2>1. state' = state /\ last' = last
    BY <1>6 DEF Tick
  <2>2. /\ age'[e] = IF age[e] < MinDelay THEN age[e] + 1 ELSE MinDelay
        /\ sleep'[e] = IF sleep[e] > 0 THEN sleep[e] - 1 ELSE 0
    BY <1>6, Ticked
  <2>3. age[e] + sleep[e] >= MinDelay => age'[e] + sleep'[e] >= MinDelay
    BY <1>1, <1>2, <2>2
  <2> QED
    BY <1>2, <2>1, <2>3
<1>7. AskAll \/ AskSome \/ SendRequest \/ Update \/ Take \/ Restart \/ UNCHANGED vars
        => UNCHANGED <<state, age, sleep, last>>
  BY DEF AskAll, AskSome, SendRequest, Update, Take, Restart, vars, deviceVars
<1> QED
  BY Zenon, <1>3, <1>4, <1>5, <1>6, <1>7 DEF Next

----------------------------------------------------------------------------
(* What the specification promises.                                        *)

Inv == ListInv /\ SocketsOK /\ DevicesOK

LEMMA InitInv == Init => Inv
<1> SUFFICES ASSUME Init PROVE Inv
  OBVIOUS
<1>1. ListInv
  BY ListInitInv DEF Init
<1>2. SocketsOK
  BY EmptySeq DEF Init, SocketsOK
<1>3. DevicesOK
  <2>1. 0 \in 0..MinDelay /\ 0 \in 0..(Nap + 1) /\ 0 \in 0..MaxMisses
    BY DiscoveryAssumption
  <2> QED
    BY <2>1 DEF Init, DevicesOK
<1> QED
  BY <1>1, <1>2, <1>3 DEF Inv

LEMMA NextInv == Inv /\ [Next]_vars => Inv'
BY ListStep, SocketsStep, DevicesStep DEF Inv

\* Every variable has its type: of the list, that its pointers lead to nodes that were
\* allocated and that it never counts more than DISCOVERY_MAX_BEACONS.
THEOREM TypeCorrect == Spec => []TypeOK
<1>1. Inv => TypeOK
  BY DEF Inv, ListInv, SocketsOK, DevicesOK, TypeOK
<1> QED
  BY <1>1, InitInv, NextInv, PTL DEF Spec

\* The host's list hands out every beacon it took in, in the order received, as long as it
\* was never emptied, and its count is right even after that: discovery_server_update and
\* discovery_server_get_next, for lists of any length and any boards.
THEOREM HandsOutInOrder == Spec => []ListIsPending
<1>1. Inv => ListIsPending
  BY ListInvMeans DEF Inv
<1> QED
  BY <1>1, InitInv, NextInv, PTL DEF Spec

\* With the sleep of discovery_thread at least as long as DISCOVERY_MIN_DELAY the limit
\* never holds back a request because an earlier one was answered.
THEOREM SleepIsLongEnough ==
  ASSUME MinDelay <= Nap + 1
  PROVE  Spec => []SleepCoversLimit
<1>1. Init => Rested
  <2>1. Init => \A d \in Board : last[d] = "none"
    BY DEF Init
  <2> QED
    BY <2>1 DEF Rested
<1>2. Inv /\ Rested /\ [Next]_vars => Rested'
  BY RestedStep DEF Inv
<1>3. Inv /\ Rested => SleepCoversLimit
  <2> SUFFICES ASSUME Inv, Rested, NEW d \in Board, last[d] = "answered", Wakes(d)
               PROVE  age[d] = MinDelay
    BY DEF SleepCoversLimit
  <2>1. age[d] \in 0..MinDelay /\ sleep[d] = 0 /\ age[d] + sleep[d] >= MinDelay
    BY DEF Inv, DevicesOK, Rested, Wakes
  <2> QED
    BY <2>1, DiscoveryAssumption
<1> QED
  BY <1>1, <1>2, <1>3, InitInv, NextInv, PTL DEF Spec

=============================================================================
