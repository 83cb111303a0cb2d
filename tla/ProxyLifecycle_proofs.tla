----------------------- MODULE ProxyLifecycle_proofs -----------------------
(***************************************************************************)
(* What the run of ProxyLifecycle checks, for every number of devices and  *)
(* channels, every order in which they come and go and every number of     *)
(* failures.                                                               *)
(*                                                                         *)
(* The invariant says of each channel what is held for it in each state of *)
(* its device (Holdings), that total_count is the number of channels that  *)
(* are complete (Counted) and that the class exists exactly while there    *)
(* are nodes (OneClass). The last rests on the driver core running one     *)
(* probe or remove at a time (Alone).                                      *)
(***************************************************************************)
EXTENDS ProxyLifecycle, FiniteSetTheorems, TLAPS

USE LifecycleAssumption

Working(d) == state[d] \in {"probing", "removing"}

\* One device at a time is probed or removed.
Alone == \A d, e \in Device : Working(d) /\ Working(e) => d = e

\* Nothing is bound while the module is out, and nothing is open while it goes.
Module ==
    /\ module = "out" => \A d \in Device : state[d] = "unbound"
    /\ module # "in" => files = {} /\ \A d \in Device : state[d] # "probing"
    /\ module # "out" => spent.loads > 0
    /\ \A d \in Device : state[d] = "probing" => next[d] <= Channels

\* The channels that probe has completed and remove has not yet taken down, and the one
\* probe is at.
IsComplete(c) ==
    \/ state[c[1]] = "bound"
    \/ state[c[1]] = "probing" /\ c[2] < next[c[1]]
    \/ state[c[1]] = "removing" /\ c[2] >= next[c[1]]
InHand(c) == state[c[1]] = "probing" /\ c[2] = next[c[1]]
Complete == {c \in Channel : IsComplete(c)}

\* What is there for a channel: no more than probe has come to, nor less.
HoldingsOf(c) ==
    /\ c[1] \notin spoiled /\ c \in held =>
          \/ IsComplete(c) \/ state[c[1]] = "removing"
          \/ InHand(c) /\ step # "request"
    /\ c[1] \notin spoiled /\ c \in cdev \cup node =>
          IsComplete(c) \/ (InHand(c) /\ step = "allocate")
    /\ (IsComplete(c) /\ state[c[1]] # "removing") \/ (InHand(c) /\ step # "request") =>
          c \in held
    /\ IsComplete(c) \/ (InHand(c) /\ step = "allocate") =>
          "failure" \in mishaps \/ (c \in cdev /\ c \in node)

Holdings ==
    /\ spoiled # {} => "failure" \in mishaps
    /\ \A c \in Channel : HoldingsOf(c)

\* Memory is there for the channels that are complete, until remove has returned.
HasMemory(c) == IsComplete(c) \/ state[c[1]] = "removing"
Memory == \A c \in Channel : c \in buffers <=> HasMemory(c)

\* An open file has its memory, and a device that goes with one open was unbound by hand.
IsBacked(c) ==
    /\ c \in buffers \/ Registering(c) \/ c[1] \in spoiled \cup pulled
    /\ state[c[1]] = "removing" => c[1] \in pulled
Backed == \A c \in files : IsBacked(c)

\* total_count does not miss a channel, and is exact while nothing fails.
Counted ==
    /\ Cardinality(Complete) <= total_count
    /\ "failure" \notin mishaps => Cardinality(Complete) = total_count

\* The one class.
OneClass ==
    mishaps = {} =>
        /\ ~broken
        /\ classes \subseteq {local_class_p}
        /\ \A c \in node : class_p[c] = local_class_p
        /\ classes = {} <=> node = {}
        /\ \A d \in Device : state[d] = "probing" => local_class_p \in classes \cup {0}

Inv == TypeOK /\ Alone /\ Module /\ Holdings /\ Memory /\ Backed /\ Counted /\ OneClass
----------------------------------------------------------------------------
(* Facts about channels.                                                   *)

\* A channel is a device and a number.
LEMMA ChannelParts ==
  \A c \in Channel : c = <<c[1], c[2]>> /\ c[1] \in Device /\ c[2] \in 1..Channels
BY DEF Channel

\* Every device has a first channel.
LEMMA FirstChannel == \A d \in Device : <<d, 1>> \in Channel /\ <<d, 1>>[1] = d
<1>1. 1 \in 1..Channels
  OBVIOUS
<1> QED
  BY <1>1 DEF Channel

LEMMA OneLess == \A a, b \in Nat : b = a - 1 => (a = 1 <=> b = 0)
  OBVIOUS

\* The channel probe or remove is at.
LEMMA AtChannel ==
  ASSUME TypeOK, NEW d \in Device
  PROVE  /\ next[d] \in Nat /\ next[d] >= 1
         /\ At(d)[1] = d /\ At(d)[2] = next[d]
         /\ next[d] <= Channels => At(d) \in Channel
         /\ \A c \in Channel : c = At(d) <=> c[1] = d /\ c[2] = next[d]
<1>1. next[d] \in 1..(Channels + 1)
  BY DEF TypeOK
<1>2. At(d) = <<d, next[d]>>
  BY DEF At
<1>3. next[d] <= Channels => At(d) \in Channel
  BY <1>1, <1>2 DEF Channel
<1>4. \A c \in Channel : c = At(d) <=> c[1] = d /\ c[2] = next[d]
  BY <1>2, ChannelParts
<1> QED
  BY <1>1, <1>2, <1>3, <1>4

\* There are finitely many channels.
LEMMA FiniteChannels == IsFiniteSet(Complete)
<1>1. IsFiniteSet(1..Channels)
  BY FS_Interval
<1>2. IsFiniteSet(Channel)
  BY <1>1, FS_Product DEF Channel
<1> QED
  BY <1>2, FS_Subset DEF Complete

\* A channel remove is at is complete, so it has been counted.
LEMMA RemovedIsCounted ==
  ASSUME TypeOK, Counted, NEW d \in Device, state[d] = "removing", next[d] <= Channels
  PROVE  total_count > 0 /\ At(d) \in Complete
<1>1. At(d) \in Complete
  BY AtChannel DEF Complete, IsComplete
<1>2. Cardinality(Complete) \in Nat /\ Cardinality(Complete) # 0
  BY <1>1, FiniteChannels, FS_CardinalityType, FS_EmptySet
<1> QED
  BY <1>1, <1>2 DEF Counted, TypeOK

----------------------------------------------------------------------------
(* The types.                                                              *)

USE DEF vars, staticVars, kernelVars, historyVars

LEMMA InitInv == Init => Inv
<1> SUFFICES ASSUME Init PROVE Inv
  OBVIOUS
<1> USE DEF Init
<1>1. TypeOK
  <2>1. /\ next \in [Device -> 1..(Channels + 1)]
        /\ state \in [Device -> {"unbound", "probing", "bound", "removing"}]
        /\ class_p \in [Channel -> Nat]
    OBVIOUS
  <2>2. spent \in [failures : 0..MaxFailures, binds : 0..MaxBinds, loads : 0..MaxLoads]
    OBVIOUS
  <2> QED
    BY <2>1, <2>2 DEF TypeOK
<1>2. Alone /\ Module /\ Backed
  BY DEF Alone, Module, Backed, Working
<1>7. Memory
  BY ChannelParts DEF Memory, HasMemory, IsComplete
<1>3. Holdings
  <2>1. \A c \in Channel : ~IsComplete(c) /\ ~InHand(c)
    BY ChannelParts DEF IsComplete, InHand
  <2> QED
    BY <2>1 DEF Holdings, HoldingsOf
<1>4. Complete = {}
  BY ChannelParts DEF Complete, IsComplete
<1>5. Counted
  BY <1>4, FS_EmptySet DEF Counted
<1>6. OneClass
  BY DEF OneClass
<1> QED
  BY <1>1, <1>2, <1>3, <1>5, <1>6, <1>7 DEF Inv

\* What is used up of the bounds.
Spent == [failures : 0..MaxFailures, binds : 0..MaxBinds, loads : 0..MaxLoads]

LEMMA SpentStep ==
  ASSUME spent \in Spent
  PROVE  /\ Fails => spent' \in Spent /\ spent'.loads = spent.loads
         /\ \A d \in Device : Bind(d) => spent' \in Spent /\ spent'.loads = spent.loads
         /\ Load => spent' \in Spent /\ spent'.loads > 0
<1> USE DEF Spent
<1>1. Fails => spent' \in Spent /\ spent'.loads = spent.loads
  BY DEF Fails
<1>2. ASSUME NEW d \in Device, Bind(d)
      PROVE  spent' \in Spent /\ spent'.loads = spent.loads
  <2>1. spent.binds < MaxBinds /\ spent' = [spent EXCEPT !.binds = @ + 1]
    BY <1>2 DEF Bind
  <2> QED
    BY <2>1
<1>3. Load => spent' \in Spent /\ spent'.loads > 0
  BY DEF Load
<1> QED
  BY <1>1, <1>2, <1>3

\* The types, and that the loops of probe and remove end with their channels.
LEMMA TypeStep ==
  ASSUME TypeOK, Module, Counted, [Next]_vars
  PROVE  TypeOK'
<1>1. CASE UNCHANGED vars
  BY <1>1 DEF TypeOK
<1> DEFINE StateType == state' \in [Device -> {"unbound", "probing", "bound", "removing"}]
<1>2. spent \in Spent
  BY DEF TypeOK, Spent
<1>3. CASE Load \/ Unload \/ Unloaded
  <2>1. spent' \in Spent
    BY <1>2, <1>3, SpentStep DEF Load, Unload, Unloaded
  <2> QED
    BY <1>3, <2>1 DEF Load, Unload, Unloaded, TypeOK, Spent
<1>4. ASSUME NEW c \in Channel, Open(c) \/ Close(c) PROVE TypeOK'
  <2>1. c[1] \in Device
    BY ChannelParts
  <2> QED
    BY <1>4, <2>1 DEF Open, Close, TypeOK
<1>5. ASSUME NEW d \in Device, Bind(d) \/ Unbind(d) PROVE TypeOK'
  <2>1. spent' \in Spent
    BY <1>2, <1>5, SpentStep DEF Unbind
  <2>2. 1 \in 1..(Channels + 1)
    OBVIOUS
  <2>3. next' = [next EXCEPT ![d] = 1]
    BY <1>5 DEF Bind, Unbind
  <2>4. StateType /\ next' \in [Device -> 1..(Channels + 1)]
    BY <1>5, <2>2, <2>3 DEF Bind, Unbind, TypeOK
  <2>5. /\ mishaps' \subseteq Mishap /\ step' \in {"request", "register", "allocate"}
        /\ pulled' \subseteq Device
    BY <1>5 DEF Bind, Unbind, TypeOK, Mishap
  <2>6. UNCHANGED <<staticVars, kernelVars, module, buffers, files, spoiled>>
    BY <1>5 DEF Bind, Unbind
  <2> QED
    BY <2>1, <2>4, <2>5, <2>6 DEF TypeOK, Spent
<1>6. ASSUME NEW d \in Device, Probe(d) PROVE TypeOK'
  <2>1. state[d] = "probing"
    BY <1>6 DEF Probe, RequestChannel, NoChannel, RegisterDevice, NoNode, NoDevice,
                NoBuffer, CompleteChannel, InStep
  <2>2. next[d] <= Channels /\ At(d) \in Channel
    BY <2>1, AtChannel DEF Module
  <2>3. CASE NoChannel(d) \/ NoDevice(d) \/ NoBuffer(d)
    <3>1. ProbeFails(d) /\ (Fails \/ UNCHANGED spent) /\ broken' \in BOOLEAN
          /\ UNCHANGED <<classes, class_p, held, cdev, node>>
      BY <2>3 DEF NoChannel, NoDevice, NoBuffer, TypeOK
    <3>2. spent' \in Spent
      BY <1>2, <3>1, SpentStep
    <3>3. /\ StateType /\ mishaps' \subseteq Mishap /\ spoiled' \subseteq Device
          /\ buffers' \subseteq Channel
      BY <3>1 DEF ProbeFails, TypeOK, Mishap
    <3> QED
      BY <3>1, <3>2, <3>3 DEF ProbeFails, TypeOK, Spent
  <2>4. CASE RequestChannel(d)
    BY <2>2, <2>4 DEF RequestChannel, TypeOK
  <2>5. CASE RegisterDevice(d) \/ NoNode(d)
    <3>1. spent.loads \in Nat /\ spent.loads > 0 /\ local_class_p \in Nat
      <4>1. module # "out"
        BY <2>1 DEF Module
      <4>2. spent.loads \in 0..MaxLoads
        BY <1>2 DEF Spent
      <4> QED
        BY <4>1, <4>2 DEF Module, TypeOK
    <3>2. Class \in Nat \ {0}
      BY <3>1 DEF Class
    <3>3. /\ local_class_p' = Class
          /\ class_p' = [class_p EXCEPT ![At(d)] = Class]
          /\ classes' \subseteq classes \cup {Class}
          /\ broken' \in BOOLEAN
          /\ cdev' \subseteq cdev \cup {At(d)} /\ node' \subseteq node \cup {At(d)}
          /\ step' = "allocate" /\ mishaps' \subseteq mishaps \cup {"failure"}
          /\ UNCHANGED <<total_count, module, state, next, held, buffers, files, spoiled, pulled>>
      BY <2>5 DEF RegisterDevice, NoNode, ClassUsable
    <3>4. spent' \in Spent
      BY <1>2, <2>5, SpentStep DEF RegisterDevice, NoNode
    <3> QED
      BY <2>2, <3>2, <3>3, <3>4 DEF TypeOK, Spent, Mishap
  <2>6. CASE CompleteChannel(d)
    <3>1. next[d] + 1 \in 1..(Channels + 1)
      BY <2>2, AtChannel
    <3>2. next' \in [Device -> 1..(Channels + 1)]
      BY <2>6, <3>1 DEF CompleteChannel, TypeOK
    <3>3. StateType /\ buffers' \subseteq Channel
      BY <2>2, <2>6 DEF CompleteChannel, TypeOK
    <3> QED
      BY <2>6, <3>2, <3>3 DEF CompleteChannel, TypeOK
  <2> QED
    BY <1>6, <2>3, <2>4, <2>5, <2>6 DEF Probe
<1>7. ASSUME NEW d \in Device, Remove(d) PROVE TypeOK'
  <2>1. CASE RemoveChannel(d)
    <3>1. next[d] + 1 \in 1..(Channels + 1)
      BY <2>1, AtChannel DEF RemoveChannel
    <3>2. next' \in [Device -> 1..(Channels + 1)]
      BY <2>1, <3>1 DEF RemoveChannel, TypeOK
    <3>3. total_count' \in Nat
      BY <2>1, RemovedIsCounted DEF RemoveChannel, TypeOK
    <3>4. /\ broken' \in BOOLEAN
          /\ node' \subseteq node /\ cdev' \subseteq cdev /\ classes' \subseteq classes
          /\ UNCHANGED <<local_class_p, module, state, step, class_p, held, buffers, files,
                         historyVars, spent>>
      BY <2>1 DEF RemoveChannel
    <3> QED
      BY <3>2, <3>3, <3>4 DEF TypeOK
  <2>2. CASE ReleaseChannels(d)
    BY <2>2 DEF ReleaseChannels, TypeOK
  <2> QED
    BY <1>7, <2>1, <2>2 DEF Remove
<1> QED
  BY <1>1, <1>3, <1>4, <1>5, <1>6, <1>7 DEF Next

----------------------------------------------------------------------------
(* One device at a time, and what there is for its channels.               *)

\* The driver core works on one device, and on none when the module is out.
LEMMA AloneStep ==
  ASSUME TypeOK, Alone, Module, [Next]_vars
  PROVE  Alone' /\ Module'
<1>1. CASE UNCHANGED vars
  BY <1>1 DEF Alone, Module, Working
<1>2. CASE Load \/ Unload \/ Unloaded
  <2>1. Load => spent'.loads > 0
    BY SpentStep DEF TypeOK, Spent
  <2>2. UNCHANGED <<state, next, files>> /\ (Load \/ UNCHANGED spent)
    BY <1>2 DEF Load, Unload, Unloaded
  <2>3. \/ module' = "in" /\ Load
        \/ module = "in" /\ module' = "going" /\ Idle /\ files = {}
        \/ module = "going" /\ module' = "out" /\ \A d \in Device : state[d] = "unbound"
    BY <1>2 DEF Load, Unload, Unloaded
  <2> QED
    BY <2>1, <2>2, <2>3 DEF Alone, Module, Working, Idle
<1>3. ASSUME NEW c \in Channel, Open(c) \/ Close(c) PROVE Alone' /\ Module'
  BY <1>3 DEF Open, Close, Alone, Module, Working
<1>4. ASSUME NEW d \in Device, Bind(d) \/ Unbind(d) PROVE Alone' /\ Module'
  <2>1. \A e \in Device : e # d => state'[e] = state[e] /\ next'[e] = next[e]
    BY <1>4 DEF Bind, Unbind, TypeOK
  <2>2. \A e \in Device : state[e] \in {"unbound", "bound"}
    BY <1>4 DEF Bind, Unbind, Idle
  <2>3. 1 <= Channels
    OBVIOUS
  <2>4. next'[d] = 1
    BY <1>4 DEF Bind, Unbind, TypeOK
  <2>5. next'[d] = 1 /\ 1 <= Channels
    BY <2>3, <2>4
  <2>6. /\ module' = module /\ files' = files /\ module # "out"
        /\ state'[d] = "probing" => module = "in"
    BY <1>4 DEF Bind, Unbind, TypeOK
  <2>7. spent'.loads = spent.loads
    BY <1>4, SpentStep DEF Unbind, TypeOK, Spent
  <2>8. Alone'
    BY <2>1, <2>2 DEF Alone, Working
  <2>9. Module'
    BY <2>1, <2>2, <2>5, <2>6, <2>7 DEF Module
  <2> QED
    BY <2>8, <2>9
<1>5. ASSUME NEW d \in Device, Probe(d) \/ Remove(d) PROVE Alone' /\ Module'
  <2>1. /\ Working(d) /\ module' = module /\ files' = files
        /\ (Fails \/ UNCHANGED spent)
        /\ \A e \in Device : e # d => state'[e] = state[e] /\ next'[e] = next[e]
    BY <1>5 DEF Probe, RequestChannel, NoChannel, RegisterDevice, NoNode, NoDevice,
                NoBuffer, CompleteChannel, InStep, ProbeFails, Remove, RemoveChannel,
                ReleaseChannels, Working, TypeOK
  <2>2. \/ state'[d] \in {"unbound", "bound"}
        \/ state'[d] = state[d] /\ next'[d] = next[d]
        \/ state'[d] = "removing" /\ state[d] = "removing"
        \/ state'[d] = "probing" /\ state[d] = "probing" /\ next[d] # Channels
           /\ next'[d] = next[d] + 1
    BY <1>5 DEF Probe, RequestChannel, NoChannel, RegisterDevice, NoNode, NoDevice,
                NoBuffer, CompleteChannel, InStep, ProbeFails, Remove, RemoveChannel,
                ReleaseChannels, TypeOK
  <2>3. spent'.loads = spent.loads
    BY <2>1, SpentStep DEF TypeOK, Spent
  <2>4. next[d] \in Nat
    BY AtChannel
  <2>5. Alone'
    BY <2>1, <2>2 DEF Alone, Working
  <2>6. module # "out"
    BY <2>1 DEF Module, Working
  <2>7. Module'
    BY <2>1, <2>2, <2>3, <2>4, <2>6 DEF Module, Working
  <2> QED
    BY <2>5, <2>7
<1> QED
  BY <1>1, <1>2, <1>3, <1>4, <1>5 DEF Next

\* What is there for the channels of other devices does not change.
LEMMA OthersHold ==
  ASSUME TypeOK, Alone, Holdings, NEW d \in Device, Idle \/ Working(d),
         \A e \in Device : e # d => state'[e] = state[e] /\ next'[e] = next[e],
         \A c \in Channel : c[1] # d => /\ c \in held' <=> c \in held
                                        /\ c \in cdev' <=> c \in cdev
                                        /\ c \in node' <=> c \in node,
         mishaps \subseteq mishaps', spoiled \subseteq spoiled'
  PROVE  \A c \in Channel : c[1] # d => HoldingsOf(c)'
<1> SUFFICES ASSUME NEW c \in Channel, c[1] # d PROVE HoldingsOf(c)'
  OBVIOUS
<1>1. c[1] \in Device /\ state'[c[1]] = state[c[1]] /\ next'[c[1]] = next[c[1]]
  BY ChannelParts
<1>2. state[c[1]] # "probing"
  BY <1>1 DEF Idle, Working, Alone
<1>3. HoldingsOf(c)
  BY DEF Holdings
<1> QED
  BY <1>1, <1>2, <1>3 DEF HoldingsOf, IsComplete, InHand

\* A device has what its probe has come to, and nothing once it is gone.
LEMMA HoldingsStep ==
  ASSUME TypeOK, Alone, Module, Holdings, [Next]_vars
  PROVE  Holdings'
<1>1. CASE UNCHANGED <<state, step, next, held, cdev, node, mishaps, spoiled>>
  BY <1>1 DEF Holdings, HoldingsOf, IsComplete, InHand
<1>2. ASSUME UNCHANGED <<state, step, next, held, cdev, node, spoiled>>,
             mishaps \subseteq mishaps'
      PROVE  Holdings'
  BY <1>2 DEF Holdings, HoldingsOf, IsComplete, InHand
<1>3. ASSUME NEW d \in Device, Bind(d) PROVE Holdings'
  <2>1. /\ state[d] = "unbound" /\ Idle
        /\ state' = [state EXCEPT ![d] = "probing"] /\ next' = [next EXCEPT ![d] = 1]
        /\ step' = "request" /\ mishaps \subseteq mishaps'
        /\ UNCHANGED <<held, cdev, node, spoiled>>
    BY <1>3 DEF Bind
  <2>2. /\ state'[d] = "probing" /\ next'[d] = 1
        /\ \A e \in Device : e # d => state'[e] = state[e] /\ next'[e] = next[e]
    BY <2>1 DEF TypeOK
  <2>3. ASSUME NEW c \in Channel, c[1] = d PROVE HoldingsOf(c)'
    <3>1. (c \notin held /\ c \notin cdev \cup node) \/ c[1] \in spoiled
      BY <2>1, <2>3 DEF Holdings, HoldingsOf, IsComplete, InHand
    <3>2. ~IsComplete(c)'
      BY <2>2, <2>3, ChannelParts DEF IsComplete
    <3> QED
      BY <2>1, <3>1, <3>2 DEF HoldingsOf
  <2>4. \A c \in Channel : c[1] # d => HoldingsOf(c)'
    BY <2>1, <2>2, OthersHold
  <2> QED
    BY <2>1, <2>3, <2>4 DEF Holdings
<1>4. ASSUME NEW d \in Device, Unbind(d) PROVE Holdings'
  <2>1. /\ state[d] = "bound" /\ Idle
        /\ state' = [state EXCEPT ![d] = "removing"] /\ next' = [next EXCEPT ![d] = 1]
        /\ mishaps \subseteq mishaps'
        /\ UNCHANGED <<step, held, cdev, node, spoiled>>
    BY <1>4 DEF Unbind
  <2>2. /\ state'[d] = "removing" /\ next'[d] = 1
        /\ \A e \in Device : e # d => state'[e] = state[e] /\ next'[e] = next[e]
    BY <2>1 DEF TypeOK
  <2>3. ASSUME NEW c \in Channel, c[1] = d PROVE HoldingsOf(c)'
    <3>1. IsComplete(c)
      BY <2>1, <2>3 DEF IsComplete
    <3>2. IsComplete(c)'
      BY <2>2, <2>3, ChannelParts DEF IsComplete
    <3>3. ~InHand(c)'
      BY <2>2, <2>3 DEF InHand
    <3> QED
      BY <2>1, <2>2, <2>3, <3>1, <3>2, <3>3 DEF Holdings, HoldingsOf
  <2>4. \A c \in Channel : c[1] # d => HoldingsOf(c)'
    BY <2>1, <2>2, OthersHold
  <2> QED
    BY <2>1, <2>3, <2>4 DEF Holdings
<1>5. ASSUME NEW d \in Device, NoChannel(d) \/ NoDevice(d) \/ NoBuffer(d)
      PROVE  Holdings'
  <2>1. /\ state[d] = "probing" /\ state' = [state EXCEPT ![d] = "unbound"]
        /\ mishaps' = mishaps \cup {"failure"}
        /\ spoiled' = IF step = "request" /\ next[d] = 1 THEN spoiled ELSE spoiled \cup {d}
        /\ UNCHANGED <<step, next, held, cdev, node>>
    BY <1>5 DEF NoChannel, NoDevice, NoBuffer, ProbeFails, InStep
  <2>2. /\ state'[d] = "unbound"
        /\ \A e \in Device : e # d => state'[e] = state[e] /\ next'[e] = next[e]
    BY <2>1 DEF TypeOK
  <2>3. ASSUME NEW c \in Channel, c[1] = d PROVE HoldingsOf(c)'
    <3>1. ~IsComplete(c)' /\ ~InHand(c)'
      BY <2>2, <2>3 DEF IsComplete, InHand
    <3>2. CASE d \in spoiled'
      BY <2>3, <3>1, <3>2 DEF HoldingsOf
    <3>3. CASE d \notin spoiled'
      <4>1. step = "request" /\ next[d] = 1 /\ d \notin spoiled
        BY <2>1, <3>3
      <4>2. ~IsComplete(c)
        BY <2>1, <2>3, <4>1, ChannelParts DEF IsComplete
      <4>3. c \notin held /\ c \notin cdev \cup node
        BY <2>1, <2>3, <4>1, <4>2 DEF Holdings, HoldingsOf
      <4> QED
        BY <2>1, <3>1, <4>3 DEF HoldingsOf
    <3> QED
      BY <3>2, <3>3
  <2>4. \A c \in Channel : c[1] # d => HoldingsOf(c)'
    BY <2>1, <2>2, OthersHold DEF Working
  <2> QED
    BY <2>1, <2>3, <2>4 DEF Holdings
<1>6. ASSUME NEW d \in Device, RequestChannel(d) PROVE Holdings'
  <2>1. /\ state[d] = "probing" /\ step = "request" /\ step' = "register"
        /\ held' = held \cup {At(d)}
        /\ UNCHANGED <<state, next, cdev, node, mishaps, spoiled>>
    BY <1>6 DEF RequestChannel, InStep
  <2>2. \A c \in Channel : c = At(d) <=> c[1] = d /\ c[2] = next[d]
    BY AtChannel
  <2>3. ASSUME NEW c \in Channel, c[1] = d PROVE HoldingsOf(c)'
    <3>1. InHand(c) <=> c = At(d)
      BY <2>1, <2>2, <2>3 DEF InHand
    <3>2. (IsComplete(c)' <=> IsComplete(c)) /\ (InHand(c)' <=> InHand(c))
      BY <2>1 DEF IsComplete, InHand
    <3> QED
      BY <2>1, <3>1, <3>2 DEF Holdings, HoldingsOf
  <2>4. \A c \in Channel : c[1] # d => HoldingsOf(c)'
    BY <2>1, <2>2, OthersHold DEF Working
  <2> QED
    BY <2>1, <2>3, <2>4 DEF Holdings
<1>7. ASSUME NEW d \in Device, RegisterDevice(d) \/ NoNode(d) PROVE Holdings'
  <2>1. /\ state[d] = "probing" /\ step = "register" /\ step' = "allocate"
        /\ UNCHANGED <<state, next, held, spoiled>>
        /\ \/ /\ cdev' = cdev \cup {At(d)} /\ node' = node \cup {At(d)}
              /\ UNCHANGED mishaps
           \/ UNCHANGED <<cdev, node>> /\ mishaps' = mishaps \cup {"failure"}
    BY <1>7 DEF RegisterDevice, NoNode, InStep
  <2>2. \A c \in Channel : c = At(d) <=> c[1] = d /\ c[2] = next[d]
    BY AtChannel
  <2>3. ASSUME NEW c \in Channel, c[1] = d PROVE HoldingsOf(c)'
    <3>1. InHand(c) <=> c = At(d)
      BY <2>1, <2>2, <2>3 DEF InHand
    <3>2. (IsComplete(c)' <=> IsComplete(c)) /\ (InHand(c)' <=> InHand(c))
      BY <2>1 DEF IsComplete, InHand
    <3>3. HoldingsOf(c)
      BY DEF Holdings
    <3> QED
      BY <2>1, <3>1, <3>2, <3>3 DEF HoldingsOf
  <2>4. \A c \in Channel : c[1] # d => HoldingsOf(c)'
    BY <2>1, <2>2, OthersHold DEF Working
  <2> QED
    BY <2>1, <2>3, <2>4 DEF Holdings
<1>8. ASSUME NEW d \in Device, CompleteChannel(d) PROVE Holdings'
  <2>1. /\ state[d] = "probing" /\ step = "allocate" /\ step' = "request"
        /\ next' = [next EXCEPT ![d] = @ + 1]
        /\ state' = IF next[d] = Channels THEN [state EXCEPT ![d] = "bound"] ELSE state
        /\ UNCHANGED <<held, cdev, node, mishaps, spoiled>>
    BY <1>8 DEF CompleteChannel, InStep
  <2>2. /\ next'[d] = next[d] + 1 /\ next[d] \in Nat
        /\ state'[d] = IF next[d] = Channels THEN "bound" ELSE "probing"
        /\ \A e \in Device : e # d => state'[e] = state[e] /\ next'[e] = next[e]
    BY <2>1, AtChannel DEF TypeOK
  <2>3. ASSUME NEW c \in Channel, c[1] = d PROVE HoldingsOf(c)'
    <3>1. c[2] \in Nat /\ c[2] <= Channels
      BY ChannelParts
    <3>2. IsComplete(c)' <=> IsComplete(c) \/ InHand(c)
      BY <2>1, <2>2, <2>3, <3>1 DEF IsComplete, InHand
    <3>3. HoldingsOf(c)
      BY DEF Holdings
    <3> QED
      BY <2>1, <2>3, <3>2, <3>3 DEF HoldingsOf
  <2>4. \A c \in Channel : c[1] # d => HoldingsOf(c)'
    BY <2>1, <2>2, OthersHold DEF Working
  <2> QED
    BY <2>1, <2>3, <2>4 DEF Holdings
<1>9. ASSUME NEW d \in Device, RemoveChannel(d) PROVE Holdings'
  <2>1. /\ state[d] = "removing"
        /\ next' = [next EXCEPT ![d] = @ + 1]
        /\ cdev' = cdev \ {At(d)} /\ node' = node \ {At(d)}
        /\ UNCHANGED <<state, step, held, mishaps, spoiled>>
    BY <1>9 DEF RemoveChannel
  <2>2. /\ next'[d] = next[d] + 1 /\ next[d] \in Nat
        /\ \A e \in Device : e # d => next'[e] = next[e]
        /\ \A c \in Channel : c = At(d) <=> c[1] = d /\ c[2] = next[d]
    BY <2>1, AtChannel DEF TypeOK
  <2>3. ASSUME NEW c \in Channel, c[1] = d PROVE HoldingsOf(c)'
    <3>1. c[2] \in Nat
      BY ChannelParts
    <3>2. IsComplete(c)' <=> IsComplete(c) /\ c # At(d)
      BY <2>1, <2>2, <2>3, <3>1 DEF IsComplete
    <3>3. ~InHand(c)' /\ ~InHand(c)
      BY <2>1, <2>3 DEF InHand
    <3>4. HoldingsOf(c)
      BY DEF Holdings
    <3> QED
      BY <2>1, <2>3, <3>2, <3>3, <3>4 DEF HoldingsOf
  <2>4. \A c \in Channel : c[1] # d => HoldingsOf(c)'
    BY <2>1, <2>2, OthersHold DEF Working
  <2> QED
    BY <2>1, <2>3, <2>4 DEF Holdings
<1>10. ASSUME NEW d \in Device, ReleaseChannels(d) PROVE Holdings'
  <2>1. /\ state[d] = "removing" /\ next[d] > Channels
        /\ state' = [state EXCEPT ![d] = "unbound"]
        /\ held' = held \ Of(d)
        /\ UNCHANGED <<step, next, cdev, node, mishaps, spoiled>>
    BY <1>10 DEF ReleaseChannels
  <2>2. /\ state'[d] = "unbound" /\ next[d] \in Nat
        /\ \A e \in Device : e # d => state'[e] = state[e]
    BY <2>1, AtChannel DEF TypeOK
  <2>3. ASSUME NEW c \in Channel, c[1] = d PROVE HoldingsOf(c)'
    <3>1. c[2] \in Nat /\ c[2] <= Channels
      BY ChannelParts
    <3>2. ~IsComplete(c) /\ ~InHand(c) /\ ~IsComplete(c)' /\ ~InHand(c)'
      BY <2>1, <2>2, <2>3, <3>1 DEF IsComplete, InHand
    <3>3. c \notin held'
      BY <2>1, <2>3 DEF Of
    <3>4. HoldingsOf(c)
      BY DEF Holdings
    <3> QED
      BY <2>1, <3>2, <3>3, <3>4 DEF HoldingsOf
  <2>4. \A c \in Channel : c[1] # d => HoldingsOf(c)'
    BY <2>1, <2>2, OthersHold DEF Working, Of
  <2> QED
    BY <2>1, <2>3, <2>4 DEF Holdings
<1>11. CASE Load \/ Unload \/ Unloaded \/ (\E c \in Channel : Open(c) \/ Close(c))
  BY <1>2, <1>11 DEF Load, Unload, Unloaded, Open, Close
<1> QED
  BY <1>1, <1>3, <1>4, <1>5, <1>6, <1>7, <1>8, <1>9, <1>10, <1>11 DEF Next, Probe, Remove

----------------------------------------------------------------------------
(* Open files, the count and the class.                                    *)

\* While nothing fails, the nodes are those of the channels that are complete and of the
\* one probe has just registered.
LEMMA NodesAre ==
  ASSUME Holdings, "failure" \notin mishaps, NEW c \in Channel
  PROVE  /\ c \in node <=> IsComplete(c) \/ (InHand(c) /\ step = "allocate")
         /\ IsComplete(c) => c \in cdev
BY DEF Holdings, HoldingsOf

\* The memory of other channels does not change with the states of their devices.
LEMMA MemoryStep ==
  ASSUME TypeOK, Module, Memory, [Next]_vars
  PROVE  Memory'
<1>1. ASSUME UNCHANGED <<state, next, buffers>> PROVE Memory'
  BY <1>1 DEF Memory, HasMemory, IsComplete
<1>2. CASE \/ Load \/ Unload \/ Unloaded \/ UNCHANGED vars
           \/ \E c \in Channel : Open(c) \/ Close(c)
  BY <1>1, <1>2 DEF Load, Unload, Unloaded, Open, Close
<1>3. ASSUME NEW d \in Device, RequestChannel(d) \/ RegisterDevice(d) \/ NoNode(d)
      PROVE  Memory'
  BY <1>1, <1>3 DEF RequestChannel, RegisterDevice, NoNode
<1>4. ASSUME NEW d \in Device, NEW c \in Channel,
             \/ Bind(d) \/ Unbind(d)
             \/ NoChannel(d) \/ NoDevice(d) \/ NoBuffer(d) \/ CompleteChannel(d)
             \/ RemoveChannel(d) \/ ReleaseChannels(d)
      PROVE  c \in buffers' <=> HasMemory(c)'
  <2>1. /\ c[1] \in Device /\ c[2] \in Nat /\ c[2] >= 1 /\ c[2] <= Channels
        /\ c \in buffers <=> HasMemory(c)
    BY ChannelParts DEF Memory
  <2>2. next[d] \in Nat /\ (c = At(d) <=> c[1] = d /\ c[2] = next[d])
    BY AtChannel
  <2>3. CASE c[1] # d
    <3>1. state'[c[1]] = state[c[1]] /\ next'[c[1]] = next[c[1]]
      BY <1>4, <2>1, <2>3 DEF Bind, Unbind, NoChannel, NoDevice, NoBuffer, CompleteChannel,
                              RemoveChannel, ReleaseChannels, ProbeFails, TypeOK
    <3>2. c \in buffers' <=> c \in buffers
      BY <1>4, <2>2, <2>3 DEF Bind, Unbind, NoChannel, NoDevice, NoBuffer, CompleteChannel,
                              RemoveChannel, ReleaseChannels, ProbeFails, Of
    <3> QED
      BY <2>1, <3>1, <3>2 DEF HasMemory, IsComplete
  <2>4. CASE c[1] = d
    <3>1. CASE Bind(d)
      <4>1. /\ state[d] = "unbound" /\ state'[d] = "probing" /\ next'[d] = 1
            /\ buffers' = buffers
        BY <3>1 DEF Bind, TypeOK
      <4> QED
        BY <2>1, <2>4, <4>1 DEF HasMemory, IsComplete
    <3>2. CASE Unbind(d)
      <4>1. /\ state[d] = "bound" /\ state'[d] = "removing" /\ buffers' = buffers
        BY <3>2 DEF Unbind, TypeOK
      <4> QED
        BY <2>1, <2>4, <4>1 DEF HasMemory, IsComplete
    <3>3. CASE NoChannel(d) \/ NoDevice(d) \/ NoBuffer(d) \/ ReleaseChannels(d)
      <4>1. state'[d] = "unbound" /\ buffers' = buffers \ Of(d)
        BY <3>3 DEF NoChannel, NoDevice, NoBuffer, ProbeFails, ReleaseChannels, TypeOK
      <4> QED
        BY <2>4, <4>1 DEF HasMemory, IsComplete, Of
    <3>4. CASE CompleteChannel(d)
      <4>1. /\ state[d] = "probing" /\ next'[d] = next[d] + 1
            /\ state'[d] = IF next[d] = Channels THEN "bound" ELSE "probing"
            /\ buffers' = buffers \cup {At(d)}
        BY <3>4 DEF CompleteChannel, InStep, TypeOK
      <4>2. next[d] <= Channels
        BY <4>1 DEF Module
      <4> QED
        BY <2>1, <2>2, <2>4, <4>1, <4>2 DEF HasMemory, IsComplete
    <3>5. CASE RemoveChannel(d)
      <4>1. state[d] = "removing" /\ state' = state /\ buffers' = buffers
        BY <3>5 DEF RemoveChannel
      <4> QED
        BY <2>1, <2>4, <4>1 DEF HasMemory
    <3> QED
      BY <1>4, <3>1, <3>2, <3>3, <3>4, <3>5
  <2> QED
    BY <2>3, <2>4
<1> QED
  BY <1>2, <1>3, <1>4 DEF Memory, Next, Probe, Remove

\* A file is opened with its memory there, or about to be; rmmod does not get at a device
\* that is open, and unbinding it by hand is noted.
LEMMA BackedStep ==
  ASSUME TypeOK, Alone, Module, Holdings, Memory, Backed, [Next]_vars
  PROVE  Backed'
<1>1. \A c \in files : c \in Channel /\ c[1] \in Device /\ IsBacked(c)
  BY ChannelParts DEF TypeOK, Backed
<1>2. CASE Load \/ Unload \/ Unloaded \/ UNCHANGED vars \/ \E c \in Channel : Close(c)
  BY <1>1, <1>2 DEF Load, Unload, Unloaded, Close, Backed, IsBacked, Registering, At
<1>3. ASSUME NEW c \in Channel, Open(c) PROVE Backed'
  <2>1. /\ c \in node /\ files' = files \cup {c}
        /\ pulled' = IF state[c[1]] = "removing" THEN pulled \cup {c[1]} ELSE pulled
        /\ UNCHANGED <<state, step, next, buffers, spoiled>>
    BY <1>3 DEF Open
  <2>2. c \in buffers \/ Registering(c) \/ c[1] \in spoiled
    <3> SUFFICES ASSUME c[1] \notin spoiled PROVE c \in buffers \/ Registering(c)
      OBVIOUS
    <3>1. IsComplete(c) \/ (InHand(c) /\ step = "allocate")
      BY <2>1 DEF Holdings, HoldingsOf
    <3>2. IsComplete(c) => c \in buffers
      BY DEF Memory, HasMemory
    <3>3. InHand(c) => state[c[1]] = "probing" /\ c = At(c[1])
      BY ChannelParts DEF InHand, At
    <3> QED
      BY <3>1, <3>2, <3>3 DEF Registering
  <2>3. IsBacked(c)'
    BY <2>1, <2>2 DEF IsBacked, Registering, At
  <2>4. \A e \in files : IsBacked(e)'
    BY <1>1, <2>1 DEF IsBacked, Registering, At
  <2> QED
    BY <2>1, <2>3, <2>4 DEF Backed
<1>4. ASSUME NEW d \in Device, Bind(d) \/ Unbind(d) \/ Probe(d) \/ Remove(d),
             NEW c \in files'
      PROVE  IsBacked(c)'
  <2>1. /\ c \in files /\ spoiled \subseteq spoiled' /\ pulled \subseteq pulled'
    BY <1>4 DEF Bind, Unbind, Probe, RequestChannel, NoChannel, RegisterDevice, NoNode,
                NoDevice, NoBuffer, ProbeFails, CompleteChannel, Remove, RemoveChannel,
                ReleaseChannels
  <2>2. c \in Channel /\ c[1] \in Device /\ IsBacked(c) /\ (c \in buffers <=> HasMemory(c))
    BY <1>1, <2>1 DEF Memory
  <2>3. CASE c[1] \in spoiled \cup pulled
    <3>1. state'[c[1]] = "removing" => c[1] \in pulled'
      <4>1. CASE Unbind(d) /\ c[1] = d
        <5>1. module = "in"
          BY <2>1 DEF Module
        <5> QED
          BY <2>1, <2>2, <4>1, <5>1 DEF Unbind, Of
      <4>2. CASE ~(Unbind(d) /\ c[1] = d)
        <5>1. state'[c[1]] = "removing" => state[c[1]] = "removing"
          BY <1>4, <2>2, <4>2
             DEF Bind, Unbind, Probe, RequestChannel, NoChannel, RegisterDevice, NoNode,
                 NoDevice, NoBuffer, ProbeFails, CompleteChannel, Remove, RemoveChannel,
                 ReleaseChannels, TypeOK
        <5> QED
          BY <2>1, <2>2, <5>1 DEF IsBacked
      <4> QED
        BY <4>1, <4>2
    <3> QED
      BY <2>1, <2>3, <3>1 DEF IsBacked
  <2>4. CASE c[1] \notin spoiled \cup pulled
    <3>1. /\ c \in buffers \/ Registering(c)
          /\ state[c[1]] # "removing"
      BY <2>2, <2>4 DEF IsBacked
    <3>2. CASE Bind(d)
      <4>1. /\ state[d] = "unbound" /\ state' = [state EXCEPT ![d] = "probing"]
            /\ buffers' = buffers /\ Idle
        BY <3>2 DEF Bind
      <4>2. c \in buffers
        BY <2>2, <3>1, <4>1 DEF Registering, Idle
      <4> QED
        BY <2>2, <3>1, <4>1, <4>2 DEF IsBacked, TypeOK
    <3>3. CASE Unbind(d)
      <4>1. module = "in"
        BY <2>1 DEF Module
      <4>2. /\ state' = [state EXCEPT ![d] = "removing"] /\ buffers' = buffers /\ Idle
            /\ c[1] = d => c[1] \in pulled'
        BY <2>1, <2>2, <3>3, <4>1 DEF Unbind, Of
      <4>3. c \in buffers
        BY <2>2, <3>1, <4>2 DEF Registering, Idle
      <4> QED
        BY <2>2, <3>1, <4>2, <4>3 DEF IsBacked, TypeOK
    <3>4. CASE NoChannel(d) \/ NoDevice(d) \/ NoBuffer(d)
      <4>1. /\ state[d] = "probing" /\ state' = [state EXCEPT ![d] = "unbound"]
            /\ buffers' = buffers \ Of(d) /\ UNCHANGED <<step, next>>
            /\ spoiled' = IF step = "request" /\ next[d] = 1 THEN spoiled ELSE spoiled \cup {d}
        BY <3>4 DEF NoChannel, NoDevice, NoBuffer, ProbeFails, InStep
      <4>2. CASE c[1] = d
        <5>1. ~(step = "request" /\ next[d] = 1)
          BY <2>2, <3>1, <4>1, <4>2, ChannelParts DEF Registering, HasMemory, IsComplete
        <5> QED
          BY <2>2, <4>1, <4>2, <5>1 DEF IsBacked, TypeOK
      <4>3. CASE c[1] # d
        <5>1. state[c[1]] # "probing"
          BY <2>2, <4>1, <4>3 DEF Alone, Working
        <5> QED
          BY <2>2, <3>1, <4>1, <4>3, <5>1 DEF IsBacked, Registering, Of, TypeOK
      <4> QED
        BY <4>2, <4>3
    <3>5. CASE RequestChannel(d) \/ RegisterDevice(d) \/ NoNode(d)
      <4>1. /\ state[d] = "probing" /\ step # "allocate" /\ state' = state
            /\ buffers' = buffers
        BY <3>5 DEF RequestChannel, RegisterDevice, NoNode, InStep
      <4> QED
        BY <2>2, <3>1, <4>1 DEF IsBacked, Registering
    <3>6. CASE CompleteChannel(d)
      <4>1. /\ state[d] = "probing" /\ buffers' = buffers \cup {At(d)}
            /\ state' = state \/ state' = [state EXCEPT ![d] = "bound"]
        BY <3>6 DEF CompleteChannel, InStep
      <4>2. Registering(c) => c = At(d)
        BY <2>2, <4>1 DEF Registering, Alone, Working
      <4> QED
        BY <2>2, <3>1, <4>1, <4>2 DEF IsBacked, TypeOK
    <3>7. CASE RemoveChannel(d) \/ ReleaseChannels(d)
      <4>1. /\ state[d] = "removing" /\ c[1] # d
            /\ state' = state \/ state' = [state EXCEPT ![d] = "unbound"]
            /\ buffers' = buffers \/ buffers' = buffers \ Of(d)
        BY <3>1, <3>7 DEF RemoveChannel, ReleaseChannels
      <4>2. c \in buffers
        BY <2>2, <3>1, <4>1 DEF Registering, Alone, Working
      <4> QED
        BY <2>2, <3>1, <4>1, <4>2 DEF IsBacked, Of, TypeOK
    <3> QED
      BY <1>4, <3>2, <3>3, <3>4, <3>5, <3>6, <3>7 DEF Probe, Remove
  <2> QED
    BY <2>3, <2>4
<1> QED
  BY <1>2, <1>3, <1>4 DEF Next, Backed

\* probe counts a channel when it is complete, remove when it has taken it down; a probe
\* that fails leaves its channels counted.
LEMMA CountedStep ==
  ASSUME TypeOK, Alone, Module, Counted, [Next]_vars
  PROVE  Counted'
<1>1. ASSUME Complete' = Complete, total_count' = total_count, mishaps \subseteq mishaps'
      PROVE  Counted'
  BY <1>1 DEF Counted
<1>2. ASSUME UNCHANGED <<state, next>> PROVE Complete' = Complete
  BY <1>2 DEF Complete, IsComplete
<1>3. CASE UNCHANGED vars \/ Unload \/ Unloaded \/ (\E c \in Channel : Open(c) \/ Close(c))
  BY <1>1, <1>2, <1>3 DEF Unload, Unloaded, Open, Close
<1>4. CASE Load
  <2>1. \A c \in Channel : state[c[1]] = "unbound"
    BY <1>4, ChannelParts DEF Load, Module
  <2>2. Complete' = {}
    BY <1>4, <2>1 DEF Load, Complete, IsComplete
  <2> QED
    BY <1>4, <2>2, FS_EmptySet DEF Load, Counted
<1>5. ASSUME NEW d \in Device, Bind(d) \/ Unbind(d) \/ ReleaseChannels(d) PROVE Counted'
  <2>1. /\ total_count' = total_count /\ mishaps \subseteq mishaps'
        /\ \A e \in Device : e # d => state'[e] = state[e] /\ next'[e] = next[e]
        /\ \/ state[d] = "unbound" /\ state'[d] = "probing" /\ next'[d] = 1
           \/ state[d] = "bound" /\ state'[d] = "removing" /\ next'[d] = 1
           \/ state[d] = "removing" /\ state'[d] = "unbound" /\ next[d] > Channels
    BY <1>5 DEF Bind, Unbind, ReleaseChannels, TypeOK
  <2>2. \A c \in Channel : c[2] \in Nat /\ c[2] >= 1 /\ c[2] <= Channels /\ c[1] \in Device
    BY ChannelParts
  <2>3. next[d] \in Nat
    BY AtChannel
  <2>4. \A c \in Channel : IsComplete(c)' <=> IsComplete(c)
    BY <2>1, <2>2, <2>3 DEF IsComplete
  <2> QED
    BY <1>1, <2>1, <2>4 DEF Complete
<1>6. ASSUME NEW d \in Device, NoChannel(d) \/ NoDevice(d) \/ NoBuffer(d)
      PROVE  Counted'
  <2>1. /\ total_count' = total_count /\ "failure" \in mishaps'
        /\ next' = next /\ state' = [state EXCEPT ![d] = "unbound"]
    BY <1>6 DEF NoChannel, NoDevice, NoBuffer, ProbeFails
  <2>2. \A c \in Channel : IsComplete(c)' => IsComplete(c)
    BY <2>1, ChannelParts DEF IsComplete, TypeOK
  <2>3. Complete' \in SUBSET Complete
    BY <2>2 DEF Complete
  <2>4. /\ Cardinality(Complete') <= Cardinality(Complete)
        /\ Cardinality(Complete) \in Nat /\ Cardinality(Complete') \in Nat
    BY <2>3, FiniteChannels, FS_Subset, FS_CardinalityType
  <2> QED
    BY <2>1, <2>4 DEF Counted, TypeOK
<1>7. ASSUME NEW d \in Device, RequestChannel(d) \/ RegisterDevice(d) \/ NoNode(d)
      PROVE  Counted'
  BY <1>1, <1>2, <1>7 DEF RequestChannel, RegisterDevice, NoNode
<1>8. ASSUME NEW d \in Device, CompleteChannel(d) PROVE Counted'
  <2>1. /\ state[d] = "probing" /\ next[d] <= Channels /\ next'[d] = next[d] + 1
        /\ state'[d] = IF next[d] = Channels THEN "bound" ELSE "probing"
        /\ \A e \in Device : e # d => state'[e] = state[e] /\ next'[e] = next[e]
        /\ total_count' = total_count + 1 /\ mishaps' = mishaps
    BY <1>8 DEF CompleteChannel, InStep, TypeOK, Module
  <2>2. At(d) \in Channel /\ At(d)[1] = d /\ At(d)[2] = next[d] /\ next[d] \in Nat
    BY <2>1, AtChannel
  <2>3. \A c \in Channel : c[1] \in Device /\ c[2] \in Nat /\ c[2] <= Channels
    BY ChannelParts
  <2>4. \A c \in Channel : c = At(d) <=> c[1] = d /\ c[2] = next[d]
    BY AtChannel
  <2>5. \A c \in Channel : IsComplete(c)' <=> IsComplete(c) \/ c = At(d)
    BY <2>1, <2>2, <2>3, <2>4 DEF IsComplete
  <2>6. Complete' = Complete \cup {At(d)} /\ At(d) \notin Complete
    BY <2>1, <2>2, <2>5 DEF Complete, IsComplete
  <2>7. Cardinality(Complete') = Cardinality(Complete) + 1 /\ Cardinality(Complete) \in Nat
    BY <2>6, FiniteChannels, FS_AddElement, FS_CardinalityType
  <2> QED
    BY <2>1, <2>7 DEF Counted, TypeOK
<1>9. ASSUME NEW d \in Device, RemoveChannel(d) PROVE Counted'
  <2>1. /\ state[d] = "removing" /\ next[d] <= Channels /\ next'[d] = next[d] + 1
        /\ state' = state
        /\ \A e \in Device : e # d => next'[e] = next[e]
        /\ total_count' = total_count - 1 /\ mishaps' = mishaps
    BY <1>9 DEF RemoveChannel, TypeOK
  <2>2. total_count > 0 /\ At(d) \in Complete
    BY <2>1, RemovedIsCounted
  <2>3. next[d] \in Nat /\ \A c \in Channel : c[1] \in Device /\ c[2] \in Nat
    BY AtChannel, ChannelParts
  <2>4. \A c \in Channel : c = At(d) <=> c[1] = d /\ c[2] = next[d]
    BY AtChannel
  <2>5. \A c \in Channel : IsComplete(c)' <=> IsComplete(c) /\ c # At(d)
    BY <2>1, <2>3, <2>4 DEF IsComplete
  <2>6. Complete' = Complete \ {At(d)}
    BY <2>5 DEF Complete
  <2>7. Cardinality(Complete') = Cardinality(Complete) - 1 /\ Cardinality(Complete) \in Nat
    BY <2>2, <2>6, FiniteChannels, FS_RemoveElement, FS_CardinalityType
  <2> QED
    BY <2>1, <2>7 DEF Counted, TypeOK
<1> QED
  BY <1>3, <1>4, <1>5, <1>6, <1>7, <1>8, <1>9 DEF Next, Probe, Remove

\* The class is made for the first node and goes with the last one.
LEMMA OneClassStep ==
  ASSUME TypeOK, Alone, Module, Holdings, Counted, OneClass, [Next]_vars
  PROVE  OneClass'
<1> SUFFICES ASSUME mishaps' = {}, mishaps = {}
             PROVE  OneClass'
  <2>1. mishaps' = {} => mishaps = {}
    BY DEF Next, Load, Unload, Unloaded, Bind, Unbind, Open, Close, Probe, RequestChannel,
           NoChannel, RegisterDevice, NoNode, NoDevice, NoBuffer, ProbeFails,
           CompleteChannel, Remove, RemoveChannel, ReleaseChannels
  <2> QED
    BY <2>1 DEF OneClass
<1>1. /\ "failure" \notin mishaps' /\ "failure" \notin mishaps
      /\ mishaps = {}
  OBVIOUS
<1>2. /\ ~broken
      /\ classes \subseteq {local_class_p}
      /\ \A c \in node : class_p[c] = local_class_p
      /\ classes = {} <=> node = {}
      /\ \A d \in Device : state[d] = "probing" => local_class_p \in classes \cup {0}
  BY <1>1 DEF OneClass
<1>3. ASSUME UNCHANGED <<local_class_p, classes, class_p, node, broken>>,
             \A d \in Device : state'[d] = "probing" => state[d] = "probing"
      PROVE  OneClass'
  BY <1>2, <1>3 DEF OneClass
<1>4. CASE UNCHANGED vars \/ Unload \/ Unloaded \/ (\E c \in Channel : Open(c) \/ Close(c))
  BY <1>3, <1>4 DEF Unload, Unloaded, Open, Close
<1>5. CASE Load
  <2>1. \A d \in Device : state[d] = "unbound"
    BY <1>5 DEF Load, Module
  <2>2. \A c \in Channel : ~IsComplete(c) /\ ~InHand(c)
    BY <2>1, ChannelParts DEF IsComplete, InHand
  <2>3. node = {}
    BY <1>1, <2>2, NodesAre DEF TypeOK
  <2> QED
    BY <1>2, <1>5, <2>1, <2>3 DEF Load, OneClass
<1>6. ASSUME NEW d \in Device, Bind(d) PROVE OneClass'
  <2>1. local_class_p \in classes \cup {0}
    BY <1>6 DEF Bind
  <2> QED
    BY <1>2, <1>6, <2>1 DEF Bind, OneClass
<1>7. ASSUME NEW d \in Device,
             Unbind(d) \/ RequestChannel(d) \/ CompleteChannel(d) \/ ReleaseChannels(d)
      PROVE  OneClass'
  <2>1. UNCHANGED <<local_class_p, classes, class_p, node, broken>>
    BY <1>7 DEF Unbind, RequestChannel, CompleteChannel, ReleaseChannels
  <2>2. \A e \in Device : state'[e] = "probing" => state[e] = "probing"
    BY <1>7 DEF Unbind, RequestChannel, CompleteChannel, ReleaseChannels, TypeOK
  <2> QED
    BY <1>3, <2>1, <2>2
<1>8. ASSUME NEW d \in Device, NoChannel(d) \/ NoNode(d) \/ NoDevice(d) \/ NoBuffer(d)
      PROVE  FALSE
  <2>1. "failure" \in mishaps'
    BY <1>8 DEF NoChannel, NoNode, NoDevice, NoBuffer, ProbeFails
  <2> QED
    BY <1>1, <2>1
<1>9. ASSUME NEW d \in Device, RegisterDevice(d) PROVE OneClass'
  <2>1. /\ state[d] = "probing" /\ state' = state /\ next[d] <= Channels
        /\ local_class_p' = Class
        /\ class_p' = [class_p EXCEPT ![At(d)] = Class]
        /\ broken' = ~ClassUsable
        /\ classes' = classes \cup IF local_class_p = 0 THEN {Class} ELSE {}
        /\ node' = node \cup {At(d)}
    BY <1>9 DEF RegisterDevice, InStep, Module
  <2>2. At(d) \in Channel
    BY <2>1, AtChannel
  <2>3. local_class_p \in classes \cup {0} /\ 0 \notin classes
    BY <1>2, <2>1 DEF TypeOK
  <2>4. class_p'[At(d)] = Class /\ \A c \in node : c # At(d) => class_p'[c] = class_p[c]
    BY <2>1, <2>2 DEF TypeOK
  <2>5. CASE local_class_p = 0
    <3>1. classes = {} /\ node = {}
      BY <1>2, <2>3, <2>5
    <3>2. classes' = {Class} /\ node' = {At(d)} /\ ~broken'
      BY <2>1, <2>5, <3>1 DEF ClassUsable
    <3> QED
      BY <2>1, <2>4, <3>2 DEF OneClass
  <2>6. CASE local_class_p # 0
    <3>1. local_class_p \in classes /\ Class = local_class_p
      BY <2>3, <2>6 DEF Class
    <3>2. classes' = classes /\ ~broken'
      BY <2>1, <2>6, <3>1 DEF ClassUsable
    <3> QED
      BY <1>2, <2>1, <2>4, <3>1, <3>2 DEF OneClass
  <2> QED
    BY <2>5, <2>6
<1>10. ASSUME NEW d \in Device, RemoveChannel(d) PROVE OneClass'
  <2>1. /\ state[d] = "removing" /\ state' = state /\ next[d] <= Channels
        /\ broken' = (class_p[At(d)] \notin classes)
        /\ node' = node \ {At(d)}
        /\ classes' = IF total_count = 1 THEN classes \ {class_p[At(d)]} ELSE classes
        /\ UNCHANGED <<local_class_p, class_p>>
    BY <1>10 DEF RemoveChannel
  <2>2. At(d) \in Complete
    BY <2>1, RemovedIsCounted
  <2>3. \A e \in Device : state[e] # "probing"
    BY <2>1 DEF Alone, Working
  <2>4. node = Complete
    <3>1. \A c \in Channel : ~InHand(c)
      BY <2>3, ChannelParts DEF InHand
    <3> QED
      BY <1>1, <3>1, NodesAre DEF Complete, TypeOK
  <2>5. At(d) \in node /\ classes = {local_class_p} /\ class_p[At(d)] = local_class_p
    BY <1>2, <2>2, <2>4
  <2>6. Cardinality(node) = total_count /\ IsFiniteSet(node)
    BY <1>1, <2>4, FiniteChannels DEF Counted
  <2>7. /\ Cardinality(node \ {At(d)}) = total_count - 1
        /\ IsFiniteSet(node \ {At(d)})
    BY <2>5, <2>6, FS_RemoveElement
  <2>8. total_count = 1 <=> node' = {}
    <3>1. Cardinality(node') = 0 <=> node' = {}
      BY <2>1, <2>7, FS_EmptySet
    <3>2. Cardinality(node') = total_count - 1 /\ Cardinality(node') \in Nat
      BY <2>1, <2>7, FS_CardinalityType
    <3>4. total_count \in Nat
      BY DEF TypeOK
    <3>3. total_count = 1 <=> Cardinality(node') = 0
      BY <3>2, <3>4, OneLess, Zenon
    <3> QED
      BY <3>1, <3>3, Zenon
  <2>9. ~broken' /\ classes' = IF total_count = 1 THEN {} ELSE {local_class_p}
    BY <2>1, <2>5
  <2> QED
    BY <1>2, <2>1, <2>3, <2>8, <2>9 DEF OneClass
<1> QED
  BY <1>4, <1>5, <1>6, <1>7, <1>8, <1>9, <1>10 DEF Next, Probe, Remove

----------------------------------------------------------------------------
(* The theorems.                                                           *)

\* The invariant is inductive.
LEMMA NextInv == Inv /\ [Next]_vars => Inv'
  BY TypeStep, AloneStep, HoldingsStep, MemoryStep, BackedStep, CountedStep, OneClassStep DEF Inv

\* The types, for every number of devices and channels: total_count is never taken
\* below zero, also after probes that failed half-way.
THEOREM TypeCorrect == Spec => []TypeOK
<1>1. Inv => TypeOK
  BY DEF Inv
<1> QED
  BY InitInv, NextInv, <1>1, PTL DEF Spec

\* The class outlives its last node and no longer, in whatever order devices come and
\* go, as long as nothing fails and no device comes after the last one has gone.
THEOREM ClassOutlivesNodes == Spec => []ClassLifetime
<1>1. Inv => ClassLifetime
  <2> SUFFICES ASSUME Inv, mishaps = {}
               PROVE  /\ ~broken
                      /\ \A c \in node : /\ class_p[c] = local_class_p
                                         /\ local_class_p \in classes
                      /\ classes \subseteq {local_class_p}
                      /\ Idle => (classes = {} <=> \A d \in Device : state[d] = "unbound")
    BY DEF ClassLifetime
  <2>1. /\ ~broken
        /\ classes \subseteq {local_class_p}
        /\ \A c \in node : class_p[c] = local_class_p
        /\ classes = {} <=> node = {}
    BY DEF Inv, OneClass
  <2>2. ASSUME Idle PROVE node = {} <=> \A d \in Device : state[d] = "unbound"
    <3>1. \A c \in Channel : c \in node <=> IsComplete(c)
      <4>1. \A c \in Channel : ~InHand(c)
        BY <2>2, ChannelParts DEF Idle, InHand
      <4>2. "failure" \notin mishaps
        OBVIOUS
      <4> QED
        BY <4>1, <4>2, NodesAre DEF Inv
    <3>2. \A c \in Channel : IsComplete(c) <=> state[c[1]] = "bound"
      BY <2>2, ChannelParts DEF Idle, IsComplete
    <3>3. \A d \in Device : <<d, 1>> \in Channel /\ <<d, 1>>[1] = d
      BY FirstChannel
    <3>4. node \subseteq Channel
      BY DEF Inv, TypeOK
    <3> QED
      BY <2>2, <3>1, <3>2, <3>3, <3>4, ChannelParts DEF Idle
  <2> QED
    BY <2>1, <2>2
<1> QED
  BY InitInv, NextInv, <1>1, PTL DEF Spec

\* A device that is gone has left nothing behind, unless its own probe failed half-way.
THEOREM RemoveLeavesNothing == Spec => []NothingLeft
<1>1. Inv => NothingLeft
  <2> SUFFICES ASSUME Inv, NEW d \in Device, state[d] = "unbound", d \notin spoiled
               PROVE  Of(d) \cap (held \cup cdev \cup node) = {}
    BY DEF NothingLeft
  <2>1. \A c \in Of(d) : c \in Channel /\ ~IsComplete(c) /\ ~InHand(c)
    BY DEF Of, IsComplete, InHand
  <2> QED
    BY <2>1 DEF Inv, Holdings, HoldingsOf, Of
<1> QED
  BY InitInv, NextInv, <1>1, PTL DEF Spec

\* A device that is bound can be used: all its channels are there.
THEOREM BoundHasAll == Spec => []BoundIsUsable
<1>1. Inv => BoundIsUsable
  <2> SUFFICES ASSUME Inv, NEW d \in Device, state[d] = "bound"
               PROVE  /\ Of(d) \subseteq held
                      /\ "failure" \notin mishaps => Of(d) \subseteq cdev \cap node
    BY DEF BoundIsUsable
  <2>1. \A c \in Of(d) : c \in Channel /\ c[1] = d /\ IsComplete(c)
    BY DEF Of, IsComplete
  <2> QED
    BY <2>1 DEF Inv, Holdings, HoldingsOf
<1> QED
  BY InitInv, NextInv, <1>1, PTL DEF Spec

\* The memory behind an open file is there, whatever fails for other devices and whenever
\* the module is unloaded, unless the file was opened between its node and its buffer, the
\* probe of its own device failed, or its device was unbound by hand.
THEOREM OpenFilesAreBacked == Spec => []FilesBacked
<1>1. Inv => FilesBacked
  BY DEF Inv, Backed, IsBacked, FilesBacked
<1> QED
  BY InitInv, NextInv, <1>1, PTL DEF Spec
=============================================================================
