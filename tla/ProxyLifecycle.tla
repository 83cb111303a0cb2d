--------------------------- MODULE ProxyLifecycle ---------------------------
(***************************************************************************)
(* How channels of the dma-proxy driver come and go (dma-proxy.c): the     *)
(* module is loaded and unloaded, devices are bound to it and unbound,     *)
(* probe creates their channels one after the other and remove takes them  *)
(* down, while applications open and close the device nodes. All channels  *)
(* share one sysfs class, kept in the static local_class_p and given up    *)
(* when the static total_count says that the last channel goes.            *)
(*                                                                         *)
(* The driver core runs one probe or remove at a time, as it does when the *)
(* module is loaded and unloaded. Using a class that was destroyed is      *)
(* undefined behaviour of the kernel, and so is a message through a        *)
(* pointer never set: `broken`, and nothing is said of what comes after.   *)
(* Operators whose name begins with Mutant are faulty variants of the      *)
(* definition that follows them; no specification uses them.               *)
(***************************************************************************)
EXTENDS Integers, FiniteSets

CONSTANTS
    Device,         \* the dma_proxy nodes of the device tree
    Channels,       \* lp->channel_count: the dma-names of each of them
    MaxFailures,    \* bound: kernel services that fail
    MaxBinds,       \* bound: times a device is bound
    MaxLoads        \* bound: times the module is loaded

ASSUME LifecycleAssumption ==
    /\ IsFiniteSet(Device)
    /\ Channels \in Nat \ {0}
    /\ MaxFailures \in Nat /\ MaxBinds \in Nat /\ MaxLoads \in Nat

VARIABLES
    module,         \* "out", "in", or "going" while rmmod removes the devices
    state,          \* of each device: "unbound", "probing", "bound", "removing"
    step,           \* where create_channel is: "request", "register", "allocate"
    next,           \* the channel probe or remove is at
    local_class_p,  \* the class all channels use; 0 is NULL, others are numbers
    classes,        \* the classes that exist in sysfs
    total_count,
    class_p,        \* of each channel
    held,           \* the channels that have a DMA channel of the engine
    cdev,           \* those whose character device is registered
    node,           \* those with a device node
    buffers,        \* those with the memory that is mapped: buffer_table_p
    files,          \* those an application has open
    broken,         \* a class that is gone, or a pointer never set, was used
    mishaps,        \* history: what happened that the driver is not made for
    spoiled,        \* history: devices whose probe failed holding something
    pulled,         \* history: devices unbound by hand while a file was open
    spent           \* how much of each bound is used up

staticVars == <<local_class_p, total_count>>
kernelVars == <<classes, class_p, held, cdev, node, broken>>
historyVars == <<mishaps, spoiled, pulled>>
vars == <<module, state, step, next, local_class_p, classes, total_count, class_p,
          held, cdev, node, buffers, files, broken, historyVars, spent>>

Channel == Device \X (1..Channels)
Of(d) == {c \in Channel : c[1] = d}

Mishap == {"failure", "stale class"}

TypeOK ==
    /\ module \in {"out", "in", "going"}
    /\ state \in [Device -> {"unbound", "probing", "bound", "removing"}]
    /\ step \in {"request", "register", "allocate"}
    /\ next \in [Device -> 1..(Channels + 1)]
    /\ local_class_p \in Nat /\ class_p \in [Channel -> Nat]
    /\ classes \subseteq Nat \ {0}
    /\ total_count \in Nat
    /\ held \subseteq Channel /\ cdev \subseteq Channel
    /\ node \subseteq Channel /\ buffers \subseteq Channel /\ files \subseteq Channel
    /\ broken \in BOOLEAN
    /\ mishaps \subseteq Mishap /\ spoiled \subseteq Device /\ pulled \subseteq Device
    /\ spent \in [failures : 0..MaxFailures, binds : 0..MaxBinds, loads : 0..MaxLoads]

Init ==
    /\ module = "out"
    /\ state = [d \in Device |-> "unbound"]
    /\ step = "request"
    /\ next = [d \in Device |-> 1]
    /\ local_class_p = 0 /\ total_count = 0
    /\ classes = {} /\ class_p = [c \in Channel |-> 0]
    /\ held = {} /\ cdev = {} /\ node = {} /\ buffers = {} /\ files = {}
    /\ broken = FALSE
    /\ mishaps = {} /\ spoiled = {} /\ pulled = {}
    /\ spent = [failures |-> 0, binds |-> 0, loads |-> 0]

Idle == \A d \in Device : state[d] \in {"unbound", "bound"}
At(d) == <<d, next[d]>>

----------------------------------------------------------------------------
(* The module, the driver core and the applications (external).            *)

\* insmod: the static variables start afresh.
Load ==
    /\ ~broken
    /\ module = "out"
    /\ spent.loads < MaxLoads
    /\ module' = "in"
    /\ local_class_p' = 0 /\ total_count' = 0
    /\ spent' = [spent EXCEPT !.loads = @ + 1]
    /\ UNCHANGED <<kernelVars, state, step, next, buffers, files, historyVars>>

\* rmmod: the owner of dm_fops is the module, so an open file keeps it.
Unload ==
    /\ ~broken
    /\ module = "in" /\ Idle
    /\ files = {}
    /\ module' = "going"
    /\ UNCHANGED <<staticVars, kernelVars, state, step, next, buffers, files, historyVars, spent>>

Unloaded ==
    /\ ~broken
    /\ module = "going"
    /\ \A d \in Device : state[d] = "unbound"
    /\ module' = "out"
    /\ UNCHANGED <<staticVars, kernelVars, state, step, next, buffers, files, historyVars, spent>>

\* A device is bound when the module is loaded, or by hand: probe begins.
Bind(d) ==
    /\ ~broken
    /\ module = "in" /\ Idle
    /\ state[d] = "unbound"
    /\ spent.binds < MaxBinds
    /\ spent' = [spent EXCEPT !.binds = @ + 1]
    /\ state' = [state EXCEPT ![d] = "probing"]
    /\ next' = [next EXCEPT ![d] = 1]
    /\ step' = "request"
    /\ mishaps' = IF local_class_p \in classes \cup {0} THEN mishaps
                  ELSE mishaps \cup {"stale class"}
    /\ UNCHANGED <<staticVars, kernelVars, module, buffers, files, spoiled, pulled>>

\* A device is unbound by hand or by rmmod: remove begins.
Unbind(d) ==
    /\ ~broken
    /\ module \in {"in", "going"} /\ Idle
    /\ state[d] = "bound"
    /\ state' = [state EXCEPT ![d] = "removing"]
    /\ next' = [next EXCEPT ![d] = 1]
    /\ pulled' = IF module = "in" /\ files \cap Of(d) # {} THEN pulled \cup {d} ELSE pulled
    /\ UNCHANGED <<staticVars, kernelVars, module, step, buffers, files, mishaps, spoiled,
                   spent>>

\* open() of a node; a module that is going is not entered any more.
Open(c) ==
    /\ ~broken
    /\ module = "in"
    /\ c \in node \cap cdev
    /\ files' = files \cup {c}
    /\ pulled' = IF state[c[1]] = "removing" THEN pulled \cup {c[1]} ELSE pulled
    /\ UNCHANGED <<staticVars, kernelVars, module, state, step, next, buffers, mishaps,
                   spoiled, spent>>

Close(c) ==
    /\ ~broken
    /\ c \in files
    /\ files' = files \ {c}
    /\ UNCHANGED <<staticVars, kernelVars, module, state, step, next, buffers, historyVars,
                   spent>>

----------------------------------------------------------------------------
(* dma_proxy_probe, with create_channel and cdevice_init.                  *)

Fails == spent.failures < MaxFailures /\ spent' = [spent EXCEPT !.failures = @ + 1]

\* probe returns an error: what was allocated for the device goes, what was
\* registered stays, and remove will not be called.
ProbeFails(d) ==
    /\ state' = [state EXCEPT ![d] = "unbound"]
    /\ mishaps' = mishaps \cup {"failure"}
    /\ spoiled' = IF step = "request" /\ next[d] = 1 THEN spoiled ELSE spoiled \cup {d}
    /\ buffers' = buffers \ Of(d)
    /\ UNCHANGED <<staticVars, module, step, next, files, pulled>>

InStep(d, s) == ~broken /\ state[d] = "probing" /\ step = s

\* dma_request_slave_channel
RequestChannel(d) ==
    /\ InStep(d, "request")
    /\ At(d) \notin held
    /\ held' = held \cup {At(d)}
    /\ step' = "register"
    /\ UNCHANGED <<staticVars, module, state, next, classes, class_p, cdev, node, buffers,
                   files, broken, historyVars, spent>>

\* A channel that is held is not given out again. The message goes through
\* dma_device_p, which is not set yet: the memory is that of devm_kmalloc.
NoChannel(d) ==
    /\ InStep(d, "request")
    /\ \/ At(d) \in held /\ UNCHANGED spent
       \/ Fails
    /\ ProbeFails(d)
    /\ broken' \in BOOLEAN
    /\ UNCHANGED <<classes, class_p, held, cdev, node>>

\* The class of all channels: the first channel creates it, once in the life of the
\* module, so the number of the load is its name. There can be one of them in sysfs.
Class == IF local_class_p = 0 THEN spent.loads ELSE local_class_p
ClassUsable == IF local_class_p = 0 THEN classes = {} ELSE local_class_p \in classes

\* cdevice_init
RegisterDevice(d) ==
    /\ InStep(d, "register")
    /\ local_class_p' = Class
    /\ class_p' = [class_p EXCEPT ![At(d)] = Class]
    /\ broken' = ~ClassUsable
    /\ classes' = classes \cup IF local_class_p = 0 THEN {Class} ELSE {}
    /\ cdev' = cdev \cup {At(d)}
    /\ node' = node \cup {At(d)}
    /\ step' = "allocate"
    /\ UNCHANGED <<total_count, module, state, next, held, buffers, files, historyVars, spent>>

\* The node cannot be created: cdevice_init takes back what it did, destroys the class
\* of all channels, and returns the 0 that cdev_add left in rc: create_channel goes on.
NoNode(d) ==
    /\ InStep(d, "register")
    /\ Fails
    /\ local_class_p' = Class
    /\ class_p' = [class_p EXCEPT ![At(d)] = Class]
    /\ broken' = ~ClassUsable
    /\ classes' = classes \ {Class}
    /\ mishaps' = mishaps \cup {"failure"}
    /\ step' = "allocate"
    /\ UNCHANGED <<total_count, module, state, next, held, cdev, node, buffers, files, spoiled,
                   pulled>>

\* No device number, or cdev_add fails.
NoDevice(d) ==
    /\ InStep(d, "register")
    /\ Fails
    /\ ProbeFails(d)
    /\ UNCHANGED kernelVars

\* The error of dmam_alloc_coherent is not passed on.
MutantNoBuffer(d) ==
    /\ InStep(d, "allocate")
    /\ Fails
    /\ state' = [state EXCEPT ![d] = "bound"]
    /\ mishaps' = mishaps \cup {"failure"}
    /\ UNCHANGED <<staticVars, kernelVars, module, step, next, buffers, files, spoiled, pulled>>

\* buffer_table_p is not looked at: probe goes on without the memory.
MutantNoMemory(d) ==
    /\ InStep(d, "allocate")
    /\ Fails
    /\ mishaps' = mishaps \cup {"failure"}
    /\ total_count' = total_count + 1
    /\ next' = [next EXCEPT ![d] = @ + 1]
    /\ step' = "request"
    /\ state' = IF next[d] = Channels THEN [state EXCEPT ![d] = "bound"] ELSE state
    /\ UNCHANGED <<local_class_p, kernelVars, module, buffers, files, spoiled, pulled>>

\* The buffers cannot be allocated.
NoBuffer(d) ==
    /\ InStep(d, "allocate")
    /\ Fails
    /\ ProbeFails(d)
    /\ UNCHANGED kernelVars

\* The channel is not counted.
MutantCompleteChannel(d) ==
    /\ InStep(d, "allocate")
    /\ next' = [next EXCEPT ![d] = @ + 1]
    /\ step' = "request"
    /\ state' = IF next[d] = Channels THEN [state EXCEPT ![d] = "bound"] ELSE state
    /\ buffers' = buffers \cup {At(d)}
    /\ UNCHANGED <<staticVars, kernelVars, module, files, historyVars, spent>>

\* The buffers are there and the channel is complete; probe goes on with the next one.
CompleteChannel(d) ==
    /\ InStep(d, "allocate")
    /\ total_count' = total_count + 1
    /\ next' = [next EXCEPT ![d] = @ + 1]
    /\ step' = "request"
    /\ state' = IF next[d] = Channels THEN [state EXCEPT ![d] = "bound"] ELSE state
    /\ buffers' = buffers \cup {At(d)}
    /\ UNCHANGED <<local_class_p, kernelVars, module, files, historyVars, spent>>

Probe(d) ==
    \/ RequestChannel(d) \/ NoChannel(d)
    \/ RegisterDevice(d) \/ NoNode(d) \/ NoDevice(d)
    \/ NoBuffer(d) \/ CompleteChannel(d)

----------------------------------------------------------------------------
(* dma_proxy_remove, with cdevice_exit.                                    *)

\* The count is taken down before cdevice_exit looks at it.
MutantRemoveChannel(d) ==
    /\ ~broken
    /\ state[d] = "removing" /\ next[d] <= Channels
    /\ broken' = (class_p[At(d)] \notin classes)
    /\ node' = node \ {At(d)}
    /\ classes' = IF total_count - 1 = 1 THEN classes \ {class_p[At(d)]} ELSE classes
    /\ cdev' = cdev \ {At(d)}
    /\ total_count' = total_count - 1
    /\ next' = [next EXCEPT ![d] = @ + 1]
    /\ UNCHANGED <<local_class_p, module, state, step, class_p, held, buffers, files,
                   historyVars, spent>>

\* One channel: proxy_device_p is not null, not even where it holds an error. The
\* last of all channels destroys the class and leaves local_class_p as it is.
RemoveChannel(d) ==
    /\ ~broken
    /\ state[d] = "removing" /\ next[d] <= Channels
    /\ broken' = (class_p[At(d)] \notin classes)
    /\ node' = node \ {At(d)}
    /\ classes' = IF total_count = 1 THEN classes \ {class_p[At(d)]} ELSE classes
    /\ cdev' = cdev \ {At(d)}
    /\ total_count' = total_count - 1
    /\ next' = [next EXCEPT ![d] = @ + 1]
    /\ UNCHANGED <<local_class_p, module, state, step, class_p, held, buffers, files,
                   historyVars, spent>>

\* The last DMA channel is forgotten.
MutantReleaseChannels(d) ==
    /\ ~broken
    /\ state[d] = "removing" /\ next[d] > Channels
    /\ held' = held \ {c \in Of(d) : c[2] < Channels}
    /\ state' = [state EXCEPT ![d] = "unbound"]
    /\ buffers' = buffers \ Of(d)
    /\ UNCHANGED <<staticVars, module, step, next, classes, class_p, cdev, node, files,
                   broken, historyVars, spent>>

\* All DMA channels are terminated and released, and the driver core frees the rest.
ReleaseChannels(d) ==
    /\ ~broken
    /\ state[d] = "removing" /\ next[d] > Channels
    /\ held' = held \ Of(d)
    /\ state' = [state EXCEPT ![d] = "unbound"]
    /\ buffers' = buffers \ Of(d)
    /\ UNCHANGED <<staticVars, module, step, next, classes, class_p, cdev, node, files,
                   broken, historyVars, spent>>

Remove(d) == RemoveChannel(d) \/ ReleaseChannels(d)

Next ==
    \/ Load \/ Unload \/ Unloaded
    \/ \E d \in Device : Bind(d) \/ Unbind(d) \/ Probe(d) \/ Remove(d)
    \/ \E c \in Channel : Open(c) \/ Close(c)

Spec == Init /\ [][Next]_vars

----------------------------------------------------------------------------
\* As long as no kernel service fails and no device is bound after the last channel
\* has gone (local_class_p still points to the destroyed class): no class is used that
\* is gone, all nodes are in the one class, and it exists exactly while there are
\* channels, whatever the order in which devices come and go.
ClassLifetime ==
    mishaps = {} =>
        /\ ~broken
        /\ \A c \in node : class_p[c] = local_class_p /\ local_class_p \in classes
        /\ classes \subseteq {local_class_p}
        /\ Idle => (classes = {} <=> \A d \in Device : state[d] = "unbound")

\* A device that is not bound has nothing registered and holds no DMA channel, unless
\* its probe once failed after it had obtained something: remove takes down what probe
\* built, also after failures elsewhere, and a device that got nothing left nothing.
NothingLeft ==
    \A d \in Device :
        state[d] = "unbound" /\ d \notin spoiled => Of(d) \cap (held \cup cdev \cup node) = {}

\* A device that is bound has the DMA channels and, unless a service failed, the
\* character devices and nodes of all its channels.
BoundIsUsable ==
    \A d \in Device : state[d] = "bound" =>
        /\ Of(d) \subseteq held
        /\ "failure" \notin mishaps => Of(d) \subseteq cdev \cap node

\* Probe is between the node of a channel and its buffer.
Registering(c) == state[c[1]] = "probing" /\ step = "allocate" /\ c = At(c[1])

\* The memory behind an open file is there, whatever fails for other devices and whenever
\* the module is unloaded. There are three ways to lose or miss it, all of them in the
\* code: the file was opened before probe had allocated its buffer, the probe of its own
\* device failed with a node visible, or its device was unbound by hand.
FilesBacked ==
    \A c \in files : c \in buffers \/ Registering(c) \/ c[1] \in spoiled \cup pulled
=============================================================================
