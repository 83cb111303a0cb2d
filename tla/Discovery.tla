----------------------------- MODULE Discovery ------------------------------
(***************************************************************************)
(* Discovery of the boards on the network: discovery_thread of every board *)
(* (task_discovery.c, lib/discovery), which announces itself once and then *)
(* polls for requests, and a host with the server half of the library.     *)
(* UDP loses and reorders; a full socket buffer drops. A request also      *)
(* carries revisions and names: what they ask for is the members of `for`. *)
(* Operators whose name begins with Mutant are faulty variants of the      *)
(* definition that follows them; no specification uses them.               *)
(***************************************************************************)
EXTENDS ResponseList, FiniteSetsExt

CONSTANTS
    Board,          \* the devices on the network; there may be beacons of others
    Sought,         \* the devices a host names when it uses send_request
    MinDelay,       \* DISCOVERY_MIN_DELAY: 5 seconds
    Nap,            \* the sleep after an answer: 10 seconds
    Buffered,       \* bound: datagrams a board's socket holds
    HostBuffered,   \* bound: datagrams the host's socket holds
    MaxMisses,      \* bound: requests that do not want every device
    Asks            \* how the host asks: "create_request", "send_request"

ASSUME DiscoveryAssumption ==
    /\ MinDelay \in Nat \ {0} /\ Nap \in Nat \ {0}
    /\ Buffered \in Nat \ {0} /\ HostBuffered \in Nat \ {0} /\ MaxMisses \in Nat
    /\ Board \subseteq Device /\ Sought \subseteq Device
    /\ Asks \subseteq {"create_request", "send_request"}

VARIABLES
    state,          \* of each device: "off", "up", or "deaf" if its socket failed
    age,            \* seconds since its last_uptime, up to MinDelay
    sleep,          \* seconds until its thread runs again
    last,           \* history: what became of the last request it considered
    inbox,          \* its socket buffer
    mail,           \* the host's socket buffer
    misses          \* how much of MaxMisses is used up

deviceVars == <<state, age, sleep, last, inbox>>
vars == <<listVars, deviceVars, mail, misses>>

Request(for) == [kind |-> "request", for |-> for]
Beacon(d) == [kind |-> "beacon", for |-> {d}]
Datagram == [kind : {"request", "beacon"}, for : SUBSET Device]

TypeOK ==
    /\ ListTypeOK
    /\ state \in [Board -> {"off", "up", "deaf"}]
    /\ age \in [Board -> 0..MinDelay]
    /\ sleep \in [Board -> 0..(Nap + 1)]
    /\ last \in [Board -> {"none", "answered", "missed"}]
    /\ inbox \in [Board -> Seq(Datagram)]
    /\ mail \in Seq(Datagram)
    /\ misses \in 0..MaxMisses

Init ==
    /\ ListInit
    /\ state = [d \in Board |-> "off"]
    /\ age = [d \in Board |-> 0]
    /\ sleep = [d \in Board |-> 0]
    /\ last = [d \in Board |-> "none"]
    /\ inbox = [d \in Board |-> << >>]
    /\ mail = << >>
    /\ misses = 0

----------------------------------------------------------------------------
(* The network (external).                                                 *)

\* A datagram joins a socket buffer anywhere, or is lost.
Arrivals(buffer, room, m) ==
    {buffer} \cup
    (IF Len(buffer) < room
     THEN {SubSeq(buffer, 1, i) \o <<m>> \o SubSeq(buffer, i + 1, Len(buffer)) :
              i \in 0..Len(buffer)}
     ELSE {})

\* Every open socket may get a broadcast, the sender's own included.
Broadcast(m, open) ==
    /\ mail' \in Arrivals(mail, HostBuffered, m)
    /\ inbox' \in [Board -> UNION {Arrivals(inbox[d], Buffered, m) : d \in Board}]
    /\ \A d \in Board :
          inbox'[d] \in IF d \in open THEN Arrivals(inbox[d], Buffered, m) ELSE {inbox[d]}

----------------------------------------------------------------------------
(* discovery_thread of a board.                                            *)

\* discovery_client_init: the socket may fail in four ways, all of them silent.
Start(d) ==
    /\ state[d] = "off"
    /\ \/ /\ state' = [state EXCEPT ![d] = "deaf"]
          /\ UNCHANGED <<age, inbox, mail>>
       \/ /\ state' = [state EXCEPT ![d] = "up"]
          /\ \E a \in 0..MinDelay : age' = [age EXCEPT ![d] = a]    \* last_uptime = 0
          /\ Broadcast(Beacon(d), {e \in Board : state'[e] = "up"})
    /\ UNCHANGED <<listVars, sleep, last, misses>>

Wakes(d) == state[d] = "up" /\ sleep[d] = 0

\* recvfrom finds nothing; sysinfo cannot fail with the argument it gets.
PollNothing(d) ==
    /\ Wakes(d)
    /\ inbox[d] = << >>
    /\ sleep' = [sleep EXCEPT ![d] = 1]
    /\ UNCHANGED <<listVars, state, age, last, inbox, mail, misses>>

Receive(d) ==
    /\ Wakes(d)
    /\ inbox[d] # << >>
    /\ inbox' = [inbox EXCEPT ![d] = Tail(@)]
    /\ UNCHANGED <<listVars, state, misses>>

\* A request that is ignored starts the delay afresh.
MutantIgnore(d) ==
    /\ Receive(d)
    /\ Head(inbox[d]).kind = "beacon" \/ age[d] < MinDelay
    /\ age' = [age EXCEPT ![d] = 0]
    /\ sleep' = [sleep EXCEPT ![d] = 1]
    /\ UNCHANGED <<last, mail>>

\* A beacon, or a request too soon after the last one that was considered.
Ignore(d) ==
    /\ Receive(d)
    /\ Head(inbox[d]).kind = "beacon" \/ age[d] < MinDelay
    /\ sleep' = [sleep EXCEPT ![d] = 1]
    /\ UNCHANGED <<age, last, mail>>

Considered(d) ==
    /\ Receive(d)
    /\ Head(inbox[d]).kind = "request"
    /\ age[d] = MinDelay
    /\ age' = [age EXCEPT ![d] = 0]

\* last_uptime is set before the request turns out to be for somebody else.
Miss(d) ==
    /\ Considered(d)
    /\ d \notin Head(inbox[d]).for
    /\ last' = [last EXCEPT ![d] = "missed"]
    /\ sleep' = [sleep EXCEPT ![d] = 1]
    /\ UNCHANGED mail

\* The thread does not sleep longer after an answer.
MutantAnswer(d) ==
    /\ Considered(d)
    /\ d \in Head(inbox[d]).for
    /\ last' = [last EXCEPT ![d] = "answered"]
    /\ sleep' = [sleep EXCEPT ![d] = 1]
    /\ mail' \in Arrivals(mail, HostBuffered, Beacon(d))

Answer(d) ==
    /\ Considered(d)
    /\ d \in Head(inbox[d]).for
    /\ last' = [last EXCEPT ![d] = "answered"]
    /\ sleep' = [sleep EXCEPT ![d] = Nap + 1]
    /\ mail' \in Arrivals(mail, HostBuffered, Beacon(d))

Poll(d) == PollNothing(d) \/ Ignore(d) \/ Miss(d) \/ Answer(d)

\* A second passes. A thread whose sleep is over may be late.
Tick ==
    /\ age' = [d \in Board |-> Min({age[d] + 1, MinDelay})]
    /\ sleep' = [d \in Board |-> Max({sleep[d] - 1, 0})]
    /\ UNCHANGED <<listVars, state, last, inbox, mail, misses>>

----------------------------------------------------------------------------
(* The host.                                                               *)

Up == {d \in Board : state[d] = "up"}

\* A request made with discovery_create_request, which the library offers and nothing
\* in the repository calls: for all boards, or for some only.
AskAll ==
    /\ "create_request" \in Asks
    /\ Broadcast(Request(Device), Up)
    /\ UNCHANGED <<listVars, state, age, sleep, last, misses>>

AskSome ==
    /\ "create_request" \in Asks
    /\ misses < MaxMisses
    /\ misses' = misses + 1
    /\ \E for \in (SUBSET Device) \ {Device} : Broadcast(Request(for), Up)
    /\ UNCHANGED <<listVars, state, age, sleep, last>>

\* discovery_server_send_request broadcasts what discovery_create_beacon makes: no
\* device takes it for a request, and the host may list the device it asks for.
SendRequest ==
    /\ "send_request" \in Asks
    /\ \E d \in Sought : Broadcast(Beacon(d), Up)
    /\ UNCHANGED <<listVars, state, age, sleep, last, misses>>

\* The list has no limit.
MutantUpdate ==
    /\ mail # << >>
    /\ mail' = Tail(mail)
    /\ IF Head(mail).kind = "beacon"
       THEN \/ \E d \in Head(mail).for : Record(d)
            \/ UNCHANGED listVars
       ELSE UNCHANGED listVars
    /\ UNCHANGED <<deviceVars, misses>>

\* discovery_server_update does not look at the socket when the list is full.
Update ==
    /\ num_responses < MaxBeacons
    /\ mail # << >>
    /\ mail' = Tail(mail)
    /\ IF Head(mail).kind = "beacon"
       THEN \/ \E d \in Head(mail).for : Record(d)
            \/ UNCHANGED listVars                     \* malloc failed
       ELSE UNCHANGED listVars
    /\ UNCHANGED <<deviceVars, misses>>

Take == GetNext /\ UNCHANGED <<deviceVars, mail, misses>>

\* The host's socket is closed, with what is in its buffer, and opened again.
Restart ==
    /\ Len(nodes) > 0
    /\ Reopen
    /\ mail' = << >>
    /\ UNCHANGED <<deviceVars, misses>>

Next ==
    \/ \E d \in Board : Start(d) \/ Poll(d)
    \/ Tick
    \/ AskAll \/ AskSome \/ SendRequest
    \/ Update \/ Take \/ Restart

\* A broadcast that reaches device d.
Reaches(d, A) == A /\ Len(inbox'[d]) > Len(inbox[d])

\* Time passes and the threads run. A host that goes on asking with what
\* discovery_create_request makes is heard again and again: of SendRequest nothing is
\* asked, for it asks nobody.
Spec ==
    /\ Init /\ [][Next]_vars
    /\ WF_vars(Tick)
    /\ \A d \in Board :
         /\ WF_vars(Start(d)) /\ WF_vars(Poll(d))
         /\ SF_vars(Reaches(d, AskAll))

----------------------------------------------------------------------------
\* After an answer the thread sleeps for longer than the rate limit lasts: the limit
\* never holds back a request because an earlier one was answered, only because an
\* earlier one was for somebody else or the board had just booted.
SleepCoversLimit ==
    \A d \in Board : last[d] = "answered" /\ Wakes(d) => age[d] = MinDelay

\* A host that goes on sending the requests of discovery_create_request is answered by
\* each board that has a socket, again and again, when requests for other boards stop.
\* What the host half itself sends, discovery_server_send_request, is never answered.
Answered == \A d \in Board : state[d] = "up" ~> sleep[d] > 1
=============================================================================
