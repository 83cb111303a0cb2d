---------------------------- MODULE ResponseList -----------------------------
(***************************************************************************)
(* The list of beacons a discovery server keeps (tDiscoveryServerContext,  *)
(* discovery_udp_linux.c): nodes from malloc, linked by pointers. Nodes    *)
(* are numbered in the order they are allocated; 0 is the null pointer.    *)
(***************************************************************************)
EXTENDS Integers, Sequences

CONSTANTS
    Device,         \* the devices that beacons can be from
    MaxBeacons,     \* DISCOVERY_MAX_BEACONS: 253
    MaxNodes        \* bound: nodes allocated

ASSUME ListAssumption == MaxBeacons \in Nat \ {0} /\ MaxNodes \in Nat

VARIABLES
    nodes,          \* the nodes allocated so far: [device, next]
    responses,      \* the first node of the list
    latest,         \* latest_response
    num_responses,
    pending,        \* history: beacons taken in and not handed out, in order
    drained         \* history: the list ran empty since discovery_server_init

listVars == <<nodes, responses, latest, num_responses, pending, drained>>

Pointer == 0..Len(nodes)

ListTypeOK ==
    /\ \A i \in DOMAIN nodes : nodes[i].device \in Device /\ nodes[i].next \in Pointer
    /\ Len(nodes) <= MaxNodes
    /\ responses \in Pointer /\ latest \in Pointer
    /\ num_responses \in 0..MaxBeacons
    /\ pending \in Seq(Device)
    /\ drained \in BOOLEAN

ListInit ==
    /\ nodes = << >>
    /\ responses = 0 /\ latest = 0 /\ num_responses = 0
    /\ pending = << >> /\ drained = FALSE

\* The old last node points to the new one.
MutantLink(node) ==
    /\ nodes' = Append(nodes, node)
    /\ responses' = IF responses = 0 THEN Len(nodes) + 1 ELSE responses
    /\ latest' = Len(nodes) + 1

Link(node) ==
    LET new == Len(nodes) + 1 IN
    /\ IF latest # 0
       THEN /\ nodes' = Append([nodes EXCEPT ![latest].next = new], node)
            /\ UNCHANGED responses
       ELSE /\ nodes' = Append(nodes, node)
            /\ responses' = new
    /\ latest' = new

\* discovery_server_update for a beacon that was received.
Record(d) ==
    /\ Len(nodes) < MaxNodes
    /\ Link([device |-> d, next |-> 0])
    /\ num_responses' = num_responses + 1
    /\ pending' = Append(pending, d)
    /\ UNCHANGED drained

\* discovery_server_get_next: the node is unlinked but neither freed nor forgotten.
GetNext ==
    /\ responses # 0
    /\ responses' = nodes[responses].next
    /\ num_responses' = num_responses - 1
    /\ pending' = Tail(pending)
    /\ drained' = (drained \/ responses' = 0)
    /\ UNCHANGED <<nodes, latest>>

\* discovery_server_shutdown and, for the next user, discovery_server_init.
Reopen ==
    /\ responses' = 0 /\ latest' = 0 /\ num_responses' = 0
    /\ pending' = << >> /\ drained' = FALSE
    /\ UNCHANGED nodes

\* The devices in the list, from its head.
Listed ==
    LET from[p \in Pointer] ==
          IF p = 0 THEN << >> ELSE <<nodes[p].device>> \o from[nodes[p].next]
    IN from[responses]

\* Every beacon taken in is handed out in the order received, none lost and none twice,
\* and the count says how many are left: as long as the list was never emptied. Once it
\* was, latest_response still points to the node handed out last, new beacons are linked
\* behind that one, and they are counted but cannot be reached.
ListIsPending ==
    /\ num_responses = Len(pending)
    /\ Listed = IF drained THEN << >> ELSE pending
=============================================================================
