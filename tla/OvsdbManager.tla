---------------------------- MODULE OvsdbManager ----------------------------
(***************************************************************************)
(* The switch manager for Open vSwitch (ovs-ovsdb/commands.cc).  It keeps, *)
(* for each LSI, lists of the names of its ports and, in the same order,   *)
(* of their identifiers in the database (uuids): port_l and port_uuid,     *)
(* vport_l and vport_uuid (ends of virtual links), endpoint_l and          *)
(* gport_uuid (tunnels).  Every change of an LSI is one transaction that   *)
(* replaces the set of its ports by the known uuids.                       *)
(*                                                                         *)
(* The callers are the graph manager's, one request at a time.  LSI-0 is   *)
(* created first, with the physical ports; the other LSIs have ports of    *)
(* network functions, tunnels, and virtual links to LSI-0.                 *)
(***************************************************************************)
EXTENDS ListOps

CONSTANTS
    PhyPorts,     \* the physical ports
    NFs,          \* network functions, in one LSI: each is the set of its ports
    Veth,         \* those of type veth; the others are of type vhost
    Endpoints,    \* identifiers of tunnels, in one LSI
    Faults,       \* what may fail: "connect", "send", "refuse", "lose"
    MaxFaults,    \* bound: failures
    MaxLSIs,      \* bound: LSIs ever created
    MaxPorts,     \* bound: ports ever asked for
    MaxLinks      \* bound: virtual links of a new LSI

ASSUME FinitePorts == IsFiniteSet(PhyPorts) /\ \A nf \in NFs : IsFiniteSet(nf)
ASSUME FaultsAreFaults == Faults \subseteq {"connect", "send", "refuse", "lose"}
ASSUME Bounds == MaxFaults \in Nat /\ MaxLSIs \in Nat /\ MaxPorts \in Nat /\ MaxLinks \in Nat

LSI0 == 1
Dpids == 1..(MaxLSIs + 1)
Lists == {"port", "vport", "gport"}
Empty == [l \in Lists |-> <<>>]

VARIABLES
    dnumber, rnumber, pnumber, gnumber,   \* the next LSI, port number, link end and tunnel
    names, uuid,          \* the lists of each LSI
    switch_uuid,          \* the LSIs that are known
    port_id,              \* port number -> name, of link ends
    vl_PortIDtoSwitchID,  \* port number -> LSI, of link ends
    vl_Remote,            \* vl_LocalPortIDtoRemotePortID
    virtual_link_id,      \* LSI -> the port numbers of its ends of its links
    bridges, ports, uuids,   \* the database: bridges, the ports of each, the next uuid
    pc, cur, todo,        \* the request in progress, its LSI, the calls it has still to make
    made, got,            \* the links and the port numbers it will return
    view,                 \* what the graph manager was told of each LSI
    faults                \* history: the failures so far

counters == <<dnumber, rnumber, pnumber, gnumber>>
linkMaps == <<port_id, vl_PortIDtoSwitchID, vl_Remote, virtual_link_id>>
database == <<bridges, ports, uuids>>
request == <<pc, cur, todo, made, got>>
vars == <<counters, names, uuid, switch_uuid, linkMaps, database, request, view, faults>>

vport(k) == <<"vport", k, 0>>
NoName == <<"none", 0, 0>>

Init ==
    /\ dnumber = 1 /\ rnumber = 1 /\ pnumber = 1 /\ gnumber = 0
    /\ names = [d \in Dpids |-> Empty] /\ uuid = [d \in Dpids |-> Empty]
    /\ switch_uuid = {} /\ virtual_link_id = [d \in Dpids |-> <<>>]
    /\ port_id = [i \in {} |-> NoName]
    /\ vl_PortIDtoSwitchID = [i \in {} |-> LSI0] /\ vl_Remote = [i \in {} |-> 0]
    /\ bridges = {} /\ ports = [d \in Dpids |-> {}] /\ uuids = 1
    /\ pc = "idle" /\ cur = LSI0 /\ todo = <<>> /\ made = <<>> /\ got = {}
    /\ view = [d \in {} |-> [ports |-> {}, links |-> {}]] /\ faults = <<>>

-----------------------------------------------------------------------------
\* The database.  A transaction on a bridge replaces the set of its ports; it is
\* refused if a uuid in the set has no port, or a name is taken.

\* Mutant: the ports of the list port_uuid are not sent.
KnownLinks(us) == Range(us["vport"]) \cup Range(us["gport"])

\* The uuids in the lists of an LSI.
Known(us) == UNION {Range(us[l]) : l \in Lists}

\* Mutant: ports are added to the set.
Kept(d, us) == ports[d]

\* The ports of a bridge whose uuids are sent.
Replaced(d, us) == {x \in ports[d] : x.uuid \in Known(us)}

Referable(d, us) ==
    /\ d \in switch_uuid \cap bridges
    /\ Known(us) \subseteq {x.uuid : x \in ports[d]}

Taken(d) ==
    {x.name : x \in Replaced(d, uuid[d]) \cup UNION {ports[e] : e \in Dpids \ {d}}}

\* What may fail fails.
Fault(f) == f \in Faults /\ Len(faults) < MaxFaults /\ faults' = Append(faults, f)

-----------------------------------------------------------------------------
\* Calls that add a port: add_port, add_endpoint, cmd_add_virtual_link.  "before" and
\* "after" are what enters the list of names before the call and after it.

Call(kind, d, list, name, peer, before, after, key) ==
    [kind |-> kind, at |-> d, list |-> list, name |-> name, peer |-> peer,
     before |-> before, after |-> after, key |-> key]

\* A physical port enters the list twice: in add_port and in cmd_editconfig_lsi.
AddPhy(p) ==
    LET n == <<"phy", 0, p>> IN Call("port", LSI0, "port", n, NoName, <<n>>, <<n>>, n)

\* The name on the switch is made of the LSI and the port.  Of a veth pair, the switch
\* has the other end.
NameOnSwitch(d, p) == <<IF p \in Veth THEN "veth" ELSE "nf", d, p>>

AddNF(d, p) ==
    LET n == NameOnSwitch(d, p) IN Call("port", d, "port", n, NoName, <<n>>, <<>>, n)

AddGre(d, e, k) ==
    Call("gre", d, "gport", <<"gre", k, 0>>, NoName, <<>>, <<<<"ep", d, e>>>>, <<"ep", d, e>>)

\* The ends of a link made by cmd_editconfig_lsi ...
AddLocal(d, k) == Call("local", d, "vport", vport(k), vport(k + 1), <<>>, <<vport(k)>>, NoName)
AddRemote(k) == Call("remote", LSI0, "vport", vport(k + 1), vport(k), <<vport(k + 1)>>, <<>>, NoName)

\* ... or by cmd_addVirtualLink.
AddFirst(d, k) == Call("pair", d, "vport", vport(k), vport(k + 1), <<>>, <<>>, NoName)
AddSecond(k) == Call("pair", LSI0, "vport", vport(k + 1), vport(k), <<>>, <<>>, NoName)

c == Head(todo)

Calling == pc \in {"create", "connect", "add", "link"} /\ todo # <<>> /\ uuids <= MaxPorts

NewPort == [uuid |-> uuids, name |-> c.name, of |-> rnumber, peer |-> c.peer]

Accepted == Referable(c.at, uuid[c.at]) /\ c.name \notin Taken(c.at)

\* The counters of names: pnumber is incremented before and after each of the two
\* calls for a link in cmd_editconfig_lsi, gnumber before the call.
Count(n) ==
    /\ pnumber' = IF c.kind \in {"local", "remote"} THEN pnumber + n ELSE pnumber
    /\ gnumber' = IF c.kind = "gre" THEN gnumber + 1 ELSE gnumber
    /\ UNCHANGED dnumber

\* The maps of a link between ports i, of LSI d, and j, of LSI-0.
SetLink(d, i, j, vrt, trv) ==
    /\ port_id' = (i :> vrt) @@ (j :> trv) @@ port_id
    /\ vl_PortIDtoSwitchID' = (i :> d) @@ (j :> LSI0) @@ vl_PortIDtoSwitchID
    /\ vl_Remote' = (i :> j) @@ vl_Remote
    /\ virtual_link_id' = [virtual_link_id EXCEPT ![d] = Append(@, i)]

\* Mutant: the number of the other end is the next one.
RemoteNext == rnumber + 1

\* How many links the new LSI has, and the number of the other end of a link: all the
\* local ends come before the remote ones.
NumLinks == Len(SelectSeq(todo, LAMBDA x : x.kind = "local")) + Len(made)
RemoteID == rnumber + NumLinks

\* What is noted for the answer.
Note ==
    IF c.kind = "local"
    THEN /\ SetLink(c.at, rnumber, RemoteID, c.name, c.peer)
         /\ made' = Append(made, <<rnumber, RemoteID>>)
         /\ UNCHANGED got
    ELSE /\ got' = IF c.key = NoName THEN got ELSE got \cup {<<c.key, rnumber>>}
         /\ UNCHANGED <<linkMaps, made>>

\* The transaction succeeds.
Answered ==
    /\ Calling /\ Accepted
    /\ names' = [names EXCEPT ![c.at][c.list] = @ \o c.before \o c.after]
    /\ uuid' = [uuid EXCEPT ![c.at][c.list] = Append(@, uuids)]
    /\ ports' = [ports EXCEPT ![c.at] = Replaced(c.at, uuid[c.at]) \cup {NewPort}]
    /\ rnumber' = rnumber + 1 /\ uuids' = uuids + 1
    /\ Count(2) /\ Note
    /\ todo' = Tail(todo)
    /\ UNCHANGED <<switch_uuid, bridges, pc, cur, view, faults>>

\* An exception ends the request; at the creation of LSI-0 it ends the process.
Throw ==
    /\ pc' = IF LSI0 \in DOMAIN view THEN "idle" ELSE "aborted"
    /\ todo' = <<>> /\ made' = <<>> /\ got' = {}
    /\ UNCHANGED <<cur, view>>

\* The database refuses: the answer has the uuids of the rows that it did not keep,
\* and then the error.
Refused ==
    /\ Calling
    /\ IF Accepted THEN Fault("refuse") ELSE UNCHANGED faults
    /\ names' = [names EXCEPT ![c.at][c.list] = @ \o c.before]
    /\ uuid' = [uuid EXCEPT ![c.at][c.list] = Append(@, uuids)]
    /\ uuids' = uuids + 1
    /\ Count(1) /\ Throw
    /\ UNCHANGED <<rnumber, switch_uuid, linkMaps, bridges, ports>>

\* The message cannot be sent.
SendFails ==
    /\ Calling /\ Fault("send")
    /\ names' = [names EXCEPT ![c.at][c.list] = @ \o c.before]
    /\ Count(1) /\ Throw
    /\ UNCHANGED <<rnumber, uuid, switch_uuid, linkMaps, database>>

\* The database cannot be reached.  (For the end of a link this is noticed after the
\* assignments that come before the call: SendFails.)
ConnectFails ==
    /\ Calling /\ Fault("connect") /\ c.list # "vport"
    /\ Count(0) /\ Throw
    /\ UNCHANGED <<rnumber, names, uuid, switch_uuid, linkMaps, database>>

\* The transaction succeeds and its answer is lost.
AnswerLost ==
    /\ Calling /\ Fault("lose") /\ Accepted
    /\ names' = [names EXCEPT ![c.at][c.list] = @ \o c.before]
    /\ ports' = [ports EXCEPT ![c.at] = Replaced(c.at, uuid[c.at]) \cup {NewPort}]
    /\ uuids' = uuids + 1
    /\ Count(1) /\ Throw
    /\ UNCHANGED <<rnumber, uuid, switch_uuid, linkMaps, bridges>>

-----------------------------------------------------------------------------
\* createLsi: cmd_editconfig_lsi.  First the bridge, then its ports, tunnels and local
\* ends of links; then the ends of the links at LSI-0.

\* The calls for physical ports, and for the ports of network functions.
PhyCalls(ps) == LET s == SetToSeq(ps) IN [i \in 1..Len(s) |-> AddPhy(s[i])]
NFCalls(d, ps) == LET s == SetToSeq(ps) IN [i \in 1..Len(s) |-> AddNF(d, s[i])]

Parts(phys, nfs, eps, n) ==
    LET e == SetToSeq(eps)
    IN  PhyCalls(phys) \o NFCalls(dnumber, nfs)
            \o [i \in 1..Len(e) |-> AddGre(dnumber, e[i], gnumber + i - 1)]
            \o [i \in 1..n |-> AddLocal(dnumber, pnumber + 2 * (i - 1))]

\* The graph manager creates LSI-0 with the physical ports, and then the other LSIs.
CreateLsi(phys, nfs, eps, n) ==
    /\ pc = "idle" /\ dnumber <= MaxLSIs
    /\ IF dnumber = LSI0 THEN phys = PhyPorts /\ nfs = {} /\ eps = {} /\ n = 0 ELSE phys = {}
    /\ pc' = "bridge" /\ cur' = dnumber /\ todo' = Parts(phys, nfs, eps, n)
    /\ UNCHANGED <<counters, names, uuid, switch_uuid, linkMaps, database, made, got, view, faults>>

InsertBridge ==
    /\ pc = "bridge" /\ cur \notin bridges
    /\ bridges' = bridges \cup {cur} /\ switch_uuid' = switch_uuid \cup {cur}
    /\ pc' = "create"
    /\ UNCHANGED <<counters, names, uuid, linkMaps, ports, uuids, cur, todo, made, got, view, faults>>

\* The name of the bridge is taken, or the database does not answer.
InsertBridgeFails ==
    /\ pc = "bridge"
    /\ \/ cur \in bridges /\ UNCHANGED <<bridges, faults>>
       \/ \E f \in {"connect", "send", "refuse"} : Fault(f) /\ UNCHANGED bridges
       \/ cur \notin bridges /\ Fault("lose") /\ bridges' = bridges \cup {cur}
    /\ Throw
    /\ UNCHANGED <<counters, names, uuid, switch_uuid, linkMaps, ports, uuids>>

\* pnumber goes back to what it was, and grows again with the other ends.
LocalsMade ==
    /\ pc = "create" /\ todo = <<>>
    /\ pnumber' = pnumber - 2 * Len(made) /\ dnumber' = dnumber + 1
    /\ pc' = "connect"
    /\ todo' = [i \in 1..Len(made) |-> AddRemote(pnumber' + 2 * (i - 1))]
    /\ UNCHANGED <<rnumber, gnumber, names, uuid, switch_uuid, linkMaps, database, cur, made, got, view, faults>>

\* The connection of the second loop fails.
ReconnectFails ==
    /\ pc = "connect" /\ todo # <<>> /\ Fault("connect")
    /\ Throw
    /\ UNCHANGED <<counters, names, uuid, switch_uuid, linkMaps, database>>

Return ==
    /\ pc' = "idle" /\ todo' = <<>> /\ made' = <<>> /\ got' = {}
    /\ UNCHANGED cur

Created ==
    /\ pc = "connect" /\ todo = <<>>
    /\ view' = [d \in DOMAIN view \cup {cur} |->
                   IF d = cur THEN [ports |-> got, links |-> Range(made)] ELSE view[d]]
    /\ Return
    /\ UNCHANGED <<counters, names, uuid, switch_uuid, linkMaps, database, faults>>

-----------------------------------------------------------------------------
\* addNFPorts, addEndpoint, addVirtualLink

Tenants == DOMAIN view \ {LSI0}

\* The names, known to the graph manager, of the ports and tunnels of an LSI.
Keys(d) == {x[1] : x \in view[d].ports}

StartAdd(d, calls) ==
    /\ pc' = "add" /\ cur' = d /\ todo' = calls
    /\ UNCHANGED <<rnumber, dnumber, gnumber, names, uuid, switch_uuid, linkMaps, database, got, view, faults>>

AddNFPorts(d, ps) ==
    /\ pc = "idle" /\ ps # {}
    /\ \A p \in ps : NameOnSwitch(d, p) \notin Keys(d)
    /\ StartAdd(d, NFCalls(d, ps))
    /\ UNCHANGED <<pnumber, made>>

AddEndpoint(d, e) ==
    /\ pc = "idle" /\ <<"ep", d, e>> \notin Keys(d)
    /\ StartAdd(d, <<AddGre(d, e, gnumber)>>)
    /\ UNCHANGED <<pnumber, made>>

Added ==
    /\ pc = "add" /\ todo = <<>>
    /\ view' = [view EXCEPT ![cur].ports = @ \cup got]
    /\ Return
    /\ UNCHANGED <<counters, names, uuid, switch_uuid, linkMaps, database, faults>>

AddVirtualLink(d) ==
    /\ pc = "idle"
    /\ pnumber' = pnumber + 2
    /\ pc' = "link" /\ cur' = d /\ todo' = <<AddFirst(d, pnumber), AddSecond(pnumber)>>
    /\ UNCHANGED <<rnumber, dnumber, gnumber, names, uuid, switch_uuid, linkMaps, database, made, got, view, faults>>

\* Both ends are there: the names and the numbers are noted.
LinkAdded ==
    /\ pc = "link" /\ todo = <<>>
    /\ LET vrt == vport(pnumber - 2)
           trv == vport(pnumber - 1)
       IN  /\ SetLink(cur, rnumber - 2, rnumber - 1, vrt, trv)
           /\ names' = [names EXCEPT ![cur].vport = Append(@, vrt), ![LSI0].vport = Append(@, trv)]
    /\ view' = [view EXCEPT ![cur].links = @ \cup {<<rnumber - 2, rnumber - 1>>}]
    /\ Return
    /\ UNCHANGED <<counters, uuid, switch_uuid, database, faults>>

-----------------------------------------------------------------------------
\* destroyVirtualLink, destroyNFPorts, destroyEndpoint, destroyLsi.  A name is looked up
\* in its list; it and the uuid at the same place are erased, and the remaining uuids are
\* sent.  The answer is not looked at.

Place(ns, n) == CHOOSE i \in DOMAIN ns : ns[i] = n /\ \A j \in 1..(i - 1) : ns[j] # n

\* Mutant: the uuid after the right one.
EraseNext(us, i) == IF i + 1 \in DOMAIN us THEN RemoveAt(us, i + 1) ELSE us

\* The uuids without the one at a place; past the end, a uuid that is not in the list.
EraseAt(us, i) == IF i \in DOMAIN us THEN RemoveAt(us, i) ELSE us

\* To delete a port: the first name of a request needs a connection, and after the last
\* one the database is told.  (All the names of a network function are one request.)
Del(d, list, n, first, last) == [at |-> d, list |-> list, name |-> n, first |-> first, last |-> last]

Deleting == pc \in {"erase", "unlink", "destroy"} /\ todo # <<>>

CNames == names[c.at][c.list]
CUuids == uuid[c.at][c.list]

EraseName ==
    /\ names' = [names EXCEPT ![c.at][c.list] = SelectSeq(@, LAMBDA x : x # c.name)]
    /\ uuid' = IF c.name \in Range(CNames)
               THEN [uuid EXCEPT ![c.at][c.list] = EraseAt(@, Place(CNames, c.name))]
               ELSE uuid

\* The database takes the new set of ports, unless it has a uuid without a port.
Replace(d) ==
    ports' = IF Referable(d, uuid'[d]) THEN [ports EXCEPT ![d] = Replaced(d, uuid'[d])] ELSE ports

Delete ==
    /\ Deleting /\ EraseName
    /\ IF c.last THEN Replace(c.at) ELSE UNCHANGED ports
    /\ todo' = Tail(todo)
    /\ UNCHANGED <<counters, switch_uuid, linkMaps, bridges, uuids, pc, cur, made, got, view, faults>>

DeleteFails ==
    /\ Deleting
    /\ \/ c.first /\ Fault("connect") /\ UNCHANGED <<names, uuid, ports>>
       \/ c.last /\ Fault("send") /\ EraseName /\ UNCHANGED ports
       \/ c.last /\ Fault("lose") /\ EraseName /\ Replace(c.at)
    /\ Throw
    /\ UNCHANGED <<counters, switch_uuid, linkMaps, bridges, uuids>>

\* The place of a name has no uuid: reading past the end of the list may end the process.
PastEnd ==
    /\ Deleting /\ c.name \in Range(CNames) /\ Place(CNames, c.name) > Len(CUuids)
    /\ pc' = "aborted" /\ todo' = <<>> /\ made' = <<>> /\ got' = {}
    /\ UNCHANGED <<counters, names, uuid, switch_uuid, linkMaps, database, cur, view, faults>>

DestroyPorts(d, list, keys) ==
    LET s == SetToSeq(keys)
    IN  /\ pc = "idle" /\ keys # {} /\ keys \subseteq Keys(d)
        /\ pc' = "erase" /\ cur' = d /\ got' = keys
        /\ todo' = [i \in DOMAIN s |-> Del(d, list, s[i], i = 1, i = Len(s))]
        /\ UNCHANGED <<counters, names, uuid, switch_uuid, linkMaps, database, made, view, faults>>

DestroyNFPorts(d, ps) == DestroyPorts(d, "port", {NameOnSwitch(d, p) : p \in ps})

DestroyEndpoint(d, e) == DestroyPorts(d, "gport", {<<"ep", d, e>>})

PortsDestroyed ==
    /\ pc = "erase" /\ todo = <<>>
    /\ view' = [view EXCEPT ![cur].ports = {x \in @ : x[1] \notin got}]
    /\ Return
    /\ UNCHANGED <<counters, names, uuid, switch_uuid, linkMaps, database, faults>>

DelEnd(d, i) == Del(d, "vport", port_id[i], TRUE, TRUE)

DestroyVirtualLink(d, link) ==
    /\ pc = "idle"
    /\ pc' = "unlink" /\ cur' = d /\ made' = <<link>>
    /\ todo' = <<DelEnd(d, link[1]), DelEnd(LSI0, link[2])>>
    /\ UNCHANGED <<counters, names, uuid, switch_uuid, linkMaps, database, got, view, faults>>

\* Both ends of each link of an LSI.
AllEnds(d) ==
    LET ids == virtual_link_id[d]
        End(k) == IF k % 2 = 1 THEN ids[(k + 1) \div 2] ELSE vl_Remote[ids[k \div 2]]
    IN  [k \in 1 .. 2 * Len(ids) |-> DelEnd(vl_PortIDtoSwitchID[End(k)], End(k))]

DestroyLsi(d) ==
    /\ pc = "idle"
    /\ pc' = "destroy" /\ cur' = d /\ todo' = AllEnds(d)
    /\ UNCHANGED <<counters, names, uuid, switch_uuid, linkMaps, database, made, got, view, faults>>

\* A list without a number, which is in it once: rnumber grows with every link.
Without(ids, i) == IF i \in Range(ids) THEN RemoveAt(ids, Place(ids, i)) ELSE ids

\* Both ends of the link are gone, and its numbers are forgotten.
Unlinked ==
    /\ pc = "unlink" /\ todo = <<>>
    /\ LET i == made[1][1]
           j == made[1][2]
       IN  /\ vl_PortIDtoSwitchID' = Restrict(vl_PortIDtoSwitchID, DOMAIN vl_PortIDtoSwitchID \ {i, j})
           /\ virtual_link_id' = [virtual_link_id EXCEPT ![cur] = Without(@, i)]
    /\ view' = [view EXCEPT ![cur].links = @ \ {made[1]}]
    /\ Return
    /\ UNCHANGED <<counters, names, uuid, switch_uuid, port_id, vl_Remote, database, faults>>

\* The lists of the LSI are erased, but for those of the tunnels, and then the LSI.
Forget ==
    /\ names' = [names EXCEPT ![cur] = [Empty EXCEPT !.gport = names[cur].gport]]
    /\ uuid' = [uuid EXCEPT ![cur] = [Empty EXCEPT !.gport = uuid[cur].gport]]
    /\ virtual_link_id' = [virtual_link_id EXCEPT ![cur] = <<>>]
    /\ UNCHANGED <<port_id, vl_PortIDtoSwitchID, vl_Remote>>

SetBridges ==
    /\ bridges' = bridges \cap switch_uuid'
    /\ ports' = [d \in Dpids |-> IF d \in bridges' THEN ports[d] ELSE {}]

Destroyed ==
    /\ pc = "destroy" /\ todo = <<>>
    /\ Forget /\ switch_uuid' = switch_uuid \ {cur} /\ SetBridges
    /\ view' = Restrict(view, DOMAIN view \ {cur})
    /\ Return
    /\ UNCHANGED <<counters, uuids, faults>>

DestroyedFails ==
    /\ pc = "destroy" /\ todo = <<>>
    /\ Forget
    /\ \/ Fault("connect") /\ UNCHANGED <<switch_uuid, bridges, ports>>
       \/ Fault("send") /\ switch_uuid' = switch_uuid \ {cur} /\ UNCHANGED <<bridges, ports>>
       \/ Fault("lose") /\ switch_uuid' = switch_uuid \ {cur} /\ SetBridges
    /\ Throw
    /\ UNCHANGED <<counters, uuids>>

-----------------------------------------------------------------------------

Requests ==
    \/ \E phys \in SUBSET PhyPorts, nfs \in SUBSET NFs, eps \in SUBSET Endpoints, n \in 0..MaxLinks :
        CreateLsi(phys, UNION nfs, eps, n)
    \/ \E d \in Tenants :
        \/ \E nf \in NFs : AddNFPorts(d, nf) \/ DestroyNFPorts(d, nf)
        \/ \E e \in Endpoints : AddEndpoint(d, e) \/ DestroyEndpoint(d, e)
        \/ AddVirtualLink(d)
        \/ \E link \in view[d].links : DestroyVirtualLink(d, link)
        \/ DestroyLsi(d)

Calls == Answered \/ Refused \/ SendFails \/ ConnectFails \/ AnswerLost

Next ==
    \/ Requests \/ Calls
    \/ InsertBridge \/ InsertBridgeFails \/ LocalsMade \/ ReconnectFails \/ Created
    \/ Added \/ LinkAdded
    \/ Delete \/ DeleteFails \/ PastEnd
    \/ PortsDestroyed \/ Unlinked \/ Destroyed \/ DestroyedFails

Spec == Init /\ [][Next]_vars

-----------------------------------------------------------------------------
\* Numbers, names and lists have their types.
TypeOK ==
    /\ dnumber \in Dpids /\ rnumber \in 1..(MaxPorts + 1) /\ pnumber \in Nat /\ gnumber \in Nat
    /\ switch_uuid \subseteq Dpids /\ bridges \subseteq Dpids
    /\ \A d \in Dpids : Known(uuid[d]) \subseteq 1..(uuids - 1)
    /\ \A d \in Dpids : \A x \in ports[d] : x.of \in 1..MaxPorts /\ x.uuid < uuids
    /\ DOMAIN view \subseteq Dpids

\* The ports of one LSI have different OpenFlow numbers, whatever fails (rnumber is
\* incremented by an answered call only, so that a port made by a call whose answer was
\* lost has a number that is used again).
NumbersUnique == \A d \in Dpids : \A x, y \in ports[d] : x.of = y.of => x = y

\* Until something fails, the graph manager and the switch agree between requests: an
\* LSI has exactly the ports, tunnels and ends of links that were returned, each with the
\* number that was returned, and the two ends of a link name each other.
Ports0 == UNION {{l[2] : l \in view[d].links} : d \in Tenants}

SwitchAsTold ==
    pc = "idle" /\ faults = <<>> =>
        /\ bridges = DOMAIN view
        /\ \A d \in DOMAIN view :
            /\ {x.of : x \in ports[d]} =
                   {p[2] : p \in view[d].ports} \cup {l[1] : l \in view[d].links}
                       \cup IF d = LSI0 THEN Ports0 ELSE {}
            /\ \A p \in view[d].ports : \E x \in ports[d] :
                   x.of = p[2] /\ (p[1][1] = "ep" => x.name[1] = "gre") /\ (p[1][1] # "ep" => x.name = p[1])
            /\ \A l \in view[d].links : \E x \in ports[d], y \in ports[LSI0] :
                   x.of = l[1] /\ y.of = l[2] /\ x.peer = y.name /\ y.peer = x.name

\* The physical ports stay on LSI-0 with their numbers, whatever fails: every link that
\* is added or removed replaces the set of the ports of LSI-0.
PhysicalKept ==
    LSI0 \in DOMAIN view =>
        \A p \in view[LSI0].ports : \E x \in ports[LSI0] : x.name = p[1] /\ x.of = p[2]

\* The two ends of a link are in place.
Linked(d, l) == (\E x \in ports[d] : x.of = l[1]) /\ \E y \in ports[LSI0] : y.of = l[2]

\* A request for one LSI leaves the links of the others in place, whatever was refused.
\* (After a message was not sent or not answered it may not: when this is the message for
\* the second end of a new link, vport_l has the name of a port that vport_uuid lacks.)
OthersLinked ==
    [][Range(faults') \subseteq {"connect", "refuse"} =>
        \A d \in Tenants \ {cur'} : \A l \in view[d].links : Linked(d, l) => Linked(d, l)']_vars
=============================================================================
