# Universal Node orchestrator: TLA+ models and proofs

The Universal Node orchestrator (`src/orchestrator`) deploys network functions
forwarding graphs (NF-FGs) on one node. A request on the REST interface creates,
updates or deletes an NF-FG; the orchestrator starts its network functions and
programs switches (logical switch instances, LSIs) with OpenFlow rules.

## The system

| Part | Source | Role |
|---|---|---|
| REST server | `node_resource_manager/rest_server` | one thread serves the requests, so the graph manager sees them one at a time |
| security manager, SQLite manager | `security_manager`, `database_manager` | users, tokens, permissions, persisted resources |
| graph parser, match parser | `graph/graph-parser` | JSON to high-level graph |
| high-level graph | `graph/high_level_graph` | the NF-FG: rules, network functions, endpoints; difference of two graphs |
| graph manager | `graph_manager/graph_manager.cc` | creates, updates and deletes NF-FGs; virtual links between LSIs |
| graph translator | `graph_manager/graph_translator.cc` | lowers a high-level graph to rules of LSI-0 and of the tenant LSI |
| low-level graph | `graph/low_level_graph` | the list of lowered rules a controller keeps |
| OpenFlow controller | `network_controller/openflow_controller` | one per LSI; turns its list into the flow table of the switch |
| switch managers | `network_controller/switch_manager` | create and destroy LSIs, ports and links (OVSDB, xDPd, ERFS) |
| compute controller | `compute_controller` | chooses implementations of network functions, starts and stops them |
| publish/subscribe, monitoring | `pub_sub`, `monitoring_controller` | messages to other components |
| name resolver, virtualizer, db initializer | `name-resolver`, `virtualizer`, `db_initializer` | separate programs |

There is one LSI-0 per node, with the physical ports, shared by all NF-FGs. Each
NF-FG has a tenant LSI, joined to LSI-0 by virtual links. A group of internal
endpoints has an LSI of its own, which the NF-FGs that use the group share.

Threads: the REST thread (all graph-manager calls), one I/O thread per
controller (connection callbacks), short-lived threads that start network
functions and are joined, the thread of the message broker, and the signal
handler of the main thread.

## Modules

| Module | Models |
|---|---|
| `ListOps` | the operators on lists that the other modules share |
| `LowLevelGraph` | `lowlevel::Graph` and `lowlevel::Rule` as operators on lists; the flow table of a switch |
| `OpenFlowController` | `Controller`: its two threads, its mutex, its switch |
| `FlowTable` | what a controller promises: the abstract specification that `OpenFlowController` implements |
| `GraphTranslator` | both lowerings, as operators on rules; forwarding by two LSIs |
| `GraphManager` | `newGraph`, `updateGraph`, `deleteGraph` of one NF-FG, with its virtual links |
| `InternalEndpoints` | the part of `newGraph` and `deleteGraph` about internal endpoints, for several NF-FGs |
| `ComputeController` | the compute controller of one NF-FG, its start threads, and the requests of the graph manager that use it |
| `OvsdbManager` | the OVSDB switch manager, the OVSDB server, and the calls of the graph manager for several NF-FGs |
| `RestServer` | the REST server with the database, and the life of the process |
| `PubSub` | the publish/subscribe client: the broker's thread and the threads that publish |
| `MCOpenFlowController`, `MCGraphManager`, `MCInternalEndpoints`, `MCComputeController`, `MCRestServer` | small instances for TLC |
| `ListOpsProofs` | lemmas about lists and about loops over them |
| `FlowTableProofs` | theorems about `OpenFlowController`, its refinement of `FlowTable` among them |
| `GraphTranslatorProofs` | lemmas: what the loops over rules and the lowering compute, for lists of any length |
| `GraphManagerProofs` | theorems about `GraphManager` |
| `InternalEndpointsProofs`, `ComputeControllerProofs`, `OvsdbManagerProofs` | theorems about the module of that name |
| `ServiceProofs` | theorems about `RestServer` and `PubSub`, which share no variable |

The modules meet where the parts do. `OpenFlowController` is a composition of
`LowLevelGraph` with the two threads, and `FlowTable` is what the graph manager may
rely on. `GraphManager` uses `GraphTranslator` and `LowLevelGraph` and takes the
compute controller and the switch manager as calls that succeed or fail.
`ComputeController` and `OvsdbManager` model those calls, and drive them with the same
requests. `ListOps` has a few operators of `SequencesExt` in the form the proofs need; all
modules whose proofs are about lists extend it. `ServiceProofs` extends two specifications,
so those of `PubSub` are called `BusInit`, `BusNext` and `BusSpec`.

### LowLevelGraph

A rule is a record `[id, match, out, extra]`. `match` stands for all the match
fields and the priority. `Rule::operator==` compares priority, match and action,
and `Action::operator==` compares only the output port: the generic actions
(`extra`: push or pop a VLAN tag) are sent in the flow-mod but not compared. So
`SameFlow`, the code's equality, is coarser than equality of table entries
(`FlowOf`). This difference is kept because it matters (see *Other disagreements*).
`Match::isEqual` compares the VLAN of a match only if `isVlanID` is set. That
loses nothing: `setAllCommonFields` turns the VLAN of an endpoint into a plain
one when a rule is lowered.

Two details of `low_level_match.cc` lie below this abstraction. Line 153 sends the
flag `isIcmpv6Code` in place of the code, and line 168 parses a GRE key as
hexadecimal first. Two matches that differ only there are different values in the
model and may be one entry in a switch.

### OpenFlowController

`graph`, `isOpen` and the lock are the fields of `Controller`; `dpt` is NULL
exactly when `isOpen` is false. `mutex`, `pc`, `command`, `rules` and `batch`
say which thread holds the lock, which loop it is in and what is left of it.
`up`, `opening` and `table` are the connection and the switch. `wanted` is a
history variable: the rules the graph manager has installed and not removed.

Each call is one action up to the loop that sends flow-mods, and one step per
flow-mod from there on, because `handle_dpt_close`, which takes no lock, can run
between two of them. `isOpen` is tested once, before the loop; `dpt` is read
again at each iteration. A flow-mod on a broken connection is lost. A switch that
loses its connection keeps its table or, if it restarts, loses it.
`handle_dpt_open` may run after the connection it announces has broken again. A
switch is assumed to reconnect only after the close of its old connection was
reported.

A tenant LSI is destroyed as a whole, so its controller never sees `removeRules`
(`TenantSpec`); LSI-0 sees every call (`Spec`).

`FlowTable` has three variables: the flows asked for, the table, and a state (down,
syncing, ready). Each step of a connected switch brings a flow that is missing or takes
one away that is not asked for, so what is asked for before and after a change is never
interrupted; the switch is ready only with exactly the flows asked for. `State` and
`Table` in `OpenFlowController` are the refinement mapping, `ImplementsTable` the
implementation.

### GraphTranslator

A high-level rule is `[id, from, cls, to, tag]`: where traffic comes from, what its
match tells apart, where it goes, and whether a generic action is applied. `Below`
are the nodes of LSI-0 (ports, internal endpoints), `Above` those of the tenant LSI
(network functions, tunnels). There is one operator per case of the two loops, and
`AssertsLSI0`, `AssertsTenant` and `KnownNFs` say when an iteration fails an
assertion or throws. `Forward` follows a packet through the two lists of rules and
`Wanted` says where the high-level rules send it; neither uses the lowering, so
`Realises` compares it with an independent definition.

A network function has one port, all rules one priority. A port can always be found
in LSI-0.

### GraphManager

`rules` and `nodes` are the high-level graph; `lsi` is the tenant LSI with its links,
the associations in both directions and the ports it has; `lsi0` and `tenant` are
the lists of the two controllers. `updateGraph` is a sequence of steps (`pc`), one
per call that can fail; `Failures` says which may. An exception ends the request and
leaves what was done (`Fail`), a failed assertion ends the process (`Abort`). Use of
the deleted compute controller is undefined: it ends the process or does nothing.

The network functions, ports and tunnels of a request are those its rules mention.
The identifier of a network function differs from its name. Internal endpoints of
the NF-FG do not change in an update (the code asserts so). A request that
`checkGraphValidity` rejects changes nothing and is left out, and so is a `newGraph`
that fails before its rules are installed. It undoes its work but for the internal
endpoints if it catches the exception. It does not catch that of a link of an internal
endpoint or of the lowering: then the LSI and the functions stay too, and belong to no
NF-FG (`AddInternalLinkFails` and `LoweringFails` in InternalEndpoints, `RulesEscape` in
ComputeController). After `startNF` failed in an update (`alive` is false) no request follows:
what the switch does then is not known from this code.

### InternalEndpoints

The state is `timesUsedEndPointsInternal`, `internalLSIsCreated`, the links of the
internal LSIs and `internalLSIsConnections`. A request visits its internal endpoints
one by one, and each call of the switch manager may fail, and so may the lowering of the
rules after the last one.

### ComputeController

`entry` is the map `nfs` (an identifier is absent, has no implementation yet, or has
one of a kind), `descriptions` and `supported` the candidates of each network
function, `started` the functions a driver runs. `graph`, `deployed` and `ports` are
what the graph manager and the LSI know of the NF-FG. A request is a sequence of steps:
retrieve the descriptions, select implementations, create or change the LSI, start the
threads, join them, stop what left the graph; and each call to the resolver, a driver
or the switch may fail. After the functions of a new NF-FG were started, `newGraph` has two
more steps: a failure it catches makes it stop them again (`RulesFail`); an exception that
only the REST server catches ends it with the functions running and no pointer to their
controller (`RulesEscape`). Those are then in `lost` and no longer in `started`: their
names in the drivers contain the number of an LSI that no later request uses, so
nothing stops them. `lost` is what the last `newGraph` left. A thread per function takes its cores under
`nfs_manager_mutex`, one round of `calculateCoreMask` per step, then starts it.
The constructor of `Native` throws the first time it cannot read the file of
capabilities (`capabilities`). After freed memory was used (`pc = "undefined"`) nothing
more is said.

### OvsdbManager

`ports` is the database of the OVSDB server (the ports of every bridge, with their
names, numbers and peers); the lists and counters are the global maps of
`commands.cc`; `view` is what the graph manager was told. A transaction replaces the set
of ports of its bridge by the list of identifiers the manager keeps, so an entry that
is missing from the list is a port that is removed. Each call may fail in four ways:
no connection (`connect`), a message that cannot be sent (`send`), a transaction that
is refused (`refuse`), one that is done but whose answer does not arrive (`lose`).
`faults` is a history of the failures, bounded by `MaxFaults`.

### RestServer

The variables are the tables of the database, which survive the process, and the graphs
of the graph manager, which do not. Every SQL statement is a transaction. `createUser`
and `deleteUser` write several lasting tables, so they are steps, and the process may
end between two of them; what the handlers of graphs write is cleaned by the next start,
so they are atomic. Whether a password or a permission is right is left open, except
the table of creation permissions; a token stands for the user it was given to. A
request that is refused changes nothing and is no action. A failed assertion and a
NULL pointer end the process (`Crash`).

### PubSub

`loop` and `m` are where the client's thread is, `messages` what was stored before the
registration, `caller` where each publishing thread is. `publish` asserts that there is
a client, tests `connected` with the lock and stores the message or, without the lock,
sends it: three steps, between which those of the other threads may come. `terminate`
comes when no thread is in `publish` and one has returned from it: the handler of SIGINT
calls it, which `main` installs after it has published. In this tree only the main
thread publishes; the module is for any number of threads.

## Runs

| Run | States | Shows |
|---|---|---|
| `controller_tenant` | 8,596 | `ImplementsTable`: the controller implements `FlowTable`; `EventuallyInstalled`: an installed rule reaches a connected switch |
| `controller_lsi0` | 16,062 | two NF-FGs with different traffic: the lock is held exactly while a call runs (`TypeOK`), an idle, connected switch has exactly the flows of the installed rules (`TableInSync`), deleting one NF-FG leaves the other's rules (`OthersKept`), `Graph::removeRule` finds its rule (`RemovalFindsRule`) |
| `controller_shared` | 1,055,898 | rules that share a flow or compete for a match: no entry outlives its rule (`NoStaleFlow`); `FlowsJustified` is its inductive form |
| `internal` | 1,102,017 | three NF-FGs and two groups, any call and the lowering may fail: nobody is disconnected by another's deletion (`StillConnected`), the assertions of `deleteGraph` hold unless a link without ports was left (`AssertsHold`), the use counts are exact until a failure and never too small (`CountsGraphs`) |
| `graph_functions` | 280,281 | ports and network functions, no failure: the switches do what the request says (`UpdateDone`), an update does not interrupt what it keeps (`KeptTraffic`), no link is missing or left over (`LinksExact`), no assertion fails (`AssertsHold`) |
| `graph_kinds` | 271,426 | the same with a node of each kind |
| `graph_faults` | 296,704 | any call may fail: `RulesOnLiveLinks`, `NotShared`, `NoStray` (nothing is forwarded that the description does not contain), `ListCovers` (the graph manager's list of LSI-0 has every rule of the controller) |
| `graph_retry` | | violated: a failed update, sent again, succeeds without effect |
| `rest_server` | 159,502 | whatever statement the process ends at: users that are listed exist (`ListedUsersExist`), members have a group (`MembersHaveGroups`), rows and graphs agree but for graphs lost in a failed deletion (`RowsExact`), a resource changes hands only by being deleted (`OwnersKept`) |
| `pubsub` | 2,556 | a stored message is sent by the registration (`StoredSent`), none more than once per registration (`SentOnce`), the list does not change while it is sent (`ListFixed`), a message published by a connected client is sent (`Delivered`) |
| `compute` | 402,075 | network functions are started only with an implementation (`Implemented`), get the cores they asked for (`MaskComplete`) and, if there are enough for all that the request starts, not those of another (`CoresApart`), none runs without being known, but for those an uncaught exception of `newGraph` leaves (`NoOrphan`), an update leaves the others running (`OthersRun`), every request ends (`RequestsEnd`) |
| `ovsdb` | 2,259,434 | any call may fail: no two ports of a switch have one number (`NumbersUnique`), without failures the switch is as the graph manager was told (`SwitchAsTold`), LSI-0 keeps its physical ports (`PhysicalKept`), a request leaves the links of other LSIs in place unless a message was not sent or not answered (`OthersLinked`) |

Bounds of the controller runs: two NF-FGs, two or three rules each, two flows, batches of
at most two rules, lists of at most four. Two rules are enough to share a flow or a
match, a batch of two to be interrupted in the middle, and two NF-FGs to disturb each
other.

Bounds of the graph runs: graphs of at most three rules (two in `graph_faults`) of
which no two compete for a packet, and as many links as an update can hold at once
(three or four). Three rules are enough for a link shared in both directions to lose
either user while a third rule still needs the node. In `graph_faults` only a network
function sends to the port; tunnels that do are in `graph_kinds`, without failures. Links
are interchangeable, so they are a symmetry set, and so are the ports of `internal`
(five, and at most two links per internal LSI). Histories are unbounded.

Bounds of the others. `rest_server`: the administrator and one user, two groups, two
graphs of which one is a boot graph; histories are unbounded. `pubsub`: three publishing
threads and three registrations, so that a list of several messages is walked through more
than once. `compute`: two network functions, one with a choice of implementations, that
together need all of the three cores, so that the position wraps around between
requests. `ovsdb`: one physical port, a function with a port of each
type, a tunnel, three LSIs, six ports, two links per LSI, one failure of any kind; one
failure is enough to leave the lists and the database different, and two tenant LSIs to
let the next request of one meet the ports of the other.

Deadlock is checked in `graph_functions`, `graph_kinds` and `rest_server`. In the others
the process may end (a failed assertion, a NULL pointer, `terminate`) or a bound on
ports that are never reused may be reached.

Fairness. `FairTenantSpec`: weak fairness of the loop of the lock holder, which
waits for nothing, and of the two callbacks, which the I/O thread runs when their
event is due; nothing is assumed of the graph manager or of the network. `PubSub`:
weak fairness of the handling of an event by the client's thread and of the test and
send of a publishing thread; whether the bus answers is left open. `ComputeController`:
weak fairness of the steps of a request and of each start thread, that is, the threads
are scheduled and every call to the resolver or a driver returns, with success or not.

### Other disagreements

The same models show these too; each was found by TLC with the configuration of the run
named here, the changes of constants named here, and the property as its only one. The
property is defined in the run's module. The passing runs either leave out the requests
that lead to them or check a weaker property.

| Run and changes | Violated | What the code does |
|---|---|---|
| `controller_tenant` | `SendsToOpenDatapath` | `handle_dpt_close` sets `dpt` to NULL without the mutex (`controller.cc:54`), although "all the operations in the controller are serialized with this mutex" (`controller.h:49-50`) |
| `controller_shared` with `Flows <- VlanFlows` | `NoStaleFlow` | rules that differ in VLAN actions only are taken for identical (`output_action.cc:26`), although the operator compares "the same match and the same action" (`rule.cc:11-13`) |
| `controller_shared` | `GraphInstantiated` | `removeRules` deletes a flow that an equal rule of another NF-FG still needs (`controller.cc:106`) |
| `controller_shared` | `RemovalFindsRule` | `removeRule` erases the first equal rule, whoever owns it; later its assert fails (`graph.cc:71`) |
| `internal` with `Failures = {"destroyLsi"}` | `DeletionFindsRules` | a second deletion removes the rules again (`graph_manager.cc:336`) |
| `internal` with `Graphs = {g1, g2}`, `Groups = {i1}`, `EndpointsOf <- MCTwice`, `Failures = {}` | `AssertsHold` | two endpoints of one group in one NF-FG share one connection (`graph_manager.cc:435`) |
| `graph_faults` with `Failures = {"addVirtualLink"}` | `AssertsHold` | deleting an NF-FG after a failed update lowers rules that have no link (`graph_translator.cc:214`) |
| `graph_faults` with `Failures = {"addPorts"}` | `AssertsHold` | the same for rules that have a link and were never installed: `Graph::removeRule` does not find them (`graph.cc:71`) |
| `graph_faults` with `Failures = {"selectImplementation"}` | `AssertsHold` | the next request uses the deleted compute controller (`graph_manager.cc:1575`) |
| `graph_functions` with `Requests <- MCSameID` | `UpdateDone` | a changed rule that keeps its identifier is ignored (`high_level_rule.cc:13`), although one has "just to send the new version of the graph" (`README_RESTAPI.md:72`) |
| `graph_functions` with `Requests <- MCSamePort` | `AssertsHold` | a rule moved to another port under its old identifier (`high_level_graph.cc:797`) |
| `graph_faults` with `Requests <- MCTunnels`, `Gres = {t1, t2}`, `Failures = {}` | `AssertsHold` | a rule between two tunnels (`graph_translator.cc:643`) |
| `graph_faults` with `Requests <- MCTagged`, `NFs = {}`, `Failures = {}` | `UpdateDone` | generic actions from a tunnel to a port are applied in both LSIs (`graph_translator.cc:288`, `745`) |
| `rest_server` | `ListedGraphsExist` | a deletion that fails late leaves the row of a graph that is gone (`rest_server.cc:1165`); reading it reaches an assert (`graph_manager.cc:287`) |
| `rest_server` | `LoginsHaveUsers` | the second statement of the string given to `sqlite3_prepare_v2` is not executed (`SQLiteManager.cc:474`): the row of `LOGIN` stays |
| `pubsub` | `ClientExists` | the thread sets `client` when it starts; `publish` before that fails its assert (`pub_sub.cc:140`) |
| `compute` | `HasImplementation` | a rejected update leaves an entry without an implementation, which `printInfo` and `stopNF` use without a test (`compute_controller.cc:670`) |
| `compute` | `NothingLost` | `newGraph` has a handler that stops the functions after each step, but for the wrong exception: `addVirtualLink` throws a `SwitchManagerException` (`graph_manager.cc:1365`) where a `GraphManagerException` is caught (`1046`), and the lowering a `GraphManagerException` (`1072`, `1081`) where a `SwitchManagerException` is caught (`1103`), so the functions run on |
| `ovsdb` with `OthersLinked` without its premise, `NFs = {{1}}`, `Veth = {}`, `Endpoints = {}`, `Faults = {"send"}`, `MaxLSIs = 4`, `MaxPorts = 7`, `MaxLinks = 1` | `OthersLinked` | `createLsi` puts the name of the far end into `vport_l` of LSI-0 (`commands.cc:606`) before the call that fails; names and identifiers are then not aligned, and a later `destroyVirtualLink` removes the end of another LSI's link (`commands.cc:2353`) |
| the same with `NFs = {}`, `PhyPorts = {}`, `Faults = {"lose"}`, `MaxPorts = 8` | `OthersLinked` | the same after an answer that does not arrive |

The models also show these, for which the code states no expectation. A `createLsi` that
fails before the bridge is counted (`commands.cc:559`) leaves a bridge with the name the
next one takes, so every later `createLsi` is refused. After a refused transaction the
identifier that was never stored stays in the list, so every later change of that LSI
is refused. An update that takes a port away from a network function stops the function.
`compute_controller.h` gives an order of the kinds of implementations, while the
selection takes the first supported one in the order of the resolver's answer.
`stopAll` erases entries of the map under its own iterator.

## Proofs

The proofs hold for every value of the constants, any number of NF-FGs, rules, users,
graphs, threads, network functions, cores or ports, under the assumptions on constants
named in the modules, which TLC evaluates in every run.

| Theorem | States | Argument |
|---|---|---|
| `FlowTableProofs!TypeCorrect` | `Spec => []TypeOK` | inductive as it stands |
| `FlowsAlwaysJustified`, `NoStaleFlowHolds` (same module) | `PlainFlows => (Spec => []FlowsJustified)`, and `NoStaleFlow` | see below |
| `TableImplemented`, `LSI0Implemented` (same module) | `OneFlowPerMatch => (TenantSpec => ImplementsTable)`; with `SeparateFlows` also for `Spec` | every step maps to a step or a stutter of `FlowTable`, with an invariant (`Progress`) that says what the rest of the running loop will bring |
| `ListMirrors`, `RemovalAlwaysFindsRule`, `OthersAlwaysKept` (same module) | `SeparateFlows => (Spec => ...)`: the list has the installed rules, `RemovalFindsRule`, `OthersKept` | see below |
| `TableAlwaysInSync`, `TenantAlwaysInSync` (same module) | `TableInSync` for LSI-0 and for a tenant LSI, under the conditions of the refinement | from `Progress` |
| `InternalEndpointsProofs`: `AlwaysConnected`, `AssertsAlwaysHold`, `AlwaysCountsGraphs` | `EndpointsApart => (Spec => []...)`: the properties of `internal` | see below |
| `ServiceProofs`: `ListedUsersAlwaysExist`, `MembersAlwaysHaveGroups`, `RowsAlwaysExact`, `OwnersAlwaysKept` | the properties of `rest_server` | the invariant adds what holds between two statements: the new user is not yet listed, the deleted one no longer |
| `ServiceProofs`: `StoredAlwaysSent`, `AlwaysSentOnce`, `ListAlwaysFixed` | `BusSpec =>` the safety properties of `pubsub` | the invariant says which of the stored messages the walk has sent, and that nobody stores while `connected` |
| `ComputeControllerProofs`: `AlwaysImplemented`, `NeverOrphan`, `OthersAlwaysRun` | three properties of `compute` | `IInv`: types, the request in progress, the supported flags, the entries, the threads, and what is kept; in `NeverOrphan` what is lost (`RulesEscape`) is no longer in `started`, and the proof shows that `RulesEscape` leaves nothing else behind |
| `MaskAlwaysComplete`, `CoresAlwaysApart` (same module) | `Spec => []MaskComplete`, `Spec => []CoresApart` | see below |
| `OvsdbManagerProofs`: `NumbersAlwaysUnique`, `PhysicalAlwaysKept` | `Spec => []NumbersUnique`, `Spec => []PhysicalKept` | see below |
| `GraphManagerProofs`: `LinksNotShared`, `ListAlwaysCovers`, `InstalledRulesOnLiveLinks` | `Spec => []NotShared`, `Spec => []ListCovers`, `Spec => []RulesOnLiveLinks` | see below |
| `NothingStrays` (same module) | `TagsOnce => (Spec => []NoStray)` | see below |

`NoStaleFlow` speaks of an idle controller and is not inductive. `FlowsJustified`
strengthens it to the middle of a call: an entry has a rule in the list, or the
running call is still going to delete it; and what the call is going to add is in
the list. The lemmas `ListedAfterAdd`, `ListedAfterID` and `ListedAfterErase` say
what each operation of the list does to the set of listed flows; `JustifiedStep`
has one step per action. `PlainFlows` says that no two flows differ in their generic
actions only; without it the claim is false of the code, as `VlanFlows` shows.

`NumbersUnique` is not inductive either. `rnumber` grows only when an answer arrives, so
a port whose answer was lost has the number that is used next. `Numbered` says that no
port has a larger number, and that only a port whose identifier the manager has not
learnt has that one; the next call for its LSI replaces the set of ports by those that
are known, and so takes it away when the number is given again.

`PhysicalKept` needs `PInv`. While LSI-0 is being created (`Booting`) only physical ports
are added, and each one answered is in the database with its identifier in `port_uuid`;
an exception then ends the process. Afterwards (`Booted`) no request is for LSI-0, and
what a request deletes from it is an end of a link (`SparesPhys`), so that list never loses
an identifier, and every transaction sends all of it. The ports of a network function and
the physical ports are assumed to be finitely many (`FinitePorts`).

`removeRules` on LSI-0 calls `Graph::removeRule` for each rule of the NF-FG, and that erases
the first rule with an equal flow, which may be another one. So in the middle of the loop
the rules left in the list are not those left to visit. `Unlisting` says that there is a
bijection between them that keeps the flow: then the rule that is looked for is found, and
after the loop none is left. `SeparateFlows` says that rules of different NF-FGs have
different flows; without it the first equal rule may be another NF-FG's, and both
`RemovalFindsRule` and the refinement fail (see *Other disagreements*, `controller_shared`).

For the internal endpoints, `IInv` relates the four maps of a group in the middle of a
request: `Joined` are the NF-FGs that use the group, with the one that the request is
attaching or detaching as long as it holds its link. Their saved ports are different links
of the LSI (`PortsApart`), each has its rule (`Connected`), and the use count is at least
their number, equal to it until a failure, and equal to the length of the list of links
while no link without ports is in it (`Counted`). `EndpointsApart` says that no NF-FG has
two endpoints in one group; the code fails an assert otherwise (`MCTwice` above). The set of NF-FGs is
finite.

For the cores, `CInv` looks back from the position. `Behind(k)` are the cores it passed in
its last `k` moves. A thread in the loop of `calculateCoreMask` owns the lock, so its mask is
what the position passed in the thread's own rounds (`Rounds`), which gives `MaskComplete`.
`Passed` are all the moves of the request, as pairs of a function and a round. While there
are no more of them than cores, every mask lies in what was passed (`Trail`) and no two
masks meet (`Apart`); the condition of `CoresApart` is that the request needs no more. It
speaks of the time when functions are started, not when they are stopped again: with needs
1, 2 and 1 on three cores two functions share a core, and after the third is stopped what
is left of the needs would fit.

For the graph manager, `GInv` holds in the middle of every update and after every failure.
`Justified` and `JustifiedTenant` say that each rule on a switch is what the lowering makes,
with the links of now, of a rule of the description whose link exists (on the tenant LSI,
perhaps with the ports of an earlier moment). So a rule on a switch
never outlives its link or its high-level rule. That is kept because an update first extends
the description, then adds links, then takes the old rules away and only then removes the
links nobody uses, and installs the new rules last. `Adding` says that the rules an update adds are in the description and their
identifiers are not on the switches yet; without it `Graph::addRules` could add a second rule
with an identifier, and the removal by identifier would leave one behind. `Identified` says
that identifiers are unique in each list, `Wired` that each direction of the tenant LSI has
its own link for each node. The lemmas of `GraphTranslatorProofs` say what one call does to
the lists: `RemovesIDs`, `Prunes`, `Translates`, `Joins`, `LowersOne`. `NoStray` then follows
from the shape of the lowered rules: a packet that goes over a link was sent there by the
lowering of a rule to the one node that owns the link, and the other switch sends it to that
node. `TagsOnce` says that no rule from a tunnel to a port has a generic action; without it
the claim is false of the code, as `MCTagged` shows. The assumptions on constants are that the
kinds of nodes are different sets (`KindsAreApart`), links are not nodes (`LinksAreApart`),
and the rules of a request are between nodes and have an identifier of their own
(`RequestsAreGraphs`).

The library's induction theorems cannot be instantiated by the installed provers. A loop over
a list is instead treated by `LoopInduction`: the set of its good rounds has the round 0 and,
with a round, the next one, so it has all of them, for otherwise a least round would be
missing.

Only model-checked:

- `SwitchAsTold` and `OthersLinked`. They need an invariant that the lists of names and of
  identifiers of an LSI stay aligned as long as no message was lost, while `list::remove`
  takes every equal name out of one of them and one identifier out of the other.
- `UpdateDone`, `KeptTraffic`, `LinksExact` and `AssertsHold` of `GraphManager`. They need the
  converse of `GInv`: that every rule of the description but those being added is on the
  switches, and that the links are exactly those needed, at each place in `updateGraph`. It
  holds only without failures and for requests of the kind that the runs use.
- The liveness properties (`EventuallyInstalled`, `Delivered`, `RequestsEnd`), which the
  prover does not handle.

## Not modelled

Most of the tree's lines are not the orchestrator's own: a vendored copy of tcpreplay
(about 88,000 lines) and generated code of the virtualizer (about 5,500). They are
left out, so the share of the whole tree that the models cover is small.

- Parsers (JSON to high-level graph), messages and logs: no state that outlives a request.
- Monitoring controller and resource manager: they format messages and send them.
- xDPd: messages to a switch and their answers, without state. ERFS: counters and
  scripts; its operations that remove something only report that they are not supported.
- The drivers of hypervisors and containers: `ComputeController` has the outcome of each
  call, the scripts and libvirt calls behind it are input and output.
- Name resolver and virtualizer: separate programs; the resolver's answers are a set.
- Of the OVSDB manager: the DPDK build, ports that change their type, the parameters of
  tunnels, sockets that stay open after an exception, and a `destroyLsi` with the
  uninitialised identifier of an LSI that could not be created
  (`graph_manager.cc:825-840`).
- Of the REST server: the build without authentication, and requests that only read.
- Of the bus client: an interrupted `zmsg_recv`, which returns NULL; the loop logs it and
  goes on to `zmsg_popstr` with it (`pub_sub.cc:60-67`).
- Of the compute controller: the build with `STARTVNF_SINGLE_THREAD`.
- Of the graph manager: in-band rules, fixed at the start; changes of the ports of a
  running network function in the rules (in `ComputeController` they are); several
  failures spread over all the parts at once.
