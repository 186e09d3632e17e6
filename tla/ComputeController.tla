-------------------------- MODULE ComputeController --------------------------
(***************************************************************************)
(* The compute controller of one NF-FG (compute_controller.cc) and the     *)
(* requests of the graph manager that use it: create, update and delete    *)
(* the NF-FG, with the failure of every call to the name resolver, to the  *)
(* drivers of the execution environments and to the switch.                *)
(*                                                                         *)
(* One thread serves the requests; a thread for each new network function  *)
(* starts it.  "undefined": the code has used memory it had freed, and     *)
(* nothing more is said.                                                   *)
(***************************************************************************)
EXTENDS Integers, Sequences, FiniteSets, FiniteSetsExt

CONSTANTS
    NFs,            \* identifiers, numbers in the order of the map nfs
    Offers,         \* the answers of the name resolver for each: sequences of kinds
    Need,           \* the cores its DPDK description asks for
    NCores          \* the bits of the core mask

Kinds == {"docker", "dpdk", "kvm", "native"}

ASSUME NFsOrdered == NFs \subseteq Nat /\ IsFiniteSet(NFs)
ASSUME OffersKinds == \A n \in NFs : Offers[n] \subseteq Seq(Kinds) \ {<<>>}
ASSUME NeedCores == Need \in [NFs -> Nat \ {0}]
ASSUME SomeCores == NCores \in Nat \ {0}

VARIABLES
    graph,          \* the NFs of the deployed NF-FG
    deployed,       \* is it in tenantLSIs?
    ports,          \* the NFs its LSI has ports for
    entry,          \* nfs: "absent", "none" (no implementation selected), or its kind
    descriptions,   \* the descriptions of each NF, by their kinds
    supported,      \* those flagged as supported
    started,        \* the NFs a driver has started and not stopped, but for the lost ones
    refused,        \* history: those whose stop a driver has refused
    lost,           \* history: those that the last newGraph has left without a controller
    capabilities,   \* has a Native been made, which reads the file of capabilities?
    pc, op, todo,   \* the request: where it is, what it is, and NFs still to treat
    diff, grown,    \* the NFs it adds, and those of them that only get new ports
    gone,           \* the NFs it removes
    thread, mask,   \* the threads that start NFs, and their core masks
    taken,          \* the rounds of calculateCoreMask's loop
    nextCore, mutex \* as in the code; 0 or the NF whose thread has the lock

nfg == <<graph, deployed, ports>>
controller == <<entry, descriptions, supported, started, refused, lost, capabilities>>
request == <<op, diff, grown, gone>>
threads == <<thread, mask, taken, nextCore, mutex>>
vars == <<nfg, controller, pc, todo, request, threads>>

Free == 0 - 1

InMap(n) == entry[n] # "absent"

Init ==
    /\ graph = {} /\ deployed = FALSE /\ ports = {}
    /\ entry = [n \in NFs |-> "absent"]
    /\ descriptions = [n \in NFs |-> <<>>] /\ supported = [n \in NFs |-> {}]
    /\ started = {} /\ refused = {} /\ lost = {} /\ capabilities = FALSE
    /\ pc = "idle" /\ op = "none" /\ todo = {} /\ diff = {} /\ grown = {} /\ gone = {}
    /\ thread = [n \in NFs |-> "no"] /\ mask = [n \in NFs |-> {}]
    /\ taken = [n \in NFs |-> 0]
    /\ nextCore = 0 /\ mutex = Free

\* A failed assertion or a NULL pointer ends the process.
Crash ==
    /\ pc' = "crashed"
    /\ UNCHANGED <<nfg, controller, todo, request, threads>>

\* The request is over.
Return ==
    /\ pc' = "idle" /\ op' = "none" /\ todo' = {} /\ diff' = {} /\ grown' = {} /\ gone' = {}
    /\ thread' = [n \in NFs |-> "no"] /\ mask' = [n \in NFs |-> {}]
    /\ taken' = [n \in NFs |-> 0]
    /\ UNCHANGED <<nextCore, mutex>>

\* The map without any NF.
Clear ==
    /\ entry' = [n \in NFs |-> "absent"]
    /\ descriptions' = [n \in NFs |-> <<>>] /\ supported' = [n \in NFs |-> {}]

\* delete(computeController), or the loss of the pointer to it.
Drop ==
    /\ Clear
    /\ UNCHANGED <<started, refused, lost, capabilities>>

\* The end of a request that failed before it started anything: newGraph drops its
\* controller, updateGraph leaves it as it is.
Fail ==
    /\ IF op = "new" THEN Drop ELSE UNCHANGED controller
    /\ Return
    /\ UNCHANGED <<graph, deployed>>

-----------------------------------------------------------------------------
\* newGraph, with a new controller.  What an earlier one has lost has the names of another
\* LSI: no call of this controller reaches it.
NewGraph(S) ==
    /\ pc = "idle" /\ ~deployed
    /\ pc' = "check" /\ op' = "new" /\ diff' = S /\ todo' = S
    /\ grown' = {} /\ gone' = {} /\ lost' = {}
    /\ UNCHANGED <<nfg, entry, descriptions, supported, started, refused, capabilities, threads>>

\* updateGraph to the NFs S, of which some get or lose ports: calculateDiff puts the
\* former in the part to add and the latter in the part to remove.
UpdateGraph(S, more, less) ==
    /\ pc = "idle" /\ deployed
    /\ more \subseteq graph /\ less \subseteq graph
    /\ op' = "update" /\ pc' = "check"
    /\ diff' = (S \ graph) \cup more /\ todo' = diff'
    /\ grown' = more /\ gone' = (graph \ S) \cup less
    /\ UNCHANGED <<nfg, controller, threads>>

\* checkGraphValidity: an NF with an implementation is not retrieved again ...
Skip(n) ==
    /\ pc = "check" /\ n \in todo /\ entry[n] \in Kinds
    /\ todo' = todo \ {n}
    /\ UNCHANGED <<nfg, controller, pc, request, threads>>

\* ... retrieveDescription and parseAnswer for another one ...
Retrieve(n) ==
    /\ pc = "check" /\ n \in todo /\ entry[n] \notin Kinds
    /\ entry' = [entry EXCEPT ![n] = "none"]
    /\ \E answer \in Offers[n] : descriptions' = [descriptions EXCEPT ![n] = answer]
    /\ supported' = [supported EXCEPT ![n] = {}]
    /\ todo' = todo \ {n}
    /\ UNCHANGED <<nfg, started, refused, lost, capabilities, pc, request, threads>>

\* ... which may fail, or whose answer may have no description that can be used.
RetrieveFails(n) ==
    /\ pc = "check" /\ n \in todo /\ entry[n] \notin Kinds
    /\ Fail /\ UNCHANGED ports

RetrieveAborts(n) ==
    /\ pc = "check" /\ n \in todo /\ entry[n] \notin Kinds
    /\ Crash

\* The check is over; an update changes the graph before it goes on.
Checked ==
    /\ pc = "check" /\ todo = {}
    /\ pc' = "select"
    /\ graph' = IF op = "update" THEN graph \cup diff ELSE graph
    /\ UNCHANGED <<deployed, ports, controller, todo, request, threads>>

\* The kinds of the descriptions of an NF.
offered(n) == {descriptions[n][i] : i \in DOMAIN descriptions[n]}

\* checkSupportedDescriptions: "dpdk" is always supported; no flag is ever cleared.
checkSupportedDescriptions(running) ==
    [n \in NFs |-> supported[n] \cup (offered(n) \cap (running \cup {"dpdk"}))]

\* selectNFImplementation: the first supported one.
selectNFImplementation(n, flags) ==
    descriptions[n][CHOOSE i \in DOMAIN descriptions[n] :
                       /\ descriptions[n][i] \in flags
                       /\ \A j \in 1 .. i - 1 : descriptions[n][j] \notin flags]

MakesNative == \E n \in NFs : "native" \in offered(n)

\* Mutant: only the NFs of this request get an implementation.
SelectDiff(running) ==
    LET flags == checkSupportedDescriptions(running)
        new == {n \in diff \ grown : entry[n] = "none"}
    IN  /\ pc = "select" /\ \A n \in new : flags[n] # {}
        /\ entry' = [n \in NFs |-> IF n \in new THEN selectNFImplementation(n, flags[n])
                                                ELSE entry[n]]
        /\ supported' = flags
        /\ capabilities' = (capabilities \/ MakesNative)
        /\ pc' = "lsi"
        /\ UNCHANGED <<nfg, descriptions, started, refused, lost, todo, request, threads>>

\* selectImplementation, for all NFs that have none yet.
Select(running) ==
    LET flags == checkSupportedDescriptions(running)
        new == {n \in NFs : entry[n] = "none"}
    IN  /\ pc = "select" /\ \A n \in new : flags[n] # {}
        /\ entry' = [n \in NFs |-> IF n \in new THEN selectNFImplementation(n, flags[n])
                                                ELSE entry[n]]
        /\ supported' = flags
        /\ capabilities' = (capabilities \/ MakesNative)
        /\ pc' = "lsi"
        /\ UNCHANGED <<nfg, descriptions, started, refused, lost, todo, request, threads>>

\* It fails: the controller is deleted, also that of a deployed NF-FG, whose GraphInfo
\* still points to it.
SelectFails(running) ==
    LET flags == checkSupportedDescriptions(running)
    IN  /\ pc = "select" /\ \E n \in NFs : entry[n] = "none" /\ flags[n] = {}
        /\ IF op = "new"
           THEN /\ Drop /\ Return /\ UNCHANGED nfg
           ELSE /\ pc' = "undefined"
                /\ UNCHANGED <<nfg, controller, todo, request, threads>>

\* The first Native of the process cannot read the capabilities and throws a pointer,
\* which only the REST server catches.  The NFs before it in the map have their flags.
SelectThrows(running) ==
    LET first == CHOOSE n \in NFs :
                    /\ "native" \in offered(n)
                    /\ \A m \in NFs : m < n => "native" \notin offered(m)
    IN  /\ pc = "select" /\ ~capabilities /\ MakesNative
        /\ capabilities' = TRUE
        /\ IF op = "new"
           THEN Clear
           ELSE /\ supported' = [n \in NFs |-> IF n < first
                                               THEN checkSupportedDescriptions(running)[n]
                                               ELSE supported[n]]
                /\ UNCHANGED <<entry, descriptions>>
        /\ Return /\ UNCHANGED <<nfg, started, refused, lost>>

\* The LSI is made or gets the ports of the NFs.  updateNF will be called instead of
\* startNF where the LSI has other ports than those of the request: for the NFs with new
\* ports, unless the LSI never got their first ones, and maybe for an NF that was removed
\* and left its ports behind.
LsiReady ==
    /\ pc = "lsi"
    /\ \E other \in SUBSET (diff \cap ports) :
          /\ grown \cap ports \subseteq other
          /\ grown' = other
    /\ ports' = ports \cup diff
    /\ pc' = "start" /\ todo' = diff
    /\ UNCHANGED <<graph, deployed, controller, op, diff, gone, threads>>

\* The switch fails on the way.
LsiFails ==
    /\ pc = "lsi"
    /\ \E some \in SUBSET diff : ports' = IF op = "new" THEN {} ELSE ports \cup some
    /\ Fail

-----------------------------------------------------------------------------
\* Starting

\* updateNF; its failure is a failed assertion, and only two kinds support it.
UpdateNF(n) ==
    /\ pc = "start" /\ n \in todo \cap grown
    /\ \/ /\ entry[n] \in {"docker", "native"}
          /\ todo' = todo \ {n}
          /\ UNCHANGED <<nfg, controller, pc, request, threads>>
       \/ Crash

\* pthread_create of startNF.
CreateThread(n) ==
    /\ pc = "start" /\ n \in todo \ grown
    /\ thread' = [thread EXCEPT ![n] = "new"]
    /\ todo' = todo \ {n}
    /\ UNCHANGED <<nfg, controller, pc, request, mask, taken, nextCore, mutex>>

AllCreated ==
    /\ pc = "start" /\ todo = {}
    /\ pc' = "join"
    /\ UNCHANGED <<nfg, controller, todo, request, threads>>

Working == pc \in {"start", "join"}
process == <<nfg, pc, todo, request>>

\* Mutant: the lock is not waited for.
LockBusy(n) ==
    /\ Working /\ thread[n] = "new" /\ entry[n] = "dpdk"
    /\ mutex' = n
    /\ thread' = [thread EXCEPT ![n] = "core"]
    /\ UNCHANGED <<process, controller, mask, taken, nextCore>>

\* calculateCoreMask: the lock ...
Lock(n) ==
    /\ Working /\ thread[n] = "new" /\ entry[n] = "dpdk" /\ mutex = Free
    /\ mutex' = n
    /\ thread' = [thread EXCEPT ![n] = "core"]
    /\ UNCHANGED <<process, controller, mask, taken, nextCore>>

\* ... a core ...
TakeCore(n) ==
    /\ Working /\ thread[n] = "core" /\ taken[n] < Need[n]
    /\ mask' = [mask EXCEPT ![n] = @ \cup {nextCore}]
    /\ thread' = [thread EXCEPT ![n] = "next"]
    /\ UNCHANGED <<process, controller, taken, nextCore, mutex>>

\* Mutant: the position moves once for each NF.
NextCoreOnce(n) ==
    /\ Working /\ thread[n] = "next"
    /\ nextCore' = IF taken[n] + 1 = Need[n] THEN (nextCore + 1) % NCores ELSE nextCore
    /\ taken' = [taken EXCEPT ![n] = @ + 1]
    /\ thread' = [thread EXCEPT ![n] = "core"]
    /\ UNCHANGED <<process, controller, mask, mutex>>

\* ... the position of the next one ...
NextCore(n) ==
    /\ Working /\ thread[n] = "next"
    /\ nextCore' = (nextCore + 1) % NCores
    /\ taken' = [taken EXCEPT ![n] = @ + 1]
    /\ thread' = [thread EXCEPT ![n] = "core"]
    /\ UNCHANGED <<process, controller, mask, mutex>>

\* Mutant: the lock is kept.
UnlockForgotten(n) ==
    /\ Working /\ thread[n] = "core" /\ taken[n] = Need[n]
    /\ thread' = [thread EXCEPT ![n] = "driver"]
    /\ UNCHANGED <<process, controller, mask, taken, nextCore, mutex>>

\* ... and the unlock.
Unlock(n) ==
    /\ Working /\ thread[n] = "core" /\ taken[n] = Need[n]
    /\ mutex' = Free
    /\ thread' = [thread EXCEPT ![n] = "driver"]
    /\ UNCHANGED <<process, controller, mask, taken, nextCore>>

\* The other kinds need no core (NFsManager::getCores).
NoCores(n) ==
    /\ Working /\ thread[n] = "new" /\ entry[n] # "dpdk"
    /\ thread' = [thread EXCEPT ![n] = "driver"]
    /\ UNCHANGED <<process, controller, mask, taken, nextCore, mutex>>

\* The driver's startNF.
DriverStarts(n) ==
    /\ Working /\ thread[n] = "driver"
    /\ thread' = [thread EXCEPT ![n] = "ok"]
    /\ started' = started \cup {n} /\ refused' = refused \ {n}
    /\ UNCHANGED <<process, entry, descriptions, supported, lost, capabilities>>
    /\ UNCHANGED <<mask, taken, nextCore, mutex>>

DriverFails(n) ==
    /\ Working /\ thread[n] = "driver"
    /\ thread' = [thread EXCEPT ![n] = "failed"]
    /\ UNCHANGED <<process, controller, mask, taken, nextCore, mutex>>

ThreadStep(n) ==
    \/ Lock(n) \/ TakeCore(n) \/ NextCore(n) \/ Unlock(n) \/ NoCores(n)
    \/ DriverStarts(n) \/ DriverFails(n)

\* pthread_join of all of them.
Join ==
    /\ pc = "join" /\ \A n \in NFs : thread[n] \in {"no", "ok", "failed"}
    /\ IF \E n \in NFs : thread[n] = "failed"
       THEN pc' = "undo" /\ todo' = diff
       ELSE pc' = "rules" /\ todo' = {}
    /\ UNCHANGED <<nfg, controller, request, threads>>

-----------------------------------------------------------------------------
\* Stopping

\* nfs.erase(it)
Erase(n) ==
    /\ entry' = [entry EXCEPT ![n] = "absent"]
    /\ descriptions' = [descriptions EXCEPT ![n] = <<>>]
    /\ supported' = [supported EXCEPT ![n] = {}]

\* Mutant: the entry goes also when the driver refuses.
stopNFErases(n) ==
    /\ entry[n] \in Kinds
    /\ Erase(n)
    /\ \/ started' = started \ {n} /\ refused' = refused \ {n}
       \/ UNCHANGED <<started, refused>>
    /\ UNCHANGED <<lost, capabilities>>

\* stopNF for an entry with an implementation: the driver stops it or refuses.
stopNF(n) ==
    /\ entry[n] \in Kinds
    /\ \/ /\ Erase(n)
          /\ started' = started \ {n} /\ refused' = refused \ {n}
       \/ /\ refused' = refused \cup {n}
          /\ UNCHANGED <<entry, descriptions, supported, started>>
    /\ UNCHANGED <<lost, capabilities>>

\* stopNF for one NF of a list; an unknown NF is skipped, and an entry without an
\* implementation is a NULL pointer.
Stop(n) ==
    /\ n \in todo
    /\ \/ /\ entry[n] = "none"
          /\ Crash
       \/ /\ \/ stopNF(n)
             \/ ~InMap(n) /\ UNCHANGED controller
          /\ todo' = todo \ {n}
          /\ UNCHANGED <<nfg, pc, request, threads>>

\* Mutant: an update that fails stops all NFs.
UndoStopsAll(n) ==
    /\ pc = "undo"
    /\ \/ Stop(n)
       \/ /\ entry[n] \in Kinds /\ stopNF(n)
          /\ UNCHANGED <<nfg, pc, todo, request, threads>>

\* The NFs of the request are stopped, because one did not start.
Undo(n) == pc = "undo" /\ Stop(n)

\* newGraph gives up its controller; updateGraph destroys the LSI and keeps the rest.
Undone ==
    /\ pc = "undo" /\ todo = {}
    /\ ports' = IF op = "new" THEN {} ELSE ports
    /\ Fail

\* The LSI of an internal endpoint cannot be created: newGraph catches what
\* handleGraphForInternalEndpoint throws then.  (Nothing throws what the handler of its
\* next step catches.)
RulesFail ==
    /\ pc = "rules" /\ op = "new"
    /\ pc' = "undo" /\ todo' = diff
    /\ UNCHANGED <<nfg, controller, request, threads>>

\* A link for an internal endpoint cannot be added, the LSI that was not created cannot be
\* destroyed, or a rule cannot be lowered: only the REST server catches these exceptions.
\* The NFs run on, and the pointer to their controller is lost.
RulesEscape ==
    /\ pc = "rules" /\ op = "new"
    /\ lost' = diff /\ started' = started \ diff
    /\ ports' = {}
    /\ Clear /\ Return
    /\ UNCHANGED <<graph, deployed, refused, capabilities>>

Deploy ==
    /\ pc = "rules" /\ op = "new"
    /\ deployed' = TRUE /\ graph' = diff
    /\ Return /\ UNCHANGED <<ports, controller>>

\* updateGraph_remove takes the NFs out of the graph first; one that a rule still uses
\* is a failed assertion.
RemoveStarts ==
    /\ pc = "rules" /\ op = "update"
    /\ \/ /\ pc' = "remove" /\ graph' = graph \ gone /\ todo' = gone
          /\ UNCHANGED <<deployed, ports, controller, request, threads>>
       \/ gone # {} /\ Crash

RemoveNF(n) == pc = "remove" /\ Stop(n)

\* A link, an endpoint or the ports of the NF that was stopped last cannot be removed.
RemoveFails ==
    /\ pc = "remove"
    /\ \E kept \in SUBSET (gone \ todo) :
          /\ Cardinality(kept) <= 1
          /\ ports' = ports \ (gone \ (todo \cup kept))
    /\ Return /\ UNCHANGED <<graph, deployed, controller>>

\* All are stopped and their ports removed; the rules may fail, which changes no NF.
Updated ==
    /\ pc = "remove" /\ todo = {}
    /\ ports' = ports \ gone
    /\ Return /\ UNCHANGED <<graph, deployed, controller>>

\* deleteGraph ...
DeleteGraph ==
    /\ pc = "idle" /\ deployed
    /\ pc' = "stopAll" /\ op' = "delete" /\ todo' = {n \in NFs : InMap(n)}
    /\ UNCHANGED <<nfg, controller, diff, grown, gone, threads>>

\* ... stopAll, in the order of the map: stopNF erases the element the iterator is at,
\* and the loop increments it ...
StopAll(n) ==
    /\ pc = "stopAll" /\ n \in todo /\ \A m \in todo : n <= m
    /\ \/ Stop(n)
       \/ /\ entry[n] \in Kinds /\ pc' = "undefined"
          /\ UNCHANGED <<nfg, controller, todo, request, threads>>

\* ... and the LSI is destroyed, or not.
Deleted ==
    /\ pc = "stopAll" /\ todo = {}
    /\ deployed' = FALSE /\ graph' = {} /\ ports' = {}
    /\ Drop /\ Return

DeleteFails ==
    /\ pc = "stopAll" /\ todo = {}
    /\ Return /\ UNCHANGED <<nfg, controller>>

\* printInfo, when a request for another NF-FG ends, reads every implementation.
PrintInfo ==
    /\ pc = "idle" /\ deployed /\ \E n \in NFs : entry[n] = "none"
    /\ Crash

-----------------------------------------------------------------------------
Requests ==
    \/ \E S \in SUBSET NFs : \/ NewGraph(S)
                             \/ \E more, less \in SUBSET S : UpdateGraph(S, more, less)
    \/ DeleteGraph \/ PrintInfo

Step ==
    \/ Checked \/ LsiReady \/ LsiFails \/ AllCreated \/ Join
    \/ \E running \in SUBSET (Kinds \ {"dpdk"}) : Select(running) \/ SelectFails(running)
                                                     \/ SelectThrows(running)
    \/ Undone \/ RulesFail \/ RulesEscape \/ Deploy \/ RemoveStarts \/ RemoveFails \/ Updated
    \/ Deleted \/ DeleteFails
    \/ \E n \in NFs :
          \/ Skip(n) \/ Retrieve(n) \/ RetrieveFails(n) \/ RetrieveAborts(n)
          \/ UpdateNF(n) \/ CreateThread(n) \/ Undo(n) \/ RemoveNF(n) \/ StopAll(n)

Next == Requests \/ Step \/ \E n \in NFs : ThreadStep(n)

\* The thread of the REST server and the threads of NFs run, and every call returns.
Spec ==
    /\ Init /\ [][Next]_vars
    /\ WF_vars(Step) /\ \A n \in NFs : WF_vars(ThreadStep(n))

-----------------------------------------------------------------------------
Ended == pc \in {"crashed", "undefined"}

TypeOK ==
    /\ graph \subseteq NFs /\ ports \subseteq NFs /\ deployed \in BOOLEAN
    /\ entry \in [NFs -> Kinds \cup {"absent", "none"}]
    /\ descriptions \in [NFs -> Seq(Kinds)] /\ supported \in [NFs -> SUBSET Kinds]
    /\ started \subseteq NFs /\ refused \subseteq NFs /\ lost \subseteq NFs /\ capabilities \in BOOLEAN
    /\ pc \in {"idle", "check", "select", "lsi", "start", "join", "undo", "rules", "remove",
               "stopAll", "crashed", "undefined"}
    /\ op \in {"none", "new", "update", "delete"}
    /\ todo \subseteq NFs /\ diff \subseteq NFs /\ grown \subseteq NFs /\ gone \subseteq NFs
    /\ thread \in [NFs -> {"no", "new", "core", "next", "driver", "ok", "failed"}]
    /\ mask \in [NFs -> SUBSET (0 .. NCores - 1)] /\ taken \in [NFs -> Nat]
    /\ nextCore \in 0 .. NCores - 1 /\ mutex \in NFs \cup {Free}

\* When the LSI is made and the NFs are started, every NF of the request has an
\* implementation, whatever earlier requests left behind: the assertions of getNFType
\* and startNF hold.
Implemented ==
    pc \in {"lsi", "start", "join"} => \A n \in diff : entry[n] \in Kinds

\* The mask a driver gets has as many cores as the NF needs, or all: no interleaving of
\* the threads gives an NF one core twice.
MaskComplete ==
    \A n \in NFs :
        thread[n] \in {"driver", "ok"} /\ entry[n] = "dpdk"
           => Cardinality(mask[n]) = Min({Need[n], NCores})

\* The cores that the NFs of S have got, or ask for: one pair for each.
Units(count, S) == UNION {{n} \X (1 .. count[n]) : n \in S}

\* NFs that one request starts share no core if there are enough for all of them, from
\* the first thread to the last driver.  (When they are stopped again some may share one:
\* those that are left may be few, and the positions went round for all.)
CoresApart ==
    LET dpdk == {n \in diff : entry[n] = "dpdk"}
    IN  pc \in {"start", "join", "rules"} /\ Cardinality(Units(Need, dpdk)) <= NCores
           => \A a, b \in dpdk : a # b => mask[a] \cap mask[b] = {}

\* What was started is in the controller of the deployed NF-FG and will be stopped with
\* it.  Two things are excepted: what a driver has refused to stop, and what a newGraph
\* that ends with an uncaught exception leaves running (RulesEscape puts it in lost).
NoOrphan ==
    pc = "idle" => \A n \in started \ refused : deployed /\ entry[n] \in Kinds

\* A request leaves the NFs alone that it neither starts, changes nor removes.
OthersRun ==
    [][(op \in {"new", "update"}) => (started \ started') \subseteq (diff \cup gone)]_vars

\* Every request ends: no thread waits for ever for the lock or for another thread.
RequestsEnd ==
    (pc # "idle") ~> (pc = "idle" \/ Ended)

\* Between requests every entry has an implementation, as printInfo and stopNF expect,
\* which use it without a test.
HasImplementation ==
    pc = "idle" => \A n \in NFs : entry[n] # "none"

\* A newGraph that fails leaves no NF running without a controller: it has a handler that
\* stops the NFs after a failure of each of its steps.
NothingLost ==
    lost = {}
=============================================================================
