------------------------- MODULE InternalEndpoints -------------------------
(***************************************************************************)
(* The LSIs that join NF-FGs through internal endpoints (graph_manager.cc: *)
(* handleControllerForInternalEndpoint, handleGraphForInternalEndpoint and *)
(* the last part of deleteGraph).  All NF-FGs with an endpoint of one      *)
(* internal group share one internal LSI: it is created by the first of    *)
(* them, gets one virtual link to LSI-0 for each, and is destroyed with    *)
(* the last.                                                               *)
(*                                                                         *)
(* Calls of the switch manager and the lowering of the rules may fail with *)
(* an exception.  The REST server catches every exception, so the process  *)
(* goes on; a failed assert ends it.  Requests are served one at a time; a *)
(* step is one iteration of a loop on the internal endpoints.              *)
(***************************************************************************)
EXTENDS LowLevelGraph

CONSTANTS
    Graphs,       \* identifiers of NF-FGs
    Groups,       \* internal groups
    EndpointsOf,  \* EndpointsOf[g]: the groups of the internal endpoints of g, a sequence
    Ports,        \* what the switch may give to a link
    NoPort,       \* 0, the port of a link that the switch manager did not create
    Failures,     \* the calls that may throw
    MaxLinks      \* bound: links of an internal LSI when one more fails to be added

Calls == {"createLsi", "destroyLsi", "addVirtualLink", "destroyVirtualLink", "lowerGraph"}

ASSUME EndpointsAreGroups == EndpointsOf \in [Graphs -> Seq(Groups)]
ASSUME FiniteGraphs == IsFiniteSet(Graphs)
ASSUME NoPortIsNoPort == NoPort \notin Ports
ASSUME FailuresAreCalls == Failures \subseteq Calls

VARIABLES
    tenantLSIs,   \* the deployed NF-FGs
    lsi0,         \* the NF-FGs whose rules are in LSI-0
    created,      \* internalLSIsCreated
    timesUsed,    \* timesUsedEndPointsInternal
    vlinks,       \* virtual_links of the internal LSI of a group: a list of ports
    conns,        \* internalLSIsConnections: group, NF-FG -> port (NoPort if absent)
    irules,       \* the rules in the controller of the internal LSI of a group
    pc, cur,      \* what the request in progress does, and its NF-FG
    todo,         \* the endpoints its loop has still to visit
    failed        \* history: has a call failed yet?

lsis == <<created, timesUsed, vlinks, conns, irules>>
vars == <<tenantLSIs, lsi0, lsis, pc, cur, todo, failed>>

group == Head(todo)

\* A link has one port on each side; both are new, so one number stands for them.
FreshPorts == Ports \ UNION {Range(vlinks[i]) : i \in Groups}

\* The rule for traffic from link p: NORMAL, under an identifier made of the
\* group and the NF-FG.
NormalRule(g, p) == [id |-> g, match |-> p, out |-> "NORMAL", extra |-> "none"]
NormalRules == {NormalRule(g, p) : g \in Graphs, p \in Ports}

Init ==
    /\ tenantLSIs = {} /\ lsi0 = {}
    /\ created = [i \in Groups |-> FALSE] /\ timesUsed = [i \in Groups |-> 0]
    /\ vlinks = [i \in Groups |-> <<>>] /\ irules = [i \in Groups |-> <<>>]
    /\ conns = [i \in Groups |-> [g \in Graphs |-> NoPort]]
    /\ pc = "idle" /\ cur \in Graphs /\ todo = <<>>
    /\ failed = FALSE

-----------------------------------------------------------------------------
\* newGraph up to the internal endpoints: handleControllerForInternalEndpoint
\* gives a new controller, with no rules, to each group without an LSI.
NewGraph(g) ==
    /\ pc = "idle" /\ g \notin tenantLSIs
    /\ pc' = "attach" /\ cur' = g /\ todo' = EndpointsOf[g]
    /\ irules' = [i \in Groups |-> IF i \in Range(EndpointsOf[g]) /\ ~created[i]
                                   THEN <<>> ELSE irules[i]]
    /\ UNCHANGED <<tenantLSIs, lsi0, created, timesUsed, vlinks, conns, failed>>

\* Mutant: the connections of the other NF-FGs are lost.
ConnectOverwriting(p) ==
    /\ conns' = [conns EXCEPT ![group] = [g \in Graphs |-> IF g = cur THEN p ELSE NoPort]]
    /\ irules' = [irules EXCEPT ![group] = addRules(@, <<NormalRule(cur, p)>>)]
    /\ todo' = Tail(todo)

\* The port of the new link is saved and the rule for it installed.
Connect(p) ==
    /\ conns' = [conns EXCEPT ![group][cur] = p]
    /\ irules' = [irules EXCEPT ![group] = addRules(@, <<NormalRule(cur, p)>>)]
    /\ todo' = Tail(todo)

\* handleGraphForInternalEndpoint, first use of a group: its LSI is created
\* with one link ...
CreateInternalLSI(p) ==
    /\ pc = "attach" /\ todo # <<>> /\ ~created[group]
    /\ created' = [created EXCEPT ![group] = TRUE]
    /\ timesUsed' = [timesUsed EXCEPT ![group] = 1]
    /\ vlinks' = [vlinks EXCEPT ![group] = <<p>>]
    /\ Connect(p)
    /\ UNCHANGED <<tenantLSIs, lsi0, pc, cur, failed>>

\* ... or that fails: newGraph destroys the tenant LSI and gives up, leaving
\* the groups it has already visited as they are.
CreateInternalLSIFails ==
    /\ "createLsi" \in Failures
    /\ pc = "attach" /\ todo # <<>> /\ ~created[group]
    /\ pc' = "idle" /\ todo' = <<>>
    /\ failed' = TRUE
    /\ UNCHANGED <<tenantLSIs, lsi0, lsis, cur>>

\* Mutant: the counter of uses is not incremented.
AddInternalLinkUncounted(p) ==
    /\ pc = "attach" /\ todo # <<>> /\ created[group]
    /\ vlinks' = [vlinks EXCEPT ![group] = Append(@, p)]
    /\ Connect(p)
    /\ UNCHANGED <<tenantLSIs, lsi0, created, timesUsed, pc, cur, failed>>

\* A further use: a link is added to the LSI ...
AddInternalLink(p) ==
    /\ pc = "attach" /\ todo # <<>> /\ created[group]
    /\ vlinks' = [vlinks EXCEPT ![group] = Append(@, p)]
    /\ timesUsed' = [timesUsed EXCEPT ![group] = @ + 1]
    /\ Connect(p)
    /\ UNCHANGED <<tenantLSIs, lsi0, created, pc, cur, failed>>

\* ... or that fails.  addVlink has already put the link, still without ports,
\* in the list, and nothing catches the exception before the REST server.
AddInternalLinkFails ==
    /\ "addVirtualLink" \in Failures
    /\ pc = "attach" /\ todo # <<>> /\ created[group] /\ Len(vlinks[group]) < MaxLinks
    /\ vlinks' = [vlinks EXCEPT ![group] = Append(@, NoPort)]
    /\ pc' = "idle" /\ todo' = <<>>
    /\ failed' = TRUE
    /\ UNCHANGED <<tenantLSIs, lsi0, created, timesUsed, conns, irules, cur>>

\* The end of newGraph: the rules are installed and the NF-FG is recorded.
Deployed ==
    /\ pc = "attach" /\ todo = <<>>
    /\ tenantLSIs' = tenantLSIs \cup {cur} /\ lsi0' = lsi0 \cup {cur}
    /\ pc' = "idle"
    /\ UNCHANGED <<lsis, cur, todo, failed>>

\* Or a rule cannot be lowered: the exception is not one that newGraph catches, and the
\* NF-FG is not recorded, with all its internal endpoints attached.
LoweringFails ==
    /\ "lowerGraph" \in Failures
    /\ pc = "attach" /\ todo = <<>>
    /\ pc' = "idle"
    /\ failed' = TRUE
    /\ UNCHANGED <<tenantLSIs, lsi0, lsis, cur, todo>>

-----------------------------------------------------------------------------
\* deleteGraph removes the rules from LSI-0, which asserts that they are there
\* (an NF-FG is taken to have a rule for each of its internal endpoints), then
\* destroys the tenant LSI ...
DeleteGraph(g) ==
    /\ pc = "idle" /\ g \in tenantLSIs
    /\ cur' = g
    /\ IF g \in lsi0
       THEN /\ pc' = "detach" /\ todo' = EndpointsOf[g]
            /\ lsi0' = lsi0 \ {g} /\ tenantLSIs' = tenantLSIs \ {g}
       ELSE pc' = "aborted" /\ UNCHANGED <<todo, lsi0, tenantLSIs>>
    /\ UNCHANGED <<lsis, failed>>

\* ... or that fails: the NF-FG stays, without its rules in LSI-0.
DeleteGraphFails(g) ==
    /\ "destroyLsi" \in Failures
    /\ pc = "idle" /\ g \in tenantLSIs /\ g \in lsi0
    /\ cur' = g /\ lsi0' = lsi0 \ {g}
    /\ failed' = TRUE
    /\ UNCHANGED <<tenantLSIs, lsis, pc, todo>>

\* The asserts of the loop of deleteGraph, at the group it is about to leave.
LinksCounted == created[group] /\ Len(vlinks[group]) = timesUsed[group]
LinkOf(i, g) == {k \in 1..Len(vlinks[i]) : vlinks[i][k] = conns[i][g]}
LinkKnown == conns[group][cur] # NoPort /\ LinkOf(group, cur) # {}

\* One of them fails.
AssertFails ==
    /\ pc = "detach" /\ todo # <<>>
    /\ ~LinksCounted \/ (timesUsed[group] # 1 /\ ~LinkKnown)
    /\ pc' = "aborted"
    /\ UNCHANGED <<tenantLSIs, lsi0, lsis, cur, todo, failed>>

\* The test that no other NF-FG is connected to the internal LSI.
LastUse == LinksCounted /\ timesUsed[group] = 1

\* The last use is over: the internal LSI is destroyed ...
DestroyInternalLSI ==
    /\ pc = "detach" /\ todo # <<>> /\ LastUse
    /\ created' = [created EXCEPT ![group] = FALSE]
    /\ vlinks' = [vlinks EXCEPT ![group] = <<>>]
    /\ conns' = [conns EXCEPT ![group] = [g \in Graphs |-> NoPort]]
    /\ irules' = [irules EXCEPT ![group] = <<>>]
    /\ timesUsed' = [timesUsed EXCEPT ![group] = @ - 1]
    /\ todo' = Tail(todo)
    /\ UNCHANGED <<tenantLSIs, lsi0, pc, cur, failed>>

\* ... or that fails, and the other endpoints are not visited.
DestroyInternalLSIFails ==
    /\ "destroyLsi" \in Failures
    /\ pc = "detach" /\ todo # <<>> /\ LastUse
    /\ pc' = "idle" /\ todo' = <<>>
    /\ failed' = TRUE
    /\ UNCHANGED <<tenantLSIs, lsi0, lsis, cur>>

\* Controller::removeRuleFromID, which ignores an unknown identifier.
RuleRemoved(rs, ID) == IF WithID(rs, ID) = {} THEN rs ELSE removeRuleFromID(rs, ID)

\* Mutant: the first link is taken for the one of the NF-FG.
RemoveFirstLink ==
    vlinks' = [vlinks EXCEPT ![group] = Tail(@)]

\* destroyVirtualLink and removeVlink for the link found by its port on LSI-0.
RemoveLink ==
    vlinks' = [vlinks EXCEPT ![group] = RemoveAt(@, Min(LinkOf(group, cur)))]

\* Other NF-FGs still use the LSI: the rule and the link of this one go ...
DestroyInternalLink ==
    /\ pc = "detach" /\ todo # <<>> /\ LinksCounted /\ ~LastUse /\ LinkKnown
    /\ irules' = [irules EXCEPT ![group] = RuleRemoved(@, cur)]
    /\ RemoveLink
    /\ conns' = [conns EXCEPT ![group][cur] = NoPort]
    /\ timesUsed' = [timesUsed EXCEPT ![group] = @ - 1]
    /\ todo' = Tail(todo)
    /\ UNCHANGED <<tenantLSIs, lsi0, created, pc, cur, failed>>

\* ... or the link cannot be destroyed, and only the rule is gone.
DestroyInternalLinkFails ==
    /\ "destroyVirtualLink" \in Failures
    /\ pc = "detach" /\ todo # <<>> /\ LinksCounted /\ ~LastUse /\ LinkKnown
    /\ irules' = [irules EXCEPT ![group] = RuleRemoved(@, cur)]
    /\ pc' = "idle" /\ todo' = <<>>
    /\ failed' = TRUE
    /\ UNCHANGED <<tenantLSIs, lsi0, created, timesUsed, vlinks, conns, cur>>

Deleted ==
    /\ pc = "detach" /\ todo = <<>>
    /\ pc' = "idle"
    /\ UNCHANGED <<tenantLSIs, lsi0, lsis, cur, todo, failed>>

-----------------------------------------------------------------------------
Attach ==
    \/ \E g \in Graphs : NewGraph(g)
    \/ \E p \in FreshPorts : CreateInternalLSI(p) \/ AddInternalLink(p)
    \/ CreateInternalLSIFails \/ AddInternalLinkFails \/ LoweringFails \/ Deployed

Detach ==
    \/ \E g \in Graphs : DeleteGraph(g) \/ DeleteGraphFails(g)
    \/ AssertFails
    \/ DestroyInternalLSI \/ DestroyInternalLSIFails
    \/ DestroyInternalLink \/ DestroyInternalLinkFails \/ Deleted

Next == Attach \/ Detach
Spec == Init /\ [][Next]_vars

-----------------------------------------------------------------------------
TypeOK ==
    /\ tenantLSIs \in SUBSET Graphs /\ lsi0 \in SUBSET Graphs
    /\ created \in [Groups -> BOOLEAN] /\ timesUsed \in [Groups -> Nat]
    /\ vlinks \in [Groups -> Seq(Ports \cup {NoPort})]
    /\ conns \in [Groups -> [Graphs -> Ports \cup {NoPort}]]
    /\ irules \in [Groups -> Seq(NormalRules)]
    /\ pc \in {"idle", "attach", "detach", "aborted"}
    /\ cur \in Graphs /\ todo \in Seq(Groups) /\ failed \in BOOLEAN

\* No NF-FG has two endpoints in one internal group.
EndpointsApart == \A g \in Graphs : IsInjective(EndpointsOf[g])

Users(i) == {g \in tenantLSIs : i \in Range(EndpointsOf[g])}

\* Whatever fails, and whichever NF-FGs come and go, a deployed NF-FG keeps
\* its connection to each of its groups: the internal LSI exists, has the link
\* whose port LSI-0 uses for this NF-FG, for no other NF-FG, and forwards what
\* comes from it.
StillConnected ==
    \A i \in Groups : \A g \in Users(i) :
        /\ created[i] /\ LinkOf(i, g) # {}
        /\ NormalRule(g, conns[i][g]) \in Range(irules[i])
        /\ \A h \in Users(i) \ {g} : conns[i][h] # conns[i][g]

\* The asserts of deleteGraph hold, and the internal LSI it looks up exists, at each
\* endpoint of the NF-FG it deletes: also after failures, unless the group has a link
\* that the switch manager did not create.
AssertsHold ==
    (pc = "detach" /\ todo # <<>> /\ NoPort \notin Range(vlinks[group])) =>
        LinksCounted /\ (~LastUse => LinkKnown)

\* graph_manager.h: timesUsedEndPointsInternal is "the number of graphs that use an
\* internal endpoint", until the first failure, and never less; an internal LSI exists
\* exactly if it is not 0.
CountsGraphs ==
    pc = "idle" => \A i \in Groups :
        /\ timesUsed[i] >= Cardinality(Users(i)) /\ created[i] = (timesUsed[i] > 0)
        /\ ~failed => timesUsed[i] = Cardinality(Users(i))

\* graph.cc, the assert of removeRule: the rules that deleteGraph takes away
\* from LSI-0 are there, also when a deletion is tried again.
DeletionFindsRules == pc # "aborted"
=============================================================================
