--------------------------- MODULE GraphManager ----------------------------
(***************************************************************************)
(* GraphManager: the life of one NF-FG.  newGraph deploys it, updateGraph  *)
(* changes its rules in three parts (updateGraph_add, updateGraph_remove,  *)
(* updateGraph_add_rules), deleteGraph removes it.  Requests come from the *)
(* single thread of the REST server, which survives every exception; a     *)
(* failed assertion ends the process.                                      *)
(*                                                                         *)
(* The network functions, ports and tunnels of a request are those its     *)
(* rules mention.  The internal endpoints of the NF-FG exist as long as    *)
(* the NF-FG does.                                                         *)
(***************************************************************************)
EXTENDS GraphTranslator

CONSTANTS
    Requests,     \* the graphs a request may contain: sequences of rules
    VLinks,       \* identifiers of virtual links
    Failures      \* the calls that may fail

Calls == {"selectImplementation", "addVirtualLink", "addPorts",
          "startNF", "destroyVirtualLink", "destroyPorts", "destroyLsi"}

ASSUME FailuresAreCalls == Failures \subseteq Calls

\* The rules that occur in requests.
AllRules == UNION {Range(rs) : rs \in Requests}

\* A rule leads from a node to a node, and no two rules of a request have the same
\* identifier (graph_parser.cc).
ASSUME RequestsAreGraphs ==
    /\ Requests \subseteq Seq(AllRules)
    /\ \A r \in AllRules : r.from \in Nodes /\ r.to \in Nodes /\ r.tag \in BOOLEAN
    /\ \A rs \in Requests : \A i, j \in 1..Len(rs) : rs[i].id = rs[j].id => i = j

\* An identifier of a link is none of a node, and no node has the port number 0.
ASSUME LinksAreApart ==
    VLinks \cap Nodes = {} /\ NoPort \notin Nodes \cup VLinks

VARIABLES
    deployed,             \* is the NF-FG in tenantLSIs?
    rules,                \* the rules of its high-level graph
    nodes,                \* the network functions, ports and tunnels of that graph
    lsi,                  \* its tenant LSI
    graphLSI0lowLevel,    \* the graph manager's list of the rules of LSI-0
    lsi0,                 \* the list of the controller of LSI-0
    tenant,               \* the list of the controller of the tenant LSI
    pc,                   \* the part of updateGraph that runs
    request,              \* the graph in the last request
    diff,                 \* diff_to_add: the rules the running update adds
    delta,                \* the nodes it adds, then those it removes
    removed,              \* the actions of removed rules (RuleRemovedInfo)
    reply,                \* what the last request returned
    freed,                \* has the compute controller of the NF-FG been deleted?
    alive                 \* does the switch have the tenant LSI?

graphs == <<graphLSI0lowLevel, lsi0, tenant>>

vars == <<deployed, rules, nodes, lsi, graphs, pc, request, diff, delta, removed,
          reply, freed, alive>>

Nobody == [n \in {} |-> NoPort]

NoLSI == [links |-> {}, up |-> Nobody, down |-> Nobody, present |-> {}]

Ids(rs) == {r.id : r \in Range(rs)}

NodesOf(rs) ==
    ({r.from : r \in Range(rs)} \cup {r.to : r \in Range(rs)}) \ Internals

\* Graph::calculateDiffRules: the rules of "other" that "rs" does not have.  Rules
\* are compared by their identifiers only.
calculateDiffRules(rs, other) ==
    FlattenSeq([i \in 1..Len(other) |-> IF other[i].id \in Ids(rs) THEN <<>> ELSE <<other[i]>>])

\* Graph::addGraphToGraph, on the rules.
addGraphToGraph(rs, new) ==
    rs \o new

Init ==
    /\ deployed = FALSE /\ rules = <<>> /\ nodes = {} /\ lsi = NoLSI
    /\ graphLSI0lowLevel = <<>> /\ lsi0 = <<>> /\ tenant = <<>>
    /\ pc = "idle" /\ request = <<>> /\ diff = <<>> /\ delta = {} /\ removed = <<>>
    /\ reply = "none" /\ freed = FALSE /\ alive = FALSE

\* A failed assertion, or undefined behaviour, ends the process.
Abort ==
    /\ pc' = "aborted"
    /\ UNCHANGED <<deployed, rules, nodes, lsi, graphs, request, diff, delta, removed,
                   reply, freed, alive>>

Asserts(rs, l) == \A r \in Range(rs) : AssertsLSI0(r, l) /\ AssertsTenant(r, l)

-----------------------------------------------------------------------------
\* newGraph

\* Up to numberOfVLrequired links, one for the larger of the two directions.
Numbered(links, users) ==
    [n \in Range(users) |-> links[CHOOSE i \in 1..Len(users) : users[i] = n]]

\* The orders of the nodes in S, of which there are at most n.
Visits(S, n) ==
    {s \in UNION {[1..m -> S] : m \in 0..n} : IsInjective(s) /\ Range(s) = S}

\* Network functions are given links before tunnels, ports before internal endpoints.
Orders(first, second, n) ==
    {p[1] \o p[2] : p \in Visits(first, n) \X Visits(second, n)}

CreatedLSI(rs, links, ups, downs) ==
    [links |-> Range(links), up |-> Numbered(links, ups), down |-> Numbered(links, downs),
     present |-> NodesOf(rs) \cap Above]

\* The links are numbered in the order of their creation and of the names of the
\* nodes, so any pairing of an upper and a lower node may share a link.
NewGraph(rs) ==
    /\ pc = "idle" /\ ~deployed
    /\ \E ups \in Orders(upRequired(rs) \cap NFs, upRequired(rs) \cap Gres, Len(rs)),
          downs \in Orders(downRequired(rs) \cap PhyPorts, downRequired(rs) \cap Internals, Len(rs)) :
         LET n == Max({Len(ups), Len(downs)})
         IN  \E links \in Injection(1..n, VLinks) :
               LET l == CreatedLSI(rs, links, ups, downs)
               IN  IF Asserts(rs, l)
                   THEN /\ deployed' = TRUE /\ rules' = rs /\ nodes' = NodesOf(rs) /\ lsi' = l
                        /\ graphLSI0lowLevel' = graphLSI0lowLevel \o lowerGraphToLSI0(rs, l)
                        /\ tenant' = lowerGraphToTenantLSI(rs, l)
                        /\ lsi0' = lsi0 \o lowerGraphToLSI0(rs, l)
                        /\ request' = rs /\ reply' = "ok" /\ freed' = FALSE /\ alive' = TRUE
                        /\ UNCHANGED <<pc, diff, delta, removed>>
                   ELSE Abort

-----------------------------------------------------------------------------
\* updateGraph, part 1: updateGraph_add

Update ==
    pc = "idle" /\ deployed /\ alive

\* The high-level graph is changed before anything else is, and stays changed if the
\* rest fails.
UpdateGraph(rs) ==
    /\ Update
    /\ request' = rs /\ reply' = "none"
    /\ diff' = calculateDiffRules(rules, rs)
    /\ delta' = NodesOf(rs) \ nodes
    /\ rules' = addGraphToGraph(rules, diff') /\ nodes' = nodes \cup delta'
    /\ pc' = "links"
    /\ UNCHANGED <<deployed, lsi, graphs, removed, freed, alive>>

\* No implementation for a new network function: the compute controller is deleted,
\* and the NF-FG keeps its pointer.
SelectImplementationFails(rs) ==
    /\ "selectImplementation" \in Failures
    /\ Update
    /\ (NodesOf(rs) \cap NFs) \ nodes # {}
    /\ request' = rs /\ reply' = "failed"
    /\ rules' = addGraphToGraph(rules, calculateDiffRules(rules, rs))
    /\ nodes' = nodes \cup NodesOf(rs)
    /\ freed' = TRUE
    /\ UNCHANGED <<deployed, lsi, graphs, pc, diff, delta, removed, alive>>

\* The next request for the NF-FG uses what was deleted.
UseFreed ==
    /\ Update /\ freed
    /\ Abort

\* An exception leaves updateGraph, or makes it return false.
Fail ==
    /\ pc' = "idle" /\ reply' = "failed"
    /\ diff' = <<>> /\ delta' = {} /\ removed' = <<>>

OneOf(S) ==
    IF S = {} THEN {{}} ELSE {{x} : x \in S}

\* identifyVirtualLinksRequired for a new piece: nodes that do not have a link yet.
Unlinked ==
    (upRequired(diff) \ DOMAIN lsi.up) \cup (downRequired(diff) \ DOMAIN lsi.down)

\* Who the next link is for: a network function and a port share one; a tunnel or an
\* internal endpoint has its own.
NextUsers ==
    IF Unlinked \cap (NFs \cup PhyPorts) # {}
    THEN {p[1] \cup p[2] : p \in OneOf(Unlinked \cap NFs) \X OneOf(Unlinked \cap PhyPorts)}
    ELSE IF Unlinked \cap Gres # {} THEN OneOf(Unlinked \cap Gres)
    ELSE OneOf(Unlinked)

LinkTo(assoc, users, l) ==
    [n \in users \cup DOMAIN assoc |-> IF n \in users THEN l ELSE assoc[n]]

\* Mutant: the link need not be new.
AddVirtualLinkReused ==
    /\ pc = "links" /\ Unlinked # {}
    /\ \E users \in NextUsers, l \in VLinks :
         lsi' = [lsi EXCEPT !.links = @ \cup {l},
                            !.up = LinkTo(@, users \cap Above, l),
                            !.down = LinkTo(@, users \cap Below, l)]
    /\ UNCHANGED <<deployed, rules, nodes, graphs, pc, request, diff, delta, removed,
                   reply, freed, alive>>

AddVirtualLink ==
    /\ pc = "links" /\ Unlinked # {}
    /\ \E users \in NextUsers, l \in VLinks \ lsi.links :
         lsi' = [lsi EXCEPT !.links = @ \cup {l},
                            !.up = LinkTo(@, users \cap Above, l),
                            !.down = LinkTo(@, users \cap Below, l)]
    /\ UNCHANGED <<deployed, rules, nodes, graphs, pc, request, diff, delta, removed,
                   reply, freed, alive>>

\* The link is in the list of the LSI before the switch manager is called.
AddVirtualLinkFails ==
    /\ "addVirtualLink" \in Failures
    /\ pc = "links" /\ Unlinked # {}
    /\ \E l \in VLinks \ lsi.links : lsi' = [lsi EXCEPT !.links = @ \cup {l}]
    /\ Fail
    /\ UNCHANGED <<deployed, rules, nodes, graphs, request, freed, alive>>

\* The ports of the new network functions and tunnels; the functions are started.
AddPorts ==
    /\ pc = "links" /\ Unlinked = {}
    /\ lsi' = [lsi EXCEPT !.present = @ \cup (delta \cap Above)]
    /\ pc' = "remove"
    /\ UNCHANGED <<deployed, rules, nodes, graphs, request, diff, delta, removed,
                   reply, freed, alive>>

\* One of them fails; those before it are there, and network functions come first.
AddPortsFails ==
    /\ "addPorts" \in Failures
    /\ pc = "links" /\ Unlinked = {}
    /\ \E S \in SUBSET (delta \cap Above) :
         /\ S # delta \cap Above
         /\ S \cap Gres # {} => delta \cap NFs \subseteq S
         /\ lsi' = [lsi EXCEPT !.present = @ \cup S]
    /\ Fail
    /\ UNCHANGED <<deployed, rules, nodes, graphs, request, freed, alive>>

\* A network function does not start: the whole tenant LSI is destroyed, and the
\* NF-FG stays in tenantLSIs.
StartNFFails ==
    /\ "startNF" \in Failures
    /\ pc = "links" /\ Unlinked = {} /\ delta \cap NFs # {}
    /\ lsi' = [lsi EXCEPT !.present = @ \cup (delta \cap Above)]
    /\ alive' = FALSE
    /\ Fail
    /\ UNCHANGED <<deployed, rules, nodes, graphs, request, freed>>

-----------------------------------------------------------------------------
\* updateGraph, part 2: updateGraph_remove

\* Controller::removeRuleFromID and Graph::removeRuleFromID for several rules: an
\* identifier that is not there is ignored.
removeIDs(list, old) ==
    LET left[k \in 0..Len(old)] ==
          IF k = 0 THEN list
          ELSE IF WithID(left[k - 1], old[k].id) = {} THEN left[k - 1]
          ELSE removeRuleFromID(left[k - 1], old[k].id)
    IN  left[Len(old)]

\* Graph::removeGraphFromGraph, on the rules.
removeGraphFromGraph(rs, old) ==
    removeIDs(rs, old)

\* What Graph::removeRuleFromID returns for each rule: the node of its action.
RuleRemovedInfo(old) ==
    [i \in 1..Len(old) |-> old[i].to]

\* Graph::stillUsedEndpointInterface: a port may leave the graph only if no
\* remaining rule uses it.  The same test for network functions compares the
\* identifier in a rule with a name, and finds nothing.
StillUsed(rs) ==
    NodesOf(rs) \cap PhyPorts \cap delta'

\* Mutant: the rules are removed from LSI-0 only.
RemoveRulesLSI0 ==
    /\ pc = "remove"
    /\ LET old == calculateDiffRules(request, rules)
       IN  /\ rules' = removeGraphFromGraph(rules, old)
           /\ delta' = nodes \ NodesOf(request)
           /\ nodes' = nodes \ delta'
           /\ graphLSI0lowLevel' = removeIDs(graphLSI0lowLevel, old)
           /\ lsi0' = removeIDs(lsi0, old)
           /\ removed' = RuleRemovedInfo(old)
    /\ pc' = "unlink"
    /\ UNCHANGED <<deployed, lsi, tenant, request, diff, reply, freed, alive>>

\* Mutant: the rules are not removed from the controller of LSI-0.
RemoveRulesList ==
    /\ pc = "remove"
    /\ LET old == calculateDiffRules(request, rules)
       IN  /\ rules' = removeGraphFromGraph(rules, old)
           /\ delta' = nodes \ NodesOf(request)
           /\ nodes' = nodes \ delta'
           /\ graphLSI0lowLevel' = removeIDs(graphLSI0lowLevel, old)
           /\ tenant' = removeIDs(tenant, old)
           /\ removed' = RuleRemovedInfo(old)
    /\ pc' = "unlink"
    /\ UNCHANGED <<deployed, lsi, lsi0, request, diff, reply, freed, alive>>

\* The rules that the request does not have leave the high-level graph, LSI-0 and
\* the tenant LSI, the nodes it does not have leave the high-level graph.
RemoveRules ==
    /\ pc = "remove"
    /\ LET old == calculateDiffRules(request, rules)
       IN  /\ rules' = removeGraphFromGraph(rules, old)
           /\ delta' = nodes \ NodesOf(request)
           /\ nodes' = nodes \ delta'
           /\ graphLSI0lowLevel' = removeIDs(graphLSI0lowLevel, old)
           /\ lsi0' = removeIDs(lsi0, old)
           /\ tenant' = removeIDs(tenant, old)
           /\ removed' = RuleRemovedInfo(old)
    /\ pc' = IF StillUsed(rules') = {} THEN "unlink" ELSE "aborted"
    /\ UNCHANGED <<deployed, lsi, request, diff, reply, freed, alive>>

\* removeUselessVlinks, for the action of one removed rule.

\* Mutant: the other rules are not looked at.
StillLinkedNever(n) ==
    FALSE

\* Is the node still the action of a rule that needs its link?
StillLinked(n) ==
    n \in upRequired(rules) \cup downRequired(rules)

Associated(n) ==
    n \in DOMAIN lsi.up \cup DOMAIN lsi.down

LinkOf(n) ==
    IF n \in Above THEN lsi.up[n] ELSE lsi.down[n]

\* Does a node of the other direction use the link of the node?
Shared(n) ==
    LinkOf(n) \in IF n \in Above THEN Range(lsi.down) ELSE Range(lsi.up)

Dissociated(n) ==
    [lsi EXCEPT !.up = Restrict(@, DOMAIN @ \ {n}), !.down = Restrict(@, DOMAIN @ \ {n})]

KeepVlink ==
    /\ pc = "unlink" /\ removed # <<>>
    /\ ~Associated(Head(removed)) \/ StillLinked(Head(removed))
    /\ removed' = Tail(removed)
    /\ UNCHANGED <<deployed, rules, nodes, lsi, graphs, pc, request, diff, delta,
                   reply, freed, alive>>

Useless(n) ==
    Associated(n) /\ ~StillLinked(n)

\* Mutants: the link is kept, or the other direction is not looked at.
RemoveVlinkLeak ==
    /\ pc = "unlink" /\ removed # <<>> /\ Useless(Head(removed))
    /\ lsi' = Dissociated(Head(removed))
    /\ removed' = Tail(removed)
    /\ UNCHANGED <<deployed, rules, nodes, graphs, pc, request, diff, delta,
                   reply, freed, alive>>

RemoveVlinkAlways ==
    /\ pc = "unlink" /\ removed # <<>> /\ Useless(Head(removed))
    /\ lsi' = [Dissociated(Head(removed)) EXCEPT !.links = @ \ {LinkOf(Head(removed))}]
    /\ removed' = Tail(removed)
    /\ UNCHANGED <<deployed, rules, nodes, graphs, pc, request, diff, delta,
                   reply, freed, alive>>

\* The node no longer uses its link; the link goes with its last user.
RemoveVlink ==
    /\ pc = "unlink" /\ removed # <<>> /\ Useless(Head(removed))
    /\ LET n == Head(removed)
       IN  lsi' = IF Shared(n) THEN Dissociated(n)
                  ELSE [Dissociated(n) EXCEPT !.links = @ \ {LinkOf(n)}]
    /\ removed' = Tail(removed)
    /\ UNCHANGED <<deployed, rules, nodes, graphs, pc, request, diff, delta,
                   reply, freed, alive>>

\* The exception is not caught by updateGraph: the new rules are not installed.
RemoveVlinkFails ==
    /\ "destroyVirtualLink" \in Failures
    /\ pc = "unlink" /\ removed # <<>> /\ Useless(Head(removed)) /\ ~Shared(Head(removed))
    /\ lsi' = Dissociated(Head(removed))
    /\ Fail
    /\ UNCHANGED <<deployed, rules, nodes, graphs, request, freed, alive>>

\* The tunnels, then the network functions, that left the graph.
DestroyPorts ==
    /\ pc = "unlink" /\ removed = <<>>
    /\ lsi' = [lsi EXCEPT !.present = @ \ delta]
    /\ pc' = "rules"
    /\ UNCHANGED <<deployed, rules, nodes, graphs, request, diff, delta, removed,
                   reply, freed, alive>>

DestroyPortsFails ==
    /\ "destroyPorts" \in Failures
    /\ pc = "unlink" /\ removed = <<>>
    /\ \E S \in SUBSET (delta \cap Above) :
         /\ S # delta \cap Above
         /\ S \cap NFs # {} => delta \cap Gres \subseteq S
         /\ lsi' = [lsi EXCEPT !.present = @ \ S]
    /\ Fail
    /\ UNCHANGED <<deployed, rules, nodes, graphs, request, freed, alive>>

-----------------------------------------------------------------------------
\* updateGraph, part 3: updateGraph_add_rules

LowerableToLSI0(rs) ==
    \A r \in Range(rs) : AssertsLSI0(r, lsi)

\* The first rule that lowerGraphToTenantLSI cannot lower.
Stopper ==
    LET stop == {i \in 1..Len(diff) : ~(KnownNFs(diff[i], lsi) /\ AssertsTenant(diff[i], lsi))}
    IN  IF stop = {} THEN 0 ELSE Min(stop)

AddRules ==
    /\ pc = "rules" /\ LowerableToLSI0(diff) /\ Stopper = 0
    /\ graphLSI0lowLevel' = addRules(graphLSI0lowLevel, lowerGraphToLSI0(diff, lsi))
    /\ lsi0' = addRules(lsi0, lowerGraphToLSI0(diff, lsi))
    /\ tenant' = addRules(tenant, lowerGraphToTenantLSI(diff, lsi))
    /\ pc' = "idle" /\ reply' = "ok" /\ diff' = <<>> /\ delta' = {}
    /\ UNCHANGED <<deployed, rules, nodes, lsi, request, removed, freed, alive>>

\* A network function is not on the tenant LSI: the exception leaves the rules in the
\* graph manager's list.
AddRulesThrows ==
    /\ pc = "rules" /\ LowerableToLSI0(diff)
    /\ Stopper # 0 /\ ~KnownNFs(diff[Stopper], lsi)
    /\ graphLSI0lowLevel' = addRules(graphLSI0lowLevel, lowerGraphToLSI0(diff, lsi))
    /\ Fail
    /\ UNCHANGED <<deployed, rules, nodes, lsi, lsi0, tenant, request, freed, alive>>

AddRulesAborts ==
    /\ pc = "rules"
    /\ LowerableToLSI0(diff) => Stopper # 0 /\ KnownNFs(diff[Stopper], lsi)
    /\ Abort

-----------------------------------------------------------------------------
\* deleteGraph

\* Graph::removeRules, and its assertion.
removeRules(list, gone) ==
    LET left[k \in 0..Len(gone)] ==
          IF k = 0 THEN list
          ELSE IF EqualTo(left[k - 1], gone[k]) = {} THEN left[k - 1]
          ELSE removeRule(left[k - 1], gone[k])
    IN  left[Len(gone)]

Found(list, gone) ==
    Len(removeRules(list, gone)) + Len(gone) = Len(list)

\* The rules of LSI-0 are computed again from the high-level graph and the links.
Lowered ==
    lowerGraphToLSI0(rules, lsi)

Deletable ==
    LowerableToLSI0(rules) /\ Found(graphLSI0lowLevel, Lowered) /\ Found(lsi0, Lowered)

DeleteGraph ==
    /\ Update /\ Deletable
    /\ graphLSI0lowLevel' = removeRules(graphLSI0lowLevel, Lowered)
    /\ lsi0' = removeRules(lsi0, Lowered)
    /\ tenant' = <<>> /\ lsi' = NoLSI /\ rules' = <<>> /\ nodes' = {}
    /\ deployed' = FALSE /\ alive' = FALSE /\ freed' = FALSE
    /\ request' = <<>> /\ reply' = "ok"
    /\ UNCHANGED <<pc, diff, delta, removed>>

DeleteGraphFails ==
    /\ "destroyLsi" \in Failures
    /\ Update /\ Deletable
    /\ graphLSI0lowLevel' = removeRules(graphLSI0lowLevel, Lowered)
    /\ lsi0' = removeRules(lsi0, Lowered)
    /\ request' = <<>> /\ reply' = "failed"
    /\ UNCHANGED <<deployed, rules, nodes, lsi, tenant, pc, diff, delta, removed,
                   freed, alive>>

DeleteGraphAborts ==
    /\ Update /\ ~Deletable
    /\ Abort

-----------------------------------------------------------------------------
Next ==
    \/ \E rs \in Requests :
          NewGraph(rs) \/ UpdateGraph(rs) \/ SelectImplementationFails(rs)
    \/ UseFreed
    \/ AddVirtualLink \/ AddVirtualLinkFails
    \/ AddPorts \/ AddPortsFails \/ StartNFFails
    \/ RemoveRules
    \/ KeepVlink \/ RemoveVlink \/ RemoveVlinkFails
    \/ DestroyPorts \/ DestroyPortsFails
    \/ AddRules \/ AddRulesThrows \/ AddRulesAborts
    \/ DeleteGraph \/ DeleteGraphFails \/ DeleteGraphAborts

Spec == Init /\ [][Next]_vars

-----------------------------------------------------------------------------
Assoc(S) == UNION {[D -> VLinks] : D \in SUBSET S}

\* The state has its types: in particular the tenant LSI associates upper nodes and
\* lower nodes with links, each direction on its own.
TypeOK ==
    /\ deployed \in BOOLEAN /\ freed \in BOOLEAN /\ alive \in BOOLEAN
    /\ rules \in Seq(AllRules) /\ diff \in Seq(AllRules) /\ request \in Seq(AllRules)
    /\ nodes \subseteq Nodes \ Internals /\ delta \subseteq Nodes \ Internals
    /\ lsi.links \subseteq VLinks /\ lsi.present \subseteq Above
    /\ lsi.up \in Assoc(Above) /\ lsi.down \in Assoc(Below)
    /\ removed \in Seq(Nodes)
    /\ pc \in {"idle", "links", "remove", "unlink", "rules", "aborted"}
    /\ reply \in {"none", "ok", "failed"}

\* After a request that was answered with success, LSI-0 and the tenant LSI forward
\* every packet where the rules of that request say, with each tag once, and nothing
\* else (newGraph, updateGraph, deleteGraph and the lowering taken together).
UpdateDone ==
    pc = "idle" /\ reply = "ok" => Realises(lsi0, tenant, lsi.links, request)

\* While an update runs, the traffic of the rules that it neither adds nor removes
\* is never interrupted: links are added before and removed after the rules change,
\* and a link goes only with its last user.
KeptTraffic ==
    pc \in {"links", "remove", "unlink", "rules"} =>
        \A r \in Range(rules) : r.id \in Ids(request) \ Ids(diff) =>
            \A cls \in {r.cls} \ {AnyClass} :
                Forward(lsi0, tenant, lsi.links, r.from, cls) = Wanted(<<r>>, r.from, cls)

\* Between requests the virtual links are exactly those the rules need: every node
\* that needs one is associated, nothing else is, and no link is without a user
\* (identifyVirtualLinksRequired against removeUselessVlinks).
LinksExact ==
    pc = "idle" =>
        /\ DOMAIN lsi.up = upRequired(rules)
        /\ DOMAIN lsi.down = downRequired(rules)
        /\ lsi.links = Range(lsi.up) \cup Range(lsi.down)

\* No two network functions or tunnels receive over one link, and no two ports or
\* internal endpoints: the other LSI could not tell their traffic apart.
NotShared ==
    IsInjective(lsi.up) /\ IsInjective(lsi.down)

LinksOf(list) ==
    (UNION {{r.match[1], r.out} : r \in Range(list)}) \cap VLinks

\* An installed rule never refers to a link that the tenant LSI does not have, on
\* whatever path a request fails: removeUselessVlinks runs after the rules are gone.
RulesOnLiveLinks ==
    LinksOf(lsi0) \cup LinksOf(tenant) \subseteq lsi.links

\* Whatever fails, the switches never forward a packet where the description of the
\* NF-FG (what a GET returns) does not send it: rules leave the description and the
\* controllers together, and enter the description first.
NoStray ==
    \A n \in Nodes, cls \in Classes :
        Forward(lsi0, tenant, lsi.links, n, cls) \subseteq Wanted(rules, n, cls)

\* Whatever fails, the graph manager's list of the rules of LSI-0 has every rule of the
\* controller of LSI-0: an update that stops between the two leaves rules in the list
\* only, and these never hide a rule of the controller from a later removal.
ListCovers ==
    Range(lsi0) \subseteq Range(graphLSI0lowLevel)

\* No assertion of the graph manager, of the translator or of the rule lists fails.
AssertsHold ==
    pc # "aborted"
=============================================================================
