------------------------ MODULE GraphManagerProofs -------------------------
(***************************************************************************)
(* Proofs about GraphManager, for any graphs in requests, any number of    *)
(* requests and whatever calls fail.                                       *)
(***************************************************************************)
EXTENDS GraphTranslatorProofs

Steps == {"links", "remove", "unlink", "rules"}

Typed ==
    /\ rules \in Seq(AllRules) /\ diff \in Seq(AllRules) /\ request \in Seq(AllRules)
    /\ nodes \subseteq Nodes /\ delta \subseteq Nodes
    /\ lsi \in LSIs
    /\ removed \in Seq(Nodes)
    /\ graphLSI0lowLevel \in Seq(LowRules) /\ lsi0 \in Seq(LowRules) /\ tenant \in Seq(LowRules)
    /\ pc \in Steps \cup {"idle", "aborted"}

\* The rules an update adds are in the description and not yet on the switches.
Adding ==
    /\ Range(diff) \subseteq Range(rules)
    /\ Ids(diff) \subseteq Ids(request)
    /\ Ids(diff) \cap Ids(lsi0) = {} /\ Ids(diff) \cap Ids(tenant) = {}
    /\ Identified(diff)

GInv ==
    /\ Typed
    /\ Wired(lsi)
    /\ Identified(rules) /\ Identified(lsi0) /\ Identified(tenant)
    /\ Justified(lsi0, rules, lsi) /\ JustifiedTenant(tenant, rules, lsi)
    /\ pc \in Steps => Adding
    /\ pc = "idle" => diff = <<>>
    /\ ~deployed => rules = <<>> /\ lsi0 = <<>> /\ tenant = <<>> /\ pc \notin Steps
    /\ Range(lsi0) \subseteq Range(graphLSI0lowLevel)

-----------------------------------------------------------------------------
\* The invariant

\* A step that changes nothing but the tenant LSI and the place in updateGraph, and
\* keeps the links of the rules of the description.
Quiet ==
    /\ UNCHANGED <<deployed, rules, nodes, graphs, request>>
    /\ diff' \in {diff, <<>>} /\ delta' \in {delta, {}}
    /\ removed' \in Seq(Nodes)
    /\ pc' \in Steps \cup {"idle", "aborted"}
    /\ pc' \in Steps => pc \in Steps /\ diff' = diff
    /\ pc' = "idle" => diff' = <<>>

LEMMA QuietStep ==
    ASSUME GInv, Quiet, lsi' \in LSIs, Wired(lsi'),
           \A h \in Range(rules) : Linked(h, lsi) => SameLink(h, lsi, lsi')
    PROVE  GInv'
<1>1. Typed'
  <2>1. diff' \in Seq(AllRules)
    <3>1. <<>> \in Seq(AllRules) /\ diff \in Seq(AllRules)
      BY DEF GInv, Typed
    <3>2. diff' = diff \/ diff' = <<>>
      BY DEF Quiet
    <3> QED BY <3>1, <3>2, Zenon
  <2>2. delta' \subseteq Nodes
    BY DEF GInv, Typed, Quiet
  <2> QED BY <2>1, <2>2, Zenon DEF GInv, Typed, Quiet, graphs
<1> UNCHANGED <<rules, lsi0, tenant, graphLSI0lowLevel, deployed, request>>
  BY DEF Quiet, graphs
<1>3. Justified(lsi0, rules, lsi') /\ JustifiedTenant(tenant, rules, lsi')
  <2>1. rules \in Seq(AllRules) /\ lsi \in LSIs
    BY DEF GInv, Typed
  <2>2. Justified(lsi0, rules, lsi) /\ JustifiedTenant(tenant, rules, lsi)
    BY DEF GInv
  <2> QED BY <2>1, <2>2, LinksKept, Zenon DEF StaysJustified
<1>4. Justified(lsi0, rules, lsi)' /\ JustifiedTenant(tenant, rules, lsi)'
  BY <1>3, Zenon
<1>5. Identified(rules)' /\ Identified(lsi0)' /\ Identified(tenant)'
  BY Zenon DEF GInv
<1>6. pc' \in Steps => Adding'
  <2>1. SUFFICES ASSUME pc' \in Steps PROVE Adding'
    OBVIOUS
  <2>2. Adding /\ diff' = diff
    BY <2>1 DEF GInv, Quiet
  <2> QED BY <2>2, Zenon DEF Adding
<1>7. ~deployed' => rules' = <<>> /\ lsi0' = <<>> /\ tenant' = <<>> /\ pc' \notin Steps
  BY DEF GInv, Quiet
<1>8. (Range(lsi0) \subseteq Range(graphLSI0lowLevel))'
  BY Zenon DEF GInv
<1>9. Wired(lsi)' /\ (pc' = "idle" => diff' = <<>>)
  BY Zenon DEF Quiet
<1> QED BY <1>1, <1>4, <1>5, <1>6, <1>7, <1>8, <1>9 DEF GInv

LEMMA SameLSI ==
    ASSUME GInv, Quiet, lsi' = lsi
    PROVE  GInv'
<1>1. lsi' \in LSIs /\ Wired(lsi')
  BY DEF GInv, Typed
<1>2. \A h \in Range(rules) : Linked(h, lsi) => SameLink(h, lsi, lsi')
  BY Zenon DEF SameLink
<1> QED BY <1>1, <1>2, QuietStep

\* A step that keeps the associations of links.
LEMMA SameAssociations ==
    ASSUME GInv, Quiet, lsi' \in LSIs, lsi'.up = lsi.up, lsi'.down = lsi.down,
           lsi.links \subseteq lsi'.links
    PROVE  GInv'
<1>1. Wired(lsi')
  BY DEF GInv, Wired
<1>2. \A h \in Range(rules) : Linked(h, lsi) => SameLink(h, lsi, lsi')
  BY Zenon DEF SameLink, Linked
<1> QED BY <1>1, <1>2, QuietStep

LEMMA UseFreedGInv == ASSUME GInv, UseFreed PROVE GInv'
<1>1. Quiet /\ lsi' = lsi
  BY DEF UseFreed, Abort, Quiet, GInv, Typed, graphs, Steps
<1> QED BY <1>1, SameLSI

LEMMA AddVirtualLinkFailsGInv == ASSUME GInv, AddVirtualLinkFails PROVE GInv'
<1>1. Quiet
  BY DEF AddVirtualLinkFails, Fail, Quiet, graphs, Steps
<1>2. PICK v \in VLinks : lsi' = [lsi EXCEPT !.links = @ \cup {v}]
  BY DEF AddVirtualLinkFails
<1>3. /\ lsi' \in LSIs /\ lsi'.up = lsi.up /\ lsi'.down = lsi.down
      /\ lsi.links \subseteq lsi'.links
  BY <1>2, Zenon DEF GInv, Typed, LSIs
<1> QED BY <1>1, <1>3, SameAssociations

LEMMA AddPortsGInv == ASSUME GInv, AddPorts PROVE GInv'
<1>1. Quiet
  BY DEF AddPorts, Quiet, graphs, Steps, GInv, Typed
<1>2. /\ lsi' \in LSIs /\ lsi'.up = lsi.up /\ lsi'.down = lsi.down
      /\ lsi.links \subseteq lsi'.links
  BY Zenon DEF AddPorts, GInv, Typed, LSIs
<1> QED BY <1>1, <1>2, SameAssociations

LEMMA AddPortsFailsGInv == ASSUME GInv, AddPortsFails PROVE GInv'
<1>1. Quiet
  BY DEF AddPortsFails, Fail, Quiet, graphs, Steps
<1>2. /\ lsi' \in LSIs /\ lsi'.up = lsi.up /\ lsi'.down = lsi.down
      /\ lsi.links \subseteq lsi'.links
  BY Zenon DEF AddPortsFails, GInv, Typed, LSIs
<1> QED BY <1>1, <1>2, SameAssociations

LEMMA StartNFFailsGInv == ASSUME GInv, StartNFFails PROVE GInv'
<1>1. Quiet
  BY DEF StartNFFails, Fail, Quiet, graphs, Steps
<1>2. /\ lsi' \in LSIs /\ lsi'.up = lsi.up /\ lsi'.down = lsi.down
      /\ lsi.links \subseteq lsi'.links
  BY Zenon DEF StartNFFails, GInv, Typed, LSIs
<1> QED BY <1>1, <1>2, SameAssociations

LEMMA KeepVlinkGInv == ASSUME GInv, KeepVlink PROVE GInv'
<1>1. removed' \in Seq(Nodes)
  BY DEF KeepVlink, GInv, Typed
<1>2. Quiet /\ lsi' = lsi
  BY <1>1 DEF KeepVlink, Quiet, graphs, Steps
<1> QED BY <1>2, SameLSI

LEMMA DestroyPortsGInv == ASSUME GInv, DestroyPorts PROVE GInv'
<1>1. Quiet
  BY DEF DestroyPorts, Quiet, graphs, Steps, GInv, Typed
<1>2. /\ lsi' \in LSIs /\ lsi'.up = lsi.up /\ lsi'.down = lsi.down
      /\ lsi.links \subseteq lsi'.links
  BY Zenon DEF DestroyPorts, GInv, Typed, LSIs
<1> QED BY <1>1, <1>2, SameAssociations

LEMMA DestroyPortsFailsGInv == ASSUME GInv, DestroyPortsFails PROVE GInv'
<1>1. Quiet
  BY DEF DestroyPortsFails, Fail, Quiet, graphs, Steps
<1>2. /\ lsi' \in LSIs /\ lsi'.up = lsi.up /\ lsi'.down = lsi.down
      /\ lsi.links \subseteq lsi'.links
  BY Zenon DEF DestroyPortsFails, GInv, Typed, LSIs
<1> QED BY <1>1, <1>2, SameAssociations

LEMMA AddRulesAbortsGInv == ASSUME GInv, AddRulesAborts PROVE GInv'
<1>1. Quiet /\ lsi' = lsi
  BY DEF AddRulesAborts, Abort, Quiet, GInv, Typed, graphs, Steps
<1> QED BY <1>1, SameLSI

LEMMA DeleteGraphAbortsGInv == ASSUME GInv, DeleteGraphAborts PROVE GInv'
<1>1. Quiet /\ lsi' = lsi
  BY DEF DeleteGraphAborts, Abort, Quiet, GInv, Typed, graphs, Steps
<1> QED BY <1>1, SameLSI

LEMMA AddVirtualLinkGInv == ASSUME GInv, AddVirtualLink PROVE GInv'
<1>1. Quiet
  BY DEF AddVirtualLink, Quiet, graphs, Steps, GInv, Typed
<1>2. PICK users \in NextUsers, v \in VLinks \ lsi.links :
         lsi' = [lsi EXCEPT !.links = @ \cup {v},
                            !.up = LinkTo(@, users \cap Above, v),
                            !.down = LinkTo(@, users \cap Below, v)]
  BY Zenon DEF AddVirtualLink
<1>3. lsi \in LSIs /\ Wired(lsi)
  BY DEF GInv, Typed
<1>4. PICK up, down : up = LinkTo(lsi.up, users \cap Above, v)
                      /\ down = LinkTo(lsi.down, users \cap Below, v)
  BY Zenon
<1>5. lsi.up \in Assoc(Above) /\ lsi.down \in Assoc(Below) /\ lsi.links \subseteq VLinks
  BY <1>3 DEF LSIs
<1>6. /\ IsInjective(lsi.up) /\ IsInjective(lsi.down)
      /\ Range(lsi.up) \subseteq lsi.links /\ Range(lsi.down) \subseteq lsi.links
  BY <1>3 DEF Wired
<1>7. v \in VLinks /\ v \notin Range(lsi.up) /\ v \notin Range(lsi.down)
  BY <1>6
<1>8. /\ \A n \in users \cap Above : n \notin DOMAIN lsi.up
      /\ \A n \in users \cap Below : n \notin DOMAIN lsi.down
      /\ \A n, m \in users \cap Above : n = m
      /\ \A n, m \in users \cap Below : n = m
  BY NewUsers, Zenon DEF FreshUsers
<1>9. /\ up \in Assoc(Above) /\ IsInjective(up) /\ Range(up) \subseteq Range(lsi.up) \cup {v}
      /\ DOMAIN up = (users \cap Above) \cup DOMAIN lsi.up
      /\ \A n \in DOMAIN lsi.up : up[n] = lsi.up[n]
  <2>1. PICK S : S = users \cap Above
    BY Zenon
  <2>2. S \subseteq Above /\ (\A n, m \in S : n = m) /\ (\A n \in S : n \notin DOMAIN lsi.up)
    BY <1>8, <2>1
  <2>3. up = LinkTo(lsi.up, S, v)
    BY <1>4, <2>1, Zenon
  <2>4. Gains(up, lsi.up, Above, S, v)
    BY <1>5, <1>6, <1>7, <2>2, <2>3, LinkToWired, Zenon
  <2> QED BY <2>1, <2>4, Zenon DEF Gains
<1>10. /\ down \in Assoc(Below) /\ IsInjective(down)
       /\ Range(down) \subseteq Range(lsi.down) \cup {v}
       /\ DOMAIN down = (users \cap Below) \cup DOMAIN lsi.down
       /\ \A n \in DOMAIN lsi.down : down[n] = lsi.down[n]
  <2>1. PICK S : S = users \cap Below
    BY Zenon
  <2>2. S \subseteq Below /\ (\A n, m \in S : n = m) /\ (\A n \in S : n \notin DOMAIN lsi.down)
    BY <1>8, <2>1
  <2>3. down = LinkTo(lsi.down, S, v)
    BY <1>4, <2>1, Zenon
  <2>4. Gains(down, lsi.down, Below, S, v)
    BY <1>5, <1>6, <1>7, <2>2, <2>3, LinkToWired, Zenon
  <2> QED BY <2>1, <2>4, Zenon DEF Gains
<1>11. lsi'.up = up /\ lsi'.down = down /\ lsi'.links = lsi.links \cup {v}
       /\ lsi'.present = lsi.present
  BY <1>2, <1>3, <1>4, Zenon DEF LSIs
<1>12. lsi' \in LSIs
  BY <1>2, <1>3, <1>4, <1>9, <1>10, Zenon DEF LSIs
<1>13. Wired(lsi')
  BY <1>6, <1>9, <1>10, <1>11 DEF Wired
<1>14. \A h \in Range(rules) : Linked(h, lsi) => SameLink(h, lsi, lsi')
  BY <1>9, <1>10, <1>11, Zenon DEF SameLink, Linked
<1> QED BY <1>1, <1>12, <1>13, <1>14, QuietStep

\* A node that no rule needs a link for loses its link.
LEMMA Unlinking ==
    ASSUME GInv, Quiet, NEW n \in Nodes, ~StillLinked(n),
           lsi' \in [links : SUBSET lsi.links,
                    up : {Restrict(lsi.up, DOMAIN lsi.up \ {n})},
                    down : {Restrict(lsi.down, DOMAIN lsi.down \ {n})},
                    present : {lsi.present}],
           \A v \in lsi.links \ lsi'.links :
               /\ n \in DOMAIN lsi.up => v = lsi.up[n] /\ v \notin Range(lsi.down)
               /\ n \in DOMAIN lsi.down => v = lsi.down[n] /\ v \notin Range(lsi.up)
               /\ n \in DOMAIN lsi.up \cup DOMAIN lsi.down
    PROVE  GInv'
<1>1. lsi \in LSIs /\ Wired(lsi)
  BY DEF GInv, Typed
<1>2. lsi.up \in Assoc(Above) /\ lsi.down \in Assoc(Below) /\ lsi.links \subseteq VLinks
      /\ lsi.present \subseteq Above
  BY <1>1 DEF LSIs
<1>3. /\ IsInjective(lsi.up) /\ IsInjective(lsi.down)
      /\ Range(lsi.up) \subseteq lsi.links /\ Range(lsi.down) \subseteq lsi.links
  BY <1>1 DEF Wired
<1>4. PICK up, down : /\ up = Restrict(lsi.up, DOMAIN lsi.up \ {n})
                      /\ down = Restrict(lsi.down, DOMAIN lsi.down \ {n})
  BY Zenon
<1>5. /\ up \in Assoc(Above) /\ IsInjective(up) /\ DOMAIN up = DOMAIN lsi.up \ {n}
      /\ \A m \in DOMAIN up : up[m] = lsi.up[m]
      /\ Range(up) \subseteq Range(lsi.up)
      /\ n \in DOMAIN lsi.up => lsi.up[n] \notin Range(up)
  <2>1. Loses(up, lsi.up, Above, n)
    BY <1>2, <1>3, <1>4, Unassociated, Zenon
  <2> QED BY <2>1, Zenon DEF Loses
<1>6. /\ down \in Assoc(Below) /\ IsInjective(down) /\ DOMAIN down = DOMAIN lsi.down \ {n}
      /\ \A m \in DOMAIN down : down[m] = lsi.down[m]
      /\ Range(down) \subseteq Range(lsi.down)
      /\ n \in DOMAIN lsi.down => lsi.down[n] \notin Range(down)
  <2>1. Loses(down, lsi.down, Below, n)
    BY <1>2, <1>3, <1>4, Unassociated, Zenon
  <2> QED BY <2>1, Zenon DEF Loses
<1>7. /\ lsi'.up = up /\ lsi'.down = down /\ lsi'.present = lsi.present
      /\ lsi'.links \subseteq lsi.links
      /\ lsi' = [links |-> lsi'.links, up |-> up, down |-> down, present |-> lsi.present]
  BY <1>4
<1>8. lsi' \in LSIs
  BY <1>2, <1>5, <1>6, <1>7 DEF LSIs
<1>9. Wired(lsi')
  BY <1>3, <1>5, <1>6, <1>7 DEF Wired
<1>10. ASSUME NEW h \in Range(rules), Linked(h, lsi) PROVE SameLink(h, lsi, lsi')
  <2>1. n \notin upRequired(rules) /\ n \notin downRequired(rules)
    BY Zenon DEF StillLinked
  <2>2. h.from \in Below /\ h.to \in Above => h.to # n
    BY <2>1 DEF upRequired
  <2>3. h.from \in Above /\ h.to \in Below => h.to # n
    BY <2>1 DEF downRequired
  <2> QED BY <1>5, <1>6, <1>7, <1>10, <2>2, <2>3 DEF SameLink, Linked
<1> QED BY <1>1, <1>8, <1>9, <1>10, QuietStep

LEMMA UnlinkStep ==
    ASSUME GInv, removed # <<>>
    PROVE  Head(removed) \in Nodes /\ Tail(removed) \in Seq(Nodes)
BY DEF GInv, Typed

LEMMA RemoveVlinkGInv == ASSUME GInv, RemoveVlink PROVE GInv'
<1>1. Quiet
  BY UnlinkStep DEF RemoveVlink, Quiet, graphs, Steps, GInv, Typed
<1>2. PICK n \in Nodes : n = Head(removed) /\ Useless(n)
  BY UnlinkStep DEF RemoveVlink
<1>3. lsi' = IF Shared(n) THEN Dissociated(n)
             ELSE [Dissociated(n) EXCEPT !.links = @ \ {LinkOf(n)}]
  BY <1>2 DEF RemoveVlink
<1> Associated(n) /\ ~StillLinked(n)
  BY <1>2 DEF Useless
<1>5. lsi \in LSIs
  BY DEF GInv, Typed
<1> PICK up, down : /\ up = Restrict(lsi.up, DOMAIN lsi.up \ {n})
                      /\ down = Restrict(lsi.down, DOMAIN lsi.down \ {n})
  BY Zenon
<1>7. Dissociated(n) = [lsi EXCEPT !.up = up, !.down = down]
  BY Zenon DEF Dissociated
<1>8. lsi = [links |-> lsi.links, up |-> lsi.up, down |-> lsi.down, present |-> lsi.present]
  BY <1>5 DEF LSIs
<1>9. Dissociated(n) = [links |-> lsi.links, up |-> up, down |-> down, present |-> lsi.present]
  BY <1>7, <1>8, Zenon
<1>10. CASE Shared(n)
  <2>1. lsi' = [links |-> lsi.links, up |-> up, down |-> down, present |-> lsi.present]
    BY <1>3, <1>9, <1>10
  <2> QED BY <1>1, <2>1, Unlinking
<1>11. CASE ~Shared(n)
  <2>1. lsi' = [links |-> lsi.links \ {LinkOf(n)}, up |-> up, down |-> down,
                present |-> lsi.present]
    BY <1>3, <1>9, <1>11
  <2>2. \A v \in lsi.links \ lsi'.links : v = LinkOf(n)
    BY <2>1
  <2>3. \A v \in lsi.links \ lsi'.links :
               /\ n \in DOMAIN lsi.up => v = lsi.up[n] /\ v \notin Range(lsi.down)
               /\ n \in DOMAIN lsi.down => v = lsi.down[n] /\ v \notin Range(lsi.up)
               /\ n \in DOMAIN lsi.up \cup DOMAIN lsi.down
    BY <1>5, <1>11, <2>2, Looked, Zenon DEF Looks
  <2> QED BY <1>1, <2>1, <2>3, Unlinking
<1> QED BY <1>10, <1>11

LEMMA RemoveVlinkFailsGInv == ASSUME GInv, RemoveVlinkFails PROVE GInv'
<1>1. Quiet
  BY DEF RemoveVlinkFails, Fail, Quiet, graphs, Steps
<1>2. PICK n \in Nodes : n = Head(removed) /\ Useless(n)
  BY UnlinkStep DEF RemoveVlinkFails
<1>3. lsi' = Dissociated(n)
  BY <1>2 DEF RemoveVlinkFails
<1>4. ~StillLinked(n)
  BY <1>2 DEF Useless
<1>5. lsi = [links |-> lsi.links, up |-> lsi.up, down |-> lsi.down, present |-> lsi.present]
  BY DEF LSIs, GInv, Typed
<1>6. PICK up, down : /\ up = Restrict(lsi.up, DOMAIN lsi.up \ {n})
                      /\ down = Restrict(lsi.down, DOMAIN lsi.down \ {n})
  BY Zenon
<1>7. Dissociated(n) = [lsi EXCEPT !.up = up, !.down = down]
  BY <1>6, Zenon DEF Dissociated
<1>8. lsi' = [links |-> lsi.links, up |-> up, down |-> down, present |-> lsi.present]
  BY <1>3, <1>5, <1>7, Zenon
<1> QED BY <1>1, <1>4, <1>6, <1>8, Unlinking

-----------------------------------------------------------------------------
\* Steps that change the description or the lists of rules

LEMMA InitGInv == ASSUME Init PROVE GInv
<1>1. Typed
  BY Emptied DEF Init, Typed
<1>2. /\ Wired(lsi) /\ Identified(rules) /\ Identified(lsi0) /\ Identified(tenant)
      /\ Justified(lsi0, rules, lsi) /\ JustifiedTenant(tenant, rules, lsi)
  BY Emptied, Zenon DEF Init
<1>3. /\ pc \notin Steps /\ (pc = "idle" => diff = <<>>)
      /\ (~deployed => rules = <<>> /\ lsi0 = <<>> /\ tenant = <<>> /\ pc \notin Steps)
      /\ Range(lsi0) \subseteq Range(graphLSI0lowLevel)
  BY DEF Init, Steps
<1> QED BY <1>1, <1>2, <1>3 DEF GInv

\* updateGraph_add: what joins the description.
Merges(d, rs) ==
    /\ d \in Seq(AllRules) /\ rules \o d \in Seq(AllRules)
    /\ Identified(d) /\ Identified(rules \o d)
    /\ Range(rules) \subseteq Range(rules \o d) /\ Range(d) \subseteq Range(rules \o d)
    /\ Ids(d) \subseteq Ids(rs) /\ Ids(d) \cap Ids(rules) = {}
    /\ rs \in Seq(AllRules) /\ NodesOf(rs) \subseteq Nodes

LEMMA Merged ==
    ASSUME GInv, NEW rs \in Requests
    PROVE  Merges(calculateDiffRules(rules, rs), rs)
<1>1. rs \in Seq(AllRules) /\ Identified(rs)
  BY RequestsAreGraphs DEF Identified
<1>2. rules \in Seq(AllRules) /\ Identified(rules)
  BY DEF GInv, Typed
<1>3. PICK d : d = calculateDiffRules(rules, rs)
  OBVIOUS
<1>4. /\ d \in Seq(AllRules)
      /\ \A q : q \in Range(d) <=> q \in Range(rs) /\ q.id \notin Ids(rules)
      /\ Identified(d)
  BY <1>1, <1>3, Differing, Zenon DEF Differs
<1>5. Ids(d) \subseteq Ids(rs) /\ Ids(d) \cap Ids(rules) = {}
  BY <1>4 DEF Ids
<1>6. Ids(rules) \cap Ids(d) = {}
  BY <1>5
<1>7. /\ rules \o d \in Seq(AllRules) /\ Range(rules \o d) = Range(rules) \cup Range(d)
      /\ Identified(rules \o d)
  <2>1. rules \o d \in Seq(AllRules) /\ Joins(rules \o d, rules, d)
    BY <1>2, <1>4, Joined, Zenon
  <2> QED BY <1>2, <1>4, <1>6, <2>1, Zenon DEF Joins
<1>8. NodesOf(rs) \subseteq Nodes
  BY <1>1, NodesTyped, Zenon
<1>9. Range(rules) \subseteq Range(rules \o d) /\ Range(d) \subseteq Range(rules \o d)
  BY <1>7
<1> QED BY <1>1, <1>3, <1>4, <1>5, <1>7, <1>8, <1>9, Zenon DEF Merges

\* The identifiers on the switches.
LEMMA SwitchIds ==
    ASSUME GInv
    PROVE  Ids(lsi0) \subseteq Ids(rules) /\ Ids(tenant) \subseteq Ids(rules)
BY JustifiedIds DEF GInv, Typed, HasIds

LEMMA UpdateGraphGInv ==
    ASSUME GInv, NEW rs \in Requests, UpdateGraph(rs)
    PROVE  GInv'
<1>1. PICK d : d = calculateDiffRules(rules, rs)
  OBVIOUS
<1> Merges(d, rs)
  BY <1>1, Merged, Zenon
<1> /\ request' = rs /\ diff' = d /\ delta' = NodesOf(rs) \ nodes
      /\ rules' = rules \o d /\ nodes' = nodes \cup delta'
      /\ pc' = "links" /\ deployed' /\ lsi' = lsi /\ lsi0' = lsi0 /\ tenant' = tenant
      /\ graphLSI0lowLevel' = graphLSI0lowLevel /\ removed' = removed
  BY <1>1 DEF UpdateGraph, Update, graphs, addGraphToGraph
<1>4. Typed'
  BY DEF GInv, Typed, Steps, Merges
<1>5. Justified(lsi0, rules \o d, lsi) /\ JustifiedTenant(tenant, rules \o d, lsi)
  BY MoreRules, Zenon DEF GInv, Merges, JustifiedByMore
<1>6. Adding'
  <2>1. Ids(d) \cap Ids(lsi0) = {} /\ Ids(d) \cap Ids(tenant) = {}
    BY SwitchIds DEF Merges
  <2>2. (Ids(diff))' = Ids(d) /\ (Ids(request))' = Ids(rs) /\ (Ids(lsi0))' = Ids(lsi0)
        /\ (Ids(tenant))' = Ids(tenant) /\ Identified(diff)' = Identified(d)
        /\ (Range(diff))' = Range(d) /\ (Range(rules))' = Range(rules \o d)
    BY Zenon DEF Ids, Identified, Range
  <2> QED BY <2>1, <2>2, Zenon DEF Adding, Merges
<1>7. /\ Wired(lsi)' /\ Identified(rules)' /\ Identified(lsi0)' /\ Identified(tenant)'
      /\ Justified(lsi0, rules, lsi)' /\ JustifiedTenant(tenant, rules, lsi)'
  BY <1>5, Zenon DEF GInv, Merges
<1>8. (Range(lsi0) \subseteq Range(graphLSI0lowLevel))'
  BY DEF GInv
<1> QED BY <1>4, <1>6, <1>7, <1>8, Zenon DEF GInv

LEMMA SelectImplementationFailsGInv ==
    ASSUME GInv, NEW rs \in Requests, SelectImplementationFails(rs)
    PROVE  GInv'
<1>1. PICK d : d = calculateDiffRules(rules, rs)
  OBVIOUS
<1> Merges(d, rs)
  BY <1>1, Merged, Zenon
<1> /\ request' = rs /\ diff' = diff /\ delta' = delta
      /\ rules' = rules \o d /\ nodes' = nodes \cup NodesOf(rs)
      /\ pc' = pc /\ pc = "idle" /\ deployed' /\ lsi' = lsi /\ lsi0' = lsi0 /\ tenant' = tenant
      /\ graphLSI0lowLevel' = graphLSI0lowLevel /\ removed' = removed
  BY <1>1 DEF SelectImplementationFails, Update, graphs, addGraphToGraph
<1>4. Typed'
  BY DEF GInv, Typed, Steps, Merges
<1>5. Justified(lsi0, rules \o d, lsi) /\ JustifiedTenant(tenant, rules \o d, lsi)
  BY MoreRules, Zenon DEF GInv, Merges, JustifiedByMore
<1>6. /\ Wired(lsi)' /\ Identified(rules)' /\ Identified(lsi0)' /\ Identified(tenant)'
      /\ Justified(lsi0, rules, lsi)' /\ JustifiedTenant(tenant, rules, lsi)'
  BY <1>5, Zenon DEF GInv, Merges
<1>7. (Range(lsi0) \subseteq Range(graphLSI0lowLevel))'
  BY DEF GInv
<1>8. pc' \notin Steps /\ (pc' = "idle" => diff' = <<>>)
  BY DEF GInv, Steps
<1> QED BY <1>4, <1>6, <1>7, <1>8, Zenon DEF GInv

LEMMA RemoveRulesGInv == ASSUME GInv, RemoveRules PROVE GInv'
<1>1. PICK old : old = calculateDiffRules(request, rules)
  OBVIOUS
<1> /\ rules \in Seq(AllRules) /\ Identified(rules) /\ Identified(lsi0) /\ Identified(tenant)
      /\ lsi0 \in Seq(LowRules) /\ tenant \in Seq(LowRules)
      /\ graphLSI0lowLevel \in Seq(LowRules)
      /\ lsi \in LSIs /\ Wired(lsi)
      /\ Justified(lsi0, rules, lsi) /\ JustifiedTenant(tenant, rules, lsi)
  BY DEF GInv, Typed
<1> /\ old \in Seq(AllRules)
      /\ \A q : q \in Range(old) <=> q \in Range(rules) /\ q.id \notin Ids(request)
  BY <1>1, Differing, Zenon DEF Differs
<1> /\ rules' = removeIDs(rules, old) /\ delta' = nodes \ NodesOf(request)
      /\ nodes' = nodes \ delta' /\ graphLSI0lowLevel' = removeIDs(graphLSI0lowLevel, old)
      /\ lsi0' = removeIDs(lsi0, old) /\ tenant' = removeIDs(tenant, old)
      /\ removed' = RuleRemovedInfo(old)
      /\ pc' \in {"unlink", "aborted"} /\ pc = "remove"
      /\ deployed' = deployed /\ lsi' = lsi /\ request' = request /\ diff' = diff
  BY <1>1 DEF RemoveRules, removeGraphFromGraph
<1> rules' \in Seq(AllRules) /\ Prunes(rules', rules, old)
  BY RemovedIDs, Zenon
<1> lsi0' \in Seq(LowRules) /\ Prunes(lsi0', lsi0, old)
  BY RemovedIDs, Zenon
<1> tenant' \in Seq(LowRules) /\ Prunes(tenant', tenant, old)
  BY RemovedIDs, Zenon
<1>8. /\ graphLSI0lowLevel' \in Seq(LowRules)
      /\ Prunes(graphLSI0lowLevel', graphLSI0lowLevel, old)
  BY RemovedIDs, Zenon
<1>9. removed' \in Seq(Nodes)
  <2>1. \A i \in 1..Len(old) : old[i] \in AllRules
    OBVIOUS
  <2>2. \A i \in 1..Len(old) : old[i].to \in Nodes
    BY <2>1, RequestsAreGraphs
  <2>3. removed' = [i \in 1..Len(old) |-> old[i].to] /\ Len(old) \in Nat
    BY DEF RuleRemovedInfo
  <2> QED BY <2>2, <2>3
<1>10. Typed'
  BY <1>8, <1>9 DEF GInv, Typed, Steps
<1>11. Justified(lsi0', rules', lsi)
  <2>1. /\ \A h \in Range(rules) : h.id \notin Ids(old) => h \in Range(rules')
        /\ Range(lsi0') \subseteq Range(lsi0) /\ \A q \in Range(lsi0') : q.id \notin Ids(old)
    BY Zenon DEF Prunes
  <2> QED BY <2>1, PrunedJustified, Zenon
<1>12. JustifiedTenant(tenant', rules', lsi)
  <2>1. /\ \A h \in Range(rules) : h.id \notin Ids(old) => h \in Range(rules')
        /\ Range(tenant') \subseteq Range(tenant)
        /\ \A q \in Range(tenant') : q.id \notin Ids(old)
    BY Zenon DEF Prunes
  <2> QED BY <2>1, PrunedJustified, Zenon
<1>13. Adding'
  <2> Adding
    BY DEF GInv, Steps
  <2>2. \A r \in Range(diff) : r.id \notin Ids(old)
    BY Zenon DEF Adding, Ids
  <2>3. Range(diff) \subseteq Range(rules')
    BY <2>2, Zenon DEF Adding, Prunes
  <2>4. Ids(lsi0') \subseteq Ids(lsi0) /\ Ids(tenant') \subseteq Ids(tenant)
    BY DEF Ids, Prunes
  <2>5. Ids(diff) \cap Ids(lsi0') = {} /\ Ids(diff) \cap Ids(tenant') = {}
    BY <2>4 DEF Adding
  <2>6. /\ Range(diff) \subseteq Range(rules') /\ Ids(diff) \subseteq Ids(request)
        /\ Identified(diff)
    BY <2>3 DEF Adding
  <2> QED BY <2>5, <2>6, Zenon DEF Adding
<1>14. Range(lsi0') \subseteq Range(graphLSI0lowLevel')
  BY <1>8 DEF Prunes, GInv
<1>15. Identified(rules') /\ Identified(lsi0') /\ Identified(tenant')
  BY Zenon DEF Prunes
<1>16. deployed /\ pc' # "idle"
  BY DEF GInv, Steps
<1> QED BY <1>10, <1>11, <1>12, <1>13, <1>14, <1>15, <1>16, Zenon DEF GInv

\* The rules of a list that the translator can lower join two lists of switches.
LEMMA AddRulesGInv == ASSUME GInv, AddRules PROVE GInv'
<1> /\ diff \in Seq(AllRules) /\ lsi \in LSIs /\ Wired(lsi) /\ Adding
      /\ lsi0 \in Seq(LowRules) /\ tenant \in Seq(LowRules) /\ deployed
      /\ graphLSI0lowLevel \in Seq(LowRules) /\ rules \in Seq(AllRules)
      /\ Identified(lsi0) /\ Identified(tenant) /\ Identified(rules)
      /\ Justified(lsi0, rules, lsi) /\ JustifiedTenant(tenant, rules, lsi)
      /\ Range(lsi0) \subseteq Range(graphLSI0lowLevel)
  BY DEF GInv, Typed, AddRules, Steps
<1>2. PICK n \in Nat : n = Len(diff) /\ DOMAIN diff = 1..n
  OBVIOUS
<1>3. \A r \in Range(diff) : AssertsLSI0(r, lsi)
  BY Zenon DEF AddRules, LowerableToLSI0
<1>4. \A r \in Range(diff) : AssertsTenant(r, lsi)
  <2> PICK stop : stop = {i \in 1..n : ~(KnownNFs(diff[i], lsi) /\ AssertsTenant(diff[i], lsi))}
    BY Zenon
  <2>2. 0 = IF stop = {} THEN 0 ELSE Min(stop)
    BY <1>2, Zenon DEF AddRules, Stopper
  <2>3. stop = {}
    <3>1. SUFFICES ASSUME stop # {} PROVE FALSE
      OBVIOUS
    <3>2. stop \in SUBSET (1..n)
      OBVIOUS
    <3>3. Min(stop) \in 1..n
      BY <3>1, <3>2, MinPosition, Zenon
    <3> QED BY <2>2, <3>1, <3>3
  <2>4. \A i \in 1..n : AssertsTenant(diff[i], lsi)
    BY <2>3, Zenon
  <2> QED BY <1>2, <2>4 DEF Range
<1> \A r \in Range(diff) : Linked(r, lsi)
  BY <1>3, <1>4, Asserted, Zenon
<1> PICK new0, new1 : /\ new0 = lowerGraphToLSI0(diff, lsi)
                        /\ new1 = lowerGraphToTenantLSI(diff, lsi)
  BY Zenon
<1>7. LoweringLSI0(new0, diff, lsi)
  BY <1>3, GraphToLSI0, Zenon
<1>8. LoweringTenant(new1, diff, lsi)
  BY GraphToTenant, Zenon
<1> /\ lsi0' = lsi0 \o new0 /\ tenant' = tenant \o new1
      /\ graphLSI0lowLevel' = graphLSI0lowLevel \o new0
      /\ pc' = "idle" /\ diff' = <<>> /\ delta' = {} /\ deployed' = deployed /\ rules' = rules
      /\ nodes' = nodes /\ lsi' = lsi /\ request' = request /\ removed' = removed
  BY DEF AddRules, addRules
<1> /\ new0 \in Seq(LowRules) /\ Identified(new0) /\ Ids(lsi0) \cap Ids(new0) = {}
  BY <1>7 DEF LoweringLSI0, Adding
<1>11. /\ new1 \in Seq(LowRules) /\ Identified(new1) /\ Ids(tenant) \cap Ids(new1) = {}
  BY <1>8 DEF LoweringTenant, Adding
<1> lsi0' \in Seq(LowRules) /\ Joins(lsi0', lsi0, new0)
  BY Joined, Zenon
<1> tenant' \in Seq(LowRules) /\ Joins(tenant', tenant, new1)
  BY <1>11, Joined, Zenon
<1>14. graphLSI0lowLevel' \in Seq(LowRules) /\ Joins(graphLSI0lowLevel', graphLSI0lowLevel, new0)
  BY Joined, Zenon
<1>15. Typed'
  BY <1>14 DEF GInv, Typed, Steps
<1>16. Identified(lsi0') /\ Identified(tenant')
  BY <1>11, Zenon DEF Joins
<1>17. Range(lsi0') \subseteq Range(graphLSI0lowLevel')
  BY <1>14 DEF Joins
<1>18. Range(diff) \subseteq Range(rules)
  BY DEF Adding
<1>19. Justified(lsi0', rules, lsi)
  <2>1. ASSUME NEW q \in Range(lsi0')
        PROVE  \E h \in Range(rules) : Linked(h, lsi) /\ lowerToLSI0(h, lsi) = <<q>>
    <3>1. CASE q \in Range(lsi0)
      BY <3>1, Zenon DEF Justified
    <3>2. CASE q \in Range(new0)
      <4>1. PICK h \in Range(diff) : lowerToLSI0(h, lsi) = <<q>>
        BY <1>7, <3>2, Zenon DEF LoweringLSI0
      <4>2. h \in Range(rules) /\ Linked(h, lsi)
        BY <1>18
      <4> QED BY <4>1, <4>2, Zenon
    <3> QED BY <3>1, <3>2 DEF Joins
  <2> QED BY <2>1, Zenon DEF Justified
<1>20. JustifiedTenant(tenant', rules, lsi)
  <2>1. ASSUME NEW q \in Range(tenant')
        PROVE  \E h \in Range(rules), p \in SUBSET Above :
                 Linked(h, lsi) /\ lowerToTenant(h, [lsi EXCEPT !.present = p]) = <<q>>
    <3>1. CASE q \in Range(tenant)
      BY <3>1, Zenon DEF JustifiedTenant
    <3>2. CASE q \in Range(new1)
      <4>1. PICK h \in Range(diff) : lowerToTenant(h, lsi) = <<q>>
        BY <1>8, <3>2, Zenon DEF LoweringTenant
      <4>2. h \in Range(rules) /\ Linked(h, lsi)
        BY <1>18
      <4>3. lsi = [lsi EXCEPT !.present = lsi.present] /\ lsi.present \in SUBSET Above
        BY DEF LSIs
      <4>4. lowerToTenant(h, [lsi EXCEPT !.present = lsi.present]) = <<q>>
        BY <4>1, <4>3, Zenon
      <4> QED BY <4>2, <4>3, <4>4, Zenon
    <3> QED BY <3>1, <3>2, Zenon DEF Joins
  <2> QED BY <2>1, Zenon DEF JustifiedTenant
<1>21. pc' \notin Steps
  BY DEF Steps
<1> QED BY <1>15, <1>16, <1>17, <1>19, <1>20, <1>21, Zenon DEF GInv

LEMMA AddRulesThrowsGInv == ASSUME GInv, AddRulesThrows PROVE GInv'
<1> /\ diff \in Seq(AllRules) /\ lsi \in LSIs /\ graphLSI0lowLevel \in Seq(LowRules)
      /\ Range(lsi0) \subseteq Range(graphLSI0lowLevel) /\ deployed
  BY DEF GInv, Typed, AddRulesThrows, Steps
<1>2. \A r \in Range(diff) : AssertsLSI0(r, lsi)
  BY Zenon DEF AddRulesThrows, LowerableToLSI0
<1>3. PICK new0 : new0 = lowerGraphToLSI0(diff, lsi)
  BY Zenon
<1>4. new0 \in Seq(LowRules)
  BY <1>2, <1>3, GraphToLSI0, Zenon DEF LoweringLSI0
<1> /\ graphLSI0lowLevel' = graphLSI0lowLevel \o new0
      /\ pc' = "idle" /\ diff' = <<>> /\ delta' = {} /\ removed' = <<>>
      /\ deployed' = deployed /\ rules' = rules /\ nodes' = nodes /\ lsi' = lsi
      /\ request' = request /\ lsi0' = lsi0 /\ tenant' = tenant
  BY <1>3 DEF AddRulesThrows, addRules, Fail
<1>6. graphLSI0lowLevel' \in Seq(LowRules) /\ Joins(graphLSI0lowLevel', graphLSI0lowLevel, new0)
  BY <1>4, Joined, Zenon
<1>7. Typed'
  BY <1>6 DEF GInv, Typed, Steps
<1>8. Range(lsi0') \subseteq Range(graphLSI0lowLevel')
  BY <1>6 DEF Joins
<1>9. pc' \notin Steps
  BY DEF Steps
<1> QED BY <1>7, <1>8, <1>9, Zenon DEF GInv

\* deleteGraph leaves no rule of the NF-FG on LSI-0.
LEMMA AllGone ==
    ASSUME GInv, Deletable
    PROVE  /\ removeRules(lsi0, Lowered) = <<>>
           /\ removeRules(graphLSI0lowLevel, Lowered) \in Seq(LowRules)
<1> /\ rules \in Seq(AllRules) /\ lsi \in LSIs /\ lsi0 \in Seq(LowRules) /\ Identified(lsi0)
      /\ Justified(lsi0, rules, lsi) /\ graphLSI0lowLevel \in Seq(LowRules)
  BY DEF GInv, Typed
<1> PICK gone : gone = Lowered
  OBVIOUS
<1>3. \A r \in Range(rules) : AssertsLSI0(r, lsi)
  BY Zenon DEF Deletable, LowerableToLSI0
<1>4. LoweringLSI0(gone, rules, lsi)
  BY <1>3, GraphToLSI0, Zenon DEF Lowered
<1> gone \in Seq(LowRules) /\ Range(lsi0) \subseteq Range(gone)
  BY <1>4 DEF LoweringLSI0, Justified
<1>6. Len(lsi0) =< Len(gone)
  BY NoLonger, Zenon
<1> PICK left : left = removeRules(lsi0, gone)
  OBVIOUS
<1> left \in Seq(LowRules) /\ removeRules(graphLSI0lowLevel, gone) \in Seq(LowRules)
  BY RemovedRules, Zenon
<1>9. Len(left) + Len(gone) = Len(lsi0)
  BY Zenon DEF Deletable, Found
<1>10. Len(left) = 0
  BY <1>6, <1>9
<1>11. left = <<>>
  BY <1>10
<1> QED BY <1>11, Zenon

LEMMA DeleteGraphGInv == ASSUME GInv, DeleteGraph PROVE GInv'
<1> /\ lsi0' = <<>> /\ graphLSI0lowLevel' \in Seq(LowRules)
  BY AllGone, Zenon DEF DeleteGraph
<1> /\ tenant' = <<>> /\ lsi' = NoLSI /\ rules' = <<>> /\ nodes' = {} /\ request' = <<>>
      /\ pc' = "idle" /\ pc = "idle" /\ diff' = diff /\ delta' = delta /\ removed' = removed
  BY DEF DeleteGraph, Update
<1>3. Typed'
  BY Emptied DEF GInv, Typed
<1>4. pc' \notin Steps /\ diff' = <<>>
  BY DEF Steps, GInv
<1>5. Range(lsi0') \subseteq Range(graphLSI0lowLevel')
  BY Emptied
<1> QED BY <1>3, <1>4, <1>5, Emptied, Zenon DEF GInv

LEMMA DeleteGraphFailsGInv == ASSUME GInv, DeleteGraphFails PROVE GInv'
<1> /\ lsi0' = <<>> /\ graphLSI0lowLevel' \in Seq(LowRules)
  BY AllGone, Zenon DEF DeleteGraphFails
<1> /\ tenant' = tenant /\ lsi' = lsi /\ rules' = rules /\ nodes' = nodes /\ request' = <<>>
      /\ pc' = "idle" /\ pc = "idle" /\ diff' = diff /\ delta' = delta /\ removed' = removed
      /\ deployed' = deployed /\ deployed
  BY DEF DeleteGraphFails, Update
<1>3. Typed'
  BY Emptied DEF GInv, Typed
<1>4. pc' \notin Steps /\ diff' = <<>>
  BY DEF Steps, GInv
<1>5. Range(lsi0') \subseteq Range(graphLSI0lowLevel')
  BY Emptied
<1> QED BY <1>3, <1>4, <1>5, Emptied, Zenon DEF GInv

-----------------------------------------------------------------------------
\* newGraph

LEMMA NewGraphGInv ==
    ASSUME GInv, NEW rs \in Requests, NewGraph(rs)
    PROVE  GInv'
<1>1. rs \in Seq(AllRules) /\ Identified(rs)
  BY RequestsAreGraphs DEF Identified
<1>2. PICK l : CreatedFor(l, rs) /\ Deploys(rs, l)
  BY NewGraphDeploys
<1>3. CASE ~Asserts(rs, l)
  <2>1. Abort /\ pc = "idle"
    BY <1>2, <1>3 DEF NewGraph, Deploys
  <2>2. Quiet /\ lsi' = lsi
    BY <2>1 DEF Abort, Quiet, GInv, Typed, graphs, Steps
  <2> QED BY <2>2, SameLSI
<1>4. CASE Asserts(rs, l)
  <2>1. /\ deployed' = TRUE /\ rules' = rs /\ nodes' = NodesOf(rs) /\ lsi' = l
        /\ graphLSI0lowLevel' = graphLSI0lowLevel \o lowerGraphToLSI0(rs, l)
        /\ tenant' = lowerGraphToTenantLSI(rs, l)
        /\ lsi0' = lsi0 \o lowerGraphToLSI0(rs, l)
        /\ request' = rs /\ pc' = pc /\ diff' = diff /\ delta' = delta /\ removed' = removed
        /\ pc = "idle" /\ ~deployed
    BY <1>2, <1>4 DEF NewGraph, Deploys
  <2>2. \A r \in Range(rs) : AssertsLSI0(r, l) /\ AssertsTenant(r, l)
    BY <1>4, Zenon DEF Asserts
  <2>3. \A r \in Range(rs) : Linked(r, l)
    BY <2>2, Asserted, Zenon
  <2>4. l \in LSIs /\ Wired(l)
    BY <1>2 DEF CreatedFor
  <2>5. PICK new0, new1 : new0 = lowerGraphToLSI0(rs, l) /\ new1 = lowerGraphToTenantLSI(rs, l)
    BY Zenon
  <2>6. LoweringLSI0(new0, rs, l)
    BY <1>1, <2>2, <2>4, <2>5, GraphToLSI0, Zenon
  <2>7. LoweringTenant(new1, rs, l)
    BY <1>1, <2>3, <2>4, <2>5, GraphToTenant, Zenon
  <2>8. /\ lsi0 = <<>> /\ graphLSI0lowLevel \in Seq(LowRules) /\ new0 \in Seq(LowRules)
        /\ diff = <<>>
    BY <2>1, <2>6 DEF GInv, Typed, LoweringLSI0
  <2>9. lsi0' = new0 /\ tenant' = new1
    BY <2>1, <2>5, <2>8
  <2>10. graphLSI0lowLevel' \in Seq(LowRules) /\ Joins(graphLSI0lowLevel', graphLSI0lowLevel, new0)
    BY <2>1, <2>5, <2>8, Joined, Zenon
  <2>11. nodes' \subseteq Nodes
    BY <1>1, <2>1, NodesTyped, Zenon
  <2>12. tenant' \in Seq(LowRules)
    BY <2>7, <2>9 DEF LoweringTenant
  <2>13. Typed'
    BY <1>1, <2>1, <2>4, <2>8, <2>9, <2>10, <2>11, <2>12 DEF GInv, Typed
  <2>14. Identified(rs) /\ Identified(new0) /\ Identified(new1)
    BY <1>1, <2>6, <2>7, Zenon DEF LoweringLSI0, LoweringTenant
  <2>15. Justified(new0, rs, l)
    BY <2>3, <2>6, Zenon DEF LoweringLSI0, Justified
  <2>16. JustifiedTenant(new1, rs, l)
    <3>1. l = [l EXCEPT !.present = l.present] /\ l.present \in SUBSET Above
      BY <2>4 DEF LSIs
    <3>2. ASSUME NEW q \in Range(new1)
          PROVE  \E h \in Range(rs), p \in SUBSET Above :
                   Linked(h, l) /\ lowerToTenant(h, [l EXCEPT !.present = p]) = <<q>>
      <4>1. PICK h \in Range(rs) : lowerToTenant(h, l) = <<q>>
        BY <2>7, <3>2, Zenon DEF LoweringTenant
      <4>2. lowerToTenant(h, [l EXCEPT !.present = l.present]) = <<q>>
        BY <3>1, <4>1, Zenon
      <4> QED BY <2>3, <3>1, <4>2, Zenon
    <3> QED BY <3>2, Zenon DEF JustifiedTenant
  <2>17. Range(lsi0') \subseteq Range(graphLSI0lowLevel')
    BY <2>9, <2>10 DEF Joins
  <2>18. pc' \notin Steps /\ deployed' /\ diff' = <<>>
    BY <2>1, <2>8 DEF Steps
  <2> QED BY <2>1, <2>4, <2>9, <2>13, <2>14, <2>15, <2>16, <2>17, <2>18, Zenon DEF GInv
<1> QED BY <1>3, <1>4

LEMMA StutterGInv == ASSUME GInv, UNCHANGED vars PROVE GInv'
BY Zenon DEF vars, graphs, GInv, Typed, Adding

\* Every step of the graph manager keeps the invariant, whatever fails.
LEMMA NextGInv == ASSUME GInv, [Next]_vars PROVE GInv'
<1>1. ASSUME NEW rs \in Requests, NewGraph(rs) PROVE GInv'
  BY <1>1, NewGraphGInv
<1>2. ASSUME NEW rs \in Requests, UpdateGraph(rs) PROVE GInv'
  BY <1>2, UpdateGraphGInv
<1>3. ASSUME NEW rs \in Requests, SelectImplementationFails(rs) PROVE GInv'
  BY <1>3, SelectImplementationFailsGInv
<1>4. CASE UseFreed BY <1>4, UseFreedGInv
<1>5. CASE AddVirtualLink BY <1>5, AddVirtualLinkGInv
<1>6. CASE AddVirtualLinkFails BY <1>6, AddVirtualLinkFailsGInv
<1>7. CASE AddPorts BY <1>7, AddPortsGInv
<1>8. CASE AddPortsFails BY <1>8, AddPortsFailsGInv
<1>9. CASE StartNFFails BY <1>9, StartNFFailsGInv
<1>10. CASE RemoveRules BY <1>10, RemoveRulesGInv
<1>11. CASE KeepVlink BY <1>11, KeepVlinkGInv
<1>12. CASE RemoveVlink BY <1>12, RemoveVlinkGInv
<1>13. CASE RemoveVlinkFails BY <1>13, RemoveVlinkFailsGInv
<1>14. CASE DestroyPorts BY <1>14, DestroyPortsGInv
<1>15. CASE DestroyPortsFails BY <1>15, DestroyPortsFailsGInv
<1>16. CASE AddRules BY <1>16, AddRulesGInv
<1>17. CASE AddRulesThrows BY <1>17, AddRulesThrowsGInv
<1>18. CASE AddRulesAborts BY <1>18, AddRulesAbortsGInv
<1>19. CASE DeleteGraph BY <1>19, DeleteGraphGInv
<1>20. CASE DeleteGraphFails BY <1>20, DeleteGraphFailsGInv
<1>21. CASE DeleteGraphAborts BY <1>21, DeleteGraphAbortsGInv
<1>22. CASE UNCHANGED vars BY <1>22, StutterGInv
<1> QED
  BY <1>1, <1>2, <1>3, <1>4, <1>5, <1>6, <1>7, <1>8, <1>9, <1>10, <1>11, <1>12, <1>13,
     <1>14, <1>15, <1>16, <1>17, <1>18, <1>19, <1>20, <1>21, <1>22, Zenon DEF Next

LEMMA AlwaysGInv == Spec => []GInv
BY InitGInv, NextGInv, PTL DEF Spec

\* Whatever fails and however requests follow each other, no two network functions or
\* tunnels receive over one virtual link, and no two ports or internal endpoints
\* (newGraph's numbering, updateGraph_add's new links, removeUselessVlinks).
THEOREM LinksNotShared == Spec => []NotShared
<1>1. GInv => NotShared
  BY DEF GInv, Wired, NotShared
<1> QED BY <1>1, AlwaysGInv, PTL

\* The graph manager's list of the rules of LSI-0 always has every rule of the
\* controller of LSI-0, on every path of newGraph, updateGraph and deleteGraph.
THEOREM ListAlwaysCovers == Spec => []ListCovers
<1>1. GInv => ListCovers
  BY DEF GInv, ListCovers
<1> QED BY <1>1, AlwaysGInv, PTL

-----------------------------------------------------------------------------
\* What installed rules look like

\* Every installed rule has the shape of a rule of the description.
AllShaped ==
    /\ \A q \in Range(lsi0) : \E h \in Range(rules) : Linked(h, lsi) /\ Shape0(q, h, lsi)
    /\ \A q \in Range(tenant) : \E h \in Range(rules), p \in SUBSET Above :
          Linked(h, lsi) /\ Shape1(q, h, p, lsi)

\* Where the rules of the switches come from.
LEMMA Shaped ==
    ASSUME GInv
    PROVE  AllShaped
<1> USE DEF AllShaped
<1> lsi \in LSIs /\ Range(rules) \subseteq AllRules
  BY DEF GInv, Typed, Range
<1>2. ASSUME NEW q \in Range(lsi0)
      PROVE  \E h \in Range(rules) : Linked(h, lsi) /\ Shape0(q, h, lsi)
  <2>1. PICK h \in Range(rules) : Linked(h, lsi) /\ lowerToLSI0(h, lsi) = <<q>>
    BY <1>2, Zenon DEF GInv, Justified
  <2>2. h \in AllRules
    OBVIOUS
  <2>3. Shape0(q, h, lsi)
    BY <2>1, <2>2, Shapes0, Zenon
  <2> QED BY <2>1, <2>3, Zenon
<1>3. ASSUME NEW q \in Range(tenant)
      PROVE  \E h \in Range(rules), p \in SUBSET Above : Linked(h, lsi) /\ Shape1(q, h, p, lsi)
  <2>1. PICK h \in Range(rules), p \in SUBSET Above :
           Linked(h, lsi) /\ lowerToTenant(h, [lsi EXCEPT !.present = p]) = <<q>>
    BY <1>3, Zenon DEF GInv, JustifiedTenant
  <2>2. h \in AllRules
    OBVIOUS
  <2>3. Shape1(q, h, p, lsi)
    BY <2>1, <2>2, Shapes1, Zenon
  <2> QED BY <2>1, <2>3, Zenon
<1> QED BY <1>2, <1>3, Zenon

\* The ports of a rule, and the links between them.
Ported(h) ==
    /\ h.from \in Nodes /\ h.to \in Nodes /\ h.from \notin VLinks /\ h.to \notin VLinks
    /\ h.from # NoPort /\ h.to # NoPort
    /\ h.from \in Below /\ h.to \in Above =>
         lsi.up[h.to] \in lsi.links /\ lsi.up[h.to] \in VLinks /\ h.to \in DOMAIN lsi.up
    /\ h.from \in Above /\ h.to \in Below =>
         lsi.down[h.to] \in lsi.links /\ lsi.down[h.to] \in VLinks /\ h.to \in DOMAIN lsi.down

\* Links, nodes and the port number 0 are apart, and the links of nodes exist.
LEMMA PortsApart ==
    ASSUME GInv, NEW h \in Range(rules), Linked(h, lsi)
    PROVE  Ported(h)
<1> USE DEF Ported
<1>1. lsi \in LSIs /\ Wired(lsi) /\ h \in AllRules
  BY DEF GInv, Typed, Range
<1>2. h.from \in Nodes /\ h.to \in Nodes
  BY <1>1, RequestsAreGraphs
<1>3. h.from \notin VLinks /\ h.to \notin VLinks /\ h.from # NoPort /\ h.to # NoPort
  BY <1>2, LinksAreApart
<1>4. /\ \A n \in DOMAIN lsi.up : lsi.up[n] \in lsi.links
      /\ \A n \in DOMAIN lsi.down : lsi.down[n] \in lsi.links
      /\ lsi.links \subseteq VLinks
  BY <1>1 DEF Wired, Range, LSIs
<1> QED BY <1>2, <1>3, <1>4 DEF Linked

\* An installed rule never refers to a link that the tenant LSI does not have, on
\* whatever path a request fails: links enter before the rules that use them and leave
\* only when no rule of the description needs them (removeUselessVlinks).
THEOREM InstalledRulesOnLiveLinks == Spec => []RulesOnLiveLinks
<1>1. ASSUME GInv PROVE RulesOnLiveLinks
  <2>1. ASSUME NEW q \in Range(lsi0), NEW v \in {q.match[1], q.out}, v \in VLinks
        PROVE  v \in lsi.links
    <3>1. PICK h \in Range(rules) : Linked(h, lsi) /\ Shape0(q, h, lsi)
      BY <1>1, Shaped, Zenon DEF AllShaped
    <3>2. v = q.match[1] \/ v = q.out
      OBVIOUS
    <3> QED BY <1>1, <2>1, <3>1, <3>2, PortsApart, KindsAreApart DEF Shape0, Fields, Above, Below, Ported
  <2>2. ASSUME NEW q \in Range(tenant), NEW v \in {q.match[1], q.out}, v \in VLinks
        PROVE  v \in lsi.links
    <3>1. PICK h \in Range(rules), p \in SUBSET Above : Linked(h, lsi) /\ Shape1(q, h, p, lsi)
      BY <1>1, Shaped, Zenon DEF AllShaped
    <3>2. v = q.match[1] \/ v = q.out
      OBVIOUS
    <3>3. v # NoPort
      BY <2>2, LinksAreApart
    <3> QED BY <1>1, <2>2, <3>1, <3>2, <3>3, PortsApart, Zenon DEF Shape1, Fields, At, Ported
  <2> QED BY <2>1, <2>2 DEF RulesOnLiveLinks, LinksOf
<1> QED BY <1>1, AlwaysGInv, PTL

\* No rule from a tunnel to a port has a generic action: the lowering of such a rule
\* repeats the action on both LSIs.
TagsOnce ==
    \A r \in AllRules : r.from \in Gres /\ r.to \in PhyPorts => r.tag = FALSE

Tags(tag) == IF tag THEN 1 ELSE 0

\* What a rule makes of a packet.
ByRule(o, q, port, cls, tags) ==
    /\ q.match[1] = port /\ q.match[2] \in {cls, AnyClass}
    /\ o = <<q.out, IF q.extra THEN tags + 1 ELSE tags>>

LEMMA Hopped ==
    ASSUME NEW list, NEW port, NEW cls, NEW tags, NEW o
    PROVE  o \in Hop(list, port, cls, tags) <=> \E q \in Range(list) : ByRule(o, q, port, cls, tags)
BY DEF Hop, ByRule

LEMMA WantedBy ==
    ASSUME NEW rs, NEW n, NEW cls, NEW h \in Range(rs), h.from = n, h.cls \in {cls, AnyClass}
    PROVE  <<h.to, Tags(h.tag)>> \in Wanted(rs, n, cls)
BY DEF Wanted, Tags

\* A packet that enters from below.
LEMMA StraysNotUp ==
    ASSUME GInv, NEW n \in Below, NEW cls,
           NEW q \in Range(lsi0), q.match[1] = n, q.match[2] \in {cls, AnyClass}
    PROVE  /\ q.out \in Nodes => <<q.out, Tags(q.extra)>> \in Wanted(rules, n, cls)
           /\ \A r \in Range(tenant) :
                q.out \in lsi.links /\ r.match[1] = q.out /\ r.out \in Nodes =>
                  r.extra = FALSE /\ <<r.out, Tags(q.extra)>> \in Wanted(rules, n, cls)
<1>1. PICK h \in Range(rules) : Linked(h, lsi) /\ Shape0(q, h, lsi)
  BY Shaped, Zenon DEF AllShaped
<1>2. n \in Nodes /\ n \notin VLinks /\ n # NoPort
  BY Directions, LinksAreApart
<1>3. /\ h.from = n /\ h.cls \in {cls, AnyClass} /\ q.extra = h.tag
      /\ q.out = h.to \/ (q.out = lsi.up[h.to] /\ h.from \in Below /\ h.to \in Above)
  <2>1. q.match[1] # lsi.down[h.to] \/ ~(h.from \in Above /\ h.to \in Below)
    BY <1>1, <1>2, PortsApart, Zenon DEF Ported
  <2>2. Gres \subseteq Above /\ PhyPorts \subseteq Below
    BY DEF Above, Below
  <2> QED BY <1>1, <2>1, <2>2 DEF Shape0, Fields
<1>4. <<h.to, Tags(q.extra)>> \in Wanted(rules, n, cls)
  BY <1>3, WantedBy, Zenon
<1>5. ASSUME q.out \in Nodes PROVE <<q.out, Tags(q.extra)>> \in Wanted(rules, n, cls)
  <2>1. q.out = h.to
    BY <1>1, <1>3, <1>5, PortsApart, LinksAreApart DEF Ported
  <2> QED BY <1>4, <2>1, Zenon
<1>6. ASSUME NEW r \in Range(tenant), q.out \in lsi.links, r.match[1] = q.out, r.out \in Nodes
      PROVE  r.extra = FALSE /\ <<r.out, Tags(q.extra)>> \in Wanted(rules, n, cls)
  <2>1. PICK g \in Range(rules), p \in SUBSET Above : Linked(g, lsi) /\ Shape1(r, g, p, lsi)
    BY Shaped, Zenon DEF AllShaped
  <2>2. lsi.links \subseteq VLinks
    BY DEF GInv, Typed, LSIs
  <2>3. q.out \in VLinks
    BY <1>6, <2>2
  <2>4. q.out = lsi.up[h.to] /\ h.from \in Below /\ h.to \in Above
    BY <1>1, <1>3, <2>3, PortsApart, Zenon DEF Ported
  <2>5. /\ g.from \in Below /\ g.to \in Above /\ r.match[1] = lsi.up[g.to] /\ r.extra = FALSE
        /\ r.out = g.to \/ r.out = NoPort
    BY <1>6, <2>1, <2>3, PortsApart, LinksAreApart, Zenon DEF Shape1, Fields, At, Ported
  <2>6. h.to \in DOMAIN lsi.up /\ g.to \in DOMAIN lsi.up /\ lsi.up[g.to] = lsi.up[h.to]
    BY <1>1, <1>6, <2>1, <2>4, <2>5, PortsApart, Zenon DEF Ported
  <2>7. g.to = h.to
    BY <2>6, Zenon DEF GInv, Wired, IsInjective
  <2>8. r.out = h.to
    BY <1>6, <2>5, <2>7, LinksAreApart
  <2> QED BY <1>4, <2>5, <2>8, Zenon
<1> QED BY <1>5, <1>6, Zenon

\* A packet that enters from above.
LEMMA StraysNotDown ==
    ASSUME GInv, TagsOnce, NEW n \in Above, NEW cls,
           NEW q \in Range(tenant), q.match[1] = n, q.match[2] \in {cls, AnyClass}
    PROVE  /\ q.out \in Nodes => <<q.out, Tags(q.extra)>> \in Wanted(rules, n, cls)
           /\ \A r \in Range(lsi0) :
                q.out \in lsi.links /\ r.match[1] = q.out /\ r.out \in Nodes =>
                  r.extra = FALSE /\ <<r.out, Tags(q.extra)>> \in Wanted(rules, n, cls)
<1>1. PICK h \in Range(rules), p \in SUBSET Above : Linked(h, lsi) /\ Shape1(q, h, p, lsi)
  BY Shaped, Zenon DEF AllShaped
<1>2. n \in Nodes /\ n \notin VLinks /\ n # NoPort
  BY Directions, LinksAreApart
<1>3. /\ h.from = n /\ h.cls \in {cls, AnyClass} /\ q.extra = h.tag
      /\ \/ q.out = h.to \/ q.out = NoPort
         \/ q.out = lsi.down[h.to] /\ h.from \in Above /\ h.to \in Below
  <2>1. q.match[1] # lsi.up[h.to] \/ ~(h.from \in Below /\ h.to \in Above)
    BY <1>1, <1>2, PortsApart, Zenon DEF Ported
  <2> QED BY <1>1, <1>2, <2>1 DEF Shape1, Fields, At
<1>4. <<h.to, Tags(q.extra)>> \in Wanted(rules, n, cls)
  BY <1>3, WantedBy, Zenon
<1>5. ASSUME q.out \in Nodes PROVE <<q.out, Tags(q.extra)>> \in Wanted(rules, n, cls)
  <2>1. q.out = h.to
    BY <1>1, <1>3, <1>5, PortsApart, LinksAreApart DEF Ported
  <2> QED BY <1>4, <2>1, Zenon
<1>6. ASSUME NEW r \in Range(lsi0), q.out \in lsi.links, r.match[1] = q.out, r.out \in Nodes
      PROVE  r.extra = FALSE /\ <<r.out, Tags(q.extra)>> \in Wanted(rules, n, cls)
  <2>1. PICK g \in Range(rules) : Linked(g, lsi) /\ Shape0(r, g, lsi)
    BY Shaped, Zenon DEF AllShaped
  <2>2. lsi.links \subseteq VLinks /\ g \in AllRules
    BY DEF GInv, Typed, LSIs, Range
  <2>3. q.out \in VLinks /\ q.out # NoPort
    BY <1>6, <2>2, LinksAreApart
  <2>4. q.out = lsi.down[h.to] /\ h.from \in Above /\ h.to \in Below
    BY <1>1, <1>3, <2>3, PortsApart, Zenon DEF Ported
  <2>5. g.from \notin VLinks
    BY <2>1, PortsApart, Zenon DEF Ported
  <2>6. /\ g.from \in Above /\ g.to \in Below /\ r.match[1] = lsi.down[g.to] /\ r.extra = FALSE
        /\ r.out = g.to
    BY <1>6, <2>1, <2>2, <2>3, <2>5 DEF Shape0, Fields, TagsOnce, Above, Below
  <2>7. h.to \in DOMAIN lsi.down /\ g.to \in DOMAIN lsi.down /\ lsi.down[g.to] = lsi.down[h.to]
    BY <1>1, <1>6, <2>1, <2>4, <2>6, PortsApart, Zenon DEF Ported
  <2>8. g.to = h.to
    BY <2>7, Zenon DEF GInv, Wired, IsInjective
  <2> QED BY <1>4, <2>6, <2>8, Zenon
<1> QED BY <1>5, <1>6, Zenon

\* Whatever fails, the switches never forward a packet where the description of the
\* NF-FG does not send it, with a tag it should not have or with one too many, provided
\* no rule from a tunnel to a port has a generic action.
THEOREM NothingStrays ==
    ASSUME TagsOnce
    PROVE  Spec => []NoStray
<1>1. ASSUME GInv PROVE NoStray
  <2>1. SUFFICES ASSUME NEW n \in Nodes, NEW cls \in Classes,
                        NEW o \in Forward(lsi0, tenant, lsi.links, n, cls)
                 PROVE  o \in Wanted(rules, n, cls)
    BY DEF NoStray
  <2> DEFINE Near == IF n \in Below THEN lsi0 ELSE tenant
             Far == IF n \in Below THEN tenant ELSE lsi0
             first == Hop(Near, n, cls, 0)
             second == UNION {Hop(Far, h[1], cls, h[2]) : h \in {x \in first : x[1] \in lsi.links}}
  <2> o \in first \cup second /\ o[1] \in Nodes
    BY Zenon DEF Forward
  <2>3. ASSUME NEW q \in Range(Near), q.match[1] = n, q.match[2] \in {cls, AnyClass}
        PROVE  /\ q.out \in Nodes => <<q.out, Tags(q.extra)>> \in Wanted(rules, n, cls)
               /\ \A r \in Range(Far) :
                    q.out \in lsi.links /\ r.match[1] = q.out /\ r.out \in Nodes =>
                      r.extra = FALSE /\ <<r.out, Tags(q.extra)>> \in Wanted(rules, n, cls)
    <3>1. CASE n \in Below
      <4>1. Near = lsi0 /\ Far = tenant
        BY <3>1
      <4>2. q \in Range(lsi0)
        BY <2>3, <4>1, Zenon
      <4> HIDE DEF Near, Far
      <4> QED BY <1>1, <2>3, <3>1, <4>1, <4>2, StraysNotUp, Zenon
    <3>2. CASE n \notin Below
      <4>1. Near = tenant /\ Far = lsi0 /\ n \in Above
        BY <3>2 DEF Nodes
      <4>2. q \in Range(tenant)
        BY <2>3, <4>1, Zenon
      <4> HIDE DEF Near, Far
      <4> QED BY <1>1, <2>3, <4>1, <4>2, StraysNotDown, Zenon
    <3> QED BY <3>1, <3>2, Zenon
  <2> HIDE DEF Near, Far
  <2>5. CASE o \in first
    <3>1. PICK q \in Range(Near) : ByRule(o, q, n, cls, 0)
      BY <2>5, Hopped, Zenon
    <3>2. /\ q.match[1] = n /\ q.match[2] \in {cls, AnyClass}
          /\ o = <<q.out, Tags(q.extra)>>
      BY <3>1 DEF ByRule, Tags
    <3>3. q.out \in Nodes
      BY <3>2
    <3> QED BY <2>3, <3>2, <3>3, Zenon
  <2>6. CASE o \in second
    <3>1. PICK x \in first : x[1] \in lsi.links /\ o \in Hop(Far, x[1], cls, x[2])
      BY <2>6
    <3>2. PICK q \in Range(Near) : ByRule(x, q, n, cls, 0)
      BY Hopped, Zenon
    <3>3. /\ q.match[1] = n /\ q.match[2] \in {cls, AnyClass}
          /\ x = <<q.out, Tags(q.extra)>>
      BY <3>2 DEF ByRule, Tags
    <3>4. x[1] = q.out /\ x[2] = Tags(q.extra)
      BY <3>3
    <3>5. PICK r \in Range(Far) : ByRule(o, r, x[1], cls, x[2])
      BY <3>1, Hopped, Zenon
    <3>6. r.match[1] = x[1] /\ r.out \in Nodes
      BY <3>5 DEF ByRule
    <3>7. r.extra = FALSE /\ <<r.out, Tags(q.extra)>> \in Wanted(rules, n, cls)
      BY <2>3, <3>1, <3>3, <3>4, <3>6, Zenon
    <3>8. o = <<r.out, Tags(q.extra)>>
      BY <3>4, <3>5, <3>7 DEF ByRule
    <3> QED BY <3>7, <3>8, Zenon
  <2> QED BY <2>5, <2>6
<1> QED BY <1>1, AlwaysGInv, PTL
=============================================================================
