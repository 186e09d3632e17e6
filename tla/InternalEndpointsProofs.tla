---------------------- MODULE InternalEndpointsProofs ----------------------
(***************************************************************************)
(* What the internal LSIs guarantee for any NF-FGs, groups, ports and      *)
(* failures of the switch manager, when no NF-FG has two endpoints in one  *)
(* group.                                                                  *)
(***************************************************************************)
EXTENDS InternalEndpoints, ListOpsProofs, FiniteSetTheorems

\* The NF-FGs that hold a link of the internal LSI of group i: the deployed
\* ones, and the one of the request in progress at the groups it has already
\* joined or has still to leave.
Holds(i) ==
    \/ pc = "attach" /\ i \in Range(EndpointsOf[cur]) /\ i \notin Range(todo)
    \/ pc = "detach" /\ i \in Range(todo)
Joined(i) == {g \in Graphs : g \in Users(i) \/ (g = cur /\ Holds(i))}

\* The endpoints a request has still to visit are different groups of its
\* NF-FG, which is not among the deployed ones meanwhile.
Visiting ==
    /\ IsInjective(todo)
    /\ pc \in {"attach", "detach"} =>
          cur \notin tenantLSIs /\ Range(todo) \subseteq Range(EndpointsOf[cur])

\* The connections saved for a group are links of its LSI, all different; an
\* LSI that does not exist has none.
PortsApart(i) ==
    \A g \in Graphs : conns[i][g] # NoPort =>
        /\ created[i] /\ conns[i][g] \in Range(vlinks[i])
        /\ \A h \in Graphs \ {g} : conns[i][h] # conns[i][g]

\* An NF-FG that holds a link has saved its port and has the rule for it.
Connected(i) ==
    \A g \in Joined(i) :
        conns[i][g] # NoPort /\ NormalRule(g, conns[i][g]) \in Range(irules[i])

\* The counter of uses, the existence of the LSI and the length of its list of
\* links agree with the NF-FGs that hold a link, as far as failures allow.
Counted(i) ==
    /\ created[i] <=> timesUsed[i] > 0
    /\ timesUsed[i] >= Cardinality(Joined(i))
    /\ (~failed /\ pc # "aborted") => timesUsed[i] = Cardinality(Joined(i))
    /\ NoPort \notin Range(vlinks[i]) => Len(vlinks[i]) = timesUsed[i]

GroupInv(i) == PortsApart(i) /\ Connected(i) /\ Counted(i)

\* The inductive invariant.
IInv == TypeOK /\ Visiting /\ \A i \in Groups : GroupInv(i)


-----------------------------------------------------------------------------
\* The group a loop is at, and the groups it will visit next.
LEMMA AtGroup ==
    ASSUME TypeOK, Visiting, todo # <<>>
    PROVE  /\ group \in Groups /\ group \in Range(todo)
           /\ Tail(todo) \in Seq(Groups) /\ IsInjective(Tail(todo))
           /\ Range(Tail(todo)) = Range(todo) \ {group}
<1>1. todo \in Seq(Groups) /\ IsInjective(todo)
  BY DEF TypeOK, Visiting
<1>. QED
  BY <1>1, TailApart DEF group

\* The NF-FGs that hold a link are finitely many.
LEMMA FiniteJoined ==
    ASSUME NEW i
    PROVE  /\ Joined(i) \subseteq Graphs /\ IsFiniteSet(Joined(i))
           /\ Cardinality(Joined(i)) \in Nat
<1>1. Joined(i) \subseteq Graphs
  BY DEF Joined
<1>. QED
  BY <1>1, FiniteGraphs, FS_Subset, FS_CardinalityType, Zenon

\* At its next endpoint, of group k, a new NF-FG joins that group and no other ...
LEMMA Joins ==
    ASSUME TypeOK, Visiting, pc = "attach", todo # <<>>, NEW k, k = group,
           pc' = pc, cur' = cur, tenantLSIs' = tenantLSIs, todo' = Tail(todo)
    PROVE  /\ cur \notin Joined(k) /\ Joined(k)' = Joined(k) \cup {cur}
           /\ \A i \in Groups \ {k} : Joined(i)' = Joined(i)
<1>1. k \in Range(todo) /\ Range(todo') = Range(todo) \ {k}
  BY AtGroup
<1>2. cur \notin tenantLSIs /\ k \in Range(EndpointsOf[cur]) /\ cur \in Graphs
  BY <1>1 DEF Visiting, TypeOK
<1>3. \A i : Users(i)' = Users(i) /\ cur \notin Users(i) /\ Users(i) \subseteq Graphs
  BY <1>2 DEF Users, TypeOK
<1>4. ~Holds(k) /\ Holds(k)' /\ \A i \in Groups \ {k} : Holds(i)' = Holds(i)
  BY <1>1, <1>2 DEF Holds
<1>5. \A i : Joined(i) = {g \in Graphs : g \in Users(i) \/ (g = cur /\ Holds(i))}
  BY DEF Joined
<1>6. \A i : Joined(i)' = {g \in Graphs : g \in Users(i) \/ (g = cur /\ Holds(i)')}
  BY <1>3 DEF Joined
<1>. QED
  BY <1>2, <1>3, <1>4, <1>5, <1>6, Zenon

\* ... and at its next endpoint an NF-FG that is being deleted leaves that group.
LEMMA Leaves ==
    ASSUME TypeOK, Visiting, pc = "detach", todo # <<>>, NEW k, k = group,
           pc' = pc, cur' = cur, tenantLSIs' = tenantLSIs, todo' = Tail(todo)
    PROVE  /\ cur \in Joined(k) /\ Joined(k)' = Joined(k) \ {cur}
           /\ \A i \in Groups \ {k} : Joined(i)' = Joined(i)
<1>1. k \in Range(todo) /\ Range(todo') = Range(todo) \ {k}
  BY AtGroup
<1>2. cur \notin tenantLSIs /\ cur \in Graphs
  BY DEF Visiting, TypeOK
<1>3. \A i : Users(i)' = Users(i) /\ cur \notin Users(i) /\ Users(i) \subseteq Graphs
  BY <1>2 DEF Users, TypeOK
<1>4. Holds(k) /\ ~Holds(k)' /\ \A i \in Groups \ {k} : Holds(i)' = Holds(i)
  BY <1>1, <1>2 DEF Holds
<1>5. \A i : Joined(i) = {g \in Graphs : g \in Users(i) \/ (g = cur /\ Holds(i))}
  BY DEF Joined
<1>6. \A i : Joined(i)' = {g \in Graphs : g \in Users(i) \/ (g = cur /\ Holds(i)')}
  BY <1>3 DEF Joined
<1>. QED
  BY <1>2, <1>3, <1>4, <1>5, <1>6, Zenon

\* A step that leaves the LSI of group i alone keeps the facts about it, if no
\* NF-FG joins it, and one leaves it only in a failure.
LEMMA Untouched ==
    ASSUME NEW i \in Groups, GroupInv(i),
           created'[i] = created[i], timesUsed'[i] = timesUsed[i],
           vlinks'[i] = vlinks[i], conns'[i] = conns[i], irules'[i] = irules[i],
           timesUsed[i] \in Nat,
           Joined(i)' \subseteq Joined(i),
           (~failed' /\ pc' # "aborted") =>
               ~failed /\ pc # "aborted" /\ Joined(i)' = Joined(i)
    PROVE  GroupInv(i)'
<1>1. PortsApart(i)'
  BY DEF GroupInv, PortsApart
<1>2. Connected(i)'
  BY DEF GroupInv, Connected, NormalRule
<1>3. Counted(i)'
  <2>1. Cardinality(Joined(i)') <= Cardinality(Joined(i))
    BY FiniteJoined, FS_Subset
  <2>2. Cardinality(Joined(i)') \in Nat /\ Cardinality(Joined(i)) \in Nat
    BY FiniteJoined, FS_Subset, FS_CardinalityType
  <2>3. timesUsed'[i] >= Cardinality(Joined(i)')
    BY <2>1, <2>2 DEF GroupInv, Counted
  <2>. QED
    BY <2>3 DEF GroupInv, Counted
<1>. QED
  BY <1>1, <1>2, <1>3 DEF GroupInv

-----------------------------------------------------------------------------
\* No group has an LSI at the start.
LEMMA InitIInv == Init => IInv
<1> SUFFICES ASSUME Init PROVE IInv
  OBVIOUS
<1>1. TypeOK
  <2>1. tenantLSIs \in SUBSET Graphs /\ lsi0 \in SUBSET Graphs /\ cur \in Graphs /\ pc = "idle"
    BY Zenon DEF Init
  <2>2. created \in [Groups -> BOOLEAN] /\ failed \in BOOLEAN
    BY Zenon DEF Init
  <2>3. timesUsed \in [Groups -> Nat] /\ todo \in Seq(Groups)
    BY DEF Init
  <2>4. vlinks \in [Groups -> Seq(Ports \cup {NoPort})]
    BY DEF Init
  <2>5. irules \in [Groups -> Seq(NormalRules)]
    BY DEF Init
  <2>6. conns \in [Groups -> [Graphs -> Ports \cup {NoPort}]]
    BY DEF Init
  <2>. QED
    BY <2>1, <2>2, <2>3, <2>4, <2>5, <2>6, Zenon DEF TypeOK
<1>2. Visiting
  BY DEF Init, Visiting, IsInjective
<1>3. ASSUME NEW i \in Groups PROVE GroupInv(i)
  <2>1. Joined(i) = {}
    BY DEF Init, Joined, Users, Holds
  <2>2. PortsApart(i) /\ Connected(i)
    BY <2>1 DEF Init, PortsApart, Connected
  <2>3. Counted(i)
    BY <2>1, FS_EmptySet DEF Init, Counted
  <2>. QED
    BY <2>2, <2>3 DEF GroupInv
<1>. QED
  BY <1>1, <1>2, <1>3 DEF IInv

\* A request that starts, ends or gives up touches no LSI: it is enough that no
\* NF-FG joins a group, and that one leaves only in a failure.
LEMMA QuietIInv ==
    ASSUME IInv, TypeOK', Visiting', UNCHANGED lsis,
           \A i \in Groups : Joined(i)' \subseteq Joined(i),
           (~failed' /\ pc' # "aborted") =>
               ~failed /\ pc # "aborted" /\ \A i \in Groups : Joined(i)' = Joined(i)
    PROVE  IInv'
<1>1. ASSUME NEW i \in Groups PROVE GroupInv(i)'
  <2>1. timesUsed[i] \in Nat /\ GroupInv(i)
    BY DEF IInv, TypeOK
  <2>. QED
    BY <2>1, Untouched DEF lsis
<1>. QED
  BY <1>1 DEF IInv

\* A request that gives up leaves every NF-FG but its own where it was.
LEMMA GivesUp ==
    ASSUME TypeOK, tenantLSIs' = tenantLSIs, pc' \in {"idle", "aborted"}, NEW i
    PROVE  Joined(i)' \subseteq Joined(i)
BY DEF Joined, Users, Holds

\* The new link of an NF-FG that joins group k: its port is free, so it is no
\* other NF-FG's.
LEMMA JoinIInv ==
    ASSUME IInv, NEW p \in FreshPorts, CreateInternalLSI(p) \/ AddInternalLink(p)
    PROVE  IInv'
<1>1. /\ TypeOK /\ Visiting /\ \A i \in Groups : GroupInv(i)
      /\ pc = "attach" /\ todo # <<>> /\ cur \in Graphs
  BY Zenon DEF IInv, TypeOK, CreateInternalLSI, AddInternalLink
<1>2. PICK k \in Groups : k = group
  BY <1>1, AtGroup
<1>3. /\ todo' = Tail(todo) /\ conns' = [conns EXCEPT ![k][cur] = p]
      /\ irules' = [irules EXCEPT ![k] = irules[k] \o <<NormalRule(cur, p)>>]
      /\ UNCHANGED <<tenantLSIs, lsi0, pc, cur, failed>>
  BY <1>2 DEF CreateInternalLSI, AddInternalLink, Connect, addRules
<1>4. \/ /\ ~created[k] /\ created' = [created EXCEPT ![k] = TRUE]
         /\ timesUsed' = [timesUsed EXCEPT ![k] = 1] /\ vlinks' = [vlinks EXCEPT ![k] = <<p>>]
      \/ /\ created[k] /\ created' = created
         /\ timesUsed' = [timesUsed EXCEPT ![k] = timesUsed[k] + 1]
         /\ vlinks' = [vlinks EXCEPT ![k] = Append(vlinks[k], p)]
  BY <1>2 DEF CreateInternalLSI, AddInternalLink
<1>5. p \in Ports /\ p # NoPort /\ \A i \in Groups : p \notin Range(vlinks[i])
  BY NoPortIsNoPort DEF FreshPorts
<1>6. /\ cur \notin Joined(k) /\ Joined(k)' = Joined(k) \cup {cur}
      /\ \A i \in Groups \ {k} : Joined(i)' = Joined(i)
  BY <1>1, <1>2, <1>3, Joins
<1>a. irules \in [Groups -> Seq(NormalRules)]
  BY <1>1, Zenon DEF TypeOK
<1>b. NormalRule(cur, p) \in NormalRules
  BY <1>1, <1>5 DEF NormalRules
<1>7. /\ irules[k] \in Seq(NormalRules) /\ NormalRule(cur, p) \in NormalRules
      /\ irules[k] \o <<NormalRule(cur, p)>> = Append(irules[k], NormalRule(cur, p))
  BY <1>a, <1>b
<1>8. /\ irules'[k] \in Seq(NormalRules) /\ Range(irules'[k]) = Range(irules[k]) \cup {NormalRule(cur, p)}
  <2>1. irules'[k] = Append(irules[k], NormalRule(cur, p))
    BY <1>3, <1>7, <1>a
  <2>. QED
    BY <1>7, <2>1, AppendedSet
<1>c. /\ vlinks \in [Groups -> Seq(Ports \cup {NoPort})] /\ created \in [Groups -> BOOLEAN]
      /\ timesUsed \in [Groups -> Nat]
  BY <1>1, Zenon DEF TypeOK
<1>9. vlinks[k] \in Seq(Ports \cup {NoPort}) /\ timesUsed[k] \in Nat
  BY <1>c
<1>10. /\ Append(vlinks[k], p) \in Seq(Ports \cup {NoPort})
       /\ Len(Append(vlinks[k], p)) = Len(vlinks[k]) + 1
       /\ Range(Append(vlinks[k], p)) = Range(vlinks[k]) \cup {p}
  BY <1>5, <1>9, AppendedSet
<1>11. <<p>> \in Seq(Ports \cup {NoPort}) /\ Len(<<p>>) = 1 /\ Range(<<p>>) = {p}
  BY <1>5 DEF Range
<1>12. TypeOK'
  <2>1. todo' \in Seq(Groups)
    BY <1>1, <1>3, AtGroup
  <2>2. irules' \in [Groups -> Seq(NormalRules)]
    BY <1>3, <1>8, <1>a
  <2>3. conns' \in [Groups -> [Graphs -> Ports \cup {NoPort}]]
    BY <1>1, <1>3, <1>5 DEF TypeOK
  <2>4. vlinks' \in [Groups -> Seq(Ports \cup {NoPort})]
    BY <1>4, <1>10, <1>11, <1>c, Zenon
  <2>5. timesUsed' \in [Groups -> Nat]
    <3>1. \E n \in Nat : timesUsed' = [timesUsed EXCEPT ![k] = n]
      BY <1>4, <1>9
    <3>. QED
      BY <1>c, <3>1
  <2>6. created' \in [Groups -> BOOLEAN]
    BY <1>4, <1>c, Zenon
  <2>. QED
    BY <1>1, <1>3, <2>1, <2>2, <2>3, <2>4, <2>5, <2>6, Zenon DEF TypeOK
<1>13. Visiting'
  <2>1. IsInjective(todo') /\ Range(todo') \subseteq Range(todo)
    BY <1>1, <1>3, AtGroup
  <2>. QED
    BY <1>1, <1>3, <2>1 DEF Visiting
<1>14. ASSUME NEW i \in Groups \ {k} PROVE GroupInv(i)'
  <2>1. /\ created'[i] = created[i] /\ timesUsed'[i] = timesUsed[i] /\ vlinks'[i] = vlinks[i]
        /\ conns'[i] = conns[i] /\ irules'[i] = irules[i] /\ timesUsed[i] \in Nat
    BY <1>1, <1>3, <1>4 DEF TypeOK
  <2>. QED
    BY <1>1, <1>3, <1>6, <2>1, Untouched
<1>15. GroupInv(k)'
  <2>1. PortsApart(k) /\ Connected(k) /\ Counted(k)
    BY <1>1 DEF GroupInv
  <2>2. conns'[k] = [conns[k] EXCEPT ![cur] = p] /\ conns[k] \in [Graphs -> Ports \cup {NoPort}]
    BY <1>1, <1>3 DEF TypeOK
  <2>3. conns'[k][cur] = p /\ \A g \in Graphs \ {cur} : conns'[k][g] = conns[k][g]
    BY <1>1, <2>2
  <2>4. /\ created'[k] /\ p \in Range(vlinks'[k])
        /\ created[k] => Range(vlinks[k]) \subseteq Range(vlinks'[k])
    <3>1. CASE created[k]
      <4>1. created' = created /\ vlinks' = [vlinks EXCEPT ![k] = Append(vlinks[k], p)]
        BY <1>4, <3>1, Zenon
      <4>. QED
        BY <1>10, <1>c, <3>1, <4>1
    <3>2. CASE ~created[k]
      <4>1. created' = [created EXCEPT ![k] = TRUE] /\ vlinks' = [vlinks EXCEPT ![k] = <<p>>]
        BY <1>4, <3>2, Zenon
      <4>. QED
        BY <1>11, <1>c, <3>2, <4>1, Zenon
    <3>. QED
      BY <3>1, <3>2
  <2>5. \A g \in Graphs : conns[k][g] # p
    BY <1>5, <2>1 DEF PortsApart
  <2>6. PortsApart(k)'
    <3>1. ASSUME NEW g \in Graphs, conns'[k][g] # NoPort
          PROVE  /\ created'[k] /\ conns'[k][g] \in Range(vlinks'[k])
                 /\ \A h \in Graphs \ {g} : conns'[k][h] # conns'[k][g]
      <4>1. CASE g = cur
        BY <2>3, <2>4, <2>5, <4>1
      <4>2. CASE g # cur
        <5>1. conns[k][g] # NoPort /\ conns'[k][g] = conns[k][g]
          BY <2>3, <3>1, <4>2
        <5>2. created[k] /\ conns[k][g] \in Range(vlinks[k])
          BY <2>1, <5>1 DEF PortsApart
        <5>3. \A h \in Graphs \ {g} : conns'[k][h] # conns'[k][g]
          BY <2>1, <2>3, <2>5, <5>1, <4>2 DEF PortsApart
        <5>. QED
          BY <2>4, <5>1, <5>2, <5>3
      <4>. QED
        BY <4>1, <4>2
    <3>. QED
      BY <3>1 DEF PortsApart
  <2>7. Connected(k)'
    <3>1. ASSUME NEW g \in Joined(k)'
          PROVE  conns'[k][g] # NoPort /\ NormalRule(g, conns'[k][g]) \in Range(irules'[k])
      <4>1. CASE g = cur
        BY <1>5, <1>8, <2>3, <4>1
      <4>2. CASE g # cur
        <5>1. g \in Joined(k) /\ g \in Graphs
          BY <1>6, <4>2, FiniteJoined
        <5>. QED
          BY <1>8, <2>1, <2>3, <4>2, <5>1 DEF Connected
      <4>. QED
        BY <4>1, <4>2
    <3>. QED
      BY <3>1 DEF Connected, NormalRule
  <2>8. Counted(k)'
    <3>1. /\ Cardinality(Joined(k)') = Cardinality(Joined(k)) + 1
          /\ Cardinality(Joined(k)) \in Nat
      BY <1>6, FiniteJoined, FS_AddElement, Zenon
    <3>2. CASE created[k]
      <4>1. /\ created'[k] = created[k] /\ timesUsed'[k] = timesUsed[k] + 1
            /\ vlinks'[k] = Append(vlinks[k], p)
        BY <1>1, <1>4, <3>2 DEF TypeOK
      <4>. QED
        BY <1>3, <1>5, <1>9, <1>10, <2>1, <3>1, <3>2, <4>1 DEF Counted
    <3>3. CASE ~created[k]
      <4>1. Joined(k) = {}
        BY <2>1, <3>3, FiniteJoined DEF Connected, PortsApart
      <4>2. Cardinality(Joined(k)') = 1
        BY <3>1, <4>1, FS_EmptySet
      <4>3. /\ created'[k] = TRUE /\ timesUsed'[k] = 1 /\ vlinks'[k] = <<p>>
        BY <1>1, <1>4, <3>3 DEF TypeOK
      <4>. QED
        BY <1>11, <4>2, <4>3 DEF Counted
    <3>. QED
      BY <3>2, <3>3
  <2>. QED
    BY <2>6, <2>7, <2>8 DEF GroupInv
<1>. QED
  BY <1>12, <1>13, <1>14, <1>15 DEF IInv

\* removeRuleFromID keeps the rules with other identifiers.
LEMMA RuleGone ==
    ASSUME NEW rs \in Seq(NormalRules), NEW ID
    PROVE  /\ RuleRemoved(rs, ID) \in Seq(NormalRules)
           /\ \A x \in Range(rs) : x.id # ID => x \in Range(RuleRemoved(rs, ID))
<1>1. CASE WithID(rs, ID) = {}
  BY <1>1 DEF RuleRemoved
<1>2. CASE WithID(rs, ID) # {}
  <2> DEFINE j == Min(WithID(rs, ID))
  <2>1. WithID(rs, ID) \in SUBSET (1..Len(rs)) /\ Len(rs) \in Nat
    BY DEF WithID
  <2>2. j \in WithID(rs, ID)
    BY <1>2, <2>1, MinPosition, Zenon
  <2>3. j \in 1..Len(rs) /\ rs[j].id = ID
    BY <2>2 DEF WithID
  <2>4. RuleRemoved(rs, ID) = RemoveAt(rs, j)
    BY <1>2 DEF RuleRemoved, removeRuleFromID
  <2> HIDE DEF j
  <2>. QED
    BY <2>3, <2>4, Erasure, ErasedSet
<1>. QED
  BY <1>1, <1>2

\* The rules and links that DestroyInternalLSI and DestroyInternalLink take away
\* from group k are no other NF-FG's: a count of one use means that nobody else
\* holds a link, and otherwise the port and the identifier tell them apart.
LEMMA LeaveIInv ==
    ASSUME IInv, DestroyInternalLSI \/ DestroyInternalLink
    PROVE  IInv'
<1>1. /\ TypeOK /\ Visiting /\ \A i \in Groups : GroupInv(i)
      /\ pc = "detach" /\ todo # <<>> /\ cur \in Graphs
  BY Zenon DEF IInv, TypeOK, DestroyInternalLSI, DestroyInternalLink
<1>2. PICK k \in Groups : k = group
  BY <1>1, AtGroup
<1>3. /\ todo' = Tail(todo) /\ timesUsed' = [timesUsed EXCEPT ![k] = timesUsed[k] - 1]
      /\ UNCHANGED <<tenantLSIs, lsi0, pc, cur, failed>>
  BY <1>2 DEF DestroyInternalLSI, DestroyInternalLink
<1>4. /\ cur \in Joined(k) /\ Joined(k)' = Joined(k) \ {cur}
      /\ \A i \in Groups \ {k} : Joined(i)' = Joined(i)
  BY <1>1, <1>2, <1>3, Leaves
<1>5. PortsApart(k) /\ Connected(k) /\ Counted(k)
  BY <1>1 DEF GroupInv
<1>6. /\ vlinks \in [Groups -> Seq(Ports \cup {NoPort})] /\ created \in [Groups -> BOOLEAN]
      /\ timesUsed \in [Groups -> Nat] /\ irules \in [Groups -> Seq(NormalRules)]
      /\ conns \in [Groups -> [Graphs -> Ports \cup {NoPort}]]
  BY <1>1, Zenon DEF TypeOK
<1>7. /\ Cardinality(Joined(k)') = Cardinality(Joined(k)) - 1
      /\ Cardinality(Joined(k)) \in Nat
  BY <1>4, FiniteJoined, FS_RemoveElement, Zenon
<1>8. todo' \in Seq(Groups) /\ Visiting'
  <2>1. todo' \in Seq(Groups) /\ IsInjective(todo') /\ Range(todo') \subseteq Range(todo)
    BY <1>1, <1>3, AtGroup
  <2>. QED
    BY <1>1, <1>3, <2>1 DEF Visiting
<1>9. CASE DestroyInternalLSI
  <2>1. /\ created' = [created EXCEPT ![k] = FALSE] /\ vlinks' = [vlinks EXCEPT ![k] = <<>>]
        /\ conns' = [conns EXCEPT ![k] = [g \in Graphs |-> NoPort]]
        /\ irules' = [irules EXCEPT ![k] = <<>>] /\ timesUsed[k] = 1
    BY <1>2, <1>9 DEF DestroyInternalLSI, LastUse
  <2>2. Joined(k)' = {}
    <3>1. Cardinality(Joined(k)) = 1
      <4>1. Cardinality(Joined(k)) # 0
        BY <1>4, FiniteJoined, FS_EmptySet
      <4>2. 1 >= Cardinality(Joined(k))
        BY <1>5, <2>1 DEF Counted
      <4>. QED
        BY <1>7, <4>1, <4>2
    <3>2. Cardinality(Joined(k)') = 0
      BY <1>7, <3>1
    <3>. QED
      BY <1>4, <3>2, FiniteJoined, FS_Subset, FS_EmptySet
  <2>3. TypeOK'
    <3>1. timesUsed' \in [Groups -> Nat]
      BY <1>3, <1>6, <2>1
    <3>2. created' \in [Groups -> BOOLEAN]
      BY <1>6, <2>1
    <3>3. vlinks' \in [Groups -> Seq(Ports \cup {NoPort})] /\ irules' \in [Groups -> Seq(NormalRules)]
      BY <1>6, <2>1
    <3>4. conns' \in [Groups -> [Graphs -> Ports \cup {NoPort}]]
      BY <1>6, <2>1
    <3>. QED
      BY <1>1, <1>3, <1>8, <3>1, <3>2, <3>3, <3>4, Zenon DEF TypeOK
  <2>4. ASSUME NEW i \in Groups \ {k} PROVE GroupInv(i)'
    <3>1. /\ created'[i] = created[i] /\ timesUsed'[i] = timesUsed[i] /\ vlinks'[i] = vlinks[i]
          /\ conns'[i] = conns[i] /\ irules'[i] = irules[i] /\ timesUsed[i] \in Nat
      BY <1>3, <1>6, <2>1
    <3>. QED
      BY <1>1, <1>3, <1>4, <3>1, Untouched
  <2>5. GroupInv(k)'
    <3>1. /\ timesUsed'[k] = 0 /\ vlinks'[k] = <<>> /\ \A g \in Graphs : conns'[k][g] = NoPort
      BY <1>3, <1>6, <2>1
    <3>2. ~created'[k]
      BY <1>6, <2>1
    <3>3. PortsApart(k)'
      BY <3>1 DEF PortsApart
    <3>4. Connected(k)'
      BY <2>2 DEF Connected
    <3>5. Counted(k)'
      BY <2>2, <3>1, <3>2, FS_EmptySet DEF Counted
    <3>. QED
      BY <3>3, <3>4, <3>5 DEF GroupInv
  <2>. QED
    BY <1>8, <2>3, <2>4, <2>5 DEF IInv
<1>10. CASE DestroyInternalLink
  <2> DEFINE m == Min(LinkOf(k, cur))
             rs == RuleRemoved(irules[k], cur)
  <2>1. /\ irules' = [irules EXCEPT ![k] = rs] /\ vlinks' = [vlinks EXCEPT ![k] = RemoveAt(vlinks[k], m)]
        /\ conns' = [conns EXCEPT ![k][cur] = NoPort]
        /\ created' = created /\ created[k] /\ timesUsed[k] # 1 /\ Len(vlinks[k]) = timesUsed[k]
        /\ conns[k][cur] # NoPort /\ LinkOf(k, cur) # {}
    BY <1>2, <1>10 DEF DestroyInternalLink, RemoveLink, LastUse, LinksCounted, LinkKnown
  <2>2. m \in 1..Len(vlinks[k]) /\ vlinks[k][m] = conns[k][cur]
    <3>1. LinkOf(k, cur) \in SUBSET (1..Len(vlinks[k])) /\ Len(vlinks[k]) \in Nat
      BY <1>6 DEF LinkOf
    <3>2. m \in LinkOf(k, cur)
      BY <2>1, <3>1, MinPosition
    <3>. QED
      BY <3>2 DEF LinkOf
  <2>3. /\ RemoveAt(vlinks[k], m) \in Seq(Ports \cup {NoPort})
        /\ Len(RemoveAt(vlinks[k], m)) = Len(vlinks[k]) - 1
        /\ \A x \in Range(vlinks[k]) : x # conns[k][cur] => x \in Range(RemoveAt(vlinks[k], m))
    BY <1>6, <2>2, Erasure, ErasedSet
  <2>4. /\ rs \in Seq(NormalRules)
        /\ \A x \in Range(irules[k]) : x.id # cur => x \in Range(rs)
    BY <1>6, RuleGone
  <2> HIDE DEF m, rs
  <2>5. TypeOK'
    <3>1. timesUsed' \in [Groups -> Nat]
      <4>1. timesUsed[k] - 1 \in Nat
        BY <1>6, <2>2, <2>1
      <4>. QED
        BY <1>3, <1>6, <4>1
    <3>2. vlinks' \in [Groups -> Seq(Ports \cup {NoPort})] /\ irules' \in [Groups -> Seq(NormalRules)]
      BY <1>6, <2>1, <2>3, <2>4
    <3>3. conns' \in [Groups -> [Graphs -> Ports \cup {NoPort}]]
      BY <1>6, <2>1, Zenon
    <3>. QED
      BY <1>1, <1>3, <1>6, <1>8, <2>1, <3>1, <3>2, <3>3, Zenon DEF TypeOK
  <2>6. ASSUME NEW i \in Groups \ {k} PROVE GroupInv(i)'
    <3>1. /\ created'[i] = created[i] /\ timesUsed'[i] = timesUsed[i] /\ vlinks'[i] = vlinks[i]
          /\ conns'[i] = conns[i] /\ irules'[i] = irules[i] /\ timesUsed[i] \in Nat
      BY <1>3, <1>6, <2>1
    <3>. QED
      BY <1>1, <1>3, <1>4, <3>1, Untouched
  <2>7. GroupInv(k)'
    <3>1. /\ timesUsed'[k] = timesUsed[k] - 1 /\ vlinks'[k] = RemoveAt(vlinks[k], m) /\ irules'[k] = rs
          /\ conns'[k][cur] = NoPort /\ \A g \in Graphs \ {cur} : conns'[k][g] = conns[k][g]
      BY <1>1, <1>3, <1>6, <2>1
    <3>2. created'[k]
      BY <2>1
    <3>3. \A g \in Graphs \ {cur} : conns[k][g] # conns[k][cur]
      BY <1>1, <1>5, <2>1 DEF PortsApart
    <3>4. PortsApart(k)'
      <4>1. ASSUME NEW g \in Graphs, conns'[k][g] # NoPort
            PROVE  /\ created'[k] /\ conns'[k][g] \in Range(vlinks'[k])
                   /\ \A h \in Graphs \ {g} : conns'[k][h] # conns'[k][g]
        <5>1. g # cur /\ conns'[k][g] = conns[k][g] /\ conns[k][g] # NoPort
          BY <3>1, <4>1
        <5>2. /\ conns[k][g] \in Range(vlinks[k])
              /\ \A h \in Graphs \ {g} : conns[k][h] # conns[k][g]
          BY <1>5, <5>1 DEF PortsApart
        <5>3. conns[k][g] \in Range(vlinks'[k])
          BY <2>3, <3>1, <3>3, <5>1, <5>2
        <5>. QED
          BY <3>1, <3>2, <4>1, <5>1, <5>2, <5>3
      <4>. QED
        BY <4>1 DEF PortsApart
    <3>5. Connected(k)'
      <4>1. ASSUME NEW g \in Joined(k)'
            PROVE  conns'[k][g] # NoPort /\ NormalRule(g, conns'[k][g]) \in Range(irules'[k])
        <5>1. g \in Joined(k) /\ g # cur /\ g \in Graphs
          BY <1>4, FiniteJoined
        <5>2. conns[k][g] # NoPort /\ NormalRule(g, conns[k][g]) \in Range(irules[k])
          BY <1>5, <5>1 DEF Connected
        <5>3. NormalRule(g, conns[k][g]).id = g
          BY DEF NormalRule
        <5>. QED
          BY <2>4, <3>1, <5>1, <5>2, <5>3
      <4>. QED
        BY <4>1 DEF Connected, NormalRule
    <3>6. Counted(k)'
      <4>1. Len(vlinks'[k]) = timesUsed'[k] /\ timesUsed'[k] > 0
        BY <1>6, <2>1, <2>2, <2>3, <3>1
      <4>2. timesUsed'[k] >= Cardinality(Joined(k)')
        BY <1>5, <1>6, <1>7, <3>1 DEF Counted
      <4>3. (~failed /\ pc # "aborted") => timesUsed'[k] = Cardinality(Joined(k)')
        BY <1>5, <1>6, <1>7, <3>1 DEF Counted
      <4>. QED
        BY <1>3, <3>2, <4>1, <4>2, <4>3 DEF Counted
    <3>. QED
      BY <3>4, <3>5, <3>6 DEF GroupInv
  <2>. QED
    BY <1>8, <2>5, <2>6, <2>7 DEF IInv
<1>. QED
  BY <1>9, <1>10

\* A link that the switch manager did not create stays in the list of group k,
\* and its NF-FG gives up.
LEMMA AddFailsIInv ==
    ASSUME IInv, AddInternalLinkFails
    PROVE  IInv'
<1>1. TypeOK /\ Visiting /\ todo # <<>> /\ \A i \in Groups : GroupInv(i)
  BY Zenon DEF IInv, AddInternalLinkFails
<1>2. PICK k \in Groups : k = group
  BY <1>1, AtGroup
<1>3. /\ vlinks' = [vlinks EXCEPT ![k] = Append(vlinks[k], NoPort)]
      /\ pc' = "idle" /\ todo' = <<>> /\ failed' = TRUE
      /\ UNCHANGED <<tenantLSIs, lsi0, created, timesUsed, conns, irules, cur>>
  BY <1>2 DEF AddInternalLinkFails
<1>4. vlinks \in [Groups -> Seq(Ports \cup {NoPort})] /\ timesUsed \in [Groups -> Nat]
  BY <1>1, Zenon DEF TypeOK
<1>5. /\ Append(vlinks[k], NoPort) \in Seq(Ports \cup {NoPort})
      /\ Range(Append(vlinks[k], NoPort)) = Range(vlinks[k]) \cup {NoPort}
  BY <1>4, AppendedSet
<1>6. TypeOK'
  <2>1. vlinks' \in [Groups -> Seq(Ports \cup {NoPort})] /\ todo' \in Seq(Groups)
    BY <1>3, <1>4, <1>5
  <2>. QED
    BY <1>1, <1>3, <2>1 DEF TypeOK
<1>7. Visiting'
  BY <1>3 DEF Visiting, IsInjective
<1>8. ASSUME NEW i \in Groups PROVE GroupInv(i)'
  <2>1. Joined(i)' \subseteq Joined(i)
    BY <1>1, <1>3, GivesUp
  <2>2. CASE i # k
    <3>1. vlinks'[i] = vlinks[i] /\ timesUsed[i] \in Nat
      BY <1>3, <1>4, <2>2
    <3>. QED
      BY <1>1, <1>3, <2>1, <3>1, Untouched
  <2>3. CASE i = k
    <3>1. Range(vlinks'[i]) = Range(vlinks[i]) \cup {NoPort}
      BY <1>3, <1>4, <1>5, <2>3
    <3>2. PortsApart(i)'
      BY <1>1, <1>3, <3>1 DEF GroupInv, PortsApart
    <3>3. Connected(i)'
      BY <1>1, <1>3, <2>1 DEF GroupInv, Connected, NormalRule
    <3>4. Counted(i)'
      <4>1. Cardinality(Joined(i)') <= Cardinality(Joined(i))
        BY <2>1, FiniteJoined, FS_Subset
      <4>2. Cardinality(Joined(i)') \in Nat /\ Cardinality(Joined(i)) \in Nat
        BY <2>1, FiniteJoined, FS_Subset, FS_CardinalityType
      <4>3. timesUsed[i] \in Nat /\ timesUsed[i] >= Cardinality(Joined(i)')
        BY <1>1, <1>4, <4>1, <4>2 DEF GroupInv, Counted
      <4>. QED
        BY <1>1, <1>3, <3>1, <4>3 DEF GroupInv, Counted
    <3>. QED
      BY <3>2, <3>3, <3>4 DEF GroupInv
  <2>. QED
    BY <2>2, <2>3
<1>. QED
  BY <1>6, <1>7, <1>8 DEF IInv

\* A link that cannot be destroyed keeps its place, but its NF-FG has lost its
\* rule, and gives up.
LEMMA DestroyFailsIInv ==
    ASSUME IInv, DestroyInternalLinkFails
    PROVE  IInv'
<1>1. TypeOK /\ Visiting /\ todo # <<>> /\ pc = "detach" /\ \A i \in Groups : GroupInv(i)
  BY Zenon DEF IInv, DestroyInternalLinkFails
<1>2. PICK k \in Groups : k = group
  BY <1>1, AtGroup
<1>3. /\ irules' = [irules EXCEPT ![k] = RuleRemoved(irules[k], cur)]
      /\ pc' = "idle" /\ todo' = <<>> /\ failed' = TRUE
      /\ UNCHANGED <<tenantLSIs, lsi0, created, timesUsed, vlinks, conns, cur>>
  BY <1>2 DEF DestroyInternalLinkFails
<1>4. irules \in [Groups -> Seq(NormalRules)] /\ timesUsed \in [Groups -> Nat]
  BY <1>1, Zenon DEF TypeOK
<1>5. /\ RuleRemoved(irules[k], cur) \in Seq(NormalRules)
      /\ \A x \in Range(irules[k]) : x.id # cur => x \in Range(RuleRemoved(irules[k], cur))
  BY <1>4, RuleGone
<1>6. TypeOK'
  <2>1. irules' \in [Groups -> Seq(NormalRules)] /\ todo' \in Seq(Groups)
    BY <1>3, <1>4, <1>5
  <2>. QED
    BY <1>1, <1>3, <2>1 DEF TypeOK
<1>7. Visiting'
  BY <1>3 DEF Visiting, IsInjective
<1>8. ASSUME NEW i \in Groups PROVE GroupInv(i)'
  <2>1. Joined(i)' \subseteq Joined(i)
    BY <1>1, <1>3, GivesUp
  <2>2. CASE i # k
    <3>1. irules'[i] = irules[i] /\ timesUsed[i] \in Nat
      BY <1>3, <1>4, <2>2
    <3>. QED
      BY <1>1, <1>3, <2>1, <3>1, Untouched
  <2>3. CASE i = k
    <3>1. irules'[i] = RuleRemoved(irules[k], cur)
      BY <1>3, <1>4, <2>3
    <3>2. PortsApart(i)'
      BY <1>1, <1>3 DEF GroupInv, PortsApart
    <3>3. Connected(i)'
      <4>1. ASSUME NEW g \in Joined(i)'
            PROVE  conns'[i][g] # NoPort /\ NormalRule(g, conns'[i][g]) \in Range(irules'[i])
        <5>1. g \in Joined(i) /\ g # cur
          <6>1. g \in tenantLSIs
            BY <1>3, <4>1 DEF Joined, Users, Holds
          <6>. QED
            BY <1>1, <2>1, <6>1 DEF Visiting
        <5>2. conns[i][g] # NoPort /\ NormalRule(g, conns[i][g]) \in Range(irules[i])
          BY <1>1, <5>1 DEF GroupInv, Connected
        <5>3. NormalRule(g, conns[i][g]).id = g
          BY DEF NormalRule
        <5>. QED
          BY <1>3, <1>5, <2>3, <3>1, <5>1, <5>2, <5>3
      <4>. QED
        BY <4>1 DEF Connected, NormalRule
    <3>4. Counted(i)'
      <4>1. Cardinality(Joined(i)') <= Cardinality(Joined(i))
        BY <2>1, FiniteJoined, FS_Subset
      <4>2. Cardinality(Joined(i)') \in Nat /\ Cardinality(Joined(i)) \in Nat
        BY <2>1, FiniteJoined, FS_Subset, FS_CardinalityType
      <4>3. timesUsed[i] \in Nat /\ timesUsed[i] >= Cardinality(Joined(i)')
        BY <1>1, <1>4, <4>1, <4>2 DEF GroupInv, Counted
      <4>. QED
        BY <1>1, <1>3, <4>3 DEF GroupInv, Counted
    <3>. QED
      BY <3>2, <3>3, <3>4 DEF GroupInv
  <2>. QED
    BY <2>2, <2>3
<1>. QED
  BY <1>6, <1>7, <1>8 DEF IInv

\* A new controller without rules is given only to groups whose LSI nobody holds.
LEMMA NewGraphIInv ==
    ASSUME EndpointsApart, IInv, NEW g \in Graphs, NewGraph(g)
    PROVE  IInv'
<1>1. /\ TypeOK /\ \A i \in Groups : GroupInv(i)
      /\ g \notin tenantLSIs /\ pc = "idle" /\ pc' = "attach" /\ cur' = g /\ todo' = EndpointsOf[g]
      /\ UNCHANGED <<tenantLSIs, lsi0, created, timesUsed, vlinks, conns, failed>>
  BY Zenon DEF IInv, NewGraph
<1>2. irules' = [i \in Groups |-> IF i \in Range(EndpointsOf[g]) /\ ~created[i]
                                  THEN <<>> ELSE irules[i]]
  BY DEF NewGraph
<1>3. irules \in [Groups -> Seq(NormalRules)] /\ timesUsed \in [Groups -> Nat]
  BY <1>1, Zenon DEF TypeOK
<1>4. EndpointsOf[g] \in Seq(Groups) /\ IsInjective(EndpointsOf[g])
  BY EndpointsAreGroups DEF EndpointsApart
<1>5. TypeOK'
  <2>1. irules' \in [Groups -> Seq(NormalRules)]
    BY <1>2, <1>3
  <2>. QED
    BY <1>1, <1>4, <2>1, Zenon DEF TypeOK
<1>6. Visiting'
  BY <1>1, <1>4 DEF Visiting
<1>7. ASSUME NEW i \in Groups PROVE GroupInv(i)'
  <2>1. Joined(i)' = Joined(i)
    BY <1>1 DEF Joined, Users, Holds
  <2>2. CASE irules'[i] = irules[i]
    <3>1. timesUsed[i] \in Nat
      BY <1>3
    <3>. QED
      BY <1>1, <2>1, <2>2, <3>1, Untouched
  <2>3. CASE irules'[i] # irules[i]
    <3>1. ~created[i]
      BY <1>2, <2>3
    <3>2. Joined(i) = {}
      BY <1>1, <3>1, FiniteJoined DEF GroupInv, Connected, PortsApart
    <3>3. Connected(i)'
      BY <2>1, <3>2 DEF Connected
    <3>4. PortsApart(i)' /\ Counted(i)'
      BY <1>1, <2>1 DEF GroupInv, PortsApart, Counted
    <3>. QED
      BY <3>3, <3>4 DEF GroupInv
  <2>. QED
    BY <2>2, <2>3
<1>. QED
  BY <1>5, <1>6, <1>7 DEF IInv

\* The beginnings and ends of requests.
LEMMA RequestIInv ==
    ASSUME EndpointsApart, IInv,
           \/ Deployed \/ LoweringFails \/ Deleted \/ AssertFails
           \/ CreateInternalLSIFails \/ DestroyInternalLSIFails
           \/ \E g \in Graphs : DeleteGraph(g) \/ DeleteGraphFails(g)
    PROVE  IInv'
<1>1. TypeOK /\ Visiting /\ \A i : Users(i) \subseteq Graphs
  BY DEF IInv, TypeOK, Users
<1>2. <<>> \in Seq(Groups) /\ IsInjective(<<>>)
  BY DEF IsInjective
<1>3. CASE Deployed
  <2>1. TypeOK' /\ Visiting' /\ UNCHANGED lsis
    BY <1>1, <1>3 DEF Deployed, TypeOK, Visiting, lsis
  <2>2. ASSUME NEW i \in Groups PROVE Joined(i)' = Joined(i)
    <3>1. Users(i)' = {g \in tenantLSIs \cup {cur} : i \in Range(EndpointsOf[g])} /\ ~Holds(i)'
      BY <1>3 DEF Deployed, Users, Holds
    <3>2. Holds(i) <=> i \in Range(EndpointsOf[cur])
      BY <1>3 DEF Deployed, Holds, Range
    <3>. QED
      BY <3>1, <3>2 DEF Joined, Users
  <2>. QED
    BY <1>3, <2>1, <2>2, QuietIInv DEF Deployed
<1>4. CASE Deleted
  <2>1. TypeOK' /\ Visiting' /\ UNCHANGED lsis
    BY <1>1, <1>4 DEF Deleted, TypeOK, Visiting, lsis
  <2>2. ASSUME NEW i \in Groups PROVE Joined(i)' = Joined(i)
    BY <1>4 DEF Deleted, Joined, Users, Holds, Range
  <2>. QED
    BY <1>4, <2>1, <2>2, QuietIInv DEF Deleted
<1>5. CASE AssertFails
  <2>1. TypeOK' /\ Visiting' /\ UNCHANGED lsis
    BY <1>1, <1>5 DEF AssertFails, TypeOK, Visiting, lsis
  <2>2. \A i \in Groups : Joined(i)' \subseteq Joined(i)
    BY <1>1, <1>5, GivesUp DEF AssertFails
  <2>. QED
    BY <1>5, <2>1, <2>2, QuietIInv DEF AssertFails
<1>6. CASE LoweringFails \/ CreateInternalLSIFails \/ DestroyInternalLSIFails
  <2>0. /\ pc' = "idle" /\ todo' = <<>> /\ failed' = TRUE
        /\ UNCHANGED <<tenantLSIs, lsi0, lsis, cur>>
    BY <1>6, Zenon DEF LoweringFails, CreateInternalLSIFails, DestroyInternalLSIFails
  <2>1. TypeOK' /\ Visiting' /\ UNCHANGED lsis
    BY <1>1, <1>2, <2>0 DEF TypeOK, Visiting, lsis
  <2>2. \A i \in Groups : Joined(i)' \subseteq Joined(i)
    BY <1>1, <2>0, GivesUp
  <2>. QED
    BY <2>0, <2>1, <2>2, QuietIInv
<1>7. ASSUME NEW g \in Graphs, DeleteGraph(g) PROVE IInv'
  <2>0. /\ pc = "idle" /\ g \in tenantLSIs /\ cur' = g /\ UNCHANGED <<lsis, failed>>
        /\ \/ pc' = "detach" /\ todo' = EndpointsOf[g] /\ lsi0' = lsi0 \ {g} /\ tenantLSIs' = tenantLSIs \ {g}
           \/ pc' = "aborted" /\ UNCHANGED <<todo, lsi0, tenantLSIs>>
    BY <1>7, Zenon DEF DeleteGraph
  <2>1. EndpointsOf[g] \in Seq(Groups) /\ IsInjective(EndpointsOf[g])
    BY EndpointsAreGroups DEF EndpointsApart
  <2>2. TypeOK' /\ Visiting' /\ UNCHANGED lsis
    BY <1>1, <2>0, <2>1 DEF TypeOK, Visiting, lsis
  <2>3. ASSUME NEW i \in Groups PROVE Joined(i)' = Joined(i)
    <3>1. ~Holds(i)
      BY <2>0 DEF Holds
    <3>2. CASE pc' = "aborted"
      BY <2>0, <3>1, <3>2 DEF Joined, Users, Holds
    <3>3. CASE pc' = "detach"
      <4>1. Holds(i)' <=> i \in Range(EndpointsOf[g])
        BY <2>0, <3>3 DEF Holds
      <4>. QED
        BY <2>0, <3>1, <3>3, <4>1 DEF Joined, Users
    <3>. QED
      BY <2>0, <3>2, <3>3
  <2>. QED
    BY <2>0, <2>2, <2>3, QuietIInv
<1>8. ASSUME NEW g \in Graphs, DeleteGraphFails(g) PROVE IInv'
  <2>1. TypeOK' /\ Visiting' /\ UNCHANGED lsis
    BY <1>1, <1>8 DEF DeleteGraphFails, TypeOK, Visiting, lsis
  <2>2. \A i \in Groups : Joined(i)' \subseteq Joined(i)
    BY <1>8 DEF DeleteGraphFails, Joined, Users, Holds
  <2>. QED
    BY <1>8, <2>1, <2>2, QuietIInv DEF DeleteGraphFails
<1>. QED
  BY <1>3, <1>4, <1>5, <1>6, <1>7, <1>8, Zenon

\* Every step keeps the invariant.
LEMMA NextIInv ==
    ASSUME EndpointsApart, IInv, [Next]_vars
    PROVE  IInv'
<1>1. CASE UNCHANGED vars
  <2>1. TypeOK' /\ Visiting'
    BY <1>1 DEF vars, lsis, IInv, TypeOK, Visiting
  <2>2. \A i \in Groups : Joined(i)' = Joined(i)
    BY <1>1 DEF vars, Joined, Users, Holds
  <2>. QED
    BY <1>1, <2>1, <2>2, QuietIInv DEF vars
<1>. QED
  BY <1>1, JoinIInv, LeaveIInv, AddFailsIInv, DestroyFailsIInv, NewGraphIInv, RequestIInv, Zenon
     DEF Next, Attach, Detach

\* If no NF-FG has two endpoints in one group, then after any requests and
\* failures the links, connections, rules and counters of every internal LSI
\* agree with the NF-FGs that use it.
THEOREM Inductive == EndpointsApart => (Spec => []IInv)
<1> SUFFICES ASSUME EndpointsApart PROVE Spec => []IInv
  OBVIOUS
<1>. QED
  BY InitIInv, NextIInv, PTL DEF Spec

-----------------------------------------------------------------------------
\* A deployed NF-FG holds a link of each of its groups.
LEMMA UsersJoined ==
    ASSUME TypeOK, NEW i
    PROVE  Users(i) \subseteq Joined(i)
BY DEF TypeOK, Users, Joined

\* Whichever NF-FGs come and go and whatever calls of the switch manager fail, a
\* deployed NF-FG keeps the LSI, the link, the port and the rule that connect it
\* to each of its groups, if no NF-FG has two endpoints in one group.
THEOREM AlwaysConnected == EndpointsApart => (Spec => []StillConnected)
<1> SUFFICES ASSUME EndpointsApart PROVE Spec => []StillConnected
  OBVIOUS
<1>1. IInv => StillConnected
  <2> SUFFICES ASSUME IInv, NEW i \in Groups, NEW g \in Users(i)
               PROVE  /\ created[i] /\ LinkOf(i, g) # {}
                      /\ NormalRule(g, conns[i][g]) \in Range(irules[i])
                      /\ \A h \in Users(i) \ {g} : conns[i][h] # conns[i][g]
    BY Zenon DEF StillConnected
  <2>1. TypeOK /\ PortsApart(i) /\ Connected(i)
    BY DEF IInv, GroupInv
  <2>2. g \in Joined(i) /\ g \in Graphs /\ Users(i) \subseteq Graphs
    BY <2>1, UsersJoined, FiniteJoined, Zenon
  <2>3. conns[i][g] # NoPort /\ NormalRule(g, conns[i][g]) \in Range(irules[i])
    BY <2>1, <2>2 DEF Connected
  <2>4. /\ created[i] /\ conns[i][g] \in Range(vlinks[i])
        /\ \A h \in Graphs \ {g} : conns[i][h] # conns[i][g]
    BY <2>1, <2>2, <2>3 DEF PortsApart
  <2>5. vlinks[i] \in Seq(Ports \cup {NoPort})
    BY <2>1 DEF TypeOK
  <2>6. LinkOf(i, g) # {}
    BY <2>4, <2>5 DEF LinkOf, Range
  <2>. QED
    BY <2>2, <2>3, <2>4, <2>6
<1>. QED
  BY <1>1, Inductive, PTL

\* deleteGraph fails none of its asserts at an endpoint whose internal LSI has
\* only links that the switch manager created.
THEOREM AssertsAlwaysHold == EndpointsApart => (Spec => []AssertsHold)
<1> SUFFICES ASSUME EndpointsApart PROVE Spec => []AssertsHold
  OBVIOUS
<1>1. IInv => AssertsHold
  <2> SUFFICES ASSUME IInv, pc = "detach", todo # <<>>, NoPort \notin Range(vlinks[group])
               PROVE  LinksCounted /\ LinkKnown
    BY Zenon DEF AssertsHold
  <2>1. TypeOK /\ Visiting
    BY DEF IInv
  <2>2. group \in Groups /\ group \in Range(todo)
    BY <2>1, AtGroup
  <2>3. PortsApart(group) /\ Connected(group) /\ Counted(group)
    BY <2>2 DEF IInv, GroupInv
  <2>4. cur \in Joined(group) /\ cur \in Graphs
    BY <2>1, <2>2 DEF Joined, Holds, TypeOK
  <2>5. /\ conns[group][cur] # NoPort /\ created[group]
        /\ conns[group][cur] \in Range(vlinks[group])
    BY <2>3, <2>4 DEF Connected, PortsApart
  <2>6. LinksCounted
    BY <2>3, <2>5 DEF LinksCounted, Counted
  <2>7. vlinks[group] \in Seq(Ports \cup {NoPort})
    BY <2>1, <2>2 DEF TypeOK
  <2>8. LinkKnown
    BY <2>5, <2>7 DEF LinkKnown, LinkOf, Range
  <2>. QED
    BY <2>6, <2>8
<1>. QED
  BY <1>1, Inductive, PTL

\* timesUsedEndPointsInternal counts the deployed NF-FGs of a group until the
\* first failure, and never fewer; the LSI exists exactly if it is not 0.
THEOREM AlwaysCountsGraphs == EndpointsApart => (Spec => []CountsGraphs)
<1> SUFFICES ASSUME EndpointsApart PROVE Spec => []CountsGraphs
  OBVIOUS
<1>1. IInv => CountsGraphs
  <2> SUFFICES ASSUME IInv, pc = "idle", NEW i \in Groups
               PROVE  /\ timesUsed[i] >= Cardinality(Users(i)) /\ created[i] = (timesUsed[i] > 0)
                      /\ ~failed => timesUsed[i] = Cardinality(Users(i))
    BY Zenon DEF CountsGraphs
  <2>1. TypeOK /\ Counted(i) /\ created[i] \in BOOLEAN
    BY DEF IInv, GroupInv, TypeOK
  <2>2. Joined(i) = Users(i)
    BY <2>1 DEF Joined, Holds, Users, TypeOK
  <2>. QED
    BY <2>1, <2>2 DEF Counted
<1>. QED
  BY <1>1, Inductive, PTL
=============================================================================
