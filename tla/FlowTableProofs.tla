--------------------------- MODULE FlowTableProofs ---------------------------
(***************************************************************************)
(* The list and the flow table of the OpenFlow controller, for any number  *)
(* of rules, also rules that share a flow: on a tenant LSI, and on LSI-0   *)
(* when the NF-FGs use different traffic, the list holds the wanted rules  *)
(* and the controller implements the abstract table.                       *)
(***************************************************************************)
EXTENDS OpenFlowController, ListOpsProofs, FiniteSetTheorems

\* There are finitely many rules, so a set of them can be listed.
LEMMA FiniteRules == IsFiniteSet(LegalRules)
<1> DEFINE D == RuleIDs \X Flows
           rule == [p \in D |-> [id |-> p[1], match |-> p[2].match, out |-> p[2].out, extra |-> p[2].extra]]
<1>1. IsFiniteSet(D)
  BY FiniteConstants, FS_Product, Zenon DEF RuleIDs
<1>2. \A r \in LegalRules : \E p \in D : rule[p] = r
  <2>1. SUFFICES ASSUME NEW r \in LegalRules PROVE \E p \in D : rule[p] = r
    OBVIOUS
  <2>2. PICK i \in RuleIDs, f \in Flows : r = [id |-> i, match |-> f.match, out |-> f.out, extra |-> f.extra]
    BY DEF LegalRules
  <2>3. <<i, f>> \in D /\ rule[<<i, f>>] = r
    BY <2>2
  <2>. QED
    BY <2>3
<1>3. rule \in [D -> LegalRules]
  <2>1. SUFFICES ASSUME NEW p \in D PROVE rule[p] \in LegalRules
    OBVIOUS
  <2>2. p[1] \in RuleIDs /\ p[2] \in Flows
    OBVIOUS
  <2>. QED
    BY <2>2 DEF LegalRules
<1>4. rule \in Surjection(D, LegalRules)
  BY <1>2, <1>3, Zenon DEF Surjection
<1>. QED
  BY <1>1, <1>4, FS_Surjection, Zenon

\* The rules the graph manager hands over form a list of legal rules.
LEMMA SeqsOfSet ==
    ASSUME NEW R \in SUBSET LegalRules, NEW rs \in SetToSeqs(R)
    PROVE  rs \in Seq(LegalRules)
<1>1. Cardinality(R) \in Nat
  BY FiniteRules, FS_Subset, FS_CardinalityType
<1>2. rs \in [1..Cardinality(R) -> R]
  BY DEF SetToSeqs
<1>. QED
  BY <1>1, <1>2

\* A legal rule is turned into one of the flows.
LEMMA LegalFlow ==
    ASSUME NEW r \in LegalRules
    PROVE  FlowOf(r) \in Flows
BY FlowsAreFlows DEF LegalRules, FlowOf

\* The rule removeRuleFromID erases is in the list, at the position it erases.
LEMMA RuleWithID ==
    ASSUME NEW ID, NEW s \in Seq(LegalRules), WithID(s, ID) # {}
    PROVE  /\ Min(WithID(s, ID)) \in 1..Len(s)
           /\ s[Min(WithID(s, ID))].id = ID
           /\ getRule(s, ID) \in LegalRules
           /\ removeRuleFromID(s, ID) \in Seq(LegalRules)
<1>1. Len(s) \in Nat /\ WithID(s, ID) \in SUBSET (1..Len(s))
  BY DEF WithID
<1>2. Min(WithID(s, ID)) \in WithID(s, ID)
  BY <1>1, MinPosition
<1>3. Min(WithID(s, ID)) \in 1..Len(s) /\ s[Min(WithID(s, ID))].id = ID
  BY <1>2 DEF WithID
<1>. QED
  BY <1>3, Erasure DEF getRule, removeRuleFromID

\* And so is the rule removeRule erases, which has the match of the given one.
LEMMA RuleEqualTo ==
    ASSUME NEW r, NEW s \in Seq(LegalRules), EqualTo(s, r) # {}
    PROVE  /\ Min(EqualTo(s, r)) \in 1..Len(s)
           /\ s[Min(EqualTo(s, r))].match = r.match
           /\ removeRule(s, r) \in Seq(LegalRules)
<1>1. Len(s) \in Nat /\ EqualTo(s, r) \in SUBSET (1..Len(s))
  BY DEF EqualTo
<1>2. Min(EqualTo(s, r)) \in EqualTo(s, r)
  BY <1>1, MinPosition
<1>3. Min(EqualTo(s, r)) \in 1..Len(s) /\ s[Min(EqualTo(s, r))].match = r.match
  BY <1>2 DEF EqualTo, SameFlow
<1>. QED
  BY <1>3, Erasure DEF removeRule

-----------------------------------------------------------------------------
\* A flow-mod leaves a table of flows.
LEMMA TableType ==
    ASSUME NEW T \in SUBSET Flows, NEW r \in LegalRules
    PROVE  AddFlow(T, r) \in SUBSET Flows /\ DeleteStrict(T, r) \in SUBSET Flows
BY LegalFlow DEF AddFlow, DeleteStrict

\* Every step of the controller, of its two threads and of the switch keeps
\* the types.
LEMMA TypeStep == TypeOK /\ [Next]_vars => TypeOK'
<1> SUFFICES ASSUME TypeOK, [Next]_vars PROVE TypeOK'
  OBVIOUS
<1>1. CASE Install
  <2>a. PICK g \in Graphs : \E R \in NewRules(g) : \E rs \in SetToSeqs(R) : InstallNewRules(rs)
    BY <1>1 DEF Install
  <2>b. PICK R \in NewRules(g) : \E rs \in SetToSeqs(R) : InstallNewRules(rs)
    BY <2>a
  <2>1. PICK rs \in SetToSeqs(R) : InstallNewRules(rs)
    BY <2>b
  <2>2. R \in SUBSET LegalRules
    BY DEF NewRules
  <2>3. rs \in Seq(LegalRules)
    BY <2>2, SeqsOfSet
  <2>4. graph \o rs \in Seq(LegalRules) /\ Range(rs) \in SUBSET LegalRules
    BY <2>3 DEF TypeOK, Range
  <2>. QED
    <3>1. graph' \in Seq(LegalRules) /\ wanted' \in SUBSET LegalRules
      BY <2>1, <2>4 DEF TypeOK, InstallNewRules, addRules
    <3>2. CASE isOpen /\ rs # <<>>
      <4>1. /\ mutex' = "orch" /\ pc' = "send" /\ command' = "ADD" /\ rules' = rs
            /\ UNCHANGED <<isOpen, batch, up, opening, table, crashed>>
        BY <2>1, <3>2 DEF InstallNewRules, SendTo, switch
      <4>. QED
        BY <2>3, <3>1, <3>2, <4>1 DEF TypeOK
    <3>3. CASE ~(isOpen /\ rs # <<>>)
      <4>1. /\ mutex' = "free" /\ pc' = "idle" /\ command' = command /\ rules' = <<>>
            /\ UNCHANGED <<isOpen, batch, up, opening, table, crashed>>
        BY <2>1, <3>3 DEF InstallNewRules, SendTo, switch
      <4>. QED
        BY <3>1, <4>1 DEF TypeOK
    <3>. QED
      BY <3>2, <3>3
<1>2. CASE RemoveOne
  <2>1. PICK ID \in IDs(wanted) : RemoveRuleFromID(ID)
    BY <1>2 DEF RemoveOne
  <2>2. CASE WithID(graph, ID) = {}
    BY <2>1, <2>2 DEF TypeOK, RemoveRuleFromID, switch
  <2>3. CASE WithID(graph, ID) # {}
    <3>1. removeRuleFromID(graph, ID) \in Seq(LegalRules) /\ <<getRule(graph, ID)>> \in Seq(LegalRules)
      BY <2>3, RuleWithID DEF TypeOK
    <3> DEFINE send == isOpen /\ ~anotherIdentical(graph, ID)
    <3>2. /\ graph' = removeRuleFromID(graph, ID)
          /\ SendTo("orch", "RM", <<getRule(graph, ID)>>, send)
          /\ wanted' \in SUBSET LegalRules
          /\ UNCHANGED <<isOpen, batch, switch, crashed>>
      BY <2>1, <2>3 DEF TypeOK, RemoveRuleFromID
    <3> HIDE DEF send
    <3>3. CASE send
      BY <3>1, <3>2, <3>3, Zenon DEF TypeOK, SendTo, switch
    <3>4. CASE ~send
      BY <3>1, <3>2, <3>4 DEF TypeOK, SendTo, switch
    <3>. QED
      BY <3>3, <3>4
  <2>. QED
    BY <2>2, <2>3
<1>3. CASE SendFlowMod
  <2>1. rules # <<>>
    BY <1>3 DEF SendFlowMod, TypeOK
  <2>2. Head(rules) \in LegalRules /\ Tail(rules) \in Seq(LegalRules)
    BY <2>1 DEF TypeOK
  <2>3. table' \in SUBSET Flows
    BY <1>3, <2>2, TableType, Zenon DEF SendFlowMod, TypeOK
  <2>. QED
    BY <1>3, <2>2, <2>3, Zenon DEF TypeOK, SendFlowMod, SendTo, ctrl
<1>4. CASE HandleDptOpen
  BY <1>4, Zenon DEF TypeOK, HandleDptOpen, SendTo
<1>5. CASE HandleDptClose
  BY <1>5, Zenon DEF TypeOK, HandleDptClose, switch
<1>6. CASE ConnectionLost
  BY <1>6, Zenon DEF TypeOK, ConnectionLost, ctrl
<1>7. CASE Connect
  BY <1>7 DEF TypeOK, Connect, ctrl
<1>8. CASE RemoveAll
  <2>a. PICK g \in Graphs : \E rs \in SetToSeqs({r \in wanted : r.id[1] = g}) : rs # <<>> /\ RemoveRules(rs)
    BY <1>8, Zenon DEF RemoveAll
  <2>1. PICK rs \in SetToSeqs({r \in wanted : r.id[1] = g}) : rs # <<>> /\ RemoveRules(rs)
    BY <2>a, Zenon
  <2>2. rs \in Seq(LegalRules)
    BY SeqsOfSet DEF TypeOK
  <2>. QED
    BY <2>1, <2>2 DEF TypeOK, RemoveRules, switch
<1>9. CASE Unlist
  <2>1. removeRule(graph, Head(rules)) \in Seq(LegalRules)
    BY <1>9, RuleEqualTo DEF TypeOK, Unlist
  <2>2. Tail(rules) \in Seq(LegalRules)
    BY <1>9 DEF TypeOK, Unlist
  <2>. QED
    BY <1>9, <2>1, <2>2 DEF TypeOK, Unlist, switch
<1>10. CASE Unlisted
  BY <1>10, Zenon DEF TypeOK, Unlisted, SendTo, switch
<1>11. CASE UNCHANGED vars
  BY <1>11 DEF TypeOK, vars, ctrl, switch
<1>. QED
  BY <1>1, <1>2, <1>3, <1>4, <1>5, <1>6, <1>7, <1>8, <1>9, <1>10, <1>11
     DEF Next, TenantNext, Channel

\* The controller starts with an empty list and no switch.
LEMMA TypeInit == Init => TypeOK
<1> SUFFICES ASSUME Init PROVE TypeOK
  OBVIOUS
<1>1. graph \in Seq(LegalRules) /\ rules \in Seq(LegalRules) /\ batch \in Seq(LegalRules)
  BY DEF Init
<1>2. wanted \in SUBSET LegalRules /\ table \in SUBSET Flows
  BY DEF Init
<1>3. isOpen \in BOOLEAN /\ up \in BOOLEAN /\ opening \in BOOLEAN /\ crashed \in BOOLEAN
  BY Zenon DEF Init
<1>. QED
  BY <1>1, <1>2, <1>3 DEF Init, TypeOK

\* The state of the controller and of its switch is always well formed, and
\* the lock is held exactly while a call is running.
THEOREM TypeCorrect == Spec => []TypeOK
BY TypeInit, TypeStep, PTL DEF Spec

-----------------------------------------------------------------------------
\* Installing rules keeps every listed flow listed, and lists the new ones.
LEMMA ListedAfterAdd ==
    ASSUME NEW s \in Seq(LegalRules), NEW rs \in Seq(LegalRules)
    PROVE  /\ \A f : Listed(s, f) => Listed(addRules(s, rs), f)
           /\ \A i \in 1..Len(rs) : Listed(addRules(s, rs), FlowOf(rs[i]))
<1> DEFINE t == addRules(s, rs)
<1>1. /\ Len(t) = Len(s) + Len(rs) /\ Len(s) \in Nat /\ Len(rs) \in Nat
      /\ \A i \in 1..Len(s) : i \in 1..Len(t) /\ t[i] = s[i]
      /\ \A i \in 1..Len(rs) : Len(s) + i \in 1..Len(t) /\ t[Len(s) + i] = rs[i]
  BY DEF addRules
<1> HIDE DEF t
<1>2. \A f : Listed(s, f) => Listed(t, f)
  BY <1>1 DEF Listed
<1>3. \A i \in 1..Len(rs) : Listed(t, FlowOf(rs[i]))
  BY <1>1 DEF Listed
<1>. QED
  BY <1>2, <1>3 DEF t

\* removeRuleFromID un-lists no flow but the one of the rule it erases, and
\* not even that one when it reports an identical rule.
LEMMA ListedAfterID ==
    ASSUME PlainFlows, NEW s \in Seq(LegalRules), NEW ID, WithID(s, ID) # {}, NEW f, Listed(s, f)
    PROVE  \/ Listed(removeRuleFromID(s, ID), f)
           \/ ~anotherIdentical(s, ID) /\ getRule(s, ID).match = f.match
<1> DEFINE k == Min(WithID(s, ID))
           t == removeRuleFromID(s, ID)
<1>1. k \in 1..Len(s) /\ s[k].id = ID /\ t = RemoveAt(s, k) /\ getRule(s, ID) = s[k]
  BY RuleWithID DEF removeRuleFromID, getRule
<1> HIDE DEF k, t
<1>2. \A i \in 1..Len(s) : i # k => \E j \in 1..Len(t) : t[j] = s[i]
  BY <1>1, Erasure, Zenon
<1>3. PICK i \in 1..Len(s) : FlowOf(s[i]) = f
  BY DEF Listed
<1>4. CASE i # k
  BY <1>2, <1>3, <1>4 DEF Listed, t
<1>5. CASE i = k /\ anotherIdentical(s, ID)
  <2>1. PICK m \in 1..Len(s) : SameFlow(s[m], s[k]) /\ s[m].id # ID
    BY <1>1, <1>5 DEF anotherIdentical, EqualTo
  <2>2. m # k
    BY <1>1, <2>1
  <2>3. s[m] \in LegalRules /\ s[k] \in LegalRules
    BY <1>1
  <2>4. SameFlow(FlowOf(s[m]), FlowOf(s[k]))
    BY <2>1 DEF SameFlow, FlowOf
  <2>5. FlowOf(s[m]) = f
    BY <1>3, <1>5, <2>3, <2>4, LegalFlow DEF PlainFlows
  <2>. QED
    BY <1>2, <2>2, <2>5 DEF Listed, t
<1>6. CASE i = k /\ ~anotherIdentical(s, ID)
  BY <1>1, <1>3, <1>6 DEF FlowOf
<1>. QED
  BY <1>4, <1>5, <1>6

\* removeRule un-lists no flow but one with the match of the given rule.
LEMMA ListedAfterErase ==
    ASSUME NEW s \in Seq(LegalRules), NEW r, EqualTo(s, r) # {}, NEW f, Listed(s, f)
    PROVE  Listed(removeRule(s, r), f) \/ r.match = f.match
<1> DEFINE k == Min(EqualTo(s, r))
           t == removeRule(s, r)
<1>1. k \in 1..Len(s) /\ s[k].match = r.match /\ t = RemoveAt(s, k)
  BY RuleEqualTo DEF removeRule
<1> HIDE DEF k, t
<1>2. \A i \in 1..Len(s) : i # k => \E j \in 1..Len(t) : t[j] = s[i]
  BY <1>1, Erasure, Zenon
<1>3. PICK i \in 1..Len(s) : FlowOf(s[i]) = f
  BY DEF Listed
<1>4. CASE i = k
  BY <1>1, <1>3, <1>4 DEF FlowOf
<1>5. CASE i # k
  BY <1>2, <1>3, <1>5 DEF Listed, t
<1>. QED
  BY <1>4, <1>5

\* What is left of a list when its head is done.
LEMMA HeadOrTail ==
    ASSUME NEW s \in Seq(LegalRules), s # <<>>, NEW f
    PROVE  /\ HasMatch(s, f) => Head(s).match = f.match \/ HasMatch(Tail(s), f)
           /\ \A i \in 1..Len(Tail(s)) : i + 1 \in 1..Len(s) /\ Tail(s)[i] = s[i + 1]
           /\ 1 \in 1..Len(s) /\ Head(s) = s[1]
<1>1. /\ Len(Tail(s)) = Len(s) - 1 /\ Len(s) \in Nat /\ Len(s) > 0
      /\ \A i \in 1..Len(Tail(s)) : Tail(s)[i] = s[i + 1]
      /\ Head(s) = s[1]
  OBVIOUS
<1>2. ASSUME NEW i \in 1..Len(s), s[i].match = f.match, i # 1
      PROVE  i - 1 \in 1..Len(Tail(s)) /\ Tail(s)[i - 1].match = f.match
  BY <1>1, <1>2
<1>. QED
  BY <1>1, <1>2 DEF HasMatch

\* Every step keeps the inductive invariant: an entry of the switch that has
\* lost its rule is one the running call is about to delete.
LEMMA JustifiedStep ==
    ASSUME PlainFlows, TypeOK, FlowsJustified, [Next]_vars
    PROVE  FlowsJustified'
<1>1. CASE Install
  <2>1. PICK g \in Graphs : \E R \in NewRules(g) : \E rs \in SetToSeqs(R) : InstallNewRules(rs)
    BY <1>1 DEF Install
  <2>2. PICK R \in NewRules(g) : \E rs \in SetToSeqs(R) : InstallNewRules(rs)
    BY <2>1
  <2>3. PICK rs \in SetToSeqs(R) : InstallNewRules(rs)
    BY <2>2
  <2>4. rs \in Seq(LegalRules)
    BY SeqsOfSet DEF NewRules
  <2>5. /\ \A f : Listed(graph, f) => Listed(graph', f)
        /\ \A i \in 1..Len(rs) : Listed(graph', FlowOf(rs[i]))
    BY <2>3, <2>4, ListedAfterAdd DEF TypeOK, InstallNewRules
  <2>6. /\ pc = "idle" /\ UNCHANGED <<isOpen, up, opening, table>>
        /\ \/ pc' = "send" /\ command' = "ADD" /\ rules' = rs
           \/ pc' = "idle"
    BY <2>3 DEF TypeOK, InstallNewRules, SendTo, switch
  <2>. QED
    BY <2>5, <2>6 DEF FlowsJustified, Justified
<1>2. CASE RemoveOne
  <2>1. PICK ID \in IDs(wanted) : RemoveRuleFromID(ID)
    BY <1>2 DEF RemoveOne
  <2>2. pc = "idle" /\ UNCHANGED <<isOpen, up, opening, table>>
    BY <2>1 DEF TypeOK, RemoveRuleFromID, switch
  <2>3. CASE WithID(graph, ID) = {}
    <3>1. UNCHANGED <<graph, pc>>
      BY <2>1, <2>3 DEF RemoveRuleFromID
    <3>. QED
      BY <2>2, <3>1 DEF FlowsJustified, Justified
  <2>4. CASE WithID(graph, ID) # {}
    <3> DEFINE r == getRule(graph, ID)
               send == isOpen /\ ~anotherIdentical(graph, ID)
    <3>1. graph' = removeRuleFromID(graph, ID) /\ SendTo("orch", "RM", <<r>>, send)
      BY <2>1, <2>4 DEF RemoveRuleFromID
    <3>2. \A f : Listed(graph, f) =>
             Listed(graph', f) \/ (~anotherIdentical(graph, ID) /\ r.match = f.match)
      BY <2>4, <3>1, ListedAfterID DEF TypeOK
    <3> HIDE DEF r
    <3>3. (isOpen /\ up) => \A f \in table : Listed(graph, f)
      BY <2>2 DEF FlowsJustified, Justified
    <3>4. CASE send
      <4>1. pc' = "send" /\ command' = "RM" /\ rules' = <<r>>
        BY <3>1, <3>4 DEF SendTo
      <4>2. \A f : r.match = f.match => HasMatch(rules', f)
        BY <4>1 DEF HasMatch
      <4>. QED
        BY <2>2, <3>2, <3>3, <4>1, <4>2 DEF FlowsJustified, Justified
    <3>5. CASE ~send
      <4>1. pc' = "idle"
        BY <3>1, <3>5 DEF SendTo
      <4>. QED
        BY <2>2, <3>2, <3>3, <3>5, <4>1 DEF FlowsJustified, Justified
    <3>. QED
      BY <3>4, <3>5
  <2>. QED
    BY <2>3, <2>4
<1>3. CASE SendFlowMod
  <2>1. /\ pc = "send" /\ UNCHANGED <<graph, up, opening>>
        /\ rules # <<>> /\ rules \in Seq(LegalRules)
    BY <1>3 DEF TypeOK, SendFlowMod
  <2>2. CASE ~isOpen
    <3>1. UNCHANGED <<isOpen, pc, command, rules, batch, table>>
      BY <1>3, <2>2 DEF SendFlowMod, ctrl
    <3>. QED
      BY <2>1, <3>1 DEF FlowsJustified, Justified
  <2>3. CASE isOpen
    <3>1. /\ isOpen' = isOpen
          /\ table' = IF ~up THEN table
                      ELSE IF command = "ADD" THEN AddFlow(table, Head(rules))
                      ELSE DeleteStrict(table, Head(rules))
          /\ \/ pc' = "send" /\ command' = command /\ rules' = Tail(rules)
             \/ pc' = "idle" /\ Tail(rules) = <<>>
      BY <1>3, <2>3 DEF SendFlowMod, SendTo
    <3>2. /\ \A f : HasMatch(rules, f) => Head(rules).match = f.match \/ HasMatch(Tail(rules), f)
          /\ \A i \in 1..Len(Tail(rules)) : i + 1 \in 1..Len(rules) /\ Tail(rules)[i] = rules[i + 1]
          /\ 1 \in 1..Len(rules) /\ Head(rules) = rules[1]
      BY <2>1, HeadOrTail
    <3>4. CASE command = "ADD"
      <4>1. \A f \in table' : up => f \in table \/ f = FlowOf(Head(rules))
        BY <3>1, <3>4 DEF AddFlow
      <4>2. Listed(graph, FlowOf(Head(rules)))
        BY <2>1, <3>2, <3>4 DEF FlowsJustified
      <4>3. \A i \in 1..Len(Tail(rules)) : Listed(graph, FlowOf(Tail(rules)[i]))
        BY <2>1, <3>2, <3>4 DEF FlowsJustified
      <4>4. (isOpen /\ up) => \A f \in table : Listed(graph, f)
        BY <2>1, <3>4 DEF FlowsJustified, Justified
      <4>. QED
        BY <2>1, <3>1, <3>4, <4>1, <4>2, <4>3, <4>4 DEF FlowsJustified, Justified
    <3>5. CASE command = "RM"
      <4>1. \A f \in table' : up => f \in table /\ f.match # Head(rules).match
        BY <3>1, <3>5 DEF DeleteStrict
      <4>2. (isOpen /\ up) => \A f \in table' : Listed(graph, f) \/ HasMatch(Tail(rules), f)
        BY <2>1, <3>2, <3>5, <4>1 DEF FlowsJustified, Justified
      <4>3. \A f : ~HasMatch(<<>>, f)
        BY DEF HasMatch
      <4>. QED
        BY <2>1, <3>1, <3>5, <4>2, <4>3, Zenon DEF FlowsJustified, Justified
    <3>. QED
      BY <3>4, <3>5 DEF TypeOK
  <2>. QED
    BY <2>2, <2>3
<1>4. CASE HandleDptOpen
  <2>1. /\ opening' = FALSE /\ UNCHANGED <<graph, up>>
        /\ up => table' = {}
        /\ \/ pc' = "send" /\ command' = "ADD" /\ rules' = graph
           \/ pc' = "idle"
    BY <1>4 DEF HandleDptOpen, SendTo
  <2>2. \A i \in 1..Len(graph) : Listed(graph, FlowOf(graph[i]))
    BY DEF Listed
  <2>. QED
    BY <2>1, <2>2 DEF FlowsJustified, Justified
<1>5. CASE HandleDptClose
  BY <1>5 DEF HandleDptClose, switch, FlowsJustified, Justified
<1>6. CASE ConnectionLost
  BY <1>6 DEF ConnectionLost, ctrl, FlowsJustified, Justified
<1>7. CASE Connect
  BY <1>7 DEF Connect, ctrl, FlowsJustified, Justified
<1>8. CASE RemoveAll
  <2>1. PICK g \in Graphs : \E rs \in SetToSeqs({r \in wanted : r.id[1] = g}) : rs # <<>> /\ RemoveRules(rs)
    BY <1>8, Zenon DEF RemoveAll
  <2>2. PICK rs \in SetToSeqs({r \in wanted : r.id[1] = g}) : rs # <<>> /\ RemoveRules(rs)
    BY <2>1, Zenon
  <2>3. /\ pc = "idle" /\ pc' = "unlist" /\ rules' = rs /\ batch' = rs
        /\ UNCHANGED <<graph, isOpen, up, opening, table>>
    BY <2>2 DEF TypeOK, RemoveRules, switch
  <2>4. \A i \in 1..Len(rs) : HasMatch(rs, rs[i])
    BY DEF HasMatch
  <2>. QED
    BY <2>3, <2>4 DEF FlowsJustified, Justified
<1>9. CASE Unlist
  <2>1. /\ pc = "unlist" /\ rules # <<>> /\ rules \in Seq(LegalRules) /\ rules' = Tail(rules)
        /\ EqualTo(graph, Head(rules)) # {} /\ graph' = removeRule(graph, Head(rules))
        /\ UNCHANGED <<isOpen, up, opening, table, pc, command, batch>>
    BY <1>9 DEF TypeOK, Unlist, switch
  <2>2. /\ \A i \in 1..Len(Tail(rules)) : i + 1 \in 1..Len(rules) /\ Tail(rules)[i] = rules[i + 1]
        /\ 1 \in 1..Len(rules) /\ Head(rules) = rules[1]
    BY <2>1, HeadOrTail
  <2>3. \A f : Listed(graph, f) => Listed(graph', f) \/ Head(rules).match = f.match
    BY <2>1, ListedAfterErase DEF TypeOK
  <2>4. \A f : Head(rules).match = f.match => HasMatch(batch, f)
    BY <2>1, <2>2 DEF FlowsJustified, HasMatch
  <2>5. \A i \in 1..Len(Tail(rules)) : HasMatch(batch, Tail(rules)[i])
    BY <2>1, <2>2 DEF FlowsJustified
  <2>. QED
    BY <2>1, <2>3, <2>4, <2>5 DEF FlowsJustified, Justified
<1>10. CASE Unlisted
  <2>1. /\ pc = "unlist" /\ UNCHANGED <<graph, isOpen, up, opening, table>>
        /\ \/ isOpen /\ batch # <<>> /\ pc' = "send" /\ command' = "RM" /\ rules' = batch
           \/ ~(isOpen /\ batch # <<>>) /\ pc' = "idle"
    BY <1>10 DEF Unlisted, SendTo, switch
  <2>2. \A f : ~HasMatch(<<>>, f)
    BY DEF HasMatch
  <2>. QED
    BY <2>1, <2>2 DEF FlowsJustified, Justified
<1>11. CASE UNCHANGED vars
  BY <1>11 DEF vars, ctrl, switch, FlowsJustified, Justified
<1>. QED
  BY <1>1, <1>2, <1>3, <1>4, <1>5, <1>6, <1>7, <1>8, <1>9, <1>10, <1>11
     DEF Next, TenantNext, Channel

\* If no two flows differ in their generic actions only, every entry of a
\* connected switch has a rule, or the running call is about to delete it.
THEOREM FlowsAlwaysJustified == PlainFlows => (Spec => []FlowsJustified)
<1> SUFFICES ASSUME PlainFlows PROVE Spec => []FlowsJustified
  OBVIOUS
<1>1. Init => TypeOK /\ FlowsJustified
  BY TypeInit DEF Init, FlowsJustified
<1>2. TypeOK /\ FlowsJustified /\ [Next]_vars => (TypeOK /\ FlowsJustified)'
  BY TypeStep, JustifiedStep
<1>. QED
  BY <1>1, <1>2, PTL DEF Spec

\* So no entry of a connected, idle switch outlives the rule it was made from: for
\* any number of NF-FGs and rules, also rules that compete for a match or share a
\* flow, and through every disconnection.
THEOREM NoStaleFlowHolds == PlainFlows => (Spec => []NoStaleFlow)
<1> SUFFICES ASSUME PlainFlows PROVE Spec => []NoStaleFlow
  OBVIOUS
<1>1. TypeOK /\ FlowsJustified => NoStaleFlow
  BY DEF FlowsJustified, Justified, NoStaleFlow, Settled
<1>. QED
  BY <1>1, TypeCorrect, FlowsAlwaysJustified, PTL

-----------------------------------------------------------------------------
\* While removeRules erases the rules of NF-FG g one by one, those left in the
\* list correspond to those the loop has still to visit: not one by one the same
\* rule, since removeRule takes the first equal one, but one with the same flow.
Owned(g) == {i \in 1..Len(graph) : graph[i].id[1] = g}
Unlisting(g) ==
    /\ \A i \in 1..Len(graph) : i \notin Owned(g) => graph[i] \in wanted
    /\ \A r \in wanted : r.id[1] # g
    /\ \E s \in [1..Len(rules) -> Owned(g)] :
         /\ \A i, j \in 1..Len(rules) : s[i] = s[j] => i = j
         /\ \A k \in Owned(g) : \E i \in 1..Len(rules) : s[i] = k
         /\ \A i \in 1..Len(rules) : SameFlow(rules[i], graph[s[i]])

\* Otherwise the controller's list holds the wanted rules, each once.
Mirror ==
    /\ \A i \in 1..Len(graph) : FlowOf(graph[i]) \in FlowsOf[graph[i].id[1]]
    /\ \A r \in wanted : \E i \in 1..Len(graph) : graph[i] = r
    /\ \A i, j \in 1..Len(graph) : graph[i].id = graph[j].id => i = j
    /\ pc # "unlist" => \A i \in 1..Len(graph) : graph[i] \in wanted
    /\ pc = "unlist" => \E g \in Graphs : Unlisting(g)

\* What the running call has still to send is what the table lacks, or has too much.
Surplus(rs) == Asked \subseteq table /\ \A f \in table \ Asked : Listed(rs, f)
Unasked(rs) == \A i \in 1..Len(rs) : FlowOf(rs[i]) \notin Asked
Progress ==
    /\ opening => ~isOpen
    /\ (pc = "send" /\ command = "ADD") => \A i \in 1..Len(rules) : FlowOf(rules[i]) \in Asked
    /\ (pc = "send" /\ command = "RM") => Unasked(rules)
    /\ pc = "unlist" => batch # <<>> /\ Unasked(batch)
    /\ (up /\ isOpen) =>
         /\ pc = "idle" => table = Asked
         /\ (pc = "send" /\ command = "ADD") =>
               table \subseteq Asked /\ \A f \in Asked \ table : Listed(rules, f)
         /\ (pc = "send" /\ command = "RM") => Surplus(rules)
         /\ pc = "unlist" => Surplus(batch)

LInv == TypeOK /\ Mirror
TInv == LInv /\ Progress

\* With one flow per match, a flow-mod touches the flow of its rule only.
LEMMA OneFlow ==
    ASSUME OneFlowPerMatch, NEW T \in SUBSET Flows, NEW r \in LegalRules
    PROVE  /\ AddFlow(T, r) = T \cup {FlowOf(r)}
           /\ DeleteStrict(T, r) = T \ {FlowOf(r)}
<1>1. FlowOf(r) \in Flows /\ FlowOf(r).match = r.match
  BY LegalFlow DEF FlowOf
<1>2. \A f \in T : f.match = r.match <=> f = FlowOf(r)
  BY <1>1 DEF OneFlowPerMatch
<1>. QED
  BY <1>2 DEF AddFlow, DeleteStrict

\* The rules handed over have different identifiers, and none that is in use.
LEMMA NewIDs ==
    ASSUME NEW g \in Graphs, NEW R \in NewRules(g), NEW rs \in SetToSeqs(R)
    PROVE  /\ rs \in Seq(LegalRules)
           /\ \A i \in 1..Len(rs) : rs[i].id \notin IDs(wanted) /\ FlowOf(rs[i]) \in FlowsOf[rs[i].id[1]]
           /\ \A i, j \in 1..Len(rs) : rs[i].id = rs[j].id => i = j
<1>1. /\ R \in SUBSET LegalRules /\ Cardinality(IDs(R)) = Cardinality(R)
      /\ \A r \in R : r.id \notin IDs(wanted) /\ FlowOf(r) \in FlowsOf[r.id[1]]
  BY DEF NewRules
<1>2. IsFiniteSet(R) /\ Cardinality(R) \in Nat
  BY <1>1, FiniteRules, FS_Subset, FS_CardinalityType
<1> DEFINE idOf == [r \in R |-> r.id]
<1>3. idOf \in Surjection(R, IDs(R))
  BY DEF Surjection, IDs
<1>4. idOf \in Injection(R, IDs(R))
  BY <1>1, <1>2, <1>3, FS_SurjSameCardinalityImpliesInj, Zenon
<1>5. \A r, q \in R : r.id = q.id => r = q
  BY <1>4, Zenon DEF Injection, IsInjective
<1>6. /\ rs \in [1..Cardinality(R) -> R] /\ rs \in Seq(LegalRules)
      /\ \A i, j \in 1..Cardinality(R) : i # j => rs[i] # rs[j]
  BY <1>1, SeqsOfSet, Zenon DEF SetToSeqs, IsInjective
<1>7. Len(rs) = Cardinality(R)
  BY <1>2, <1>6
<1>. QED
  BY <1>1, <1>5, <1>6, <1>7

\* installNewRules keeps the list a mirror.
LEMMA InstallMirror ==
    ASSUME LInv, NEW rs \in Seq(LegalRules), InstallNewRules(rs),
           \A i \in 1..Len(rs) : rs[i].id \notin IDs(wanted) /\ FlowOf(rs[i]) \in FlowsOf[rs[i].id[1]],
           \A i, j \in 1..Len(rs) : rs[i].id = rs[j].id => i = j
    PROVE  Mirror'
<1> DEFINE n == Len(graph)
<1>0. /\ pc # "unlist" /\ pc' # "unlist"
      /\ \A i \in 1..Len(graph) : graph[i] \in wanted /\ FlowOf(graph[i]) \in FlowsOf[graph[i].id[1]]
  BY DEF LInv, TypeOK, Mirror, InstallNewRules, SendTo
<1>1. n \in Nat /\ Len(rs) \in Nat
  BY DEF LInv, TypeOK
<1>2. /\ Len(graph') = n + Len(rs)
      /\ \A i \in 1..n : graph'[i] = graph[i]
      /\ \A i \in 1..(n + Len(rs)) : i > n => i - n \in 1..Len(rs) /\ graph'[i] = rs[i - n]
      /\ \A i \in 1..Len(rs) : graph'[n + i] = rs[i]
  BY DEF InstallNewRules, addRules, LInv, TypeOK
<1>3. wanted' = wanted \cup {rs[i] : i \in 1..Len(rs)}
  BY DEF InstallNewRules, Range
<1> HIDE DEF n
<1>4. ASSUME NEW i \in 1..Len(graph') PROVE graph'[i] \in wanted'
  <2>1. CASE i <= n
    BY <1>0, <1>1, <1>2, <1>3, <2>1 DEF n
  <2>2. CASE i > n
    BY <1>1, <1>2, <1>3, <2>2
  <2>. QED
    BY <1>1, <1>2, <2>1, <2>2
<1>5. ASSUME NEW r \in wanted' PROVE \E i \in 1..Len(graph') : graph'[i] = r
  <2>1. CASE r \in wanted
    BY <1>1, <1>2, <2>1 DEF n, LInv, Mirror
  <2>2. CASE \E k \in 1..Len(rs) : r = rs[k]
    <3>1. PICK k \in 1..Len(rs) : r = rs[k]
      BY <2>2
    <3>2. n + k \in 1..Len(graph') /\ graph'[n + k] = r
      BY <1>1, <1>2, <3>1
    <3>. QED
      BY <3>2
  <2>. QED
    BY <1>3, <2>1, <2>2
<1>6. ASSUME NEW i \in 1..Len(graph'), NEW j \in 1..Len(graph'), graph'[i].id = graph'[j].id
      PROVE  i = j
  <2>1. \A k \in 1..n : graph'[k].id \in IDs(wanted)
    BY <1>0, <1>2, Zenon DEF n, IDs
  <2>2. \A k \in 1..(n + Len(rs)) : k > n => graph'[k].id \notin IDs(wanted)
    BY <1>2
  <2>3. CASE i <= n /\ j <= n
    BY <1>1, <1>2, <1>6, <2>3 DEF n, LInv, Mirror
  <2>4. CASE i > n /\ j > n
    <3>1. i - n = j - n
      BY <1>2, <1>6, <2>4
    <3>. QED
      BY <1>1, <1>2, <3>1
  <2>5. (i <= n <=> j <= n)
    BY <1>1, <1>2, <1>6, <2>1, <2>2
  <2>. QED
    BY <1>1, <1>2, <2>3, <2>4, <2>5
<1>7. ASSUME NEW i \in 1..Len(graph') PROVE FlowOf(graph'[i]) \in FlowsOf[graph'[i].id[1]]
  <2>1. CASE i <= n
    BY <1>0, <1>1, <1>2, <2>1 DEF n
  <2>2. CASE i > n
    BY <1>1, <1>2, <2>2
  <2>. QED
    BY <1>1, <1>2, <2>1, <2>2
<1>. QED
  BY <1>0, <1>4, <1>5, <1>6, <1>7, Zenon DEF Mirror, FlowOf

\* removeRuleFromID erases the rule with the identifier, and only that one.
LEMMA RemoveMirror ==
    ASSUME LInv, NEW ID \in IDs(wanted), RemoveRuleFromID(ID)
    PROVE  /\ Mirror' /\ WithID(graph, ID) # {}
           /\ getRule(graph, ID) \in wanted /\ getRule(graph, ID).id = ID
<1> DEFINE k == Min(WithID(graph, ID))
           n == Len(graph)
<1>0. /\ pc # "unlist" /\ pc' # "unlist"
      /\ \A i \in 1..Len(graph) : graph[i] \in wanted /\ FlowOf(graph[i]) \in FlowsOf[graph[i].id[1]]
  BY DEF LInv, TypeOK, Mirror, RemoveRuleFromID, SendTo
<1>1. WithID(graph, ID) # {}
  BY DEF LInv, Mirror, IDs, WithID
<1>2. /\ k \in 1..n /\ graph[k].id = ID /\ getRule(graph, ID) = graph[k]
      /\ graph' = RemoveAt(graph, k) /\ n \in Nat
  BY <1>1, RuleWithID DEF LInv, TypeOK, RemoveRuleFromID, removeRuleFromID, getRule
<1>3. wanted' = {r \in wanted : r.id # ID}
  BY DEF RemoveRuleFromID
<1> HIDE DEF k, n
<1>4. /\ Len(graph') = n - 1
      /\ \A j \in 1..(n - 1) : graph'[j] = IF j < k THEN graph[j] ELSE graph[j + 1]
      /\ \A i \in 1..n : i # k => \E j \in 1..Len(graph') : graph'[j] = graph[i]
  BY <1>2, Erasure, Zenon DEF n, LInv, TypeOK
<1>5. \A i \in 1..n : i # k => graph[i].id # ID
  BY <1>2 DEF n, LInv, Mirror
<1> DEFINE old(j) == IF j < k THEN j ELSE j + 1
<1>6. \A j \in 1..Len(graph') : old(j) \in 1..n /\ old(j) # k /\ graph'[j] = graph[old(j)]
  BY <1>2, <1>4
<1>7. \A i, j \in 1..Len(graph') : old(i) = old(j) => i = j
  BY <1>2, <1>4
<1> HIDE DEF old
<1>8. \A i \in 1..Len(graph') : graph'[i] \in wanted'
  BY <1>0, <1>3, <1>5, <1>6 DEF n
<1>9. \A r \in wanted' : \E i \in 1..Len(graph') : graph'[i] = r
  <2> TAKE r \in wanted'
  <2>1. r \in wanted /\ r.id # ID
    BY <1>3
  <2>2. PICK i \in 1..n : graph[i] = r
    BY <2>1, Zenon DEF n, LInv, Mirror
  <2>3. i # k
    BY <1>2, <2>1, <2>2
  <2>. QED
    BY <1>4, <2>2, <2>3, Zenon
<1>10. \A i, j \in 1..Len(graph') : graph'[i].id = graph'[j].id => i = j
  <2>1. \A i, j \in 1..n : graph[i].id = graph[j].id => i = j
    BY DEF n, LInv, Mirror
  <2>2. SUFFICES ASSUME NEW i \in 1..Len(graph'), NEW j \in 1..Len(graph'),
                        graph'[i].id = graph'[j].id
                 PROVE  i = j
    OBVIOUS
  <2>3. graph[old(i)].id = graph[old(j)].id /\ old(i) \in 1..n /\ old(j) \in 1..n
    BY <1>6, <2>2
  <2>4. old(i) = old(j)
    BY <2>1, <2>3
  <2> QED
    BY <1>7, <2>4
<1>11. graph[k] \in wanted
  BY <1>0, <1>2 DEF n
<1>12. \A i \in 1..Len(graph') : FlowOf(graph'[i]) \in FlowsOf[graph'[i].id[1]]
  BY <1>0, <1>6 DEF n
<1>13. Mirror'
  BY <1>0, <1>8, <1>9, <1>10, <1>12, Zenon DEF Mirror, FlowOf
<1>. QED
  BY <1>1, <1>2, <1>11, <1>13

\* The answer of Graph::removeRuleFromID tells whether the flow is still asked for.
LEMMA RemoveAsked ==
    ASSUME OneFlowPerMatch, LInv, NEW ID \in IDs(wanted), RemoveRuleFromID(ID)
    PROVE  LET f == FlowOf(getRule(graph, ID))
           IN  /\ anotherIdentical(graph, ID) => Asked' = Asked
               /\ ~anotherIdentical(graph, ID) => Asked' = Asked \ {f} /\ f \in Asked
<1> DEFINE q == getRule(graph, ID)
<1>1. q \in wanted /\ q.id = ID
  BY RemoveMirror
<1>2. wanted' = {r \in wanted : r.id # ID} /\ wanted \in SUBSET LegalRules
  BY DEF RemoveRuleFromID, LInv, TypeOK
<1>a. \A i \in 1..Len(graph) : graph[i] \in wanted
  BY DEF LInv, TypeOK, Mirror, RemoveRuleFromID
<1> HIDE DEF q
<1>3. \A r \in wanted : r.id = ID => r = q
  BY <1>1 DEF LInv, Mirror
<1>4. ASSUME NEW r \in wanted PROVE SameFlow(r, q) <=> FlowOf(r) = FlowOf(q)
  <2>1. FlowOf(r) \in Flows /\ FlowOf(q) \in Flows
    BY <1>1, <1>2, LegalFlow
  <2>2. r.match = q.match => FlowOf(r) = FlowOf(q)
    <3>1. FlowOf(r).match = r.match /\ FlowOf(q).match = q.match
      BY DEF FlowOf
    <3>. QED
      BY <2>1, <3>1 DEF OneFlowPerMatch
  <2>3. FlowOf(r) = FlowOf(q) => r.match = q.match /\ r.out = q.out
    BY DEF FlowOf
  <2>. QED
    BY <2>2, <2>3 DEF SameFlow
<1>5. anotherIdentical(graph, ID) <=> \E r \in wanted : SameFlow(r, q) /\ r.id # ID
  BY <1>a DEF anotherIdentical, EqualTo, q, LInv, Mirror
<1>6. anotherIdentical(graph, ID) <=> \E r \in wanted' : FlowOf(r) = FlowOf(q)
  BY <1>2, <1>4, <1>5
<1>7. \A f : f \in Asked <=> f \in Asked' \/ f = FlowOf(q)
  BY <1>1, <1>2, <1>3 DEF Asked
<1>8. anotherIdentical(graph, ID) <=> FlowOf(q) \in Asked'
  BY <1>6 DEF Asked
<1>9. CASE anotherIdentical(graph, ID)
  BY <1>7, <1>8, <1>9 DEF q
<1>10. CASE ~anotherIdentical(graph, ID)
  BY <1>7, <1>8, <1>10 DEF q
<1>. QED
  BY <1>9, <1>10

\* The list handed to removeRules has each rule of the set once.
LEMMA ListsAll ==
    ASSUME NEW R \in SUBSET LegalRules, NEW rs \in SetToSeqs(R)
    PROVE  /\ rs \in Seq(LegalRules)
           /\ \A i \in 1..Len(rs) : rs[i] \in R
           /\ \A r \in R : \E i \in 1..Len(rs) : rs[i] = r
           /\ \A i, j \in 1..Len(rs) : rs[i] = rs[j] => i = j
<1> DEFINE D == 1..Cardinality(R)
<1>1. IsFiniteSet(R) /\ Cardinality(R) \in Nat
  BY FiniteRules, FS_Subset, FS_CardinalityType
<1>2. rs \in Seq(LegalRules) /\ rs \in [D -> R] /\ \A i, j \in D : i # j => rs[i] # rs[j]
  BY SeqsOfSet, Zenon DEF SetToSeqs, IsInjective
<1>3. Len(rs) = Cardinality(R)
  BY <1>1, <1>2
<1>4. IsFiniteSet(D) /\ Cardinality(D) = Cardinality(R)
  BY <1>1, FS_Interval
<1>5. rs \in Injection(D, R)
  BY <1>2, Zenon DEF Injection, IsInjective
<1>6. rs \in Surjection(D, R)
  BY <1>1, <1>4, <1>5, FS_Injection, Zenon
<1>7. \A r \in R : \E i \in D : rs[i] = r
  BY <1>6, Zenon DEF Surjection
<1>. QED
  BY <1>2, <1>3, <1>7, Zenon

\* removeRules starts with the rules of g in the list, each of them once.
LEMMA RemoveAllMirror ==
    ASSUME LInv, NEW g \in Graphs, NEW rs \in SetToSeqs({r \in wanted : r.id[1] = g}),
           RemoveRules(rs)
    PROVE  Mirror'
<1> DEFINE R == {r \in wanted : r.id[1] = g}
           n == Len(graph)
<1>1. /\ pc # "unlist" /\ pc' = "unlist" /\ graph' = graph /\ rules' = rs
      /\ wanted' = wanted \ Range(rs)
  BY DEF LInv, TypeOK, RemoveRules
<1>2. /\ \A i \in 1..n : graph[i] \in wanted /\ FlowOf(graph[i]) \in FlowsOf[graph[i].id[1]]
      /\ \A r \in wanted : \E i \in 1..n : graph[i] = r
      /\ \A i, j \in 1..n : graph[i].id = graph[j].id => i = j
  BY <1>1 DEF LInv, Mirror
<1>3. /\ rs \in Seq(LegalRules)
      /\ \A i \in 1..Len(rs) : rs[i] \in R
      /\ \A r \in R : \E i \in 1..Len(rs) : rs[i] = r
      /\ \A i, j \in 1..Len(rs) : rs[i] = rs[j] => i = j
  <2>1. R \in SUBSET LegalRules
    BY DEF LInv, TypeOK
  <2>. QED
    BY <2>1, ListsAll, Zenon
<1>4. wanted' = {r \in wanted : r.id[1] # g}
  <2>1. Range(rs) = R
    BY <1>3 DEF Range
  <2>. QED
    BY <1>1, <2>1
<1> HIDE DEF R, n
<1>5. \A i \in 1..Len(rs) : \E k \in 1..n : graph[k] = rs[i]
  BY <1>2, <1>3 DEF R
<1> DEFINE s == [i \in 1..Len(rs) |-> CHOOSE k \in 1..n : graph[k] = rs[i]]
<1>6. \A i \in 1..Len(rs) : s[i] \in 1..n /\ graph[s[i]] = rs[i]
  BY <1>5
<1>7. s = [i \in 1..Len(rs) |-> s[i]]
  OBVIOUS
<1> HIDE DEF s
<1>8. Owned(g) = {i \in 1..n : graph[i].id[1] = g}
  BY DEF Owned, n
<1>9. s \in [1..Len(rs) -> Owned(g)]
  <2>1. ASSUME NEW i \in 1..Len(rs) PROVE s[i] \in Owned(g)
    BY <1>3, <1>6, <1>8 DEF R
  <2>. QED
    BY <1>7, <2>1
<1>10. \A i, j \in 1..Len(rs) : s[i] = s[j] => i = j
  BY <1>3, <1>6
<1>11. \A k \in Owned(g) : \E i \in 1..Len(rs) : s[i] = k
  <2>1. SUFFICES ASSUME NEW k \in Owned(g) PROVE \E i \in 1..Len(rs) : s[i] = k
    OBVIOUS
  <2>2. k \in 1..n /\ graph[k] \in R
    BY <1>2, <1>8 DEF R
  <2>3. PICK i \in 1..Len(rs) : rs[i] = graph[k]
    BY <1>3, <2>2
  <2>4. graph[s[i]] = graph[k] /\ s[i] \in 1..n
    BY <1>6, <2>3
  <2>5. s[i] = k
    BY <1>2, <2>2, <2>4
  <2>. QED
    BY <2>5
<1>12. \A i \in 1..Len(rs) : SameFlow(rs[i], graph[s[i]])
  BY <1>6 DEF SameFlow
<1>13. \A i \in 1..n : i \notin Owned(g) => graph[i] \in wanted'
  BY <1>2, <1>4, <1>8
<1>14. Owned(g)' = Owned(g)
  BY <1>1 DEF Owned
<1>15. Unlisting(g)'
  <2>1. \A r \in wanted' : r.id[1] # g
    BY <1>4
  <2>2. s \in [1..Len(rules') -> Owned(g)']
    BY <1>1, <1>9, <1>14
  <2>3. \A i, j \in 1..Len(rules') : s[i] = s[j] => i = j
    BY <1>1, <1>10
  <2>4. \A k \in Owned(g)' : \E i \in 1..Len(rules') : s[i] = k
    BY <1>1, <1>11, <1>14
  <2>5. \A i \in 1..Len(rules') : SameFlow(rules'[i], graph'[s[i]])
    BY <1>1, <1>12
  <2>6. \A i \in 1..Len(graph') : i \notin Owned(g)' => graph'[i] \in wanted'
    BY <1>1, <1>13, <1>14 DEF n
  <2>. QED
    BY <2>1, <2>2, <2>3, <2>4, <2>5, <2>6, Zenon DEF Unlisting, SameFlow
<1>16. \A r \in wanted' : \E i \in 1..n : graph[i] = r
  BY <1>2, <1>4
<1>. QED
  BY <1>1, <1>2, <1>15, <1>16, Zenon DEF Mirror, FlowOf, n

\* Rules of different NF-FGs are different for Rule::operator==.
LEMMA SameOwner ==
    ASSUME SeparateFlows, NEW r \in LegalRules, NEW q \in LegalRules, SameFlow(r, q),
           FlowOf(r) \in FlowsOf[r.id[1]], FlowOf(q) \in FlowsOf[q.id[1]]
    PROVE  r.id[1] = q.id[1]
<1>1. r.id[1] \in Graphs /\ q.id[1] \in Graphs
  BY DEF LegalRules, RuleIDs
<1>2. SameFlow(FlowOf(r), FlowOf(q))
  BY DEF SameFlow, FlowOf
<1>. QED
  BY <1>1, <1>2 DEF SeparateFlows

\* An iteration of removeRules erases a rule of g, perhaps not the one it was
\* given: the rule that it leaves behind stands in for the one it has erased.
LEMMA UnlistMirror ==
    ASSUME SeparateFlows, LInv, Unlist
    PROVE  Mirror'
<1> DEFINE n == Len(graph)
           m == Len(rules)
           k == Min(EqualTo(graph, Head(rules)))
<1>1. /\ pc = "unlist" /\ pc' = "unlist" /\ wanted' = wanted /\ rules' = Tail(rules)
      /\ rules # <<>> /\ graph' = RemoveAt(graph, k) /\ EqualTo(graph, Head(rules)) # {}
      /\ graph \in Seq(LegalRules) /\ rules \in Seq(LegalRules)
  BY DEF LInv, TypeOK, Unlist, removeRule
<1>2. /\ n \in Nat /\ m \in Nat /\ m > 0 /\ Len(rules') = m - 1 /\ Head(rules) = rules[1]
      /\ \A i \in 1..(m - 1) : rules'[i] = rules[i + 1]
  BY <1>1
<1>3. k \in 1..n /\ SameFlow(graph[k], rules[1])
  <2>1. EqualTo(graph, Head(rules)) \in SUBSET (1..n)
    BY DEF EqualTo
  <2>2. k \in EqualTo(graph, Head(rules))
    BY <1>1, <1>2, <2>1, MinPosition, Zenon
  <2>. QED
    BY <1>2, <2>2 DEF EqualTo
<1> HIDE DEF k
<1>4. /\ Len(graph') = n - 1
      /\ \A j \in 1..(n - 1) : graph'[j] = IF j < k THEN graph[j] ELSE graph[j + 1]
      /\ \A i \in 1..n : i # k => \E j \in 1..Len(graph') : graph'[j] = graph[i]
  BY <1>1, <1>3, Erasure, Zenon
<1>5. PICK g \in Graphs : Unlisting(g)
  BY <1>1 DEF LInv, Mirror
<1>6. PICK s \in [1..m -> Owned(g)] :
         /\ \A i, j \in 1..m : s[i] = s[j] => i = j
         /\ \A x \in Owned(g) : \E i \in 1..m : s[i] = x
         /\ \A i \in 1..m : SameFlow(rules[i], graph[s[i]])
  BY <1>5, Zenon DEF Unlisting
<1>7. /\ \A i \in 1..n : FlowOf(graph[i]) \in FlowsOf[graph[i].id[1]]
      /\ \A r \in wanted : \E i \in 1..n : graph[i] = r
      /\ \A i, j \in 1..n : graph[i].id = graph[j].id => i = j
      /\ \A r \in wanted : r.id[1] # g
      /\ \A i \in 1..n : i \notin Owned(g) => graph[i] \in wanted
      /\ \A i : i \in Owned(g) <=> i \in 1..n /\ graph[i].id[1] = g
      /\ \A i \in 1..n : graph[i] \in LegalRules
  <2>1. /\ \A i \in 1..n : FlowOf(graph[i]) \in FlowsOf[graph[i].id[1]]
        /\ \A r \in wanted : \E i \in 1..n : graph[i] = r
        /\ \A i, j \in 1..n : graph[i].id = graph[j].id => i = j
    BY Zenon DEF LInv, Mirror
  <2>2. /\ \A r \in wanted : r.id[1] # g
        /\ \A i \in 1..n : i \notin Owned(g) => graph[i] \in wanted
    BY <1>5, Zenon DEF Unlisting
  <2>3. \A i \in 1..n : graph[i] \in LegalRules
    BY <1>1
  <2>. QED
    BY <2>1, <2>2, <2>3, Zenon DEF Owned
<1>8. 1 \in 1..m /\ s[1] \in Owned(g) /\ \A i \in 1..(m - 1) : i + 1 \in 1..m /\ s[i + 1] \in Owned(g)
  <2>1. 1 \in 1..m /\ \A i \in 1..(m - 1) : i + 1 \in 1..m
    BY <1>2
  <2>2. \A i \in 1..m : s[i] \in Owned(g)
    BY <1>6, Zenon
  <2>. QED
    BY <2>1, <2>2, Zenon
<1>9. k \in Owned(g) /\ SameFlow(graph[k], graph[s[1]])
  <2>1. SameFlow(graph[k], graph[s[1]]) /\ s[1] \in 1..n /\ graph[s[1]].id[1] = g
    BY <1>3, <1>6, <1>7, <1>8 DEF SameFlow
  <2>2. graph[k].id[1] = graph[s[1]].id[1]
    BY <1>3, <1>7, <2>1, SameOwner, Zenon
  <2>. QED
    BY <1>3, <1>7, <2>1, <2>2
<1> HIDE DEF n, m
<1> DEFINE old(j) == IF j < k THEN j ELSE j + 1
           new(i) == IF i < k THEN i ELSE i - 1
<1>10. \A j \in 1..(n - 1) : old(j) \in 1..n /\ old(j) # k /\ graph'[j] = graph[old(j)] /\ new(old(j)) = j
  BY <1>2, <1>3, <1>4
<1>11. \A i \in 1..n : i # k => new(i) \in 1..(n - 1) /\ old(new(i)) = i
  BY <1>2, <1>3
<1>12. \A j : j \in Owned(g)' <=> j \in 1..(n - 1) /\ graph'[j].id[1] = g
  BY <1>4 DEF Owned
<1>13. \A i \in Owned(g) : i # k => new(i) \in Owned(g)' /\ graph'[new(i)] = graph[i]
  BY <1>7, <1>10, <1>11, <1>12
<1>14. \A j \in Owned(g)' : old(j) \in Owned(g) /\ old(j) # k /\ new(old(j)) = j
  BY <1>7, <1>10, <1>12
<1>15. \A i, j \in Owned(g) : i # k /\ j # k /\ new(i) = new(j) => i = j
  BY <1>7, <1>11
<1> DEFINE e(i) == IF s[i + 1] = k THEN s[1] ELSE s[i + 1]
           t == [i \in 1..(m - 1) |-> new(e(i))]
<1>16. ASSUME NEW i \in 1..(m - 1)
       PROVE  e(i) \in Owned(g) /\ e(i) # k /\ SameFlow(rules'[i], graph[e(i)])
  <2>1. i + 1 # 1 /\ i + 1 \in 1..m /\ rules'[i] = rules[i + 1]
    BY <1>2, <1>8
  <2>2. CASE s[i + 1] = k
    BY <1>6, <1>8, <1>9, <2>1, <2>2 DEF SameFlow
  <2>3. CASE s[i + 1] # k
    BY <1>6, <1>8, <2>1, <2>3
  <2>. QED
    BY <2>2, <2>3
<1>17. \A i, j \in 1..(m - 1) : e(i) = e(j) => i = j
  <2>1. SUFFICES ASSUME NEW i \in 1..(m - 1), NEW j \in 1..(m - 1), e(i) = e(j)
                 PROVE  i = j
    OBVIOUS
  <2>2. i + 1 \in 1..m /\ j + 1 \in 1..m /\ 1 \in 1..m /\ i + 1 # 1 /\ j + 1 # 1
    BY <1>2, <1>8
  <2>3. s[i + 1] # s[1] /\ s[j + 1] # s[1]
    BY <1>6, <2>2
  <2>4. s[i + 1] = s[j + 1]
    BY <2>1, <2>3
  <2>5. i + 1 = j + 1
    BY <1>6, <2>2, <2>4
  <2>. QED
    BY <1>2, <2>5
<1>18. \A x \in Owned(g) : x # k => \E i \in 1..(m - 1) : e(i) = x
  <2>1. SUFFICES ASSUME NEW x \in Owned(g), x # k PROVE \E i \in 1..(m - 1) : e(i) = x
    OBVIOUS
  <2>2. PICK y \in 1..m : s[y] = k
    BY <1>6, <1>9
  <2>3. PICK z \in 1..m : s[z] = x
    BY <1>6
  <2>4. CASE z # 1
    <3>1. z - 1 \in 1..(m - 1) /\ (z - 1) + 1 = z
      BY <1>2, <2>4
    <3>2. e(z - 1) = x
      BY <2>1, <2>3, <3>1
    <3>. QED
      BY <3>1, <3>2
  <2>5. CASE z = 1
    <3>1. y # 1
      BY <2>1, <2>2, <2>3, <2>5
    <3>2. y - 1 \in 1..(m - 1) /\ (y - 1) + 1 = y
      BY <1>2, <3>1
    <3>3. e(y - 1) = x
      BY <2>2, <2>3, <2>5, <3>2
    <3>. QED
      BY <3>2, <3>3
  <2>. QED
    BY <2>4, <2>5
<1> HIDE DEF old, new, e
<1>19. t \in [1..(m - 1) -> Owned(g)']
  BY <1>13, <1>16
<1>20. \A i \in 1..(m - 1) : t[i] = new(e(i))
  OBVIOUS
<1> HIDE DEF t
<1>21. \A i, j \in 1..(m - 1) : t[i] = t[j] => i = j
  BY <1>15, <1>16, <1>17, <1>20
<1>22. \A x \in Owned(g)' : \E i \in 1..(m - 1) : t[i] = x
  BY <1>14, <1>18, <1>20
<1>23. \A i \in 1..(m - 1) : SameFlow(rules'[i], graph'[t[i]])
  BY <1>13, <1>16, <1>20
<1>24. Unlisting(g)'
  <2>1. /\ t \in [1..Len(rules') -> Owned(g)']
        /\ \A i, j \in 1..Len(rules') : t[i] = t[j] => i = j
        /\ \A x \in Owned(g)' : \E i \in 1..Len(rules') : t[i] = x
        /\ \A i \in 1..Len(rules') : SameFlow(rules'[i], graph'[t[i]])
    BY <1>2, <1>19, <1>21, <1>22, <1>23, Zenon
  <2>2. \A i \in 1..Len(graph') : i \notin Owned(g)' => graph'[i] \in wanted'
    <3>1. SUFFICES ASSUME NEW i \in 1..(n - 1), i \notin Owned(g)' PROVE graph'[i] \in wanted
      BY <1>1, <1>4
    <3>2. old(i) \in 1..n /\ graph'[i] = graph[old(i)] /\ graph'[i].id[1] # g
      BY <1>10, <1>12, <3>1
    <3>3. old(i) \notin Owned(g)
      BY <1>7, <3>2
    <3>. QED
      BY <1>7, <3>2, <3>3
  <2>3. \A r \in wanted' : r.id[1] # g
    BY <1>1, <1>7
  <2>. QED
    BY <2>1, <2>2, <2>3, Zenon DEF Unlisting, SameFlow
<1>25. \A r \in wanted' : \E i \in 1..Len(graph') : graph'[i] = r
  <2>1. \A r \in wanted : \E i \in 1..n : i # k /\ graph[i] = r
    BY <1>7, <1>9
  <2>. QED
    BY <1>1, <1>4, <2>1
<1>26. \A i, j \in 1..Len(graph') : graph'[i].id = graph'[j].id => i = j
  <2>1. SUFFICES ASSUME NEW i \in 1..(n - 1), NEW j \in 1..(n - 1), graph'[i].id = graph'[j].id
                 PROVE  i = j
    BY <1>4
  <2>2. graph[old(i)].id = graph[old(j)].id /\ old(i) \in 1..n /\ old(j) \in 1..n
    BY <1>10, <2>1
  <2>3. old(i) = old(j)
    BY <1>7, <2>2
  <2>. QED
    BY <1>10, <2>3
<1>27. \A i \in 1..Len(graph') : FlowOf(graph'[i]) \in FlowsOf[graph'[i].id[1]]
  <2> TAKE i \in 1..Len(graph')
  <2>1. old(i) \in 1..n /\ graph'[i] = graph[old(i)]
    BY <1>4, <1>10
  <2>2. FlowOf(graph[old(i)]) \in FlowsOf[graph[old(i)].id[1]]
    BY <1>7, <2>1
  <2>. QED
    BY <2>1, <2>2, Zenon
<1>. QED
  BY <1>1, <1>24, <1>25, <1>26, <1>27, Zenon DEF Mirror, FlowOf

\* At the end of its loop removeRules has erased every rule of g, and no other.
LEMMA UnlistedMirror ==
    ASSUME LInv, Unlisted
    PROVE  Mirror'
<1>1. /\ pc = "unlist" /\ pc' # "unlist" /\ rules = <<>> /\ UNCHANGED <<graph, wanted>>
  BY DEF LInv, Unlisted, SendTo
<1>2. PICK g \in Graphs : Unlisting(g)
  BY <1>1 DEF LInv, Mirror
<1>3. \A k \in Owned(g) : \E i \in 1..Len(rules) : TRUE
  BY <1>2 DEF Unlisting
<1>4. Len(rules) = 0
  BY <1>1
<1>5. \A i \in 1..Len(graph) : graph[i] \in wanted
  BY <1>2, <1>3, <1>4 DEF Unlisting
<1>. QED
  BY <1>1, <1>5, Zenon DEF LInv, Mirror, FlowOf

\* The list starts empty.
LEMMA InitLInv ==
    ASSUME Init PROVE LInv
<1>1. TypeOK
  BY TypeInit
<1>2. Mirror
  BY DEF Init, Mirror
<1>. QED
  BY <1>1, <1>2 DEF LInv

\* installNewRules keeps the list a mirror.
LEMMA InstallList ==
    ASSUME LInv, Install PROVE Mirror'
<1>1. PICK g \in Graphs : \E R \in NewRules(g) : \E rs \in SetToSeqs(R) : InstallNewRules(rs)
  BY DEF Install
<1>2. PICK R \in NewRules(g) : \E rs \in SetToSeqs(R) : InstallNewRules(rs)
  BY <1>1
<1>3. PICK rs \in SetToSeqs(R) : InstallNewRules(rs)
  BY <1>2
<1>. QED
  BY <1>3, NewIDs, InstallMirror

\* Sending flow-mods and the callbacks leave the list alone.
LEMMA QuietMirror ==
    ASSUME LInv, TypeOK', SendFlowMod \/ Channel \/ UNCHANGED vars
    PROVE  Mirror'
<1>1. CASE pc # "unlist"
  <2>1. pc' # "unlist" /\ UNCHANGED <<graph, wanted>>
    BY <1>1, Zenon DEF Channel, SendFlowMod, HandleDptOpen, HandleDptClose, ConnectionLost, Connect,
           SendTo, vars, ctrl, switch
  <2>. QED
    BY <1>1, <2>1 DEF LInv, Mirror, FlowOf
<1>2. CASE pc = "unlist"
  <2>1. UNCHANGED <<graph, wanted, pc, rules>>
    BY <1>2, Zenon DEF LInv, TypeOK, Channel, SendFlowMod, HandleDptOpen, HandleDptClose, ConnectionLost,
           Connect, vars, ctrl, switch
  <2>2. \A g : Owned(g)' = Owned(g)
    BY <2>1, Zenon DEF Owned
  <2>3. ASSUME NEW g, Unlisting(g) PROVE Unlisting(g)'
    <3>1. PICK s \in [1..Len(rules) -> Owned(g)] :
             /\ \A i, j \in 1..Len(rules) : s[i] = s[j] => i = j
             /\ \A k \in Owned(g) : \E i \in 1..Len(rules) : s[i] = k
             /\ \A i \in 1..Len(rules) : SameFlow(rules[i], graph[s[i]])
      BY <2>3, Zenon DEF Unlisting
    <3>2. /\ s \in [1..Len(rules') -> Owned(g)']
          /\ \A i, j \in 1..Len(rules') : s[i] = s[j] => i = j
          /\ \A k \in Owned(g)' : \E i \in 1..Len(rules') : s[i] = k
      BY <2>1, <2>2, <3>1, Zenon
    <3>3. \A i \in 1..Len(rules') : SameFlow(rules'[i], graph'[s[i]])
      BY <2>1, <3>1, Zenon
    <3>4. /\ \A i \in 1..Len(graph') : i \notin Owned(g)' => graph'[i] \in wanted'
          /\ \A r \in wanted' : r.id[1] # g
      BY <2>1, <2>2, <2>3, Zenon DEF Unlisting
    <3>. QED
      BY <3>2, <3>3, <3>4, Zenon DEF Unlisting, SameFlow
  <2>. QED
    BY <1>2, <2>1, <2>3, Zenon DEF LInv, Mirror, FlowOf
<1>. QED
  BY <1>1, <1>2

\* On a tenant LSI every step keeps the list a mirror ...
LEMMA TenantMirror ==
    ASSUME LInv, [TenantNext]_vars PROVE LInv'
<1>1. TypeOK'
  BY TypeStep DEF LInv, Next
<1>2. Mirror'
  BY <1>1, InstallList, RemoveMirror, QuietMirror DEF TenantNext, RemoveOne
<1>. QED
  BY <1>1, <1>2 DEF LInv

\* ... and so it does on LSI-0, if the NF-FGs use different traffic.
LEMMA NextMirror ==
    ASSUME SeparateFlows, LInv, [Next]_vars PROVE LInv'
<1>1. TypeOK'
  BY TypeStep DEF LInv
<1>2. CASE RemoveAll
  <2>1. PICK g \in Graphs : \E rs \in SetToSeqs({r \in wanted : r.id[1] = g}) : RemoveRules(rs)
    BY <1>2, Zenon DEF RemoveAll
  <2>. QED
    BY <1>1, <2>1, RemoveAllMirror DEF LInv
<1>3. CASE Unlist \/ Unlisted
  BY <1>1, <1>3, UnlistMirror, UnlistedMirror DEF LInv
<1>. QED
  BY <1>2, <1>3, TenantMirror DEF Next

-----------------------------------------------------------------------------
\* If the NF-FGs use different traffic, the list is always a mirror of what the
\* graph manager has installed, but for the rules that removeRules is erasing.
THEOREM ListMirrors == SeparateFlows => (Spec => []LInv)
<1> SUFFICES ASSUME SeparateFlows PROVE Spec => []LInv
  OBVIOUS
<1>. QED
  BY InitLInv, NextMirror, PTL DEF Spec

\* Then removeRules never fails the assert of Graph::removeRule ...
THEOREM RemovalAlwaysFindsRule == SeparateFlows => (Spec => []RemovalFindsRule)
<1> SUFFICES ASSUME SeparateFlows PROVE Spec => []RemovalFindsRule
  OBVIOUS
<1>1. LInv => RemovalFindsRule
  <2> SUFFICES ASSUME LInv, pc = "unlist", rules # <<>> PROVE EqualTo(graph, Head(rules)) # {}
    BY DEF RemovalFindsRule
  <2>1. PICK g \in Graphs : Unlisting(g)
    BY DEF LInv, Mirror
  <2>2. PICK s \in [1..Len(rules) -> Owned(g)] :
           \A i \in 1..Len(rules) : SameFlow(rules[i], graph[s[i]])
    BY <2>1, Zenon DEF Unlisting
  <2>3. 1 \in 1..Len(rules) /\ Head(rules) = rules[1]
    BY DEF LInv, TypeOK
  <2>4. s[1] \in 1..Len(graph) /\ SameFlow(graph[s[1]], rules[1])
    BY <2>2, <2>3 DEF Owned, SameFlow
  <2>. QED
    BY <2>3, <2>4 DEF EqualTo
<1>. QED
  BY <1>1, ListMirrors, PTL

\* ... and deleting an NF-FG leaves every rule that the others installed, under
\* its own identifier, in the list.
THEOREM OthersAlwaysKept == SeparateFlows => (Spec => []OthersKept)
<1> SUFFICES ASSUME SeparateFlows PROVE Spec => []OthersKept
  OBVIOUS
<1>1. LInv => OthersKept
  BY DEF LInv, Mirror, OthersKept, IDs
<1>. QED
  BY <1>1, ListMirrors, PTL

\* The list and the table start empty.
LEMMA InitTInv ==
    ASSUME Init PROVE TInv
<1>1. LInv
  BY InitLInv
<1>2. Progress
  BY DEF Init, Progress
<1>. QED
  BY <1>1, <1>2 DEF TInv

\* One step of the abstract table, or none.
Refines == [Table!Next]_(Table!vars)

\* installNewRules keeps the invariant and is the step Ask.
LEMMA InstallStep ==
    ASSUME OneFlowPerMatch, TInv, Install PROVE TInv' /\ Refines
<1>1. PICK g \in Graphs : \E R \in NewRules(g) : \E rs \in SetToSeqs(R) : InstallNewRules(rs)
  BY DEF Install
<1>2. PICK R \in NewRules(g) : \E rs \in SetToSeqs(R) : InstallNewRules(rs)
  BY <1>1
<1>3. PICK rs \in SetToSeqs(R) : InstallNewRules(rs)
  BY <1>2
<1>4. rs \in Seq(LegalRules)
  BY NewIDs
<1>5. LInv /\ TypeOK /\ LInv'
  BY TenantMirror DEF TInv, LInv, TenantNext
<1>6. TypeOK'
  BY <1>5 DEF LInv
<1>7. /\ \A f : f \in Asked' <=> f \in Asked \/ \E i \in 1..Len(rs) : FlowOf(rs[i]) = f
      /\ Asked' \in SUBSET Flows
  <2>1. wanted' = wanted \cup {rs[i] : i \in 1..Len(rs)} /\ wanted' \in SUBSET LegalRules
    BY <1>3, <1>4, <1>6 DEF InstallNewRules, Range, TypeOK
  <2>. QED
    BY <2>1, LegalFlow DEF Asked
<1>8. /\ pc = "idle" /\ UNCHANGED <<isOpen, up, opening, table>>
      /\ \/ isOpen /\ pc' = "send" /\ command' = "ADD" /\ rules' = rs
         \/ ~(isOpen /\ rs # <<>>) /\ pc' = "idle"
  BY <1>3, <1>5 DEF InstallNewRules, SendTo, switch, TypeOK
<1>9. rs = <<>> => Asked' = Asked
  <2>1. SUFFICES ASSUME rs = <<>> PROVE wanted' = wanted
    BY DEF Asked
  <2>2. DOMAIN rs = {}
    BY <2>1
  <2>. QED
    BY <1>3, <2>2 DEF InstallNewRules, Range
<1>10. Progress'
  BY <1>7, <1>8, <1>9 DEF TInv, Progress, Listed
<1>11. Refines
  <2>1. CASE ~(up /\ isOpen)
    <3>1. State = "down" /\ State' = "down"
      BY <1>8, <2>1 DEF State
    <3>. QED
      BY <1>7, <1>8, <3>1 DEF Refines, Table!Next, Table!Ask
  <2>2. CASE up /\ isOpen
    <3>1. State = "ready" /\ (State' = "syncing" \/ (State' = "ready" /\ table' = Asked'))
      BY <1>8, <1>9, <2>2 DEF State, TInv, Progress
    <3>. QED
      BY <1>7, <1>8, <3>1 DEF Refines, Table!Next, Table!Ask, Table!ReadyIfEqual
  <2>. QED
    BY <2>1, <2>2
<1>. QED
  BY <1>5, <1>10, <1>11 DEF TInv

\* And so is removeRuleFromID.
LEMMA RemoveStep ==
    ASSUME OneFlowPerMatch, TInv, RemoveOne PROVE TInv' /\ Refines
<1>1. PICK ID \in IDs(wanted) : RemoveRuleFromID(ID)
  BY DEF RemoveOne
<1>2. LInv /\ TypeOK /\ WithID(graph, ID) # {}
  BY <1>1, RemoveMirror DEF TInv, LInv
<1>3. LInv' /\ TypeOK'
  BY <1>2, TenantMirror DEF LInv, TenantNext
<1> DEFINE r == getRule(graph, ID)
           another == anotherIdentical(graph, ID)
<1>4. /\ another => Asked' = Asked
      /\ ~another => Asked' = Asked \ {FlowOf(r)} /\ FlowOf(r) \in Asked
  BY <1>1, <1>2, RemoveAsked
<1>5. /\ pc = "idle" /\ UNCHANGED <<isOpen, up, opening, table>>
      /\ \/ isOpen /\ ~another /\ pc' = "send" /\ command' = "RM" /\ rules' = <<r>>
         \/ ~(isOpen /\ ~another) /\ pc' = "idle"
  BY <1>1, <1>2 DEF RemoveRuleFromID, SendTo, switch, TypeOK
<1> HIDE DEF r, another
<1>6. \A f : Listed(<<r>>, f) <=> f = FlowOf(r)
  BY DEF Listed
<1>7. Progress'
  <2>1. (up /\ isOpen) => table = Asked
    BY <1>5 DEF TInv, Progress
  <2>2. CASE rules' = <<r>> /\ pc' = "send" /\ command' = "RM" /\ ~another
    <3>1. Unasked(rules)'
      BY <1>4, <2>2 DEF Unasked, FlowOf
    <3>2. (up /\ isOpen) => Surplus(rules)'
      BY <1>4, <1>5, <1>6, <2>1, <2>2 DEF Surplus, Listed, FlowOf
    <3>. QED
      BY <1>5, <2>2, <3>1, <3>2 DEF TInv, Progress
  <2>3. CASE pc' = "idle" /\ ~(isOpen /\ ~another)
    BY <1>4, <1>5, <2>1, <2>3 DEF TInv, Progress
  <2>. QED
    BY <1>5, <2>2, <2>3
<1>8. Asked' \in SUBSET Flows
  BY <1>3, LegalFlow DEF Asked, TypeOK
<1>9. Refines
  <2>1. CASE ~(up /\ isOpen)
    <3>1. State = "down" /\ State' = "down"
      BY <1>5, <2>1 DEF State
    <3>. QED
      BY <1>5, <1>8, <3>1 DEF Refines, Table!Next, Table!Ask
  <2>2. CASE up /\ isOpen
    <3>1. State = "ready" /\ (State' = "syncing" \/ (State' = "ready" /\ table' = Asked'))
      BY <1>4, <1>5, <2>2 DEF State, TInv, Progress
    <3>. QED
      BY <1>5, <1>8, <3>1 DEF Refines, Table!Next, Table!Ask, Table!ReadyIfEqual
  <2>. QED
    BY <2>1, <2>2
<1>. QED
  BY <1>3, <1>7, <1>9 DEF TInv

\* A flow-mod is the step Sync.
LEMMA SendStep ==
    ASSUME OneFlowPerMatch, TInv, SendFlowMod PROVE TInv' /\ Refines
<1>1. LInv' /\ TypeOK
  BY TenantMirror DEF TInv, LInv, TenantNext
<1>2. /\ pc = "send" /\ UNCHANGED <<graph, up, opening, wanted>>
      /\ rules # <<>> /\ rules \in Seq(LegalRules)
  BY <1>1 DEF TypeOK, SendFlowMod
<1>3. Asked' = Asked
  BY <1>2 DEF Asked
<1>4. CASE ~isOpen
  <2>1. UNCHANGED <<isOpen, pc, command, rules, table>>
    BY <1>4 DEF SendFlowMod, ctrl
  <2>2. Progress'
    BY <1>2, <1>3, <1>4, <2>1 DEF TInv, Progress, Unasked, FlowOf
  <2>3. UNCHANGED <<Asked, table, State>>
    BY <1>2, <1>3, <2>1 DEF State
  <2>. QED
    BY <1>1, <2>2, <2>3 DEF TInv, Refines, Table!vars
<1>5. CASE isOpen
  <2> DEFINE r == Head(rules)
  <2>1. /\ isOpen' = isOpen /\ r \in LegalRules
        /\ table' = IF ~up THEN table
                    ELSE IF command = "ADD" THEN table \cup {FlowOf(r)} ELSE table \ {FlowOf(r)}
        /\ \/ pc' = "send" /\ command' = command /\ rules' = Tail(rules) /\ Tail(rules) # <<>>
           \/ pc' = "idle" /\ Tail(rules) = <<>>
    <3>1. r \in LegalRules
      BY <1>2
    <3>. QED
      BY <1>5, <3>1, <1>1, OneFlow, Zenon DEF SendFlowMod, SendTo, TypeOK
  <2>2. /\ \A i \in 1..Len(Tail(rules)) : i + 1 \in 1..Len(rules) /\ Tail(rules)[i] = rules[i + 1]
        /\ 1 \in 1..Len(rules) /\ r = rules[1]
        /\ \A i \in 1..Len(rules) : i # 1 => i - 1 \in 1..Len(Tail(rules)) /\ Tail(rules)[i - 1] = rules[i]
        /\ Tail(rules) = <<>> => \A i \in 1..Len(rules) : i = 1
    <3>1. /\ Len(Tail(rules)) = Len(rules) - 1 /\ Len(rules) \in Nat /\ Len(rules) > 0
          /\ \A i \in 1..Len(Tail(rules)) : Tail(rules)[i] = rules[i + 1]
          /\ r = rules[1]
      BY <1>2
    <3>. QED
      BY <3>1
  <2> HIDE DEF r
  <2>3. command \in {"ADD", "RM"}
    BY <1>1 DEF TypeOK
  <2>4. CASE command = "ADD"
    <3>1. FlowOf(r) \in Asked /\ \A i \in 1..Len(rules) : FlowOf(rules[i]) \in Asked
      BY <1>2, <2>2, <2>4 DEF TInv, Progress
    <3>2. up => table' = table \cup {FlowOf(r)} /\ table' \subseteq Asked
      BY <1>2, <1>5, <2>1, <2>4, <3>1 DEF TInv, Progress
    <3>3. up => \A f \in Asked \ table' : \E i \in 1..Len(Tail(rules)) : FlowOf(Tail(rules)[i]) = f
      <4>1. SUFFICES ASSUME up, NEW f \in Asked \ table'
                     PROVE  \E i \in 1..Len(Tail(rules)) : FlowOf(Tail(rules)[i]) = f
        OBVIOUS
      <4>2. f \in Asked \ table /\ f # FlowOf(r)
        BY <3>2, <4>1
      <4>3. PICK i \in 1..Len(rules) : FlowOf(rules[i]) = f
        BY <1>2, <1>5, <2>4, <4>1, <4>2 DEF TInv, Progress, Listed
      <4>4. i # 1
        BY <2>2, <4>2, <4>3
      <4>. QED
        BY <2>2, <4>3, <4>4
    <3>4. (up /\ Tail(rules) = <<>>) => table' = Asked
      <4>1. Tail(rules) = <<>> => \A f : ~ \E i \in 1..Len(Tail(rules)) : FlowOf(Tail(rules)[i]) = f
        OBVIOUS
      <4>. QED
        BY <3>2, <3>3, <4>1, Zenon
    <3>5. \A i \in 1..Len(Tail(rules)) : FlowOf(Tail(rules)[i]) \in Asked
      BY <2>2, <3>1
    <3>6. Progress'
      BY <1>2, <1>3, <1>5, <2>1, <2>4, <3>2, <3>3, <3>4, <3>5, Zenon DEF TInv, Progress, Listed
    <3>7. CASE up
      <4>1. State = "syncing" /\ (State' = "syncing" \/ (State' = "ready" /\ table' = Asked'))
        BY <1>2, <1>3, <1>5, <2>1, <3>4, <3>7 DEF State
      <4>2. table' = table \/ \E f \in Asked \ table : table' = table \cup {f}
        BY <3>1, <3>2, <3>7
      <4>3. Refines
        BY <1>3, <4>1, <4>2 DEF Refines, Table!Next, Table!Sync, Table!ReadyIfEqual
      <4>. QED
        BY <1>1, <3>6, <4>3 DEF TInv
    <3>8. CASE ~up
      <4>1. UNCHANGED <<Asked, table, State>>
        BY <1>2, <1>3, <2>1, <3>8 DEF State
      <4>. QED
        BY <1>1, <3>6, <4>1 DEF TInv, Refines, Table!vars
    <3>. QED
      BY <3>7, <3>8
  <2>5. CASE command = "RM"
    <3>1. FlowOf(r) \notin Asked /\ \A i \in 1..Len(rules) : FlowOf(rules[i]) \notin Asked
      BY <1>2, <2>2, <2>5 DEF TInv, Progress, Unasked
    <3>2. up => table' = table \ {FlowOf(r)} /\ Asked \subseteq table'
      BY <1>2, <1>5, <2>1, <2>5, <3>1 DEF TInv, Progress, Surplus
    <3>3. up => \A f \in table' \ Asked : \E i \in 1..Len(Tail(rules)) : FlowOf(Tail(rules)[i]) = f
      <4>1. SUFFICES ASSUME up, NEW f \in table' \ Asked
                     PROVE  \E i \in 1..Len(Tail(rules)) : FlowOf(Tail(rules)[i]) = f
        OBVIOUS
      <4>2. f \in table \ Asked /\ f # FlowOf(r)
        BY <3>2, <4>1
      <4>3. PICK i \in 1..Len(rules) : FlowOf(rules[i]) = f
        BY <1>2, <1>5, <2>5, <4>1, <4>2 DEF TInv, Progress, Surplus, Listed
      <4>4. i # 1
        BY <2>2, <4>2, <4>3
      <4>. QED
        BY <2>2, <4>3, <4>4
    <3>4. (up /\ Tail(rules) = <<>>) => table' = Asked
      <4>1. Tail(rules) = <<>> => \A f : ~ \E i \in 1..Len(Tail(rules)) : FlowOf(Tail(rules)[i]) = f
        OBVIOUS
      <4>. QED
        BY <3>2, <3>3, <4>1, Zenon
    <3>5. \A i \in 1..Len(Tail(rules)) : FlowOf(Tail(rules)[i]) \notin Asked
      BY <2>2, <3>1
    <3>6. Progress'
      BY <1>2, <1>3, <1>5, <2>1, <2>5, <3>2, <3>3, <3>4, <3>5, Zenon
         DEF TInv, Progress, Surplus, Unasked, Listed, FlowOf
    <3>7. CASE up
      <4>1. State = "syncing" /\ (State' = "syncing" \/ (State' = "ready" /\ table' = Asked'))
        BY <1>2, <1>3, <1>5, <2>1, <3>4, <3>7 DEF State
      <4>2. table' = table \/ \E f \in table \ Asked : table' = table \ {f}
        BY <3>1, <3>2, <3>7
      <4>3. Refines
        BY <1>3, <4>1, <4>2 DEF Refines, Table!Next, Table!Sync, Table!ReadyIfEqual
      <4>. QED
        BY <1>1, <3>6, <4>3 DEF TInv
    <3>8. CASE ~up
      <4>1. UNCHANGED <<Asked, table, State>>
        BY <1>2, <1>3, <2>1, <3>8 DEF State
      <4>. QED
        BY <1>1, <3>6, <4>1 DEF TInv, Refines, Table!vars
    <3>. QED
      BY <3>7, <3>8
  <2>. QED
    BY <2>3, <2>4, <2>5
<1>. QED
  BY <1>4, <1>5

\* The callbacks and the connection are the steps Open and Down.
LEMMA ChannelStep ==
    ASSUME OneFlowPerMatch, TInv, Channel PROVE TInv' /\ Refines
<1>1. LInv /\ TypeOK /\ LInv'
  BY TenantMirror DEF TInv, LInv, TenantNext
<1>2. UNCHANGED <<graph, wanted>>
  BY Zenon DEF Channel, HandleDptOpen, HandleDptClose, ConnectionLost, Connect
<1>3. Asked' = Asked
  BY <1>2 DEF Asked
<1>4. CASE HandleDptOpen
  <2>1. /\ pc = "idle" /\ opening' = FALSE /\ up' = up /\ isOpen' = TRUE /\ ~isOpen
        /\ table' = IF up THEN {} ELSE table
        /\ \/ pc' = "send" /\ command' = "ADD" /\ rules' = graph
           \/ pc' = "idle" /\ graph = <<>>
    BY <1>1, <1>4 DEF HandleDptOpen, SendTo, TInv, TypeOK, Progress
  <2>2. /\ \A i \in 1..Len(graph) : FlowOf(graph[i]) \in Asked
        /\ \A f \in Asked : \E i \in 1..Len(graph) : FlowOf(graph[i]) = f
    BY <1>1, <2>1 DEF LInv, Mirror, Asked
  <2>3. graph = <<>> => Asked = {}
    BY <2>2
  <2>4. Progress'
    BY <1>3, <2>1, <2>2, <2>3 DEF Progress, Listed
  <2>5. Refines
    <3>1. CASE up
      <4>1. State = "down" /\ (State' = "syncing" \/ (State' = "ready" /\ table' = Asked')) /\ table' = {}
        BY <1>3, <2>1, <2>3, <3>1 DEF State
      <4>. QED
        BY <1>3, <4>1 DEF Refines, Table!Next, Table!Open, Table!ReadyIfEqual
    <3>2. CASE ~up
      <4>1. UNCHANGED <<Asked, table, State>>
        BY <1>3, <2>1, <3>2 DEF State
      <4>. QED
        BY <4>1 DEF Refines, Table!vars
    <3>. QED
      BY <3>1, <3>2
  <2>. QED
    BY <1>1, <2>4, <2>5 DEF TInv
<1>5. CASE HandleDptClose \/ ConnectionLost \/ Connect
  <2>1. /\ ~(up' /\ isOpen') /\ table' \in {table, {}}
        /\ opening' => ~isOpen'
        /\ UNCHANGED <<pc, command, rules, batch>>
    BY <1>5 DEF HandleDptClose, ConnectionLost, Connect, switch, ctrl, TInv, Progress
  <2>2. Progress'
    BY <1>3, <2>1 DEF TInv, Progress, Unasked, FlowOf
  <2>3. State' = "down"
    BY <2>1 DEF State
  <2>4. Refines
    BY <1>3, <2>1, <2>3 DEF Refines, Table!Next, Table!Down
  <2>. QED
    BY <1>1, <2>2, <2>4 DEF TInv
<1>. QED
  BY <1>4, <1>5 DEF Channel

\* Every step keeps the invariant and is a step of the abstract table or none.
LEMMA TenantStep ==
    ASSUME OneFlowPerMatch, TInv, [TenantNext]_vars PROVE TInv' /\ Refines
<1>1. CASE UNCHANGED vars
  <2>1. LInv'
    BY <1>1, TenantMirror DEF TInv
  <2>2. UNCHANGED <<Asked, table, State>>
    BY <1>1 DEF Asked, State, vars, ctrl, switch
  <2>3. Progress'
    BY <1>1, <2>2 DEF TInv, Progress, Surplus, Unasked, Listed, FlowOf, vars, ctrl, switch
  <2>. QED
    BY <2>1, <2>2, <2>3 DEF TInv, Refines, Table!vars
<1>. QED
  BY <1>1, InstallStep, RemoveStep, SendStep, ChannelStep DEF TenantNext

\* controller.cc on a tenant LSI implements the abstract table, if no two flows have the same
\* match: through installs, removals of rules that share a flow and disconnections, each
\* flow-mod brings the table nearer to what is asked for, which it equals when the call ends.
THEOREM TableImplemented == OneFlowPerMatch => (TenantSpec => ImplementsTable)
<1> SUFFICES ASSUME OneFlowPerMatch PROVE TenantSpec => ImplementsTable
  OBVIOUS
<1>1. Init => TInv /\ Table!Init
  BY InitTInv, Zenon DEF Init, Table!Init, Asked, State
<1>2. TInv /\ [TenantNext]_vars => TInv' /\ [Table!Next]_(Table!vars)
  BY TenantStep DEF Refines
<1>. QED
  BY <1>1, <1>2, PTL DEF TenantSpec, ImplementsTable, Table!Spec

-----------------------------------------------------------------------------
\* On LSI-0, deleting an NF-FG asks for its flows no more: no other NF-FG wants
\* one of them.
LEMMA RemoveAllStep ==
    ASSUME SeparateFlows, TInv, RemoveAll PROVE TInv' /\ Refines
<1>1. LInv /\ TypeOK /\ Mirror /\ LInv' /\ TypeOK'
  BY NextMirror DEF TInv, LInv, Next
<1>a. PICK g \in Graphs : \E rs \in SetToSeqs({r \in wanted : r.id[1] = g}) :
                             rs # <<>> /\ RemoveRules(rs)
  BY Zenon DEF RemoveAll
<1>b. PICK rs \in SetToSeqs({r \in wanted : r.id[1] = g}) : rs # <<>> /\ RemoveRules(rs)
  BY <1>a, Zenon
<1>2. /\ pc = "idle" /\ pc' = "unlist" /\ batch' = rs /\ rs # <<>>
      /\ wanted' = wanted \ Range(rs) /\ UNCHANGED <<isOpen, up, opening, table>>
  BY <1>1, <1>b DEF RemoveRules, switch, TypeOK
<1> DEFINE R == {r \in wanted : r.id[1] = g}
<1>3. /\ rs \in Seq(LegalRules)
      /\ \A i \in 1..Len(rs) : rs[i] \in R
      /\ \A r \in R : \E i \in 1..Len(rs) : rs[i] = r
  <2>1. R \in SUBSET LegalRules
    BY <1>1 DEF TypeOK
  <2>. QED
    BY <2>1, ListsAll, Zenon
<1>4. wanted' = {r \in wanted : r.id[1] # g} /\ wanted \in SUBSET LegalRules
  <2>1. Range(rs) = R
    BY <1>3 DEF Range
  <2>. QED
    BY <1>1, <1>2, <2>1 DEF TypeOK
<1>5. \A r \in wanted : FlowOf(r) \in FlowsOf[r.id[1]]
  BY <1>1 DEF Mirror
<1>6. Unasked(batch)'
  <2>1. SUFFICES ASSUME NEW i \in 1..Len(rs), NEW r \in wanted', FlowOf(r) = FlowOf(rs[i]) PROVE FALSE
    BY <1>2, Zenon DEF Unasked, Asked, FlowOf
  <2>2. SameFlow(r, rs[i])
    BY <2>1, Zenon DEF SameFlow, FlowOf
  <2>3. rs[i] \in wanted /\ rs[i].id[1] = g /\ r \in wanted /\ r.id[1] # g
    BY <1>3, <1>4
  <2>. QED
    BY <1>4, <1>5, <2>2, <2>3, SameOwner
<1>7. (up /\ isOpen) => Surplus(batch)'
  <2>1. SUFFICES ASSUME up, isOpen PROVE Surplus(batch)'
    OBVIOUS
  <2>2. table = Asked
    BY <1>2, <2>1 DEF TInv, Progress
  <2>3. Asked' \subseteq Asked
    BY <1>4 DEF Asked
  <2>4. ASSUME NEW f \in Asked, f \notin Asked' PROVE Listed(rs, f)
    <3>1. PICK r \in wanted : FlowOf(r) = f
      BY DEF Asked
    <3>2. r \in R
      BY <1>4, <2>4, <3>1 DEF Asked, FlowOf
    <3>. QED
      BY <1>3, <3>1, <3>2 DEF Listed
  <2>. QED
    BY <1>2, <2>2, <2>3, <2>4 DEF Surplus, Listed, FlowOf
<1>8. Progress'
  BY <1>2, <1>6, <1>7 DEF TInv, Progress
<1>9. Asked' \in SUBSET Flows
  BY <1>1, LegalFlow DEF Asked, TypeOK
<1>10. Refines
  <2>1. CASE ~(up /\ isOpen)
    <3>1. State = "down" /\ State' = "down"
      BY <1>2, <2>1 DEF State
    <3>. QED
      BY <1>2, <1>9, <3>1 DEF Refines, Table!Next, Table!Ask
  <2>2. CASE up /\ isOpen
    <3>1. State = "ready" /\ State' = "syncing"
      BY <1>2, <2>2 DEF State
    <3>. QED
      BY <1>2, <1>9, <3>1 DEF Refines, Table!Next, Table!Ask, Table!ReadyIfEqual
  <2>. QED
    BY <2>1, <2>2
<1>. QED
  BY <1>1, <1>8, <1>10 DEF TInv

\* The loop of removeRules on the list is no step of the table; its end leaves the
\* table and what is to be taken away as they are.
LEMMA UnlistStep ==
    ASSUME SeparateFlows, TInv, Unlist \/ Unlisted PROVE TInv' /\ Refines
<1>1. LInv' /\ TypeOK
  BY NextMirror DEF TInv, LInv, Next
<1>2. pc = "unlist" /\ UNCHANGED <<isOpen, up, opening, table, wanted>>
  BY Zenon DEF Unlist, Unlisted, switch
<1>3. Asked' = Asked
  BY <1>2 DEF Asked
<1>4. batch # <<>> /\ Unasked(batch) /\ ((up /\ isOpen) => Surplus(batch))
  BY <1>2 DEF TInv, Progress
<1>5. CASE Unlist
  <2>1. pc' = pc /\ batch' = batch
    BY <1>5 DEF Unlist
  <2>2. Progress'
    BY <1>2, <1>3, <1>4, <2>1, Zenon DEF TInv, Progress, Surplus, Unasked, Listed, FlowOf
  <2>3. UNCHANGED <<Asked, table, State>>
    BY <1>2, <1>3, <2>1 DEF State
  <2>. QED
    BY <1>1, <2>2, <2>3 DEF TInv, Refines, Table!vars
<1>6. CASE Unlisted
  <2>1. \/ isOpen /\ pc' = "send" /\ command' = "RM" /\ rules' = batch
        \/ ~isOpen /\ pc' = "idle"
    BY <1>4, <1>6 DEF Unlisted, SendTo
  <2>2. Progress'
    BY <1>2, <1>3, <1>4, <2>1 DEF TInv, Progress, Surplus, Unasked, Listed, FlowOf
  <2>3. UNCHANGED <<Asked, table, State>>
    BY <1>2, <1>3, <2>1 DEF State
  <2>. QED
    BY <1>1, <2>2, <2>3 DEF TInv, Refines, Table!vars
<1>. QED
  BY <1>5, <1>6

\* Every step on LSI-0 keeps the invariant and is a step of the abstract table or none.
LEMMA LSI0Step ==
    ASSUME OneFlowPerMatch, SeparateFlows, TInv, [Next]_vars PROVE TInv' /\ Refines
BY TenantStep, RemoveAllStep, UnlistStep DEF Next

\* On LSI-0 too the controller implements the abstract table, if no two flows have
\* the same match and different NF-FGs use different traffic: deleting one NF-FG
\* never takes a flow of another away, not even for a while.
THEOREM LSI0Implemented == OneFlowPerMatch /\ SeparateFlows => (Spec => ImplementsTable)
<1> SUFFICES ASSUME OneFlowPerMatch, SeparateFlows PROVE Spec => ImplementsTable
  OBVIOUS
<1>1. Init => TInv /\ Table!Init
  BY InitTInv, Zenon DEF Init, Table!Init, Asked, State
<1>2. TInv /\ [Next]_vars => TInv' /\ [Table!Next]_(Table!vars)
  BY LSI0Step DEF Refines
<1>. QED
  BY <1>1, <1>2, PTL DEF Spec, ImplementsTable, Table!Spec

\* Whenever LSI-0 is connected and no call is running, its flow table is exactly
\* what the installed NF-FGs ask for, under the same two conditions.
THEOREM TableAlwaysInSync == OneFlowPerMatch /\ SeparateFlows => (Spec => []TableInSync)
<1> SUFFICES ASSUME OneFlowPerMatch, SeparateFlows PROVE Spec => []TableInSync
  OBVIOUS
<1>1. Init => TInv
  BY InitTInv
<1>2. TInv /\ [Next]_vars => TInv'
  BY LSI0Step
<1>3. TInv => TableInSync
  BY DEF TInv, Progress, TableInSync, Settled, Asked
<1>. QED
  BY <1>1, <1>2, <1>3, PTL DEF Spec

\* On a tenant LSI the second condition is not needed.
THEOREM TenantAlwaysInSync == OneFlowPerMatch => (TenantSpec => []TableInSync)
<1> SUFFICES ASSUME OneFlowPerMatch PROVE TenantSpec => []TableInSync
  OBVIOUS
<1>1. Init => TInv
  BY InitTInv
<1>2. TInv /\ [TenantNext]_vars => TInv'
  BY TenantStep
<1>3. TInv => TableInSync
  BY DEF TInv, Progress, TableInSync, Settled, Asked
<1>. QED
  BY <1>1, <1>2, <1>3, PTL DEF TenantSpec
==============================================================================
