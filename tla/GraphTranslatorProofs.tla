----------------------- MODULE GraphTranslatorProofs -----------------------
(***************************************************************************)
(* What the loops over lists of rules and the lowering of a graph compute, *)
(* for lists of any length: the lemmas on which GraphManagerProofs rests.  *)
(***************************************************************************)
EXTENDS GraphManager, ListOpsProofs

\* The rules a controller can be given.
LowRules ==
    [id : {r.id : r \in AllRules},
     match : (Nodes \cup VLinks \cup {NoPort}) \X ({r.cls : r \in AllRules} \cup {AnyClass}),
     out : Nodes \cup VLinks \cup {NoPort},
     extra : BOOLEAN]

LSIs ==
    [links : SUBSET VLinks, up : Assoc(Above), down : Assoc(Below), present : SUBSET Above]

\* No two rules of the list have the same identifier.
Identified(list) ==
    \A i, j \in 1..Len(list) : list[i].id = list[j].id => i = j

\* The translator can lower the rule, and the links the rule needs are there.
Linked(h, l) ==
    /\ ~(h.from \in Internals /\ h.to \in Below) /\ ~(h.from \in Gres /\ h.to \in Gres)
    /\ h.from \in Below /\ h.to \in Above => h.to \in DOMAIN l.up
    /\ h.from \in Above /\ h.to \in Below => h.to \in DOMAIN l.down

\* Every rule of LSI-0 is what a rule of the description is lowered to, on the links
\* of this moment.
Justified(list, rs, l) ==
    \A q \in Range(list) : \E h \in Range(rs) : Linked(h, l) /\ lowerToLSI0(h, l) = <<q>>

\* The same for the tenant LSI, with the ports of an earlier moment.
JustifiedTenant(list, rs, l) ==
    \A q \in Range(list) : \E h \in Range(rs), p \in SUBSET Above :
        Linked(h, l) /\ lowerToTenant(h, [l EXCEPT !.present = p]) = <<q>>

-----------------------------------------------------------------------------
\* Lists of rules with identifiers

\* What the erasure of the k-th rule does to the identifiers of s.
ErasesID(t, s, k) ==
    Identified(t) /\ \A x \in Range(t) : x.id # s[k].id

\* Erasing a rule keeps identifiers apart, and its identifier leaves the list.
LEMMA ErasedIdentified ==
    ASSUME NEW T, NEW s \in Seq(T), NEW k \in 1..Len(s), Identified(s)
    PROVE  ErasesID(RemoveAt(s, k), s, k)
<1> USE DEF ErasesID
<1>1. PICK t : t = RemoveAt(s, k)
  OBVIOUS
<1> /\ t \in Seq(T) /\ Len(t) = Len(s) - 1
      /\ \A j \in 1..(Len(s) - 1) : t[j] = IF j < k THEN s[j] ELSE s[j + 1]
  BY <1>1, Erasure
<1>3. PICK o : o = [j \in 1..Len(t) |-> IF j < k THEN j ELSE j + 1]
  BY Zenon
<1>4. \A j \in 1..Len(t) : o[j] \in 1..Len(s) /\ o[j] # k /\ t[j] = s[o[j]]
  BY <1>3
<1>5. \A i, j \in 1..Len(t) : o[i] = o[j] => i = j
  <2>1. SUFFICES ASSUME NEW i \in 1..Len(t), NEW j \in 1..Len(t), o[i] = o[j] PROVE i = j
    OBVIOUS
  <2>2. i \in Nat /\ j \in Nat /\ k \in Nat
    OBVIOUS
  <2>3. /\ o[i] = IF i < k THEN i ELSE i + 1
        /\ o[j] = IF j < k THEN j ELSE j + 1
    BY <1>3
  <2>4. (IF i < k THEN i ELSE i + 1) = (IF j < k THEN j ELSE j + 1)
    BY <2>1, <2>3, Zenon
  <2> QED BY <2>2, <2>4
<1>6. Identified(t)
  <2>1. SUFFICES ASSUME NEW i \in 1..Len(t), NEW j \in 1..Len(t), t[i].id = t[j].id
                 PROVE  i = j
    BY DEF Identified
  <2>2. s[o[i]].id = s[o[j]].id /\ o[i] \in 1..Len(s) /\ o[j] \in 1..Len(s)
    BY <1>4, <2>1
  <2>3. o[i] = o[j]
    BY <2>2, Zenon DEF Identified
  <2> QED BY <1>5, <2>3, Zenon
<1>7. ASSUME NEW x \in Range(t) PROVE x.id # s[k].id
  <2>1. DOMAIN t = 1..Len(t)
    OBVIOUS
  <2>2. PICK j \in 1..Len(t) : x = t[j]
    BY <2>1 DEF Range
  <2> QED BY <1>4, <2>2, Zenon DEF Identified
<1> QED BY <1>1, <1>6, <1>7

\* removeIDs, round by round.
RemovesIDs(f, list, old) ==
    /\ f[0] = list
    /\ \A k \in 1..Len(old) :
         f[k] = IF WithID(f[k - 1], old[k].id) = {} THEN f[k - 1]
                ELSE removeRuleFromID(f[k - 1], old[k].id)

LEMMA RemoveIDsLoop ==
    ASSUME NEW T, NEW list \in Seq(T), NEW U, NEW old \in Seq(U)
    PROVE  \E f : removeIDs(list, old) = f[Len(old)] /\ RemovesIDs(f, list, old)
<1>1. PICK n \in Nat : n = Len(old)
  OBVIOUS
<1> PICK S : S = Seq(T)
  OBVIOUS
<1> DEFINE Round(l, k) == IF WithID(l, old[k].id) = {} THEN l
                          ELSE removeRuleFromID(l, old[k].id)
<1>3. PICK step : step = [k \in 1..n |-> [l \in S |-> Round(l, k)]]
  BY Zenon
<1>4. ASSUME NEW k \in 1..n, NEW l \in S PROVE Round(l, k) \in S
  <2> PICK P : P = WithID(l, old[k].id)
    OBVIOUS
  <2>2. CASE P = {}
    BY <2>2
  <2>3. CASE P # {}
    <3>1. Len(l) \in Nat /\ P \in SUBSET (1..Len(l))
      BY DEF WithID
    <3>2. Min(P) \in 1..Len(l)
      BY <2>3, <3>1, MinPosition, Zenon
    <3>3. RemoveAt(l, Min(P)) \in S
      BY <3>2, Erasure
    <3> QED BY <2>3, <3>3 DEF removeRuleFromID
  <2> QED BY <2>2, <2>3
<1> HIDE DEF Round
<1>5. step \in [1..n -> [S -> S]] /\ list \in S
  BY <1>3, <1>4
<1> PICK g \in [0..n -> S] : g[0] = list /\ \A k \in 1..n : g[k] = step[k][g[k - 1]]
  <2>1. RunsOf(S, n, list, step) # {}
    BY <1>5, LoopRuns, Zenon
  <2> QED BY <2>1, Zenon DEF RunsOf
<1>7. \A k \in 1..n : g[k - 1] \in S
  OBVIOUS
<1>8. \A k \in 1..n : g[k] = Round(g[k - 1], k)
  BY <1>3, <1>7, Zenon
<1> PICK h : h = [k \in 0 .. n |-> IF k = 0 THEN list ELSE Round(g[k - 1], k)]
  BY Zenon
<1>10. ASSUME NEW k \in 0..n PROVE h[k] = g[k]
  <2>1. h[k] = IF k = 0 THEN list ELSE Round(g[k - 1], k)
    OBVIOUS
  <2>2. CASE k = 0
    BY <2>1, <2>2
  <2>3. CASE k # 0
    <3>1. k \in 1..n
      BY <2>3
    <3> QED BY <1>8, <2>1, <2>3, <3>1, Zenon
  <2> QED BY <2>2, <2>3
<1>11. h = g
  BY <1>10, Zenon
<1>12. g = [k \in 0 .. n |-> IF k = 0 THEN list ELSE Round(g[k - 1], k)]
  BY <1>11
<1>13. PICK f : /\ removeIDs(list, old) = f[n]
                /\ f = [k \in 0 .. n |-> IF k = 0 THEN list ELSE Round(f[k - 1], k)]
  <2> USE DEF Round
  <2>1. \E f : f = [k \in 0 .. n |-> IF k = 0 THEN list ELSE Round(f[k - 1], k)]
    BY <1>12, Zenon
  <2> DEFINE F == CHOOSE f : f = [k \in 0 .. n |-> IF k = 0 THEN list ELSE Round(f[k - 1], k)]
  <2>2. F = [k \in 0 .. n |-> IF k = 0 THEN list ELSE Round(F[k - 1], k)]
    BY <2>1, Zenon
  <2>3. removeIDs(list, old) = F[n]
    BY <1>1, Zenon DEF removeIDs
  <2> QED BY <2>2, <2>3, Zenon
<1>14. \A k \in 0..n : f[k] = IF k = 0 THEN list ELSE Round(f[k - 1], k)
  BY <1>13, Zenon
<1>15. f[0] = list
  BY <1>14
<1>16. \A k \in 1..n : k \in 0..n /\ k # 0
  OBVIOUS
<1>17. \A k \in 1..n : f[k] = Round(f[k - 1], k)
  BY <1>14, <1>16, Zenon
<1> QED BY <1>1, <1>13, <1>15, <1>17, Zenon DEF Round, RemovesIDs

\* What a round of removeIDs makes of a list.
DropsID(t, l, ID) ==
    /\ t = l \/ \E i \in 1..Len(l) : t = RemoveAt(l, i)
    /\ \A q \in Range(l) : q.id # ID => q \in Range(t)
    /\ Identified(l) => \A q \in Range(t) : q.id # ID

\* One round: the first rule with the identifier leaves the list, if there is one.
LEMMA RemoveIDRound ==
    ASSUME NEW T, NEW l \in Seq(T), NEW ID, NEW t,
           t = IF WithID(l, ID) = {} THEN l ELSE removeRuleFromID(l, ID)
    PROVE  DropsID(t, l, ID)
<1> USE DEF DropsID
<1> PICK P : P = WithID(l, ID)
  OBVIOUS
<1>2. Len(l) \in Nat /\ P \in SUBSET (1..Len(l)) /\ DOMAIN l = 1..Len(l)
  BY DEF WithID
<1>3. CASE P = {}
  <2>1. t = l
    BY <1>3
  <2>2. \A q \in Range(l) : q.id # ID
    BY <1>2, <1>3 DEF WithID, Range
  <2> QED BY <2>1, <2>2
<1>4. CASE P # {}
  <2> PICK i \in 1..Len(l) : i = Min(P) /\ l[i].id = ID
    <3>1. Min(P) \in P
      BY <1>2, <1>4, MinPosition, Zenon
    <3> QED BY <3>1, Zenon DEF WithID
  <2> t = RemoveAt(l, i)
    BY <1>4 DEF removeRuleFromID
  <2>3. \A q \in Range(l) : q # l[i] => q \in Range(t)
    BY ErasedSet
  <2>4. Identified(l) => \A q \in Range(t) : q.id # ID
    BY ErasedIdentified DEF ErasesID
  <2>5. \A q \in Range(l) : q.id # ID => q \in Range(t)
    BY <2>3
  <2> QED BY <2>4, <2>5
<1> QED BY <1>3, <1>4

\* updateGraph_remove: what a list keeps.
Prunes(t, list, old) ==
    /\ Range(t) \subseteq Range(list)
    /\ \A q \in Range(list) : q.id \notin Ids(old) => q \in Range(t)
    /\ Identified(list) => Identified(t) /\ \A q \in Range(t) : q.id \notin Ids(old)

\* Removing by identifiers: the other rules stay, and where identifiers are apart
\* no rule with one of the identifiers does.
LEMMA RemovedIDs ==
    ASSUME NEW T, NEW list \in Seq(T), NEW U, NEW old \in Seq(U)
    PROVE  removeIDs(list, old) \in Seq(T) /\ Prunes(removeIDs(list, old), list, old)
<1> USE DEF Prunes
<1>1. PICK n \in Nat : n = Len(old) /\ DOMAIN old = 1..n
  OBVIOUS
<1>2. PICK f : /\ removeIDs(list, old) = f[n] /\ f[0] = list
               /\ \A k \in 1..n :
                    f[k] = IF WithID(f[k - 1], old[k].id) = {} THEN f[k - 1]
                           ELSE removeRuleFromID(f[k - 1], old[k].id)
  <2>1. PICK f : removeIDs(list, old) = f[Len(old)] /\ RemovesIDs(f, list, old)
    BY RemoveIDsLoop
  <2> QED BY <1>1, <2>1, Zenon DEF RemovesIDs
<1> DEFINE Kept(k) == \A q \in Range(list) :
                        (\A j \in 1..k : q.id # old[j].id) => q \in Range(f[k])
           Gone(k) == Identified(list) => /\ Identified(f[k])
                                          /\ \A q \in Range(f[k]), j \in 1..k : q.id # old[j].id
           G == {k \in 0..n : /\ f[k] \in Seq(T) /\ Range(f[k]) \subseteq Range(list)
                              /\ Kept(k) /\ Gone(k)}
<1>3. 0 \in G
  <2>1. Kept(0) /\ Gone(0)
    BY <1>2
  <2> QED BY <1>2, <2>1
<1>4. ASSUME NEW k \in 1..n, k - 1 \in G PROVE k \in G
  <2>1. PICK m \in Nat : m = k - 1 /\ m \in G
    BY <1>4
  <2>2. PICK l \in Seq(T) : l = f[m] /\ Range(l) \subseteq Range(list)
    BY <2>1
  <2>3. f[k] = IF WithID(l, old[k].id) = {} THEN l ELSE removeRuleFromID(l, old[k].id)
    BY <1>2, <2>1, <2>2, Zenon
  <2>4. /\ f[k] = l \/ \E i \in 1..Len(l) : f[k] = RemoveAt(l, i)
        /\ \A q \in Range(l) : q.id # old[k].id => q \in Range(f[k])
        /\ Identified(l) => \A q \in Range(f[k]) : q.id # old[k].id
    <3>1. PICK t, ID : t = f[k] /\ ID = old[k].id
      BY Zenon
    <3>2. t = IF WithID(l, ID) = {} THEN l ELSE removeRuleFromID(l, ID)
      BY <2>3, <3>1, Zenon
    <3>3. /\ t = l \/ \E i \in 1..Len(l) : t = RemoveAt(l, i)
          /\ \A q \in Range(l) : q.id # ID => q \in Range(t)
          /\ Identified(l) => \A q \in Range(t) : q.id # ID
      BY <3>2, RemoveIDRound, Zenon DEF DropsID
    <3> QED BY <3>1, <3>3, Zenon
  <2>5. /\ f[k] \in Seq(T) /\ Range(f[k]) \subseteq Range(l)
        /\ Identified(l) => Identified(f[k])
    <3>1. ASSUME NEW i \in 1..Len(l), f[k] = RemoveAt(l, i)
          PROVE  /\ f[k] \in Seq(T) /\ Range(f[k]) \subseteq Range(l)
                 /\ Identified(l) => Identified(f[k])
      <4>1. RemoveAt(l, i) \in Seq(T)
        BY Erasure
      <4>2. Range(RemoveAt(l, i)) \subseteq Range(l)
        BY ErasedSet
      <4>3. Identified(l) => Identified(RemoveAt(l, i))
        BY ErasedIdentified DEF ErasesID
      <4> QED BY <3>1, <4>1, <4>2, <4>3, Zenon
    <3> QED BY <2>4, <3>1, Zenon
  <2>6. \A j \in 1..k : j = k \/ j \in 1..m
    BY <2>1
  <2>7. k \in 1..k /\ \A j \in 1..m : j \in 1..k
    BY <2>1
  <2>8. Kept(m) /\ Gone(m)
    BY <2>1
  <2>9. Kept(k)
    BY <2>2, <2>4, <2>7, <2>8, Zenon
  <2>10. Gone(k)
    BY <2>2, <2>4, <2>5, <2>6, <2>8, Zenon
  <2> HIDE DEF Kept, Gone
  <2> QED BY <2>2, <2>5, <2>9, <2>10
<1> HIDE DEF G
<1>5. n \in G
  <2>1. n \in 0..n
    OBVIOUS
  <2> QED BY <1>3, <1>4, <2>1, LoopInduction, Zenon
<1>6. \A x : x \in Ids(old) <=> \E j \in 1..n : x = old[j].id
  BY <1>1 DEF Ids, Range
<1>7. Kept(n) /\ Gone(n) /\ f[n] \in Seq(T) /\ Range(f[n]) \subseteq Range(list)
  BY <1>5, Zenon DEF G
<1>8. \A q \in Range(list) : q.id \notin Ids(old) => q \in Range(f[n])
  BY <1>6, <1>7, Zenon
<1>9. Identified(list) => /\ Identified(f[n])
                          /\ \A q \in Range(f[n]) : q.id \notin Ids(old)
  BY <1>6, <1>7, Zenon
<1> QED BY <1>2, <1>7, <1>8, <1>9, Zenon

\* removeRules, round by round.
RemovesRules(f, list, gone) ==
    /\ f[0] = list
    /\ \A k \in 1..Len(gone) :
         f[k] = IF EqualTo(f[k - 1], gone[k]) = {} THEN f[k - 1]
                ELSE removeRule(f[k - 1], gone[k])

LEMMA RemoveRulesLoop ==
    ASSUME NEW T, NEW list \in Seq(T), NEW U, NEW gone \in Seq(U)
    PROVE  \E f : removeRules(list, gone) = f[Len(gone)] /\ RemovesRules(f, list, gone)
<1>1. PICK n \in Nat : n = Len(gone)
  OBVIOUS
<1> PICK S : S = Seq(T)
  OBVIOUS
<1> DEFINE Round(l, k) == IF EqualTo(l, gone[k]) = {} THEN l
                          ELSE removeRule(l, gone[k])
<1>3. PICK step : step = [k \in 1..n |-> [l \in S |-> Round(l, k)]]
  BY Zenon
<1>4. ASSUME NEW k \in 1..n, NEW l \in S PROVE Round(l, k) \in S
  <2> PICK P : P = EqualTo(l, gone[k])
    OBVIOUS
  <2>2. CASE P = {}
    BY <2>2
  <2>3. CASE P # {}
    <3>1. Len(l) \in Nat /\ P \in SUBSET (1..Len(l))
      BY DEF EqualTo
    <3>2. Min(P) \in 1..Len(l)
      BY <2>3, <3>1, MinPosition, Zenon
    <3>3. RemoveAt(l, Min(P)) \in S
      BY <3>2, Erasure
    <3> QED BY <2>3, <3>3 DEF removeRule
  <2> QED BY <2>2, <2>3
<1> HIDE DEF Round
<1>5. step \in [1..n -> [S -> S]] /\ list \in S
  BY <1>3, <1>4
<1> PICK g \in [0..n -> S] : g[0] = list /\ \A k \in 1..n : g[k] = step[k][g[k - 1]]
  <2>1. RunsOf(S, n, list, step) # {}
    BY <1>5, LoopRuns, Zenon
  <2> QED BY <2>1, Zenon DEF RunsOf
<1>7. \A k \in 1..n : g[k - 1] \in S
  OBVIOUS
<1>8. \A k \in 1..n : g[k] = Round(g[k - 1], k)
  BY <1>3, <1>7, Zenon
<1> PICK h : h = [k \in 0 .. n |-> IF k = 0 THEN list ELSE Round(g[k - 1], k)]
  BY Zenon
<1>10. ASSUME NEW k \in 0..n PROVE h[k] = g[k]
  <2>1. h[k] = IF k = 0 THEN list ELSE Round(g[k - 1], k)
    OBVIOUS
  <2>2. CASE k = 0
    BY <2>1, <2>2
  <2>3. CASE k # 0
    <3>1. k \in 1..n
      BY <2>3
    <3> QED BY <1>8, <2>1, <2>3, <3>1, Zenon
  <2> QED BY <2>2, <2>3
<1>11. h = g
  BY <1>10, Zenon
<1>12. g = [k \in 0 .. n |-> IF k = 0 THEN list ELSE Round(g[k - 1], k)]
  BY <1>11
<1>13. PICK f : /\ removeRules(list, gone) = f[n]
                /\ f = [k \in 0 .. n |-> IF k = 0 THEN list ELSE Round(f[k - 1], k)]
  <2> USE DEF Round
  <2>1. \E f : f = [k \in 0 .. n |-> IF k = 0 THEN list ELSE Round(f[k - 1], k)]
    BY <1>12, Zenon
  <2> DEFINE F == CHOOSE f : f = [k \in 0 .. n |-> IF k = 0 THEN list ELSE Round(f[k - 1], k)]
  <2>2. F = [k \in 0 .. n |-> IF k = 0 THEN list ELSE Round(F[k - 1], k)]
    BY <2>1, Zenon
  <2>3. removeRules(list, gone) = F[n]
    BY <1>1, Zenon DEF removeRules
  <2> QED BY <2>2, <2>3, Zenon
<1>14. \A k \in 0..n : f[k] = IF k = 0 THEN list ELSE Round(f[k - 1], k)
  BY <1>13, Zenon
<1>15. f[0] = list
  BY <1>14
<1>16. \A k \in 1..n : k \in 0..n /\ k # 0
  OBVIOUS
<1>17. \A k \in 1..n : f[k] = Round(f[k - 1], k)
  BY <1>14, <1>16, Zenon
<1> QED BY <1>1, <1>13, <1>15, <1>17, Zenon DEF Round, RemovesRules

\* What removing rules makes of a list.
Shortens(t, list) ==
    Range(t) \subseteq Range(list) /\ (Identified(list) => Identified(t))

\* Removing equal rules: rules leave the list, none comes.
LEMMA RemovedRules ==
    ASSUME NEW T, NEW list \in Seq(T), NEW U, NEW gone \in Seq(U)
    PROVE  removeRules(list, gone) \in Seq(T) /\ Shortens(removeRules(list, gone), list)
<1> USE DEF Shortens
<1>1. PICK n \in Nat : n = Len(gone)
  OBVIOUS
<1>2. PICK f : removeRules(list, gone) = f[n] /\ RemovesRules(f, list, gone)
  BY <1>1, RemoveRulesLoop
<1> DEFINE G == {k \in 0..n : /\ f[k] \in Seq(T) /\ Range(f[k]) \subseteq Range(list)
                              /\ Identified(list) => Identified(f[k])}
<1>3. 0 \in G
  BY <1>2 DEF RemovesRules
<1>4. ASSUME NEW k \in 1..n, k - 1 \in G PROVE k \in G
  <2>1. PICK l \in Seq(T) : /\ l = f[k - 1] /\ Range(l) \subseteq Range(list)
                            /\ Identified(list) => Identified(l)
    BY <1>4
  <2>2. f[k] = IF EqualTo(l, gone[k]) = {} THEN l ELSE removeRule(l, gone[k])
    BY <1>1, <1>2, <2>1, Zenon DEF RemovesRules
  <2>3. CASE f[k] = l
    BY <2>1, <2>3
  <2>4. CASE f[k] # l
    <3>1. PICK P : P = EqualTo(l, gone[k])
      OBVIOUS
    <3>2. Len(l) \in Nat /\ P \in SUBSET (1..Len(l)) /\ P # {}
      BY <2>2, <2>4, <3>1 DEF EqualTo
    <3>3. PICK i \in 1..Len(l) : i = Min(P)
      BY <3>2, MinPosition, Zenon
    <3>4. f[k] = RemoveAt(l, i)
      BY <2>2, <2>4, <3>1, <3>3 DEF removeRule
    <3>5. /\ RemoveAt(l, i) \in Seq(T) /\ Range(RemoveAt(l, i)) \subseteq Range(l)
          /\ Identified(l) => Identified(RemoveAt(l, i))
      BY Erasure, ErasedSet, ErasedIdentified DEF ErasesID
    <3> QED BY <2>1, <3>4, <3>5
  <2> QED BY <2>3, <2>4
<1> HIDE DEF G
<1>5. n \in G
  <2>1. n \in 0..n
    OBVIOUS
  <2> QED BY <1>3, <1>4, <2>1, LoopInduction, Zenon
<1> QED BY <1>2, <1>5, Zenon DEF G

Joins(u, s, t) ==
    /\ Range(u) = Range(s) \cup Range(t) /\ Ids(u) = Ids(s) \cup Ids(t)
    /\ Identified(s) /\ Identified(t) /\ Ids(s) \cap Ids(t) = {} => Identified(u)

\* Two lists, one after the other.
LEMMA Joined ==
    ASSUME NEW T, NEW s \in Seq(T), NEW t \in Seq(T)
    PROVE  s \o t \in Seq(T) /\ Joins(s \o t, s, t)
<1> USE DEF Joins
<1>1. PICK m \in Nat, n \in Nat : m = Len(s) /\ n = Len(t)
  OBVIOUS
<1>2. PICK u : u = s \o t
  BY Zenon
<1>3. u \in Seq(T) /\ Len(u) = m + n
  BY <1>1, <1>2
<1>4. DOMAIN s = 1..m /\ DOMAIN t = 1..n /\ DOMAIN u = 1..(m + n)
  BY <1>1, <1>3
<1>5. \A i \in 1..(m + n) : i \in 1..m \/ \E j \in 1..n : i = m + j
  <2>1. SUFFICES ASSUME NEW i \in 1..(m + n), i \notin 1..m PROVE \E j \in 1..n : i = m + j
    OBVIOUS
  <2>2. i - m \in 1..n /\ i = m + (i - m)
    BY <2>1
  <2> QED BY <2>2
<1>6. /\ \A i \in 1..m : i \in 1..(m + n) /\ u[i] = s[i]
      /\ \A j \in 1..n : m + j \in 1..(m + n) /\ u[m + j] = t[j]
  BY <1>1, <1>2
<1>7. Range(u) = Range(s) \cup Range(t)
  <2>1. ASSUME NEW x \in Range(u) PROVE x \in Range(s) \cup Range(t)
    <3>1. PICK i \in 1..(m + n) : x = u[i]
      BY <1>4, Zenon DEF Range
    <3>2. CASE i \in 1..m
      BY <1>4, <1>6, <3>1, <3>2, Zenon DEF Range
    <3>3. ASSUME NEW j \in 1..n, i = m + j PROVE x \in Range(t)
      BY <1>4, <1>6, <3>1, <3>3, Zenon DEF Range
    <3> QED BY <1>5, <3>2, <3>3, Zenon
  <2>2. ASSUME NEW x \in Range(s) PROVE x \in Range(u)
    BY <1>4, <1>6, Zenon DEF Range
  <2>3. ASSUME NEW x \in Range(t) PROVE x \in Range(u)
    BY <1>4, <1>6, Zenon DEF Range
  <2> QED BY <2>1, <2>2, <2>3, Zenon
<1>8. Ids(u) = Ids(s) \cup Ids(t)
  BY <1>7, Zenon DEF Ids
<1>9. ASSUME Identified(s), Identified(t), Ids(s) \cap Ids(t) = {} PROVE Identified(u)
  <2>1. \A i \in 1..m : s[i].id \in Ids(s)
    BY <1>4, Zenon DEF Ids, Range
  <2>2. \A j \in 1..n : t[j].id \in Ids(t)
    BY <1>4, Zenon DEF Ids, Range
  <2>3. SUFFICES ASSUME NEW i \in 1..(m + n), NEW j \in 1..(m + n), u[i].id = u[j].id
                 PROVE  i = j
    BY <1>3, Zenon DEF Identified
  <2>4. CASE i \in 1..m /\ j \in 1..m
    BY <1>1, <1>6, <1>9, <2>3, <2>4, Zenon DEF Identified
  <2>5. ASSUME NEW a \in 1..n, NEW b \in 1..n, i = m + a, j = m + b PROVE i = j
    BY <1>1, <1>6, <1>9, <2>3, <2>5, Zenon DEF Identified
  <2>6. ASSUME i \in 1..m, NEW b \in 1..n, j = m + b PROVE FALSE
    BY <1>6, <1>9, <2>1, <2>2, <2>3, <2>6, Zenon
  <2>7. ASSUME j \in 1..m, NEW a \in 1..n, i = m + a PROVE FALSE
    BY <1>6, <1>9, <2>1, <2>2, <2>3, <2>7, Zenon
  <2> QED BY <1>5, <2>4, <2>5, <2>6, <2>7, Zenon
<1> QED BY <1>2, <1>3, <1>7, <1>8, <1>9, Zenon

\* "list" has a rule for every rule of "rs" that ss translates, and no other.
Translation(list, ss, rs) ==
    /\ \A q \in Range(list) : \E i \in 1..Len(rs) : ss[i] = <<q>>
    /\ \A i \in 1..Len(rs) : \A q : ss[i] = <<q>> => q \in Range(list)
    /\ Ids(list) \subseteq Ids(rs)
    /\ Identified(rs) => Identified(list)

\* Every rule is translated to at most one, with its identifier.
Translates(ss, rs) ==
    /\ Len(ss) = Len(rs)
    /\ \A i \in 1..Len(rs) : Len(ss[i]) =< 1 /\ \A q : ss[i] = <<q>> => q.id = rs[i].id

\* A list made from the rules of another list, with at most one rule for a rule and
\* with its identifier.
LEMMA Translated ==
    ASSUME NEW R, NEW rs \in Seq(R), NEW T, NEW ss \in Seq(Seq(T)), Translates(ss, rs)
    PROVE  FlattenSeq(ss) \in Seq(T) /\ Translation(FlattenSeq(ss), ss, rs)
<1> USE DEF Translates
<1>0. PICK F : F = FlattenSeq(ss)
  OBVIOUS
<1>1. PICK n \in Nat : F = FlattenSeq(ss) /\ n = Len(rs)
  BY <1>0
<1>2. F \in Seq(T) /\ \E o : Sieves(o, F, ss, n)
  BY <1>1, Sieved
<1>3. PICK o : Sieves(o, F, ss, n)
  BY <1>2
<1>4. PICK m \in Nat : m = Len(F) /\ DOMAIN F = 1..m /\ DOMAIN rs = 1..n
  BY <1>1, <1>2
<1>5. /\ o \in [1..m -> 1..n]
      /\ \A k \in 1..m : Len(ss[o[k]]) = 1 /\ F[k] = ss[o[k]][1]
      /\ \A k, l \in 1..m : o[k] = o[l] => k = l
      /\ \A i \in 1..n : Len(ss[i]) = 1 => \E k \in 1..m : o[k] = i
  BY <1>3, <1>4, Zenon DEF Sieves
<1>6. ASSUME NEW t \in Seq(T), Len(t) = 1 PROVE t = <<t[1]>>
  BY <1>6
<1>7. ASSUME NEW k \in 1..m PROVE o[k] \in 1..n /\ ss[o[k]] = <<F[k]>> /\ F[k].id = rs[o[k]].id
  <2>1. o[k] \in 1..n /\ Len(ss[o[k]]) = 1 /\ F[k] = ss[o[k]][1]
    BY <1>5
  <2>2. ss[o[k]] \in Seq(T)
    BY <1>1, <2>1
  <2>3. ss[o[k]] = <<F[k]>>
    BY <1>6, <2>1, <2>2, Zenon
  <2> QED BY <1>1, <2>1, <2>3, Zenon
<1>8. ASSUME NEW q \in Range(F) PROVE \E i \in 1..n : ss[i] = <<q>>
  <2>1. PICK k \in 1..m : q = F[k]
    BY <1>4, Zenon DEF Range
  <2>2. o[k] \in 1..n /\ ss[o[k]] = <<F[k]>>
    BY <1>7, Zenon
  <2> QED BY <2>1, <2>2, Zenon
<1>9. ASSUME NEW i \in 1..n, NEW q, ss[i] = <<q>> PROVE q \in Range(F)
  <2>1. Len(<<q>>) = 1 /\ <<q>>[1] = q
    OBVIOUS
  <2>2. PICK k \in 1..m : o[k] = i
    BY <1>5, <1>9, <2>1, Zenon
  <2>3. F[k] = ss[o[k]][1]
    BY <1>5, Zenon
  <2>4. F[k] = q
    BY <1>9, <2>1, <2>2, <2>3, Zenon
  <2> QED BY <1>4, <2>4, Zenon DEF Range
<1>10. Ids(F) \subseteq Ids(rs)
  <2>1. ASSUME NEW k \in 1..m PROVE F[k].id \in Ids(rs)
    <3>1. o[k] \in 1..n /\ F[k].id = rs[o[k]].id
      BY <1>7
    <3>2. rs[o[k]] \in Range(rs)
      BY <1>4, <3>1, Zenon DEF Range
    <3> QED BY <3>1, <3>2, Zenon DEF Ids
  <2>2. \A q \in Range(F) : \E k \in 1..m : q = F[k]
    BY <1>4, Zenon DEF Range
  <2>3. \A q \in Range(F) : q.id \in Ids(rs)
    BY <2>1, <2>2, Zenon
  <2> QED BY <2>3, Zenon DEF Ids
<1>11. ASSUME Identified(rs) PROVE Identified(F)
  <2>1. SUFFICES ASSUME NEW k \in 1..m, NEW l \in 1..m, F[k].id = F[l].id PROVE k = l
    BY <1>4, Zenon DEF Identified
  <2>2. o[k] \in 1..n /\ o[l] \in 1..n /\ rs[o[k]].id = rs[o[l]].id
    BY <1>7, <2>1
  <2>3. o[k] = o[l]
    BY <1>1, <1>11, <2>2, Zenon DEF Identified
  <2> QED BY <1>5, <2>3, Zenon
<1>12. Translation(F, ss, rs)
  BY <1>1, <1>8, <1>9, <1>10, <1>11, Zenon DEF Translation
<1> QED BY <1>1, <1>2, <1>12, Zenon

\* The rules of other whose identifiers rs does not have.
Differs(d, rs, other) ==
    /\ \A q : q \in Range(d) <=> q \in Range(other) /\ q.id \notin Ids(rs)
    /\ Identified(other) => Identified(d)

\* The rules of a list that another list does not have.
LEMMA Differing ==
    ASSUME NEW T, NEW other \in Seq(T), NEW rs
    PROVE  calculateDiffRules(rs, other) \in Seq(T) /\ Differs(calculateDiffRules(rs, other), rs, other)
<1> USE DEF Differs
<1> PICK n \in Nat : n = Len(other) /\ DOMAIN other = 1..n
  OBVIOUS
<1> PICK ss : ss = [i \in 1..n |-> IF other[i].id \in Ids(rs) THEN <<>> ELSE <<other[i]>>]
  BY Zenon
<1>3. calculateDiffRules(rs, other) = FlattenSeq(ss)
  BY Zenon DEF calculateDiffRules
<1>4. ASSUME NEW i \in 1..n
      PROVE  /\ ss[i] \in Seq(T) /\ Len(ss[i]) =< 1
             /\ \A q : ss[i] = <<q>> <=> q = other[i] /\ q.id \notin Ids(rs)
  <2>1. other[i] \in T
    OBVIOUS
  <2> PICK x : x = other[i]
    OBVIOUS
  <2>3. CASE x.id \in Ids(rs)
    <3>1. ss[i] = <<>>
      BY <2>3, Zenon
    <3> QED BY <2>3, <3>1
  <2>4. CASE x.id \notin Ids(rs)
    <3>1. ss[i] = <<x>>
      BY <2>4, Zenon
    <3> QED BY <2>1, <2>4, <3>1
  <2> QED BY <2>3, <2>4, Zenon
<1>5. ss \in Seq(Seq(T)) /\ Len(ss) = n
  BY <1>4
<1>6. \A i \in 1..n : Len(ss[i]) =< 1 /\ \A q : ss[i] = <<q>> => q.id = other[i].id
  BY <1>4
<1> FlattenSeq(ss) \in Seq(T) /\ Translation(FlattenSeq(ss), ss, other)
  BY <1>5, <1>6, Translated, Zenon DEF Translates
<1>8. \A q : q \in Range(other) <=> \E i \in 1..n : q = other[i]
  BY Zenon DEF Range
<1>9. ASSUME NEW q
      PROVE  q \in Range(FlattenSeq(ss)) <=> q \in Range(other) /\ q.id \notin Ids(rs)
  <2>1. ASSUME q \in Range(FlattenSeq(ss)) PROVE q \in Range(other) /\ q.id \notin Ids(rs)
    <3>1. PICK i \in 1..n : ss[i] = <<q>>
      BY <2>1, Zenon DEF Translation
    <3> QED BY <1>4, <1>8, <3>1, Zenon
  <2>2. ASSUME q \in Range(other), q.id \notin Ids(rs) PROVE q \in Range(FlattenSeq(ss))
    <3>1. PICK i \in 1..n : q = other[i]
      BY <1>8, <2>2, Zenon
    <3>2. ss[i] = <<q>>
      BY <1>4, <2>2, <3>1
    <3> QED BY <3>2, Zenon DEF Translation
  <2> QED BY <2>1, <2>2, Zenon
<1> QED BY <1>3, <1>9, Zenon DEF Translation

-----------------------------------------------------------------------------
\* The translator

\* What a rule becomes on LSI-0, by the kinds of its ends.
LoweredByKind(h, l) ==
    /\ h.from \in Above /\ h.to \in Above => lowerToLSI0(h, l) = <<>>
    /\ h.from \in PhyPorts /\ h.to \in Internals => lowerToLSI0(h, l) = <<>>
    /\ h.from \in PhyPorts /\ h.to \in PhyPorts =>
         lowerToLSI0(h, l) = <<low(h.id, h.from, h.cls, h.to, h.tag)>>
    /\ h.from \in Below /\ h.to \in Above =>
         lowerToLSI0(h, l) = <<low(h.id, h.from, h.cls, l.up[h.to], h.tag)>>
    /\ h.from \in Above /\ h.to \in Internals =>
         lowerToLSI0(h, l) = <<low(h.id, l.down[h.to], AnyClass, h.to, FALSE)>>
    /\ h.from \in NFs /\ h.to \in PhyPorts =>
         lowerToLSI0(h, l) = <<low(h.id, l.down[h.to], AnyClass, h.to, FALSE)>>
    /\ h.from \in Gres /\ h.to \in PhyPorts =>
         lowerToLSI0(h, l) = <<low(h.id, InputFor(h.to, l), ClassFor(h, l), h.to, h.tag)>>

\* What a rule between two nodes is lowered to on LSI-0.
LEMMA LSI0Kinds ==
    ASSUME NEW h, NEW l, h.from \in Nodes, h.to \in Nodes
    PROVE  LoweredByKind(h, l)
<1> USE DEF LoweredByKind
<1> USE KindsAreApart DEF Nodes, Below, Above
<1>1. h.from \in Above /\ h.to \in Above => lowerToLSI0(h, l) = <<>>
  BY DEF lowerToLSI0
<1>2. h.from \in PhyPorts => lowerToLSI0(h, l) = PortToLSI0(h, l)
  BY DEF lowerToLSI0
<1>3. h.from \in Internals => lowerToLSI0(h, l) = InternalToLSI0(h, l)
  BY DEF lowerToLSI0
<1>4. h.from \in Above /\ h.to \in Internals => lowerToLSI0(h, l) = EndpointToLSI0(h, l)
  BY DEF lowerToLSI0
<1>5. h.from \in NFs /\ h.to \in PhyPorts => lowerToLSI0(h, l) = NFToLSI0(h, l)
  BY DEF lowerToLSI0
<1>6. h.from \in Gres /\ h.to \in PhyPorts => lowerToLSI0(h, l) = GreToLSI0(h, l)
  BY DEF lowerToLSI0
<1>7. h.to \in PhyPorts => PortToLSI0(h, l) = <<low(h.id, h.from, h.cls, h.to, h.tag)>>
  BY DEF PortToLSI0
<1>8. h.to \in Above => PortToLSI0(h, l) = <<low(h.id, h.from, h.cls, l.up[h.to], h.tag)>>
  BY DEF PortToLSI0
<1>9. h.to \in Internals => PortToLSI0(h, l) = <<>>
  BY DEF PortToLSI0
<1>10. h.from \in Below => h.from \in PhyPorts \/ h.from \in Internals
  OBVIOUS
<1> QED BY <1>1, <1>2, <1>3, <1>4, <1>5, <1>6, <1>7, <1>8, <1>9, <1>10, Zenon
        DEF InternalToLSI0, EndpointToLSI0, NFToLSI0, GreToLSI0

\* What a rule becomes on the tenant LSI, by the kinds of its ends.
TenantByKind(h, l) ==
    /\ h.from \in Below /\ h.to \in Below => lowerToTenant(h, l) = <<>>
    /\ h.from \in Below /\ h.to \in Above =>
         lowerToTenant(h, l) =
           <<low(h.id, l.up[h.to], AnyClass, TenantPort(h.to, l), FALSE)>>
    /\ h.from \in Gres /\ h.to \in NFs =>
         lowerToTenant(h, l) = <<low(h.id, TenantPort(h.from, l), h.cls, h.to, h.tag)>>
    /\ h.from \in Gres /\ h.to \in Below =>
         lowerToTenant(h, l) =
           <<low(h.id, TenantPort(h.from, l), h.cls, l.down[h.to], h.tag)>>
    /\ h.from \in NFs /\ h.to \in Above =>
         lowerToTenant(h, l) = <<low(h.id, h.from, h.cls, TenantPort(h.to, l), h.tag)>>
    /\ h.from \in NFs /\ h.to \in Below =>
         lowerToTenant(h, l) = <<low(h.id, h.from, h.cls, l.down[h.to], h.tag)>>

\* And on the tenant LSI.
LEMMA TenantKinds ==
    ASSUME NEW h, NEW l, h.from \in Nodes, h.to \in Nodes
    PROVE  TenantByKind(h, l)
<1> USE DEF TenantByKind
<1> USE KindsAreApart DEF Nodes, Below, Above
<1>1. h.from \in Below /\ h.to \in Below => lowerToTenant(h, l) = <<>>
  BY DEF lowerToTenant
<1>2. h.from \in Below /\ h.to \in Above => lowerToTenant(h, l) = BelowToTenant(h, l)
  BY DEF lowerToTenant
<1>3. h.from \in Gres => lowerToTenant(h, l) = GreToTenant(h, l)
  BY DEF lowerToTenant
<1>4. h.from \in NFs => lowerToTenant(h, l) = NFToTenant(h, l)
  BY DEF lowerToTenant
<1>5. h.to \in NFs =>
        GreToTenant(h, l) = <<low(h.id, TenantPort(h.from, l), h.cls, h.to, h.tag)>>
  BY DEF GreToTenant
<1>6. h.to \in Below =>
        GreToTenant(h, l) = <<low(h.id, TenantPort(h.from, l), h.cls, l.down[h.to], h.tag)>>
  BY DEF GreToTenant
<1>7. h.to \in Above =>
        NFToTenant(h, l) = <<low(h.id, h.from, h.cls, TenantPort(h.to, l), h.tag)>>
  BY DEF NFToTenant
<1>8. h.to \in Below => NFToTenant(h, l) = <<low(h.id, h.from, h.cls, l.down[h.to], h.tag)>>
  BY DEF NFToTenant
<1> QED BY <1>1, <1>2, <1>3, <1>4, <1>5, <1>6, <1>7, <1>8, Zenon DEF BelowToTenant

\* The nodes and links of an LSI.
TypedLinks(l) ==
    /\ \A n \in DOMAIN l.up : l.up[n] \in VLinks /\ n \in Above
    /\ \A n \in DOMAIN l.down : l.down[n] \in VLinks /\ n \in Below
    /\ l.links \subseteq VLinks /\ l.present \subseteq Above

\* The tenant LSI a lowering sees: links for nodes, in each direction.
LEMMA LinkTyped ==
    ASSUME NEW l \in LSIs
    PROVE  TypedLinks(l)
<1> USE DEF TypedLinks
<1> l.up \in Assoc(Above) /\ l.down \in Assoc(Below) /\ l.links \subseteq VLinks
      /\ l.present \subseteq Above
  BY DEF LSIs
<1>2. PICK D \in SUBSET Above : l.up \in [D -> VLinks]
  BY DEF Assoc
<1>3. PICK E \in SUBSET Below : l.down \in [E -> VLinks]
  BY DEF Assoc
<1> QED BY <1>2, <1>3

TypedLow(q, ID) ==
    <<q>> \in Seq(LowRules) /\ Len(<<q>>) = 1 /\ q.id = ID

LEMMA LowTyped ==
    ASSUME NEW h \in AllRules, NEW in \in Nodes \cup VLinks \cup {NoPort},
           NEW cls \in {h.cls, AnyClass}, NEW out \in Nodes \cup VLinks \cup {NoPort},
           NEW tag \in BOOLEAN
    PROVE  TypedLow(low(h.id, in, cls, out, tag), h.id)
<1>1. h.id \in {r.id : r \in AllRules}
  OBVIOUS
<1>2. cls \in {r.cls : r \in AllRules} \cup {AnyClass}
  OBVIOUS
<1>3. PICK q : q = low(h.id, in, cls, out, tag)
  OBVIOUS
<1>4. q \in LowRules /\ q.id = h.id
  BY <1>1, <1>2, <1>3 DEF low, LowRules
<1> QED BY <1>3, <1>4 DEF TypedLow

LEMMA OneRule ==
    ASSUME NEW x, NEW y, <<x>> = <<y>>
    PROVE  x = y
OBVIOUS

\* A rule is lowered to at most one, with its identifier.
LowersOne(s, h) ==
    s \in Seq(LowRules) /\ Len(s) =< 1 /\ \A q : s = <<q>> => q.id = h.id

\* A rule gives at most one rule of LSI-0, with its identifier.
LEMMA LowersLSI0 ==
    ASSUME NEW h \in AllRules, NEW l \in LSIs, AssertsLSI0(h, l)
    PROVE  LowersOne(lowerToLSI0(h, l), h)
<1> USE DEF LowersOne
<1> DEFINE Fine(t) == t \in Seq(LowRules) /\ Len(t) =< 1 /\ \A q : t = <<q>> => q.id = h.id
<1> SUFFICES Fine(lowerToLSI0(h, l))
  OBVIOUS
<1>1. h.from \in Nodes /\ h.to \in Nodes /\ h.tag \in BOOLEAN
  BY RequestsAreGraphs
<1>2. Fine(<<>>)
  OBVIOUS
<1>3. ASSUME NEW in \in Nodes \cup VLinks \cup {NoPort}, NEW cls \in {h.cls, AnyClass},
             NEW out \in Nodes \cup VLinks \cup {NoPort}, NEW tag \in BOOLEAN
      PROVE  Fine(<<low(h.id, in, cls, out, tag)>>)
  <2>1. PICK x : x = low(h.id, in, cls, out, tag)
    OBVIOUS
  <2>2. TypedLow(x, h.id)
    BY <2>1, LowTyped, Zenon
  <2>3. <<x>> \in Seq(LowRules) /\ Len(<<x>>) = 1 /\ x.id = h.id
    BY <2>2, Zenon DEF TypedLow
  <2>4. \A q : <<x>> = <<q>> => q.id = h.id
    BY <2>3, OneRule, Zenon
  <2> QED BY <2>1, <2>3, <2>4
<1> HIDE DEF Fine
<1>4. /\ h.from \in Below /\ h.to \in Above => l.up[h.to] \in VLinks
      /\ h.from \in Above /\ h.to \in Below =>
           \/ h.to \in DOMAIN l.down /\ l.down[h.to] \in VLinks
           \/ h.from \in Gres /\ h.to \in PhyPorts /\ h.to \notin DOMAIN l.down
      /\ ~(h.from \in Internals /\ h.to \in Below)
  BY LinkTyped DEF AssertsLSI0, HasLink, TypedLinks
<1>5. CASE h.from \in Above /\ h.to \in Above
  <2>8. lowerToLSI0(h, l) = <<>>
    BY <1>1, <1>5, LSI0Kinds, Zenon DEF LoweredByKind
  <2>9. Fine(<<>>)
    BY <1>2
  <2> QED BY <2>8, <2>9, Zenon
<1>6. CASE h.from \in PhyPorts /\ h.to \in Internals
  <2>8. lowerToLSI0(h, l) = <<>>
    BY <1>1, <1>6, LSI0Kinds, Zenon DEF LoweredByKind
  <2>9. Fine(<<>>)
    BY <1>2
  <2> QED BY <2>8, <2>9, Zenon
<1>7. CASE h.from \in PhyPorts /\ h.to \in PhyPorts
  <2>8. lowerToLSI0(h, l) = <<low(h.id, h.from, h.cls, h.to, h.tag)>>
    BY <1>1, <1>7, LSI0Kinds, Zenon DEF LoweredByKind
  <2>9. Fine(<<low(h.id, h.from, h.cls, h.to, h.tag)>>)
    BY <1>1, <1>3
  <2> QED BY <2>8, <2>9, Zenon
<1>8. CASE h.from \in Below /\ h.to \in Above
  <2>8. lowerToLSI0(h, l) = <<low(h.id, h.from, h.cls, l.up[h.to], h.tag)>>
    BY <1>1, <1>8, LSI0Kinds, Zenon DEF LoweredByKind
  <2>9. Fine(<<low(h.id, h.from, h.cls, l.up[h.to], h.tag)>>)
    BY <1>1, <1>3, <1>4, <1>8
  <2> QED BY <2>8, <2>9, Zenon
<1>9. CASE h.from \in Above /\ h.to \in Internals
  <2>1. l.down[h.to] \in VLinks
    BY <1>4, <1>9, KindsAreApart DEF Below
  <2>8. lowerToLSI0(h, l) = <<low(h.id, l.down[h.to], AnyClass, h.to, FALSE)>>
    BY <1>1, <1>9, LSI0Kinds, Zenon DEF LoweredByKind
  <2>9. Fine(<<low(h.id, l.down[h.to], AnyClass, h.to, FALSE)>>)
    BY <1>1, <1>3, <2>1, Zenon
  <2> QED BY <2>8, <2>9, Zenon
<1>10. CASE h.from \in NFs /\ h.to \in PhyPorts
  <2>1. l.down[h.to] \in VLinks
    BY <1>4, <1>10, KindsAreApart DEF Below, Above
  <2>8. lowerToLSI0(h, l) = <<low(h.id, l.down[h.to], AnyClass, h.to, FALSE)>>
    BY <1>1, <1>10, LSI0Kinds, Zenon DEF LoweredByKind
  <2>9. Fine(<<low(h.id, l.down[h.to], AnyClass, h.to, FALSE)>>)
    BY <1>1, <1>3, <2>1, Zenon
  <2> QED BY <2>8, <2>9, Zenon
<1>11. CASE h.from \in Gres /\ h.to \in PhyPorts
  <2>1. InputFor(h.to, l) \in VLinks \cup {NoPort} /\ ClassFor(h, l) \in {h.cls, AnyClass}
    BY LinkTyped DEF InputFor, ClassFor, TypedLinks
  <2>8. lowerToLSI0(h, l) = <<low(h.id, InputFor(h.to, l), ClassFor(h, l), h.to, h.tag)>>
    BY <1>1, <1>11, LSI0Kinds, Zenon DEF LoweredByKind
  <2>9. Fine(<<low(h.id, InputFor(h.to, l), ClassFor(h, l), h.to, h.tag)>>)
    BY <1>1, <1>3, <2>1
  <2> QED BY <2>8, <2>9, Zenon
<1> QED
  <2>1. /\ h.from \in PhyPorts \/ h.from \in Internals \/ h.from \in NFs \/ h.from \in Gres
        /\ h.to \in PhyPorts \/ h.to \in Internals \/ h.to \in NFs \/ h.to \in Gres
    BY <1>1 DEF Nodes, Below, Above
  <2>2. /\ \A n : n \in Above <=> n \in NFs \/ n \in Gres
        /\ \A n : n \in Below <=> n \in PhyPorts \/ n \in Internals
    BY DEF Below, Above
  <2> QED BY <1>4, <1>5, <1>6, <1>7, <1>8, <1>9, <1>10, <1>11, <2>1, <2>2, Zenon

\* And at most one of the tenant LSI.
LEMMA LowersTenant ==
    ASSUME NEW h \in AllRules, NEW l \in LSIs, Linked(h, l)
    PROVE  LowersOne(lowerToTenant(h, l), h)
<1> USE DEF LowersOne
<1> DEFINE Fine(t) == t \in Seq(LowRules) /\ Len(t) =< 1 /\ \A q : t = <<q>> => q.id = h.id
<1> SUFFICES Fine(lowerToTenant(h, l))
  OBVIOUS
<1>1. h.from \in Nodes /\ h.to \in Nodes /\ h.tag \in BOOLEAN
  BY RequestsAreGraphs
<1>2. Fine(<<>>)
  OBVIOUS
<1>3. ASSUME NEW in \in Nodes \cup VLinks \cup {NoPort}, NEW cls \in {h.cls, AnyClass},
             NEW out \in Nodes \cup VLinks \cup {NoPort}, NEW tag \in BOOLEAN
      PROVE  Fine(<<low(h.id, in, cls, out, tag)>>)
  <2>1. PICK x : x = low(h.id, in, cls, out, tag)
    OBVIOUS
  <2>2. TypedLow(x, h.id)
    BY <2>1, LowTyped, Zenon
  <2>3. <<x>> \in Seq(LowRules) /\ Len(<<x>>) = 1 /\ x.id = h.id
    BY <2>2, Zenon DEF TypedLow
  <2>4. \A q : <<x>> = <<q>> => q.id = h.id
    BY <2>3, OneRule, Zenon
  <2> QED BY <2>1, <2>3, <2>4
<1> HIDE DEF Fine
<1>4. /\ h.from \in Below /\ h.to \in Above => l.up[h.to] \in VLinks
      /\ h.from \in Above /\ h.to \in Below => l.down[h.to] \in VLinks
      /\ ~(h.from \in Gres /\ h.to \in Gres)
  BY LinkTyped, Zenon DEF Linked, TypedLinks
<1>5. TenantPort(h.from, l) \in Nodes \cup {NoPort} /\ TenantPort(h.to, l) \in Nodes \cup {NoPort}
  BY <1>1 DEF TenantPort
<1>6. CASE h.from \in Below /\ h.to \in Below
  <2>8. lowerToTenant(h, l) = <<>>
    BY <1>1, <1>6, TenantKinds, Zenon DEF TenantByKind
  <2>9. Fine(<<>>)
    BY <1>2
  <2> QED BY <2>8, <2>9, Zenon
<1>7. CASE h.from \in Below /\ h.to \in Above
  <2>8. lowerToTenant(h, l) = <<low(h.id, l.up[h.to], AnyClass, TenantPort(h.to, l), FALSE)>>
    BY <1>1, <1>7, TenantKinds, Zenon DEF TenantByKind
  <2>9. Fine(<<low(h.id, l.up[h.to], AnyClass, TenantPort(h.to, l), FALSE)>>)
    BY <1>3, <1>4, <1>5, <1>7, Zenon
  <2> QED BY <2>8, <2>9, Zenon
<1>8. CASE h.from \in Gres /\ h.to \in NFs
  <2>8. lowerToTenant(h, l) = <<low(h.id, TenantPort(h.from, l), h.cls, h.to, h.tag)>>
    BY <1>1, <1>8, TenantKinds, Zenon DEF TenantByKind
  <2>9. Fine(<<low(h.id, TenantPort(h.from, l), h.cls, h.to, h.tag)>>)
    BY <1>1, <1>3, <1>5
  <2> QED BY <2>8, <2>9, Zenon
<1>9. CASE h.from \in Gres /\ h.to \in Below
  <2>1. l.down[h.to] \in VLinks
    BY <1>4, <1>9 DEF Above
  <2>8. lowerToTenant(h, l) = <<low(h.id, TenantPort(h.from, l), h.cls, l.down[h.to], h.tag)>>
    BY <1>1, <1>9, TenantKinds, Zenon DEF TenantByKind
  <2>9. Fine(<<low(h.id, TenantPort(h.from, l), h.cls, l.down[h.to], h.tag)>>)
    BY <1>1, <1>3, <1>5, <2>1
  <2> QED BY <2>8, <2>9, Zenon
<1>10. CASE h.from \in NFs /\ h.to \in Above
  <2>8. lowerToTenant(h, l) = <<low(h.id, h.from, h.cls, TenantPort(h.to, l), h.tag)>>
    BY <1>1, <1>10, TenantKinds, Zenon DEF TenantByKind
  <2>9. Fine(<<low(h.id, h.from, h.cls, TenantPort(h.to, l), h.tag)>>)
    BY <1>1, <1>3, <1>5
  <2> QED BY <2>8, <2>9, Zenon
<1>11. CASE h.from \in NFs /\ h.to \in Below
  <2>1. l.down[h.to] \in VLinks
    BY <1>4, <1>11 DEF Above
  <2>8. lowerToTenant(h, l) = <<low(h.id, h.from, h.cls, l.down[h.to], h.tag)>>
    BY <1>1, <1>11, TenantKinds, Zenon DEF TenantByKind
  <2>9. Fine(<<low(h.id, h.from, h.cls, l.down[h.to], h.tag)>>)
    BY <1>1, <1>3, <2>1
  <2> QED BY <2>8, <2>9, Zenon
<1> QED
  <2>1. /\ h.from \in Below \/ h.from \in NFs \/ h.from \in Gres
        /\ h.to \in Below \/ h.to \in NFs \/ h.to \in Gres
    BY <1>1 DEF Nodes, Above
  <2>2. \A n : n \in Above <=> n \in NFs \/ n \in Gres
    BY DEF Above
  <2> QED BY <1>4, <1>6, <1>7, <1>8, <1>9, <1>10, <1>11, <2>1, <2>2, Zenon

\* "list" is what the rules of "rs" are lowered to on LSI-0, and on the tenant LSI.
LoweringLSI0(list, rs, l) ==
    /\ list \in Seq(LowRules)
    /\ \A q \in Range(list) : \E h \in Range(rs) : lowerToLSI0(h, l) = <<q>>
    /\ \A h \in Range(rs) : \A q : lowerToLSI0(h, l) = <<q>> => q \in Range(list)
    /\ Ids(list) \subseteq Ids(rs)
    /\ Identified(rs) => Identified(list)

LoweringTenant(list, rs, l) ==
    /\ list \in Seq(LowRules)
    /\ \A q \in Range(list) : \E h \in Range(rs) : lowerToTenant(h, l) = <<q>>
    /\ \A h \in Range(rs) : \A q : lowerToTenant(h, l) = <<q>> => q \in Range(list)
    /\ Ids(list) \subseteq Ids(rs)
    /\ Identified(rs) => Identified(list)

LEMMA GraphToLSI0 ==
    ASSUME NEW rs \in Seq(AllRules), NEW l \in LSIs, \A r \in Range(rs) : AssertsLSI0(r, l)
    PROVE  LoweringLSI0(lowerGraphToLSI0(rs, l), rs, l)
<1> PICK n \in Nat : n = Len(rs) /\ DOMAIN rs = 1..n /\ \A i \in 1..n : rs[i] \in AllRules
  OBVIOUS
<1> \A h : h \in Range(rs) <=> \E i \in 1..n : h = rs[i]
  BY Zenon DEF Range
<1> PICK ss : ss = [i \in 1..n |-> lowerToLSI0(rs[i], l)]
  BY Zenon
<1>4. lowerGraphToLSI0(rs, l) = FlattenSeq(ss)
  BY Zenon DEF lowerGraphToLSI0
<1>5. ASSUME NEW i \in 1..n
      PROVE  /\ ss[i] = lowerToLSI0(rs[i], l)
             /\ ss[i] \in Seq(LowRules) /\ Len(ss[i]) =< 1
             /\ \A q : ss[i] = <<q>> => q.id = rs[i].id
  <2>1. ss[i] = lowerToLSI0(rs[i], l)
    OBVIOUS
  <2>2. PICK h \in AllRules : h = rs[i] /\ AssertsLSI0(h, l)
    OBVIOUS
  <2>3. /\ lowerToLSI0(h, l) \in Seq(LowRules) /\ Len(lowerToLSI0(h, l)) =< 1
        /\ \A q : lowerToLSI0(h, l) = <<q>> => q.id = h.id
    BY <2>2, LowersLSI0 DEF LowersOne
  <2> QED BY <2>1, <2>2, <2>3, Zenon
<1>6. ss \in Seq(Seq(LowRules)) /\ Len(ss) = n
  BY <1>5
<1>7. \A i \in 1..n : Len(ss[i]) =< 1 /\ \A q : ss[i] = <<q>> => q.id = rs[i].id
  BY <1>5
<1> FlattenSeq(ss) \in Seq(LowRules) /\ Translation(FlattenSeq(ss), ss, rs)
  BY <1>6, <1>7, Translated, Zenon DEF Translates
<1>9. ASSUME NEW q \in Range(FlattenSeq(ss))
      PROVE  \E h \in Range(rs) : lowerToLSI0(h, l) = <<q>>
  <2>1. PICK i \in 1..n : ss[i] = <<q>>
    BY Zenon DEF Translation
  <2>2. ss[i] = lowerToLSI0(rs[i], l)
    BY <1>5
  <2> QED BY <2>1, <2>2, Zenon
<1>10. ASSUME NEW h \in Range(rs), NEW q, lowerToLSI0(h, l) = <<q>>
       PROVE  q \in Range(FlattenSeq(ss))
  <2>1. PICK i \in 1..n : h = rs[i]
    OBVIOUS
  <2>2. ss[i] = <<q>>
    BY <1>5, <1>10, <2>1
  <2> QED BY <2>2, Zenon DEF Translation
<1> QED BY <1>4, <1>9, <1>10, Zenon DEF LoweringLSI0, Translation

LEMMA GraphToTenant ==
    ASSUME NEW rs \in Seq(AllRules), NEW l \in LSIs, \A r \in Range(rs) : Linked(r, l)
    PROVE  LoweringTenant(lowerGraphToTenantLSI(rs, l), rs, l)
<1> PICK n \in Nat : n = Len(rs) /\ DOMAIN rs = 1..n /\ \A i \in 1..n : rs[i] \in AllRules
  OBVIOUS
<1> \A h : h \in Range(rs) <=> \E i \in 1..n : h = rs[i]
  BY Zenon DEF Range
<1> PICK ss : ss = [i \in 1..n |-> lowerToTenant(rs[i], l)]
  BY Zenon
<1>4. lowerGraphToTenantLSI(rs, l) = FlattenSeq(ss)
  BY Zenon DEF lowerGraphToTenantLSI
<1>5. ASSUME NEW i \in 1..n
      PROVE  /\ ss[i] = lowerToTenant(rs[i], l)
             /\ ss[i] \in Seq(LowRules) /\ Len(ss[i]) =< 1
             /\ \A q : ss[i] = <<q>> => q.id = rs[i].id
  <2>1. ss[i] = lowerToTenant(rs[i], l)
    OBVIOUS
  <2>2. PICK h \in AllRules : h = rs[i] /\ Linked(h, l)
    OBVIOUS
  <2>3. /\ lowerToTenant(h, l) \in Seq(LowRules) /\ Len(lowerToTenant(h, l)) =< 1
        /\ \A q : lowerToTenant(h, l) = <<q>> => q.id = h.id
    BY <2>2, LowersTenant DEF LowersOne
  <2> QED BY <2>1, <2>2, <2>3, Zenon
<1>6. ss \in Seq(Seq(LowRules)) /\ Len(ss) = n
  BY <1>5
<1>7. \A i \in 1..n : Len(ss[i]) =< 1 /\ \A q : ss[i] = <<q>> => q.id = rs[i].id
  BY <1>5
<1> FlattenSeq(ss) \in Seq(LowRules) /\ Translation(FlattenSeq(ss), ss, rs)
  BY <1>6, <1>7, Translated, Zenon DEF Translates
<1>9. ASSUME NEW q \in Range(FlattenSeq(ss))
      PROVE  \E h \in Range(rs) : lowerToTenant(h, l) = <<q>>
  <2>1. PICK i \in 1..n : ss[i] = <<q>>
    BY Zenon DEF Translation
  <2>2. ss[i] = lowerToTenant(rs[i], l)
    BY <1>5
  <2> QED BY <2>1, <2>2, Zenon
<1>10. ASSUME NEW h \in Range(rs), NEW q, lowerToTenant(h, l) = <<q>>
       PROVE  q \in Range(FlattenSeq(ss))
  <2>1. PICK i \in 1..n : h = rs[i]
    OBVIOUS
  <2>2. ss[i] = <<q>>
    BY <1>5, <1>10, <2>1
  <2> QED BY <2>2, Zenon DEF Translation
<1> QED BY <1>4, <1>9, <1>10, Zenon DEF LoweringTenant, Translation

\* The links of a rule are the same in two states of the tenant LSI.
SameLink(h, l, k) ==
    /\ Linked(h, k)
    /\ h.from \in Below /\ h.to \in Above => k.up[h.to] = l.up[h.to]
    /\ h.from \in Above /\ h.to \in Below => k.down[h.to] = l.down[h.to]

\* A rule is lowered to the same rules in two states of the tenant LSI.
LowersAlike(h, l, k) ==
    /\ lowerToLSI0(h, k) = lowerToLSI0(h, l)
    /\ \A p : lowerToTenant(h, [k EXCEPT !.present = p])
                = lowerToTenant(h, [l EXCEPT !.present = p])

\* Then it is lowered to the same rules.
LEMMA SameLowering ==
    ASSUME NEW h \in AllRules, NEW l \in LSIs, NEW k \in LSIs, Linked(h, l), SameLink(h, l, k)
    PROVE  LowersAlike(h, l, k)
<1> USE DEF LowersAlike
<1>1. h.from \in Nodes /\ h.to \in Nodes
  BY RequestsAreGraphs
<1>2. /\ h.from \in PhyPorts \/ h.from \in Internals \/ h.from \in NFs \/ h.from \in Gres
      /\ h.to \in PhyPorts \/ h.to \in Internals \/ h.to \in NFs \/ h.to \in Gres
  BY <1>1 DEF Nodes, Below, Above
<1>3. /\ \A n : n \in Above <=> n \in NFs \/ n \in Gres
      /\ \A n : n \in Below <=> n \in PhyPorts \/ n \in Internals
  BY DEF Below, Above
<1>4. /\ h.from \in Below /\ h.to \in Above => k.up[h.to] = l.up[h.to]
      /\ h.from \in Above /\ h.to \in Below =>
           k.down[h.to] = l.down[h.to] /\ h.to \in DOMAIN k.down /\ h.to \in DOMAIN l.down
      /\ ~(h.from \in Internals /\ h.to \in Below) /\ ~(h.from \in Gres /\ h.to \in Gres)
  BY Zenon DEF Linked, SameLink
<1>5. lowerToLSI0(h, k) = lowerToLSI0(h, l)
  <2>1. CASE h.from \in Above /\ h.to \in Above
    BY <1>1, <2>1, LSI0Kinds, Zenon DEF LoweredByKind
  <2>2. CASE h.from \in PhyPorts /\ h.to \in Internals
    BY <1>1, <2>2, LSI0Kinds, Zenon DEF LoweredByKind
  <2>3. CASE h.from \in PhyPorts /\ h.to \in PhyPorts
    BY <1>1, <2>3, LSI0Kinds, Zenon DEF LoweredByKind
  <2>4. CASE h.from \in Below /\ h.to \in Above
    <3>1. /\ lowerToLSI0(h, k) = <<low(h.id, h.from, h.cls, k.up[h.to], h.tag)>>
          /\ lowerToLSI0(h, l) = <<low(h.id, h.from, h.cls, l.up[h.to], h.tag)>>
      BY <1>1, <2>4, LSI0Kinds, Zenon DEF LoweredByKind
    <3> QED BY <1>4, <2>4, <3>1, Zenon
  <2>5. CASE h.from \in Above /\ h.to \in Internals
    <3>1. /\ lowerToLSI0(h, k) = <<low(h.id, k.down[h.to], AnyClass, h.to, FALSE)>>
          /\ lowerToLSI0(h, l) = <<low(h.id, l.down[h.to], AnyClass, h.to, FALSE)>>
      BY <1>1, <2>5, LSI0Kinds, Zenon DEF LoweredByKind
    <3> QED BY <1>3, <1>4, <2>5, <3>1, Zenon
  <2>6. CASE h.from \in NFs /\ h.to \in PhyPorts
    <3>1. /\ lowerToLSI0(h, k) = <<low(h.id, k.down[h.to], AnyClass, h.to, FALSE)>>
          /\ lowerToLSI0(h, l) = <<low(h.id, l.down[h.to], AnyClass, h.to, FALSE)>>
      BY <1>1, <2>6, LSI0Kinds, Zenon DEF LoweredByKind
    <3> QED BY <1>3, <1>4, <2>6, <3>1, Zenon
  <2>7. CASE h.from \in Gres /\ h.to \in PhyPorts
    <3>1. /\ lowerToLSI0(h, k) = <<low(h.id, InputFor(h.to, k), ClassFor(h, k), h.to, h.tag)>>
          /\ lowerToLSI0(h, l) = <<low(h.id, InputFor(h.to, l), ClassFor(h, l), h.to, h.tag)>>
      BY <1>1, <2>7, LSI0Kinds, Zenon DEF LoweredByKind
    <3>2. InputFor(h.to, k) = InputFor(h.to, l) /\ ClassFor(h, k) = ClassFor(h, l)
      BY <1>3, <1>4, <2>7, Zenon DEF InputFor, ClassFor
    <3> QED BY <3>1, <3>2, Zenon
  <2> QED BY <1>2, <1>3, <1>4, <2>1, <2>2, <2>3, <2>4, <2>5, <2>6, <2>7, Zenon
<1>6. ASSUME NEW p
      PROVE  lowerToTenant(h, [k EXCEPT !.present = p]) = lowerToTenant(h, [l EXCEPT !.present = p])
  <2>1. PICK a, b : a = [k EXCEPT !.present = p] /\ b = [l EXCEPT !.present = p]
    BY Zenon
  <2>2. a.up = k.up /\ b.up = l.up /\ a.down = k.down /\ b.down = l.down
        /\ a.present = p /\ b.present = p
    BY <2>1 DEF LSIs
  <2>3. \A n : TenantPort(n, a) = TenantPort(n, b)
    BY <2>2, Zenon DEF TenantPort
  <2>4. CASE h.from \in Below /\ h.to \in Below
    BY <1>1, <2>1, <2>4, TenantKinds, Zenon DEF TenantByKind
  <2>5. CASE h.from \in Below /\ h.to \in Above
    <3>1. /\ lowerToTenant(h, a) = <<low(h.id, a.up[h.to], AnyClass, TenantPort(h.to, a), FALSE)>>
          /\ lowerToTenant(h, b) = <<low(h.id, b.up[h.to], AnyClass, TenantPort(h.to, b), FALSE)>>
      BY <1>1, <2>5, TenantKinds, Zenon DEF TenantByKind
    <3> QED BY <1>4, <2>1, <2>2, <2>3, <2>5, <3>1, Zenon
  <2>6. CASE h.from \in Gres /\ h.to \in NFs
    <3>1. /\ lowerToTenant(h, a) = <<low(h.id, TenantPort(h.from, a), h.cls, h.to, h.tag)>>
          /\ lowerToTenant(h, b) = <<low(h.id, TenantPort(h.from, b), h.cls, h.to, h.tag)>>
      BY <1>1, <2>6, TenantKinds, Zenon DEF TenantByKind
    <3> QED BY <2>1, <2>3, <3>1
  <2>7. CASE h.from \in Gres /\ h.to \in Below
    <3>1. /\ lowerToTenant(h, a)
               = <<low(h.id, TenantPort(h.from, a), h.cls, a.down[h.to], h.tag)>>
          /\ lowerToTenant(h, b)
               = <<low(h.id, TenantPort(h.from, b), h.cls, b.down[h.to], h.tag)>>
      BY <1>1, <2>7, TenantKinds, Zenon DEF TenantByKind
    <3> QED BY <1>3, <1>4, <2>1, <2>2, <2>3, <2>7, <3>1
  <2>8. CASE h.from \in NFs /\ h.to \in Above
    <3>1. /\ lowerToTenant(h, a) = <<low(h.id, h.from, h.cls, TenantPort(h.to, a), h.tag)>>
          /\ lowerToTenant(h, b) = <<low(h.id, h.from, h.cls, TenantPort(h.to, b), h.tag)>>
      BY <1>1, <2>8, TenantKinds, Zenon DEF TenantByKind
    <3> QED BY <2>1, <2>3, <3>1
  <2>9. CASE h.from \in NFs /\ h.to \in Below
    <3>1. /\ lowerToTenant(h, a) = <<low(h.id, h.from, h.cls, a.down[h.to], h.tag)>>
          /\ lowerToTenant(h, b) = <<low(h.id, h.from, h.cls, b.down[h.to], h.tag)>>
      BY <1>1, <2>9, TenantKinds, Zenon DEF TenantByKind
    <3> QED BY <1>3, <1>4, <2>1, <2>2, <2>9, <3>1
  <2> QED BY <1>2, <1>3, <1>4, <2>4, <2>5, <2>6, <2>7, <2>8, <2>9, Zenon
<1> QED BY <1>5, <1>6, Zenon

\* What is justified in one state of the tenant LSI is in the other.
StaysJustified(rs, l, k) ==
    /\ \A list : Justified(list, rs, l) => Justified(list, rs, k)
    /\ \A list : JustifiedTenant(list, rs, l) => JustifiedTenant(list, rs, k)

\* So the rules of the switches stay justified.
LEMMA LinksKept ==
    ASSUME NEW rs \in Seq(AllRules), NEW l \in LSIs, NEW k \in LSIs,
           \A h \in Range(rs) : Linked(h, l) => SameLink(h, l, k)
    PROVE  StaysJustified(rs, l, k)
<1> USE DEF StaysJustified
<1>1. \A h \in Range(rs) : h \in AllRules
  BY DEF Range
<1>2. \A h \in Range(rs) : Linked(h, l) => Linked(h, k) /\ lowerToLSI0(h, k) = lowerToLSI0(h, l)
  BY <1>1, SameLowering DEF SameLink, LowersAlike
<1>3. ASSUME NEW h \in Range(rs), Linked(h, l)
      PROVE  /\ Linked(h, k)
             /\ \A p : lowerToTenant(h, [k EXCEPT !.present = p])
                         = lowerToTenant(h, [l EXCEPT !.present = p])
  <2>1. h \in AllRules /\ SameLink(h, l, k)
    BY <1>1, <1>3, Zenon
  <2> QED BY <1>3, <2>1, SameLowering, Zenon DEF SameLink, LowersAlike
<1>4. ASSUME NEW list, Justified(list, rs, l) PROVE Justified(list, rs, k)
  BY <1>2, <1>4, Zenon DEF Justified
<1>5. ASSUME NEW list, JustifiedTenant(list, rs, l) PROVE JustifiedTenant(list, rs, k)
  <2>1. SUFFICES ASSUME NEW q \in Range(list)
                 PROVE  \E h \in Range(rs), p \in SUBSET Above :
                          Linked(h, k) /\ lowerToTenant(h, [k EXCEPT !.present = p]) = <<q>>
    BY Zenon DEF JustifiedTenant
  <2>2. PICK h \in Range(rs), p \in SUBSET Above :
                          Linked(h, l) /\ lowerToTenant(h, [l EXCEPT !.present = p]) = <<q>>
    BY <1>5, <2>1, Zenon DEF JustifiedTenant
  <2>3. Linked(h, k)
        /\ lowerToTenant(h, [k EXCEPT !.present = p]) = lowerToTenant(h, [l EXCEPT !.present = p])
    BY <1>3, <2>2, Zenon
  <2> QED BY <2>2, <2>3, Zenon
<1> QED BY <1>4, <1>5, Zenon

-----------------------------------------------------------------------------
\* The links of the tenant LSI

Wired(l) ==
    /\ IsInjective(l.up) /\ IsInjective(l.down)
    /\ Range(l.up) \cup Range(l.down) \subseteq l.links

\* A node has a link in one direction only.
LEMMA Directions ==
    /\ Above \cap Below = {} /\ Above \subseteq Nodes /\ Below \subseteq Nodes
    /\ \A rs : upRequired(rs) \subseteq Above /\ downRequired(rs) \subseteq Below
<1>1. Above \cap Below = {} /\ Above \subseteq Nodes /\ Below \subseteq Nodes
  BY KindsAreApart DEF Above, Below, Nodes
<1>2. \A rs : upRequired(rs) \subseteq Above /\ downRequired(rs) \subseteq Below
  BY Zenon DEF upRequired, downRequired
<1> QED BY <1>1, <1>2

LEMMA OneUser ==
    ASSUME NEW S, NEW a \in OneOf(S)
    PROVE  a \subseteq S /\ \A x, y \in a : x = y
<1>1. CASE S = {}
  BY <1>1 DEF OneOf
<1>2. CASE S # {}
  BY <1>2 DEF OneOf
<1> QED BY <1>1, <1>2

\* The nodes that get the next link: one above, one below, with no link so far.
FreshUsers(users) ==
    /\ \A n \in users \cap Above : n \notin DOMAIN lsi.up
    /\ \A n \in users \cap Below : n \notin DOMAIN lsi.down
    /\ \A n, m \in users \cap Above : n = m
    /\ \A n, m \in users \cap Below : n = m
    /\ users \subseteq Unlinked

\* A new link has at most one user in each direction, which had no link.
LEMMA NewUsers ==
    ASSUME NEW users \in NextUsers
    PROVE  FreshUsers(users)
<1> USE DEF FreshUsers
<1> DEFINE U == Unlinked
<1>1. users \subseteq U /\ (\A n, m \in users \cap Above : n = m)
      /\ (\A n, m \in users \cap Below : n = m)
  <2>1. CASE U \cap (NFs \cup PhyPorts) # {}
    <3>0. users \in {p[1] \cup p[2] : p \in OneOf(U \cap NFs) \X OneOf(U \cap PhyPorts)}
      BY <2>1, Zenon DEF NextUsers
    <3>1. PICK a \in OneOf(U \cap NFs), b \in OneOf(U \cap PhyPorts) : users = a \cup b
      BY <3>0, Zenon
    <3>2. /\ a \subseteq U \cap NFs /\ b \subseteq U \cap PhyPorts
          /\ (\A x, y \in a : x = y) /\ (\A x, y \in b : x = y)
      BY OneUser
    <3>3. users \cap Above = a /\ users \cap Below = b
      BY <3>1, <3>2, KindsAreApart DEF Above, Below
    <3> QED BY <3>1, <3>2, <3>3
  <2>2. CASE U \cap (NFs \cup PhyPorts) = {} /\ U \cap Gres # {}
    <3>1. users \in OneOf(U \cap Gres)
      BY <2>2 DEF NextUsers
    <3>2. users \subseteq U \cap Gres /\ \A x, y \in users : x = y
      BY <3>1, OneUser
    <3> QED BY <3>2
  <2>3. CASE U \cap (NFs \cup PhyPorts) = {} /\ U \cap Gres = {}
    <3>1. users \in OneOf(U)
      BY <2>3 DEF NextUsers
    <3>2. users \subseteq U /\ \A x, y \in users : x = y
      BY <3>1, OneUser
    <3> QED BY <3>2
  <2> QED BY <2>1, <2>2, <2>3
<1>2. \A n \in U : (n \in Above => n \notin DOMAIN lsi.up) /\ (n \in Below => n \notin DOMAIN lsi.down)
  BY Directions DEF Unlinked
<1> QED BY <1>1, <1>2

\* An association that gains users of a new link.
Gains(f, assoc, D, users, v) ==
    /\ f \in Assoc(D) /\ IsInjective(f)
    /\ Range(f) \subseteq Range(assoc) \cup {v}
    /\ DOMAIN f = users \cup DOMAIN assoc
    /\ \A n \in DOMAIN assoc : f[n] = assoc[n]
    /\ \A n \in users : f[n] = v

LEMMA LinkToWired ==
    ASSUME NEW D, NEW assoc \in Assoc(D), NEW users \in SUBSET D,
           NEW v \in VLinks, v \notin Range(assoc), IsInjective(assoc),
           \A n, m \in users : n = m, \A n \in users : n \notin DOMAIN assoc
    PROVE  Gains(LinkTo(assoc, users, v), assoc, D, users, v)
<1>1. PICK E \in SUBSET D : assoc \in [E -> VLinks]
  BY DEF Assoc
<1>2. PICK f : f = LinkTo(assoc, users, v)
  OBVIOUS
<1>3. f = [n \in users \cup E |-> IF n \in users THEN v ELSE assoc[n]]
  BY <1>1, <1>2 DEF LinkTo
<1>4. /\ f \in [users \cup E -> VLinks]
      /\ \A n \in E : f[n] = assoc[n]
      /\ \A n \in users : f[n] = v
  BY <1>1, <1>3
<1>5. f \in Assoc(D)
  BY <1>4 DEF Assoc
<1>6. Range(f) \subseteq Range(assoc) \cup {v}
  BY <1>1, <1>4 DEF Range
<1>7. IsInjective(f)
  <2>1. SUFFICES ASSUME NEW a \in users \cup E, NEW b \in users \cup E, f[a] = f[b] PROVE a = b
    BY <1>4 DEF IsInjective
  <2>2. \A n \in E : assoc[n] # v
    BY <1>1 DEF Range
  <2>3. CASE a \in users /\ b \in users
    BY <2>3
  <2>4. CASE a \in E /\ b \in E
    BY <1>1, <1>4, <2>1, <2>4 DEF IsInjective
  <2>5. CASE a \in users /\ b \in E
    BY <1>4, <2>1, <2>2, <2>5
  <2>6. CASE a \in E /\ b \in users
    BY <1>4, <2>1, <2>2, <2>6
  <2> QED BY <2>3, <2>4, <2>5, <2>6
<1> QED BY <1>1, <1>2, <1>4, <1>5, <1>6, <1>7 DEF Gains

\* An association that loses a user.
Loses(f, assoc, D, n) ==
    /\ f \in Assoc(D) /\ IsInjective(f) /\ DOMAIN f = DOMAIN assoc \ {n}
    /\ \A m \in DOMAIN f : f[m] = assoc[m]
    /\ Range(f) \subseteq Range(assoc)
    /\ n \in DOMAIN assoc => assoc[n] \notin Range(f)

LEMMA Unassociated ==
    ASSUME NEW D, NEW assoc \in Assoc(D), IsInjective(assoc), NEW n
    PROVE  Loses(Restrict(assoc, DOMAIN assoc \ {n}), assoc, D, n)
<1>0. PICK f : f = Restrict(assoc, DOMAIN assoc \ {n})
  OBVIOUS
<1> PICK E \in SUBSET D : assoc \in [E -> VLinks]
  BY DEF Assoc
<1>2. f = [m \in E \ {n} |-> assoc[m]]
  BY <1>0 DEF Restrict
<1> f \in [E \ {n} -> VLinks] /\ \A m \in E \ {n} : f[m] = assoc[m]
  BY <1>2
<1>4. f \in Assoc(D)
  BY DEF Assoc
<1>5. IsInjective(f)
  BY DEF IsInjective
<1>6. Range(f) \subseteq Range(assoc)
  BY DEF Range
<1>7. ASSUME n \in DOMAIN assoc, assoc[n] \in Range(f) PROVE FALSE
  <2>1. PICK m \in E \ {n} : f[m] = assoc[n]
    BY <1>7 DEF Range
  <2>2. assoc[m] = assoc[n] /\ m \in DOMAIN assoc /\ m # n
    BY <2>1
  <2> QED BY <1>7, <2>2, Zenon DEF IsInjective
<1> QED BY <1>0, <1>4, <1>5, <1>6, <1>7 DEF Loses

\* The link of a node, and who else uses it.
Looks(n) ==
    /\ n \in DOMAIN lsi.up => n \in Above /\ n \notin DOMAIN lsi.down
    /\ n \in DOMAIN lsi.down => n \in Below /\ n \notin DOMAIN lsi.up
    /\ n \in DOMAIN lsi.up => LinkOf(n) = lsi.up[n]
    /\ n \in DOMAIN lsi.down => LinkOf(n) = lsi.down[n]
    /\ n \in DOMAIN lsi.up /\ ~Shared(n) => LinkOf(n) \notin Range(lsi.down)
    /\ n \in DOMAIN lsi.down /\ ~Shared(n) => LinkOf(n) \notin Range(lsi.up)
    /\ n \in DOMAIN lsi.up \cup DOMAIN lsi.down

\* What Associated and Shared say of the node that is looked at.
LEMMA Looked ==
    ASSUME lsi \in LSIs, NEW n, Associated(n)
    PROVE  Looks(n)
<1> USE DEF Looks
<1>1. /\ \A m \in DOMAIN lsi.up : m \in Above
      /\ \A m \in DOMAIN lsi.down : m \in Below
  BY LinkTyped, Zenon DEF TypedLinks
<1>2. Above \cap Below = {}
  BY Directions
<1>3. /\ n \in DOMAIN lsi.up => n \in Above /\ n \notin DOMAIN lsi.down
      /\ n \in DOMAIN lsi.down => n \in Below /\ n \notin DOMAIN lsi.up /\ n \notin Above
  BY <1>1, <1>2
<1>4. n \in DOMAIN lsi.up \cup DOMAIN lsi.down
  BY DEF Associated
<1>5. /\ n \in Above => LinkOf(n) = lsi.up[n]
      /\ n \notin Above => LinkOf(n) = lsi.down[n]
  BY DEF LinkOf
<1>6. /\ n \in Above /\ ~Shared(n) => LinkOf(n) \notin Range(lsi.down)
      /\ n \notin Above /\ ~Shared(n) => LinkOf(n) \notin Range(lsi.up)
  BY DEF Shared
<1> QED BY <1>3, <1>4, <1>5, <1>6, Zenon

LEMMA Asserted ==
    ASSUME NEW h, NEW l, AssertsLSI0(h, l), AssertsTenant(h, l)
    PROVE  Linked(h, l)
BY DEF AssertsLSI0, AssertsTenant, HasLink, Linked

LEMMA LinkedAsserts ==
    ASSUME NEW h, NEW l, Linked(h, l), Wired(l)
    PROVE  AssertsLSI0(h, l)
<1>1. /\ \A n \in DOMAIN l.up : l.up[n] \in l.links
      /\ \A n \in DOMAIN l.down : l.down[n] \in l.links
  BY DEF Wired, Range
<1> QED BY <1>1, Zenon DEF AssertsLSI0, HasLink, Linked

\* The identifiers of installed rules are those of the description.
HasIds(list, rs, l) ==
    /\ Justified(list, rs, l) => Ids(list) \subseteq Ids(rs)
    /\ JustifiedTenant(list, rs, l) => Ids(list) \subseteq Ids(rs)

\* The identifier of an installed rule is that of a rule of the description.
LEMMA JustifiedIds ==
    ASSUME NEW rs \in Seq(AllRules), NEW l \in LSIs, Wired(l), NEW list
    PROVE  HasIds(list, rs, l)
<1> USE DEF HasIds
<1>1. Range(rs) \subseteq AllRules
  BY DEF Range
<1>2. ASSUME NEW q, NEW h \in Range(rs), Linked(h, l), lowerToLSI0(h, l) = <<q>>
      PROVE  q.id = h.id
  <2>1. h \in AllRules /\ AssertsLSI0(h, l)
    BY <1>1, <1>2, LinkedAsserts
  <2> QED BY <1>2, <2>1, LowersLSI0 DEF LowersOne
<1>3. ASSUME NEW q, NEW h \in Range(rs), NEW p \in SUBSET Above, Linked(h, l),
             lowerToTenant(h, [l EXCEPT !.present = p]) = <<q>>
      PROVE  q.id = h.id
  <2>1. PICK k : k = [l EXCEPT !.present = p]
    BY Zenon
  <2>2. k \in LSIs /\ k.up = l.up /\ k.down = l.down
    BY <2>1 DEF LSIs
  <2>3. h \in AllRules /\ Linked(h, k)
    BY <1>1, <1>3, <2>2 DEF Linked
  <2> QED BY <1>3, <2>1, <2>2, <2>3, LowersTenant DEF LowersOne
<1>4. ASSUME Justified(list, rs, l) PROVE Ids(list) \subseteq Ids(rs)
  <2>1. SUFFICES ASSUME NEW q \in Range(list) PROVE q.id \in Ids(rs)
    BY DEF Ids
  <2>2. PICK h \in Range(rs) : Linked(h, l) /\ lowerToLSI0(h, l) = <<q>>
    BY <1>4 DEF Justified
  <2>3. q.id = h.id
    BY <1>2, <2>2
  <2> QED BY <2>3 DEF Ids
<1>5. ASSUME JustifiedTenant(list, rs, l) PROVE Ids(list) \subseteq Ids(rs)
  <2>1. SUFFICES ASSUME NEW q \in Range(list) PROVE q.id \in Ids(rs)
    BY DEF Ids
  <2>2. PICK h \in Range(rs), p \in SUBSET Above :
           Linked(h, l) /\ lowerToTenant(h, [l EXCEPT !.present = p]) = <<q>>
    BY <1>5, Zenon DEF JustifiedTenant
  <2>3. q.id = h.id
    BY <1>3, <2>2, Zenon
  <2> QED BY <2>3 DEF Ids
<1> QED BY <1>4, <1>5

\* More rules justify as much.
JustifiedByMore(list, rs, ss, l) ==
    /\ Justified(list, rs, l) => Justified(list, ss, l)
    /\ JustifiedTenant(list, rs, l) => JustifiedTenant(list, ss, l)

\* What is justified stays so when rules are added to the description.
LEMMA MoreRules ==
    ASSUME NEW rs, NEW ss, Range(rs) \subseteq Range(ss), NEW l, NEW list
    PROVE  JustifiedByMore(list, rs, ss, l)
BY Zenon DEF Justified, JustifiedTenant, JustifiedByMore

LEMMA Emptied ==
    /\ NoLSI \in LSIs /\ Wired(NoLSI) /\ Identified(<<>>) /\ Range(<<>>) = {}
    /\ \A rs, l : Justified(<<>>, rs, l) /\ JustifiedTenant(<<>>, rs, l)
<1>1. Range(<<>>) = {}
  BY DEF Range
<1>2. PICK e : e = Nobody
  OBVIOUS
<1>3. e \in [{} -> VLinks] /\ DOMAIN e = {}
  BY <1>2 DEF Nobody
<1>4. e \in Assoc(Above) /\ e \in Assoc(Below)
  BY <1>3, Zenon DEF Assoc
<1>5. IsInjective(e) /\ Range(e) = {}
  BY <1>3 DEF IsInjective, Range
<1>6. NoLSI = [links |-> {}, up |-> e, down |-> e, present |-> {}]
  BY <1>2, Zenon DEF NoLSI
<1>7. NoLSI \in LSIs /\ Wired(NoLSI)
  BY <1>4, <1>5, <1>6 DEF LSIs, Wired
<1>8. Identified(<<>>)
  BY DEF Identified
<1>9. \A rs, l : Justified(<<>>, rs, l) /\ JustifiedTenant(<<>>, rs, l)
  BY <1>1 DEF Justified, JustifiedTenant
<1> QED BY <1>1, <1>7, <1>8, <1>9

LEMMA NodesTyped ==
    ASSUME NEW rs \in Seq(AllRules)
    PROVE  NodesOf(rs) \subseteq Nodes
<1>1. \A r \in Range(rs) : r \in AllRules
  BY DEF Range
<1> QED BY <1>1, RequestsAreGraphs DEF NodesOf

LEMMA PrunedJustified ==
    ASSUME NEW rs \in Seq(AllRules), NEW l \in LSIs, Wired(l), NEW ss, NEW list, NEW t, NEW old,
           \A h \in Range(rs) : h.id \notin Ids(old) => h \in Range(ss),
           Range(t) \subseteq Range(list), \A q \in Range(t) : q.id \notin Ids(old)
    PROVE  /\ Justified(list, rs, l) => Justified(t, ss, l)
           /\ JustifiedTenant(list, rs, l) => JustifiedTenant(t, ss, l)
<1>1. Range(rs) \subseteq AllRules
  BY DEF Range
<1>2. ASSUME Justified(list, rs, l), NEW q \in Range(t)
      PROVE  \E h \in Range(ss) : Linked(h, l) /\ lowerToLSI0(h, l) = <<q>>
  <2> PICK h \in Range(rs) : Linked(h, l) /\ lowerToLSI0(h, l) = <<q>>
    BY <1>2 DEF Justified
  <2>2. h \in AllRules /\ AssertsLSI0(h, l)
    BY <1>1, LinkedAsserts
  <2>3. q.id = h.id
    BY <2>2, LowersLSI0 DEF LowersOne
  <2>4. h \in Range(ss)
    BY <2>3, Zenon
  <2> QED BY <2>4, Zenon
<1>3. ASSUME JustifiedTenant(list, rs, l), NEW q \in Range(t)
      PROVE  \E h \in Range(ss), p \in SUBSET Above :
                Linked(h, l) /\ lowerToTenant(h, [l EXCEPT !.present = p]) = <<q>>
  <2> PICK h \in Range(rs), p \in SUBSET Above :
           Linked(h, l) /\ lowerToTenant(h, [l EXCEPT !.present = p]) = <<q>>
    BY <1>3, Zenon DEF JustifiedTenant
  <2>2. PICK k : k = [l EXCEPT !.present = p]
    BY Zenon
  <2>3. k \in LSIs /\ k.up = l.up /\ k.down = l.down
    BY <2>2 DEF LSIs
  <2>4. h \in AllRules /\ Linked(h, k)
    BY <1>1, <2>3 DEF Linked
  <2>5. q.id = h.id
    BY <2>2, <2>3, <2>4, LowersTenant DEF LowersOne
  <2>6. h \in Range(ss)
    BY <2>5, Zenon
  <2> QED BY <2>6, Zenon
<1> QED BY <1>2, <1>3, Zenon DEF Justified, JustifiedTenant

\* A list with no element twice is at most as long as a list that has its elements.
LEMMA NoLonger ==
    ASSUME NEW T, NEW s \in Seq(T), NEW U, NEW t \in Seq(U), Identified(s),
           Range(s) \subseteq Range(t)
    PROVE  Len(s) =< Len(t)
<1> PICK m \in Nat : m = Len(s) /\ DOMAIN s = 1..m
  OBVIOUS
<1>2. PICK n \in Nat : n = Len(t) /\ DOMAIN t = 1..n
  OBVIOUS
<1>3. \A i \in 1..m : \E j \in 1..n : t[j] = s[i]
  BY <1>2, Zenon DEF Range
<1>4. PICK f : f = [i \in 1..m |-> CHOOSE j \in 1..n : t[j] = s[i]]
  BY Zenon
<1> f \in [1..m -> 1..n] /\ \A i \in 1..m : t[f[i]] = s[i]
  BY <1>3, <1>4, Zenon
<1>6. IsInjective(f)
  <2>1. DOMAIN f = 1..m
    OBVIOUS
  <2>2. ASSUME NEW a \in 1..m, NEW b \in 1..m, f[a] = f[b] PROVE a = b
    <3>1. s[a] = s[b]
      BY <2>2, Zenon
    <3> QED BY <3>1, Zenon DEF Identified
  <2> QED BY <2>1, <2>2, Zenon DEF IsInjective
<1> QED BY <1>2, <1>6, Pigeons, Zenon

\* One order after the other.
LEMMA InOrder ==
    ASSUME NEW A, NEW B, A \cap B = {}, NEW most \in Nat, NEW u \in Orders(A, B, most)
    PROVE  u \in Seq(A \cup B) /\ IsInjective(u) /\ Range(u) = A \cup B
<1>1. PICK s \in Visits(A, most), t \in Visits(B, most) : u = s \o t
  BY Zenon DEF Orders
<1>2. s \in Seq(A) /\ IsInjective(s) /\ Range(s) = A
  BY DEF Visits
<1>3. t \in Seq(B) /\ IsInjective(t) /\ Range(t) = B
  BY DEF Visits
<1>4. PICK m \in Nat : m = Len(s) /\ DOMAIN s = 1..m /\ \A i \in 1..m : s[i] \in A
  BY <1>2
<1>5. PICK n \in Nat : n = Len(t) /\ DOMAIN t = 1..n /\ \A i \in 1..n : t[i] \in B
  BY <1>3
<1>6. s \in Seq(A \cup B) /\ t \in Seq(A \cup B)
  BY <1>2, <1>3
<1>7. /\ u \in Seq(A \cup B) /\ Len(u) = m + n /\ DOMAIN u = 1..(m + n)
      /\ \A i \in 1..m : u[i] = s[i]
      /\ \A i \in (m + 1)..(m + n) : u[i] = t[i - m] /\ i - m \in 1..n
  BY <1>1, <1>4, <1>5, <1>6
<1>8. \A i \in 1..(m + n) : i \in 1..m \/ i \in (m + 1)..(m + n)
  OBVIOUS
<1>9. IsInjective(u)
  <2>1. SUFFICES ASSUME NEW i \in 1..(m + n), NEW j \in 1..(m + n), u[i] = u[j] PROVE i = j
    BY <1>7 DEF IsInjective
  <2>2. CASE i \in 1..m /\ j \in 1..m
    BY <1>2, <1>4, <1>7, <2>1, <2>2, Zenon DEF IsInjective
  <2>3. CASE i \in (m + 1)..(m + n) /\ j \in (m + 1)..(m + n)
    <3>1. t[i - m] = t[j - m] /\ i - m \in 1..n /\ j - m \in 1..n
      BY <1>7, <2>1, <2>3
    <3>2. i - m = j - m
      BY <1>3, <1>5, <3>1, Zenon DEF IsInjective
    <3> QED BY <3>2
  <2>4. CASE i \in 1..m /\ j \in (m + 1)..(m + n)
    BY <1>4, <1>5, <1>7, <2>1, <2>4
  <2>5. CASE i \in (m + 1)..(m + n) /\ j \in 1..m
    BY <1>4, <1>5, <1>7, <2>1, <2>5
  <2> QED BY <1>8, <2>2, <2>3, <2>4, <2>5
<1>10. Range(u) \subseteq A \cup B
  BY <1>7 DEF Range
<1>11. ASSUME NEW x \in A PROVE x \in Range(u)
  <2>1. PICK i \in 1..m : s[i] = x
    BY <1>2, <1>4, <1>11 DEF Range
  <2>2. u[i] = x /\ i \in DOMAIN u
    BY <1>7, <2>1
  <2> QED BY <2>2 DEF Range
<1>12. ASSUME NEW x \in B PROVE x \in Range(u)
  <2>1. PICK i \in 1..n : t[i] = x
    BY <1>3, <1>5, <1>12 DEF Range
  <2>2. PICK k \in (m + 1)..(m + n) : k = m + i /\ k - m = i
    OBVIOUS
  <2>3. u[k] = x /\ k \in DOMAIN u
    BY <1>7, <2>1, <2>2
  <2> QED BY <2>3 DEF Range
<1> QED BY <1>7, <1>9, <1>10, <1>11, <1>12

\* The links that are numbered for the nodes of one direction.
NumbersLinks(f, links, users, D) ==
    /\ f \in Assoc(D) /\ IsInjective(f) /\ DOMAIN f = Range(users)
    /\ Range(f) = {links[i] : i \in 1..Len(users)}

LEMMA NumberedLinks ==
    ASSUME NEW D, NEW users \in Seq(D), IsInjective(users),
           NEW n \in Nat, Len(users) =< n, NEW links \in [1..n -> VLinks], IsInjective(links)
    PROVE  NumbersLinks(Numbered(links, users), links, users, D)
<1>1. PICK m \in Nat : m = Len(users) /\ DOMAIN users = 1..m /\ \A i \in 1..m : users[i] \in D
  OBVIOUS
<1>2. PICK R : R = Range(users)
  OBVIOUS
<1>3. R \subseteq D /\ \A x \in R : \E i \in 1..m : users[i] = x
  BY <1>1, <1>2 DEF Range
<1>4. PICK at : at = [x \in Range(users) |-> CHOOSE i \in 1..Len(users) : users[i] = x]
  BY Zenon
<1>5. at \in [R -> 1..m] /\ \A x \in R : users[at[x]] = x
  BY <1>1, <1>2, <1>3, <1>4
<1>6. PICK f : f = Numbered(links, users)
  OBVIOUS
<1>7. f = [x \in Range(users) |-> links[at[x]]]
  <2>1. DOMAIN f = Range(users)
    BY <1>6, Zenon DEF Numbered
  <2>2. ASSUME NEW x \in Range(users) PROVE f[x] = links[at[x]]
    <3>1. f[x] = links[CHOOSE i \in 1..Len(users) : users[i] = x]
      BY <1>6, <2>2, Zenon DEF Numbered
    <3>2. at[x] = CHOOSE i \in 1..Len(users) : users[i] = x
      BY <1>4, <2>2, Zenon
    <3> QED BY <3>1, <3>2, Zenon
  <2>3. f = [x \in Range(users) |-> f[x]]
    BY <1>6 DEF Numbered
  <2> QED BY <2>1, <2>2, <2>3, Zenon
<1>8. DOMAIN f = R /\ \A x \in R : f[x] = links[at[x]]
  BY <1>2, <1>7, Zenon
<1>9. \A i \in 1..m : i \in 1..n
  BY <1>1
<1>10. \A x \in R : at[x] \in 1..m /\ at[x] \in 1..n
  BY <1>5, <1>9
<1>11. f \in [R -> VLinks]
  BY <1>7, <1>8, <1>10
<1>12. f \in Assoc(D)
  BY <1>3, <1>11 DEF Assoc
<1>13. IsInjective(f)
  <2>1. SUFFICES ASSUME NEW a \in R, NEW b \in R, f[a] = f[b] PROVE a = b
    BY <1>8 DEF IsInjective
  <2>2. links[at[a]] = links[at[b]] /\ at[a] \in DOMAIN links /\ at[b] \in DOMAIN links
    BY <1>8, <1>10, <2>1
  <2>3. at[a] = at[b]
    BY <2>2, Zenon DEF IsInjective
  <2> QED BY <1>5, <2>3
<1>14. ASSUME NEW i \in 1..m PROVE users[i] \in R /\ f[users[i]] = links[i]
  <2>1. users[i] \in R
    BY <1>1, <1>2, <1>14 DEF Range
  <2>2. at[users[i]] \in 1..m /\ users[at[users[i]]] = users[i]
    BY <1>5, <2>1
  <2>3. at[users[i]] = i
    BY <1>1, <2>2, Zenon DEF IsInjective
  <2> QED BY <1>8, <2>1, <2>3, Zenon
<1>15. Range(f) = {links[i] : i \in 1..m}
  <2>1. ASSUME NEW v \in Range(f) PROVE v \in {links[i] : i \in 1..m}
    BY <1>8, <1>10, <2>1 DEF Range
  <2>2. ASSUME NEW i \in 1..m PROVE links[i] \in Range(f)
    BY <1>8, <1>14, <2>2 DEF Range
  <2> QED BY <2>1, <2>2
<1> QED BY <1>1, <1>2, <1>6, <1>8, <1>12, <1>13, <1>15, Zenon DEF NumbersLinks

\* The tenant LSI of a new NF-FG: every node that needs a link has one, and every link
\* has a user.
CreatedFor(l, rs) ==
    /\ l \in LSIs /\ Wired(l)
    /\ DOMAIN l.up = upRequired(rs) /\ DOMAIN l.down = downRequired(rs)
    /\ l.links = Range(l.up) \cup Range(l.down)
    /\ l.present = NodesOf(rs) \cap Above

LEMMA Created ==
    ASSUME NEW rs \in Seq(AllRules),
           NEW ups \in Orders(upRequired(rs) \cap NFs, upRequired(rs) \cap Gres, Len(rs)),
           NEW downs \in Orders(downRequired(rs) \cap PhyPorts, downRequired(rs) \cap Internals, Len(rs)),
           NEW links \in Injection(1..Max({Len(ups), Len(downs)}), VLinks)
    PROVE  CreatedFor(CreatedLSI(rs, links, ups, downs), rs)
<1>1. PICK most \in Nat : most = Len(rs)
  OBVIOUS
<1>2. PICK A, B : A = upRequired(rs) \cap NFs /\ B = upRequired(rs) \cap Gres
  BY Zenon
<1>3. PICK P, I : P = downRequired(rs) \cap PhyPorts /\ I = downRequired(rs) \cap Internals
  BY Zenon
<1>4. /\ A \cap B = {}
      /\ A \cup B = upRequired(rs) /\ A \cup B \subseteq Above
  <2>1. A \cap B = {}
    BY <1>2, KindsAreApart
  <2>2. A \cup B = upRequired(rs) /\ A \cup B \subseteq Above
    BY <1>2, Directions DEF Above
  <2> QED BY <2>1, <2>2, Zenon
<1>5. /\ P \cap I = {}
      /\ P \cup I = downRequired(rs) /\ P \cup I \subseteq Below
  <2>1. P \cap I = {}
    BY <1>3, KindsAreApart
  <2>2. P \cup I = downRequired(rs) /\ P \cup I \subseteq Below
    BY <1>3, Directions DEF Below
  <2> QED BY <2>1, <2>2, Zenon
<1>6. ups \in Seq(A \cup B) /\ IsInjective(ups) /\ Range(ups) = A \cup B
  BY <1>1, <1>2, <1>4, InOrder, Zenon
<1>7. downs \in Seq(P \cup I) /\ IsInjective(downs) /\ Range(downs) = P \cup I
  BY <1>1, <1>3, <1>5, InOrder, Zenon
<1>8. ups \in Seq(Above) /\ downs \in Seq(Below)
  BY <1>4, <1>5, <1>6, <1>7
<1>9. PICK a \in Nat, b \in Nat : a = Len(ups) /\ b = Len(downs)
  BY <1>6, <1>7
<1>10. PICK n \in Nat : n = Max({a, b}) /\ a =< n /\ b =< n /\ (n = a \/ n = b)
  <2>1. \E x \in {a, b} : \A y \in {a, b} : x >= y
    OBVIOUS
  <2>2. Max({a, b}) \in {a, b} /\ \A y \in {a, b} : Max({a, b}) >= y
    BY <2>1, Zenon DEF Max
  <2> QED BY <2>2
<1>12. links \in [1..n -> VLinks] /\ IsInjective(links)
  BY <1>9, <1>10, Zenon DEF Injection
<1>13. PICK up, down : up = Numbered(links, ups) /\ down = Numbered(links, downs)
  BY Zenon
<1>14. NumbersLinks(up, links, ups, Above)
  BY <1>6, <1>8, <1>9, <1>10, <1>12, <1>13, NumberedLinks, Zenon
<1>15. NumbersLinks(down, links, downs, Below)
  BY <1>7, <1>8, <1>9, <1>10, <1>12, <1>13, NumberedLinks, Zenon
<1>16. PICK l : l = CreatedLSI(rs, links, ups, downs)
  OBVIOUS
<1>17. l = [links |-> Range(links), up |-> up, down |-> down, present |-> NodesOf(rs) \cap Above]
  BY <1>13, <1>16, Zenon DEF CreatedLSI
<1>18. Range(links) \subseteq VLinks /\ Range(links) = {links[i] : i \in 1..n}
  BY <1>12 DEF Range
<1>19. /\ up \in Assoc(Above) /\ IsInjective(up) /\ DOMAIN up = A \cup B
       /\ Range(up) = {links[i] : i \in 1..a}
  BY <1>6, <1>9, <1>14, Zenon DEF NumbersLinks
<1>20. /\ down \in Assoc(Below) /\ IsInjective(down) /\ DOMAIN down = P \cup I
       /\ Range(down) = {links[i] : i \in 1..b}
  BY <1>7, <1>9, <1>15, Zenon DEF NumbersLinks
<1>21. Range(links) = Range(up) \cup Range(down)
  BY <1>10, <1>18, <1>19, <1>20
<1>22. /\ l.links = Range(links) /\ l.up = up /\ l.down = down
       /\ l.present = NodesOf(rs) \cap Above
  BY <1>17
<1>23. l \in LSIs
  BY <1>17, <1>18, <1>19, <1>20 DEF LSIs
<1>24. Wired(l)
  BY <1>19, <1>20, <1>21, <1>22 DEF Wired
<1> QED BY <1>4, <1>5, <1>16, <1>19, <1>20, <1>21, <1>22, <1>23, <1>24, Zenon DEF CreatedFor

\* What newGraph does once the tenant LSI is created.
Deploys(rs, l) ==
    IF Asserts(rs, l)
    THEN /\ deployed' = TRUE /\ rules' = rs /\ nodes' = NodesOf(rs) /\ lsi' = l
         /\ graphLSI0lowLevel' = graphLSI0lowLevel \o lowerGraphToLSI0(rs, l)
         /\ tenant' = lowerGraphToTenantLSI(rs, l)
         /\ lsi0' = lsi0 \o lowerGraphToLSI0(rs, l)
         /\ request' = rs /\ reply' = "ok" /\ freed' = FALSE /\ alive' = TRUE
         /\ UNCHANGED <<pc, diff, delta, removed>>
    ELSE Abort

LEMMA NewGraphDeploys ==
    ASSUME NEW rs \in Requests, NewGraph(rs)
    PROVE  \E l : CreatedFor(l, rs) /\ Deploys(rs, l)
<1>1. rs \in Seq(AllRules)
  BY RequestsAreGraphs
<1>2. PICK ups \in Orders(upRequired(rs) \cap NFs, upRequired(rs) \cap Gres, Len(rs)),
           downs \in Orders(downRequired(rs) \cap PhyPorts, downRequired(rs) \cap Internals, Len(rs)) :
         \E links \in Injection(1..Max({Len(ups), Len(downs)}), VLinks) :
           Deploys(rs, CreatedLSI(rs, links, ups, downs))
  BY Zenon DEF NewGraph, Deploys
<1>3. PICK links \in Injection(1..Max({Len(ups), Len(downs)}), VLinks) :
         Deploys(rs, CreatedLSI(rs, links, ups, downs))
  BY <1>2, Zenon
<1>4. CreatedFor(CreatedLSI(rs, links, ups, downs), rs)
  BY <1>1, Created, Zenon
<1> QED BY <1>3, <1>4, Zenon

-----------------------------------------------------------------------------
\* The fields of installed rules

Fields(q, in, cls, out, tag) ==
    q.match[1] = in /\ q.match[2] = cls /\ q.out = out /\ q.extra = tag

LEMMA LowFields ==
    ASSUME NEW q, NEW ID, NEW in, NEW cls, NEW out, NEW tag, <<low(ID, in, cls, out, tag)>> = <<q>>
    PROVE  Fields(q, in, cls, out, tag)
<1>1. q = low(ID, in, cls, out, tag)
  BY OneRule, Zenon
<1>2. low(ID, in, cls, out, tag).match = <<in, cls>>
  BY DEF low
<1> QED BY <1>1, <1>2 DEF low, Fields

\* A rule of LSI-0, by the nodes of the rule it is lowered from.
Shape0(q, h, l) ==
    \/ h.from \in PhyPorts /\ h.to \in PhyPorts /\ Fields(q, h.from, h.cls, h.to, h.tag)
    \/ h.from \in Below /\ h.to \in Above /\ Fields(q, h.from, h.cls, l.up[h.to], h.tag)
    \/ /\ h.from \in Above /\ h.to \in Below /\ ~(h.from \in Gres /\ h.to \in PhyPorts)
       /\ Fields(q, l.down[h.to], AnyClass, h.to, FALSE)
    \/ h.from \in Gres /\ h.to \in PhyPorts /\ Fields(q, l.down[h.to], h.cls, h.to, h.tag)

\* The port of a node, if the tenant LSI has it.
At(n, port, p) ==
    port = n \/ (port = NoPort /\ n \notin p)

\* A rule of the tenant LSI that was lowered when the LSI had the ports p.
Shape1(q, h, p, l) ==
    \/ /\ h.from \in Below /\ h.to \in Above
       /\ \E out : At(h.to, out, p) /\ Fields(q, l.up[h.to], AnyClass, out, FALSE)
    \/ /\ h.from \in Above /\ h.to \in Below
       /\ \E in : At(h.from, in, p) /\ Fields(q, in, h.cls, l.down[h.to], h.tag)
    \/ /\ h.from \in Above /\ h.to \in Above
       /\ \E in, out : At(h.from, in, p) /\ At(h.to, out, p) /\ Fields(q, in, h.cls, out, h.tag)

LEMMA Shapes0 ==
    ASSUME NEW h \in AllRules, NEW l \in LSIs, Linked(h, l), NEW q, lowerToLSI0(h, l) = <<q>>
    PROVE  Shape0(q, h, l)
<1>1. h.from \in Nodes /\ h.to \in Nodes
  BY RequestsAreGraphs
<1>2. /\ h.from \in PhyPorts \/ h.from \in Internals \/ h.from \in NFs \/ h.from \in Gres
      /\ h.to \in PhyPorts \/ h.to \in Internals \/ h.to \in NFs \/ h.to \in Gres
  BY <1>1 DEF Nodes, Below, Above
<1>3. /\ \A n : n \in Above <=> n \in NFs \/ n \in Gres
      /\ \A n : n \in Below <=> n \in PhyPorts \/ n \in Internals
  BY DEF Below, Above
<1>4. <<>> # <<q>>
  OBVIOUS
<1>5. CASE h.from \in Above /\ h.to \in Above
  BY <1>1, <1>4, <1>5, LSI0Kinds, Zenon DEF LoweredByKind
<1>6. CASE h.from \in PhyPorts /\ h.to \in Internals
  BY <1>1, <1>4, <1>6, LSI0Kinds, Zenon DEF LoweredByKind
<1>7. CASE h.from \in PhyPorts /\ h.to \in PhyPorts
  <2>1. lowerToLSI0(h, l) = <<low(h.id, h.from, h.cls, h.to, h.tag)>>
    BY <1>1, <1>7, LSI0Kinds, Zenon DEF LoweredByKind
  <2>2. Fields(q, h.from, h.cls, h.to, h.tag)
    BY <2>1, LowFields, Zenon
  <2> QED BY <1>7, <2>2, Zenon DEF Shape0
<1>8. CASE h.from \in Below /\ h.to \in Above
  <2>1. lowerToLSI0(h, l) = <<low(h.id, h.from, h.cls, l.up[h.to], h.tag)>>
    BY <1>1, <1>8, LSI0Kinds, Zenon DEF LoweredByKind
  <2>2. Fields(q, h.from, h.cls, l.up[h.to], h.tag)
    BY <2>1, LowFields, Zenon
  <2> QED BY <1>8, <2>2, Zenon DEF Shape0
<1>9. CASE h.from \in Above /\ h.to \in Internals
  <2>1. lowerToLSI0(h, l) = <<low(h.id, l.down[h.to], AnyClass, h.to, FALSE)>>
    BY <1>1, <1>9, LSI0Kinds, Zenon DEF LoweredByKind
  <2>2. Fields(q, l.down[h.to], AnyClass, h.to, FALSE)
    BY <2>1, LowFields, Zenon
  <2>3. h.to \in Below /\ h.to \notin PhyPorts
    BY <1>3, <1>9, KindsAreApart
  <2> QED BY <1>9, <2>2, <2>3, Zenon DEF Shape0
<1>10. CASE h.from \in NFs /\ h.to \in PhyPorts
  <2>1. lowerToLSI0(h, l) = <<low(h.id, l.down[h.to], AnyClass, h.to, FALSE)>>
    BY <1>1, <1>10, LSI0Kinds, Zenon DEF LoweredByKind
  <2>2. Fields(q, l.down[h.to], AnyClass, h.to, FALSE)
    BY <2>1, LowFields, Zenon
  <2>3. h.from \in Above /\ h.to \in Below /\ h.from \notin Gres
    BY <1>3, <1>10, KindsAreApart
  <2> QED BY <1>10, <2>2, <2>3, Zenon DEF Shape0
<1>11. CASE h.from \in Gres /\ h.to \in PhyPorts
  <2>1. lowerToLSI0(h, l) = <<low(h.id, InputFor(h.to, l), ClassFor(h, l), h.to, h.tag)>>
    BY <1>1, <1>11, LSI0Kinds, Zenon DEF LoweredByKind
  <2>2. h.to \in DOMAIN l.down
    BY <1>3, <1>11, Zenon DEF Linked
  <2>3. InputFor(h.to, l) = l.down[h.to] /\ ClassFor(h, l) = h.cls
    BY <2>2 DEF InputFor, ClassFor
  <2>4. Fields(q, l.down[h.to], h.cls, h.to, h.tag)
    BY <2>1, <2>3, LowFields, Zenon
  <2> QED BY <1>11, <2>4, Zenon DEF Shape0
<1>12. ~(h.from \in Internals /\ h.to \in Below)
  BY DEF Linked
<1> QED BY <1>2, <1>3, <1>5, <1>6, <1>7, <1>8, <1>9, <1>10, <1>11, <1>12, Zenon

LEMMA Shapes1 ==
    ASSUME NEW h \in AllRules, NEW l \in LSIs, Linked(h, l), NEW p, NEW q,
           lowerToTenant(h, [l EXCEPT !.present = p]) = <<q>>
    PROVE  Shape1(q, h, p, l)
<1>1. h.from \in Nodes /\ h.to \in Nodes
  BY RequestsAreGraphs
<1>2. /\ h.from \in PhyPorts \/ h.from \in Internals \/ h.from \in NFs \/ h.from \in Gres
      /\ h.to \in PhyPorts \/ h.to \in Internals \/ h.to \in NFs \/ h.to \in Gres
  BY <1>1 DEF Nodes, Below, Above
<1>3. /\ \A n : n \in Above <=> n \in NFs \/ n \in Gres
      /\ \A n : n \in Below <=> n \in PhyPorts \/ n \in Internals
  BY DEF Below, Above
<1>4. <<>> # <<q>>
  OBVIOUS
<1>5. PICK k : k = [l EXCEPT !.present = p]
  OBVIOUS
<1>6. k.up = l.up /\ k.down = l.down /\ k.present = p /\ lowerToTenant(h, k) = <<q>>
  <2>1. k.up = l.up /\ k.down = l.down /\ k.present = p
    BY <1>5 DEF LSIs
  <2>2. lowerToTenant(h, k) = <<q>>
    BY <1>5, Zenon
  <2> QED BY <2>1, <2>2
<1>7. \A n : At(n, n, p) /\ At(n, TenantPort(n, k), p)
  <2>1. SUFFICES ASSUME NEW n PROVE At(n, n, p) /\ At(n, TenantPort(n, k), p)
    OBVIOUS
  <2>2. TenantPort(n, k) = IF n \in p THEN n ELSE NoPort
    BY <1>6, Zenon DEF TenantPort
  <2>3. TenantPort(n, k) = n \/ (TenantPort(n, k) = NoPort /\ n \notin p)
    BY <2>2
  <2> QED BY <2>3, Zenon DEF At
<1>8. CASE h.from \in Below /\ h.to \in Below
  BY <1>1, <1>4, <1>6, <1>8, TenantKinds, Zenon DEF TenantByKind
<1>9. CASE h.from \in Below /\ h.to \in Above
  <2>1. lowerToTenant(h, k) = <<low(h.id, k.up[h.to], AnyClass, TenantPort(h.to, k), FALSE)>>
    BY <1>1, <1>9, TenantKinds, Zenon DEF TenantByKind
  <2>2. Fields(q, l.up[h.to], AnyClass, TenantPort(h.to, k), FALSE)
    BY <1>6, <2>1, LowFields, Zenon
  <2> QED BY <1>7, <1>9, <2>2, Zenon DEF Shape1
<1>10. CASE h.from \in Gres /\ h.to \in NFs
  <2>1. lowerToTenant(h, k) = <<low(h.id, TenantPort(h.from, k), h.cls, h.to, h.tag)>>
    BY <1>1, <1>10, TenantKinds, Zenon DEF TenantByKind
  <2>2. Fields(q, TenantPort(h.from, k), h.cls, h.to, h.tag)
    BY <1>6, <2>1, LowFields, Zenon
  <2> QED BY <1>3, <1>7, <1>10, <2>2, Zenon DEF Shape1
<1>11. CASE h.from \in Gres /\ h.to \in Below
  <2>1. lowerToTenant(h, k) = <<low(h.id, TenantPort(h.from, k), h.cls, k.down[h.to], h.tag)>>
    BY <1>1, <1>11, TenantKinds, Zenon DEF TenantByKind
  <2>2. Fields(q, TenantPort(h.from, k), h.cls, l.down[h.to], h.tag)
    BY <1>6, <2>1, LowFields, Zenon
  <2> QED BY <1>3, <1>7, <1>11, <2>2, Zenon DEF Shape1
<1>12. CASE h.from \in NFs /\ h.to \in Above
  <2>1. lowerToTenant(h, k) = <<low(h.id, h.from, h.cls, TenantPort(h.to, k), h.tag)>>
    BY <1>1, <1>12, TenantKinds, Zenon DEF TenantByKind
  <2>2. Fields(q, h.from, h.cls, TenantPort(h.to, k), h.tag)
    BY <1>6, <2>1, LowFields, Zenon
  <2> QED BY <1>3, <1>7, <1>12, <2>2, Zenon DEF Shape1
<1>13. CASE h.from \in NFs /\ h.to \in Below
  <2>1. lowerToTenant(h, k) = <<low(h.id, h.from, h.cls, k.down[h.to], h.tag)>>
    BY <1>1, <1>13, TenantKinds, Zenon DEF TenantByKind
  <2>2. Fields(q, h.from, h.cls, l.down[h.to], h.tag)
    BY <1>6, <2>1, LowFields, Zenon
  <2> QED BY <1>3, <1>7, <1>13, <2>2, Zenon DEF Shape1
<1>14. ~(h.from \in Gres /\ h.to \in Gres)
  BY DEF Linked
<1> QED BY <1>2, <1>3, <1>8, <1>9, <1>10, <1>11, <1>12, <1>13, <1>14, Zenon
=============================================================================
