------------------------ MODULE ListOpsProofs ------------------------
(***************************************************************************)
(* Lemmas about lists of rules and the other lists of the orchestrator.    *)
(***************************************************************************)
EXTENDS ListOps, WellFoundedInduction, TLAPS

\* A non-empty set of positions of a list has a least one.
LEMMA LeastPosition ==
    ASSUME NEW n \in Nat, NEW P \in SUBSET (1..n), P # {}
    PROVE  \E x \in P : \A y \in P : x =< y
<1> DEFINE R == {ss \in Nat \X Nat : ss[1] < ss[2]}
<1>1. IsWellFoundedOn(R, Nat)
  BY NatLessThanWellFounded, Zenon DEF OpToRel
<1>2. P \subseteq Nat
  OBVIOUS
<1> HIDE DEF R
<1>3. PICK x \in P : \A y \in P : <<y, x>> \notin R
  BY <1>1, <1>2, WFMin, Zenon
<1>4. \A y \in P : x =< y
  <2>1. SUFFICES ASSUME NEW y \in P PROVE x =< y
    OBVIOUS
  <2>2. x \in Nat /\ y \in Nat
    BY <1>2
  <2>3. ~(y < x)
    <3>1. <<y, x>> \notin R
      BY <1>3
    <3>2. <<y, x>> \in Nat \X Nat /\ <<y, x>>[1] = y /\ <<y, x>>[2] = x
      BY <2>2
    <3>. QED
      BY <3>1, <3>2, Zenon DEF R
  <2>. QED
    BY <2>2, <2>3
<1>. QED
  BY <1>4, Zenon

\* The first rule the loops of Graph::getRule, removeRule and removeRuleFromID find.
LEMMA MinPosition ==
    ASSUME NEW n \in Nat, NEW P \in SUBSET (1..n), P # {}
    PROVE  Min(P) \in P
BY LeastPosition, Zenon DEF Min

\* Erasing position k of a list keeps every other element and adds none.
LEMMA Erasure ==
    ASSUME NEW S, NEW s \in Seq(S), NEW k \in 1..Len(s)
    PROVE  /\ RemoveAt(s, k) \in Seq(S) /\ Len(RemoveAt(s, k)) = Len(s) - 1
           /\ \A j \in 1..(Len(s) - 1) : RemoveAt(s, k)[j] = IF j < k THEN s[j] ELSE s[j + 1]
           /\ \A i \in 1..Len(s) : i # k =>
                \E j \in 1..Len(RemoveAt(s, k)) : RemoveAt(s, k)[j] = s[i]
           /\ \A j \in 1..Len(RemoveAt(s, k)) : \E i \in 1..Len(s) : RemoveAt(s, k)[j] = s[i]
<1> DEFINE t == RemoveAt(s, k)
<1>1. Len(s) \in Nat /\ \A i \in 1..Len(s) : s[i] \in S
  OBVIOUS
<1>2. /\ t \in [1..(Len(s) - 1) -> S]
      /\ \A j \in 1..(Len(s) - 1) : t[j] = IF j < k THEN s[j] ELSE s[j + 1]
  BY <1>1 DEF RemoveAt
<1> HIDE DEF t
<1>3. t \in Seq(S) /\ Len(t) = Len(s) - 1
  BY <1>1, <1>2
<1>4. ASSUME NEW i \in 1..Len(s), i # k PROVE \E j \in 1..Len(t) : t[j] = s[i]
  <2>1. CASE i < k
    BY <1>2, <1>3, <2>1
  <2>2. CASE i > k
    <3>1. i - 1 \in 1..Len(t) /\ t[i - 1] = s[i]
      BY <1>2, <1>3, <2>2
    <3> QED BY <3>1
  <2> QED BY <1>4, <2>1, <2>2
<1>5. ASSUME NEW j \in 1..Len(t) PROVE \E i \in 1..Len(s) : t[j] = s[i]
  BY <1>2, <1>3
<1> QED BY <1>2, <1>3, <1>4, <1>5 DEF t

\* Every element that is not at the erased position stays.
LEMMA ErasedSet ==
    ASSUME NEW S, NEW s \in Seq(S), NEW k \in 1..Len(s)
    PROVE  /\ Range(RemoveAt(s, k)) \subseteq Range(s)
           /\ \A x \in Range(s) : x # s[k] => x \in Range(RemoveAt(s, k))
<1> DEFINE t == RemoveAt(s, k)
<1>1. /\ DOMAIN s = 1..Len(s) /\ t \in Seq(S)
      /\ \A i \in 1..Len(s) : i # k => \E j \in 1..Len(t) : t[j] = s[i]
      /\ \A j \in 1..Len(t) : \E i \in 1..Len(s) : t[j] = s[i]
  BY Erasure
<1> HIDE DEF t
<1>2. DOMAIN t = 1..Len(t)
  BY <1>1
<1>3. Range(t) \subseteq Range(s)
  BY <1>1, <1>2 DEF Range
<1>4. ASSUME NEW x \in Range(s), x # s[k] PROVE x \in Range(t)
  <2>1. PICK i \in 1..Len(s) : x = s[i]
    BY <1>1 DEF Range
  <2>2. i # k
    BY <1>4, <2>1
  <2>3. PICK j \in 1..Len(t) : t[j] = s[i]
    BY <1>1, <2>2
  <2>. QED
    BY <1>2, <2>1, <2>3 DEF Range
<1>. QED
  BY <1>3, <1>4 DEF t

\* An appended element joins the others.
LEMMA AppendedSet ==
    ASSUME NEW S, NEW s \in Seq(S), NEW x \in S
    PROVE  /\ Append(s, x) \in Seq(S) /\ Len(Append(s, x)) = Len(s) + 1
           /\ Range(Append(s, x)) = Range(s) \cup {x}
<1> DEFINE t == Append(s, x)
<1>1. /\ t \in Seq(S) /\ Len(t) = Len(s) + 1 /\ t[Len(s) + 1] = x
      /\ \A i \in 1..Len(s) : t[i] = s[i]
  OBVIOUS
<1> HIDE DEF t
<1>2. DOMAIN t = 1..(Len(s) + 1) /\ DOMAIN s = 1..Len(s) /\ Len(s) \in Nat
  BY <1>1
<1>3. \A i \in 1..(Len(s) + 1) : i \in 1..Len(s) \/ i = Len(s) + 1
  BY <1>2
<1>4. \A i \in 1..Len(s) : i \in 1..(Len(s) + 1)
  BY <1>2
<1>5. Len(s) + 1 \in 1..(Len(s) + 1)
  BY <1>2
<1>6. Range(t) \subseteq Range(s) \cup {x}
  BY <1>1, <1>2, <1>3, Zenon DEF Range
<1>7. Range(s) \subseteq Range(t)
  BY <1>1, <1>2, <1>4, Zenon DEF Range
<1>8. x \in Range(t)
  BY <1>1, <1>2, <1>5, Zenon DEF Range
<1>. QED
  BY <1>1, <1>6, <1>7, <1>8 DEF t

\* A loop that visits different elements has the others still to visit.
LEMMA TailApart ==
    ASSUME NEW S, NEW s \in Seq(S), s # <<>>, IsInjective(s)
    PROVE  /\ Head(s) \in S /\ Head(s) \in Range(s)
           /\ Tail(s) \in Seq(S) /\ IsInjective(Tail(s))
           /\ Range(Tail(s)) = Range(s) \ {Head(s)}
<1> DEFINE t == Tail(s)
<1>1. /\ Len(s) \in Nat /\ Len(s) > 0 /\ DOMAIN s = 1..Len(s)
      /\ Head(s) = s[1] /\ Head(s) \in S /\ t \in Seq(S)
      /\ DOMAIN t = 1..(Len(s) - 1)
      /\ \A i \in 1..(Len(s) - 1) : t[i] = s[i + 1]
  OBVIOUS
<1> HIDE DEF t
<1>2. 1 \in DOMAIN s /\ \A i \in DOMAIN t : i + 1 \in DOMAIN s /\ i + 1 # 1
  BY <1>1
<1>3. \A a, b \in DOMAIN s : s[a] = s[b] => a = b
  BY DEF IsInjective
<1>4. IsInjective(t)
  <2>1. SUFFICES ASSUME NEW a \in DOMAIN t, NEW b \in DOMAIN t, t[a] = t[b] PROVE a = b
    BY DEF IsInjective
  <2>2. s[a + 1] = s[b + 1] /\ a + 1 \in DOMAIN s /\ b + 1 \in DOMAIN s
    BY <1>1, <1>2, <2>1
  <2>3. a + 1 = b + 1
    BY <1>3, <2>2
  <2>. QED
    BY <1>1, <2>3
<1>5. ASSUME NEW x \in Range(t) PROVE x \in Range(s) /\ x # Head(s)
  <2>1. PICK i \in DOMAIN t : x = t[i]
    BY DEF Range
  <2>2. x = s[i + 1]
    BY <1>1, <2>1
  <2>. QED
    BY <1>1, <1>2, <1>3, <2>2 DEF Range
<1>6. ASSUME NEW x \in Range(s), x # Head(s) PROVE x \in Range(t)
  <2>1. PICK i \in 1..Len(s) : x = s[i]
    BY <1>1 DEF Range
  <2>2. i # 1
    BY <1>1, <1>6, <2>1
  <2>3. i - 1 \in DOMAIN t /\ (i - 1) + 1 = i
    BY <1>1, <2>2
  <2>4. t[i - 1] = x
    BY <1>1, <2>1, <2>3
  <2>. QED
    BY <2>3, <2>4 DEF Range
<1>7. Head(s) \in Range(s)
  BY <1>1, <1>2 DEF Range
<1>8. Range(t) = Range(s) \ {Head(s)}
  BY <1>5, <1>6, Zenon
<1>. QED
  BY <1>1, <1>4, <1>7, <1>8, Zenon DEF t

\* Induction along a loop, on the set of the rounds that are good.
LEMMA LoopInduction ==
    ASSUME NEW n \in Nat, NEW G, 0 \in G, \A k \in 1..n : k - 1 \in G => k \in G
    PROVE  \A k \in 0..n : k \in G
<1> SUFFICES ASSUME NEW k \in 0..n, k \notin G PROVE FALSE
  OBVIOUS
<1> DEFINE P == {j \in 1..n : j \notin G}
<1>1. P \in SUBSET (1..n) /\ P # {}
  <2>1. k # 0
    OBVIOUS
  <2>2. k \in 1..n
    BY <2>1
  <2> QED BY <2>2
<1> HIDE DEF P
<1>2. PICK m \in P : \A y \in P : m =< y
  BY <1>1, LeastPosition, Zenon
<1>3. m \in 1..n /\ m \notin G
  BY DEF P
<1>4. m - 1 \notin P
  BY <1>2, <1>3
<1>5. m - 1 \in G
  <2>1. CASE m = 1
    BY <2>1
  <2>2. CASE m # 1
    <3>1. m - 1 \in 1..n
      BY <1>3, <2>2
    <3> QED BY <1>4, <3>1 DEF P
  <2> QED BY <2>1, <2>2
<1> QED BY <1>3, <1>5

\* The runs of a loop that starts with "base" and applies step[k] in round k.
RunsOf(S, n, base, step) ==
    {g \in [0..n -> S] : g[0] = base /\ \A k \in 1..n : g[k] = step[k][g[k - 1]]}

\* A loop that applies a step to its state in every round has a run.
LEMMA LoopRuns ==
    ASSUME NEW S, NEW n \in Nat, NEW base \in S, NEW step \in [1..n -> [S -> S]]
    PROVE  RunsOf(S, n, base, step) # {}
<1> DEFINE Runs(m) == {g \in [0..m -> S] :
                         g[0] = base /\ \A k \in 1..m : g[k] = step[k][g[k - 1]]}
           G == {m \in 0..n : Runs(m) # {}}
<1>1. 0 \in G
  <2>1. [j \in 0..0 |-> base] \in Runs(0)
    OBVIOUS
  <2> QED BY <2>1
<1>2. ASSUME NEW k \in 1..n, k - 1 \in G PROVE k \in G
  <2>1. PICK g \in [0..(k-1) -> S] : g[0] = base /\ \A j \in 1..(k-1) : g[j] = step[j][g[j - 1]]
    BY <1>2
  <2>2. PICK x : x = step[k][g[k - 1]]
    OBVIOUS
  <2>3. x \in S
    BY <2>1, <2>2
  <2>4. PICK h : h = [j \in 0..k |-> IF j = k THEN x ELSE g[j]]
    BY Zenon
  <2>5. h \in [0..k -> S]
    BY <2>1, <2>3, <2>4
  <2>6. h[0] = base
    BY <2>1, <2>4
  <2>7. ASSUME NEW j \in 1..k PROVE h[j] = step[j][h[j - 1]]
    <3>1. CASE j = k
      BY <2>2, <2>4, <3>1
    <3>2. CASE j # k
      BY <2>1, <2>4, <3>2
    <3> QED BY <3>1, <3>2
  <2>8. h \in Runs(k)
    BY <2>5, <2>6, <2>7
  <2> QED BY <2>8
<1> HIDE DEF G
<1>3. n \in G
  <2>1. \A k \in 1..n : k - 1 \in G => k \in G
    BY <1>2
  <2>2. n \in 0..n
    OBVIOUS
  <2> QED BY <1>1, <2>1, <2>2, LoopInduction, Zenon
<1> QED BY <1>3 DEF G, RunsOf

\* FlattenSeq, round by round.
LEMMA FlattenLoop ==
    ASSUME NEW T, NEW ss \in Seq(Seq(T))
    PROVE  \E f : /\ FlattenSeq(ss) = f[Len(ss)] /\ f[0] = <<>>
                  /\ \A k \in 1..Len(ss) : f[k] = f[k - 1] \o ss[k]
<1>1. PICK n \in Nat : n = Len(ss)
  OBVIOUS
<1>2. PICK S : S = Seq(T)
  OBVIOUS
<1>3. PICK step : step = [k \in 1..n |-> [l \in S |-> l \o ss[k]]]
  BY Zenon
<1>4. step \in [1..n -> [S -> S]] /\ <<>> \in S
  BY <1>1, <1>2, <1>3
<1>5. PICK g \in [0..n -> S] : g[0] = <<>> /\ \A k \in 1..n : g[k] = step[k][g[k - 1]]
  <2>1. RunsOf(S, n, <<>>, step) # {}
    BY <1>4, LoopRuns, Zenon
  <2> QED BY <2>1 DEF RunsOf
<1>6. \A k \in 1..n : g[k - 1] \in S
  BY <1>5
<1>7. \A k \in 1..n : g[k] = g[k - 1] \o ss[k]
  BY <1>3, <1>5, <1>6, Zenon
<1>8. PICK h : h = [k \in 0 .. n |-> IF k = 0 THEN <<>> ELSE g[k - 1] \o ss[k]]
  BY Zenon
<1>9. ASSUME NEW k \in 0..n PROVE h[k] = g[k]
  <2>1. h[k] = IF k = 0 THEN <<>> ELSE g[k - 1] \o ss[k]
    BY <1>8
  <2>2. CASE k = 0
    BY <1>5, <2>1, <2>2
  <2>3. CASE k # 0
    <3>1. k \in 1..n
      BY <2>3
    <3> QED BY <1>7, <2>1, <2>3, <3>1, Zenon
  <2> QED BY <2>2, <2>3
<1>10. h = g
  BY <1>5, <1>8, <1>9, Zenon
<1>11. g = [k \in 0 .. n |-> IF k = 0 THEN <<>> ELSE g[k - 1] \o ss[k]]
  BY <1>8, <1>10
<1>12. PICK f : /\ FlattenSeq(ss) = f[n]
                /\ f = [k \in 0 .. n |-> IF k = 0 THEN <<>> ELSE f[k - 1] \o ss[k]]
  BY <1>1, <1>11, Zenon DEF FlattenSeq
<1>13. \A k \in 0..n : f[k] = IF k = 0 THEN <<>> ELSE f[k - 1] \o ss[k]
  BY <1>12, Zenon
<1>14. f[0] = <<>>
  BY <1>13
<1>15. \A k \in 1..n : k \in 0..n /\ k # 0
  OBVIOUS
<1>16. \A k \in 1..n : f[k] = f[k - 1] \o ss[k]
  BY <1>13, <1>15, Zenon
<1> QED BY <1>1, <1>12, <1>14, <1>16, Zenon

\* "list" has the elements of the first m lists of "ss", which have at most one
\* element each: position k of "list" comes from list o[k].
Sieves(o, list, ss, m) ==
    /\ o \in [1..Len(list) -> 1..m]
    /\ \A k \in 1..Len(list) : Len(ss[o[k]]) = 1 /\ list[k] = ss[o[k]][1]
    /\ \A k, l \in 1..Len(list) : o[k] = o[l] => k = l
    /\ \A i \in 1..m : Len(ss[i]) = 1 => \E k \in 1..Len(list) : o[k] = i

\* One more list without an element, or with one.
LEMMA SieveNone ==
    ASSUME NEW T, NEW ss \in Seq(Seq(T)), NEW list \in Seq(T), NEW m \in Nat, NEW o, Sieves(o, list, ss, m),
           ss[m + 1] = <<>>
    PROVE  Sieves(o, list, ss, m + 1)
<1>1. o \in [1..Len(list) -> 1..(m + 1)]
  BY DEF Sieves
<1>2. ASSUME NEW i \in 1..(m + 1), Len(ss[i]) = 1 PROVE i \in 1..m
  <2>1. i # m + 1
    <3>1. Len(<<>>) # 1
      OBVIOUS
    <3> QED BY <1>2, <3>1, Zenon
  <2> QED BY <2>1
<1> QED BY <1>1, <1>2 DEF Sieves

LEMMA SieveOne ==
    ASSUME NEW T, NEW ss \in Seq(Seq(T)), NEW list \in Seq(T), NEW m \in Nat, NEW o, Sieves(o, list, ss, m),
           NEW x \in T, ss[m + 1] = <<x>>
    PROVE  \E p : Sieves(p, Append(list, x), ss, m + 1)
<1>1. PICK n \in Nat : n = Len(list)
  OBVIOUS
<1>2. PICK t : t = Append(list, x)
  BY Zenon
<1>3. Len(t) = n + 1 /\ t[n + 1] = x /\ \A k \in 1..n : t[k] = list[k]
  BY <1>1, <1>2
<1>4. PICK p : p = [k \in 1..(n + 1) |-> IF k = n + 1 THEN m + 1 ELSE o[k]]
  BY Zenon
<1>5. /\ o \in [1..n -> 1..m]
      /\ \A k \in 1..n : Len(ss[o[k]]) = 1 /\ list[k] = ss[o[k]][1]
      /\ \A k, l \in 1..n : o[k] = o[l] => k = l
      /\ \A i \in 1..m : Len(ss[i]) = 1 => \E k \in 1..n : o[k] = i
  BY <1>1 DEF Sieves
<1>6. p[n + 1] = m + 1 /\ \A k \in 1..n : p[k] = o[k] /\ p[k] \in 1..m /\ p[k] # m + 1
  BY <1>4, <1>5
<1>7. \A k \in 1..(n + 1) : k = n + 1 \/ k \in 1..n
  OBVIOUS
<1>8. p \in [1..(n + 1) -> 1..(m + 1)]
  <2>1. DOMAIN p = 1..(n + 1) /\ p = [k \in DOMAIN p |-> p[k]]
    BY <1>4
  <2>2. m + 1 \in 1..(m + 1) /\ \A i \in 1..m : i \in 1..(m + 1)
    OBVIOUS
  <2>3. \A k \in 1..(n + 1) : p[k] \in 1..(m + 1)
    BY <1>6, <1>7, <2>2
  <2> QED BY <2>1, <2>3
<1>9. ASSUME NEW k \in 1..(n + 1) PROVE Len(ss[p[k]]) = 1 /\ t[k] = ss[p[k]][1]
  <2>1. CASE k = n + 1
    <3>1. p[k] = m + 1 /\ t[k] = x
      BY <1>3, <1>6, <2>1
    <3>2. Len(<<x>>) = 1 /\ <<x>>[1] = x
      OBVIOUS
    <3> QED BY <3>1, <3>2, Zenon
  <2>2. CASE k \in 1..n
    BY <1>3, <1>5, <1>6, <2>2
  <2> QED BY <1>7, <2>1, <2>2
<1>10. ASSUME NEW k \in 1..(n + 1), NEW l \in 1..(n + 1), p[k] = p[l] PROVE k = l
  <2>1. CASE k = n + 1
    BY <1>6, <1>7, <1>10, <2>1
  <2>2. CASE k \in 1..n /\ l = n + 1
    BY <1>6, <1>10, <2>2
  <2>3. CASE k \in 1..n /\ l \in 1..n
    BY <1>5, <1>6, <1>10, <2>3
  <2> QED BY <1>7, <2>1, <2>2, <2>3
<1>11. ASSUME NEW i \in 1..(m + 1), Len(ss[i]) = 1 PROVE \E k \in 1..(n + 1) : p[k] = i
  <2>1. CASE i = m + 1
    BY <1>6, <2>1
  <2>2. CASE i # m + 1
    <3>1. i \in 1..m
      BY <2>2
    <3>2. PICK k \in 1..n : o[k] = i
      BY <1>5, <1>11, <3>1
    <3>3. k \in 1..(n + 1)
      OBVIOUS
    <3> QED BY <1>6, <3>2, <3>3, Zenon
  <2> QED BY <2>1, <2>2
<1>12. Sieves(p, t, ss, m + 1)
  BY <1>3, <1>8, <1>9, <1>10, <1>11, Zenon DEF Sieves
<1> QED BY <1>2, <1>12, Zenon

LEMMA AtMostOne ==
    ASSUME NEW T, NEW t \in Seq(T), Len(t) =< 1
    PROVE  t = <<>> \/ \E x \in T : t = <<x>>
<1>1. CASE Len(t) = 0
  BY <1>1
<1>2. CASE Len(t) = 1
  <2>1. t[1] \in T /\ t = <<t[1]>>
    BY <1>2
  <2> QED BY <2>1
<1>3. Len(t) \in Nat /\ (Len(t) = 0 \/ Len(t) = 1)
  OBVIOUS
<1> QED BY <1>1, <1>2, <1>3, Zenon

\* The lists of a list that have at most one element each, one after the other: a
\* filter, or a translation that gives at most one rule for a rule.
LEMMA Sieved ==
    ASSUME NEW T, NEW ss \in Seq(Seq(T)), \A i \in 1..Len(ss) : Len(ss[i]) =< 1
    PROVE  /\ FlattenSeq(ss) \in Seq(T)
           /\ \E o : Sieves(o, FlattenSeq(ss), ss, Len(ss))
<1>1. PICK f : /\ FlattenSeq(ss) = f[Len(ss)] /\ f[0] = <<>>
               /\ \A k \in 1..Len(ss) : f[k] = f[k - 1] \o ss[k]
  BY FlattenLoop, Zenon
<1> DEFINE G == {k \in 0..Len(ss) : f[k] \in Seq(T) /\ \E o : Sieves(o, f[k], ss, k)}
<1>2. 0 \in G
  <2>1. [k \in 1..0 |-> k] \in [1..Len(<<>>) -> 1..0]
    OBVIOUS
  <2>2. Sieves([k \in 1..0 |-> k], <<>>, ss, 0)
    BY <2>1 DEF Sieves
  <2>3. <<>> \in Seq(T) /\ 0 \in 0..Len(ss)
    OBVIOUS
  <2> QED BY <1>1, <2>2, <2>3, Zenon
<1>3. ASSUME NEW k \in 1..Len(ss), k - 1 \in G PROVE k \in G
  <2>1. PICK m \in Nat : m = k - 1 /\ k = m + 1
    OBVIOUS
  <2>2. PICK o : f[m] \in Seq(T) /\ Sieves(o, f[m], ss, m)
    <3>1. f[k - 1] \in Seq(T) /\ \E o : Sieves(o, f[k - 1], ss, k - 1)
      BY <1>3, Zenon
    <3> QED BY <2>1, <3>1
  <2>3. f[k] = f[m] \o ss[k] /\ ss[k] \in Seq(T) /\ Len(ss[k]) =< 1
    <3>1. f[k] = f[k - 1] \o ss[k]
      BY <1>1, Zenon
    <3>2. ss[k] \in Seq(T) /\ Len(ss[k]) =< 1
      OBVIOUS
    <3> QED BY <2>1, <3>1, <3>2
  <2>4. k \in 0..Len(ss)
    OBVIOUS
  <2>5. CASE ss[k] = <<>>
    <3>1. f[k] = f[m]
      BY <2>2, <2>3, <2>5
    <3>2. Sieves(o, f[m], ss, m + 1)
      BY <2>1, <2>2, <2>5, SieveNone
    <3> QED BY <2>1, <2>2, <2>4, <3>1, <3>2, Zenon
  <2>6. ASSUME NEW x \in T, ss[k] = <<x>> PROVE k \in G
    <3>1. f[k] = Append(f[m], x)
      BY <2>2, <2>3, <2>6
    <3>2. \E p : Sieves(p, Append(f[m], x), ss, m + 1)
      BY <2>1, <2>2, <2>6, SieveOne
    <3>3. f[k] \in Seq(T)
      BY <2>2, <3>1
    <3> QED BY <2>1, <2>4, <3>1, <3>2, <3>3, Zenon
  <2> QED BY <2>3, <2>5, <2>6, AtMostOne, Zenon
<1> HIDE DEF G
<1>4. Len(ss) \in G
  <2>1. Len(ss) \in Nat /\ Len(ss) \in 0..Len(ss)
    OBVIOUS
  <2> QED BY <1>2, <1>3, <2>1, LoopInduction, Zenon
<1> QED BY <1>1, <1>4, Zenon DEF G

\* What cannot be numbered from 1 to n without giving a number twice is more than n.
LEMMA Pigeons ==
    ASSUME NEW m \in Nat, NEW n \in Nat, NEW f \in [1..m -> 1..n], IsInjective(f)
    PROVE  m =< n
<1> DEFINE Fits(k) == \A i \in Nat : \A g \in [1..i -> 1..k] : IsInjective(g) => i =< k
           G == {k \in Nat : Fits(k)}
<1>1. 0 \in G
  <2>1. SUFFICES ASSUME NEW i \in Nat, NEW g \in [1..i -> 1..0] PROVE i =< 0
    OBVIOUS
  <2>2. SUFFICES ASSUME i > 0 PROVE FALSE
    OBVIOUS
  <2>3. 1 \in 1..i /\ g[1] \in 1..0
    BY <2>1, <2>2
  <2> QED BY <2>3
<1>2. ASSUME NEW k \in 1..n, k - 1 \in G PROVE k \in G
  <2>1. SUFFICES ASSUME NEW i \in Nat, NEW g \in [1..i -> 1..k], IsInjective(g), i > 0
                 PROVE  i =< k
    OBVIOUS
  <2>2. PICK j \in Nat : j = i - 1 /\ 1..j \subseteq 1..i /\ i \in 1..i /\ i \notin 1..j
    BY <2>1
  <2>3. PICK h : h = [x \in 1..j |-> IF g[x] = k THEN g[i] ELSE g[x]]
    BY Zenon
  <2>4. \A x \in 1..i, y \in 1..i : g[x] = g[y] => x = y
    BY <2>1, Zenon DEF IsInjective
  <2>5. \A x \in 1..i : g[x] \in 1..k
    BY <2>1, Zenon
  <2>6. \A x \in 1..j : g[x] # g[i]
    BY <2>2, <2>4, Zenon
  <2>7. h \in [1..j -> 1..(k - 1)]
    <3>1. SUFFICES ASSUME NEW x \in 1..j PROVE h[x] \in 1..(k - 1)
      BY <2>3, Zenon
    <3>2. h[x] # k /\ h[x] \in 1..k
      BY <2>2, <2>3, <2>5, <2>6, Zenon
    <3> QED BY <3>2
  <2>8. IsInjective(h)
    <3>1. SUFFICES ASSUME NEW x \in 1..j, NEW y \in 1..j, h[x] = h[y] PROVE x = y
      BY <2>3, Zenon DEF IsInjective
    <3>2. h[x] = (IF g[x] = k THEN g[i] ELSE g[x]) /\ h[y] = (IF g[y] = k THEN g[i] ELSE g[y])
      BY <2>3, Zenon
    <3>3. g[x] = g[y]
      BY <2>6, <3>1, <3>2, Zenon
    <3> QED BY <2>2, <2>4, <3>3, Zenon
  <2>9. Fits(k - 1) /\ k - 1 \in Nat
    BY <1>2
  <2> HIDE DEF Fits
  <2>10. j =< k - 1
    BY <2>7, <2>8, <2>9, Zenon DEF Fits
  <2> QED BY <2>2, <2>10
<1> HIDE DEF G
<1>3. n \in G
  <2>1. \A k \in 1..n : k - 1 \in G => k \in G
    BY <1>2
  <2>2. \A k \in 0..n : k \in G
    BY <1>1, <2>1, LoopInduction, Zenon
  <2> QED BY <2>2
<1>4. Fits(n)
  BY <1>3 DEF G
<1> QED BY <1>4, Zenon
=============================================================================
