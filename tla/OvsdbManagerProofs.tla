------------------------ MODULE OvsdbManagerProofs ------------------------
(***************************************************************************)
(* The ports of an LSI have different OpenFlow numbers, and LSI-0 keeps    *)
(* its physical ports whatever call is refused or lost, for any ports,     *)
(* links and number of failures.                                           *)
(***************************************************************************)
EXTENDS OvsdbManager, ListOpsProofs, FiniteSetTheorems

Typed ==
    /\ rnumber \in Nat /\ uuids \in Nat
    /\ uuid \in [Dpids -> [Lists -> Seq(Nat)]]
    /\ DOMAIN ports = Dpids

\* The uuids of the lists were given by the database.
Given == \A d \in Dpids : \A u \in Known(uuid[d]) : u \in Nat /\ u < uuids

\* A port has a number that was used; only a port whose uuid was not learnt may have the
\* one that is used next.
Numbered ==
    \A d \in Dpids : \A x \in ports[d] :
        /\ x.uuid \in Nat /\ x.uuid < uuids
        /\ x.of \in Nat /\ x.of <= rnumber
        /\ x.uuid \in Known(uuid[d]) => x.of < rnumber

IInv == Typed /\ Given /\ Numbered /\ NumbersUnique

\* Fewer uuids and fewer ports: nothing can go wrong.
LEMMA Shrink ==
    ASSUME IInv,
           rnumber' = rnumber, uuids' = uuids,
           uuid' \in [Dpids -> [Lists -> Seq(Nat)]], DOMAIN ports' = Dpids,
           \A d \in Dpids : Known(uuid[d])' \subseteq Known(uuid[d]),
           \A d \in Dpids : ports'[d] \subseteq ports[d]
    PROVE  IInv'
BY DEF IInv, Typed, Given, Numbered, NumbersUnique

\* What a list is after a uuid is appended, or erased.
LEMMA AppendKnown ==
    ASSUME NEW us \in [Lists -> Seq(Nat)], NEW l, NEW u \in Nat,
           NEW vs, vs = [us EXCEPT ![l] = Append(@, u)]
    PROVE  vs \in [Lists -> Seq(Nat)] /\ Known(vs) \subseteq Known(us) \cup {u}
<1>1. vs \in [Lists -> Seq(Nat)]
  <2>1. \A k \in Lists : vs[k] \in Seq(Nat)
    <3> SUFFICES ASSUME NEW k \in Lists PROVE vs[k] \in Seq(Nat)
      OBVIOUS
    <3>1. CASE k = l
      <4>1. vs[k] = Append(us[k], u)
        BY <3>1
      <4> QED BY <4>1
    <3>2. CASE k # l
      BY <3>2
    <3> QED BY <3>1, <3>2
  <2> QED BY <2>1, Zenon
<1>2. ASSUME NEW k \in Lists PROVE Range(vs[k]) \subseteq Range(us[k]) \cup {u}
  <2>1. CASE k = l
    BY <2>1 DEF Range
  <2>2. CASE k # l
    BY <2>2 DEF Range
  <2> QED BY <2>1, <2>2
<1> QED BY <1>1, <1>2 DEF Known

LEMMA EraseKnown ==
    ASSUME NEW us \in [Lists -> Seq(Nat)], NEW l, NEW i,
           NEW vs, vs = [us EXCEPT ![l] = EraseAt(@, i)]
    PROVE  vs \in [Lists -> Seq(Nat)] /\ Known(vs) \subseteq Known(us)
<1>1. ASSUME NEW s \in Seq(Nat)
      PROVE  EraseAt(s, i) \in Seq(Nat) /\ Range(EraseAt(s, i)) \subseteq Range(s)
  <2>1. CASE i \in DOMAIN s
    <3>1. i \in 1..Len(s) /\ EraseAt(s, i) = RemoveAt(s, i)
      BY <2>1 DEF EraseAt
    <3>2. RemoveAt(s, i) \in Seq(Nat) /\ Range(RemoveAt(s, i)) \subseteq Range(s)
      BY <3>1, Erasure, ErasedSet
    <3> QED BY <3>1, <3>2
  <2>2. CASE i \notin DOMAIN s
    BY <2>2 DEF EraseAt
  <2> QED BY <2>1, <2>2
<1>2. vs \in [Lists -> Seq(Nat)]
  BY <1>1, Zenon
<1>3. ASSUME NEW k \in Lists PROVE Range(vs[k]) \subseteq Range(us[k])
  BY <1>1
<1> QED BY <1>2, <1>3 DEF Known

LEMMA InitIInv == Init => IInv
<1> SUFFICES ASSUME Init PROVE IInv
  OBVIOUS
<1>1. Empty \in [Lists -> Seq(Nat)] /\ Known(Empty) = {}
  BY DEF Empty, Known, Range
<1>2. \A d \in Dpids : uuid[d] = Empty
  BY DEF Init
<1> QED BY <1>1, <1>2 DEF Init, IInv, Typed, Given, Numbered, NumbersUnique

\* A call that is answered: the ports that stay have smaller numbers.
LEMMA AnsweredStep == IInv /\ Answered => IInv'
<1> SUFFICES ASSUME IInv, Answered PROVE IInv'
  OBVIOUS
<1> USE DEF IInv, Typed
<1>1. /\ uuid' = [uuid EXCEPT ![c.at][c.list] = Append(@, uuids)]
      /\ ports' = [ports EXCEPT ![c.at] = Replaced(c.at, uuid[c.at]) \cup {NewPort}]
      /\ rnumber' = rnumber + 1 /\ uuids' = uuids + 1
  BY DEF Answered
<1>2. /\ uuid' \in [Dpids -> [Lists -> Seq(Nat)]]
      /\ \A d \in Dpids : Known(uuid'[d]) \subseteq Known(uuid[d]) \cup {uuids}
  <2>1. ASSUME NEW d \in Dpids
        PROVE  uuid'[d] \in [Lists -> Seq(Nat)] /\ Known(uuid'[d]) \subseteq Known(uuid[d]) \cup {uuids}
    <3>1. CASE d = c.at
      <4>1. uuid'[d] = [uuid[d] EXCEPT ![c.list] = Append(@, uuids)]
        BY <1>1, <3>1, Zenon
      <4> QED BY <4>1, AppendKnown, Zenon
    <3>2. CASE d # c.at
      BY <1>1, <3>2
    <3> QED BY <3>1, <3>2
  <2> QED BY <1>1, <2>1, Zenon
<1>3. Given'
  <2> SUFFICES ASSUME NEW d \in Dpids, NEW u \in Known(uuid'[d]) PROVE u \in Nat /\ u < uuids'
    BY DEF Given
  <2>1. u \in Known(uuid[d]) \/ u = uuids
    BY <1>2
  <2> QED BY <1>1, <2>1 DEF Given
<1>4. ASSUME NEW d \in Dpids, d # c.at PROVE ports'[d] = ports[d] /\ uuid'[d] = uuid[d]
  BY <1>1, <1>4
<1>5. ASSUME NEW d \in Dpids, d = c.at
      PROVE  ports'[d] = {x \in ports[d] : x.uuid \in Known(uuid[d])} \cup {NewPort}
  BY <1>1, <1>5 DEF Replaced
<1>6. NewPort.uuid = uuids /\ NewPort.of = rnumber
  BY DEF NewPort
<1>7. Numbered'
  <2> SUFFICES ASSUME NEW d \in Dpids, NEW x \in ports'[d]
               PROVE  /\ x.uuid \in Nat /\ x.uuid < uuids'
                      /\ x.of \in Nat /\ x.of <= rnumber'
                      /\ x.uuid \in Known(uuid'[d]) => x.of < rnumber'
    BY Zenon DEF Numbered
  <2>1. x \in ports[d] \/ x = NewPort
    BY <1>4, <1>5
  <2>2. CASE x \in ports[d]
    BY <1>1, <2>2 DEF Numbered
  <2>3. CASE x = NewPort
    BY <1>1, <1>6, <2>3
  <2> QED BY <2>1, <2>2, <2>3
<1>8. NumbersUnique'
  <2> SUFFICES ASSUME NEW d \in Dpids, NEW x \in ports'[d], NEW y \in ports'[d], x.of = y.of
               PROVE  x = y
    BY Zenon DEF NumbersUnique
  <2>1. CASE d # c.at
    BY <1>4, <2>1 DEF NumbersUnique
  <2>2. CASE d = c.at
    <3>1. \A z \in ports'[d] : z = NewPort \/ (z \in ports[d] /\ z.of \in Nat /\ z.of < rnumber)
      BY <1>5, <2>2 DEF Numbered
    <3> QED BY <1>6, <3>1 DEF NumbersUnique
  <2> QED BY <2>1, <2>2
<1>9. Typed'
  <2>1. rnumber' \in Nat /\ uuids' \in Nat
    BY <1>1
  <2>2. DOMAIN ports' = Dpids
    BY <1>1, Zenon
  <2> QED BY <1>2, <2>1, <2>2
<1> QED BY <1>3, <1>7, <1>8, <1>9

\* A call that is refused: the uuid that is noted belongs to no port.
LEMMA RefusedStep == IInv /\ Refused => IInv'
<1> SUFFICES ASSUME IInv, Refused PROVE IInv'
  OBVIOUS
<1> USE DEF IInv, Typed
<1>1. /\ uuid' = [uuid EXCEPT ![c.at][c.list] = Append(@, uuids)]
      /\ ports' = ports /\ rnumber' = rnumber /\ uuids' = uuids + 1
  BY DEF Refused
<1>2. /\ uuid' \in [Dpids -> [Lists -> Seq(Nat)]]
      /\ \A d \in Dpids : Known(uuid'[d]) \subseteq Known(uuid[d]) \cup {uuids}
  <2>1. ASSUME NEW d \in Dpids
        PROVE  uuid'[d] \in [Lists -> Seq(Nat)] /\ Known(uuid'[d]) \subseteq Known(uuid[d]) \cup {uuids}
    <3>1. CASE d = c.at
      <4>1. uuid'[d] = [uuid[d] EXCEPT ![c.list] = Append(@, uuids)]
        BY <1>1, <3>1, Zenon
      <4> QED BY <4>1, AppendKnown, Zenon
    <3>2. CASE d # c.at
      BY <1>1, <3>2
    <3> QED BY <3>1, <3>2
  <2> QED BY <1>1, <2>1, Zenon
<1>3. Given'
  <2> SUFFICES ASSUME NEW d \in Dpids, NEW u \in Known(uuid'[d]) PROVE u \in Nat /\ u < uuids'
    BY DEF Given
  <2>1. u \in Known(uuid[d]) \/ u = uuids
    BY <1>2
  <2> QED BY <1>1, <2>1 DEF Given
<1>4. Numbered'
  <2> SUFFICES ASSUME NEW d \in Dpids, NEW x \in ports[d]
               PROVE  /\ x.uuid \in Nat /\ x.uuid < uuids + 1
                      /\ x.of \in Nat /\ x.of <= rnumber
                      /\ x.uuid \in Known(uuid'[d]) => x.of < rnumber
    BY <1>1, Zenon DEF Numbered
  <2>1. x.uuid \in Known(uuid'[d]) => x.uuid \in Known(uuid[d]) \/ x.uuid = uuids
    BY <1>2
  <2> QED BY <2>1 DEF Numbered
<1>5. Typed'
  <2>1. rnumber' \in Nat /\ uuids' \in Nat /\ DOMAIN ports' = Dpids
    BY <1>1
  <2> QED BY <1>2, <2>1
<1>6. NumbersUnique'
  BY <1>1, Zenon DEF NumbersUnique
<1> QED BY <1>3, <1>4, <1>5, <1>6

\* A call whose answer is lost: its port has the number that is used next, and the others
\* have smaller ones.
LEMMA LostStep == IInv /\ AnswerLost => IInv'
<1> SUFFICES ASSUME IInv, AnswerLost PROVE IInv'
  OBVIOUS
<1> USE DEF IInv, Typed
<1>1. /\ uuid' = uuid /\ rnumber' = rnumber /\ uuids' = uuids + 1
      /\ ports' = [ports EXCEPT ![c.at] = Replaced(c.at, uuid[c.at]) \cup {NewPort}]
  BY DEF AnswerLost
<1>2. Given'
  BY <1>1 DEF Given
<1>3. ASSUME NEW d \in Dpids, d # c.at PROVE ports'[d] = ports[d]
  BY <1>1, <1>3
<1>4. ASSUME NEW d \in Dpids, d = c.at
      PROVE  ports'[d] = {x \in ports[d] : x.uuid \in Known(uuid[d])} \cup {NewPort}
  BY <1>1, <1>4 DEF Replaced
<1>5. NewPort.uuid = uuids /\ NewPort.of = rnumber
  BY DEF NewPort
<1>6. \A d \in Dpids : uuids \notin Known(uuid[d])
  BY DEF Given
<1>7. Numbered'
  <2> SUFFICES ASSUME NEW d \in Dpids, NEW x \in ports'[d]
               PROVE  /\ x.uuid \in Nat /\ x.uuid < uuids'
                      /\ x.of \in Nat /\ x.of <= rnumber'
                      /\ x.uuid \in Known(uuid'[d]) => x.of < rnumber'
    BY Zenon DEF Numbered
  <2>1. x \in ports[d] \/ x = NewPort
    BY <1>3, <1>4
  <2>2. CASE x \in ports[d]
    BY <1>1, <2>2 DEF Numbered
  <2>3. CASE x = NewPort
    BY <1>1, <1>5, <1>6, <2>3
  <2> QED BY <2>1, <2>2, <2>3
<1>8. NumbersUnique'
  <2> SUFFICES ASSUME NEW d \in Dpids, NEW x \in ports'[d], NEW y \in ports'[d], x.of = y.of
               PROVE  x = y
    BY Zenon DEF NumbersUnique
  <2>1. CASE d # c.at
    BY <1>3, <2>1 DEF NumbersUnique
  <2>2. CASE d = c.at
    <3>1. \A z \in ports'[d] : z = NewPort \/ (z \in ports[d] /\ z.of \in Nat /\ z.of < rnumber)
      BY <1>4, <2>2 DEF Numbered
    <3> QED BY <1>5, <3>1 DEF NumbersUnique
  <2> QED BY <2>1, <2>2
<1>9. Typed'
  BY <1>1
<1> QED BY <1>2, <1>7, <1>8, <1>9

\* A name that is deleted: fewer uuids, and no more ports.
LEMMA EraseNameEffect ==
    ASSUME IInv, EraseName
    PROVE  /\ uuid' \in [Dpids -> [Lists -> Seq(Nat)]]
           /\ \A d \in Dpids : Known(uuid'[d]) \subseteq Known(uuid[d])
<1> USE DEF IInv, Typed
<1>1. CASE uuid' = uuid
  BY <1>1
<1>2. CASE uuid' # uuid
  <2> DEFINE i == Place(CNames, c.name)
  <2>1. uuid' = [uuid EXCEPT ![c.at][c.list] = EraseAt(@, i)]
    BY <1>2 DEF EraseName
  <2>2. ASSUME NEW d \in Dpids
        PROVE  uuid'[d] \in [Lists -> Seq(Nat)] /\ Known(uuid'[d]) \subseteq Known(uuid[d])
    <3>1. CASE d = c.at
      <4>1. uuid'[d] = [uuid[d] EXCEPT ![c.list] = EraseAt(@, i)]
        BY <2>1, <3>1
      <4> QED BY <4>1, EraseKnown, Zenon
    <3>2. CASE d # c.at
      BY <2>1, <3>2
    <3> QED BY <3>1, <3>2
  <2> QED BY <2>1, <2>2, Zenon
<1> QED BY <1>1, <1>2

LEMMA ReplaceEffect ==
    ASSUME IInv, NEW d, Replace(d)
    PROVE  DOMAIN ports' = Dpids /\ \A e \in Dpids : ports'[e] \subseteq ports[e]
BY DEF IInv, Typed, Replace, Replaced

LEMMA ForgetEffect ==
    ASSUME IInv, Forget
    PROVE  /\ uuid' \in [Dpids -> [Lists -> Seq(Nat)]]
           /\ \A d \in Dpids : Known(uuid'[d]) \subseteq Known(uuid[d])
<1> USE DEF IInv, Typed
<1>1. uuid' = [uuid EXCEPT ![cur] = [Empty EXCEPT !.gport = uuid[cur].gport]]
  BY DEF Forget
<1>2. ASSUME NEW d \in Dpids
      PROVE  uuid'[d] \in [Lists -> Seq(Nat)] /\ Known(uuid'[d]) \subseteq Known(uuid[d])
  <2>1. CASE d = cur
    <3>1. /\ uuid'[d] = [Empty EXCEPT !["gport"] = uuid[d]["gport"]]
          /\ uuid[d]["gport"] \in Seq(Nat)
      BY <1>1, <2>1 DEF Lists
    <3>2. \A l \in Lists : uuid'[d][l] = IF l = "gport" THEN uuid[d][l] ELSE <<>>
      BY <3>1 DEF Empty
    <3>3. uuid'[d] \in [Lists -> Seq(Nat)]
      <4>1. ASSUME NEW l \in Lists PROVE uuid'[d][l] \in Seq(Nat)
        <5>1. CASE l = "gport"
          BY <3>1, <3>2, <5>1
        <5>2. CASE l # "gport"
          <6>1. uuid'[d][l] = <<>>
            BY <3>2, <5>2
          <6> QED BY <6>1
        <5> QED BY <5>1, <5>2
      <4>2. uuid'[d] = [l \in Lists |-> uuid'[d][l]]
        BY <3>1 DEF Empty
      <4> QED BY <4>1, <4>2
    <3>4. Range(<<>>) = {}
      BY DEF Range
    <3>5. \A l \in Lists : Range(uuid'[d][l]) \subseteq Range(uuid[d][l])
      <4> SUFFICES ASSUME NEW l \in Lists PROVE Range(uuid'[d][l]) \subseteq Range(uuid[d][l])
        BY Zenon
      <4>1. uuid'[d][l] = uuid[d][l] \/ uuid'[d][l] = <<>>
        BY <3>2
      <4> QED BY <4>1, <3>4
    <3> QED BY <3>3, <3>5, Zenon DEF Known
  <2>2. CASE d # cur
    BY <1>1, <2>2
  <2> QED BY <2>1, <2>2
<1> QED BY <1>1, <1>2, Zenon

LEMMA SetBridgesEffect ==
    ASSUME SetBridges
    PROVE  DOMAIN ports' = Dpids /\ \A d \in Dpids : ports'[d] \subseteq ports[d]
BY DEF SetBridges

\* IInv is inductive: rnumber is not incremented for a port whose answer was lost, but the
\* next call for its LSI takes that port away.
THEOREM Inductive == IInv /\ [Next]_vars => IInv'
<1> SUFFICES ASSUME IInv, [Next]_vars PROVE IInv'
  OBVIOUS
<1>0. /\ uuid \in [Dpids -> [Lists -> Seq(Nat)]] /\ DOMAIN ports = Dpids
  BY DEF IInv, Typed
<1>1. CASE Answered
  BY <1>1, AnsweredStep
<1>2. CASE Refused
  BY <1>2, RefusedStep
<1>3. CASE AnswerLost
  BY <1>3, LostStep
<1>4. CASE UNCHANGED <<rnumber, uuids, uuid, ports>>
  BY <1>0, <1>4, Shrink
<1>5. CASE Delete
  <2>1. rnumber' = rnumber /\ uuids' = uuids /\ EraseName
    BY <1>5 DEF Delete, counters
  <2>2. DOMAIN ports' = Dpids /\ \A d \in Dpids : ports'[d] \subseteq ports[d]
    BY <1>0, <1>5, ReplaceEffect DEF Delete
  <2> QED BY <2>1, <2>2, EraseNameEffect, Shrink
<1>6. CASE DeleteFails
  <2>1. rnumber' = rnumber /\ uuids' = uuids
    BY <1>6 DEF DeleteFails, counters
  <2>2. /\ DOMAIN ports' = Dpids /\ \A d \in Dpids : ports'[d] \subseteq ports[d]
        /\ uuid' = uuid \/ EraseName
    BY <1>0, <1>6, ReplaceEffect DEF DeleteFails
  <2> QED BY <1>0, <2>1, <2>2, EraseNameEffect, Shrink
<1>7. CASE Destroyed
  <2>1. rnumber' = rnumber /\ uuids' = uuids /\ Forget /\ SetBridges
    BY <1>7 DEF Destroyed, counters
  <2> QED BY <2>1, ForgetEffect, SetBridgesEffect, Shrink
<1>8. CASE DestroyedFails
  <2>1. rnumber' = rnumber /\ uuids' = uuids /\ Forget
    BY <1>8 DEF DestroyedFails, counters
  <2>2. DOMAIN ports' = Dpids /\ \A d \in Dpids : ports'[d] \subseteq ports[d]
    BY <1>0, <1>8, SetBridgesEffect DEF DestroyedFails
  <2> QED BY <2>1, <2>2, ForgetEffect, Shrink
<1>9. CASE Requests
  BY <1>9, <1>4, ZenonT(60) DEF Requests, CreateLsi, AddNFPorts, StartAdd, AddEndpoint, AddVirtualLink,
     DestroyNFPorts, DestroyEndpoint, DestroyPorts, DestroyVirtualLink, DestroyLsi, counters, database
<1>10. CASE SendFails \/ ConnectFails
  BY <1>10, <1>4 DEF SendFails, ConnectFails, database
<1>11. CASE InsertBridge \/ InsertBridgeFails \/ LocalsMade \/ ReconnectFails \/ Created
  BY <1>11, <1>4 DEF InsertBridge, InsertBridgeFails, LocalsMade, ReconnectFails, Created, counters, database
<1>12. CASE Added \/ LinkAdded \/ PastEnd \/ PortsDestroyed \/ Unlinked
  BY <1>12, <1>4 DEF Added, LinkAdded, PastEnd, PortsDestroyed, Unlinked, counters, database
<1>13. CASE UNCHANGED vars
  BY <1>13, <1>4 DEF vars, counters, database
<1> QED
  BY <1>1, <1>2, <1>3, <1>5, <1>6, <1>7, <1>8, <1>9, <1>10, <1>11, <1>12, <1>13 DEF Next, Calls

\* The ports of one LSI always have different OpenFlow numbers.
THEOREM NumbersAlwaysUnique == Spec => []NumbersUnique
<1>1. IInv => NumbersUnique
  BY DEF IInv
<1> QED BY <1>1, InitIInv, Inductive, PTL DEF Spec

-----------------------------------------------------------------------------
\* The physical ports

\* LSI-0 has the ports of S, with their names and numbers, and their uuids are in port_uuid.
PhysIn(S) ==
    \A p \in S : \E x \in ports[LSI0] :
        x.name = p[1] /\ x.of = p[2] /\ x.uuid \in Range(uuid[LSI0]["port"])

PhyCallSet == {AddPhy(p) : p \in PhyPorts}

\* No call to delete is for a port of LSI-0, but for the ends of links.
SparesPhys(calls) ==
    calls \in Seq(Range(calls)) /\ \A x \in Range(calls) : x.at = LSI0 => x.list # "port"

\* LSI-0 is created first, and with physical ports only.
Booting ==
    /\ pc \in {"idle", "bridge", "create", "connect", "aborted"} /\ made = <<>> /\ PhysIn(got)
    /\ pc \in {"idle", "bridge", "create"} => dnumber = LSI0
    /\ pc \in {"idle", "bridge"} => got = {}
    /\ pc \in {"bridge", "create", "connect"} => cur = LSI0
    /\ pc \in {"bridge", "create"} => todo \in Seq(PhyCallSet)
    /\ pc \in {"create", "connect"} => LSI0 \in bridges \cap switch_uuid
    /\ pc = "connect" => todo = <<>> /\ dnumber > LSI0

\* Then no request is for LSI-0, and it has the physical ports.
Booted ==
    /\ LSI0 \in DOMAIN view /\ LSI0 \in bridges \cap switch_uuid /\ dnumber > LSI0
    /\ PhysIn(view[LSI0].ports)
    /\ pc \notin {"idle", "aborted"} => cur # LSI0
    /\ pc \in {"erase", "unlink", "destroy"} => SparesPhys(todo)

LinkTyped ==
    /\ dnumber \in Nat \ {0} /\ cur \in Dpids /\ DOMAIN view \subseteq Dpids
    /\ virtual_link_id \in [Dpids -> Seq(Int)]

PInv == LinkTyped /\ IF DOMAIN view = {} THEN Booting ELSE Booted

\* A list of the elements it has.
LEMMA OwnElements ==
    ASSUME NEW S, NEW s \in Seq(S) PROVE s \in Seq(Range(s)) /\ Range(s) \subseteq S
BY DEF Range

\* The calls that are left after the first one.
LEMMA SparesTail ==
    ASSUME NEW calls, SparesPhys(calls), calls # <<>>
    PROVE  /\ SparesPhys(Tail(calls))
           /\ Head(calls).at = LSI0 => Head(calls).list # "port"
<1>1. calls \in Seq(Range(calls)) /\ \A x \in Range(calls) : x.at = LSI0 => x.list # "port"
  BY DEF SparesPhys
<1>2. Tail(calls) \in Seq(Range(calls)) /\ Head(calls) \in Range(calls)
  BY <1>1
<1>3. Tail(calls) \in Seq(Range(Tail(calls))) /\ Range(Tail(calls)) \subseteq Range(calls)
  BY <1>2, OwnElements, Zenon
<1> QED BY <1>1, <1>2, <1>3, Zenon DEF SparesPhys

\* Erasing a place leaves a list.
LEMMA EraseSeq ==
    ASSUME NEW S, NEW s \in Seq(S), NEW i PROVE EraseAt(s, i) \in Seq(S)
<1>1. CASE i \in DOMAIN s
  BY <1>1, Erasure DEF EraseAt
<1>2. CASE i \notin DOMAIN s
  BY <1>2 DEF EraseAt
<1> QED BY <1>1, <1>2

LEMMA WithoutSeq ==
    ASSUME NEW S, NEW s \in Seq(S), NEW x PROVE Without(s, x) \in Seq(S)
<1>1. CASE x \in Range(s)
  <2>1. Len(s) \in Nat \ {0}
    BY <1>1 DEF Range
  <2>2. PICK i : i = Place(s, x)
    BY Zenon
  <2>3. \A j \in 1..(Len(s) - 1) : (IF j < i THEN s[j] ELSE s[j + 1]) \in S
    BY <2>1
  <2>4. RemoveAt(s, i) \in Seq(S)
    BY <2>1, <2>3 DEF RemoveAt
  <2> QED BY <1>1, <2>2, <2>4, Zenon DEF Without
<1>2. CASE x \notin Range(s)
  BY <1>2 DEF Without
<1> QED BY <1>1, <1>2

\* A finite set as a list.
LEMMA SetList ==
    ASSUME NEW S, IsFiniteSet(S)
    PROVE  SetToSeq(S) \in Seq(S) /\ (S = {} => SetToSeq(S) = <<>>)
<1>1. Cardinality(S) \in Nat
  BY FS_CardinalityType
<1>2. PICK f \in Bijection(1 .. Cardinality(S), S) : TRUE
  BY FS_CardinalityType, Zenon DEF ExistsBijection
<1>3. f \in [1 .. Cardinality(S) -> S] /\ IsInjective(f)
  BY <1>2, Zenon DEF Bijection, Injection
<1>4. SetToSeq(S) \in [1 .. Cardinality(S) -> S]
  BY <1>3, Zenon DEF SetToSeq, SetToSeqs
<1>5. SetToSeq(S) \in Seq(S)
  BY <1>1, <1>4
<1>6. ASSUME S = {} PROVE SetToSeq(S) = <<>>
  BY <1>5, <1>6
<1> QED BY <1>5, <1>6

\* What LSI-0 has to keep it keeps if no port with a uuid of port_uuid goes, and no such
\* uuid.
LEMMA PhysStay ==
    ASSUME NEW S, PhysIn(S),
           Range(uuid[LSI0]["port"]) \subseteq Range(uuid'[LSI0]["port"]),
           \A x \in ports[LSI0] : x.uuid \in Range(uuid[LSI0]["port"]) => x \in ports'[LSI0]
    PROVE  PhysIn(S)'
BY DEF PhysIn

\* LSI-0 has a place in all maps.
LEMMA LSI0Place == LSI0 \in Dpids
BY Bounds DEF LSI0, Dpids

\* destroyNFPorts and destroyEndpoint are called for other LSIs.
LEMMA DeletePorts ==
    ASSUME NEW d, d # LSI0, NEW list, NEW keys, IsFiniteSet(keys), DestroyPorts(d, list, keys)
    PROVE  pc' = "erase" /\ cur' = d /\ SparesPhys(todo')
<1> DEFINE s == SetToSeq(keys)
           calls == [i \in DOMAIN s |-> Del(d, list, s[i], i = 1, i = Len(s))]
<1>1. pc' = "erase" /\ cur' = d /\ todo' = calls
  BY Zenon DEF DestroyPorts
<1>2. s \in Seq(keys)
  BY SetList, Zenon
<1> HIDE DEF s
<1>3. \A i \in DOMAIN s : calls[i].at = d
  BY DEF Del
<1>4. calls = [i \in 1 .. Len(s) |-> calls[i]] /\ Len(s) \in Nat
  BY <1>2
<1> HIDE DEF calls
<1>5. calls \in Seq({calls[i] : i \in 1 .. Len(s)})
  BY <1>4
<1>6. DOMAIN s = 1 .. Len(s) /\ DOMAIN calls = 1 .. Len(s)
  BY <1>2, <1>4
<1>7. Range(calls) = {calls[i] : i \in 1 .. Len(s)}
  BY <1>6, Zenon DEF Range
<1>8. calls \in Seq(Range(calls)) /\ \A x \in Range(calls) : x.at = d
  BY <1>3, <1>5, <1>6, <1>7, Zenon
<1> QED BY <1>1, <1>8 DEF SparesPhys

\* The ends of a link are in the list vport_l.
LEMMA TwoEnds ==
    ASSUME NEW a, NEW b, a.list = "vport", b.list = "vport"
    PROVE  SparesPhys(<<a, b>>)
<1>1. Range(<<a, b>>) = {a, b}
  BY DEF Range
<1>2. <<a, b>> \in Seq({a, b})
  OBVIOUS
<1> QED BY <1>1, <1>2 DEF SparesPhys

\* So are all ends of the links of an LSI.
LEMMA EndsSparePhys ==
    ASSUME LinkTyped, NEW d \in Dpids PROVE SparesPhys(AllEnds(d))
<1> DEFINE n == 2 * Len(virtual_link_id[d])
<1>1. n \in Nat
  BY DEF LinkTyped
<1>2. DOMAIN AllEnds(d) = 1 .. n /\ \A k \in 1 .. n : AllEnds(d)[k].list = "vport"
  BY DEF AllEnds, DelEnd, Del
<1>3. AllEnds(d) = [k \in 1 .. n |-> AllEnds(d)[k]]
  BY DEF AllEnds
<1> HIDE DEF n
<1>4. AllEnds(d) \in Seq(Range(AllEnds(d))) /\ \A x \in Range(AllEnds(d)) : x.list = "vport"
  BY <1>1, <1>2, <1>3 DEF Range
<1> QED BY <1>4 DEF SparesPhys

\* A step leaves LSI-0 its ports with a uuid in port_uuid.
PortsStay ==
    /\ Range(uuid[LSI0]["port"]) \subseteq Range(uuid'[LSI0]["port"])
    /\ \A x \in ports[LSI0] : x.uuid \in Range(uuid[LSI0]["port"]) => x \in ports'[LSI0]

\* Nothing is changed in the lists and the database.
LEMMA QuietStays ==
    ASSUME UNCHANGED <<uuid, ports>> PROVE PortsStay
BY DEF PortsStay

\* Steps after LSI-0 is there.
LEMMA BootedStays ==
    ASSUME Booted, LinkTyped', PortsStay, LSI0 \in bridges' \cap switch_uuid', dnumber' > LSI0,
           LSI0 \in DOMAIN view', view'[LSI0].ports = view[LSI0].ports,
           pc' \notin {"idle", "aborted"} => cur' # LSI0,
           pc' \in {"erase", "unlink", "destroy"} => SparesPhys(todo')
    PROVE  PInv'
<1>1. PICK S : S = view[LSI0].ports
  BY Zenon
<1>2. PhysIn(S)'
  BY <1>1, PhysStay, Zenon DEF Booted, PortsStay
<1>3. PhysIn(view[LSI0].ports)'
  BY <1>1, <1>2
<1>4. SparesPhys(todo)' <=> SparesPhys(todo')
  BY DEF SparesPhys
<1>5. Booted'
  BY <1>3, <1>4 DEF Booted
<1> QED BY <1>5 DEF PInv

\* Requests.
LEMMA RequestPInv ==
    ASSUME IInv, PInv, Requests PROVE PInv'
<1>1. /\ pc = "idle"
      /\ UNCHANGED <<dnumber, virtual_link_id, view, bridges, switch_uuid, uuid, ports>>
  BY ZenonT(60) DEF Requests, CreateLsi, AddNFPorts, StartAdd, AddEndpoint, AddVirtualLink,
     DestroyNFPorts, DestroyEndpoint, DestroyPorts, DestroyVirtualLink, DestroyLsi, counters, linkMaps, database
<1>2. CASE DOMAIN view = {}
  <2>1. PICK phys \in SUBSET PhyPorts, nfs \in SUBSET NFs, eps \in SUBSET Endpoints, n \in 0..MaxLinks :
          CreateLsi(phys, UNION nfs, eps, n)
    <3>1. Tenants = {}
      BY <1>2 DEF Tenants
    <3> QED BY <3>1, Zenon DEF Requests
  <2>2. /\ phys = PhyPorts /\ UNION nfs = {} /\ eps = {} /\ n = 0
        /\ pc' = "bridge" /\ cur' = LSI0 /\ UNCHANGED <<made, got>>
        /\ todo' = Parts(PhyPorts, {}, {}, 0)
    <3>1. dnumber = LSI0
      BY <1>1, <1>2 DEF PInv, Booting
    <3>2. phys = PhyPorts /\ UNION nfs = {} /\ eps = {} /\ n = 0
      BY <2>1, <3>1, Zenon DEF CreateLsi
    <3>3. /\ pc' = "bridge" /\ cur' = dnumber /\ UNCHANGED <<made, got>>
          /\ todo' = Parts(phys, UNION nfs, eps, n)
      BY <2>1, Zenon DEF CreateLsi
    <3> QED BY <3>1, <3>2, <3>3, Zenon
  <2>3. todo' \in Seq(PhyCallSet)
    <3>1. SetToSeq(PhyPorts) \in Seq(PhyPorts)
      BY FinitePorts, SetList, Zenon
    <3>2. PhyCalls(PhyPorts) \in Seq(PhyCallSet)
      BY <3>1 DEF PhyCalls, PhyCallSet
    <3>3. SetToSeq({}) = <<>>
      BY SetList, FS_EmptySet, Zenon
    <3>4. NFCalls(dnumber, {}) = <<>>
      BY <3>3 DEF NFCalls
    <3>5. Parts(PhyPorts, {}, {}, 0) = PhyCalls(PhyPorts) \o <<>> \o <<>> \o <<>>
      <4>1. [i \in 1..Len(SetToSeq({})) |-> AddGre(dnumber, SetToSeq({})[i], gnumber + i - 1)] = <<>>
        BY <3>3
      <4>2. [i \in 1..0 |-> AddLocal(dnumber, pnumber + 2 * (i - 1))] = <<>>
        OBVIOUS
      <4> QED BY <3>4, <4>1, <4>2, Zenon DEF Parts
    <3> QED BY <2>2, <3>2, <3>5
  <2>4. Booting' /\ LinkTyped'
    BY <1>1, <1>2, <2>2, <2>3, LSI0Place DEF PInv, Booting, PhysIn, LinkTyped
  <2> QED BY <1>1, <1>2, <2>4 DEF PInv
<1>3. CASE DOMAIN view # {}
  <2> DEFINE Deletes == pc' \in {"erase", "unlink", "destroy"} /\ SparesPhys(todo')
  <2> SUFFICES cur' \in Dpids \ {LSI0} /\ (pc' \in {"bridge", "add", "link"} \/ Deletes)
    <3>1. LinkTyped' /\ PortsStay
      BY <1>1 DEF PInv, LinkTyped, PortsStay
    <3> QED BY <1>1, <1>3, <3>1, BootedStays DEF PInv, Booted
  <2>1. Tenants \subseteq Dpids \ {LSI0} /\ LinkTyped
    BY DEF Tenants, PInv, LinkTyped
  <2>2. CASE \E phys \in SUBSET PhyPorts, nfs \in SUBSET NFs, eps \in SUBSET Endpoints, n \in 0..MaxLinks :
               CreateLsi(phys, UNION nfs, eps, n)
    <3>1. pc' = "bridge" /\ cur' = dnumber /\ dnumber <= MaxLSIs
      BY <2>2, Zenon DEF CreateLsi
    <3> QED BY <1>3, <3>1, Bounds DEF PInv, LinkTyped, Booted, LSI0, Dpids
  <2>3. CASE \E d \in Tenants : (\E nf \in NFs : AddNFPorts(d, nf)) \/ (\E e \in Endpoints : AddEndpoint(d, e))
                                  \/ AddVirtualLink(d)
    BY <2>1, <2>3, Zenon DEF AddNFPorts, AddEndpoint, StartAdd, AddVirtualLink
  <2>4. ASSUME NEW d \in Tenants,
               \/ \E nf \in NFs : DestroyNFPorts(d, nf)
               \/ \E e \in Endpoints : DestroyEndpoint(d, e)
               \/ \E link \in view[d].links : DestroyVirtualLink(d, link)
               \/ DestroyLsi(d)
        PROVE  cur' \in Dpids \ {LSI0} /\ Deletes
    <3>1. ASSUME NEW nf \in NFs, DestroyNFPorts(d, nf)
          PROVE  pc' = "erase" /\ cur' = d /\ SparesPhys(todo')
      <4> DEFINE keys == {NameOnSwitch(d, p) : p \in nf}
                 f == [p \in nf |-> NameOnSwitch(d, p)]
      <4>1. IsFiniteSet(nf)
        BY FinitePorts
      <4>2. f \in Surjection(nf, keys)
        <5>1. f \in [nf -> keys] /\ \A k \in keys : \E p \in nf : f[p] = k
          OBVIOUS
        <5> HIDE DEF f, keys
        <5> QED BY <5>1, Zenon DEF Surjection
      <4> HIDE DEF f
      <4>3. IsFiniteSet(keys)
        BY <4>1, <4>2, FS_Surjection, Zenon
      <4>4. DestroyPorts(d, "port", keys)
        BY <3>1, Zenon DEF DestroyNFPorts
      <4> HIDE DEF keys
      <4> QED BY <2>1, <4>3, <4>4, DeletePorts
    <3>2. ASSUME NEW e \in Endpoints, DestroyEndpoint(d, e)
          PROVE  pc' = "erase" /\ cur' = d /\ SparesPhys(todo')
      <4>1. IsFiniteSet({<<"ep", d, e>>})
        BY FS_Singleton, Zenon
      <4> QED BY <2>1, <3>2, <4>1, DeletePorts, Zenon DEF DestroyEndpoint
    <3>3. ASSUME NEW link, DestroyVirtualLink(d, link)
          PROVE  pc' = "unlink" /\ cur' = d /\ SparesPhys(todo')
      <4>1. pc' = "unlink" /\ cur' = d /\ todo' = <<DelEnd(d, link[1]), DelEnd(LSI0, link[2])>>
        BY <3>3, Zenon DEF DestroyVirtualLink
      <4>2. DelEnd(d, link[1]).list = "vport" /\ DelEnd(LSI0, link[2]).list = "vport"
        BY DEF DelEnd, Del
      <4> QED BY <4>1, <4>2, TwoEnds, Zenon
    <3>4. ASSUME DestroyLsi(d)
          PROVE  pc' = "destroy" /\ cur' = d /\ SparesPhys(todo')
      <4>1. pc' = "destroy" /\ cur' = d /\ todo' = AllEnds(d)
        BY <3>4, Zenon DEF DestroyLsi
      <4> QED BY <2>1, <4>1, EndsSparePhys, Zenon
    <3> QED BY <2>1, <2>4, <3>1, <3>2, <3>3, <3>4, Zenon
  <2> QED BY <2>2, <2>3, <2>4, Zenon DEF Requests
<1> QED BY <1>2, <1>3, Zenon

\* A uuid enters a list.
LEMMA AppendStays ==
    ASSUME Typed, NEW a, NEW l, NEW u \in Nat, uuid' = [uuid EXCEPT ![a][l] = Append(@, u)]
    PROVE  /\ Range(uuid[LSI0]["port"]) \subseteq Range(uuid'[LSI0]["port"])
           /\ a = LSI0 /\ l = "port" => u \in Range(uuid'[LSI0]["port"])
<1> DEFINE us == uuid[LSI0]["port"]
<1>1. us \in Seq(Nat)
  BY LSI0Place DEF Typed, Lists
<1>2. Range(us) \subseteq Range(Append(us, u)) /\ u \in Range(Append(us, u))
  <2> HIDE DEF us
  <2>1. DOMAIN us = 1 .. Len(us) /\ Len(us) \in Nat
    BY <1>1
  <2>2. /\ DOMAIN Append(us, u) = 1 .. Len(us) + 1 /\ Append(us, u)[Len(us) + 1] = u
        /\ \A i \in DOMAIN us : Append(us, u)[i] = us[i]
    BY <1>1
  <2>3. Len(us) + 1 \in DOMAIN Append(us, u) /\ DOMAIN us \subseteq DOMAIN Append(us, u)
    BY <2>1, <2>2
  <2> QED BY <2>2, <2>3, Zenon DEF Range
<1>3. CASE a = LSI0 /\ l = "port"
  <2>1. uuid'[LSI0]["port"] = Append(us, u)
    BY <1>3, LSI0Place DEF Typed, Lists
  <2> QED BY <1>2, <2>1, Zenon
<1>4. CASE ~(a = LSI0 /\ l = "port")
  <2>1. uuid'[LSI0]["port"] = us
    BY <1>4, LSI0Place DEF Typed, Lists
  <2> QED BY <1>4, <2>1, Zenon
<1> QED BY <1>3, <1>4, Zenon

\* A transaction on an LSI.
LEMMA ReplaceStays ==
    ASSUME Typed, NEW a, NEW new, ports' = [ports EXCEPT ![a] = Replaced(a, uuid[a]) \cup new]
    PROVE  /\ \A x \in ports[LSI0] : x.uuid \in Range(uuid[LSI0]["port"]) => x \in ports'[LSI0]
           /\ a = LSI0 => new \subseteq ports'[LSI0]
<1>1. Range(uuid[LSI0]["port"]) \subseteq Known(uuid[LSI0])
  BY DEF Known, Lists
<1>2. LSI0 \in DOMAIN ports
  BY LSI0Place DEF Typed
<1>3. CASE a = LSI0
  <2>1. ports'[LSI0] = Replaced(LSI0, uuid[LSI0]) \cup new
    BY <1>2, <1>3
  <2> QED BY <1>1, <2>1, Zenon DEF Replaced
<1>4. CASE a # LSI0
  BY <1>2, <1>4
<1> QED BY <1>3, <1>4, Zenon

\* What every call that adds a port leaves alone.
LEMMA CallStays ==
    ASSUME IInv, Calls
    PROVE  PortsStay /\ UNCHANGED <<view, bridges, switch_uuid, dnumber, cur>>
<1>1. Typed /\ uuids \in Nat
  BY DEF IInv, Typed
<1>2. CASE Answered
  <2>1. /\ uuid' = [uuid EXCEPT ![c.at][c.list] = Append(@, uuids)]
        /\ ports' = [ports EXCEPT ![c.at] = Replaced(c.at, uuid[c.at]) \cup {NewPort}]
    BY <1>2, Zenon DEF Answered
  <2>2. UNCHANGED <<view, bridges, switch_uuid, dnumber, cur>>
    BY <1>2, Zenon DEF Answered, Count
  <2> QED BY <1>1, <2>1, <2>2, AppendStays, ReplaceStays, Zenon DEF PortsStay
<1>3. CASE Refused
  <2>1. uuid' = [uuid EXCEPT ![c.at][c.list] = Append(@, uuids)] /\ UNCHANGED ports
    BY <1>3, Zenon DEF Refused
  <2>2. UNCHANGED <<view, bridges, switch_uuid, dnumber, cur>>
    BY <1>3, Zenon DEF Refused, Count, Throw
  <2> QED BY <1>1, <2>1, <2>2, AppendStays, Zenon DEF PortsStay
<1>4. CASE SendFails
  <2>1. UNCHANGED <<uuid, ports, view, bridges, switch_uuid, dnumber, cur>>
    BY <1>4, Zenon DEF SendFails, Count, Throw, database
  <2> QED BY <2>1, Zenon DEF PortsStay
<1>5. CASE ConnectFails
  <2>1. UNCHANGED <<uuid, ports, view, bridges, switch_uuid, dnumber, cur>>
    BY <1>5, Zenon DEF ConnectFails, Count, Throw, database
  <2> QED BY <2>1, Zenon DEF PortsStay
<1>6. CASE AnswerLost
  <2>1. ports' = [ports EXCEPT ![c.at] = Replaced(c.at, uuid[c.at]) \cup {NewPort}]
    BY <1>6, Zenon DEF AnswerLost
  <2>2. UNCHANGED <<uuid, view, bridges, switch_uuid, dnumber, cur>>
    BY <1>6, Zenon DEF AnswerLost, Count, Throw
  <2> QED BY <1>1, <2>1, <2>2, ReplaceStays, Zenon DEF PortsStay
<1> QED BY <1>2, <1>3, <1>4, <1>5, <1>6, Zenon DEF Calls

\* The numbers of the ends stay numbers.
LEMMA IdsTyped ==
    ASSUME NEW D, NEW T, NEW f \in [D -> T], NEW d, NEW ids, d \in D => ids \in T
    PROVE  [f EXCEPT ![d] = ids] \in [D -> T]
<1>1. \A e \in D : (IF e = d THEN ids ELSE f[e]) \in T
  BY Zenon
<1>2. [f EXCEPT ![d] = ids] = [e \in D |-> IF e = d THEN ids ELSE f[e]]
  BY Zenon
<1> QED BY <1>1, <1>2, Zenon

LEMMA CallTyped ==
    ASSUME IInv, LinkTyped, Calls PROVE LinkTyped'
<1>1. UNCHANGED <<view, dnumber, cur>>
  BY CallStays
<1>2. virtual_link_id' = virtual_link_id \/ virtual_link_id' = [virtual_link_id EXCEPT ![c.at] = Append(@, rnumber)]
  <2>1. CASE Answered
    BY <2>1, Zenon DEF Answered, Note, SetLink, linkMaps
  <2>2. CASE ~Answered
    BY <2>2, Zenon DEF Calls, Refused, SendFails, ConnectFails, AnswerLost, linkMaps
  <2> QED BY <2>1, <2>2
<1>3. rnumber \in Int
  BY DEF IInv, Typed
<1>4. virtual_link_id' \in [Dpids -> Seq(Int)]
  <2>1. \A d \in Dpids : Append(virtual_link_id[d], rnumber) \in Seq(Int)
    BY <1>3 DEF LinkTyped
  <2>2. PICK ids : ids = Append(virtual_link_id[c.at], rnumber)
    BY Zenon
  <2>3. c.at \in Dpids => ids \in Seq(Int)
    BY <2>1, <2>2, Zenon
  <2>4. virtual_link_id' = virtual_link_id \/ virtual_link_id' = [virtual_link_id EXCEPT ![c.at] = ids]
    BY <1>2, <2>2
  <2>5. virtual_link_id \in [Dpids -> Seq(Int)]
    BY Zenon DEF LinkTyped
  <2>6. [virtual_link_id EXCEPT ![c.at] = ids] \in [Dpids -> Seq(Int)]
    BY <2>3, <2>5, IdsTyped, Zenon
  <2> QED BY <2>4, <2>5, <2>6, Zenon
<1> QED BY <1>1, <1>4 DEF LinkTyped

\* An exception before LSI-0 is there ends the process, and after that the request.
LEMMA ThrowPInv ==
    ASSUME PInv, LinkTyped', Throw, PortsStay,
           dnumber' = dnumber, LSI0 \in bridges \cap switch_uuid => LSI0 \in bridges' \cap switch_uuid'
    PROVE  PInv'
<1>1. /\ pc' = IF LSI0 \in DOMAIN view THEN "idle" ELSE "aborted"
      /\ made' = <<>> /\ got' = {} /\ view' = view
  BY Zenon DEF Throw
<1>2. CASE DOMAIN view = {}
  <2>1. PhysIn(got)'
    BY <1>1 DEF PhysIn
  <2>2. Booting'
    BY <1>1, <1>2, <2>1 DEF Booting
  <2> QED BY <1>1, <1>2, <2>2 DEF PInv
<1>3. CASE DOMAIN view # {}
  <2>1. Booted
    BY <1>3 DEF PInv
  <2> QED BY <1>1, <2>1, BootedStays DEF Booted
<1> QED BY <1>2, <1>3, Zenon

\* A port is added.
LEMMA AnsweredPInv ==
    ASSUME IInv, PInv, Answered PROVE PInv'
<1>1. /\ Calling /\ todo' = Tail(todo) /\ pc' = pc
      /\ uuid' = [uuid EXCEPT ![c.at][c.list] = Append(@, uuids)]
      /\ ports' = [ports EXCEPT ![c.at] = Replaced(c.at, uuid[c.at]) \cup {NewPort}]
  BY Zenon DEF Answered
<1>2. PortsStay /\ UNCHANGED <<view, bridges, switch_uuid, dnumber, cur>>
  BY CallStays DEF Calls
<1>3. LinkTyped'
  BY CallTyped DEF Calls, PInv
<1>4. CASE DOMAIN view = {}
  <2>1. /\ Booting /\ pc = "create" /\ todo # <<>>
    BY <1>1, <1>4 DEF PInv, Booting, Calling
  <2>2. todo \in Seq(PhyCallSet)
    BY <2>1 DEF Booting
  <2>3. c \in PhyCallSet /\ Tail(todo) \in Seq(PhyCallSet)
    BY <2>1, <2>2 DEF c
  <2>4. PICK p \in PhyPorts : c = AddPhy(p)
    BY <2>3, Zenon DEF PhyCallSet
  <2>5. PICK n : n = <<"phy", 0, p>>
    BY Zenon
  <2>6. c.kind = "port" /\ c.at = LSI0 /\ c.list = "port" /\ c.name = n /\ c.key = n /\ n # NoName
    BY <2>4, <2>5 DEF AddPhy, Call, NoName
  <2>7. got' = got \cup {<<n, rnumber>>} /\ made' = made
    <3>1. Note /\ c.kind # "local"
      BY <2>6 DEF Answered
    <3> QED BY <2>6, <3>1, Zenon DEF Note
  <2>8. PICK r : r = rnumber
    OBVIOUS
  <2>9. PICK S : S = got
    OBVIOUS
  <2>10. PhysIn(S)'
    BY <1>2, <2>1, <2>9, PhysStay, Zenon DEF Booting, PortsStay
  <2>11. /\ NewPort.name = n /\ NewPort.of = r /\ NewPort.uuid = uuids
    BY <2>6, <2>8 DEF NewPort
  <2>12. uuids \in Range(uuid'[LSI0]["port"]) /\ NewPort \in ports'[LSI0]
    <3>1. Typed /\ uuids \in Nat
      BY DEF IInv, Typed
    <3> QED BY <1>1, <2>6, <3>1, AppendStays, ReplaceStays, Zenon
  <2>13. PICK x : x = NewPort
    OBVIOUS
  <2>14. x \in ports'[LSI0] /\ x.name = n /\ x.of = r /\ x.uuid \in Range(uuid'[LSI0]["port"])
    BY <2>11, <2>12, <2>13
  <2>15. PhysIn(S \cup {<<n, r>>})'
    BY <2>10, <2>14 DEF PhysIn
  <2>16. PhysIn(got)'
    BY <2>7, <2>8, <2>9, <2>15
  <2>17. Booting'
    BY <1>1, <1>2, <2>1, <2>3, <2>7, <2>16 DEF Booting
  <2> QED BY <1>2, <1>3, <1>4, <2>17 DEF PInv
<1>5. CASE DOMAIN view # {}
  <2>1. Booted
    BY <1>5 DEF PInv
  <2> QED BY <1>1, <1>2, <1>3, <2>1, BootedStays DEF Booted, Calling
<1> QED BY <1>4, <1>5

\* A port is not added.
LEMMA CallFailsPInv ==
    ASSUME IInv, PInv, Refused \/ SendFails \/ ConnectFails \/ AnswerLost PROVE PInv'
<1>1. Throw
  BY Zenon DEF Refused, SendFails, ConnectFails, AnswerLost
<1>2. PortsStay /\ UNCHANGED <<view, bridges, switch_uuid, dnumber, cur>>
  BY CallStays, Zenon DEF Calls
<1>3. LinkTyped'
  BY CallTyped, Zenon DEF Calls, PInv
<1> QED BY <1>1, <1>2, <1>3, ThrowPInv

\* Steps of cmd_editconfig_lsi.
LEMMA CreatePInv ==
    ASSUME IInv, PInv, InsertBridge \/ InsertBridgeFails \/ LocalsMade \/ ReconnectFails \/ Created
    PROVE  PInv'
<1>1. UNCHANGED <<uuid, ports, virtual_link_id, cur>>
  BY Zenon DEF InsertBridge, InsertBridgeFails, LocalsMade, ReconnectFails, Created, Throw, Return, database, linkMaps
<1>2. PortsStay
  BY <1>1, QuietStays
<1>3. \A S : PhysIn(S)' <=> PhysIn(S)
  BY <1>1 DEF PhysIn
<1>4. CASE InsertBridge
  <2>1. /\ pc = "bridge" /\ pc' = "create" /\ UNCHANGED <<dnumber, todo, made, got, view>>
        /\ bridges' = bridges \cup {cur} /\ switch_uuid' = switch_uuid \cup {cur}
    BY <1>4, Zenon DEF InsertBridge, counters
  <2>2. LinkTyped'
    BY <1>1, <2>1 DEF PInv, LinkTyped
  <2>3. ASSUME Booting PROVE Booting'
    BY <1>1, <1>3, <2>1, <2>3 DEF Booting
  <2>4. ASSUME Booted PROVE PInv'
    BY <1>1, <1>2, <2>1, <2>2, <2>4, BootedStays DEF Booted
  <2> QED BY <2>1, <2>2, <2>3, <2>4 DEF PInv
<1>5. CASE InsertBridgeFails
  <2>1. Throw /\ dnumber' = dnumber /\ bridges \subseteq bridges' /\ switch_uuid' = switch_uuid /\ view' = view
    <3>1. bridges' = bridges \/ bridges' = bridges \cup {cur}
      BY <1>5, Zenon DEF InsertBridgeFails
    <3>2. Throw /\ dnumber' = dnumber /\ switch_uuid' = switch_uuid /\ view' = view
      BY <1>5, Zenon DEF InsertBridgeFails, Throw, counters
    <3> QED BY <3>1, <3>2
  <2>2. LinkTyped'
    BY <1>1, <2>1 DEF PInv, LinkTyped
  <2> QED BY <1>2, <2>1, <2>2, ThrowPInv
<1>6. CASE LocalsMade
  <2>1. /\ pc = "create" /\ todo = <<>> /\ pc' = "connect" /\ dnumber' = dnumber + 1
        /\ todo' = [i \in 1..Len(made) |-> AddRemote(pnumber' + 2 * (i - 1))]
        /\ UNCHANGED <<made, got, view, bridges, switch_uuid>>
    BY <1>6, Zenon DEF LocalsMade, database
  <2>2. LinkTyped'
    BY <1>1, <2>1 DEF PInv, LinkTyped
  <2>3. ASSUME Booting PROVE Booting'
    <3>1. todo' = <<>>
      BY <2>1, <2>3 DEF Booting
    <3>2. dnumber' > LSI0
      BY <2>1, <2>3 DEF Booting, LSI0
    <3> QED BY <1>1, <1>3, <2>1, <2>3, <3>1, <3>2 DEF Booting
  <2>4. ASSUME Booted PROVE PInv'
    <3>1. dnumber' > LSI0
      BY <2>1, <2>4 DEF PInv, LinkTyped, Booted, LSI0
    <3> QED BY <1>1, <1>2, <2>1, <2>2, <2>4, <3>1, BootedStays DEF Booted
  <2> QED BY <2>1, <2>2, <2>3, <2>4 DEF PInv
<1>7. CASE ReconnectFails
  <2>1. Throw /\ dnumber' = dnumber /\ bridges' = bridges /\ switch_uuid' = switch_uuid /\ view' = view
    BY <1>7, Zenon DEF ReconnectFails, Throw, counters, database
  <2>2. LinkTyped'
    BY <1>1, <2>1 DEF PInv, LinkTyped
  <2> QED BY <1>2, <2>1, <2>2, ThrowPInv
<1>8. CASE Created
  <2>1. /\ pc = "connect" /\ pc' = "idle" /\ UNCHANGED <<dnumber, bridges, switch_uuid>>
        /\ view' = [d \in DOMAIN view \cup {cur} |->
                       IF d = cur THEN [ports |-> got, links |-> Range(made)] ELSE view[d]]
    BY <1>8, Zenon DEF Created, Return, counters, database
  <2>2. /\ DOMAIN view' = {cur} \cup DOMAIN view
        /\ view'[cur].ports = got
        /\ \A d \in DOMAIN view \ {cur} : view'[d] = view[d]
    BY <2>1
  <2>3. LinkTyped'
    BY <1>1, <2>1, <2>2 DEF PInv, LinkTyped
  <2>4. ASSUME Booting PROVE Booted'
    <3>1. cur = LSI0 /\ PhysIn(got) /\ LSI0 \in bridges \cap switch_uuid /\ dnumber > LSI0
      BY <2>1, <2>4 DEF Booting
    <3>2. PICK S : S = got
      OBVIOUS
    <3>3. PhysIn(view[LSI0].ports)'
      BY <1>3, <2>2, <3>1, <3>2
    <3> QED BY <2>1, <2>2, <3>1, <3>3 DEF Booted
  <2>5. ASSUME Booted PROVE PInv'
    <3>1. view'[LSI0] = view[LSI0] /\ LSI0 \in DOMAIN view'
      BY <2>1, <2>2, <2>5 DEF Booted
    <3> QED BY <1>2, <2>1, <2>3, <2>5, <3>1, BootedStays DEF Booted
  <2> QED BY <2>2, <2>3, <2>4, <2>5 DEF PInv
<1> QED BY <1>4, <1>5, <1>6, <1>7, <1>8

\* A name is erased, which is not one of a physical port.
LEMMA EraseStays ==
    ASSUME Typed, EraseName, c.at = LSI0 => c.list # "port"
    PROVE  uuid'[LSI0] = uuid[LSI0] \/ (c.at = LSI0 /\ uuid'[LSI0]["port"] = uuid[LSI0]["port"])
<1>1. uuid' = uuid \/ \E us : uuid' = [uuid EXCEPT ![c.at][c.list] = us]
  BY Zenon DEF EraseName
<1>2. ASSUME NEW us, uuid' = [uuid EXCEPT ![c.at][c.list] = us]
      PROVE  uuid'[LSI0] = uuid[LSI0] \/ (c.at = LSI0 /\ uuid'[LSI0]["port"] = uuid[LSI0]["port"])
  <2>1. CASE c.at # LSI0
    BY <1>2, <2>1, LSI0Place DEF Typed
  <2>2. CASE c.at = LSI0
    <3>1. uuid'[LSI0] = [uuid[LSI0] EXCEPT ![c.list] = us]
      BY <1>2, <2>2, LSI0Place DEF Typed
    <3>2. uuid'[LSI0]["port"] = uuid[LSI0]["port"]
      BY <2>2, <3>1, LSI0Place DEF Typed, Lists
    <3> QED BY <2>2, <3>2
  <2> QED BY <2>1, <2>2
<1> QED BY <1>1, <1>2, Zenon

\* The rest of a set of ports, after a uuid of another list was erased.
LEMMA ReplacePortsStay ==
    ASSUME Typed, NEW d, Replace(d), uuid'[LSI0]["port"] = uuid[LSI0]["port"]
    PROVE  PortsStay
<1>1. ports' = ports \/ ports' = [ports EXCEPT ![d] = Replaced(d, uuid'[d])]
  BY Zenon DEF Replace
<1>2. Range(uuid[LSI0]["port"]) \subseteq Known(uuid'[LSI0])
  BY DEF Known, Lists
<1>3. ASSUME ports' = [ports EXCEPT ![d] = Replaced(d, uuid'[d])],
             NEW x \in ports[LSI0], x.uuid \in Range(uuid[LSI0]["port"])
      PROVE  x \in ports'[LSI0]
  <2>1. CASE d = LSI0
    <3>1. ports'[LSI0] = Replaced(LSI0, uuid'[LSI0])
      BY <1>3, <2>1, LSI0Place DEF Typed
    <3> QED BY <1>2, <1>3, <3>1, Zenon DEF Replaced
  <2>2. CASE d # LSI0
    BY <1>3, <2>2, LSI0Place DEF Typed
  <2> QED BY <2>1, <2>2
<1> QED BY <1>1, <1>3, Zenon DEF PortsStay

\* A port is deleted.
LEMMA DeletePInv ==
    ASSUME IInv, PInv, Delete \/ DeleteFails \/ PastEnd PROVE PInv'
<1>1. Typed
  BY DEF IInv
<1>2. /\ Deleting
      /\ UNCHANGED <<dnumber, switch_uuid, bridges, virtual_link_id, cur, view>>
  BY Zenon DEF Delete, DeleteFails, PastEnd, Throw, counters, linkMaps, database
<1>3. Booted /\ LinkTyped /\ DOMAIN view # {} /\ SparesPhys(todo) /\ todo # <<>>
  <2>1. Booted /\ LinkTyped
    BY <1>2 DEF PInv, Booting, Deleting
  <2> QED BY <1>2, <2>1 DEF Booted, Deleting
<1>4. SparesPhys(Tail(todo)) /\ (c.at = LSI0 => c.list # "port")
  BY <1>3, SparesTail, Zenon DEF c
<1>5. LinkTyped'
  BY <1>2, <1>3 DEF LinkTyped
<1>6. ASSUME EraseName PROVE uuid'[LSI0]["port"] = uuid[LSI0]["port"]
  BY <1>1, <1>4, <1>6, EraseStays, Zenon
<1>7. PortsStay
  <2>1. CASE EraseName /\ Replace(c.at)
    BY <1>1, <1>6, <2>1, ReplacePortsStay, Zenon
  <2>2. CASE EraseName /\ UNCHANGED ports
    BY <1>6, <2>2, Zenon DEF PortsStay
  <2>3. CASE UNCHANGED <<uuid, ports>>
    BY <2>3, QuietStays
  <2> QED BY <2>1, <2>2, <2>3, Zenon DEF Delete, DeleteFails, PastEnd, database
<1>8. CASE Delete
  <2>1. todo' = Tail(todo) /\ pc' = pc
    BY <1>8, Zenon DEF Delete
  <2> QED BY <1>2, <1>3, <1>4, <1>5, <1>7, <2>1, BootedStays DEF Booted
<1>9. CASE DeleteFails
  <2>1. Throw
    BY <1>9, Zenon DEF DeleteFails
  <2> QED BY <1>2, <1>5, <1>7, <2>1, ThrowPInv
<1>10. CASE PastEnd
  <2>1. pc' = "aborted"
    BY <1>10, Zenon DEF PastEnd
  <2> QED BY <1>2, <1>3, <1>5, <1>7, <2>1, BootedStays DEF Booted
<1> QED BY <1>8, <1>9, <1>10

\* Requests that add to an LSI or delete from it return.
LEMMA ReturnPInv ==
    ASSUME IInv, PInv, Added \/ LinkAdded \/ PortsDestroyed \/ Unlinked PROVE PInv'
<1>1. /\ pc \notin {"idle", "aborted", "bridge", "create", "connect"} /\ pc' = "idle"
      /\ UNCHANGED <<uuid, ports, cur, dnumber, bridges, switch_uuid>>
  BY DEF Added, LinkAdded, PortsDestroyed, Unlinked, Return, counters, database
<1>2. Booted /\ LinkTyped /\ cur # LSI0 /\ cur \in Dpids
  BY <1>1 DEF PInv, Booting, Booted, LinkTyped
<1>3. DOMAIN view' = DOMAIN view /\ view'[LSI0] = view[LSI0]
  <2>1. \E v : view' = [view EXCEPT ![cur] = v]
    BY Zenon DEF Added, LinkAdded, PortsDestroyed, Unlinked
  <2> QED BY <1>2, <2>1 DEF Booted
<1>4. \E s \in Seq(Int) : virtual_link_id' = [virtual_link_id EXCEPT ![cur] = s]
  <2>1. PICK ids \in Seq(Int) : ids = virtual_link_id[cur]
    BY <1>2 DEF LinkTyped
  <2>2. CASE Added \/ PortsDestroyed
    <3>1. virtual_link_id' = virtual_link_id
      BY <2>2, Zenon DEF Added, PortsDestroyed, linkMaps
    <3> QED BY <1>2, <2>1, <3>1 DEF LinkTyped
  <2>3. CASE LinkAdded
    <3>1. virtual_link_id' = [virtual_link_id EXCEPT ![cur] = Append(ids, rnumber - 2)]
      BY <2>1, <2>3, Zenon DEF LinkAdded, SetLink
    <3>2. Append(ids, rnumber - 2) \in Seq(Int)
      BY DEF IInv, Typed
    <3> QED BY <3>1, <3>2, Zenon
  <2>4. CASE Unlinked
    <3>1. virtual_link_id' = [virtual_link_id EXCEPT ![cur] = Without(ids, made[1][1])]
      BY <2>1, <2>4, Zenon DEF Unlinked
    <3>2. Without(ids, made[1][1]) \in Seq(Int)
      BY WithoutSeq, Zenon
    <3> QED BY <3>1, <3>2, Zenon
  <2> QED BY <2>2, <2>3, <2>4, Zenon
<1>5. LinkTyped'
  <2>1. virtual_link_id' \in [Dpids -> Seq(Int)]
    BY <1>2, <1>4, IdsTyped, Zenon DEF LinkTyped
  <2> QED BY <1>1, <1>2, <1>3, <2>1 DEF LinkTyped
<1> QED BY <1>1, <1>2, <1>3, <1>5, QuietStays, BootedStays DEF Booted

\* An LSI is destroyed, which is not LSI-0.
LEMMA DestroyedPInv ==
    ASSUME IInv, PInv, Destroyed \/ DestroyedFails PROVE PInv'
<1>1. pc = "destroy" /\ Forget /\ UNCHANGED <<dnumber, cur>>
  BY Zenon DEF Destroyed, DestroyedFails, Return, Throw, counters
<1>2. Booted /\ LinkTyped
  BY <1>1 DEF PInv, Booting
<1>3. cur # LSI0 /\ cur \in Dpids /\ LSI0 \in DOMAIN view /\ LSI0 \in bridges \cap switch_uuid
  BY <1>1, <1>2 DEF Booted, LinkTyped
<1>4. uuid'[LSI0] = uuid[LSI0]
  <2>1. \E us : uuid' = [uuid EXCEPT ![cur] = us]
    BY <1>1, Zenon DEF Forget
  <2> QED BY <1>3, <2>1, LSI0Place DEF IInv, Typed
<1>5. virtual_link_id' \in [Dpids -> Seq(Int)]
  <2>1. virtual_link_id' = [virtual_link_id EXCEPT ![cur] = <<>>]
    BY <1>1, Zenon DEF Forget
  <2>2. <<>> \in Seq(Int)
    OBVIOUS
  <2> QED BY <1>2, <2>1, <2>2, IdsTyped, Zenon DEF LinkTyped
<1>6. /\ LSI0 \in bridges' \cap switch_uuid' /\ ports'[LSI0] = ports[LSI0]
  <2>1. switch_uuid' = switch_uuid \/ switch_uuid' = switch_uuid \ {cur}
    BY Zenon DEF Destroyed, DestroyedFails
  <2>2. LSI0 \in switch_uuid'
    BY <1>3, <2>1
  <2>3. UNCHANGED <<bridges, ports>> \/ SetBridges
    BY Zenon DEF Destroyed, DestroyedFails
  <2>4. CASE SetBridges
    BY <1>3, <2>2, <2>4, LSI0Place DEF SetBridges
  <2> QED BY <1>3, <2>2, <2>3, <2>4
<1>7. PortsStay
  BY <1>4, <1>6, Zenon DEF PortsStay
<1>8. CASE Destroyed
  <2>1. pc' = "idle" /\ view' = Restrict(view, DOMAIN view \ {cur})
    BY <1>8, Zenon DEF Destroyed, Return
  <2>2. DOMAIN view' = DOMAIN view \ {cur} /\ view'[LSI0] = view[LSI0]
    BY <1>3, <2>1 DEF Restrict
  <2>3. LinkTyped'
    BY <1>1, <1>2, <1>5, <2>2 DEF LinkTyped
  <2> QED BY <1>1, <1>2, <1>3, <1>6, <1>7, <2>1, <2>2, <2>3, BootedStays DEF Booted
<1>9. CASE DestroyedFails
  <2>1. Throw /\ view' = view
    BY <1>9, Zenon DEF DestroyedFails, Throw
  <2>2. LinkTyped'
    BY <1>1, <1>2, <1>5, <2>1 DEF LinkTyped
  <2> QED BY <1>1, <1>6, <1>7, <2>1, <2>2, ThrowPInv
<1> QED BY <1>8, <1>9

\* Nothing is there at the start.
LEMMA InitPInv == Init => PInv
<1> SUFFICES ASSUME Init PROVE PInv
  OBVIOUS
<1>1. LinkTyped
  <2>1. \A d \in Dpids : virtual_link_id[d] \in Seq(Int)
    BY DEF Init
  <2>2. virtual_link_id = [d \in Dpids |-> virtual_link_id[d]]
    BY DEF Init
  <2>3. dnumber \in Nat \ {0} /\ cur \in Dpids /\ DOMAIN view \subseteq Dpids
    BY LSI0Place DEF Init
  <2> QED BY <2>1, <2>2, <2>3, Zenon DEF LinkTyped
<1>2. Booting
  BY DEF Init, Booting, PhysIn, LSI0
<1>3. DOMAIN view = {}
  BY DEF Init
<1> QED BY <1>1, <1>2, <1>3 DEF PInv

\* PInv is inductive, next to IInv: the uuids of the physical ports are in port_uuid of
\* LSI-0 from the answer that gives them, and no request takes one out.
THEOREM PhysInductive == IInv /\ PInv /\ [Next]_vars => PInv'
<1> SUFFICES ASSUME IInv, PInv, [Next]_vars PROVE PInv'
  OBVIOUS
<1>1. CASE Requests
  BY <1>1, RequestPInv
<1>2. CASE Calls
  BY <1>2, AnsweredPInv, CallFailsPInv, Zenon DEF Calls
<1>3. CASE InsertBridge \/ InsertBridgeFails \/ LocalsMade \/ ReconnectFails \/ Created
  BY <1>3, CreatePInv, Zenon
<1>4. CASE Delete \/ DeleteFails \/ PastEnd
  BY <1>4, DeletePInv, Zenon
<1>5. CASE Added \/ LinkAdded \/ PortsDestroyed \/ Unlinked
  BY <1>5, ReturnPInv, Zenon
<1>6. CASE Destroyed \/ DestroyedFails
  BY <1>6, DestroyedPInv, Zenon
<1>7. CASE UNCHANGED vars
  BY <1>7 DEF vars, counters, linkMaps, database, request, PInv, LinkTyped, Booting, Booted, PhysIn
<1> QED BY <1>1, <1>2, <1>3, <1>4, <1>5, <1>6, <1>7, Zenon DEF Next

\* The physical ports stay on LSI-0 with the numbers that were returned for them, whatever
\* requests come and whatever calls fail.
THEOREM PhysicalAlwaysKept == Spec => []PhysicalKept
<1>1. PInv => PhysicalKept
  BY DEF PInv, Booted, PhysIn, PhysicalKept
<1> QED BY <1>1, InitIInv, Inductive, InitPInv, PhysInductive, PTL DEF Spec
=============================================================================
