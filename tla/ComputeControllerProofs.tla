---------------------- MODULE ComputeControllerProofs ----------------------
(***************************************************************************)
(* No network function is forgotten and none is started without an         *)
(* implementation, for any number of NFs, answers of the name resolver     *)
(* and cores, and whatever fails.                                          *)
(***************************************************************************)
EXTENDS ComputeController, FunctionTheorems, FiniteSetTheorems, WellFoundedInduction, TLAPS

Active == {"new", "core", "next", "driver"}
Adding == {"check", "select", "lsi", "start", "join", "undo", "rules"}

\* The part of the state that the argument is about.
Typed ==
    /\ deployed \in BOOLEAN /\ graph \subseteq NFs
    /\ entry \in [NFs -> Kinds \cup {"absent", "none"}]
    /\ descriptions \in [NFs -> Seq(Kinds)]
    /\ supported \in [NFs -> SUBSET Kinds]
    /\ started \subseteq NFs
    /\ todo \subseteq NFs /\ diff \subseteq NFs /\ gone \subseteq NFs
    /\ thread \in [NFs -> Active \cup {"no", "ok", "failed"}]

\* What the request is, where it is; what is left for it to treat.
Request ==
    /\ pc \in Adding => op \in {"new", "update"} /\ (op = "new" <=> ~deployed)
    /\ pc = "remove" => deployed
    /\ pc = "stopAll" => deployed /\ op = "delete"
    /\ pc = "idle" => op = "none"
    /\ pc \in {"check", "start", "undo"} => todo \subseteq diff
    /\ pc = "remove" => todo \subseteq gone

\* The flags are those of descriptions.
Flags == \A n \in NFs : supported[n] \subseteq offered(n)

\* The NFs of the request get an entry, and then an implementation.
Entries ==
    /\ pc = "check" => \A n \in diff \ todo : InMap(n)
    /\ pc = "select" => \A n \in diff : InMap(n)
    /\ Implemented

\* The threads belong to the request.
Threads == \A n \in NFs : thread[n] \in Active => n \in diff /\ pc # "idle"

\* What runs is known to the controller, and will be stopped by the request that
\* gives up the controller.
Kept ==
    \A n \in started \ refused :
        /\ entry[n] \in Kinds
        /\ pc = "stopAll" => n \in todo
        /\ \/ deployed \/ Ended
           \/ n \in diff /\ (pc \in {"start", "join", "rules"} \/ (pc = "undo" /\ n \in todo))

IInv == Typed /\ Request /\ Flags /\ Entries /\ Threads /\ Kept

\* Selection finds a kind if there is a flag.
LEMMA SelectsKind ==
    ASSUME NEW n \in NFs, Typed, NEW F, F # {}, F \subseteq offered(n)
    PROVE  selectNFImplementation(n, F) \in Kinds
<1> DEFINE I == {i \in DOMAIN descriptions[n] : descriptions[n][i] \in F}
<1>1. descriptions[n] \in Seq(Kinds)
  BY DEF Typed
<1>2. I # {} /\ I \subseteq Nat
  BY <1>1 DEF offered
<1>3. PICK i \in I : \A j \in I : i <= j
  <2> HIDE DEF I
  <2>1. \E i \in I : \A j \in I : ~ (<<j, i>> \in OpToRel(<, Nat))
    BY <1>2, NatLessThanWellFounded, WFMin, Zenon
  <2>2. \A i, j \in I : <<j, i>> \in OpToRel(<, Nat) <=> j < i
    BY <1>2 DEF OpToRel
  <2>3. PICK i \in I : \A j \in I : ~ (<<j, i>> \in OpToRel(<, Nat))
    BY <2>1, Zenon
  <2>4. \A j \in I : ~ (j < i)
    BY <2>2, <2>3, Zenon
  <2>5. \A j \in I : i <= j
    BY <1>2, <2>4
  <2> QED BY <2>5
<1>4. /\ i \in DOMAIN descriptions[n] /\ descriptions[n][i] \in F
      /\ \A j \in 1 .. i - 1 : descriptions[n][j] \notin F
  BY <1>1, <1>3
<1>5. \A k \in DOMAIN descriptions[n] : descriptions[n][k] \in Kinds
  BY <1>1
<1> QED BY <1>4, <1>5 DEF selectNFImplementation

\* Nothing runs at the start.
LEMMA InitIInv ==
    ASSUME Init PROVE IInv
<1>1. Typed
  <2>1. deployed \in BOOLEAN
    BY Zenon DEF Init
  <2> QED BY <2>1 DEF Init, Typed, Active, Kinds
<1>2. Request
  BY DEF Init, Request, Adding
<1>3. Flags /\ Entries /\ Threads /\ Kept
  BY DEF Init, Flags, Entries, Implemented, Threads, Kept, Active
<1> QED BY <1>1, <1>2, <1>3 DEF IInv

\* The flags are those of descriptions if each NF has none, or has some of its
\* unchanged descriptions.
LEMMA FlagsPerNF ==
    ASSUME \A n \in NFs : \/ supported'[n] = {}
                          \/ descriptions'[n] = descriptions[n] /\ supported'[n] \subseteq offered(n)
    PROVE  Flags'
<1>1. SUFFICES ASSUME NEW n \in NFs, NEW k \in supported'[n]
               PROVE  \E i \in DOMAIN descriptions'[n] : k = descriptions'[n][i]
  BY DEF Flags, offered
<1>2. descriptions'[n] = descriptions[n] /\ k \in offered(n)
  OBVIOUS
<1>3. \E i \in DOMAIN descriptions[n] : k = descriptions[n][i]
  BY <1>2 DEF offered
<1> QED BY <1>2, <1>3, Zenon

\* The flags stay those of descriptions if neither changes.
LEMMA SameFlags ==
    ASSUME Flags, UNCHANGED <<descriptions, supported>> PROVE Flags'
BY FlagsPerNF DEF Flags

\* A request begins.
LEMMA BeginIInv ==
    ASSUME IInv, NEW S \in SUBSET NFs,
           NewGraph(S) \/ \E more, less \in SUBSET S : UpdateGraph(S, more, less)
    PROVE  IInv'
<1> USE DEF IInv
<1>1. /\ pc = "idle" /\ pc' = "check" /\ todo' = diff' /\ op' \in {"new", "update"}
      /\ op' = "new" <=> ~deployed
      /\ diff' \subseteq NFs /\ gone' \subseteq NFs
      /\ UNCHANGED <<nfg, entry, descriptions, supported, started, refused, threads>>
  BY DEF NewGraph, UpdateGraph, Typed, controller
<1>2. Typed'
  BY <1>1 DEF Typed, nfg, threads
<1>3. Request'
  BY <1>1 DEF Request, Adding, nfg
<1>4. (Flags /\ Entries)'
  BY <1>1, SameFlags DEF Entries, Implemented
<1>5. (Threads /\ Kept)'
  BY <1>1 DEF Threads, Kept, Active, Typed, Ended, nfg, threads
<1> QED BY <1>2, <1>3, <1>4, <1>5

\* A request ends and leaves the deployed NF-FG, or none, with a controller that has
\* what runs.
LEMMA ReturnIInv ==
    ASSUME IInv, Return, Typed', Flags',
           \A n \in (started \ refused)' : deployed' /\ entry'[n] \in Kinds
    PROVE  IInv'
<1>1. (Request /\ Entries)'
  BY DEF Return, Request, Adding, Entries, Implemented
<1>2. (Threads /\ Kept)'
  BY DEF Return, Threads, Active, Kept
<1> QED BY <1>1, <1>2 DEF IInv

\* The process ends.
LEMMA EndIInv ==
    ASSUME IInv, pc' \in {"crashed", "undefined"},
           UNCHANGED <<nfg, controller, todo, request, threads>>
    PROVE  IInv'
<1> USE DEF IInv, nfg, controller, request, threads
<1>1. Typed'
  BY DEF Typed
<1>2. (Request /\ Flags /\ Entries)'
  BY SameFlags DEF Request, Adding, Entries, Implemented
<1>3. (Threads /\ Kept)'
  BY DEF Threads, Kept, Ended
<1> QED BY <1>1, <1>2, <1>3

\* The empty map has its type.
LEMMA ClearTyped ==
    ASSUME Clear
    PROVE  /\ entry' \in [NFs -> Kinds \cup {"absent", "none"}]
           /\ descriptions' \in [NFs -> Seq(Kinds)]
           /\ supported' \in [NFs -> SUBSET Kinds]
<1>1. <<>> \in Seq(Kinds)
  OBVIOUS
<1> QED BY <1>1 DEF Clear

\* A request that fails before it has started anything.
LEMMA FailIInv ==
    ASSUME IInv, Fail, pc \in {"check", "select", "lsi"} \/ (pc = "undo" /\ todo = {})
    PROVE  IInv'
<1> USE DEF IInv
<1>1. /\ UNCHANGED <<graph, deployed, started, refused>>
      /\ Clear \/ UNCHANGED <<entry, descriptions, supported>>
      /\ op = "update" => UNCHANGED entry
      /\ Return
  BY DEF Fail, Drop, controller, Typed, Request, Adding
<1>2. Typed'
  BY <1>1, ClearTyped DEF Typed, Return, Active
<1>3. Flags'
  BY <1>1 DEF Flags, Clear, offered
<1>4. ASSUME NEW n \in started \ refused PROVE deployed /\ entry'[n] \in Kinds
  <2>1. deployed
    BY DEF Kept, Ended
  <2> QED BY <1>1, <2>1 DEF Kept, Request, Adding
<1> QED BY <1>1, <1>2, <1>3, <1>4, ReturnIInv

\* checkGraphValidity.
LEMMA CheckIInv ==
    ASSUME IInv, NEW n \in NFs,
           Skip(n) \/ Retrieve(n) \/ RetrieveFails(n) \/ RetrieveAborts(n)
    PROVE  IInv'
<1> USE DEF IInv
<1>1. CASE Skip(n)
  <2>1. (Typed /\ Request)'
    BY <1>1 DEF Skip, Typed, Request, nfg, controller, request, threads
  <2>2. (Flags /\ Entries)'
    BY <1>1, SameFlags DEF Skip, Entries, Implemented, InMap, controller, request, Kinds
  <2>3. (Threads /\ Kept)'
    BY <1>1 DEF Skip, Threads, Kept, Ended, nfg, controller, request, threads
  <2> QED BY <2>1, <2>2, <2>3
<1>2. CASE Retrieve(n)
  <2>1. PICK answer \in Offers[n] : descriptions' = [descriptions EXCEPT ![n] = answer]
    BY <1>2, Zenon DEF Retrieve
  <2>2. Typed'
    BY <1>2, <2>1, OffersKinds DEF Retrieve, Typed, nfg, request, threads
  <2>3. Request'
    BY <1>2 DEF Retrieve, Request, nfg, request
  <2>4. Flags'
    <3>1. supported' = [supported EXCEPT ![n] = {}]
      BY <1>2 DEF Retrieve
    <3>2. supported'[n] = {}
      BY <3>1 DEF Typed
    <3>3. ASSUME NEW q \in NFs, q # n
          PROVE  descriptions'[q] = descriptions[q] /\ supported'[q] = supported[q]
      BY <2>1, <3>1, <3>3 DEF Typed
    <3> QED BY <3>2, <3>3, FlagsPerNF DEF Flags
  <2>5. Entries'
    BY <1>2 DEF Retrieve, Entries, Implemented, InMap, request, Typed
  <2>6. (Threads /\ Kept)'
    BY <1>2 DEF Retrieve, Threads, Kept, Ended, nfg, request, threads, Typed
  <2> QED BY <2>2, <2>3, <2>4, <2>5, <2>6
<1>3. CASE RetrieveFails(n)
  BY <1>3, FailIInv DEF RetrieveFails
<1>4. CASE RetrieveAborts(n)
  BY <1>4, EndIInv DEF RetrieveAborts, Crash
<1> QED BY <1>1, <1>2, <1>3, <1>4

\* checkGraphValidity is over.
LEMMA CheckedIInv ==
    ASSUME IInv, Checked PROVE IInv'
<1> USE DEF IInv
<1>1. Typed'
  BY DEF Checked, Typed, controller, request, threads
<1>2. (Request /\ Flags)'
  BY SameFlags DEF Checked, Request, Adding, controller, request
<1>3. Entries'
  BY DEF Checked, Entries, Implemented, InMap, controller, request
<1>4. (Threads /\ Kept)'
  BY DEF Checked, Threads, Kept, Ended, controller, request, threads
<1> QED BY <1>1, <1>2, <1>3, <1>4

\* selectImplementation.
LEMMA SelectIInv ==
    ASSUME IInv, NEW running \in SUBSET Kinds,
           Select(running) \/ SelectFails(running) \/ SelectThrows(running)
    PROVE  IInv'
<1> USE DEF IInv
<1> DEFINE flags == checkSupportedDescriptions(running)
<1>1. /\ flags \in [NFs -> SUBSET Kinds]
      /\ \A n \in NFs : flags[n] \subseteq offered(n)
  BY DEF Typed, Flags, checkSupportedDescriptions, offered
<1>2. CASE Select(running)
  <2>1. \A n \in NFs : /\ entry[n] = "none" => entry'[n] \in Kinds
                       /\ entry[n] # "none" => entry'[n] = entry[n]
    <3> SUFFICES ASSUME NEW n \in NFs, entry[n] = "none" PROVE entry'[n] \in Kinds
      BY <1>2 DEF Select
    <3>1. flags[n] # {} /\ entry'[n] = selectNFImplementation(n, flags[n])
      BY <1>2 DEF Select
    <3> QED BY <1>1, <3>1, SelectsKind
  <2>2. Typed'
    <3>1. entry' \in [NFs -> Kinds \cup {"absent", "none"}]
      <4>1. \A n \in NFs : entry'[n] \in Kinds \cup {"absent", "none"}
        BY <2>1 DEF Typed
      <4>2. entry' = [n \in NFs |-> entry'[n]]
        BY <1>2 DEF Select
      <4> QED BY <4>1, <4>2
    <3> QED BY <1>1, <1>2, <3>1 DEF Select, Typed, nfg, request, threads
  <2>3. Request'
    BY <1>2 DEF Select, Request, Adding, nfg, request
  <2>4. Flags'
    <3>1. supported' = flags /\ descriptions' = descriptions
      BY <1>2 DEF Select
    <3> QED BY <1>1, <3>1, FlagsPerNF
  <2>5. Entries'
    BY <1>2, <2>1 DEF Select, Entries, Implemented, InMap, request, Typed
  <2>6. (Threads /\ Kept)'
    BY <1>2, <2>1 DEF Select, Threads, Kept, Ended, nfg, request, threads, Typed, Kinds
  <2> QED BY <2>2, <2>3, <2>4, <2>5, <2>6
<1>3. CASE SelectFails(running)
  <2>1. CASE op = "new"
    BY <1>3, <2>1, FailIInv, Zenon DEF SelectFails, Fail, nfg
  <2>2. CASE op # "new"
    BY <1>3, <2>2, EndIInv DEF SelectFails
  <2> QED BY <2>1, <2>2
<1>4. CASE SelectThrows(running)
  <2>1. /\ Return /\ UNCHANGED <<nfg, started, refused>>
        /\ op = "new" => Clear
        /\ op # "new" => /\ UNCHANGED <<entry, descriptions>>
                         /\ supported' \in [NFs -> SUBSET Kinds]
                         /\ \A n \in NFs : supported'[n] \in {supported[n], flags[n]}
    BY <1>1, <1>4, Zenon DEF SelectThrows, Typed
  <2>2. Typed'
    BY <2>1, ClearTyped DEF Typed, Return, nfg, Active
  <2>3. Flags'
    BY <1>1, <2>1 DEF Flags, Clear, offered
  <2>4. ASSUME NEW n \in started \ refused PROVE deployed /\ entry'[n] \in Kinds
    BY <1>4, <2>1 DEF SelectThrows, Kept, Ended, Request, Adding
  <2> QED BY <2>1, <2>2, <2>3, <2>4, ReturnIInv DEF nfg
<1> QED BY <1>2, <1>3, <1>4

\* The LSI is ready, all threads are created, or all have ended.
LEMMA QuietIInv ==
    ASSUME IInv, LsiReady \/ AllCreated \/ Join PROVE IInv'
<1> USE DEF IInv, LsiReady, AllCreated, Join, request
<1>1. Typed'
  BY DEF Typed, nfg, controller, threads
<1>2. (Request /\ Flags)'
  BY SameFlags DEF Request, Adding, nfg, controller
<1>3. Entries'
  BY DEF Entries, Implemented, InMap, controller
<1>4. Threads'
  BY DEF Threads, threads
<1>5. Kept'
  BY DEF Kept, Ended, nfg, controller
<1> QED BY <1>1, <1>2, <1>3, <1>4, <1>5

\* updateNF, and the creation of a thread.
LEMMA StartIInv ==
    ASSUME IInv, NEW n \in NFs, UpdateNF(n) \/ CreateThread(n) PROVE IInv'
<1> USE DEF IInv
<1>1. CASE Crash
  BY <1>1, EndIInv DEF Crash
<1>2. CASE ~Crash
  <2>1. /\ pc = "start" /\ n \in todo /\ todo' = todo \ {n}
        /\ UNCHANGED <<nfg, controller, pc, request>>
        /\ thread' = thread \/ thread' = [thread EXCEPT ![n] = "new"]
    BY <1>2 DEF UpdateNF, CreateThread, threads
  <2>2. Typed'
    BY <2>1 DEF Typed, Active, nfg, controller, request
  <2>3. (Request /\ Flags /\ Entries)'
    BY <2>1, SameFlags DEF Request, Entries, Implemented, InMap, nfg, controller, request
  <2>4. Threads'
    BY <2>1, Zenon DEF Threads, Request, Typed, request
  <2>5. Kept'
    BY <2>1 DEF Kept, Ended, nfg, controller, request
  <2> QED BY <2>2, <2>3, <2>4, <2>5
<1> QED BY <1>1, <1>2

\* The threads.
LEMMA ThreadIInv ==
    ASSUME IInv, NEW n \in NFs, ThreadStep(n) PROVE IInv'
<1> USE DEF IInv
<1>1. /\ Working /\ UNCHANGED process
      /\ thread[n] \in Active
      /\ UNCHANGED <<entry, descriptions, supported>>
      /\ \E t \in Active \cup {"ok", "failed"} : thread' = [thread EXCEPT ![n] = t]
      /\ \/ UNCHANGED <<started, refused>>
         \/ started' = started \cup {n}
  BY DEF ThreadStep, Lock, TakeCore, NextCore, Unlock, NoCores, DriverStarts, DriverFails,
         Active, controller
<1>2. \A m \in (started \ refused)' : m \in started \ refused \/ m = n
  BY <1>1 DEF ThreadStep, Lock, TakeCore, NextCore, Unlock, NoCores, DriverStarts, DriverFails,
         controller
<1>3. Typed'
  BY <1>1 DEF Typed, process, nfg, request
<1>4. (Request /\ Flags /\ Entries)'
  BY <1>1, SameFlags DEF Request, Entries, Implemented, InMap, process, nfg, request
<1>5. Threads'
  BY <1>1 DEF Threads, Typed, process, nfg, request
<1>6. n \in diff /\ entry[n] \in Kinds
  BY <1>1 DEF Threads, Entries, Implemented, Working
<1>7. Kept'
  BY <1>1, <1>2, <1>6 DEF Kept, Ended, Working, process, nfg, request
<1> QED BY <1>3, <1>4, <1>5, <1>7

\* stopNF on one NF of a list: what it may change.
LEMMA StopEffect ==
    ASSUME Typed, NEW n \in NFs, Stop(n), ~Crash
    PROVE  /\ n \in todo /\ todo' = todo \ {n}
           /\ UNCHANGED <<nfg, pc, request, threads>>
           /\ entry' \in [NFs -> Kinds \cup {"absent", "none"}]
           /\ descriptions' \in [NFs -> Seq(Kinds)]
           /\ supported' \in [NFs -> SUBSET Kinds]
           /\ started' \subseteq started /\ started \ started' \subseteq {n}
           /\ \A m \in NFs : m # n => /\ entry'[m] = entry[m]
                                      /\ descriptions'[m] = descriptions[m]
                                      /\ supported'[m] = supported[m]
           /\ supported'[n] = {} \/ UNCHANGED <<descriptions, supported>>
           /\ \A m \in (started \ refused)' : m \in started \ refused
           /\ n \in (started \ refused)' => ~InMap(n)
<1>1. CASE stopNF(n)
  <2>1. <<>> \in Seq(Kinds)
    OBVIOUS
  <2>3. n \in todo /\ todo' = todo \ {n} /\ UNCHANGED <<nfg, pc, request, threads>>
    BY <1>1 DEF Stop, stopNF, Kinds
  <2>4. CASE Erase(n) /\ started' = started \ {n} /\ refused' = refused \ {n}
    BY <2>1, <2>3, <2>4 DEF Erase, Typed
  <2>5. CASE refused' = refused \cup {n} /\ UNCHANGED <<entry, descriptions, supported, started>>
    BY <2>3, <2>5 DEF Typed
  <2> QED BY <1>1, <2>4, <2>5 DEF stopNF
<1>2. CASE ~InMap(n) /\ UNCHANGED controller
  BY <1>2 DEF Stop, stopNF, Typed, Kinds, InMap, controller
<1> QED BY <1>1, <1>2 DEF Stop

\* The three loops of stopNF.
LEMMA StopIInv ==
    ASSUME IInv, NEW n \in NFs, Stop(n), pc \in {"undo", "remove", "stopAll"} PROVE IInv'
<1> USE DEF IInv
<1>1. CASE Crash
  BY <1>1, EndIInv DEF Crash
<1>2. CASE ~Crash
  <2>1. Typed'
    BY <1>2, StopEffect DEF Typed, nfg, request, threads
  <2>2. (Request /\ Entries)'
    BY <1>2, StopEffect DEF Request, Adding, Entries, Implemented, nfg, request
  <2>3. Flags'
    <3> SUFFICES ASSUME NEW m \in NFs PROVE supported'[m] \subseteq offered(m)'
      BY DEF Flags
    <3>1. supported[m] \subseteq offered(m)
      BY DEF Flags
    <3>2. CASE supported'[m] = supported[m] /\ descriptions'[m] = descriptions[m]
      BY <3>1, <3>2 DEF offered
    <3>3. CASE supported'[m] = {}
      BY <3>3
    <3> QED BY <1>2, <3>2, <3>3, StopEffect
  <2>4. Threads'
    BY <1>2, StopEffect DEF Threads, nfg, request, threads
  <2>5. Kept'
    BY <1>2, StopEffect DEF Kept, Ended, InMap, Kinds, Typed, nfg, request
  <2> QED BY <2>1, <2>2, <2>3, <2>4, <2>5
<1> QED BY <1>1, <1>2

\* The requests that get further.
LEMMA RulesIInv ==
    ASSUME IInv, RulesFail \/ RulesEscape \/ Deploy \/ RemoveStarts PROVE IInv'
<1> USE DEF IInv
<1>1. CASE RulesFail
  <2>1. (Typed /\ Request)'
    BY <1>1 DEF RulesFail, Typed, Request, Adding, nfg, controller, request, threads
  <2>2. Flags'
    BY <1>1, SameFlags DEF RulesFail, controller
  <2>3. Entries'
    BY <1>1 DEF RulesFail, Entries, Implemented
  <2>4. Threads'
    BY <1>1 DEF RulesFail, Threads, request, threads
  <2>5. Kept'
    BY <1>1 DEF RulesFail, Kept, Ended, nfg, controller, request
  <2> QED BY <2>1, <2>2, <2>3, <2>4, <2>5
<1>2. CASE Deploy
  <2>1. Typed'
    BY <1>2 DEF Deploy, Return, Typed, controller, Active
  <2>2. Flags'
    BY <1>2, SameFlags DEF Deploy, controller
  <2>3. \A n \in (started \ refused)' : deployed' /\ entry'[n] \in Kinds
    BY <1>2 DEF Deploy, Kept, controller
  <2> QED BY <1>2, <2>1, <2>2, <2>3, ReturnIInv DEF Deploy
<1>3. CASE RemoveStarts
  <2>1. CASE Crash
    BY <2>1, EndIInv DEF Crash
  <2>2. CASE ~Crash
    <3>1. (Typed /\ Request)'
      BY <1>3, <2>2, Zenon DEF RemoveStarts, Typed, Request, Adding, controller, request, threads
    <3>2. (Flags /\ Entries)'
      BY <1>3, <2>2, SameFlags DEF RemoveStarts, Entries, Implemented, controller
    <3>3. (Threads /\ Kept)'
      BY <1>3, <2>2, Zenon DEF RemoveStarts, Threads, Kept, Ended, Request, Adding, controller, request, threads
    <3> QED BY <3>1, <3>2, <3>3
  <2> QED BY <2>1, <2>2
<1>4. CASE RulesEscape
  <2>1. Clear /\ Return
    BY <1>4 DEF RulesEscape
  <2>2. Typed'
    BY <1>4, <2>1, ClearTyped DEF RulesEscape, Clear, Return, Typed, Active
  <2>3. Flags'
    BY <2>1 DEF Clear, Flags
  <2>4. started \ refused \subseteq diff
    BY <1>4 DEF RulesEscape, Kept, Ended, Request, Adding
  <2>5. (started \ refused)' = {}
    BY <1>4, <2>4 DEF RulesEscape
  <2> QED BY <2>1, <2>2, <2>3, <2>5, ReturnIInv
<1> QED BY <1>1, <1>2, <1>3, <1>4

\* deleteGraph begins.
LEMMA DeleteIInv ==
    ASSUME IInv, DeleteGraph PROVE IInv'
<1> USE DEF IInv, DeleteGraph
<1>1. Typed'
  BY DEF Typed, nfg, controller, threads
<1>2. (Request /\ Flags /\ Entries)'
  BY SameFlags DEF Request, Adding, Entries, Implemented, nfg, controller
<1>3. Threads'
  BY DEF Threads, threads
<1>4. Kept'
  BY DEF Kept, InMap, Kinds, Typed, nfg, controller
<1> QED BY <1>1, <1>2, <1>3, <1>4

\* The ends of updateGraph and deleteGraph.
LEMMA DoneIInv ==
    ASSUME IInv, RemoveFails \/ Updated \/ Deleted \/ DeleteFails PROVE IInv'
<1> USE DEF IInv
<1>1. CASE Deleted
  <2>1. started \ refused = {} /\ UNCHANGED <<started, refused>> /\ Clear /\ Return
    BY <1>1 DEF Deleted, Drop, Kept
  <2>2. Typed'
    BY <1>1, <2>1, ClearTyped, Zenon DEF Deleted, Typed, Return, Active
  <2>3. Flags'
    BY <2>1 DEF Clear, Flags
  <2> QED BY <2>1, <2>2, <2>3, ReturnIInv
<1>2. CASE RemoveFails \/ Updated \/ DeleteFails
  <2>1. deployed /\ Return /\ UNCHANGED <<graph, deployed, controller>>
    BY <1>2 DEF RemoveFails, Updated, DeleteFails, Request, nfg
  <2>2. Typed'
    BY <2>1 DEF Typed, Return, controller, Active
  <2>3. Flags'
    BY <2>1, SameFlags DEF controller
  <2>4. \A n \in (started \ refused)' : deployed' /\ entry'[n] \in Kinds
    BY <2>1 DEF Kept, controller
  <2> QED BY <2>1, <2>2, <2>3, <2>4, ReturnIInv
<1> QED BY <1>1, <1>2

\* Every step keeps the invariant.
LEMMA NextIInv ==
    ASSUME IInv, [Next]_vars PROVE IInv'
<1>1. CASE UNCHANGED vars
  <2>1. UNCHANGED <<nfg, controller, pc, todo, request, threads>>
    BY <1>1 DEF vars
  <2>2. Typed'
    BY <2>1 DEF IInv, Typed, nfg, controller, request, threads
  <2>3. Request'
    BY <2>1 DEF IInv, Request, nfg, request
  <2>4. Flags'
    BY <2>1, SameFlags DEF IInv, controller
  <2>5. Entries'
    BY <2>1 DEF IInv, Entries, Implemented, InMap, controller, request
  <2>6. Threads'
    BY <2>1 DEF IInv, Threads, request, threads
  <2>7. Kept'
    BY <2>1 DEF IInv, Kept, Ended, nfg, controller, request
  <2> QED BY <2>2, <2>3, <2>4, <2>5, <2>6, <2>7 DEF IInv
<1>2. CASE Requests
  <2>1. CASE \E S \in SUBSET NFs : \/ NewGraph(S)
                                   \/ \E more, less \in SUBSET S : UpdateGraph(S, more, less)
    BY <2>1, BeginIInv
  <2>2. CASE DeleteGraph
    BY <2>2, DeleteIInv
  <2>3. CASE PrintInfo
    BY <2>3, EndIInv DEF PrintInfo, Crash
  <2> QED BY <1>2, <2>1, <2>2, <2>3 DEF Requests
<1>3. CASE Step
  <2>1. CASE LsiFails
    BY <2>1, FailIInv DEF LsiFails
  <2>2. CASE Undone
    BY <2>2, FailIInv DEF Undone
  <2>3. CASE \E running \in SUBSET (Kinds \ {"dpdk"}) :
                Select(running) \/ SelectFails(running) \/ SelectThrows(running)
    BY <2>3, SelectIInv
  <2>4. ASSUME NEW n \in NFs, Undo(n) \/ RemoveNF(n) \/ StopAll(n) PROVE IInv'
    <3>1. CASE Stop(n) /\ pc \in {"undo", "remove", "stopAll"}
      BY <3>1, StopIInv
    <3>2. CASE pc' = "undefined" /\ UNCHANGED <<nfg, controller, todo, request, threads>>
      BY <3>2, EndIInv
    <3> QED BY <2>4, <3>1, <3>2 DEF Undo, RemoveNF, StopAll
  <2> QED BY <1>3, <2>1, <2>2, <2>3, <2>4, CheckIInv, CheckedIInv, QuietIInv, StartIInv, RulesIInv,
             DoneIInv DEF Step
<1>4. CASE \E n \in NFs : ThreadStep(n)
  BY <1>4, ThreadIInv
<1> QED BY <1>1, <1>2, <1>3, <1>4 DEF Next

\* The invariant holds throughout.
THEOREM Inductive == Spec => []IInv
<1>1. Init => IInv
  BY InitIInv
<1>2. IInv /\ [Next]_vars => IInv'
  BY NextIInv
<1> QED BY <1>1, <1>2, PTL DEF Spec

\* ComputeController::startNF: every NF of the request has an implementation when the LSI is
\* made and the NFs are started.
THEOREM AlwaysImplemented == Spec => []Implemented
<1>1. IInv => Implemented
  BY DEF IInv, Entries
<1> QED BY <1>1, Inductive, PTL

\* GraphManager and ComputeController::stopNF: what runs is in the controller of the deployed
\* NF-FG, unless a driver has refused to stop it, or a newGraph that ends with an uncaught
\* exception has lost its controller (RulesEscape, which takes it out of started).
THEOREM NeverOrphan == Spec => []NoOrphan
<1>1. IInv => NoOrphan
  <2> SUFFICES ASSUME IInv, pc = "idle", NEW n \in started \ refused
               PROVE  deployed /\ entry[n] \in Kinds
    BY DEF NoOrphan
  <2> QED BY DEF IInv, Kept, Ended
<1> QED BY <1>1, Inductive, PTL

\* GraphManager::newGraph and updateGraph stop no NF but those they add or remove.
THEOREM OthersAlwaysRun == Spec => OthersRun
<1> DEFINE Others == (op \in {"new", "update"}) => (started \ started') \subseteq (diff \cup gone)
<1>1. ASSUME IInv, [Next]_vars PROVE [Others]_vars
  <2>1. CASE started \subseteq started'
    BY <2>1
  <2>2. ASSUME NEW n \in NFs, Undo(n) \/ RemoveNF(n) \/ StopAll(n) PROVE Others
    <3>1. CASE started \subseteq started'
      BY <3>1
    <3>2. CASE ~ (started \subseteq started')
      <4>1. Stop(n) /\ ~Crash
        BY <2>2, <3>2 DEF Undo, RemoveNF, StopAll, Stop, Crash, controller
      <4>2. (started \ started') \subseteq {n} /\ n \in todo
        BY <1>1, <4>1, StopEffect DEF IInv
      <4> QED BY <1>1, <2>2, <4>2 DEF Undo, RemoveNF, StopAll, IInv, Request
    <3> QED BY <3>1, <3>2
  <2>3. CASE Requests \/ (\E n \in NFs : ThreadStep(n))
    <3>1. started \subseteq started'
      BY <2>3, ZenonT(60) DEF Requests, NewGraph, UpdateGraph, DeleteGraph, PrintInfo, Crash, ThreadStep, Lock,
           TakeCore, NextCore, Unlock, NoCores, DriverStarts, DriverFails, controller
    <3> QED BY <2>1, <3>1
  <2>4. CASE Step
    <3>1. \/ started' = started \/ started' = started \ diff
          \/ \E n \in NFs : Undo(n) \/ RemoveNF(n) \/ StopAll(n)
      BY <2>4, ZenonT(60) DEF Step, Checked, LsiReady, LsiFails, AllCreated, Join, Select, SelectFails,
           SelectThrows, Undone, RulesFail, RulesEscape, Deploy, RemoveStarts, RemoveFails, Updated, Deleted,
           DeleteFails, Skip, Retrieve, RetrieveFails, RetrieveAborts, UpdateNF, CreateThread,
           Fail, Drop, Crash, controller
    <3> QED BY <2>1, <2>2, <3>1
  <2>5. CASE UNCHANGED vars
    BY <2>5
  <2> QED BY <1>1, <2>3, <2>4, <2>5 DEF Next
<1>2. IInv /\ [Next]_vars => [Others]_vars
  BY <1>1
<1> QED BY <1>2, Inductive, PTL DEF Spec, OthersRun

-----------------------------------------------------------------------------
\* The cores

Before == {"idle", "check", "select", "lsi", "stopAll"}
Holding == {"start", "join", "rules"}
Cores == 0 .. NCores - 1

\* How many moves ago nextCore was at core c, in the last round over all cores.
Back(c) == IF c < nextCore THEN nextCore - c ELSE nextCore - c + NCores
Behind(k) == {c \in Cores : Back(c) <= k}

CoresTyped ==
    /\ mask \in [NFs -> SUBSET Cores] /\ taken \in [NFs -> Nat]
    /\ nextCore \in Cores /\ mutex \in NFs \cup {Free}

\* Threads exist only while NFs are started, and in what comes of it; each NF gets one.
NoThreads ==
    /\ pc \in Before => \A n \in NFs : thread[n] = "no"
    /\ pc = "start" => \A n \in todo : thread[n] = "no"

\* The core that the thread of n has taken, and nextCore not yet left.
Left(n) == IF thread[n] = "next" THEN {nextCore} ELSE {}

\* calculateCoreMask: only the owner of the lock is in the loop, and has the cores
\* that nextCore has just passed.
Rounds(n) ==
    /\ taken[n] <= Need[n]
    /\ thread[n] \in {"no", "new"} => taken[n] = 0 /\ mask[n] = {}
    /\ thread[n] = "next" => taken[n] < Need[n]
    /\ thread[n] \in {"core", "next"} => mutex = n /\ mask[n] = Behind(taken[n]) \cup Left(n)
    /\ (thread[n] \in {"core", "next"} \/ taken[n] > 0) /\ pc \in Holding
          => n \in diff /\ entry[n] = "dpdk"

\* The moves of nextCore in this request.
Passed == Units(taken, NFs)

\* While nextCore has not come round, it has passed all cores that are in use, and no
\* core twice.
Trail ==
    Cardinality(Passed) <= NCores
       => \A n \in NFs : mask[n] \subseteq Behind(Cardinality(Passed)) \cup Left(n)

Apart ==
    (\/ Cardinality(Passed) < NCores
     \/ Cardinality(Passed) = NCores /\ \A n \in NFs : thread[n] # "next")
       => \A a, b \in NFs : a # b => mask[a] \cap mask[b] = {}

CInv == CoresTyped /\ NoThreads /\ (\A n \in NFs : Rounds(n)) /\ MaskComplete /\ Trail /\ Apart

\* The pairs of Units.
LEMMA UnitsMember ==
    ASSUME NEW count, NEW S
    PROVE  /\ \A n, k : <<n, k>> \in Units(count, S) <=> n \in S /\ k \in 1 .. count[n]
           /\ \A u \in Units(count, S) : \E n \in S : \E k \in 1 .. count[n] : u = <<n, k>>
BY DEF Units

\* A finite set of NFs has a finite number of units.
LEMMA UnitsFinite ==
    ASSUME NEW count \in [NFs -> Nat], NEW S \in SUBSET NFs
    PROVE  IsFiniteSet(Units(count, S))
<1> DEFINE f == [n \in S |-> {n} \X (1 .. count[n])]
           T == {{n} \X (1 .. count[n]) : n \in S}
<1>1. IsFiniteSet(S)
  BY NFsOrdered, FS_Subset, Zenon
<1>2. f \in Surjection(S, T)
  <2>1. f \in [S -> T]
    OBVIOUS
  <2>2. \A t \in T : \E n \in S : f[n] = t
    OBVIOUS
  <2> HIDE DEF f, T
  <2> QED BY <2>1, <2>2, Zenon DEF Surjection
<1>3. IsFiniteSet(T)
  BY <1>1, <1>2, FS_Surjection
<1>4. ASSUME NEW n \in S PROVE IsFiniteSet({n} \X (1 .. count[n]))
  <2>1. IsFiniteSet({n})
    BY FS_Singleton, Zenon
  <2>2. IsFiniteSet(1 .. count[n])
    BY FS_Interval
  <2> QED BY <2>1, <2>2, FS_Product
<1>5. \A t \in T : IsFiniteSet(t)
  BY <1>4
<1> QED BY <1>3, <1>5, FS_UNION, Zenon DEF Units

\* As many cores are behind nextCore as it has passed, or all.
LEMMA BehindCount ==
    ASSUME CoresTyped, NEW k \in Nat \ {0}
    PROVE  Cardinality(Behind(k)) = Min({k, NCores})
<1> USE SomeCores
<1> DEFINE m == IF k <= NCores THEN k ELSE NCores
           f == [b \in 1 .. m |-> IF b <= nextCore THEN nextCore - b ELSE nextCore - b + NCores]
<1>1. nextCore \in 0 .. NCores - 1 /\ m \in Nat /\ m <= NCores
  BY DEF CoresTyped, Cores
<1>2. f \in [1 .. m -> Behind(k)]
  BY <1>1 DEF Behind, Back, Cores
<1>3. \A a, b \in 1 .. m : f[a] = f[b] => a = b
  BY <1>1
<1>4. ASSUME NEW c \in Behind(k) PROVE \E b \in 1 .. m : f[b] = c
  <2>1. Back(c) \in 1 .. m
    BY <1>1 DEF Behind, Back, Cores
  <2>2. f[Back(c)] = c
    BY <1>1, <2>1 DEF Behind, Back, Cores
  <2> QED BY <2>1, <2>2
<1>5. f \in Bijection(1 .. m, Behind(k))
  <2> HIDE DEF f
  <2> QED BY <1>2, <1>3, <1>4, Zenon DEF Bijection, Injection, Surjection, IsInjective
<1>6. Cardinality(Behind(k)) = m
  <2>1. IsFiniteSet(1 .. m) /\ Cardinality(1 .. m) = m
    BY <1>1, FS_Interval
  <2> HIDE DEF f, m
  <2> QED BY <1>5, <2>1, FS_Bijection, Zenon DEF ExistsBijection
<1>7. Min({k, NCores}) = m
  BY DEF Min
<1> QED BY <1>6, <1>7

\* What nextCore has passed after one more move.
LEMMA BehindNext ==
    ASSUME CoresTyped, nextCore' = (nextCore + 1) % NCores, NEW k \in Nat
    PROVE  /\ nextCore' \in Cores
           /\ Behind(k) \cup {nextCore} \subseteq Behind(k + 1)'
           /\ Behind(k + 1)' \subseteq Behind(k) \cup {nextCore}
<1>1. /\ nextCore \in 0 .. NCores - 1
      /\ nextCore' = IF nextCore + 1 = NCores THEN 0 ELSE nextCore + 1
  BY SomeCores DEF CoresTyped, Cores
<1> QED BY <1>1, SomeCores DEF Behind, Back, Cores

\* Before a round is over nextCore has not passed the core it is at.
LEMMA BehindFresh ==
    ASSUME CoresTyped, NEW k \in Nat, k < NCores
    PROVE  nextCore \notin Behind(k)
BY SomeCores DEF CoresTyped, Behind, Back, Cores

\* Nothing is behind before the first move.
LEMMA BehindNone ==
    ASSUME CoresTyped PROVE Behind(0) = {}
BY SomeCores DEF CoresTyped, Behind, Back, Cores

\* Without threads no core is in use.
LEMMA NoThreadsCInv ==
    ASSUME CoresTyped', (pc = "start" => todo \subseteq NFs)',
           \A n \in NFs : thread'[n] = "no" /\ taken'[n] = 0 /\ mask'[n] = {}
    PROVE  CInv'
<1>1. \A n \in NFs : Rounds(n)'
  BY NeedCores DEF Rounds
<1>2. (NoThreads /\ MaskComplete)'
  BY DEF NoThreads, MaskComplete
<1>3. (Trail /\ Apart)'
  BY DEF Trail, Apart
<1> QED BY <1>1, <1>2, <1>3 DEF CInv

\* A request that ends forgets its threads.
LEMMA ReturnCInv ==
    ASSUME CInv, Return PROVE CInv'
<1>1. CoresTyped'
  BY DEF CInv, CoresTyped, Return
<1> QED BY <1>1, NoThreadsCInv DEF Return

\* A step that leaves the threads alone.
LEMMA QuietCInv ==
    ASSUME CInv, UNCHANGED threads, pc' \in Before => pc \in Before,
           \/ pc \in Before
           \/ /\ \A n \in NFs : entry'[n] = entry[n] \/ (entry'[n] # "dpdk" /\ pc' \notin Holding)
              /\ pc' \in Holding => pc \in Holding /\ UNCHANGED diff
              /\ pc' = "start" => pc = "start" /\ todo' \subseteq todo,
           (pc = "start" => todo \subseteq NFs)'
    PROVE  CInv'
<1>1. /\ UNCHANGED <<thread, mask, taken, nextCore, mutex>>
      /\ CoresTyped'
  BY DEF threads, CInv, CoresTyped
<1>2. CASE pc \in Before
  BY <1>1, <1>2, NoThreadsCInv, Zenon DEF CInv, NoThreads, Rounds
<1>3. CASE pc \notin Before
  <2>1. ASSUME NEW n \in NFs PROVE Rounds(n)'
    <3>1. Rounds(n)
      BY DEF CInv
    <3> QED BY <1>1, <1>3, <3>1 DEF Rounds, Behind, Back, Left
  <2>2. NoThreads'
    BY <1>1, <1>3 DEF CInv, NoThreads, Before
  <2>3. MaskComplete'
    BY <1>1, <1>3, Zenon DEF CInv, MaskComplete
  <2>4. Trail'
    BY <1>1, Zenon DEF CInv, Trail, Passed, Units, Behind, Back, Left
  <2>5. Apart'
    BY <1>1, Zenon DEF CInv, Apart, Passed, Units
  <2> QED BY <1>1, <2>1, <2>2, <2>3, <2>4, <2>5 DEF CInv
<1> QED BY <1>2, <1>3

\* Only the owner of the lock is in the loop.
LEMMA OneInLoop ==
    ASSUME CInv, NEW n \in NFs, thread[n] \in {"core", "next"} \/ mutex = Free
    PROVE  \A m \in NFs \ {n} : thread[m] \notin {"core", "next"}
<1>1. \A m \in NFs : thread[m] \in {"core", "next"} => mutex = m
  BY DEF CInv, Rounds
<1>2. Free \notin NFs
  BY NFsOrdered DEF Free
<1> QED BY <1>1, <1>2

\* A step of one thread that changes neither nextCore nor what has been taken.
LEMMA MoveCInv ==
    ASSUME IInv, CInv, NEW n \in NFs, NEW t, thread' = [thread EXCEPT ![n] = t],
           thread[n] # "next", t # "next",
           UNCHANGED <<entry, diff, pc, mask, taken, nextCore>>, pc \notin Before,
           todo' \subseteq todo, n \notin todo' \/ pc # "start",
           mutex' \in NFs \cup {Free},
           Rounds(n)', \A m \in NFs \ {n} : thread[m] \in {"core", "next"} => mutex' = m,
           t \in {"driver", "ok"} /\ entry[n] = "dpdk"
              => Cardinality(mask[n]) = Min({Need[n], NCores})
    PROVE  CInv'
<1>1. /\ thread'[n] = t
      /\ \A m \in NFs \ {n} : thread'[m] = thread[m]
      /\ \A m \in NFs : thread'[m] = "next" <=> thread[m] = "next"
  BY Zenon DEF IInv, Typed
<1>2. CoresTyped'
  BY DEF CInv, CoresTyped
<1>3. ASSUME NEW m \in NFs, m # n PROVE Rounds(m)'
  <2>1. Rounds(m) /\ thread'[m] = thread[m]
    BY <1>1, <1>3 DEF CInv
  <2> QED BY <1>3, <2>1, Zenon DEF Rounds, Behind, Back, Left
<1>4. NoThreads'
  BY <1>1 DEF CInv, NoThreads, IInv, Typed
<1>5. MaskComplete'
  BY <1>1 DEF CInv, MaskComplete
<1>6. PICK p : p = Cardinality(Passed) /\ p = Cardinality(Passed)'
  BY Zenon DEF Passed, Units
<1>7. Trail'
  <2>1. p <= NCores => \A m \in NFs : mask[m] \subseteq Behind(p) \cup Left(m)
    BY <1>6, Zenon DEF CInv, Trail
  <2>2. Behind(p)' = Behind(p) /\ \A m \in NFs : Left(m)' = Left(m)
    BY <1>1, Zenon DEF Behind, Back, Left
  <2>3. p <= NCores => \A m \in NFs : mask'[m] \subseteq Behind(p)' \cup Left(m)'
    BY <2>1, <2>2, Zenon
  <2> QED BY <1>6, <2>3, Zenon DEF Trail
<1>8. Apart'
  <2>1. p < NCores \/ (p = NCores /\ \A m \in NFs : thread[m] # "next")
           => \A a, b \in NFs : a # b => mask[a] \cap mask[b] = {}
    BY <1>6, Zenon DEF CInv, Apart
  <2>2. p < NCores \/ (p = NCores /\ \A m \in NFs : thread'[m] # "next")
           => \A a, b \in NFs : a # b => mask'[a] \cap mask'[b] = {}
    BY <1>1, <2>1, Zenon
  <2> QED BY <1>6, <2>2, Zenon DEF Apart
<1> QED BY <1>2, <1>3, <1>4, <1>5, <1>7, <1>8, Zenon DEF CInv

\* The steps of a thread outside of the loop, and the two ends of the loop.
LEMMA MovesCInv ==
    ASSUME IInv, CInv, NEW n \in NFs,
           \/ CreateThread(n) \/ Lock(n) \/ Unlock(n) \/ NoCores(n)
           \/ DriverStarts(n) \/ DriverFails(n)
    PROVE  CInv'
<1> USE DEF Before, process, request, controller
<1>1. Rounds(n) /\ taken[n] \in Nat /\ mutex \in NFs \cup {Free} /\ thread \in [NFs -> Active \cup {"no", "ok", "failed"}]
  BY DEF CInv, CoresTyped, IInv, Typed
<1>0. thread[n] # "no" => n \notin todo \/ pc # "start"
  BY DEF CInv, NoThreads
<1>2. CASE CreateThread(n)
  <2>1. thread[n] = "no" /\ UNCHANGED mutex
    BY <1>2 DEF CreateThread, CInv, NoThreads
  <2>2. Rounds(n)'
    BY <1>1, <1>2, <2>1, NeedCores, Zenon DEF CreateThread, Rounds
  <2>3. \A m \in NFs \ {n} : thread[m] \in {"core", "next"} => mutex = m
    BY Zenon DEF CInv, Rounds
  <2>4. /\ thread' = [thread EXCEPT ![n] = "new"]
        /\ UNCHANGED <<entry, diff, pc, mask, taken, nextCore>> /\ pc \notin Before
        /\ todo' \subseteq todo /\ n \notin todo'
    BY <1>2 DEF CreateThread
  <2> HIDE DEF Before
  <2> QED BY <1>1, <2>1, <2>2, <2>3, <2>4, MoveCInv, Zenon
<1>3. CASE Lock(n)
  <2>1. Rounds(n)'
    <3>1. thread'[n] = "core" /\ mutex' = n /\ taken'[n] = 0 /\ mask'[n] = {}
      BY <1>1, <1>3, Zenon DEF Lock, Rounds
    <3>2. n \in diff' /\ entry'[n] = "dpdk"
      BY <1>3, Zenon DEF Lock, IInv, Threads, Active
    <3>3. Behind(0)' = {}
      BY <1>3, BehindNone DEF Lock, Behind, Back, CInv
    <3> QED BY <3>1, <3>2, <3>3, NeedCores DEF Rounds, Left
  <2>2. \A m \in NFs \ {n} : thread[m] \notin {"core", "next"}
    BY <1>3, OneInLoop DEF Lock
  <2>3. /\ thread' = [thread EXCEPT ![n] = "core"] /\ thread[n] \notin {"no", "next"}
        /\ UNCHANGED <<entry, diff, pc, mask, taken, nextCore, todo>> /\ pc \notin Before /\ mutex' = n
    BY <1>3 DEF Lock, Working
  <2> HIDE DEF Before
  <2> QED BY <1>0, <1>1, <2>1, <2>2, <2>3, MoveCInv, Zenon
<1>4. CASE Unlock(n)
  <2>1. Rounds(n)'
    BY <1>1, <1>4, Zenon DEF Unlock, Rounds, Left
  <2>2. \A m \in NFs \ {n} : thread[m] \notin {"core", "next"}
    BY <1>4, OneInLoop, Zenon DEF Unlock
  <2>3. Cardinality(mask[n]) = Min({Need[n], NCores})
    <3>1. mask[n] = Behind(taken[n]) /\ taken[n] = Need[n]
      BY <1>1, <1>4, Zenon DEF Unlock, Rounds, Left
    <3>2. CoresTyped /\ Need[n] \in Nat \ {0}
      BY NeedCores, Zenon DEF CInv
    <3> QED BY <3>1, <3>2, BehindCount, Zenon
  <2>4. /\ thread' = [thread EXCEPT ![n] = "driver"] /\ thread[n] \notin {"no", "next"}
        /\ UNCHANGED <<entry, diff, pc, mask, taken, nextCore, todo>> /\ pc \notin Before /\ mutex' = Free
    BY <1>4, Zenon DEF Unlock, Working
  <2> HIDE DEF Before
  <2> QED BY <1>0, <1>1, <2>1, <2>2, <2>3, <2>4, MoveCInv, Zenon
<1>5. CASE NoCores(n)
  <2>1. Rounds(n)' /\ UNCHANGED mutex
    BY <1>1, <1>5, Zenon DEF NoCores, Rounds, Left
  <2>2. \A m \in NFs \ {n} : thread[m] \in {"core", "next"} => mutex = m
    BY Zenon DEF CInv, Rounds
  <2>3. /\ thread' = [thread EXCEPT ![n] = "driver"] /\ thread[n] \notin {"no", "next"}
        /\ UNCHANGED <<entry, diff, pc, mask, taken, nextCore, todo>> /\ pc \notin Before /\ entry[n] # "dpdk"
    BY <1>5 DEF NoCores, Working
  <2> HIDE DEF Before
  <2> QED BY <1>0, <1>1, <2>1, <2>2, <2>3, MoveCInv, Zenon
<1>6. CASE DriverStarts(n) \/ DriverFails(n)
  <2>1. PICK t \in {"ok", "failed"} : thread' = [thread EXCEPT ![n] = t]
    BY <1>6 DEF DriverStarts, DriverFails
  <2>2. /\ UNCHANGED <<entry, diff, pc, mask, taken, nextCore, mutex>>
        /\ Working /\ thread[n] = "driver"
    BY <1>6 DEF DriverStarts, DriverFails
  <2>3. Rounds(n)'
    BY <1>1, <2>1, <2>2, Zenon DEF Rounds, Left
  <2>4. \A m \in NFs \ {n} : thread[m] \in {"core", "next"} => mutex = m
    BY Zenon DEF CInv, Rounds
  <2>5. entry[n] = "dpdk" => Cardinality(mask[n]) = Min({Need[n], NCores})
    BY <2>2, Zenon DEF CInv, MaskComplete
  <2>6. pc \notin Before /\ UNCHANGED todo /\ thread[n] \notin {"no", "next"} /\ t # "next"
    BY <1>6, <2>1, <2>2 DEF DriverStarts, DriverFails, Working
  <2> HIDE DEF Before
  <2> QED BY <1>0, <1>1, <2>1, <2>2, <2>3, <2>4, <2>5, <2>6, MoveCInv, Zenon
<1> QED BY <1>2, <1>3, <1>4, <1>5, <1>6

\* A core is taken.
LEMMA TakeCoreCInv ==
    ASSUME IInv, CInv, NEW n \in NFs, TakeCore(n) PROVE CInv'
<1>1. /\ thread[n] = "core" /\ thread' = [thread EXCEPT ![n] = "next"] /\ taken[n] < Need[n]
      /\ mask' = [mask EXCEPT ![n] = mask[n] \cup {nextCore}]
      /\ pc \in {"start", "join"}
      /\ UNCHANGED <<pc, todo, diff, entry, taken, nextCore, mutex>>
  BY Zenon DEF TakeCore, Working, process, request, controller
<1>2. /\ thread \in [NFs -> Active \cup {"no", "ok", "failed"}] /\ mask \in [NFs -> SUBSET Cores]
      /\ nextCore \in Cores /\ taken \in [NFs -> Nat]
  BY DEF IInv, Typed, CInv, CoresTyped
<1>3. \A m \in NFs \ {n} : thread'[m] = thread[m] /\ mask'[m] = mask[m] /\ thread[m] \notin {"core", "next"}
  BY <1>1, <1>2, OneInLoop
<1>4. thread'[n] = "next" /\ mask'[n] = mask[n] \cup {nextCore}
  BY <1>1, <1>2
<1>5. CoresTyped'
  <2>1. mask' \in [NFs -> SUBSET Cores]
    BY <1>1, <1>2
  <2> QED BY <1>1, <2>1 DEF CInv, CoresTyped
<1>6. Rounds(n)'
  <2>1. Rounds(n) /\ n \in diff
    BY <1>1, Zenon DEF CInv, IInv, Threads, Active
  <2> QED BY <1>1, <1>4, <2>1 DEF Rounds, Behind, Back, Left, Holding
<1>7. ASSUME NEW m \in NFs, m # n PROVE Rounds(m)'
  <2>1. Rounds(m) /\ thread'[m] = thread[m] /\ mask'[m] = mask[m] /\ thread[m] \notin {"core", "next"}
    BY <1>3, <1>7 DEF CInv
  <2> QED BY <1>1, <2>1 DEF Rounds
<1>8. (NoThreads /\ MaskComplete)'
  <2>1. NoThreads'
    <3>1. pc' \notin Before /\ (pc = "start" => todo \subseteq NFs \ {n})
      BY <1>1, Zenon DEF CInv, NoThreads, Before, IInv, Typed
    <3> QED BY <1>1, <1>3, <3>1, Zenon DEF CInv, NoThreads
  <2>2. MaskComplete'
    BY <1>1, <1>3, <1>4, Zenon DEF CInv, MaskComplete
  <2> QED BY <2>1, <2>2
<1>9. PICK p : p = Cardinality(Passed)
  OBVIOUS
<1>10. p \in Nat /\ p = Cardinality(Passed)' /\ \A k : Behind(k)' = Behind(k)
  <2>1. IsFiniteSet(Passed)
    BY <1>2, UnitsFinite DEF Passed
  <2>2. p \in Nat
    BY <1>9, <2>1, FS_CardinalityType, Zenon
  <2>3. Passed' = Passed
    BY <1>1, Zenon DEF Passed, Units
  <2>4. \A k : Behind(k)' = Behind(k)
    BY <1>1, Zenon DEF Behind, Back
  <2> QED BY <1>9, <2>2, <2>3, <2>4, Zenon
<1>11. p <= NCores => \A m \in NFs : mask[m] \subseteq Behind(p) \cup Left(m)
  BY <1>9, Zenon DEF CInv, Trail
<1>12. Trail'
  <2>1. p <= NCores => \A m \in NFs : mask'[m] \subseteq Behind(p)' \cup Left(m)'
    BY <1>1, <1>3, <1>4, <1>10, <1>11, Zenon DEF Left
  <2> QED BY <1>10, <2>1 DEF Trail
<1>13. Apart'
  <2> SUFFICES ASSUME p < NCores, NEW a \in NFs, NEW b \in NFs, a # b
               PROVE  mask'[a] \cap mask'[b] = {}
    BY <1>4, <1>10, SomeCores DEF Apart
  <2>1. mask[a] \cap mask[b] = {}
    BY <1>9 DEF CInv, Apart
  <2>2. nextCore \notin Behind(p)
    BY <1>10, BehindFresh DEF CInv
  <2>3. \A m \in NFs \ {n} : nextCore \notin mask[m]
    BY <1>3, <1>10, <1>11, <2>2, SomeCores DEF Left
  <2> QED BY <1>3, <1>4, <2>1, <2>3
<1> QED BY <1>5, <1>6, <1>7, <1>8, <1>12, <1>13 DEF CInv

\* An interval that is one longer has one number more.
LEMMA NewLast ==
    ASSUME NEW k \in Nat, NEW i \in 1 .. k + 1, i \notin 1 .. k PROVE i = k + 1
OBVIOUS

\* nextCore moves on.
LEMMA NextCoreCInv ==
    ASSUME IInv, CInv, NEW n \in NFs, NextCore(n) PROVE CInv'
<1>1. /\ thread[n] = "next" /\ thread' = [thread EXCEPT ![n] = "core"]
      /\ nextCore' = (nextCore + 1) % NCores
      /\ taken' = [taken EXCEPT ![n] = taken[n] + 1]
      /\ pc \in {"start", "join"}
      /\ UNCHANGED <<pc, todo, diff, entry, mask, mutex>>
  BY DEF NextCore, Working, process, request, controller
<1>2. /\ thread \in [NFs -> Active \cup {"no", "ok", "failed"}] /\ mask \in [NFs -> SUBSET Cores]
      /\ nextCore \in Cores /\ taken \in [NFs -> Nat]
  BY DEF IInv, Typed, CInv, CoresTyped
<1>3. \A m \in NFs \ {n} : thread'[m] = thread[m] /\ taken'[m] = taken[m] /\ thread[m] \notin {"core", "next"}
  BY <1>1, <1>2, OneInLoop
<1>4. PICK k \in Nat : k = taken[n]
  BY <1>2
<1>5. thread'[n] = "core" /\ taken'[n] = k + 1
  BY <1>1, <1>2, <1>4
<1>6. CoresTyped'
  <2>1. taken' \in [NFs -> Nat]
    BY <1>1, <1>2
  <2>2. nextCore' \in Cores
    BY <1>1, BehindNext DEF CInv
  <2> QED BY <1>1, <2>1, <2>2 DEF CInv, CoresTyped
<1>7. Rounds(n)'
  <2>1. Rounds(n)
    BY DEF CInv
  <2>2. mask[n] = Behind(k) \cup {nextCore} /\ mutex = n /\ k < Need[n] /\ n \in diff /\ entry[n] = "dpdk"
    BY <1>1, <1>4, <2>1 DEF Rounds, Left, Holding
  <2>3. mask'[n] = Behind(k + 1)'
    BY <1>1, <1>4, <2>2, BehindNext, Zenon DEF CInv
  <2>4. k + 1 <= Need[n] /\ Left(n)' = {}
    BY <1>4, <1>5, <2>2, NeedCores DEF Left
  <2>5. Behind(taken[n])' = Behind(k + 1)'
    BY <1>5 DEF Behind, Back
  <2> QED BY <1>1, <1>5, <2>2, <2>3, <2>4, <2>5, Zenon DEF Rounds
<1>8. ASSUME NEW m \in NFs, m # n PROVE Rounds(m)'
  <2>1. Rounds(m) /\ thread'[m] = thread[m] /\ taken'[m] = taken[m] /\ thread[m] \notin {"core", "next"}
    BY <1>3, <1>8, Zenon DEF CInv
  <2> QED BY <1>1, <2>1, Zenon DEF Rounds
<1>9. (NoThreads /\ MaskComplete)'
  <2>1. NoThreads'
    <3>1. pc' \notin Before /\ (pc = "start" => todo \subseteq NFs \ {n})
      BY <1>1 DEF CInv, NoThreads, Before, IInv, Typed
    <3> QED BY <1>1, <1>3, <3>1, Zenon DEF CInv, NoThreads
  <2>2. MaskComplete'
    BY <1>1, <1>3, <1>5, Zenon DEF CInv, MaskComplete
  <2> QED BY <2>1, <2>2
<1>10. PICK p : p = Cardinality(Passed)
  OBVIOUS
<1>11. p \in Nat /\ Cardinality(Passed)' = p + 1
  <2>1. IsFiniteSet(Passed)
    BY <1>2, UnitsFinite DEF Passed
  <2>2. Passed' = Passed \cup {<<n, k + 1>>}
    <3>1. ASSUME NEW u \in Passed PROVE u \in Passed'
      <4>1. PICK m \in NFs : \E i \in 1 .. taken[m] : u = <<m, i>>
        BY UnitsMember DEF Passed
      <4>2. PICK i \in 1 .. taken[m] : u = <<m, i>>
        BY <4>1
      <4>3. i \in 1 .. taken'[m]
        BY <1>3, <1>4, <1>5
      <4> QED BY <4>2, <4>3, UnitsMember, Zenon DEF Passed
    <3>2. <<n, k + 1>> \in Passed'
      <4>1. k + 1 \in 1 .. taken'[n]
        BY <1>4, <1>5
      <4> QED BY <4>1, UnitsMember, Zenon DEF Passed
    <3>3. ASSUME NEW u \in Passed', u \notin Passed PROVE u = <<n, k + 1>>
      <4>1. PICK m \in NFs : \E i \in 1 .. taken'[m] : u = <<m, i>>
        BY <3>3, UnitsMember DEF Passed
      <4>2. PICK i \in 1 .. taken'[m] : u = <<m, i>>
        BY <4>1
      <4>3. i \notin 1 .. taken[m]
        BY <3>3, <4>2, UnitsMember DEF Passed
      <4>4. m = n
        BY <1>3, <4>2, <4>3, Zenon
      <4>5. i \in 1 .. k + 1 /\ i \notin 1 .. k
        BY <1>4, <1>5, <4>2, <4>3, <4>4, Zenon
      <4>6. i = k + 1
        BY <4>5, NewLast, Zenon
      <4> QED BY <4>2, <4>4, <4>6, Zenon
    <3> QED BY <3>1, <3>2, <3>3
  <2>3. <<n, k + 1>> \notin Passed
    <3>1. k + 1 \notin 1 .. taken[n]
      BY <1>4
    <3> QED BY <3>1, UnitsMember, Zenon DEF Passed
  <2>4. Cardinality(Passed \cup {<<n, k + 1>>}) = Cardinality(Passed) + 1
    BY <2>1, <2>3, FS_AddElement, Zenon
  <2>5. Cardinality(Passed) \in Nat
    BY <2>1, FS_CardinalityType, Zenon
  <2> QED BY <1>10, <2>2, <2>4, <2>5
<1>12. Trail'
  <2> SUFFICES ASSUME p + 1 <= NCores, NEW m \in NFs PROVE mask'[m] \subseteq Behind(p + 1)'
    BY <1>11 DEF Trail, Behind, Back
  <2>1. mask[m] \subseteq Behind(p) \cup {nextCore}
    <3>1. p <= NCores
      BY <1>11, SomeCores
    <3>2. mask[m] \subseteq Behind(p) \cup Left(m)
      BY <1>10, <3>1, Zenon DEF CInv, Trail
    <3> QED BY <3>2 DEF Left
  <2> QED BY <1>1, <1>11, <2>1, BehindNext, Zenon DEF CInv
<1>13. Apart'
  <2> SUFFICES ASSUME Cardinality(Passed)' < NCores \/ Cardinality(Passed)' = NCores
               PROVE  \A a, b \in NFs : a # b => mask'[a] \cap mask'[b] = {}
    BY Zenon DEF Apart
  <2>1. p < NCores
    BY <1>11, SomeCores
  <2> QED BY <1>1, <1>10, <2>1, Zenon DEF CInv, Apart
<1> QED BY <1>6, <1>7, <1>8, <1>9, <1>12, <1>13 DEF CInv

\* No core is in use at the start.
LEMMA InitCInv ==
    ASSUME Init PROVE CInv
<1>1. \A n \in NFs : thread[n] = "no" /\ taken[n] = 0 /\ mask[n] = {}
  BY DEF Init
<1>2. CoresTyped
  BY SomeCores DEF Init, CoresTyped, Cores
<1>3. NoThreads /\ MaskComplete
  BY <1>1 DEF Init, NoThreads, MaskComplete
<1>4. \A n \in NFs : Rounds(n)
  BY <1>1, NeedCores DEF Rounds
<1>5. Trail /\ Apart
  BY <1>1 DEF Trail, Apart
<1> QED BY <1>2, <1>3, <1>4, <1>5 DEF CInv

\* The steps that belong to no thread: they end the request or leave the threads alone.
LEMMA StepEffect ==
    ASSUME IInv, Requests \/ Step
    PROVE  \/ Return
           \/ \E n \in NFs : CreateThread(n)
           \/ /\ UNCHANGED threads
              /\ pc' \in Before => pc \in Before
              /\ \/ pc \in Before
                 \/ UNCHANGED <<entry, diff>> /\ (pc' \in Holding => pc \in Holding)
                 \/ /\ pc' \notin Holding
                    /\ \A n \in NFs : entry'[n] = entry[n] \/ entry'[n] # "dpdk"
              /\ pc' = "start" => pc \in Before \/ (pc = "start" /\ todo' \subseteq todo)
<1> USE DEF Before, Holding
<1>1. CASE Requests
  BY <1>1, Zenon DEF Requests, NewGraph, UpdateGraph, DeleteGraph, PrintInfo, Crash
<1>2. ASSUME NEW n \in NFs, Undo(n) \/ RemoveNF(n) \/ StopAll(n)
      PROVE  /\ UNCHANGED threads
             /\ pc' \in Before => pc \in Before
             /\ pc' \notin Holding
             /\ \A m \in NFs : entry'[m] = entry[m] \/ entry'[m] # "dpdk"
  <2>1. CASE Stop(n) /\ pc \in {"undo", "remove", "stopAll"}
    <3>1. CASE Crash
      BY <3>1 DEF Crash, controller
    <3>2. CASE ~Crash
      <4>1. UNCHANGED <<pc, threads>> /\ \A m \in NFs \ {n} : entry'[m] = entry[m]
        BY <2>1, <3>2, StopEffect DEF IInv
      <4>2. entry'[n] = entry[n] \/ entry'[n] = "absent"
        BY <2>1, <3>2 DEF Stop, stopNF, Erase, IInv, Typed, controller
      <4> QED BY <2>1, <4>1, <4>2
    <3> QED BY <3>1, <3>2
  <2>2. CASE pc' = "undefined" /\ UNCHANGED <<nfg, controller, todo, request, threads>>
    BY <2>2 DEF controller
  <2> QED BY <1>2, <2>1, <2>2 DEF Undo, RemoveNF, StopAll
<1>3. CASE LsiReady \/ AllCreated \/ Join \/ RulesFail \/ RemoveStarts \/ Checked
  BY <1>3, Zenon DEF LsiReady, AllCreated, Join, RulesFail, RemoveStarts, Checked, Crash, controller, request
<1>4. CASE LsiFails \/ Undone \/ RulesEscape \/ Deploy \/ RemoveFails \/ Updated \/ Deleted \/ DeleteFails
  BY <1>4, Zenon DEF LsiFails, Undone, RulesEscape, Deploy, RemoveFails, Updated, Deleted, DeleteFails, Fail
<1>5. ASSUME NEW running, Select(running) \/ SelectFails(running) \/ SelectThrows(running)
      PROVE  Return \/ (UNCHANGED threads /\ pc = "select" /\ pc' \in {"lsi", "undefined"})
  BY <1>5, Zenon DEF Select, SelectFails, SelectThrows
<1>6. ASSUME NEW n \in NFs, Skip(n) \/ Retrieve(n) \/ RetrieveFails(n) \/ RetrieveAborts(n)
      PROVE  Return \/ (UNCHANGED threads /\ pc = "check" /\ pc' \in {"check", "crashed"})
  BY <1>6, Zenon DEF Skip, Retrieve, RetrieveFails, RetrieveAborts, Fail, Crash
<1>7. ASSUME NEW n \in NFs, UpdateNF(n)
      PROVE  /\ UNCHANGED <<threads, entry, diff>> /\ pc = "start" /\ pc' \in {"start", "crashed"}
             /\ todo' \subseteq todo
  BY <1>7 DEF UpdateNF, Crash, controller, request
<1>8. CASE Step
  <2>1. CASE \E n \in NFs : Undo(n) \/ RemoveNF(n) \/ StopAll(n)
    BY <1>2, <2>1, Zenon
  <2>2. CASE \E running \in SUBSET (Kinds \ {"dpdk"}) :
                Select(running) \/ SelectFails(running) \/ SelectThrows(running)
    <3>1. Return \/ (UNCHANGED threads /\ pc = "select" /\ pc' \in {"lsi", "undefined"})
      BY <1>5, <2>2, Zenon
    <3> QED BY <3>1
  <2>3. CASE \E n \in NFs : Skip(n) \/ Retrieve(n) \/ RetrieveFails(n) \/ RetrieveAborts(n)
    <3>1. Return \/ (UNCHANGED threads /\ pc = "check" /\ pc' \in {"check", "crashed"})
      BY <1>6, <2>3, Zenon
    <3> QED BY <3>1
  <2>4. CASE \E n \in NFs : UpdateNF(n) \/ CreateThread(n)
    BY <1>7, <2>4
  <2> QED BY <1>3, <1>4, <1>8, <2>1, <2>2, <2>3, <2>4, Zenon DEF Step
<1> QED BY <1>1, <1>8

\* Every step keeps the invariant of the cores.
LEMMA NextCInv ==
    ASSUME IInv, CInv, IInv', [Next]_vars PROVE CInv'
<1>1. (pc = "start" => todo \subseteq NFs)'
  BY DEF IInv, Typed
<1>2. CASE UNCHANGED vars
  <2>1. UNCHANGED <<threads, entry, pc, todo, diff>>
    BY <1>2 DEF vars, controller, request
  <2> QED BY <1>1, <2>1, QuietCInv
<1>3. CASE Requests \/ Step
  <2>1. CASE Return
    BY <2>1, ReturnCInv
  <2>2. CASE \E n \in NFs : CreateThread(n)
    BY <2>2, MovesCInv
  <2>3. CASE ~Return /\ ~ \E n \in NFs : CreateThread(n)
    <3>1. /\ UNCHANGED threads
          /\ pc' \in Before => pc \in Before
          /\ \/ pc \in Before
             \/ UNCHANGED <<entry, diff>> /\ (pc' \in Holding => pc \in Holding)
             \/ /\ pc' \notin Holding
                /\ \A n \in NFs : entry'[n] = entry[n] \/ entry'[n] # "dpdk"
          /\ pc' = "start" => pc \in Before \/ (pc = "start" /\ todo' \subseteq todo)
      BY <1>3, <2>3, StepEffect, Zenon
    <3> QED BY <1>1, <3>1, QuietCInv
  <2> QED BY <2>1, <2>2, <2>3
<1>4. CASE \E n \in NFs : ThreadStep(n)
  BY <1>4, MovesCInv, TakeCoreCInv, NextCoreCInv DEF ThreadStep
<1> QED BY <1>2, <1>3, <1>4 DEF Next

\* The invariant of the cores holds throughout.
THEOREM CoresInductive == Spec => []CInv
<1>1. Init => CInv
  BY InitCInv
<1>2. IInv /\ IInv' /\ CInv /\ [Next]_vars => CInv'
  BY NextCInv
<1> QED BY <1>1, <1>2, Inductive, PTL DEF Spec

\* ComputeController::calculateCoreMask: the mask a driver gets has as many cores as the NF
\* needs, or all, for any number of cores, needs and concurrent threads.
THEOREM MaskAlwaysComplete == Spec => []MaskComplete
<1>1. CInv => MaskComplete
  BY DEF CInv
<1> QED BY <1>1, CoresInductive, PTL

\* ComputeController::calculateCoreMask: the NFs that one request starts share no core if
\* there are enough for all of them, in whatever order their threads get the lock.
THEOREM CoresAlwaysApart == Spec => []CoresApart
<1>1. ASSUME IInv, CInv PROVE CoresApart
  <2> DEFINE dpdk == {n \in diff : entry[n] = "dpdk"}
  <2> SUFFICES ASSUME pc \in Holding, Cardinality(Units(Need, dpdk)) <= NCores,
                      NEW a \in dpdk, NEW b \in dpdk, a # b
               PROVE  mask[a] \cap mask[b] = {}
    BY DEF CoresApart, Holding
  <2>1. dpdk \subseteq NFs /\ taken \in [NFs -> Nat] /\ \A n \in NFs : Rounds(n)
    BY <1>1 DEF IInv, Typed, CInv, CoresTyped
  <2>2. IsFiniteSet(Units(Need, dpdk)) /\ IsFiniteSet(Passed)
    BY <2>1, UnitsFinite, NeedCores DEF Passed
  <2>3. Passed \subseteq Units(Need, dpdk)
    <3> SUFFICES ASSUME NEW n \in NFs, NEW i \in 1 .. taken[n]
                 PROVE  n \in dpdk /\ i \in 1 .. Need[n]
      BY UnitsMember DEF Passed
    <3> QED BY <2>1, NeedCores DEF Rounds
  <2>4. /\ Cardinality(Passed) \in Nat /\ Cardinality(Units(Need, dpdk)) \in Nat
        /\ Cardinality(Passed) <= Cardinality(Units(Need, dpdk))
    BY <2>2, <2>3, FS_Subset, FS_CardinalityType
  <2>5. ASSUME NEW n \in NFs, thread[n] = "next" PROVE Cardinality(Passed) < NCores
    <3>1. n \in dpdk /\ taken[n] + 1 \in 1 .. Need[n] /\ taken[n] + 1 \notin 1 .. taken[n]
      BY <2>1, <2>5, NeedCores DEF Rounds
    <3>2. <<n, taken[n] + 1>> \in Units(Need, dpdk) /\ <<n, taken[n] + 1>> \notin Passed
      BY <3>1, UnitsMember, Zenon DEF Passed
    <3>3. Passed # Units(Need, dpdk)
      BY <3>2
    <3>4. Cardinality(Passed) # Cardinality(Units(Need, dpdk))
      BY <2>2, <2>3, <3>3, FS_Subset, Zenon
    <3> QED BY <2>4, <3>4, SomeCores
  <2>6. Cardinality(Passed) < NCores \/ Cardinality(Passed) = NCores
    BY <2>4, SomeCores
  <2>7. Cardinality(Passed) = NCores => \A n \in NFs : thread[n] # "next"
    <3>1. Cardinality(Passed) = NCores => ~(Cardinality(Passed) < NCores)
      BY SomeCores
    <3> QED BY <2>5, <3>1, Zenon
  <2> QED BY <1>1, <2>1, <2>6, <2>7, Zenon DEF CInv, Apart
<1>2. IInv /\ CInv => CoresApart
  BY <1>1
<1> QED BY <1>2, Inductive, CoresInductive, PTL
=============================================================================
