-------------------------- MODULE ServiceProofs --------------------------
(***************************************************************************)
(* The tables of the REST server stay consistent, for any sets of users,   *)
(* groups and graphs and any boot graphs, through every crash; the stored  *)
(* messages of the publish/subscribe client are sent.  Two components that *)
(* share no state, proved side by side.                                    *)
(***************************************************************************)
EXTENDS RestServer, PubSub, TLAPS

\* The rows of graphs while the process runs; the memory of no process.
RowsFollow ==
    /\ pc = "off" => graphs = {}
    /\ pc = "boot" => lost = {}
    /\ graphs \cap lost = {}
    /\ pc # "off" => \A g \in Graphs : IsGraph(g) <=> g \in graphs \cup lost

\* Between the statements of createUser the user exists, between those of
\* deleteUser it is not listed.
HalfDone ==
    /\ pc = "createUser" => InUsers(name)
    /\ pc = "deleteUser" => ~IsUser(name)

IInv == TypeOK /\ ListedUsersExist /\ MembersHaveGroups /\ RowsFollow /\ HalfDone

\* The invariant holds in the database that db_initializer makes.
LEMMA InitIInv ==
    ASSUME Init PROVE IInv
<1>1. TypeOK
  BY AdminExists, NoneIsNobody DEF Init, TypeOK
<1>2. ListedUsersExist /\ MembersHaveGroups
  BY AdminExists, NoneIsNobody DEF Init, ListedUsersExist, MembersHaveGroups, IsUser, InUsers, IsGroup
<1>3. RowsFollow /\ HalfDone
  BY DEF Init, RowsFollow, HalfDone
<1> QED BY <1>1, <1>2, <1>3 DEF IInv

\* The steps of the process leave users and groups alone.
LEMMA ProcessIInv ==
    ASSUME IInv, Process PROVE IInv'
<1> USE DEF IInv
<1>1. UNCHANGED people /\ request' = request
  BY DEF Process, Start, BootGraph, BootGraphFails, Serve, Terminate, Crash, people, request
<1>2. (ListedUsersExist /\ MembersHaveGroups)'
  BY <1>1 DEF people, ListedUsersExist, MembersHaveGroups, IsUser, InUsers, IsGroup
<1>3. pc' \in {"off", "boot", "idle"}
  BY DEF Process, Start, BootGraph, BootGraphFails, Serve, Terminate, Crash, Gone
<1>4. HalfDone'
  BY <1>3 DEF HalfDone
<1>5. CASE Start
  <2>1. TypeOK'
    BY <1>1, <1>5, BootGraphsAreGraphs DEF TypeOK, Start, cleanTables, people, request
  <2>2. RowsFollow'
    BY <1>5 DEF RowsFollow, Start, cleanTables, IsGraph
  <2> QED BY <1>2, <1>4, <2>1, <2>2
<1>6. CASE BootGraph
  <2>1. Head(todo) \in Graphs /\ Tail(todo) \in Seq(Graphs)
    BY <1>6 DEF TypeOK, BootGraph
  <2>2. /\ graphOwner' \in [Graphs -> Users \cup {None}]
        /\ \A g \in Graphs : g # Head(todo) => graphOwner'[g] = graphOwner[g]
        /\ graphOwner'[Head(todo)] # None
    BY <1>6, <2>1, AdminExists, NoneIsNobody DEF TypeOK, BootGraph, insertResource
  <2>3. TypeOK'
    BY <1>1, <1>6, <2>1, <2>2 DEF TypeOK, BootGraph, people, request
  <2>4. RowsFollow'
    BY <1>6, <2>1, <2>2 DEF RowsFollow, BootGraph, IsGraph
  <2> QED BY <1>2, <1>4, <2>3, <2>4
<1>7. CASE BootGraphFails \/ Crash \/ Terminate
  <2>0. /\ Gone /\ lost' = lost
        /\ login' \in {login, {}} /\ graphOwner' \in {graphOwner, [g \in Graphs |-> None]}
    BY <1>7 DEF BootGraphFails, Crash, Terminate, cleanTables
  <2>1. TypeOK'
    BY <1>1, <2>0 DEF TypeOK, Gone, people, request
  <2>2. RowsFollow'
    BY <1>7 DEF RowsFollow, BootGraphFails, Crash, Terminate, Gone
  <2> QED BY <1>2, <1>4, <2>1, <2>2
<1>8. CASE Serve
  <2>1. TypeOK' /\ RowsFollow'
    BY <1>1, <1>8 DEF TypeOK, RowsFollow, Serve, IsGraph, people, request
  <2> QED BY <1>2, <1>4, <2>1
<1> QED BY <1>5, <1>6, <1>7, <1>8 DEF Process

\* The requests that end in a failed assertion are crashes.
LEMMA CrashIInv ==
    ASSUME IInv, Crash PROVE IInv'
BY ProcessIInv DEF Process

\* The requests about users and groups.
LEMMA UserRequestIInv ==
    ASSUME IInv, NEW u \in Users, UserRequest(u) PROVE IInv'
<1> USE DEF IInv
<1>1. CASE Login(u)
  BY <1>1 DEF Login, people, request, TypeOK, ListedUsersExist, MembersHaveGroups, RowsFollow,
              HalfDone, IsUser, InUsers, IsGroup, IsGraph
<1>2. CASE LostUser(u) \/ CreateUserNoGroup(u)
  BY <1>2, CrashIInv DEF LostUser, CreateUserNoGroup
<1>3. ASSUME NEW n \in Users, DeleteUser(u, n) PROVE IInv'
  <2>1. /\ userOwner' \in [Users -> Users \cup {None}] /\ userOwner'[n] = None
        /\ \A q \in Users : q # n => userOwner'[q] = userOwner[q]
    BY <1>3 DEF DeleteUser, TypeOK, deleteResource
  <2>2. TypeOK'
    BY <1>3, <2>1 DEF TypeOK, DeleteUser
  <2>3. (ListedUsersExist /\ MembersHaveGroups)'
    BY <1>3, <2>1 DEF ListedUsersExist, MembersHaveGroups, DeleteUser, IsUser, InUsers, IsGroup
  <2>4. RowsFollow' /\ HalfDone'
    BY <1>3, <2>1 DEF RowsFollow, HalfDone, DeleteUser, Session, IsGraph, IsUser
  <2> QED BY <2>2, <2>3, <2>4
<1>4. ASSUME NEW n \in Users, NEW g \in Groups, CreateUser(u, n, g) PROVE IInv'
  <2>1. /\ membership' \in [Users -> Groups \cup {None}] /\ membership'[n] # None
        /\ \A q \in Users : q # n => membership'[q] = membership[q]
        /\ membership'[n] \in {membership[n], g}
    BY <1>4, NoneIsNobody DEF CreateUser, TypeOK, insertResource
  <2>2. TypeOK'
    BY <1>4, <2>1 DEF TypeOK, CreateUser
  <2>3. (ListedUsersExist /\ MembersHaveGroups)'
    BY <1>4, <2>1 DEF ListedUsersExist, MembersHaveGroups, CreateUser, IsUser, InUsers, IsGroup
  <2>4. RowsFollow' /\ HalfDone'
    BY <1>4, <2>1 DEF RowsFollow, HalfDone, CreateUser, Session, IsGraph, InUsers
  <2> QED BY <2>2, <2>3, <2>4
<1>5. ASSUME NEW g \in Groups, CreateGroup(u, g) PROVE IInv'
  <2>1. /\ groupOwner' \in [Groups -> Users \cup {None}]
        /\ \A q \in Groups : groupOwner[q] # None => groupOwner'[q] # None
    BY <1>5, NoneIsNobody DEF CreateGroup, TypeOK, insertResource
  <2>2. TypeOK'
    BY <1>5, <2>1 DEF TypeOK, CreateGroup, request
  <2>3. (ListedUsersExist /\ MembersHaveGroups)'
    BY <1>5, <2>1 DEF ListedUsersExist, MembersHaveGroups, CreateGroup, IsUser, InUsers, IsGroup, TypeOK
  <2>4. RowsFollow' /\ HalfDone'
    BY <1>5 DEF RowsFollow, HalfDone, CreateGroup, Session, IsGraph
  <2> QED BY <2>2, <2>3, <2>4
<1>6. ASSUME NEW g \in Groups, DeleteGroup(u, g) PROVE IInv'
  <2>1. /\ groupOwner' \in [Groups -> Users \cup {None}]
        /\ \A q \in Groups : q # g => groupOwner'[q] = groupOwner[q]
    BY <1>6 DEF DeleteGroup, TypeOK, deleteResource
  <2>2. TypeOK'
    BY <1>6, <2>1 DEF TypeOK, DeleteGroup, request
  <2>3. (ListedUsersExist /\ MembersHaveGroups)'
    BY <1>6, <2>1 DEF ListedUsersExist, MembersHaveGroups, DeleteGroup, usersExistForGroup,
                      IsUser, InUsers, IsGroup, TypeOK
  <2>4. RowsFollow' /\ HalfDone'
    BY <1>6 DEF RowsFollow, HalfDone, DeleteGroup, Session, IsGraph
  <2> QED BY <2>2, <2>3, <2>4
<1> QED BY <1>1, <1>2, <1>3, <1>4, <1>5, <1>6 DEF UserRequest

\* The rest of createUser and of deleteUser.
LEMMA ContinuedIInv ==
    ASSUME IInv, CreateUserRow \/ CreateUserPermissions \/ DeleteUserEnd PROVE IInv'
<1> USE DEF IInv
<1>1. CASE CreateUserRow
  <2>1. /\ userOwner' \in [Users -> Users \cup {None}]
        /\ \A q \in Users : q # name => userOwner'[q] = userOwner[q]
    BY <1>1, NoneIsNobody DEF CreateUserRow, TypeOK, insertResource
  <2>2. TypeOK'
    BY <1>1, <2>1 DEF TypeOK, CreateUserRow, request
  <2>3. (ListedUsersExist /\ MembersHaveGroups)'
    BY <1>1, <2>1 DEF ListedUsersExist, MembersHaveGroups, HalfDone, CreateUserRow, IsUser, InUsers, IsGroup
  <2>4. RowsFollow' /\ HalfDone'
    BY <1>1 DEF RowsFollow, HalfDone, CreateUserRow, IsGraph
  <2> QED BY <2>2, <2>3, <2>4
<1>2. CASE CreateUserPermissions
  <2>1. TypeOK'
    BY <1>2 DEF TypeOK, CreateUserPermissions, request
  <2>2. (ListedUsersExist /\ MembersHaveGroups /\ RowsFollow /\ HalfDone)'
    BY <1>2 DEF ListedUsersExist, MembersHaveGroups, RowsFollow, HalfDone, CreateUserPermissions,
                IsUser, InUsers, IsGroup, IsGraph
  <2> QED BY <2>1, <2>2
<1>3. CASE DeleteUserEnd
  <2>1. /\ membership' \in [Users -> Groups \cup {None}] /\ membership'[name] = None
        /\ \A q \in Users : q # name => membership'[q] = membership[q]
    BY <1>3 DEF DeleteUserEnd, TypeOK, deleteResource
  <2>2. TypeOK'
    BY <1>3, <2>1 DEF TypeOK, DeleteUserEnd, request
  <2>3. (ListedUsersExist /\ MembersHaveGroups)'
    BY <1>3, <2>1 DEF ListedUsersExist, MembersHaveGroups, HalfDone, DeleteUserEnd, IsUser, InUsers, IsGroup
  <2>4. RowsFollow' /\ HalfDone'
    BY <1>3 DEF RowsFollow, HalfDone, DeleteUserEnd, IsGraph
  <2> QED BY <2>2, <2>3, <2>4
<1> QED BY <1>1, <1>2, <1>3

\* The requests about graphs.
LEMMA GraphRequestIInv ==
    ASSUME IInv, NEW u \in Users, GraphRequest(u) PROVE IInv'
<1> USE DEF IInv
<1>1. CASE ReadFails(u)
  BY <1>1, CrashIInv DEF ReadFails
<1>2. ASSUME NEW g \in Graphs, ReadGraphFails(u, g) PROVE IInv'
  BY <1>2, CrashIInv DEF ReadGraphFails
<1>3. ASSUME NEW g \in Graphs, DeployNewGraph(u, g) \/ DeleteGraph(u, g) \/ DeleteGraphFails(u, g)
      PROVE  IInv'
  <2>1. UNCHANGED <<people, login, pc, todo, request>> /\ pc = "idle"
    BY <1>3 DEF DeployNewGraph, DeleteGraph, DeleteGraphFails, Session
  <2>2. (ListedUsersExist /\ MembersHaveGroups /\ HalfDone)'
    BY <2>1 DEF people, request, ListedUsersExist, MembersHaveGroups, HalfDone, IsUser, InUsers, IsGroup
  <2>3. CASE DeployNewGraph(u, g)
    <3>1. /\ graphOwner' \in [Graphs -> Users \cup {None}] /\ graphOwner'[g] # None
          /\ \A q \in Graphs : q # g => graphOwner'[q] = graphOwner[q]
      BY <2>3, NoneIsNobody DEF DeployNewGraph, TypeOK, insertResource
    <3>2. TypeOK' /\ RowsFollow'
      BY <2>1, <2>3, <3>1 DEF TypeOK, RowsFollow, DeployNewGraph, IsGraph, people, request
    <3> QED BY <2>2, <3>2
  <2>4. CASE DeleteGraph(u, g)
    <3>1. /\ graphOwner' \in [Graphs -> Users \cup {None}] /\ graphOwner'[g] = None
          /\ \A q \in Graphs : q # g => graphOwner'[q] = graphOwner[q]
      BY <2>4 DEF DeleteGraph, TypeOK, deleteResource
    <3>2. TypeOK' /\ RowsFollow'
      BY <2>1, <2>4, <3>1 DEF TypeOK, RowsFollow, DeleteGraph, IsGraph, people, request
    <3> QED BY <2>2, <3>2
  <2>5. CASE DeleteGraphFails(u, g)
    <3>1. TypeOK' /\ RowsFollow'
      BY <2>1, <2>5 DEF TypeOK, RowsFollow, DeleteGraphFails, IsGraph, people, request
    <3> QED BY <2>2, <3>1
  <2> QED BY <1>3, <2>3, <2>4, <2>5
<1> QED BY <1>1, <1>2, <1>3 DEF GraphRequest

\* The invariant holds in every state.
THEOREM Inductive ==
    Spec => []IInv
<1>1. Init => IInv
  BY InitIInv
<1>2. IInv /\ [Next]_vars => IInv'
  <2>1. CASE UNCHANGED vars
    BY <2>1 DEF vars, people, request, IInv, TypeOK, ListedUsersExist, MembersHaveGroups, RowsFollow,
                HalfDone, IsUser, InUsers, IsGroup, IsGraph
  <2> QED BY <2>1, ProcessIInv, UserRequestIInv, GraphRequestIInv, ContinuedIInv DEF Next
<1> QED BY <1>1, <1>2, PTL DEF Spec

\* Every listed user exists, at every crash point of createUser and deleteUser.
THEOREM ListedUsersAlwaysExist ==
    Spec => []ListedUsersExist
BY Inductive, PTL DEF IInv

\* Every member's group exists: no order of createUser, deleteUser, deleteGroup and
\* crashes leaves a user in a group that is gone.
THEOREM MembersAlwaysHaveGroups ==
    Spec => []MembersHaveGroups
BY Inductive, PTL DEF IInv

\* While requests are served, the rows of graphs are those of the graph manager and
\* those of graphs that a failed deletion destroyed.
THEOREM RowsAlwaysExact ==
    Spec => []RowsExact
<1>1. IInv => RowsExact
  BY DEF IInv, TypeOK, RowsFollow, RowsExact, IsGraph
<1> QED BY <1>1, Inductive, PTL

\* No step gives the row of a graph or of a user to another owner.
THEOREM OwnersAlwaysKept ==
    Spec => OwnersKept
<1> DEFINE Kept ==
      /\ \A g \in Graphs : graphOwner[g] # None => graphOwner'[g] \in {graphOwner[g], None}
      /\ \A u \in Users : userOwner[u] # None => userOwner'[u] \in {userOwner[u], None}
<1>1. TypeOK /\ Next => Kept
  <2> SUFFICES ASSUME TypeOK, Next PROVE Kept
    OBVIOUS
  <2> USE DEF TypeOK, Kept
  <2>1. CASE Process
    BY <2>1, BootGraphsAreGraphs DEF Process, Start, BootGraph, BootGraphFails, Serve, Terminate, Crash, cleanTables,
                people, insertResource
  <2>2. ASSUME NEW u \in Users, UserRequest(u) PROVE Kept
    BY <2>2 DEF UserRequest, Login, LostUser, CreateUserNoGroup, Crash, DeleteUser, CreateUser,
                CreateGroup, DeleteGroup, people, deleteResource
  <2>3. ASSUME NEW u \in Users, GraphRequest(u) PROVE Kept
    BY <2>3 DEF GraphRequest, ReadFails, ReadGraphFails, Crash, DeployNewGraph, DeleteGraph,
                DeleteGraphFails, people, insertResource, deleteResource
  <2>4. CASE CreateUserRow \/ CreateUserPermissions \/ DeleteUserEnd
    BY <2>4 DEF CreateUserRow, CreateUserPermissions, DeleteUserEnd, insertResource
  <2> QED BY <2>1, <2>2, <2>3, <2>4 DEF Next
<1>2. IInv => TypeOK
  BY DEF IInv
<1>3. [](TypeOK) /\ [][Next]_vars => OwnersKept
  <2>1. TypeOK /\ [Next]_vars => [Kept]_vars
    BY <1>1
  <2> HIDE DEF Kept
  <2> QED BY <2>1, PTL DEF OwnersKept, Kept
<1> QED BY <1>2, <1>3, Inductive, PTL DEF Spec

-----------------------------------------------------------------------------
(***************************************************************************)
(* The stored messages of the publish/subscribe client are sent, each once *)
(* for each registration, for any number of threads that publish.          *)
(***************************************************************************)
\* The client's thread walks through the list only when publishers see connected; what
\* it has passed is sent.
Walk ==
    /\ loop = "start" => ~connected
    /\ loop = "resend" => connected
    /\ loop = "resend" => \A i \in 1 .. Len(messages) : i < m => sent[messages[i]] > 0
    /\ loop = "wait" /\ connected => \A i \in 1 .. Len(messages) : sent[messages[i]] > 0

\* A message is stored once, by a caller that is done; it is sent once more when the
\* walk passes it.
Places ==
    /\ \A i, j \in 1 .. Len(messages) : messages[i] = messages[j] => i = j
    /\ \A i \in 1 .. Len(messages) : caller[messages[i]] = "done"

Counts ==
    /\ \A i \in 1 .. Len(messages) : sent[messages[i]] <= regs
    /\ loop = "resend" => \A i \in 1 .. Len(messages) : i >= m => sent[messages[i]] < regs

\* What is not stored is sent by its caller.
Direct ==
    \A c \in Callers :
        (\A i \in 1 .. Len(messages) : messages[i] # c)
           => sent[c] <= 1 /\ (caller[c] # "done" => sent[c] = 0)

SentInv == BusTypeOK /\ Walk /\ Places /\ Counts /\ Direct

\* The invariant holds in the initial state.
LEMMA InitSentInv ==
    ASSUME BusInit PROVE SentInv
<1>1. Len(messages) = 0 /\ messages \in Seq(Callers)
  BY DEF BusInit
<1>2. client \in BOOLEAN /\ connected \in BOOLEAN /\ stop \in BOOLEAN
  BY Zenon DEF BusInit
<1>3. sent \in [Callers -> Nat] /\ m \in Nat \ {0} /\ regs \in Nat
  BY DEF BusInit
<1>4. /\ loop \in {"start", "wait", "resend", "done", "aborted"}
      /\ caller \in [Callers -> {"idle", "test", "send", "done"}]
  BY Zenon DEF BusInit
<1>5. Walk /\ Places /\ Counts /\ Direct
  BY <1>1 DEF BusInit, Walk, Places, Counts, Direct
<1> QED BY <1>1, <1>2, <1>3, <1>4, <1>5 DEF SentInv, BusTypeOK

\* A step that leaves the list, the counters and the callers' ends alone.
LEMMA QuietSentInv ==
    ASSUME SentInv, BusTypeOK', UNCHANGED <<messages, sent, regs, connected, m>>,
           loop' = loop \/ loop' \in {"done", "aborted"} \/ (loop = "start" /\ loop' = "wait" /\ ~connected),
           \A c \in Callers : caller'[c] = "done" <=> caller[c] = "done"
    PROVE  SentInv'
<1> USE DEF SentInv
<1>1. Walk'
  BY DEF Walk, BusTypeOK
<1>2. Places'
  BY DEF Places, BusTypeOK
<1>3. Counts'
  BY DEF Counts, BusTypeOK
<1>4. Direct'
  BY DEF Direct, BusTypeOK
<1> QED BY <1>1, <1>2, <1>3, <1>4

\* The steps of the threads that publish keep it.
LEMMA CallerSentInv ==
    ASSUME SentInv, NEW c \in Callers, CallerStep(c) PROVE SentInv'
<1> USE DEF SentInv
<1>0. CASE Abort
  <2>1. BusTypeOK'
    BY <1>0 DEF Abort, BusTypeOK
  <2> QED BY <1>0, <2>1, QuietSentInv DEF Abort
<1>1. CASE Publish(c) /\ ~Abort
  <2>0. caller[c] = "idle" /\ caller' = [caller EXCEPT ![c] = "test"]
        /\ UNCHANGED <<client, connected, messages, sent, thread, stop, regs>>
    BY <1>1 DEF Publish
  <2>1. BusTypeOK'
    BY <2>0 DEF BusTypeOK, thread
  <2>2. \A d \in Callers : caller'[d] = "done" <=> caller[d] = "done"
    BY <2>0 DEF BusTypeOK
  <2> QED BY <2>0, <2>1, <2>2, QuietSentInv DEF thread
<1>2. CASE PublishTest(c) /\ connected
  <2>1. BusTypeOK'
    BY <1>2 DEF PublishTest, BusTypeOK, thread
  <2>2. \A d \in Callers : caller'[d] = "done" <=> caller[d] = "done"
    BY <1>2 DEF PublishTest, BusTypeOK
  <2> QED BY <1>2, <2>1, <2>2, QuietSentInv DEF PublishTest, thread
<1>3. CASE PublishTest(c) /\ ~connected
  <2>1. /\ messages' = Append(messages, c) /\ messages' \in Seq(Callers)
        /\ Len(messages') = Len(messages) + 1 /\ messages'[Len(messages) + 1] = c
        /\ Len(messages) \in Nat
        /\ \A i \in 1 .. Len(messages) : messages'[i] = messages[i]
    BY <1>3 DEF PublishTest, BusTypeOK
  <2>2. BusTypeOK'
    BY <1>3, <2>1 DEF PublishTest, BusTypeOK, thread
  <2>3. Walk'
    BY <1>3, <2>1 DEF PublishTest, BusTypeOK, Walk, thread
  <2>4. \A i \in 1 .. Len(messages) : messages[i] # c
    BY <1>3 DEF PublishTest, Places, BusTypeOK
  <2>5. sent[c] = 0 /\ caller'[c] = "done" /\ \A d \in Callers : d # c => caller'[d] = caller[d]
    BY <1>3, <2>4 DEF PublishTest, Direct, BusTypeOK
  <2>6. loop # "resend" /\ sent' = sent /\ regs' = regs /\ loop' = loop /\ m' = m
    BY <1>3 DEF PublishTest, Walk, thread
  <2>7. \A i \in 1 .. Len(messages') :
           i = Len(messages) + 1 \/ (i \in 1 .. Len(messages) /\ messages'[i] = messages[i])
    BY <2>1
  <2>8. Places'
    BY <2>1, <2>4, <2>5, <2>6, <2>7 DEF Places, BusTypeOK
  <2>9. Counts'
    BY <2>1, <2>5, <2>6, <2>7 DEF Counts, BusTypeOK
  <2>10. Direct'
    <3> SUFFICES ASSUME NEW d \in Callers, \A i \in 1 .. Len(messages') : messages'[i] # d
                 PROVE  sent'[d] <= 1 /\ (caller'[d] # "done" => sent'[d] = 0)
      BY DEF Direct
    <3>1. d # c /\ \A i \in 1 .. Len(messages) : messages[i] # d
      BY <2>1
    <3> QED BY <3>1, <2>5, <2>6 DEF Direct
  <2> QED BY <2>2, <2>3, <2>8, <2>9, <2>10
<1>4. CASE PublishSend(c) /\ ~Abort
  <2>0. /\ caller[c] = "send" /\ caller' = [caller EXCEPT ![c] = "done"]
        /\ sent' = [sent EXCEPT ![c] = @ + 1]
        /\ UNCHANGED <<client, connected, messages, thread, stop, regs>>
    BY <1>4 DEF PublishSend
  <2>1. BusTypeOK'
    BY <2>0 DEF BusTypeOK, thread
  <2>2. \A i \in 1 .. Len(messages) : messages[i] # c /\ messages[i] \in Callers
    BY <2>0 DEF Places, BusTypeOK
  <2>3. \A i \in 1 .. Len(messages) : sent'[messages[i]] = sent[messages[i]]
    BY <2>0, <2>2 DEF BusTypeOK
  <2>4. Walk' /\ Counts'
    BY <2>0, <2>3 DEF Walk, Counts, thread
  <2>5. Places'
    BY <2>0, <2>2 DEF Places, BusTypeOK, thread
  <2>6. Direct'
    BY <2>0, <2>2 DEF Direct, BusTypeOK
  <2> QED BY <2>1, <2>4, <2>5, <2>6
<1> QED BY <1>0, <1>1, <1>2, <1>3, <1>4 DEF CallerStep

\* The steps of the client's thread keep it, and so does terminate.
LEMMA LoopSentInv ==
    ASSUME SentInv, Handle \/ Reg \/ Term \/ BusTerminate PROVE SentInv'
<1> USE DEF SentInv
<1>1. CASE LoopStart \/ Notified \/ Term \/ BusTerminate \/ (ResendEnd /\ stop)
  <2>1. BusTypeOK'
    BY <1>1, Zenon DEF LoopStart, ResendEnd, Notified, Term, LoopEnd, BusTerminate, BusTypeOK, thread
  <2>2. /\ UNCHANGED <<messages, sent, regs, connected, m, caller>>
        /\ \/ loop' = loop \/ loop' = "done"
           \/ loop = "start" /\ loop' = "wait"
    BY <1>1 DEF LoopStart, ResendEnd, Notified, Term, LoopEnd, BusTerminate, thread
  <2> QED BY <2>1, <2>2, QuietSentInv DEF Walk
<1>2. CASE ResendEnd /\ ~stop
  <2>1. BusTypeOK'
    BY <1>2 DEF ResendEnd, BusTypeOK
  <2>2. Walk'
    BY <1>2 DEF ResendEnd, BusTypeOK, Walk
  <2>3. Places' /\ Counts' /\ Direct'
    BY <1>2 DEF ResendEnd, Places, Counts, Direct
  <2> QED BY <2>1, <2>2, <2>3
<1>3. CASE Reg
  <2>1. BusTypeOK'
    BY <1>3 DEF Reg, BusTypeOK
  <2>2. Walk'
    BY <1>3, SMTT(40) DEF Reg, BusTypeOK, Walk
  <2>3. Places' /\ Direct'
    BY <1>3 DEF Reg, Places, Direct
  <2>4. Counts'
    BY <1>3, SMTT(40) DEF Reg, BusTypeOK, Counts
  <2> QED BY <2>1, <2>2, <2>3, <2>4
<1>4. CASE Resend
  <2>1. m \in 1 .. Len(messages) /\ messages[m] \in Callers
    BY <1>4 DEF Resend, BusTypeOK
  <2>2. BusTypeOK'
    BY <1>4, <2>1 DEF Resend, BusTypeOK
  <2>3. Walk'
    BY <1>4, <2>1, SMTT(40) DEF Resend, BusTypeOK, Walk
  <2>4. Places'
    BY <1>4 DEF Resend, Places
  <2>5. Counts'
    BY <1>4, <2>1, SMTT(40) DEF Resend, BusTypeOK, Places, Counts
  <2>6. Direct'
    BY <1>4, <2>1, SMTT(40) DEF Resend, BusTypeOK, Direct
  <2> QED BY <2>2, <2>3, <2>4, <2>5, <2>6
<1> QED BY <1>1, <1>2, <1>3, <1>4 DEF Handle

\* The invariant holds in every state.
THEOREM SentInductive ==
    BusSpec => []SentInv
<1>1. SentInv /\ UNCHANGED busVars => SentInv'
  BY DEF busVars, thread, SentInv, BusTypeOK, Walk, Places, Counts, Direct
<1>2. SentInv /\ [BusNext]_busVars => SentInv'
  BY <1>1, CallerSentInv, LoopSentInv DEF BusNext
<1> QED BY <1>2, InitSentInv, PTL DEF BusSpec

\* When a registration has been handled, every stored message was sent.
THEOREM StoredAlwaysSent ==
    BusSpec => []StoredSent
<1>1. SentInv => StoredSent
  BY DEF SentInv, BusTypeOK, Walk, StoredSent, Stored
<1> QED BY <1>1, SentInductive, PTL

\* No message is sent twice for one registration.
THEOREM AlwaysSentOnce ==
    BusSpec => []SentOnce
<1>1. SentInv => SentOnce
  <2> SUFFICES ASSUME SentInv, NEW c \in Callers PROVE sent[c] <= IF Stored(c) THEN regs ELSE 1
    BY Zenon DEF SentOnce
  <2>1. CASE Stored(c)
    BY <2>1 DEF SentInv, BusTypeOK, Counts, Stored
  <2>2. CASE ~Stored(c)
    BY <2>2 DEF SentInv, BusTypeOK, Direct, Stored
  <2> QED BY <2>1, <2>2
<1> QED BY <1>1, SentInductive, PTL

\* No thread appends to the list while the client's thread walks through it.
THEOREM ListAlwaysFixed ==
    BusSpec => ListFixed
<1>1. SentInv /\ BusNext => (loop = "resend" => messages' = messages)
  BY Zenon DEF SentInv, Walk, BusNext, CallerStep, Publish, PublishTest, PublishSend, Abort, Handle, LoopStart,
         Reg, Resend, ResendEnd, Notified, Term, LoopEnd, BusTerminate
<1>2. SentInv /\ [BusNext]_busVars => [loop = "resend" => messages' = messages]_busVars
  BY <1>1
<1> QED BY <1>2, SentInductive, PTL DEF BusSpec, ListFixed
=============================================================================
