---------------------------- MODULE RestServer -----------------------------
(***************************************************************************)
(* The REST server with its database (rest_server.cc, SQLiteManager.cc),   *)
(* when client authentication is on, and the life of the process: start,   *)
(* boot graphs, requests, SIGINT, crash.                                   *)
(*                                                                         *)
(* The tables are in a file and survive the process, the graphs of the     *)
(* graph manager do not.  One thread serves the requests.  Every SQL       *)
(* statement is a transaction of its own, and a crash may come between two *)
(* of them: createUser and deleteUser, which write several lasting tables, *)
(* are steps.  What the handlers of graphs write is deleted by the next    *)
(* start, so that they are atomic here.                                    *)
(*                                                                         *)
(* Whether a request has the right password or permission is left open,    *)
(* except for the table of creation permissions.  A token stands for the   *)
(* user it was given to.  Requests that are refused change nothing and are *)
(* not actions.                                                            *)
(***************************************************************************)
EXTENDS Sequences

CONSTANTS
    Users, Groups, Graphs,
    ADMIN, AdminGroup,      \* "admin", as a user and as a group
    None,                   \* no row
    BootGraphs              \* the graphs of the configuration file, a sequence

ASSUME AdminExists == ADMIN \in Users /\ AdminGroup \in Groups
ASSUME NoneIsNobody == None \notin Users /\ None \notin Groups
ASSUME BootGraphsAreGraphs == BootGraphs \in Seq(Graphs)

VARIABLES
    membership,   \* USERS: the group of each user
    login,        \* LOGIN: the users that have a token
    creators,     \* USER_CREATION_PERMISSIONS: the users that may create
    userOwner,    \* CURRENT_RESOURCES_PERMISSIONS: the owner of "users" ...
    groupOwner,   \* ... of "groups" ...
    graphOwner,   \* ... and of "NF-FG" resources
    graphs,       \* the graphs of the graph manager
    pc, todo,     \* what the process does; the boot graphs still to deploy
    who, name,    \* the creator, and the user it creates or deletes
    lost          \* history: graphs that a failed deleteGraph destroyed

people == <<membership, creators, userOwner, groupOwner>>
request == <<who, name>>
vars == <<people, login, graphOwner, graphs, pc, todo, request, lost>>

\* userExists, resourceExists for users, for groups and for graphs.
InUsers(u) == membership[u] # None
IsUser(u) == userOwner[u] # None
IsGroup(g) == groupOwner[g] # None
IsGraph(g) == graphOwner[g] # None

\* db_initializer: the user admin in the group admin.
Init ==
    /\ membership = [u \in Users |-> IF u = ADMIN THEN AdminGroup ELSE None]
    /\ creators = {ADMIN}
    /\ userOwner = [u \in Users |-> IF u = ADMIN THEN ADMIN ELSE None]
    /\ groupOwner = [g \in Groups |-> IF g = AdminGroup THEN ADMIN ELSE None]
    /\ login = {} /\ graphOwner = [g \in Graphs |-> None]
    /\ graphs = {} /\ lost = {}
    /\ pc = "off" /\ todo = <<>> /\ who = ADMIN /\ name = ADMIN

\* Mutant: the row is replaced.
insertReplacing(owner, r, u) ==
    [owner EXCEPT ![r] = u]

\* insertResource: the primary key makes the statement fail if there is a row, and
\* no caller looks at the result.
insertResource(owner, r, u) ==
    IF owner[r] = None THEN [owner EXCEPT ![r] = u] ELSE owner

deleteResource(owner, r) ==
    [owner EXCEPT ![r] = None]

-----------------------------------------------------------------------------
\* The process

\* Mutant: only the logins are deleted.
cleanLogins ==
    login' = {} /\ graphOwner' = graphOwner

\* cleanTables: the logins and the rows of graphs.
cleanTables ==
    login' = {} /\ graphOwner' = [g \in Graphs |-> None]

\* main and RestServer::init, up to the boot graphs.
Start ==
    /\ pc = "off"
    /\ cleanTables
    /\ pc' = "boot" /\ todo' = BootGraphs /\ lost' = {}
    /\ UNCHANGED <<people, graphs, request>>

\* createGraphFromFile.
BootGraph ==
    /\ pc = "boot" /\ todo # <<>>
    /\ graphs' = graphs \cup {Head(todo)}
    /\ graphOwner' = insertResource(graphOwner, Head(todo), ADMIN)
    /\ todo' = Tail(todo)
    /\ UNCHANGED <<people, login, pc, request, lost>>

\* The process is gone, and what it had in memory with it.
Gone ==
    pc' = "off" /\ graphs' = {} /\ todo' = <<>>

\* A boot graph that cannot be deployed ends the process.
BootGraphFails ==
    /\ pc = "boot" /\ todo # <<>>
    /\ Gone
    /\ UNCHANGED <<people, login, graphOwner, request, lost>>

Serve ==
    /\ pc = "boot" /\ todo = <<>>
    /\ pc' = "idle"
    /\ UNCHANGED <<people, login, graphOwner, graphs, todo, request, lost>>

\* SIGINT, when the request in progress is over (MHD_stop_daemon).
Terminate ==
    /\ pc = "idle"
    /\ cleanTables
    /\ Gone
    /\ UNCHANGED <<people, request, lost>>

\* A failed assertion anywhere, a signal, a power cut.
Crash ==
    /\ pc # "off"
    /\ Gone
    /\ UNCHANGED <<people, login, graphOwner, request, lost>>

-----------------------------------------------------------------------------
\* Requests

Login(u) ==
    /\ pc = "idle" /\ InUsers(u)
    /\ login' = login \cup {u}
    /\ UNCHANGED <<people, graphOwner, graphs, pc, todo, request, lost>>

\* doOperation: the token is known, and its user is found.
Session(u) ==
    pc = "idle" /\ u \in login /\ InUsers(u)

\* The token is known, its user is not: isAuthorized asserts that there is one.
LostUser(u) ==
    /\ pc = "idle" /\ u \in login /\ ~InUsers(u)
    /\ Crash

\* isAuthorized and getAllowedResourcesNames look for the group of every owner.
OwnersKnown(owner, u) ==
    u = ADMIN \/ \A r \in DOMAIN owner : owner[r] \in {None, u} \/ InUsers(owner[r])

\* Can the description of every listed graph be made (toJSON asserts that there is
\* such a graph)?
GraphsKnown == \A g \in Graphs : IsGraph(g) => g \in graphs

\* readMultipleGraphs, readMultipleUsers and readMultipleGroups fail.
ReadFails(u) ==
    /\ Session(u)
    /\ \/ ~OwnersKnown(graphOwner, u) \/ ~GraphsKnown
       \/ ~OwnersKnown(userOwner, u) \/ ~OwnersKnown(groupOwner, u)
    /\ Crash

\* readGraph fails.
ReadGraphFails(u, g) ==
    /\ Session(u) /\ IsGraph(g) /\ g \notin graphs
    /\ Crash

CreateGroup(u, g) ==
    /\ Session(u) /\ u \in creators /\ ~IsGroup(g)
    /\ groupOwner' = insertResource(groupOwner, g, u)
    /\ UNCHANGED <<membership, creators, userOwner, login, graphOwner, graphs, pc, todo,
                   request, lost>>

\* Mutant: the users that are listed are counted.
usersListedForGroup(g) ==
    \E u \in Users : IsUser(u) /\ membership[u] = g

usersExistForGroup(g) ==
    \E u \in Users : membership[u] = g

DeleteGroup(u, g) ==
    /\ Session(u) /\ IsGroup(g) /\ ~usersExistForGroup(g)
    /\ groupOwner' = deleteResource(groupOwner, g)
    /\ UNCHANGED <<membership, creators, userOwner, login, graphOwner, graphs, pc, todo,
                   request, lost>>

\* createUser up to insertUser, which does nothing if the user exists with another
\* password.  The group is read from memory that has been freed: it may be any.
CreateUser(u, n, g) ==
    /\ Session(u) /\ u \in creators /\ IsGroup(g)
    /\ membership' = insertResource(membership, n, g)
    /\ pc' = "createUser" /\ who' = u /\ name' = n
    /\ UNCHANGED <<creators, userOwner, groupOwner, login, graphOwner, graphs, todo, lost>>

\* The body has no group, and the pointer to it no value.
CreateUserNoGroup(u) ==
    /\ Session(u) /\ u \in creators
    /\ Crash

\* The row of the user ...
CreateUserRow ==
    /\ pc = "createUser"
    /\ userOwner' = insertResource(userOwner, name, who)
    /\ pc' = "permissions"
    /\ UNCHANGED <<membership, creators, groupOwner, login, graphOwner, graphs, todo,
                   request, lost>>

\* ... and the three rows of its permissions.
CreateUserPermissions ==
    /\ pc = "permissions"
    /\ creators' = creators \cup {name}
    /\ pc' = "idle"
    /\ UNCHANGED <<membership, userOwner, groupOwner, login, graphOwner, graphs, todo,
                   request, lost>>

\* Mutant: the two statements are swapped.
DeleteUserFirst(u, n) ==
    /\ Session(u) /\ IsUser(n)
    /\ membership' = deleteResource(membership, n)
    /\ pc' = "deleteUser" /\ who' = u /\ name' = n
    /\ UNCHANGED <<userOwner, creators, groupOwner, login, graphOwner, graphs, todo, lost>>

\* deleteUser: first the row of the user ...
DeleteUser(u, n) ==
    /\ Session(u) /\ IsUser(n)
    /\ userOwner' = deleteResource(userOwner, n)
    /\ pc' = "deleteUser" /\ who' = u /\ name' = n
    /\ UNCHANGED <<membership, creators, groupOwner, login, graphOwner, graphs, todo, lost>>

\* ... then the user.  sqlite3_prepare_v2 compiles only the first of the two
\* statements in SQLiteManager::deleteUser: the login stays.
DeleteUserEnd ==
    /\ pc = "deleteUser"
    /\ membership' = deleteResource(membership, name)
    /\ pc' = "idle"
    /\ UNCHANGED <<creators, userOwner, groupOwner, login, graphOwner, graphs, todo,
                   request, lost>>

\* deployNewGraph: newGraph or updateGraph succeeds.  If it does not, there are the
\* same graphs as before, and no row is inserted.
DeployNewGraph(u, g) ==
    /\ Session(u) /\ u \in creators
    /\ graphs' = graphs \cup {g} /\ lost' = lost \ {g}
    /\ graphOwner' = insertResource(graphOwner, g, u)
    /\ UNCHANGED <<people, login, pc, todo, request>>

DeleteGraph(u, g) ==
    /\ Session(u) /\ IsGraph(g) /\ g \in graphs
    /\ graphs' = graphs \ {g}
    /\ graphOwner' = deleteResource(graphOwner, g)
    /\ UNCHANGED <<people, login, pc, todo, request, lost>>

\* The graph manager throws after it has erased the graph: it cannot destroy an
\* internal LSI or one of its links.  (If it throws earlier, nothing changes here.)
DeleteGraphFails(u, g) ==
    /\ Session(u) /\ IsGraph(g) /\ g \in graphs
    /\ graphs' = graphs \ {g} /\ lost' = lost \cup {g}
    /\ UNCHANGED <<people, login, graphOwner, pc, todo, request>>

-----------------------------------------------------------------------------
Process == Start \/ BootGraph \/ BootGraphFails \/ Serve \/ Terminate \/ Crash

UserRequest(u) ==
    \/ Login(u) \/ LostUser(u) \/ CreateUserNoGroup(u)
    \/ \E n \in Users : DeleteUser(u, n) \/ \E g \in Groups : CreateUser(u, n, g)
    \/ \E g \in Groups : CreateGroup(u, g) \/ DeleteGroup(u, g)

GraphRequest(u) ==
    \/ ReadFails(u)
    \/ \E g \in Graphs :
          \/ ReadGraphFails(u, g) \/ DeployNewGraph(u, g)
          \/ DeleteGraph(u, g) \/ DeleteGraphFails(u, g)

Next ==
    \/ Process
    \/ \E u \in Users : UserRequest(u) \/ GraphRequest(u)
    \/ CreateUserRow \/ CreateUserPermissions \/ DeleteUserEnd

Spec == Init /\ [][Next]_vars

-----------------------------------------------------------------------------
TypeOK ==
    /\ membership \in [Users -> Groups \cup {None}]
    /\ userOwner \in [Users -> Users \cup {None}]
    /\ groupOwner \in [Groups -> Users \cup {None}]
    /\ graphOwner \in [Graphs -> Users \cup {None}]
    /\ login \subseteq Users /\ creators \subseteq Users
    /\ graphs \subseteq Graphs /\ lost \subseteq Graphs
    /\ pc \in {"off", "boot", "idle", "createUser", "permissions", "deleteUser"}
    /\ todo \in Seq(Graphs) /\ who \in Users /\ name \in Users

\* Every listed user is in the table of users: readUser and readMultipleUsers use
\* what getUserByName returns without a test.  It holds also after a crash between
\* two statements of createUser or deleteUser.
ListedUsersExist ==
    \A u \in Users : IsUser(u) => InUsers(u)

\* The group of every user exists, also of a user that a crash has left unlisted:
\* createUser looks for the group, and deleteGroup for members.
MembersHaveGroups ==
    \A u \in Users : InUsers(u) => IsGroup(membership[u])

\* While requests are served, the listed graphs are those of the graph manager and
\* those a failed deletion has destroyed: nothing else, not an update, a failed
\* boot or a restart, makes the two differ.
RowsExact ==
    pc = "idle" => {g \in Graphs : IsGraph(g)} = graphs \cup lost

\* A row keeps its owner as long as it exists: an update of a graph by another user,
\* or a second createUser, does not take it over.
OwnersKept ==
    [][ /\ \A g \in Graphs : graphOwner[g] # None => graphOwner'[g] \in {graphOwner[g], None}
        /\ \A u \in Users : userOwner[u] # None => userOwner'[u] \in {userOwner[u], None} ]_vars

\* rest_server.cc, readGraph: "Check whether the graph exists in the local database
\* and in the graph manager": a listed graph is in the graph manager when it is read.
ListedGraphsExist ==
    pc = "idle" => GraphsKnown

\* SQLiteManager::deleteUser: "delete from LOGIN where USER = @user2": no login is left
\* without its user.
LoginsHaveUsers ==
    pc = "idle" => \A u \in login : InUsers(u)
=============================================================================
