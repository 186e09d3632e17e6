------------------------- MODULE OpenFlowController -------------------------
(***************************************************************************)
(* The OpenFlow controller of one LSI (controller.cc), its switch, and the *)
(* two threads that use it: "orch" is the thread that serves the REST      *)
(* requests and calls installNewRules, removeRules and removeRuleFromID;   *)
(* "rofl" is the I/O thread that runs the callbacks handle_dpt_open and    *)
(* handle_dpt_close.  The first three and handle_dpt_open hold             *)
(* controller_mutex for their whole body; handle_dpt_close does not take   *)
(* it.                                                                     *)
(***************************************************************************)
EXTENDS LowLevelGraph

CONSTANTS
    Graphs,     \* the NF-FGs whose rules are installed through the controller
    RuleNums,   \* numbers of the rules within an NF-FG
    Flows,      \* the flows [match, out, extra] a rule may be lowered to
    FlowsOf,    \* FlowsOf[g]: those that the rules of NF-FG g may be lowered to
    MaxBatch,   \* bound: rules in one installNewRules
    MaxRules    \* bound: rules in the controller's list

ASSUME FlowsAreFlows == \A f \in Flows : f = [match |-> f.match, out |-> f.out, extra |-> f.extra]
ASSUME FiniteConstants == IsFiniteSet(Graphs) /\ IsFiniteSet(RuleNums) /\ IsFiniteSet(Flows)

VARIABLES
    graph,      \* Controller::graph, a list of rules
    isOpen,     \* Controller::isOpen; dpt is NULL exactly when it is FALSE
    mutex,      \* the thread that holds controller_mutex, or "free"
    pc,         \* where that thread is in its body
    command,    \* the flow-mods it sends: "ADD" or "RM"
    rules,      \* the list it iterates on: what is left of the current loop
    batch,      \* the rules given to removeRules
    up,         \* the TCP connection of the switch is alive
    opening,    \* the switch has connected and handle_dpt_open is still to run
    table,      \* the flow table of the switch
    wanted,     \* rules the graph manager has installed and not removed
    crashed     \* a thread dereferenced dpt when it was NULL

ctrl == <<isOpen, mutex, pc, command, rules, batch>>
switch == <<up, opening, table>>
vars == <<graph, ctrl, switch, wanted, crashed>>

RuleIDs == Graphs \X RuleNums
LegalRules == {[id |-> i, match |-> f.match, out |-> f.out, extra |-> f.extra] :
                 i \in RuleIDs, f \in Flows}
IDs(R) == {r.id : r \in R}

Init ==
    /\ graph = <<>> /\ isOpen = FALSE
    /\ mutex = "free" /\ pc = "idle" /\ command = "ADD" /\ rules = <<>> /\ batch = <<>>
    /\ up = FALSE /\ opening = FALSE /\ table = {}
    /\ wanted = {} /\ crashed = FALSE

-----------------------------------------------------------------------------
\* Mutant: the size of the list is not tested.
SendToUntested(thread, cmd, rs, open) ==
    IF open
    THEN /\ mutex' = thread /\ pc' = "send" /\ command' = cmd /\ rules' = rs
    ELSE /\ mutex' = "free" /\ pc' = "idle" /\ rules' = <<>> /\ UNCHANGED command

\* Entering installNewRulesIntoLSI or removeRulesFromLSI with the list rs:
\* isOpen is tested once, before the loop on the rules.  (A handle_dpt_close
\* between the lock and this test is the same as one before the lock.)
SendTo(thread, cmd, rs, open) ==
    IF open /\ rs # <<>>
    THEN /\ mutex' = thread /\ pc' = "send" /\ command' = cmd /\ rules' = rs
    ELSE /\ mutex' = "free" /\ pc' = "idle" /\ rules' = <<>> /\ UNCHANGED command

\* installNewRules and installNewRule: the graph manager adds rules of graph g
\* whose identifiers it does not use yet.
InstallNewRules(rs) ==
    /\ mutex = "free" /\ ~crashed
    /\ Len(graph) + Len(rs) <= MaxRules
    /\ graph' = addRules(graph, rs)
    /\ wanted' = wanted \cup Range(rs)
    /\ SendTo("orch", "ADD", rs, isOpen)
    /\ UNCHANGED <<isOpen, batch, switch, crashed>>

\* The start of removeRules, called by deleteGraph with all the rules of g.
RemoveRules(rs) ==
    /\ mutex = "free" /\ ~crashed
    /\ mutex' = "orch" /\ pc' = "unlist" /\ rules' = rs /\ batch' = rs
    /\ wanted' = wanted \ Range(rs)
    /\ UNCHANGED <<graph, isOpen, command, switch, crashed>>

\* One iteration of the first loop of removeRules, which erases a rule from
\* the list (removeRule asserts that it finds one) ...
Unlist ==
    /\ pc = "unlist" /\ rules # <<>>
    /\ EqualTo(graph, Head(rules)) # {}
    /\ graph' = removeRule(graph, Head(rules))
    /\ rules' = Tail(rules)
    /\ UNCHANGED <<isOpen, mutex, pc, command, batch, switch, wanted, crashed>>

\* ... and its end: all the rules are removed from the LSI.
Unlisted ==
    /\ pc = "unlist" /\ rules = <<>>
    /\ SendTo("orch", "RM", batch, isOpen)
    /\ batch' = <<>>
    /\ UNCHANGED <<graph, isOpen, switch, wanted, crashed>>

\* removeRuleFromID: the exception of getRule is swallowed, and nothing is
\* sent when an identical rule remains.
RemoveRuleFromID(ID) ==
    /\ mutex = "free" /\ ~crashed
    /\ wanted' = {r \in wanted : r.id # ID}
    /\ IF WithID(graph, ID) = {}
       THEN UNCHANGED <<graph, mutex, pc, command, rules>>
       ELSE /\ graph' = removeRuleFromID(graph, ID)
            /\ SendTo("orch", "RM", <<getRule(graph, ID)>>,
                      isOpen /\ ~anotherIdentical(graph, ID))
    /\ UNCHANGED <<isOpen, batch, switch, crashed>>

\* One iteration of the loop that sends flow-mods.  dpt is read again at each
\* one: if the datapath has been closed meanwhile, it is NULL.  A message on
\* a connection that is already dead is lost.
SendFlowMod ==
    /\ pc = "send" /\ ~crashed
    /\ IF ~isOpen
       THEN crashed' = TRUE /\ UNCHANGED <<ctrl, table>>
       ELSE /\ table' = IF ~up THEN table
                        ELSE IF command = "ADD" THEN AddFlow(table, Head(rules))
                        ELSE DeleteStrict(table, Head(rules))
            /\ SendTo(mutex, command, Tail(rules), TRUE)
            /\ UNCHANGED <<isOpen, batch, crashed>>
    /\ UNCHANGED <<graph, up, opening, wanted>>

\* Mutants: flow_mod_reset is not called, or the list is not installed again.
HandleDptOpenNoReset ==
    /\ opening /\ mutex = "free" /\ ~crashed
    /\ opening' = FALSE /\ isOpen' = TRUE
    /\ SendTo("rofl", "ADD", graph, TRUE)
    /\ UNCHANGED <<graph, batch, up, table, wanted, crashed>>

HandleDptOpenNoRules ==
    /\ opening /\ mutex = "free" /\ ~crashed
    /\ opening' = FALSE /\ isOpen' = TRUE
    /\ table' = IF up THEN {} ELSE table
    /\ UNCHANGED <<graph, mutex, pc, command, rules, batch, up, wanted, crashed>>

\* handle_dpt_open: the table of the switch is emptied and the whole list is
\* installed.  The connection may have broken before the callback runs.
HandleDptOpen ==
    /\ opening /\ mutex = "free" /\ ~crashed
    /\ opening' = FALSE
    /\ table' = IF up THEN {} ELSE table
    /\ isOpen' = TRUE
    /\ SendTo("rofl", "ADD", graph, TRUE)
    /\ UNCHANGED <<graph, batch, up, wanted, crashed>>

\* handle_dpt_close, which does not lock controller_mutex.  The rofl thread
\* runs one callback at a time.
HandleDptClose ==
    /\ ~up /\ isOpen /\ mutex # "rofl" /\ ~crashed
    /\ isOpen' = FALSE
    /\ UNCHANGED <<graph, mutex, pc, command, rules, batch, switch, wanted, crashed>>

\* The connection with the switch breaks; the switch keeps its table or, if
\* it was restarted, loses it.
ConnectionLost ==
    /\ up /\ ~crashed
    /\ up' = FALSE
    /\ table' \in {table, {}}
    /\ UNCHANGED <<graph, ctrl, opening, wanted, crashed>>

\* The switch connects (again), after the previous connection was closed.
Connect ==
    /\ ~up /\ ~isOpen /\ ~opening /\ ~crashed
    /\ up' = TRUE /\ opening' = TRUE
    /\ UNCHANGED <<graph, ctrl, table, wanted, crashed>>

-----------------------------------------------------------------------------
\* What the graph manager may ask: new rules of one NF-FG ...
NewRules(g) ==
    {R \in SUBSET {r \in LegalRules : r.id[1] = g /\ FlowOf(r) \in FlowsOf[g] /\ r.id \notin IDs(wanted)} :
        R # {} /\ Cardinality(R) <= MaxBatch /\ Cardinality(IDs(R)) = Cardinality(R)}

Install == \E g \in Graphs : \E R \in NewRules(g) : \E rs \in SetToSeqs(R) : InstallNewRules(rs)

\* ... the removal of one rule of an NF-FG by an update ...
RemoveOne == \E ID \in IDs(wanted) : RemoveRuleFromID(ID)

\* ... or of all the rules of an NF-FG by deleteGraph.
RemoveAll ==
    \E g \in Graphs : \E rs \in SetToSeqs({r \in wanted : r.id[1] = g}) :
        rs # <<>> /\ RemoveRules(rs)

Channel == HandleDptOpen \/ HandleDptClose \/ ConnectionLost \/ Connect

\* A tenant LSI never sees removeRules: its switch is destroyed as a whole.
TenantNext == Install \/ RemoveOne \/ SendFlowMod \/ Channel

\* LSI-0 carries the rules of every NF-FG.
Next == TenantNext \/ RemoveAll \/ Unlist \/ Unlisted

TenantSpec == Init /\ [][TenantNext]_vars
Spec == Init /\ [][Next]_vars

\* The loops of the lock holder go on, and the rofl thread runs its callbacks.
FairTenantSpec ==
    TenantSpec /\ WF_vars(SendFlowMod) /\ WF_vars(HandleDptOpen) /\ WF_vars(HandleDptClose)

-----------------------------------------------------------------------------
TypeOK ==
    /\ graph \in Seq(LegalRules) /\ rules \in Seq(LegalRules) /\ batch \in Seq(LegalRules)
    /\ wanted \in SUBSET LegalRules
    /\ table \in SUBSET Flows
    /\ isOpen \in BOOLEAN /\ up \in BOOLEAN /\ opening \in BOOLEAN /\ crashed \in BOOLEAN
    /\ mutex \in {"free", "orch", "rofl"} /\ pc \in {"idle", "unlist", "send"}
    /\ command \in {"ADD", "RM"}
    /\ (mutex = "free") <=> (pc = "idle")
    /\ (pc = "send") => (rules # <<>>)

\* The switch is connected, the controller knows it, and no call is running.
Settled == up /\ isOpen /\ pc = "idle"

\* On a tenant LSI the flow table is exactly what the installed NF-FG asks
\* for whenever the controller is settled, through every interleaving of
\* installs, removals of rules that share a flow, disconnections and
\* reconnections.
TableInSync == Settled => table = {FlowOf(r) : r \in wanted}

\* No entry of a settled switch outlives the rule it was made from, whatever
\* rules removeRules and removeRuleFromID take away and whenever the switch
\* reconnects.  It needs PlainFlows.
Listed(rs, f) == \E i \in 1..Len(rs) : FlowOf(rs[i]) = f
NoStaleFlow == Settled => \A f \in table : Listed(graph, f)

\* No two flows differ in their generic actions only, which Rule::operator==
\* does not compare.
PlainFlows == \A f, h \in Flows : SameFlow(f, h) => f = h

\* No two flows have the same match.
OneFlowPerMatch == \A f, h \in Flows : f.match = h.match => f = h

\* Different NF-FGs use different traffic: Rule::operator== tells their rules apart.
SeparateFlows ==
    \A g, h \in Graphs : g # h => \A f \in FlowsOf[g], e \in FlowsOf[h] : ~SameFlow(f, e)

\* The inductive form of NoStaleFlow: between two steps of a call, an entry
\* without a rule is one that the call is still going to delete, and what it is
\* going to add is in the list.
HasMatch(rs, f) == \E i \in 1..Len(rs) : rs[i].match = f.match
Justified(f) ==
    \/ Listed(graph, f)
    \/ pc = "unlist" /\ HasMatch(batch, f)
    \/ pc = "send" /\ command = "RM" /\ HasMatch(rules, f)
FlowsJustified ==
    /\ opening => ~isOpen
    /\ (isOpen /\ up) => \A f \in table : Justified(f)
    /\ (pc = "send" /\ command = "ADD") => \A i \in 1..Len(rules) : Listed(graph, FlowOf(rules[i]))
    /\ pc = "unlist" => \A i \in 1..Len(rules) : HasMatch(batch, rules[i])

\* removeRules never reaches the assert(0) of Graph::removeRule: the rule it is
\* about to erase is in the list, whatever was added and removed before.
RemovalFindsRule == (pc = "unlist" /\ rules # <<>>) => EqualTo(graph, Head(rules)) # {}

\* A rule that is installed while the switch is connected reaches its table,
\* unless it is removed, the connection breaks or the process dies.
Wants(f) == \E r \in wanted : FlowOf(r) = f
EventuallyInstalled ==
    \A f \in Flows : (Wants(f) /\ up) ~> (f \in table \/ ~Wants(f) \/ ~up \/ crashed)

\* On a tenant LSI whose flows have one action per match, the two threads with their
\* list, lock and flow-mods implement the abstract table: installs, removals and
\* reconnections bring each missing flow and take away no flow that is asked for.
Asked == {FlowOf(r) : r \in wanted}
State == IF ~(up /\ isOpen) THEN "down" ELSE IF pc = "idle" THEN "ready" ELSE "syncing"
Table == INSTANCE FlowTable WITH asked <- Asked, state <- State
ImplementsTable == Table!Spec

\* controller.h: "all the operations in the controller are serialized with
\* this mutex": while a thread is inside an operation, the datapath it sends
\* flow-mods to is not taken away.
SendsToOpenDatapath == pc = "send" => isOpen

\* controller.h: the graph is "translated into flowmod messages and
\* instantiated within the LSI": every rule in the list has its flow.
GraphInstantiated == Settled => \A i \in 1..Len(graph) : FlowOf(graph[i]) \in table

\* "Remove rules from the datapath" (controller.h) concerns the rules given:
\* the list keeps the rules, with their identifiers, that other NF-FGs installed.
OthersKept == pc = "idle" => IDs(wanted) \subseteq {graph[i].id : i \in 1..Len(graph)}
=============================================================================
