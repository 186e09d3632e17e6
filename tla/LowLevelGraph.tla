--------------------------- MODULE LowLevelGraph ---------------------------
(***************************************************************************)
(* The rule list an OpenFlow controller keeps (lowlevel::Graph), and the   *)
(* flow table of a switch, as operators on values.                         *)
(*                                                                         *)
(* A low-level rule is a record [id, match, out, extra].  "match" stands   *)
(* for the match fields together with the priority: Rule::operator==       *)
(* compares both, and a strict flow-mod addresses a table entry by both.   *)
(* "out" is the output port, and "extra" the generic actions (push or pop  *)
(* a VLAN tag) applied before the output.                                  *)
(***************************************************************************)
EXTENDS ListOps

\* Rule::operator==, which leaves the identifier out of the comparison and,
\* through Action::operator==, the generic actions too.
SameFlow(r, q) ==
    r.match = q.match /\ r.out = q.out

\* The table entry a rule is turned into by fillFlowmodMessage.
FlowOf(r) ==
    [match |-> r.match, out |-> r.out, extra |-> r.extra]

WithID(graph, ID) ==
    {i \in 1..Len(graph) : graph[i].id = ID}

EqualTo(graph, rule) ==
    {i \in 1..Len(graph) : SameFlow(graph[i], rule)}

\* Graph::addRules: rules are appended, without looking for duplicates.
addRules(graph, rules) ==
    graph \o rules

\* Mutants of removeRule: the loop goes on after the first match, or the wrong
\* iterator is erased.
removeRuleEvery(graph, rule) ==
    SelectSeq(graph, LAMBDA r : ~SameFlow(r, rule))

removeRuleLast(graph, rule) ==
    SubSeq(graph, 1, Len(graph) - 1)

\* Graph::removeRule: the FIRST rule equal to the given one is erased, which
\* is not always the one with its identifier.
removeRule(graph, rule) ==
    RemoveAt(graph, Min(EqualTo(graph, rule)))

\* Graph::getRule: the first rule with the identifier.
getRule(graph, ID) ==
    graph[Min(WithID(graph, ID))]

\* The erasure done by Graph::removeRuleFromID.
removeRuleFromID(graph, ID) ==
    RemoveAt(graph, Min(WithID(graph, ID)))

\* Mutants: the rule itself is taken for an identical one, or the list is not
\* searched.
anotherItself(graph, ID) ==
    EqualTo(graph, getRule(graph, ID)) # {}

anotherNever(graph, ID) ==
    FALSE

\* The value returned by Graph::removeRuleFromID: does a rule with another
\* identifier that is equal to the erased one exist?
anotherIdentical(graph, ID) ==
    \E i \in EqualTo(graph, getRule(graph, ID)) : graph[i].id # ID

-----------------------------------------------------------------------------
\* The flow table of a switch (external): a set of entries, one per match.

\* OFPFC_ADD replaces the entry with the same match and priority.
AddFlow(table, rule) ==
    {f \in table : f.match # rule.match} \cup {FlowOf(rule)}

\* OFPFC_DELETE_STRICT deletes the entry with that match and priority,
\* whatever its action.
DeleteStrict(table, rule) ==
    {f \in table : f.match # rule.match}
=============================================================================
