-------------------------- MODULE GraphTranslator --------------------------
(***************************************************************************)
(* GraphTranslator: how the rules of an NF-FG are lowered to rules of      *)
(* LSI-0 and of the tenant LSI, and where the two LSIs then send a packet. *)
(*                                                                         *)
(* A high-level rule is a record [id, from, cls, to, tag].  "from" and     *)
(* "to" are nodes; "cls" stands for the other match fields; "tag" is TRUE  *)
(* if the rule has a generic action (push a VLAN tag).  All rules have the *)
(* same priority.                                                          *)
(*                                                                         *)
(* An LSI is a record [links, up, down, present].  "links" is the list of  *)
(* virtual links, "up" (network functions and GRE tunnels) and "down"      *)
(* (physical ports and internal endpoints) say which link carries the      *)
(* traffic for a node, and "present" are the nodes with a port on the LSI. *)
(***************************************************************************)
EXTENDS LowLevelGraph

CONSTANTS
    PhyPorts,     \* interface endpoints
    NFs,          \* network functions, one port each
    Gres,         \* gre-tunnel endpoints
    Internals,    \* internal endpoints
    Classes,      \* what the match fields other than the input port tell apart
    AnyClass,     \* a match on the input port only
    NoPort        \* port number 0, which no node has

\* A node is of one kind.
ASSUME KindsAreApart ==
    /\ PhyPorts \cap NFs = {} /\ PhyPorts \cap Gres = {} /\ PhyPorts \cap Internals = {}
    /\ NFs \cap Gres = {} /\ NFs \cap Internals = {} /\ Gres \cap Internals = {}

\* Nodes attached to LSI-0, and nodes attached to the tenant LSI.
Below == PhyPorts \cup Internals

Above == NFs \cup Gres

Nodes == Below \cup Above

\* Mutant: internal endpoints are forgotten.
upRequiredPorts(rules) ==
    {r.to : r \in {q \in Range(rules) : q.from \in PhyPorts /\ q.to \in Above}}

\* identifyVirtualLinksRequired: the nodes for which rules need a virtual link.
upRequired(rules) ==
    {r.to : r \in {q \in Range(rules) : q.from \in Below /\ q.to \in Above}}

downRequired(rules) ==
    {r.to : r \in {q \in Range(rules) : q.from \in Above /\ q.to \in Below}}

low(id, in, cls, out, tag) ==
    [id |-> id, match |-> <<in, cls>>, out |-> out, extra |-> tag]

\* Can the virtual link of the node be found?
HasLink(assoc, n, lsi) ==
    n \in DOMAIN assoc /\ assoc[n] \in lsi.links

\* The input port of the rule of LSI-0 for a node: the remote end of its link.  For
\* a rule from a tunnel to a port the code goes on with an empty match.
InputFor(n, lsi) ==
    IF n \in DOMAIN lsi.down THEN lsi.down[n] ELSE NoPort

ClassFor(r, lsi) ==
    IF r.to \in DOMAIN lsi.down THEN r.cls ELSE AnyClass

\* The rule of LSI-0, by what the high-level rule matches on.  From a physical port
\* to an internal endpoint there is none: newGraph documents this as a limitation.
PortToLSI0(r, lsi) ==
    CASE r.to \in PhyPorts -> <<low(r.id, r.from, r.cls, r.to, r.tag)>>
      [] r.to \in Above -> <<low(r.id, r.from, r.cls, lsi.up[r.to], r.tag)>>
      [] r.to \in Internals -> <<>>

GreToLSI0(r, lsi) ==
    <<low(r.id, InputFor(r.to, lsi), ClassFor(r, lsi), r.to, r.tag)>>

InternalToLSI0(r, lsi) ==
    <<low(r.id, r.from, r.cls, lsi.up[r.to], r.tag)>>

NFToLSI0(r, lsi) ==
    <<low(r.id, lsi.down[r.to], AnyClass, r.to, FALSE)>>

\* A network function or a tunnel to an internal endpoint.
EndpointToLSI0(r, lsi) ==
    <<low(r.id, lsi.down[r.to], AnyClass, r.to, FALSE)>>

\* One iteration of lowerGraphToLSI0.
lowerToLSI0(r, lsi) ==
    CASE r.from \in Above /\ r.to \in Above -> <<>>
      [] r.from \in Above /\ r.to \in Internals -> EndpointToLSI0(r, lsi)
      [] r.from \in PhyPorts -> PortToLSI0(r, lsi)
      [] r.from \in Gres /\ r.to \in PhyPorts -> GreToLSI0(r, lsi)
      [] r.from \in Internals -> InternalToLSI0(r, lsi)
      [] r.from \in NFs /\ r.to \in PhyPorts -> NFToLSI0(r, lsi)

\* The assertions of that iteration, and the iterators it uses without a test.
AssertsLSI0(r, lsi) ==
    /\ ~(r.from \in Internals /\ r.to \in Below)
    /\ r.from \in Below /\ r.to \in Above => HasLink(lsi.up, r.to, lsi)
    /\ r.from \in Above /\ r.to \in Below =>
          \/ HasLink(lsi.down, r.to, lsi)
          \/ r.from \in Gres /\ r.to \in PhyPorts /\ r.to \notin DOMAIN lsi.down

lowerGraphToLSI0(rules, lsi) ==
    FlattenSeq([i \in 1..Len(rules) |-> lowerToLSI0(rules[i], lsi)])

\* The port of a tunnel on the tenant LSI is 0 if the LSI does not have it.
TenantPort(n, lsi) ==
    IF n \in lsi.present THEN n ELSE NoPort

\* Mutant: the tenant LSI repeats the generic actions of LSI-0.
BelowToTenantTwice(r, lsi) ==
    <<low(r.id, lsi.up[r.to], AnyClass, TenantPort(r.to, lsi), r.tag)>>

\* What LSI-0 has matched and tagged is recognised by its link alone.
BelowToTenant(r, lsi) ==
    <<low(r.id, lsi.up[r.to], AnyClass, TenantPort(r.to, lsi), FALSE)>>

GreToTenant(r, lsi) ==
    <<low(r.id, TenantPort(r.from, lsi), r.cls,
          IF r.to \in NFs THEN r.to ELSE lsi.down[r.to], r.tag)>>

NFToTenant(r, lsi) ==
    <<low(r.id, r.from, r.cls,
          IF r.to \in Above THEN TenantPort(r.to, lsi) ELSE lsi.down[r.to], r.tag)>>

\* One iteration of lowerGraphToTenantLSI.
lowerToTenant(r, lsi) ==
    CASE r.from \in Below /\ r.to \in Below -> <<>>
      [] r.from \in Below /\ r.to \in Above -> BelowToTenant(r, lsi)
      [] r.from \in Gres -> GreToTenant(r, lsi)
      [] r.from \in NFs -> NFToTenant(r, lsi)

\* A network function the tenant LSI does not have is an exception, except in the
\* action of a rule from a tunnel, where the code does not look.
KnownNFs(r, lsi) ==
    /\ r.from \in NFs => r.from \in lsi.present
    /\ r.to \in NFs /\ r.from \notin Gres => r.to \in lsi.present

AssertsTenant(r, lsi) ==
    /\ ~(r.from \in Gres /\ r.to \in Gres)
    /\ r.from \in Gres /\ r.to \in NFs => r.to \in lsi.present
    /\ r.from \in Below /\ r.to \in Above => HasLink(lsi.up, r.to, lsi)
    /\ r.from \in Above /\ r.to \in Below => HasLink(lsi.down, r.to, lsi)

lowerGraphToTenantLSI(rules, lsi) ==
    FlattenSeq([i \in 1..Len(rules) |-> lowerToTenant(rules[i], lsi)])

-----------------------------------------------------------------------------
\* Forwarding by a pair of LSIs.

\* Where an LSI sends a packet of a class that enters at a port: pairs of an output
\* port and the number of tags on the packet.
Hop(rules, port, cls, tags) ==
    {<<r.out, IF r.extra THEN tags + 1 ELSE tags>> :
        r \in {q \in Range(rules) : q.match[1] = port /\ q.match[2] \in {cls, AnyClass}}}

\* Where the two LSIs bring a packet that enters at a node: directly, or over one of
\* the virtual links.
Forward(lsi0, tenant, links, n, cls) ==
    LET Near == IF n \in Below THEN lsi0 ELSE tenant
        Far == IF n \in Below THEN tenant ELSE lsi0
        first == Hop(Near, n, cls, 0)
        second == UNION {Hop(Far, o[1], cls, o[2]) : o \in {h \in first : h[1] \in links}}
    IN  {o \in first \cup second : o[1] \in Nodes}

\* Where the high-level rules say it goes.
Wanted(rules, n, cls) ==
    {<<r.to, IF r.tag THEN 1 ELSE 0>> :
        r \in {q \in Range(rules) : q.from = n /\ q.cls \in {cls, AnyClass}}}

\* The LSIs do what the rules say, no more and no less.
Realises(lsi0, tenant, links, rules) ==
    \A n \in Nodes, cls \in Classes :
        Forward(lsi0, tenant, links, n, cls) = Wanted(rules, n, cls)
=============================================================================
