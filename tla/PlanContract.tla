---------------------------- MODULE PlanContract ----------------------------
(* What the model is offered, and what is then asked of its draft: the contract
   createPlanContract draws from a published catalog and a surface, the schema check
   and the deterministic validation a draft meets, and the query it would run.

   A world is one published catalog beside one surface:
     capabilities  c |-> [type, shape, filter, source, group, ops, sort, paging, setOps, maximum, page]
     fields        type |-> field |-> semantic type
     listed        the pairs <<type, field>> whose schema declares a small enum
     relationships r |-> [from, to, toOne]
     components    k |-> [slots : slot |-> set of acceptances,
                          children : slot |-> [one, accepts], instances]
     surface       [allowed, most]
   A draft is [requests, compositions, joins, nodes]; a node names its parent. *)
EXTENDS Naturals, FiniteSets

CONSTANTS
    Worlds, Drafts,
    None,
    DefaultMaxRows,     \* the row ceiling of a capability that declares none
    ExampleLimit,       \* the limit of the first worked example
    MaxLeaves,          \* conditions a filter may hold in all, and one group of it
    OfferedDepth        \* groups a filter may nest in the schema; one more is accepted

(* A catalog's limits are numbers, and the fields its source narrows on are among those
   it filters on; a surface holds at least one component, of those there are, and no place
   under a component is None.  A draft has one of three statuses; what it lists, it lists
   finitely. *)
Bounds == Nat \cup {None}
Published(w) ==
    /\ w.surface.most \in Bounds \ {0}
    /\ w.surface.allowed \subseteq DOMAIN w.components
    /\ \A k \in w.surface.allowed : \A s \in DOMAIN w.components[k].children : [node |-> "n1", slot |-> s] # None
    /\ \A c \in DOMAIN w.capabilities :
        /\ w.capabilities[c].maximum \in Bounds /\ w.capabilities[c].page \in Bounds
        /\ w.capabilities[c].source \subseteq w.capabilities[c].filter
Written(d) ==
    /\ d.status \in {"ready", "needs-clarification", "unsupported"}
    /\ IsFiniteSet(DOMAIN d.nodes)
    /\ \A x \in DOMAIN d.compositions : IsFiniteSet(d.compositions[x].inputs)
    /\ \A r \in DOMAIN d.requests :
        d.requests[r].query.filter # None => d.requests[r].query.filter.depth \in Nat

ASSUME PlanContractAssumption ==
    /\ None \notin Nat
    /\ ExampleLimit \in Nat \ {0}
    /\ None \notin {"schema", "invalid", "ready", "needs-clarification", "unsupported", "ran", "INVALID_QUERY"}
    /\ DefaultMaxRows \in Nat /\ OfferedDepth \in Nat
    /\ \A w \in Worlds : Published(w)
    /\ \A d \in Drafts : Written(d)

VARIABLES
    world, asked,       \* asked: the prompt answers a question already put
    contract,           \* None until it is drawn up
    draft, verdict,     \* verdict: None, "schema", "invalid", or the status of the draft
    outcome             \* None, "ran" or "INVALID_QUERY"
vars == <<world, asked, contract, draft, verdict, outcome>>

-----------------------------------------------------------------------------
(* Acceptance: what a slot of a component takes. *)
Collection == "collection"
ListShapes == {"collection", "search-results", "media-collection"}
Listed(c) == c.shape \in ListShapes
Smaller(a, b) == IF a <= b THEN a ELSE b

FieldsOf(w, type) == IF type = None THEN {} ELSE DOMAIN w.fields[type]
Fields(w, type) == Cardinality(FieldsOf(w, type))
SemanticsOf(w, type) == {w.fields[type][f] : f \in FieldsOf(w, type)}
Numeric == {"money", "quantity", "percentage"}
NumericFields(w, type) == {f \in FieldsOf(w, type) : w.fields[type][f] \in Numeric}

(* `joined` is the type whose fields a join adds to each row, or None. *)
Accepts(w, acceptance, output, joined, grouped) ==
    /\ acceptance.grouping => grouped \/ output.shape = "time-series"
    /\ acceptance.type # None => acceptance.type = output.type
    /\ output.shape \in acceptance.shapes
    /\ acceptance.type = None =>
        /\ acceptance.least <= Fields(w, output.type) + Fields(w, joined)
        /\ acceptance.requires \subseteq SemanticsOf(w, output.type) \cup SemanticsOf(w, joined)
SlotAccepts(w, slot, output, joined, grouped) ==
    \E acceptance \in slot : Accepts(w, acceptance, output, joined, grouped)
Output(type, shape) == [type |-> type, shape |-> shape]
CanGroup(c) == c.group # {} \/ c.ops # {}

-----------------------------------------------------------------------------
(* The scope of a surface: the capabilities it could bind, four ways. *)
SurfaceSlots(w) ==
    UNION {{w.components[k].slots[s] : s \in DOMAIN w.components[k].slots} : k \in w.surface.allowed}
AcceptedBySomeSlot(w, output, grouped) ==
    \E slot \in SurfaceSlots(w) : SlotAccepts(w, slot, output, None, grouped)
ToOne(w) == {w.relationships[r] : r \in {q \in DOMAIN w.relationships : w.relationships[q].toOne}}

Direct(w, c) == AcceptedBySomeSlot(w, Output(c.type, c.shape), CanGroup(c))
AsCollection(w, type) == AcceptedBySomeSlot(w, Output(type, Collection), FALSE)
CompositionInput(w, c) == c.setOps # {} /\ AsCollection(w, c.type)
JoinLeft(w, c) == AsCollection(w, c.type) /\ \E r \in ToOne(w) : r.from = c.type
JoinRightUnseen(w, c) == FALSE      \* a slip: only what a slot accepts is in scope
JoinRight(w, c) ==
    \E r \in ToOne(w), l \in DOMAIN w.capabilities :
        r.to = c.type /\ r.from = w.capabilities[l].type /\ JoinLeft(w, w.capabilities[l])
InScope(w, c) == Direct(w, c) \/ CompositionInput(w, c) \/ JoinLeft(w, c) \/ JoinRight(w, c)
Scope(w) == {c \in DOMAIN w.capabilities : InScope(w, w.capabilities[c])}

-----------------------------------------------------------------------------
(* The contract: a closed variant per capability and per component. *)
LimitCeiling(c) ==
    LET declared == IF c.maximum = None THEN DefaultMaxRows ELSE c.maximum
    IN IF c.page = None THEN declared ELSE Smaller(declared, c.page)
RowCeiling(c) == IF c.maximum = None THEN DefaultMaxRows ELSE c.maximum    \* a slip: the page is forgotten
OfferedCeiling(c) == LimitCeiling(c)
OffersListsAnyway(c) == TRUE        \* a slip: a limit is offered whatever comes back
OffersLists(c) == Listed(c)
QueryOffer(w, c) ==
    LET where(offered) == IF OffersLists(c) THEN offered ELSE {}
    IN [filter |-> where(IF c.source # {} THEN c.source ELSE c.filter),
        group |-> where(c.group),
        ops |-> where(c.ops),
        numeric |-> NumericFields(w, c.type),
        sort |-> where(c.sort),
        project |-> FieldsOf(w, c.type),
        offset |-> OffersLists(c) /\ c.paging,
        limit |-> IF OffersLists(c) THEN OfferedCeiling(c) ELSE 0]

(* An operation two capabilities of one type advertise; a to-one relationship with a
   capability on either side. *)
OfferedOperations(w, scope) ==
    {op \in UNION {w.capabilities[c].setOps : c \in scope} :
        \E a, b \in scope :
            /\ a # b
            /\ w.capabilities[a].type = w.capabilities[b].type
            /\ op \in w.capabilities[a].setOps \cap w.capabilities[b].setOps}
OfferedRelationships(w, scope) ==
    LET produced == {w.capabilities[c].type : c \in scope}
    IN {r \in DOMAIN w.relationships :
            w.relationships[r].toOne /\ {w.relationships[r].from, w.relationships[r].to} \subseteq produced}

(* What the prompt shows or says may be written: the first example always, the others
   under the condition the code gives each; the counting questions of every capability
   that groups and aggregates, whatever it returns. *)
HoldsSeveral(w) == w.surface.most = None \/ w.surface.most >= 2
ShowsSiblings(w) == HoldsSeveral(w)
Taught(w, scope, answered) ==
    {"one"} \cup (IF ShowsSiblings(w) THEN {"siblings"} ELSE {})
        \cup (IF OfferedRelationships(w, scope) # {} THEN {"join"} ELSE {})
        \cup (IF \E k \in w.surface.allowed : DOMAIN w.components[k].children # {} THEN {"children"} ELSE {})
        \cup (IF answered THEN {} ELSE {"question"})
Counted(w, scope) == {c \in scope : w.capabilities[c].group # {} /\ w.capabilities[c].ops # {}}

ContractOf(w, answered) ==
    LET scope == Scope(w)
    IN [offers |-> [c \in scope |-> QueryOffer(w, w.capabilities[c])],
        operations |-> OfferedOperations(w, scope),
        relationships |-> OfferedRelationships(w, scope),
        components |-> [k \in w.surface.allowed |-> w.components[k]],
        most |-> w.surface.most,
        asks |-> ~answered,
        taught |-> Taught(w, scope, answered),
        counted |-> Counted(w, scope)]

-----------------------------------------------------------------------------
(* The schema: what a draft may hold at all. *)
LegalFilter(offer, filter) ==
    filter # None =>
        /\ filter.depth <= OfferedDepth /\ filter.widest <= MaxLeaves
        /\ filter.conditions # {}
        /\ \A n \in filter.conditions : n.field \in offer.filter
LegalAggregate(offer, a) ==
    a.op \in offer.ops /\ (a.field # None => a.field \in offer.numeric)
LegalQuery(offer, q) ==
    /\ LegalFilter(offer, q.filter)
    /\ q.group \subseteq offer.group
    /\ \A a \in q.aggregates : LegalAggregate(offer, a)
    /\ q.sort \subseteq offer.sort
    /\ q.project \subseteq offer.project
    /\ q.offset => offer.offset
    /\ q.limit # None => q.limit \in 1 .. offer.limit

KindOf(d, source) ==
    IF source \in DOMAIN d.compositions THEN "composition"
    ELSE IF source \in DOMAIN d.joins THEN "join" ELSE "request"
LegalBinding(k, kind) ==
    /\ kind = "composition" => k.operations # {}
    /\ kind = "join" => k.relationships # {}
Tops(d) == {n \in DOMAIN d.nodes : d.nodes[n].under = None}
ChildrenIn(d, n, slot) ==
    {m \in DOMAIN d.nodes : d.nodes[m].under # None /\ d.nodes[m].under = [node |-> n, slot |-> slot]}
LegalNode(k, d, n) ==
    LET node == d.nodes[n] IN
    /\ node.component \in DOMAIN k.components
    /\ DOMAIN node.binds = DOMAIN k.components[node.component].slots
    /\ \A s \in DOMAIN node.binds : LegalBinding(k, KindOf(d, node.binds[s]))
    /\ node.under # None =>
        LET parent == d.nodes[node.under.node] IN
        /\ parent.component \in DOMAIN k.components
        /\ node.under.slot \in DOMAIN k.components[parent.component].children
        /\ k.components[parent.component].children[node.under.slot].one =>
            ChildrenIn(d, node.under.node, node.under.slot) = {n}

LegalPlan(k, d) ==
    /\ \A r \in DOMAIN d.requests :
        /\ d.requests[r].capability \in DOMAIN k.offers
        /\ LegalQuery(k.offers[d.requests[r].capability], d.requests[r].query)
    /\ \A c \in DOMAIN d.compositions :
        /\ d.compositions[c].op \in k.operations
        /\ Cardinality(d.compositions[c].inputs) >= 2
    /\ \A j \in DOMAIN d.joins : d.joins[j].relationship \in k.relationships
    /\ Tops(d) # {} /\ (k.most # None => Cardinality(Tops(d)) <= k.most)
    /\ \A n \in DOMAIN d.nodes : LegalNode(k, d, n)
Legal(k, d) ==
    CASE d.status = "ready" -> LegalPlan(k, d)
      [] d.status = "needs-clarification" -> k.asks
      [] d.status = "unsupported" -> TRUE

-----------------------------------------------------------------------------
(* The validation: the names of what is wrong with a draft, against the whole
   published catalog and not the scope it was narrowed to. *)
When(wrong, issue) == IF wrong THEN {issue} ELSE {}
Ordered == {"gt", "between"}
Textual == {"contains"}
OrderedTypes == {"money", "quantity", "percentage", "date", "date-time"}
TextTypes == {"text", "rich-text", "url", "identifier", "status"}
OperatorAllowed(operator, semantic) ==
    /\ operator \in Ordered => semantic \in OrderedTypes
    /\ operator \in Textual => semantic \in TextTypes
Enumerated == {"eq", "in"}

ConditionIssues(w, c, n) ==
    IF n.field \notin c.filter THEN {"filter field"}
    ELSE When(n.field \in FieldsOf(w, c.type) /\ ~OperatorAllowed(n.operator, w.fields[c.type][n.field]), "operator")
            \cup When(<<c.type, n.field>> \in w.listed /\ n.operator \in Enumerated /\ ~n.declared, "value")
FilterIssues(w, c, filter) ==
    IF filter = None THEN {}
    ELSE When(filter.depth > OfferedDepth + 1, "depth") \cup When(filter.leaves > MaxLeaves, "leaves")
            \cup When(filter.conditions = {}, "no condition")
            \cup (UNION {ConditionIssues(w, c, n) : n \in filter.conditions})

Aggregating(q) == q.group # {} \/ q.aggregates # {}
OutputColumns(q) == q.group \cup {a.as : a \in q.aggregates}
AggregateIssues(w, c, q, a) ==
    When(a.op \notin c.ops, "aggregate")
        \cup When(a.op = "count" /\ a.field # None, "count of a field")
        \cup When(a.op # "count" /\ a.field \notin NumericFields(w, c.type), "aggregate field")
        \cup When(a.as \in q.group \/ \E b \in q.aggregates : b # a /\ b.as = a.as, "column twice")
SortColumns(c, q) == IF Aggregating(q) THEN OutputColumns(q) ELSE c.sort
ProjectColumns(w, c, q) == IF Aggregating(q) THEN OutputColumns(q) ELSE FieldsOf(w, c.type)
Issue(q, name) == IF Aggregating(q) THEN "aggregated column" ELSE name
QueryIssues(w, c, q) ==
    FilterIssues(w, c, q.filter)
        \cup When(~(q.group \subseteq c.group), "group field")
        \cup (UNION {AggregateIssues(w, c, q, a) : a \in q.aggregates})
        \cup When(~(q.sort \subseteq SortColumns(c, q)), Issue(q, "sort field"))
        \cup When(~(q.project \subseteq ProjectColumns(w, c, q)), Issue(q, "project field"))
        \cup When(q.offset /\ ~c.paging, "offset")
        \cup When(q.limit # None /\ q.limit > LimitCeiling(c), "limit")
RequestIssues(w, d, r) ==
    LET request == d.requests[r]
    IN IF request.capability \notin DOMAIN w.capabilities THEN {"unknown capability"}
       ELSE QueryIssues(w, w.capabilities[request.capability], request.query)

Of(w, d, r) == w.capabilities[d.requests[r].capability]
Declared(d, sources) == sources \subseteq DOMAIN d.requests
CompositionIssues(w, d, x) ==
    IF ~Declared(d, x.inputs) THEN {"unknown input"}
    ELSE When(Cardinality(x.inputs) < 2, "too few inputs")
            \cup When(\E r \in x.inputs : x.op \notin Of(w, d, r).setOps, "operation of an input")
            \cup When(Cardinality({Of(w, d, r).type : r \in x.inputs}) > 1, "types of inputs")
JoinIssues(w, d, j) ==
    IF j.relationship \notin DOMAIN w.relationships THEN {"unknown relationship"}
    ELSE LET relationship == w.relationships[j.relationship] IN
         When(~relationship.toOne, "cardinality of a relationship")
            \cup (IF ~Declared(d, {j.left, j.right}) THEN {"unknown input"}
                  ELSE When(j.left = j.right, "one side twice")
                        \cup When(Of(w, d, j.left).type # relationship.from
                                    \/ Of(w, d, j.right).type # relationship.to, "sides of a join"))

(* A composed or joined dataset reaches its slot as a collection, never grouped. *)
Fits(w, d, slot, source) ==
    CASE source \in DOMAIN d.compositions ->
            LET types == {Of(w, d, r).type : r \in d.compositions[source].inputs}
            IN \A t \in types : SlotAccepts(w, slot, Output(t, Collection), None, FALSE)
      [] source \in DOMAIN d.joins ->
            SlotAccepts(w, slot, Output(Of(w, d, d.joins[source].left).type, Collection),
                        Of(w, d, d.joins[source].right).type, FALSE)
      [] OTHER ->
            SlotAccepts(w, slot, Output(Of(w, d, source).type, Of(w, d, source).shape), None,
                        Aggregating(d.requests[source].query))
SourcesOf(d) == DOMAIN d.requests \cup DOMAIN d.compositions \cup DOMAIN d.joins
NamedTwice(d) ==
    \/ DOMAIN d.requests \cap (DOMAIN d.compositions \cup DOMAIN d.joins) # {}
    \/ DOMAIN d.compositions \cap DOMAIN d.joins # {}
InputsOf(d, source) ==
    IF source \in DOMAIN d.compositions THEN d.compositions[source].inputs
    ELSE IF source \in DOMAIN d.joins THEN {d.joins[source].left, d.joins[source].right} ELSE {}
BindingIssues(w, d, slots, s, source) ==
    IF s \notin DOMAIN slots THEN {"unknown slot"}
    ELSE IF source \notin SourcesOf(d) THEN {"unknown source"}
    ELSE IF ~Declared(d, InputsOf(d, source)) THEN {}
    ELSE When(~Fits(w, d, slots[s], source), "slot")
NodeIssues(w, d, n) ==
    LET node == d.nodes[n]
        component == w.components[node.component] IN
    When(node.component \notin w.surface.allowed, "component")
        \cup When(~(DOMAIN component.slots \subseteq DOMAIN node.binds), "unbound slot")
        \cup (UNION {BindingIssues(w, d, component.slots, s, node.binds[s]) : s \in DOMAIN node.binds})
ChildIssues(w, d, n) ==
    LET under == d.nodes[n].under IN
    IF under = None THEN {}
    ELSE LET children == w.components[d.nodes[under.node].component].children IN
         IF under.slot \notin DOMAIN children THEN {"unknown child slot"}
         ELSE When(children[under.slot].one /\ ChildrenIn(d, under.node, under.slot) # {n}, "cardinality of a slot")
                \cup When(children[under.slot].accepts # None
                            /\ d.nodes[n].component \notin children[under.slot].accepts, "child")

Bound(d) == UNION {{d.nodes[n].binds[s] : s \in DOMAIN d.nodes[n].binds} : n \in DOMAIN d.nodes}
Referenced(d) == Bound(d) \cup UNION {InputsOf(d, x) : x \in DOMAIN d.compositions \cup DOMAIN d.joins}
Crowded(w, d) ==
    \E k \in DOMAIN w.components :
        /\ w.components[k].instances # None
        /\ Cardinality({n \in DOMAIN d.nodes : d.nodes[n].component = k}) > w.components[k].instances
Issues(w, d) ==
    LET known == \A r \in DOMAIN d.requests : d.requests[r].capability \in DOMAIN w.capabilities IN
    (UNION {RequestIssues(w, d, r) : r \in DOMAIN d.requests})
        \cup (IF ~known THEN {}
              ELSE (UNION {CompositionIssues(w, d, d.compositions[c]) : c \in DOMAIN d.compositions})
                    \cup (UNION {JoinIssues(w, d, d.joins[j]) : j \in DOMAIN d.joins})
                    \cup (UNION {NodeIssues(w, d, n) : n \in DOMAIN d.nodes}))
        \cup (UNION {ChildIssues(w, d, n) : n \in DOMAIN d.nodes})
        \cup When(w.surface.most # None /\ Cardinality(Tops(d)) > w.surface.most, "too many components")
        \cup When(~(SourcesOf(d) \subseteq Referenced(d)), "unbound source")
        \cup When(NamedTwice(d), "source id twice")
        \cup When(Crowded(w, d), "instances")

-----------------------------------------------------------------------------
(* The executor asks a list of what is not one, and refuses. *)
ListOperations(q) ==
    q.filter # None \/ Aggregating(q) \/ q.sort # {} \/ q.offset \/ q.limit # None
Runs(w, d) ==
    \A r \in DOMAIN d.requests : ListOperations(d.requests[r].query) => Listed(Of(w, d, r))

Init ==
    /\ world \in Worlds /\ asked \in BOOLEAN
    /\ contract = None /\ draft = None /\ verdict = None /\ outcome = None

Advertise ==
    /\ contract = None
    /\ contract' = ContractOf(world, asked)
    /\ UNCHANGED <<world, asked, draft, verdict, outcome>>

(* A model may write anything at all. *)
Answer ==
    /\ contract # None /\ draft = None
    /\ draft' \in Drafts
    /\ UNCHANGED <<world, asked, contract, verdict, outcome>>

Judge ==
    /\ draft # None /\ verdict = None
    /\ verdict' = IF ~Legal(contract, draft) THEN "schema"
                  ELSE IF draft.status # "ready" THEN draft.status
                  ELSE IF Issues(world, draft) # {} THEN "invalid" ELSE "ready"
    /\ UNCHANGED <<world, asked, contract, draft, outcome>>

Execute ==
    /\ verdict = "ready" /\ outcome = None
    /\ outcome' = IF Runs(world, draft) THEN "ran" ELSE "INVALID_QUERY"
    /\ UNCHANGED <<world, asked, contract, draft, verdict>>

Next == Advertise \/ Answer \/ Judge \/ Execute
Spec == Init /\ [][Next]_vars

-----------------------------------------------------------------------------
(* "So the scope can never exclude something validation would have accepted": every
   capability of a plan the whole catalog would have accepted is offered on the
   surface.  A slot that takes a joined row only for what the join adds is the
   exception the code makes. *)
FitsUnjoined(w, d, n, s) ==
    LET source == d.nodes[n].binds[s] IN
    source \in DOMAIN d.joins =>
        SlotAccepts(w, w.components[d.nodes[n].component].slots[s],
                    Output(Of(w, d, d.joins[source].left).type, Collection), None, FALSE)
ScopeWithholdsNothing ==
    verdict \in {"schema", "ready"} /\ draft.status = "ready" /\ Issues(world, draft) = {}
            /\ (\A n \in DOMAIN draft.nodes : \A s \in DOMAIN draft.nodes[n].binds : FitsUnjoined(world, draft, n, s))
        => \A r \in DOMAIN draft.requests : draft.requests[r].capability \in DOMAIN contract.offers

(* "Validation now enforces exactly what the model was told the bound was": what the
   schema closes, validation never refuses; a draft that keeps to the schema fails
   only on what a schema cannot say. *)
Sayable ==
    {"unknown capability", "filter field", "group field", "aggregate", "sort field", "project field",
     "offset", "limit", "depth", "no condition", "component", "unbound slot", "unknown slot", "unknown child slot",
     "cardinality of a slot", "cardinality of a relationship", "unknown relationship",
     "too few inputs", "too many components"}
OfferIsHonoured == verdict = "invalid" => Issues(world, draft) \cap Sayable = {}

(* A plan that passed the schema and validation asks no list operation of what is not
   a list, and no limit one page of its source cannot hold. *)
ReadyRuns ==
    /\ outcome # "INVALID_QUERY"
    /\ verdict = "ready" =>
        \A r \in DOMAIN draft.requests :
            LET c == Of(world, draft, r) limit == draft.requests[r].query.limit
            IN limit # None /\ c.page # None => limit <= c.page

(* The worked examples, in every way to fill their brackets: each capability, component
   and relationship one of the contract's own.  A panel reads one source in every slot. *)
Blank ==
    [filter |-> None, group |-> {}, aggregates |-> {}, sort |-> {}, project |-> {}, offset |-> FALSE, limit |-> None]
Asking(c, query) == [capability |-> c, query |-> query]
Panels(k) == {p \in DOMAIN k.components : DOMAIN k.components[p].slots # {}}
Panel(k, p, source, under) ==
    [component |-> p, binds |-> [s \in DOMAIN k.components[p].slots |-> source], under |-> under]
Ready(requests, joins, nodes) ==
    [status |-> "ready", requests |-> requests, compositions |-> <<>>, joins |-> joins, nodes |-> nodes]
OneRequest(k) ==
    {Ready([r1 |-> Asking(c, [Blank EXCEPT !.limit = ExampleLimit])], <<>>, [n1 |-> Panel(k, p, "r1", None)]) :
        c \in DOMAIN k.offers, p \in Panels(k)}
Siblings(k) ==
    {Ready([r1 |-> Asking(a, Blank), r2 |-> Asking(b, Blank)], <<>>,
           [n1 |-> Panel(k, p, "r1", None), n2 |-> Panel(k, q, "r2", None)]) :
        a \in DOMAIN k.offers, b \in DOMAIN k.offers, p \in Panels(k), q \in Panels(k)}
AJoin(k) ==
    {Ready([left |-> Asking(a, Blank), right |-> Asking(b, Blank)],
           [j1 |-> [relationship |-> r, left |-> "left", right |-> "right"]], [n1 |-> Panel(k, p, "j1", None)]) :
        a \in DOMAIN k.offers, b \in DOMAIN k.offers, r \in k.relationships, p \in Panels(k)}
Nested(k) ==
    {Ready([r1 |-> Asking(c, Blank)], <<>>,
           [n1 |-> Panel(k, p, "r1", None), n2 |-> Panel(k, q, "r1", [node |-> "n1", slot |-> s])]) :
        c \in DOMAIN k.offers, p \in DOMAIN k.components, q \in DOMAIN k.components,
        s \in UNION {DOMAIN k.components[m].children : m \in DOMAIN k.components}}
AQuestion ==
    {[status |-> "needs-clarification", requests |-> <<>>, compositions |-> <<>>, joins |-> <<>>, nodes |-> <<>>]}
Example(k, shape) ==
    CASE shape = "one" -> OneRequest(k)
      [] shape = "siblings" -> Siblings(k)
      [] shape = "join" -> AJoin(k)
      [] shape = "children" -> Nested(k)
      [] shape = "question" -> AQuestion

(* What a model writes that follows an example, or counts what it is told it may. *)
CanFollow(k, shape) == \E d \in Example(k, shape) : Legal(k, d)
CanCount(w, k, c) ==
    \E g \in w.capabilities[c].group, op \in w.capabilities[c].ops, p \in Panels(k) :
        LET counting == [Blank EXCEPT !.group = {g}, !.aggregates = {[op |-> op, field |-> None, as |-> "n"]}]
        IN Legal(k, Ready([r1 |-> Asking(c, counting)], <<>>, [n1 |-> Panel(k, p, "r1", None)]))

(* "The model is never invited to ask for a limit one page can never hold": where a list
   is on offer, each example the prompt shows can be followed with its literals kept. *)
ExamplesCanBeFollowed ==
    contract # None /\ (\E c \in DOMAIN contract.offers : Listed(world.capabilities[c])) =>
        \A shape \in contract.taught : CanFollow(contract, shape)

(* Where anything is offered at all, what the prompt shows or says can be written under the
   schema beside it, but for two things, and those exactly where it cannot: the first
   example asks for ten rows even where no list on offer has that many in a page, and
   counting is called supported of a capability that returns no list. *)
TeachesWhatItTakes ==
    contract # None /\ draft = None /\ DOMAIN contract.offers # {} =>
        /\ \A shape \in contract.taught \ {"one"} : CanFollow(contract, shape)
        /\ CanFollow(contract, "one") <=>
            \E c \in DOMAIN contract.offers :
                Listed(world.capabilities[c]) /\ ExampleLimit <= LimitCeiling(world.capabilities[c])
        /\ \A c \in contract.counted : CanCount(world, contract, c) <=> Listed(world.capabilities[c])

(* Contract, schema and validation are three readings of one catalog, and agree. *)
ContractHolds == OfferIsHonoured /\ TeachesWhatItTakes

=============================================================================
