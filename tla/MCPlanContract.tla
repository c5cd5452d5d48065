--------------------------- MODULE MCPlanContract ---------------------------
EXTENDS PlanContract, InputSchema

(* Posts filtered by their author, two filters over one type, a type met at two places,
   two types that nest each other, and an input with a required field. *)
ScalarType == [kind |-> "scalar", values |-> {}, fields |-> <<>>]
InputField(name, type) == [name |-> name, type |-> type, required |-> FALSE]
InputType(fields) == [kind |-> "object", values |-> {}, fields |-> fields]
InputTypes ==
    [Int |-> ScalarType, Text |-> ScalarType, Money |-> [ScalarType EXCEPT !.kind = "unmapped"],
     State |-> [ScalarType EXCEPT !.kind = "enum", !.values = {"open", "shut"}],
     Match |-> InputType(<<InputField("eq", "Text"), InputField("ne", "Text")>>),
     Person |-> InputType(<<InputField("OR", "Person"), InputField("name", "Match"), InputField("state", "State")>>),
     Post |-> InputType(<<InputField("AND", "Post"), InputField("title", "Match"), InputField("author", "Person")>>),
     Pair |-> InputType(<<InputField("author", "Person"), InputField("editor", "Person")>>),
     Shop |-> InputType(<<InputField("stock", "Stock"), InputField("state", "State")>>),
     Stock |-> InputType(<<InputField("count", "Int"), InputField("shop", "Shop")>>),
     Key |-> InputType(<<[InputField("id", "Text") EXCEPT !.required = TRUE], InputField("note", "Text")>>),
     Price |-> InputType(<<InputField("least", "Money"), InputField("state", "State")>>)]

GivenOf(args, visitor) ==
    [types |-> InputTypes, args |-> args, visitor |-> visitor, declared |-> {}, excluded |-> <<>>, cap |-> Missing, pages |-> {"first", "last"}]
Bases ==
    {GivenOf(<<InputField("where", "Post"), InputField("first", "Int")>>, <<"where", "first">>),
     GivenOf(<<InputField("where", "Person"), InputField("not", "Person")>>, <<"where", "not">>),
     GivenOf(<<InputField("where", "Pair")>>, <<"where">>),
     GivenOf(<<InputField("where", "Shop")>>, <<"where">>),
     GivenOf(<<InputField("where", "Key"), [InputField("sort", "State") EXCEPT !.required = TRUE]>>, <<"where", "sort">>),
     GivenOf(<<InputField("where", "Price")>>, <<"where">>),
     GivenOf(<<InputField("where", "Text")>>, <<"where", "gone">>)}
Declarable(g) ==
    {place.logical : place \in {q \in Places(g) : Len(q.logical) > 1}} \cup {<<"where", "gone">>, <<"gone", "id">>}
Excludable(g) ==
    {<<>>, <<"where", "gone">> :> {"open"}}
        \cup {place.path :> values : place \in {q \in Places(g) : Len(q.path) <= 3 /\ g.types[q.type].kind = "enum"},
                                     values \in {{"open"}, {"open", "shut"}, {"lost"}}}
UpToTwo(S) == {{}} \cup {{a, b} : a \in S, b \in S}
MCCases ==
    UNION {{[g EXCEPT !.declared = declared, !.excluded = excluded, !.cap = cap] :
                declared \in UpToTwo(Declarable(g)), excluded \in Excludable(g), cap \in {Missing, 2}} : g \in Bases}
------------------------------------------------------------------------------
VARIABLE tool     \* "plan" or "params": what the run looks at

(* Capabilities of orders, shops and one summary row; each world is one of them beside
   what the surface can show. *)
Capability(type, shape) ==
    [type |-> type, shape |-> shape, filter |-> {}, source |-> {}, group |-> {}, ops |-> {},
     sort |-> {}, paging |-> FALSE, setOps |-> {}, maximum |-> None, page |-> None]
Rich(type) ==
    [Capability(type, "collection") EXCEPT !.filter = {"total", "state"}, !.source = {"state"}, !.group = {"state"},
        !.ops = {"count", "sum"}, !.sort = {"total"}, !.paging = TRUE, !.maximum = 3, !.page = 2]
Plain(type) == [Capability(type, "search-results") EXCEPT !.filter = {"total", "state"}, !.page = 4]
Joined(type) == [Capability(type, "collection") EXCEPT !.setOps = {"union"}]
Row(type) == [Capability(type, "entity") EXCEPT !.sort = {"total"}, !.group = {"state"}, !.ops = {"count"}]

FieldKinds ==
    [Order |-> [total |-> "money", state |-> "status"],
     Shop |-> [state |-> "status", mail |-> "email"]]
Edge(from, to, toOne) == [from |-> from, to |-> to, toOne |-> toOne]

Taking(shape) == [type |-> None, shapes |-> {shape}, requires |-> {}, least |-> 0, grouping |-> FALSE]
Named(type, shapes) == [Taking("collection") EXCEPT !.type = type, !.shapes = shapes]
Component(slots, children, instances) == [slots |-> slots, children |-> children, instances |-> instances]
Frame == Component(<<>>, [body |-> [one |-> TRUE, accepts |-> {"table"}]], None)
Tables ==
    {{Taking("collection"), Taking("search-results")}, {Named("Order", {"collection", "entity"})},
     {[Taking("collection") EXCEPT !.grouping = TRUE], [Taking("entity") EXCEPT !.grouping = TRUE]},
     {[Taking("collection") EXCEPT !.requires = {"email"}]}, {[Taking("collection") EXCEPT !.least = 3]}}

World(one, two, edges, table, most, allowed) ==
    [capabilities |-> [c1 |-> one, c2 |-> two],
     fields |-> FieldKinds, listed |-> {<<"Order", "state">>}, relationships |-> edges,
     components |-> [table |-> Component([rows |-> table], <<>>, None),
                     metric |-> Component([value |-> {Taking("entity"), Taking("time-series")}], <<>>, 1),
                     frame |-> Frame],
     surface |-> [allowed |-> allowed, most |-> most]]
MCWorlds ==
    {World(one, two, edges, table, most, allowed) :
        one \in {Rich("Order"), Plain("Order"), Joined("Order"), Row("Order")},
        two \in {Joined("Order"), Row("Shop"), Joined("Shop"), Capability("Shop", "time-series")},
        edges \in {<<>>, [e1 |-> Edge("Order", "Shop", TRUE)], [e1 |-> Edge("Order", "Shop", FALSE)]},
        table \in Tables, most \in {None, 1, 2}, allowed \in {{"table"}, {"table", "metric", "frame"}}}

Query == Blank
Condition(f, operator, declared) == [field |-> f, operator |-> operator, declared |-> declared]
Filter(conditions, depth, leaves, widest) ==
    [conditions |-> conditions, depth |-> depth, leaves |-> leaves, widest |-> widest]
Filters ==
    {Filter({Condition(f, operator, declared)}, 1, 1, 1) :
        f \in {"total", "state", "mail"}, operator \in {"eq", "gt", "contains", "is-null"}, declared \in BOOLEAN}
        \cup {Filter({Condition("total", "gt", TRUE)}, depth, leaves, widest) :
                depth \in 1 .. 3, leaves \in 1 .. 3, widest \in 1 .. 3}
        \cup {Filter({}, 1, 0, 0)}
Sum(op, f, as) == [op |-> op, field |-> f, as |-> as]
Aggregated ==
    {[Query EXCEPT !.aggregates = {Sum(op, f, as)}, !.group = group, !.sort = sort, !.project = project] :
        op \in {"count", "sum"}, f \in {None, "total", "state"}, as \in {"total", "n"},
        group \in {{}, {"state"}, {"total"}}, sort \in {{}, {"total"}, {"n"}}, project \in {{}, {"n"}}}
Queries ==
    {[Query EXCEPT !.filter = f] : f \in Filters} \cup Aggregated
        \cup {[Query EXCEPT !.sort = sort, !.project = project, !.offset = offset, !.limit = limit] :
                sort \in {{}, {"total"}, {"mail"}}, project \in {{}, {"state"}, {"total", "mail"}},
                offset \in BOOLEAN, limit \in {None, 1, 2, 3, 4, 6}}

Request(c, q) == [capability |-> c, query |-> q]
Node(k, binds, under) == [component |-> k, binds |-> binds, under |-> under]
Draft(status, requests, compositions, joins, nodes) ==
    [status |-> status, requests |-> requests, compositions |-> compositions, joins |-> joins, nodes |-> nodes]
Table(source) == Node("table", [rows |-> source], None)
One(c, q) == Draft("ready", [r1 |-> Request(c, q)], <<>>, <<>>, [n1 |-> Table("r1")])
Pair == [r1 |-> Request("c1", Query), r2 |-> Request("c2", Query)]
MCDrafts ==
    {Draft(status, <<>>, <<>>, <<>>, <<>>) : status \in {"unsupported", "needs-clarification"}}
        \cup {One("c1", q) : q \in Queries}
        \cup {One("c2", [Query EXCEPT !.limit = limit]) : limit \in {None, 1}}
        \cup {Draft("ready", [r1 |-> Request(c, Query)], <<>>, <<>>, nodes) :
                c \in {"c1", "c2"},
                nodes \in {[n1 |-> Node("metric", [value |-> "r1"], None)],
                           [n1 |-> Node("metric", [value |-> "r1"], None), n2 |-> Node("metric", [value |-> "r1"], None)],
                           [n1 |-> Table("r1"), n2 |-> Table("r1")], [n1 |-> Table("gone")],
                           [n1 |-> Node("table", <<>>, None)],
                           [n1 |-> Node("frame", <<>>, None), n2 |-> Node("table", [rows |-> "r1"], [node |-> "n1", slot |-> "body"])],
                           [n1 |-> Node("frame", <<>>, None), n2 |-> Node("metric", [value |-> "r1"], [node |-> "n1", slot |-> "body"])],
                           [n1 |-> Table("r1"), n2 |-> Node("table", [rows |-> "r1"], [node |-> "n1", slot |-> "body"])]}}
        \cup {Draft("ready", Pair, [x1 |-> [op |-> op, inputs |-> inputs]], <<>>, [n1 |-> Table("x1")]) :
                op \in {"union", "difference"}, inputs \in {{"r1"}, {"r1", "r2"}, {"r1", "gone"}}}
        \cup {Draft("ready", Pair, <<>>, [j1 |-> [relationship |-> "e1", left |-> left, right |-> right]], [n1 |-> Table("j1")]) :
                left \in {"r1", "r2"}, right \in {"r1", "r2"}}
        \cup {Draft("ready", Pair, <<>>, <<>>, [n1 |-> Table("r1"), n2 |-> Table("r2")]),
              Draft("ready", Pair, [r1 |-> [op |-> "union", inputs |-> {"r1", "r2"}]], <<>>, [n1 |-> Table("r1")])}

(* The parameters of a capability are compiled before, and apart from, the plans written
   against it. *)
ContractInit ==
    \/ tool = "plan" /\ Init /\ given = Missing /\ params = Missing
    \/ tool = "params" /\ InputInit
        /\ world = None /\ asked = FALSE /\ contract = None /\ draft = None /\ verdict = None /\ outcome = None
ContractNext ==
    /\ UNCHANGED tool
    /\ \/ tool = "plan" /\ Next /\ UNCHANGED inputVars
       \/ tool = "params" /\ CompileInput /\ UNCHANGED vars
ContractSpec == ContractInit /\ [][ContractNext]_<<tool, vars, inputVars>>
==============================================================================
