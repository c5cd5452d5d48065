------------------------------ MODULE MCPlanData ------------------------------
EXTENDS PlanData, SurfaceCompile

(* A table whose caption is the host's, a component of two slots, a figure, one whose
   paths lead through each other, and a group with a slot for one child and a slot for several. *)
Nothing == [p \in {} |-> Absent]
Leaf(paths, data) == [paths |-> paths, data |-> data, slots |-> Nothing, props |-> {"heading"}]
Many(ids) == [one |-> FALSE, accepts |-> ids]
MCDefinitions ==
    [table |-> Leaf([rows |-> <<"view", "rows">>, state |-> <<"view", "state">>, caption |-> <<"labels", "title">>],
                    {"rows"}),
     pair |-> Leaf([left |-> <<"left">>, right |-> <<"right">>, state |-> <<"state">>], {"left", "right"}),
     figure |-> Leaf([item |-> <<"view", "rows">>], {"item"}),
     tangled |-> Leaf([item |-> <<"view", "item">>, state |-> <<"view">>], {"item"}),
     group |-> [Leaf(Nothing, {}) EXCEPT
                  !.slots = [lead |-> [one |-> TRUE, accepts |-> {"table", "figure"}],
                             rest |-> Many({"table", "figure", "pair"})]]]
MCShape == [list |-> "collection", one |-> "entity", both |-> "composed"]
MCBase == (<<"labels", "title">> :> [value |-> "Orders", object |-> FALSE])

Came(rows, marks) == [ok |-> TRUE, rows |-> rows, marks |-> marks]
Failed0 == [ok |-> FALSE, rows |-> 0, marks |-> {}]
ListResults == {Absent, Failed0, Came(0, {}), Came(2, {"staleAt", "recordUrl"}), Came(2, {"truncated"}),
                Came(1, {"narrowedAfterFetch", "degradedFields"})}
OneResults == {Absent, Failed0, Came(0, {}), Came(1, {"staleAt"})}
BothResults == {Absent, Failed0, Came(0, {}), Came(2, {"partial"})}
Settled0 == [list |-> Came(2, {}), one |-> Came(1, {}), both |-> Came(1, {})]
MCResults ==
    {[Settled0 EXCEPT !.list = r, !.both = Came(2, {"partial"})] : r \in ListResults}
        \cup {[Settled0 EXCEPT !.one = r] : r \in OneResults}
        \cup {[Settled0 EXCEPT !.both = r, !.one = Absent] : r \in BothResults}

Bind(slot, source) == [slot |-> slot, source |-> source]
Node(component, binds, slots) == [component |-> component, binds |-> binds, slots |-> slots, props |-> {"heading"}]
Leaves ==
    {Node("table", <<Bind("rows", s)>>, <<>>) : s \in DOMAIN MCShape}
        \cup {Node("figure", <<Bind("item", "one")>>, <<>>), Node("figure", <<>>, <<>>),
              Node("tangled", <<Bind("item", "one")>>, <<>>),
              Node("pair", <<Bind("left", "list"), Bind("right", "list")>>, <<>>),
              Node("pair", <<Bind("left", "list"), Bind("right", "both")>>, <<>>),
              [Node("table", <<Bind("rows", "list")>>, <<>>) EXCEPT !.props = {"caption"}]}
Ids == {"b", "root", "labels", "7"}
Alone(id, x) == [nodes |-> id :> x, roots |-> <<id>>]
Beside(id, x, y) == [nodes |-> "a" :> x @@ id :> y, roots |-> <<"a", id>>]
Within(id, x, y, slots) ==
    [nodes |-> "g" :> Node("group", <<>>, slots) @@ "a" :> x @@ id :> y, roots |-> <<"g">>]
Nestings(id) ==
    {<<[name |-> "rest", children |-> <<"a", id>>]>>,
     <<[name |-> "lead", children |-> <<id>>], [name |-> "rest", children |-> <<"a">>]>>,
     <<[name |-> "lead", children |-> <<"a", id>>]>>}
MCPlans ==
    {<<Alone("a", x)>> : x \in Leaves}
        \cup {<<Beside(id, x, y)>> : id \in Ids, x \in Leaves, y \in Leaves}
        \cup UNION {{<<Within(id, x, y, slots)>> : slots \in Nestings(id)} : id \in Ids, x \in Leaves, y \in Leaves}
        \cup {<<Alone("a", x), Alone(id, y)>> : id \in {"a", "b"}, x \in Leaves, y \in Leaves}
MCViews ==
    {[plan |-> p, shown |-> 1, results |-> results, pendingAllowed |-> pending] :
        p \in MCPlans, results \in MCResults, pending \in BOOLEAN}
------------------------------------------------------------------------------
VARIABLE draws      \* "answers": what a plan's panels show; or "surface": how it is compiled for a browser

(* Orders and archived orders compose; an order names its shop, and one shop can be
   looked up by itself.  Monthly totals come grouped. *)
List(type, setOps, supports, maximum) ==
    [type |-> type, shape |-> "collection", setOps |-> setOps, supports |-> supports, maximum |-> maximum]
MCCapability ==
    [orders |-> List("Order", Operations, {"filter", "sort", "group"}, 3),
     archive |-> List("Order", {"union", "difference"}, {}, 2),
     shops |-> List("Shop", {}, {"sort"}, 3),
     shop |-> [List("Shop", {}, {}, 1) EXCEPT !.shape = "entity"]]
MCFields == [Order |-> {"money"}, Shop |-> {"email"}]
MCRelationships ==
    [placedAt |-> [from |-> "Order", to |-> "Shop", toOne |-> TRUE],
     places |-> [from |-> "Order", to |-> "Shop", toOne |-> FALSE]]

Acceptance(types, shapes, requires, grouping) ==
    [types |-> types, shapes |-> shapes, requires |-> requires, grouping |-> grouping]
MCSlots ==
    [table |-> [rows |-> {Acceptance({"Order", "Shop"}, {"collection"}, {}, FALSE),
                          Acceptance({"Shop"}, {"entity"}, {}, FALSE)}],
     contacts |-> [rows |-> {Acceptance({"Order", "Shop"}, {"collection"}, {"email"}, FALSE)}],
     chart |-> [rows |-> {Acceptance({"Order", "Shop"}, {"collection"}, {}, TRUE)}]]

Row(id, ref, open) == [id |-> id, ref |-> ref, open |-> open, joined |-> None]
MCContent ==
    [orders |-> <<Row(1, 7, TRUE), Row(2, 8, FALSE), Row(1, 7, TRUE)>>,
     archive |-> <<Row(2, 8, FALSE), Row(3, 9, TRUE)>>,
     shops |-> <<Row(7, None, TRUE), Row(8, None, FALSE)>>,
     shop |-> <<Row(7, None, TRUE)>>]

Request(c, clauses, limit) == [capability |-> c, clauses |-> clauses, limit |-> limit]
Asked ==
    [r1 : {Request("orders", {}, None), Request("orders", {"group"}, None), Request("archive", {}, None)},
     r2 : {Request("archive", {}, 2), Request("archive", {"project"}, None),
           Request("shops", {}, None), Request("shop", {}, None)}]
Some(op, inputs, limit) == [c1 |-> [op |-> op, inputs |-> inputs, limit |-> limit]]
Compositions ==
    {Some("union", <<"r1", "r2">>, None), Some("union", <<"r2", "r1">>, 1), Some("intersection", <<"r1", "r2">>, None),
     Some("difference", <<"r1", "r2">>, None), Some("difference", <<"r1", "r2", "r1">>, None)}
Joins ==
    {[j1 |-> [relationship |-> rel, left |-> "r1", right |-> "r2", clash |-> clash]] :
        rel \in DOMAIN MCRelationships, clash \in BOOLEAN}
Panel(component, source) == [component |-> component, binds |-> [rows |-> source]]
One(sources) == {[n1 |-> Panel(c, s)] : c \in DOMAIN MCSlots, s \in sources}
Two(sources) == {[n1 |-> Panel(c, s), n2 |-> Panel("table", "r2")] : c \in DOMAIN MCSlots, s \in sources}
Drafts(compositions, joins, panels) ==
    [requests : Asked, compositions : compositions, joins : joins, panels : panels]
MCCandidates ==
    Drafts({<<>>}, {<<>>}, Two({"r1", "c1"}))
        \cup Drafts(Compositions, {<<>>}, One({"c1"}) \cup Two({"c1"}))
        \cup Drafts({<<>>}, Joins, One({"j1"}) \cup Two({"j1"}))

DrawsInit ==
    \/ draws = "answers" /\ Init /\ view = Absent /\ compiled = Absent
    \/ draws = "surface" /\ Init /\ SurfaceInit
DrawsNext ==
    /\ UNCHANGED draws
    /\ \/ draws = "answers" /\ Next /\ UNCHANGED surfaceVars
       \/ draws = "surface" /\ CompileSurface /\ UNCHANGED vars
DrawsSpec == DrawsInit /\ [][DrawsNext]_<<draws, vars, surfaceVars>>

(* What reaches a visitor is what was computed: composed panels show the set they are
   defined as, and the compiled surface gives each panel its own sources' results. *)
DrawnAsDefined == ComposedAsDefined /\ SurfaceStands
==============================================================================
