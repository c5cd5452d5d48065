----------------------------- MODULE SurfaceCompile -----------------------------
(***************************************************************************)
(* From a plan and its results to what a browser draws                     *)
(* (packages/site-sdk/src/index.ts: projectPlanDataModel,                  *)
(* compilePlanDataSurfaceMessages): component records that name the paths  *)
(* they read, and one data model that holds what each path is to show.     *)
(* The two are built by separate walks over the same nodes.                *)
(*                                                                         *)
(* A path is a sequence of segments.  A data model is a function from the  *)
(* paths written to their values: a value tells its kind, and whether it   *)
(* is an object a longer path may go through.                              *)
(***************************************************************************)
EXTENDS Naturals, Sequences, SequencesExt, FiniteSets

CONSTANTS
    Definitions,    \* id |-> [paths : prop -> path, data : data slots, slots : slot -> [one, accepts], props]
    OnSurface,      \* the components the surface allows
    MaxNodes,       \* surface.maxComponents: top-level panels
    WellFormed,     \* the ids assertId lets pass
    Base,           \* the host's own data model
    Shape,          \* source |-> the shape of its result
    Absent,
    Views           \* what is compiled: plans with what their sources came to

VARIABLES view, compiled
surfaceVars == <<view, compiled>>

Companions == <<"state", "errorMessage", "sources", "asOf", "staleAt", "records", "completeness">>

(* defineComponent: with a single data slot every companion has a path, and no two
   props share one. *)
Register(d) ==
    IF Cardinality(d.data) = 1 THEN [d EXCEPT !.paths = @ @@ [p \in Range(Companions) |-> <<p>>]] ELSE d
Registrable(d) ==
    /\ d.data \subseteq DOMAIN d.paths
    /\ d.props \cap DOMAIN d.paths = {}
    /\ IsInjective(d.paths)
Component == [id \in DOMAIN Definitions |-> Register(Definitions[id])]
ASSUME SurfaceAssumption ==
    /\ OnSurface \subseteq DOMAIN Component /\ MaxNodes \in Nat \ {0}
    /\ \A id \in DOMAIN Component : Registrable(Component[id])

Owned(component) == component.data \cup Range(Companions)
Path(component, prop) == component.paths[prop]

-----------------------------------------------------------------------------
(* The nodes of a surface, in the order both walks meet them. *)
RECURSIVE Walk(_, _)
Walk(nodes, ids) ==
    FlattenSeq([i \in DOMAIN ids |->
        <<ids[i]>> \o FlattenSeq([k \in DOMAIN nodes[ids[i]].slots |-> Walk(nodes, nodes[ids[i]].slots[k].children)])])
InOrder(surface) == Walk(surface.nodes, surface.roots)

(* validatePlan, as far as the tree goes; each surface has its own node ids. *)
SlotFits(component, nodes, slot) ==
    /\ slot.name \in DOMAIN component.slots
    /\ component.slots[slot.name].one => Len(slot.children) <= 1
    /\ \A i \in DOMAIN slot.children : nodes[slot.children[i]].component \in component.slots[slot.name].accepts
NodeFits(nodes, id) ==
    LET node == nodes[id] IN
    /\ node.component \in DOMAIN Component
    /\ node.props \subseteq Component[node.component].props
    /\ \A i \in DOMAIN node.binds :
           node.binds[i].slot \in Component[node.component].data /\ node.binds[i].source \in DOMAIN Shape
    /\ \A i \in DOMAIN node.slots : SlotFits(Component[node.component], nodes, node.slots[i])
Validated(plan) ==
    \A s \in DOMAIN plan :
        /\ IsInjective(InOrder(plan[s]))
        /\ \A id \in DOMAIN plan[s].nodes : NodeFits(plan[s].nodes, id)

-----------------------------------------------------------------------------
(* What the paths of a bound slot are to hold.  A result is Absent while it is out. *)
CameIn(result) == result # Absent /\ result.ok
Empty(shape) ==
    CASE shape = "time-series" -> "{}"
      [] shape \in {"collection", "search-results", "media-collection", "composed"} -> "[]"
      [] OTHER -> "null"
DataOf(source, result) ==
    IF ~CameIn(result) THEN Empty(Shape[source])
    ELSE IF result.rows = 0 THEN Empty(Shape[source]) ELSE "data"
StateOf(result) ==
    IF result = Absent THEN "pending"
    ELSE IF ~result.ok THEN "error" ELSE IF result.rows = 0 THEN "empty" ELSE "ready"

(* writeProvenance: a failed or pending result leaves empty tags, never stale ones.
   The row count is that of a list; a composition that failed counts none. *)
Marked(result, mark) == CameIn(result) /\ mark \in result.marks
RowCount(source, result) ==
    IF Shape[source] = "composed" /\ result # Absent /\ ~result.ok THEN 0
    ELSE IF CameIn(result) /\ Empty(Shape[source]) = "[]" THEN result.rows ELSE Absent
Cuts == {"truncated", "narrowedAfterFetch", "degradedFields"}
Complete(result) == CameIn(result) /\ result.marks \cap Cuts = {}
Completeness(source, result) ==
    [complete |-> Complete(result), rowCount |-> RowCount(source, result),
     marks |-> IF CameIn(result) THEN result.marks \cap Cuts ELSE {}]
Tag(shown) == [is |-> IF shown THEN "named" ELSE ""]
Value(prop, slot, source, result) ==
    CASE prop = slot -> [is |-> DataOf(source, result)]
      [] prop = "state" -> [is |-> StateOf(result)]
      [] prop = "errorMessage" -> Tag(StateOf(result) = "error")
      [] prop \in {"sources", "asOf"} -> Tag(CameIn(result))
      [] prop = "staleAt" -> Tag(Marked(result, "staleAt"))
      [] prop = "records" -> Tag(Marked(result, "recordUrl"))
      [] prop = "completeness" -> Completeness(source, result)
Object(prop, slot, source, result) ==
    \/ prop = "completeness"
    \/ prop = slot /\ DataOf(source, result) = "{}"
    \/ prop = slot /\ DataOf(source, result) = "data" /\ Empty(Shape[source]) # "[]"

(* resultEnvelope, compositionEnvelope and joinEnvelope: the same once more, by source
   and without its rows.  What a composition leaves out is told here only. *)
EnvelopeState(source, result) ==
    CASE ~CameIn(result) -> IF result = Absent THEN "pending" ELSE "error"
      [] CameIn(result) -> IF DataOf(source, result) = "data" THEN "ready" ELSE "empty"
Envelope(source, result) ==
    [state |-> EnvelopeState(source, result),
     rowCount |-> IF CameIn(result) /\ Empty(Shape[source]) = "[]" THEN result.rows ELSE Absent,
     lacks |-> IF CameIn(result) THEN result.marks \cap {"partial", "hasUnmatchedRows"} ELSE {}]
Enveloped(results) ==
    [q \in {<<"__renderyes", s>> : s \in DOMAIN results} |->
        [value |-> Envelope(q[2], results[q[2]]), object |-> TRUE]]

-----------------------------------------------------------------------------
(* Where: a node's paths begin with its own id. *)
ScopedByComponent(node, id, path) == <<node.component>> \o path     \* a slip: a component's panels share
Scoped(node, id, path) == <<id>> \o path

(* setJsonPointer: nothing is written through a value that is no object, and what was
   under the path is replaced. *)
Blocked(model, path) == \E q \in DOMAIN model : IsStrictPrefix(q, path) /\ ~model[q].object
Put(model, path, entry) ==
    LET kept == {q \in DOMAIN model : ~IsPrefix(path, q)} IN
    [q \in kept \cup {path} |-> IF q = path THEN entry ELSE model[q]]

(* visitNode and write: one path has one value, from one source. *)
WritesOf(node, id, bind, results) ==
    LET component == Component[node.component]
        props == <<bind.slot>> \o SelectSeq(Companions, LAMBDA p : p \in DOMAIN component.paths)
        result == results[bind.source]
    IN  [i \in DOMAIN props |->
            [path |-> Scoped(node, id, Path(component, props[i])), source |-> bind.source,
             value |-> Value(props[i], bind.slot, bind.source, result),
             object |-> Object(props[i], bind.slot, bind.source, result)]]
NodeWrites(nodes, id, results) ==
    FlattenSeq([i \in DOMAIN nodes[id].binds |-> WritesOf(nodes[id], id, nodes[id].binds[i], results)])
SurfaceWrites(surface, results) ==
    LET order == InOrder(surface) IN
    FlattenSeq([i \in DOMAIN order |-> NodeWrites(surface.nodes, order[i], results)])

Conflict(written, w) == \E v \in written : v.path = w.path /\ (v.source # w.source \/ v.value # w.value)
Write(done, w) ==
    IF done = Absent THEN Absent
    ELSE IF Conflict(done.written, w) \/ Blocked(done.model, w.path) THEN Absent
    ELSE [written |-> done.written \cup {w},
          model |-> Put(done.model, w.path, [value |-> w.value, object |-> w.object])]

(* projectPlanDataModel: every surface of the plan is projected into the one model. *)
ModelOf(plan, results) ==
    FoldLeft(Write, [written |-> {}, model |-> Base @@ Enveloped(results)],
             FlattenSeq([s \in DOMAIN plan |-> SurfaceWrites(plan[s], results)]))
Settled(results, pendingAllowed) == pendingAllowed \/ \A s \in DOMAIN results : results[s] # Absent

-----------------------------------------------------------------------------
(* compileInstance: the record of one node.  Only the paths a projection writes are
   the node's own; every other is the host's, as registered. *)
Instance(nodes, id) ==
    LET node == nodes[id]
        component == Component[node.component]
        owned == DOMAIN component.paths \cap Owned(component)
    IN  [id |-> id,
         reads |-> [p \in DOMAIN component.paths |->
                       IF p \in owned THEN Scoped(node, id, Path(component, p)) ELSE Path(component, p)],
         children |-> FlattenSeq([k \in DOMAIN node.slots |-> node.slots[k].children])]
Compilable(node, id) ==
    /\ id \in WellFormed
    /\ node.component \in OnSurface
    /\ node.props \cap DOMAIN Component[node.component].paths = {}

(* compileSurfaceMessages, for the surface that is shown. *)
Root(surface) == [id |-> "root", reads |-> <<>>, children |-> surface.roots]
RecordsOf(surface) ==
    <<Root(surface)>> \o [i \in DOMAIN InOrder(surface) |-> Instance(surface.nodes, InOrder(surface)[i])]
Refused == [components |-> <<>>, model |-> <<>>]
Compile(v) ==
    LET surface == v.plan[v.shown]
        done == ModelOf(v.plan, v.results)
    IN  IF /\ Validated(v.plan) /\ Settled(v.results, v.pendingAllowed) /\ done # Absent
           /\ Len(surface.roots) \in 1 .. MaxNodes
           /\ \A id \in Range(InOrder(surface)) : Compilable(surface.nodes[id], id)
        THEN [components |-> RecordsOf(surface), model |-> done.model]
        ELSE Refused

SurfaceInit == view \in Views /\ compiled = Absent
CompileSurface == compiled = Absent /\ compiled' = Compile(view) /\ UNCHANGED view

-----------------------------------------------------------------------------
(* Two conditions nobody checks: a component's paths do not lead through each other,
   and a node's id is neither the root's nor a key of the host's own model. *)
Apart(component) ==
    \A p, q \in DOMAIN component.paths : ~IsStrictPrefix(component.paths[p], component.paths[q])
Free(plan) ==
    \A s \in DOMAIN plan : \A id \in DOMAIN plan[s].nodes :
        /\ Apart(Component[plan[s].nodes[id].component])
        /\ id # "root" /\ \A q \in DOMAIN Base : Head(q) # id

(* What a valid plan may still be refused for: too many panels, a node the surface
   does not allow or whose id is no identifier, a node id used on two surfaces, or
   two sources for one node's tags. *)
Contested(node) ==
    /\ Cardinality({node.binds[i].source : i \in DOMAIN node.binds}) > 1
    /\ Range(Companions) \cap DOMAIN Component[node.component].paths # {}
Refusable(v) ==
    \/ Len(v.plan[v.shown].roots) > MaxNodes
    \/ \E id \in DOMAIN v.plan[v.shown].nodes : ~Compilable(v.plan[v.shown].nodes[id], id)
    \/ \E s, t \in DOMAIN v.plan : s # t /\ DOMAIN v.plan[s].nodes \cap DOMAIN v.plan[t].nodes # {}
    \/ \E s \in DOMAIN v.plan : \E id \in DOMAIN v.plan[s].nodes :
           Contested(v.plan[s].nodes[id])

(* What each panel reads is there, is what its own source came to, and agrees with the
   summary of that source. *)
ReadsItsOwn(v, c) ==
    \A i \in DOMAIN c.components : c.components[i].id # "root" =>
        LET reads == c.components[i].reads
            binds == v.plan[v.shown].nodes[c.components[i].id].binds IN
        \A k \in DOMAIN binds : LET source == binds[k].source IN
            /\ \A p \in DOMAIN reads \cap ({binds[k].slot} \cup Range(Companions)) :
                   /\ reads[p] \in DOMAIN c.model
                   /\ c.model[reads[p]].value = Value(p, binds[k].slot, source, v.results[source])
            /\ "state" \in DOMAIN reads =>
                   c.model[reads["state"]].value.is = c.model[<<"__renderyes", source>>].value.state

(* The records are one tree: every one but the root is the child of exactly one. *)
ParentsOf(c, id) ==
    {<<i, k>> \in (1 .. Len(c.components)) \X (1 .. Len(c.components)) :
        k \in DOMAIN c.components[i].children /\ c.components[i].children[k] = id}
OneTree(c) ==
    \A i \in DOMAIN c.components : c.components[i].id # "root" => Cardinality(ParentsOf(c, c.components[i].id)) = 1

(* The two walks agree: whatever a plan's results came to, each panel of a surface
   that compiles reads what its own sources came to, the host's own data is as it
   was, and the records form one tree; and a plan that validates compiles, but for
   the reasons named. *)
SurfaceStands ==
    view # Absent /\ compiled # Absent /\ Free(view.plan) =>
        IF compiled = Refused
        THEN ~Validated(view.plan) \/ ~Settled(view.results, view.pendingAllowed) \/ Refusable(view)
        ELSE /\ ReadsItsOwn(view, compiled)
             /\ \A q \in DOMAIN Base : q \in DOMAIN compiled.model /\ compiled.model[q] = Base[q]
             /\ OneTree(compiled)
=============================================================================
