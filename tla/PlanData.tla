------------------------------- MODULE PlanData -------------------------------
(***************************************************************************)
(* What a plan asks for and what its panels show of the answers: the       *)
(* checks a plan passes before anything is fetched (core/src/validate.ts,  *)
(* planner/src/compose.ts, site-sdk/src/index.ts), set operations and      *)
(* joins over what came back (data-runtime/src/compose.ts and join.ts),    *)
(* the projection into panels, whole or while requests are still out       *)
(* (site-sdk/src/index.ts), and the plans made from an accepted one: a     *)
(* refined plan (server/src/refine.ts) and a pinned slice of a plan        *)
(* (server/src/slice.ts).                                                  *)
(*                                                                         *)
(* Both catalogs stay as they are here; ViewServer moves them.             *)
(***************************************************************************)
EXTENDS Naturals, FiniteSets, SequencesExt

CONSTANTS
    Capability,     \* id |-> [type, shape, supports, setOps, maximum]
    Fields,         \* data type |-> the semantic types of its fields
    Relationships,  \* id |-> [from, to, toOne]
    Slots,          \* component |-> slot |-> the set of what the slot accepts
    Surface,        \* the components registered on the surface
    MaxComponents,  \* surface.maxComponents
    MaxComposed,    \* maxComposedRows
    Content,        \* capability |-> the rows behind it
    Candidates,     \* plans a model may draft
    Limits,         \* limits a visitor may set
    MaxActs,        \* bound on what is done with the first plan
    None

Operations == {"union", "intersection", "difference"}
Clauses == {"filter", "sort", "group", "project"}
CollectionShapes == {"collection", "search-results", "media-collection"}

(* Only what returns a collection can be compiled as open to set operations. *)
ASSUME PlanDataAssumption ==
    /\ MaxComponents \in Nat /\ MaxComposed \in Nat /\ MaxActs \in Nat
    /\ Limits \subseteq Nat \ {0}
    /\ \A c \in DOMAIN Capability :
        /\ Capability[c].setOps \subseteq Operations
        /\ Capability[c].setOps # {} => Capability[c].shape \in CollectionShapes

(* A plan as it parses: functions by id, and no composition or join has the id of
   another source; a request is a capability and its query. *)
IsLimit(n) == n = None \/ n \in Nat \ {0}
IsRequest(r) == r = [capability |-> r.capability, clauses |-> r.clauses, limit |-> r.limit] /\ IsLimit(r.limit)
IsComposition(c) == c.inputs \in Seq(Range(c.inputs)) /\ IsLimit(c.limit)
SourcesApart(p) ==
    /\ DOMAIN p.compositions \cap DOMAIN p.requests = {}
    /\ DOMAIN p.joins \cap (DOMAIN p.requests \cup DOMAIN p.compositions) = {}
IsPlan(p) ==
    /\ p = [requests |-> p.requests, compositions |-> p.compositions, joins |-> p.joins, panels |-> p.panels]
    /\ p.requests = [r \in DOMAIN p.requests |-> p.requests[r]]
    /\ \A r \in DOMAIN p.requests : IsRequest(p.requests[r])
    /\ \A c \in DOMAIN p.compositions : IsComposition(p.compositions[c])
    /\ SourcesApart(p)
    /\ IsFiniteSet(DOMAIN p.panels) /\ DOMAIN p.panels # {}

ASSUME CandidatesAssumption == \A p \in Candidates : IsPlan(p)

(* A row: its match key, the key of another row, and a field to filter by.  None
   where a field is absent; `joined` is the related row a join brought in. *)
IsRow(row) == row = [id |-> row.id, ref |-> row.ref, open |-> row.open, joined |-> None]
NoKey(row) == [row EXCEPT !.id = None, !.ref = None]

ASSUME ContentAssumption ==
    \A c \in DOMAIN Capability :
        Content[c] \in Seq(Range(Content[c])) /\ \A row \in Range(Content[c]) : IsRow(row)

VARIABLES
    plan,       \* [requests, compositions, joins, panels]: functions by id, or None
    phase,      \* "idle", "executing", "shown" or "refused"
    streamed,   \* whether panels are drawn as requests settle
    settled,    \* request |-> [ok, list, rows, whole], of those that settled
    screen,     \* node |-> slot |-> [state, rows, complete]
    saved,      \* the plan of a saved view, or None
    acts        \* how often the first plan was refined, pinned or reopened

vars == <<plan, phase, streamed, settled, screen, saved, acts>>

Init ==
    /\ plan = None /\ saved = None
    /\ phase = "idle" /\ streamed = FALSE
    /\ settled = <<>> /\ screen = <<>>
    /\ acts = 0

-----------------------------------------------------------------------------
(* What the sources of a plan consume.  Every binding of a panel or of a component
   nested in it is a slot of the panel. *)

Bound(p, nodes) == UNION {Range(p.panels[n].binds) : n \in nodes}
Inputs(c) == Range(c.inputs)
Sides(j) == {j.left, j.right}
Consumed(p, bound) ==
    {r \in DOMAIN p.requests :
        \/ r \in bound
        \/ \E c \in bound \cap DOMAIN p.compositions : r \in Inputs(p.compositions[c])
        \/ \E j \in bound \cap DOMAIN p.joins : r \in Sides(p.joins[j])}
CapabilityOf(p, r) == Capability[p.requests[r].capability]

(* slotAcceptsOutput: some acceptance of the slot takes this data type in this shape.
   Fields a join adds count towards what is required; a time series is grouped as
   it comes. *)
Accepts(slot, type, shape, joined, grouped) ==
    \E a \in slot :
        /\ type \in a.types /\ shape \in a.shapes
        /\ a.requires \subseteq Fields[type] \cup joined
        /\ a.grouping => grouped \/ shape = "time-series"

(* validatePlanDataBindings, one binding: a composition has the type its inputs share
   and a join that of its left side, both delivered as a collection. *)
RequestFits(p, slot, r) ==
    LET c == CapabilityOf(p, r) IN
    Accepts(slot, c.type, c.shape, {}, "group" \in p.requests[r].clauses)
CompositionFits(p, slot, c) ==
    \A r \in Inputs(p.compositions[c]) :
        Accepts(slot, CapabilityOf(p, r).type, "collection", {}, FALSE)
JoinFits(p, slot, j) ==
    Accepts(slot, CapabilityOf(p, p.joins[j].left).type, "collection",
            Fields[CapabilityOf(p, p.joins[j].right).type], FALSE)
BindingFits(p, slot, source) ==
    \/ source \in DOMAIN p.requests /\ RequestFits(p, slot, source)
    \/ source \in DOMAIN p.compositions /\ CompositionFits(p, slot, source)
    \/ source \in DOMAIN p.joins /\ JoinFits(p, slot, source)

(* visitNode: a registered component of the surface, every slot of it bound. *)
PanelFits(p, panel) ==
    /\ panel.component \in Surface
    /\ DOMAIN panel.binds = DOMAIN Slots[panel.component]
    /\ \A s \in DOMAIN panel.binds : BindingFits(p, Slots[panel.component][s], panel.binds[s])

(* validateComposition: declared inputs of one type, each advertising the operation. *)
CompositionAllowed(p, c) ==
    /\ Len(c.inputs) >= 2
    /\ Inputs(c) \subseteq DOMAIN p.requests
    /\ \A r \in Inputs(c) : c.op \in CapabilityOf(p, r).setOps
    /\ \A r, q \in Inputs(c) : CapabilityOf(p, r).type = CapabilityOf(p, q).type

(* validateJoin: a declared to-one relationship between the types of two requests. *)
JoinAllowed(p, j) ==
    /\ Sides(j) \subseteq DOMAIN p.requests /\ j.left # j.right
    /\ j.relationship \in DOMAIN Relationships
    /\ Relationships[j.relationship].toOne
    /\ CapabilityOf(p, j.left).type = Relationships[j.relationship].from
    /\ CapabilityOf(p, j.right).type = Relationships[j.relationship].to

(* validateDataRequestQuery.  A projection may name any field of the type. *)
QueryAllowed(r) ==
    /\ r.clauses \ {"project"} \subseteq Capability[r.capability].supports
    /\ r.limit # None => r.limit <= Capability[r.capability].maximum

(* The checks every plan passes, and those only a plan from the model or a slice of
   one does: that nothing it declares goes unused. *)
Fits(p) ==
    /\ Cardinality(DOMAIN p.panels) <= MaxComponents
    /\ \A r \in DOMAIN p.requests : p.requests[r].capability \in DOMAIN Capability
    /\ \A r \in DOMAIN p.requests : QueryAllowed(p.requests[r])
    /\ \A c \in DOMAIN p.compositions : CompositionAllowed(p, p.compositions[c])
    /\ \A j \in DOMAIN p.joins : JoinAllowed(p, p.joins[j])
    /\ \A n \in DOMAIN p.panels : PanelFits(p, p.panels[n])
NothingUnused(p) ==
    LET bound == Bound(p, DOMAIN p.panels) IN
    /\ DOMAIN p.compositions \cup DOMAIN p.joins \subseteq bound
    /\ DOMAIN p.requests \subseteq Consumed(p, bound)
Accepted(p) == Fits(p) /\ NothingUnused(p)

-----------------------------------------------------------------------------
(* A slip: what a kept join or composition reads is dropped. *)
SliceBoundRequests(p, nodes) == Restrict(p.requests, DOMAIN p.requests \cap Bound(p, nodes))

(* slicePlanToNodes: the kept panels and the sources they consume. *)
SliceRequests(p, nodes) ==
    Restrict(p.requests, Consumed(p, Bound(p, nodes)))
Slice(p, nodes) ==
    LET bound == Bound(p, nodes) IN
    [p EXCEPT !.panels = Restrict(@, DOMAIN @ \cap nodes),
              !.compositions = Restrict(@, DOMAIN @ \cap bound),
              !.joins = Restrict(@, DOMAIN @ \cap bound),
              !.requests = SliceRequests(p, nodes)]

(* applyRefineOperations.  A panel is taken out alone: what it read stays asked for. *)
Without(p, n) == [p EXCEPT !.panels = Restrict(@, DOMAIN @ \ {n})]
Requery(p, r, request) == [p EXCEPT !.requests = [@ EXCEPT ![r] = request]]
With(p, r, clause) == Requery(p, r, [p.requests[r] EXCEPT !.clauses = @ \cup {clause}])
Unfiltered(p, r) == Requery(p, r, [p.requests[r] EXCEPT !.clauses = @ \ {"filter"}])
Limited(p, r, limit) == Requery(p, r, [p.requests[r] EXCEPT !.limit = limit])
RemovalsToNothing(p) == {Without(p, n) : n \in DOMAIN p.panels}    \* a slip: the only panel too
Removals(p) == IF Cardinality(DOMAIN p.panels) = 1 THEN {} ELSE {Without(p, n) : n \in DOMAIN p.panels}
Refined(p) ==
    Removals(p)
        \cup {With(p, r, clause) : r \in DOMAIN p.requests, clause \in {"filter", "sort"}}
        \cup {Unfiltered(p, r) : r \in DOMAIN p.requests}
        \cup {Limited(p, r, limit) : r \in DOMAIN p.requests, limit \in Limits}
QueriesAllowed(p) == \A r \in DOMAIN p.requests : QueryAllowed(p.requests[r])

-----------------------------------------------------------------------------
(* Executing a request (DataExecutor and QueryAnswer have the detail): it fails, or
   its rows are all there, or a budget cut them after the first, which marks them. *)

(* The rows at some places, in their order. *)
Those(rows, places) ==
    LET upTo[n \in 0 .. Len(rows)] ==
            IF n = 0 THEN <<>> ELSE IF n \in places THEN Append(upTo[n - 1], rows[n]) ELSE upTo[n - 1]
    IN  upTo[Len(rows)]
FirstOf(rows, n) == IF n = None \/ n > Len(rows) THEN rows ELSE SubSeq(rows, 1, n)
Queried(r, rows) ==
    LET kept == IF "filter" \in r.clauses THEN Those(rows, {i \in DOMAIN rows : rows[i].open}) ELSE rows
        sorted == IF "sort" \in r.clauses THEN Reverse(kept) ELSE kept
        cut == FirstOf(sorted, r.limit)
    IN  IF r.clauses \cap {"group", "project"} = {} THEN cut ELSE [i \in DOMAIN cut |-> NoKey(cut[i])]

Failure == [ok |-> FALSE, list |-> FALSE, rows |-> <<>>, whole |-> FALSE]
Whole(r) ==
    LET list == Capability[r.capability].shape # "entity"
        asList == r.clauses \subseteq {"project"} /\ r.limit = None
    IN  IF list \/ asList
        THEN [ok |-> TRUE, list |-> list, rows |-> Queried(r, Content[r.capability]), whole |-> TRUE]
        ELSE Failure    \* a list query over one entity
Cut(r) == [Whole(r) EXCEPT !.rows = FirstOf(@, 1), !.whole = FALSE]
Outcomes(r) ==
    {Failure, Whole(r)} \cup (IF Whole(r).list /\ Len(Whole(r).rows) > 1 THEN {Cut(r)} ELSE {})

(* asSuccessRows *)
Resolves(res) == res.ok /\ res.list
RowsOf(got) == [i \in DOMAIN got |-> IF Resolves(got[i]) THEN got[i].rows ELSE <<>>]
Arrived(c, answers) == [i \in DOMAIN c.inputs |-> answers[c.inputs[i]]]
Total(lists) == Len(FlattenSeq(lists))

(* keyOf: a row without the key is in no key set, and is left out of a result, which
   has the first row of each key that is wanted. *)
KeysOf(rows) == {rows[i].id : i \in DOMAIN rows} \ {None}
Once(rows, keys) ==
    Those(rows, {i \in DOMAIN rows : rows[i].id \in keys /\ \A k \in 1 .. i - 1 : rows[k].id # rows[i].id})
UnionRows(lists) == LET rows == FlattenSeq(lists) IN Once(rows, KeysOf(rows))
IntersectionRows(lists) ==
    Once(Head(lists), {k \in KeysOf(Head(lists)) : \A i \in 2 .. Len(lists) : k \in KeysOf(lists[i])})
DifferenceRows(lists) == Once(Head(lists), KeysOf(Head(lists)) \ UNION {KeysOf(lists[i]) : i \in 2 .. Len(lists)})
Merged(op, lists) ==
    CASE op = "union" -> UnionRows(lists)
      [] op = "intersection" -> IntersectionRows(lists)
      [] op = "difference" -> DifferenceRows(lists)

Composition(rows) == [code |-> "ok", rows |-> rows]
Failed(code) == [code |-> code, rows |-> <<>>]

(* composeOne.  Only a union is computed over the inputs that resolved. *)
Composable(p, c) ==
    /\ \A r \in Inputs(c) : CapabilityOf(p, r).shape \in CollectionShapes /\ c.op \in CapabilityOf(p, r).setOps
    /\ \A r, q \in Inputs(c) : CapabilityOf(p, r).type = CapabilityOf(p, q).type
InputMissing(op, got) ==
    IF op = "union" THEN \A i \in DOMAIN got : ~Resolves(got[i]) ELSE \E i \in DOMAIN got : ~Resolves(got[i])
ComposeOne(p, c, answers) ==
    LET got == Arrived(c, answers) IN
    IF ~Composable(p, c) THEN Failed("refused")
    ELSE IF InputMissing(c.op, got) THEN Failed("input failed")
    ELSE IF Total(RowsOf(got)) > MaxComposed THEN Failed("too large")
    ELSE Composition(FirstOf(Merged(c.op, RowsOf(got)), c.limit))

(* joinOne: each left row with the first right row its key names, if there is one. *)
Joinable(p, j) ==
    LET rel == Relationships[j.relationship] IN
    rel.toOne /\ CapabilityOf(p, j.left).type = rel.from /\ CapabilityOf(p, j.right).type = rel.to
Enriched(w, right) ==
    LET match == {i \in DOMAIN right : right[i].id = w.ref /\ w.ref # None} IN
    [w EXCEPT !.joined = IF match = {} THEN None ELSE w.ref]
JoinOne(p, j, answers) ==
    LET left == answers[j.left]
        right == answers[j.right]
    IN  IF ~Joinable(p, j) THEN Failed("refused")
        ELSE IF ~Resolves(left) \/ ~Resolves(right) THEN Failed("input failed")
        ELSE IF Len(left.rows) + Len(right.rows) > MaxComposed THEN Failed("too large")
        ELSE IF j.clash /\ left.rows # <<>> /\ KeysOf(right.rows) # {} THEN Failed("clash")
        ELSE Composition([i \in DOMAIN left.rows |-> Enriched(left.rows[i], right.rows)])

AllSettled(p, answers) == DOMAIN answers = DOMAIN p.requests

-----------------------------------------------------------------------------
(* projectPlanDataModel, one binding: writePending, a result, or the error. *)
PendingAsEmpty == [state |-> "empty", rows |-> <<>>, complete |-> FALSE]     \* a slip: what is out reads as nothing
Pending == [state |-> "pending", rows |-> <<>>, complete |-> FALSE]
Broken == [state |-> "error", rows |-> <<>>, complete |-> FALSE]
Drawn(rows, complete) ==
    [state |-> IF rows = <<>> THEN "empty" ELSE "ready", rows |-> rows, complete |-> complete]

(* A composed result carries its sources and freshness, and no mark of its inputs. *)
ComposedView(result) == IF result.code = "ok" THEN Drawn(result.rows, TRUE) ELSE Broken
RequestView(res) == IF res.ok THEN Drawn(res.rows, res.whole) ELSE Broken
(* executePlanData composes and joins once every request is in; until then what reads
   them is pending. *)
SourceView(p, answers, source) ==
    IF source \in DOMAIN p.compositions THEN ComposedView(ComposeOne(p, p.compositions[source], answers))
    ELSE ComposedView(JoinOne(p, p.joins[source], answers))
View(p, answers, source) ==
    IF source \in DOMAIN answers THEN RequestView(answers[source])
    ELSE IF source \notin DOMAIN p.requests /\ AllSettled(p, answers) THEN SourceView(p, answers, source)
    ELSE Pending
Projected(p, answers) ==
    [n \in DOMAIN p.panels |-> [s \in DOMAIN p.panels[n].binds |-> View(p, answers, p.panels[n].binds[s])]]

-----------------------------------------------------------------------------
Execute(p, stream) ==
    /\ plan' = p /\ streamed' = stream
    /\ phase' = "executing"
    /\ settled' = <<>>
    /\ screen' = IF stream THEN Projected(p, <<>>) ELSE screen

(* composeView: a drafted plan is refused, or executed, its panels drawn at once
   when the caller reads the event stream. *)
Compose(p, stream) ==
    /\ phase = "idle"
    /\ IF Accepted(p) THEN Execute(p, stream) /\ UNCHANGED <<saved, acts>>
       ELSE phase' = "refused" /\ UNCHANGED <<plan, streamed, settled, screen, saved, acts>>

(* onRequestSettled: what arrived is projected with the rest still pending. *)
Settle(r, res) ==
    /\ phase = "executing" /\ r \in DOMAIN plan.requests \ DOMAIN settled
    /\ res \in Outcomes(plan.requests[r])
    /\ settled' = [x \in DOMAIN settled \cup {r} |-> IF x = r THEN res ELSE settled[x]]
    /\ screen' = IF streamed /\ ~AllSettled(plan, settled') THEN Projected(plan, settled') ELSE screen
    /\ UNCHANGED <<plan, phase, streamed, saved, acts>>

(* The complete projection, after the compositions and the joins. *)
Show ==
    /\ phase = "executing" /\ AllSettled(plan, settled)
    /\ screen' = Projected(plan, settled)
    /\ phase' = "shown"
    /\ UNCHANGED <<plan, streamed, settled, saved, acts>>

Act == phase = "shown" /\ acts < MaxActs /\ acts' = acts + 1

(* refineComposedView: queries are checked again, bindings by the projection. *)
Refine(p) == Act /\ p \in Refined(plan) /\ QueriesAllowed(p) /\ Execute(p, FALSE) /\ UNCHANGED saved

(* saveComposedView: the whole plan, or a slice that passes the checks of a draft. *)
Save == Act /\ saved' = plan /\ UNCHANGED <<plan, phase, streamed, settled, screen>>
Pin(nodes) ==
    /\ Act /\ Accepted(Slice(plan, nodes))
    /\ saved' = Slice(plan, nodes)
    /\ UNCHANGED <<plan, phase, streamed, settled, screen>>

(* reopenSavedView *)
Reopen == Act /\ saved # None /\ Execute(saved, FALSE) /\ UNCHANGED saved

Next ==
    \/ \E p \in Candidates, stream \in BOOLEAN : Compose(p, stream)
    \/ phase = "executing" /\ \E r \in DOMAIN plan.requests : \E res \in Outcomes(plan.requests[r]) : Settle(r, res)
    \/ Show
    \/ phase = "shown" /\ \E p \in Refined(plan) : Refine(p)
    \/ Save
    \/ phase = "shown" /\ \E nodes \in (SUBSET DOMAIN plan.panels) \ {{}} : Pin(nodes)
    \/ Reopen

Spec == Init /\ [][Next]_vars

-----------------------------------------------------------------------------
(* A plan in hand has a panel, was answered only what it asked, and was executed no
   other way than its requests can answer. *)
TypeOK ==
    /\ phase \in {"idle", "executing", "shown", "refused"}
    /\ streamed \in BOOLEAN /\ acts \in 0 .. MaxActs
    /\ phase \in {"executing", "shown"} =>
        /\ IsPlan(plan) /\ Fits(plan)
        /\ DOMAIN settled \subseteq DOMAIN plan.requests
        /\ \A r \in DOMAIN settled : settled[r] \in Outcomes(plan.requests[r])
    /\ phase = "shown" => AllSettled(plan, settled) /\ DOMAIN screen = DOMAIN plan.panels
    /\ saved # None => IsPlan(saved) /\ Fits(saved)

(* Whatever was composed and refined before, and whichever panels of it are pinned,
   the slice passes every check a drafted plan does, asks for nothing its panels do
   not read, and its panels show of the same answers what they show now. *)
PinsStand ==
    phase = "shown" =>
        \A nodes \in (SUBSET DOMAIN plan.panels) \ {{}} :
            LET pin == Slice(plan, nodes) IN
            /\ Accepted(pin)
            /\ Projected(pin, Restrict(settled, DOMAIN pin.requests)) = Restrict(screen, nodes)

(* What a set operation is over sets of keys, of the inputs that resolved. *)
ReferenceKeys(c) ==
    LET keys(i) == KeysOf(settled[c.inputs[i]].rows) IN
    CASE c.op = "union" -> UNION {keys(i) : i \in {k \in DOMAIN c.inputs : Resolves(settled[c.inputs[k]])}}
      [] c.op = "intersection" -> {k \in keys(1) : \A i \in DOMAIN c.inputs : k \in keys(i)}
      [] c.op = "difference" -> keys(1) \ UNION {keys(i) : i \in DOMAIN c.inputs \ {1}}

(* A composed panel has each row of that set once, up to the limit, as some input has
   it, and an error only for an input it cannot do without or for the row budget:
   nothing that passed the plan's checks is refused by the composition itself. *)
InputsOf(c) == {settled[r] : r \in Inputs(c)}
Excused(c) ==
    \/ \E a \in InputsOf(c) : ~Resolves(a) /\ (c.op = "union" => \A b \in InputsOf(c) : ~Resolves(b))
    \/ Total([i \in DOMAIN c.inputs |-> settled[c.inputs[i]].rows]) > MaxComposed
CompositionExact(view, c) ==
    IF view.state = "error" THEN Excused(c)
    ELSE /\ KeysOf(view.rows) \subseteq ReferenceKeys(c)
         /\ LET n == Cardinality(ReferenceKeys(c)) IN
            Len(view.rows) = IF c.limit = None \/ c.limit > n THEN n ELSE c.limit
         /\ \A i, k \in DOMAIN view.rows : i # k => view.rows[i].id # view.rows[k].id
         /\ \A i \in DOMAIN view.rows : \E a \in InputsOf(c) : view.rows[i] \in Range(a.rows)

(* A joined panel has the left rows, all of them in order, each with the related row
   exactly where there is one. *)
JoinExact(view, j) ==
    LET left == settled[j.left]
        right == settled[j.right]
    IN  IF view.state = "error"
        THEN ~Resolves(left) \/ ~Resolves(right) \/ j.clash \/ Len(left.rows) + Len(right.rows) > MaxComposed
        ELSE /\ [i \in DOMAIN view.rows |-> [view.rows[i] EXCEPT !.joined = None]] = left.rows
             /\ \A i \in DOMAIN view.rows :
                    view.rows[i].joined = IF view.rows[i].ref \in KeysOf(right.rows) THEN view.rows[i].ref ELSE None

ComposedAsDefined ==
    phase = "shown" =>
        \A n \in DOMAIN screen : \A s \in DOMAIN screen[n] :
            LET source == plan.panels[n].binds[s] IN
            /\ source \in DOMAIN plan.compositions => CompositionExact(screen[n][s], plan.compositions[source])
            /\ source \in DOMAIN plan.joins => JoinExact(screen[n][s], plan.joins[source])

(* While a plan's answers stream in, a panel that has left "pending" is not redrawn:
   what was shown of it early is what the complete projection shows. *)
SettledPanelsStay ==
    [][plan' = plan /\ streamed /\ phase = "executing" =>
        \A n \in DOMAIN screen : \A s \in DOMAIN screen[n] :
            screen[n][s].state # "pending" => screen'[n][s] = screen[n][s]]_vars
=============================================================================
