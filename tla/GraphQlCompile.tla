----------------------------- MODULE GraphQlCompile -----------------------------
(***************************************************************************)
(* The compiles of a GraphQL schema (capability-catalog/src/graphql.ts):   *)
(* of an inventory and the decisions on it, and of a curated schema, whose *)
(* inventory and decisions are made up from the schema alone.  Both refuse *)
(* for the first of their reasons, or give a catalog.                      *)
(***************************************************************************)
EXTENDS GraphQlCatalog

-----------------------------------------------------------------------------
(* compileApprovedGraphQlCatalog: the first reason to refuse, in the code's order. *)

GraphQlRefusals ==
    {"file", "another schema", "edited inventory", "another inventory", "repeated capability", "unknown capability",
     "no entry", "visitor argument", "identity argument", "output field", "required field", "two owners", "purpose",
     "no owner", "depth", "count", "session", "one record", "no rows", "scalar", "conflicting data type",
     "match key", "meaning"}
CuratedRefusals == {"nothing supported", "stray decision", "identity argument", "nothing understood", "nothing fits"}
ASSUME GraphQlCompileAssumption == None \notin GraphQlRefusals \cup CuratedRefusals

RecordShapes == {"entity", "document"}

Entries(d, n) == Only(d.queries, {q \in Range(d.queries) : q.capability = n})
EntryFor(d, n) == Head(Entries(d, n))
ShapeFor(sel, q) == IF q.shape # None THEN q.shape ELSE sel.shape
OfferedAt(review, p) == CHOOSE f \in Range(review.found.offered) : f.path = p
Meaning(d, sel, review, p) ==
    Given(sel.told, p, Given(d.meanings, <<sel.field, p>>, OfferedAt(review, p).meaning))

(* A required argument has an owner: the visitor or the identity. *)
Owned(q) == Range(q.args) \cup q.identity
UnownedUnseen(root, q) == {}       \* a slip: nobody asks who owns a required argument
Unowned(root, q) == {a.name : a \in {b \in Range(root.args) : b.required}} \ Owned(q)

ScalarsOf(s, review, q) ==
    {f.type : f \in {g \in Range(review.found.offered) : Contains(q.fields, g.path) /\ s.types[g.type].kind = "custom"}}
        \cup UNION {a.scalars : a \in {b \in Range(review.args) : Contains(q.args, b.name)}}

EntryFaults(s, sel, review, q) ==
    LET root == Root(s, sel.field)
        args == {a.name : a \in Range(review.args)}
        rows == HasEnvelope(s, root, sel.rows)
    IN  Fault("visitor argument", ~IsUniqueSubset(q.args, args))
            \o Fault("identity argument", ~(q.identity \subseteq args))
            \o Fault("output field", ~IsUniqueSubset(q.fields, Range(Paths(review.found.offered))))
            \o Fault("required field", ~IsUniqueSubset(q.required, Range(q.fields)))
            \o Fault("two owners", Range(q.args) \cap q.identity # {})
            \o Fault("purpose", ~sel.purpose)
            \o Fault("no owner", Unowned(root, q) # {})
            \o Fault("depth", Longest(q.fields) > q.levels)
            \o Fault("count", Len(q.fields) > q.count)
            \o Fault("session", q.identity # {} /\ ~q.session)
            \o Fault("one record", rows /\ ShapeFor(sel, q) \in RecordShapes)
            \o Fault("no rows", sel.shape \in ListShapes /\ ~rows /\ ~root.list)
            \o Fault("scalar", ~(ScalarsOf(s, review, q) \subseteq sel.scalars))

(* What a selection says of its data type; two that name one type must agree. *)
DataType(s, d, sel, review, q) ==
    LET root == Root(s, sel.field) IN
    [row |-> RowType(s, root, sel.rows), about |-> sel.about, matchKey |-> sel.matchKey,
     listed |-> (root.list \/ HasEnvelope(s, root, sel.rows)) /\ ShapeFor(sel, q) \notin ListShapes,
     fields |-> [p \in Range(q.fields) |-> Meaning(d, sel, review, p)]]
TypeAt(s, inv, d, i) ==
    DataType(s, d, inv.selections[i], inv.reviews[i], EntryFor(d, inv.selections[i].field))
Conflicts(s, inv, d, i) ==
    \E k \in 1 .. i - 1 :
        /\ inv.selections[k].dataType = inv.selections[i].dataType
        /\ TypeAt(s, inv, d, k) # TypeAt(s, inv, d, i)

Parses(d) ==
    \A q \in Range(d.queries) : q.fields # <<>> /\ q.levels \in 1 .. MaxLevels /\ q.count \in 1 .. MaxFields
FileFaults(s, inv, d) ==
    Fault("file", ~Parses(d))
        \o Fault("another schema", s # inv.schema)
        \o Fault("edited inventory", inv.hash # ReviewHash(s, inv.selections, inv.depth))
        \o Fault("another inventory", ~Bound(inv, d))
        \o Fault("repeated capability", Len(d.queries) # Cardinality(Approves(d)))
        \o Fault("unknown capability", Gone(inv, d) # {})
SelectionFaults(s, inv, d, i) ==
    LET sel == inv.selections[i]
        own == EntryFaults(s, sel, inv.reviews[i], EntryFor(d, sel.field))
    IN  IF Entries(d, sel.field) = <<>> THEN <<"no entry">>
        ELSE IF own # <<>> THEN own
        ELSE Fault("conflicting data type", Conflicts(s, inv, d, i))
CatalogFaults(s, inv, d) ==
    LET entry(i) == EntryFor(d, inv.selections[i].field)
        key(i) == inv.selections[i].matchKey
    IN  Fault("match key", \E i \in DOMAIN inv.selections : key(i) # None /\ ~Contains(entry(i).fields, key(i)))
            \o Fault("meaning", \E i \in DOMAIN inv.selections : \E p \in Range(entry(i).fields) :
                                    Meaning(d, inv.selections[i], inv.reviews[i], p) = Unknown)
(* Of the selections, looked at in turn, the first that is refused ends the loop. *)
FirstRefused(s, inv, d) ==
    CHOOSE i \in DOMAIN inv.selections :
        SelectionFaults(s, inv, d, i) # <<>> /\ \A k \in 1 .. i - 1 : SelectionFaults(s, inv, d, k) = <<>>
Refusal(s, inv, d) ==
    LET file == FileFaults(s, inv, d) IN
    IF file # <<>> THEN Head(file)
    ELSE IF \E i \in DOMAIN inv.selections : SelectionFaults(s, inv, d, i) # <<>>
    THEN Head(SelectionFaults(s, inv, d, FirstRefused(s, inv, d)))
    ELSE LET catalog == CatalogFaults(s, inv, d) IN IF catalog # <<>> THEN Head(catalog) ELSE None

(* The bindings and data types of what compiles. *)
Compiled(s, inv, d) ==
    [schema |-> s, capabilities |->
        [n \in Capabilities(inv) |->
            LET i == CHOOSE k \in DOMAIN inv.selections : inv.selections[k].field = n
                sel == inv.selections[i]
                q == EntryFor(d, n)
            IN  [rows |-> sel.rows, purpose |-> sel.purpose, shape |-> ShapeFor(sel, q),
                 args |-> q.args, identity |-> q.identity, session |-> q.session,
                 fields |-> q.fields, required |-> q.required, scalars |-> sel.scalars,
                 dataType |-> sel.dataType, type |-> TypeAt(s, inv, d, i)]]]

-----------------------------------------------------------------------------
(* compileCuratedGraphQlCatalog: everything the schema can place, under shared limits,
   through the same inventory, decisions and compile. *)

CuratedMeaning(o, r, f) == Given(o.meanings, <<r.name, f.path>>, f.meaning)
CuratedRoots(s, o) == Only(s.roots, {r \in Range(s.roots) : Supported(s, r, None, o.depth)})
Understood(s, o, r) ==
    LET offered == Discovered(s, r, None, o.depth).offered IN
    Only(offered, {f \in Range(offered) : CuratedMeaning(o, r, f) # Unknown})
WithinLimits(s, o, r) ==
    LET fields == Paths(Understood(s, o, r)) IN ~(Len(fields) > o.count) /\ ~(Longest(fields) > o.levels)
IdentityUnseen(r) == FALSE     \* a slip: an argument that reads like an identity is left to the planner
ExposesIdentity(r) == \E a \in Range(r.args) : a.identity
AllWithinLimits(s, o, roots) == Only(roots, {r \in Range(roots) : WithinLimits(s, o, r)})
Included(s, o) == AllWithinLimits(s, o, CuratedRoots(s, o))

CuratedSelection(s, o, r) ==
    LET fields == Understood(s, o, r) IN
    [field |-> r.name, purpose |-> TRUE, dataType |-> r.name, about |-> r.name,
     shape |-> SuggestedShape(s, r), rows |-> None,
     matchKey |-> IF Contains(Paths(fields), Id) THEN Id ELSE None,
     scalars |-> o.scalars,
     told |-> [p \in Range(Paths(fields)) |->
                CuratedMeaning(o, r, CHOOSE f \in Range(fields) : f.path = p)]]
CuratedInventory(s, o) ==
    LET included == Included(s, o) IN
    InventoryOf(s, [i \in DOMAIN included |-> CuratedSelection(s, o, included[i])], o.depth)
CuratedEntry(s, o, r) ==
    LET fields == Paths(Understood(s, o, r)) IN
    [capability |-> r.name, args |-> [i \in DOMAIN r.args |-> r.args[i].name], identity |-> {},
     session |-> o.session, shape |-> None, fields |-> fields,
     required |-> IF Contains(fields, Id) THEN <<Id>> ELSE <<>>,
     levels |-> o.levels, count |-> o.count]
CuratedDecisions(s, o) ==
    LET included == Included(s, o) IN
    [hash |-> CuratedInventory(s, o).hash, meanings |-> <<>>,
     queries |-> [i \in DOMAIN included |-> CuratedEntry(s, o, included[i])]]
OverrideMatches(s, o, key) ==
    \E r \in Range(CuratedRoots(s, o)) : key[1] = r.name /\ key[2] \in Range(Paths(Discovered(s, r, None, o.depth).offered))
CuratedRefusal(s, o) ==
    LET roots == CuratedRoots(s, o)
        refused == Only(roots, {r \in Range(roots) : ExposesIdentity(r) \/ Understood(s, o, r) = <<>>})
    IN  CASE roots = <<>> -> "nothing supported"
          [] \E key \in DOMAIN o.meanings : ~OverrideMatches(s, o, key) \/ o.meanings[key] = Unknown -> "stray decision"
          [] refused # <<>> -> IF ExposesIdentity(Head(refused)) THEN "identity argument" ELSE "nothing understood"
          [] Included(s, o) = <<>> -> "nothing fits"
          [] OTHER -> Refusal(s, CuratedInventory(s, o), CuratedDecisions(s, o))

-----------------------------------------------------------------------------
(* What must hold of a catalog for the host to execute it: its fields can be selected
   from a row of its root and have a meaning, its required arguments have one owner,
   what depends on an identity asks for a session, and capabilities that deliver one
   data type deliver the same. *)
Into(s, t, n) ==
    IF t # None /\ IsComposite(s, t) /\ n \in Names(s, t) THEN FieldNamed(s, t, n).type ELSE None
Along(s, t, path) ==
    LET along[k \in 0 .. Len(path)] == IF k = 0 THEN t ELSE Into(s, along[k - 1], path[k]) IN along
Reached(s, t, path) == Along(s, t, path)[Len(path)]
Selectable(s, t, path) ==
    LET along == Along(s, t, path) IN
    /\ along[Len(path)] # None /\ IsLeaf(s, along[Len(path)])
    /\ \A k \in DOMAIN path : ~FieldNamed(s, along[k - 1], path[k]).needs
Executable(catalog) ==
    \A n \in DOMAIN catalog.capabilities :
        LET s == catalog.schema
            c == catalog.capabilities[n]
        IN  /\ c.purpose
            /\ \A p \in Range(c.fields) :
                /\ Selectable(s, RowType(s, Root(s, n), c.rows), p)
                /\ c.type.fields[p] # Unknown
            /\ c.type.matchKey # None => Contains(c.fields, c.type.matchKey)
            /\ \A a \in Range(Root(s, n).args) : a.required => ((a.name \in Range(c.args)) # (a.name \in c.identity))
            /\ c.identity # {} => c.session
            /\ \A m \in DOMAIN catalog.capabilities :
                catalog.capabilities[m].dataType = c.dataType => catalog.capabilities[m].type = c.type

=============================================================================
