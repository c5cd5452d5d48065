----------------------------- MODULE GraphQlCatalog -----------------------------
(***************************************************************************)
(* How a GraphQL schema becomes a catalog of capabilities                  *)
(* (capability-catalog/src/graphql.ts, decisions.ts, bin/catalog.mjs): what*)
(* discovery finds under each root field, the inventory of it, the         *)
(* candidate decisions, and the comparison of decisions with an inventory. *)
(* The compile is GraphQlCompile; who calls them, and in which order, is   *)
(* CatalogReview.  Operators only.                                         *)
(*                                                                         *)
(* A schema has types by name and a sequence of roots.  A field is         *)
(* [name, type, list, needs, meaning], where `needs` says that it has a    *)
(* required argument; a root is [name, type, list, args, described] and an *)
(* argument [name, required, scalars, identity], the last whether its name *)
(* reads like an identity.  A path is a sequence of field names.  Input    *)
(* types are in InputSchema; ordering, paging and filter arguments in      *)
(* GraphQlBinding.                                                         *)
(***************************************************************************)
EXTENDS CatalogDefinition

CONSTANTS
    MaxFields,      \* GRAPHQL_APPROVAL_LIMITS.maximumSelectedFields
    MaxLevels       \* GRAPHQL_APPROVAL_LIMITS.maximumSelectionDepth

Unknown == "unknown"
Id == <<"id">>

ASSUME GraphQlCatalogAssumption == MaxFields \in Nat \ {0} /\ MaxLevels \in Nat \ {0}

FieldsOf(s, t) == s.types[t].fields
Names(s, t) == {f.name : f \in Range(FieldsOf(s, t))}
FieldNamed(s, t, n) == CHOOSE f \in Range(FieldsOf(s, t)) : f.name = n
IsComposite(s, t) == s.types[t].kind \in {"object", "interface"}
IsLeaf(s, t) == s.types[t].kind \in {"leaf", "custom"}
Root(s, n) == CHOOSE r \in Range(s.roots) : r.name = n

(* What GraphQL makes sure of: its names are unique, its fields are of types there are, and
   only objects and interfaces have any. *)
IsSchema(s) ==
    /\ None \notin DOMAIN s.types
    /\ \A t \in DOMAIN s.types :
        /\ NamesOnce(FieldsOf(s, t)) /\ (FieldsOf(s, t) # <<>> => IsComposite(s, t))
        /\ \A f \in Range(FieldsOf(s, t)) : f.type \in DOMAIN s.types
        /\ s.types[t].implementedBy \subseteq DOMAIN s.types
    /\ NamesOnce(s.roots)
    /\ \A r \in Range(s.roots) : r.type \in DOMAIN s.types /\ NamesOnce(r.args)

(* relayConnectionInfo: the node type of a connection, by its structure. *)
Connection(s, t) ==
    IF /\ IsComposite(s, t) /\ "edges" \in Names(s, t)
       /\ FieldNamed(s, t, "edges").list
       /\ IsComposite(s, FieldNamed(s, t, "edges").type)
       /\ "node" \in Names(s, FieldNamed(s, t, "edges").type)
       /\ IsComposite(s, FieldNamed(s, FieldNamed(s, t, "edges").type, "node").type)
    THEN FieldNamed(s, FieldNamed(s, t, "edges").type, "node").type
    ELSE None

(* assertListEnvelopeDeclaration: `rows` is the field declared to hold the rows. *)
EnvelopeAllowed(s, r, rows) ==
    /\ Connection(s, r.type) = None
    /\ IsComposite(s, r.type) /\ rows \in Names(s, r.type)
    /\ FieldNamed(s, r.type, rows).list /\ IsComposite(s, FieldNamed(s, r.type, rows).type)
HasEnvelope(s, r, rows) == rows # None \/ Connection(s, r.type) # None
RowType(s, r, rows) ==
    IF rows # None THEN FieldNamed(s, r.type, rows).type
    ELSE IF Connection(s, r.type) # None THEN Connection(s, r.type) ELSE r.type

(* inferResultShape: a root of one number is no supported root, and a time series is
   told by its fields; neither is told apart here. *)
SuggestedShape(s, r) == IF Connection(s, r.type) # None \/ r.list THEN "collection" ELSE "entity"

-----------------------------------------------------------------------------
(* discoverOutputFields: every way down from a row, to a leaf on offer or to the entry
   of the ledger that says why it ends.  Paths are read from the type they start at. *)

Cuts(names, reason) == {[path |-> <<n>>, reason |-> reason] : n \in names}
Found(offered, cut) == [offered |-> offered, cut |-> cut]
ImplementationOnly(s, t) ==
    IF s.types[t].kind = "interface"
    THEN (UNION {Names(s, i) : i \in s.types[t].implementedBy}) \ Names(s, t) ELSE {}

Ends(s, f) == f.needs \/ ~IsComposite(s, f.type)
Leaf(f) == Found(<<[path |-> <<f.name>>, type |-> f.type, meaning |-> f.meaning]>>, {})
EndUnrecorded(s, f) ==     \* a slip: a field with a required argument leaves no entry
    IF f.needs THEN Found(<<>>, {})
    ELSE IF IsLeaf(s, f.type) THEN Leaf(f)
    ELSE Found(<<>>, Cuts({f.name}, "union"))
End(s, f) ==
    IF f.needs THEN Found(<<>>, Cuts({f.name}, "required-argument"))
    ELSE IF IsLeaf(s, f.type) THEN Leaf(f)
    ELSE Found(<<>>, Cuts({f.name}, "union"))
Below(n, found) ==
    Found([i \in DOMAIN found.offered |-> [found.offered[i] EXCEPT !.path = <<n>> \o @]],
          {[c EXCEPT !.path = <<n>> \o @] : c \in found.cut})

(* One level: what there is to find along each field of a type. *)
Level(s, t, above, found) ==
    IF t \in above THEN Found(<<>>, Cuts(Names(s, t), "recursion"))
    ELSE Found(FlattenSeq([i \in DOMAIN found |-> found[i].offered]),
               Cuts(ImplementationOnly(s, t), "interface-implementation")
                    \cup UNION {found[i].cut : i \in DOMAIN found})
Walk(s, t, depth) ==     \* at a type, down to a depth, with the types it came through
    LET walk[w \in (0 .. depth) \X (DOMAIN s.types) \X (SUBSET DOMAIN s.types)] ==
            LET fields == FieldsOf(s, w[2])
                along(f) == IF Ends(s, f) THEN End(s, f)
                            ELSE Below(f.name, walk[<<w[1] - 1, f.type, w[3] \cup {w[2]}>>])
            IN  IF w[1] = 0 THEN Found(<<>>, Cuts(Names(s, w[2]), "depth"))
                ELSE Level(s, w[2], w[3], [i \in DOMAIN fields |-> along(fields[i])])
    IN  walk[<<depth, t, {}>>]

(* listGraphQlQueries, one root. *)
Discovered(s, r, rows, depth) ==
    IF IsComposite(s, r.type) THEN Walk(s, RowType(s, r, rows), depth) ELSE Found(<<>>, {})
Supported(s, r, rows, depth) == Discovered(s, r, rows, depth).offered # <<>>
Paths(offered) == [i \in DOMAIN offered |-> offered[i].path]

-----------------------------------------------------------------------------
(* The `inventory` command.  What it proposes for a root is computed before the
   declared envelopes are applied, and createGraphQlCatalogInventory applies them. *)
Given(f, n, else) == IF n \in DOMAIN f THEN f[n] ELSE else
Chosen(s, o) == Only(s.roots, {r \in Range(s.roots) : r.name \in o.wanted /\ Supported(s, r, None, o.depth)})
Selection(s, r, o) ==
    [field |-> r.name,
     purpose |-> r.name \in o.purposes \/ r.described,
     dataType |-> IF Connection(s, r.type) # None THEN Connection(s, r.type) ELSE r.name,
     about |-> r.name,
     shape |-> Given(o.shapes, r.name, SuggestedShape(s, r)),
     rows |-> Given(o.envelopes, r.name, None),
     matchKey |-> IF Id \in Range(Paths(Discovered(s, r, None, o.depth).offered)) THEN Id ELSE None,
     scalars |-> o.scalars, told |-> <<>>]

(* createGraphQlCatalogInventory; the hash stands for what it is taken of. *)
ReviewHash(schema, selections, depth) == <<schema, selections, depth>>
Review(s, sel, depth) ==
    [found |-> Discovered(s, Root(s, sel.field), sel.rows, depth), args |-> Root(s, sel.field).args]
InventoryOf(s, selections, depth) ==
    [schema |-> s, depth |-> depth, selections |-> selections,
     hash |-> ReviewHash(s, selections, depth),
     reviews |-> [i \in DOMAIN selections |-> Review(s, selections[i], depth)]]
SelectionsFor(s, o) == LET chosen == Chosen(s, o) IN [i \in DOMAIN chosen |-> Selection(s, chosen[i], o)]
Inventoriable(s, selections, depth) ==
    /\ selections # <<>>
    /\ \A sel \in Range(selections) :
        /\ sel.rows # None => EnvelopeAllowed(s, Root(s, sel.field), sel.rows)
        /\ Supported(s, Root(s, sel.field), sel.rows, depth)
Capabilities(inv) == {sel.field : sel \in Range(inv.selections)}
ReviewOf(inv, n) == inv.reviews[CHOOSE i \in DOMAIN inv.selections : inv.selections[i].field = n]
OfferedBy(inv, n) == ReviewOf(inv, n).found.offered

-----------------------------------------------------------------------------
(* selectWithinBudget: a field of the row by itself, the leaves of one nested object
   together, shallowest first, passing over what no longer fits. *)
Together(p, q) == p = q \/ (Len(p) > 1 /\ Len(q) > 1 /\ Front(p) = Front(q))
Firsts(offered) ==      \* the first of each group
    {offered[i] : i \in {k \in DOMAIN offered : \A j \in 1 .. k - 1 : ~Together(offered[j].path, offered[k].path)}}
GroupOf(offered, f) == Only(offered, {g \in Range(offered) : Together(g.path, f.path)})
ByLevel(offered) ==     \* shallowest first, and as discovered within a level
    FlattenSeq([level \in 1 .. MaxLevels |-> Only(offered, {f \in Firsts(offered) : Len(f.path) = level})])
TakeWithinBudget(offered, budget) ==      \* a slip: of a group what fits of it
    LET firsts == ByLevel(offered)
        kept[k \in 0 .. Len(firsts)] ==
            IF k = 0 THEN <<>>
            ELSE LET more == kept[k - 1] \o GroupOf(offered, firsts[k]) IN
                 SubSeq(more, 1, IF Len(more) > budget THEN budget ELSE Len(more))
    IN  kept[Len(firsts)]
SelectWithinBudget(offered, budget) ==
    LET firsts == ByLevel(offered)
        kept[k \in 0 .. Len(firsts)] ==
            IF k = 0 THEN <<>>
            ELSE LET group == GroupOf(offered, firsts[k]) IN
                 IF Len(kept[k - 1]) + Len(group) > budget THEN kept[k - 1] ELSE kept[k - 1] \o group
    IN  kept[Len(firsts)]

(* The `candidate` command: everything discovered that one capability may hold. *)
Longest(paths) ==
    LET lengths == {1} \cup {Len(p) : p \in Range(paths)} IN CHOOSE most \in lengths : \A n \in lengths : n <= most
CandidateFields(offered) ==
    LET eligible == Only(offered, {f \in Range(offered) : Len(f.path) <= MaxLevels})
        kept == SelectWithinBudget(eligible, MaxFields)
    IN  IF Len(eligible) <= MaxFields THEN Paths(eligible) ELSE Paths(Only(eligible, Range(kept)))
CandidateEntry(sel, review) ==
    LET fields == CandidateFields(review.found.offered) IN
    [capability |-> sel.field,
     args |-> Only(<<"first", "after">>, {a.name : a \in Range(review.args)}),
     identity |-> {}, session |-> TRUE, shape |-> None,
     fields |-> fields,
     required |-> IF Contains(fields, Id) THEN <<Id>> ELSE <<>>,
     levels |-> Longest(fields),
     count |-> IF fields = <<>> THEN 1 ELSE Len(fields)]
Candidate(inv) ==
    [hash |-> inv.hash, meanings |-> <<>>,
     queries |-> [i \in DOMAIN inv.selections |-> CandidateEntry(inv.selections[i], inv.reviews[i])]]

-----------------------------------------------------------------------------
(* diffGraphQlDecisions.  Meanings the reviewer decided are keyed by root and path. *)
Approves(d) == {q.capability : q \in Range(d.queries)}
Gone(inv, d) == Approves(d) \ Capabilities(inv)
New(inv, d) == Capabilities(inv) \ Approves(d)
MissingIn(inv, q) == Range(q.fields) \ Range(Paths(OfferedBy(inv, q.capability)))
NeedsAnyMeaningIn(inv, d, q) ==     \* a slip: whatever the entry approves
    {f.path : f \in {g \in Range(OfferedBy(inv, q.capability)) :
        g.meaning = Unknown /\ <<q.capability, g.path>> \notin DOMAIN d.meanings}}
NeedsMeaningIn(inv, d, q) ==
    {f.path : f \in {g \in Range(OfferedBy(inv, q.capability)) :
        Contains(q.fields, g.path) /\ g.meaning = Unknown /\ <<q.capability, g.path>> \notin DOMAIN d.meanings}}
Kept(inv, d) == {q \in Range(d.queries) : q.capability \in Capabilities(inv)}
Affected(inv, d) == Gone(inv, d) # {} \/ \E q \in Kept(inv, d) : MissingIn(inv, q) # {}
MustDecide(inv, d) == Affected(inv, d) \/ \E q \in Kept(inv, d) : NeedsMeaningIn(inv, d, q) # {}
Bound(inv, d) == d.hash = inv.hash

(* rebindGraphQlDecisions and migrateGraphQlDecisions. *)
Rebindable(inv, d) == ~Bound(inv, d) /\ ~Affected(inv, d)
Rebound(inv, d) == [d EXCEPT !.hash = inv.hash]
RowRelative(p) == IF Len(p) > 2 /\ SubSeq(p, 1, 2) = <<"edges", "node">> THEN SubSeq(p, 3, Len(p)) ELSE p
RowRelatives(paths) == [i \in DOMAIN paths |-> RowRelative(paths[i])]
Migrated(d) ==
    [d EXCEPT !.queries = [i \in DOMAIN d.queries |->
        [d.queries[i] EXCEPT !.fields = RowRelatives(@), !.required = RowRelatives(@)]]]

=============================================================================
