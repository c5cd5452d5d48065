----------------------------- MODULE CatalogReview -----------------------------
(***************************************************************************)
(* A host reviews a GraphQL API from the command line                      *)
(* (capability-catalog/bin/catalog.mjs): take an inventory of the schema,  *)
(* start from the candidate decisions, edit them, compare them with a      *)
(* newer inventory, migrate and re-bind them, and compile what is to be    *)
(* published, while the schema upstream moves on.  Or compile a curated    *)
(* catalog from the schema alone.  The files are the state.                *)
(***************************************************************************)
EXTENDS GraphQlCompile

CONSTANTS
    Schemas,            \* what the upstream's schema may be
    InventoryOptions,   \* [depth, scalars, wanted, shapes, purposes, envelopes]
    CuratedOptions,     \* [depth, levels, count, scalars, meanings, session]
    Shapes,             \* result shapes a reviewer may write
    OldDecisions,       \* decisions files kept from an earlier release
    MaxActs             \* bound on the commands and edits of a review

(* What a decisions file is made of, once it is read. *)
IsEntry(q) ==
    /\ {"capability", "fields", "required"} \subseteq DOMAIN q
    /\ q.fields \in Seq(Range(q.fields)) /\ q.required \in Seq(Range(q.required))
IsDecisions(d) ==
    /\ {"hash", "meanings", "queries"} \subseteq DOMAIN d
    /\ d.queries \in Seq(Range(d.queries)) /\ \A q \in Range(d.queries) : IsEntry(q)

ASSUME CatalogReviewAssumption ==
    /\ Schemas # {} /\ \A s \in Schemas : IsSchema(s)
    /\ \A o \in InventoryOptions \cup CuratedOptions : o.depth \in Nat
    /\ \A d \in OldDecisions : IsDecisions(d)
    /\ MaxActs \in Nat

VARIABLES
    schema,     \* the schema file
    inventory,  \* the inventory file, or None
    decisions,  \* the decisions file, or None
    artifact,   \* the last catalog compiled, or None
    acts

cliVars == <<schema, inventory, decisions, artifact, acts>>

CliInit ==
    /\ schema \in Schemas
    /\ inventory = None /\ artifact = None
    /\ decisions \in OldDecisions \cup {None}
    /\ acts = 0

-----------------------------------------------------------------------------
Act == acts < MaxActs /\ acts' = acts + 1

Upstream(s) == Act /\ s # schema /\ schema' = s /\ UNCHANGED <<inventory, decisions, artifact>>

TakeInventory(o) ==
    /\ Act /\ Inventoriable(schema, SelectionsFor(schema, o), o.depth)
    /\ inventory' = InventoryOf(schema, SelectionsFor(schema, o), o.depth)
    /\ UNCHANGED <<schema, decisions, artifact>>

(* The inventory is a file like the others, if one that is not to be edited. *)
EditInventory(i, shape) ==
    /\ Act /\ inventory' = [inventory EXCEPT !.selections[i].shape = shape]
    /\ UNCHANGED <<schema, decisions, artifact>>

(* With --schema the command compiles what it is about to write, and writes nothing
   that is refused. *)
TakeCandidate(check) ==
    /\ Act /\ inventory # None
    /\ check => Refusal(schema, inventory, Candidate(inventory)) = None
    /\ decisions' = Candidate(inventory)
    /\ UNCHANGED <<schema, inventory, artifact>>

(* What a reviewer does to an entry, with the inventory beside it. *)
Without(list, x) == Only(list, Range(list) \ {x})
Less(q, p) == [q EXCEPT !.fields = Without(@, p), !.required = Without(@, p)]
More(q, p) ==
    [q EXCEPT !.fields = Append(@, p), !.count = @ + 1, !.levels = IF Len(p) > @ THEN Len(p) ELSE @]
EntryEdits(q, review) ==
    {Less(q, p) : p \in Range(q.fields)}
        \cup {More(q, p) : p \in Range(Paths(review.found.offered))}
        \cup {[q EXCEPT !.args = Append(@, a.name)] : a \in Range(review.args)}
        \cup {[q EXCEPT !.identity = @ \cup {a.name}] : a \in Range(review.args)}
        \cup {[q EXCEPT !.shape = shape] : shape \in Shapes}
        \cup {[q EXCEPT !.session = FALSE], [q EXCEPT !.levels = 1]}
Dropped(d, i) == [d EXCEPT !.queries = RemoveAt(@, i)]
Rewritten(d, i, q) == [d EXCEPT !.queries[i] = q]
Decided(d, key, meaning) ==
    [d EXCEPT !.meanings = [k \in DOMAIN @ \cup {key} |-> IF k = key THEN meaning ELSE @[k]]]
Undecided(inv) ==
    {<<n, f.path>> : n \in Capabilities(inv), f \in {g \in UNION {Range(OfferedBy(inv, m)) : m \in Capabilities(inv)} :
        g.meaning = Unknown}}
Edits(inv, d) ==
    {Dropped(d, i) : i \in DOMAIN d.queries}
        \cup (UNION {{Rewritten(d, i, q) : q \in EntryEdits(d.queries[i], ReviewOf(inv, d.queries[i].capability))} :
                     i \in {k \in DOMAIN d.queries : d.queries[k].capability \in Capabilities(inv)}})
        \cup {Decided(d, key, meaning) : key \in Undecided(inv), meaning \in {"number", Unknown}}
EditDecisions ==
    /\ Act /\ inventory # None /\ decisions # None
    /\ decisions' \in Edits(inventory, decisions)
    /\ UNCHANGED <<schema, inventory, artifact>>

(* The `migrate` command, written back; with --inventory it also re-binds, or fails. *)
Migrate ==
    /\ Act /\ decisions # None /\ decisions' = Migrated(decisions)
    /\ UNCHANGED <<schema, inventory, artifact>>
MigrateAndRebind ==
    LET migrated == Migrated(decisions) IN
    /\ Act /\ inventory # None /\ decisions # None
    /\ Bound(inventory, migrated) \/ Rebindable(inventory, migrated)
    /\ decisions' = Rebound(inventory, migrated)
    /\ UNCHANGED <<schema, inventory, artifact>>

Compile ==
    /\ Act /\ inventory # None /\ decisions # None
    /\ Refusal(schema, inventory, decisions) = None
    /\ artifact' = Compiled(schema, inventory, decisions)
    /\ UNCHANGED <<schema, inventory, decisions>>

Curate(o) ==
    /\ Act /\ CuratedRefusal(schema, o) = None
    /\ artifact' = Compiled(schema, CuratedInventory(schema, o), CuratedDecisions(schema, o))
    /\ UNCHANGED <<schema, inventory, decisions>>

CliNext ==
    \/ \E s \in Schemas : Upstream(s)
    \/ \E o \in InventoryOptions : TakeInventory(o)
    \/ inventory # None /\ \E i \in DOMAIN inventory.selections : \E shape \in Shapes : EditInventory(i, shape)
    \/ \E check \in BOOLEAN : TakeCandidate(check)
    \/ EditDecisions
    \/ Migrate
    \/ MigrateAndRebind
    \/ Compile
    \/ \E o \in CuratedOptions : Curate(o)

CliSpec == CliInit /\ [][CliNext]_cliVars

-----------------------------------------------------------------------------
(* The ledger is total: whatever field one goes down to from a row, the way there meets
   exactly one leaf on offer or one entry that says why it ends, down to one level past
   the configured depth; and nothing is offered that cannot be selected. *)
Further(s, t, way) ==
    IF IsComposite(s, Reached(s, t, way)) THEN {Append(way, n) : n \in Names(s, Reached(s, t, way))} ELSE {way}
Ways(s, t, length) ==
    LET ways[k \in 0 .. length] == IF k = 0 THEN {<<>>} ELSE UNION {Further(s, t, way) : way \in ways[k - 1]}
    IN  ways[length]
LedgerTotal ==
    inventory # None /\ decisions = None =>
        \A n \in Capabilities(inventory) :
            LET s == inventory.schema
                sel == CHOOSE x \in Range(inventory.selections) : x.field = n
                t == RowType(s, Root(s, n), sel.rows)
                found == ReviewOf(inventory, n).found
            IN  /\ \A p \in Range(Paths(found.offered)) : Selectable(s, t, p)
                /\ \A way \in Ways(s, t, inventory.depth + 1) :
                        Cardinality({i \in DOMAIN found.offered : IsPrefix(found.offered[i].path, way)})
                            + Cardinality({c \in found.cut : IsPrefix(c.path, way)}) = 1

(* What `diff` says and what `compile` does agree, over an inventory nobody edited of
   the schema in hand: where it finds something to decide the compile refuses, and
   where it finds nothing the compile does not refuse for a field that is gone, a
   meaning nobody decided or another inventory. *)
InHand ==
    /\ inventory # None /\ decisions # None /\ inventory.schema = schema
    /\ inventory.hash = ReviewHash(schema, inventory.selections, inventory.depth)
DiffForetells ==
    InHand /\ Bound(inventory, decisions) =>
        LET why == Refusal(schema, inventory, decisions) IN
        IF MustDecide(inventory, decisions) THEN why # None
        ELSE /\ why \notin {"another inventory", "unknown capability"}
             /\ why = "no entry" => New(inventory, decisions) # {}
             /\ why = "output field" => \E q \in Range(decisions.queries) : Repeats(q.fields)
             /\ why = "meaning" => Unknown \in Range(decisions.meanings)

(* A candidate nobody has cut down holds what one capability may hold, in the order of
   the inventory, the leaves of a nested object all or none, and leaves nothing out that
   still fits; the compile refuses it only for what no tool may decide, or because of
   some capability nothing fits. *)
LeftToTheHost == {"purpose", "no owner", "one record", "no rows", "scalar", "conflicting data type", "match key", "meaning"}
InOrder(list, all) ==
    \A i, j \in DOMAIN list, k, m \in DOMAIN all : i < j /\ list[i] = all[k] /\ list[j] = all[m] => k < m
FillsBudget(fields, allowed) ==
    /\ Range(fields) \subseteq allowed /\ Len(fields) <= MaxFields
    /\ \A p, q \in allowed : Together(p, q) => (p \in Range(fields) <=> q \in Range(fields))
    /\ \A p \in allowed \ Range(fields) : Len(fields) + Cardinality({q \in allowed : Together(p, q)}) > MaxFields
CandidateStands ==
    InHand /\ decisions = Candidate(inventory) =>
        LET why == Refusal(schema, inventory, decisions)
            offered(i) == Paths(inventory.reviews[i].found.offered)
        IN  /\ \A i \in DOMAIN inventory.selections :
                /\ InOrder(decisions.queries[i].fields, offered(i))
                /\ FillsBudget(decisions.queries[i].fields, {p \in Range(offered(i)) : Len(p) <= MaxLevels})
            /\ why \in LeftToTheHost \cup {"file", None}
            /\ why = "file" => \E i \in DOMAIN inventory.selections : decisions.queries[i].fields = <<>>

(* A catalog that compiled can be executed and was decided: against the schema it was
   compiled over its fields can be selected and have a meaning, its required arguments
   have one owner, what depends on an identity asks for a session, and capabilities
   that deliver one data type deliver the same. *)
CompiledStands == artifact # None => Executable(artifact)

=============================================================================
