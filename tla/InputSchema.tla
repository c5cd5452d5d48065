------------------------------ MODULE InputSchema ------------------------------
(***************************************************************************)
(* The arguments a planner may write: the schema compiled from the input   *)
(* types of a GraphQL field, narrowed by what a decisions file approves    *)
(* (inputSchemaFor and inputTypeJsonSchema, capability-catalog/src/        *)
(* graphql.ts).                                                            *)
(*                                                                         *)
(* A case is one field of a schema and the decisions on it:                *)
(*   types     t |-> [kind, values, fields], kind "scalar", "unmapped",    *)
(*             "enum" or "object"; fields a sequence of [name, type,       *)
(*             required]: list and nullability wrappers change no place    *)
(*   args      the sequence of [name, type, required] the field declares   *)
(*   visitor   the approved argument names                                 *)
(*   declared  approvedInputFields: paths <<argument, field, ...>>         *)
(*   excluded  excludeEnumValues: path |-> set of values                   *)
(*   cap       the page ceiling, or Missing, of the arguments in `pages`   *)
(* A compiled place is a leaf, an enum, an object or a reference to one.   *)
(***************************************************************************)
EXTENDS Naturals, FiniteSets, SequencesExt, TLC

CONSTANTS
    Cases,
    Missing,        \* no schema, no fault
    MaxPath         \* the longest path the properties look along

VARIABLES given, params     \* params: Missing until compiled
inputVars == <<given, params>>

-----------------------------------------------------------------------------
DeclaredOf(g, argument) == {d \in g.declared : Head(d) = argument}
IsNarrowed(g, argument) == DeclaredOf(g, argument) # {}
Deeper(g, path) == \E d \in g.declared : IsStrictPrefix(path, d)

Leaf == [kind |-> "leaf"]
EnumOf(values) == [kind |-> "enum", values |-> values]
Ref(name) == [kind |-> "ref", name |-> name]
ObjectOf(fields, required) == [kind |-> "object", fields |-> fields, required |-> required]

(* A recursive type is written once, under its name and the argument that narrows it. *)
TypeAlone(t, logical) == <<t>>                 \* a slip: two arguments share a definition
DefinitionName(t, logical) == <<t, Head(logical)>>

(* What the walk carries: what it wrote, what it referred to, which decisions it met, and
   the first fault. *)
Started == [node |-> Missing, definitions |-> <<>>, referenced |-> {}, reached |-> {}, enums |-> {}, fault |-> Missing]
Failed(walk, why) == [walk EXCEPT !.fault = why, !.node = Missing]

EnumWalk(g, t, path, walk) ==
    LET values == g.types[t].values IN
    IF path \notin DOMAIN g.excluded THEN [walk EXCEPT !.node = EnumOf(values)]
    ELSE LET out == g.excluded[path] IN
         CASE ~(out \subseteq values) -> Failed(walk, "unknown value")
           [] values \subseteq out -> Failed(walk, "every value")
           [] OTHER -> [walk EXCEPT !.node = EnumOf(values \ out), !.enums = @ \cup {path}]

(* inputTypeJsonSchema.  `path` is where the value is and `logical` the same without the
   fields that nest the type they live on, which is what approvals name. *)
RECURSIVE TypeWalk(_, _, _, _, _, _, _)
FieldWalk(g, t, within, path, logical, narrowed, walk, field) ==
    LET combinator == field.type = t
        key == IF combinator THEN logical ELSE Append(logical, field.name)
        decided == narrowed /\ ~combinator
        taken == [walk EXCEPT !.reached = IF decided THEN @ \cup ({key} \cap g.declared) ELSE @]
        below == TypeWalk(g, field.type, within \cup {t}, Append(path, field.name), key,
                          narrowed /\ (combinator \/ Deeper(g, key)), taken)
    IN  CASE walk.fault # Missing -> walk
          [] walk.fault = Missing /\ decided /\ key \notin g.declared /\ ~Deeper(g, key) ->
                IF field.required THEN Failed(walk, "prunes a required field") ELSE walk
          [] OTHER ->
                IF below.fault # Missing THEN below
                ELSE IF below.node = Missing
                THEN IF field.required THEN Failed(walk, "a required field is empty") ELSE [below EXCEPT !.node = walk.node]
                ELSE [below EXCEPT !.node =
                        ObjectOf((field.name :> below.node) @@ walk.node.fields,
                                 walk.node.required \cup (IF field.required THEN {field.name} ELSE {}))]
TypeWalk(g, t, within, path, logical, narrowed, walk) ==
    LET type == g.types[t]
        name == DefinitionName(t, logical)
        built == FoldLeft(LAMBDA w, field : FieldWalk(g, t, within, path, logical, narrowed, w, field),
                          [walk EXCEPT !.node = ObjectOf(<<>>, {})], type.fields)
    IN  CASE type.kind = "scalar" -> [walk EXCEPT !.node = Leaf]
          [] type.kind = "unmapped" -> Failed(walk, "unmapped scalar")
          [] type.kind = "enum" -> EnumWalk(g, t, path, walk)
          [] type.kind = "object" /\ t \in within -> [walk EXCEPT !.node = Ref(name), !.referenced = @ \cup {name}]
          [] OTHER ->
                IF built.fault # Missing THEN built
                ELSE IF built.node.fields = <<>> THEN [built EXCEPT !.node = Missing]
                ELSE IF name \in built.referenced
                THEN [built EXCEPT !.node = Ref(name), !.definitions = (name :> built.node) @@ @]
                ELSE built

(* argumentJsonSchema and inputSchemaFor: each approved argument in turn, then the
   decisions that met nothing. *)
ArgumentOf(g, name) == CHOOSE a \in Range(g.args) : a.name = name
Start(definitions, walk) == [walk EXCEPT !.node = Missing, !.referenced = {}, !.definitions = definitions]
ArgumentWalk(g, all, name) ==
    LET known == \E a \in Range(g.args) : a.name = name
        argument == ArgumentOf(g, name)
        walk == TypeWalk(g, argument.type, {}, <<name>>, <<name>>, IsNarrowed(g, name),
                         Start(all.walk.definitions, all.walk))
    IN  CASE all.walk.fault # Missing -> all
          [] all.walk.fault = Missing /\ ~known -> [all EXCEPT !.walk = Failed(@, "unknown argument")]
          [] OTHER ->
                IF walk.fault # Missing THEN [all EXCEPT !.walk = walk]
                ELSE IF walk.node = Missing THEN [all EXCEPT !.walk = Failed(@, "no expressible argument")]
                ELSE [walk |-> walk, properties |-> (name :> walk.node) @@ all.properties,
                      required |-> IF argument.required THEN all.required \cup {name} ELSE all.required]

Capped(g, properties) == IF g.cap = Missing THEN {} ELSE g.pages \cap DOMAIN properties
ParamsOf(g) ==
    LET all == FoldLeft(LAMBDA a, name : ArgumentWalk(g, a, name),
                        [walk |-> Started, properties |-> <<>>, required |-> {}], g.visitor)
        fault == CASE all.walk.fault # Missing -> all.walk.fault
                   [] ~(DOMAIN g.excluded \subseteq all.walk.enums) -> "no such enum"
                   [] ~(g.declared \subseteq all.walk.reached) -> "no such input field"
                   [] OTHER -> Missing
    IN  [fault |-> fault, properties |-> all.properties, required |-> all.required,
         definitions |-> all.walk.definitions, capped |-> Capped(g, all.properties)]

InputInit == given \in Cases /\ params = Missing
CompileInput == params = Missing /\ params' = ParamsOf(given) /\ UNCHANGED given

-----------------------------------------------------------------------------
(* What a compiled schema says of a value: the place a path of field names leads to. *)
Resolved(p, node) ==
    IF node # Missing /\ node.kind = "ref" THEN p.definitions[node.name] ELSE node
Under(p, node, name) ==
    LET at == Resolved(p, node) IN
    IF at # Missing /\ at.kind = "object" /\ name \in DOMAIN at.fields THEN at.fields[name] ELSE Missing
PlaceAt(p, path) ==
    IF Head(path) \notin DOMAIN p.properties THEN Missing
    ELSE Resolved(p, FoldLeft(LAMBDA node, name : Under(p, node, name), p.properties[Head(path)], Tail(path)))

(* The reference: the paths of the GraphQL types themselves, as far as MaxPath, each with
   its type, the types above it, and the place without the fields that nest their own
   type. *)
FieldsOfType(g, t) == IF g.types[t].kind = "object" THEN Range(g.types[t].fields) ELSE {}
Beneath(g, place) ==
    {[path |-> Append(place.path, f.name), type |-> f.type, above |-> place.above \cup {place.type},
      logical |-> IF f.type = place.type THEN place.logical ELSE Append(place.logical, f.name)] :
        f \in FieldsOfType(g, place.type)}
Roots(g) ==
    {[path |-> <<a.name>>, type |-> a.type, above |-> {}, logical |-> <<a.name>>] :
        a \in {b \in Range(g.args) : Contains(g.visitor, b.name)}}
Level(g, n) ==
    LET level[k \in 1 .. n] == IF k = 1 THEN Roots(g) ELSE UNION {Beneath(g, place) : place \in level[k - 1]}
    IN  level[n]
Places(g) == UNION {Level(g, n) : n \in 1 .. MaxPath}

(* A path is approved when its argument is not narrowed, or when it leads to, or lies
   within, one of the deepest declared paths. *)
Approved(g, logical) ==
    \/ ~IsNarrowed(g, Head(logical))
    \/ \E d \in g.declared : ~Deeper(g, d) /\ (IsPrefix(d, logical) \/ IsPrefix(logical, d))
ExcludedAt(g, logical) == IF logical \in DOMAIN g.excluded THEN g.excluded[logical] ELSE {}

(* A recursive type met at two places of one argument is written under one name, the
   later over the earlier. *)
OwnPlaces(g, t, argument) ==
    {place.logical : place \in {q \in Places(g) : q.type = t /\ t \notin q.above /\ Head(q.path) = argument}}
IsRecursive(g, t) == \E place \in Places(g) : place.type = t /\ t \in place.above
SharedDefinition(g) ==
    \E t \in DOMAIN g.types : \E a \in Range(g.args) :
        IsRecursive(g, t) /\ Cardinality(OwnPlaces(g, t, a.name)) > 1
NestsDirectly(g) ==
    \A place \in Places(g) : \A f \in FieldsOfType(g, place.type) : f.type \in place.above => f.type = place.type

(* What a planner may write into an approved argument is what the decisions approved, and
   all of it when types nest only themselves: at every depth, through every combinator,
   no path and no enum value beyond the decisions, every required field kept, and a page
   no larger than the cap.  Left out is a recursive type that two places of one argument
   share. *)
ParamsAreApproved ==
    (params # Missing /\ params.fault = Missing /\ ~SharedDefinition(given)) =>
        /\ \A place \in Places(given) :
            LET at == PlaceAt(params, place.path)
                approved == Approved(given, place.logical)
            IN  /\ at # Missing => approved
                /\ (approved /\ NestsDirectly(given)) => at # Missing
                /\ (at # Missing /\ at.kind = "enum") =>
                    /\ at.values \cap ExcludedAt(given, place.logical) = {}
                    /\ NestsDirectly(given) => at.values = given.types[place.type].values \ ExcludedAt(given, place.logical)
                /\ (at # Missing /\ at.kind = "object") =>
                    {f.name : f \in {q \in FieldsOfType(given, place.type) : q.required}} \subseteq at.required
        /\ {a.name : a \in {b \in Range(given.args) : b.required /\ Contains(given.visitor, b.name)}} \subseteq params.required
        /\ given.cap # Missing => given.pages \cap Range(given.visitor) \subseteq params.capped

=============================================================================
