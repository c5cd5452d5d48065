----------------------------- MODULE FilterPushdown -----------------------------
(***************************************************************************)
(* A plan's filter, compiled into the filter argument of an upstream       *)
(* (capability-catalog/src/filter-pushdown.ts), beside what the same filter *)
(* means where it is evaluated here (data-runtime/src/query.ts).           *)
(*                                                                         *)
(* A filter is a tree, written as its nodes by their positions: the root   *)
(* is at <<>>, and part i of the group at p at Append(p, i).  A node is a  *)
(* condition [field, op, value] or a group [combine, parts] of so many     *)
(* parts.  A dialect says what the argument's input type publishes: for    *)
(* each field the operators, the null test, and, where the path crosses a  *)
(* list of related rows, the quantifiers; and for each combinator whether  *)
(* it is missing, takes one expression or takes a list.  What is sent is   *)
(* an expression at each of the same positions, and Selects is how an      *)
(* upstream reads it, without a third truth value.  How names and values   *)
(* are spelled is left out.                                                *)
(***************************************************************************)
EXTENDS Integers, SequencesExt

CONSTANTS
    MaxFilterDepth,     \* MAX_FILTER_DEPTH: groups within groups
    Null                \* what is absent

Condition(field, op, value) == [is |-> "condition", field |-> field, op |-> op, value |-> value]
Group(combine, parts) == [is |-> "group", combine |-> combine, parts |-> parts]

(* parseFilterNode *)
IsFilter(f) ==
    /\ <<>> \in DOMAIN f
    /\ \A p \in DOMAIN f : f[p].is \in {"condition", "group"}
    /\ \A p \in DOMAIN f : f[p].is = "group" =>
        /\ f[p].combine \in {"all", "any", "none"}
        /\ Len(p) < MaxFilterDepth
        /\ f[p].parts > 0 /\ \A i \in 1 .. f[p].parts : Append(p, i) \in DOMAIN f

FieldsIn(f) == {f[p].field : p \in {q \in DOMAIN f : f[q].is = "condition"}}

-----------------------------------------------------------------------------
(* matchesCondition.  A path that crosses a list reads to the list, here a set, and
   an empty one reads as no value at all. *)
Holds(op, x, value) ==
    CASE op = "eq" -> x = value
      [] op = "not-eq" -> x # value
      [] op = "in" -> x \in value
      [] op = "not-in" -> x \notin value
      [] op = "gte" -> x # Null /\ x >= value
      [] op = "lte" -> x # Null /\ x <= value
      [] op = "between" -> x # Null /\ value[1] <= x /\ x <= value[2]
      [] op = "is-null" -> x = Null
      [] op = "is-not-null" -> x # Null
Related(field) == field = "topics"
MatchesRelated(c, xs) ==
    CASE c.op \in {"eq", "in"} -> \E x \in xs : Holds(c.op, x, c.value)
      [] c.op \in {"not-eq", "not-in"} -> xs # {} /\ \A x \in xs : Holds(c.op, x, c.value)
      [] c.op = "is-null" -> xs = {}
      [] c.op = "is-not-null" -> xs # {}
      [] OTHER -> FALSE
Matches(c, row) ==
    IF Related(c.field) THEN MatchesRelated(c, row[c.field]) ELSE Holds(c.op, row[c.field], c.value)

(* evaluateGroup: what a combinator makes of its operands, each of which stands where
   all the positions in it do. *)
Combined(combine, operands, standing) ==
    CASE combine = "all" -> \A o \in operands : o \subseteq standing
      [] combine = "any" -> \E o \in operands : o \subseteq standing
      [] combine = "none" -> \A o \in operands : ~(o \subseteq standing)
Combining(combine, of) == [is |-> "combinator", combine |-> combine, of |-> of]
Under(p, of) == {{Append(p, i) : i \in s} : s \in of}
Each(group) == {{i} : i \in 1 .. group.parts}
(* Whether the root stands, given the positions of the conditions that do and what is
   combined at the others: one level of the tree after the other. *)
Stands(conditions, combining) ==
    LET standing[n \in 0 .. MaxFilterDepth] ==
            conditions \cup {p \in DOMAIN combining :
                n # 0 /\ Combined(combining[p].combine, Under(p, combining[p].of), standing[n - 1])}
    IN  <<>> \in standing[MaxFilterDepth]
Evaluates(f, row) ==
    Stands({p \in DOMAIN f : f[p].is # "group" /\ Matches(f[p], row)},
           [p \in {q \in DOMAIN f : f[q].is = "group"} |-> Combining(f[p].combine, Each(f[p]))])

-----------------------------------------------------------------------------
Leaf(field, op, value) == [is |-> "leaf", field |-> field, op |-> op, value |-> value]
Through(field, quantifier, leaf) ==
    [is |-> "relation", field |-> field, quantifier |-> quantifier, of |-> leaf]

(* How the upstream reads an expression: of a condition, and of all of them. *)
Reads(e, row) ==
    IF e.is = "leaf" THEN Holds(e.op, row[e.field], e.value)
    ELSE LET some == \E x \in row[e.field] : Holds(e.of.op, x, e.of.value) IN
         IF e.quantifier = "some" THEN some ELSE ~some
Selects(e, row) ==
    Stands({p \in DOMAIN e : e[p].is # "combinator" /\ Reads(e[p], row)},
           [p \in {q \in DOMAIN e : e[q].is = "combinator"} |-> e[p]])

(* leafOperator: a null test carries its meaning in its value, and a range is a pair. *)
LeafOperator(vocabulary, c, op) ==
    CASE op \in {"is-null", "is-not-null"} ->
            IF vocabulary.nullTest THEN Leaf(c.field, op, Null) ELSE Null
      [] op = "between" ->
            IF {"gte", "lte"} \subseteq vocabulary.operators THEN Leaf(c.field, op, c.value) ELSE Null
      [] OTHER -> IF op \in vocabulary.operators THEN Leaf(c.field, op, c.value) ELSE Null

(* EXISTENTIAL_OPERATORS: what an operator asks of one of the related rows. *)
Existential(op) ==
    CASE op \in {"eq", "not-eq"} -> "eq"
      [] op \in {"in", "not-in"} -> "in"
      [] OTHER -> Null
Negated(op) == op \in {"not-eq", "not-in"}

(* nestThroughRelations: the negation of an existential, on the relation where it has
   a quantifier for it, else at the root. *)
NestThroughRelations(d, v, c, leaf) ==
    IF ~Negated(c.op) THEN Through(c.field, "some", leaf)
    ELSE IF v.none THEN Through(c.field, "none", leaf)
    ELSE IF d.combinators.none = Null THEN Null
    ELSE Through(c.field, "not some", leaf)

ConditionValue(d, c) ==
    IF c.field \notin DOMAIN d.fields THEN Null
    ELSE LET v == d.fields[c.field]
             op == IF Related(c.field) THEN Existential(c.op) ELSE c.op
             leaf == IF op = Null THEN Null ELSE LeafOperator(v, c, op)
         IN  IF leaf = Null \/ ~Related(c.field) THEN leaf ELSE NestThroughRelations(d, v, c, leaf)

(* groupValue.  Several parts under a combinator that takes one expression are nested
   under the dialect's own "all", and of these one that takes one has the first. *)
Nested(d, group) == {IF d.combinators.all = "list" THEN 1 .. group.parts ELSE {1}}
GroupValue(d, group) ==
    LET takes == d.combinators[group.combine]
        several == takes = "one" /\ group.parts > 1
    IN  IF group.combine = "all" /\ group.parts = 1 THEN Combining("all", Each(group))
        ELSE IF takes = Null \/ (several /\ d.combinators.all = Null) THEN Null
        ELSE Combining(group.combine, IF several THEN Nested(d, group) ELSE Each(group))
NodeValue(d, node) == IF node.is = "condition" THEN ConditionValue(d, node) ELSE GroupValue(d, node)
Rendered(d, f) ==
    LET e == [p \in DOMAIN f |-> NodeValue(d, f[p])] IN
    IF \E p \in DOMAIN e : e[p] = Null THEN Null ELSE e

(* canPushFilter *)
CanPushFilter(d, f) == d # Null /\ f # Null /\ Rendered(d, f) # Null
=============================================================================
