----------------------------- MODULE GraphQlBinding -----------------------------
(***************************************************************************)
(* Who writes each argument of a capability's root field                   *)
(* (capability-catalog/src/graphql.ts): the plan, the session's identity,  *)
(* or the runtime, which writes the ordering, the filter and the page size *)
(* the plan stated in its query.  What compileApprovedGraphQlCatalog       *)
(* decides of it, and what a request to the binding then carries.          *)
(*                                                                         *)
(* A field is [args, envelope], where an argument is [kind, required,      *)
(* dialect], the dialect that of a filter input or Null, and the envelope  *)
(* is "connection", "told" or "untold" (a declared one, with or without a  *)
(* hasNextPageField) or Null.  Decisions are [visitor, identity, named,    *)
(* ordering, paging, size, supports, fields, required], with `named` the   *)
(* arguments that approvedInputFields reaches into and `size` the name of  *)
(* the envelope's own page size argument.                                  *)
(***************************************************************************)
EXTENDS FilterPushdown, FiniteSets

Written(argument) == IF argument = Null THEN {} ELSE {argument}

(* orderingPushdownFor: every declaration that would compile and then send something
   the upstream reads differently. *)
OrderingRefused(field, d) ==
    /\ d.ordering # Null
    /\ LET name == d.ordering.name IN
       \/ ~d.ordering.namesField
       \/ name \in d.visitor
       \/ name \notin DOMAIN field.args
       \/ field.args[name].required
       \/ field.args[name].kind \notin {"text", "texts"}
       \/ field.args[name].kind = "texts" /\ d.ordering.separator
(* Several terms need somewhere to put the second one. *)
OrderingPushdown(field, d) ==
    IF d.ordering = Null THEN Null
    ELSE [argument |-> d.ordering.name,
          several |-> d.ordering.separator \/ field.args[d.ordering.name].kind = "texts"]

(* pagingRoleFor *)
PagingRefused(field, d) == d.paging # Null /\ ~({d.paging} \subseteq d.visitor \cap DOMAIN field.args)
(* A required argument is the visitor's or the identity's, and never both. *)
Disowned(field, d) ==
    \/ \E a \in DOMAIN field.args : field.args[a].required /\ a \notin d.visitor \cup d.identity
    \/ d.visitor \cap d.identity # {}
    \/ ~(d.visitor \cup d.identity \subseteq DOMAIN field.args)
Compiles(field, d) == ~OrderingRefused(field, d) /\ ~PagingRefused(field, d) /\ ~Disowned(field, d)

-----------------------------------------------------------------------------
(* filterPushdownFor: the argument the filter is compiled into.  Between several the
   host's own statements decide, or nothing is pushed. *)
FilterFields(d) == IF d.supports # Null THEN d.supports ELSE d.fields
Reached(field, d, a) == DOMAIN field.args[a].dialect.fields \cap FilterFields(d)
FilterCandidates(field, d) ==
    {a \in DOMAIN field.args : field.args[a].dialect # Null /\ Reached(field, d, a) # {}}
OnlyOne(s) == CHOOSE a \in s : s = {a}
Single(s) == Cardinality(s) = 1
FilterArgument(field, d) ==
    LET all == FilterCandidates(field, d) IN
    IF Single(all) THEN OnlyOne(all)
    ELSE IF Single(all \cap d.named) THEN OnlyOne(all \cap d.named)
    ELSE IF Single(all \cap d.visitor) THEN OnlyOne(all \cap d.visitor)
    ELSE Null

(* One filtering vocabulary where one can do the job: an argument the plan may write
   itself is not compiled into, and where it reaches every field the derived default
   is withdrawn. *)
PushdownFor(field, d, a) ==
    [argument |-> a, dialect |->
        [field.args[a].dialect EXCEPT !.fields = [f \in Reached(field, d, a) |-> @[f]]]]
FilterPushdownOfAny(field, d) ==      \* a slip: though the plan may write it as well
    LET a == FilterArgument(field, d) IN IF a = Null THEN Null ELSE PushdownFor(field, d, a)
FilterPushdown(field, d) ==
    LET a == FilterArgument(field, d) IN
    IF a = Null \/ a \in d.visitor THEN Null ELSE PushdownFor(field, d, a)
Withdrawn(field, d) ==
    LET a == FilterArgument(field, d) IN
    /\ d.supports = Null
    /\ a # Null /\ a \in d.visitor /\ FilterFields(d) \subseteq Reached(field, d, a)

(* connectionPagingParams: the argument that carries the page size, if the host
   approved it. *)
PageSizeArgument(d) == IF d.paging # Null THEN d.paging ELSE d.size
Binding(field, d) ==
    [visitor |-> d.visitor, identity |-> d.identity, envelope |-> field.envelope,
     ordering |-> OrderingPushdown(field, d),
     filter |-> FilterPushdown(field, d),
     filterFields |-> IF Withdrawn(field, d) THEN {} ELSE FilterFields(d),
     size |-> IF PageSizeArgument(d) \in d.visitor THEN PageSizeArgument(d) ELSE Null,
     required |-> d.required]

-----------------------------------------------------------------------------
(* canPushOrdering, of an ordering by fields of the row itself. *)
CanPushOrdering(b, sort) == b.ordering # Null /\ sort # <<>> /\ (Len(sort) > 1 => b.ordering.several)
CanPushFilterOf(b, filter) == b.filter # Null /\ CanPushFilter(b.filter.dialect, filter)

(* orderingRequest and filterRequest: never over a value already present. *)
OrderingWritten(b, params, sort) ==
    IF CanPushOrdering(b, sort) /\ b.ordering.argument \notin params THEN b.ordering.argument ELSE Null
FilterWritten(b, params, filter) ==
    IF CanPushFilterOf(b, filter) /\ b.filter.argument \notin params THEN b.filter.argument ELSE Null

(* compileGraphQlOperation: a variable declared twice makes an invalid document. *)
Declarable(b, params, query) ==
    (Written(OrderingWritten(b, params, query.sort)) \cup Written(FilterWritten(b, params, query.filter)))
        \cap b.identity = {}
=============================================================================
