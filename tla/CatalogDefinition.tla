---------------------------- MODULE CatalogDefinition ----------------------------
(***************************************************************************)
(* What the compiles of a GraphQL schema and of an OpenAPI document share  *)
(* (capability-catalog/src/compile.ts and the checks that graphql.ts and   *)
(* openapi.ts both make of a decisions file).                              *)
(***************************************************************************)
EXTENDS Naturals, FiniteSets, SequencesExt

CONSTANT None

ListShapes == {"collection", "search-results", "media-collection"}

(* The reasons a compile can have to refuse, in the order it looks for them. *)
Fault(why, fails) == IF fails THEN <<why>> ELSE <<>>

Repeats(list) == ~IsInjective(list)
IsUniqueSubset(list, allowed) == ~Repeats(list) /\ Range(list) \subseteq allowed

(* A list in which no name comes twice. *)
NamesOnce(list) == list \in Seq(Range(list)) /\ ~Repeats([i \in DOMAIN list |-> list[i].name])

(* The members of a list that are in S, in its order (filter). *)
Only(list, S) ==
    LET only[i \in 0 .. Len(list)] ==
            IF i = 0 THEN <<>> ELSE IF list[i] \in S THEN Append(only[i - 1], list[i]) ELSE only[i - 1]
    IN  IF list = <<>> THEN <<>> ELSE only[Len(list)]

=============================================================================
