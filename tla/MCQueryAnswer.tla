------------------------------ MODULE MCQueryAnswer ------------------------------
EXTENDS QueryAnswer, TLC

CONSTANTS MaxRows, MaxSmall     \* rows of a collection, and of one in a varied case

Row(keys, topics) == [key : keys, tag : {1, 2}, topics : topics]
Collections(n, rows) == UNION {[1 .. m -> rows \cup {Hidden}] : m \in 0 .. n}

Vocabulary(operators, nullTest, none) == [operators |-> operators, nullTest |-> nullTest, none |-> none]
Fields(operators) == [key |-> Vocabulary(operators, TRUE, FALSE), tag |-> Vocabulary(operators, FALSE, FALSE)]
Combinators(all, any, none) == [all |-> all, any |-> any, none |-> none]
All == {"eq", "not-eq", "gte", "lte", "in"}
(* Lists without negation; lists and quantifiers; lists beside a single negation and
   relations without quantifiers; single expressions throughout. *)
Payload == [fields |-> Fields(All \ {"lte"}), combinators |-> Combinators("list", "list", Null)]
Prisma ==
    [fields |-> Fields(All) @@ ("topics" :> Vocabulary(All, FALSE, TRUE)),
     combinators |-> Combinators("list", "list", "list")]
Hasura ==
    [fields |-> Fields(All) @@ ("topics" :> Vocabulary(All, FALSE, FALSE)),
     combinators |-> Combinators("list", "list", "one")]
Strawberry == [fields |-> Fields(All), combinators |-> Combinators("one", "one", "one")]
Narrow == [Payload EXCEPT !.fields = [tag |-> Payload.fields.tag]]

Argument(kind, dialect) == [kind |-> kind, required |-> FALSE, dialect |-> dialect]
Args(dialect) == [sort |-> Argument("texts", Null), where |-> Argument("input", dialect), first |-> Argument("number", Null)]
RootField(args, envelope) == [args |-> args, envelope |-> envelope]
Declared(name) == [name |-> name, namesField |-> TRUE, separator |-> FALSE]
Decided ==
    [visitor |-> {"first"}, identity |-> {}, named |-> {}, ordering |-> Null, paging |-> Null, size |-> "first",
     supports |-> Null, fields |-> {"key", "tag", "topics"}, required |-> {}]
Supported(fields) == [Decided EXCEPT !.supports = fields]

(* A condition as a tree, and a group of trees. *)
Only(field, op, value) == <<>> :> Condition(field, op, value)
Tree(combine, parts) ==
    [p \in {<<>>} \cup UNION {{<<i>> \o q : q \in DOMAIN parts[i]} : i \in DOMAIN parts} |->
        IF p = <<>> THEN Group(combine, Len(parts)) ELSE parts[Head(p)][Tail(p)]]
One(c) == Tree("all", <<c>>)
ByTag == One(Only("tag", "eq", 1))
Sorts == {<<>>, <<Asc("key")>>, <<Desc("key")>>, <<Asc("tag"), Desc("key")>>}
Queries(filters, groups, sorts, offsets, limits) ==
    {q \in [filter : filters, group : groups, sort : sorts \cup {<<Desc("total")>>}, offset : offsets, limit : limits] :
        q.sort \in IF q.group THEN {<<>>, <<Desc("total")>>} ELSE sorts}

(* Every query with every page, with and without the two pushdowns. *)
Paged ==
    [fields |-> {RootField(Args(Payload), "connection")},
     decisions |-> {[Supported({"key", "tag"}) EXCEPT !.ordering = o, !.supports = s] :
                      o \in {Null, Declared("sort")}, s \in {{"key", "tag"}}}
                   \cup {[Supported({"key", "tag"}) EXCEPT !.visitor = {"first", "where"}, !.ordering = Declared("sort")]},
     collections |-> Collections(MaxRows, Row({1, 2, Null}, {{1}})),
     queries |-> Queries({Null, ByTag}, BOOLEAN, Sorts, {Null, 1}, {Null, 1, 2}),
     params |-> {{}, {"first"}}, faults |-> {Null}]

(* Every filter in every dialect, and who writes it. *)
Filters ==
    {ByTag, One(Only("key", "between", <<1, 1>>)), One(Only("key", "is-null", Null)),
     Tree("any", <<Only("tag", "eq", 1), Only("key", "eq", 2)>>),
     Tree("none", <<Only("tag", "not-eq", 1)>>),
     Tree("none", <<Only("tag", "eq", 1), Only("key", "gte", 2)>>),
     Tree("all", <<Tree("any", <<Only("tag", "eq", 1), Only("key", "in", {2})>>), Only("key", "is-not-null", Null)>>),
     One(Only("topics", "eq", 1)), One(Only("topics", "not-in", {1})), One(Only("topics", "gte", 2))}
Two == [filter |-> Argument("input", Narrow)] @@ Args(Payload)
Filtered ==
    [fields |-> {RootField(Args(d), "told") : d \in {Payload, Prisma, Hasura, Strawberry, Narrow}} \cup {RootField(Two, "told")},
     decisions |-> {Decided, [Decided EXCEPT !.visitor = {"first", "where"}], [Decided EXCEPT !.named = {"where"}],
                    [Decided EXCEPT !.identity = {"where"}]},
     collections |-> Collections(MaxSmall, Row({1, 2, Null}, {{}, {1}, {1, 2}})),
     queries |-> Queries(Filters, {FALSE}, {<<>>}, {Null}, {Null, 1}),
     params |-> {{}, {"where"}}, faults |-> {Null}]

(* Everything that goes wrong, with and without an envelope that tells of more. *)
Failing ==
    [fields |-> {RootField(Args(Payload), e) : e \in {"connection", "untold", Null}},
     decisions |-> {[Supported({"key", "tag"}) EXCEPT !.ordering = Declared("sort"), !.required = r, !.visitor = v, !.paging = p] :
                      r \in {{}, {"tag"}}, v \in {{}, {"first"}}, p \in {Null, "first"}},
     collections |-> Collections(MaxSmall, Row({1, 2, Null}, {{1}})),
     queries |-> Queries({Null, ByTag}, BOOLEAN, {<<>>, <<Asc("key")>>}, {Null}, {Null, 1}),
     params |-> {{}},
     faults |-> {"key", "tag", "key nulls its row", "drift", "missing identity", "transport", "no data", "no data with errors",
                 "no path", "row path", "paging path", "all nulled", "null", "rows are no list", "provenance", "stale"}]

MCCases == {Paged, Filtered, Failing}
HasuraCases ==
    {[Filtered EXCEPT !.fields = {RootField(Args(Hasura), "told")}, !.decisions = {Decided},
                      !.collections = Collections(MaxSmall, Row({1, 2}, {{1}}))]}

(* Two rows with the field they are ordered by, and two without, of an upstream that is
   told the ordering and, where the host approved it, the page size. *)
OrderedCases ==
    LET Keyed(k) == [key |-> k, tag |-> 1, topics |-> {1}] IN
    {[Paged EXCEPT !.decisions = {[Supported({"key", "tag"}) EXCEPT !.ordering = Declared("sort"), !.visitor = v] :
                                     v \in {{}, {"first"}}},
                   !.collections = {<<Keyed(1), Keyed(Null), Keyed(2), Keyed(Null)>>},
                   !.queries = Queries({Null}, {FALSE}, {<<Asc("key")>>, <<Desc("key")>>}, {Null}, {Null, 1, 2})]}
=============================================================================
