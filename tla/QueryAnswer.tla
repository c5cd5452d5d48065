------------------------------ MODULE QueryAnswer ------------------------------
(***************************************************************************)
(* From a request's query to its answer: what of the query is sent to a    *)
(* paged GraphQL upstream, what comes back, and what is applied to it here *)
(* (packages/data-runtime/src/index.ts and query.ts,                       *)
(* packages/capability-catalog/src/graphql.ts and ordering.ts).            *)
(*                                                                         *)
(* No adapter walks pages: an answer is made of one page.  The query's     *)
(* filter, ordering and limit go upstream where the binding can carry      *)
(* them, the upstream may fail in part or altogether, and the marks on the *)
(* answer must say whenever the page was not enough.                       *)
(***************************************************************************)
EXTENDS GraphQlBinding

CONSTANTS
    Cases,          \* [fields, decisions, collections, queries, params, faults : sets]
    MaximumRows,    \* policy.maximumRows of the capability
    DefaultPage,    \* the rows an upstream serves that is not told how many
    PageCaps,       \* maximumPageSize, as the host may declare it
    RowBudgets,     \* maxRowsPerRequest
    Obeys,          \* whether an upstream may drop the ordering it was sent
    Hidden          \* a row the session may not read: null in the page

(* A row is sorted by numbers, which it may lack.  An aggregating query sorts its count,
   which no row has. *)
ASSUME QueryAssumption ==
    /\ MaximumRows \in Nat \ {0} /\ DefaultPage \in Nat \ {0}
    /\ PageCaps \subseteq Nat \ {0} /\ RowBudgets \subseteq Nat \ {0}
    /\ Obeys \subseteq BOOLEAN
    /\ Null \notin Int \cup {"rows", "ORDERING_NOT_APPLIED"} /\ Hidden # Null /\ MaxFilterDepth \in Nat
    /\ \A c \in Cases :
        /\ \A field \in c.fields : Null \notin DOMAIN field.args
        /\ \A q \in c.queries :
            /\ q.filter = Null \/ IsFilter(q.filter)
            /\ q.offset \in Nat \cup {Null} /\ q.limit \in (Nat \ {0}) \cup {Null} /\ q.group \in BOOLEAN
            /\ q.sort \in Seq(Range(q.sort))
            /\ q.group => \A n \in DOMAIN q.sort : q.sort[n].field = "total"
        /\ \A rows \in c.collections :
            /\ rows \in Seq(Range(rows))
            /\ \A i \in DOMAIN rows : rows[i] # Hidden =>
                /\ "total" \notin DOMAIN rows[i]
                /\ \A q \in c.queries : \A n \in DOMAIN q.sort :
                    q.sort[n].field \in DOMAIN rows[i] => rows[i][q.sort[n].field] \in Int \cup {Null}

(* Sort terms.  An aggregating query sorts its output columns, of which `total` is
   the count. *)
Asc(f) == [field |-> f, desc |-> FALSE]
Desc(f) == [field |-> f, desc |-> TRUE]

VARIABLES
    query,          \* [filter, group, sort, offset, limit], the request's query
    params,         \* the arguments the plan set itself, of those it may set
    collection,     \* what the upstream holds, in its default order
    binding,        \* the capability's, as compiled
    cap, budget,    \* the page size cap and the row budget in force
    obeys,          \* whether the upstream applies the ordering it is sent
    fault,          \* what goes wrong upstream, if anything
    stage,          \* "asking", "fetched" or "done"
    page,           \* the rows the runtime unwrapped
    outcome,        \* "rows", a failure code, or Null
    answer,         \* the rows delivered
    marks           \* [truncated, more, narrowed, degraded : BOOLEAN], the provenance

answerVars == <<query, params, collection, binding, cap, budget, obeys, fault, stage, page, outcome,
          answer, marks>>
request == <<query, params, collection, binding, cap, budget, obeys, fault>>

Unmarked == [truncated |-> FALSE, more |-> FALSE, narrowed |-> FALSE, degraded |-> FALSE]

(* A plan was validated: it sets arguments the visitor owns, and filters by fields
   the capability advertises. *)
Validated(b, q, p) ==
    /\ p \subseteq b.visitor
    /\ q.filter # Null => FieldsIn(q.filter) \subseteq b.filterFields

AnswerInit ==
    /\ \E c \in Cases : \E field \in c.fields, d \in c.decisions :
        /\ Compiles(field, d)
        /\ binding = Binding(field, d)
        /\ query \in c.queries /\ params \in c.params
        /\ collection \in c.collections
        /\ fault \in c.faults
    /\ Validated(binding, query, params)
    /\ cap \in PageCaps /\ budget \in RowBudgets
    /\ obeys \in Obeys
    /\ stage = "asking"
    /\ page = <<>> /\ answer = <<>>
    /\ outcome = Null
    /\ marks = Unmarked

-----------------------------------------------------------------------------
(* readField: a field of a row or of an aggregated row, or its absence. *)
Field(row, f) == IF row # Hidden /\ f \in DOMAIN row THEN row[f] ELSE Null
Both(a, b, f) == Field(a, f) # Null /\ Field(b, f) # Null
Less(a, b, term) ==
    IF term.desc THEN Field(b, term.field) < Field(a, term.field)
    ELSE Field(a, term.field) < Field(b, term.field)

(* a belongs before b, with the rows that lack a field all last or all first. *)
BeforeOn(a, b, term, last) ==
    IF Both(a, b, term.field) THEN Less(a, b, term)
    ELSE Field(IF last THEN b ELSE a, term.field) = Null
         /\ Field(IF last THEN a ELSE b, term.field) # Null
Before(a, b, sort, last) ==
    \E n \in DOMAIN sort :
        /\ BeforeOn(a, b, sort[n], last)
        /\ \A m \in 1 .. n - 1 : Field(a, sort[m].field) = Field(b, sort[m].field)

(* The local sort is stable and puts what is missing last: a row comes after all that
   precede it. *)
Precedes(rows, sort, i, j) ==
    \/ Before(rows[i], rows[j], sort, TRUE)
    \/ ~Before(rows[j], rows[i], sort, TRUE) /\ i < j
Place(rows, sort, i) == Cardinality({j \in DOMAIN rows : Precedes(rows, sort, j, i)}) + 1
Sorted(rows, sort) ==
    IF sort = <<>> THEN rows
    ELSE [k \in DOMAIN rows |-> rows[CHOOSE i \in DOMAIN rows : Place(rows, sort, i) = k]]

(* The rows that are among some, in their order. *)
Picked(rows, wanted) ==
    LET upTo[n \in 0 .. Len(rows)] ==
            IF n = 0 THEN <<>> ELSE IF rows[n] \in wanted THEN Append(upTo[n - 1], rows[n]) ELSE upTo[n - 1]
    IN  upTo[Len(rows)]
Keeps(filter, rows) == Picked(rows, {r \in Range(rows) : Evaluates(filter, r)})

(* Groups come in order of first appearance, each with its count. *)
Leads(rows) == {i \in DOMAIN rows : \A j \in 1 .. i - 1 : rows[j].tag # rows[i].tag}
Grouped(rows) ==
    LET lead(k) == CHOOSE i \in Leads(rows) : Cardinality(Leads(rows) \cap 1 .. i) = k
    IN  [k \in 1 .. Cardinality(Leads(rows)) |->
            [tag |-> rows[lead(k)].tag,
             total |-> Cardinality({i \in DOMAIN rows : rows[i].tag = rows[lead(k)].tag})]]

From == IF query.offset = Null THEN 0 ELSE query.offset
Window(rows) ==
    SubSeq(rows, From + 1, IF query.limit = Null THEN Len(rows) ELSE Min({Len(rows), From + query.limit}))

(* applyValidatedQuery: filter, aggregate, sort, then the window. *)
Kept(rows) ==
    LET kept == IF query.filter = Null THEN rows ELSE Keeps(query.filter, rows) IN
    IF query.group THEN Grouped(kept) ELSE kept
Applied(rows) == Window(Sorted(Kept(rows), query.sort))

-----------------------------------------------------------------------------
PushesOrdering == CanPushOrdering(binding, query.sort)
PushesFilter == CanPushFilterOf(binding, query.filter)

(* The limit bounds the fetch only where it is the last operation left here. *)
BoundsFetchOfGroups ==
    /\ query.filter # Null => PushesFilter
    /\ query.sort # <<>> => PushesOrdering
    /\ query.offset = Null
LimitBoundsFetch ==
    /\ query.filter # Null => PushesFilter
    /\ query.sort # <<>> => PushesOrdering
    /\ ~query.group
    /\ query.offset = Null

SentLimit == IF LimitBoundsFetch THEN query.limit ELSE Null

(* connectionPagingParams: only in an argument the host approved, and never over a
   page size that the plan set itself. *)
PlannedSize == 2
PageSize ==
    IF binding.size = Null THEN DefaultPage
    ELSE IF binding.size \in params THEN PlannedSize
    ELSE Min({IF SentLimit # Null THEN SentLimit ELSE MaximumRows, cap})

Visible(rows) == Picked(rows, Range(rows) \ {Hidden})

(* The orders an upstream may take its rows in.  It knows the fields of its own
   rows only, and places the rows that lack one by its own convention. *)
Arrangements(rows) ==
    {[i \in DOMAIN rows |-> rows[p[i]]] : p \in SetToSeqs(DOMAIN rows)}
Respects(rows, sort) ==
    \E last \in BOOLEAN : \A i, j \in DOMAIN rows :
        i < j /\ rows[i] # Hidden /\ rows[j] # Hidden => ~Before(rows[j], rows[i], sort, last)
Orders(rows) ==
    IF OrderingWritten(binding, params, query.sort) # Null /\ obeys /\ ~query.group
    THEN {r \in Arrangements(rows) : Respects(r, query.sort)}
    ELSE {rows}

(* What the upstream narrows by: the filter the runtime wrote, or a condition of the
   plan's own in an argument it may set, here the rows of tag 1. *)
Own(rows) ==
    IF params \ {binding.size} = {} THEN rows ELSE Picked(rows, {r \in Range(rows) : r = Hidden \/ r.tag = 1})
Narrowed(rows) ==
    IF FilterWritten(binding, params, query.filter) = Null THEN rows
    ELSE LET sent == Rendered(binding.filter.dialect, query.filter) IN
         Picked(rows, {r \in Range(rows) : r = Hidden \/ Selects(sent, r)})

-----------------------------------------------------------------------------
(* The failures of executeApprovedGraphQlRequest: a request or a response that is
   refused as a whole.  A fault inside a field spoils that field, or the row where
   the schema says that it is never null. *)
FieldFault == {"key", "tag", "key nulls its row"}
FaultyField == IF fault = "tag" THEN "tag" ELSE "key"
Required == fault \in FieldFault /\ FaultyField \in binding.required
Refusal ==
    CASE ~Declarable(binding, params, query) -> "GRAPHQL_REQUEST_REJECTED"
      [] fault \in {"drift", "missing identity"} -> "GRAPHQL_REQUEST_REJECTED"
      [] fault = "transport" -> "GRAPHQL_TRANSPORT_ERROR"
      [] fault \in {"no data with errors", "no path", "row path", "paging path", "all nulled"} ->
            "GRAPHQL_EXECUTION_ERROR"
      [] fault = "null" ->
            IF binding.envelope # Null THEN "GRAPHQL_NULL_RESULT" ELSE "INVALID_GRAPHQL_RESULT"
      [] fault \in {"no data", "rows are no list"} ->
            IF fault = "no data" \/ binding.envelope # Null THEN "GRAPHQL_INVALID_RESPONSE"
            ELSE "INVALID_GRAPHQL_RESULT"
      [] fault = "provenance" -> "PROVENANCE_UNAVAILABLE"
      [] fault = "stale" -> "STALE_GRAPHQL_RESULT"
      [] OTHER -> IF Required THEN "GRAPHQL_EXECUTION_ERROR" ELSE Null

(* Which rows the field fails on: the first of the page, or all of them. *)
Spoiled(rows) ==
    IF fault \notin FieldFault THEN {rows}
    ELSE {[i \in DOMAIN rows |->
              IF rows[i] = Hidden \/ i > last THEN rows[i]
              ELSE IF fault = "key nulls its row" THEN Hidden
              ELSE [rows[i] EXCEPT ![FaultyField] = Null]] : last \in {1, Len(rows)} \cap DOMAIN rows}

(* Whether the page gave the plan what it asked for: as many rows as it named.  A
   slip would take a request that named no number for satisfied. *)
SatisfiedUnasked == SentLimit = Null \/ Len(page') >= SentLimit
AskSatisfied == SentLimit # Null /\ Len(page') >= SentLimit

(* Only an envelope that has a field for it says that there is another page. *)
Tells == binding.envelope \in {"connection", "told"}

Refused ==
    /\ stage = "asking" /\ Refusal # Null
    /\ outcome' = Refusal
    /\ stage' = "done"
    /\ UNCHANGED <<request, page, answer, marks>>

(* The upstream answers with one page, whose null rows are dropped. *)
Fetch ==
    /\ stage = "asking" /\ Refusal = Null
    /\ \E rows \in Orders(Narrowed(Own(collection))) :
        \E served \in Spoiled(SubSeq(rows, 1, Min({Len(rows), PageSize}))) :
        LET hasNextPage == Tells /\ Len(rows) > PageSize IN
        /\ page' = Visible(served)
        /\ marks' = [truncated |-> hasNextPage /\ ~AskSatisfied,
                     more |-> hasNextPage, narrowed |-> FALSE,
                     degraded |-> fault \in FieldFault]
    /\ stage' = "fetched"
    /\ UNCHANGED <<request, outcome, answer>>

(* firstOrderingViolation: two neighbours that every ordering would swap.  A row
   without the field is nobody's neighbour; a slip would judge it like the local
   sort. *)
MisorderedLocally == \E i \in 1 .. Len(page) - 1 : Before(page[i + 1], page[i], query.sort, TRUE)
Misordered ==
    \E i \in 1 .. Len(page) - 1 : \E n \in DOMAIN query.sort :
        /\ \A m \in 1 .. n : Both(page[i], page[i + 1], query.sort[m].field)
        /\ \A m \in 1 .. n - 1 :
             Field(page[i], query.sort[m].field) = Field(page[i + 1], query.sort[m].field)
        /\ Less(page[i + 1], page[i], query.sort[n])

(* narrowsBeyondFetch: an operation done here could have turned out otherwise on
   the rows that were not fetched. *)
NarrowsBeyondFetch ==
    \/ query.filter # Null /\ ~PushesFilter
    \/ query.sort # <<>> /\ ~PushesOrdering
    \/ query.offset # Null /\ query.limit = Null
    \/ query.limit # Null /\ Len(page) < From + query.limit

Fail(code) ==
    /\ outcome' = code
    /\ UNCHANGED <<answer, marks>>

(* applyRowBudget. *)
Deliver(rows, narrowed) ==
    /\ outcome' = "rows"
    /\ answer' = SubSeq(rows, 1, Min({Len(rows), budget}))
    /\ marks' = [truncated |-> marks.truncated \/ Len(rows) > budget,
                 more |-> marks.more \/ Len(rows) > budget, narrowed |-> narrowed,
                 degraded |-> marks.degraded]

Finish ==
    /\ stage = "fetched"
    /\ \/ query.group /\ marks.truncated /\ Fail("TRUNCATED_AGGREGATION")
       \/ /\ ~(query.group /\ marks.truncated)
          /\ IF PushesOrdering /\ Misordered THEN Fail("ORDERING_NOT_APPLIED")
             ELSE Deliver(Applied(page), (marks.more \/ marks.truncated) /\ NarrowsBeyondFetch)
    /\ stage' = "done"
    /\ UNCHANGED <<request, page>>

AnswerNext == Refused \/ Fetch \/ Finish

AnswerSpec == AnswerInit /\ [][AnswerNext]_answerVars

-----------------------------------------------------------------------------
(* What the query asks of everything the session may read.  Where ties and missing
   values leave a choice, any order that respects the sort will do; the rows
   themselves are shown in the local order. *)
Asked == Visible(Own(collection))
WholeAnswer ==
    IF query.group \/ query.sort = <<>> THEN answer = Applied(Asked)
    ELSE \E order \in Arrangements(Kept(Asked)) :
            /\ Respects(order, query.sort)
            /\ answer \in Arrangements(Window(order))
            /\ \A i, j \in DOMAIN answer : i < j => ~Before(answer[j], answer[i], query.sort, TRUE)

(* Where the filter that was sent may mean another thing than the filter of the plan:
   several conditions under a combinator that takes one, and a row related to none
   tested for what it is not related to. *)
Flattens(d, f) ==
    \E p \in DOMAIN f : f[p].is = "group" /\ d.combinators[f[p].combine] = "one" /\ f[p].parts > 1
ReadsNoRelated ==
    /\ "topics" \in FieldsIn(query.filter)
    /\ \E i \in DOMAIN collection : collection[i] # Hidden /\ collection[i].topics = {}
KeepsItsMeaning ==
    PushesFilter => ~Flattens(binding.filter.dialect, query.filter) /\ ~ReadsNoRelated

(* The sort that is done here leaves the upstream's choice as it is: it has no more rows
   than the limit that was sent, or knows where to put each of them. *)
SortFindsItSorted ==
    PushesOrdering /\ marks.more =>
        \/ Len(page) <= SentLimit
        \/ \A i \in DOMAIN page : \A n \in DOMAIN query.sort : Field(page[i], query.sort[n].field) # Null

(* A view is shown as complete when its answer carries no mark: then it is the
   answer over the whole collection, although one page was all that was read, filter
   and ordering went to another machine's engine, and fields may have failed on the
   way.  It takes an upstream that applies the ordering it is sent and says whether
   there is another page. *)
ShownComplete ==
    outcome = "rows" /\ ~marks.truncated /\ ~marks.narrowed /\ ~marks.degraded
        /\ obeys /\ Tells /\ KeepsItsMeaning
UnmarkedIsWhole == ShownComplete /\ SortFindsItSorted => WholeAnswer

(* "when the source applies the ordering, its first `limit` rows are the plan's top
   `limit`": also where it serves more of them, some without the field. *)
TopIsTheTop == ShownComplete /\ PushesOrdering => WholeAnswer

(* A group and its count come from all of the collection or not at all, whatever
   is marked beside them, unless a field failed: the row budget may leave groups out,
   never rows. *)
AggregateExactOrRefused ==
    outcome = "rows" /\ query.group /\ ~marks.degraded /\ Tells /\ KeepsItsMeaning =>
        LET all == Applied(Asked) IN
        answer = SubSeq(all, 1, Min({Len(all), budget}))

(* The check on a pushed ordering refuses nobody who applied it, wherever they put
   the rows that lack the field, and whichever rows the field failed on. *)
ObedientIsAccepted ==
    obeys => outcome # "ORDERING_NOT_APPLIED"

(* "so the meaning survives": the rows of a filter are the same where it is compiled
   into the upstream's argument as where it is evaluated here. *)
MeaningSurvives ==
    PushesFilter =>
        \A i \in DOMAIN collection :
            collection[i] # Hidden =>
                (Selects(Rendered(binding.filter.dialect, query.filter), collection[i])
                    <=> Evaluates(query.filter, collection[i]))
=============================================================================
