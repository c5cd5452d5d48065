----------------------------- MODULE MCReviewTools -----------------------------
(* Four tools a host reviews an API with, one at a time: the commands, and the desks for
   a REST API, for a GraphQL API query by query, and for a curated GraphQL API. *)
EXTENDS CatalogReview, OpenApiDesk, GraphQlDesk, CuratedDesk

VARIABLE tool

(* The commands. *)
Field(name, type) == [name |-> name, type |-> type, list |-> FALSE, needs |-> FALSE, meaning |-> "text"]
List(name, type) == [Field(name, type) EXCEPT !.list = TRUE]
Kind(kind, fields) == [kind |-> kind, fields |-> fields, implementedBy |-> {}]
Argument(name) == [name |-> name, required |-> FALSE, scalars |-> {}, identity |-> FALSE]
Query(name, type, args) == [name |-> name, type |-> type, list |-> FALSE, args |-> args, described |-> TRUE]

(* Orders behind a connection, twice; one order by its id; posts behind a wrapper. *)
Types ==
    [text |-> Kind("leaf", <<>>), decimal |-> Kind("custom", <<>>),
     Money |-> Kind("object", <<Field("gross", "decimal"), Field("currency", "text")>>),
     Order |-> Kind("object", <<Field("id", "text"), [Field("note", "text") EXCEPT !.meaning = Unknown],
                                Field("total", "Money"), Field("by", "Person"),
                                [Field("lines", "text") EXCEPT !.needs = TRUE]>>),
     Shop |-> Kind("object", <<Field("name", "text"), Field("owner", "Person")>>),
     Actor |-> Kind("union", <<>>),
     Person |-> [Kind("interface", <<Field("name", "text"), Field("friend", "Person"), Field("actor", "Actor")>>)
                    EXCEPT !.implementedBy = {"Buyer"}],
     Buyer |-> Kind("object", <<Field("name", "text"), Field("rank", "text")>>),
     OrderEdge |-> Kind("object", <<Field("node", "Order")>>),
     OrderConnection |-> Kind("object", <<List("edges", "OrderEdge")>>),
     Posts |-> Kind("object", <<List("docs", "Shop"), Field("count", "text")>>)]
Paging == <<Argument("first"), Argument("after")>>
Key == <<[Argument("key") EXCEPT !.required = TRUE]>>
Reviewed ==
    [types |-> Types,
     roots |-> <<Query("orders", "OrderConnection", Paging), [Query("archive", "OrderConnection", Paging) EXCEPT !.described = FALSE],
                 Query("order", "Order", Key), Query("posts", "Posts", <<>>)>>]
(* Upstream a field goes, an argument comes, and everything can be placed. *)
Moved ==
    [types |-> [Types EXCEPT !.Order.fields = <<Field("id", "text"), Field("total", "Money")>>],
     roots |-> <<Query("orders", "OrderConnection", Paging),
                 Query("order", "Order", <<[Key[1] EXCEPT !.name = "number"]>>), Query("posts", "Posts", <<>>)>>]
Scoped == [Moved EXCEPT !.roots = Append(@, Query("mine", "Order", <<[Argument("userId") EXCEPT !.identity = TRUE]>>))]
MCSchemas == {Reviewed, Moved, Scoped}

Options(wanted, depth) ==
    [depth |-> depth, scalars |-> {"decimal"}, wanted |-> wanted, shapes |-> <<>>, purposes |-> {"archive"}, envelopes |-> <<>>]
MCInventoryOptions ==
    {Options({"orders"}, 2), Options({"orders", "order"}, 2), Options({"orders", "archive"}, 3),
     [Options({"posts"}, 3) EXCEPT !.envelopes = [posts |-> "docs"]],
     [Options({"order"}, 2) EXCEPT !.scalars = {}, !.purposes = {}]}
Curated(meanings) ==
    [depth |-> 3, levels |-> 3, count |-> 3, scalars |-> {"decimal"}, meanings |-> meanings, session |-> FALSE]
MCCuratedOptions ==
    {Curated(<<>>), [Curated(<<>>) EXCEPT !.count = 2], [Curated(<<>>) EXCEPT !.scalars = {}],
     Curated(<<"orders", <<"note">>>> :> "text"), Curated(<<"orders", <<"gone">>>> :> "text")}
MCOldDecisions ==
    {[hash |-> None, meanings |-> <<>>,
      queries |-> <<[capability |-> "orders", args |-> <<"first">>, identity |-> {}, session |-> TRUE, shape |-> None,
                     fields |-> <<<<"edges", "node", "id">>>>, required |-> <<>>, levels |-> 3, count |-> 1]>>]}

(* The REST desk. *)
ReplyField(name) == [name |-> name, meaning |-> "text", private |-> FALSE]
Param(name, in) == [name |-> name, in |-> in, required |-> FALSE, private |-> FALSE]
Property(name) == [name |-> name, required |-> FALSE, private |-> FALSE]
Order == <<ReplyField("id"), [ReplyField("email") EXCEPT !.private = TRUE], [ReplyField("lines") EXCEPT !.meaning = "unknown"]>>
Reply(fields) == [readable |-> TRUE, array |-> FALSE, fields |-> fields, items |-> None, envelope |-> None]
ListOf(fields) == [Reply(<<>>) EXCEPT !.array = TRUE, !.items = fields]
Paged(fields) == [Reply(<<[ReplyField("items") EXCEPT !.meaning = "unknown"], ReplyField("id")>>) EXCEPT !.envelope = fields]
Get(path, id, noun, params, reply) ==
    [path |-> path, method |-> "get", id |-> id, params |-> params, media |-> "none", body |-> None, reply |-> reply,
     noun |-> noun, effect |-> None]
Post(path, id, noun, body, reply) ==
    [Get(path, id, noun, <<>>, reply) EXCEPT !.method = "post", !.media = "json", !.body = body]

Orders == Get("orders", "listOrders", "orders", <<Param("status", "query"), Param("trace", "header")>>, ListOf(Order))
OneOrder == Get("order", "getOrder", "order", <<Param("id", "path"), Param("id", "query")>>, Reply(Order))
Search == Post("search", None, "orders", <<[Property("term") EXCEPT !.required = TRUE], [Property("token") EXCEPT !.private = TRUE]>>, Paged(Order))
Cancel == [Post("cancel", "cancelOrder", "cancel", <<>>, Reply(<<ReplyField("id")>>)) EXCEPT !.effect = "action"]

(* A document, and the next version of it: the search takes plain text, and one operation
   has moved to the key of another. *)
First == <<Orders, OneOrder, Search, Cancel>>
Second == <<[Orders EXCEPT !.effect = "action"], [Search EXCEPT !.media = "text", !.body = None], OneOrder>>
MCDocuments == {First, Second}

AllKeys == {CandidateKey(op) : op \in Range(First) \cup Range(Second)}
MCOpinions == {[key \in AllKeys |-> "read"]}
MCConfigEdits ==
    {[field |-> "shape", value |-> "search-results"], [field |-> "shape", value |-> "entity"],
     [field |-> "capability", value |-> "found"], [field |-> "dataType", value |-> "order"],
     [field |-> "session", value |-> {"status"}]}

(* The board and the curated desk. *)
MCBoardSchemas == {[Scoped EXCEPT !.roots = SubSeq(@, 3, 4)], [Reviewed EXCEPT !.roots = SubSeq(@, 3, 4)]}
MCReadings == {{"posts"}, {"order", "mine"}}
MCDefaultLimits == [levels |-> 2, count |-> 2]
Unclear == [Moved EXCEPT !.types.Order.fields = <<Field("id", "text"), [Field("note", "text") EXCEPT !.meaning = Unknown],
                                                  Field("total", "Money")>>]
MCCuratedSchemas == {Unclear, Scoped, Reviewed}

CliIdle == schema = None /\ inventory = None /\ decisions = None /\ artifact = None /\ acts = 0
ToolsInit ==
    \/ tool = "commands" /\ CliInit /\ DeskInit /\ BoardInit /\ CuratedInit
    \/ tool \in {"rest", "board", "curated"} /\ CliIdle /\ DeskInit /\ BoardInit /\ CuratedInit
ToolsNext ==
    /\ UNCHANGED tool
    /\ \/ tool = "commands" /\ CliNext /\ UNCHANGED <<deskVars, boardVars, curatedVars>>
       \/ tool = "rest" /\ DeskNext /\ UNCHANGED <<cliVars, boardVars, curatedVars>>
       \/ tool = "board" /\ BoardNext /\ UNCHANGED <<cliVars, deskVars, curatedVars>>
       \/ tool = "curated" /\ CuratedNext /\ UNCHANGED <<cliVars, deskVars, boardVars>>
ToolsSpec == ToolsInit /\ [][ToolsNext]_<<tool, cliVars, deskVars, boardVars, curatedVars>>

(* What a desk has in hand is of what is on its screen: the review of a REST desk of the
   document and operations chosen, and the catalog a board would post of the queries as
   they are configured, whatever was edited or answered since. *)
InHandIsOnScreen == ReviewIsOfScreen /\ CompiledIsShown

=============================================================================
