------------------------------ MODULE GraphQlDesk ------------------------------
(***************************************************************************)
(* The desk at which a host reviews a GraphQL API query by query           *)
(* (GraphQlReviewApp of apps/catalog-review/src/graphql-panel.tsx): a      *)
(* schema is loaded, its queries are analysed and the ones that only read  *)
(* are selected, each is configured, a model may propose fields, and what  *)
(* compiles is posted to the host.  Analyses, proposals and posts are      *)
(* answered while the reviewer works on.                                   *)
(*                                                                         *)
(* A capability goes by the name of its root field; the batches of an      *)
(* analysis are in OpenApiDesk.  Searching the list and downloads change   *)
(* nothing and are left out.                                               *)
(***************************************************************************)
EXTENDS GraphQlCompile

CONSTANTS
    BoardSchemas,   \* what may be loaded
    Depths,         \* discovery depths the reviewer may set
    Readings,       \* sets of root fields that a model may call reads
    DefaultLimits,  \* [levels, count] of a new configuration
    MaxBoardActs    \* bound on what the reviewer does

ASSUME GraphQlDeskAssumption ==
    /\ \A s \in BoardSchemas : IsSchema(s)
    /\ MaxBoardActs \in Nat /\ Depths \subseteq Nat \ {0} /\ Depths # {}

VARIABLES
    board,      \* [schema, depth, title, chosen, editing, configs]
    classified, \* the analysis on screen: idle, classifying, ready or error
    analyses,   \* those under way: [id, names, failed]
    proposals,  \* what a model proposed, by root field
    asking,     \* the root field and paths it is being asked about, or None
    built,      \* what is compiled: [title, catalog], or None
    posting,    \* idle, publishing, published or error
    sent,       \* posts not answered yet: [id, schema, catalog]
    taken,      \* the last catalog the host took, or None
    boardActs

boardVars == <<board, classified, analyses, proposals, asking, built, posting, sent, taken, boardActs>>

BoardInit ==
    /\ board = [schema |-> None, depth |-> CHOOSE d \in Depths : TRUE, title |-> "first",
                chosen |-> {}, editing |-> None, configs |-> <<>>]
    /\ classified = "idle" /\ analyses = {} /\ proposals = <<>> /\ asking = None
    /\ built = None /\ posting = "idle" /\ sent = {} /\ taken = None
    /\ boardActs = 0

BoardAct == boardActs < MaxBoardActs /\ boardActs' = boardActs + 1
ResetCompilation == built' = None /\ posting' = "idle"
Loaded == board.schema # None
OfferedOn(s, n, depth) == Discovered(s, Root(s, n), None, depth).offered
RootNames(s) == {r.name : r \in Range(s.roots)}

-----------------------------------------------------------------------------
(* classifyQueries: the answer goes to whatever is selected by then, and progress to
   the screen, a late one after a failure too. *)
SupportedNames(s, depth) == {n \in RootNames(s) : Supported(s, Root(s, n), None, depth)}
ClassifyQueries(s, depth) ==
    /\ classified' = "classifying"
    /\ analyses' = analyses \cup {[id |-> boardActs, names |-> SupportedNames(s, depth), failed |-> FALSE]}
ClassifyQueriesAgain ==
    /\ BoardAct /\ Loaded /\ classified # "classifying"
    /\ ClassifyQueries(board.schema, board.depth)
    /\ UNCHANGED <<board, proposals, asking, built, posting, sent, taken>>
QueriesProgress(call) ==
    /\ classified' = "classifying"
    /\ analyses' = IF call.failed THEN analyses \ {call} ELSE analyses
    /\ UNCHANGED <<board, proposals, asking, built, posting, sent, taken, boardActs>>
QueriesClassified(call, reads) ==
    /\ ~call.failed /\ analyses' = analyses \ {call}
    /\ classified' = "ready"
    /\ board' = [board EXCEPT !.chosen = @ \cup (reads \cap call.names)]
    /\ UNCHANGED <<proposals, asking, built, posting, sent, taken, boardActs>>
QueriesUnclassified(call, batchInFlight) ==
    /\ ~call.failed /\ classified' = "error"
    /\ analyses' = (analyses \ {call}) \cup (IF batchInFlight THEN {[call EXCEPT !.failed = TRUE]} ELSE {})
    /\ UNCHANGED <<board, proposals, asking, built, posting, sent, taken, boardActs>>

-----------------------------------------------------------------------------
DefaultQueryConfiguration(s, r, depth) ==
    LET offered == Discovered(s, r, None, depth).offered IN
    [purpose |-> r.described, shape |-> SuggestedShape(s, r),
     matchKey |-> IF Id \in Range(Paths(offered)) THEN Id ELSE None,
     modes |-> [n \in {a.name : a \in Range(r.args)} |-> "excluded"],
     fields |-> <<>>, required |-> <<>>,
     meanings |-> [p \in Range(Paths(offered)) |-> (CHOOSE f \in Range(offered) : f.path = p).meaning],
     session |-> FALSE, levels |-> DefaultLimits.levels, count |-> DefaultLimits.count, scalars |-> {}]
LoadSchema(s) ==
    /\ BoardAct /\ s.roots # <<>>
    /\ board' = [board EXCEPT !.schema = s, !.chosen = {}, !.editing = None,
                    !.configs = [n \in RootNames(s) |-> DefaultQueryConfiguration(s, Root(s, n), board.depth)]]
    /\ ResetCompilation /\ ClassifyQueries(s, board.depth)
    /\ UNCHANGED <<proposals, asking, sent, taken>>
SetDiscoveryDepth(depth) ==
    /\ BoardAct /\ board' = [board EXCEPT !.depth = depth]
    /\ UNCHANGED <<classified, analyses, proposals, asking, built, posting, sent, taken>>
EditCatalog ==
    /\ BoardAct /\ Loaded /\ board' = [board EXCEPT !.title = "second"] /\ ResetCompilation
    /\ UNCHANGED <<classified, analyses, proposals, asking, sent, taken>>

Toggled(chosen, n) == IF n \in chosen THEN chosen \ {n} ELSE chosen \cup {n}
ToggleQuery(n) ==
    /\ BoardAct /\ n \in SupportedNames(board.schema, board.depth)
    /\ board' = [board EXCEPT !.chosen = Toggled(@, n), !.editing = n]
    /\ ResetCompilation
    /\ UNCHANGED <<classified, analyses, proposals, asking, sent, taken>>

(* The editor shows the query last toggled or configured, or the first of those selected. *)
Editing ==
    IF board.editing # None THEN board.editing
    ELSE LET selected == Only(board.schema.roots, {r \in Range(board.schema.roots) : r.name \in board.chosen})
         IN  IF selected = <<>> THEN None ELSE Head(selected).name
Configure(n) ==
    /\ BoardAct /\ n \in board.chosen \cap RootNames(board.schema) /\ n # Editing
    /\ board' = [board EXCEPT !.editing = n]
    /\ UNCHANGED <<classified, analyses, proposals, asking, built, posting, sent, taken>>

-----------------------------------------------------------------------------
(* updateQuery, and what the editor calls it for. *)
WithMode(config, arg, mode) ==
    [config EXCEPT !.modes[arg] = mode, !.session = IF mode = "identity" THEN TRUE ELSE @]
WithField(config, p) ==
    IF Contains(config.fields, p)
    THEN [config EXCEPT !.fields = Remove(@, p), !.required = IF Contains(@, p) THEN Remove(@, p) ELSE @]
    ELSE [config EXCEPT !.fields = Append(@, p)]
WithRequired(config, p) ==
    [config EXCEPT !.required = IF Contains(@, p) THEN Remove(@, p) ELSE Append(@, p)]
WithMeaning(config, p, meaning) ==
    [config EXCEPT !.meanings = [q \in DOMAIN @ \cup {p} |-> IF q = p THEN meaning ELSE @[q]]]
WithAll(config, paths) == [config EXCEPT !.fields = paths]
Cleared(config) == [config EXCEPT !.fields = <<>>, !.required = <<>>]
Settings(config) ==
    {[config EXCEPT !.session = ~@], [config EXCEPT !.purpose = ~@], [config EXCEPT !.matchKey = None],
     [config EXCEPT !.count = MaxFields, !.levels = MaxLevels], [config EXCEPT !.scalars = {"decimal"}],
     [config EXCEPT !.shape = IF @ = "entity" THEN "collection" ELSE "entity"]}
ConfigurationEdits(config, offered) ==
    LET paths == Paths(offered) IN
    {WithMode(config, arg, mode) : arg \in DOMAIN config.modes, mode \in {"excluded", "visitor", "identity"}}
        \cup {WithField(config, p) : p \in Range(paths)}
        \cup {WithRequired(config, p) : p \in Range(paths) \cap Range(config.fields)}
        \cup {WithMeaning(config, f.path, "number") : f \in {g \in Range(offered) : g.meaning = Unknown}}
        \cup (IF Len(config.fields) = Len(paths) THEN {} ELSE {WithAll(config, paths)})
        \cup (IF config.fields = <<>> THEN {} ELSE {Cleared(config)})
        \cup Settings(config)
UpdateQuery(n, config) ==
    /\ BoardAct /\ board' = [board EXCEPT !.configs[n] = config] /\ ResetCompilation
    /\ UNCHANGED <<classified, analyses, proposals, asking, sent, taken>>

(* Proposals outlive the schema they were asked for; applying them only adds. *)
RequestFieldProposals(n) ==
    /\ BoardAct /\ asking = None
    /\ asking' = [field |-> n, paths |-> Paths(OfferedOn(board.schema, n, board.depth))]
    /\ UNCHANGED <<board, classified, analyses, proposals, built, posting, sent, taken>>
FieldsProposed ==
    /\ asking # None /\ asking' = None
    /\ proposals' = [n \in DOMAIN proposals \cup {asking.field} |->
                        IF n = asking.field THEN asking.paths ELSE proposals[n]]
    /\ UNCHANGED <<board, classified, analyses, built, posting, sent, taken, boardActs>>
ProposalsFailed ==
    /\ asking # None /\ asking' = None
    /\ UNCHANGED <<board, classified, analyses, proposals, built, posting, sent, taken, boardActs>>
ApplyFieldProposals(n) ==
    LET config == board.configs[n]
        new == SelectSeq(proposals[n], LAMBDA p : ~Contains(config.fields, p))
    IN  n \in DOMAIN proposals /\ proposals[n] # <<>> /\ UpdateQuery(n, [config EXCEPT !.fields = @ \o new])

-----------------------------------------------------------------------------
BoardSelection(s, depth, r, config) ==
    LET offered == Discovered(s, r, None, depth).offered IN
    [field |-> r.name, purpose |-> config.purpose \/ r.described, dataType |-> r.name, about |-> r.name,
     shape |-> config.shape, rows |-> None, matchKey |-> config.matchKey, scalars |-> config.scalars,
     told |-> [p \in Range(Paths(offered)) |->
                Given(config.meanings, p, (CHOOSE f \in Range(offered) : f.path = p).meaning)]]
BoardEntry(r, config) ==
    LET visitor == Only(r.args, {a \in Range(r.args) : config.modes[a.name] = "visitor"}) IN
    [capability |-> r.name, args |-> [i \in DOMAIN visitor |-> visitor[i].name],
     identity |-> {n \in DOMAIN config.modes : config.modes[n] = "identity"},
     session |-> config.session, shape |-> None, fields |-> config.fields, required |-> config.required,
     levels |-> config.levels, count |-> config.count]
BoardRoots == Only(board.schema.roots, {r \in Range(board.schema.roots) : r.name \in board.chosen})
BoardInventory ==
    InventoryOf(board.schema,
        [i \in DOMAIN BoardRoots |-> BoardSelection(board.schema, board.depth, BoardRoots[i], board.configs[BoardRoots[i].name])],
        board.depth)
BoardDecisions ==
    [hash |-> BoardInventory.hash, meanings |-> <<>>,
     queries |-> [i \in DOMAIN BoardRoots |-> BoardEntry(BoardRoots[i], board.configs[BoardRoots[i].name])]]
BoardCompiles ==
    /\ Inventoriable(board.schema, BoardInventory.selections, board.depth)
    /\ Refusal(board.schema, BoardInventory, BoardDecisions) = None
CompileBoard ==
    /\ BoardAct /\ Loaded
    /\ built' = IF BoardCompiles
                THEN [title |-> board.title, catalog |-> Compiled(board.schema, BoardInventory, BoardDecisions)]
                ELSE None
    /\ UNCHANGED <<board, classified, analyses, proposals, asking, posting, sent, taken>>

PublishBoard ==
    /\ BoardAct /\ built # None /\ posting # "publishing" /\ posting' = "publishing"
    /\ sent' = sent \cup {[id |-> boardActs, schema |-> board.schema, catalog |-> built.catalog]}
    /\ UNCHANGED <<board, classified, analyses, proposals, asking, built, taken>>
(* Another endpoint or credential: what is under way may be posted again. *)
EditEndpoint ==
    /\ built # None /\ posting # "idle" /\ posting' = "idle"
    /\ UNCHANGED <<board, classified, analyses, proposals, asking, built, sent, taken, boardActs>>
BoardAnswered(post, ok) ==
    /\ sent' = sent \ {post} /\ taken' = (IF ok THEN post.catalog ELSE taken)
    /\ posting' = IF ok THEN "published" ELSE "error"
    /\ UNCHANGED <<board, classified, analyses, proposals, asking, built, boardActs>>

BoardNext ==
    \/ \E s \in BoardSchemas : LoadSchema(s)
    \/ \E depth \in Depths \ {board.depth} : SetDiscoveryDepth(depth)
    \/ ClassifyQueriesAgain
    \/ \E call \in analyses :
          \/ QueriesProgress(call)
          \/ \E reads \in Readings : QueriesClassified(call, reads)
          \/ \E batchInFlight \in BOOLEAN : QueriesUnclassified(call, batchInFlight)
    \/ EditCatalog
    \/ Loaded /\ \E n \in RootNames(board.schema) : ToggleQuery(n)
    \/ Loaded /\ \E n \in board.chosen : Configure(n)
    \/ Loaded /\ Editing # None /\
          \/ \E config \in ConfigurationEdits(board.configs[Editing], OfferedOn(board.schema, Editing, board.depth)) :
                UpdateQuery(Editing, config)
          \/ RequestFieldProposals(Editing)
          \/ ApplyFieldProposals(Editing)
    \/ FieldsProposed
    \/ ProposalsFailed
    \/ CompileBoard
    \/ PublishBoard
    \/ EditEndpoint
    \/ \E post \in sent : \E ok \in BOOLEAN : BoardAnswered(post, ok)

BoardSpec == BoardInit /\ [][BoardNext]_boardVars

-----------------------------------------------------------------------------
(* What is compiled is what the desk shows: of the schema and catalog on screen, each
   capability still selected, with the arguments, fields, meanings and access set for it
   now; it can be executed, and so can what is on its way to the host, over the schema
   posted with it.  An analysis answered since may have selected more. *)
AsConfigured(c, n) ==
    LET config == board.configs[n] IN
    /\ n \in board.chosen
    /\ Range(c.args) = {a \in DOMAIN config.modes : config.modes[a] = "visitor"}
    /\ c.identity = {a \in DOMAIN config.modes : config.modes[a] = "identity"}
    /\ c.fields = config.fields /\ c.required = config.required /\ Range(c.required) \subseteq Range(c.fields)
    /\ c.session = config.session /\ c.shape = config.shape
    /\ \A p \in Range(c.fields) \cap DOMAIN config.meanings : c.type.fields[p] = config.meanings[p]
CompiledIsShown ==
    /\ built # None =>
        /\ built.catalog.schema = board.schema /\ built.title = board.title
        /\ DOMAIN built.catalog.capabilities # {} /\ Executable(built.catalog)
        /\ \A n \in DOMAIN built.catalog.capabilities : AsConfigured(built.catalog.capabilities[n], n)
    /\ \A post \in sent : post.schema = post.catalog.schema /\ Executable(post.catalog)

=============================================================================
