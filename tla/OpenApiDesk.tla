----------------------------- MODULE OpenApiDesk -----------------------------
(***************************************************************************)
(* The desk at which a host reviews a REST API                             *)
(* (apps/catalog-review/src/main.tsx): a document is loaded, its           *)
(* operations are analysed for their effect while the reviewer works on,   *)
(* some are chosen and configured, their fields and parameters are         *)
(* approved, and what compiles is posted to the host.  The page may be     *)
(* reloaded, and a draft kept in the browser restored.  The host judges    *)
(* effects as capability-catalog/src/operation-effect.ts does.             *)
(*                                                                         *)
(* An operation has besides what OpenApiCatalog says `noun`, the name that *)
(* its default capability and data type are made of, and `effect`, what    *)
(* its publisher says it does, or None.  The pages of the desk can be      *)
(* turned at any time and are left out.                                    *)
(***************************************************************************)
EXTENDS OpenApiCatalog

CONSTANTS
    Documents,      \* what may be loaded
    Opinions,       \* what a model may say of an operation, by candidate key
    ConfigEdits,    \* [field, value]: what a reviewer may set on an operation
    BatchSize,      \* MAX_OPERATIONS_PER_BATCH, which the tokens may lower
    MaxDeskActs     \* bound on what the reviewer does

(* Why a compile may be refused. *)
Refusals == {"another source", "repeated decision", "unknown capability", "not one decision", "visitor parameter",
             "output field", "no output field", "unknown body parameter", "required body parameter", "name used twice",
             "field not read", "invalid catalog"}

ASSUME OpenApiDeskAssumption ==
    /\ BatchSize \in Nat \ {0} /\ MaxDeskActs \in Nat
    /\ \A document \in Documents : IsDocument(document)
    /\ None \notin Refusals

VARIABLES
    screen,     \* [document, catalog, configs, chosen]
    stored,     \* the draft in localStorage, or None
    remember,   \* whether the draft is kept there
    analysis,   \* [status, effects], the latter when it is ready
    calls,      \* analyses under way: [id, document, next, flying, failed, effects]
    judged,     \* the host's cache: effects by operation
    review, approval,   \* the inventory under review and the decisions on it, or None
    ticked,     \* what was approved by hand in this review
    publishing, \* idle, publishing, published or error
    posts,      \* posts not answered yet: [id, catalog, ticked, awaited]
    host,       \* the last catalog the host took, or None
    deskActs

inDesk == <<screen, remember, analysis, calls, judged, review, approval, ticked, publishing, posts, host, deskActs>>
deskVars == <<inDesk, stored>>

Blank == [document |-> None, catalog |-> None, configs |-> <<>>, chosen |-> {}]
DeskInit ==
    /\ screen = Blank /\ stored = None /\ remember = FALSE
    /\ analysis = [status |-> "idle", effects |-> <<>>] /\ calls = {} /\ judged = <<>>
    /\ review = None /\ approval = None /\ ticked = {}
    /\ publishing = "idle" /\ posts = {} /\ host = None
    /\ deskActs = 0

(* The draft is written after every change while it is kept. *)
DraftKept == stored' = IF remember' /\ screen'.document # None THEN screen' ELSE stored

-----------------------------------------------------------------------------
(* What the host answers for a batch (classifyOperationEffects): what the publisher says,
   what it has cached, what the model says of all the others, or a cautious guess. *)
Guess(op) == IF op.method = "get" THEN "read" ELSE "ambiguous"
Pending(batch) == {op \in Range(batch) : op.effect = None /\ op \notin DOMAIN judged}
Judgement(op, opinion, whole) ==
    IF op.effect # None THEN op.effect
    ELSE IF op \in DOMAIN judged THEN judged[op]
    ELSE IF whole THEN opinion[CandidateKey(op)] ELSE Guess(op)
Judge(batch, opinion, whole) ==
    judged' = IF ~whole THEN judged
              ELSE [op \in DOMAIN judged \cup Pending(batch) |-> Judgement(op, opinion, TRUE)]

(* batchOperations and requestOperationClassifications: two batches at a time. *)
Batch(document, b) ==
    SubSeq(document, (b - 1) * BatchSize + 1, IF b * BatchSize < Len(document) THEN b * BatchSize ELSE Len(document))
Batches(document) == (Len(document) + BatchSize - 1) \div BatchSize
Analysing(document) ==
    [id |-> deskActs, document |-> document, next |-> IF Batches(document) < 2 THEN 2 ELSE 3,
     flying |-> IF Batches(document) < 2 THEN {1} ELSE {1, 2}, failed |-> FALSE, effects |-> <<>>]
Classify(document) ==
    /\ analysis' = [status |-> "classifying", effects |-> <<>>]
    /\ calls' = calls \cup {Analysing(document)}

EffectsOf(batch, opinion, whole) ==
    [key \in {CandidateKey(op) : op \in Range(batch)} |->
        Judgement(CHOOSE op \in Range(batch) : CandidateKey(op) = key, opinion, whole)]
Suggested(document, effects) ==
    {OperationKey(op) : op \in {x \in Range(document) : Listable(x) /\ effects[CandidateKey(x)] = "read"}}

(* An answer counts as progress, whichever document it is of and whatever became of the
   rest of its analysis; the last one is the analysis. *)
BatchAnswered(call, b, opinion, whole) ==
    LET batch == Batch(call.document, b)
        more == call.next <= Batches(call.document)
        after == [call EXCEPT !.flying = (@ \ {b}) \cup (IF more THEN {call.next} ELSE {}),
                              !.next = IF more THEN @ + 1 ELSE @,
                              !.effects = EffectsOf(batch, opinion, whole) @@ @]
        done == after.flying = {}
    IN  /\ Judge(batch, opinion, whole)
        /\ calls' = (calls \ {call}) \cup (IF done THEN {} ELSE {after})
        /\ IF done /\ ~call.failed
           THEN /\ analysis' = [status |-> "ready", effects |-> after.effects]
                /\ screen' = [screen EXCEPT !.chosen = @ \cup Suggested(call.document, after.effects)]
           ELSE analysis' = [status |-> "classifying", effects |-> <<>>] /\ UNCHANGED screen
        /\ UNCHANGED <<remember, review, approval, ticked, publishing, posts, host, deskActs>> /\ DraftKept
BatchFailed(call, b) ==
    LET after == [call EXCEPT !.flying = @ \ {b}, !.failed = TRUE] IN
    /\ calls' = (calls \ {call}) \cup (IF after.flying = {} THEN {} ELSE {after})
    /\ analysis' = IF call.failed THEN analysis ELSE [status |-> "failed", effects |-> <<>>]
    /\ UNCHANGED <<screen, remember, judged, review, approval, ticked, publishing, posts, host, deskActs>> /\ DraftKept

-----------------------------------------------------------------------------
DeskAct == deskActs < MaxDeskActs /\ deskActs' = deskActs + 1
ResetReview == review' = None /\ approval' = None /\ ticked' = {} /\ publishing' = "idle"

DefaultConfig(op) == [capability |-> op.noun, dataType |-> op.noun, shape |-> "collection", session |-> {}]
KeysIn(document) == {OperationKey(op) : op \in Range(document)}
OpAt(document, key) ==      \* of two with one key the last is configured
    document[CHOOSE i \in DOMAIN document :
        OperationKey(document[i]) = key /\ \A k \in i + 1 .. Len(document) : OperationKey(document[k]) # key]
LoadDocument(document) ==
    /\ DeskAct /\ document # <<>>
    /\ screen' = [document |-> document, catalog |-> "first", chosen |-> {},
                  configs |-> [key \in KeysIn(document) |-> DefaultConfig(OpAt(document, key))]]
    /\ ResetReview /\ Classify(document)
    /\ UNCHANGED <<remember, judged, posts, host>> /\ DraftKept
ClassifyAgain ==
    /\ DeskAct /\ screen.document # None /\ analysis.status # "classifying"
    /\ Classify(screen.document)
    /\ UNCHANGED <<screen, remember, judged, review, approval, ticked, publishing, posts, host>> /\ DraftKept

CanChoose(op) ==
    /\ analysis.status = "ready" /\ Listable(op)
    /\ CandidateKey(op) \in DOMAIN analysis.effects /\ analysis.effects[CandidateKey(op)] = "read"
ToggleOperation(op) ==
    /\ DeskAct /\ CanChoose(op)
    /\ screen' = [screen EXCEPT !.chosen = IF OperationKey(op) \in @ THEN @ \ {OperationKey(op)} ELSE @ \cup {OperationKey(op)}]
    /\ ResetReview
    /\ UNCHANGED <<remember, analysis, calls, judged, posts, host>> /\ DraftKept
SelectSuggestedReads ==
    /\ DeskAct /\ analysis.status = "ready"
    /\ screen' = [screen EXCEPT !.chosen = @ \cup {OperationKey(op) : op \in {x \in Range(screen.document) : CanChoose(x)}}]
    /\ UNCHANGED <<remember, analysis, calls, judged, review, approval, ticked, publishing, posts, host>> /\ DraftKept

UpdateUnnoticed(key, edit) ==     \* a slip: an edit leaves the review of what it changes
    /\ DeskAct /\ screen' = [screen EXCEPT !.configs[key][edit.field] = edit.value]
    /\ UNCHANGED <<remember, analysis, calls, judged, review, approval, ticked, publishing, posts, host>> /\ DraftKept
UpdateOperation(key, edit) ==
    /\ DeskAct /\ screen' = [screen EXCEPT !.configs[key][edit.field] = edit.value]
    /\ ResetReview
    /\ UNCHANGED <<remember, analysis, calls, judged, posts, host>> /\ DraftKept
UpdateCatalog ==
    /\ DeskAct /\ screen.document # None /\ screen' = [screen EXCEPT !.catalog = "second"]
    /\ ResetReview
    /\ UNCHANGED <<remember, analysis, calls, judged, posts, host>> /\ DraftKept

-----------------------------------------------------------------------------
(* createOptions: the operations chosen, in the document's order, as configured. *)
SelectionOf(s, op) ==
    LET config == s.configs[OperationKey(op)] IN
    [id |-> op.id, path |-> op.path, method |-> op.method, capability |-> config.capability,
     dataType |-> config.dataType, shape |-> config.shape, session |-> config.session]
ChosenOps(s) == Only(s.document, {op \in Range(s.document) : OperationKey(op) \in s.chosen})
SelectionsOf(s) == LET ops == ChosenOps(s) IN [i \in DOMAIN ops |-> SelectionOf(s, ops[i])]

(* newApproval: what does not read like a secret, is understood and addresses no record. *)
SafeParameter(p) == p.in # "path" /\ ~p.private
AnyField(f) == ~f.private         \* a slip: a field nobody understands is on by default
SafeField(f) == f.meaning # "unknown" /\ ~f.private
NewApproval(inv) ==
    [hash |-> inv.hash, operations |-> [i \in DOMAIN inv.operations |->
        LET op == inv.operations[i]
            params == Only(op.params, {p \in Range(op.params) : SafeParameter(p)})
            fields == Only(op.fields, {f \in Range(op.fields) : SafeField(f)})
        IN  [capability |-> op.capability, public |-> FALSE,
             params |-> [k \in DOMAIN params |-> params[k].id],
             fields |-> [k \in DOMAIN fields |-> fields[k].name]]]]

StartReview ==
    LET sels == SelectionsOf(screen) IN
    /\ DeskAct /\ screen.document # None /\ sels # <<>> /\ Inventoried(screen.document, sels)
    /\ review' = RestInventory(screen.document, screen.catalog, sels)
    /\ approval' = NewApproval(review') /\ ticked' = {}
    /\ UNCHANGED <<screen, remember, analysis, calls, judged, publishing, posts, host>> /\ DraftKept

Access == <<"access", "public">>
(* A tick goes to every entry of the capability. *)
Ticking(list, x) == IF x \in Range(list) THEN Only(list, Range(list) \ {x}) ELSE Append(list, x)
Retick(n, x) == ticked' = IF <<n, x>> \in ticked THEN ticked \ {<<n, x>>} ELSE ticked \cup {<<n, x>>}
Decide(operations) ==
    /\ DeskAct /\ review # None
    /\ approval' = [approval EXCEPT !.operations = operations]
    /\ UNCHANGED <<screen, remember, analysis, calls, judged, review, publishing, posts, host>> /\ DraftKept
ApprovalWith(n, changed) ==
    [i \in DOMAIN approval.operations |->
        IF approval.operations[i].capability = n THEN changed[i] ELSE approval.operations[i]]
ToggleParameter(n, id) ==
    /\ Decide(ApprovalWith(n, [i \in DOMAIN approval.operations |->
                            [approval.operations[i] EXCEPT !.params = Ticking(@, id)]]))
    /\ Retick(n, id)
ToggleField(n, name) ==
    /\ Decide(ApprovalWith(n, [i \in DOMAIN approval.operations |->
                            [approval.operations[i] EXCEPT !.fields = Ticking(@, name)]]))
    /\ Retick(n, <<"field", name>>)
SetAuthentication(n) ==
    /\ Decide(ApprovalWith(n, [i \in DOMAIN approval.operations |-> [approval.operations[i] EXCEPT !.public = ~@]]))
    /\ Retick(n, Access)

Compiles == review # None /\ RestRefusal(screen.document, review, approval) = None
PublishApproved ==
    /\ DeskAct /\ Compiles /\ publishing # "publishing"
    /\ publishing' = "publishing"
    /\ posts' = posts \cup {[id |-> deskActs, ticked |-> ticked, awaited |-> TRUE, review |-> review,
                             catalog |-> RestCatalog(screen.document, review, approval)]}
    /\ UNCHANGED <<screen, remember, analysis, calls, judged, review, approval, ticked, host>> /\ DraftKept
PublishAnswered(post, ok) ==
    /\ posts' = posts \ {post}
    /\ host' = IF ok THEN post.catalog ELSE host
    /\ publishing' = IF ~post.awaited THEN publishing ELSE IF ok THEN "published" ELSE "error"
    /\ UNCHANGED <<screen, remember, analysis, calls, judged, review, approval, ticked, deskActs>> /\ DraftKept

-----------------------------------------------------------------------------
(* A page that goes takes all but the draft with it; the posts are on their way. *)
Reload ==
    /\ DeskAct /\ screen # Blank
    /\ screen' = Blank /\ remember' = FALSE /\ ResetReview
    /\ analysis' = [status |-> "idle", effects |-> <<>>] /\ calls' = {}
    /\ posts' = {[post EXCEPT !.awaited = FALSE] : post \in posts}
    /\ UNCHANGED <<judged, host>> /\ DraftKept
Remember ==
    /\ DeskAct /\ screen.document # None /\ remember' = ~remember
    /\ UNCHANGED <<screen, analysis, calls, judged, review, approval, ticked, publishing, posts, host>> /\ DraftKept
RestoreDraft ==
    /\ DeskAct /\ screen.document = None /\ stored # None
    /\ screen' = stored /\ remember' = TRUE /\ ResetReview /\ Classify(stored.document)
    /\ UNCHANGED <<judged, posts, host>> /\ DraftKept

ClearStoredDraft ==
    /\ DeskAct /\ stored # None /\ stored' = None /\ remember' = FALSE
    /\ UNCHANGED <<screen, analysis, calls, judged, review, approval, ticked, publishing, posts, host>>

DeskNext ==
    \/ \E d \in Documents : LoadDocument(d)
    \/ ClassifyAgain
    \/ \E call \in calls : \E b \in call.flying : \E opinion \in Opinions, whole \in BOOLEAN :
          BatchAnswered(call, b, opinion, whole)
    \/ \E call \in calls : \E b \in call.flying : BatchFailed(call, b)
    \/ screen.document # None /\ \E op \in Range(screen.document) : ToggleOperation(op)
    \/ SelectSuggestedReads
    \/ \E key \in DOMAIN screen.configs : \E edit \in ConfigEdits : UpdateOperation(key, edit)
    \/ UpdateCatalog
    \/ StartReview
    \/ review # None /\ \E op \in Range(review.operations) :
          \/ \E p \in Range(op.params) : ToggleParameter(op.capability, p.id)
          \/ \E f \in Range(op.fields) : ToggleField(op.capability, f.name)
          \/ SetAuthentication(op.capability)
    \/ PublishApproved
    \/ \E post \in posts : \E ok \in BOOLEAN : PublishAnswered(post, ok)
    \/ Reload
    \/ Remember
    \/ RestoreDraft
    \/ ClearStoredDraft

DeskSpec == DeskInit /\ [][DeskNext]_deskVars

-----------------------------------------------------------------------------
(* The review in hand is the review of what is on the screen: of the document, the
   catalog and the operations still chosen, as they are configured now, with one
   decision for each; so it compiles or is refused for something the reviewer said. *)
ReviewIsOfScreen ==
    review # None =>
        /\ review.hash = SourceHash(screen.document, screen.catalog, review.selections)
        /\ \A sel \in Range(review.selections) :
            \E op \in Range(ChosenOps(screen)) : sel = SelectionOf(screen, op)
        /\ RestRefusal(screen.document, review, approval)
            \notin {"another source", "unknown capability", "not one decision"}

(* What is posted was approved: every operation in it can be called and read as it is
   bound, and what its review shows is exposed only where it is understood and does not
   read like a secret, or the reviewer ticked it in that same review; parameters of one
   name are ticked together.  Where the review and the binding take the fields from
   different places nothing is promised of them. *)
SameFields(reply, shape) == ShownFields(reply, shape) = ReadFields(reply, shape)
WasApproved(b, tickedThen) ==
    LET op == CHOOSE x \in Range(b.document) : CandidateKey(x) = <<b.method, b.path>>
        fields == {f \in Range(ReadFields(op.reply, b.shape)) : f.name \in b.fields}
        offered == Range(Parameters(op))
        params == {p \in offered : p.id \in b.url \/ (p.in = "body" /\ p.id[2] \in b.body)}
    IN  /\ b.fields # {} /\ b.fields = {f.name : f \in fields}
        /\ b.shape \in ListShapes => b.fields \subseteq b.typed
        /\ {p.id[2] : p \in {x \in Range(BodyParameters(op)) : x.required}} \subseteq b.body
        /\ \A n \in b.body : <<n>> \notin b.url
        /\ \A p \in params : \/ \E q \in offered : (q.id = p.id /\ SafeParameter(q))
                              \/ <<b.capability, p.id>> \in tickedThen
        /\ SameFields(op.reply, b.shape) =>
            \A f \in fields : (f.meaning # "unknown" /\ ~f.private) \/ <<b.capability, <<"field", f.name>>>> \in tickedThen
        /\ b.public <=> <<b.capability, Access>> \in tickedThen
PostedWasApproved == \A post \in posts : \A b \in post.catalog.bindings : WasApproved(b, post.ticked)

=============================================================================
