----------------------------- MODULE OpenApiCatalog -----------------------------
(***************************************************************************)
(* How an OpenAPI document becomes a catalog of capabilities               *)
(* (capability-catalog/src/openapi.ts): which operations it lists, the     *)
(* inventory of those a host selects, and the compile of what the host     *)
(* approved.  Operators only; who calls them is OpenApiDesk.               *)
(*                                                                         *)
(* A document is a sequence of operations in its order, each               *)
(* [path, method, id, params, media, body, reply], `id` its operationId or *)
(* None.  A parameter is [name, in, required, private], the last whether   *)
(* its name or description reads like a secret.  `media` says what a body  *)
(* is, if there is one ("none", "text", "json"), and `body` the properties *)
(* [name, required, private] of an object, or None.  A reply is            *)
(* [readable, array, fields, items, envelope]: whether it is JSON and      *)
(* never refers to itself, and the properties of the reply, of its         *)
(* elements, and of the elements of its property `items`, or None; a field *)
(* is [name, meaning, private].                                            *)
(***************************************************************************)
EXTENDS CatalogDefinition

Named(list) == {x.name : x \in Range(list)}
OperationKey(op) == <<op.path, IF op.id # None THEN op.id ELSE op.method>>
CandidateKey(op) == <<op.method, op.path>>

(* An object has a name once, so there is one operation to a path and method and one
   property to a name.  Parameters are a list: there one name may come twice. *)
IsDocument(document) ==
    /\ document \in Seq(Range(document))
    /\ ~Repeats([i \in DOMAIN document |-> CandidateKey(document[i])])
    /\ \A op \in Range(document) :
        /\ op.params \in Seq(Range(op.params))
        /\ NamesOnce(op.reply.fields)
        /\ \A list \in {op.body, op.reply.items, op.reply.envelope} : list # None => NamesOnce(list)

-----------------------------------------------------------------------------
(* listOpenApiOperations: an operation is supported when its request can be described
   and its reply has properties under any of the shapes a host may choose. *)
HasReviewableFields(reply) ==
    \/ reply.fields # <<>>
    \/ reply.array /\ reply.items # None /\ reply.items # <<>>
    \/ ~reply.array /\ reply.envelope # None /\ reply.envelope # <<>>
Listable(op) ==
    /\ op.method = "post" => op.media # "text"
    /\ op.reply.readable
    /\ HasReviewableFields(op.reply)

(* findOperation: by operationId the first that has it, else by path and method. *)
Selects(sel, op) ==
    IF sel.id # None THEN op.id = sel.id /\ op.method = sel.method
    ELSE op.path = sel.path /\ op.method = sel.method
Located(document, sel) == document[CHOOSE i \in DOMAIN document :
                              /\ Selects(sel, document[i])
                              /\ \A k \in 1 .. i - 1 : ~Selects(sel, document[k])]

-----------------------------------------------------------------------------
(* createOpenApiCatalogInventory, one selection.  A body that is not an object of
   properties refuses the whole inventory, on a GET as well. *)
Describable(op) == op.reply.readable /\ (op.media = "none" \/ (op.media = "json" /\ op.body # None))

(* reviewItemSchemaFor: where the review takes the fields from. *)
ShownFields(reply, shape) ==
    IF shape \in {"collection", "media-collection"} /\ reply.array /\ reply.items # None THEN reply.items
    ELSE IF shape = "search-results" /\ ~reply.array /\ reply.envelope # None THEN reply.envelope
    ELSE reply.fields

(* reviewParametersFor and reviewBodyParametersFor: headers and cookies are nobody's input. *)
UrlParameters(op) ==
    LET planned == Only(op.params, {p \in Range(op.params) : p.in \in {"query", "path"}})
    IN  [i \in DOMAIN planned |->
            [id |-> <<planned[i].name>>, in |-> planned[i].in, private |-> planned[i].private,
             required |-> planned[i].required \/ planned[i].in = "path"]]
BodyProperties(op) == IF op.body = None THEN <<>> ELSE op.body
BodyParameters(op) ==
    [i \in DOMAIN BodyProperties(op) |->
        [id |-> <<"body", op.body[i].name>>, in |-> "body", private |-> op.body[i].private,
         required |-> op.body[i].required]]
Parameters(op) == UrlParameters(op) \o BodyParameters(op)
OperationReview(document, sel) ==
    LET op == Located(document, sel) IN
    [capability |-> sel.capability, path |-> op.path, method |-> op.method,
     params |-> Parameters(op),
     fields |-> ShownFields(op.reply, sel.shape)]

(* The fingerprint stands for what it is taken of. *)
SourceHash(document, catalog, sels) == <<document, catalog, sels>>
RestInventory(document, catalog, sels) ==
    [hash |-> SourceHash(document, catalog, sels), catalog |-> catalog, selections |-> sels,
     operations |-> [i \in DOMAIN sels |-> OperationReview(document, sels[i])]]
Inventoried(document, sels) == \A sel \in Range(sels) : Describable(Located(document, sel))

-----------------------------------------------------------------------------
(* compileApprovedOpenApiCatalog: the first reason to refuse, in the code's order. *)
Ids(list) == {x.id : x \in Range(list)}
ReviewedAs(inv, n) == LET i == CHOOSE k \in DOMAIN inv.operations : inv.operations[k].capability = n
                                        /\ \A j \in 1 .. k - 1 : inv.operations[j].capability # n
                      IN  inv.operations[i]
DecidedOn(d, n) == {i \in DOMAIN d.operations : d.operations[i].capability = n}
Decision(d, n) == d.operations[CHOOSE i \in DecidedOn(d, n) : TRUE]

ApprovedUrl(d, sel) == {id \in Range(Decision(d, sel.capability).params) : Len(id) = 1}
ApprovedBody(d, sel) == {id[2] : id \in {x \in Range(Decision(d, sel.capability).params) : Len(x) = 2}}

(* projectOutputSchema: where the compiled binding takes the fields from. *)
ReadFields(reply, shape) ==
    IF shape \in ListShapes /\ reply.array /\ reply.items # None THEN reply.items
    ELSE IF shape \in ListShapes /\ ~reply.array /\ reply.envelope # None THEN reply.envelope
    ELSE reply.fields

(* One selection: the approval against the review, and then the import of it. *)
DecisionFaults(inv, d, sel) ==
    IF \A i \in DOMAIN d.operations : DecidedOn(d, sel.capability) # {i} THEN <<"not one decision">>
    ELSE LET review == ReviewedAs(inv, sel.capability)
             e == Decision(d, sel.capability)
         IN  Fault("visitor parameter", ~IsUniqueSubset(e.params, Ids(review.params)))
                 \o Fault("output field", ~IsUniqueSubset(e.fields, Named(review.fields)))
                 \o Fault("no output field", e.fields = <<>>)
RequiredBody(op) == {p.name : p \in {b \in Range(BodyProperties(op)) : b.required}}
ImportFaults(document, d, sel) ==
    LET op == Located(document, sel)
        body == ApprovedBody(d, sel)
    IN  Fault("unknown body parameter", ~(body \subseteq Named(BodyProperties(op))))
            \o Fault("required body parameter", ~(RequiredBody(op) \subseteq body))
            \o Fault("name used twice", \E n \in body : <<n>> \in ApprovedUrl(d, sel))
            \o Fault("field not read",
                       ~(Range(Decision(d, sel.capability).fields) \subseteq Named(ReadFields(op.reply, sel.shape))))
Fails(faults) == \E i \in DOMAIN faults : faults[i] # <<>>
FirstFault(faults) ==
    Head(faults[CHOOSE i \in DOMAIN faults : faults[i] # <<>> /\ \A k \in 1 .. i - 1 : faults[k] = <<>>])
Capable(list) == [i \in DOMAIN list |-> list[i].capability]

(* Of two operations that deliver one data type the first says what it is made of. *)
FirstOfType(inv, sel) ==
    inv.selections[CHOOSE i \in DOMAIN inv.selections :
        /\ inv.selections[i].dataType = sel.dataType
        /\ \A k \in 1 .. i - 1 : inv.selections[k].dataType # sel.dataType]
Fields(d, sel) == Range(Decision(d, sel.capability).fields)
(* validateCapabilityCatalogDefinition, of a catalog that one import made: every approved
   field of a list is offered for filtering, and must be one of its data type. *)
InvalidCatalog(inv, d) ==
    \/ Repeats(Capable(inv.selections))
    \/ \E sel \in Range(inv.selections) :
        \/ \E id \in Range(Decision(d, sel.capability).params) : id[Len(id)] \in sel.session
        \/ sel.shape \in ListShapes /\ ~(Fields(d, sel) \subseteq Fields(d, FirstOfType(inv, sel)))
RestRefusal(document, inv, d) ==
    LET file == Fault("another source", d.hash # inv.hash \/ inv.hash # SourceHash(document, inv.catalog, inv.selections))
                    \o Fault("repeated decision", Repeats(Capable(d.operations)))
                    \o Fault("unknown capability", ~(Range(Capable(d.operations)) \subseteq Range(Capable(inv.operations))))
        decided == [i \in DOMAIN inv.selections |-> DecisionFaults(inv, d, inv.selections[i])]
        imported == [i \in DOMAIN inv.selections |-> ImportFaults(document, d, inv.selections[i])]
    IN  IF file # <<>> THEN Head(file)
        ELSE IF Fails(decided) THEN FirstFault(decided)
        ELSE IF Fails(imported) THEN FirstFault(imported)
        ELSE IF InvalidCatalog(inv, d) THEN "invalid catalog" ELSE None

(* importOpenApiCatalogInventory: what is bound and described. *)
RestBinding(document, inv, d, sel) ==
    LET op == Located(document, sel) IN
    [capability |-> sel.capability, path |-> op.path, method |-> op.method, document |-> document,
     url |-> ApprovedUrl(d, sel), body |-> ApprovedBody(d, sel),
     fields |-> Fields(d, sel), typed |-> Fields(d, FirstOfType(inv, sel)),
     shape |-> sel.shape, session |-> sel.session, dataType |-> sel.dataType,
     public |-> Decision(d, sel.capability).public]
RestCatalog(document, inv, d) ==
    [catalog |-> inv.catalog, bindings |-> {RestBinding(document, inv, d, sel) : sel \in Range(inv.selections)}]

(* detectOpenApiDocumentDrift. *)
DocumentDrift(catalog, document) == {b.capability : b \in {x \in catalog.bindings : x.document # document}}

=============================================================================
