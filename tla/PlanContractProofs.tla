--------------------------- MODULE PlanContractProofs ---------------------------
(* For every published catalog, surface and draft: what the contract closes, validation
   never refuses, and what the prompt shows the schema takes; a plan that passes both asks
   nothing an executor must refuse; and the narrowing to a surface withholds no capability
   a valid plan of the whole catalog uses. *)
EXTENDS PlanContract, FiniteSetTheorems, TLAPS

-----------------------------------------------------------------------------
(* The reachable states: a contract is the one the world asks for, a verdict the one the
   contract and the world come to. *)
Verdict ==
    IF ~Legal(contract, draft) THEN "schema"
    ELSE IF draft.status # "ready" THEN draft.status
    ELSE IF Issues(world, draft) # {} THEN "invalid" ELSE "ready"
Judged ==
    /\ world \in Worlds
    /\ contract # None => contract = ContractOf(world, asked)
    /\ draft # None => draft \in Drafts /\ contract = ContractOf(world, asked)
    /\ verdict # None => draft # None /\ verdict = Verdict
    /\ outcome # None =>
        /\ verdict = "ready"
        /\ outcome = IF Runs(world, draft) THEN "ran" ELSE "INVALID_QUERY"

LEMMA JudgedInit == Init => Judged
BY DEF Init, Judged

LEMMA JudgedStep == Judged /\ [Next]_vars => Judged'
<1> SUFFICES ASSUME Judged, [Next]_vars PROVE Judged'
  OBVIOUS
<1>1. CASE Advertise
  <2>1. contract' = ContractOf(world, asked) /\ UNCHANGED <<world, asked, draft, verdict, outcome>>
    BY <1>1 DEF Advertise
  <2>2. contract = None
    BY <1>1 DEF Advertise
  <2>3. CASE draft = None
    BY <2>1, <2>3 DEF Judged
  <2>4. CASE draft # None
    <3>1. contract' = contract
      BY <2>1, <2>4 DEF Judged
    <3> QED BY <3>1, <2>1 DEF Judged, Verdict
  <2> QED BY <2>3, <2>4
<1>2. CASE Answer
  <2>1. draft' \in Drafts /\ draft = None /\ contract # None
    BY <1>2 DEF Answer
  <2>2. UNCHANGED <<world, asked, contract, verdict, outcome>>
    BY <1>2 DEF Answer
  <2>3. verdict = None /\ outcome = None
    BY <2>1, PlanContractAssumption DEF Judged
  <2> QED BY <2>1, <2>2, <2>3 DEF Judged
<1>3. CASE Judge
  <2>1. draft # None /\ verdict' = Verdict /\ verdict = None
    BY <1>3 DEF Judge, Verdict
  <2>2. UNCHANGED <<world, asked, contract, draft, outcome>>
    BY <1>3 DEF Judge
  <2>3. outcome = None
    BY <2>1, PlanContractAssumption DEF Judged
  <2>4. Verdict' = Verdict
    BY <2>2 DEF Verdict
  <2> QED BY <2>1, <2>2, <2>3, <2>4 DEF Judged
<1>4. CASE Execute
  <2>1. verdict = "ready" /\ outcome' = IF Runs(world, draft) THEN "ran" ELSE "INVALID_QUERY"
    BY <1>4 DEF Execute
  <2>2. UNCHANGED <<world, asked, contract, draft, verdict>>
    BY <1>4 DEF Execute
  <2>3. Verdict' = Verdict
    BY <2>2 DEF Verdict
  <2> QED BY <2>1, <2>2, <2>3 DEF Judged
<1>5. CASE UNCHANGED vars
  BY <1>5 DEF vars, Judged, Verdict
<1> QED BY <1>1, <1>2, <1>3, <1>4, <1>5 DEF Next

LEMMA JudgedHolds == Spec => []Judged
BY JudgedInit, JudgedStep, PTL DEF Spec

-----------------------------------------------------------------------------
(* What a request that keeps to the offer of its capability may ask. *)
Keeps(w, c, q) == LegalQuery(QueryOffer(w, c), q)

LEMMA CeilingIsNumber ==
    ASSUME NEW w \in Worlds, NEW n \in DOMAIN w.capabilities
    PROVE  /\ LimitCeiling(w.capabilities[n]) \in Nat
           /\ w.capabilities[n].page # None => LimitCeiling(w.capabilities[n]) <= w.capabilities[n].page
<1> DEFINE c == w.capabilities[n]
           declared == IF c.maximum = None THEN DefaultMaxRows ELSE c.maximum
<1>1. c.maximum \in Bounds /\ c.page \in Bounds
  BY PlanContractAssumption DEF Published
<1>2. declared \in Nat
  BY <1>1, PlanContractAssumption DEF Bounds
<1>3. LimitCeiling(c) = IF c.page = None THEN declared ELSE IF declared <= c.page THEN declared ELSE c.page
  BY DEF LimitCeiling, Smaller
<1>4. c.page # None => c.page \in Nat
  BY <1>1 DEF Bounds
<1> HIDE DEF declared
<1> QED BY <1>2, <1>3, <1>4

(* An offer takes nothing its capability does not have. *)
LEMMA OfferWithin ==
    ASSUME NEW w \in Worlds, NEW n \in DOMAIN w.capabilities
    PROVE  LET c == w.capabilities[n] offer == QueryOffer(w, c) IN
           /\ offer.filter \subseteq c.filter /\ offer.group \subseteq c.group
           /\ offer.ops \subseteq c.ops /\ offer.sort \subseteq c.sort
           /\ offer.numeric = NumericFields(w, c.type) /\ offer.project = FieldsOf(w, c.type)
           /\ offer.offset => c.paging
           /\ offer.limit \in Nat /\ offer.limit <= LimitCeiling(c)
<1> DEFINE c == w.capabilities[n]
           offer == QueryOffer(w, c)
<1>1. c.source \subseteq c.filter
  BY PlanContractAssumption DEF Published
<1>2. offer = [filter |-> IF Listed(c) THEN (IF c.source # {} THEN c.source ELSE c.filter) ELSE {},
               group |-> IF Listed(c) THEN c.group ELSE {},
               ops |-> IF Listed(c) THEN c.ops ELSE {},
               numeric |-> NumericFields(w, c.type),
               sort |-> IF Listed(c) THEN c.sort ELSE {},
               project |-> FieldsOf(w, c.type),
               offset |-> Listed(c) /\ c.paging,
               limit |-> IF Listed(c) THEN LimitCeiling(c) ELSE 0]
  BY DEF QueryOffer, OffersLists, OfferedCeiling
<1>3. LimitCeiling(c) \in Nat
  BY CeilingIsNumber
<1> HIDE DEF c, offer
<1>4. offer.filter \subseteq c.filter /\ offer.group \subseteq c.group /\ offer.ops \subseteq c.ops /\ offer.sort \subseteq c.sort
  BY <1>1, <1>2
<1>5. offer.numeric = NumericFields(w, c.type) /\ offer.project = FieldsOf(w, c.type) /\ (offer.offset => c.paging)
  BY <1>2
<1>6. offer.limit \in Nat /\ offer.limit <= LimitCeiling(c)
  BY <1>2, <1>3
<1> QED BY <1>4, <1>5, <1>6 DEF c, offer

LEMMA FilterHonoured ==
    ASSUME NEW w \in Worlds, NEW n \in DOMAIN w.capabilities, NEW filter,
           filter # None => filter.depth \in Nat,
           LegalFilter(QueryOffer(w, w.capabilities[n]), filter)
    PROVE  FilterIssues(w, w.capabilities[n], filter) \subseteq {"operator", "value", "leaves"}
<1> DEFINE c == w.capabilities[n]
           offer == QueryOffer(w, c)
<1> SUFFICES ASSUME filter # None PROVE FilterIssues(w, c, filter) \subseteq {"operator", "value", "leaves"}
  BY DEF FilterIssues
<1>1. offer.filter \subseteq c.filter
  BY OfferWithin
<1>2. /\ filter.depth <= OfferedDepth /\ filter.conditions # {}
      /\ \A x \in filter.conditions : x.field \in offer.filter
  BY DEF LegalFilter
<1> HIDE DEF offer, c
<1>3. \A x \in filter.conditions : ConditionIssues(w, c, x) \subseteq {"operator", "value"}
  BY <1>1, <1>2 DEF ConditionIssues, When
<1>4. ~(filter.depth > OfferedDepth + 1)
  BY <1>2, PlanContractAssumption
<1>5. FilterIssues(w, c, filter) =
        When(filter.leaves > MaxLeaves, "leaves") \cup UNION {ConditionIssues(w, c, x) : x \in filter.conditions}
  BY <1>2, <1>4 DEF FilterIssues, When
<1> QED BY <1>3, <1>5 DEF When

LEMMA AggregateHonoured ==
    ASSUME NEW w \in Worlds, NEW n \in DOMAIN w.capabilities, NEW q, NEW a \in q.aggregates,
           Keeps(w, w.capabilities[n], q)
    PROVE  AggregateIssues(w, w.capabilities[n], q, a) \subseteq {"count of a field", "aggregate field", "column twice"}
<1> DEFINE c == w.capabilities[n]
           offer == QueryOffer(w, c)
<1>1. a.op \in offer.ops
  BY DEF Keeps, LegalQuery, LegalAggregate
<1>2. a.op \in c.ops
  BY <1>1, OfferWithin
<1> HIDE DEF offer, c
<1> QED BY <1>2 DEF AggregateIssues, When, c

(* What a query that keeps to its offer may still get wrong. *)
Unsayable ==
    {"operator", "value", "leaves", "count of a field", "aggregate field", "column twice", "aggregated column"}
LEMMA QueryHonoured ==
    ASSUME NEW w \in Worlds, NEW n \in DOMAIN w.capabilities, NEW q,
           q.filter # None => q.filter.depth \in Nat,
           Keeps(w, w.capabilities[n], q)
    PROVE  QueryIssues(w, w.capabilities[n], q) \subseteq Unsayable
<1> DEFINE c == w.capabilities[n]
           offer == QueryOffer(w, c)
<1>1. /\ offer.group \subseteq c.group /\ offer.sort \subseteq c.sort
      /\ offer.project = FieldsOf(w, c.type) /\ (offer.offset => c.paging)
      /\ offer.limit \in Nat /\ offer.limit <= LimitCeiling(c)
  BY OfferWithin
<1>2. /\ q.group \subseteq offer.group /\ q.sort \subseteq offer.sort /\ q.project \subseteq offer.project
      /\ (q.offset => offer.offset) /\ (q.limit # None => q.limit \in 1 .. offer.limit)
  BY DEF Keeps, LegalQuery
<1>3. FilterIssues(w, c, q.filter) \subseteq Unsayable
  BY FilterHonoured DEF Keeps, LegalQuery, Unsayable
<1>4. \A a \in q.aggregates : AggregateIssues(w, c, q, a) \subseteq Unsayable
  BY AggregateHonoured DEF Unsayable
<1>5. LimitCeiling(c) \in Nat
  BY CeilingIsNumber
<1> HIDE DEF offer, c
<1>6. When(~(q.group \subseteq c.group), "group field") = {}
  BY <1>1, <1>2 DEF When
<1>7. When(~(q.sort \subseteq SortColumns(c, q)), Issue(q, "sort field")) \subseteq Unsayable
  BY <1>1, <1>2 DEF When, SortColumns, Issue, Unsayable
<1>8. When(~(q.project \subseteq ProjectColumns(w, c, q)), Issue(q, "project field")) \subseteq Unsayable
  BY <1>1, <1>2 DEF When, ProjectColumns, Issue, Unsayable
<1>9. When(q.offset /\ ~c.paging, "offset") = {}
  BY <1>1, <1>2 DEF When
<1>10. When(q.limit # None /\ q.limit > LimitCeiling(c), "limit") = {}
  BY <1>1, <1>2, <1>5 DEF When
<1> DEFINE ofAggregates == UNION {AggregateIssues(w, c, q, a) : a \in q.aggregates}
<1>11. ofAggregates \subseteq Unsayable
  BY <1>4
<1>12. QueryIssues(w, c, q) = FilterIssues(w, c, q.filter)
           \cup When(~(q.group \subseteq c.group), "group field")
           \cup ofAggregates
           \cup When(~(q.sort \subseteq SortColumns(c, q)), Issue(q, "sort field"))
           \cup When(~(q.project \subseteq ProjectColumns(w, c, q)), Issue(q, "project field"))
           \cup When(q.offset /\ ~c.paging, "offset")
           \cup When(q.limit # None /\ q.limit > LimitCeiling(c), "limit")
  BY SMT DEF QueryIssues, ofAggregates
<1> HIDE DEF ofAggregates
<1> QED BY <1>3, <1>6, <1>7, <1>8, <1>9, <1>10, <1>11, <1>12 DEF c

LEMMA ScopeWithin == \A w : Scope(w) \subseteq DOMAIN w.capabilities
BY DEF Scope

LEMMA ContractIs ==
    ASSUME NEW w, NEW a, NEW k, k = ContractOf(w, a)
    PROVE  /\ DOMAIN k.offers = Scope(w)
           /\ \A c \in Scope(w) : k.offers[c] = QueryOffer(w, w.capabilities[c])
           /\ DOMAIN k.components = w.surface.allowed
           /\ \A x \in w.surface.allowed : k.components[x] = w.components[x]
           /\ k.relationships = OfferedRelationships(w, Scope(w))
           /\ k.most = w.surface.most
BY DEF ContractOf

(* A ready draft that is legal asks nothing of a capability that its offer does not hold. *)
LEMMA LegalKeeps ==
    ASSUME NEW w \in Worlds, NEW d, NEW a, LegalPlan(ContractOf(w, a), d), NEW r \in DOMAIN d.requests
    PROVE  /\ d.requests[r].capability \in Scope(w)
           /\ d.requests[r].capability \in DOMAIN w.capabilities
           /\ Keeps(w, w.capabilities[d.requests[r].capability], d.requests[r].query)
<1> DEFINE k == ContractOf(w, a)
<1>1. DOMAIN k.offers = Scope(w) /\ \A c \in Scope(w) : k.offers[c] = QueryOffer(w, w.capabilities[c])
  BY ContractIs
<1>2. d.requests[r].capability \in DOMAIN k.offers /\ LegalQuery(k.offers[d.requests[r].capability], d.requests[r].query)
  BY DEF LegalPlan
<1> HIDE DEF k
<1> QED BY <1>1, <1>2, ScopeWithin DEF Keeps

LEMMA RequestHonoured ==
    ASSUME NEW w \in Worlds, NEW d \in Drafts, NEW a, LegalPlan(ContractOf(w, a), d), NEW r \in DOMAIN d.requests
    PROVE  RequestIssues(w, d, r) \subseteq Unsayable
<1>1. d.requests[r].query.filter # None => d.requests[r].query.filter.depth \in Nat
  BY PlanContractAssumption DEF Written
<1>2. d.requests[r].capability \in DOMAIN w.capabilities
  BY LegalKeeps
<1>3. Keeps(w, w.capabilities[d.requests[r].capability], d.requests[r].query)
  BY LegalKeeps
<1>4. QueryIssues(w, w.capabilities[d.requests[r].capability], d.requests[r].query) \subseteq Unsayable
  BY <1>1, <1>2, <1>3, QueryHonoured
<1> QED BY <1>2, <1>4 DEF RequestIssues

LEMMA CompositionHonoured ==
    ASSUME NEW w \in Worlds, NEW d \in Drafts, NEW a, LegalPlan(ContractOf(w, a), d), NEW x \in DOMAIN d.compositions
    PROVE  CompositionIssues(w, d, d.compositions[x]) \cap Sayable = {}
<1> DEFINE inputs == d.compositions[x].inputs
<1>1. IsFiniteSet(inputs) /\ Cardinality(inputs) >= 2
  BY PlanContractAssumption DEF Written, LegalPlan
<1>2. Cardinality(inputs) \in Nat
  BY <1>1, FS_CardinalityType
<1>3. ~(Cardinality(inputs) < 2)
  BY <1>1, <1>2
<1> DEFINE unknown == ~Declared(d, inputs)
           few == Cardinality(inputs) < 2
           unlike == \E r \in inputs : d.compositions[x].op \notin Of(w, d, r).setOps
           mixed == Cardinality({Of(w, d, r).type : r \in inputs}) > 1
<1>4. CompositionIssues(w, d, d.compositions[x]) =
        IF unknown THEN {"unknown input"}
        ELSE When(few, "too few inputs") \cup When(unlike, "operation of an input") \cup When(mixed, "types of inputs")
  BY DEF CompositionIssues
<1> HIDE DEF unknown, unlike, mixed
<1>5. CompositionIssues(w, d, d.compositions[x]) \subseteq {"unknown input", "operation of an input", "types of inputs"}
  BY <1>3, <1>4 DEF When
<1> QED BY <1>5 DEF Sayable

LEMMA JoinHonoured ==
    ASSUME NEW w \in Worlds, NEW d \in Drafts, NEW a, LegalPlan(ContractOf(w, a), d), NEW x \in DOMAIN d.joins
    PROVE  JoinIssues(w, d, d.joins[x]) \cap Sayable = {}
<1>1. d.joins[x].relationship \in OfferedRelationships(w, Scope(w))
  BY ContractIs DEF LegalPlan
<1>2. d.joins[x].relationship \in DOMAIN w.relationships /\ w.relationships[d.joins[x].relationship].toOne
  BY <1>1 DEF OfferedRelationships
<1> QED BY <1>2 DEF JoinIssues, When, Sayable

LEMMA NodeHonoured ==
    ASSUME NEW w \in Worlds, NEW d \in Drafts, NEW a, LegalPlan(ContractOf(w, a), d), NEW n \in DOMAIN d.nodes
    PROVE  /\ NodeIssues(w, d, n) \cap Sayable = {}
           /\ ChildIssues(w, d, n) \cap Sayable = {}
<1> DEFINE k == ContractOf(w, a)
           node == d.nodes[n]
<1>1. DOMAIN k.components = w.surface.allowed /\ \A x \in w.surface.allowed : k.components[x] = w.components[x]
  BY ContractIs
<1>2. LegalNode(k, d, n)
  BY DEF LegalPlan
<1> HIDE DEF k
<1>3. node.component \in w.surface.allowed /\ DOMAIN node.binds = DOMAIN w.components[node.component].slots
  BY <1>1, <1>2 DEF LegalNode
<1>4. node.under # None =>
        LET children == w.components[d.nodes[node.under.node].component].children IN
        /\ node.under.slot \in DOMAIN children
        /\ children[node.under.slot].one => ChildrenIn(d, node.under.node, node.under.slot) = {n}
  BY <1>1, <1>2 DEF LegalNode
<1>5. ChildIssues(w, d, n) \subseteq {"child"}
  BY <1>4 DEF ChildIssues, When
<1>6. \A s \in DOMAIN node.binds :
        BindingIssues(w, d, w.components[node.component].slots, s, node.binds[s]) \subseteq {"unknown source", "slot"}
  BY <1>3 DEF BindingIssues, When
<1> DEFINE ofBindings == UNION {BindingIssues(w, d, w.components[node.component].slots, s, node.binds[s]) : s \in DOMAIN node.binds}
<1>7. ofBindings \subseteq {"unknown source", "slot"}
  BY <1>6
<1>8. NodeIssues(w, d, n) = When(node.component \notin w.surface.allowed, "component")
         \cup When(~(DOMAIN w.components[node.component].slots \subseteq DOMAIN node.binds), "unbound slot")
         \cup ofBindings
  BY DEF NodeIssues
<1> HIDE DEF ofBindings
<1>9. NodeIssues(w, d, n) \subseteq {"unknown source", "slot"}
  BY <1>3, <1>7, <1>8 DEF When
<1> QED BY <1>5, <1>9 DEF Sayable

LEMMA DraftHonoured ==
    ASSUME NEW w \in Worlds, NEW d \in Drafts, NEW a, LegalPlan(ContractOf(w, a), d)
    PROVE  Issues(w, d) \cap Sayable = {}
<1> DEFINE known == \A r \in DOMAIN d.requests : d.requests[r].capability \in DOMAIN w.capabilities
           ofRequests == UNION {RequestIssues(w, d, r) : r \in DOMAIN d.requests}
           ofCompositions == UNION {CompositionIssues(w, d, d.compositions[c]) : c \in DOMAIN d.compositions}
           ofJoins == UNION {JoinIssues(w, d, d.joins[j]) : j \in DOMAIN d.joins}
           ofNodes == UNION {NodeIssues(w, d, n) : n \in DOMAIN d.nodes}
           ofChildren == UNION {ChildIssues(w, d, n) : n \in DOMAIN d.nodes}
           most == w.surface.most
<1>1. ofRequests \cap Sayable = {}
  <2>1. \A r \in DOMAIN d.requests : RequestIssues(w, d, r) \subseteq Unsayable
    BY RequestHonoured
  <2>2. Unsayable \cap Sayable = {}
    BY DEF Unsayable, Sayable
  <2> QED BY <2>1, <2>2
<1>2. ofCompositions \cap Sayable = {}
  BY CompositionHonoured
<1>3. ofJoins \cap Sayable = {}
  BY JoinHonoured
<1>4. ofNodes \cap Sayable = {}
  BY NodeHonoured
<1>5. ofChildren \cap Sayable = {}
  BY NodeHonoured
<1>6. ~(most # None /\ Cardinality(Tops(d)) > most)
  <2>1. IsFiniteSet(Tops(d))
    BY PlanContractAssumption, FS_Subset DEF Written, Tops
  <2>2. Cardinality(Tops(d)) \in Nat
    BY <2>1, FS_CardinalityType
  <2>3. most # None => most \in Nat
    BY PlanContractAssumption DEF Published, Bounds
  <2>4. most # None => Cardinality(Tops(d)) <= most
    BY ContractIs DEF LegalPlan
  <2> HIDE DEF most
  <2> QED BY <2>2, <2>3, <2>4
<1>7. Issues(w, d) =
        ofRequests \cup (IF ~known THEN {} ELSE ofCompositions \cup ofJoins \cup ofNodes)
          \cup ofChildren
          \cup When(most # None /\ Cardinality(Tops(d)) > most, "too many components")
          \cup When(~(SourcesOf(d) \subseteq Referenced(d)), "unbound source")
          \cup When(NamedTwice(d), "source id twice")
          \cup When(Crowded(w, d), "instances")
  BY DEF Issues
<1> HIDE DEF known, ofRequests, ofCompositions, ofJoins, ofNodes, ofChildren, most
<1>8. Issues(w, d) \subseteq ofRequests \cup ofCompositions \cup ofJoins \cup ofNodes \cup ofChildren
                              \cup {"unbound source", "source id twice", "instances"}
  BY <1>6, <1>7 DEF When
<1> QED BY <1>1, <1>2, <1>3, <1>4, <1>5, <1>8 DEF Sayable

(* What the schema closes, validation never refuses: whatever the catalog, the surface and
   the draft, one that the schema let through fails validation only on what no schema of
   this kind can say (packages/planner/src/contract.ts beside packages/core/src/validate.ts). *)
THEOREM OfferHonoured == Spec => []OfferIsHonoured
<1>1. Judged => OfferIsHonoured
  <2> SUFFICES ASSUME Judged, verdict = "invalid" PROVE Issues(world, draft) \cap Sayable = {}
    BY DEF OfferIsHonoured
  <2>1. verdict # None
    BY PlanContractAssumption
  <2>2. draft \in Drafts /\ world \in Worlds /\ contract = ContractOf(world, asked) /\ verdict = Verdict
    BY <2>1 DEF Judged
  <2>3. draft.status \in {"ready", "needs-clarification", "unsupported"}
    BY <2>2, PlanContractAssumption DEF Written
  <2>4. Legal(contract, draft) /\ draft.status = "ready"
    BY <2>2, <2>3 DEF Verdict
  <2>5. LegalPlan(ContractOf(world, asked), draft)
    BY <2>2, <2>4 DEF Legal
  <2> QED BY <2>2, <2>5, DraftHonoured
<1> QED BY <1>1, JudgedHolds, PTL

-----------------------------------------------------------------------------
(* What is not a list is offered no list operation, so none is written. *)
LEMMA ListsAlone ==
    ASSUME NEW w \in Worlds, NEW n \in DOMAIN w.capabilities, NEW q,
           Keeps(w, w.capabilities[n], q), ListOperations(q)
    PROVE  Listed(w.capabilities[n])
<1> DEFINE c == w.capabilities[n]
           offer == QueryOffer(w, c)
<1> SUFFICES ASSUME ~Listed(c) PROVE FALSE
  OBVIOUS
<1>1. /\ offer.filter = {} /\ offer.group = {} /\ offer.ops = {} /\ offer.sort = {}
      /\ ~offer.offset /\ offer.limit = 0
  BY DEF QueryOffer, OffersLists
<1>2. LegalQuery(offer, q)
  BY DEF Keeps
<1> HIDE DEF offer, c
<1>3. q.filter = None
  BY <1>1, <1>2 DEF LegalQuery, LegalFilter
<1>4. q.group = {} /\ q.aggregates = {} /\ q.sort = {}
  BY <1>1, <1>2 DEF LegalQuery, LegalAggregate
<1>5. ~q.offset /\ q.limit = None
  BY <1>1, <1>2 DEF LegalQuery
<1> QED BY <1>3, <1>4, <1>5 DEF ListOperations, Aggregating

LEMMA LegalRuns ==
    ASSUME NEW w \in Worlds, NEW d \in Drafts, NEW a, LegalPlan(ContractOf(w, a), d)
    PROVE  /\ Runs(w, d)
           /\ \A r \in DOMAIN d.requests :
                LET c == Of(w, d, r) limit == d.requests[r].query.limit
                IN limit # None /\ c.page # None => limit <= c.page
<1>1. Runs(w, d)
  BY LegalKeeps, ListsAlone DEF Runs, Of
<1>2. ASSUME NEW r \in DOMAIN d.requests, d.requests[r].query.limit # None, Of(w, d, r).page # None
      PROVE  d.requests[r].query.limit <= Of(w, d, r).page
  <2> DEFINE n == d.requests[r].capability
             limit == d.requests[r].query.limit
             offer == QueryOffer(w, w.capabilities[n])
  <2>1. n \in DOMAIN w.capabilities
    BY LegalKeeps
  <2>2. limit \in 1 .. offer.limit
    BY <1>2, LegalKeeps DEF Keeps, LegalQuery
  <2>3. offer.limit \in Nat /\ offer.limit <= LimitCeiling(w.capabilities[n])
    BY <2>1, OfferWithin
  <2>4. LimitCeiling(w.capabilities[n]) \in Nat /\ LimitCeiling(w.capabilities[n]) <= w.capabilities[n].page
    BY <1>2, <2>1, CeilingIsNumber DEF Of
  <2>5. w.capabilities[n].page \in Nat
    BY <1>2, <2>1, PlanContractAssumption DEF Published, Bounds, Of
  <2> HIDE DEF offer, limit
  <2>6. limit <= w.capabilities[n].page
    BY <2>2, <2>3, <2>4, <2>5
  <2> QED BY <2>6 DEF limit, Of
<1> QED BY <1>1, <1>2

(* A plan that passed the schema and validation runs: no request of it makes the executor
   refuse a list operation on what is no list, and none asks for more than one page of
   its source holds (data-runtime/src/query.ts beside planning-contract.ts). *)
THEOREM ReadyPlansRun == Spec => []ReadyRuns
<1>1. Judged => ReadyRuns
  <2> SUFFICES ASSUME Judged PROVE ReadyRuns
    OBVIOUS
  <2>1. verdict = "ready" =>
          /\ draft \in Drafts /\ world \in Worlds
          /\ LegalPlan(ContractOf(world, asked), draft)
    <3> SUFFICES ASSUME verdict = "ready"
                 PROVE  draft \in Drafts /\ world \in Worlds /\ LegalPlan(ContractOf(world, asked), draft)
      OBVIOUS
    <3>1. draft \in Drafts /\ world \in Worlds /\ contract = ContractOf(world, asked) /\ verdict = Verdict
      BY PlanContractAssumption DEF Judged
    <3>2. Legal(contract, draft) /\ draft.status = "ready"
      BY <3>1 DEF Verdict
    <3> QED BY <3>1, <3>2 DEF Legal
  <2>2. outcome # "INVALID_QUERY"
    <3>1. CASE outcome = None
      BY <3>1, PlanContractAssumption
    <3>2. CASE outcome # None
      <4>1. verdict = "ready" /\ outcome = IF Runs(world, draft) THEN "ran" ELSE "INVALID_QUERY"
        BY <3>2 DEF Judged
      <4>2. Runs(world, draft)
        BY <4>1, <2>1, LegalRuns
      <4> QED BY <4>1, <4>2
    <3> QED BY <3>1, <3>2
  <2> QED BY <2>1, <2>2, LegalRuns DEF ReadyRuns
<1> QED BY <1>1, JudgedHolds, PTL

-----------------------------------------------------------------------------
(* What it means that validation finds nothing wrong. *)
LEMMA Flawless ==
    ASSUME NEW w, NEW d, Issues(w, d) = {}
    PROVE  /\ \A r \in DOMAIN d.requests : d.requests[r].capability \in DOMAIN w.capabilities
           /\ \A r \in DOMAIN d.requests : RequestIssues(w, d, r) = {}
           /\ \A c \in DOMAIN d.compositions : CompositionIssues(w, d, d.compositions[c]) = {}
           /\ \A j \in DOMAIN d.joins : JoinIssues(w, d, d.joins[j]) = {}
           /\ \A n \in DOMAIN d.nodes : NodeIssues(w, d, n) = {}
           /\ SourcesOf(d) \subseteq Referenced(d)
           /\ ~NamedTwice(d)
<1> DEFINE known == \A r \in DOMAIN d.requests : d.requests[r].capability \in DOMAIN w.capabilities
           ofRequests == UNION {RequestIssues(w, d, r) : r \in DOMAIN d.requests}
           ofCompositions == UNION {CompositionIssues(w, d, d.compositions[c]) : c \in DOMAIN d.compositions}
           ofJoins == UNION {JoinIssues(w, d, d.joins[j]) : j \in DOMAIN d.joins}
           ofNodes == UNION {NodeIssues(w, d, n) : n \in DOMAIN d.nodes}
           ofChildren == UNION {ChildIssues(w, d, n) : n \in DOMAIN d.nodes}
           crowded == w.surface.most # None /\ Cardinality(Tops(d)) > w.surface.most
           unbound == ~(SourcesOf(d) \subseteq Referenced(d))
<1>1. Issues(w, d) =
        ofRequests \cup (IF ~known THEN {} ELSE ofCompositions \cup ofJoins \cup ofNodes)
          \cup ofChildren
          \cup When(crowded, "too many components")
          \cup When(unbound, "unbound source")
          \cup When(NamedTwice(d), "source id twice")
          \cup When(Crowded(w, d), "instances")
  BY DEF Issues
<1> HIDE DEF known, ofRequests, ofCompositions, ofJoins, ofNodes, ofChildren, crowded, unbound
<1>2. ofRequests = {} /\ ~unbound /\ ~NamedTwice(d)
  BY <1>1 DEF When
<1>3. \A r \in DOMAIN d.requests : RequestIssues(w, d, r) = {}
  BY <1>2 DEF ofRequests
<1>4. known
  BY <1>3 DEF RequestIssues, known
<1>5. ofCompositions = {} /\ ofJoins = {} /\ ofNodes = {}
  BY <1>1, <1>4
<1>6. \A c \in DOMAIN d.compositions : CompositionIssues(w, d, d.compositions[c]) = {}
  BY <1>5 DEF ofCompositions
<1>7. \A j \in DOMAIN d.joins : JoinIssues(w, d, d.joins[j]) = {}
  BY <1>5 DEF ofJoins
<1>8. \A n \in DOMAIN d.nodes : NodeIssues(w, d, n) = {}
  BY <1>5 DEF ofNodes
<1> QED BY <1>2, <1>3, <1>4, <1>6, <1>7, <1>8 DEF known, unbound

(* A binding that validation accepts fills a slot the surface shows. *)
LEMMA BoundFits ==
    ASSUME NEW w, NEW d, NEW n \in DOMAIN d.nodes, NEW s \in DOMAIN d.nodes[n].binds,
           NodeIssues(w, d, n) = {}, Declared(d, InputsOf(d, d.nodes[n].binds[s]))
    PROVE  LET slots == w.components[d.nodes[n].component].slots IN
           /\ slots[s] \in SurfaceSlots(w)
           /\ Fits(w, d, slots[s], d.nodes[n].binds[s])
<1> DEFINE node == d.nodes[n]
           slots == w.components[node.component].slots
           ofBindings == UNION {BindingIssues(w, d, slots, t, node.binds[t]) : t \in DOMAIN node.binds}
           unbound == ~(DOMAIN slots \subseteq DOMAIN node.binds)
<1>1. NodeIssues(w, d, n) = When(node.component \notin w.surface.allowed, "component")
         \cup When(unbound, "unbound slot") \cup ofBindings
  BY DEF NodeIssues
<1> HIDE DEF ofBindings, unbound
<1>2. node.component \in w.surface.allowed /\ ofBindings = {}
  BY <1>1 DEF When
<1>3. BindingIssues(w, d, slots, s, node.binds[s]) = {}
  BY <1>2 DEF ofBindings
<1>4. s \in DOMAIN slots /\ Fits(w, d, slots[s], node.binds[s])
  BY <1>3 DEF BindingIssues, When
<1>5. slots[s] \in SurfaceSlots(w)
  <2> DEFINE SlotsOf(k) == {w.components[k].slots[t] : t \in DOMAIN w.components[k].slots}
  <2>1. slots[s] \in SlotsOf(node.component)
    BY <1>4
  <2>2. SurfaceSlots(w) = UNION {SlotsOf(k) : k \in w.surface.allowed}
    BY DEF SurfaceSlots
  <2> HIDE DEF SlotsOf
  <2> QED BY <1>2, <2>1, <2>2
<1> QED BY <1>4, <1>5

LEMMA GroupedFits ==
    ASSUME NEW w, NEW slot, NEW output, NEW grouped, NEW able, grouped => able,
           SlotAccepts(w, slot, output, None, grouped)
    PROVE  SlotAccepts(w, slot, output, None, able)
BY DEF SlotAccepts, Accepts

LEMMA AggregatesCanGroup ==
    ASSUME NEW w, NEW c, NEW q, QueryIssues(w, c, q) = {}, Aggregating(q)
    PROVE  CanGroup(c)
<1> DEFINE ofAggregates == UNION {AggregateIssues(w, c, q, a) : a \in q.aggregates}
<1>1. QueryIssues(w, c, q) = FilterIssues(w, c, q.filter)
           \cup When(~(q.group \subseteq c.group), "group field")
           \cup ofAggregates
           \cup When(~(q.sort \subseteq SortColumns(c, q)), Issue(q, "sort field"))
           \cup When(~(q.project \subseteq ProjectColumns(w, c, q)), Issue(q, "project field"))
           \cup When(q.offset /\ ~c.paging, "offset")
           \cup When(q.limit # None /\ q.limit > LimitCeiling(c), "limit")
  BY DEF QueryIssues
<1> HIDE DEF ofAggregates
<1>2. When(~(q.group \subseteq c.group), "group field") = {} /\ ofAggregates = {}
  BY <1>1
<1>3. q.group \subseteq c.group
  BY <1>2 DEF When
<1>4. \A a \in q.aggregates : AggregateIssues(w, c, q, a) = {}
  BY <1>2 DEF ofAggregates
<1>5. \A a \in q.aggregates : When(a.op \notin c.ops, "aggregate") = {}
  BY <1>4 DEF AggregateIssues
<1>6. \A a \in q.aggregates : a.op \in c.ops
  BY <1>5 DEF When
<1> QED BY <1>3, <1>6 DEF Aggregating, CanGroup

(* A composition or a join is never the input of another: it is bound to a slot. *)
LEMMA DerivedIsBound ==
    ASSUME NEW w, NEW d, Issues(w, d) = {}, NEW x \in DOMAIN d.compositions \cup DOMAIN d.joins
    PROVE  /\ InputsOf(d, x) \subseteq DOMAIN d.requests
           /\ \E n \in DOMAIN d.nodes : \E s \in DOMAIN d.nodes[n].binds : d.nodes[n].binds[s] = x
<1>1. /\ SourcesOf(d) \subseteq Referenced(d) /\ ~NamedTwice(d)
      /\ \A c \in DOMAIN d.compositions : CompositionIssues(w, d, d.compositions[c]) = {}
      /\ \A j \in DOMAIN d.joins : JoinIssues(w, d, d.joins[j]) = {}
  BY Flawless
<1>2. ASSUME NEW c \in DOMAIN d.compositions PROVE InputsOf(d, c) \subseteq DOMAIN d.requests
  <2>1. CompositionIssues(w, d, d.compositions[c]) = {}
    BY <1>1
  <2>2. Declared(d, d.compositions[c].inputs)
    BY <2>1 DEF CompositionIssues
  <2> QED BY <2>2 DEF InputsOf, Declared
<1>3. ASSUME NEW j \in DOMAIN d.joins PROVE InputsOf(d, j) \subseteq DOMAIN d.requests
  <2>1. JoinIssues(w, d, d.joins[j]) = {} /\ j \notin DOMAIN d.compositions
    BY <1>1 DEF NamedTwice
  <2>2. Declared(d, {d.joins[j].left, d.joins[j].right})
    BY <2>1 DEF JoinIssues
  <2> QED BY <2>1, <2>2 DEF InputsOf, Declared
<1>4. \A y \in DOMAIN d.compositions \cup DOMAIN d.joins : InputsOf(d, y) \subseteq DOMAIN d.requests
  BY <1>2, <1>3
<1>5. x \notin DOMAIN d.requests /\ x \in Referenced(d)
  BY <1>1 DEF NamedTwice, SourcesOf
<1>6. x \in Bound(d)
  BY <1>4, <1>5 DEF Referenced
<1> QED BY <1>4, <1>6 DEF Bound

(* What validation accepts of a join is what the scope takes it for. *)
JoinsRightly(w, d, j) ==
    LET join == d.joins[j] IN
    /\ join.relationship \in DOMAIN w.relationships
    /\ w.relationships[join.relationship].toOne
    /\ Of(w, d, join.left).type = w.relationships[join.relationship].from
    /\ Of(w, d, join.right).type = w.relationships[join.relationship].to
LEMMA JoinedRightly ==
    ASSUME NEW w, NEW d, NEW j \in DOMAIN d.joins, JoinIssues(w, d, d.joins[j]) = {}
    PROVE  JoinsRightly(w, d, j)
<1> DEFINE join == d.joins[j]
           relationship == w.relationships[join.relationship]
           sides == Of(w, d, join.left).type # relationship.from \/ Of(w, d, join.right).type # relationship.to
<1>1. join.relationship \in DOMAIN w.relationships
  BY DEF JoinIssues
<1>2. JoinIssues(w, d, join) =
        When(~relationship.toOne, "cardinality of a relationship")
          \cup (IF ~Declared(d, {join.left, join.right}) THEN {"unknown input"}
                ELSE When(join.left = join.right, "one side twice") \cup When(sides, "sides of a join"))
  BY <1>1 DEF JoinIssues
<1> HIDE DEF sides
<1>3. relationship.toOne /\ ~sides
  BY <1>2 DEF When
<1> QED BY <1>1, <1>3 DEF JoinsRightly, sides

(* Whatever slot a dataset of a flawless plan is bound to, the surface shows it. *)
LEMMA DerivedFits ==
    ASSUME NEW w, NEW d, Issues(w, d) = {}, NEW x \in DOMAIN d.compositions \cup DOMAIN d.joins
    PROVE  \E n \in DOMAIN d.nodes : \E s \in DOMAIN d.nodes[n].binds :
              LET slot == w.components[d.nodes[n].component].slots[s] IN
              d.nodes[n].binds[s] = x /\ slot \in SurfaceSlots(w) /\ Fits(w, d, slot, x)
<1>1. PICK n \in DOMAIN d.nodes : \E s \in DOMAIN d.nodes[n].binds : d.nodes[n].binds[s] = x
  BY DerivedIsBound
<1>2. PICK s \in DOMAIN d.nodes[n].binds : d.nodes[n].binds[s] = x
  BY <1>1
<1>3. Declared(d, InputsOf(d, x))
  BY DerivedIsBound DEF Declared
<1>4. NodeIssues(w, d, n) = {}
  BY Flawless
<1> QED BY <1>2, <1>3, <1>4, BoundFits

Joinable(w, d) ==
    \A n \in DOMAIN d.nodes : \A s \in DOMAIN d.nodes[n].binds : FitsUnjoined(w, d, n, s)

(* A request of a flawless plan is in scope: bound as it is, ... *)
LEMMA BoundInScope ==
    ASSUME NEW w, NEW d, Issues(w, d) = {}, NEW r \in DOMAIN d.requests, r \in Bound(d)
    PROVE  Direct(w, Of(w, d, r))
<1>1. PICK n \in DOMAIN d.nodes : \E s \in DOMAIN d.nodes[n].binds : d.nodes[n].binds[s] = r
  BY DEF Bound
<1>2. PICK s \in DOMAIN d.nodes[n].binds : d.nodes[n].binds[s] = r
  BY <1>1
<1>3. r \notin DOMAIN d.compositions /\ r \notin DOMAIN d.joins
  BY Flawless DEF NamedTwice
<1>4. Declared(d, InputsOf(d, r))
  BY <1>3 DEF Declared, InputsOf
<1> DEFINE slot == w.components[d.nodes[n].component].slots[s]
           c == Of(w, d, r)
           q == d.requests[r].query
<1>5. slot \in SurfaceSlots(w) /\ Fits(w, d, slot, r)
  BY <1>2, <1>4, Flawless, BoundFits
<1> HIDE DEF slot
<1>6. SlotAccepts(w, slot, Output(c.type, c.shape), None, Aggregating(q))
  BY <1>3, <1>5 DEF Fits
<1>7. RequestIssues(w, d, r) = {} /\ d.requests[r].capability \in DOMAIN w.capabilities
  BY Flawless
<1>8. QueryIssues(w, c, q) = {}
  BY <1>7 DEF RequestIssues, Of
<1>9. Aggregating(q) => CanGroup(c)
  BY <1>8, AggregatesCanGroup
<1>10. SlotAccepts(w, slot, Output(c.type, c.shape), None, CanGroup(c))
  BY <1>6, <1>9, GroupedFits
<1> QED BY <1>5, <1>10 DEF Direct, AcceptedBySomeSlot

(* ... combined with another, ... *)
LEMMA ComposedInScope ==
    ASSUME NEW w, NEW d, Issues(w, d) = {}, NEW x \in DOMAIN d.compositions, NEW r \in d.compositions[x].inputs
    PROVE  CompositionInput(w, Of(w, d, r))
<1> DEFINE inputs == d.compositions[x].inputs
           op == d.compositions[x].op
           types == {Of(w, d, i).type : i \in inputs}
           foreign == \E i \in inputs : op \notin Of(w, d, i).setOps
           few == Cardinality(inputs) < 2
           mixed == Cardinality(types) > 1
<1>1. CompositionIssues(w, d, d.compositions[x]) = {}
  BY Flawless
<1>2. CompositionIssues(w, d, d.compositions[x]) =
        IF ~Declared(d, inputs) THEN {"unknown input"}
        ELSE When(few, "too few inputs") \cup When(foreign, "operation of an input") \cup When(mixed, "types of inputs")
  BY DEF CompositionIssues
<1> HIDE DEF foreign, few, mixed
<1>3. ~foreign
  BY <1>1, <1>2 DEF When
<1>4. op \in Of(w, d, r).setOps
  BY <1>3 DEF foreign
<1>5. PICK n \in DOMAIN d.nodes : \E s \in DOMAIN d.nodes[n].binds :
              LET slot == w.components[d.nodes[n].component].slots[s] IN
              d.nodes[n].binds[s] = x /\ slot \in SurfaceSlots(w) /\ Fits(w, d, slot, x)
  BY DerivedFits
<1>6. PICK slot \in SurfaceSlots(w) : Fits(w, d, slot, x)
  BY <1>5
<1>7. Of(w, d, r).type \in types
  OBVIOUS
<1>8. \A t \in types : SlotAccepts(w, slot, Output(t, Collection), None, FALSE)
  <2>1. x \notin DOMAIN d.joins
    BY Flawless DEF NamedTwice
  <2>2. Fits(w, d, slot, x) = \A t \in types : SlotAccepts(w, slot, Output(t, Collection), None, FALSE)
    BY <2>1 DEF Fits
  <2> QED BY <1>6, <2>2
<1> HIDE DEF types
<1>9. AsCollection(w, Of(w, d, r).type)
  BY <1>7, <1>8 DEF AsCollection, AcceptedBySomeSlot
<1> QED BY <1>4, <1>9 DEF CompositionInput

(* ... or joined to another, on either side. *)
LEMMA JoinedInScope ==
    ASSUME NEW w, NEW d, Issues(w, d) = {}, Joinable(w, d), NEW j \in DOMAIN d.joins
    PROVE  /\ JoinLeft(w, Of(w, d, d.joins[j].left))
           /\ JoinRight(w, Of(w, d, d.joins[j].right))
<1> DEFINE join == d.joins[j]
           left == Of(w, d, join.left)
           right == Of(w, d, join.right)
           relationship == w.relationships[join.relationship]
<1>1. JoinsRightly(w, d, j) /\ j \notin DOMAIN d.compositions
  BY Flawless, JoinedRightly DEF NamedTwice
<1>2. PICK n \in DOMAIN d.nodes : \E s \in DOMAIN d.nodes[n].binds :
              LET slot == w.components[d.nodes[n].component].slots[s] IN
              d.nodes[n].binds[s] = j /\ slot \in SurfaceSlots(w) /\ Fits(w, d, slot, j)
  BY DerivedFits
<1>3. PICK s \in DOMAIN d.nodes[n].binds :
              LET slot == w.components[d.nodes[n].component].slots[s] IN
              d.nodes[n].binds[s] = j /\ slot \in SurfaceSlots(w) /\ Fits(w, d, slot, j)
  BY <1>2
<1>4. SlotAccepts(w, w.components[d.nodes[n].component].slots[s], Output(left.type, Collection), None, FALSE)
  BY <1>3 DEF Joinable, FitsUnjoined
<1>5. AsCollection(w, left.type)
  BY <1>3, <1>4 DEF AsCollection, AcceptedBySomeSlot
<1>6. relationship \in ToOne(w) /\ relationship.from = left.type /\ relationship.to = right.type
  BY <1>1 DEF JoinsRightly, ToOne
<1>7. JoinLeft(w, left)
  BY <1>5, <1>6 DEF JoinLeft
<1>8. join.left \in DOMAIN d.requests
  <2>1. InputsOf(d, j) \subseteq DOMAIN d.requests
    BY DerivedIsBound
  <2> QED BY <1>1, <2>1 DEF InputsOf
<1>9. d.requests[join.left].capability \in DOMAIN w.capabilities
  BY <1>8, Flawless
<1>10. JoinRight(w, right)
  BY <1>6, <1>7, <1>9 DEF JoinRight, Of
<1> QED BY <1>7, <1>10

LEMMA UsedInScope ==
    ASSUME NEW w, NEW d, Issues(w, d) = {}, Joinable(w, d), NEW r \in DOMAIN d.requests
    PROVE  d.requests[r].capability \in Scope(w)
<1>1. r \in Referenced(d) /\ d.requests[r].capability \in DOMAIN w.capabilities
  BY Flawless DEF SourcesOf
<1>2. InScope(w, Of(w, d, r))
  <2>1. CASE r \in Bound(d)
    BY <2>1, BoundInScope DEF InScope
  <2>2. ASSUME NEW x \in DOMAIN d.compositions, r \in InputsOf(d, x) PROVE InScope(w, Of(w, d, r))
    BY <2>2, ComposedInScope DEF InScope, InputsOf
  <2>3. ASSUME NEW x \in DOMAIN d.joins, r \in InputsOf(d, x) PROVE InScope(w, Of(w, d, r))
    <3>1. x \notin DOMAIN d.compositions
      BY Flawless DEF NamedTwice
    <3>2. r = d.joins[x].left \/ r = d.joins[x].right
      BY <2>3, <3>1 DEF InputsOf
    <3> QED BY <3>2, JoinedInScope DEF InScope
  <2> QED BY <1>1, <2>1, <2>2, <2>3 DEF Referenced
<1> QED BY <1>1, <1>2 DEF Scope, Of

(* The scope of a surface "can never exclude something validation would have accepted":
   whatever the catalog and the surface, a plan in which the whole catalog finds nothing
   wrong uses only capabilities the surface is offered, unless a slot takes a joined row
   only for what the join adds (site-sdk/src/index.ts: scopeManifestToSurface). *)
THEOREM NothingIsWithheld == Spec => []ScopeWithholdsNothing
<1>1. Judged => ScopeWithholdsNothing
  <2> SUFFICES ASSUME Judged, verdict \in {"schema", "ready"}, Issues(world, draft) = {},
                      Joinable(world, draft), NEW r \in DOMAIN draft.requests
               PROVE  draft.requests[r].capability \in DOMAIN contract.offers
    BY DEF ScopeWithholdsNothing, Joinable
  <2>1. contract = ContractOf(world, asked)
    BY PlanContractAssumption DEF Judged
  <2>2. DOMAIN contract.offers = Scope(world)
    BY <2>1, ContractIs
  <2> QED BY <2>2, UsedInScope
<1> QED BY <1>1, JudgedHolds, PTL

-----------------------------------------------------------------------------
(* Whatever is on offer has a slot it could be shown in. *)
LEMMA PanelThere ==
    ASSUME NEW w \in Worlds, NEW a, DOMAIN ContractOf(w, a).offers # {}
    PROVE  \E p : p \in Panels(ContractOf(w, a))
<1>1. PICK n \in Scope(w) : TRUE
  BY ContractIs
<1>2. InScope(w, w.capabilities[n])
  BY <1>1 DEF Scope
<1>3. \E output, grouped : AcceptedBySomeSlot(w, output, grouped)
  BY <1>2 DEF InScope, Direct, CompositionInput, JoinLeft, JoinRight, AsCollection
<1>4. PICK k \in w.surface.allowed : DOMAIN w.components[k].slots # {}
  BY <1>3 DEF AcceptedBySomeSlot, SurfaceSlots
<1>5. k \in DOMAIN ContractOf(w, a).components /\ ContractOf(w, a).components[k] = w.components[k]
  BY <1>4, ContractIs
<1> QED BY <1>4, <1>5 DEF Panels

LEMMA BlankIsLegal ==
    ASSUME NEW offer
    PROVE  /\ LegalQuery(offer, Blank)
           /\ LegalQuery(offer, [Blank EXCEPT !.limit = ExampleLimit]) <=> ExampleLimit \in 1 .. offer.limit
<1>1. /\ Blank.filter = None /\ Blank.group = {} /\ Blank.aggregates = {} /\ Blank.sort = {}
      /\ Blank.project = {} /\ Blank.offset = FALSE /\ Blank.limit = None
  BY DEF Blank
<1>2. LegalQuery(offer, Blank)
  BY <1>1 DEF LegalQuery, LegalFilter
<1> DEFINE q == [Blank EXCEPT !.limit = ExampleLimit]
<1>3. /\ q.filter = None /\ q.group = {} /\ q.aggregates = {} /\ q.sort = {}
      /\ q.project = {} /\ q.offset = FALSE /\ q.limit = ExampleLimit
  BY DEF Blank
<1>4. ExampleLimit # None
  BY PlanContractAssumption
<1> HIDE DEF q
<1>5. LegalQuery(offer, q) <=> ExampleLimit \in 1 .. offer.limit
  BY <1>3, <1>4 DEF LegalQuery, LegalFilter
<1> QED BY <1>2, <1>5 DEF q

LEMMA PanelIsLegal ==
    ASSUME NEW k, NEW d, NEW n, NEW p \in DOMAIN k.components, NEW source,
           d.nodes[n] = Panel(k, p, source, None), d.compositions = <<>>,
           source \in DOMAIN d.joins => k.relationships # {}
    PROVE  LegalNode(k, d, n)
<1> DEFINE node == d.nodes[n]
<1>1. /\ node.component = p /\ node.under = None
      /\ DOMAIN node.binds = DOMAIN k.components[p].slots
      /\ \A s \in DOMAIN node.binds : node.binds[s] = source
  BY DEF Panel
<1>2. KindOf(d, source) # "composition" /\ (KindOf(d, source) = "join" => source \in DOMAIN d.joins)
  BY DEF KindOf
<1>3. LegalBinding(k, KindOf(d, source))
  BY <1>2 DEF LegalBinding
<1> HIDE DEF node
<1>4. LegalNode(k, d, n) <=>
        /\ node.component \in DOMAIN k.components
        /\ DOMAIN node.binds = DOMAIN k.components[node.component].slots
        /\ \A s \in DOMAIN node.binds : LegalBinding(k, KindOf(d, node.binds[s]))
  BY <1>1 DEF LegalNode, node
<1> QED BY <1>1, <1>3, <1>4

(* A draft of one request and the one panel that reads it is as legal as the request. *)
LEMMA OnePanel ==
    ASSUME NEW w \in Worlds, NEW a, NEW c, NEW q, NEW p \in DOMAIN ContractOf(w, a).components
    PROVE  LET k == ContractOf(w, a) IN
           Legal(k, Ready([r1 |-> Asking(c, q)], <<>>, [n1 |-> Panel(k, p, "r1", None)]))
                <=> c \in DOMAIN k.offers /\ LegalQuery(k.offers[c], q)
<1> DEFINE k == ContractOf(w, a)
           d == Ready([r1 |-> Asking(c, q)], <<>>, [n1 |-> Panel(k, p, "r1", None)])
<1>1. /\ d.status = "ready" /\ d.compositions = <<>> /\ d.joins = <<>>
      /\ DOMAIN d.requests = {"r1"} /\ d.requests["r1"].capability = c /\ d.requests["r1"].query = q
      /\ DOMAIN d.nodes = {"n1"} /\ d.nodes["n1"] = Panel(k, p, "r1", None)
  BY DEF Ready, Asking
<1>2. k.most = w.surface.most
  BY DEF ContractOf
<1>3. k.most # None => k.most \in Nat /\ k.most >= 1
  BY <1>2, PlanContractAssumption DEF Published, Bounds
<1>4. p \in DOMAIN k.components /\ DOMAIN d.joins = {}
  BY DEF Ready
<1> HIDE DEF d, k
<1>5. LegalNode(k, d, "n1")
  BY <1>1, <1>4, PanelIsLegal
<1>6. Tops(d) = {"n1"}
  BY <1>1 DEF Tops, Panel
<1>7. Cardinality(Tops(d)) = 1
  BY <1>6, FS_Singleton
<1>8. LegalPlan(k, d) <=> c \in DOMAIN k.offers /\ LegalQuery(k.offers[c], q)
  BY <1>1, <1>3, <1>5, <1>6, <1>7 DEF LegalPlan
<1> QED BY <1>1, <1>8 DEF Legal, d, k

LEMMA SiblingsFollowed ==
    ASSUME NEW w \in Worlds, NEW a, DOMAIN ContractOf(w, a).offers # {}, HoldsSeveral(w)
    PROVE  CanFollow(ContractOf(w, a), "siblings")
<1> DEFINE k == ContractOf(w, a)
<1>1. PICK c \in DOMAIN k.offers : TRUE
  OBVIOUS
<1>2. PICK p \in Panels(k) : TRUE
  BY PanelThere
<1> DEFINE d == Ready([r1 |-> Asking(c, Blank), r2 |-> Asking(c, Blank)], <<>>,
                      [n1 |-> Panel(k, p, "r1", None), n2 |-> Panel(k, p, "r2", None)])
<1>3. d \in Siblings(k)
  BY <1>1, <1>2 DEF Siblings
<1>4. /\ d.status = "ready" /\ d.compositions = <<>> /\ DOMAIN d.joins = {}
      /\ DOMAIN d.requests = {"r1", "r2"}
      /\ \A r \in DOMAIN d.requests : d.requests[r].capability = c /\ d.requests[r].query = Blank
      /\ DOMAIN d.nodes = {"n1", "n2"}
      /\ d.nodes["n1"] = Panel(k, p, "r1", None) /\ d.nodes["n2"] = Panel(k, p, "r2", None)
  BY DEF Ready, Asking
<1>5. p \in DOMAIN k.components
  BY <1>2 DEF Panels
<1>6. k.most # None => k.most \in Nat /\ k.most >= 2
  BY PlanContractAssumption DEF Published, Bounds, HoldsSeveral, ContractOf
<1> HIDE DEF d, k
<1>7. LegalNode(k, d, "n1") /\ LegalNode(k, d, "n2")
  BY <1>4, <1>5, PanelIsLegal
<1>8. Tops(d) = {"n1", "n2"}
  BY <1>4 DEF Tops, Panel
<1>9. Cardinality(Tops(d)) = 2
  <2>1. Cardinality({"n1"} \cup {"n2"}) = Cardinality({"n1"}) + 1
    BY FS_AddElement, FS_Singleton
  <2>2. Cardinality({"n1"}) = 1 /\ {"n1"} \cup {"n2"} = {"n1", "n2"}
    BY FS_Singleton
  <2> QED BY <2>1, <2>2, <1>8
<1>10. \A r \in DOMAIN d.requests :
         d.requests[r].capability \in DOMAIN k.offers /\ LegalQuery(k.offers[d.requests[r].capability], d.requests[r].query)
  BY <1>1, <1>4, BlankIsLegal
<1>11. LegalPlan(k, d)
  BY <1>4, <1>6, <1>7, <1>8, <1>9, <1>10 DEF LegalPlan
<1>12. Legal(k, d)
  BY <1>4, <1>11 DEF Legal
<1>13. Example(k, "siblings") = Siblings(k)
  BY DEF Example
<1> QED BY <1>3, <1>12, <1>13 DEF CanFollow, k

LEMMA JoinFollowed ==
    ASSUME NEW w \in Worlds, NEW a, DOMAIN ContractOf(w, a).offers # {}, OfferedRelationships(w, Scope(w)) # {}
    PROVE  CanFollow(ContractOf(w, a), "join")
<1> DEFINE k == ContractOf(w, a)
<1>1. PICK c \in DOMAIN k.offers : TRUE
  OBVIOUS
<1>2. PICK p \in Panels(k) : TRUE
  BY PanelThere
<1>3. PICK r \in k.relationships : TRUE
  BY ContractIs
<1> DEFINE d == Ready([left |-> Asking(c, Blank), right |-> Asking(c, Blank)],
                      [j1 |-> [relationship |-> r, left |-> "left", right |-> "right"]],
                      [n1 |-> Panel(k, p, "j1", None)])
<1>4. d \in AJoin(k)
  BY <1>1, <1>2, <1>3 DEF AJoin
<1>5. /\ d.status = "ready" /\ d.compositions = <<>>
      /\ DOMAIN d.joins = {"j1"} /\ d.joins["j1"].relationship = r
      /\ DOMAIN d.requests = {"left", "right"}
      /\ \A x \in DOMAIN d.requests : d.requests[x].capability = c /\ d.requests[x].query = Blank
      /\ DOMAIN d.nodes = {"n1"} /\ d.nodes["n1"] = Panel(k, p, "j1", None)
  BY DEF Ready, Asking
<1>6. p \in DOMAIN k.components
  BY <1>2 DEF Panels
<1>7. k.most # None => k.most \in Nat /\ k.most >= 1
  BY PlanContractAssumption DEF Published, Bounds, ContractOf
<1> HIDE DEF d, k
<1>8. LegalNode(k, d, "n1")
  BY <1>3, <1>5, <1>6, PanelIsLegal
<1>9. Tops(d) = {"n1"}
  BY <1>5 DEF Tops, Panel
<1>10. Cardinality(Tops(d)) = 1
  BY <1>9, FS_Singleton
<1>11. \A x \in DOMAIN d.requests :
         d.requests[x].capability \in DOMAIN k.offers /\ LegalQuery(k.offers[d.requests[x].capability], d.requests[x].query)
  BY <1>1, <1>5, BlankIsLegal
<1>12. LegalPlan(k, d)
  BY <1>3, <1>5, <1>7, <1>8, <1>9, <1>10, <1>11 DEF LegalPlan
<1>13. Legal(k, d)
  BY <1>5, <1>12 DEF Legal
<1>14. Example(k, "join") = AJoin(k)
  BY DEF Example
<1> QED BY <1>4, <1>13, <1>14 DEF CanFollow, k

LEMMA ChildrenFollowed ==
    ASSUME NEW w \in Worlds, NEW a, DOMAIN ContractOf(w, a).offers # {},
           NEW p \in w.surface.allowed, DOMAIN w.components[p].children # {}
    PROVE  CanFollow(ContractOf(w, a), "children")
<1> DEFINE k == ContractOf(w, a)
<1>1. PICK c \in DOMAIN k.offers : TRUE
  OBVIOUS
<1>2. p \in DOMAIN k.components /\ k.components[p] = w.components[p]
  BY ContractIs
<1>3. PICK s \in DOMAIN k.components[p].children : TRUE
  BY <1>2
<1> DEFINE below == [node |-> "n1", slot |-> s]
<1>4. below # None
  BY <1>2, <1>3, PlanContractAssumption DEF Published
<1> DEFINE d == Ready([r1 |-> Asking(c, Blank)], <<>>,
                      [n1 |-> Panel(k, p, "r1", None), n2 |-> Panel(k, p, "r1", below)])
<1>5. d \in Nested(k)
  <2>1. s \in UNION {DOMAIN k.components[m].children : m \in DOMAIN k.components}
    BY <1>2, <1>3
  <2> QED BY <1>1, <1>2, <2>1 DEF Nested
<1>6. /\ d.status = "ready" /\ d.compositions = <<>> /\ DOMAIN d.joins = {}
      /\ DOMAIN d.requests = {"r1"} /\ d.requests["r1"].capability = c /\ d.requests["r1"].query = Blank
      /\ DOMAIN d.nodes = {"n1", "n2"}
      /\ d.nodes["n1"] = Panel(k, p, "r1", None) /\ d.nodes["n2"] = Panel(k, p, "r1", below)
  BY DEF Ready, Asking
<1>7. k.most # None => k.most \in Nat /\ k.most >= 1
  BY PlanContractAssumption DEF Published, Bounds, ContractOf
<1>8. below.node = "n1" /\ below.slot = s
  OBVIOUS
<1> HIDE DEF d, k, below
<1>9. d.nodes["n1"].under = None /\ d.nodes["n2"].under = below
  BY <1>6 DEF Panel
<1>10. LegalNode(k, d, "n1")
  BY <1>2, <1>6, PanelIsLegal
<1>11. ChildrenIn(d, "n1", s) = {"n2"}
  BY <1>4, <1>6, <1>9 DEF ChildrenIn, below
<1>12. LegalNode(k, d, "n2")
  <2> DEFINE node == d.nodes["n2"]
  <2>1. /\ node.component = p /\ node.under = below
        /\ DOMAIN node.binds = DOMAIN k.components[p].slots
        /\ \A x \in DOMAIN node.binds : node.binds[x] = "r1"
    BY <1>6 DEF Panel
  <2>2. LegalBinding(k, KindOf(d, "r1"))
    BY <1>6 DEF LegalBinding, KindOf
  <2>3. d.nodes["n1"].component = p
    BY <1>6 DEF Panel
  <2> HIDE DEF node
  <2>4. \A x \in DOMAIN node.binds : LegalBinding(k, KindOf(d, node.binds[x]))
    BY <2>1, <2>2
  <2>5. LegalNode(k, d, "n2") <=>
          /\ node.component \in DOMAIN k.components
          /\ DOMAIN node.binds = DOMAIN k.components[node.component].slots
          /\ \A x \in DOMAIN node.binds : LegalBinding(k, KindOf(d, node.binds[x]))
          /\ node.under # None =>
               /\ d.nodes[node.under.node].component \in DOMAIN k.components
               /\ node.under.slot \in DOMAIN k.components[d.nodes[node.under.node].component].children
               /\ k.components[d.nodes[node.under.node].component].children[node.under.slot].one =>
                    ChildrenIn(d, node.under.node, node.under.slot) = {"n2"}
    BY DEF LegalNode, node
  <2> QED BY <1>2, <1>3, <1>8, <1>11, <2>1, <2>3, <2>4, <2>5
<1>13. Tops(d) = {"n1"}
  BY <1>4, <1>6, <1>9 DEF Tops
<1>14. Cardinality(Tops(d)) = 1
  BY <1>13, FS_Singleton
<1>15. LegalPlan(k, d)
  BY <1>1, <1>6, <1>7, <1>10, <1>12, <1>13, <1>14, BlankIsLegal DEF LegalPlan
<1>16. Legal(k, d)
  BY <1>6, <1>15 DEF Legal
<1>17. Example(k, "children") = Nested(k)
  BY DEF Example
<1> QED BY <1>5, <1>16, <1>17 DEF CanFollow, k

LEMMA QuestionFollowed ==
    ASSUME NEW w \in Worlds, NEW a, ~a
    PROVE  CanFollow(ContractOf(w, a), "question")
<1> DEFINE d == [status |-> "needs-clarification", requests |-> <<>>, compositions |-> <<>>, joins |-> <<>>, nodes |-> <<>>]
<1>1. d \in Example(ContractOf(w, a), "question")
  BY DEF Example, AQuestion
<1>2. Legal(ContractOf(w, a), d)
  BY DEF Legal, ContractOf
<1> QED BY <1>1, <1>2 DEF CanFollow

(* The first example can be followed where a list on offer has that many rows to a page. *)
LEMMA OneFollowed ==
    ASSUME NEW w \in Worlds, NEW a, DOMAIN ContractOf(w, a).offers # {}
    PROVE  CanFollow(ContractOf(w, a), "one") <=>
             \E c \in DOMAIN ContractOf(w, a).offers :
                Listed(w.capabilities[c]) /\ ExampleLimit <= LimitCeiling(w.capabilities[c])
<1> DEFINE k == ContractOf(w, a)
           q == [Blank EXCEPT !.limit = ExampleLimit]
           Draft(c, p) == Ready([r1 |-> Asking(c, q)], <<>>, [n1 |-> Panel(k, p, "r1", None)])
           Roomy(c) == Listed(w.capabilities[c]) /\ ExampleLimit <= LimitCeiling(w.capabilities[c])
<1>1. \A c \in DOMAIN k.offers : \A p \in Panels(k) : Legal(k, Draft(c, p)) <=> Roomy(c)
  <2> SUFFICES ASSUME NEW c \in DOMAIN k.offers, NEW p \in Panels(k) PROVE Legal(k, Draft(c, p)) <=> Roomy(c)
    OBVIOUS
  <2>1. p \in DOMAIN k.components
    BY DEF Panels
  <2>2. Legal(k, Draft(c, p)) <=> LegalQuery(k.offers[c], q)
    BY <2>1, OnePanel
  <2>3. LegalQuery(k.offers[c], q) <=> ExampleLimit \in 1 .. k.offers[c].limit
    BY BlankIsLegal
  <2>4. c \in DOMAIN w.capabilities /\ k.offers[c] = QueryOffer(w, w.capabilities[c])
    BY ContractIs, ScopeWithin
  <2>5. k.offers[c].limit = IF Listed(w.capabilities[c]) THEN LimitCeiling(w.capabilities[c]) ELSE 0
    BY <2>4 DEF QueryOffer, OffersLists, OfferedCeiling
  <2>6. LimitCeiling(w.capabilities[c]) \in Nat
    BY <2>4, CeilingIsNumber
  <2>7. ExampleLimit \in Nat \ {0}
    BY PlanContractAssumption
  <2>8. ExampleLimit \in 1 .. k.offers[c].limit <=> Roomy(c)
    BY <2>5, <2>6, <2>7
  <2> QED BY <2>2, <2>3, <2>8
<1>2. PICK p \in Panels(k) : TRUE
  BY PanelThere
<1>3. Example(k, "one") = {Draft(c, x) : c \in DOMAIN k.offers, x \in Panels(k)}
  BY DEF Example, OneRequest
<1> HIDE DEF Draft, Roomy, q, k
<1>4. CanFollow(k, "one") <=> \E c \in DOMAIN k.offers : Roomy(c)
  BY <1>1, <1>2, <1>3 DEF CanFollow
<1> QED BY <1>4 DEF Roomy, k

(* What is counted is a list: no other capability is offered a grouping. *)
LEMMA CountsLists ==
    ASSUME NEW w \in Worlds, NEW a, NEW c \in Counted(w, Scope(w))
    PROVE  CanCount(w, ContractOf(w, a), c) <=> Listed(w.capabilities[c])
<1> DEFINE k == ContractOf(w, a)
           Counting(g, op) == [Blank EXCEPT !.group = {g}, !.aggregates = {[op |-> op, field |-> None, as |-> "n"]}]
           Draft(g, op, p) == Ready([r1 |-> Asking(c, Counting(g, op))], <<>>, [n1 |-> Panel(k, p, "r1", None)])
           cap == w.capabilities[c]
<1>1. c \in Scope(w) /\ cap.group # {} /\ cap.ops # {}
  BY DEF Counted
<1>2. c \in DOMAIN k.offers /\ k.offers[c] = QueryOffer(w, cap)
  BY <1>1, ContractIs
<1>3. /\ k.offers[c].group = IF Listed(cap) THEN cap.group ELSE {}
      /\ k.offers[c].ops = IF Listed(cap) THEN cap.ops ELSE {}
  BY <1>2 DEF QueryOffer, OffersLists
<1>4. \A g \in cap.group, op \in cap.ops : LegalQuery(k.offers[c], Counting(g, op)) <=> Listed(cap)
  <2> SUFFICES ASSUME NEW g \in cap.group, NEW op \in cap.ops
               PROVE  LegalQuery(k.offers[c], Counting(g, op)) <=> Listed(cap)
    OBVIOUS
  <2>1. /\ Counting(g, op).filter = None /\ Counting(g, op).group = {g}
        /\ Counting(g, op).aggregates = {[op |-> op, field |-> None, as |-> "n"]}
        /\ Counting(g, op).sort = {} /\ Counting(g, op).project = {}
        /\ Counting(g, op).offset = FALSE /\ Counting(g, op).limit = None
    BY DEF Blank
  <2> HIDE DEF Counting, k, cap
  <2> QED BY <1>3, <2>1 DEF LegalQuery, LegalFilter, LegalAggregate
<1>5. \A g \in cap.group, op \in cap.ops, p \in Panels(k) : Legal(k, Draft(g, op, p)) <=> Listed(cap)
  <2> SUFFICES ASSUME NEW g \in cap.group, NEW op \in cap.ops, NEW p \in Panels(k)
               PROVE  Legal(k, Draft(g, op, p)) <=> Listed(cap)
    OBVIOUS
  <2>1. p \in DOMAIN k.components
    BY DEF Panels
  <2>2. Legal(k, Draft(g, op, p)) <=> LegalQuery(k.offers[c], Counting(g, op))
    BY <1>2, <2>1, OnePanel
  <2> QED BY <1>4, <2>2
<1>6. PICK p \in Panels(k) : TRUE
  BY <1>2, PanelThere
<1>7. CanCount(w, k, c) <=> \E g \in cap.group, op \in cap.ops, x \in Panels(k) : Legal(k, Draft(g, op, x))
  BY DEF CanCount
<1> HIDE DEF Draft, k, cap
<1>8. CanCount(w, k, c) <=> Listed(cap)
  BY <1>1, <1>5, <1>6, <1>7
<1> QED BY <1>8 DEF k, cap

(* Contract, schema and validation are three readings of one catalog, and agree: beside
   what OfferHonoured says, whatever is shown or called supported in the prompt can be
   written under the schema, whatever the catalog and the surface, but for the first
   example, exactly where no list on offer has its ten rows to a page, and for counting,
   exactly of what returns no list (planner/src/contract.ts: shapeExampleLines beside
   capability-catalog/src/planning-contract.ts). *)
THEOREM ContractAlwaysHolds == Spec => []ContractHolds
<1>1. Judged => TeachesWhatItTakes
  <2> SUFFICES ASSUME Judged, contract # None, DOMAIN contract.offers # {}
               PROVE  /\ \A shape \in contract.taught \ {"one"} : CanFollow(contract, shape)
                      /\ CanFollow(contract, "one") <=>
                          \E c \in DOMAIN contract.offers :
                             Listed(world.capabilities[c]) /\ ExampleLimit <= LimitCeiling(world.capabilities[c])
                      /\ \A c \in contract.counted : CanCount(world, contract, c) <=> Listed(world.capabilities[c])
    BY DEF TeachesWhatItTakes
  <2>1. world \in Worlds /\ contract = ContractOf(world, asked)
    BY DEF Judged
  <2>2. contract.taught = Taught(world, Scope(world), asked) /\ contract.counted = Counted(world, Scope(world))
    BY <2>1 DEF ContractOf
  <2>3. ASSUME NEW shape \in contract.taught \ {"one"} PROVE CanFollow(contract, shape)
    <3>1. \/ shape = "siblings" /\ HoldsSeveral(world)
          \/ shape = "join" /\ OfferedRelationships(world, Scope(world)) # {}
          \/ shape = "children" /\ \E p \in world.surface.allowed : DOMAIN world.components[p].children # {}
          \/ shape = "question" /\ ~asked
      BY <2>2, <2>3 DEF Taught, ShowsSiblings
    <3>2. CASE shape = "siblings" /\ HoldsSeveral(world)
      BY <2>1, <3>2, SiblingsFollowed
    <3>3. CASE shape = "join" /\ OfferedRelationships(world, Scope(world)) # {}
      BY <2>1, <3>3, JoinFollowed
    <3>4. CASE shape = "children" /\ \E p \in world.surface.allowed : DOMAIN world.components[p].children # {}
      BY <2>1, <3>4, ChildrenFollowed
    <3>5. CASE shape = "question" /\ ~asked
      BY <2>1, <3>5, QuestionFollowed
    <3> QED BY <3>1, <3>2, <3>3, <3>4, <3>5
  <2>4. CanFollow(contract, "one") <=>
          \E c \in DOMAIN contract.offers :
             Listed(world.capabilities[c]) /\ ExampleLimit <= LimitCeiling(world.capabilities[c])
    BY <2>1, OneFollowed
  <2>5. \A c \in contract.counted : CanCount(world, contract, c) <=> Listed(world.capabilities[c])
    BY <2>1, <2>2, CountsLists
  <2> QED BY <2>3, <2>4, <2>5
<1> QED BY <1>1, JudgedHolds, OfferHonoured, PTL DEF ContractHolds

=============================================================================
