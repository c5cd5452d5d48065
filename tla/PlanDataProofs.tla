---------------------------- MODULE PlanDataProofs ----------------------------
(***************************************************************************)
(* Every slice of a plan that passed the checks passes them, whatever was  *)
(* refined in between, and shows what the plan shows; and while answers    *)
(* stream in, what a panel shows of them stays; and what is composed or    *)
(* joined is what it is defined as, or an error that can be explained.     *)
(* And of a single query of a plan: what the runtime says of the page that *)
(* an upstream serves for it holds of the whole collection.                *)
(***************************************************************************)
EXTENDS PlanData, QueryAnswer, FiniteSetTheorems, TLAPS

(* Fewer panels of a plan are no more than the surface allows. *)
LEMMA FewerPanels ==
    ASSUME NEW S, NEW T, IsFiniteSet(S), T \subseteq S, Cardinality(S) <= MaxComponents
    PROVE  IsFiniteSet(T) /\ Cardinality(T) <= MaxComponents
<1>1. IsFiniteSet(T) /\ Cardinality(T) <= Cardinality(S)
  BY FS_Subset
<1>2. Cardinality(T) \in Nat /\ Cardinality(S) \in Nat
  BY <1>1, FS_CardinalityType
<1> QED
  BY <1>1, <1>2, PlanDataAssumption DEF PlanDataAssumption

(* A panel taken out leaves the checks of the others as they were. *)
LEMMA RemovalFits ==
    ASSUME NEW p, IsPlan(p), Fits(p), NEW n \in DOMAIN p.panels, Cardinality(DOMAIN p.panels) # 1
    PROVE  IsPlan(Without(p, n)) /\ Fits(Without(p, n))
<1> DEFINE q == Without(p, n)
<1>1. /\ q = [requests |-> p.requests, compositions |-> p.compositions, joins |-> p.joins,
              panels |-> Restrict(p.panels, DOMAIN p.panels \ {n})]
      /\ q.requests = p.requests /\ q.compositions = p.compositions /\ q.joins = p.joins
      /\ DOMAIN q.panels = DOMAIN p.panels \ {n}
      /\ \A m \in DOMAIN q.panels : q.panels[m] = p.panels[m]
  BY DEF Without, IsPlan, Restrict
<1>2. IsFiniteSet(DOMAIN q.panels) /\ Cardinality(DOMAIN q.panels) <= MaxComponents
  BY <1>1, FewerPanels DEF IsPlan, Fits
<1>3. DOMAIN q.panels # {}
  <2>1. SUFFICES ASSUME DOMAIN p.panels = {n} PROVE FALSE
    BY <1>1
  <2> QED
    BY <2>1, FS_Singleton
<1>4. IsPlan(q)
  BY <1>1, <1>2, <1>3 DEF IsPlan, SourcesApart
<1>5. \A m \in DOMAIN q.panels : PanelFits(q, q.panels[m])
  <2> HIDE DEF q
  <2>1. \A r : CapabilityOf(q, r) = CapabilityOf(p, r)
    BY <1>1 DEF CapabilityOf
  <2>2. \A slot, source : BindingFits(p, slot, source) => BindingFits(q, slot, source)
    BY <1>1, <2>1 DEF BindingFits, RequestFits, CompositionFits, JoinFits
  <2>3. \A m \in DOMAIN q.panels : PanelFits(p, q.panels[m])
    BY <1>1 DEF Fits
  <2> QED
    BY <2>2, <2>3 DEF PanelFits
<1>6. ASSUME NEW c \in DOMAIN q.compositions PROVE CompositionAllowed(q, q.compositions[c])
  <2>1. CompositionAllowed(p, p.compositions[c]) /\ q.compositions[c] = p.compositions[c]
    BY <1>1 DEF Fits
  <2> QED
    BY <1>1, <2>1 DEF CompositionAllowed, CapabilityOf
<1>7. ASSUME NEW j \in DOMAIN q.joins PROVE JoinAllowed(q, q.joins[j])
  <2>1. JoinAllowed(p, p.joins[j]) /\ q.joins[j] = p.joins[j]
    BY <1>1 DEF Fits
  <2> QED
    BY <1>1, <2>1 DEF JoinAllowed, CapabilityOf
<1> HIDE DEF q
<1>8. Fits(q)
  BY <1>1, <1>2, <1>5, <1>6, <1>7 DEF Fits
<1> QED
  BY <1>4, <1>8 DEF q

(* A plan that differs from another only in what requests filter, sort and limit. *)
SameBut(p, q) ==
    /\ q = [requests |-> q.requests, compositions |-> p.compositions, joins |-> p.joins, panels |-> p.panels]
    /\ q.requests = [r \in DOMAIN p.requests |-> q.requests[r]]
    /\ \A r \in DOMAIN p.requests :
        /\ IsRequest(q.requests[r])
        /\ q.requests[r].capability = p.requests[r].capability
        /\ "group" \in q.requests[r].clauses <=> "group" \in p.requests[r].clauses

(* The bindings of such a plan fit as before: no filter, order or limit of a request
   decides where its answer may go. *)
LEMMA SameButFits ==
    ASSUME NEW p, IsPlan(p), Fits(p), NEW q, SameBut(p, q), QueriesAllowed(q)
    PROVE  IsPlan(q) /\ Fits(q)
<1>1. /\ q.compositions = p.compositions /\ q.joins = p.joins /\ q.panels = p.panels
      /\ DOMAIN q.requests = DOMAIN p.requests
  BY DEF SameBut
<1>2. IsPlan(q)
  BY <1>1 DEF SameBut, IsPlan, SourcesApart
<1>3. \A r \in DOMAIN q.requests : /\ CapabilityOf(q, r) = CapabilityOf(p, r)
                                   /\ q.requests[r].capability = p.requests[r].capability
                                   /\ "group" \in q.requests[r].clauses <=> "group" \in p.requests[r].clauses
  BY <1>1 DEF SameBut, CapabilityOf
<1>4. /\ \A c \in DOMAIN q.compositions : CompositionAllowed(q, q.compositions[c])
      /\ \A j \in DOMAIN q.joins : JoinAllowed(q, q.joins[j])
  BY <1>1, <1>3 DEF Fits, CompositionAllowed, JoinAllowed, Inputs, Sides
<1>5. ASSUME NEW n \in DOMAIN q.panels PROVE PanelFits(q, q.panels[n])
  <2>1. PanelFits(p, p.panels[n])
    BY <1>1 DEF Fits
  <2>2. ASSUME NEW slot, NEW source, BindingFits(p, slot, source) PROVE BindingFits(q, slot, source)
    <3>1. CASE source \in DOMAIN p.requests /\ RequestFits(p, slot, source)
      BY <3>1, <1>1, <1>3 DEF BindingFits, RequestFits, Accepts
    <3>2. CASE source \in DOMAIN p.compositions /\ CompositionFits(p, slot, source)
      <4>1. Inputs(p.compositions[source]) \subseteq DOMAIN p.requests
        BY <3>2 DEF Fits, CompositionAllowed
      <4> QED
        BY <3>2, <4>1, <1>1, <1>3 DEF BindingFits, CompositionFits
    <3>3. CASE source \in DOMAIN p.joins /\ JoinFits(p, slot, source)
      <4>1. {p.joins[source].left, p.joins[source].right} \subseteq DOMAIN p.requests
        BY <3>3 DEF Fits, JoinAllowed, Sides
      <4> QED
        BY <3>3, <4>1, <1>1, <1>3 DEF BindingFits, JoinFits
    <3> QED
      BY <2>2, <3>1, <3>2, <3>3 DEF BindingFits
  <2> QED
    BY <1>1, <2>1, <2>2 DEF PanelFits
<1>6. Fits(q)
  BY <1>1, <1>3, <1>4, <1>5 DEF Fits, QueriesAllowed
<1> QED
  BY <1>2, <1>6

LEMMA RequerySame ==
    ASSUME NEW p, IsPlan(p), NEW r \in DOMAIN p.requests, NEW x, IsRequest(x),
           x.capability = p.requests[r].capability,
           "group" \in x.clauses <=> "group" \in p.requests[r].clauses
    PROVE  SameBut(p, Requery(p, r, x))
<1> DEFINE q == Requery(p, r, x)
           asked == [p.requests EXCEPT ![r] = x]
<1>1. q = [p EXCEPT !.requests = asked]
  BY DEF Requery
<1>2. /\ asked = [i \in DOMAIN p.requests |-> asked[i]]
      /\ \A i \in DOMAIN p.requests : asked[i] = IF i = r THEN x ELSE p.requests[i]
  BY DEF IsPlan
<1>3. \A i \in DOMAIN p.requests : IsRequest(p.requests[i])
  BY DEF IsPlan
<1> HIDE DEF asked
<1>4. q = [requests |-> asked, compositions |-> p.compositions, joins |-> p.joins, panels |-> p.panels]
  BY <1>1 DEF IsPlan
<1> HIDE DEF q
<1>5. q.requests = asked
  BY <1>4
<1>6. SameBut(p, q)
  BY <1>2, <1>3, <1>4, <1>5 DEF SameBut
<1> QED
  BY <1>6 DEF q

(* Every operation of a refinement leaves the plan one that fits. *)
LEMMA RefinedFits ==
    ASSUME NEW p, IsPlan(p), Fits(p), NEW q \in Refined(p), QueriesAllowed(q)
    PROVE  IsPlan(q) /\ Fits(q)
<1>1. CASE q \in Removals(p)
  BY <1>1, RemovalFits DEF Removals
<1>2. ASSUME NEW r \in DOMAIN p.requests, NEW clause \in {"filter", "sort"}, q = With(p, r, clause)
      PROVE  SameBut(p, q)
  <2> DEFINE x == [p.requests[r] EXCEPT !.clauses = @ \cup {clause}]
  <2>1. /\ x = [capability |-> p.requests[r].capability, clauses |-> p.requests[r].clauses \cup {clause},
                limit |-> p.requests[r].limit]
        /\ "group" \in x.clauses <=> "group" \in p.requests[r].clauses
        /\ IsLimit(p.requests[r].limit)
    <3>1. IsRequest(p.requests[r])
      BY DEF IsPlan
    <3> QED
      BY <3>1 DEF IsRequest
  <2>2. IsRequest(x) /\ x.capability = p.requests[r].capability
    BY <2>1 DEF IsRequest
  <2> HIDE DEF x
  <2> QED
    BY <1>2, <2>1, <2>2, RequerySame DEF With, x
<1>3. ASSUME NEW r \in DOMAIN p.requests, q = Unfiltered(p, r)
      PROVE  SameBut(p, q)
  <2> DEFINE x == [p.requests[r] EXCEPT !.clauses = @ \ {"filter"}]
  <2>1. /\ x = [capability |-> p.requests[r].capability, clauses |-> p.requests[r].clauses \ {"filter"},
                limit |-> p.requests[r].limit]
        /\ "group" \in x.clauses <=> "group" \in p.requests[r].clauses
        /\ IsLimit(p.requests[r].limit)
    <3>1. IsRequest(p.requests[r])
      BY DEF IsPlan
    <3> QED
      BY <3>1 DEF IsRequest
  <2>2. IsRequest(x) /\ x.capability = p.requests[r].capability
    BY <2>1 DEF IsRequest
  <2> HIDE DEF x
  <2> QED
    BY <1>3, <2>1, <2>2, RequerySame DEF Unfiltered, x
<1>4. ASSUME NEW r \in DOMAIN p.requests, NEW limit \in Limits, q = Limited(p, r, limit)
      PROVE  SameBut(p, q)
  <2> DEFINE x == [p.requests[r] EXCEPT !.limit = limit]
  <2>1. x = [capability |-> p.requests[r].capability, clauses |-> p.requests[r].clauses, limit |-> limit]
    <3>1. IsRequest(p.requests[r])
      BY DEF IsPlan
    <3> QED
      BY <3>1 DEF IsRequest
  <2>2. IsRequest(x) /\ x.capability = p.requests[r].capability /\ x.clauses = p.requests[r].clauses
    BY <2>1, PlanDataAssumption DEF IsRequest, IsLimit, PlanDataAssumption
  <2> HIDE DEF x
  <2> QED
    BY <1>4, <2>2, RequerySame DEF Limited, x
<1>5. q \in Removals(p) \/ SameBut(p, q)
  BY <1>2, <1>3, <1>4 DEF Refined
<1> QED
  BY <1>1, <1>5, SameButFits

-----------------------------------------------------------------------------
(* A slice: kept panels, the compositions and joins they bind, and every request they
   or those consume. *)
LEMMA SliceShape ==
    ASSUME NEW p, IsPlan(p), Fits(p), NEW nodes \in SUBSET DOMAIN p.panels
    PROVE  LET q == Slice(p, nodes)
               bound == Bound(p, nodes)
           IN  /\ q = [requests |-> q.requests, compositions |-> q.compositions, joins |-> q.joins, panels |-> q.panels]
               /\ q.requests = [r \in Consumed(p, bound) |-> p.requests[r]]
               /\ q.compositions = [c \in DOMAIN p.compositions \cap bound |-> p.compositions[c]]
               /\ q.joins = [j \in DOMAIN p.joins \cap bound |-> p.joins[j]]
               /\ q.panels = [n \in nodes |-> p.panels[n]]
<1> DEFINE panels == Restrict(p.panels, DOMAIN p.panels \cap nodes)
           compositions == Restrict(p.compositions, DOMAIN p.compositions \cap Bound(p, nodes))
           joins == Restrict(p.joins, DOMAIN p.joins \cap Bound(p, nodes))
           requests == SliceRequests(p, nodes)
<1>1. DOMAIN p.panels \cap nodes = nodes
  OBVIOUS
<1>2. /\ panels = [n \in nodes |-> p.panels[n]]
      /\ compositions = [c \in DOMAIN p.compositions \cap Bound(p, nodes) |-> p.compositions[c]]
      /\ joins = [j \in DOMAIN p.joins \cap Bound(p, nodes) |-> p.joins[j]]
      /\ requests = [r \in Consumed(p, Bound(p, nodes)) |-> p.requests[r]]
  BY <1>1 DEF SliceRequests, Restrict
<1>3. Slice(p, nodes) = [p EXCEPT !.panels = panels, !.compositions = compositions, !.joins = joins, !.requests = requests]
  BY DEF Slice
<1> HIDE DEF panels, compositions, joins, requests
<1>4. Slice(p, nodes) = [requests |-> requests, compositions |-> compositions, joins |-> joins, panels |-> panels]
  BY <1>3 DEF IsPlan
<1> QED
  BY <1>2, <1>4

(* Requests a kept source consumes are kept. *)
LEMMA SliceKeeps ==
    ASSUME NEW p, IsPlan(p), Fits(p), NEW nodes \in SUBSET DOMAIN p.panels
    PROVE  LET q == Slice(p, nodes) IN
           /\ DOMAIN q.requests \subseteq DOMAIN p.requests
           /\ \A r \in DOMAIN q.requests : q.requests[r] = p.requests[r] /\ CapabilityOf(q, r) = CapabilityOf(p, r)
           /\ \A c \in DOMAIN q.compositions :
                c \in DOMAIN p.compositions /\ q.compositions[c] = p.compositions[c]
                /\ Inputs(p.compositions[c]) \subseteq DOMAIN q.requests
           /\ \A j \in DOMAIN q.joins :
                j \in DOMAIN p.joins /\ q.joins[j] = p.joins[j] /\ Sides(p.joins[j]) \subseteq DOMAIN q.requests
           /\ Bound(p, nodes) \cap DOMAIN p.requests \subseteq DOMAIN q.requests
           /\ Bound(p, nodes) \cap DOMAIN p.compositions \subseteq DOMAIN q.compositions
           /\ Bound(p, nodes) \cap DOMAIN p.joins \subseteq DOMAIN q.joins
<1> DEFINE q == Slice(p, nodes)
           bound == Bound(p, nodes)
<1>1. /\ q.requests = [r \in Consumed(p, bound) |-> p.requests[r]]
      /\ q.compositions = [c \in DOMAIN p.compositions \cap bound |-> p.compositions[c]]
      /\ q.joins = [j \in DOMAIN p.joins \cap bound |-> p.joins[j]]
  BY SliceShape
<1> HIDE DEF q, bound
<1>2. ASSUME NEW c \in DOMAIN q.compositions PROVE Inputs(p.compositions[c]) \subseteq DOMAIN q.requests
  <2>1. Inputs(p.compositions[c]) \subseteq DOMAIN p.requests
    BY <1>1 DEF Fits, CompositionAllowed
  <2> QED
    BY <1>1, <2>1 DEF Consumed
<1>3. ASSUME NEW j \in DOMAIN q.joins PROVE Sides(p.joins[j]) \subseteq DOMAIN q.requests
  <2>1. Sides(p.joins[j]) \subseteq DOMAIN p.requests
    BY <1>1 DEF Fits, JoinAllowed
  <2> QED
    BY <1>1, <2>1 DEF Consumed
<1>4. bound \cap DOMAIN p.requests \subseteq DOMAIN q.requests
  BY <1>1 DEF Consumed
<1>5. \A r \in DOMAIN q.requests : q.requests[r] = p.requests[r] /\ CapabilityOf(q, r) = CapabilityOf(p, r)
  BY <1>1 DEF CapabilityOf
<1>6. /\ DOMAIN q.requests \subseteq DOMAIN p.requests
      /\ \A c \in DOMAIN q.compositions : c \in DOMAIN p.compositions /\ q.compositions[c] = p.compositions[c]
      /\ \A j \in DOMAIN q.joins : j \in DOMAIN p.joins /\ q.joins[j] = p.joins[j]
      /\ bound \cap DOMAIN p.compositions \subseteq DOMAIN q.compositions
      /\ bound \cap DOMAIN p.joins \subseteq DOMAIN q.joins
  BY <1>1 DEF Consumed
<1> QED
  BY <1>2, <1>3, <1>4, <1>5, <1>6 DEF q, bound

(* The checks pass for what is kept, and nothing kept is unused. *)
THEOREM SliceAccepted ==
    ASSUME NEW p, IsPlan(p), Fits(p), NEW nodes \in (SUBSET DOMAIN p.panels) \ {{}}
    PROVE  IsPlan(Slice(p, nodes)) /\ Accepted(Slice(p, nodes))
<1> DEFINE q == Slice(p, nodes)
           bound == Bound(p, nodes)
<1>1. /\ q = [requests |-> q.requests, compositions |-> q.compositions, joins |-> q.joins, panels |-> q.panels]
      /\ q.requests = [r \in Consumed(p, bound) |-> p.requests[r]]
      /\ q.compositions = [c \in DOMAIN p.compositions \cap bound |-> p.compositions[c]]
      /\ q.joins = [j \in DOMAIN p.joins \cap bound |-> p.joins[j]]
      /\ q.panels = [n \in nodes |-> p.panels[n]]
  BY SliceShape
<1>2. /\ DOMAIN q.requests \subseteq DOMAIN p.requests
      /\ \A r \in DOMAIN q.requests : q.requests[r] = p.requests[r] /\ CapabilityOf(q, r) = CapabilityOf(p, r)
      /\ \A c \in DOMAIN q.compositions :
           c \in DOMAIN p.compositions /\ q.compositions[c] = p.compositions[c]
           /\ Inputs(p.compositions[c]) \subseteq DOMAIN q.requests
      /\ \A j \in DOMAIN q.joins :
           j \in DOMAIN p.joins /\ q.joins[j] = p.joins[j] /\ Sides(p.joins[j]) \subseteq DOMAIN q.requests
      /\ bound \cap DOMAIN p.requests \subseteq DOMAIN q.requests
      /\ bound \cap DOMAIN p.compositions \subseteq DOMAIN q.compositions
      /\ bound \cap DOMAIN p.joins \subseteq DOMAIN q.joins
  BY SliceKeeps
<1> HIDE DEF q, bound
<1>3. IsFiniteSet(nodes) /\ Cardinality(nodes) <= MaxComponents /\ nodes # {}
  <2>1. nodes \subseteq DOMAIN p.panels /\ nodes # {}
    OBVIOUS
  <2>2. IsFiniteSet(DOMAIN p.panels) /\ Cardinality(DOMAIN p.panels) <= MaxComponents
    BY DEF IsPlan, Fits
  <2> QED
    BY <2>1, <2>2, FewerPanels
<1>4. IsPlan(q)
  <2>1. q.requests = [r \in DOMAIN q.requests |-> q.requests[r]]
    BY <1>1
  <2>2. DOMAIN q.panels = nodes
    BY <1>1
  <2>3. \A r \in DOMAIN q.requests : IsRequest(q.requests[r])
    BY <1>2 DEF IsPlan
  <2>4. \A c \in DOMAIN q.compositions : IsComposition(q.compositions[c])
    BY <1>2 DEF IsPlan
  <2>5. SourcesApart(q)
    BY <1>1, <1>2 DEF IsPlan, SourcesApart
  <2> QED
    BY <1>1, <1>3, <2>1, <2>2, <2>3, <2>4, <2>5 DEF IsPlan
<1>5. /\ \A r \in DOMAIN q.requests : q.requests[r].capability \in DOMAIN Capability
      /\ \A r \in DOMAIN q.requests : QueryAllowed(q.requests[r])
  BY <1>2 DEF Fits
<1>6. ASSUME NEW c \in DOMAIN q.compositions PROVE CompositionAllowed(q, q.compositions[c])
  <2>1. CompositionAllowed(p, p.compositions[c])
    BY <1>2 DEF Fits
  <2> QED
    BY <2>1, <1>2 DEF CompositionAllowed
<1>7. ASSUME NEW j \in DOMAIN q.joins PROVE JoinAllowed(q, q.joins[j])
  <2>1. JoinAllowed(p, p.joins[j])
    BY <1>2 DEF Fits
  <2> QED
    BY <2>1, <1>2 DEF JoinAllowed, Sides
<1>8. ASSUME NEW n \in nodes PROVE PanelFits(q, p.panels[n])
  <2>1. PanelFits(p, p.panels[n])
    BY DEF Fits
  <2>2. \A s \in DOMAIN p.panels[n].binds : p.panels[n].binds[s] \in bound
    <3> DEFINE all == {Range(p.panels[m].binds) : m \in nodes}
    <3>1. Range(p.panels[n].binds) \in all
      OBVIOUS
    <3>2. bound = UNION all
      BY DEF bound, Bound
    <3> HIDE DEF all
    <3> QED
      BY <3>1, <3>2 DEF Range
  <2>3. ASSUME NEW slot, NEW source \in bound, BindingFits(p, slot, source) PROVE BindingFits(q, slot, source)
    <3>1. CASE source \in DOMAIN p.requests /\ RequestFits(p, slot, source)
      BY <3>1, <1>2 DEF BindingFits, RequestFits
    <3>2. CASE source \in DOMAIN p.compositions /\ CompositionFits(p, slot, source)
      BY <3>2, <1>2 DEF BindingFits, CompositionFits
    <3>3. CASE source \in DOMAIN p.joins /\ JoinFits(p, slot, source)
      <4>1. source \in DOMAIN q.joins /\ q.joins[source] = p.joins[source]
        BY <3>3, <1>2
      <4>2. p.joins[source].left \in DOMAIN q.requests /\ p.joins[source].right \in DOMAIN q.requests
        BY <4>1, <1>2 DEF Sides
      <4>3. JoinFits(q, slot, source)
        BY <3>3, <4>1, <4>2, <1>2 DEF JoinFits
      <4> QED
        BY <4>1, <4>3 DEF BindingFits
    <3> QED
      BY <2>3, <3>1, <3>2, <3>3 DEF BindingFits
  <2> QED
    BY <2>1, <2>2, <2>3 DEF PanelFits
<1>9. Fits(q)
  <2>1. DOMAIN q.panels = nodes /\ \A n \in nodes : q.panels[n] = p.panels[n]
    BY <1>1
  <2> QED
    BY <2>1, <1>3, <1>5, <1>6, <1>7, <1>8 DEF Fits
<1>10. Bound(q, DOMAIN q.panels) = bound
  <2>1. DOMAIN q.panels = nodes /\ \A n \in nodes : q.panels[n] = p.panels[n]
    BY <1>1
  <2>2. {Range(q.panels[n].binds) : n \in nodes} = {Range(p.panels[n].binds) : n \in nodes}
    BY <2>1
  <2> QED
    BY <2>1, <2>2 DEF bound, Bound
<1>11. Consumed(p, bound) \subseteq Consumed(q, bound)
  <2>1. DOMAIN q.requests = Consumed(p, bound)
    BY <1>1
  <2>2. bound \cap DOMAIN q.compositions = bound \cap DOMAIN p.compositions /\ bound \cap DOMAIN q.joins = bound \cap DOMAIN p.joins
    BY <1>1
  <2> QED
    BY <2>1, <2>2, <1>2 DEF Consumed
<1>12. NothingUnused(q)
  BY <1>1, <1>10, <1>11 DEF NothingUnused
<1> QED
  BY <1>4, <1>9, <1>12 DEF Accepted, q

(* What a composed source is computed from is in the slice that keeps it, so it is
   computed to the same. *)
LEMMA SliceComputes ==
    ASSUME NEW p, IsPlan(p), Fits(p), NEW nodes \in SUBSET DOMAIN p.panels, NEW answers
    PROVE  LET q == Slice(p, nodes)
               kept == Restrict(answers, DOMAIN q.requests)
           IN  /\ \A c \in DOMAIN q.compositions :
                    ComposeOne(q, q.compositions[c], kept) = ComposeOne(p, p.compositions[c], answers)
               /\ \A j \in DOMAIN q.joins : JoinOne(q, q.joins[j], kept) = JoinOne(p, p.joins[j], answers)
<1> DEFINE q == Slice(p, nodes)
           kept == Restrict(answers, DOMAIN q.requests)
<1>1. /\ \A r \in DOMAIN q.requests : CapabilityOf(q, r) = CapabilityOf(p, r)
      /\ \A c \in DOMAIN q.compositions :
           q.compositions[c] = p.compositions[c] /\ Inputs(p.compositions[c]) \subseteq DOMAIN q.requests
      /\ \A j \in DOMAIN q.joins :
           q.joins[j] = p.joins[j] /\ Sides(p.joins[j]) \subseteq DOMAIN q.requests
  BY SliceKeeps
<1>2. \A r \in DOMAIN q.requests : kept[r] = answers[r]
  BY DEF Restrict
<1> HIDE DEF q, kept
<1>3. ASSUME NEW c \in DOMAIN q.compositions
      PROVE  ComposeOne(q, q.compositions[c], kept) = ComposeOne(p, p.compositions[c], answers)
  <2> DEFINE comp == p.compositions[c]
  <2>1. q.compositions[c] = comp /\ Inputs(comp) \subseteq DOMAIN q.requests
    BY <1>1
  <2> HIDE DEF comp
  <2>2. Composable(q, comp) <=> Composable(p, comp)
    BY <1>1, <2>1 DEF Composable
  <2>3. \A i \in DOMAIN comp.inputs : comp.inputs[i] \in DOMAIN q.requests
    BY <2>1 DEF Inputs, Range
  <2>4. Arrived(comp, kept) = Arrived(comp, answers)
    BY <1>2, <2>3 DEF Arrived
  <2>5. ComposeOne(q, comp, kept) = ComposeOne(p, comp, answers)
    BY <2>2, <2>4 DEF ComposeOne
  <2> QED
    BY <2>1, <2>5 DEF comp
<1>4. ASSUME NEW j \in DOMAIN q.joins
      PROVE  JoinOne(q, q.joins[j], kept) = JoinOne(p, p.joins[j], answers)
  <2> DEFINE join == p.joins[j]
  <2>1. q.joins[j] = join /\ join.left \in DOMAIN q.requests /\ join.right \in DOMAIN q.requests
    BY <1>1 DEF Sides
  <2> HIDE DEF join
  <2>2. Joinable(q, join) <=> Joinable(p, join)
    BY <1>1, <2>1 DEF Joinable
  <2>3. kept[join.left] = answers[join.left] /\ kept[join.right] = answers[join.right]
    BY <1>2, <2>1
  <2>4. JoinOne(q, join, kept) = JoinOne(p, join, answers)
    BY <2>2, <2>3 DEF JoinOne
  <2> QED
    BY <2>1, <2>4 DEF join
<1> QED
  BY <1>3, <1>4 DEF q, kept

(* Of the same answers, the slice shows in its panels what the plan shows in them. *)
LEMMA SliceShows ==
    ASSUME NEW p, IsPlan(p), Fits(p), NEW nodes \in SUBSET DOMAIN p.panels, NEW answers, AllSettled(p, answers)
    PROVE  Projected(Slice(p, nodes), Restrict(answers, DOMAIN Slice(p, nodes).requests))
             = Restrict(Projected(p, answers), nodes)
<1> DEFINE q == Slice(p, nodes)
           kept == Restrict(answers, DOMAIN q.requests)
           bound == Bound(p, nodes)
<1>1. /\ DOMAIN q.requests \subseteq DOMAIN p.requests
      /\ bound \cap DOMAIN p.requests \subseteq DOMAIN q.requests
      /\ bound \cap DOMAIN p.compositions \subseteq DOMAIN q.compositions
      /\ bound \cap DOMAIN p.joins \subseteq DOMAIN q.joins
      /\ \A c \in DOMAIN q.compositions : c \in DOMAIN p.compositions
  BY SliceKeeps
<1>2. q.panels = [n \in nodes |-> p.panels[n]]
  BY SliceShape
<1>3. /\ \A c \in DOMAIN q.compositions :
            ComposeOne(q, q.compositions[c], kept) = ComposeOne(p, p.compositions[c], answers)
      /\ \A j \in DOMAIN q.joins : JoinOne(q, q.joins[j], kept) = JoinOne(p, p.joins[j], answers)
  BY SliceComputes
<1>4. DOMAIN kept = DOMAIN q.requests /\ \A r \in DOMAIN q.requests : kept[r] = answers[r]
  BY DEF Restrict
<1> HIDE DEF q, kept, bound
<1>5. ASSUME NEW n \in nodes, NEW s \in DOMAIN p.panels[n].binds
      PROVE  View(q, kept, p.panels[n].binds[s]) = View(p, answers, p.panels[n].binds[s])
  <2> DEFINE source == p.panels[n].binds[s]
  <2>1. source \in bound
    <3> DEFINE all == {Range(p.panels[m].binds) : m \in nodes}
    <3>1. Range(p.panels[n].binds) \in all
      OBVIOUS
    <3>2. bound = UNION all
      BY DEF bound, Bound
    <3>3. source \in Range(p.panels[n].binds)
      BY DEF Range
    <3> HIDE DEF all, source
    <3> QED
      BY <3>1, <3>2, <3>3
  <2>2. source \in DOMAIN p.requests \/ source \in DOMAIN p.compositions \/ source \in DOMAIN p.joins
    <3>1. PanelFits(p, p.panels[n])
      BY DEF Fits
    <3> QED
      BY <3>1 DEF PanelFits, BindingFits
  <2> HIDE DEF source
  <2>3. CASE source \in DOMAIN p.requests
    <3>1. source \in DOMAIN kept /\ source \in DOMAIN answers /\ kept[source] = answers[source]
      BY <2>1, <2>3, <1>1, <1>4 DEF AllSettled
    <3> QED
      BY <3>1 DEF View, source
  <2>4. CASE source \notin DOMAIN p.requests
    <3>1. source \notin DOMAIN kept /\ source \notin DOMAIN answers
      BY <2>4, <1>1, <1>4 DEF AllSettled
    <3>2. source \notin DOMAIN q.requests /\ AllSettled(q, kept)
      BY <2>4, <1>1, <1>4 DEF AllSettled
    <3>3. View(q, kept, source) = SourceView(q, kept, source) /\ View(p, answers, source) = SourceView(p, answers, source)
      BY <2>4, <3>1, <3>2 DEF View
    <3>4. SourceView(q, kept, source) = SourceView(p, answers, source)
      <4>1. CASE source \in DOMAIN p.compositions
        <5>1. source \in DOMAIN q.compositions
          BY <4>1, <2>1, <1>1
        <5> QED
          BY <4>1, <5>1, <1>3 DEF SourceView
      <4>2. CASE source \notin DOMAIN p.compositions
        <5>1. source \notin DOMAIN q.compositions /\ source \in DOMAIN q.joins
          BY <4>2, <2>1, <2>2, <2>4, <1>1
        <5> QED
          BY <4>2, <5>1, <1>3 DEF SourceView
      <4> QED
        BY <4>1, <4>2
    <3> QED
      BY <3>3, <3>4 DEF source
  <2> QED
    BY <2>3, <2>4
<1>6. Projected(q, kept) = Restrict(Projected(p, answers), nodes)
  <2>1. DOMAIN q.panels = nodes /\ \A n \in nodes : q.panels[n] = p.panels[n]
    BY <1>2
  <2>2. \A n \in nodes :
          [s \in DOMAIN p.panels[n].binds |-> View(q, kept, p.panels[n].binds[s])]
            = [s \in DOMAIN p.panels[n].binds |-> View(p, answers, p.panels[n].binds[s])]
    BY <1>5
  <2>3. Projected(q, kept) = [n \in nodes |-> [s \in DOMAIN p.panels[n].binds |-> View(q, kept, p.panels[n].binds[s])]]
    BY <2>1 DEF Projected
  <2>4. Restrict(Projected(p, answers), nodes)
          = [n \in nodes |-> [s \in DOMAIN p.panels[n].binds |-> View(p, answers, p.panels[n].binds[s])]]
    BY DEF Restrict, Projected
  <2> QED
    BY <2>2, <2>3, <2>4
<1> QED
  BY <1>6 DEF q, kept

-----------------------------------------------------------------------------
(* The checks hold of every plan in hand, and what is shown is its projection. *)
Shown == phase = "shown" => screen = Projected(plan, settled)
Inv == TypeOK /\ Shown

LEMMA InitInv == Init => Inv
<1> SUFFICES ASSUME Init PROVE Inv
  OBVIOUS
<1>1. phase = "idle" /\ streamed = FALSE /\ saved = None /\ acts = 0
  BY DEF Init
<1>2. acts \in 0 .. MaxActs
  BY <1>1, PlanDataAssumption DEF PlanDataAssumption
<1> QED
  BY <1>1, <1>2 DEF Inv, TypeOK, Shown

(* A plan that is a plan and fits can be executed. *)
LEMMA ExecuteInv ==
    ASSUME Inv, NEW p, IsPlan(p), Fits(p), NEW stream \in BOOLEAN, Execute(p, stream),
           acts' \in 0 .. MaxActs, UNCHANGED saved
    PROVE  Inv'
<1>1. phase' = "executing" /\ plan' = p /\ settled' = <<>> /\ streamed' = stream /\ saved' = saved
  BY DEF Execute
<1>2. DOMAIN settled' = {}
  BY <1>1
<1> QED
  BY <1>1, <1>2 DEF Inv, TypeOK, Shown

LEMMA ActCounts == acts \in 0 .. MaxActs /\ Act => acts' \in 0 .. MaxActs
  BY PlanDataAssumption DEF Act, PlanDataAssumption

LEMMA NextInv == Inv /\ [Next]_vars => Inv'
<1> SUFFICES ASSUME Inv, [Next]_vars PROVE Inv'
  OBVIOUS
<1>1. ASSUME NEW p \in Candidates, NEW stream \in BOOLEAN, Compose(p, stream)
      PROVE  Inv'
  <2>1. CASE Accepted(p)
    <3>1. IsPlan(p) /\ Fits(p)
      BY <2>1, CandidatesAssumption DEF CandidatesAssumption, Accepted
    <3>2. Execute(p, stream) /\ UNCHANGED <<saved, acts>>
      BY <1>1, <2>1 DEF Compose
    <3> QED
      BY <3>1, <3>2, ExecuteInv DEF Inv, TypeOK
  <2>2. CASE ~Accepted(p)
    BY <1>1, <2>2 DEF Compose, Inv, TypeOK, Shown
  <2> QED
    BY <2>1, <2>2
<1>2. ASSUME phase = "executing", NEW r \in DOMAIN plan.requests, NEW res \in Outcomes(plan.requests[r]), Settle(r, res)
      PROVE  Inv'
  <2>1. /\ settled' = [x \in DOMAIN settled \cup {r} |-> IF x = r THEN res ELSE settled[x]]
        /\ plan' = plan /\ phase' = phase /\ streamed' = streamed /\ saved' = saved /\ acts' = acts
    BY <1>2 DEF Settle
  <2> QED
    BY <1>2, <2>1 DEF Inv, TypeOK, Shown
<1>3. CASE Show
  BY <1>3 DEF Show, Inv, TypeOK, Shown, Projected
<1>4. ASSUME phase = "shown", NEW p \in Refined(plan), Refine(p)
      PROVE  Inv'
  <2>1. IsPlan(p) /\ Fits(p)
    BY <1>4, RefinedFits DEF Refine, Inv, TypeOK
  <2>2. Execute(p, FALSE) /\ UNCHANGED saved
    BY <1>4 DEF Refine
  <2>3. acts' \in 0 .. MaxActs
    BY <1>4, ActCounts DEF Refine, Inv, TypeOK
  <2> QED
    BY <2>1, <2>2, <2>3, ExecuteInv
<1>5. CASE Save
  BY <1>5, PlanDataAssumption DEF Save, Act, Inv, TypeOK, Shown, PlanDataAssumption
<1>6. ASSUME phase = "shown", NEW nodes \in (SUBSET DOMAIN plan.panels) \ {{}}, Pin(nodes)
      PROVE  Inv'
  <2>1. IsPlan(Slice(plan, nodes)) /\ Fits(Slice(plan, nodes))
    BY <1>6, SliceAccepted DEF Inv, TypeOK, Accepted
  <2> QED
    BY <1>6, <2>1, PlanDataAssumption DEF Pin, Act, Inv, TypeOK, Shown, PlanDataAssumption
<1>7. CASE Reopen
  <2>1. IsPlan(saved) /\ Fits(saved) /\ Execute(saved, FALSE) /\ UNCHANGED saved
    BY <1>7 DEF Reopen, Inv, TypeOK
  <2>2. acts' \in 0 .. MaxActs
    BY <1>7, ActCounts DEF Reopen, Inv, TypeOK
  <2> QED
    BY <2>1, <2>2, ExecuteInv
<1>8. CASE UNCHANGED vars
  BY <1>8 DEF vars, Inv, TypeOK, Shown
<1> QED
  BY <1>1, <1>2, <1>3, <1>4, <1>5, <1>6, <1>7, <1>8 DEF Next

(* Every plan executed and every view saved is one that passes the checks. *)
THEOREM TypeCorrect == Spec => []TypeOK
<1>1. Inv => TypeOK
  BY DEF Inv
<1> QED
  BY <1>1, InitInv, NextInv, PTL DEF Spec

(* Whatever panels of whatever was shown are pinned, the pin passes the checks and
   shows what they showed. *)
THEOREM PinsAlwaysStand == Spec => []PinsStand
<1>1. Inv => PinsStand
  <2> SUFFICES ASSUME Inv, phase = "shown", NEW nodes \in (SUBSET DOMAIN plan.panels) \ {{}}
               PROVE  /\ Accepted(Slice(plan, nodes))
                      /\ Projected(Slice(plan, nodes), Restrict(settled, DOMAIN Slice(plan, nodes).requests))
                           = Restrict(screen, nodes)
    BY DEF PinsStand
  <2>1. IsPlan(plan) /\ Fits(plan) /\ AllSettled(plan, settled) /\ screen = Projected(plan, settled)
    BY DEF Inv, TypeOK, Shown
  <2> QED
    BY <2>1, SliceAccepted, SliceShows
<1> QED
  BY <1>1, InitInv, NextInv, PTL DEF Spec

-----------------------------------------------------------------------------
(* While answers stream in, what a panel shows is of those that are in. *)
Cell(n, s) == n \in DOMAIN plan.panels /\ s \in DOMAIN plan.panels[n].binds
Streaming ==
    phase = "executing" /\ streamed =>
        \A n \in DOMAIN screen : \A s \in DOMAIN screen[n] :
            /\ Cell(n, s)
            /\ screen[n][s].state # "pending" => screen[n][s] = View(plan, settled, plan.panels[n].binds[s])

LEMMA ProjectedCells ==
    ASSUME NEW answers, NEW n, NEW s, Cell(n, s)
    PROVE  Projected(plan, answers)[n][s] = View(plan, answers, plan.panels[n].binds[s])
  BY DEF Projected, Cell

LEMMA ProjectedStreams ==
    ASSUME NEW answers
    PROVE  \A n \in DOMAIN Projected(plan, answers) : \A s \in DOMAIN Projected(plan, answers)[n] : Cell(n, s)
  BY DEF Projected, Cell

(* A source that is shown before everything is in is a request that has settled: the
   next answer shows it as it was. *)
LEMMA ViewStays ==
    ASSUME Inv, phase = "executing", NEW r, NEW res, Settle(r, res),
           NEW source, View(plan, settled, source).state # "pending"
    PROVE  View(plan, settled', source) = View(plan, settled, source)
<1>1. /\ r \in DOMAIN plan.requests /\ r \notin DOMAIN settled
      /\ settled' = [x \in DOMAIN settled \cup {r} |-> IF x = r THEN res ELSE settled[x]]
  BY DEF Settle
<1>2. ~AllSettled(plan, settled)
  BY <1>1 DEF AllSettled
<1>3. source \in DOMAIN settled
  BY <1>2 DEF View, Pending
<1>4. source \in DOMAIN settled' /\ settled'[source] = settled[source]
  BY <1>1, <1>3
<1> QED
  BY <1>3, <1>4 DEF View

(* One answer more: every cell that was shown is shown as it was. *)
LEMMA SettleStays ==
    ASSUME Inv, Streaming, phase = "executing", streamed, NEW r, NEW res, Settle(r, res)
    PROVE  /\ Streaming'
           /\ \A n \in DOMAIN screen : \A s \in DOMAIN screen[n] :
                screen[n][s].state # "pending" => screen'[n][s] = screen[n][s]
<1>1. UNCHANGED <<plan, phase, streamed>> /\ (screen' = Projected(plan, settled') \/ screen' = screen)
  BY DEF Settle
<1>2. ASSUME NEW n \in DOMAIN screen, NEW s \in DOMAIN screen[n], screen[n][s].state # "pending"
      PROVE  screen[n][s] = View(plan, settled', plan.panels[n].binds[s])
  <2>1. screen[n][s] = View(plan, settled, plan.panels[n].binds[s])
    BY <1>2 DEF Streaming
  <2> QED
    BY <1>2, <2>1, ViewStays
<1>3. CASE screen' = Projected(plan, settled')
  <2>1. \A n \in DOMAIN screen : \A s \in DOMAIN screen[n] : Cell(n, s)
    BY DEF Streaming
  <2>2. \A n \in DOMAIN screen : \A s \in DOMAIN screen[n] :
          screen[n][s].state # "pending" => screen'[n][s] = screen[n][s]
    BY <1>2, <1>3, <2>1, ProjectedCells
  <2>3. \A n \in DOMAIN screen' : \A s \in DOMAIN screen'[n] :
          Cell(n, s) /\ screen'[n][s] = View(plan, settled', plan.panels[n].binds[s])
    BY <1>3, ProjectedStreams, ProjectedCells
  <2>4. Streaming'
    BY <1>1, <2>3 DEF Streaming, Cell
  <2> QED
    BY <2>2, <2>4
<1>4. CASE screen' = screen
  <2>1. Streaming'
    BY <1>1, <1>2, <1>4 DEF Streaming, Cell
  <2> QED
    BY <2>1, <1>4
<1> QED
  BY <1>1, <1>3, <1>4

LEMMA ExecuteStreams ==
    ASSUME NEW p, NEW stream \in BOOLEAN, Execute(p, stream)
    PROVE  Streaming'
<1>1. plan' = p /\ settled' = <<>> /\ streamed' = stream /\ (stream => screen' = Projected(p, <<>>))
  BY DEF Execute
<1> QED
  BY <1>1 DEF Streaming, Cell, Projected

LEMMA NextStreams == Inv /\ Streaming /\ [Next]_vars => Streaming'
<1> SUFFICES ASSUME Inv, Streaming, [Next]_vars PROVE Streaming'
  OBVIOUS
<1>1. ASSUME NEW p \in Candidates, NEW stream \in BOOLEAN, Compose(p, stream)
      PROVE  Streaming'
  <2>1. CASE Accepted(p)
    BY <1>1, <2>1, ExecuteStreams DEF Compose
  <2>2. CASE ~Accepted(p)
    BY <1>1, <2>2 DEF Compose, Streaming
  <2> QED
    BY <2>1, <2>2
<1>2. ASSUME phase = "executing", NEW r \in DOMAIN plan.requests, NEW res \in Outcomes(plan.requests[r]), Settle(r, res)
      PROVE  Streaming'
  <2>1. CASE streamed
    BY <1>2, <2>1, SettleStays
  <2>2. CASE ~streamed
    BY <1>2, <2>2 DEF Settle, Streaming
  <2> QED
    BY <2>1, <2>2
<1>3. CASE Show
  BY <1>3 DEF Show, Streaming
<1>4. ASSUME NEW p \in Refined(plan), Refine(p) PROVE Streaming'
  BY <1>4, ExecuteStreams DEF Refine
<1>5. CASE Save
  BY <1>5 DEF Save, Act, Streaming
<1>6. ASSUME NEW nodes \in (SUBSET DOMAIN plan.panels) \ {{}}, Pin(nodes) PROVE Streaming'
  BY <1>6 DEF Pin, Act, Streaming
<1>7. CASE Reopen
  BY <1>7, ExecuteStreams DEF Reopen
<1>8. CASE UNCHANGED vars
  BY <1>8 DEF vars, Streaming, Cell
<1> QED
  BY <1>1, <1>2, <1>3, <1>4, <1>5, <1>6, <1>7, <1>8 DEF Next

(* While a plan's answers stream in, no panel that has left "pending" is drawn again
   as anything else, not by the last projection either (onRequestSettled,
   projectPlanDataModel). *)
THEOREM PanelsStay == Spec => SettledPanelsStay
<1> DEFINE Stays == plan' = plan /\ streamed /\ phase = "executing" =>
                      \A n \in DOMAIN screen : \A s \in DOMAIN screen[n] :
                        screen[n][s].state # "pending" => screen'[n][s] = screen[n][s]
<1>1. Init => Streaming
  BY DEF Init, Streaming
<1>2. Inv /\ Streaming /\ [Next]_vars => [Stays]_vars
  <2> SUFFICES ASSUME Inv, Streaming, Next, streamed, phase = "executing"
               PROVE  \A n \in DOMAIN screen : \A s \in DOMAIN screen[n] :
                        screen[n][s].state # "pending" => screen'[n][s] = screen[n][s]
    OBVIOUS
  <2>1. Show \/ \E r \in DOMAIN plan.requests : \E res \in Outcomes(plan.requests[r]) : Settle(r, res)
    BY DEF Next, Compose, Refine, Save, Pin, Reopen, Act
  <2>2. CASE Show
    <3>1. screen' = Projected(plan, settled)
      BY <2>2 DEF Show
    <3> QED
      BY <3>1, ProjectedCells DEF Streaming
  <2>3. CASE \E r \in DOMAIN plan.requests : \E res \in Outcomes(plan.requests[r]) : Settle(r, res)
    BY <2>3, SettleStays
  <2> QED
    BY <2>1, <2>2, <2>3
<1> QED
  BY <1>1, <1>2, InitInv, NextInv, NextStreams, PTL DEF Spec, SettledPanelsStay

-----------------------------------------------------------------------------
(* Induction over the numbers, as a set that holds zero and what follows each of its
   numbers: an infinite descent in it would be one among finite sets. *)
LEMMA SetInduction ==
    ASSUME NEW S, 0 \in S, \A n \in Nat : n \in S => n + 1 \in S
    PROVE  Nat \subseteq S
<1> SUFFICES ASSUME ~(Nat \subseteq S) PROVE FALSE
  OBVIOUS
<1> DEFINE Missed == {1 .. n : n \in Nat \ S}
<1>1. Missed # {} /\ Missed \subseteq FiniteSubsetsOf(Nat)
  <2>1. \A n \in Nat : IsFiniteSet(1 .. n) /\ 1 .. n \subseteq Nat
    BY FS_Interval
  <2> QED
    BY <2>1 DEF FiniteSubsetsOf
<1>2. PICK U \in Missed : \A V \in Missed : <<V, U>> \notin StrictSubsetOrdering(Nat)
  <2> HIDE DEF Missed
  <2> QED
    BY <1>1, WFMin, FS_StrictSubsetOrderingWellFounded
<1>3. PICK n \in Nat \ S : U = 1 .. n
  OBVIOUS
<1>4. n # 0 /\ n - 1 \in Nat /\ (n - 1) + 1 = n
  BY <1>3
<1>5. n - 1 \in Nat \ S
  BY <1>3, <1>4
<1>6. 1 .. (n - 1) \in Missed
  BY <1>5
<1>7. 1 .. (n - 1) \subseteq 1 .. n /\ 1 .. (n - 1) # 1 .. n
  <2>1. n \in 1 .. n /\ n \notin 1 .. (n - 1)
    BY <1>4
  <2> QED
    BY <1>4, <2>1
<1>8. <<1 .. (n - 1), U>> \in StrictSubsetOrdering(Nat)
  BY <1>3, <1>7 DEF StrictSubsetOrdering
<1> QED
  BY <1>2, <1>6, <1>8

(* A step maps a number and a member of S to one of S; f follows it from the base. *)
Steps(n, S, step) == \A k \in 1 .. n, x \in S : step[<<k, x>>] \in S
Follows(f, n, S, base, step) ==
    f \in [0 .. n -> S] /\ f[0] = base /\ \A k \in 1 .. n : f[k] = step[<<k, f[k - 1]>>]

(* A function of the numbers up to n that begins and goes on as it is told. *)
LEMMA Recursion ==
    ASSUME NEW n \in Nat, NEW S, NEW base \in S, NEW step, Steps(n, S, step)
    PROVE  \E f : Follows(f, n, S, base, step)
<1> DEFINE Upto(m, f) == f[0] = base /\ \A k \in 1 .. m : f[k] = step[<<k, f[k - 1]>>]
           Fine(m) == \E f \in [0 .. m -> S] : Upto(m, f)
           D == {m \in Nat : m <= n => Fine(m)}
<1>1. Fine(0)
  <2>1. [k \in 0 .. 0 |-> base] \in [0 .. 0 -> S] /\ Upto(0, [k \in 0 .. 0 |-> base])
    OBVIOUS
  <2> QED
    BY <2>1
<1>2. ASSUME NEW m \in Nat, Fine(m), m + 1 <= n PROVE Fine(m + 1)
  <2>1. PICK f \in [0 .. m -> S] : Upto(m, f)
    BY <1>2
  <2> DEFINE g == [k \in 0 .. m + 1 |-> IF k = m + 1 THEN step[<<m + 1, f[m]>>] ELSE f[k]]
  <2>2. f[m] \in S /\ step[<<m + 1, f[m]>>] \in S
    BY <1>2 DEF Steps
  <2>3. g \in [0 .. m + 1 -> S]
    BY <2>2
  <2>4. \A k \in 0 .. m : g[k] = f[k]
    OBVIOUS
  <2>5. g[m + 1] = step[<<m + 1, g[m]>>]
    <3>1. g[m] = f[m]
      BY <2>4
    <3>2. g[m + 1] = step[<<m + 1, f[m]>>]
      OBVIOUS
    <3> QED
      BY <3>1, <3>2
  <2>6. Upto(m + 1, g)
    <3>1. g[0] = base
      BY <2>1, <2>4
    <3>2. ASSUME NEW k \in 1 .. m + 1 PROVE g[k] = step[<<k, g[k - 1]>>]
      <4>1. CASE k = m + 1
        <5>1. k - 1 = m
          BY <4>1
        <5> HIDE DEF g
        <5> QED
          BY <2>5, <4>1, <5>1
      <4>2. CASE k # m + 1
        <5>1. k \in 1 .. m /\ k \in 0 .. m /\ k - 1 \in 0 .. m
          BY <4>2
        <5> QED
          BY <5>1, <2>1, <2>4
      <4> QED
        BY <4>1, <4>2
    <3> QED
      BY <3>1, <3>2
  <2> QED
    BY <2>3, <2>6
<1>3. n \in D
  <2> HIDE DEF Fine
  <2>1. 0 \in D /\ \A m \in Nat : m \in D => m + 1 \in D
    BY <1>1, <1>2
  <2> HIDE DEF D
  <2> QED
    BY <2>1, SetInduction
<1> QED
  BY <1>3 DEF Follows

(* How the rows at some places are gathered, one after the other. *)
Gathers(upTo, rows, places) ==
    /\ upTo[0] = <<>> /\ Those(rows, places) = upTo[Len(rows)]
    /\ \A k \in 1 .. Len(rows) : upTo[k] = IF k \in places THEN Append(upTo[k - 1], rows[k]) ELSE upTo[k - 1]
LEMMA ThoseSteps ==
    ASSUME NEW T, NEW rows \in Seq(T), NEW places
    PROVE  \E upTo : Gathers(upTo, rows, places)
<1> DEFINE n == Len(rows)
           Q == Seq(T)
           Then(k, s) == IF k \in places THEN Append(s, rows[k]) ELSE s
           E(f) == [k \in 0 .. n |-> IF k = 0 THEN <<>> ELSE Then(k, f[k - 1])]
           upTo == CHOOSE f : f = E(f)
<1>1. n \in Nat /\ DOMAIN rows = 1 .. n /\ \A k \in 1 .. n : rows[k] \in T
  OBVIOUS
<1>2. Those(rows, places) = upTo[n]
  BY DEF Those
<1> HIDE DEF n
<1>3. \A k \in 1 .. n, s \in Q : Then(k, s) \in Q
  BY <1>1
<1>4. \E f : f = E(f)
  <2> DEFINE step == [x \in (1 .. n) \X Q |-> Then(x[1], x[2])]
  <2>1. Steps(n, Q, step)
    <3> HIDE DEF Then, Q
    <3> QED
      BY <1>3 DEF Steps
  <2>2. <<>> \in Q
    OBVIOUS
  <2>3. PICK f : Follows(f, n, Q, <<>>, step)
    <3> HIDE DEF Q, step
    <3> QED
      BY <1>1, <2>1, <2>2, Recursion
  <2>4. ASSUME NEW k \in 1 .. n PROVE f[k] = Then(k, f[k - 1])
    <3>1. k - 1 \in 0 .. n
      BY <1>1
    <3>2. f[k - 1] \in Q /\ <<k, f[k - 1]>> \in (1 .. n) \X Q
      BY <2>3, <3>1 DEF Follows
    <3> HIDE DEF Then, Q
    <3> QED
      BY <2>3, <3>2 DEF Follows
  <2>5. f = E(f)
    <3> HIDE DEF Then, Q
    <3> QED
      BY <2>3, <2>4, <1>1 DEF Follows
  <2> QED
    BY <2>5
<1>5. upTo[0] = <<>> /\ \A k \in 1 .. n : upTo[k] = Then(k, upTo[k - 1])
  <2>1. upTo = E(upTo)
    BY <1>4
  <2> HIDE DEF upTo, Then
  <2>2. \A f : f = E(f) => f[0] = <<>> /\ \A k \in 1 .. n : f[k] = Then(k, f[k - 1])
    BY <1>1
  <2> HIDE DEF E
  <2> QED
    BY <2>1, <2>2
<1> HIDE DEF upTo
<1> QED
  BY <1>2, <1>5 DEF n, Gathers

(* A list has the rows at these places and no others, each once. *)
Numbers(at, out, rows, places) ==
    /\ at \in [1 .. Len(out) -> places]
    /\ \A i \in 1 .. Len(out) : out[i] = rows[at[i]]
    /\ \A i, j \in 1 .. Len(out) : at[i] = at[j] => i = j
    /\ \A x \in places : \E i \in 1 .. Len(out) : at[i] = x
LEMMA ThoseAre ==
    ASSUME NEW T, NEW rows \in Seq(T), NEW places
    PROVE  /\ Those(rows, places) \in Seq(T)
           /\ \E at : Numbers(at, Those(rows, places), rows, places \cap (1 .. Len(rows)))
<1> DEFINE n == Len(rows)
<1>1. n \in Nat /\ DOMAIN rows = 1 .. n /\ \A k \in 1 .. n : rows[k] \in T
  OBVIOUS
<1>2. PICK upTo : Gathers(upTo, rows, places)
  BY ThoseSteps
<1>3. /\ upTo[0] = <<>> /\ Those(rows, places) = upTo[n]
      /\ \A k \in 1 .. n : upTo[k] = IF k \in places THEN Append(upTo[k - 1], rows[k]) ELSE upTo[k - 1]
  BY <1>2 DEF Gathers
<1> HIDE DEF n
<1> DEFINE Good(k, s) == s \in Seq(T) /\ \E at : Numbers(at, s, rows, places \cap (1 .. k))
           D == {k \in Nat : k <= n => Good(k, upTo[k])}
<1>4. 0 \in D
  <2>1. places \cap (1 .. 0) = {} /\ Len(<<>>) = 0
    OBVIOUS
  <2>2. Numbers(<<>>, <<>>, rows, {})
    BY DEF Numbers
  <2>3. Good(0, <<>>)
    BY <2>1, <2>2
  <2> HIDE DEF Good
  <2> QED
    BY <1>3, <2>3
<1>5. ASSUME NEW k \in Nat, k + 1 <= n, Good(k, upTo[k]) PROVE Good(k + 1, upTo[k + 1])
  <2> DEFINE s == upTo[k]
             t == upTo[k + 1]
             x == rows[k + 1]
             S == places \cap (1 .. k)
             S1 == places \cap (1 .. k + 1)
  <2> SUFFICES Good(k + 1, t)
    OBVIOUS
  <2>1. s \in Seq(T) /\ \E at : Numbers(at, s, rows, S)
    BY <1>5
  <2>2. PICK at : Numbers(at, s, rows, S)
    BY <2>1
  <2>3. t = IF k + 1 \in places THEN Append(s, x) ELSE s
    <3>1. k + 1 \in 1 .. n /\ (k + 1) - 1 = k
      BY <1>1, <1>5
    <3> QED
      BY <1>3, <3>1
  <2>4. x \in T
    <3>1. k + 1 \in 1 .. n
      BY <1>1, <1>5
    <3> QED
      BY <1>1, <3>1
  <2>5. \A j : j \in 1 .. k + 1 <=> j \in 1 .. k \/ j = k + 1
    OBVIOUS
  <2>6. CASE k + 1 \notin places
    <3>1. S1 = S /\ t = s
      BY <2>3, <2>5, <2>6
    <3> HIDE DEF s, t, S, S1
    <3>2. t \in Seq(T) /\ Numbers(at, t, rows, S1)
      BY <2>1, <2>2, <3>1
    <3> QED
      BY <3>2 DEF S1
  <2>7. CASE k + 1 \in places
    <3>1. S1 = S \cup {k + 1} /\ k + 1 \notin S /\ t = Append(s, x)
      BY <2>3, <2>5, <2>7
    <3> HIDE DEF s, t, S, S1
    <3>2. /\ t \in Seq(T) /\ Len(s) \in Nat /\ Len(t) = Len(s) + 1
          /\ t[Len(t)] = x /\ \A i \in 1 .. Len(s) : t[i] = s[i]
      BY <2>1, <2>4, <3>1
    <3> DEFINE m == Len(s)
               at1 == [i \in 1 .. m + 1 |-> IF i = m + 1 THEN k + 1 ELSE at[i]]
    <3>3. /\ m \in Nat /\ at1 \in [1 .. m + 1 -> S1]
          /\ at1[m + 1] = k + 1 /\ \A i \in 1 .. m : at1[i] = at[i]
      <4>1. \A i \in 1 .. m : at[i] \in S
        BY <2>2 DEF Numbers
      <4> QED
        BY <3>1, <3>2, <4>1
    <3>4. \A i : i \in 1 .. m + 1 <=> i \in 1 .. m \/ i = m + 1
      BY <3>2
    <3>5. \A i \in 1 .. m : at[i] \in S /\ s[i] = rows[at[i]]
      BY <2>2 DEF Numbers
    <3>6. \A i \in 1 .. m + 1 : t[i] = rows[at1[i]]
      BY <3>2, <3>3, <3>4, <3>5 DEF x
    <3>7. \A i, j \in 1 .. m + 1 : at1[i] = at1[j] => i = j
      <4>1. \A i, j \in 1 .. m : at[i] = at[j] => i = j
        BY <2>2 DEF Numbers
      <4> HIDE DEF at1
      <4> QED
        BY <3>1, <3>3, <3>4, <3>5, <4>1
    <3>8. \A y \in S1 : \E i \in 1 .. m + 1 : at1[i] = y
      <4>1. \A y \in S : \E i \in 1 .. m : at[i] = y
        BY <2>2 DEF Numbers
      <4> HIDE DEF at1
      <4> QED
        BY <3>1, <3>3, <3>4, <4>1
    <3>9. Numbers(at1, t, rows, S1)
      <4> HIDE DEF at1
      <4> QED
        BY <3>2, <3>3, <3>6, <3>7, <3>8 DEF Numbers
    <3> HIDE DEF at1
    <3> QED
      BY <3>2, <3>9 DEF S1
  <2> QED
    BY <2>6, <2>7
<1>6. Good(n, upTo[n])
  <2> HIDE DEF Good
  <2>1. ASSUME NEW k \in Nat, k \in D PROVE k + 1 \in D
    BY <1>1, <1>5, <2>1
  <2> HIDE DEF D
  <2>2. n \in D
    BY <1>1, <1>4, <2>1, SetInduction
  <2> QED
    BY <1>1, <2>2 DEF D
<1> QED
  BY <1>3, <1>6 DEF n

(* Each key that is wanted and there comes once, with a row that has it. *)
IsOnce(out, T, rows, keys) ==
    /\ out \in Seq(T)
    /\ \A i \in 1 .. Len(out) : out[i].id \in keys /\ \E k \in 1 .. Len(rows) : out[i] = rows[k]
    /\ \A i, j \in 1 .. Len(out) : out[i].id = out[j].id => i = j
    /\ \A k \in 1 .. Len(rows) : rows[k].id \in keys => \E i \in 1 .. Len(out) : out[i].id = rows[k].id
LEMMA OnceIs ==
    ASSUME NEW T, NEW rows \in Seq(T), NEW keys
    PROVE  IsOnce(Once(rows, keys), T, rows, keys)
<1> DEFINE n == Len(rows)
           First(i) == \A k \in 1 .. i - 1 : rows[k].id # rows[i].id
           places == {i \in DOMAIN rows : rows[i].id \in keys /\ First(i)}
           S == places \cap (1 .. Len(rows))
           out == Once(rows, keys)
<1>1. n \in Nat /\ DOMAIN rows = 1 .. n
  OBVIOUS
<1>2. out \in Seq(T) /\ \E at : Numbers(at, out, rows, S)
  <2>1. out = Those(rows, places)
    BY DEF Once
  <2> HIDE DEF places
  <2> QED
    BY <2>1, ThoseAre
<1>3. PICK at : Numbers(at, out, rows, S)
  BY <1>2
<1>4. S = {i \in 1 .. n : rows[i].id \in keys /\ First(i)}
  BY <1>1
<1> HIDE DEF S, n, out
<1>6. ASSUME NEW i \in 1 .. Len(out) PROVE out[i].id \in keys /\ \E k \in 1 .. n : out[i] = rows[k]
  <2>1. at[i] \in S /\ out[i] = rows[at[i]]
    BY <1>3 DEF Numbers
  <2> QED
    BY <1>4, <2>1
<1>7. ASSUME NEW i \in 1 .. Len(out), NEW j \in 1 .. Len(out), out[i].id = out[j].id PROVE i = j
  <2>1. at[i] \in S /\ out[i] = rows[at[i]] /\ at[j] \in S /\ out[j] = rows[at[j]]
    BY <1>3 DEF Numbers
  <2>2. /\ at[i] \in 1 .. n /\ at[j] \in 1 .. n /\ rows[at[i]].id = rows[at[j]].id
        /\ First(at[i]) /\ First(at[j])
    BY <1>4, <1>7, <2>1
  <2>3. at[i] = at[j]
    <3>1. ~(at[i] < at[j])
      BY <1>1, <2>2
    <3>2. ~(at[j] < at[i])
      BY <1>1, <2>2
    <3> QED
      BY <1>1, <2>2, <3>1, <3>2
  <2> QED
    BY <1>3, <2>3 DEF Numbers
<1>8. ASSUME NEW k \in 1 .. n, rows[k].id \in keys PROVE \E i \in 1 .. Len(out) : out[i].id = rows[k].id
  <2> DEFINE Led(m) == \A j \in 1 .. m : j \in 1 .. n => \E i \in 1 .. j : First(i) /\ rows[i].id = rows[j].id
             D == {m \in Nat : Led(m)}
  <2>1. 0 \in D
    OBVIOUS
  <2>2. ASSUME NEW m \in Nat, m \in D PROVE m + 1 \in D
    <3> SUFFICES ASSUME NEW j \in 1 .. m + 1, j \in 1 .. n PROVE \E i \in 1 .. j : First(i) /\ rows[i].id = rows[j].id
      OBVIOUS
    <3>1. CASE j \in 1 .. m
      BY <2>2, <3>1
    <3>2. CASE j = m + 1 /\ First(j)
      BY <3>2
    <3>3. CASE j = m + 1 /\ ~First(j)
      <4>1. PICK b \in 1 .. j - 1 : rows[b].id = rows[j].id
        BY <3>3
      <4>2. b \in 1 .. m /\ b \in 1 .. n
        BY <1>1, <3>3
      <4>3. PICK i \in 1 .. b : First(i) /\ rows[i].id = rows[b].id
        BY <2>2, <4>2
      <4>4. i \in 1 .. j
        BY <4>2, <4>3, <3>3
      <4> QED
        BY <4>1, <4>3, <4>4
    <3> QED
      BY <3>1, <3>2, <3>3
  <2>3. k \in D
    <3> HIDE DEF D
    <3> QED
      BY <1>1, <2>1, <2>2, SetInduction
  <2>4. PICK i \in 1 .. k : First(i) /\ rows[i].id = rows[k].id
    <3>1. k \in 1 .. k
      BY <1>1
    <3> QED
      BY <2>3, <3>1
  <2>5. i \in S
    <3>1. i \in 1 .. n
      BY <1>1
    <3> QED
      BY <1>4, <1>8, <2>4, <3>1
  <2>6. PICK m \in 1 .. Len(out) : at[m] = i
    BY <1>3, <2>5 DEF Numbers
  <2>7. out[m] = rows[i]
    BY <1>3, <2>6 DEF Numbers
  <2> QED
    BY <2>4, <2>6, <2>7
<1> QED
  BY <1>2, <1>6, <1>7, <1>8 DEF n, IsOnce, out

-----------------------------------------------------------------------------
(* The members of a list. *)
LEMMA RangeIs ==
    ASSUME NEW T, NEW list \in Seq(T)
    PROVE  /\ list \in Seq(Range(list)) /\ Range(list) \subseteq T
           /\ \A x \in Range(list) : \E i \in 1 .. Len(list) : x = list[i]
           /\ \A i \in 1 .. Len(list) : list[i] \in Range(list)
<1>1. DOMAIN list = 1 .. Len(list) /\ Len(list) \in Nat /\ \A i \in 1 .. Len(list) : list[i] \in T
  OBVIOUS
<1>2. \A i \in 1 .. Len(list) : list[i] \in Range(list)
  BY <1>1 DEF Range
<1>3. list \in [1 .. Len(list) -> Range(list)]
  BY <1>1, <1>2
<1> QED
  BY <1>1, <1>2, <1>3 DEF Range

(* The members of a list made of two. *)
LEMMA JoinedRange ==
    ASSUME NEW s, NEW t, s \in Seq(Range(s)), t \in Seq(Range(t))
    PROVE  /\ s \o t \in Seq(Range(s) \cup Range(t))
           /\ Range(s \o t) = Range(s) \cup Range(t)
<1> DEFINE S == Range(s)
           T == Range(t)
           u == s \o t
<1>1. s \in Seq(S \cup T) /\ t \in Seq(S \cup T)
  <2> HIDE DEF S, T
  <2>1. s \in Seq(S) /\ t \in Seq(T)
    BY DEF S, T
  <2> QED
    BY <2>1
<1>2. /\ u \in Seq(S \cup T) /\ Len(u) = Len(s) + Len(t) /\ Len(s) \in Nat /\ Len(t) \in Nat
      /\ \A i \in 1 .. Len(s) : u[i] = s[i]
      /\ \A i \in 1 .. Len(t) : u[Len(s) + i] = t[i]
  BY <1>1
<1> HIDE DEF u
<1>3. /\ \A i \in 1 .. Len(u) : i \in 1 .. Len(s) \/ \E j \in 1 .. Len(t) : i = Len(s) + j
      /\ \A i \in 1 .. Len(s) : i \in 1 .. Len(u)
      /\ \A i \in 1 .. Len(t) : Len(s) + i \in 1 .. Len(u)
  <2>1. ASSUME NEW i \in 1 .. Len(u), i \notin 1 .. Len(s) PROVE \E j \in 1 .. Len(t) : i = Len(s) + j
    <3>1. i - Len(s) \in 1 .. Len(t) /\ i = Len(s) + (i - Len(s))
      BY <1>2, <2>1
    <3> QED
      BY <3>1
  <2> QED
    BY <1>2, <2>1
<1>4. ASSUME NEW x \in Range(u) PROVE x \in Range(s) \cup Range(t)
  <2>1. PICK i \in 1 .. Len(u) : x = u[i]
    BY <1>2, RangeIs
  <2>2. CASE i \in 1 .. Len(s)
    BY <1>2, <2>1, <2>2, RangeIs
  <2>3. CASE \E j \in 1 .. Len(t) : i = Len(s) + j
    BY <1>2, <2>1, <2>3, RangeIs
  <2> QED
    BY <1>3, <2>2, <2>3
<1>5. ASSUME NEW x \in Range(s) PROVE x \in Range(u)
  <2>1. PICK i \in 1 .. Len(s) : x = s[i]
    BY RangeIs
  <2> QED
    BY <1>2, <1>3, <2>1, RangeIs
<1>6. ASSUME NEW x \in Range(t) PROVE x \in Range(u)
  <2>1. PICK i \in 1 .. Len(t) : x = t[i]
    BY RangeIs
  <2> QED
    BY <1>2, <1>3, <2>1, RangeIs
<1> QED
  BY <1>2, <1>4, <1>5, <1>6 DEF u

(* Lists one after the other have what each of them has. *)
LEMMA FlattenAre ==
    ASSUME NEW T, NEW seqs \in Seq(Seq(T))
    PROVE  /\ FlattenSeq(seqs) \in Seq(T)
           /\ Range(FlattenSeq(seqs)) = UNION {Range(seqs[i]) : i \in DOMAIN seqs}
<1> DEFINE n == Len(seqs)
           E(f) == [i \in 1 .. n |-> IF i = 1 THEN seqs[i] ELSE f[i - 1] \o seqs[i]]
           flatten == CHOOSE f : f = E(f)
<1>1. n \in Nat /\ DOMAIN seqs = 1 .. n /\ \A i \in 1 .. n : seqs[i] \in Seq(T)
  OBVIOUS
<1>2. FlattenSeq(seqs) = IF n = 0 THEN seqs ELSE flatten[n]
  BY DEF FlattenSeq
<1>3. CASE n = 0
  <2>1. seqs = <<>> /\ DOMAIN seqs = {} /\ seqs \in Seq(T)
    BY <1>3
  <2> QED
    BY <1>2, <1>3, <2>1 DEF Range
<1>4. CASE n > 0
  <2> HIDE DEF n
  <2>1. n - 1 \in Nat /\ 1 \in 1 .. n /\ \A k \in 1 .. n - 1 : k + 1 \in 1 .. n
    BY <1>1, <1>4
  <2>2. \E f : f = E(f)
    <3> DEFINE Q == Seq(T)
               step == [x \in (1 .. n - 1) \X Q |-> x[2] \o seqs[x[1] + 1]]
    <3>1. Steps(n - 1, Q, step)
      BY <1>1, <2>1 DEF Steps
    <3>2. seqs[1] \in Q
      BY <1>1, <2>1
    <3>3. PICK g : Follows(g, n - 1, Q, seqs[1], step)
      <4> HIDE DEF Q, step
      <4> QED
        BY <2>1, <3>1, <3>2, Recursion
    <3>4. ASSUME NEW k \in 1 .. n - 1 PROVE g[k] = g[k - 1] \o seqs[k + 1]
      <4>1. k - 1 \in 0 .. n - 1
        BY <2>1
      <4>2. g[k - 1] \in Q /\ <<k, g[k - 1]>> \in (1 .. n - 1) \X Q
        BY <3>3, <4>1 DEF Follows
      <4> HIDE DEF Q
      <4> QED
        BY <3>3, <4>2 DEF Follows
    <3> DEFINE f == [i \in 1 .. n |-> g[i - 1]]
    <3>5. ASSUME NEW i \in 1 .. n PROVE f[i] = IF i = 1 THEN seqs[i] ELSE f[i - 1] \o seqs[i]
      <4>1. CASE i = 1
        BY <4>1, <3>3 DEF Follows
      <4>2. CASE i # 1
        <5>1. i - 1 \in 1 .. n - 1 /\ i - 1 \in 1 .. n /\ (i - 1) + 1 = i
          BY <4>2, <2>1, <1>1
        <5>2. f[i] = g[i - 1] /\ f[i - 1] = g[(i - 1) - 1]
          BY <5>1
        <5>3. g[i - 1] = g[(i - 1) - 1] \o seqs[(i - 1) + 1]
          BY <3>4, <5>1
        <5> HIDE DEF f
        <5> QED
          BY <4>2, <5>1, <5>2, <5>3
      <4> QED
        BY <4>1, <4>2
    <3>6. f = E(f)
      <4>1. DOMAIN f = 1 .. n /\ f = [i \in 1 .. n |-> f[i]]
        OBVIOUS
      <4> HIDE DEF f
      <4> QED
        BY <3>5, <4>1
    <3> QED
      BY <3>6
  <2>3. flatten[1] = seqs[1] /\ \A k \in 1 .. n - 1 : flatten[k + 1] = flatten[k] \o seqs[k + 1]
    <3>1. flatten = E(flatten)
      BY <2>2
    <3> HIDE DEF flatten
    <3>2. \A f : f = E(f) => f[1] = seqs[1] /\ \A k \in 1 .. n - 1 : f[k + 1] = f[k] \o seqs[k + 1]
      <4> SUFFICES ASSUME NEW f, f = E(f) PROVE f[1] = seqs[1] /\ \A k \in 1 .. n - 1 : f[k + 1] = f[k] \o seqs[k + 1]
        OBVIOUS
      <4>1. \A i \in 1 .. n : f[i] = IF i = 1 THEN seqs[i] ELSE f[i - 1] \o seqs[i]
        OBVIOUS
      <4> HIDE DEF E
      <4>2. \A k \in 1 .. n - 1 : k + 1 # 1 /\ (k + 1) - 1 = k /\ k + 1 \in 1 .. n
        BY <2>1
      <4> QED
        BY <2>1, <4>1, <4>2
    <3> HIDE DEF E
    <3> QED
      BY <3>1, <3>2
  <2> HIDE DEF flatten
  <2> DEFINE Good(k, f) == f \in Seq(T) /\ Range(f) = UNION {Range(seqs[i]) : i \in 1 .. k}
             D == {m \in Nat : m < n => Good(m + 1, flatten[m + 1])}
  <2>4. Good(1, flatten[1])
    <3>1. flatten[1] \in Seq(T)
      BY <1>1, <2>1, <2>3
    <3>2. UNION {Range(seqs[i]) : i \in 1 .. 1} = Range(seqs[1])
      OBVIOUS
    <3> QED
      BY <2>3, <3>1, <3>2
  <2>5. ASSUME NEW k \in 1 .. n - 1, Good(k, flatten[k]) PROVE Good(k + 1, flatten[k + 1])
    <3> DEFINE s == flatten[k]
               t == seqs[k + 1]
    <3>1. flatten[k + 1] = s \o t
      BY <2>3
    <3>2. s \in Seq(T) /\ t \in Seq(T) /\ Range(s) = UNION {Range(seqs[i]) : i \in 1 .. k}
      BY <1>1, <2>1, <2>5
    <3> HIDE DEF s, t
    <3>4. s \in Seq(Range(s)) /\ t \in Seq(Range(t))
      BY <3>2, RangeIs
    <3>5. Range(s \o t) = Range(s) \cup Range(t)
      BY <3>4, JoinedRange
    <3>6. UNION {Range(seqs[i]) : i \in 1 .. k + 1} = (UNION {Range(seqs[i]) : i \in 1 .. k}) \cup Range(t)
      <4>1. \A i : i \in 1 .. k + 1 <=> i \in 1 .. k \/ i = k + 1
        BY <2>1
      <4> QED
        BY <4>1 DEF t
    <3>7. s \o t \in Seq(T)
      BY <3>2
    <3> QED
      BY <3>1, <3>2, <3>5, <3>6, <3>7
  <2>6. n - 1 \in D
    <3> HIDE DEF Good
    <3>1. 0 \in D
      BY <2>4
    <3>2. ASSUME NEW m \in Nat, m \in D PROVE m + 1 \in D
      <4> SUFFICES ASSUME m + 1 < n PROVE Good((m + 1) + 1, flatten[(m + 1) + 1])
        OBVIOUS
      <4>1. m + 1 \in 1 .. n - 1 /\ m < n
        BY <1>1
      <4> QED
        BY <3>2, <4>1, <2>5
    <3> HIDE DEF D
    <3> QED
      BY <2>1, <3>1, <3>2, SetInduction
  <2>7. Good(n, flatten[n])
    <3>1. n - 1 < n /\ (n - 1) + 1 = n
      BY <1>1
    <3> HIDE DEF Good
    <3> QED
      BY <2>6, <3>1
  <2>8. FlattenSeq(seqs) = flatten[n]
    BY <1>2, <1>4
  <2> QED
    BY <1>1, <2>7, <2>8
<1> QED
  BY <1>1, <1>3, <1>4

-----------------------------------------------------------------------------
(* As many keys as there are rows, where each row has its own. *)
LEMMA KeysCount ==
    ASSUME NEW T, NEW rows \in Seq(T), \A i, j \in 1 .. Len(rows) : rows[i].id = rows[j].id => i = j
    PROVE  LET keys == {rows[i].id : i \in 1 .. Len(rows)} IN IsFiniteSet(keys) /\ Cardinality(keys) = Len(rows)
<1> DEFINE n == Len(rows)
           keys == {rows[i].id : i \in 1 .. n}
           id == [i \in 1 .. n |-> rows[i].id]
<1>1. n \in Nat
  OBVIOUS
<1>2. id \in [1 .. n -> keys]
  OBVIOUS
<1>3. \A i, j \in 1 .. n : id[i] = id[j] => i = j
  OBVIOUS
<1>4. \A k \in keys : \E i \in 1 .. n : id[i] = k
  OBVIOUS
<1>5. IsFiniteSet(1 .. n) /\ Cardinality(1 .. n) = n
  <2> HIDE DEF n
  <2> QED
    BY <1>1, FS_Interval
<1> HIDE DEF id, keys, n
<1>6. ExistsBijection(1 .. n, keys)
  BY <1>2, <1>3, <1>4 DEF ExistsBijection, Bijection, Injection, Surjection, IsInjective
<1>7. IsFiniteSet(keys) /\ Cardinality(keys) = n
  BY <1>5, <1>6, FS_Bijection
<1> QED
  BY <1>7 DEF keys, n

(* The first rows of a list. *)
IsFirst(out, T, rows, n) ==
    /\ out \in Seq(T)
    /\ Len(out) = (IF n = None \/ n > Len(rows) THEN Len(rows) ELSE n)
    /\ Len(out) <= Len(rows)
    /\ \A i \in 1 .. Len(out) : out[i] = rows[i]

LEMMA FirstIs ==
    ASSUME NEW T, NEW rows \in Seq(T), NEW n, IsLimit(n)
    PROVE  IsFirst(FirstOf(rows, n), T, rows, n)
<1> USE DEF IsFirst
<1>1. CASE n = None
  BY <1>1 DEF FirstOf
<1>2. CASE n # None
  <2>1. n \in Nat /\ n # 0
    BY <1>2 DEF IsLimit
  <2>2. CASE n > Len(rows)
    BY <2>1, <2>2 DEF FirstOf
  <2>3. CASE ~(n > Len(rows))
    <3>1. FirstOf(rows, n) = SubSeq(rows, 1, n) /\ n <= Len(rows) /\ Len(rows) \in Nat
      BY <1>2, <2>1, <2>3 DEF FirstOf
    <3>2. SubSeq(rows, 1, n) \in Seq(T) /\ Len(SubSeq(rows, 1, n)) = n
      BY <2>1, <3>1
    <3>3. \A i \in 1 .. n : SubSeq(rows, 1, n)[i] = rows[i]
      BY <2>1, <3>1
    <3> QED
      BY <1>2, <2>1, <2>3, <3>1, <3>2, <3>3
  <2> QED
    BY <2>2, <2>3
<1> QED
  BY <1>1, <1>2

-----------------------------------------------------------------------------
(* The rows behind the capabilities, and those an answer may have. *)
Behind == UNION {Range(Content[c]) : c \in DOMAIN Capability}
Rows == Behind \cup {NoKey(row) : row \in Behind}

LEMMA NoKeyIs ==
    ASSUME NEW row, NEW a, NEW b, NEW c, NEW d, row = [id |-> a, ref |-> b, open |-> c, joined |-> d]
    PROVE  NoKey(row) = [id |-> None, ref |-> None, open |-> c, joined |-> d]
<1>1. [row EXCEPT !.id = None] = [id |-> None, ref |-> b, open |-> c, joined |-> d]
  OBVIOUS
<1>2. [[id |-> None, ref |-> b, open |-> c, joined |-> d] EXCEPT !.ref = None]
        = [id |-> None, ref |-> None, open |-> c, joined |-> d]
  OBVIOUS
<1>3. [row EXCEPT !.id = None, !.ref = None] = [[row EXCEPT !.id = None] EXCEPT !.ref = None]
  OBVIOUS
<1> QED
  BY <1>1, <1>2, <1>3 DEF NoKey

LEMMA RowsAre == \A row \in Rows : IsRow(row)
<1>1. \A row \in Behind : IsRow(row)
  BY ContentAssumption DEF ContentAssumption, Behind
<1>2. ASSUME NEW row \in Behind PROVE IsRow(NoKey(row))
  <2>1. row = [id |-> row.id, ref |-> row.ref, open |-> row.open, joined |-> None]
    BY <1>1 DEF IsRow
  <2>2. NoKey(row) = [id |-> None, ref |-> None, open |-> row.open, joined |-> None]
    BY <2>1, NoKeyIs
  <2> QED
    BY <2>2 DEF IsRow
<1> QED
  BY <1>1, <1>2 DEF Rows

LEMMA QueriedRows ==
    ASSUME NEW r, IsRequest(r), NEW rows \in Seq(Behind)
    PROVE  Queried(r, rows) \in Seq(Rows)
<1> DEFINE kept == IF "filter" \in r.clauses THEN Those(rows, {i \in DOMAIN rows : rows[i].open}) ELSE rows
           sorted == IF "sort" \in r.clauses THEN Reverse(kept) ELSE kept
           cut == FirstOf(sorted, r.limit)
           plain == [i \in DOMAIN cut |-> NoKey(cut[i])]
<1>1. kept \in Seq(Behind)
  <2> DEFINE places == {i \in DOMAIN rows : rows[i].open}
  <2>1. Those(rows, places) \in Seq(Behind)
    <3> HIDE DEF places
    <3> QED
      BY ThoseAre
  <2> QED
    BY <2>1
<1> HIDE DEF kept
<1>2. sorted \in Seq(Behind)
  BY <1>1 DEF Reverse
<1> HIDE DEF sorted
<1>3. cut \in Seq(Behind)
  BY <1>2, FirstIs DEF IsRequest, IsFirst
<1> HIDE DEF cut
<1>4. cut \in Seq(Rows)
  BY <1>3 DEF Rows
<1>5. plain \in Seq(Rows)
  <2>1. DOMAIN cut = 1 .. Len(cut) /\ Len(cut) \in Nat /\ \A i \in 1 .. Len(cut) : cut[i] \in Behind
    BY <1>3
  <2>2. \A i \in 1 .. Len(cut) : NoKey(cut[i]) \in Rows
    BY <2>1 DEF Rows
  <2> QED
    BY <2>1, <2>2
<1>6. Queried(r, rows) = IF r.clauses \cap {"group", "project"} = {} THEN cut ELSE plain
  BY DEF Queried, cut, sorted, kept
<1> QED
  BY <1>4, <1>5, <1>6

(* What a request came to: a list of rows, or no rows, and of a capability that returns
   a collection a list wherever it came to anything. *)
LEMMA OutcomeIs ==
    ASSUME NEW r, IsRequest(r), r.capability \in DOMAIN Capability, NEW res \in Outcomes(r)
    PROVE  /\ res.rows \in Seq(Rows)
           /\ res.ok \/ res.rows = <<>>
           /\ Capability[r.capability].shape \in CollectionShapes => res.list \/ ~res.ok
<1> DEFINE whole == Whole(r)
           rows == Queried(r, Content[r.capability])
<1>1. Content[r.capability] \in Seq(Behind)
  <2>1. Content[r.capability] \in Seq(Range(Content[r.capability])) /\ Range(Content[r.capability]) \subseteq Behind
    BY ContentAssumption DEF ContentAssumption, Behind
  <2> QED
    BY <2>1
<1>2. rows \in Seq(Rows)
  BY <1>1, QueriedRows
<1> HIDE DEF rows
<1>3. whole = Failure \/ whole = [ok |-> TRUE, list |-> Capability[r.capability].shape # "entity", rows |-> rows, whole |-> TRUE]
  BY DEF Whole, rows
<1>4. res \in {Failure, whole} \/ (whole.list /\ res = [whole EXCEPT !.rows = FirstOf(@, 1), !.whole = FALSE])
  BY DEF Outcomes, Cut
<1> HIDE DEF whole
<1>5. CASE res = Failure
  BY <1>5 DEF Failure
<1>6. CASE whole # Failure /\ res = whole
  <2>1. res = [ok |-> TRUE, list |-> Capability[r.capability].shape # "entity", rows |-> rows, whole |-> TRUE]
    BY <1>3, <1>6
  <2>2. res.ok = TRUE /\ res.list = (Capability[r.capability].shape # "entity") /\ res.rows = rows
    BY <2>1
  <2> QED
    BY <1>2, <2>2 DEF CollectionShapes
<1>7. CASE whole.list /\ res = [whole EXCEPT !.rows = FirstOf(@, 1), !.whole = FALSE]
  <2>1. whole = [ok |-> TRUE, list |-> Capability[r.capability].shape # "entity", rows |-> rows, whole |-> TRUE]
    BY <1>3, <1>7 DEF Failure
  <2> DEFINE first == FirstOf(rows, 1)
  <2>2. first \in Seq(Rows)
    BY <1>2, FirstIs DEF IsLimit, IsFirst
  <2>3. res = [whole EXCEPT !.rows = first, !.whole = FALSE]
    BY <1>7, <2>1
  <2> HIDE DEF first
  <2>4. res.ok = TRUE /\ res.list = whole.list /\ res.rows = first
    BY <2>1, <2>3
  <2> QED
    BY <1>7, <2>2, <2>4
<1> QED
  BY <1>4, <1>5, <1>6, <1>7

-----------------------------------------------------------------------------
(* The keys each operation is to keep, of lists of rows. *)
KeysKept(op, lists) ==
    CASE op = "union" -> UNION {KeysOf(lists[i]) : i \in 1 .. Len(lists)}
      [] op = "intersection" -> {k \in KeysOf(lists[1]) : \A i \in 1 .. Len(lists) : k \in KeysOf(lists[i])}
      [] op = "difference" -> KeysOf(lists[1]) \ UNION {KeysOf(lists[i]) : i \in 2 .. Len(lists)}

LEMMA KeysAre ==
    ASSUME NEW T, NEW rows \in Seq(T)
    PROVE  \A k : k \in KeysOf(rows) <=> k # None /\ \E i \in 1 .. Len(rows) : rows[i].id = k
  BY DEF KeysOf

(* A merged list has each of these keys once, and every row of it is of some list. *)
MergeIs(out, T, lists, keys) ==
    /\ out \in Seq(T)
    /\ \A i \in 1 .. Len(out) : out[i].id \in keys /\ \E k \in 1 .. Len(lists) : out[i] \in Range(lists[k])
    /\ \A i, j \in 1 .. Len(out) : out[i].id = out[j].id => i = j
    /\ \A k \in keys : \E i \in 1 .. Len(out) : out[i].id = k

LEMMA OnceOfHead ==
    ASSUME NEW T, NEW lists \in Seq(Seq(T)), Len(lists) >= 1, NEW keys, keys \subseteq KeysOf(lists[1])
    PROVE  MergeIs(Once(Head(lists), keys), T, lists, keys)
<1> DEFINE rows == lists[1]
           out == Once(rows, keys)
<1>1. rows \in Seq(T) /\ Head(lists) = rows /\ 1 \in 1 .. Len(lists)
  OBVIOUS
<1>2. \A k \in keys : \E i \in 1 .. Len(rows) : rows[i].id = k
  BY <1>1, KeysAre
<1>3. \A i \in 1 .. Len(rows) : rows[i] \in Range(rows)
  BY <1>1, RangeIs
<1>8. out = Once(rows, keys)
  OBVIOUS
<1> HIDE DEF rows, out
<1>4. /\ out \in Seq(T)
      /\ \A i \in 1 .. Len(out) : out[i].id \in keys /\ \E k \in 1 .. Len(rows) : out[i] = rows[k]
      /\ \A i, j \in 1 .. Len(out) : out[i].id = out[j].id => i = j
      /\ \A k \in 1 .. Len(rows) : rows[k].id \in keys => \E i \in 1 .. Len(out) : out[i].id = rows[k].id
  <2>1. rows \in Seq(T)
    BY <1>1
  <2>2. IsOnce(out, T, rows, keys)
    BY <1>8, <2>1, OnceIs
  <2> QED
    BY <2>2 DEF IsOnce
<1>5. ASSUME NEW k \in keys PROVE \E i \in 1 .. Len(out) : out[i].id = k
  <2>1. PICK j \in 1 .. Len(rows) : rows[j].id = k
    BY <1>2
  <2>2. rows[j].id \in keys
    BY <2>1
  <2> QED
    BY <1>4, <2>1, <2>2
<1>6. \A i \in 1 .. Len(out) : out[i] \in Range(lists[1])
  BY <1>3, <1>4 DEF rows
<1>7. MergeIs(out, T, lists, keys)
  BY <1>1, <1>4, <1>5, <1>6 DEF MergeIs
<1> QED
  BY <1>1, <1>7 DEF out

LEMMA OnceOfAll ==
    ASSUME NEW T, NEW lists \in Seq(Seq(T))
    PROVE  MergeIs(UnionRows(lists), T, lists, UNION {KeysOf(lists[i]) : i \in 1 .. Len(lists)})
<1> DEFINE rows == FlattenSeq(lists)
           keys == KeysOf(rows)
           out == Once(rows, keys)
<1>1. rows \in Seq(T) /\ Range(rows) = UNION {Range(lists[i]) : i \in 1 .. Len(lists)}
  <2>1. DOMAIN lists = 1 .. Len(lists)
    OBVIOUS
  <2> QED
    BY <2>1, FlattenAre
<1>2. UnionRows(lists) = Once(rows, keys)
  BY DEF UnionRows
<1>3. \A i \in 1 .. Len(lists) : lists[i] \in Seq(T)
  OBVIOUS
<1>12. out = Once(rows, keys)
  OBVIOUS
<1> HIDE DEF rows, out
<1>4. \A k : k \in keys <=> k # None /\ \E i \in 1 .. Len(rows) : rows[i].id = k
  BY <1>1, KeysAre
<1>5. /\ \A x \in Range(rows) : \E i \in 1 .. Len(rows) : x = rows[i]
      /\ \A i \in 1 .. Len(rows) : rows[i] \in Range(rows)
  BY <1>1, RangeIs
<1> HIDE DEF keys
<1>6. \A k : k \in keys <=> \E i \in 1 .. Len(lists) : k \in KeysOf(lists[i])
  <2>1. \A k : k \in keys <=> k # None /\ \E x \in Range(rows) : x.id = k
    BY <1>4, <1>5
  <2>2. \A k : \A i \in 1 .. Len(lists) : k \in KeysOf(lists[i]) <=> k # None /\ \E x \in Range(lists[i]) : x.id = k
    <3> SUFFICES ASSUME NEW k, NEW i \in 1 .. Len(lists)
                 PROVE  k \in KeysOf(lists[i]) <=> k # None /\ \E x \in Range(lists[i]) : x.id = k
      OBVIOUS
    <3> DEFINE list == lists[i]
    <3>1. list \in Seq(T)
      BY <1>3
    <3> HIDE DEF list
    <3>2. k \in KeysOf(list) <=> k # None /\ \E j \in 1 .. Len(list) : list[j].id = k
      BY <3>1, KeysAre
    <3>3. /\ \A x \in Range(list) : \E j \in 1 .. Len(list) : x = list[j]
          /\ \A j \in 1 .. Len(list) : list[j] \in Range(list)
      BY <3>1, RangeIs
    <3> QED
      BY <3>2, <3>3 DEF list
  <2>3. \A x : x \in Range(rows) <=> \E i \in 1 .. Len(lists) : x \in Range(lists[i])
    BY <1>1
  <2> QED
    BY <2>1, <2>2, <2>3
<1>7. /\ out \in Seq(T)
      /\ \A i \in 1 .. Len(out) : out[i].id \in keys /\ \E k \in 1 .. Len(rows) : out[i] = rows[k]
      /\ \A i, j \in 1 .. Len(out) : out[i].id = out[j].id => i = j
      /\ \A k \in 1 .. Len(rows) : rows[k].id \in keys => \E i \in 1 .. Len(out) : out[i].id = rows[k].id
  <2>1. rows \in Seq(T)
    BY <1>1
  <2>2. IsOnce(out, T, rows, keys)
    BY <1>12, <2>1, OnceIs
  <2> QED
    BY <2>2 DEF IsOnce
<1>8. ASSUME NEW k \in keys PROVE \E i \in 1 .. Len(out) : out[i].id = k
  <2>1. PICK j \in 1 .. Len(rows) : rows[j].id = k
    BY <1>4
  <2>2. rows[j].id \in keys
    BY <2>1
  <2> QED
    BY <1>7, <2>1, <2>2
<1>9. \A i \in 1 .. Len(out) : \E k \in 1 .. Len(lists) : out[i] \in Range(lists[k])
  BY <1>1, <1>5, <1>7
<1>10. keys = UNION {KeysOf(lists[i]) : i \in 1 .. Len(lists)}
  BY <1>6
<1>11. MergeIs(out, T, lists, keys)
  BY <1>7, <1>8, <1>9 DEF MergeIs
<1> QED
  BY <1>2, <1>10, <1>11, <1>12

LEMMA MergedIs ==
    ASSUME NEW T, NEW lists \in Seq(Seq(T)), Len(lists) >= 1, NEW op \in Operations
    PROVE  MergeIs(Merged(op, lists), T, lists, KeysKept(op, lists))
<1>1. Head(lists) = lists[1] /\ 1 \in 1 .. Len(lists) /\ \A i \in 1 .. Len(lists) : i = 1 \/ i \in 2 .. Len(lists)
  OBVIOUS
<1>2. CASE op = "union"
  <2>1. Merged(op, lists) = UnionRows(lists)
    BY <1>2 DEF Merged
  <2>2. KeysKept(op, lists) = UNION {KeysOf(lists[i]) : i \in 1 .. Len(lists)}
    BY <1>2 DEF KeysKept
  <2> QED
    BY <2>1, <2>2, OnceOfAll
<1>3. CASE op = "intersection"
  <2> DEFINE keys == {k \in KeysOf(Head(lists)) : \A i \in 2 .. Len(lists) : k \in KeysOf(lists[i])}
  <2>1. Merged(op, lists) = Once(Head(lists), keys)
    BY <1>3 DEF Merged, IntersectionRows
  <2>2. KeysKept(op, lists) = {k \in KeysOf(lists[1]) : \A i \in 1 .. Len(lists) : k \in KeysOf(lists[i])}
    BY <1>3 DEF KeysKept
  <2>3. KeysKept(op, lists) = keys /\ keys \subseteq KeysOf(lists[1])
    BY <1>1, <2>2
  <2> HIDE DEF keys
  <2> QED
    BY <2>1, <2>3, OnceOfHead
<1>4. CASE op = "difference"
  <2> DEFINE keys == KeysOf(Head(lists)) \ UNION {KeysOf(lists[i]) : i \in 2 .. Len(lists)}
  <2>1. Merged(op, lists) = Once(Head(lists), keys)
    BY <1>4 DEF Merged, DifferenceRows
  <2>2. KeysKept(op, lists) = KeysOf(lists[1]) \ UNION {KeysOf(lists[i]) : i \in 2 .. Len(lists)}
    BY <1>4 DEF KeysKept
  <2>3. KeysKept(op, lists) = keys /\ keys \subseteq KeysOf(lists[1])
    BY <1>1, <2>2
  <2> HIDE DEF keys
  <2> QED
    BY <2>1, <2>3, OnceOfHead
<1> QED
  BY <1>2, <1>3, <1>4 DEF Operations

-----------------------------------------------------------------------------
(* What is known when a plan is shown: each request came to what it can. *)
Answered(p, answers) ==
    /\ IsPlan(p) /\ Fits(p) /\ AllSettled(p, answers)
    /\ \A r \in DOMAIN p.requests : answers[r] \in Outcomes(p.requests[r])

LEMMA AnswersAre ==
    ASSUME NEW p, NEW answers, Answered(p, answers), NEW r \in DOMAIN p.requests
    PROVE  /\ answers[r].rows \in Seq(Rows)
           /\ answers[r].ok \/ answers[r].rows = <<>>
           /\ CapabilityOf(p, r).shape \in CollectionShapes => answers[r].list \/ ~answers[r].ok
<1> DEFINE asked == p.requests[r]
<1>1. IsRequest(asked) /\ asked.capability \in DOMAIN Capability /\ answers[r] \in Outcomes(asked)
  BY DEF Answered, IsPlan, Fits
<1> HIDE DEF asked
<1>2. /\ answers[r].rows \in Seq(Rows)
      /\ answers[r].ok \/ answers[r].rows = <<>>
      /\ Capability[asked.capability].shape \in CollectionShapes => answers[r].list \/ ~answers[r].ok
  BY <1>1, OutcomeIs
<1> QED
  BY <1>2 DEF CapabilityOf, asked

(* The inputs of a composition that passed the checks: at least two requests, which
   the composition then finds fit to be composed. *)
LEMMA InputsAre ==
    ASSUME NEW p, IsPlan(p), Fits(p), NEW id \in DOMAIN p.compositions
    PROVE  LET c == p.compositions[id] IN
           /\ c.inputs \in Seq(DOMAIN p.requests) /\ Len(c.inputs) >= 2 /\ IsLimit(c.limit)
           /\ \A i \in 1 .. Len(c.inputs) : c.inputs[i] \in Inputs(c)
           /\ \A r \in Inputs(c) : \E i \in 1 .. Len(c.inputs) : r = c.inputs[i]
           /\ c.op \in Operations /\ Composable(p, c)
           /\ \A r \in Inputs(c) : r \in DOMAIN p.requests /\ CapabilityOf(p, r).shape \in CollectionShapes
<1> DEFINE c == p.compositions[id]
<1>1. CompositionAllowed(p, c) /\ IsComposition(c)
  BY DEF Fits, IsPlan
<1>2. \A r \in DOMAIN p.requests : p.requests[r].capability \in DOMAIN Capability
  BY DEF Fits
<1> HIDE DEF c
<1>3. /\ c.inputs \in Seq(Range(c.inputs)) /\ IsLimit(c.limit) /\ Len(c.inputs) >= 2
      /\ Range(c.inputs) \subseteq DOMAIN p.requests
  BY <1>1 DEF CompositionAllowed, IsComposition, Inputs
<1>4. /\ \A r \in Range(c.inputs) : \E i \in 1 .. Len(c.inputs) : r = c.inputs[i]
      /\ \A i \in 1 .. Len(c.inputs) : c.inputs[i] \in Range(c.inputs)
  BY <1>3, RangeIs
<1>5. c.inputs \in Seq(DOMAIN p.requests)
  BY <1>3
<1>6. ASSUME NEW r \in Inputs(c) PROVE /\ r \in DOMAIN p.requests /\ c.op \in CapabilityOf(p, r).setOps
                                       /\ CapabilityOf(p, r).shape \in CollectionShapes /\ c.op \in Operations
  <2>1. r \in DOMAIN p.requests /\ c.op \in CapabilityOf(p, r).setOps
    BY <1>1 DEF CompositionAllowed
  <2>2. p.requests[r].capability \in DOMAIN Capability
    BY <1>2, <2>1
  <2> QED
    BY <2>1, <2>2, PlanDataAssumption DEF PlanDataAssumption, CapabilityOf
<1>7. Composable(p, c)
  BY <1>1, <1>6 DEF Composable, CompositionAllowed
<1>8. c.op \in Operations
  <2>1. 1 \in 1 .. Len(c.inputs)
    BY <1>3
  <2> QED
    BY <1>4, <1>6, <2>1 DEF Inputs
<1> QED
  BY <1>3, <1>4, <1>5, <1>6, <1>7, <1>8 DEF c, Inputs

(* The lists that are composed: of inputs that resolved their rows, and the others
   have none. *)
AreLists(lists, c, answers) ==
    /\ lists \in Seq(Seq(Rows)) /\ Len(lists) = Len(c.inputs)
    /\ \A i \in 1 .. Len(lists) : lists[i] = answers[c.inputs[i]].rows
    /\ \A i \in 1 .. Len(lists) : Resolves(answers[c.inputs[i]]) \/ lists[i] = <<>>

LEMMA ListsAre ==
    ASSUME NEW p, NEW answers, Answered(p, answers), NEW id \in DOMAIN p.compositions
    PROVE  LET c == p.compositions[id]
               lists == RowsOf(Arrived(c, answers))
           IN  /\ lists = [i \in DOMAIN c.inputs |-> answers[c.inputs[i]].rows]
               /\ AreLists(lists, c, answers)
               /\ AreLists([i \in DOMAIN c.inputs |-> answers[c.inputs[i]].rows], c, answers)
<1> DEFINE c == p.compositions[id]
           n == Len(c.inputs)
           got == Arrived(c, answers)
           lists == RowsOf(got)
<1>1. /\ c.inputs \in Seq(DOMAIN p.requests)
      /\ \A i \in 1 .. Len(c.inputs) : c.inputs[i] \in Inputs(c)
      /\ \A r \in Inputs(c) : r \in DOMAIN p.requests /\ CapabilityOf(p, r).shape \in CollectionShapes
  BY InputsAre DEF Answered
<1> HIDE DEF c
<1>2. n \in Nat /\ DOMAIN c.inputs = 1 .. n
  BY <1>1
<1>3. got = [i \in 1 .. n |-> answers[c.inputs[i]]]
  BY <1>2 DEF Arrived
<1>4. ASSUME NEW i \in 1 .. n
      PROVE  LET a == answers[c.inputs[i]] IN
             a.rows \in Seq(Rows) /\ (IF Resolves(a) THEN a.rows ELSE <<>>) = a.rows /\ (Resolves(a) \/ a.rows = <<>>)
  <2> DEFINE r == c.inputs[i]
  <2>1. r \in DOMAIN p.requests /\ CapabilityOf(p, r).shape \in CollectionShapes
    BY <1>1
  <2> HIDE DEF r
  <2>2. answers[r].rows \in Seq(Rows) /\ (answers[r].ok \/ answers[r].rows = <<>>) /\ (answers[r].list \/ ~answers[r].ok)
    BY <2>1, AnswersAre
  <2> QED
    BY <2>2 DEF Resolves, r
<1>5. lists = [i \in 1 .. n |-> IF Resolves(got[i]) THEN got[i].rows ELSE <<>>]
  BY <1>3 DEF RowsOf
<1>6. \A i \in 1 .. n : got[i] = answers[c.inputs[i]]
  BY <1>3
<1> HIDE DEF got, n, lists
<1>7. lists = [i \in 1 .. n |-> answers[c.inputs[i]].rows]
  BY <1>4, <1>5, <1>6
<1>8. lists \in Seq(Seq(Rows)) /\ Len(lists) = n /\ \A i \in 1 .. n : lists[i] = answers[c.inputs[i]].rows
  BY <1>2, <1>4, <1>7
<1>9. \A i \in 1 .. n : Resolves(answers[c.inputs[i]]) \/ lists[i] = <<>>
  BY <1>4, <1>8
<1>10. AreLists(lists, c, answers)
  BY <1>8, <1>9 DEF AreLists, n
<1>11. lists = [i \in DOMAIN c.inputs |-> answers[c.inputs[i]].rows]
  BY <1>2, <1>7 DEF n
<1>12. AreLists([i \in DOMAIN c.inputs |-> answers[c.inputs[i]].rows], c, answers)
  BY <1>10, <1>11
<1> QED
  BY <1>10, <1>11, <1>12 DEF c, got, lists

(* What a composition comes to, as composeOne goes about it. *)
LEMMA ComposedIs ==
    ASSUME NEW p, NEW answers, Answered(p, answers), NEW id \in DOMAIN p.compositions
    PROVE  LET c == p.compositions[id]
               lists == [i \in DOMAIN c.inputs |-> answers[c.inputs[i]].rows]
               missing == IF c.op = "union" THEN \A r \in Inputs(c) : ~Resolves(answers[r])
                                            ELSE \E r \in Inputs(c) : ~Resolves(answers[r])
           IN  ComposeOne(p, c, answers) =
                   IF missing THEN Failed("input failed")
                   ELSE IF Total(lists) > MaxComposed THEN Failed("too large")
                   ELSE Composition(FirstOf(Merged(c.op, lists), c.limit))
<1> DEFINE c == p.compositions[id]
           got == Arrived(c, answers)
           lists == [i \in DOMAIN c.inputs |-> answers[c.inputs[i]].rows]
           missing == IF c.op = "union" THEN \A r \in Inputs(c) : ~Resolves(answers[r])
                                        ELSE \E r \in Inputs(c) : ~Resolves(answers[r])
<1>1. /\ c.inputs \in Seq(DOMAIN p.requests)
      /\ \A i \in 1 .. Len(c.inputs) : c.inputs[i] \in Inputs(c)
      /\ \A r \in Inputs(c) : \E i \in 1 .. Len(c.inputs) : r = c.inputs[i]
      /\ Composable(p, c)
  BY InputsAre DEF Answered
<1>2. RowsOf(got) = lists
  BY ListsAre
<1> HIDE DEF c, lists
<1>3. DOMAIN got = 1 .. Len(c.inputs) /\ \A i \in 1 .. Len(c.inputs) : got[i] = answers[c.inputs[i]]
  BY <1>1 DEF Arrived
<1>4. InputMissing(c.op, got) <=> missing
  BY <1>1, <1>3 DEF InputMissing
<1> HIDE DEF got, missing
<1>5. ComposeOne(p, c, answers) =
        IF InputMissing(c.op, got) THEN Failed("input failed")
        ELSE IF Total(RowsOf(got)) > MaxComposed THEN Failed("too large")
        ELSE Composition(FirstOf(Merged(c.op, RowsOf(got)), c.limit))
  BY <1>1 DEF ComposeOne, got
<1>6. ComposeOne(p, c, answers) =
        IF missing THEN Failed("input failed")
        ELSE IF Total(lists) > MaxComposed THEN Failed("too large")
        ELSE Composition(FirstOf(Merged(c.op, lists), c.limit))
  BY <1>2, <1>4, <1>5
<1> QED
  BY <1>6 DEF c, lists, missing

-----------------------------------------------------------------------------
(* The set a composition is defined as has the keys its operation is to keep. *)
LEMMA ReferenceIs ==
    ASSUME Answered(plan, settled), NEW id \in DOMAIN plan.compositions
    PROVE  LET c == plan.compositions[id]
               lists == [i \in DOMAIN c.inputs |-> settled[c.inputs[i]].rows]
           IN  ReferenceKeys(c) = KeysKept(c.op, lists)
<1> DEFINE c == plan.compositions[id]
           n == Len(c.inputs)
           lists == [i \in DOMAIN c.inputs |-> settled[c.inputs[i]].rows]
           keys(i) == KeysOf(settled[c.inputs[i]].rows)
<1>1. c.inputs \in Seq(DOMAIN plan.requests) /\ n >= 2 /\ c.op \in Operations
  BY InputsAre DEF Answered
<1>2. /\ Len(lists) = n
      /\ \A i \in 1 .. n : lists[i] = settled[c.inputs[i]].rows
      /\ \A i \in 1 .. n : Resolves(settled[c.inputs[i]]) \/ lists[i] = <<>>
  <2>1. AreLists(lists, c, settled)
    BY ListsAre
  <2> HIDE DEF c, lists
  <2> QED
    BY <2>1 DEF AreLists
<1>3. DOMAIN c.inputs = 1 .. n /\ n \in Nat
  BY <1>1
<1> HIDE DEF c, n, lists
<1>4. \A i \in 1 .. n : keys(i) = KeysOf(lists[i])
  BY <1>2
<1>5. \A i \in 1 .. n : Resolves(settled[c.inputs[i]]) \/ keys(i) = {}
  BY <1>2, <1>4 DEF KeysOf
<1>6. 1 \in 1 .. n /\ 2 .. n = (1 .. n) \ {1}
  BY <1>1, <1>3
<1> HIDE DEF keys
<1>7. CASE c.op = "union"
  <2>1. ReferenceKeys(c) = UNION {keys(i) : i \in {k \in 1 .. n : Resolves(settled[c.inputs[k]])}}
    BY <1>3, <1>7 DEF ReferenceKeys, keys
  <2>2. KeysKept(c.op, lists) = UNION {KeysOf(lists[i]) : i \in 1 .. n}
    BY <1>2, <1>7 DEF KeysKept
  <2>3. \A k : (\E i \in 1 .. n : Resolves(settled[c.inputs[i]]) /\ k \in keys(i)) <=> \E i \in 1 .. n : k \in KeysOf(lists[i])
    BY <1>4, <1>5
  <2>4. ASSUME NEW k PROVE k \in ReferenceKeys(c) <=> k \in KeysKept(c.op, lists)
    <3>1. k \in ReferenceKeys(c) <=> \E i \in 1 .. n : Resolves(settled[c.inputs[i]]) /\ k \in keys(i)
      BY <2>1
    <3>2. k \in KeysKept(c.op, lists) <=> \E i \in 1 .. n : k \in KeysOf(lists[i])
      BY <2>2
    <3> QED
      BY <2>3, <3>1, <3>2
  <2>5. ReferenceKeys(c) \subseteq KeysKept(c.op, lists)
    BY <2>4
  <2>6. KeysKept(c.op, lists) \subseteq ReferenceKeys(c)
    BY <2>4
  <2> QED
    BY <2>5, <2>6 DEF c, lists
<1>8. CASE c.op = "intersection"
  <2>1. ReferenceKeys(c) = {k \in keys(1) : \A i \in 1 .. n : k \in keys(i)}
    BY <1>3, <1>8 DEF ReferenceKeys, keys
  <2>2. KeysKept(c.op, lists) = {k \in KeysOf(lists[1]) : \A i \in 1 .. n : k \in KeysOf(lists[i])}
    BY <1>2, <1>8 DEF KeysKept
  <2>3. ASSUME NEW k PROVE k \in ReferenceKeys(c) <=> k \in KeysKept(c.op, lists)
    <3>1. k \in ReferenceKeys(c) <=> k \in keys(1) /\ \A i \in 1 .. n : k \in keys(i)
      BY <2>1
    <3>2. k \in KeysKept(c.op, lists) <=> k \in KeysOf(lists[1]) /\ \A i \in 1 .. n : k \in KeysOf(lists[i])
      BY <2>2
    <3> QED
      BY <1>4, <1>6, <3>1, <3>2
  <2>5. ReferenceKeys(c) \subseteq KeysKept(c.op, lists)
    BY <2>3
  <2>6. KeysKept(c.op, lists) \subseteq ReferenceKeys(c)
    BY <2>3
  <2> QED
    BY <2>5, <2>6 DEF c, lists
<1>9. CASE c.op = "difference"
  <2>1. ReferenceKeys(c) = keys(1) \ UNION {keys(i) : i \in (1 .. n) \ {1}}
    BY <1>3, <1>9 DEF ReferenceKeys, keys
  <2>2. KeysKept(c.op, lists) = KeysOf(lists[1]) \ UNION {KeysOf(lists[i]) : i \in 2 .. n}
    BY <1>2, <1>9 DEF KeysKept
  <2>3. ASSUME NEW k PROVE k \in ReferenceKeys(c) <=> k \in KeysKept(c.op, lists)
    <3>1. k \in ReferenceKeys(c) <=> k \in keys(1) /\ \A i \in (1 .. n) \ {1} : k \notin keys(i)
      BY <2>1
    <3>2. k \in KeysKept(c.op, lists) <=> k \in KeysOf(lists[1]) /\ \A i \in 2 .. n : k \notin KeysOf(lists[i])
      BY <2>2
    <3>3. \A i \in 2 .. n : i \in 1 .. n
      BY <1>6
    <3> QED
      BY <1>4, <1>6, <3>1, <3>2, <3>3
  <2>5. ReferenceKeys(c) \subseteq KeysKept(c.op, lists)
    BY <2>3
  <2>6. KeysKept(c.op, lists) \subseteq ReferenceKeys(c)
    BY <2>3
  <2> QED
    BY <2>5, <2>6 DEF c, lists
<1> QED
  BY <1>1, <1>7, <1>8, <1>9 DEF Operations, c, lists

(* The first of the merged rows, up to the limit: each has a key of its own among those
   kept, and there are as many as there are keys, or as the limit allows. *)
LEMMA FirstMerged ==
    ASSUME NEW lists \in Seq(Seq(Rows)), NEW merged, NEW keys, MergeIs(merged, Rows, lists, keys), None \notin keys,
           NEW limit, IsLimit(limit), NEW out, out = FirstOf(merged, limit)
    PROVE  /\ out \in Seq(Rows)
           /\ KeysOf(out) \subseteq keys
           /\ LET n == Cardinality(keys) IN Len(out) = IF limit = None \/ limit > n THEN n ELSE limit
           /\ \A i, k \in DOMAIN out : i # k => out[i].id # out[k].id
           /\ \A i \in DOMAIN out : \E k \in 1 .. Len(lists) : out[i] \in Range(lists[k])
<1>1. /\ merged \in Seq(Rows)
      /\ \A i \in 1 .. Len(merged) : merged[i].id \in keys /\ \E k \in 1 .. Len(lists) : merged[i] \in Range(lists[k])
      /\ \A i, j \in 1 .. Len(merged) : merged[i].id = merged[j].id => i = j
      /\ \A k \in keys : \E i \in 1 .. Len(merged) : merged[i].id = k
  BY DEF MergeIs
<1>2. /\ out \in Seq(Rows)
      /\ Len(out) = (IF limit = None \/ limit > Len(merged) THEN Len(merged) ELSE limit)
      /\ Len(out) <= Len(merged)
      /\ \A i \in 1 .. Len(out) : out[i] = merged[i]
  <2>1. merged \in Seq(Rows)
    BY <1>1
  <2>2. IsFirst(out, Rows, merged, limit)
    BY <2>1, FirstIs
  <2> QED
    BY <2>2 DEF IsFirst
<1>3. DOMAIN out = 1 .. Len(out) /\ \A i \in 1 .. Len(out) : i \in 1 .. Len(merged) /\ out[i] = merged[i]
  BY <1>1, <1>2
<1>4. Cardinality(keys) = Len(merged)
  <2> DEFINE their == {merged[i].id : i \in 1 .. Len(merged)}
  <2>1. \A k \in keys : k \in their
    BY <1>1
  <2>2. \A k \in their : k \in keys
    BY <1>1
  <2>3. Cardinality(their) = Len(merged)
    BY <1>1, KeysCount
  <2> HIDE DEF their
  <2>4. keys = their
    BY <2>1, <2>2
  <2> QED
    BY <2>3, <2>4
<1>5. KeysOf(out) \subseteq keys
  BY <1>1, <1>3 DEF KeysOf
<1>6. ASSUME NEW i \in DOMAIN out, NEW k \in DOMAIN out, i # k PROVE out[i].id # out[k].id
  <2>1. i \in 1 .. Len(merged) /\ k \in 1 .. Len(merged) /\ out[i] = merged[i] /\ out[k] = merged[k]
    BY <1>3
  <2>2. merged[i].id # merged[k].id
    BY <1>1, <1>6, <2>1
  <2> QED
    BY <2>1, <2>2
<1>7. \A i \in DOMAIN out : \E k \in 1 .. Len(lists) : out[i] \in Range(lists[k])
  BY <1>1, <1>3
<1> QED
  BY <1>2, <1>4, <1>5, <1>6, <1>7

(* A composed panel shows that set, or an error there is an excuse for. *)
LEMMA ComposedExact ==
    ASSUME Answered(plan, settled), NEW id \in DOMAIN plan.compositions
    PROVE  LET c == plan.compositions[id] IN CompositionExact(ComposedView(ComposeOne(plan, c, settled)), c)
<1> DEFINE c == plan.compositions[id]
           lists == [i \in DOMAIN c.inputs |-> settled[c.inputs[i]].rows]
           missing == IF c.op = "union" THEN \A r \in Inputs(c) : ~Resolves(settled[r])
                                        ELSE \E r \in Inputs(c) : ~Resolves(settled[r])
           merged == Merged(c.op, lists)
           out == FirstOf(merged, c.limit)
           result == ComposeOne(plan, c, settled)
           view == ComposedView(result)
<1>1. /\ c.inputs \in Seq(DOMAIN plan.requests) /\ Len(c.inputs) >= 2 /\ IsLimit(c.limit)
      /\ \A i \in 1 .. Len(c.inputs) : c.inputs[i] \in Inputs(c)
      /\ c.op \in Operations
  BY InputsAre DEF Answered
<1>2. lists \in Seq(Seq(Rows)) /\ Len(lists) = Len(c.inputs) /\ \A i \in 1 .. Len(lists) : lists[i] = settled[c.inputs[i]].rows
  <2>1. AreLists(lists, c, settled)
    BY ListsAre
  <2> HIDE DEF c, lists
  <2> QED
    BY <2>1 DEF AreLists
<1>3. result = IF missing THEN Failed("input failed")
               ELSE IF Total(lists) > MaxComposed THEN Failed("too large")
               ELSE Composition(out)
  BY ComposedIs
<1>4. ReferenceKeys(c) = KeysKept(c.op, lists)
  BY ReferenceIs
<1>5. Excused(c) <=> missing \/ Total(lists) > MaxComposed
  <2>1. (\E a \in InputsOf(c) : ~Resolves(a) /\ (c.op = "union" => \A b \in InputsOf(c) : ~Resolves(b))) <=> missing
    <3>1. Inputs(c) # {}
      <4>1. 1 \in 1 .. Len(c.inputs)
        BY <1>1
      <4> QED
        BY <1>1, <4>1
    <3> HIDE DEF c
    <3>2. \A a : a \in InputsOf(c) <=> \E r \in Inputs(c) : a = settled[r]
      BY DEF InputsOf
    <3> QED
      BY <3>1, <3>2
  <2> QED
    BY <2>1 DEF Excused
<1> HIDE DEF c, missing, lists, merged, result
<1>6. CASE missing \/ Total(lists) > MaxComposed
  <2>1. result.code # "ok"
    BY <1>3, <1>6 DEF Failed
  <2>2. view.state = "error"
    BY <2>1 DEF ComposedView, Broken
  <2> QED
    BY <1>5, <1>6, <2>2 DEF CompositionExact, c, result
<1>7. CASE ~missing /\ ~(Total(lists) > MaxComposed)
  <2>1. MergeIs(merged, Rows, lists, KeysKept(c.op, lists))
    <3>1. Len(lists) >= 1
      BY <1>1, <1>2
    <3> QED
      BY <1>1, <1>2, <3>1, MergedIs DEF merged
  <2>2. None \notin KeysKept(c.op, lists)
    BY <1>1 DEF KeysKept, KeysOf, Operations
  <2> DEFINE keys == ReferenceKeys(c)
             limit == c.limit
  <2>3. MergeIs(merged, Rows, lists, keys) /\ None \notin keys /\ IsLimit(limit) /\ out = FirstOf(merged, limit)
    BY <1>1, <1>4, <2>1, <2>2
  <2> HIDE DEF keys, out, limit
  <2>4. /\ out \in Seq(Rows)
        /\ KeysOf(out) \subseteq keys
        /\ LET n == Cardinality(keys) IN Len(out) = IF limit = None \/ limit > n THEN n ELSE limit
        /\ \A i, k \in DOMAIN out : i # k => out[i].id # out[k].id
        /\ \A i \in DOMAIN out : \E k \in 1 .. Len(lists) : out[i] \in Range(lists[k])
    BY <1>2, <2>3, FirstMerged
  <2>5. view = Drawn(out, TRUE)
    BY <1>3, <1>7 DEF ComposedView, Composition, out
  <2>6. view.state # "error" /\ view.rows = out
    BY <2>5 DEF Drawn
  <2>7. \A i \in DOMAIN out : \E a \in InputsOf(c) : out[i] \in Range(a.rows)
    <3> SUFFICES ASSUME NEW i \in DOMAIN out PROVE \E a \in InputsOf(c) : out[i] \in Range(a.rows)
      OBVIOUS
    <3>1. PICK k \in 1 .. Len(lists) : out[i] \in Range(lists[k])
      BY <2>4
    <3>2. lists[k] = settled[c.inputs[k]].rows /\ c.inputs[k] \in Inputs(c)
      BY <1>1, <1>2
    <3> QED
      BY <3>1, <3>2 DEF InputsOf
  <2> HIDE DEF view
  <2>8. CompositionExact(view, c)
    BY <2>4, <2>6, <2>7 DEF CompositionExact, keys, limit
  <2> QED
    BY <2>8 DEF view, result, c
<1> QED
  BY <1>6, <1>7

(* A joined panel shows the left rows with what belongs to them, or such an error. *)
LEMMA JoinedExact ==
    ASSUME Answered(plan, settled), NEW id \in DOMAIN plan.joins
    PROVE  LET j == plan.joins[id] IN JoinExact(ComposedView(JoinOne(plan, j, settled)), j)
<1> DEFINE j == plan.joins[id]
           left == settled[j.left]
           right == settled[j.right]
           failing == \/ ~Resolves(left) \/ ~Resolves(right)
                      \/ Len(left.rows) + Len(right.rows) > MaxComposed
                      \/ j.clash /\ left.rows # <<>> /\ KeysOf(right.rows) # {}
           rows == [i \in DOMAIN left.rows |-> Enriched(left.rows[i], right.rows)]
           result == JoinOne(plan, j, settled)
           view == ComposedView(result)
<1>1. JoinAllowed(plan, j)
  BY DEF Answered, Fits
<1> HIDE DEF j
<1>2. j.left \in DOMAIN plan.requests /\ j.right \in DOMAIN plan.requests /\ Joinable(plan, j)
  BY <1>1 DEF JoinAllowed, Joinable, Sides
<1>3. left.rows \in Seq(Rows) /\ right.rows \in Seq(Rows)
  BY <1>2, AnswersAre
<1>4. IF failing THEN result.code # "ok" ELSE result = Composition(rows)
  BY <1>2 DEF JoinOne, Failed
<1> HIDE DEF left, right, result
<1>5. CASE failing
  <2>1. view.state = "error"
    BY <1>4, <1>5 DEF ComposedView, Broken
  <2>2. JoinExact(view, j)
    BY <1>5, <2>1 DEF JoinExact, left, right
  <2> QED
    BY <2>2 DEF view, result, j
<1>6. CASE ~failing
  <2>1. view = Drawn(rows, TRUE)
    <3> HIDE DEF rows, failing
    <3>1. result = Composition(rows)
      BY <1>4, <1>6
    <3> QED
      BY <3>1 DEF ComposedView, Composition
  <2> HIDE DEF rows
  <2>2. view.state # "error" /\ view.rows = rows
    BY <2>1 DEF Drawn
  <2>3. DOMAIN rows = DOMAIN left.rows /\ left.rows = [i \in DOMAIN left.rows |-> left.rows[i]]
    BY <1>3 DEF rows
  <2>4. ASSUME NEW i \in DOMAIN left.rows
        PROVE  /\ [rows[i] EXCEPT !.joined = None] = left.rows[i]
               /\ rows[i].joined = IF rows[i].ref \in KeysOf(right.rows) THEN rows[i].ref ELSE None
    <3> DEFINE w == left.rows[i]
               match == {k \in DOMAIN right.rows : right.rows[k].id = w.ref /\ w.ref # None}
               key == IF match = {} THEN None ELSE w.ref
    <3>1. IsRow(w)
      <4>1. w \in Rows
        BY <1>3
      <4> QED
        BY <4>1, RowsAre
    <3>2. rows[i] = [w EXCEPT !.joined = key]
      BY DEF rows, Enriched
    <3>3. key = IF w.ref \in KeysOf(right.rows) THEN w.ref ELSE None
      BY DEF KeysOf
    <3> HIDE DEF w, key
    <3>4. w = [id |-> w.id, ref |-> w.ref, open |-> w.open, joined |-> None]
      BY <3>1 DEF IsRow
    <3>5. rows[i] = [id |-> w.id, ref |-> w.ref, open |-> w.open, joined |-> key]
      BY <3>2, <3>4
    <3>6. rows[i].ref = w.ref /\ rows[i].joined = key
      BY <3>5
    <3>7. [rows[i] EXCEPT !.joined = None] = w
      BY <3>4, <3>5
    <3> QED
      BY <3>3, <3>6, <3>7 DEF w
  <2>5. [i \in DOMAIN rows |-> [rows[i] EXCEPT !.joined = None]] = left.rows
    BY <2>3, <2>4
  <2> HIDE DEF view
  <2>6. JoinExact(view, j)
    BY <2>2, <2>3, <2>4, <2>5 DEF JoinExact, left, right
  <2> QED
    BY <2>6 DEF view, result, j
<1> QED
  BY <1>5, <1>6

(* Whatever is composed, refined, pinned and reopened, a panel over a set operation or
   a join shows the set, or the related rows, it is defined as, for any rows, inputs
   that failed or were cut, limits and budgets (composeOne, joinOne). *)
THEOREM ComposedAlwaysExact == Spec => []ComposedAsDefined
<1>1. Inv => ComposedAsDefined
  <2> SUFFICES ASSUME Inv, phase = "shown", NEW n \in DOMAIN screen, NEW s \in DOMAIN screen[n]
               PROVE  LET source == plan.panels[n].binds[s] IN
                      /\ source \in DOMAIN plan.compositions => CompositionExact(screen[n][s], plan.compositions[source])
                      /\ source \in DOMAIN plan.joins => JoinExact(screen[n][s], plan.joins[source])
    BY DEF ComposedAsDefined
  <2> DEFINE source == plan.panels[n].binds[s]
  <2>1. IsPlan(plan) /\ Fits(plan) /\ AllSettled(plan, settled) /\ screen = Projected(plan, settled)
    BY DEF Inv, TypeOK, Shown
  <2>2. Answered(plan, settled)
    BY <2>1 DEF Inv, TypeOK, Answered, AllSettled
  <2>3. Cell(n, s)
    BY <2>1, ProjectedStreams
  <2>4. screen[n][s] = View(plan, settled, source)
    BY <2>1, <2>3, ProjectedCells
  <2> HIDE DEF source
  <2>5. SourcesApart(plan)
    BY <2>1 DEF IsPlan
  <2>6. ASSUME source \in DOMAIN plan.compositions PROVE CompositionExact(screen[n][s], plan.compositions[source])
    <3>1. source \notin DOMAIN plan.requests /\ source \notin DOMAIN settled
      BY <2>1, <2>5, <2>6 DEF SourcesApart, AllSettled
    <3>2. screen[n][s] = ComposedView(ComposeOne(plan, plan.compositions[source], settled))
      BY <2>1, <2>4, <2>6, <3>1 DEF View, SourceView
    <3> QED
      BY <2>2, <2>6, <3>2, ComposedExact
  <2>7. ASSUME source \in DOMAIN plan.joins PROVE JoinExact(screen[n][s], plan.joins[source])
    <3>1. source \notin DOMAIN plan.requests /\ source \notin DOMAIN settled /\ source \notin DOMAIN plan.compositions
      BY <2>1, <2>5, <2>7 DEF SourcesApart, AllSettled
    <3>2. screen[n][s] = ComposedView(JoinOne(plan, plan.joins[source], settled))
      BY <2>1, <2>4, <2>7, <3>1 DEF View, SourceView
    <3> QED
      BY <2>2, <2>7, <3>2, JoinedExact
  <2> QED
    BY <2>6, <2>7 DEF source
<1> QED
  BY <1>1, InitInv, NextInv, PTL DEF Spec

-----------------------------------------------------------------------------
(* The order of the local sort.  By one term: what is missing comes last, and of two
   rows that are not alike one comes first. *)
LEMMA OneBefore ==
    ASSUME NEW t, NEW a, NEW b,
           Field(a, t.field) \in Int \cup {Null}, Field(b, t.field) \in Int \cup {Null}
    PROVE  /\ BeforeOn(a, b, t, TRUE) => ~BeforeOn(b, a, t, TRUE)
           /\ Field(a, t.field) # Field(b, t.field) <=> BeforeOn(a, b, t, TRUE) \/ BeforeOn(b, a, t, TRUE)
<1> DEFINE x == Field(a, t.field)
           y == Field(b, t.field)
<1>1. Null \notin Int
  BY QueryAssumption DEF QueryAssumption
<1>2. BeforeOn(a, b, t, TRUE) <=>
        IF x # Null /\ y # Null THEN (IF t.desc THEN y < x ELSE x < y) ELSE y = Null /\ x # Null
  BY DEF BeforeOn, Both, Less
<1>3. BeforeOn(b, a, t, TRUE) <=>
        IF y # Null /\ x # Null THEN (IF t.desc THEN x < y ELSE y < x) ELSE x = Null /\ y # Null
  BY DEF BeforeOn, Both, Less
<1> HIDE DEF x, y
<1>4. x \in Int \cup {Null} /\ y \in Int \cup {Null}
  BY DEF x, y
<1> DEFINE p == BeforeOn(a, b, t, TRUE)
           q == BeforeOn(b, a, t, TRUE)
           Told == (p => ~q) /\ (x # y <=> p \/ q)
<1>5. ASSUME t.desc PROVE Told
  <2>1. /\ p <=> (IF x # Null /\ y # Null THEN y < x ELSE y = Null /\ x # Null)
        /\ q <=> (IF x # Null /\ y # Null THEN x < y ELSE x = Null /\ y # Null)
    BY <1>2, <1>3, <1>5
  <2> HIDE DEF p, q
  <2> QED
    BY <1>1, <1>4, <2>1
<1>6. ASSUME ~t.desc PROVE Told
  <2>1. /\ p <=> (IF x # Null /\ y # Null THEN x < y ELSE y = Null /\ x # Null)
        /\ q <=> (IF x # Null /\ y # Null THEN y < x ELSE x = Null /\ y # Null)
    BY <1>2, <1>3, <1>6
  <2> HIDE DEF p, q
  <2> QED
    BY <1>1, <1>4, <2>1
<1> QED
  BY <1>5, <1>6 DEF x, y

(* By one term, what comes before a row comes before what follows it. *)
LEMMA OneBeforeAll ==
    ASSUME NEW t, NEW a, NEW b, NEW c,
           Field(a, t.field) \in Int \cup {Null}, Field(b, t.field) \in Int \cup {Null},
           Field(c, t.field) \in Int \cup {Null},
           BeforeOn(a, b, t, TRUE), BeforeOn(b, c, t, TRUE)
    PROVE  BeforeOn(a, c, t, TRUE)
<1> DEFINE x == Field(a, t.field)
           y == Field(b, t.field)
           z == Field(c, t.field)
<1>1. Null \notin Int
  BY QueryAssumption DEF QueryAssumption
<1>2. IF x # Null /\ y # Null THEN (IF t.desc THEN y < x ELSE x < y) ELSE y = Null /\ x # Null
  BY DEF BeforeOn, Both, Less
<1>3. IF y # Null /\ z # Null THEN (IF t.desc THEN z < y ELSE y < z) ELSE z = Null /\ y # Null
  BY DEF BeforeOn, Both, Less
<1>4. BeforeOn(a, c, t, TRUE) <=>
        IF x # Null /\ z # Null THEN (IF t.desc THEN z < x ELSE x < z) ELSE z = Null /\ x # Null
  BY DEF BeforeOn, Both, Less
<1>5. x \in Int \cup {Null} /\ y \in Int \cup {Null} /\ z \in Int \cup {Null}
  OBVIOUS
<1> HIDE DEF x, y, z
<1>6. IF x # Null /\ z # Null THEN (IF t.desc THEN z < x ELSE x < z) ELSE z = Null /\ x # Null
  <2>1. CASE t.desc
    BY <1>1, <1>2, <1>3, <1>5, <2>1
  <2>2. CASE ~t.desc
    BY <1>1, <1>2, <1>3, <1>5, <2>2
  <2> QED
    BY <2>1, <2>2
<1> QED
  BY <1>4, <1>6

(* It depends on the field alone. *)
LEMMA OneAlike ==
    ASSUME NEW t, NEW a, NEW b, NEW c, NEW last \in BOOLEAN, Field(a, t.field) = Field(b, t.field)
    PROVE  /\ BeforeOn(a, c, t, last) <=> BeforeOn(b, c, t, last)
           /\ BeforeOn(c, a, t, last) <=> BeforeOn(c, b, t, last)
<1>1. CASE last
  BY <1>1 DEF BeforeOn, Both, Less
<1>2. CASE ~last
  BY <1>2 DEF BeforeOn, Both, Less
<1> QED
  BY <1>1, <1>2

(* By several terms: the first on which two rows differ decides. *)
Sorts(sort, row) == \A n \in DOMAIN sort : Field(row, sort[n].field) \in Int \cup {Null}
Alike(a, b, sort) == \A n \in DOMAIN sort : Field(a, sort[n].field) = Field(b, sort[n].field)
Decides(n, a, b, sort) ==
    /\ n \in DOMAIN sort /\ Field(a, sort[n].field) # Field(b, sort[n].field)
    /\ \A m \in 1 .. n - 1 : Field(a, sort[m].field) = Field(b, sort[m].field)

(* Of some numbers one is the least. *)
LEMMA LeastOf ==
    ASSUME NEW S, S \subseteq Nat, S # {}
    PROVE  \E n \in S : \A m \in S : n <= m
<1> SUFFICES ASSUME \A n \in S : \E m \in S : m < n PROVE FALSE
  OBVIOUS
<1> DEFINE D == {n \in Nat : \A m \in 0 .. n : m \notin S}
<1>1. 0 \in D
  OBVIOUS
<1>2. ASSUME NEW n \in Nat, n \in D PROVE n + 1 \in D
  <2>1. \A m \in 0 .. n + 1 : m \in 0 .. n \/ m = n + 1
    OBVIOUS
  <2>2. n + 1 \notin S
    <3> SUFFICES ASSUME n + 1 \in S PROVE FALSE
      OBVIOUS
    <3>1. PICK m \in S : m < n + 1
      OBVIOUS
    <3>2. m \in 0 .. n
      BY <3>1
    <3> QED
      BY <1>2, <3>2
  <2> QED
    BY <1>2, <2>1, <2>2
<1>3. Nat \subseteq D
  <2> HIDE DEF D
  <2> QED
    BY <1>1, <1>2, SetInduction
<1>4. PICK n \in S : TRUE
  OBVIOUS
<1>5. n \in D /\ n \in 0 .. n
  BY <1>3, <1>4
<1> QED
  BY <1>4, <1>5

(* Rows that are not alike have a first term that decides between them. *)
LEMMA DecidesOne ==
    ASSUME NEW sort, sort \in Seq(Range(sort)), NEW a, NEW b, ~Alike(a, b, sort)
    PROVE  \E n : Decides(n, a, b, sort)
<1> DEFINE S == {n \in DOMAIN sort : Field(a, sort[n].field) # Field(b, sort[n].field)}
<1>1. DOMAIN sort = 1 .. Len(sort) /\ Len(sort) \in Nat
  OBVIOUS
<1>2. S \subseteq Nat /\ S # {}
  BY <1>1 DEF Alike
<1>3. PICK n \in S : \A m \in S : n <= m
  <2> HIDE DEF S
  <2> QED
    BY <1>2, LeastOf
<1>4. \A m \in 1 .. n - 1 : m \in DOMAIN sort /\ ~(n <= m)
  BY <1>1, <1>3
<1> QED
  BY <1>3, <1>4 DEF Decides

(* The term that decides between two rows says which comes first. *)
LEMMA DecidesBefore ==
    ASSUME NEW sort, sort \in Seq(Range(sort)), NEW a, NEW b, Sorts(sort, a), Sorts(sort, b),
           NEW n, Decides(n, a, b, sort)
    PROVE  /\ Before(a, b, sort, TRUE) <=> BeforeOn(a, b, sort[n], TRUE)
           /\ Before(b, a, sort, TRUE) <=> BeforeOn(b, a, sort[n], TRUE)
<1>1. DOMAIN sort = 1 .. Len(sort) /\ Len(sort) \in Nat
  OBVIOUS
<1>2. ASSUME NEW x, NEW y, Sorts(sort, x), Sorts(sort, y), Decides(n, x, y, sort), Before(x, y, sort, TRUE)
      PROVE  BeforeOn(x, y, sort[n], TRUE)
  <2>1. PICK k \in DOMAIN sort :
          /\ BeforeOn(x, y, sort[k], TRUE)
          /\ \A m \in 1 .. k - 1 : Field(x, sort[m].field) = Field(y, sort[m].field)
    BY <1>2 DEF Before
  <2>2. Field(x, sort[k].field) # Field(y, sort[k].field)
    BY <1>2, <2>1, OneBefore DEF Sorts
  <2>3. k = n
    <3>1. ~(k < n)
      <4>1. k < n => k \in 1 .. n - 1
        BY <1>1, <1>2 DEF Decides
      <4> QED
        BY <1>2, <2>2, <4>1 DEF Decides
    <3>2. ~(n < k)
      <4>1. n < k => n \in 1 .. k - 1
        BY <1>1, <1>2 DEF Decides
      <4> QED
        BY <1>2, <2>1, <4>1 DEF Decides
    <3> QED
      BY <1>1, <1>2, <3>1, <3>2 DEF Decides
  <2> QED
    BY <2>1, <2>3
<1>3. ASSUME NEW x, NEW y, Decides(n, x, y, sort), BeforeOn(x, y, sort[n], TRUE)
      PROVE  Before(x, y, sort, TRUE)
  BY <1>3 DEF Before, Decides
<1>4. Decides(n, b, a, sort)
  BY DEF Decides
<1> QED
  BY <1>2, <1>3, <1>4

(* Of two rows that are not alike, one comes first, and only one. *)
LEMMA BeforeOrAfter ==
    ASSUME NEW sort, sort \in Seq(Range(sort)), NEW a, NEW b, Sorts(sort, a), Sorts(sort, b)
    PROVE  /\ ~(Before(a, b, sort, TRUE) /\ Before(b, a, sort, TRUE))
           /\ ~Alike(a, b, sort) <=> Before(a, b, sort, TRUE) \/ Before(b, a, sort, TRUE)
<1>1. ASSUME Alike(a, b, sort) PROVE ~Before(a, b, sort, TRUE) /\ ~Before(b, a, sort, TRUE)
  <2>1. \A n \in DOMAIN sort : ~BeforeOn(a, b, sort[n], TRUE) /\ ~BeforeOn(b, a, sort[n], TRUE)
    BY <1>1, OneBefore DEF Alike, Sorts
  <2> QED
    BY <2>1 DEF Before
<1>2. ASSUME ~Alike(a, b, sort)
      PROVE  /\ Before(a, b, sort, TRUE) \/ Before(b, a, sort, TRUE)
             /\ ~(Before(a, b, sort, TRUE) /\ Before(b, a, sort, TRUE))
  <2>1. PICK n : Decides(n, a, b, sort)
    BY <1>2, DecidesOne
  <2>2. /\ BeforeOn(a, b, sort[n], TRUE) => ~BeforeOn(b, a, sort[n], TRUE)
        /\ BeforeOn(a, b, sort[n], TRUE) \/ BeforeOn(b, a, sort[n], TRUE)
    BY <2>1, OneBefore DEF Decides, Sorts
  <2> QED
    BY <2>1, <2>2, DecidesBefore
<1> QED
  BY <1>1, <1>2

(* Of rows that are alike, each comes before and after the same rows. *)
LEMMA BeforeAlike ==
    ASSUME NEW sort, sort \in Seq(Range(sort)), NEW a, NEW b, NEW c, Alike(a, b, sort)
    PROVE  /\ Before(a, c, sort, TRUE) <=> Before(b, c, sort, TRUE)
           /\ Before(c, a, sort, TRUE) <=> Before(c, b, sort, TRUE)
<1>1. DOMAIN sort = 1 .. Len(sort) /\ Len(sort) \in Nat
  OBVIOUS
<1>2. ASSUME NEW x, NEW y, Alike(x, y, sort)
      PROVE  /\ Before(x, c, sort, TRUE) => Before(y, c, sort, TRUE)
             /\ Before(c, x, sort, TRUE) => Before(c, y, sort, TRUE)
  <2>1. \A n \in DOMAIN sort : \A m \in 1 .. n - 1 : m \in DOMAIN sort
    BY <1>1
  <2>2. \A n \in DOMAIN sort : /\ BeforeOn(x, c, sort[n], TRUE) <=> BeforeOn(y, c, sort[n], TRUE)
                               /\ BeforeOn(c, x, sort[n], TRUE) <=> BeforeOn(c, y, sort[n], TRUE)
    BY <1>2, OneAlike DEF Alike
  <2>3. \A n \in DOMAIN sort : Field(x, sort[n].field) = Field(y, sort[n].field)
    BY <1>2 DEF Alike
  <2>4. ASSUME Before(x, c, sort, TRUE) PROVE Before(y, c, sort, TRUE)
    BY <2>1, <2>2, <2>3, <2>4 DEF Before
  <2>5. ASSUME Before(c, x, sort, TRUE) PROVE Before(c, y, sort, TRUE)
    BY <2>1, <2>2, <2>3, <2>5 DEF Before
  <2> QED
    BY <2>4, <2>5
<1>3. Alike(b, a, sort)
  BY DEF Alike
<1> QED
  BY <1>2, <1>3

(* By all terms too, what comes before a row comes before what follows it. *)
LEMMA BeforeAll ==
    ASSUME NEW sort, sort \in Seq(Range(sort)), NEW a, NEW b, NEW c, Sorts(sort, a), Sorts(sort, b), Sorts(sort, c),
           Before(a, b, sort, TRUE), Before(b, c, sort, TRUE)
    PROVE  Before(a, c, sort, TRUE)
<1>1. DOMAIN sort = 1 .. Len(sort) /\ Len(sort) \in Nat
  OBVIOUS
<1>2. PICK k \in DOMAIN sort :
        /\ BeforeOn(a, b, sort[k], TRUE)
        /\ \A m \in 1 .. k - 1 : Field(a, sort[m].field) = Field(b, sort[m].field)
  BY DEF Before
<1>3. PICK n \in DOMAIN sort :
        /\ BeforeOn(b, c, sort[n], TRUE)
        /\ \A m \in 1 .. n - 1 : Field(b, sort[m].field) = Field(c, sort[m].field)
  BY DEF Before
<1>4. CASE k < n
  <2>1. k \in 1 .. n - 1 /\ \A m \in 1 .. k - 1 : m \in 1 .. n - 1
    BY <1>1, <1>4
  <2>2. BeforeOn(a, c, sort[k], TRUE)
    BY <1>2, <1>3, <2>1, OneAlike
  <2> QED
    BY <1>2, <1>3, <2>1, <2>2 DEF Before
<1>5. CASE n < k
  <2>1. n \in 1 .. k - 1 /\ \A m \in 1 .. n - 1 : m \in 1 .. k - 1
    BY <1>1, <1>5
  <2>2. BeforeOn(a, c, sort[n], TRUE)
    BY <1>2, <1>3, <2>1, OneAlike
  <2> QED
    BY <1>2, <1>3, <2>1, <2>2 DEF Before
<1>6. CASE k = n
  <2>1. BeforeOn(a, c, sort[n], TRUE)
    BY <1>2, <1>3, <1>6, OneBeforeAll DEF Sorts
  <2> QED
    BY <1>2, <1>3, <1>6, <2>1 DEF Before
<1>7. k < n \/ n < k \/ k = n
  BY <1>1
<1> QED
  BY <1>4, <1>5, <1>6, <1>7

(* Not after is a total preorder. *)
LEMMA NotAfter ==
    ASSUME NEW sort, sort \in Seq(Range(sort)), NEW a, NEW b, NEW c, Sorts(sort, a), Sorts(sort, b), Sorts(sort, c)
    PROVE  ~Before(b, a, sort, TRUE) /\ ~Before(c, b, sort, TRUE) => ~Before(c, a, sort, TRUE)
<1> SUFFICES ASSUME ~Before(b, a, sort, TRUE), ~Before(c, b, sort, TRUE) PROVE ~Before(c, a, sort, TRUE)
  OBVIOUS
<1>1. Alike(a, b, sort) \/ Before(a, b, sort, TRUE)
  BY BeforeOrAfter
<1>2. Alike(b, c, sort) \/ Before(b, c, sort, TRUE)
  BY BeforeOrAfter
<1>3. CASE Alike(a, b, sort)
  BY <1>3, BeforeAlike
<1>4. CASE Before(a, b, sort, TRUE) /\ Alike(b, c, sort)
  <2>1. Before(a, c, sort, TRUE)
    BY <1>4, BeforeAlike
  <2> QED
    BY <2>1, BeforeOrAfter
<1>5. CASE Before(a, b, sort, TRUE) /\ Before(b, c, sort, TRUE)
  <2>1. Before(a, c, sort, TRUE)
    BY <1>5, BeforeAll
  <2> QED
    BY <2>1, BeforeOrAfter
<1> QED
  BY <1>1, <1>2, <1>3, <1>4, <1>5

-----------------------------------------------------------------------------
(* What is true of the empty list, and of a list with one more when it is of the list,
   is true of all. *)
LEMMA ListInduction ==
    ASSUME NEW T, NEW S, <<>> \in S, \A s \in Seq(T), x \in T : s \in S => Append(s, x) \in S
    PROVE  Seq(T) \subseteq S
<1> DEFINE D == {n \in Nat : \A s \in Seq(T) : Len(s) = n => s \in S}
<1>1. 0 \in D
  <2>1. \A s \in Seq(T) : Len(s) = 0 => s = <<>>
    OBVIOUS
  <2> QED
    BY <2>1
<1>2. ASSUME NEW n \in Nat, n \in D PROVE n + 1 \in D
  <2>1. ASSUME NEW s \in Seq(T), Len(s) = n + 1 PROVE s \in S
    <3> DEFINE r == SubSeq(s, 1, n)
               x == s[n + 1]
    <3>1. r \in Seq(T) /\ Len(r) = n /\ x \in T
      BY <2>1
    <3>2. s = Append(r, x)
      BY <2>1
    <3>3. r \in S
      BY <1>2, <3>1
    <3> HIDE DEF r, x
    <3> QED
      BY <3>1, <3>2, <3>3
  <2> QED
    BY <2>1
<1>3. Nat \subseteq D
  <2> HIDE DEF D
  <2> QED
    BY <1>1, <1>2, SetInduction
<1> QED
  <2>1. \A s \in Seq(T) : Len(s) \in D
    BY <1>3
  <2> QED
    BY <2>1

(* How the rows that are wanted are picked, one after the other. *)
Picks(upTo, rows, wanted) ==
    /\ upTo[0] = <<>> /\ Picked(rows, wanted) = upTo[Len(rows)]
    /\ \A k \in 1 .. Len(rows) : upTo[k] = IF rows[k] \in wanted THEN Append(upTo[k - 1], rows[k]) ELSE upTo[k - 1]

(* Picking goes through a list row by row. *)
LEMMA PickedSteps ==
    ASSUME NEW T, NEW rows \in Seq(T), NEW wanted
    PROVE  \E upTo : Picks(upTo, rows, wanted)
<1> DEFINE n == Len(rows)
           Q == Seq(T)
           Then(k, s) == IF rows[k] \in wanted THEN Append(s, rows[k]) ELSE s
           E(f) == [k \in 0 .. n |-> IF k = 0 THEN <<>> ELSE Then(k, f[k - 1])]
           upTo == CHOOSE f : f = E(f)
<1>1. n \in Nat /\ DOMAIN rows = 1 .. n /\ \A k \in 1 .. n : rows[k] \in T
  OBVIOUS
<1>2. Picked(rows, wanted) = upTo[n]
  BY DEF Picked
<1> HIDE DEF n
<1>3. \A k \in 1 .. n, s \in Q : Then(k, s) \in Q
  BY <1>1
<1>4. \E f : f = E(f)
  <2> DEFINE step == [x \in (1 .. n) \X Q |-> Then(x[1], x[2])]
  <2>1. Steps(n, Q, step)
    <3> HIDE DEF Then, Q
    <3> QED
      BY <1>3 DEF Steps
  <2>2. <<>> \in Q
    OBVIOUS
  <2>3. PICK f : Follows(f, n, Q, <<>>, step)
    <3> HIDE DEF Q, step
    <3> QED
      BY <1>1, <2>1, <2>2, Recursion
  <2>4. ASSUME NEW k \in 1 .. n PROVE f[k] = Then(k, f[k - 1])
    <3>1. k - 1 \in 0 .. n
      BY <1>1
    <3>2. f[k - 1] \in Q /\ <<k, f[k - 1]>> \in (1 .. n) \X Q
      BY <2>3, <3>1 DEF Follows
    <3> HIDE DEF Then, Q
    <3> QED
      BY <2>3, <3>2 DEF Follows
  <2>5. f = E(f)
    <3> HIDE DEF Then, Q
    <3> QED
      BY <2>3, <2>4, <1>1 DEF Follows
  <2> QED
    BY <2>5
<1>5. upTo[0] = <<>> /\ \A k \in 1 .. n : upTo[k] = Then(k, upTo[k - 1])
  <2>1. upTo = E(upTo)
    BY <1>4
  <2> HIDE DEF upTo, Then
  <2>2. \A f : f = E(f) => f[0] = <<>> /\ \A k \in 1 .. n : f[k] = Then(k, f[k - 1])
    BY <1>1
  <2> HIDE DEF E
  <2> QED
    BY <2>1, <2>2
<1> HIDE DEF upTo
<1> QED
  BY <1>2, <1>5 DEF n, Picks

(* Of the empty list nothing is picked. *)
LEMMA PickedNone ==
    ASSUME NEW wanted
    PROVE  Picked(<<>>, wanted) = <<>>
<1>1. <<>> \in Seq({})
  OBVIOUS
<1>2. PICK upTo : Picks(upTo, <<>>, wanted)
  BY <1>1, PickedSteps
<1> QED
  BY <1>2 DEF Picks

(* One row more is picked or not. *)
LEMMA PickedGoesOn ==
    ASSUME NEW T, NEW s \in Seq(T), NEW x \in T, NEW wanted
    PROVE  Picked(Append(s, x), wanted) = IF x \in wanted THEN Append(Picked(s, wanted), x) ELSE Picked(s, wanted)
<1> DEFINE t == Append(s, x)
           n == Len(s)
<1>1. t \in Seq(T) /\ Len(t) = n + 1 /\ n \in Nat /\ t[n + 1] = x /\ \A k \in 1 .. n : t[k] = s[k]
  OBVIOUS
<1>2. PICK f : Picks(f, s, wanted)
  BY PickedSteps
<1> HIDE DEF t, n
<1>3. PICK g : Picks(g, t, wanted)
  BY <1>1, PickedSteps
<1>4. /\ f[0] = <<>> /\ Picked(s, wanted) = f[n]
      /\ \A k \in 1 .. n : f[k] = IF s[k] \in wanted THEN Append(f[k - 1], s[k]) ELSE f[k - 1]
  BY <1>2 DEF Picks, n
<1>5. /\ g[0] = <<>> /\ Picked(t, wanted) = g[n + 1]
      /\ \A k \in 1 .. n + 1 : g[k] = IF t[k] \in wanted THEN Append(g[k - 1], t[k]) ELSE g[k - 1]
  BY <1>1, <1>3 DEF Picks
<1> DEFINE D == {k \in Nat : k <= n => f[k] = g[k]}
<1>6. 0 \in D
  BY <1>4, <1>5
<1>7. ASSUME NEW k \in Nat, k \in D PROVE k + 1 \in D
  <2> SUFFICES ASSUME k + 1 <= n PROVE f[k + 1] = g[k + 1]
    OBVIOUS
  <2>1. k + 1 \in 1 .. n /\ k + 1 \in 1 .. n + 1 /\ (k + 1) - 1 = k /\ f[k] = g[k] /\ t[k + 1] = s[k + 1]
    BY <1>1, <1>7
  <2>2. f[k + 1] = IF s[k + 1] \in wanted THEN Append(f[k], s[k + 1]) ELSE f[k]
    BY <1>4, <2>1
  <2>3. g[k + 1] = IF t[k + 1] \in wanted THEN Append(g[k], t[k + 1]) ELSE g[k]
    BY <1>5, <2>1
  <2> QED
    BY <2>1, <2>2, <2>3
<1>8. n \in D
  <2> HIDE DEF D
  <2> QED
    BY <1>1, <1>6, <1>7, SetInduction
<1>9. g[n + 1] = IF x \in wanted THEN Append(g[n], x) ELSE g[n]
  <2>1. n + 1 \in 1 .. n + 1 /\ (n + 1) - 1 = n
    BY <1>1
  <2> QED
    BY <1>1, <1>5, <2>1
<1>10. f[n] = g[n]
  BY <1>1, <1>8
<1> QED
  BY <1>4, <1>5, <1>9, <1>10 DEF t

(* What is picked of a list is of it, and is all of it that is wanted. *)
LEMMA PickedIs ==
    ASSUME NEW T, NEW s \in Seq(T), NEW wanted
    PROVE  Picked(s, wanted) \in Seq(T) /\ Range(Picked(s, wanted)) = Range(s) \cap wanted
<1> DEFINE S == {r \in Seq(T) : Picked(r, wanted) \in Seq(T) /\ Range(Picked(r, wanted)) = Range(r) \cap wanted}
<1>1. <<>> \in S
  <2>1. <<>> \in Seq(T) /\ Range(<<>>) = {}
    BY DEF Range
  <2> QED
    BY <2>1, PickedNone
<1>2. ASSUME NEW r \in Seq(T), NEW x \in T, r \in S PROVE Append(r, x) \in S
  <2>1. \A q \in Seq(T) : Range(Append(q, x)) = Range(q) \cup {x}
    <3> SUFFICES ASSUME NEW q \in Seq(T) PROVE Range(Append(q, x)) = Range(q) \cup {x}
      OBVIOUS
    <3>1. DOMAIN Append(q, x) = (1 .. Len(q)) \cup {Len(q) + 1} /\ DOMAIN q = 1 .. Len(q)
      OBVIOUS
    <3>2. Append(q, x)[Len(q) + 1] = x /\ \A k \in 1 .. Len(q) : Append(q, x)[k] = q[k]
      OBVIOUS
    <3> QED
      BY <3>1, <3>2 DEF Range
  <2>2. Picked(r, wanted) \in Seq(T) /\ Range(Picked(r, wanted)) = Range(r) \cap wanted
    BY <1>2
  <2>3. Picked(Append(r, x), wanted) = IF x \in wanted THEN Append(Picked(r, wanted), x) ELSE Picked(r, wanted)
    BY PickedGoesOn
  <2>4. Append(r, x) \in Seq(T) /\ Range(Append(r, x)) = Range(r) \cup {x}
    BY <2>1
  <2>5. CASE x \in wanted
    <3>1. Picked(Append(r, x), wanted) \in Seq(T)
      BY <2>2, <2>3, <2>5
    <3>2. Range(Picked(Append(r, x), wanted)) = Range(Picked(r, wanted)) \cup {x}
      BY <2>1, <2>2, <2>3, <2>5
    <3> QED
      BY <2>2, <2>4, <2>5, <3>1, <3>2
  <2>6. CASE x \notin wanted
    BY <2>2, <2>3, <2>4, <2>6
  <2> QED
    BY <2>5, <2>6
<1>3. s \in S
  <2> HIDE DEF S
  <2> QED
    BY <1>1, <1>2, ListInduction
<1> QED
  BY <1>3

(* To pick twice is to pick what is wanted both times. *)
LEMMA PickedTwice ==
    ASSUME NEW T, NEW s \in Seq(T), NEW A, NEW B
    PROVE  Picked(Picked(s, A), B) = Picked(s, A \cap B)
<1> DEFINE S == {r \in Seq(T) : Picked(Picked(r, A), B) = Picked(r, A \cap B)}
<1>1. <<>> \in S
  <2>1. <<>> \in Seq(T)
    OBVIOUS
  <2>2. Picked(<<>>, A) = <<>> /\ Picked(<<>>, B) = <<>> /\ Picked(<<>>, A \cap B) = <<>>
    BY PickedNone
  <2> QED
    BY <2>1, <2>2
<1>2. ASSUME NEW r \in Seq(T), NEW x \in T, r \in S PROVE Append(r, x) \in S
  <2>1. Picked(r, A) \in Seq(T)
    BY PickedIs
  <2>2. Picked(Append(r, x), A) = IF x \in A THEN Append(Picked(r, A), x) ELSE Picked(r, A)
    BY PickedGoesOn
  <2>3. Picked(Append(r, x), A \cap B) = IF x \in A \cap B THEN Append(Picked(r, A \cap B), x) ELSE Picked(r, A \cap B)
    BY PickedGoesOn
  <2>4. Picked(Append(Picked(r, A), x), B) = IF x \in B THEN Append(Picked(Picked(r, A), B), x) ELSE Picked(Picked(r, A), B)
    BY <2>1, PickedGoesOn
  <2>5. Picked(Picked(r, A), B) = Picked(r, A \cap B) /\ Append(r, x) \in Seq(T)
    BY <1>2
  <2>6. Picked(Picked(Append(r, x), A), B) = Picked(Append(r, x), A \cap B)
    <3>1. CASE x \in A
      <4>1. Picked(Append(r, x), A) = Append(Picked(r, A), x)
        BY <2>2, <3>1
      <4>2. x \in A \cap B <=> x \in B
        BY <3>1
      <4> QED
        BY <2>3, <2>4, <2>5, <4>1, <4>2
    <3>2. CASE x \notin A
      BY <2>2, <2>3, <2>5, <3>2
    <3> QED
      BY <3>1, <3>2
  <2> QED
    BY <2>5, <2>6
<1>3. s \in S
  <2> HIDE DEF S
  <2> QED
    BY <1>1, <1>2, ListInduction
<1> QED
  BY <1>3

(* It is only of the rows there are that it matters which are wanted. *)
LEMMA PickedSame ==
    ASSUME NEW T, NEW s \in Seq(T), NEW A, NEW B, Range(s) \cap A = Range(s) \cap B
    PROVE  Picked(s, A) = Picked(s, B)
<1> DEFINE S == {r \in Seq(T) : Range(r) \cap A = Range(r) \cap B => Picked(r, A) = Picked(r, B)}
<1>1. <<>> \in S
  BY PickedNone
<1>2. ASSUME NEW r \in Seq(T), NEW x \in T, r \in S PROVE Append(r, x) \in S
  <2> DEFINE t == Append(r, x)
  <2>1. t \in Seq(T) /\ x \in Range(t) /\ Range(r) \subseteq Range(t)
    <3>1. DOMAIN t = (1 .. Len(r)) \cup {Len(r) + 1} /\ DOMAIN r = 1 .. Len(r)
      OBVIOUS
    <3>2. t[Len(r) + 1] = x /\ \A k \in 1 .. Len(r) : t[k] = r[k]
      OBVIOUS
    <3> QED
      BY <3>1, <3>2 DEF Range
  <2>2. Picked(t, A) = IF x \in A THEN Append(Picked(r, A), x) ELSE Picked(r, A)
    BY PickedGoesOn
  <2>3. Picked(t, B) = IF x \in B THEN Append(Picked(r, B), x) ELSE Picked(r, B)
    BY PickedGoesOn
  <2> HIDE DEF t
  <2>4. ASSUME Range(t) \cap A = Range(t) \cap B PROVE Picked(t, A) = Picked(t, B)
    <3>1. (x \in A <=> x \in B) /\ Range(r) \cap A = Range(r) \cap B
      BY <2>1, <2>4
    <3>2. Picked(r, A) = Picked(r, B)
      BY <1>2, <3>1
    <3> QED
      BY <2>2, <2>3, <3>1, <3>2
  <2> QED
    BY <2>1, <2>4 DEF t
<1>3. s \in S
  <2> HIDE DEF S
  <2> QED
    BY <1>1, <1>2, ListInduction
<1> QED
  BY <1>3

(* Where the rows that are picked come from: in the order of the list, and none left
   out. *)
Rises(at, out, rows, wanted) ==
    /\ at \in [1 .. Len(out) -> {k \in 1 .. Len(rows) : rows[k] \in wanted}]
    /\ \A i \in 1 .. Len(out) : out[i] = rows[at[i]]
    /\ \A i, j \in 1 .. Len(out) : i < j => at[i] < at[j]
    /\ \A k \in 1 .. Len(rows) : rows[k] \in wanted => \E i \in 1 .. Len(out) : at[i] = k

(* What is picked stands in the order of the list it is picked from. *)
LEMMA PickedRises ==
    ASSUME NEW T, NEW s \in Seq(T), NEW wanted
    PROVE  \E at : Rises(at, Picked(s, wanted), s, wanted)
<1> DEFINE S == {r \in Seq(T) : \E at : Rises(at, Picked(r, wanted), r, wanted)}
<1>1. <<>> \in S
  <2>1. <<>> \in Seq(T) /\ Len(<<>>) = 0
    OBVIOUS
  <2>2. Rises(<<>>, <<>>, <<>>, wanted)
    BY DEF Rises
  <2>3. Picked(<<>>, wanted) = <<>>
    BY PickedNone
  <2> QED
    BY <2>1, <2>2, <2>3
<1>2. ASSUME NEW r \in Seq(T), NEW x \in T, r \in S PROVE Append(r, x) \in S
  <2> DEFINE t == Append(r, x)
             n == Len(r)
             p == Picked(r, wanted)
             q == Picked(t, wanted)
             m == Len(p)
  <2>1. t \in Seq(T) /\ Len(t) = n + 1 /\ n \in Nat /\ t[n + 1] = x /\ \A k \in 1 .. n : t[k] = r[k]
    OBVIOUS
  <2>2. PICK at : Rises(at, p, r, wanted)
    BY <1>2
  <2>3. q = IF x \in wanted THEN Append(p, x) ELSE p
    BY PickedGoesOn
  <2>4. p \in Seq(T) /\ m \in Nat
    <3>1. p \in Seq(T)
      BY PickedIs
    <3> HIDE DEF p
    <3> QED
      BY <3>1
  <2> HIDE DEF t, n, p, q
  <2>5. /\ at \in [1 .. m -> {k \in 1 .. n : r[k] \in wanted}]
        /\ \A i \in 1 .. m : p[i] = r[at[i]]
        /\ \A i, j \in 1 .. m : i < j => at[i] < at[j]
        /\ \A k \in 1 .. n : r[k] \in wanted => \E i \in 1 .. m : at[i] = k
    BY <2>2 DEF Rises, n
  <2>6. CASE x \notin wanted
    <3>1. q = p
      BY <2>3, <2>6
    <3>2. \A k \in 1 .. n + 1 : t[k] \in wanted <=> k \in 1 .. n /\ r[k] \in wanted
      BY <2>1, <2>6
    <3>3. at \in [1 .. m -> {k \in 1 .. n + 1 : t[k] \in wanted}]
      <4>1. \A k \in {j \in 1 .. n : r[j] \in wanted} : k \in {j \in 1 .. n + 1 : t[j] \in wanted}
        BY <2>1, <3>2
      <4> QED
        BY <2>5, <4>1
    <3>4. \A i \in 1 .. m : p[i] = t[at[i]]
      BY <2>1, <2>5
    <3>5. Rises(at, q, t, wanted)
      BY <2>1, <2>5, <3>1, <3>2, <3>3, <3>4 DEF Rises
    <3> QED
      BY <2>1, <3>5 DEF t, q
  <2>7. CASE x \in wanted
    <3> DEFINE up == [i \in 1 .. m + 1 |-> IF i = m + 1 THEN n + 1 ELSE at[i]]
    <3>1. q = Append(p, x) /\ Len(q) = m + 1 /\ q[m + 1] = x /\ \A i \in 1 .. m : q[i] = p[i]
      BY <2>3, <2>4, <2>7
    <3>2. up[m + 1] = n + 1 /\ \A i \in 1 .. m : up[i] = at[i] /\ at[i] \in 1 .. n /\ r[at[i]] \in wanted
      BY <2>4, <2>5
    <3>3. \A i \in 1 .. m + 1 : i \in 1 .. m \/ i = m + 1
      BY <2>4
    <3>4. \A i \in 1 .. m + 1 : up[i] \in {k \in 1 .. n + 1 : t[k] \in wanted}
      <4> SUFFICES ASSUME NEW i \in 1 .. m + 1 PROVE up[i] \in 1 .. n + 1 /\ t[up[i]] \in wanted
        OBVIOUS
      <4> HIDE DEF up, m
      <4>1. CASE i = m + 1
        BY <2>1, <2>7, <3>2, <4>1
      <4>2. CASE i # m + 1
        <5>1. i \in 1 .. m /\ up[i] = at[i] /\ at[i] \in 1 .. n /\ r[at[i]] \in wanted
          BY <3>2, <3>3, <4>2
        <5>2. t[at[i]] = r[at[i]] /\ at[i] \in 1 .. n + 1
          BY <2>1, <5>1
        <5> QED
          BY <5>1, <5>2
      <4> QED
        BY <4>1, <4>2
    <3>5. up \in [1 .. m + 1 -> {k \in 1 .. n + 1 : t[k] \in wanted}]
      BY <3>4
    <3> HIDE DEF up
    <3>6. \A i \in 1 .. m + 1 : q[i] = t[up[i]]
      BY <2>1, <2>5, <3>1, <3>2, <3>3
    <3>7. ASSUME NEW i \in 1 .. m + 1, NEW j \in 1 .. m + 1, i < j PROVE up[i] < up[j]
      <4>1. i \in 1 .. m
        BY <2>4, <3>7
      <4>2. CASE j = m + 1
        BY <2>1, <3>2, <4>1, <4>2
      <4>3. CASE j # m + 1
        BY <2>5, <3>2, <3>3, <3>7, <4>1, <4>3
      <4> QED
        BY <4>2, <4>3
    <3>8. ASSUME NEW k \in 1 .. n + 1, t[k] \in wanted PROVE \E i \in 1 .. m + 1 : up[i] = k
      <4>1. CASE k = n + 1
        BY <2>4, <3>2, <4>1
      <4>2. CASE k # n + 1
        <5>1. k \in 1 .. n /\ r[k] \in wanted
          BY <2>1, <3>8, <4>2
        <5>2. PICK i \in 1 .. m : at[i] = k
          BY <2>5, <5>1
        <5>3. i \in 1 .. m + 1 /\ up[i] = k
          BY <2>4, <3>2, <5>2
        <5> QED
          BY <5>3
      <4> QED
        BY <4>1, <4>2
    <3>9. Rises(up, q, t, wanted)
      <4>1. Len(q) = m + 1 /\ Len(t) = n + 1
        BY <2>1, <3>1
      <4> HIDE DEF m
      <4> QED
        BY <3>5, <3>6, <3>7, <3>8, <4>1 DEF Rises
    <3> QED
      BY <2>1, <3>9 DEF t, q
  <2> QED
    BY <2>6, <2>7
<1>3. s \in S
  <2> HIDE DEF S
  <2> QED
    BY <1>1, <1>2, ListInduction
<1> QED
  BY <1>3

(* What is picked of the first rows begins what is picked of all. *)
Begins(a, b) == Len(a) <= Len(b) /\ \A i \in 1 .. Len(a) : a[i] = b[i]

(* That is a list that begins like the other. *)
LEMMA PickedBegins ==
    ASSUME NEW T, NEW s \in Seq(T), NEW wanted, NEW n \in Nat, n <= Len(s)
    PROVE  Begins(Picked(SubSeq(s, 1, n), wanted), Picked(s, wanted))
<1> DEFINE S == {r \in Seq(T) : \A k \in Nat : k <= Len(r) => Begins(Picked(SubSeq(r, 1, k), wanted), Picked(r, wanted))}
<1>1. <<>> \in S
  <2>1. <<>> \in Seq(T) /\ \A k \in Nat : k <= Len(<<>>) => SubSeq(<<>>, 1, k) = <<>>
    OBVIOUS
  <2>2. Begins(<<>>, <<>>)
    BY DEF Begins
  <2> QED
    BY <2>1, <2>2, PickedNone
<1>2. ASSUME NEW r \in Seq(T), NEW x \in T, r \in S PROVE Append(r, x) \in S
  <2> DEFINE t == Append(r, x)
             p == Picked(r, wanted)
             q == Picked(t, wanted)
  <2>1. t \in Seq(T) /\ Len(t) = Len(r) + 1 /\ SubSeq(t, 1, Len(t)) = t
    OBVIOUS
  <2>2. \A k \in Nat : k <= Len(r) => SubSeq(t, 1, k) = SubSeq(r, 1, k)
    OBVIOUS
  <2>3. q = IF x \in wanted THEN Append(p, x) ELSE p
    BY PickedGoesOn
  <2>4. p \in Seq(T) /\ q \in Seq(T)
    BY <2>1, PickedIs
  <2> HIDE DEF t, p, q
  <2>5. Begins(p, q)
    <3>1. CASE x \in wanted
      <4>1. q = Append(p, x)
        BY <2>3, <3>1
      <4> QED
        BY <2>4, <4>1 DEF Begins
    <3>2. CASE x \notin wanted
      BY <2>3, <2>4, <3>2 DEF Begins
    <3> QED
      BY <3>1, <3>2
  <2>6. ASSUME NEW k \in Nat, k <= Len(t) PROVE Begins(Picked(SubSeq(t, 1, k), wanted), q)
    <3>1. CASE k = Len(t)
      <4>1. SubSeq(t, 1, k) = t
        BY <2>1, <3>1
      <4>2. Begins(q, q)
        BY <2>4 DEF Begins
      <4> QED
        BY <4>1, <4>2 DEF q
    <3>2. CASE k # Len(t)
      <4> DEFINE c == Picked(SubSeq(r, 1, k), wanted)
      <4>1. k <= Len(r) /\ SubSeq(t, 1, k) = SubSeq(r, 1, k)
        BY <2>1, <2>2, <2>6, <3>2
      <4>2. Begins(c, p)
        BY <1>2, <4>1 DEF p
      <4>3. c \in Seq(T)
        <5>1. SubSeq(r, 1, k) \in Seq(T)
          BY <4>1
        <5> QED
          BY <5>1, PickedIs
      <4> HIDE DEF c
      <4>4. Begins(c, q)
        BY <2>4, <2>5, <4>2, <4>3 DEF Begins
      <4>5. c = Picked(SubSeq(t, 1, k), wanted)
        BY <4>1 DEF c
      <4> QED
        BY <4>4, <4>5
    <3> QED
      BY <3>1, <3>2
  <2> QED
    BY <2>1, <2>6 DEF t, q
<1>3. s \in S
  <2> HIDE DEF S
  <2> QED
    BY <1>1, <1>2, ListInduction
<1> QED
  BY <1>3

-----------------------------------------------------------------------------
(* A condition that can be sent is read as it is matched here, if its row is related to
   any where it asks for related ones. *)
LEMMA LeafReads ==
    ASSUME NEW v, NEW c, NEW op, LeafOperator(v, c, op) # Null
    PROVE  \E value : /\ LeafOperator(v, c, op) = Leaf(c.field, op, value)
                      /\ \A x : Holds(op, x, value) <=> Holds(op, x, c.value)
<1>1. CASE op \in {"is-null", "is-not-null"}
  <2>1. LeafOperator(v, c, op) = Leaf(c.field, op, Null)
    BY <1>1 DEF LeafOperator
  <2>2. \A x : Holds(op, x, Null) <=> Holds(op, x, c.value)
    BY <1>1 DEF Holds
  <2> QED
    BY <2>1, <2>2
<1>2. CASE op \notin {"is-null", "is-not-null"}
  <2>1. LeafOperator(v, c, op) = Leaf(c.field, op, c.value)
    BY <1>2 DEF LeafOperator
  <2> QED
    BY <2>1
<1> QED
  BY <1>1, <1>2

(* A condition, however its dialect spells it, selects there the rows it selects here. *)
LEMMA ConditionReads ==
    ASSUME NEW d, NEW c, NEW row, ConditionValue(d, c) # Null, Related(c.field) => row[c.field] # {}
    PROVE  /\ ConditionValue(d, c).is # "combinator"
           /\ Reads(ConditionValue(d, c), row) <=> Matches(c, row)
<1> DEFINE v == d.fields[c.field]
           op == IF Related(c.field) THEN Existential(c.op) ELSE c.op
           leaf == IF op = Null THEN Null ELSE LeafOperator(v, c, op)
           e == ConditionValue(d, c)
<1>1. e = (IF leaf = Null \/ ~Related(c.field) THEN leaf ELSE NestThroughRelations(d, v, c, leaf))
  BY DEF ConditionValue
<1>2. e # Null /\ leaf # Null /\ op # Null /\ leaf = LeafOperator(v, c, op)
  BY <1>1
<1> HIDE DEF e, leaf
<1>3. PICK value : leaf = Leaf(c.field, op, value) /\ \A x : Holds(op, x, value) <=> Holds(op, x, c.value)
  BY <1>2, LeafReads
<1>4. leaf.is = "leaf" /\ leaf.field = c.field /\ leaf.op = op /\ leaf.value = value
  BY <1>3 DEF Leaf
<1>5. CASE ~Related(c.field)
  <2>1. e = leaf /\ op = c.op
    BY <1>1, <1>5
  <2>2. Reads(leaf, row) <=> Holds(op, row[c.field], value)
    BY <1>4 DEF Reads
  <2>3. Matches(c, row) <=> Holds(c.op, row[c.field], c.value)
    BY <1>5 DEF Matches
  <2> QED
    BY <1>3, <1>4, <2>1, <2>2, <2>3 DEF e
<1>6. CASE Related(c.field)
  <2> DEFINE xs == row[c.field]
             some == \E x \in xs : Holds(op, x, c.value)
  <2>1. e = NestThroughRelations(d, v, c, leaf) /\ op = Existential(c.op) /\ xs # {}
    BY <1>1, <1>2, <1>6
  <2>2. c.op \in {"eq", "not-eq", "in", "not-in"}
    BY <1>2, <2>1 DEF Existential
  <2>3. PICK quantifier \in {"some", "none", "not some"} :
          /\ e = Through(c.field, quantifier, leaf)
          /\ quantifier = "some" <=> ~Negated(c.op)
    BY <1>2, <2>1 DEF NestThroughRelations
  <2>4. e.is = "relation" /\ e.field = c.field /\ e.quantifier = quantifier /\ e.of = leaf
    BY <2>3 DEF Through
  <2>5. Reads(e, row) <=> IF quantifier = "some" THEN some ELSE ~some
    <3>1. Reads(e, row) <=> IF quantifier = "some" THEN \E x \in xs : Holds(op, x, value)
                            ELSE ~\E x \in xs : Holds(op, x, value)
      BY <1>4, <2>4 DEF Reads
    <3> QED
      BY <1>3, <3>1
  <2>6. Matches(c, row) <=> MatchesRelated(c, xs)
    BY <1>6 DEF Matches
  <2>7. /\ \A x : Holds("eq", x, c.value) <=> x = c.value
        /\ \A x : Holds("not-eq", x, c.value) <=> x # c.value
        /\ \A x : Holds("in", x, c.value) <=> x \in c.value
        /\ \A x : Holds("not-in", x, c.value) <=> x \notin c.value
    BY DEF Holds
  <2> HIDE DEF op, xs
  <2>8. Reads(e, row) <=> MatchesRelated(c, xs)
    <3>1. CASE c.op \in {"eq", "in"}
      <4>1. quantifier = "some" /\ op = c.op
        BY <2>1, <2>3, <3>1 DEF Negated, Existential
      <4>2. MatchesRelated(c, xs) <=> some
        BY <3>1, <4>1 DEF MatchesRelated
      <4> QED
        BY <2>5, <4>1, <4>2
    <3>2. CASE c.op \in {"not-eq", "not-in"}
      <4>1. quantifier # "some" /\ op = IF c.op = "not-eq" THEN "eq" ELSE "in"
        BY <2>1, <2>3, <3>2 DEF Negated, Existential
      <4>2. MatchesRelated(c, xs) <=> \A x \in xs : Holds(c.op, x, c.value)
        BY <2>1, <3>2 DEF MatchesRelated
      <4>3. \A x : Holds(c.op, x, c.value) <=> ~Holds(op, x, c.value)
        BY <2>7, <3>2, <4>1
      <4> QED
        BY <2>5, <4>1, <4>2, <4>3
    <3> QED
      BY <2>2, <3>1, <3>2
  <2> QED
    BY <2>4, <2>6, <2>8 DEF e
<1> QED
  BY <1>5, <1>6

(* A filter that can be sent, and is not flattened, selects the rows it evaluates to. *)
LEMMA SelectsEvaluated ==
    ASSUME NEW d, NEW f, NEW row, IsFilter(f), Rendered(d, f) # Null,
           \A p \in DOMAIN f : f[p].is = "group" => ~(d.combinators[f[p].combine] = "one" /\ f[p].parts > 1),
           \A p \in DOMAIN f : f[p].is = "condition" /\ Related(f[p].field) => row[f[p].field] # {}
    PROVE  Selects(Rendered(d, f), row) <=> Evaluates(f, row)
<1> DEFINE e == Rendered(d, f)
           groups == {p \in DOMAIN f : f[p].is = "group"}
<1>1. e = [p \in DOMAIN f |-> NodeValue(d, f[p])] /\ \A p \in DOMAIN f : e[p] # Null
  BY DEF Rendered
<1>2. DOMAIN e = DOMAIN f
  BY <1>1
<1> HIDE DEF e
<1>3. ASSUME NEW p \in DOMAIN f, f[p].is # "group"
      PROVE  e[p].is # "combinator" /\ (Reads(e[p], row) <=> Matches(f[p], row))
  <2>1. f[p].is = "condition"
    BY <1>3 DEF IsFilter
  <2>2. e[p] = ConditionValue(d, f[p]) /\ e[p] # Null
    BY <1>1, <2>1 DEF NodeValue
  <2>3. Related(f[p].field) => row[f[p].field] # {}
    BY <2>1
  <2> QED
    BY <2>2, <2>3, ConditionReads
<1>4. ASSUME NEW p \in DOMAIN f, f[p].is = "group"
      PROVE  e[p] = Combining(f[p].combine, Each(f[p])) /\ e[p].is = "combinator"
  <2>1. e[p] = GroupValue(d, f[p]) /\ e[p] # Null
    BY <1>1, <1>4 DEF NodeValue
  <2>2. ~(d.combinators[f[p].combine] = "one" /\ f[p].parts > 1)
    BY <1>4
  <2>3. e[p] = Combining(f[p].combine, Each(f[p]))
    BY <2>1, <2>2 DEF GroupValue
  <2> QED
    BY <2>3 DEF Combining
<1>5. \A p \in DOMAIN f : e[p].is = "combinator" <=> f[p].is = "group"
  BY <1>3, <1>4
<1>6. {p \in DOMAIN e : e[p].is # "combinator" /\ Reads(e[p], row)} = {p \in DOMAIN f : f[p].is # "group" /\ Matches(f[p], row)}
  BY <1>2, <1>3, <1>5
<1>7. {p \in DOMAIN e : e[p].is = "combinator"} = groups
  BY <1>2, <1>5
<1>8. [p \in {q \in DOMAIN e : e[q].is = "combinator"} |-> e[p]] = [p \in groups |-> Combining(f[p].combine, Each(f[p]))]
  <2>1. \A p \in groups : e[p] = Combining(f[p].combine, Each(f[p]))
    BY <1>4
  <2> HIDE DEF groups
  <2> QED
    BY <1>7, <2>1
<1> QED
  BY <1>6, <1>8 DEF Selects, Evaluates, e

-----------------------------------------------------------------------------
(* The smaller of two numbers. *)
LEMMA MinOf ==
    ASSUME NEW a \in Nat, NEW b \in Nat
    PROVE  Min({a, b}) = IF a <= b THEN a ELSE b
<1> DEFINE least == IF a <= b THEN a ELSE b
<1>1. least \in {a, b} /\ \A y \in {a, b} : least <= y
  OBVIOUS
<1>2. \A x \in {a, b} : (\A y \in {a, b} : x <= y) => x = least
  OBVIOUS
<1> QED
  BY <1>1, <1>2 DEF Min

(* The request: a query that was validated against a binding that compiles. *)
Requested ==
    /\ \E c \in Cases : \E field \in c.fields, d \in c.decisions :
        /\ Compiles(field, d)
        /\ binding = Binding(field, d)
        /\ query \in c.queries /\ params \in c.params
        /\ collection \in c.collections
    /\ Validated(binding, query, params)
    /\ cap \in PageCaps /\ budget \in RowBudgets

(* What is sorted by is a number or missing. *)
Sortable(rows) ==
    \A i \in DOMAIN rows : \A n \in DOMAIN query.sort : Field(rows[i], query.sort[n].field) \in Int \cup {Null}

(* What the assumptions on the cases say of a request. *)
LEMMA RequestIs ==
    ASSUME Requested
    PROVE  /\ collection \in Seq(Range(collection)) /\ Sortable(collection)
           /\ \A i \in DOMAIN collection : collection[i] # Hidden => "total" \notin DOMAIN collection[i]
           /\ query.filter = Null \/ IsFilter(query.filter)
           /\ query.limit \in (Nat \ {0}) \cup {Null} /\ query.offset \in Nat \cup {Null} /\ query.group \in BOOLEAN
           /\ query.sort \in Seq(Range(query.sort))
           /\ query.group => \A n \in DOMAIN query.sort : query.sort[n].field = "total"
           /\ cap \in Nat \ {0} /\ budget \in Nat \ {0}
<1>1. PICK c \in Cases : query \in c.queries /\ collection \in c.collections
  BY DEF Requested
<1>2. Sortable(collection)
  <2>1. \A i \in DOMAIN collection : collection[i] # Hidden => \A n \in DOMAIN query.sort :
          query.sort[n].field \in DOMAIN collection[i] => collection[i][query.sort[n].field] \in Int \cup {Null}
    BY <1>1, QueryAssumption DEF QueryAssumption
  <2> QED
    BY <2>1 DEF Sortable, Field
<1> QED
  BY <1>1, <1>2, QueryAssumption DEF QueryAssumption, Requested

(* What the runtime writes, it writes into arguments of its own. *)
LEMMA PushedIsWritten ==
    ASSUME Requested
    PROVE  /\ PushesOrdering <=> OrderingWritten(binding, params, query.sort) # Null
           /\ PushesFilter <=> FilterWritten(binding, params, query.filter) # Null
<1>1. PICK c \in Cases : \E field \in c.fields, d \in c.decisions :
        Compiles(field, d) /\ binding = Binding(field, d)
  BY DEF Requested
<1>2. PICK field \in c.fields, d \in c.decisions : Compiles(field, d) /\ binding = Binding(field, d)
  BY <1>1
<1>3. /\ binding.visitor = d.visitor /\ binding.ordering = OrderingPushdown(field, d)
      /\ binding.filter = FilterPushdown(field, d)
  BY <1>2 DEF Binding
<1>4. params \subseteq d.visitor /\ Null \notin DOMAIN field.args
  BY <1>3, QueryAssumption DEF Requested, Validated, QueryAssumption
<1>5. binding.ordering # Null => binding.ordering.argument \notin params /\ binding.ordering.argument # Null
  <2> SUFFICES ASSUME binding.ordering # Null
               PROVE  binding.ordering.argument \notin params /\ binding.ordering.argument # Null
    OBVIOUS
  <2>1. d.ordering # Null /\ binding.ordering.argument = d.ordering.name
    BY <1>3 DEF OrderingPushdown
  <2>2. d.ordering.name \notin d.visitor /\ d.ordering.name \in DOMAIN field.args
    BY <1>2, <2>1 DEF Compiles, OrderingRefused
  <2> QED
    BY <1>4, <2>1, <2>2
<1>6. binding.filter # Null => binding.filter.argument \notin params /\ binding.filter.argument # Null
  <2> SUFFICES ASSUME binding.filter # Null
               PROVE  binding.filter.argument \notin params /\ binding.filter.argument # Null
    OBVIOUS
  <2>1. FilterArgument(field, d) # Null /\ FilterArgument(field, d) \notin d.visitor
        /\ binding.filter = PushdownFor(field, d, FilterArgument(field, d))
    BY <1>3 DEF FilterPushdown
  <2>2. binding.filter.argument = FilterArgument(field, d)
    BY <2>1 DEF PushdownFor
  <2> QED
    BY <1>4, <2>1, <2>2
<1>7. PushesOrdering <=> OrderingWritten(binding, params, query.sort) # Null
  BY <1>5 DEF PushesOrdering, OrderingWritten, CanPushOrdering
<1>8. PushesFilter <=> FilterWritten(binding, params, query.filter) # Null
  BY <1>6 DEF PushesFilter, FilterWritten, CanPushFilterOf
<1> QED
  BY <1>7, <1>8

(* The page: the first of the rows in some order the upstream may take them in. *)
PageOf(rows) ==
    /\ rows \in Orders(Narrowed(Own(collection)))
    /\ \E served \in Spoiled(SubSeq(rows, 1, Min({Len(rows), PageSize}))) : page = Visible(served)
    /\ (marks.more <=> Tells /\ Len(rows) > PageSize)
    /\ (marks.truncated <=> marks.more /\ ~(SentLimit # Null /\ Len(page) >= SentLimit))
    /\ (marks.degraded <=> fault \in FieldFault)

(* A page has room for a row, whatever caps it. *)
LEMMA PageSizeIs ==
    ASSUME Requested
    PROVE  PageSize \in Nat \ {0} /\ SentLimit \in (Nat \ {0}) \cup {Null}
<1>1. /\ cap \in Nat \ {0} /\ query.limit \in (Nat \ {0}) \cup {Null} /\ Null \notin Nat
      /\ DefaultPage \in Nat \ {0} /\ MaximumRows \in Nat \ {0}
  BY RequestIs, QueryAssumption DEF QueryAssumption
<1>2. SentLimit \in (Nat \ {0}) \cup {Null}
  BY <1>1 DEF SentLimit
<1> DEFINE most == IF SentLimit # Null THEN SentLimit ELSE MaximumRows
<1>3. most \in Nat \ {0} /\ Min({most, cap}) = IF most <= cap THEN most ELSE cap
  BY <1>1, <1>2, MinOf
<1> QED
  BY <1>1, <1>2, <1>3 DEF PageSize, PlannedSize

(* The rows the upstream has to choose from, and those of them that are seen. *)
LEMMA HeldAre ==
    ASSUME Requested
    PROVE  LET own == Own(collection)
               held == Narrowed(own)
           IN  /\ own \in Seq(Range(collection)) /\ held \in Seq(Range(collection))
               /\ Range(own) \subseteq Range(collection) /\ Range(held) \subseteq Range(collection)
<1> DEFINE own == Own(collection)
<1>1. collection \in Seq(Range(collection))
  BY RequestIs
<1>2. own \in Seq(Range(collection)) /\ Range(own) \subseteq Range(collection)
  BY <1>1, PickedIs DEF Own
<1> HIDE DEF own
<1>3. Narrowed(own) \in Seq(Range(collection)) /\ Range(Narrowed(own)) \subseteq Range(own)
  BY <1>2, PickedIs DEF Narrowed
<1> QED
  BY <1>2, <1>3 DEF own

(* The filter of the query selects the rows it evaluates to, where it keeps its
   meaning. *)
LEMMA FilterKeepsMeaning ==
    ASSUME Requested, KeepsItsMeaning, PushesFilter, NEW r \in Range(collection), r # Hidden
    PROVE  Selects(Rendered(binding.filter.dialect, query.filter), r) <=> Evaluates(query.filter, r)
<1> DEFINE d == binding.filter.dialect
           f == query.filter
<1>1. f # Null /\ Rendered(d, f) # Null
  BY DEF PushesFilter, CanPushFilterOf, CanPushFilter
<1>2. IsFilter(f)
  BY <1>1, RequestIs
<1>3. ~Flattens(d, f) /\ ~ReadsNoRelated
  BY DEF KeepsItsMeaning
<1>4. \A p \in DOMAIN f : f[p].is = "group" => ~(d.combinators[f[p].combine] = "one" /\ f[p].parts > 1)
  BY <1>3 DEF Flattens
<1>5. ASSUME NEW p \in DOMAIN f, f[p].is = "condition", Related(f[p].field) PROVE r[f[p].field] # {}
  <2>1. f[p].field = "topics" /\ "topics" \in FieldsIn(f)
    BY <1>5 DEF Related, FieldsIn
  <2>2. PICK i \in DOMAIN collection : r = collection[i]
    BY DEF Range
  <2>3. r.topics # {}
    BY <1>3, <2>1, <2>2 DEF ReadsNoRelated
  <2> QED
    BY <2>1, <2>3
<1> HIDE DEF d, f
<1>6. Selects(Rendered(d, f), r) <=> Evaluates(f, r)
  BY <1>1, <1>2, <1>4, <1>5, SelectsEvaluated
<1> QED
  BY <1>6 DEF d, f

(* The rows of a list that are seen and pass the filter: those that are wanted. *)
Wanted == {r \in Range(collection) : r # Hidden /\ (query.filter # Null => Evaluates(query.filter, r))}
Passing(rows) == IF query.filter = Null THEN rows ELSE Keeps(query.filter, rows)

(* What is kept of a page is what passes the filter, grouped where it is asked. *)
LEMMA KeptIs == \A rows : Kept(rows) = IF query.group THEN Grouped(Passing(rows)) ELSE Passing(rows)
  BY DEF Kept, Passing

(* What is seen of a list and passes the filter is what is picked of it as wanted. *)
LEMMA PassingIs ==
    ASSUME NEW rows \in Seq(Range(collection)), Range(rows) \subseteq Range(collection)
    PROVE  Passing(Visible(rows)) = Picked(rows, Wanted)
<1> DEFINE T == Range(collection)
           v == Visible(rows)
<1>1. v = Picked(rows, Range(rows) \ {Hidden})
  BY DEF Visible
<1>2. v \in Seq(T) /\ Range(v) = Range(rows) \ {Hidden}
  BY <1>1, PickedIs
<1> HIDE DEF v
<1>3. CASE query.filter = Null
  <2>1. Passing(v) = v
    BY <1>3 DEF Passing
  <2>2. Range(rows) \cap (Range(rows) \ {Hidden}) = Range(rows) \cap Wanted
    BY <1>3 DEF Wanted
  <2> QED
    BY <1>1, <2>1, <2>2, PickedSame DEF v
<1>4. CASE query.filter # Null
  <2> DEFINE pass == {r \in Range(v) : Evaluates(query.filter, r)}
  <2>1. Passing(v) = Picked(v, pass)
    BY <1>4 DEF Passing, Keeps
  <2>2. \A r : r \in pass <=> r \in Range(rows) /\ r # Hidden /\ Evaluates(query.filter, r)
    BY <1>2
  <2>3. \A r : r \in Wanted <=> r \in T /\ r # Hidden /\ Evaluates(query.filter, r)
    BY <1>4 DEF Wanted
  <2> HIDE DEF pass
  <2>4. Picked(v, pass) = Picked(rows, (Range(rows) \ {Hidden}) \cap pass)
    BY <1>1, PickedTwice
  <2>5. Range(rows) \cap ((Range(rows) \ {Hidden}) \cap pass) = Range(rows) \cap Wanted
    BY <2>2, <2>3
  <2>6. Picked(rows, (Range(rows) \ {Hidden}) \cap pass) = Picked(rows, Wanted)
    BY <2>5, PickedSame
  <2> QED
    BY <2>1, <2>4, <2>6 DEF v
<1> QED
  BY <1>3, <1>4

(* What the upstream left out, nobody wanted. *)
LEMMA HeldWanted ==
    ASSUME Requested, KeepsItsMeaning
    PROVE  Picked(Narrowed(Own(collection)), Wanted) = Passing(Asked)
<1> DEFINE T == Range(collection)
           own == Own(collection)
           held == Narrowed(own)
<1>1. own \in Seq(T) /\ Range(own) \subseteq T
  BY HeldAre
<1>2. Passing(Asked) = Picked(own, Wanted)
  BY <1>1, PassingIs DEF Asked
<1> HIDE DEF own
<1>3. CASE ~PushesFilter
  <2>1. held = own
    BY <1>3, PushedIsWritten DEF Narrowed
  <2> QED
    BY <1>2, <2>1 DEF own
<1>4. CASE PushesFilter
  <2> DEFINE sent == Rendered(binding.filter.dialect, query.filter)
             S == {r \in Range(own) : r = Hidden \/ Selects(sent, r)}
  <2>1. held = Picked(own, S)
    BY <1>4, PushedIsWritten DEF Narrowed
  <2>2. Picked(held, Wanted) = Picked(own, S \cap Wanted)
    BY <1>1, <2>1, PickedTwice
  <2>3. query.filter # Null
    BY <1>4 DEF PushesFilter, CanPushFilterOf, CanPushFilter
  <2>4. \A r \in Wanted : r \in T /\ r # Hidden /\ Selects(sent, r)
    BY <1>4, <2>3, FilterKeepsMeaning DEF Wanted
  <2>5. Range(own) \cap (S \cap Wanted) = Range(own) \cap Wanted
    BY <2>4
  <2> HIDE DEF S
  <2>6. Picked(own, S \cap Wanted) = Picked(own, Wanted)
    BY <1>1, <2>5, PickedSame
  <2> QED
    BY <1>2, <2>2, <2>6 DEF own
<1> QED
  BY <1>3, <1>4

(* Where the page was all there was, the rows that pass are those that were asked for,
   in the order the upstream took them in. *)
LEMMA WholePage ==
    ASSUME Requested, NEW rows \in Seq(Range(collection)), PageOf(rows), ~marks.degraded, Tells, ~marks.more
    PROVE  page = Visible(rows)
<1>1. PageSize \in Nat \ {0} /\ Len(rows) \in Nat
  BY PageSizeIs
<1>2. Len(rows) <= PageSize
  <2>1. ~(Len(rows) > PageSize)
    BY DEF PageOf
  <2> QED
    BY <1>1, <2>1
<1>3. Min({Len(rows), PageSize}) = Len(rows)
  BY <1>1, <1>2, MinOf
<1>4. SubSeq(rows, 1, Len(rows)) = rows
  OBVIOUS
<1>5. fault \notin FieldFault
  BY DEF PageOf
<1>6. Spoiled(rows) = {rows}
  BY <1>5 DEF Spoiled
<1>7. PICK served \in Spoiled(SubSeq(rows, 1, Min({Len(rows), PageSize}))) : page = Visible(served)
  BY DEF PageOf
<1>8. SubSeq(rows, 1, Min({Len(rows), PageSize})) = rows
  BY <1>3, <1>4
<1>9. served \in Spoiled(rows)
  BY <1>7, <1>8
<1> QED
  BY <1>6, <1>7, <1>9

(* Groups that were not refused are those of the whole collection. *)
LEMMA GroupsExact ==
    ASSUME Requested, NEW rows, PageOf(rows), query.group, ~marks.degraded, ~marks.truncated, Tells, KeepsItsMeaning
    PROVE  Applied(page) = Applied(Asked)
<1> DEFINE held == Narrowed(Own(collection))
<1>1. rows = held
  BY DEF PageOf, Orders
<1>2. held \in Seq(Range(collection)) /\ Range(held) \subseteq Range(collection)
  BY HeldAre
<1>3. SentLimit = Null
  BY DEF SentLimit, LimitBoundsFetch
<1>4. ~marks.more
  BY <1>3 DEF PageOf
<1>5. page = Visible(held)
  BY <1>1, <1>2, <1>4, WholePage
<1>6. Passing(page) = Passing(Asked)
  BY <1>2, <1>5, PassingIs, HeldWanted
<1>7. Kept(page) = Kept(Asked)
  BY <1>6, KeptIs
<1> QED
  BY <1>7 DEF Applied

(* The rows an upstream serves, in the order it takes them in. *)
LEMMA OrderIs ==
    ASSUME Requested, NEW rows \in Orders(Narrowed(Own(collection)))
    PROVE  /\ rows \in Seq(Range(collection)) /\ Range(rows) \subseteq Range(collection)
           /\ PushesOrdering /\ obeys /\ ~query.group => Respects(rows, query.sort)
<1> DEFINE held == Narrowed(Own(collection))
           T == Range(collection)
<1>1. held \in Seq(T) /\ Range(held) \subseteq T
  BY HeldAre
<1> HIDE DEF held
<1>2. CASE rows = held /\ ~(PushesOrdering /\ obeys /\ ~query.group)
  BY <1>1, <1>2
<1>3. CASE rows \in Arrangements(held) /\ Respects(rows, query.sort)
  <2>1. PICK p \in SetToSeqs(DOMAIN held) : rows = [i \in DOMAIN held |-> held[p[i]]]
    BY <1>3 DEF Arrangements
  <2>2. DOMAIN held = 1 .. Len(held) /\ Len(held) \in Nat
    BY <1>1
  <2>3. \A i \in DOMAIN held : p[i] \in DOMAIN held
    BY <2>1, <2>2, FS_Interval DEF SetToSeqs
  <2>4. \A i \in DOMAIN held : held[i] \in T
    BY <1>1
  <2>5. DOMAIN rows = 1 .. Len(held) /\ \A i \in DOMAIN rows : rows[i] \in T
    BY <2>1, <2>2, <2>3, <2>4
  <2>6. rows = [i \in 1 .. Len(held) |-> rows[i]]
    BY <2>1, <2>2
  <2>7. rows \in Seq(T)
    BY <2>2, <2>5, <2>6
  <2> QED
    BY <1>3, <2>5, <2>7 DEF Range
<1> QED
  BY <1>2, <1>3, PushedIsWritten DEF Orders, held

(* A row that is served is one of those rows, but for a field that failed. *)
LEMMA ServedIs ==
    ASSUME NEW rows, NEW served \in Spoiled(rows), NEW i \in DOMAIN served, served[i] # Hidden
    PROVE  /\ DOMAIN served = DOMAIN rows /\ rows[i] # Hidden
           /\ \A f : Field(served[i], f) # Null => Field(served[i], f) = Field(rows[i], f)
<1>1. CASE fault \notin FieldFault
  BY <1>1 DEF Spoiled
<1>2. CASE fault \in FieldFault
  <2>1. PICK last \in {1, Len(rows)} \cap DOMAIN rows :
          served = [k \in DOMAIN rows |->
              IF rows[k] = Hidden \/ k > last THEN rows[k]
              ELSE IF fault = "key nulls its row" THEN Hidden
              ELSE [rows[k] EXCEPT ![FaultyField] = Null]]
    BY <1>2 DEF Spoiled
  <2>2. DOMAIN served = DOMAIN rows
    BY <2>1
  <2>3. CASE served[i] = rows[i]
    BY <2>2, <2>3
  <2>4. CASE served[i] # rows[i]
    <3>1. rows[i] # Hidden /\ served[i] = [rows[i] EXCEPT ![FaultyField] = Null]
      BY <2>1, <2>2, <2>4
    <3>2. DOMAIN served[i] = DOMAIN rows[i]
          /\ \A f \in DOMAIN rows[i] : served[i][f] = IF f = FaultyField THEN Null ELSE rows[i][f]
      BY <3>1
    <3> QED
      BY <2>2, <3>1, <3>2 DEF Field
  <2> QED
    BY <2>3, <2>4
<1> QED
  BY <1>1, <1>2

(* What is served is a list of as many rows, and so is the page. *)
LEMMA ServedList ==
    ASSUME NEW T, NEW rows \in Seq(T), NEW served \in Spoiled(rows)
    PROVE  served \in Seq(Range(served)) /\ Len(served) = Len(rows)
<1>1. served = [k \in 1 .. Len(rows) |-> served[k]] /\ Len(rows) \in Nat
  <2>1. CASE fault \notin FieldFault
    <3>1. served = rows
      BY <2>1 DEF Spoiled
    <3> QED
      BY <3>1
  <2>2. CASE fault \in FieldFault
    <3>1. PICK last : served = [k \in DOMAIN rows |->
            IF rows[k] = Hidden \/ k > last THEN rows[k]
            ELSE IF fault = "key nulls its row" THEN Hidden
            ELSE [rows[k] EXCEPT ![FaultyField] = Null]]
      BY <2>2 DEF Spoiled
    <3>2. DOMAIN served = DOMAIN rows /\ served = [k \in DOMAIN served |-> served[k]]
      BY <3>1
    <3>3. DOMAIN rows = 1 .. Len(rows) /\ Len(rows) \in Nat
      OBVIOUS
    <3> QED
      BY <3>2, <3>3
  <2> QED
    BY <2>1, <2>2
<1>2. \A k \in 1 .. Len(rows) : served[k] \in Range(served)
  BY <1>1 DEF Range
<1> QED
  BY <1>1, <1>2

(* A page is a list of rows. *)
LEMMA PageIsList ==
    ASSUME Requested, NEW rows, PageOf(rows)
    PROVE  page \in Seq(Range(page)) /\ Len(page) \in Nat
<1> DEFINE n == Min({Len(rows), PageSize})
           first == SubSeq(rows, 1, n)
<1>1. rows \in Seq(Range(collection)) /\ Len(rows) \in Nat
  BY OrderIs DEF PageOf
<1>2. n \in Nat /\ n <= Len(rows)
  BY <1>1, PageSizeIs, MinOf
<1>3. PICK served \in Spoiled(first) : page = Visible(served)
  BY DEF PageOf
<1> HIDE DEF n
<1>4. first \in Seq(Range(collection))
  BY <1>1, <1>2
<1> HIDE DEF first
<1>5. served \in Seq(Range(served))
  BY <1>4, ServedList
<1>6. page \in Seq(Range(served))
  BY <1>3, <1>5, PickedIs DEF Visible
<1>7. \A k \in 1 .. Len(page) : page[k] \in Range(page)
  BY <1>6 DEF Range
<1> QED
  BY <1>6, <1>7

(* Neighbours on a page come from rows in the same order. *)
ComesFrom(x, row) == row # Hidden /\ \A f : Field(x, f) # Null => Field(x, f) = Field(row, f)

(* Two rows of a page come from two rows of the order it was cut from, in that order. *)
LEMMA PageRows ==
    ASSUME Requested, NEW rows, PageOf(rows), NEW i \in 1 .. Len(page), NEW j \in 1 .. Len(page), i < j
    PROVE  \E a, b \in DOMAIN rows : a < b /\ ComesFrom(page[i], rows[a]) /\ ComesFrom(page[j], rows[b])
<1> DEFINE n == Min({Len(rows), PageSize})
           first == SubSeq(rows, 1, n)
           T == Range(collection)
<1>1. rows \in Seq(T) /\ Len(rows) \in Nat
  BY OrderIs DEF PageOf
<1>2. n \in Nat /\ n <= Len(rows)
  BY <1>1, PageSizeIs, MinOf
<1> HIDE DEF n
<1>3. DOMAIN first = 1 .. n /\ DOMAIN rows = 1 .. Len(rows) /\ \A k \in 1 .. n : first[k] = rows[k]
  BY <1>1, <1>2
<1>4. PICK served \in Spoiled(first) : page = Visible(served)
  BY DEF PageOf, n
<1> HIDE DEF first
<1>5. first \in Seq(T) /\ Len(first) = n
  BY <1>1, <1>2 DEF first
<1>6. served \in Seq(Range(served)) /\ Len(served) = n /\ DOMAIN served = 1 .. n
  BY <1>4, <1>5, ServedList
<1>7. PICK at : Rises(at, page, served, Range(served) \ {Hidden})
  BY <1>4, <1>6, PickedRises DEF Visible
<1>8. /\ at[i] \in 1 .. n /\ at[j] \in 1 .. n /\ at[i] < at[j]
      /\ page[i] = served[at[i]] /\ page[j] = served[at[j]]
      /\ served[at[i]] # Hidden /\ served[at[j]] # Hidden
  BY <1>6, <1>7 DEF Rises
<1>9. ASSUME NEW k \in 1 .. n, served[k] # Hidden
      PROVE  first[k] # Hidden /\ \A f : Field(served[k], f) # Null => Field(served[k], f) = Field(first[k], f)
  BY <1>4, <1>6, <1>9, ServedIs
<1> DEFINE a == at[i]
           b == at[j]
<1>10. a \in DOMAIN rows /\ b \in DOMAIN rows /\ a < b /\ first[a] = rows[a] /\ first[b] = rows[b]
  BY <1>2, <1>3, <1>8
<1>11. ComesFrom(page[i], rows[a]) /\ ComesFrom(page[j], rows[b])
  <2>1. a \in 1 .. n /\ b \in 1 .. n /\ page[i] = served[a] /\ page[j] = served[b]
        /\ served[a] # Hidden /\ served[b] # Hidden
    BY <1>8
  <2> HIDE DEF a, b
  <2>2. first[a] # Hidden /\ \A f : Field(served[a], f) # Null => Field(served[a], f) = Field(first[a], f)
    BY <1>9, <2>1
  <2>3. first[b] # Hidden /\ \A f : Field(served[b], f) # Null => Field(served[b], f) = Field(first[b], f)
    BY <1>9, <2>1
  <2> QED
    BY <1>10, <2>1, <2>2, <2>3 DEF ComesFrom
<1> HIDE DEF a, b
<1> QED
  BY <1>10, <1>11

(* A page of rows in an order they may be in has no neighbours that every ordering would
   swap. *)
LEMMA ObedientPage ==
    ASSUME Requested, NEW rows, PageOf(rows), obeys, PushesOrdering
    PROVE  ~Misordered
<1> SUFFICES ASSUME NEW i \in 1 .. Len(page) - 1, NEW n \in DOMAIN query.sort,
                    \A m \in 1 .. n : Both(page[i], page[i + 1], query.sort[m].field),
                    \A m \in 1 .. n - 1 :
                      Field(page[i], query.sort[m].field) = Field(page[i + 1], query.sort[m].field),
                    Less(page[i + 1], page[i], query.sort[n])
             PROVE  FALSE
  BY DEF Misordered
<1>1. i + 1 \in 1 .. Len(page) /\ i \in 1 .. Len(page) /\ i < i + 1
  <2>1. Len(page) \in Nat
    BY PageIsList
  <2> QED
    BY <2>1
<1> DEFINE j == i + 1
           x == page[i]
           y == page[j]
<1>2. PICK a \in DOMAIN rows, b \in DOMAIN rows : a < b /\ ComesFrom(x, rows[a]) /\ ComesFrom(y, rows[b])
  <2>1. j \in 1 .. Len(page) /\ i < j
    BY <1>1
  <2> HIDE DEF j
  <2> QED
    BY <1>1, <2>1, PageRows
<1>3. query.sort \in Seq(Range(query.sort)) /\ n \in Nat /\ n >= 1
  BY RequestIs
<1>4. ASSUME NEW m \in 1 .. n
      PROVE  /\ Field(x, query.sort[m].field) = Field(rows[a], query.sort[m].field)
             /\ Field(y, query.sort[m].field) = Field(rows[b], query.sort[m].field)
             /\ Both(rows[b], rows[a], query.sort[m].field)
  <2>1. Both(x, y, query.sort[m].field)
    OBVIOUS
  <2> HIDE DEF x, y
  <2> QED
    BY <1>2, <2>1 DEF Both, ComesFrom
<1>5. n \in 1 .. n
  BY <1>3
<1>6. CASE query.group
  <2>1. query.sort[n].field = "total"
    BY <1>6, RequestIs
  <2>2. rows \in Seq(Range(collection)) /\ Range(rows) \subseteq Range(collection)
    BY OrderIs DEF PageOf
  <2>3. rows[a] \in Range(collection)
    BY <2>2 DEF Range
  <2>4. "total" \notin DOMAIN rows[a]
    BY <1>2, <2>3, RequestIs DEF Range, ComesFrom
  <2>5. Field(rows[a], "total") = Null
    BY <2>4 DEF Field
  <2> QED
    BY <1>4, <1>5, <2>1, <2>5 DEF Both
<1>7. CASE ~query.group
  <2>1. Respects(rows, query.sort)
    BY <1>7, OrderIs DEF PageOf
  <2>2. PICK last \in BOOLEAN : ~Before(rows[b], rows[a], query.sort, last)
    BY <1>2, <2>1 DEF Respects, ComesFrom
  <2>3. Less(rows[b], rows[a], query.sort[n])
    <3>1. Less(y, x, query.sort[n])
      OBVIOUS
    <3> HIDE DEF x, y
    <3> QED
      BY <1>4, <1>5, <3>1 DEF Less
  <2>4. BeforeOn(rows[b], rows[a], query.sort[n], last)
    BY <1>4, <1>5, <2>3 DEF BeforeOn
  <2>5. \A m \in 1 .. n - 1 : Field(rows[b], query.sort[m].field) = Field(rows[a], query.sort[m].field)
    <3>1. \A m \in 1 .. n - 1 : m \in 1 .. n /\ Field(x, query.sort[m].field) = Field(y, query.sort[m].field)
      BY <1>3
    <3> HIDE DEF x, y
    <3> QED
      BY <1>4, <3>1
  <2> QED
    BY <2>2, <2>4, <2>5 DEF Before
<1> QED
  BY <1>6, <1>7

-----------------------------------------------------------------------------
(* The ways to number the places of a list anew. *)
Shuffles(n) == {p \in [1 .. n -> 1 .. n] : \A i, j \in 1 .. n : i # j => p[i] # p[j]}

(* The sequences of all places of a list are its renumberings, and each reaches every place. *)
LEMMA ShufflesAre ==
    ASSUME NEW n \in Nat
    PROVE  /\ SetToSeqs(1 .. n) = Shuffles(n)
           /\ \A p \in Shuffles(n) : \A k \in 1 .. n : \E i \in 1 .. n : p[i] = k
<1>1. IsFiniteSet(1 .. n) /\ Cardinality(1 .. n) = n
  BY FS_Interval
<1>2. SetToSeqs(1 .. n) = Shuffles(n)
  BY <1>1 DEF SetToSeqs, Shuffles
<1>3. ASSUME NEW p \in Shuffles(n) PROVE \A k \in 1 .. n : \E i \in 1 .. n : p[i] = k
  <2>1. p \in Injection(1 .. n, 1 .. n)
    BY DEF Shuffles, Injection, IsInjective
  <2>2. p \in Surjection(1 .. n, 1 .. n)
    BY <1>1, <2>1, FS_Injection
  <2> QED
    BY <2>2 DEF Surjection
<1> QED
  BY <1>2, <1>3

IsList(s) == s \in Seq(Range(s)) /\ Len(s) \in Nat /\ DOMAIN s = 1 .. Len(s)

(* A sequence is a list of its members. *)
LEMMA ListIs ==
    ASSUME NEW T, NEW s \in Seq(T)
    PROVE  IsList(s)
<1>1. Len(s) \in Nat /\ DOMAIN s = 1 .. Len(s) /\ s = [i \in 1 .. Len(s) |-> s[i]]
  OBVIOUS
<1>2. \A i \in 1 .. Len(s) : s[i] \in Range(s)
  BY <1>1 DEF Range
<1> QED
  BY <1>1, <1>2 DEF IsList

(* A function of the first numbers is a list. *)
LEMMA ListOf ==
    ASSUME NEW n \in Nat, NEW s, s = [i \in 1 .. n |-> s[i]]
    PROVE  IsList(s) /\ Len(s) = n
<1>1. DOMAIN s = 1 .. n
  OBVIOUS
<1>2. \A i \in 1 .. n : s[i] \in Range(s)
  BY <1>1 DEF Range
<1>3. s \in Seq(Range(s)) /\ Len(s) = n
  BY <1>2
<1> QED
  BY <1>1, <1>3 DEF IsList

(* Two lists of the same members as often, in whatever order. *)
Moves(p, a, b) ==
    p \in Shuffles(Len(a)) /\ b = [i \in 1 .. Len(a) |-> a[p[i]]]

(* An arrangement of a list is the list with its places moved. *)
LEMMA ArrangementIs ==
    ASSUME NEW a, IsList(a), NEW b
    PROVE  /\ b \in Arrangements(a) <=> \E p : Moves(p, a, b)
           /\ b \in Arrangements(a) => IsList(b) /\ Len(b) = Len(a) /\ \A i \in 1 .. Len(b) : \E j \in 1 .. Len(a) : b[i] = a[j]
<1>1. DOMAIN a = 1 .. Len(a) /\ Len(a) \in Nat
  BY DEF IsList
<1>2. SetToSeqs(DOMAIN a) = Shuffles(Len(a))
  BY <1>1, ShufflesAre
<1>3. b \in Arrangements(a) <=> \E p : Moves(p, a, b)
  BY <1>1, <1>2 DEF Arrangements, Moves
<1>4. ASSUME NEW p, Moves(p, a, b)
      PROVE  IsList(b) /\ Len(b) = Len(a) /\ \A i \in 1 .. Len(b) : \E j \in 1 .. Len(a) : b[i] = a[j]
  <2>1. b = [i \in 1 .. Len(a) |-> a[p[i]]] /\ \A i \in 1 .. Len(a) : p[i] \in 1 .. Len(a) /\ b[i] = a[p[i]]
    BY <1>4 DEF Moves, Shuffles
  <2>2. b = [i \in 1 .. Len(a) |-> b[i]]
    BY <2>1
  <2>3. IsList(b) /\ Len(b) = Len(a)
    BY <1>1, <2>2, ListOf
  <2> QED
    BY <2>1, <2>3
<1> QED
  BY <1>3, <1>4

(* A list is an arrangement of itself. *)
LEMMA ArrangedAlike ==
    ASSUME NEW a, IsList(a)
    PROVE  a \in Arrangements(a)
<1> DEFINE p == [i \in 1 .. Len(a) |-> i]
<1>1. p \in Shuffles(Len(a))
  BY DEF Shuffles
<1>2. a = [i \in 1 .. Len(a) |-> a[p[i]]]
  BY DEF IsList
<1>3. Moves(p, a, a)
  BY <1>1, <1>2 DEF Moves
<1> QED
  BY <1>3, ArrangementIs

(* An arrangement of an arrangement is one of the list. *)
LEMMA ArrangedTwice ==
    ASSUME NEW a, IsList(a), NEW b \in Arrangements(a), NEW c \in Arrangements(b)
    PROVE  c \in Arrangements(a)
<1>1. IsList(b) /\ Len(b) = Len(a)
  BY ArrangementIs
<1>2. PICK p : Moves(p, a, b)
  BY ArrangementIs
<1>3. PICK q : Moves(q, b, c)
  BY <1>1, ArrangementIs
<1> DEFINE n == Len(a)
           r == [i \in 1 .. n |-> p[q[i]]]
<1>4. /\ p \in Shuffles(n) /\ b = [i \in 1 .. n |-> a[p[i]]]
      /\ q \in Shuffles(n) /\ c = [i \in 1 .. n |-> b[q[i]]]
  BY <1>1, <1>2, <1>3 DEF Moves
<1> HIDE DEF n
<1>5. \A i \in 1 .. n : q[i] \in 1 .. n /\ p[i] \in 1 .. n
  BY <1>4 DEF Shuffles
<1>6. \A i, j \in 1 .. n : i # j => p[q[i]] # p[q[j]]
  BY <1>4, <1>5 DEF Shuffles
<1>7. r \in Shuffles(n)
  BY <1>5, <1>6 DEF Shuffles
<1>8. c = [i \in 1 .. n |-> a[r[i]]]
  <2>1. \A i \in 1 .. n : c[i] = a[r[i]]
    BY <1>4, <1>5
  <2>2. c = [i \in 1 .. n |-> c[i]]
    BY <1>4
  <2> HIDE DEF r
  <2> QED
    BY <2>1, <2>2
<1>9. Moves(r, a, c)
  BY <1>7, <1>8 DEF Moves, n
<1> QED
  BY <1>9, ArrangementIs

(* What is picked of a list in another order is in another order. *)
Embeds(p, b, a) ==
    /\ p \in [1 .. Len(b) -> 1 .. Len(a)]
    /\ \A i, j \in 1 .. Len(b) : i # j => p[i] # p[j]
    /\ \A i \in 1 .. Len(b) : b[i] = a[p[i]]

(* What is picked of a list is embedded in what is picked of one that it is embedded in. *)
LEMMA NoMorePicked ==
    ASSUME NEW a, IsList(a), NEW b, IsList(b), NEW wanted, NEW p, Embeds(p, b, a)
    PROVE  \E g : Embeds(g, Picked(b, wanted), Picked(a, wanted))
<1> DEFINE x == Picked(a, wanted)
           y == Picked(b, wanted)
<1>1. PICK s : Rises(s, x, a, wanted)
  BY PickedRises DEF IsList
<1>2. PICK t : Rises(t, y, b, wanted)
  BY PickedRises DEF IsList
<1>3. IsList(x) /\ IsList(y)
  BY PickedIs, ListIs DEF IsList
<1> HIDE DEF x, y
<1> DEFINE m == Len(y)
           n == Len(x)
<1>4. m \in Nat /\ n \in Nat
  BY <1>3 DEF IsList
<1>5. /\ \A i \in 1 .. n : s[i] \in 1 .. Len(a) /\ x[i] = a[s[i]]
      /\ \A k \in 1 .. Len(a) : a[k] \in wanted => \E i \in 1 .. n : s[i] = k
  BY <1>1 DEF Rises
<1>6. /\ \A i \in 1 .. m : t[i] \in 1 .. Len(b) /\ b[t[i]] \in wanted /\ y[i] = b[t[i]]
      /\ \A i, j \in 1 .. m : i < j => t[i] < t[j]
  BY <1>2 DEF Rises
<1> HIDE DEF m, n
<1>7. \A i, j \in 1 .. m : i # j => t[i] # t[j]
  <2> SUFFICES ASSUME NEW i \in 1 .. m, NEW j \in 1 .. m, i # j PROVE t[i] # t[j]
    OBVIOUS
  <2>1. i < j \/ j < i
    BY <1>4
  <2>2. t[i] \in Int /\ t[j] \in Int /\ (t[i] < t[j] \/ t[j] < t[i])
    BY <1>6, <2>1 DEF IsList
  <2> QED
    BY <2>2
<1>8. /\ \A i \in 1 .. Len(b) : p[i] \in 1 .. Len(a) /\ b[i] = a[p[i]]
      /\ \A i, j \in 1 .. Len(b) : i # j => p[i] # p[j]
  BY DEF Embeds
<1> DEFINE g == [i \in 1 .. m |-> CHOOSE k \in 1 .. n : s[k] = p[t[i]]]
<1>9. ASSUME NEW i \in 1 .. m PROVE g[i] \in 1 .. n /\ s[g[i]] = p[t[i]]
  <2>1. a[p[t[i]]] \in wanted /\ p[t[i]] \in 1 .. Len(a)
    BY <1>6, <1>8
  <2>2. \E k \in 1 .. n : s[k] = p[t[i]]
    BY <1>5, <2>1
  <2> QED
    BY <2>2
<1>10. g \in [1 .. m -> 1 .. n]
  BY <1>9
<1> HIDE DEF g
<1>11. ASSUME NEW i \in 1 .. m, NEW j \in 1 .. m, i # j PROVE g[i] # g[j]
  <2>1. t[i] # t[j] /\ t[i] \in 1 .. Len(b) /\ t[j] \in 1 .. Len(b)
    BY <1>6, <1>7, <1>11
  <2>2. p[t[i]] # p[t[j]]
    BY <1>8, <2>1
  <2> QED
    BY <1>9, <2>2
<1>12. ASSUME NEW i \in 1 .. m PROVE y[i] = x[g[i]]
  <2>1. y[i] = b[t[i]] /\ t[i] \in 1 .. Len(b)
    BY <1>6
  <2>2. b[t[i]] = a[p[t[i]]]
    BY <1>8, <2>1
  <2>3. x[g[i]] = a[s[g[i]]]
    BY <1>5, <1>9
  <2> QED
    BY <1>9, <2>1, <2>2, <2>3
<1>13. Embeds(g, y, x)
  BY <1>10, <1>11, <1>12 DEF m, n, Embeds
<1> QED
  BY <1>13 DEF x, y

(* There are as many numbers up to n as n. *)
LEMMA CountTo == \A n \in Nat : IsFiniteSet(1 .. n) /\ Cardinality(1 .. n) = n
  BY FS_Interval

(* Arranging a list arranges what is picked of it. *)
LEMMA PickedArranged ==
    ASSUME NEW a, IsList(a), NEW b \in Arrangements(a), NEW wanted
    PROVE  Picked(b, wanted) \in Arrangements(Picked(a, wanted))
<1> DEFINE x == Picked(a, wanted)
           y == Picked(b, wanted)
           n == Len(a)
<1>1. IsList(b) /\ Len(b) = n /\ n \in Nat
  BY ArrangementIs DEF IsList
<1>2. PICK p : Moves(p, a, b)
  BY ArrangementIs
<1>3. IsList(x) /\ IsList(y)
  BY <1>1, PickedIs, ListIs DEF IsList
<1> HIDE DEF x, y, n
<1>4. /\ p \in [1 .. n -> 1 .. n] /\ \A i, j \in 1 .. n : i # j => p[i] # p[j]
      /\ p \in Shuffles(n) /\ \A i \in 1 .. n : b[i] = a[p[i]]
  BY <1>2 DEF Moves, Shuffles, n
<1>5. PICK g : Embeds(g, y, x)
  <2>1. Embeds(p, b, a)
    BY <1>1, <1>4 DEF Embeds, n
  <2> QED
    BY <1>1, <2>1, NoMorePicked DEF x, y
<1> DEFINE q == [k \in 1 .. n |-> CHOOSE i \in 1 .. n : p[i] = k]
<1>6. \A k \in 1 .. n : q[k] \in 1 .. n /\ p[q[k]] = k
  <2>1. \A k \in 1 .. n : \E i \in 1 .. n : p[i] = k
    BY <1>1, <1>4, ShufflesAre
  <2> QED
    BY <2>1
<1>7. q \in [1 .. n -> 1 .. n]
  BY <1>6
<1> HIDE DEF q
<1>8. /\ \A i, j \in 1 .. n : i # j => q[i] # q[j]
      /\ \A k \in 1 .. n : a[k] = b[q[k]]
  BY <1>4, <1>6
<1>9. PICK h : Embeds(h, x, y)
  <2>1. Embeds(q, a, b)
    BY <1>1, <1>7, <1>8 DEF Embeds, n
  <2> QED
    BY <1>1, <2>1, NoMorePicked DEF x, y
<1>10. Len(x) = Len(y)
  <2> DEFINE X == 1 .. Len(x)
             Y == 1 .. Len(y)
  <2>1. Len(x) \in Nat /\ Len(y) \in Nat
    BY <1>3 DEF IsList
  <2>2. IsFiniteSet(X) /\ IsFiniteSet(Y) /\ Cardinality(X) = Len(x) /\ Cardinality(Y) = Len(y)
    BY <2>1, CountTo
  <2> HIDE DEF X, Y
  <2>3. g \in Injection(Y, X) /\ h \in Injection(X, Y)
    BY <1>5, <1>9 DEF Embeds, Injection, IsInjective, X, Y
  <2>4. Cardinality(Y) <= Cardinality(X) /\ Cardinality(X) <= Cardinality(Y)
    BY <2>2, <2>3, FS_Injection
  <2> QED
    BY <2>1, <2>2, <2>4
<1>11. y = [i \in 1 .. Len(x) |-> x[g[i]]]
  <2>1. y = [i \in 1 .. Len(y) |-> y[i]]
    BY <1>3 DEF IsList
  <2> QED
    BY <1>5, <1>10, <2>1 DEF Embeds
<1>12. g \in Shuffles(Len(x))
  BY <1>5, <1>10 DEF Shuffles, Embeds
<1>13. Moves(g, x, y)
  BY <1>11, <1>12 DEF Moves
<1> QED
  BY <1>3, <1>13, ArrangementIs DEF x, y

-----------------------------------------------------------------------------
(* A list in the order of the local sort. *)
SortedHere(rows, sort) == \A i, j \in DOMAIN rows : i < j => ~Before(rows[j], rows[i], sort, TRUE)

(* The local sort knows of two rows which comes first. *)
LEMMA PrecedesIs ==
    ASSUME NEW sort, sort \in Seq(Range(sort)), NEW rows, IsList(rows), \A i \in DOMAIN rows : Sorts(sort, rows[i]),
           NEW i \in DOMAIN rows, NEW j \in DOMAIN rows, NEW k \in DOMAIN rows
    PROVE  /\ ~Precedes(rows, sort, i, i)
           /\ i # j => Precedes(rows, sort, i, j) \/ Precedes(rows, sort, j, i)
           /\ Precedes(rows, sort, i, j) => ~Before(rows[j], rows[i], sort, TRUE)
           /\ Precedes(rows, sort, i, j) /\ Precedes(rows, sort, j, k) => Precedes(rows, sort, i, k)
<1> DEFINE B(x, y) == Before(rows[x], rows[y], sort, TRUE)
           P(x, y) == Precedes(rows, sort, x, y)
<1>1. i \in Int /\ j \in Int /\ k \in Int
  BY DEF IsList
<1>2. \A x, y : P(x, y) <=> B(x, y) \/ (~B(y, x) /\ x < y)
  BY Zenon DEF Precedes
<1>3. ~(B(i, j) /\ B(j, i)) /\ ~(B(j, k) /\ B(k, j)) /\ ~(B(i, k) /\ B(k, i)) /\ ~B(i, i)
  BY BeforeOrAfter
<1>4. /\ ~B(j, i) /\ ~B(k, j) => ~B(k, i)
      /\ ~B(i, k) /\ ~B(j, i) => ~B(j, k)
      /\ ~B(k, j) /\ ~B(i, k) => ~B(i, j)
  BY NotAfter
<1> HIDE DEF B, P
<1>5. ~P(i, i)
  BY <1>1, <1>2, <1>3
<1>6. i # j => P(i, j) \/ P(j, i)
  BY <1>1, <1>2, <1>3
<1>7. P(i, j) => ~B(j, i)
  BY <1>2, <1>3
<1>8. P(i, j) /\ P(j, k) => P(i, k)
  <2> SUFFICES ASSUME P(i, j), P(j, k), ~B(i, k) PROVE P(i, k)
    BY <1>2
  <2>1. ~B(j, i) /\ ~B(k, j) /\ ~B(k, i)
    BY <1>2, <1>3, <1>4
  <2>2. ~B(j, k) /\ ~B(i, j)
    BY <1>4, <2>1
  <2>3. i < j /\ j < k
    BY <1>2, <2>2
  <2> QED
    BY <1>1, <1>2, <2>1, <2>3
<1> QED
  BY <1>5, <1>6, <1>7, <1>8 DEF B, P

(* It gives each row a place of its own, and of two the one that comes first the place
   before. *)
LEMMA PlacesAre ==
    ASSUME NEW sort, sort \in Seq(Range(sort)), NEW rows, IsList(rows), \A i \in DOMAIN rows : Sorts(sort, rows[i])
    PROVE  /\ [i \in 1 .. Len(rows) |-> Place(rows, sort, i)] \in Shuffles(Len(rows))
           /\ \A i, j \in 1 .. Len(rows) :
                Place(rows, sort, i) < Place(rows, sort, j) => ~Before(rows[j], rows[i], sort, TRUE)
<1> DEFINE n == Len(rows)
           Ahead(i) == {j \in DOMAIN rows : Precedes(rows, sort, j, i)}
           P(i, j) == Precedes(rows, sort, i, j)
<1>1. DOMAIN rows = 1 .. n /\ n \in Nat
  BY DEF IsList
<1>2. IsFiniteSet(1 .. n) /\ Cardinality(1 .. n) = n
  BY <1>1, CountTo
<1>3. \A i, j, k \in 1 .. n : /\ ~P(i, i)
                              /\ i # j => P(i, j) \/ P(j, i)
                              /\ P(i, j) => ~Before(rows[j], rows[i], sort, TRUE)
                              /\ P(i, j) /\ P(j, k) => P(i, k)
  BY <1>1, PrecedesIs
<1>4. \A i : Place(rows, sort, i) = Cardinality(Ahead(i)) + 1
  BY DEF Place
<1>5. \A i, j \in 1 .. n : j \in Ahead(i) <=> P(j, i)
  BY <1>1
<1>6. \A i : Ahead(i) \subseteq 1 .. n
  BY <1>1
<1> HIDE DEF n, Ahead, P
<1>7. ASSUME NEW i \in 1 .. n PROVE IsFiniteSet(Ahead(i)) /\ Cardinality(Ahead(i)) \in 0 .. n - 1
  <2> DEFINE U == Ahead(i)
             R == 1 .. n
  <2>1. i \notin U /\ U \subseteq R /\ i \in R
    BY <1>3, <1>5, <1>6, <1>7
  <2>2. IsFiniteSet(R) /\ Cardinality(R) = n
    BY <1>2
  <2> HIDE DEF U, R
  <2>3. IsFiniteSet(U) /\ Cardinality(U) <= Cardinality(R) /\ (Cardinality(U) = Cardinality(R) => U = R)
    BY <2>1, <2>2, FS_Subset
  <2>4. Cardinality(U) \in Nat
    BY <2>3, FS_CardinalityType
  <2>5. Cardinality(U) # n
    BY <2>1, <2>2, <2>3
  <2>6. IsFiniteSet(U) /\ Cardinality(U) \in 0 .. n - 1
    BY <1>1, <2>2, <2>3, <2>4, <2>5
  <2> QED
    BY <2>6 DEF U
<1>8. ASSUME NEW i \in 1 .. n, NEW j \in 1 .. n, P(i, j) PROVE Cardinality(Ahead(i)) < Cardinality(Ahead(j))
  <2> DEFINE U == Ahead(i)
             V == Ahead(j)
  <2>1. U \subseteq V /\ i \in V /\ i \notin U
    BY <1>3, <1>5, <1>6, <1>8
  <2>2. IsFiniteSet(V) /\ Cardinality(V) \in Nat /\ Cardinality(U) \in Nat
    BY <1>7
  <2> HIDE DEF U, V
  <2>3. Cardinality(U) <= Cardinality(V) /\ (Cardinality(U) = Cardinality(V) => U = V)
    BY <2>1, <2>2, FS_Subset
  <2>4. Cardinality(U) < Cardinality(V)
    BY <2>1, <2>2, <2>3
  <2> QED
    BY <2>4 DEF U, V
<1> DEFINE place == [i \in 1 .. n |-> Place(rows, sort, i)]
<1>9. ASSUME NEW i \in 1 .. n PROVE place[i] \in 1 .. n /\ place[i] = Cardinality(Ahead(i)) + 1
  <2>1. Cardinality(Ahead(i)) \in 0 .. n - 1
    BY <1>7
  <2>2. place[i] = Cardinality(Ahead(i)) + 1
    BY <1>4
  <2> HIDE DEF place
  <2> QED
    BY <1>1, <2>1, <2>2
<1>10. place \in [1 .. n -> 1 .. n]
  BY <1>9
<1>11. ASSUME NEW i \in 1 .. n, NEW j \in 1 .. n, P(i, j) PROVE place[i] < place[j]
  <2>1. /\ Cardinality(Ahead(i)) < Cardinality(Ahead(j))
        /\ Cardinality(Ahead(i)) \in 0 .. n - 1 /\ Cardinality(Ahead(j)) \in 0 .. n - 1
    BY <1>7, <1>8, <1>11
  <2>2. place[i] = Cardinality(Ahead(i)) + 1 /\ place[j] = Cardinality(Ahead(j)) + 1
    BY <1>9
  <2> QED
    BY <1>1, <2>1, <2>2
<1>12. \A i \in 1 .. n : place[i] = Place(rows, sort, i)
  OBVIOUS
<1> HIDE DEF place
<1>13. \A i \in 1 .. n : place[i] \in Int
  BY <1>9
<1>14. ASSUME NEW i \in 1 .. n, NEW j \in 1 .. n, i # j PROVE place[i] # place[j]
  <2>1. P(i, j) \/ P(j, i)
    BY <1>3, <1>14
  <2>2. place[i] < place[j] \/ place[j] < place[i]
    BY <1>11, <2>1
  <2> QED
    BY <1>13, <2>2
<1>15. place \in Shuffles(n)
  BY <1>10, <1>14 DEF Shuffles
<1>16. ASSUME NEW i \in 1 .. n, NEW j \in 1 .. n, place[i] < place[j] PROVE ~Before(rows[j], rows[i], sort, TRUE)
  <2>1. ~P(j, i)
    <3>1. P(j, i) => place[j] < place[i]
      BY <1>11
    <3> QED
      BY <1>13, <1>16, <3>1
  <2>2. i # j
    BY <1>13, <1>16
  <2>3. P(i, j)
    BY <1>3, <2>1, <2>2
  <2> QED
    BY <1>3, <2>3
<1>17. /\ place \in Shuffles(Len(rows))
       /\ \A i, j \in 1 .. Len(rows) : place[i] < place[j] => ~Before(rows[j], rows[i], sort, TRUE)
  BY <1>15, <1>16 DEF n
<1>18. place = [i \in 1 .. Len(rows) |-> Place(rows, sort, i)]
  BY DEF place, n
<1> QED
  BY <1>12, <1>17, <1>18 DEF n

(* A list in order has its rows in their places. *)
LEMMA PlacesInOrder ==
    ASSUME NEW sort, sort \in Seq(Range(sort)), NEW rows, IsList(rows), \A i \in DOMAIN rows : Sorts(sort, rows[i]),
           SortedHere(rows, sort), NEW i \in 1 .. Len(rows)
    PROVE  Place(rows, sort, i) = i
<1>1. DOMAIN rows = 1 .. Len(rows) /\ Len(rows) \in Nat
  BY DEF IsList
<1>2. \A j \in 1 .. Len(rows) : Precedes(rows, sort, j, i) <=> j < i
  <2> SUFFICES ASSUME NEW j \in 1 .. Len(rows) PROVE Precedes(rows, sort, j, i) <=> j < i
    OBVIOUS
  <2>1. j < i => ~Before(rows[i], rows[j], sort, TRUE)
    BY <1>1 DEF SortedHere
  <2>2. i < j => ~Before(rows[j], rows[i], sort, TRUE)
    BY <1>1 DEF SortedHere
  <2>3. Precedes(rows, sort, j, i) <=>
          Before(rows[j], rows[i], sort, TRUE) \/ (~Before(rows[i], rows[j], sort, TRUE) /\ j < i)
    BY Zenon DEF Precedes
  <2>4. i \in Int /\ j \in Int
    BY <1>1
  <2>5. ~Before(rows[i], rows[i], sort, TRUE)
    BY <1>1, BeforeOrAfter
  <2>6. CASE j < i
    BY <2>1, <2>3, <2>6
  <2>7. CASE i < j
    <3>1. ~(j < i)
      BY <2>4, <2>7
    <3> QED
      BY <2>2, <2>3, <2>7, <3>1
  <2>8. CASE i = j
    <3>1. ~(j < i)
      BY <2>4, <2>8
    <3> QED
      BY <2>3, <2>5, <2>8, <3>1
  <2> QED
    BY <2>4, <2>6, <2>7, <2>8
<1>3. {j \in DOMAIN rows : Precedes(rows, sort, j, i)} = 1 .. i - 1
  BY <1>1, <1>2
<1>4. Cardinality(1 .. i - 1) = i - 1
  <2>1. i - 1 \in Nat
    BY <1>1
  <2> QED
    BY <2>1, CountTo
<1>5. Place(rows, sort, i) = Cardinality(1 .. i - 1) + 1
  BY <1>3 DEF Place
<1> QED
  BY <1>1, <1>4, <1>5

(* A list that is sorted here has the same rows, in order; one in order is left alone. *)
LEMMA SortedIs ==
    ASSUME NEW sort, sort \in Seq(Range(sort)), sort # <<>>, NEW rows, IsList(rows),
           \A i \in DOMAIN rows : Sorts(sort, rows[i])
    PROVE  /\ Sorted(rows, sort) \in Arrangements(rows) /\ IsList(Sorted(rows, sort))
           /\ Len(Sorted(rows, sort)) = Len(rows)
           /\ SortedHere(Sorted(rows, sort), sort)
           /\ SortedHere(rows, sort) => Sorted(rows, sort) = rows
<1> DEFINE n == Len(rows)
           place == [i \in 1 .. n |-> Place(rows, sort, i)]
           inv == [k \in 1 .. n |-> CHOOSE i \in 1 .. n : place[i] = k]
           out == [k \in 1 .. n |-> rows[inv[k]]]
<1>1. DOMAIN rows = 1 .. n /\ n \in Nat /\ rows = [i \in 1 .. n |-> rows[i]]
  BY DEF IsList
<1>2. place \in Shuffles(n) /\ \A i, j \in 1 .. n : place[i] < place[j] => ~Before(rows[j], rows[i], sort, TRUE)
  <2>1. /\ place \in Shuffles(Len(rows))
        /\ \A i, j \in 1 .. Len(rows) :
                Place(rows, sort, i) < Place(rows, sort, j) => ~Before(rows[j], rows[i], sort, TRUE)
    BY PlacesAre
  <2>2. \A i \in 1 .. n : place[i] = Place(rows, sort, i)
    OBVIOUS
  <2> HIDE DEF place
  <2> QED
    BY <2>1, <2>2
<1>3. Sorted(rows, sort) = [k \in 1 .. n |-> rows[CHOOSE i \in 1 .. n : Place(rows, sort, i) = k]]
  BY <1>1 DEF Sorted
<1>4. \A k \in 1 .. n : (CHOOSE i \in 1 .. n : Place(rows, sort, i) = k) = inv[k]
  <2> SUFFICES ASSUME NEW k \in 1 .. n
               PROVE  (CHOOSE i \in 1 .. n : Place(rows, sort, i) = k) = (CHOOSE i \in 1 .. n : place[i] = k)
    OBVIOUS
  <2>1. \A i \in 1 .. n : Place(rows, sort, i) = place[i]
    OBVIOUS
  <2> HIDE DEF place
  <2> QED
    BY <2>1
<1>5. Sorted(rows, sort) = out
  <2> HIDE DEF inv
  <2> QED
    BY <1>3, <1>4
<1>6. \A i \in 1 .. n : place[i] = Place(rows, sort, i)
  OBVIOUS
<1> HIDE DEF place, n
<1>7. ASSUME NEW k \in 1 .. n PROVE inv[k] \in 1 .. n /\ place[inv[k]] = k
  <2>1. \E i \in 1 .. n : place[i] = k
    BY <1>1, <1>2, ShufflesAre
  <2> QED
    BY <2>1
<1>8. inv \in [1 .. n -> 1 .. n]
  BY <1>7
<1> HIDE DEF inv
<1>9. inv \in Shuffles(n)
  BY <1>7, <1>8 DEF Shuffles
<1>10. Moves(inv, rows, out)
  BY <1>9 DEF Moves, n
<1>11. out \in Arrangements(rows) /\ IsList(out) /\ Len(out) = n
  BY <1>10, ArrangementIs DEF n
<1>12. ASSUME NEW k \in DOMAIN out, NEW l \in DOMAIN out, k < l PROVE ~Before(out[l], out[k], sort, TRUE)
  <2>1. k \in 1 .. n /\ l \in 1 .. n /\ out[k] = rows[inv[k]] /\ out[l] = rows[inv[l]]
    OBVIOUS
  <2> HIDE DEF out
  <2>2. place[inv[k]] < place[inv[l]] /\ inv[k] \in 1 .. n /\ inv[l] \in 1 .. n
    BY <1>7, <1>12, <2>1
  <2> QED
    BY <1>2, <2>1, <2>2
<1>13. SortedHere(out, sort)
  BY <1>12 DEF SortedHere
<1>14. ASSUME SortedHere(rows, sort) PROVE out = rows
  <2>1. \A i \in 1 .. n : place[i] = i
    BY <1>6, <1>14, PlacesInOrder DEF n
  <2>2. \A k \in 1 .. n : inv[k] = k
    BY <1>7, <2>1
  <2> QED
    BY <1>1, <2>2
<1> HIDE DEF out
<1> QED
  BY <1>5, <1>11, <1>13, <1>14 DEF n

(* The first rows of a list. *)
LEMMA FirstsAre ==
    ASSUME NEW rows, IsList(rows), NEW f \in Nat, NEW l \in Nat, l <= Len(rows)
    PROVE  LET s == SubSeq(rows, f + 1, l) IN
           /\ IsList(s) /\ \A i \in DOMAIN s : f + i \in DOMAIN rows /\ s[i] = rows[f + i]
           /\ f = 0 => Len(s) = l
<1> DEFINE s == SubSeq(rows, f + 1, l)
<1>1. rows \in Seq(Range(rows)) /\ DOMAIN rows = 1 .. Len(rows) /\ Len(rows) \in Nat
  BY DEF IsList
<1>2. s \in Seq(Range(rows))
  BY <1>1
<1>3. \A i \in DOMAIN s : f + i \in DOMAIN rows /\ s[i] = rows[f + i]
  BY <1>1
<1>4. f = 0 => Len(s) = l
  BY <1>1
<1> HIDE DEF s
<1>5. IsList(s)
  BY <1>2, ListIs
<1> QED
  BY <1>3, <1>4, <1>5 DEF s

-----------------------------------------------------------------------------
(* What the upstream holds for the request, in the order it takes it in. *)
LEMMA OrderOfHeld ==
    ASSUME Requested, NEW rows \in Orders(Narrowed(Own(collection)))
    PROVE  /\ rows \in Arrangements(Narrowed(Own(collection)))
           /\ query.sort = <<>> => rows = Narrowed(Own(collection))
<1> DEFINE held == Narrowed(Own(collection))
<1>1. IsList(held)
  <2>1. held \in Seq(Range(collection))
    BY HeldAre
  <2> HIDE DEF held
  <2> QED
    BY <2>1, ListIs
<1>2. held \in Arrangements(held)
  <2> HIDE DEF held
  <2> QED
    BY <1>1, ArrangedAlike
<1> HIDE DEF held
<1>3. query.sort = <<>> => OrderingWritten(binding, params, query.sort) = Null
  <2>1. query.sort = <<>> => ~PushesOrdering
    BY DEF PushesOrdering, CanPushOrdering
  <2> QED
    BY <2>1, PushedIsWritten
<1> QED
  BY <1>2, <1>3 DEF Orders, held

(* The rows that are wanted, in the order they are held in and in the order they are
   served in. *)
LEMMA WantedRows ==
    ASSUME Requested, KeepsItsMeaning, NEW rows \in Orders(Narrowed(Own(collection)))
    PROVE  /\ Picked(rows, Wanted) \in Arrangements(Passing(Asked))
           /\ query.sort = <<>> => Picked(rows, Wanted) = Passing(Asked)
           /\ IsList(Passing(Asked)) /\ IsList(Picked(rows, Wanted))
           /\ Range(Picked(rows, Wanted)) \subseteq Range(collection)
<1> DEFINE held == Narrowed(Own(collection))
<1>1. held \in Seq(Range(collection)) /\ rows \in Seq(Range(collection)) /\ Range(rows) \subseteq Range(collection)
  BY HeldAre, OrderIs
<1>2. rows \in Arrangements(held) /\ (query.sort = <<>> => rows = held)
  BY OrderOfHeld
<1>3. Picked(held, Wanted) = Passing(Asked)
  BY HeldWanted
<1> HIDE DEF held
<1>4. IsList(held)
  BY <1>1, ListIs
<1>5. Picked(rows, Wanted) \in Arrangements(Picked(held, Wanted))
  BY <1>2, <1>4, PickedArranged
<1>6. /\ Picked(held, Wanted) \in Seq(Range(collection)) /\ Picked(rows, Wanted) \in Seq(Range(collection))
      /\ Range(Picked(rows, Wanted)) \subseteq Range(rows)
  BY <1>1, PickedIs
<1>7. IsList(Picked(held, Wanted)) /\ IsList(Picked(rows, Wanted))
  BY <1>6, ListIs
<1> QED
  BY <1>1, <1>2, <1>3, <1>5, <1>6, <1>7

(* Rows of the collection are sorted by numbers, which they may lack. *)
LEMMA SortsOf ==
    ASSUME Requested, NEW rows, Range(rows) \subseteq Range(collection)
    PROVE  \A i \in DOMAIN rows : Sorts(query.sort, rows[i])
<1> SUFFICES ASSUME NEW i \in DOMAIN rows PROVE Sorts(query.sort, rows[i])
  OBVIOUS
<1>1. rows[i] \in Range(collection)
  BY DEF Range
<1>2. PICK k \in DOMAIN collection : rows[i] = collection[k]
  BY <1>1 DEF Range
<1>3. Sortable(collection)
  BY RequestIs
<1> QED
  BY <1>2, <1>3 DEF Sortable, Sorts

(* The rows that are wanted are served in the order that was sent. *)
LEMMA WantedInOrder ==
    ASSUME Requested, NEW rows \in Orders(Narrowed(Own(collection))), PushesOrdering, obeys, ~query.group
    PROVE  Respects(Picked(rows, Wanted), query.sort)
<1> DEFINE v == Picked(rows, Wanted)
<1>1. rows \in Seq(Range(collection)) /\ Respects(rows, query.sort)
  BY OrderIs
<1>2. PICK at : Rises(at, v, rows, Wanted)
  BY <1>1, PickedRises
<1>3. v \in Seq(Range(collection))
  BY <1>1, PickedIs
<1> HIDE DEF v
<1>4. PICK last \in BOOLEAN : \A i, j \in DOMAIN rows :
        i < j /\ rows[i] # Hidden /\ rows[j] # Hidden => ~Before(rows[j], rows[i], query.sort, last)
  BY <1>1 DEF Respects
<1>5. DOMAIN v = 1 .. Len(v) /\ DOMAIN rows = 1 .. Len(rows)
  BY <1>1, <1>3
<1>6. ASSUME NEW i \in DOMAIN v, NEW j \in DOMAIN v, i < j PROVE ~Before(v[j], v[i], query.sort, last)
  <2>1. /\ at[i] \in DOMAIN rows /\ at[j] \in DOMAIN rows /\ at[i] < at[j]
        /\ v[i] = rows[at[i]] /\ v[j] = rows[at[j]] /\ rows[at[i]] \in Wanted /\ rows[at[j]] \in Wanted
    BY <1>2, <1>5, <1>6 DEF Rises
  <2>2. rows[at[i]] # Hidden /\ rows[at[j]] # Hidden
    BY <2>1 DEF Wanted
  <2> QED
    BY <1>4, <2>1, <2>2
<1>7. Respects(v, query.sort)
  BY <1>6 DEF Respects
<1> QED
  BY <1>7 DEF v

(* What an answer may be. *)
WholeAs(out) ==
    IF query.group \/ query.sort = <<>> THEN out = Applied(Asked)
    ELSE \E order \in Arrangements(Kept(Asked)) :
            /\ Respects(order, query.sort)
            /\ out \in Arrangements(Window(order))
            /\ \A i, j \in DOMAIN out : i < j => ~Before(out[j], out[i], query.sort, TRUE)

(* The window begins at a number of rows. *)
LEMMA FromIs == Requested => From \in Nat
  BY RequestIs DEF From

(* The window of a list is a list, of neighbours that were neighbours. *)
LEMMA WindowIs ==
    ASSUME Requested, NEW rows, IsList(rows)
    PROVE  /\ IsList(Window(rows))
           /\ SortedHere(rows, query.sort) => SortedHere(Window(rows), query.sort)
<1> DEFINE upTo == IF query.limit = Null THEN Len(rows) ELSE Min({Len(rows), From + query.limit})
           w == SubSeq(rows, From + 1, upTo)
<1>1. From \in Nat /\ Len(rows) \in Nat /\ query.limit \in (Nat \ {0}) \cup {Null}
  BY FromIs, RequestIs DEF IsList
<1>2. upTo \in Nat /\ upTo <= Len(rows)
  <2>1. CASE query.limit = Null
    BY <1>1, <2>1
  <2>2. CASE query.limit # Null
    <3>1. From + query.limit \in Nat
      BY <1>1, <2>2
    <3> QED
      BY <1>1, <2>2, <3>1, MinOf
  <2> QED
    BY <2>1, <2>2
<1>3. Window(rows) = w
  BY DEF Window
<1> HIDE DEF upTo
<1>4. IsList(w) /\ \A i \in DOMAIN w : From + i \in DOMAIN rows /\ w[i] = rows[From + i]
  BY <1>1, <1>2, FirstsAre
<1> HIDE DEF w
<1>5. ASSUME SortedHere(rows, query.sort), NEW i \in DOMAIN w, NEW j \in DOMAIN w, i < j
      PROVE  ~Before(w[j], w[i], query.sort, TRUE)
  <2>1. From + i < From + j
    BY <1>1, <1>4, <1>5 DEF IsList
  <2>2. From + i \in DOMAIN rows /\ w[i] = rows[From + i] /\ From + j \in DOMAIN rows /\ w[j] = rows[From + j]
    BY <1>4
  <2> QED
    BY <1>5, <2>1, <2>2 DEF SortedHere
<1> QED
  BY <1>3, <1>4, <1>5 DEF SortedHere

(* An answer of all the rows that are wanted, whatever order they came in. *)
LEMMA WholeOfAll ==
    ASSUME Requested, KeepsItsMeaning, NEW rows \in Orders(Narrowed(Own(collection))), ~query.group,
           NEW from, Passing(from) = Picked(rows, Wanted)
    PROVE  WholeAs(Applied(from))
<1> DEFINE v == Picked(rows, Wanted)
           s == query.sort
<1>1. v \in Arrangements(Passing(Asked)) /\ IsList(Passing(Asked)) /\ IsList(v)
      /\ Range(v) \subseteq Range(collection) /\ (s = <<>> => v = Passing(Asked))
  BY WantedRows
<1>2. Kept(from) = v /\ Kept(Asked) = Passing(Asked)
  BY KeptIs
<1> HIDE DEF v
<1>3. CASE s = <<>>
  <2>1. Kept(from) = Kept(Asked)
    BY <1>1, <1>2, <1>3
  <2> QED
    BY <1>3, <2>1 DEF WholeAs, Applied
<1>4. CASE s # <<>>
  <2> DEFINE order == Sorted(v, s)
  <2>1. \A i \in DOMAIN v : Sorts(s, v[i])
    BY <1>1, SortsOf
  <2>2. s \in Seq(Range(s))
    BY RequestIs
  <2>3. order \in Arrangements(v) /\ IsList(order) /\ SortedHere(order, s)
    BY <1>1, <1>4, <2>1, <2>2, SortedIs
  <2>4. Applied(from) = Window(order)
    BY <1>2 DEF Applied
  <2> HIDE DEF order
  <2>5. order \in Arrangements(Kept(Asked))
    BY <1>1, <1>2, <2>3, ArrangedTwice
  <2>6. Respects(order, s)
    BY <2>3 DEF SortedHere, Respects
  <2>7. IsList(Window(order)) /\ SortedHere(Window(order), s)
    BY <2>3, WindowIs
  <2>8. Window(order) \in Arrangements(Window(order))
    BY <2>7, ArrangedAlike
  <2> QED
    BY <1>4, <2>4, <2>5, <2>6, <2>7, <2>8 DEF WholeAs, SortedHere
<1> QED
  BY <1>3, <1>4

(* A page of rows that were narrowed by what is left here has only rows that are wanted,
   the first of them all. *)
LEMMA PageOfWanted ==
    ASSUME Requested, KeepsItsMeaning, NEW rows, PageOf(rows), ~marks.degraded, query.filter # Null => PushesFilter
    PROVE  /\ Passing(page) = page /\ IsList(page) /\ Range(page) \subseteq Range(collection)
           /\ Begins(page, Picked(rows, Wanted))
<1> DEFINE n == Min({Len(rows), PageSize})
           sub == SubSeq(rows, 1, n)
           T == Range(collection)
           own == Own(collection)
           held == Narrowed(own)
<1>1. rows \in Orders(held)
  BY DEF PageOf
<1>2. /\ own \in Seq(T) /\ held \in Seq(T) /\ rows \in Seq(T) /\ Range(rows) \subseteq T
      /\ rows \in Arrangements(held)
  BY <1>1, HeldAre, OrderIs, OrderOfHeld
<1>3. PageSize \in Nat /\ Len(rows) \in Nat
  BY <1>2, PageSizeIs
<1>4. n \in Nat /\ n <= Len(rows)
  BY <1>3, MinOf
<1>5. PICK served \in Spoiled(sub) : page = Visible(served)
  BY DEF PageOf
<1>6. Spoiled(sub) = {sub}
  <2>1. fault \notin FieldFault
    BY DEF PageOf
  <2> QED
    BY <2>1 DEF Spoiled
<1>7. page = Visible(sub)
  <2> HIDE DEF sub
  <2> QED
    BY <1>5, <1>6
<1>8. sub \in Seq(T) /\ Range(sub) \subseteq Range(rows)
  <2>1. sub \in Seq(T) /\ DOMAIN sub = 1 .. n /\ DOMAIN rows = 1 .. Len(rows) /\ \A i \in 1 .. n : sub[i] = rows[i]
    <3> HIDE DEF n
    <3> QED
      BY <1>2, <1>4
  <2> HIDE DEF sub, n
  <2> QED
    BY <1>3, <1>4, <2>1 DEF Range
<1>9. ASSUME NEW r \in Range(rows), r # Hidden PROVE r \in Wanted
  <2>1. r \in T
    BY <1>2
  <2>2. CASE query.filter = Null
    BY <1>9, <2>1, <2>2 DEF Wanted
  <2>3. CASE query.filter # Null
    <3> DEFINE sent == Rendered(binding.filter.dialect, query.filter)
               S == {x \in Range(own) : x = Hidden \/ Selects(sent, x)}
    <3>1. PushesFilter /\ held = Picked(own, S)
      BY <2>3, PushedIsWritten DEF Narrowed
    <3> HIDE DEF own
    <3>2. Range(held) \subseteq S
      <4> HIDE DEF S, held
      <4> QED
        BY <1>2, <3>1, PickedIs
    <3>3. Range(rows) \subseteq Range(held)
      <4>1. IsList(held)
        BY <1>2, ListIs
      <4> HIDE DEF held
      <4>2. IsList(rows) /\ Len(rows) = Len(held) /\ \A i \in 1 .. Len(rows) : \E j \in 1 .. Len(held) : rows[i] = held[j]
        BY <1>2, <4>1, ArrangementIs
      <4> QED
        BY <4>1, <4>2 DEF IsList, Range
    <3>4. r \in S
      BY <3>2, <3>3
    <3>5. Selects(sent, r)
      BY <1>9, <3>4
    <3>6. Evaluates(query.filter, r)
      BY <1>9, <2>1, <3>1, <3>5, FilterKeepsMeaning
    <3> QED
      BY <1>9, <2>1, <3>6 DEF Wanted
  <2> QED
    BY <2>2, <2>3
<1>10. Range(sub) \cap (Range(sub) \ {Hidden}) = Range(sub) \cap Wanted
  <2>1. Hidden \notin Wanted
    BY DEF Wanted
  <2> HIDE DEF sub
  <2> QED
    BY <1>8, <1>9, <2>1
<1>11. page = Picked(sub, Wanted)
  <2> HIDE DEF sub
  <2>1. Picked(sub, Range(sub) \ {Hidden}) = Picked(sub, Wanted)
    BY <1>8, <1>10, PickedSame
  <2> QED
    BY <1>7, <2>1 DEF Visible
<1>12. Passing(page) = Picked(sub, Wanted)
  <2> HIDE DEF sub
  <2> QED
    BY <1>2, <1>7, <1>8, PassingIs
<1>13. Begins(page, Picked(rows, Wanted))
  <2> HIDE DEF n
  <2> QED
    BY <1>2, <1>4, <1>11, PickedBegins
<1>14. page \in Seq(T) /\ Range(page) \subseteq Range(sub)
  <2> HIDE DEF sub
  <2> QED
    BY <1>8, <1>11, PickedIs
<1>15. IsList(page)
  BY <1>14, ListIs
<1> HIDE DEF sub
<1> QED
  BY <1>2, <1>8, <1>11, <1>12, <1>13, <1>14, <1>15

(* The window of a list that is longer than the limit is its first rows, those of any
   list that it begins. *)
LEMMA WindowOfTop ==
    ASSUME query.offset = Null, query.limit \in Nat, query.limit # Null, NEW a, IsList(a), query.limit <= Len(a)
    PROVE  /\ Window(a) = SubSeq(a, 1, query.limit)
           /\ \A b : IsList(b) /\ Begins(a, b) => Window(b) = Window(a)
<1>1. ASSUME NEW b, IsList(b), query.limit <= Len(b) PROVE Window(b) = SubSeq(b, 1, query.limit)
  <2>1. Len(b) \in Nat /\ From = 0 /\ From + 1 = 1 /\ From + query.limit = query.limit
    BY <1>1 DEF IsList, From
  <2>2. Min({Len(b), query.limit}) = query.limit
    <3>1. Min({Len(b), query.limit}) = IF Len(b) <= query.limit THEN Len(b) ELSE query.limit
      BY <2>1, MinOf
    <3> QED
      BY <1>1, <2>1, <3>1
  <2> QED
    BY <2>1, <2>2 DEF Window
<1>2. ASSUME NEW b, IsList(b), Begins(a, b) PROVE Window(b) = Window(a)
  <2>1. Len(a) \in Nat /\ Len(b) \in Nat /\ Len(a) <= Len(b) /\ \A i \in 1 .. Len(a) : a[i] = b[i]
    BY <1>2 DEF IsList, Begins
  <2>2. query.limit <= Len(b)
    BY <2>1
  <2>3. Window(b) = SubSeq(b, 1, query.limit) /\ Window(a) = SubSeq(a, 1, query.limit)
    BY <1>1, <1>2, <2>2
  <2>4. a \in Seq(Range(a)) /\ b \in Seq(Range(b))
    BY <1>2 DEF IsList
  <2>5. SubSeq(a, 1, query.limit) = SubSeq(b, 1, query.limit)
    BY <2>1, <2>2, <2>4
  <2> QED
    BY <2>3, <2>5
<1> QED
  BY <1>1, <1>2

(* An answer of the first rows, as many as were asked for. *)
LEMMA WholeOfTop ==
    ASSUME Requested, KeepsItsMeaning, obeys, NEW rows, PageOf(rows), ~marks.degraded, ~query.group,
           SentLimit # Null, Len(page) >= SentLimit,
           PushesOrdering => \/ Len(page) <= SentLimit
                             \/ \A i \in DOMAIN page : \A n \in DOMAIN query.sort :
                                    Field(page[i], query.sort[n].field) # Null
    PROVE  WholeAs(Applied(page))
<1> DEFINE v == Picked(rows, Wanted)
           s == query.sort
           limit == query.limit
<1>1. LimitBoundsFetch /\ SentLimit = limit
  BY DEF SentLimit
<1>2. /\ query.filter # Null => PushesFilter
      /\ s # <<>> => PushesOrdering
      /\ query.offset = Null
  BY <1>1 DEF LimitBoundsFetch
<1>3. Passing(page) = page /\ IsList(page) /\ Range(page) \subseteq Range(collection) /\ Begins(page, v)
  BY <1>2, PageOfWanted
<1>4. rows \in Orders(Narrowed(Own(collection)))
  BY DEF PageOf
<1>5. v \in Arrangements(Passing(Asked)) /\ IsList(v) /\ (s = <<>> => v = Passing(Asked))
  BY <1>4, WantedRows
<1>6. s # <<>> => Respects(v, s)
  BY <1>2, <1>4, WantedInOrder
<1> HIDE DEF v
<1>7. Kept(page) = page /\ Kept(Asked) = Passing(Asked)
  BY <1>3, KeptIs
<1>8. limit \in Nat \ {0} /\ limit # Null /\ limit <= Len(page) /\ Len(page) \in Nat
  <2>1. limit \in (Nat \ {0}) \cup {Null} /\ limit # Null
    BY <1>1, RequestIs
  <2> QED
    BY <1>1, <1>3, <2>1 DEF IsList
<1>9. Window(page) = SubSeq(page, 1, limit) /\ Window(v) = Window(page)
  BY <1>2, <1>3, <1>5, <1>8, WindowOfTop
<1>10. CASE s = <<>>
  <2>1. Applied(page) = Window(page) /\ Applied(Asked) = Window(Passing(Asked))
    BY <1>7, <1>10 DEF Applied, Sorted
  <2> QED
    BY <1>5, <1>9, <1>10, <2>1 DEF WholeAs
<1>11. CASE s # <<>>
  <2> DEFINE out == Sorted(page, s)
  <2>1. s \in Seq(Range(s)) /\ \A i \in DOMAIN page : Sorts(s, page[i])
    BY <1>3, RequestIs, SortsOf
  <2>2. /\ out \in Arrangements(page) /\ IsList(out) /\ Len(out) = Len(page) /\ SortedHere(out, s)
        /\ SortedHere(page, s) => out = page
    BY <1>3, <1>11, <2>1, SortedIs
  <2>3. Applied(page) = Window(out)
    BY <1>7 DEF Applied
  <2> HIDE DEF out
  <2>4. SortedHere(Window(out), s) /\ IsList(Window(out)) /\ IsList(Window(v))
    BY <1>5, <2>2, WindowIs
  <2>5. Window(out) \in Arrangements(Window(v))
    <3>1. CASE Len(page) <= limit
      <4>1. Len(page) = limit
        BY <1>8, <3>1
      <4>2. Window(out) = SubSeq(out, 1, limit)
        BY <1>2, <1>8, <2>2, <4>1, WindowOfTop
      <4>3. SubSeq(out, 1, limit) = out /\ SubSeq(page, 1, limit) = page
        BY <1>3, <2>2, <4>1 DEF IsList
      <4> QED
        BY <1>9, <2>2, <4>2, <4>3
    <3>2. CASE ~(Len(page) <= limit)
      <4>1. \A i \in DOMAIN page : \A n \in DOMAIN s : Field(page[i], s[n].field) # Null
        BY <1>1, <1>2, <1>11, <3>2
      <4>2. PICK last \in BOOLEAN : \A i, j \in DOMAIN v :
              i < j /\ v[i] # Hidden /\ v[j] # Hidden => ~Before(v[j], v[i], s, last)
        BY <1>6, <1>11 DEF Respects
      <4>3. ASSUME NEW i \in DOMAIN page, NEW j \in DOMAIN page, i < j PROVE ~Before(page[j], page[i], s, TRUE)
        <5>1. i \in DOMAIN v /\ j \in DOMAIN v /\ page[i] = v[i] /\ page[j] = v[j]
          BY <1>3, <1>5 DEF IsList, Begins
        <5>2. s # <<>> => 1 \in DOMAIN s
          BY <2>1
        <5>3. page[i] # Hidden /\ page[j] # Hidden
          BY <1>11, <4>1, <5>2 DEF Field
        <5>4. ~Before(page[j], page[i], s, last)
          BY <4>2, <4>3, <5>1, <5>3
        <5>5. \A n \in DOMAIN s : BeforeOn(page[j], page[i], s[n], TRUE) <=> BeforeOn(page[j], page[i], s[n], last)
          <6> SUFFICES ASSUME NEW n \in DOMAIN s
                       PROVE  BeforeOn(page[j], page[i], s[n], TRUE) <=> BeforeOn(page[j], page[i], s[n], last)
            OBVIOUS
          <6>1. Both(page[j], page[i], s[n].field)
            BY <4>1 DEF Both
          <6> QED
            BY <6>1 DEF BeforeOn
        <5> QED
          BY <5>4, <5>5 DEF Before
      <4>4. out = page
        BY <2>2, <4>3 DEF SortedHere
      <4> QED
        BY <1>9, <2>4, <4>4, ArrangedAlike
    <3> QED
      BY <3>1, <3>2
  <2>6. v \in Arrangements(Kept(Asked)) /\ Respects(v, s)
    BY <1>5, <1>6, <1>7, <1>11
  <2> QED
    BY <1>11, <2>3, <2>4, <2>5, <2>6 DEF WholeAs, SortedHere
<1> QED
  BY <1>10, <1>11

-----------------------------------------------------------------------------
(* What a page and an answer are judged by is of the request, which stays. *)
LEMMA Stays ==
    ASSUME UNCHANGED request
    PROVE  /\ Requested' = Requested
           /\ Own(collection)' = Own(collection) /\ Narrowed(Own(collection))' = Narrowed(Own(collection))
           /\ PageSize' = PageSize /\ SentLimit' = SentLimit /\ Tells' = Tells
           /\ KeepsItsMeaning' = KeepsItsMeaning /\ Asked' = Asked
<1>1. /\ query' = query /\ params' = params /\ collection' = collection /\ binding' = binding
      /\ cap' = cap /\ budget' = budget /\ obeys' = obeys /\ fault' = fault
  BY DEF request
<1>2. Requested' = Requested
  BY <1>1 DEF Requested, Validated
<1>3. Own(collection)' = Own(collection)
  BY <1>1 DEF Own
<1>4. Narrowed(Own(collection))' = Narrowed(Own(collection))
  BY <1>1, <1>3 DEF Narrowed
<1>5. SentLimit' = SentLimit
  BY <1>1 DEF SentLimit, LimitBoundsFetch, PushesFilter, PushesOrdering
<1>6. PageSize' = PageSize
  BY <1>1, <1>5 DEF PageSize
<1>7. Tells' = Tells
  BY <1>1 DEF Tells
<1>8. KeepsItsMeaning' = KeepsItsMeaning
  BY <1>1 DEF KeepsItsMeaning, PushesFilter, ReadsNoRelated
<1>9. Asked' = Asked
  BY <1>3 DEF Asked
<1> QED
  BY <1>2, <1>3, <1>4, <1>5, <1>6, <1>7, <1>8, <1>9

(* So is what the plan asks of all rows, and what the upstream may do to them. *)
LEMMA AppliedStays ==
    ASSUME UNCHANGED request
    PROVE  /\ Applied(Asked)' = Applied(Asked)
           /\ \A rows : Orders(rows)' = Orders(rows) /\ Spoiled(rows)' = Spoiled(rows)
<1>1. query' = query /\ params' = params /\ binding' = binding /\ obeys' = obeys /\ fault' = fault
  BY DEF request
<1>2. Asked' = Asked
  BY Stays
<1>3. Kept(Asked)' = Kept(Asked)
  BY <1>1, <1>2 DEF Kept
<1>4. Applied(Asked)' = Applied(Asked)
  BY <1>1, <1>3 DEF Applied, Window, From
<1>5. \A rows : Orders(rows)' = Orders(rows)
  BY <1>1 DEF Orders
<1>6. \A rows : Spoiled(rows)' = Spoiled(rows)
  BY <1>1 DEF Spoiled, FaultyField
<1> QED
  BY <1>4, <1>5, <1>6

(* So is what a whole answer is. *)
LEMMA WholeStays ==
    ASSUME UNCHANGED request
    PROVE  /\ WholeAnswer' <=> WholeAs(answer')
           /\ PushesOrdering' <=> PushesOrdering
<1>1. query' = query /\ binding' = binding
  BY DEF request
<1>2. Asked' = Asked /\ Applied(Asked)' = Applied(Asked)
  BY Stays, AppliedStays
<1>3. Kept(Asked)' = Kept(Asked)
  BY <1>1, <1>2 DEF Kept
<1>4. \A order : Window(order)' = Window(order)
  BY <1>1 DEF Window, From
<1>5. WholeAnswer' <=> WholeAs(answer')
  BY <1>1, <1>2, <1>3, <1>4 DEF WholeAnswer, WholeAs
<1> QED
  BY <1>1, <1>5 DEF PushesOrdering

(* What a query makes of a list is a list. *)
LEMMA GroupedIsList ==
    ASSUME NEW rows, IsList(rows)
    PROVE  IsList(Grouped(rows))
<1> DEFINE n == Cardinality(Leads(rows))
<1>1. n \in Nat
  <2>1. IsFiniteSet(1 .. Len(rows)) /\ Leads(rows) \subseteq 1 .. Len(rows)
    BY CountTo DEF IsList, Leads
  <2> QED
    BY <2>1, FS_Subset, FS_CardinalityType
<1>2. Grouped(rows) = [k \in 1 .. n |-> Grouped(rows)[k]]
  <2>1. \E f : Grouped(rows) = [k \in 1 .. n |-> f[k]]
    <3> DEFINE lead(k) == CHOOSE i \in Leads(rows) : Cardinality(Leads(rows) \cap 1 .. i) = k
               g == [k \in 1 .. n |->
                       [tag |-> rows[lead(k)].tag,
                        total |-> Cardinality({i \in DOMAIN rows : rows[i].tag = rows[lead(k)].tag})]]
    <3>1. Grouped(rows) = g
      BY DEF Grouped
    <3>2. g = [k \in 1 .. n |-> g[k]]
      OBVIOUS
    <3> HIDE DEF g
    <3> QED
      BY <3>1, <3>2
  <2>2. PICK f : Grouped(rows) = [k \in 1 .. n |-> f[k]]
    BY <2>1
  <2> QED
    BY <2>2
<1> HIDE DEF n
<1> QED
  BY <1>1, <1>2, ListOf

(* Filtered, grouped and sorted, a list of rows is a list. *)
LEMMA AppliedIsList ==
    ASSUME Requested, NEW rows, IsList(rows)
    PROVE  IsList(Applied(rows))
<1> DEFINE p == Passing(rows)
           k == Kept(rows)
           t == Sorted(k, query.sort)
<1>1. IsList(p)
  <2>1. CASE query.filter = Null
    BY <2>1 DEF Passing
  <2>2. CASE query.filter # Null
    <3>1. \E wanted : p = Picked(rows, wanted)
      BY <2>2 DEF Passing, Keeps
    <3> HIDE DEF p
    <3>2. PICK wanted : p = Picked(rows, wanted)
      BY <3>1
    <3> QED
      BY <3>2, PickedIs, ListIs DEF IsList
  <2> QED
    BY <2>1, <2>2
<1>2. IsList(k)
  BY <1>1, KeptIs, GroupedIsList
<1> HIDE DEF k, p
<1>3. IsList(t)
  <2>1. CASE query.sort = <<>>
    BY <1>2, <2>1 DEF Sorted
  <2>2. CASE query.sort # <<>>
    <3>1. \E f : t = [i \in 1 .. Len(k) |-> f[i]]
      <4> DEFINE g == [i \in DOMAIN k |-> k[CHOOSE j \in DOMAIN k : Place(k, query.sort, j) = i]]
      <4>1. t = g /\ DOMAIN k = 1 .. Len(k)
        BY <1>2, <2>2 DEF Sorted, IsList
      <4>2. g = [i \in 1 .. Len(k) |-> g[i]]
        BY <4>1
      <4> HIDE DEF g, t
      <4> QED
        BY <4>1, <4>2
    <3> HIDE DEF t
    <3>2. PICK f : t = [i \in 1 .. Len(k) |-> f[i]]
      BY <3>1
    <3>3. t = [i \in 1 .. Len(k) |-> t[i]] /\ Len(k) \in Nat
      BY <1>2, <3>2 DEF IsList
    <3> QED
      BY <3>3, ListOf
  <2> QED
    BY <2>1, <2>2
<1>4. Applied(rows) = Window(t)
  BY DEF Applied, k
<1> HIDE DEF t
<1> QED
  BY <1>3, <1>4, WindowIs

(* What is delivered of a page without a mark is what the query asks of everything. *)
LEMMA PageIsWhole ==
    ASSUME Requested, KeepsItsMeaning, Tells, obeys, NEW rows, PageOf(rows), ~marks.truncated, ~marks.degraded,
           PushesOrdering /\ marks.more =>
              \/ Len(page) <= SentLimit
              \/ \A i \in DOMAIN page : \A n \in DOMAIN query.sort : Field(page[i], query.sort[n].field) # Null
    PROVE  WholeAs(Applied(page))
<1>1. CASE query.group
  BY <1>1, GroupsExact DEF WholeAs
<1>2. CASE ~query.group /\ marks.more
  <2>1. SentLimit # Null /\ Len(page) >= SentLimit
    BY <1>2 DEF PageOf
  <2> QED
    BY <1>2, <2>1, WholeOfTop
<1>3. CASE ~query.group /\ ~marks.more
  <2>1. rows \in Orders(Narrowed(Own(collection)))
    BY DEF PageOf
  <2>2. rows \in Seq(Range(collection)) /\ Range(rows) \subseteq Range(collection)
    BY <2>1, OrderIs
  <2>3. page = Visible(rows)
    BY <1>3, <2>2, WholePage
  <2>4. Passing(page) = Picked(rows, Wanted)
    BY <2>2, <2>3, PassingIs
  <2> QED
    BY <1>3, <2>1, <2>4, WholeOfAll
<1> QED
  BY <1>1, <1>2, <1>3

(* The request stands; nothing is said before the end; what was fetched is a page; and
   what is said at the end is right. *)
AnsweredRight == AggregateExactOrRefused /\ ObedientIsAccepted /\ UnmarkedIsWhole
AnswerInv ==
    /\ Requested
    /\ stage \in {"asking", "fetched", "done"}
    /\ stage # "done" => outcome = Null
    /\ stage = "fetched" => \E rows : PageOf(rows)
    /\ stage = "done" => AnsweredRight

(* The invariant holds of a request that was just made. *)
LEMMA AnswerInitInv == AnswerInit => AnswerInv
<1> SUFFICES ASSUME AnswerInit PROVE AnswerInv
  OBVIOUS
<1>1. Requested
  BY DEF AnswerInit, Requested
<1> QED
  BY <1>1 DEF AnswerInit, AnswerInv

(* A refusal keeps it: nothing is claimed of a query that is refused. *)
LEMMA RefusedInv == AnswerInv /\ Refused => AnswerInv'
<1> SUFFICES ASSUME AnswerInv, Refused PROVE AnswerInv'
  OBVIOUS
<1>1. UNCHANGED request /\ stage' = "done" /\ outcome' = Refusal /\ Refusal # Null
  BY DEF Refused
<1>2. Refusal \notin {"rows", "ORDERING_NOT_APPLIED"}
  BY <1>1 DEF Refusal
<1>3. Requested'
  BY <1>1, Stays DEF AnswerInv
<1> QED
  BY <1>1, <1>2, <1>3 DEF AnswerInv, AnsweredRight, AggregateExactOrRefused, ObedientIsAccepted, UnmarkedIsWhole, ShownComplete

(* Fetching keeps it: what the upstream serves is a page of some order it may take. *)
LEMMA FetchInv == AnswerInv /\ Fetch => AnswerInv'
<1> SUFFICES ASSUME AnswerInv, Fetch PROVE AnswerInv'
  OBVIOUS
<1>1. UNCHANGED request /\ stage' = "fetched" /\ outcome' = outcome /\ outcome = Null
  BY DEF Fetch, AnswerInv
<1>2. PICK rows \in Orders(Narrowed(Own(collection))) :
        \E served \in Spoiled(SubSeq(rows, 1, Min({Len(rows), PageSize}))) :
          /\ page' = Visible(served)
          /\ marks' = [truncated |-> (Tells /\ Len(rows) > PageSize) /\ ~AskSatisfied,
                       more |-> Tells /\ Len(rows) > PageSize, narrowed |-> FALSE,
                       degraded |-> fault \in FieldFault]
  BY DEF Fetch
<1>3. PageOf(rows)'
  <2>1. /\ \E served \in Spoiled(SubSeq(rows, 1, Min({Len(rows), PageSize}))) : page' = Visible(served)
        /\ marks'.more <=> Tells /\ Len(rows) > PageSize
        /\ marks'.truncated <=> marks'.more /\ ~AskSatisfied
        /\ marks'.degraded <=> fault \in FieldFault
    <3>1. PICK served \in Spoiled(SubSeq(rows, 1, Min({Len(rows), PageSize}))) :
            /\ page' = Visible(served)
            /\ marks' = [truncated |-> (Tells /\ Len(rows) > PageSize) /\ ~AskSatisfied,
                         more |-> Tells /\ Len(rows) > PageSize, narrowed |-> FALSE,
                         degraded |-> fault \in FieldFault]
      BY <1>2
    <3>2. /\ marks'.more <=> Tells /\ Len(rows) > PageSize
          /\ marks'.truncated <=> (Tells /\ Len(rows) > PageSize) /\ ~AskSatisfied
          /\ marks'.degraded <=> fault \in FieldFault
      BY <3>1, Zenon
    <3> QED
      BY <3>1, <3>2
  <2>2. fault' = fault
    BY <1>1 DEF request
  <2> QED
    BY <1>1, <1>2, <2>1, <2>2, Stays, AppliedStays DEF PageOf, AskSatisfied
<1>4. Requested'
  BY <1>1, Stays DEF AnswerInv
<1> QED
  BY <1>1, <1>3, <1>4 DEF AnswerInv

(* The end establishes the rest of it: what is said of the page is right. *)
LEMMA FinishInv == AnswerInv /\ Finish => AnswerInv'
<1> SUFFICES ASSUME AnswerInv, Finish PROVE AnswerInv'
  OBVIOUS
<1>1. UNCHANGED request /\ UNCHANGED page /\ stage = "fetched" /\ stage' = "done" /\ Requested
  BY DEF Finish, AnswerInv
<1>2. PICK rows : PageOf(rows)
  BY <1>1 DEF AnswerInv
<1>3. query' = query /\ obeys' = obeys /\ budget' = budget
  BY <1>1 DEF request
<1>4. Requested'
  BY <1>1, Stays
<1>5. ObedientIsAccepted'
  <2> SUFFICES ASSUME obeys, outcome' = "ORDERING_NOT_APPLIED" PROVE FALSE
    BY <1>3 DEF ObedientIsAccepted
  <2>1. PushesOrdering /\ Misordered
    BY DEF Finish, Fail, Deliver
  <2> QED
    BY <1>1, <1>2, <2>1, ObedientPage
<1>6. AggregateExactOrRefused'
  <2> SUFFICES ASSUME outcome' = "rows", query.group, ~marks'.degraded, Tells, KeepsItsMeaning
               PROVE  answer' = SubSeq(Applied(Asked), 1, Min({Len(Applied(Asked)), budget}))
    BY <1>1, <1>3, Stays, AppliedStays DEF AggregateExactOrRefused
  <2>1. ~marks.truncated /\ Deliver(Applied(page), (marks.more \/ marks.truncated) /\ NarrowsBeyondFetch)
    BY DEF Finish, Fail
  <2>2. ~marks.degraded /\ answer' = SubSeq(Applied(page), 1, Min({Len(Applied(page)), budget}))
    BY <2>1 DEF Deliver
  <2> QED
    BY <1>1, <1>2, <2>1, <2>2, GroupsExact
<1>7. UnmarkedIsWhole'
  <2> SUFFICES ASSUME ShownComplete', SortFindsItSorted' PROVE WholeAnswer'
    BY DEF UnmarkedIsWhole
  <2>1. /\ outcome' = "rows" /\ ~marks'.truncated /\ ~marks'.degraded
        /\ obeys /\ Tells /\ KeepsItsMeaning
    BY <1>1, <1>3, Stays DEF ShownComplete
  <2>2. \E narrowed : Deliver(Applied(page), narrowed)
    BY <2>1, QueryAssumption DEF Finish, Fail, QueryAssumption
  <2> DEFINE out == Applied(page)
  <2>3. PICK narrowed : Deliver(out, narrowed)
    BY <2>2
  <2>4. IsList(page) /\ IsList(out)
    <3>1. page \in Seq(Range(page))
      BY <1>1, <1>2, PageIsList
    <3>2. IsList(page)
      BY <3>1, ListIs
    <3> QED
      BY <1>1, <3>2, AppliedIsList
  <2> HIDE DEF out
  <2>5. /\ answer' = SubSeq(out, 1, Min({Len(out), budget}))
        /\ marks'.truncated <=> marks.truncated \/ Len(out) > budget
        /\ marks'.more <=> marks.more \/ Len(out) > budget
        /\ marks'.degraded <=> marks.degraded
    <3>1. marks' = [truncated |-> marks.truncated \/ Len(out) > budget,
                    more |-> marks.more \/ Len(out) > budget, narrowed |-> narrowed,
                    degraded |-> marks.degraded]
      BY <2>3 DEF Deliver
    <3>2. /\ marks'.truncated <=> marks.truncated \/ Len(out) > budget
          /\ marks'.more <=> marks.more \/ Len(out) > budget
          /\ marks'.degraded <=> marks.degraded
      BY <3>1, Zenon
    <3> QED
      BY <2>3, <3>2 DEF Deliver
  <2>6. ~marks.truncated /\ ~marks.degraded /\ ~(Len(out) > budget) /\ (marks'.more <=> marks.more)
    BY <2>1, <2>5
  <2>7. answer' = out
    <3>1. Len(out) \in Nat /\ budget \in Nat /\ out \in Seq(Range(out))
      BY <1>1, <2>4, RequestIs DEF IsList
    <3>2. Min({Len(out), budget}) = Len(out)
      <4>1. Min({Len(out), budget}) = IF Len(out) <= budget THEN Len(out) ELSE budget
        BY <3>1, MinOf
      <4> QED
        BY <2>6, <3>1, <4>1
    <3>3. SubSeq(out, 1, Len(out)) = out
      BY <3>1
    <3> QED
      BY <2>5, <3>2, <3>3
  <2>8. PushesOrdering /\ marks.more =>
          \/ Len(page) <= SentLimit
          \/ \A i \in DOMAIN page : \A n \in DOMAIN query.sort : Field(page[i], query.sort[n].field) # Null
    BY <1>1, <1>3, <2>6, Stays, WholeStays DEF SortFindsItSorted
  <2>9. WholeAs(out)
    BY <1>1, <1>2, <2>1, <2>6, <2>8, PageIsWhole DEF out
  <2> QED
    BY <1>1, <2>7, <2>9, WholeStays
<1> QED
  BY <1>1, <1>4, <1>5, <1>6, <1>7 DEF AnswerInv, AnsweredRight

(* Every step keeps it. *)
LEMMA AnswerNextInv == AnswerInv /\ [AnswerNext]_answerVars => AnswerInv'
<1> SUFFICES ASSUME AnswerInv, [AnswerNext]_answerVars PROVE AnswerInv'
  OBVIOUS
<1>1. CASE UNCHANGED answerVars
  <2>1. UNCHANGED request /\ UNCHANGED <<stage, page, outcome, answer, marks>>
    BY <1>1 DEF answerVars, request
  <2>2. Requested' = Requested
    BY <2>1, Stays
  <2>3. \A rows : PageOf(rows) => PageOf(rows)'
    <3>1. fault' = fault
      BY <2>1 DEF request
    <3> QED
      BY <2>1, <3>1, Stays, AppliedStays DEF PageOf
  <2>4. AggregateExactOrRefused' = AggregateExactOrRefused /\ ObedientIsAccepted' = ObedientIsAccepted
    <3>1. query' = query /\ obeys' = obeys /\ budget' = budget
      BY <2>1 DEF request
    <3> QED
      BY <2>1, <3>1, Stays, AppliedStays DEF AggregateExactOrRefused, ObedientIsAccepted
  <2>5. UnmarkedIsWhole' <=> UnmarkedIsWhole
    <3>1. query' = query /\ obeys' = obeys
      BY <2>1 DEF request
    <3>2. WholeAnswer' <=> WholeAnswer
      <4>1. WholeAs(answer) <=> WholeAnswer
        BY DEF WholeAs, WholeAnswer
      <4> QED
        BY <2>1, <4>1, WholeStays
    <3>3. ShownComplete' <=> ShownComplete
      BY <2>1, <3>1, Stays DEF ShownComplete
    <3>4. SortFindsItSorted' <=> SortFindsItSorted
      BY <2>1, <3>1, Stays, WholeStays DEF SortFindsItSorted
    <3> QED
      BY <3>2, <3>3, <3>4 DEF UnmarkedIsWhole
  <2> QED
    BY <2>1, <2>2, <2>3, <2>4, <2>5 DEF AnswerInv, AnsweredRight
<1> QED
  BY <1>1, RefusedInv, FetchInv, FinishInv DEF AnswerNext

(* The groups of an aggregating query, and their counts, are those of the whole
   collection, cut at most by the row budget, or the query is refused: whatever the page
   size cap, the filter that was pushed or kept and the ordering, for every upstream that
   says whether another page follows. *)
THEOREM GroupsAlwaysExact == AnswerSpec => []AggregateExactOrRefused
<1>1. AnswerInv => AggregateExactOrRefused
  BY QueryAssumption DEF AnswerInv, AnsweredRight, AggregateExactOrRefused, QueryAssumption
<1> QED
  BY <1>1, AnswerInitInv, AnswerNextInv, PTL DEF AnswerSpec

(* An upstream that applied the ordering it was sent is never refused for not applying
   it: the check on its page compares only rows that have the field, so where the upstream
   puts the others, and which rows were null, never tells against it. *)
THEOREM ObedientAlwaysAccepted == AnswerSpec => []ObedientIsAccepted
<1>1. AnswerInv => ObedientIsAccepted
  BY QueryAssumption DEF AnswerInv, AnsweredRight, ObedientIsAccepted, QueryAssumption
<1> QED
  BY <1>1, AnswerInitInv, AnswerNextInv, PTL DEF AnswerSpec

(* What is shown without a mark is the answer over the whole collection, filtered,
   ordered and cut as the plan asks, although one page was all that was read: a page that
   may lack rows is marked or refused, or it holds the top of the ordering that was
   applied upstream. *)
THEOREM UnmarkedAlwaysWhole == AnswerSpec => []UnmarkedIsWhole
<1>1. AnswerInv => UnmarkedIsWhole
  BY QueryAssumption DEF AnswerInv, AnsweredRight, UnmarkedIsWhole, ShownComplete, QueryAssumption
<1> QED
  BY <1>1, AnswerInitInv, AnswerNextInv, PTL DEF AnswerSpec

=============================================================================
