--------------------------- MODULE ClientComposeProofs ---------------------------
(***************************************************************************)
(* Proofs about ClientCompose, for panels and orders of any number and a   *)
(* visitor who does any number of things.  The inductive invariant is      *)
(* Steady: a write that still counts is of the view on screen, and a       *)
(* screen that differs from its plan has an excuse.                        *)
(***************************************************************************)
EXTENDS ClientCompose, SequenceTheorems, TLAPS

(* The write whose answer will be taken, and the stream between its plan and its view. *)
Live == write # Nothing /\ Current
Half == op # Nothing /\ Torn
Replacing == Of("compose") \/ Of("reopen")

Views == Seq(Panel)
PlanRecord == [panels : Views, root : Nat]
Operations(arg) ==
    [kind : {"compose", "refine", "save", "reopen"}, plan : Nat, arg : {arg}, heard : Nat,
     drawn : BOOLEAN]

(* Types; and every id in hand is of a plan the server has. *)
Listed ==
    plans \in Seq(PlanRecord) /\ screen \in Views /\ target \in Views \cup {Nothing}
Known ==
    /\ Listed
    /\ planId \in 0 .. Len(plans) /\ kept \subseteq Ids /\ generation \in Nat /\ acts \in Nat
    /\ op # Nothing =>
         /\ op \in Operations(op.arg) /\ op.plan \in 0 .. Len(plans) /\ op.heard \in 0 .. Len(plans)
         /\ op.kind = "compose" => op.arg = Nothing
         /\ op.kind # "compose" => op.plan # 0 /\ op.heard = 0
         /\ op.drawn => op.heard # 0
    /\ write # Nothing =>
         /\ write.order \in Views /\ write.plan \in Ids
         /\ write.generation \in Nat /\ write.generation <= generation

(* What is in flight is of the view on screen, unless it replaces that view, and then
   nothing else counts. *)
Followed ==
    /\ Of("compose") /\ op.heard # 0 => planId = op.heard
    /\ Of("refine") => RootOf(op.plan) = RootOf(planId) /\ planId # 0
    /\ Live => RootOf(write.plan) = RootOf(planId) /\ target # Nothing
    /\ target # Nothing => planId # 0
    /\ Replacing => target = Nothing /\ serverOrder = Nothing /\ ~Live

(* The screen and its plan, and the order the server is taken to have. *)
Agreed ==
    /\ planId = 0 => screen = <<>>
    /\ ~Half /\ "torn" \notin excuses /\ planId # 0 => SetOf(screen) = SetOf(plans[planId].panels)
    /\ ~Half /\ excuses = {} /\ target = Nothing /\ planId # 0 => screen = plans[planId].panels
    /\ excuses = {} /\ serverOrder # Nothing => planId # 0 /\ serverOrder = plans[planId].panels
    /\ excuses = {} /\ target # Nothing => serverOrder # Nothing
    /\ excuses = {} /\ target # Nothing /\ serverOrder = target => screen = target

Steady == Known /\ Followed /\ Agreed

-----------------------------------------------------------------------------
LEMMA PlanAt ==
    ASSUME Listed
    PROVE  /\ Len(plans) \in Nat
           /\ \A i \in Ids : plans[i] \in PlanRecord /\ plans[i].panels \in Views /\ plans[i].root \in Nat
<1>1. Len(plans) \in Nat /\ \A i \in Ids : plans[i] \in PlanRecord
  BY LenProperties, ElementOfSeq DEF Listed, Ids
<1> QED BY <1>1 DEF PlanRecord

LEMMA Minted ==
    ASSUME plans \in Seq(PlanRecord), NEW plan \in PlanRecord, plans' = Append(plans, plan)
    PROVE  /\ plans' \in Seq(PlanRecord) /\ Len(plans) \in Nat /\ Len(plans') = Len(plans) + 1
           /\ \A i \in Ids : plans'[i] = plans[i]
           /\ plans'[Len(plans) + 1] = plan
  BY AppendProperties, LenProperties DEF Ids

LEMMA WithoutIsView ==
    ASSUME NEW s \in Views, NEW panel \in SetOf(s)
    PROVE  Without(s, panel) \in Views
<1> DEFINE at == CHOOSE i \in 1 .. Len(s) : s[i] = panel
<1>1. at \in 1 .. Len(s)
  BY DEF SetOf
<1>2. Len(s) \in Nat /\ \A i \in 1 .. Len(s) : s[i] \in Panel
  BY LenProperties, ElementOfSeq DEF Views
<1>3. at - 1 \in Int /\ at + 1 \in Int /\ at \in Int
  BY <1>1, <1>2
<1> HIDE DEF at
<1>4. /\ \A i \in 1 .. at - 1 : s[i] \in Panel
      /\ \A i \in at + 1 .. Len(s) : s[i] \in Panel
  BY <1>1, <1>2, <1>3
<1>5. SubSeq(s, 1, at - 1) \in Seq(Panel)
  BY <1>3, <1>4, SubSeqProperties
<1>6. SubSeq(s, at + 1, Len(s)) \in Seq(Panel)
  BY <1>2, <1>3, <1>4, SubSeqProperties
<1>7. Without(s, panel) = SubSeq(s, 1, at - 1) \o SubSeq(s, at + 1, Len(s))
  BY DEF Without, at
<1> QED BY <1>5, <1>6, <1>7, ConcatProperties DEF Views

LEMMA OrderIsView == Orders \subseteq Views /\ Nothing \notin Views
<1>1. ASSUME NEW s \in Orders PROVE s \in Seq(Panel)
  <2>1. PICK n \in 0 .. Cardinality(Panel) : s \in [1 .. n -> Panel]
    BY DEF Orders
  <2> QED BY <2>1
<1> QED BY <1>1, ClientComposeAssumption DEF Views

LEMMA ArrangedIsView ==
    ASSUME NEW panels \in Views, NEW order PROVE Arranged(panels, order) \in Views
  BY OrderIsView DEF Arranged, Rearrangements

LEMMA ArrangedIsSame == \A panels, order : SetOf(Arranged(panels, order)) = SetOf(panels)
  BY DEF Arranged, Rearrangements

LEMMA SteadyInit == SessionInit => Steady
<1> SUFFICES ASSUME SessionInit PROVE Steady
  OBVIOUS
<1>1. Listed /\ Len(plans) = 0
  BY EmptySeq DEF SessionInit, Listed, Views
<1>2. Known
  BY <1>1 DEF SessionInit, Known
<1>3. Followed /\ Agreed
  BY DEF SessionInit, Followed, Agreed, Live, Replacing, Of
<1> QED BY <1>2, <1>3 DEF Steady

-----------------------------------------------------------------------------
(* What the visitor does. *)
LEMMA SubmitKeeps == ASSUME Steady, NEW revise \in BOOLEAN, Submit(revise) PROVE Steady'
<1>1. Len(plans) \in Nat /\ Listed'
  BY PlanAt DEF Steady, Known, Submit, Listed, ClearPendingReorder
<1>2. Known'
  BY <1>1 DEF Steady, Known, Submit, Start, Act, Operation, Operations, ClearPendingReorder, Ids
<1>3. Followed'
  BY <1>1 DEF Steady, Known, Followed, Submit, Start, Operation, ClearPendingReorder, Of, Live,
     Current, Replacing
<1>4. Agreed'
  BY <1>1 DEF Steady, Known, Agreed, Submit, Start, Operation, ClearPendingReorder, Abandon, Half, Torn,
     Unstreamed
<1> QED BY <1>2, <1>3, <1>4 DEF Steady

LEMMA RefineKeeps ==
    ASSUME Steady, NEW panel \in SetOf(screen) \cup {Nothing}, Refine(panel)
    PROVE  Steady'
<1>1. Len(plans) \in Nat /\ Listed'
  BY PlanAt DEF Steady, Known, Refine, Listed, reorder
<1>2. Known'
  BY <1>1 DEF Steady, Known, Refine, Start, Act, Operation, Operations, reorder, Ids
<1>3. Followed'
  BY <1>1 DEF Steady, Known, Followed, Refine, Start, Operation, reorder, Of, Live, Current,
     Replacing, RootOf
<1>4. Agreed'
  BY <1>1 DEF Steady, Known, Agreed, Refine, Start, Operation, reorder, Half, Torn, Unstreamed
<1> QED BY <1>2, <1>3, <1>4 DEF Steady

LEMMA SaveKeeps == ASSUME Steady, Save PROVE Steady'
<1>1. Len(plans) \in Nat /\ Listed'
  BY PlanAt DEF Steady, Known, Save, Listed, reorder
<1>2. Known'
  BY <1>1 DEF Steady, Known, Save, Start, Act, Operation, Operations, reorder, Ids
<1>3. Followed'
  BY <1>1 DEF Steady, Known, Followed, Save, Start, Operation, reorder, Of, Live, Current,
     Replacing, RootOf
<1>4. Agreed'
  BY <1>1 DEF Steady, Known, Agreed, Save, Start, Operation, reorder, Half, Torn, Unstreamed
<1> QED BY <1>2, <1>3, <1>4 DEF Steady

LEMMA ReopenKeeps == ASSUME Steady, NEW view \in kept, Reopen(view) PROVE Steady'
<1>1. Len(plans) \in Nat /\ Listed' /\ view \in Ids
  BY PlanAt DEF Steady, Known, Reopen, Listed, ClearPendingReorder
<1>2. Known'
  BY <1>1 DEF Steady, Known, Reopen, Start, Act, Operation, Operations, ClearPendingReorder, Ids
<1>3. Followed'
  BY <1>1 DEF Steady, Known, Followed, Reopen, Start, Operation, ClearPendingReorder, Of, Live,
     Current, Replacing
<1>4. Agreed'
  BY <1>1 DEF Steady, Known, Agreed, Reopen, Start, Operation, ClearPendingReorder, Abandon, Half, Torn,
     Unstreamed
<1> QED BY <1>2, <1>3, <1>4 DEF Steady

LEMMA ResetKeeps == ASSUME Steady, Reset PROVE Steady'
<1>1. Len(plans) \in Nat /\ Listed'
  BY PlanAt, EmptySeq DEF Steady, Known, Reset, Listed, ClearPendingReorder, Show, Views
<1>2. Known'
  BY <1>1 DEF Steady, Known, Reset, Act, Show, ClearPendingReorder, Ids
<1>3. Followed'
  BY <1>1 DEF Steady, Known, Followed, Reset, Show, ClearPendingReorder, Of, Live, Current, Replacing
<1>4. Agreed'
  BY <1>1 DEF Steady, Agreed, Reset, Show, ClearPendingReorder
<1> QED BY <1>2, <1>3, <1>4 DEF Steady

LEMMA ReorderPanelsKeeps ==
    ASSUME Steady, NEW order \in Rearrangements(screen), ReorderPanels(order)
    PROVE  Steady'
<1>1. Len(plans) \in Nat /\ Listed'
  BY PlanAt, OrderIsView DEF Steady, Known, ReorderPanels, Listed, Rearrangements
<1>2. order # Nothing /\ SetOf(order) = SetOf(screen)
  BY OrderIsView DEF Rearrangements
<1>3. planId # 0
  BY EmptySeq DEF Steady, Agreed, ReorderPanels
<1>4. Known'
  BY <1>1 DEF Steady, Known, ReorderPanels, Act, Ids
<1>5. Followed'
  BY <1>1, <1>2, <1>3 DEF Steady, Known, Followed, ReorderPanels, Of, Live, Current, Replacing, RootOf
<1>6. Agreed'
  <2>1. /\ screen' = order /\ target' = order /\ op = Nothing /\ op' = Nothing
        /\ UNCHANGED <<plans, planId, excuses>>
        /\ serverOrder' = IF serverOrder = Nothing THEN screen ELSE serverOrder
    BY DEF ReorderPanels
  <2>2. "torn" \notin excuses => SetOf(order) = SetOf(plans[planId].panels)
    BY <1>2, <1>3, <2>1 DEF Steady, Agreed, Half
  <2>3. excuses = {} => serverOrder' = plans[planId].panels /\ serverOrder' # Nothing
    BY <1>3, <2>1, OrderIsView DEF Steady, Known, Listed, Agreed, Half
  <2> QED BY <1>2, <1>3, <2>1, <2>2, <2>3 DEF Agreed
<1> QED BY <1>4, <1>5, <1>6 DEF Steady

-----------------------------------------------------------------------------
(* How an operation is answered. *)
LEMMA StreamPlannedKeeps == ASSUME Steady, StreamPlanned PROVE Steady' /\ op' # op
<1>1. /\ Len(plans) \in Nat /\ op # Nothing /\ op.kind = "compose" /\ op.heard = 0
      /\ op \in Operations(Nothing) /\ op.plan \in 0 .. Len(plans) /\ Listed
      /\ UNCHANGED <<screen, target>>
  BY PlanAt DEF Steady, Known, StreamPlanned, Of, Unstreamed, reorder
<1>2. PICK heard \in Nat \ {0} :
         /\ op' = [op EXCEPT !.heard = heard] /\ planId' = heard /\ heard <= Len(plans')
         /\ Listed' /\ Len(plans') \in Nat /\ Len(plans) <= Len(plans')
         /\ \A i \in Ids : plans'[i] = plans[i]
  <2>1. CASE /\ plans' = plans /\ op.plan # 0
             /\ op' = [op EXCEPT !.heard = op.plan] /\ planId' = op.plan
    BY <1>1, <2>1 DEF Listed
  <2>2. ASSUME NEW plan \in PlanRecord, plans' = Append(plans, plan),
               op' = [op EXCEPT !.heard = NextId], planId' = NextId
        PROVE  /\ NextId \in Nat \ {0} /\ NextId <= Len(plans')
               /\ Listed' /\ Len(plans') \in Nat /\ Len(plans) <= Len(plans')
               /\ \A i \in Ids : plans'[i] = plans[i]
    <3>1. /\ plans' \in Seq(PlanRecord) /\ Len(plans') = Len(plans) + 1
          /\ \A i \in Ids : plans'[i] = plans[i]
      BY <1>1, <2>2, Minted DEF Listed
    <3> QED BY <1>1, <3>1 DEF NextId, Listed
  <2>3. CASE \E panels \in Composed : MintFresh(panels) /\ op' = [op EXCEPT !.heard = NextId] /\ planId' = NextId
    <3>1. PICK panels \in Composed : MintFresh(panels)
      BY <2>3
    <3>2. [panels |-> panels, root |-> NextId] \in PlanRecord
      BY <1>1, ClientComposeAssumption DEF PlanRecord, Views, NextId
    <3> QED BY <2>2, <2>3, <3>1, <3>2 DEF MintFresh
  <2>4. CASE /\ op.plan # 0
             /\ \E panels \in Composed : MintFrom(op.plan, panels)
             /\ op' = [op EXCEPT !.heard = NextId] /\ planId' = NextId
    <3>1. PICK panels \in Composed : MintFrom(op.plan, panels)
      BY <2>4
    <3>2. [panels |-> panels, root |-> plans[op.plan].root] \in PlanRecord
      BY <1>1, <2>4, PlanAt, ClientComposeAssumption DEF PlanRecord, Views, Ids
    <3> QED BY <2>2, <2>4, <3>1, <3>2 DEF MintFrom
  <2> QED BY <2>1, <2>3, <2>4 DEF StreamPlanned
<1>3. /\ op' \in Operations(Nothing) /\ op'.kind = "compose" /\ op'.heard = heard /\ op'.arg = Nothing
      /\ op'.plan = op.plan /\ op'.drawn = op.drawn
  BY <1>1, <1>2 DEF Operations
<1>4. op' # Nothing
  BY <1>3, ClientComposeAssumption DEF Operations
<1>5. UNCHANGED <<kept, screen, target, serverOrder, write, generation, acts, excuses>>
  BY DEF StreamPlanned, reorder
<1>6. Known'
  BY <1>1, <1>2, <1>3, <1>5 DEF Steady, Known, Ids, Operations
<1>7. Followed'
  BY <1>1, <1>2, <1>3, <1>4, <1>5 DEF Steady, Followed, Of, Live, Current, Replacing
<1>8. Agreed'
  <2>1. target = Nothing /\ serverOrder = Nothing
    BY <1>1 DEF Steady, Followed, Replacing, Of
  <2>2. ~op.drawn
    BY <1>1 DEF Steady, Known
  <2> QED BY <1>1, <1>2, <1>3, <1>4, <1>5, <2>1, <2>2 DEF Steady, Agreed, Half, Torn, Unstreamed
<1> QED BY <1>1, <1>2, <1>3, <1>6, <1>7, <1>8 DEF Steady

LEMMA StreamDrawnKeeps == ASSUME Steady, StreamDrawn PROVE Steady' /\ planId' = planId
<1>1. /\ Len(plans) \in Nat /\ op # Nothing /\ op.kind = "compose" /\ op.heard \in Ids
      /\ op \in Operations(Nothing) /\ op.plan \in 0 .. Len(plans) /\ Listed
      /\ op.heard = planId /\ target = Nothing /\ serverOrder = Nothing /\ ~Live
      /\ plans[op.heard].panels \in Views
  BY PlanAt DEF Steady, Known, Followed, StreamDrawn, Of, Unstreamed, Ids, Replacing, Operations
<1>2. /\ op' \in Operations(Nothing) /\ op'.kind = "compose" /\ op'.heard = op.heard /\ op'.arg = Nothing
      /\ op'.plan = op.plan /\ op'.drawn = TRUE
  BY <1>1 DEF Operations, StreamDrawn
<1>3. /\ planId' = op.heard /\ screen' = plans[op.heard].panels /\ excuses' = {}
      /\ UNCHANGED <<plans, kept, target, serverOrder, write, generation, acts>>
  BY DEF StreamDrawn, Show, reorder
<1>4. Known'
  BY <1>1, <1>2, <1>3 DEF Steady, Known, Listed, Ids
<1>5. Followed'
  BY <1>1, <1>2, <1>3 DEF Steady, Followed, Of, Live, Current, Replacing
<1>6. Agreed'
  BY <1>1, <1>2, <1>3 DEF Steady, Agreed, Ids
<1> QED BY <1>1, <1>3, <1>4, <1>5, <1>6 DEF Steady

(* An end that shows nothing new. *)
LEMMA ReleaseKeeps ==
    ASSUME Steady, Release, ~Half \/ "torn" \in excuses', excuses \subseteq excuses',
           UNCHANGED <<plans, screen, planId, reorder, acts>>, kept' \subseteq Ids
    PROVE  Steady'
<1>1. Known'
  BY DEF Steady, Known, Listed, Release, reorder, Ids
<1>2. Followed'
  BY DEF Steady, Followed, Of, Live, Current, Replacing, Release, reorder, RootOf
<1>3. Agreed'
  BY DEF Steady, Agreed, Half, Release, reorder
<1> QED BY <1>1, <1>2, <1>3 DEF Steady

LEMMA StreamFinishedKeeps == ASSUME Steady, StreamFinished PROVE Steady'
  BY ReleaseKeeps DEF StreamFinished, Half, Torn, Steady, Known

LEMMA FailKeeps == ASSUME Steady, Fail PROVE Steady'
  BY ReleaseKeeps DEF Fail, Half, Steady, Known

LEMMA SaveAnsweredKeeps == ASSUME Steady, SaveAnswered PROVE Steady'
<1>1. op.plan \in Ids /\ op.heard = 0
  BY PlanAt DEF Steady, Known, SaveAnswered, Of, Ids
<1> QED BY <1>1, ReleaseKeeps DEF SaveAnswered, Half, Torn, Unstreamed, Steady, Known

(* An end that shows a plan of the server, of whatever view. *)
LEMMA ReplaceKeeps ==
    ASSUME Steady, Release, Replacing, Listed', Len(plans) \in Nat, Len(plans') \in Nat,
           Len(plans) <= Len(plans'), \A i \in Ids : plans'[i] = plans[i],
           NEW id \in 1 .. Len(plans'), Show(id, plans'[id].panels),
           UNCHANGED <<kept, reorder, acts>>
    PROVE  Steady'
<1>1. target = Nothing /\ serverOrder = Nothing /\ ~Live
  BY DEF Steady, Followed
<1>2. Known'
  BY DEF Steady, Known, Ids, Release, Show, reorder
<1>3. Followed'
  BY <1>1 DEF Followed, Of, Live, Current, Replacing, Release, reorder
<1>4. Agreed'
  BY <1>1 DEF Agreed, Show, reorder
<1> QED BY <1>2, <1>3, <1>4 DEF Steady

LEMMA ReopenAnsweredKeeps == ASSUME Steady, ReopenAnswered PROVE Steady'
<1>1. Len(plans) \in Nat /\ op.plan \in 1 .. Len(plans) /\ plans[op.plan].panels \in Views
  BY PlanAt DEF Steady, Known, ReopenAnswered, Of, Ids
<1>2. Listed' /\ plans' = plans /\ Replacing
  BY <1>1 DEF ReopenAnswered, Show, Steady, Known, Listed, Replacing, reorder
<1> QED BY <1>1, <1>2, ReplaceKeeps DEF ReopenAnswered

LEMMA BatchAnsweredKeeps == ASSUME Steady, BatchAnswered PROVE Steady'
<1>1. /\ Len(plans) \in Nat /\ Listed /\ op.plan \in 0 .. Len(plans) /\ Replacing
      /\ UNCHANGED target
  BY PlanAt DEF Steady, Known, BatchAnswered, Of, Replacing, reorder
<1>2. CASE op.plan # 0 /\ Show(op.plan, plans[op.plan].panels) /\ UNCHANGED plans
  <2>1. op.plan \in 1 .. Len(plans) /\ plans[op.plan].panels \in Views
    BY <1>1, <1>2, PlanAt DEF Ids
  <2>2. Listed'
    BY <1>1, <1>2, <2>1 DEF Listed, Show
  <2> QED BY <1>1, <1>2, <2>1, <2>2, ReplaceKeeps DEF BatchAnswered
<1>3. ASSUME NEW panels \in Composed,
             IF op.plan = 0 THEN MintFresh(panels) ELSE MintFrom(op.plan, panels),
             Show(NextId, panels)
      PROVE  Steady'
  <2>1. PICK root \in Nat : plans' = Append(plans, [panels |-> panels, root |-> root])
    BY <1>1, <1>3, PlanAt DEF MintFresh, MintFrom, NextId, Ids
  <2>2. [panels |-> panels, root |-> root] \in PlanRecord /\ panels \in Views
    BY ClientComposeAssumption DEF PlanRecord, Views
  <2>3. /\ plans' \in Seq(PlanRecord) /\ Len(plans') = Len(plans) + 1
        /\ \A i \in Ids : plans'[i] = plans[i]
        /\ plans'[NextId].panels = panels
    <3> DEFINE plan == [panels |-> panels, root |-> root]
    <3>1. plan.panels = panels
      OBVIOUS
    <3> HIDE DEF plan
    <3>2. /\ plans' \in Seq(PlanRecord) /\ Len(plans') = Len(plans) + 1
          /\ \A i \in Ids : plans'[i] = plans[i]
          /\ plans'[NextId] = plan
      BY <1>1, <2>1, <2>2, Minted DEF Listed, NextId, plan
    <3> QED BY <3>1, <3>2
  <2>4. Listed'
    BY <1>1, <1>3, <2>2, <2>3 DEF Listed, Show
  <2>5. NextId \in 1 .. Len(plans')
    BY <1>1, <2>3 DEF NextId
  <2>6. Show(NextId, plans'[NextId].panels)
    BY <1>3, <2>3
  <2>7. Release /\ UNCHANGED <<kept, reorder, acts>>
    BY DEF BatchAnswered
  <2> HIDE DEF NextId
  <2> DEFINE id == NextId
  <2>8. Len(plans') \in Nat /\ Len(plans) <= Len(plans')
    BY <1>1, <2>3
  <2> QED BY <1>1, <2>3, <2>4, <2>5, <2>6, <2>7, <2>8, ReplaceKeeps
<1> QED BY <1>2, <1>3 DEF BatchAnswered

LEMMA RefineAnsweredKeeps == ASSUME Steady, RefineAnswered PROVE Steady'
<1>1. /\ Len(plans) \in Nat /\ Listed /\ op.plan \in Ids /\ RootOf(op.plan) = RootOf(planId)
      /\ plans[op.plan].panels \in Views /\ plans[op.plan].root \in Nat /\ planId # 0
      /\ planId \in Ids
  BY PlanAt DEF Steady, Known, Followed, RefineAnswered, Of, Ids
<1>2. Refined \in Views
  BY <1>1, WithoutIsView DEF RefineAnswered, Refinable, Refined
<1> DEFINE plan == [panels |-> Refined, root |-> plans[op.plan].root]
<1>3. plan \in PlanRecord
  BY <1>1, <1>2 DEF PlanRecord
<1>4. /\ plans' \in Seq(PlanRecord) /\ Len(plans') = Len(plans) + 1
      /\ \A i \in Ids : plans'[i] = plans[i]
      /\ plans'[NextId] = plan
  BY <1>1, <1>3, Minted DEF RefineAnswered, MintFrom, Listed, NextId
<1>5. /\ plans'[NextId].panels = Refined /\ plans'[NextId].root = plans[op.plan].root
      /\ NextId = Len(plans) + 1 /\ NextId # 0 /\ NextId \in 0 .. Len(plans')
  BY <1>1, <1>4 DEF NextId
<1>6. /\ planId' = NextId /\ screen' = Arranged(Refined, target) /\ op' = Nothing
      /\ excuses' = (IF target # Nothing THEN {"overlaid"} ELSE {}) /\ serverOrder' = Nothing
      /\ UNCHANGED <<kept, target, write, generation, acts>>
  BY DEF RefineAnswered, Release
<1> HIDE DEF plan
<1>7. Known'
  BY <1>1, <1>2, <1>4, <1>5, <1>6, ArrangedIsView DEF Steady, Known, Listed, Ids
<1>8. Followed'
  <2>1. RootOf(planId)' = RootOf(planId)
    BY <1>1, <1>5, <1>6 DEF RootOf, Ids
  <2>2. write # Nothing => RootOf(write.plan)' = RootOf(write.plan)
    BY <1>4, <1>6 DEF RootOf, Steady, Known
  <2> QED BY <1>5, <1>6, <2>1, <2>2 DEF Steady, Followed, Of, Live, Current, Replacing
<1>9. Agreed'
  <2>1. SetOf(screen') = SetOf(plans'[planId'].panels)
    BY <1>5, <1>6, ArrangedIsSame
  <2>2. target = Nothing => screen' = Refined
    BY <1>6 DEF Arranged
  <2> QED BY <1>5, <1>6, <2>1, <2>2 DEF Agreed
<1> QED BY <1>7, <1>8, <1>9 DEF Steady

-----------------------------------------------------------------------------
(* The write of a rearrangement. *)
LEMMA FlushReorderKeeps == ASSUME Steady, FlushReorder PROVE Steady'
<1>1. UNCHANGED <<plans, kept, screen, planId, op, serverOrder, generation, acts, excuses>>
  BY DEF FlushReorder
<1>2. CASE write' = write /\ target' = target
  BY <1>1, <1>2 DEF Steady, Known, Listed, Ids, Followed, Of, Live, Current, Replacing, RootOf, Agreed,
     Half, Torn, Unstreamed
<1>3. CASE /\ write = Nothing /\ target # Nothing /\ serverOrder # Nothing /\ serverOrder = target
           /\ target' = Nothing /\ write' = write
  <2>1. Known' /\ Followed'
    BY <1>1, <1>3 DEF Steady, Known, Listed, Ids, Followed, Of, Live, Current, Replacing, RootOf
  <2>2. Agreed'
    BY <1>1, <1>3 DEF Steady, Agreed, Half, Torn, Unstreamed
  <2> QED BY <2>1, <2>2 DEF Steady
<1>4. CASE /\ write = Nothing /\ target # Nothing /\ target' = target
           /\ write' = [generation |-> generation, plan |-> planId, order |-> target, waiting |-> waiting]
  <2>1. planId \in Ids
    BY <1>4, PlanAt DEF Steady, Known, Followed, Ids
  <2>2. Known'
    BY <1>1, <1>4, <2>1 DEF Steady, Known, Listed, Ids
  <2>3. Followed'
    BY <1>1, <1>4 DEF Steady, Followed, Of, Live, Current, Replacing, RootOf
  <2>4. Agreed'
    BY <1>1, <1>4 DEF Steady, Agreed, Half, Torn, Unstreamed
  <2> QED BY <2>2, <2>3, <2>4 DEF Steady
<1> QED BY <1>2, <1>3, <1>4 DEF FlushReorder

LEMMA WriteAnsweredKeeps ==
    ASSUME Steady, WriteAnswered PROVE Steady' /\ RootOf(planId)' = RootOf(planId)
<1>1. /\ Len(plans) \in Nat /\ Listed /\ write # Nothing /\ write.plan \in Ids /\ write.order \in Views
      /\ plans[write.plan].root \in Nat
  BY PlanAt DEF Steady, Known, WriteAnswered
<1> DEFINE plan == [panels |-> write.order, root |-> plans[write.plan].root]
<1>2. plan \in PlanRecord /\ plan.panels = write.order /\ plan.root = plans[write.plan].root
  BY <1>1 DEF PlanRecord
<1>3. plans' = Append(plans, plan)
  BY DEF WriteAnswered, MintFrom
<1> HIDE DEF plan
<1>4. /\ plans' \in Seq(PlanRecord) /\ Len(plans') = Len(plans) + 1
      /\ \A i \in Ids : plans'[i] = plans[i]
      /\ plans'[NextId] = plan /\ NextId = Len(plans) + 1
  BY <1>1, <1>2, <1>3, Minted DEF Listed, NextId
<1>5. UNCHANGED <<kept, op, generation, acts>> /\ write' = Nothing
  BY DEF WriteAnswered, WriteEnds
<1>6. \A id \in 0 .. Len(plans) : RootOf(id)' = RootOf(id)
  BY <1>1, <1>4 DEF RootOf, Ids
<1>7. CASE ~Current
  <2>1. UNCHANGED <<planId, screen, target, excuses, serverOrder>>
    BY <1>7 DEF WriteAnswered
  <2>2. Known'
    BY <1>1, <1>4, <1>5, <2>1 DEF Steady, Known, Listed, Ids
  <2>3. planId \in 0 .. Len(plans) /\ RootOf(planId)' = RootOf(planId)
    BY <1>6, <2>1 DEF Steady, Known, RootOf
  <2>4. Of("refine") => RootOf(op.plan)' = RootOf(op.plan)
    BY <1>5, <1>6 DEF Steady, Known, Of, RootOf
  <2>5. Followed'
    BY <1>5, <2>1, <2>3, <2>4 DEF Steady, Followed, Of, Live, Current, Replacing
  <2>6. planId # 0 => plans'[planId] = plans[planId]
    BY <1>1, <1>4, <2>3 DEF Ids
  <2>7. Agreed'
    <3>1. serverOrder # Nothing /\ excuses = {} => planId # 0
      BY DEF Steady, Agreed
    <3> QED BY <1>5, <2>1, <2>6, <3>1 DEF Steady, Agreed, Half, Torn, Unstreamed
  <2> QED BY <2>2, <2>3, <2>5, <2>7 DEF Steady
<1>8. CASE Current
  <2>1. /\ planId' = NextId /\ excuses' = {} /\ serverOrder' = write.order
        /\ \/ /\ target # Nothing /\ target # write.order
              /\ screen' = Arranged(write.order, target) /\ target' = target
           \/ screen' = write.order /\ target' = Nothing
    BY <1>8 DEF WriteAnswered
  <2>2. Live /\ target # Nothing /\ ~Replacing /\ RootOf(write.plan) = RootOf(planId)
    BY <1>1, <1>8 DEF Live, Steady, Followed
  <2>3. /\ NextId \in 0 .. Len(plans') /\ NextId # 0
        /\ plans'[NextId].panels = write.order /\ plans'[NextId].root = plans[write.plan].root
    BY <1>1, <1>2, <1>4
  <2>4. Known'
    BY <1>1, <1>4, <1>5, <2>1, <2>3, ArrangedIsView DEF Steady, Known, Listed, Ids
  <2>5. RootOf(planId)' = RootOf(planId)
    BY <1>1, <2>1, <2>2, <2>3 DEF RootOf, Ids
  <2>6. Of("refine") => RootOf(op.plan)' = RootOf(op.plan)
    BY <1>5, <1>6 DEF Steady, Known, Of, RootOf
  <2>7. Followed'
    BY <1>5, <2>1, <2>2, <2>3, <2>5, <2>6 DEF Steady, Followed, Of, Live, Replacing
  <2>8. Agreed'
    <3>1. SetOf(screen') = SetOf(write.order)
      BY <2>1, ArrangedIsSame
    <3>2. write.order # Nothing
      BY <1>1, OrderIsView
    <3> QED BY <2>1, <2>3, <3>1, <3>2 DEF Agreed
  <2> QED BY <2>4, <2>5, <2>7, <2>8 DEF Steady
<1> QED BY <1>7, <1>8

LEMMA WriteFailedKeeps ==
    ASSUME Steady, WriteFailed PROVE Steady' /\ planId' = planId /\ plans' = plans
<1>1. UNCHANGED <<plans, kept, screen, planId, op, serverOrder, generation, acts>> /\ write' = Nothing
  BY DEF WriteFailed, WriteEnds
<1>2. CASE ~Current
  <2>1. UNCHANGED <<target, excuses>>
    BY <1>2 DEF WriteFailed
  <2> QED BY <1>1, <2>1 DEF Steady, Known, Listed, Ids, Followed, Of, Live, Replacing, RootOf, Agreed, Half,
     Torn, Unstreamed
<1>3. CASE Current
  <2>1. target' \in {target, Nothing} /\ excuses' = excuses \cup {"unsaved"}
    BY <1>3 DEF WriteFailed
  <2>2. Known'
    BY <1>1, <2>1 DEF Steady, Known, Listed, Ids
  <2>3. Followed'
    BY <1>1, <2>1 DEF Steady, Followed, Of, Live, Replacing, RootOf
  <2>4. Agreed'
    BY <1>1, <2>1 DEF Steady, Agreed, Half, Torn, Unstreamed
  <2> QED BY <1>1, <2>2, <2>3, <2>4 DEF Steady
<1> QED BY <1>2, <1>3

-----------------------------------------------------------------------------
LEMMA SteadyNext == Steady /\ [SessionNext]_sessionVars => Steady'
<1> SUFFICES ASSUME Steady, [SessionNext]_sessionVars PROVE Steady'
  OBVIOUS
<1>1. CASE UNCHANGED sessionVars
  BY <1>1 DEF sessionVars, reorder, Steady, Known, Listed, Ids, Followed, Of, Live, Current, Replacing, RootOf,
     Agreed, Half, Torn, Unstreamed
<1>2. CASE Visit
  BY <1>2, SubmitKeeps, RefineKeeps, SaveKeeps, ReopenKeeps, ResetKeeps, ReorderPanelsKeeps DEF Visit
<1>3. CASE Answered
  BY <1>3, StreamPlannedKeeps, StreamDrawnKeeps, StreamFinishedKeeps, BatchAnsweredKeeps,
     RefineAnsweredKeeps, SaveAnsweredKeeps, ReopenAnsweredKeeps, FailKeeps DEF Answered
<1>4. CASE FlushReorder
  BY <1>4, FlushReorderKeeps
<1>5. CASE Write
  BY <1>5, WriteAnsweredKeeps, WriteFailedKeeps DEF Write
<1> QED BY <1>1, <1>2, <1>3, <1>4, <1>5 DEF SessionNext

(* A step that neither starts nor ends anything keeps to the view on screen. *)
LEMMA StepKeepsView ==
    Steady /\ [SessionNext]_sessionVars => [op = op' /\ acts = acts' => RootOf(planId)' = RootOf(planId)]_sessionVars
<1> SUFFICES ASSUME Steady, SessionNext, op = op', acts = acts' PROVE RootOf(planId)' = RootOf(planId)
  OBVIOUS
<1>1. ASSUME Visit PROVE FALSE
  <2>1. Act
    BY <1>1 DEF Visit, Submit, Refine, Save, Reopen, Reset, ReorderPanels, Start
  <2>2. acts \in Nat /\ acts' = acts + 1
    BY <2>1 DEF Act, Steady, Known
  <2> QED BY <2>2
<1>2. CASE Answered
  <2>1. StreamDrawn
    BY <1>2, StreamPlannedKeeps DEF Answered, StreamFinished, BatchAnswered, RefineAnswered, SaveAnswered,
       ReopenAnswered, Fail, Release, Of
  <2> QED BY <2>1, StreamDrawnKeeps DEF RootOf, StreamDrawn
<1>3. CASE FlushReorder
  BY <1>3 DEF FlushReorder, RootOf
<1>4. CASE Write
  BY <1>4, WriteAnsweredKeeps, WriteFailedKeeps DEF Write, RootOf
<1> QED BY <1>1, <1>2, <1>3, <1>4 DEF SessionNext

(* The invariant, of every session of a browser. *)
THEOREM SteadyAlways == SessionSpec => []Steady
  BY SteadyInit, SteadyNext, PTL DEF SessionSpec

(* Whatever the order of answers, rearrangements, losses and failures, a session at
   rest would save, pin or refine the plan whose panels are on screen, with the three
   exceptions the property names (useComposeSessionState). *)
THEOREM ScreenAgrees == SessionSpec => []ScreenIsPlan
<1>1. Steady => ScreenIsPlan
  BY DEF Steady, Known, Agreed, ScreenIsPlan, AtRest, Half, Live
<1> QED BY <1>1, SteadyAlways, PTL

(* After a compose, a reopen or a reset has begun, no answer of an earlier write brings
   the view it replaced back (reorder.generation). *)
THEOREM ReplacedViewsStay == SessionSpec => ReplacedStaysReplaced
  BY SteadyAlways, StepKeepsView, PTL DEF SessionSpec, ReplacedStaysReplaced
=============================================================================
