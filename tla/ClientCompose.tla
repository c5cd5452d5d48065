------------------------------ MODULE ClientCompose ------------------------------
(***************************************************************************)
(* The compose session of a browser (packages/react/src/use-compose.tsx:   *)
(* useComposeSessionState) against the plans its server holds.             *)
(*                                                                         *)
(* One operation at a time holds `busy`, as the shipped chrome has it.     *)
(* Beside it runs the write of a rearrangement: panels move on screen at   *)
(* once, a debounced write follows, and its answer may come after anything *)
(* else has happened to the view.  An answer may be lost, whole or half    *)
(* way through a stream.  Plans are immutable, so what a request finds on  *)
(* the server does not depend on when it is served, and is computed when   *)
(* its answer arrives.                                                     *)
(***************************************************************************)
EXTENDS Naturals, Sequences, FiniteSets

CONSTANTS
    Composed,       \* the panel orders a fresh plan may have
    MaxActs,        \* bound on what the visitor does
    Nothing

VARIABLES
    plans,          \* server: its plans by id, [panels, root]
    kept,           \* server: the plans of saved views
    screen,         \* messages: the panels on screen, in order
    planId,         \* planId, 0 for null
    op,             \* the operation that holds `busy`, or Nothing
    failed,         \* whether `error` is set
    target,         \* reorder.target, or Nothing
    serverOrder,    \* reorder.serverOrder, or Nothing
    timer,          \* whether reorder.timer is armed
    waiting,        \* the number of reorder.resolvers
    write,          \* the reorder write in flight, or Nothing
    generation,     \* reorder.generation
    acts,           \* what the visitor has done so far
    excuses         \* history: why the screen may differ from the plan behind it

reorder == <<target, serverOrder, timer, waiting, write, generation>>
sessionVars == <<plans, kept, screen, planId, op, failed, reorder, acts, excuses>>

Ids == 1 .. Len(plans)
Panel == UNION {{s[i] : i \in 1 .. Len(s)} : s \in Composed}
Orders == UNION {{s \in [1 .. n -> Panel] : \A i, j \in 1 .. n : s[i] = s[j] => i = j}
                   : n \in 0 .. Cardinality(Panel)}
SetOf(s) == {s[i] : i \in 1 .. Len(s)}
Rearrangements(s) == {t \in Orders : Len(t) = Len(s) /\ SetOf(t) = SetOf(s)}
Without(s, panel) ==
    LET at == CHOOSE i \in 1 .. Len(s) : s[i] = panel
    IN SubSeq(s, 1, at - 1) \o SubSeq(s, at + 1, Len(s))

ASSUME ClientComposeAssumption ==
    /\ Composed \subseteq Seq(Panel)
    /\ Nothing \notin Seq(Panel)
    /\ Nothing \notin [kind : {"compose"}, plan : Nat, arg : {Nothing}, heard : Nat, drawn : BOOLEAN]

Operation(kind, plan, arg) ==
    [kind |-> kind, plan |-> plan, arg |-> arg, heard |-> 0, drawn |-> FALSE]

SessionInit ==
    /\ plans = <<>> /\ kept = {}
    /\ screen = <<>> /\ planId = 0
    /\ op = Nothing /\ failed = FALSE
    /\ target = Nothing /\ serverOrder = Nothing /\ timer = FALSE /\ waiting = 0
    /\ write = Nothing /\ generation = 0
    /\ acts = 0 /\ excuses = {}

-----------------------------------------------------------------------------
(* What the server builds. *)

NextId == Len(plans) + 1
MintFresh(panels) ==
    plans' = Append(plans, [panels |-> panels, root |-> NextId])
MintFrom(id, panels) ==
    plans' = Append(plans, [panels |-> panels, root |-> plans[id].root])

ArrangedUnchecked(panels, order) ==
    IF order # Nothing THEN order ELSE panels

(* withPanelOrder: an order for other panels leaves the view as it came. *)
Arranged(panels, order) ==
    IF order # Nothing /\ order \in Rearrangements(panels) THEN order ELSE panels

(* A server answer replaces the whole view. *)
Show(id, panels) ==
    /\ planId' = id
    /\ screen' = panels
    /\ excuses' = {}

-----------------------------------------------------------------------------
(* What the visitor starts. *)

Act == acts < MaxActs /\ acts' = acts + 1

(* The gate on `busy` every control of the shipped chrome has. *)
Start(kind, plan, arg) ==
    /\ Act
    /\ op = Nothing
    /\ op' = Operation(kind, plan, arg)
    /\ failed' = FALSE

ClearPendingReorder ==
    /\ generation' = generation + 1
    /\ timer' = FALSE
    /\ target' = Nothing
    /\ serverOrder' = Nothing
    /\ waiting' = 0
    /\ UNCHANGED write

(* The view stays until the answer comes, in an order now never written. *)
Abandon ==
    excuses' = IF target # Nothing \/ write # Nothing THEN excuses \cup {"unsaved"} ELSE excuses

Submit(revise) ==
    /\ revise => planId # 0
    /\ Start("compose", IF revise THEN planId ELSE 0, Nothing)
    /\ ClearPendingReorder
    /\ Abandon
    /\ UNCHANGED <<plans, kept, screen, planId>>

(* Removing a panel, or with Nothing a change of query, which moves no panel.  The
   chrome offers no removal of the only panel. *)
Refine(panel) ==
    /\ planId # 0
    /\ panel # Nothing => panel \in SetOf(screen) /\ Len(screen) > 1
    /\ Start("refine", planId, panel)
    /\ UNCHANGED <<plans, kept, screen, planId, reorder, excuses>>

Save ==
    /\ planId # 0
    /\ Start("save", planId, Nothing)
    /\ UNCHANGED <<plans, kept, screen, planId, reorder, excuses>>

Reopen(view) ==
    /\ Start("reopen", view, Nothing)
    /\ ClearPendingReorder
    /\ Abandon
    /\ UNCHANGED <<plans, kept, screen, planId>>

Reset ==
    /\ Act
    /\ op = Nothing
    /\ ClearPendingReorder
    /\ Show(0, <<>>)
    /\ failed' = FALSE
    /\ UNCHANGED <<plans, kept, op>>

ReorderPanels(order) ==
    /\ Act
    /\ op = Nothing
    /\ Len(screen) > 1
    /\ order \in Rearrangements(screen)
    /\ serverOrder' = IF serverOrder = Nothing THEN screen ELSE serverOrder
    /\ failed' = FALSE
    /\ screen' = order
    /\ target' = order
    /\ timer' = TRUE
    /\ waiting' = waiting + 1
    /\ UNCHANGED <<plans, kept, planId, op, write, generation, excuses>>

-----------------------------------------------------------------------------
(* How the operation that holds `busy` is answered. *)

Release == op' = Nothing
Of(kind) == op # Nothing /\ op.kind = kind
Unstreamed == op.heard = 0

(* The frames of a streamed compose: the plan's id as planning ends, then the
   view, which every later frame sets again, then the end. *)
StreamPlanned ==
    /\ Of("compose") /\ Unstreamed
    /\ \/ \E panels \in Composed :
            /\ MintFresh(panels)
            /\ op' = [op EXCEPT !.heard = NextId]
            /\ planId' = NextId
       \/ \E panels \in Composed :
            /\ op.plan # 0
            /\ MintFrom(op.plan, panels)
            /\ op' = [op EXCEPT !.heard = NextId]
            /\ planId' = NextId
       \/ /\ op.plan # 0
          /\ op' = [op EXCEPT !.heard = op.plan]
          /\ planId' = op.plan
          /\ UNCHANGED plans
    /\ UNCHANGED <<kept, screen, failed, reorder, acts, excuses>>

StreamDrawn ==
    /\ Of("compose") /\ ~Unstreamed
    /\ op' = [op EXCEPT !.drawn = TRUE]
    /\ Show(op.heard, plans[op.heard].panels)
    /\ UNCHANGED <<plans, kept, failed, reorder, acts>>

(* RUN_FINISHED; a fallback is reported as a failure beside its view. *)
StreamFinished ==
    /\ Of("compose") /\ op.drawn
    /\ Release
    /\ failed' = (op.heard = op.plan)
    /\ UNCHANGED <<plans, kept, screen, planId, reorder, acts, excuses>>

(* RUN_ERROR, a dropped connection or silence, at any point: what is on screen
   stays, and so does a plan id that came without its view. *)
Torn == ~Unstreamed /\ ~op.drawn
Fail ==
    /\ op # Nothing
    /\ Release
    /\ failed' = TRUE
    /\ excuses' = IF Torn THEN excuses \cup {"torn"} ELSE excuses
    /\ UNCHANGED <<plans, kept, screen, planId, reorder, acts>>

(* One JSON answer: a new view, or a failure that carries the view to fall back
   to. *)
BatchAnswered ==
    /\ Of("compose") /\ Unstreamed
    /\ \/ \E panels \in Composed :
            /\ IF op.plan = 0 THEN MintFresh(panels) ELSE MintFrom(op.plan, panels)
            /\ Show(NextId, panels)
            /\ failed' \in BOOLEAN
       \/ /\ op.plan # 0
          /\ Show(op.plan, plans[op.plan].panels)
          /\ failed' = TRUE
          /\ UNCHANGED plans
    /\ Release
    /\ UNCHANGED <<kept, reorder, acts>>

Refined == IF op.arg = Nothing THEN plans[op.plan].panels
           ELSE Without(plans[op.plan].panels, op.arg)
Refinable == (op.arg # Nothing => op.arg \in SetOf(plans[op.plan].panels)) /\ Refined # <<>>

(* A pending rearrangement goes back on top of the server's order. *)
RefineAnswered ==
    /\ Of("refine") /\ Refinable
    /\ MintFrom(op.plan, Refined)
    /\ planId' = NextId
    /\ screen' = Arranged(Refined, target)
    /\ excuses' = IF target # Nothing THEN {"overlaid"} ELSE {}
    /\ serverOrder' = Nothing
    /\ Release
    /\ UNCHANGED <<kept, failed, target, timer, waiting, write, generation, acts>>

SaveAnswered ==
    /\ Of("save")
    /\ kept' = kept \cup {op.plan}
    /\ Release
    /\ UNCHANGED <<plans, screen, planId, failed, reorder, acts, excuses>>

ReopenAnswered ==
    /\ Of("reopen")
    /\ Show(op.plan, plans[op.plan].panels)
    /\ Release
    /\ UNCHANGED <<plans, kept, failed, reorder, acts>>

-----------------------------------------------------------------------------
(* The write of a rearrangement.  A timer that an answer orphans fires as the
   armed one would, or finds nothing to do. *)

FlushReorder ==
    /\ timer
    /\ timer' = FALSE
    /\ IF write # Nothing \/ target = Nothing
         THEN UNCHANGED <<target, waiting, write>>
       ELSE IF serverOrder # Nothing /\ serverOrder = target
         THEN /\ target' = Nothing
              /\ waiting' = 0
              /\ UNCHANGED write
         ELSE /\ write' = [generation |-> generation, plan |-> planId,
                           order |-> target, waiting |-> waiting]
              /\ waiting' = 0
              /\ UNCHANGED target
    /\ UNCHANGED <<plans, kept, screen, planId, op, failed, serverOrder, generation, acts, excuses>>

AlwaysCurrent == TRUE
Current == write.generation = generation

(* The end of the write: what was moved meanwhile is written next. *)
WriteEnds ==
    /\ write' = Nothing
    /\ timer' = (timer \/ (Current /\ target' # Nothing))

WriteAccepted == write.order \in Rearrangements(plans[write.plan].panels)

WriteAnswered ==
    /\ write # Nothing /\ WriteAccepted
    /\ MintFrom(write.plan, write.order)
    /\ IF Current
         THEN /\ planId' = NextId
              /\ IF target # Nothing /\ target # write.order
                   THEN screen' = Arranged(write.order, target) /\ UNCHANGED target
                   ELSE screen' = write.order /\ target' = Nothing
              /\ excuses' = {}
              /\ serverOrder' = write.order
         ELSE UNCHANGED <<planId, screen, target, excuses, serverOrder>>
    /\ WriteEnds
    /\ UNCHANGED <<kept, op, failed, waiting, generation, acts>>

(* Refused by the server, lost or timed out: the panels stay where they are. *)
WriteFailed ==
    /\ write # Nothing
    /\ IF Current
         THEN /\ failed' = TRUE
              /\ target' = IF target = write.order THEN Nothing ELSE target
              /\ excuses' = excuses \cup {"unsaved"}
         ELSE UNCHANGED <<failed, target, excuses>>
    /\ WriteEnds
    /\ UNCHANGED <<plans, kept, screen, planId, op, serverOrder, waiting, generation, acts>>

-----------------------------------------------------------------------------
Visit ==
    \/ \E revise \in BOOLEAN : Submit(revise)
    \/ \E panel \in SetOf(screen) \cup {Nothing} : Refine(panel)
    \/ Save
    \/ \E view \in kept : Reopen(view)
    \/ Reset
    \/ \E order \in Rearrangements(screen) : ReorderPanels(order)

Answered ==
    \/ StreamPlanned \/ StreamDrawn \/ StreamFinished
    \/ BatchAnswered \/ RefineAnswered \/ SaveAnswered \/ ReopenAnswered
    \/ Fail

Write == WriteAnswered \/ WriteFailed

SessionNext == Visit \/ Answered \/ FlushReorder \/ Write

SessionSpec == SessionInit /\ [][SessionNext]_sessionVars

-----------------------------------------------------------------------------
AtRest == op = Nothing /\ write = Nothing /\ target = Nothing

(* Once nothing is under way, the plan the session would save, pin or refine is
   the plan of the panels on screen, in their order, however answers,
   rearrangements and failures were interleaved.  It may differ only after a
   stream that died between the plan's id and its view, in order after a write
   that failed, or after a refinement that was drawn with a pending
   rearrangement on top. *)
ScreenIsPlan ==
    AtRest /\ "torn" \notin excuses =>
        IF planId = 0 THEN screen = <<>>
        ELSE /\ SetOf(screen) = SetOf(plans[planId].panels)
             /\ excuses = {} => screen = plans[planId].panels

(* Once a compose or a reopen has begun, or the view was cleared, no write of an
   earlier rearrangement touches the view: an answer that arrives when no
   operation is under way keeps to the view its plan belongs to. *)
RootOf(id) == IF id = 0 THEN 0 ELSE plans[id].root
ReplacedStaysReplaced ==
    [][op = op' /\ acts = acts' => RootOf(planId)' = RootOf(planId)]_sessionVars

=============================================================================
