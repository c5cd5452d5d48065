--------------------------------- MODULE SystemOne ---------------------------------
(***************************************************************************)
(* The rules that plan from a decision instead of a language model         *)
(* (packages/server/src/system-one.ts: createSystemOnePlanProvider), under *)
(* the loop that asks a provider for a plan and validates what it writes   *)
(* (packages/planner/src/compose.ts: composeDataPlan), over a conversation: *)
(* a view is composed, revised, re-presented, asked about and answered.    *)
(*                                                                         *)
(* A prompt is what its words let the rules see of it: `blank`, `flagged`  *)
(* (one of the six fixed word lists matches), `conj` (a conjunction joins  *)
(* two asks), `paired` (the capabilities of which it names two values of   *)
(* one field), `drafts` (those the catalog can draft for it), `cue` (it    *)
(* names nothing but a presentation) and `parts` (what splitCompound makes *)
(* of it, empty when it does not split).                                   *)
(***************************************************************************)
EXTENDS Integers, Sequences, FiniteSets, SequencesExt

CONSTANTS
    Caps,           \* contract.capabilityIds: what this surface can show
    FreeText,       \* the capabilities that take the prompt as a search
    Hosted,         \* the capabilities the host's rules may draft for
    Prompts,        \* the prompts of the conversation
    MaxPanels,      \* the surface's maxComponents, or DEFAULT_MAX_PANELS
    MaxRepairs,     \* maxRetries of composeDataPlan
    MaxTurns,       \* bound: the prompts and answers of a conversation
    Nil

ASSUME SystemOneAssumption ==
    /\ FreeText \subseteq Caps /\ Hosted \subseteq Caps
    /\ IsFiniteSet(Caps) /\ Nil \notin Caps
    /\ MaxPanels \in Nat \ {0} /\ MaxRepairs \in Nat /\ MaxTurns \in Nat

(* A prompt that names nothing but a presentation has no other word to match a list
   or to join two asks. *)
ASSUME PromptsAssumption ==
    \A p \in Prompts : p.parts \in Seq(Range(p.parts)) /\ (p.cue => ~p.flagged /\ ~p.conj)

(* Confidence, as far as the thresholds tell it apart. *)
Confidences == 0 .. 3
ClarificationThreshold == 1
Threshold == 2
RefusalThreshold == 3
MinCandidates == 2
MaxCandidates == 4

(* A binding to a composition or a join, which the rules cannot write. *)
Composed == 0

(* The request a host's draft may bind that nobody makes. *)
Nothing == -1

VARIABLES
    mode,       \* "rules" has no fallback, "assisted" has one, "shadow" only records
    onScreen,       \* the plan on screen, or Nil
    turn,       \* the compose under way, or Nil
    question,   \* what the visitor is asked, or Nil
    reply,      \* the last compose's end, or Nil
    turns       \* the composes so far: the serial number of this one

conversation == <<mode, onScreen, turn, question, reply, turns>>

(* A plan: a request carries what it was written for - the serial number of the
   compose and the part of its prompt -, which names its panel through any
   renumbering.  A panel binds one request; panels inside a panel are left out. *)
Plans ==
    [requests : Seq([id : Nat \ {0}, cap : Caps, ask : Nat \X Nat]),
     panels : Seq([node : Nat \ {0}, req : Int]),
     composed : BOOLEAN]

(* SystemOneReason, its six word lists read as one guard; a model's own answer has
   none of these. *)
Reasons ==
    {"flagged", "compound-prompt", "empty-prompt", "revision", "clarification-answer", "repair",
     "model-unavailable", "confident-none", "none", "low-confidence", "confident", "chosen",
     "no-draft", "presentation", "no-presentation", "compound-by-parts", "host-override",
     "host-refusal", "shadow", "fallback"}

(* What stands for no plan and for no reason is neither. *)
ASSUME NilAssumption == Nil \notin Plans /\ Nil \notin Reasons

Requests(plan) == Range(plan.requests)
RequestIds(plan) == {r.id : r \in Requests(plan)}
NodeIds(plan) == {p.node : p \in Range(plan.panels)}
Bound(panels) == {p.req : p \in Range(panels)}

(* What validation asks of a ready draft: ids used once, every binding made by
   something the plan holds, and no request nothing reads. *)
Valid(plan) ==
    /\ Len(plan.panels) \in 1 .. MaxPanels
    /\ IsInjective([i \in DOMAIN plan.panels |-> plan.panels[i].node])
    /\ IsInjective([i \in DOMAIN plan.requests |-> plan.requests[i].id])
    /\ Bound(plan.panels) \subseteq RequestIds(plan) \cup (IF plan.composed THEN {Composed} ELSE {})
    /\ plan.composed \/ RequestIds(plan) \subseteq Bound(plan.panels)

-----------------------------------------------------------------------------
(* The stage composeDataPlan reports to its provider. *)
Stage(t) ==
    IF t.attempt > 0 THEN "repair"
    ELSE IF t.revising THEN "revision"
    ELSE IF t.answering THEN "clarification-answer" ELSE "initial"

HasFallback == mode # "rules"
RevisionByRules(stage) == stage = "revision" /\ ~HasFallback
HostStage(stage) == stage = "initial" \/ RevisionByRules(stage)

Defer(reason) ==
    [path |-> IF HasFallback THEN "fallback" ELSE "refuse", reason |-> reason, cap |-> Nil]
Fast(reason, cap) == [path |-> "fast", reason |-> reason, cap |-> cap]

(* The first guard a prompt trips, read for the capability decided or chosen. *)
guardPrompt(p, cap) ==
    IF p.flagged THEN "flagged"
    ELSE IF p.conj /\ cap \notin FreeText \cup p.paired THEN "compound-prompt" ELSE Nil

Decisions ==
    {[ok |-> FALSE, cap |-> Nil, confidence |-> 0, inScope |-> FALSE]} \cup
    [ok : {TRUE}, cap : Caps \cup {Nil}, confidence : Confidences, inScope : BOOLEAN]

routeSystemOne(p, stage, d) ==
    IF p.blank THEN Defer("empty-prompt")
    ELSE IF stage # "initial" /\ ~RevisionByRules(stage) THEN Defer(stage)
    ELSE IF guardPrompt(p, d.cap) # Nil THEN Defer(guardPrompt(p, d.cap))
    ELSE IF ~d.ok THEN Defer("model-unavailable")
    ELSE IF d.cap = Nil
         THEN IF d.confidence >= RefusalThreshold /\ ~d.inScope
              THEN [path |-> "fast-refusal", reason |-> "confident-none", cap |-> Nil]
              ELSE Defer("none")
    ELSE IF d.confidence >= Threshold THEN Fast("confident", d.cap)
    ELSE IF ~HasFallback /\ d.confidence >= ClarificationThreshold
         THEN [path |-> "clarify", reason |-> "low-confidence", cap |-> d.cap]
    ELSE Defer("low-confidence")

(* The host's rules are the host's code: it declines the prompt, names a
   capability, or says nothing. *)
HostRules == {"silent", "refuse"} \cup Caps

OverriddenUnguarded(p, cap) == Fast("host-override", cap)
overridden(p, cap) ==
    IF guardPrompt(p, cap) # Nil THEN Defer(guardPrompt(p, cap)) ELSE Fast("host-override", cap)

routeOne(p, stage, d, host) ==
    IF d.ok /\ HostStage(stage) /\ host = "refuse"
    THEN [path |-> "refuse", reason |-> "host-refusal", cap |-> Nil]
    ELSE IF d.ok /\ HostStage(stage) /\ host \in Caps THEN overridden(p, host)
    ELSE routeSystemOne(p, stage, d)

(* No decision is asked for a capability the visitor picked. *)
routeChosenCapability(p, stage, cap) ==
    IF p.blank THEN Defer("empty-prompt")
    ELSE IF stage \notin {"initial", "clarification-answer"} /\ ~RevisionByRules(stage)
         THEN Defer(stage)
    ELSE IF guardPrompt(p, cap) # Nil THEN Defer(guardPrompt(p, cap))
    ELSE Fast("chosen", cap)

(* The choices put to the visitor: the pick, then those with a reason - a
   probability, or a word shared with the prompt - by rank, up to four; in
   catalog order up to two when too few have one. *)
systemOneCandidates(pick, caps) ==
    LET picked == {pick} \cap caps
    IN UNION {LET reasoned == picked \cup likely
              IN {c \in SUBSET caps :
                    /\ picked \subseteq c
                    /\ IF Cardinality(reasoned) >= MinCandidates
                       THEN /\ c \subseteq reasoned
                            /\ \/ c = reasoned /\ Cardinality(c) < MaxCandidates
                               \/ Cardinality(c) = MaxCandidates
                       ELSE /\ reasoned \subseteq c
                            /\ \/ c = caps /\ Cardinality(c) < MinCandidates
                               \/ Cardinality(c) = MinCandidates} :
              likely \in SUBSET (caps \ picked)}

-----------------------------------------------------------------------------
(* buildSystemOneDraft: one panel that binds one request. *)
buildSystemOneDraft(cap, ask) ==
    [requests |-> <<[id |-> 1, cap |-> cap, ask |-> ask]>>,
     panels |-> <<[node |-> 1, req |-> 1]>>,
     composed |-> FALSE]

(* A host's own draft, within the surface: panels of one request, or one that binds
   nothing. *)
HostDrafts(cap, ask) ==
    {[requests |-> <<[id |-> 2, cap |-> cap, ask |-> ask]>>,
      panels |-> IF MaxPanels > 1 THEN <<[node |-> 1, req |-> 2], [node |-> 2, req |-> 2]>>
                 ELSE <<[node |-> 1, req |-> 2]>>,
      composed |-> FALSE],
     [requests |-> <<>>, panels |-> <<[node |-> 1, req |-> Nothing]>>, composed |-> FALSE]}

(* The drafts a capability may come to, Nil when the catalog has no value for it. *)
draftFor(p, cap, ask) ==
    {IF cap \in p.drafts THEN buildSystemOneDraft(cap, ask) ELSE Nil} \cup
    (IF cap \in Hosted THEN HostDrafts(cap, ask) ELSE {})

(* The first number from used.size + 1 on that is not used. *)
FreshBySize(used) == Cardinality(used) + 1
freshId(used) ==
    CHOOSE n \in Cardinality(used) + 1 .. 2 * Cardinality(used) + 1 :
        n \notin used /\ \A k \in Cardinality(used) + 1 .. n - 1 : k \in used

(* The fresh ids of n things, each one used up by the next. *)
FreshIds(used, n) ==
    LET ids[k \in 0 .. n] ==
            IF k = 0 THEN <<>> ELSE Append(ids[k - 1], freshId(used \cup Range(ids[k - 1])))
    IN ids[n]

Newest(s, n) == SubSeq(s, IF Len(s) > n THEN Len(s) - n + 1 ELSE 1, Len(s))

(* The requests of a list that something binds. *)
Kept(requests, bound) ==
    LET kept[k \in 0 .. Len(requests)] ==
            IF k = 0 THEN <<>>
            ELSE IF requests[k].id \in bound THEN Append(kept[k - 1], requests[k])
            ELSE kept[k - 1]
    IN kept[Len(requests)]

(* The draft's ids are renumbered past the base's, the panels that exceed the
   surface leave oldest first, and a request nothing binds leaves with them. *)
appendDraft(base, draft) ==
    LET rids == FreshIds(RequestIds(base), Len(draft.requests))
        nids == FreshIds(NodeIds(base), Len(draft.panels))
        Rebound(req) ==
            IF req \in RequestIds(draft)
            THEN rids[CHOOSE k \in DOMAIN draft.requests : draft.requests[k].id = req]
            ELSE req
        moved == [i \in 1 .. Len(draft.panels) |->
                    [node |-> nids[i], req |-> Rebound(draft.panels[i].req)]]
        renamed == [i \in 1 .. Len(draft.requests) |-> [draft.requests[i] EXCEPT !.id = rids[i]]]
        panels == Newest(base.panels \o moved, MaxPanels)
    IN [requests |-> Kept(base.requests \o renamed, Bound(panels)),
        panels |-> panels,
        composed |-> FALSE]

(* A view that binds more than requests is not one the rules can add to. *)
mergeIntoPlan(previous, draft) ==
    IF previous.composed \/ Composed \in Bound(previous.panels) THEN Nil
    ELSE appendDraft(previous, draft)

(* On a revision the rules make the draft joins the view; otherwise it is the view. *)
placed(t, draft) ==
    IF RevisionByRules(Stage(t)) THEN mergeIntoPlan(onScreen, draft) ELSE draft

(* The last panel, shown by another component: same request, same node. *)
representLastPanel(previous) ==
    IF Last(previous.panels).req = Composed THEN Nil
    ELSE [previous EXCEPT !.composed = FALSE]

-----------------------------------------------------------------------------
(* What a provider answers composeDataPlan with. *)
Answer(kind, by, reason, plan, caps) ==
    [kind |-> kind, by |-> by, reason |-> reason, plan |-> plan, caps |-> caps]
Ready(plan, reason) == Answer("ready", "rules", reason, plan, {})
Refusal(reason) == Answer("unsupported", "rules", reason, Nil, {})
Question(caps, reason) == Answer("needs-clarification", "rules", reason, Nil, caps)

ProviderAnswers ==
    [kind : {"ready", "unsupported", "needs-clarification", "error", "asking"},
     by : {"rules", "model"}, reason : Reasons, plan : Plans \cup {Nil}, caps : SUBSET Caps]

(* The language model is asked: no answer yet. *)
AskModel(reason) == Answer("asking", "model", reason, Nil, {})

(* Carrying a route out, one answer for each draft and ranking there may be. *)
settle(t, route) ==
    IF route.path = "fast"
    THEN UNION {IF draft # Nil
                THEN {IF placed(t, draft) = Nil THEN Refusal("revision")
                      ELSE Ready(placed(t, draft), route.reason)}
                ELSE IF HasFallback THEN {AskModel("no-draft")}
                ELSE IF Cardinality(Caps \ {route.cap}) >= MinCandidates
                THEN {Question(c, "no-draft") :
                        c \in systemOneCandidates(route.cap, Caps \ {route.cap})}
                ELSE {Refusal("no-draft")} :
                draft \in draftFor(t.prompt, route.cap, <<turns, 1>>)}
    ELSE IF route.path = "clarify"
    THEN IF Cardinality(Caps) < MinCandidates THEN {Refusal("low-confidence")}
         ELSE {Question(c, route.reason) : c \in systemOneCandidates(route.cap, Caps)}
    ELSE IF route.path = "fallback" THEN {AskModel(route.reason)}
    ELSE {Refusal(route.reason)}

(* One panel or more per part, in the order of the parts, when every part is
   confident and draftable; Nil when one is not, or when the view on screen
   cannot be added to. *)
Merged(drafts) ==
    LET merged[k \in 0 .. Len(drafts)] ==
            IF k = 0 THEN Nil
            ELSE IF drafts[k] = Nil THEN merged[k - 1]
            ELSE IF merged[k - 1] = Nil THEN drafts[k]
            ELSE appendDraft(merged[k - 1], drafts[k])
    IN merged[Len(drafts)]
AnyPartAnswers(t, drafts) ==
    IF Range(drafts) # {Nil} THEN placed(t, Merged(drafts)) ELSE Nil
compoundByParts(t, drafts) ==
    IF Nil \in Range(drafts) THEN Nil ELSE placed(t, Merged(drafts))

(* What the parts come to: a part's route leaves a capability or none. *)
PartDrafts(parts, caps) ==
    LET PartDraft(k) == IF caps[k] = Nil THEN {Nil} ELSE draftFor(parts[k], caps[k], <<turns, k>>)
    IN {drafts \in [DOMAIN parts -> UNION {PartDraft(k) : k \in DOMAIN parts}] :
            \A k \in DOMAIN parts : drafts[k] \in PartDraft(k)}

(* The plans a language model writes: any ids, a composition among them, or a
   binding to nothing. *)
ModelPlans(ask) ==
    {[requests |-> <<[id |-> 2, cap |-> c, ask |-> ask]>>,
      panels |-> <<[node |-> 2, req |-> 2]>>, composed |-> FALSE] : c \in Caps} \cup
    {[requests |-> <<[id |-> 3, cap |-> c, ask |-> ask]>>,
      panels |-> IF MaxPanels > 1 THEN <<[node |-> 3, req |-> Composed], [node |-> 1, req |-> 3]>>
                 ELSE <<[node |-> 3, req |-> Composed]>>,
      composed |-> TRUE] : c \in Caps} \cup
    {[requests |-> <<>>, panels |-> <<[node |-> 1, req |-> 1]>>, composed |-> FALSE]}

ModelAnswers(ask) ==
    {Answer("ready", "model", "fallback", plan, {}) : plan \in ModelPlans(ask)} \cup
    {Answer("unsupported", "model", "fallback", Nil, {}),
     Answer("needs-clarification", "model", "fallback", Nil, {}),
     Answer("error", "model", "fallback", Nil, {})}

-----------------------------------------------------------------------------
ConversationInit ==
    /\ mode \in {"rules", "assisted", "shadow"}
    /\ onScreen = Nil
    /\ turn = Nil
    /\ question = Nil
    /\ reply = Nil
    /\ turns = 0

(* The visitor asks, with the view on screen to revise or without, or answers
   the question: by picking a candidate the surface still shows, or otherwise. *)
Start(prompt, chosen, answering, revising) ==
    /\ turn = Nil /\ turns < MaxTurns
    /\ turns' = turns + 1
    /\ turn' = [prompt |-> prompt, chosen |-> chosen, answering |-> answering,
                revising |-> revising, attempt |-> 0, step |-> "start",
                routes |-> <<>>, answer |-> Nil]
    /\ question' = Nil
    /\ UNCHANGED <<mode, onScreen, reply>>

Compose == \E p \in Prompts, revising \in {FALSE, onScreen # Nil} : Start(p, Nil, FALSE, revising)

Pick == question # Nil /\ \E cap \in question.caps \cup {Nil} :
            Start(question.prompt, cap, TRUE, question.revising)

(* A view kept from an earlier configuration, whoever wrote it, is opened. *)
OpenStored ==
    /\ turn = Nil /\ turns < MaxTurns
    /\ turns' = turns + 1
    /\ \E plan \in {m \in ModelPlans(<<turns', 0>>) : Valid(m)} : onScreen' = plan
    /\ question' = Nil
    /\ UNCHANGED <<mode, turn, reply>>

Settled(answer) ==
    turn' = [turn EXCEPT !.step = IF answer.kind = "asking" THEN "asking" ELSE "answered",
                         !.answer = answer]

(* generatePlan, up to what it waits for: nothing for a pick or a presentation,
   the model for a shadow, a decision otherwise. *)
Begin ==
    /\ turn # Nil /\ turn.step = "start"
    /\ IF mode = "shadow" THEN Settled(AskModel("shadow"))
       ELSE IF turn.chosen # Nil
       THEN \E answer \in settle(turn,
                routeChosenCapability(turn.prompt, Stage(turn), turn.chosen)) : Settled(answer)
       ELSE IF RevisionByRules(Stage(turn)) /\ turn.prompt.cue
       THEN \E answer \in {Refusal("no-presentation")} \cup
                          (IF representLastPanel(onScreen) = Nil THEN {}
                           ELSE {Ready(representLastPanel(onScreen), "presentation")}) : Settled(answer)
       ELSE turn' = [turn EXCEPT !.step = "deciding"]
    /\ UNCHANGED <<mode, onScreen, question, reply, turns>>

(* The endpoint decides, fails or times out.  A compound prompt no model can be
   asked about is split, and each part decided. *)
Decide ==
    /\ turn # Nil /\ turn.step = "deciding"
    /\ \E d \in Decisions, host \in HostRules :
         LET route == routeOne(turn.prompt, Stage(turn), d, host)
         IN IF route.reason = "compound-prompt" /\ ~HasFallback /\ turn.prompt.parts # <<>>
            THEN turn' = [turn EXCEPT !.step = "parts"]
            ELSE \E answer \in settle(turn, route) : Settled(answer)
    /\ UNCHANGED <<mode, onScreen, question, reply, turns>>

DecidePart ==
    /\ turn # Nil /\ turn.step = "parts" /\ Len(turn.routes) < Len(turn.prompt.parts)
    /\ \E d \in Decisions, host \in HostRules :
         LET route == routeOne(turn.prompt.parts[Len(turn.routes) + 1], "initial", d, host)
         IN turn' = [turn EXCEPT !.routes =
                        Append(@, IF route.path = "fast" THEN route.cap ELSE Nil)]
    /\ UNCHANGED <<mode, onScreen, question, reply, turns>>

Compound ==
    /\ turn # Nil /\ turn.step = "parts" /\ Len(turn.routes) = Len(turn.prompt.parts)
    /\ \E drafts \in PartDrafts(turn.prompt.parts, turn.routes) :
         LET plan == compoundByParts(turn, drafts)
         IN Settled(IF plan = Nil THEN Refusal("compound-prompt")
                    ELSE Ready(plan, "compound-by-parts"))
    /\ UNCHANGED <<mode, onScreen, question, reply, turns>>

(* The language model answers, or throws. *)
ModelAnswer ==
    /\ turn # Nil /\ turn.step = "asking"
    /\ \E answer \in ModelAnswers(<<turns, 1>>) : Settled(answer)
    /\ UNCHANGED <<mode, onScreen, question, reply, turns>>

(* composeDataPlan reads the answer.  A visitor who is answering is not asked
   again: the contract has no such branch, so a question does not validate. *)
Askable(answer) == answer.kind = "needs-clarification" /\ ~turn.answering
Accepted(answer) ==
    \/ answer.kind = "ready" /\ Valid(answer.plan)
    \/ answer.kind = "unsupported"
    \/ Askable(answer)

Replied(kind, answer) ==
    /\ reply' = [kind |-> kind, by |-> answer.by, reason |-> answer.reason]
    /\ turn' = Nil

Deliver ==
    /\ turn # Nil /\ turn.step = "answered" /\ Accepted(turn.answer)
    /\ Replied(turn.answer.kind, turn.answer)
    /\ onScreen' = IF turn.answer.kind = "ready" THEN turn.answer.plan ELSE onScreen
    /\ question' = IF turn.answer.kind # "needs-clarification" THEN Nil
                   ELSE [prompt |-> turn.prompt, caps |-> turn.answer.caps,
                         revising |-> turn.revising]
    /\ UNCHANGED <<mode, turns>>

(* An answer that does not validate is repaired while attempts and time last. *)
Repair ==
    /\ turn # Nil /\ turn.step = "answered" /\ ~Accepted(turn.answer)
    /\ turn.attempt < MaxRepairs
    /\ turn' = [turn EXCEPT !.attempt = turn.attempt + 1, !.step = "start",
                            !.routes = <<>>, !.answer = Nil]
    /\ UNCHANGED <<mode, onScreen, question, reply, turns>>

Abandon ==
    /\ turn # Nil /\ turn.step = "answered" /\ ~Accepted(turn.answer)
    /\ Replied("invalid", turn.answer)
    /\ UNCHANGED <<mode, onScreen, question, turns>>

Converse ==
    \/ Compose \/ Pick \/ OpenStored
    \/ Begin \/ Decide \/ DecidePart \/ Compound \/ ModelAnswer
    \/ Deliver \/ Repair \/ Abandon

ConversationSpec == ConversationInit /\ [][Converse]_conversation

-----------------------------------------------------------------------------
(* The type invariant: a view on screen is one validation accepted. *)
ConversationTyped ==
    /\ mode \in {"rules", "assisted", "shadow"}
    /\ turns \in 0 .. MaxTurns
    /\ onScreen # Nil => onScreen \in Plans /\ Valid(onScreen)
    /\ turn # Nil =>
          /\ turn \in [prompt : Prompts, chosen : Caps \cup {Nil}, answering : BOOLEAN,
                       revising : BOOLEAN, attempt : 0 .. MaxRepairs,
                       step : {"start", "deciding", "parts", "asking", "answered"},
                       routes : Seq(Caps \cup {Nil}), answer : {Nil} \cup ProviderAnswers]
          /\ turn.revising => onScreen # Nil
          /\ turn.step = "answered" => turn.answer \in ProviderAnswers
    /\ question # Nil =>
          /\ question \in [prompt : Prompts, caps : SUBSET Caps, revising : BOOLEAN]
          /\ question.revising => onScreen # Nil
          /\ turn = Nil

(* What the rules draft for a view they can carry stands: the ids they renumber
   never meet an id already there, no panel loses its request and no request its
   panels, so a draft is never sent to a repair that only a language model could
   make.  Two drafts do fail: a host's that binds nothing, and another presentation
   of a view with a composition in it. *)
DraftsStand ==
    ConversationTyped /\
    (turn # Nil /\ turn.step = "answered" =>
        LET a == turn.answer
        IN a.kind = "ready" /\ a.by = "rules" =>
              \/ Valid(a.plan)
              \/ Nothing \in Bound(a.plan.panels)
              \/ a.reason = "presentation" /\ onScreen.composed)

(* What a plan's panels show: the capability, and the ask it was written for. *)
Shown(plan) ==
    [i \in 1 .. Len(plan.panels) |->
        {<<r.cap, r.ask>> : r \in {q \in Requests(plan) : q.id = plan.panels[i].req}}]

(* Written for the compose of that serial number. *)
Fresh(e, serial) == e[2][1] = serial

(* The rules never plan past a guard, whoever named the capability, and never
   answer half a prompt: one that joins two asks is drafted whole by a capability
   that takes it whole, or by parts none of which is guarded. *)
WholeAndUnguarded(p, plan, reason, serial) ==
    /\ ~p.flagged
    /\ p.conj =>
          IF reason = "compound-by-parts" THEN \A q \in Range(p.parts) : ~q.flagged
          ELSE \A s \in Range(Shown(plan)) : \A e \in s : Fresh(e, serial) => e[1] \in FreeText \cup p.paired

(* What a plan adds to the view comes last, what was on screen stays as it was and in
   its order, and only the oldest panels leave when the surface is full.  A compound
   prompt is answered part by part, in order, none left out that the surface can hold. *)
Adds(t, before, plan, reason, serial) ==
    LET now == Shown(plan)
        old == IF t.revising THEN Shown(before) ELSE <<>>
    IN \E n \in 0 .. Len(now) :
          /\ \A i \in DOMAIN now : (i > Len(now) - n) <=> (\E e \in now[i] : Fresh(e, serial))
          /\ SubSeq(now, 1, Len(now) - n) = Newest(old, MaxPanels - n)
          /\ \A i, j \in Len(now) - n + 1 .. Len(now) :
                i < j => \A e \in now[i], f \in now[j] : e[2][2] <= f[2][2]
          /\ n = 0 => reason = "presentation"
          /\ reason = "compound-by-parts" /\ n < MaxPanels =>
                \A k \in DOMAIN t.prompt.parts : \E i \in DOMAIN now : \E e \in now[i] : e[2] = <<serial, k>>

(* A revision the rules make keeps the view, and answers its prompt. *)
KeepsTheView ==
    [][reply' # reply /\ reply'.kind = "ready" /\ reply'.by = "rules" =>
          /\ WholeAndUnguarded(turn.prompt, onScreen', reply'.reason, turns)
          /\ Adds(turn, onScreen, onScreen', reply'.reason, turns)]_conversation
================================================================================
