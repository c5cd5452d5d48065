------------------------------ MODULE ComposeStream ------------------------------
(***************************************************************************)
(* A streamed compose: the events one run emits                            *)
(* (packages/server/src/index.ts: composeAgainstPublishedCatalogs), their  *)
(* transport (packages/server/src/http.ts: composeEventStreamResponse) and *)
(* the fold that turns them into a view again (packages/core/src/events.ts,*)
(* packages/react/src/compose-stream.ts).                                  *)
(*                                                                         *)
(* A data model is a function from the paths a plan writes: the envelope of*)
(* all requests, the envelope of what is composed of them, and a slot for  *)
(* each.  The frames sent are kept as a sequence; the client has read a    *)
(* prefix of it, which is all that is left of it when the connection dies. *)
(***************************************************************************)
EXTENDS Naturals, Sequences, FiniteSets

CONSTANTS
    N,              \* data requests of the plan
    Limit,          \* requests out at once
    None

Requests == 1 .. N
Joined == N + 1     \* the slot that shows a composition or join of the requests

(* What a request comes to.  An opaque result is one no projection can carry; an
   empty one is ready. *)
Results == {"ready", "error", "opaque"}
Refusals == {"invalid", "needs-clarification"}

(* A data model, and what a request, a composition or a slot of it shows. *)
States == {"pending"} \cup Results
Models == [requests : [Requests -> States], composed : States, slots : [Requests \cup {Joined} -> States]]

(* How a run or a reading of it ends. *)
Failures == Refusals \cup {"data-unavailable", "unauthenticated", "failed"}
Endings == Failures \cup {"ok", "auth", "service-error", "network", "timeout"}

ASSUME StreamAssumption ==
    /\ N \in Nat /\ Limit \in Nat \ {0}
    /\ None \notin Nat /\ None \notin States \cup Endings
    /\ None \notin [Requests -> States] /\ None \notin Models

VARIABLES
    pc,             \* how far the run is
    revising,       \* whether there is a view to fall back to
    started,        \* requests handed to a worker
    settled,        \* [Requests -> Results or None]
    composed,       \* what compositions and joins came to, or None
    fellBackFrom,   \* the kind of the failure a fallback is shown for, or None
    lastDataModel,  \* the model the frames sent so far describe
    emitted,        \* the frames sent
    answer,         \* what a batch caller of the same run is told, or None
    link,           \* "open", "closed" by the server, or "lost"
    fold,           \* the client's ComposeStreamState
    read,           \* how many frames the client has applied
    told            \* what the hook reports at the end, or None while reading

server == <<pc, revising, started, settled, composed, fellBackFrom, lastDataModel, emitted, answer>>
client == <<fold, read, told>>
vars == <<server, link, client>>

-----------------------------------------------------------------------------
(* The projection of results into a data model, and its frames. *)

Shown(result) == IF result = None THEN "pending" ELSE result

(* projectPlanDataModel: what is missing is pending. *)
Project(results, joined) ==
    [requests |-> [r \in Requests |-> Shown(results[r])],
     composed |-> Shown(joined),
     slots |-> [s \in Requests \cup {Joined} |->
                  IF s = Joined THEN Shown(joined) ELSE Shown(results[s])]]

Projectable(results) == \A r \in Requests : results[r] # "opaque"

DiffEnvelopes(before, after) ==
    [requests |-> after.requests, composed |-> after.composed, slots |-> [s \in {} |-> None]]

(* diffDataModel descends into objects; arrays and leaves are replaced whole. *)
Diff(before, after) ==
    [requests |-> IF before.requests = after.requests THEN None ELSE after.requests,
     composed |-> IF before.composed = after.composed THEN None ELSE after.composed,
     slots |-> [s \in {t \in DOMAIN after.slots : before.slots[t] # after.slots[t]} |-> after.slots[s]]]

Empty(patch) == patch.requests = None /\ patch.composed = None /\ DOMAIN patch.slots = {}

(* applyDataModelPatch. *)
Patched(model, patch) ==
    [requests |-> IF patch.requests = None THEN model.requests ELSE patch.requests,
     composed |-> IF patch.composed = None THEN model.composed ELSE patch.composed,
     slots |-> [s \in DOMAIN model.slots |->
                  IF s \in DOMAIN patch.slots THEN patch.slots[s] ELSE model.slots[s]]]

Delta(before, after) ==
    IF Empty(Diff(before, after)) THEN <<>>
    ELSE <<[type |-> "STATE_DELTA", patch |-> Diff(before, after)]>>

NoResults == [r \in Requests |-> None]
NoModel == [requests |-> None, composed |-> None, slots |-> None]

-----------------------------------------------------------------------------
(* The client's state, and how one event changes it. *)

Initial == [stage |-> "idle", model |-> None, planId |-> None, settled |-> 0, total |-> None,
            failed |-> {}, failure |-> None, fellBack |-> FALSE, finished |-> FALSE]

StageOf(step) == IF step = "plan" THEN "planning" ELSE "executing"

(* Every request is pending in a skeleton. *)
Pending(model) == Cardinality({r \in Requests : model.requests[r] = "pending"})

(* applyComposeEvent *)
Applied(state, e) ==
    CASE e.type = "RUN_STARTED" -> [Initial EXCEPT !.stage = "planning"]
      [] e.type = "STEP_STARTED" -> [state EXCEPT !.stage = StageOf(e.step)]
      [] e.type = "STEP_FINISHED" ->
           IF e.planId = None THEN state ELSE [state EXCEPT !.planId = e.planId]
      [] e.type = "STATE_SNAPSHOT" ->
           [state EXCEPT !.stage = "executing", !.model = e.model,
                         !.settled = 0, !.total = Pending(e.model)]
      [] e.type = "TOOL_CALL_START" -> state
      [] e.type = "TOOL_CALL_END" ->
           [state EXCEPT !.settled = IF state.total = None THEN 0 ELSE state.settled + 1,
                         !.failed = IF e.state = "error" THEN state.failed \cup {e.request}
                                    ELSE state.failed]
      [] e.type = "STATE_DELTA" ->
           IF state.model = None THEN state
           ELSE [state EXCEPT !.model = Patched(state.model, e.patch)]
      [] e.type = "RUN_ERROR" ->
           [state EXCEPT !.stage = "done", !.finished = TRUE, !.failure = e.kind]
      [] e.type = "RUN_FINISHED" ->
           [state EXCEPT !.stage = "done", !.finished = TRUE, !.planId = e.planId,
                         !.fellBack = e.fellBack,
                         !.failure = IF e.fellBack THEN e.kind ELSE state.failure]

(* isTerminalComposeEvent *)
Terminal(e) == e.type \in {"RUN_FINISHED", "RUN_ERROR"}

-----------------------------------------------------------------------------
Init ==
    /\ pc = "called" /\ revising \in BOOLEAN
    /\ started = {} /\ settled = NoResults /\ composed = None
    /\ fellBackFrom = None /\ lastDataModel = NoModel
    /\ emitted = <<>> /\ answer = None
    /\ link = "open"
    /\ fold = Initial /\ read = 0 /\ told = None

Emit(frames) == emitted' = emitted \o frames
Step(step) == [type |-> "STEP_STARTED", step |-> step]
StepDone(step, id) == [type |-> "STEP_FINISHED", step |-> step, planId |-> id]
RunError(kind) == [type |-> "RUN_ERROR", kind |-> kind]
RunFinished(id, fellBack, kind) ==
    [type |-> "RUN_FINISHED", planId |-> id, fellBack |-> fellBack, kind |-> kind]

Reply(ok, kind, id, model) == [ok |-> ok, kind |-> kind, planId |-> id, model |-> model]

(* Anything awaited may throw: an unknown catalog, a session that is refused, a
   gate, another visitor's plan, a host callback.  By then the headers are out,
   so the transport says it with an event. *)
Throw(kind) ==
    /\ pc \notin {"answered", "ended"}
    /\ kind = "unauthenticated" => pc = "accepted"
    /\ pc' = "answered"
    /\ Emit(<<RunError(kind)>>)
    /\ answer' = Reply(FALSE, kind, None, None)
    /\ UNCHANGED <<revising, started, settled, composed, fellBackFrom, lastDataModel, link, client>>

Accept ==
    /\ pc = "called"
    /\ pc' = "accepted"
    /\ Emit(<<[type |-> "RUN_STARTED"]>>)
    /\ UNCHANGED <<revising, started, settled, composed, fellBackFrom, lastDataModel, answer, link, client>>

Admit ==
    /\ pc = "accepted"
    /\ pc' = "planning"
    /\ Emit(<<Step("plan")>>)
    /\ UNCHANGED <<revising, started, settled, composed, fellBackFrom, lastDataModel, answer, link, client>>

(* The plan is written, or found in the cache, or a failed revision falls back;
   the skeleton follows at once, and may not compile. *)
PlanId == IF fellBackFrom' = None THEN "new" ELSE "previous"
Planned(kind) ==
    /\ pc = "planning"
    /\ kind # None => revising
    /\ fellBackFrom' = kind
    /\ LET skeleton == Project(NoResults, None) IN
       \/ /\ pc' = "executing"
          /\ lastDataModel' = skeleton
          /\ Emit(<<StepDone("plan", PlanId), [type |-> "STATE_SNAPSHOT", model |-> skeleton],
                    Step("execute")>>)
          /\ UNCHANGED answer
       \/ /\ pc' = "answered"
          /\ Emit(<<StepDone("plan", PlanId), RunError("failed")>>)
          /\ answer' = Reply(FALSE, "failed", None, None)
          /\ UNCHANGED lastDataModel
    /\ UNCHANGED <<revising, started, settled, composed, link, client>>

Unplanned(kind) ==
    /\ pc = "planning"
    /\ ~revising
    /\ pc' = "answered"
    /\ Emit(<<RunError(kind)>>)
    /\ answer' = Reply(FALSE, kind, None, None)
    /\ UNCHANGED <<revising, started, settled, composed, fellBackFrom, lastDataModel, link, client>>

RequestStarted(r) ==
    /\ pc = "executing"
    /\ started = 1 .. (r - 1)
    /\ Cardinality({s \in started : settled[s] = None}) < Limit
    /\ started' = started \cup {r}
    /\ Emit(<<[type |-> "TOOL_CALL_START", request |-> r]>>)
    /\ UNCHANGED <<pc, revising, settled, composed, fellBackFrom, lastDataModel, answer, link, client>>

(* What is composed of several requests waits for all of them.  A projection that
   throws costs its delta. *)
StateOf(result) == IF result = "opaque" THEN "ready" ELSE result
RequestSettled(r, result) ==
    /\ pc = "executing"
    /\ r \in started /\ settled[r] = None
    /\ settled' = [settled EXCEPT ![r] = result]
    /\ LET partial == Project(settled', None)
           ended == <<[type |-> "TOOL_CALL_END", request |-> r, state |-> StateOf(result)]>> IN
       IF Projectable(settled')
         THEN /\ lastDataModel' = partial
              /\ Emit(ended \o Delta(lastDataModel, partial))
         ELSE /\ Emit(ended)
              /\ UNCHANGED lastDataModel
    /\ UNCHANGED <<pc, revising, started, composed, fellBackFrom, answer, link, client>>

(* Compositions and joins are computed, the finished view is compiled, and the
   last delta carries what the others could not. *)
AllSettled == \A r \in Requests : settled[r] # None
NothingArrived == Requests # {} /\ \A r \in Requests : settled[r] = "error"

Conclude(joined) ==
    /\ pc = "executing"
    /\ AllSettled
    /\ composed' = joined
    /\ pc' = "answered"
    /\ IF ~Projectable(settled)
         THEN /\ Emit(<<StepDone("execute", None), RunError("failed")>>)
              /\ answer' = Reply(FALSE, "failed", None, None)
              /\ UNCHANGED lastDataModel
         ELSE LET final == Project(settled, joined)
                  id == IF fellBackFrom = None THEN "new" ELSE "previous"
                  kind == IF fellBackFrom # None THEN fellBackFrom
                          ELSE IF NothingArrived THEN "data-unavailable" ELSE None IN
              /\ lastDataModel' = final
              /\ Emit(<<StepDone("execute", None)>> \o Delta(lastDataModel, final)
                        \o <<RunFinished(id, fellBackFrom # None, kind)>>)
              /\ answer' = Reply(kind = None, kind, id, final)
    /\ UNCHANGED <<revising, started, settled, fellBackFrom, link, client>>

(* The response body is closed whatever happened. *)
CloseOnSuccess ==
    /\ pc = "answered" /\ answer.ok
    /\ pc' = "ended"
    /\ link' = IF link = "open" THEN "closed" ELSE link
    /\ UNCHANGED <<revising, started, settled, composed, fellBackFrom, lastDataModel, emitted, answer, client>>
Close ==
    /\ pc = "answered"
    /\ pc' = "ended"
    /\ link' = IF link = "open" THEN "closed" ELSE link
    /\ UNCHANGED <<revising, started, settled, composed, fellBackFrom, lastDataModel, emitted, answer, client>>

-----------------------------------------------------------------------------
(* The connection dies, or the browser gives up on it.  The run goes on. *)
Lose ==
    /\ link # "lost" /\ told = None
    /\ link' = "lost"
    /\ UNCHANGED <<server, client>>

Read ==
    /\ told = None /\ link # "lost"
    /\ read < Len(emitted)
    /\ read' = read + 1
    /\ fold' = Applied(fold, emitted[read'])
    /\ UNCHANGED <<server, link, told>>

(* failureKindFor, with the status of a stream, and with that of a batch answer. *)
ServiceKinds == Refusals \cup {"data-unavailable"}
KindOf(kind) == IF kind \in ServiceKinds THEN kind ELSE "service-error"
BatchKindOf(kind) == IF kind = "unauthenticated" THEN "auth" ELSE KindOf(kind)

(* submit, once the body has ended. *)
Outcome(state) ==
    IF state.failure # None THEN KindOf(state.failure)
    ELSE IF ~state.finished THEN "network" ELSE "ok"

BodyEnded ==
    /\ told = None
    /\ link = "lost" \/ (link = "closed" /\ read = Len(emitted))
    /\ \/ told' = Outcome(fold)
       \/ link = "lost" /\ told' = "timeout"
    /\ UNCHANGED <<server, link, fold, read>>

-----------------------------------------------------------------------------
Serve ==
    \/ Accept \/ Admit \/ Close
    \/ \E kind \in Refusals \cup {None} : Planned(kind)
    \/ \E kind \in Refusals : Unplanned(kind)
    \/ \E r \in Requests : RequestStarted(r)
    \/ \E r \in Requests, result \in Results : RequestSettled(r, result)
    \/ \E joined \in {"ready", "error"} : Conclude(joined)

Next ==
    \/ Serve
    \/ \E kind \in {"unauthenticated", "failed"} : Throw(kind)
    \/ Lose \/ Read \/ BodyEnded

(* Planning and execution are bounded (PlannerLoop, DataExecutor); the host's
   session lookup, before them, is not.  A browser reads what it is sent. *)
Bounded == pc # "called" /\ pc # "accepted"
Fairness == WF_vars(Bounded /\ Serve) /\ WF_vars(Read) /\ WF_vars(BodyEnded)

Spec == Init /\ [][Next]_vars /\ Fairness

-----------------------------------------------------------------------------
(* Deltas carry the view: a client that has read every frame sent holds the model
   the server believes it holds, and its progress counts what has settled. *)
Mirrors ==
    read = Len(emitted) /\ fold.model # None =>
        /\ fold.model = lastDataModel
        /\ fold.settled = Cardinality({r \in Requests : settled[r] # None})
        /\ fold.settled <= fold.total

(* One ending: a run says once, and last, how it ended, and a visitor is told of
   a success only when that was read. *)
OneEnding ==
    /\ \A i \in 1 .. Len(emitted) : Terminal(emitted[i]) => i = Len(emitted)
    /\ pc = "ended" => Terminal(emitted[Len(emitted)])
    /\ told = "ok" => read > 0 /\ emitted[read].type = "RUN_FINISHED"

(* The streamed form of a compose tells its visitor what the batch form would
   have: the view, its plan, the failed requests and the kind of failure.  Two
   kinds are excepted: a stream reports a compose whose every request failed as a
   success, and a rejected credential as a service error. *)
AgreesWithBatch ==
    (/\ told \notin {None, "timeout", "network"}
     /\ answer # None
     /\ answer.kind \notin {"data-unavailable", "unauthenticated"}) =>
        /\ told = IF answer.kind = None THEN "ok" ELSE BatchKindOf(answer.kind)
        /\ answer.model # None =>
             /\ fold.model = answer.model
             /\ fold.planId = answer.planId
             /\ fold.failed = {r \in Requests : settled[r] = "error"}

(* What a client holds while it reads is what the server holds, and what it is told at
   the end is what the batch form would have told it. *)
StreamTellsAll == Mirrors /\ OneEnding /\ AgreesWithBatch

(* Once it plans, a run ends, watched or not, and whoever still listens hears it
   end. *)
Concludes ==
    pc = "planning" ~> pc = "ended" /\ told # None /\ (told = "network" => link = "lost")
=============================================================================
