------------------------------- MODULE PlannerLoop -------------------------------
(***************************************************************************)
(* The conversation with a model that writes a plan                        *)
(* (packages/planner/src/compose.ts: composeDataPlan), under the deadlines *)
(* and the metering of a compose (packages/server/src/index.ts), over the  *)
(* HTTP calls of a model provider (packages/server/src/providers.ts).      *)
(*                                                                         *)
(* The model is asked up to 1 + MaxRetries times.  A draft that does not   *)
(* validate is quoted back to it with its issues, a provider that fails is *)
(* asked again, and the deadline is read between two attempts only.  One   *)
(* attempt is one HTTP call, or two when the endpoint refuses the schema.  *)
(***************************************************************************)
EXTENDS Naturals, Sequences

CONSTANTS
    MaxRetries,         \* maxRetries
    PlanDeadline,       \* planDeadlineMs, as configured
    ComposeDeadline,    \* composeDeadlineMs
    Timeout,            \* a provider's timeoutMs: the longest wait for a response
    MaxBody,            \* the longest a response's body takes, which nothing in the code bounds
    None

ASSUME PlannerAssumption ==
    /\ MaxRetries \in Nat /\ PlanDeadline \in Nat /\ ComposeDeadline \in Nat
    /\ Timeout \in Nat \ {0} /\ MaxBody \in Nat
    /\ None \notin Nat

(* What an attempt brings: a provider that throws; a draft that fails the schema
   or the bindings, or a refusal that restates the contract's placeholder; a
   refusal; a question; or a plan that validates. *)
Answers == {"error", "rejected", "unsupported", "question", "plan"}
Drafts == Answers \ {"error"}
Kinds == {"invalid", "provider-error", "unsupported", "needs-clarification", "plan"}

(* A configured model over HTTP, or a host's own: scripted or per tenant. *)
Providers == {"model", "own"}

(* A response is one that succeeded, a 400 that names the schema, or another failure. *)
Statuses == {"ok", "refused", "failed"}

VARIABLES
    stage,          \* "ready" for an attempt, "calling", "reading" a body, or "done"
    provider,       \* one of Providers
    revising,       \* whether there is a previous plan to fall back to
    answers,        \* what each attempt brought, in order
    elapsed, began, \* time since planning started, and at the start of the last attempt
    calls,          \* calls of the last attempt: the second one sends no schema
    status,         \* the status of the last response
    spent, metered, \* calls made in all, and those the metrics count
    failure,        \* lastFailureKind
    quoted,         \* the attempt whose issues the prompt quotes, or None
    outcome,        \* the kind returned, or None
    view            \* "new", "previous" or None: the plan the compose goes on with

vars == <<stage, provider, revising, answers, elapsed, began, calls, status, spent, metered,
          failure, quoted, outcome, view>>
loop == <<revising, answers, metered, failure, quoted, outcome, view>>

(* The `attempt` counter of the loop. *)
attempt == Len(answers)
Attempting == stage \in {"calling", "reading"}

Min2(a, b) == IF a < b THEN a ELSE b
Deadline == Min2(PlanDeadline, ComposeDeadline)
LongestAttempt == Timeout + MaxBody + Timeout + MaxBody

TypeOK ==
    /\ stage \in {"ready", "calling", "reading", "done"}
    /\ provider \in Providers /\ revising \in BOOLEAN
    /\ answers \in Seq(Answers) /\ Len(answers) <= MaxRetries + 1
    /\ stage # "done" => Len(answers) <= MaxRetries
    /\ elapsed \in Nat /\ began \in Nat
    /\ calls \in {0, 1, 2} /\ status \in Statuses
    /\ Attempting => calls # 0
    /\ spent \in Nat /\ metered \in Nat
    /\ failure \in {"invalid", "provider-error"}
    /\ quoted \in (0 .. MaxRetries) \cup {None}
    /\ outcome \in Kinds \cup {None}
    /\ view \in {"new", "previous", None}

Init ==
    /\ stage = "ready"
    /\ provider \in Providers /\ revising \in BOOLEAN
    /\ answers = <<>>
    /\ elapsed = 0 /\ began = 0
    /\ calls = 0 /\ status = "ok"
    /\ spent = 0 /\ metered = 0
    /\ failure = "invalid"
    /\ quoted = None
    /\ outcome = None
    /\ view = None

-----------------------------------------------------------------------------
(* Planning ends: with the plan written, or with the fallback a revision has. *)
End(kind) ==
    /\ stage' = "done"
    /\ outcome' = kind
    /\ view' = IF kind = "plan" THEN "new" ELSE IF revising THEN "previous" ELSE None

(* The first attempt is made whatever the time. *)
NeverOutOfTime == FALSE
OutOfTime == attempt > 0 /\ elapsed >= Deadline

Ask ==
    /\ stage = "ready"
    /\ ~OutOfTime
    /\ stage' = "calling"
    /\ began' = elapsed /\ calls' = 1 /\ spent' = spent + 1
    /\ UNCHANGED <<provider, elapsed, status, loop>>

GiveUp ==
    /\ stage = "ready"
    /\ OutOfTime
    /\ End(failure)
    /\ UNCHANGED <<provider, revising, answers, elapsed, began, calls, status, spent, metered, failure, quoted>>

(* The timer stops at the response: its body is read with no bound. *)
Longest == IF stage = "calling" THEN Timeout ELSE MaxBody
Passes == elapsed' \in elapsed .. elapsed + Longest

Responds ==
    /\ stage = "calling" /\ provider = "model"
    /\ status' \in Statuses
    /\ Passes
    /\ stage' = "reading"
    /\ UNCHANGED <<provider, began, calls, spent, loop>>

(* The endpoint refused the schema itself: the same attempt is made without it. *)
RetryWithoutSchema ==
    /\ stage = "reading" /\ status = "refused" /\ calls = 1
    /\ Passes
    /\ stage' = "calling"
    /\ calls' = 2 /\ spent' = spent + 1
    /\ UNCHANGED <<provider, began, status, loop>>

(* An attempt ends.  A call that throws takes its usage with it. *)
MeteredOnce(answer) == IF answer = "error" THEN 0 ELSE 1
Metered(answer) == IF answer = "error" THEN 0 ELSE calls
Brings(answer) ==
    /\ Attempting
    /\ answers' = Append(answers, answer)
    /\ Passes
    /\ metered' = metered + Metered(answer)
    /\ UNCHANGED <<provider, revising, began, calls, status, spent>>

(* A draft is a body that parses, or what a provider of the host's own returns. *)
Readable ==
    \/ stage = "reading" /\ status = "ok"
    \/ stage = "calling" /\ provider = "own"

(* The loop goes on, or it was the last attempt. *)
Again(kind) ==
    IF attempt < MaxRetries THEN stage' = "ready" /\ UNCHANGED <<outcome, view>> ELSE End(kind)

(* The prompt is rebuilt from an attempt's issues when another one follows. *)
QuoteAnyway == quoted' = attempt
Quote == quoted' = IF attempt < MaxRetries THEN attempt ELSE quoted
KeepQuote == UNCHANGED quoted

(* generatePlan throws, for a timeout, a failed response or a body that does not
   parse: the same prompt is sent again. *)
ProviderFails ==
    /\ Brings("error")
    /\ failure' = "provider-error"
    /\ KeepQuote
    /\ Again("provider-error")

StillFailing == UNCHANGED failure
Invalid == failure' = "invalid"

DraftRejected ==
    /\ Readable
    /\ Brings("rejected")
    /\ Invalid
    /\ Quote
    /\ Again("invalid")

(* A refusal, a question and a valid plan end it at once. *)
DraftFinal ==
    /\ Readable
    /\ \/ Brings("unsupported") /\ End("unsupported")
       \/ Brings("question") /\ End("needs-clarification")
       \/ Brings("plan") /\ End("plan")
    /\ UNCHANGED <<failure, quoted>>

Next ==
    \/ Ask \/ GiveUp
    \/ Responds \/ RetryWithoutSchema
    \/ ProviderFails \/ DraftRejected \/ DraftFinal

Spec == Init /\ [][Next]_vars

-----------------------------------------------------------------------------
(* Planning ends no later than one attempt of two calls after its deadline: a repair
   that starts in time may end late, and none starts late. *)
EndsSoon ==
    elapsed < Deadline + LongestAttempt \/ elapsed <= LongestAttempt

(* The kind reported is what the last attempt brought, whatever came before it
   and whether the attempts or the time ran out: an earlier provider failure does
   not mask an invalid draft, nor the other way round. *)
KindOf == [error |-> "provider-error", rejected |-> "invalid",
    unsupported |-> "unsupported", question |-> "needs-clarification", plan |-> "plan"]
ReportsLastAnswer ==
    stage = "done" => answers # <<>> /\ outcome = KindOf[answers[Len(answers)]]

(* The model is shown the issues of its own latest draft: a failed call between
   two attempts neither loses them nor is reported to the model as its mistake. *)
QuotesLatestDraft ==
    Attempting =>
        LET drafts == {n \in 1 .. Len(answers) : answers[n] \in Drafts} IN
        IF drafts = {} THEN quoted = None
        ELSE quoted + 1 \in drafts /\ \A n \in drafts : n <= quoted + 1

(* What a compose reports it called is what it called, a refused schema's first call
   included, but for attempts that threw: those are never counted. *)
EveryCallMetered ==
    /\ metered <= spent
    /\ ~Attempting /\ (\A n \in 1 .. Len(answers) : answers[n] # "error") => metered = spent
=============================================================================
