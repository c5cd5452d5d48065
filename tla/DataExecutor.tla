------------------------------ MODULE DataExecutor ------------------------------
(***************************************************************************)
(* The execution of a plan's data requests                                 *)
(* (packages/data-runtime/src/index.ts: executePlanDataRequests,           *)
(* mapWithConcurrency, executeDataRequest, executeTrusted), inside the     *)
(* budget of the compose that asked for them                               *)
(* (packages/server/src/index.ts: executeWithinBudget).                    *)
(*                                                                         *)
(* Workers take the requests in plan order.  A request passes the host's   *)
(* checks one after another, calls its upstream, races the answer with a   *)
(* timer and with the budget, is audited, and is handed back.  Every step  *)
(* is one turn of the event loop: a promise of the host or an upstream     *)
(* that settles, or a timer that fires, with the microtasks that follow.   *)
(***************************************************************************)
EXTENDS Naturals, FiniteSets

CONSTANTS
    N,              \* requests in the plan
    Limit,          \* maxConcurrentRequests
    Awaits,         \* [Requests -> Nat]: host checks awaited for each, in turn
    None            \* no result yet

Requests == 1 .. N

(* A result, as far as anything here depends on it: rows; the failure of an
   upstream, or of what it returned; a refusal before anything was asked; and
   the two ways to lose the race. *)
Outcomes == {"rows", "failed", "refused", "TIMEOUT", "ABORTED"}

ASSUME ExecutorAssumption ==
    /\ N \in Nat /\ Limit \in Nat
    /\ Awaits \in [Requests -> Nat]
    /\ None \notin Outcomes

(* mapWithConcurrency: one worker for a short list or a small limit, and no more
   than there are items. *)
WorkerCount == IF N <= 1 \/ Limit <= 1 THEN 1 ELSE IF Limit < N THEN Limit ELSE N
Workers == 1 .. WorkerCount

VARIABLES
    next,           \* the index the next free worker takes
    hand,           \* [Workers -> Requests, or 0]: the request a worker awaits
    stage,          \* [Requests -> stage]
    gate,           \* [Requests -> Nat]: host checks passed
    result,         \* [Requests -> Outcomes or None]
    pending,        \* requests whose upstream has been called and not answered
    timers,         \* requests whose timeout is running
    budget,         \* "running", "expired" or "cleared"
    finished        \* every worker has returned

vars == <<next, hand, stage, gate, result, pending, timers, budget, finished>>

(* Where a request is while a worker awaits it. *)
Awaited == {"gating", "racing", "auditing"}
Stages == {"queued", "settled"} \cup Awaited

TypeOK ==
    /\ next \in 1 .. N + 1
    /\ hand \in [Workers -> Requests \cup {0}]
    /\ stage \in [Requests -> Stages]
    /\ gate \in [Requests -> Nat]
    /\ result \in [Requests -> Outcomes \cup {None}]
    /\ pending \in SUBSET Requests
    /\ timers \in SUBSET Requests
    /\ budget \in {"running", "expired", "cleared"}
    /\ finished \in BOOLEAN

Init ==
    /\ next = 1
    /\ hand = [w \in Workers |-> 0]
    /\ stage = [i \in Requests |-> "queued"]
    /\ gate = [i \in Requests |-> 0]
    /\ result = [i \in Requests |-> None]
    /\ pending = {}
    /\ timers = {}
    /\ budget = "running"
    /\ finished = FALSE

-----------------------------------------------------------------------------
(* A free worker takes the next request. *)
Dispatch(w) ==
    /\ hand[w] = 0 /\ next <= N
    /\ hand' = [hand EXCEPT ![w] = next]
    /\ stage' = [stage EXCEPT ![next] = "gating"]
    /\ next' = next + 1
    /\ UNCHANGED <<gate, result, pending, timers, budget, finished>>

(* A result is there: executeTrusted returns, clears its timer, and the host's
   audit is called and awaited. *)
Decide(i, outcome) ==
    /\ stage' = [stage EXCEPT ![i] = "auditing"]
    /\ result' = [result EXCEPT ![i] = outcome]
    /\ timers' = timers \ {i}

(* A host check answers yes, or the request needs one fewer to call its upstream.
   No signal bounds the wait for it. *)
PassGate(i) ==
    /\ stage[i] = "gating" /\ gate[i] < Awaits[i]
    /\ gate' = [gate EXCEPT ![i] = @ + 1]
    /\ UNCHANGED <<next, hand, stage, result, pending, timers, budget, finished>>

(* Catalog, capability, query and runtime before the first check; the checks; the
   identity rule; and the parameters after the last one.  A check that throws ends
   in the outer catch. *)
Refuse(i) ==
    /\ stage[i] = "gating"
    /\ \E outcome \in {"refused", "failed"} : Decide(i, outcome)
    /\ UNCHANGED <<next, hand, gate, pending, budget, finished>>

(* raceWithAbort on an already aborted signal rejects at once; a listener added
   to it would never be called. *)
NeverAborted == FALSE
AlreadyAborted == budget = "expired"

(* Opening the race arms its timer. *)
Race(i) ==
    /\ stage' = [stage EXCEPT ![i] = "racing"]
    /\ timers' = timers \cup {i}
    /\ UNCHANGED result

(* Every check passed: the upstream is called, whatever the signal says by now. *)
Call(i) ==
    /\ stage[i] = "gating" /\ gate[i] = Awaits[i]
    /\ pending' = pending \cup {i}
    /\ IF AlreadyAborted THEN Decide(i, "ABORTED") ELSE Race(i)
    /\ UNCHANGED <<next, hand, gate, budget, finished>>

(* The race is still open for i. *)
Called(i) == stage[i] # "queued"
Racing(i) == stage[i] = "racing"

(* The upstream answers with rows or a failure, or rejects.  An answer that comes
   after the race was decided is dropped. *)
Answer(i) ==
    /\ i \in pending
    /\ pending' = pending \ {i}
    /\ IF Racing(i)
       THEN \E outcome \in {"rows", "failed"} : Decide(i, outcome)
       ELSE UNCHANGED <<stage, result, timers>>
    /\ UNCHANGED <<next, hand, gate, budget, finished>>

(* The capability's timeout. *)
TimeOut(i) ==
    /\ i \in timers
    /\ Decide(i, "TIMEOUT")
    /\ UNCHANGED <<next, hand, gate, pending, budget, finished>>

(* The budget runs out: its signal aborts every race that is open. *)
Expire ==
    /\ budget = "running"
    /\ budget' = "expired"
    /\ stage' = [i \in Requests |-> IF Racing(i) THEN "auditing" ELSE stage[i]]
    /\ result' = [i \in Requests |-> IF Racing(i) THEN "ABORTED" ELSE result[i]]
    /\ timers' = {}
    /\ UNCHANGED <<next, hand, gate, pending, finished>>

(* The audit has returned or thrown: the worker hands the result back and is free. *)
Settle(w) ==
    LET i == hand[w] IN
    /\ i # 0 /\ stage[i] = "auditing"
    /\ stage' = [stage EXCEPT ![i] = "settled"]
    /\ hand' = [hand EXCEPT ![w] = 0]
    /\ UNCHANGED <<next, gate, result, pending, timers, budget, finished>>

(* Every worker's loop has ended. *)
Finish ==
    /\ ~finished
    /\ next > N /\ \A w \in Workers : hand[w] = 0
    /\ finished' = TRUE
    /\ budget' = IF budget = "running" THEN "cleared" ELSE budget
    /\ UNCHANGED <<next, hand, stage, gate, result, pending, timers>>

Next ==
    \/ \E w \in Workers : Dispatch(w) \/ Settle(w)
    \/ \E i \in Requests : PassGate(i) \/ Refuse(i) \/ Call(i) \/ Answer(i) \/ TimeOut(i)
    \/ Expire
    \/ Finish

(* Workers go on and timers fire; of the host, that each check and each audit
   settles, one way or the other, since no signal bounds the wait for them.
   Nothing is assumed of an upstream. *)
Fairness ==
    /\ \A w \in Workers : WF_vars(Dispatch(w)) /\ WF_vars(Settle(w))
    /\ \A i \in Requests : WF_vars(PassGate(i)) /\ WF_vars(Call(i)) /\ WF_vars(TimeOut(i))
    /\ WF_vars(Expire)
    /\ WF_vars(Finish)

Spec == Init /\ [][Next]_vars /\ Fairness

-----------------------------------------------------------------------------
InFlight == {i \in Requests : stage[i] \in Awaited}
Settled == {i \in Requests : stage[i] = "settled"}

(* Whatever order answers, timeouts and audits come in, no more requests than the
   limit are being worked on, by one worker each. *)
AtMostLimit ==
    /\ Cardinality(InFlight) <= (IF Limit <= 1 THEN 1 ELSE Limit)
    /\ \A w, x \in Workers : hand[w] = hand[x] /\ hand[w] # 0 => w = x

(* Once the budget has run out, nothing that arrives counts: neither an answer
   to a race that was open, nor one to a request that passed its checks later. *)
NothingAcceptedLate ==
    [][\A i \in Requests :
         budget = "expired" /\ result'[i] # result[i] => result'[i] # "rows"]_vars

(* A timer runs exactly while its race is open: a settled request leaves nothing
   behind to fire, and an open race cannot be left without its timer. *)
TimerPerRace ==
    timers = {i \in Requests : Racing(i)}

(* Every plan's execution ends, however many of its upstreams never answer. *)
AlwaysFinishes == <>finished

(* Execution is a pool that takes requests in plan order, decides each once, and
   gives each back after it is decided. *)
Pool == INSTANCE RequestPool WITH
    Capacity <- WorkerCount,
    taken <- next - 1,
    outcome <- result,
    returned <- Settled
ImplementsPool == Pool!Spec
=============================================================================
