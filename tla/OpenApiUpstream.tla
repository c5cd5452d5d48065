------------------------------ MODULE OpenApiUpstream ------------------------------
(***************************************************************************)
(* The executor over REST operations                                       *)
(* (packages/data-runtime/src/openapi-adapter.ts: createOpenApiRuntime).   *)
(*                                                                         *)
(* The call of an upstream is a loop of its own: the host's headers are    *)
(* resolved for each attempt, the request is sent, and what may pass is    *)
(* tried again after a delay, unless the operation is a POST.  The signal  *)
(* of the executor's race ends the loop wherever it waits, but in the      *)
(* host's resolver.                                                        *)
(***************************************************************************)
EXTENDS DataExecutor

CONSTANTS
    Rest,           \* the requests bound to a REST operation
    Posts,          \* those of them that are a POST
    GetAttempts     \* maxAttempts

ASSUME RestAssumption ==
    Rest \subseteq Requests /\ Posts \subseteq Rest /\ GetAttempts \in Nat \ {0}

VARIABLES
    at,             \* [Rest -> where the loop is]
    attempt,        \* [Rest -> Nat]: the attempt being made
    sent,           \* [Rest -> Nat]: requests that left for the upstream
    reply           \* [Rest -> what came of the last one, or None]

adapter == <<at, attempt, sent, reply>>
all == <<vars, adapter>>

Waits == {"headers", "fetch", "body", "delay"}

(* A network failure, a 429 or a 5xx; a redirect, another refusal, a body that
   does not parse or data too old; or data. *)
Replies == {"transient", "failed", "rows"}

RestInit ==
    /\ Init
    /\ at = [i \in Rest |-> "idle"]
    /\ attempt = [i \in Rest |-> 0]
    /\ sent = [i \in Rest |-> 0]
    /\ reply = [i \in Rest |-> None]

RestTypeOK ==
    /\ TypeOK
    /\ at \in [Rest -> {"idle", "ended"} \cup Waits]
    /\ attempt \in [Rest -> 0 .. GetAttempts]
    /\ sent \in [Rest -> 0 .. GetAttempts]
    /\ reply \in [Rest -> Replies \cup {None}]

-----------------------------------------------------------------------------
(* The signal given to the call: the timeout of its race, or the budget. *)
Signalled(i) == result[i] \in {"TIMEOUT", "ABORTED"}

(* A POST is made once: whether it took effect is not known when it fails. *)
AttemptsForAll(i) == GetAttempts
AttemptsFor(i) == IF i \in Posts THEN 1 ELSE GetAttempts

Goes(i, where) == at' = [at EXCEPT ![i] = where]
Ends(i, what) ==
    /\ Goes(i, "ended")
    /\ reply' = [reply EXCEPT ![i] = what]

(* An attempt starts with the host's headers, unless the signal has fired. *)
Attempt(i) ==
    /\ attempt' = [attempt EXCEPT ![i] = @ + 1]
    /\ Goes(i, "headers")

(* The executor calls the operation: without a URL, at an origin the host no longer
   allows, or after its signal, nothing is sent. *)
Begin(i) ==
    /\ Call(i)
    /\ \/ Ends(i, "failed") /\ UNCHANGED <<attempt, sent>>
       \/ ~AlreadyAborted /\ Attempt(i) /\ UNCHANGED <<sent, reply>>

(* The resolver answers and the request is sent, which fetch refuses to do under a
   signal that has fired; or the resolver throws. *)
SendUnsignalled(i) ==
    /\ sent' = [sent EXCEPT ![i] = @ + 1]
    /\ Goes(i, "fetch")
    /\ UNCHANGED reply
Send(i) ==
    /\ ~Signalled(i)
    /\ sent' = [sent EXCEPT ![i] = @ + 1]
    /\ Goes(i, "fetch")
    /\ UNCHANGED reply
Resolved(i) ==
    /\ at[i] = "headers"
    /\ Send(i) \/ (Ends(i, "failed") /\ UNCHANGED sent)
    /\ UNCHANGED <<vars, attempt>>

(* What may pass is tried again after a delay; the last attempt's is the answer. *)
Passing(i) ==
    IF attempt[i] < AttemptsFor(i)
    THEN Goes(i, "delay") /\ reply' = [reply EXCEPT ![i] = "transient"]
    ELSE Ends(i, "transient")

(* The upstream responds or cannot be reached, and then its body is read. *)
Responds(i) ==
    /\ at[i] = "fetch"
    /\ Passing(i) \/ Ends(i, "failed") \/ (Goes(i, "body") /\ UNCHANGED reply)
    /\ UNCHANGED <<vars, attempt, sent>>
Reads(i) ==
    /\ at[i] = "body"
    /\ Ends(i, "rows") \/ Ends(i, "failed")
    /\ UNCHANGED <<vars, attempt, sent>>

(* The delay is over. *)
Retries(i) ==
    /\ at[i] = "delay" /\ ~Signalled(i)
    /\ Attempt(i)
    /\ UNCHANGED <<vars, sent, reply>>

(* The signal fires: the exchange or the delay it was given to is abandoned. *)
AbandonsDelay(i) == at[i] = "delay"
Abandons(i) == at[i] \in {"fetch", "body", "delay"}
Aborts(i) ==
    /\ Signalled(i)
    /\ Abandons(i)
    /\ Ends(i, "failed")
    /\ UNCHANGED <<vars, attempt, sent>>

(* The call returns what it came to, or throws, and the race sees it. *)
Return(i) ==
    /\ at[i] = "ended"
    /\ Answer(i)
    /\ result'[i] = "rows" => result[i] = "rows" \/ reply[i] = "rows"
    /\ UNCHANGED adapter

RestNext ==
    \/ /\ UNCHANGED adapter
       /\ \/ \E w \in Workers : Dispatch(w) \/ Settle(w)
          \/ \E i \in Requests : PassGate(i) \/ Refuse(i) \/ TimeOut(i)
          \/ \E i \in Requests \ Rest : Call(i) \/ Answer(i)
          \/ Expire
          \/ Finish
    \/ \E i \in Rest :
          \/ Begin(i) \/ Return(i)
          \/ Resolved(i) \/ Responds(i) \/ Reads(i) \/ Retries(i) \/ Aborts(i)

(* Timers fire and a signal is heard; the host's resolver is assumed to settle, since
   no signal bounds the wait for it.  Of an upstream, nothing. *)
RestFairness ==
    \A i \in Rest : WF_all(Resolved(i)) /\ WF_all(Retries(i)) /\ WF_all(Aborts(i))

RestSpec == RestInit /\ [][RestNext]_all /\ Fairness /\ RestFairness

-----------------------------------------------------------------------------
(* A request leaves only while somebody waits for its answer, whatever the resolver
   or the delay before it took, and leaves again only when the last one came to
   nothing and asking twice is harmless. *)
SentInVain(i) == reply[i] = "transient" /\ i \notin Posts
SentWhileAwaited ==
    [][\A i \in Rest : sent'[i] # sent[i] => Racing(i) /\ (sent[i] > 0 => SentInVain(i))]_all

(* Everything ends: execution, however many of its upstreams never answer, and with a
   race the exchange it was for, which holds nothing once the timeout or the budget has
   spoken. *)
EverythingEnds ==
    /\ AlwaysFinishes
    /\ \A i \in Rest : Signalled(i) ~> at[i] \in {"idle", "ended"}
=============================================================================
