------------------------------- MODULE HttpFront -------------------------------
(***************************************************************************)
(* One request through the transport (packages/server/src/http.ts:         *)
(* createViewHttpHandler, packages/server/src/http-node.ts: toNodeHandler) *)
(* and what a batch caller makes of its answer                             *)
(* (packages/react/src/use-compose.tsx: failureKindFor).                   *)
(*                                                                         *)
(* A body arrives in chunks, a chunk being its size.  Under node the       *)
(* adapter queues what arrives, read or not; the client may go away.       *)
(***************************************************************************)
EXTENDS Naturals, Sequences

CONSTANTS
    Calls,          \* the requests: verb, path, json, declared, chunks, parses, complete, stream
    MaxBodyBytes,
    Cors,           \* the origins allowed, or Unset: no CORS
    Unset

ASSUME HttpFrontAssumption ==
    MaxBodyBytes \in Nat /\ \A sent \in Calls : sent.chunks \in Seq(Nat)

VARIABLES
    call, phase,
    wire, queue,    \* chunks still under way, and those the adapter holds
    socket,         \* "open", "aborted" by the client, or "destroyed" by the adapter
    got,            \* bytes of the body taken by readJsonBody
    gate,           \* what requireAdmin said
    ran,            \* whether a ViewServer method was called
    response, heard \* the answer, and what the caller makes of it

frontVars == <<call, phase, wire, queue, socket, got, gate, ran, response, heard>>

(* VIEW_HTTP_ROUTES *)
Visitor == {"compose", "refine", "views", "views/reopen", "views/delete"}
Owner == {"catalog", "catalog/history", "catalog/rollback", "catalog/delete", "ui-catalog",
          "classify-operations", "semantic-suggestions", "field-proposals", "review-export",
          "catalog/probe", "plan"}
GetOnly == {"providers", "coverage", "planning-wiring"}
Posts == Visitor \cup Owner
Gets == {"views", "catalog", "ui-catalog"} \cup GetOnly
Paths == Posts \cup Gets
Served(path) == {v \in {"GET", "POST"} : path \in IF v = "GET" THEN Gets ELSE Posts}
Admin(path) == path \notin Visitor

FrontInit ==
    /\ call \in Calls
    /\ phase = "received"
    /\ wire = call.chunks /\ queue = <<>> /\ socket = "open"
    /\ got = 0 /\ gate = Unset /\ ran = FALSE /\ response = Unset /\ heard = Unset

Body == <<wire, queue, socket>>
Response(status, kind) == [status |-> status, kind |-> kind]
Answer(status, kind) == phase' = "answered" /\ response' = Response(status, kind)

(* The adapter's listeners: nothing holds the sender back. *)
Arrive ==
    /\ socket = "open" /\ wire # <<>> /\ phase \notin {"answered", "done"}
    /\ queue' = Append(queue, Head(wire)) /\ wire' = Tail(wire)
    /\ UNCHANGED <<call, phase, socket, got, gate, ran, response, heard>>
GoAway ==
    /\ socket = "open" /\ phase # "done"
    /\ socket' = "aborted"
    /\ UNCHANGED <<call, phase, wire, queue, got, gate, ran, response, heard>>

(* Preflights, unknown paths and verbs are answered at once. *)
Unrouted ==
    /\ phase = "received"
    /\ \/ call.verb = "OPTIONS" /\ Answer(IF Cors = Unset THEN 405 ELSE 204, Unset)
       \/ call.verb # "OPTIONS" /\ call.path \notin Paths /\ Answer(404, Unset)
       \/ call.verb # "OPTIONS" /\ call.path \in Paths /\ call.verb \notin Served(call.path) /\ Answer(405, Unset)
    /\ UNCHANGED <<call, Body, got, gate, ran, heard>>
Routed == call.path \in Paths /\ call.verb \in Served(call.path)

(* requireAdmin, before the body is read. *)
Entered ==
    IF call.verb = "GET" THEN phase' = "dispatch" /\ UNCHANGED response
    ELSE IF ~call.json THEN Answer(415, Unset)
    ELSE IF call.declared # Unset /\ call.declared > MaxBodyBytes THEN Answer(413, Unset)
    ELSE phase' = "reading" /\ UNCHANGED response
Gate(verdict) ==
    /\ phase = "received" /\ Routed
    /\ ~Admin(call.path) => verdict = "admitted"
    /\ gate' = verdict
    /\ \/ verdict = "refused" /\ Answer(403, Unset)
       \/ verdict = "threw" /\ Answer(400, Unset)
       \/ verdict = "admitted" /\ Entered
    /\ UNCHANGED <<call, Body, got, ran, heard>>

(* readJsonBody: the declared length may be missing or wrong, so what arrives is
   counted too.  Under node a cancelled body destroys the socket it came by. *)
ExceedsDeclared(bytes) == call.declared # Unset /\ call.declared > MaxBodyBytes    \* a slip
Exceeds(bytes) == bytes > MaxBodyBytes
ReadChunk ==
    /\ phase = "reading" /\ queue # <<>>
    /\ got' = got + Head(queue) /\ queue' = Tail(queue)
    /\ IF Exceeds(got') THEN Answer(413, Unset) /\ socket' = "destroyed"
       ELSE UNCHANGED <<phase, response, socket>>
    /\ UNCHANGED <<call, wire, gate, ran, heard>>
ReadBroken ==
    /\ phase = "reading" /\ socket # "open" /\ wire # <<>>
    /\ Answer(400, Unset)
    /\ UNCHANGED <<call, Body, got, gate, ran, heard>>
ReadEnd ==
    /\ phase = "reading" /\ wire = <<>> /\ queue = <<>>
    /\ IF got > 0 /\ ~call.parses THEN Answer(400, Unset)
       ELSE IF call.path = "compose" /\ call.stream THEN phase' = "streaming" /\ response' = Response(200, "stream")
       ELSE phase' = "dispatch" /\ UNCHANGED response
    /\ UNCHANGED <<call, Body, got, gate, ran, heard>>

(* dispatch: a required field that is missing, or the method and what it came to. *)
Named == got > 0 /\ call.complete
Needing == {"views/reopen", "views/delete", "compose", "refine", "coverage", "planning-wiring", "catalog/probe", "plan"}
NeedsBody == call.path \in Needing \/ (call.path = "views" /\ call.verb = "POST")
Missing == NeedsBody /\ (IF call.verb = "GET" THEN ~call.complete ELSE ~Named)
Returned == {Unset, "invalid", "unsupported", "needs-clarification", "data-unavailable"}
Incomplete ==
    /\ phase = "dispatch" /\ Missing
    /\ Answer(400, Unset)
    /\ UNCHANGED <<call, Body, got, gate, ran, heard>>
Returns(kind) ==
    /\ phase = "dispatch" /\ ~Missing
    /\ ran' = TRUE
    /\ IF call.path = "views/delete" /\ kind # Unset THEN Answer(404, Unset) ELSE Answer(200, kind)
    /\ UNCHANGED <<call, Body, got, gate, heard>>
Throws(cause) ==
    /\ phase = "dispatch" /\ ~Missing
    /\ ran' = TRUE
    /\ \/ cause = "unauthenticated" /\ Answer(401, Unset)
       \/ cause = "rate limited" /\ Answer(429, Unset)
       \/ cause = "visitor-identity-required" /\ Answer(400, cause)
       \/ cause = "failed" /\ Answer(400, Unset)
    /\ UNCHANGED <<call, Body, got, gate, heard>>
Causes == {"unauthenticated", "rate limited", "visitor-identity-required", "failed"}

(* failureKindFor, read status first; a call that fails without a response is one the
   network lost. *)
ServiceFailureKinds ==
    {"unsupported", "invalid", "provider-error", "needs-clarification", "data-unavailable", "visitor-identity-required"}
FailureKind(status, kind) ==
    IF status \in {401, 403} THEN "auth"
    ELSE IF kind \in ServiceFailureKinds THEN kind
    ELSE IF status >= 500 THEN "network" ELSE "service-error"
Deliver ==
    /\ phase = "answered"
    /\ phase' = "done"
    /\ heard' = IF socket # "open" THEN "network"
               ELSE IF response.status \in {200, 204} /\ response.kind = Unset THEN "ok"
               ELSE FailureKind(response.status, response.kind)
    /\ UNCHANGED <<call, Body, got, gate, ran, response>>

FrontNext ==
    \/ Arrive \/ GoAway \/ Unrouted
    \/ \E verdict \in {"admitted", "refused", "threw"} : Gate(verdict)
    \/ ReadChunk \/ ReadBroken \/ ReadEnd \/ Incomplete
    \/ \E kind \in Returned : Returns(kind)
    \/ \E cause \in Causes : Throws(cause)
    \/ Deliver

FrontSpec == FrontInit /\ [][FrontNext]_frontVars

-----------------------------------------------------------------------------
(* Nothing runs for a request that was not let in, that a page elsewhere could have
   sent without asking first, or whose body was not read to its end within the limit;
   no body is read for one that was turned away; and a caller who is still there
   learns whose doing a failure is: its credential's, its request's or the service's,
   and that the network failed only when the limit cut its body off. *)
AnswersInOrder ==
    /\ ran \/ phase = "streaming" =>
           /\ Routed
           /\ Admin(call.path) => gate = "admitted"
           /\ call.verb = "POST" => call.json /\ wire = <<>> /\ queue = <<>> /\ got <= MaxBodyBytes
    /\ got > 0 => gate = "admitted" /\ call.json
    /\ heard # Unset =>
           /\ (heard = "ok" /\ call.verb # "OPTIONS") => ran
           /\ heard = "auth" <=> socket = "open" /\ response.status \in {401, 403}
           /\ heard = "network" => socket = "aborted" \/ (response.status = 413 /\ got > MaxBodyBytes)
           /\ (ran /\ heard \notin {"ok", "network"}) => response.status \in {200, 400, 401, 404, 429}
=============================================================================
