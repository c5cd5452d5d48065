---------------------------- MODULE MCComposeStream ----------------------------
(* A browser and the server it talks to, one of three ways at a time: the events of one
   streamed compose, one request through the transport below them, and the session above
   them, whose fresh plans have three panels, so that a removal leaves a view that can
   still be rearranged. *)
EXTENDS ComposeStream, HttpFront, ClientCompose

CONSTANTS MaxChunk, p1, p2, p3

VARIABLE under      \* "stream", "front" or "session"

MCCalls ==
    {[verb |-> v, path |-> p, json |-> j, declared |-> d, chunks |-> c, parses |-> s, complete |-> f, stream |-> e] :
        v \in {"GET", "POST", "OPTIONS"}, p \in {"compose", "views", "views/delete", "catalog", "coverage", "nowhere"},
        j \in BOOLEAN, d \in {Unset, 1, MaxBodyBytes + 1}, c \in {<<>>, <<1>>, <<MaxChunk, 1>>, <<1, MaxChunk, MaxChunk>>},
        s \in BOOLEAN, f \in BOOLEAN, e \in BOOLEAN}

AnyCall == CHOOSE c \in MCCalls : c.verb = "OPTIONS"

ThreePanels == {<<p1, p2, p3>>}

EitherInit ==
    /\ Init /\ FrontInit /\ SessionInit
    /\ \/ under = "stream" /\ call = AnyCall
       \/ under = "front" /\ ~revising
       \/ under = "session" /\ ~revising /\ call = AnyCall
EitherNext ==
    /\ UNCHANGED under
    /\ \/ under = "stream" /\ Next /\ UNCHANGED <<frontVars, sessionVars>>
       \/ under = "front" /\ FrontNext /\ UNCHANGED <<vars, sessionVars>>
       \/ under = "session" /\ SessionNext /\ UNCHANGED <<vars, frontVars>>
EitherSpec == EitherInit /\ [][EitherNext]_<<under, vars, frontVars, sessionVars>> /\ Fairness
=============================================================================
