------------------------------- MODULE RequestPool -------------------------------
(***************************************************************************)
(* What the execution of a plan's requests promises, without checks,       *)
(* upstreams, timers or audits: requests are taken in order while fewer    *)
(* than Capacity are out, each is decided once, and each is given back     *)
(* once, after it was decided.                                             *)
(***************************************************************************)
EXTENDS Naturals, FiniteSets

CONSTANTS
    N,              \* requests
    Capacity,       \* requests out at once
    Outcomes,
    None            \* undecided

Requests == 1 .. N

VARIABLES
    taken,          \* 1 .. taken have been taken
    outcome,        \* [Requests -> Outcomes or None]
    returned        \* requests given back

vars == <<taken, outcome, returned>>

Init ==
    /\ taken = 0
    /\ outcome = [i \in Requests |-> None]
    /\ returned = {}

Take ==
    /\ taken < N
    /\ taken - Cardinality(returned) < Capacity
    /\ taken' = taken + 1
    /\ UNCHANGED <<outcome, returned>>

(* One event may decide several requests. *)
Decide ==
    /\ outcome' \in [Requests -> Outcomes \cup {None}]
    /\ \A i \in Requests :
         outcome'[i] # outcome[i] => outcome[i] = None /\ i <= taken /\ i \notin returned
    /\ UNCHANGED <<taken, returned>>

Return(i) ==
    /\ i \notin returned /\ outcome[i] # None
    /\ returned' = returned \cup {i}
    /\ UNCHANGED <<taken, outcome>>

Next == Take \/ Decide \/ \E i \in Requests : Return(i)

Spec == Init /\ [][Next]_vars
=============================================================================
