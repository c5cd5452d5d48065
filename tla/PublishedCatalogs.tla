---------------------------- MODULE PublishedCatalogs ----------------------------
(***************************************************************************)
(* What a view server promises about published catalogs, without files,    *)
(* snapshots or clocks: one catalog is `served` and one is `stored` under  *)
(* each key.  A request moves both of one key, or half succeeds and leaves *)
(* that key's two copies apart; nothing but a request touches what is      *)
(* stored; a restart loses what is served, and a restore may serve only    *)
(* what is stored.                                                         *)
(***************************************************************************)
CONSTANTS
    Keys,           \* catalogs
    Bodies,         \* publish bodies
    BodyKey,        \* [Bodies -> Keys]
    NoBody          \* nothing published

VARIABLES
    served,         \* [Keys -> Bodies or NoBody]
    stored          \* [Keys -> Bodies or NoBody]

vars == <<served, stored>>

Nothing == [k \in Keys |-> NoBody]

Init ==
    /\ served = Nothing
    /\ stored \in [Keys -> Bodies \cup {NoBody}]

Publish(b) ==
    /\ served' = [served EXCEPT ![BodyKey[b]] = b]
    /\ stored' = [stored EXCEPT ![BodyKey[b]] = b]

(* The store refused the body or lost the record it was replacing. *)
PublishUnstored(b) ==
    /\ served' = [served EXCEPT ![BodyKey[b]] = b]
    /\ stored' \in {stored, [stored EXCEPT ![BodyKey[b]] = NoBody]}

Delete(k) ==
    /\ served' = [served EXCEPT ![k] = NoBody]
    /\ stored' \in {stored, [stored EXCEPT ![k] = NoBody]}

(* A kill, possibly inside the write of one body. *)
Stop ==
    /\ served' = Nothing
    /\ \/ UNCHANGED stored
       \/ \E b \in Bodies : stored' \in {[stored EXCEPT ![BodyKey[b]] = b],
                                         [stored EXCEPT ![BodyKey[b]] = NoBody]}

(* A boot replay: every key serves what is stored under it or, where that body
   no longer validates, nothing. *)
Restore ==
    /\ served = Nothing
    /\ served' \in [Keys -> Bodies \cup {NoBody}]
    /\ \A k \in Keys : served'[k] \in {stored[k], NoBody}
    /\ UNCHANGED stored

Next ==
    \/ \E b \in Bodies : Publish(b) \/ PublishUnstored(b)
    \/ \E k \in Keys : Delete(k)
    \/ Stop
    \/ Restore

Spec == Init /\ [][Next]_vars
=============================================================================
