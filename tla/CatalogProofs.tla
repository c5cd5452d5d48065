----------------------------- MODULE CatalogProofs -----------------------------
(***************************************************************************)
(* Proofs about how a catalog lives, and about how one of a REST API is    *)
(* approved.                                                               *)
(*                                                                         *)
(* First CatalogLifecycle, for any number of catalogs, bodies, files,      *)
(* milliseconds and administrators.  Three inductive invariants, each      *)
(* built on the one before:                                                *)
(*   TypeOK;                                                               *)
(*   Served: before it serves, a process has nothing registered;           *)
(*   Mirrored: each file holds a catalog of its own, and what is owed is   *)
(*   what is stored and served.  It, and the refinement, need NoCollision, *)
(*   without which a delete of one key takes the other's record.           *)
(*                                                                         *)
(* Then OpenApiDesk, for any documents, opinions of a model, edits and     *)
(* batch size, an operation of any number of parameters and fields.  The   *)
(* inductive invariant is DeskInv: the review in hand was made of what is  *)
(* on the screen, its decisions are what was on at first but for the       *)
(* ticks, and what is on its way was approved.  A compile filters lists    *)
(* with a recursive function; what such a function returns is proved from  *)
(* the well-foundedness of finite sets, since the theorems of induction    *)
(* take an operator.                                                       *)
(***************************************************************************)
EXTENDS CatalogLifecycle, OpenApiDesk, FiniteSetTheorems, TLAPS

-----------------------------------------------------------------------------
(* Records, and the operators on the two contents of the store. *)

(* A record of a body has a file, a stamp, and itself for content. *)
LEMMA RecordParts ==
    ASSUME NEW r \in Record
    PROVE  /\ r.body \in Bodies /\ r.at \in Stamps
           /\ FileOf(r) \in Files /\ StampFor(r) \in Stamps
           /\ r \in Content /\ Readable(r) /\ r # Absent /\ r # Torn
  BY StoreAssumption DEF Record, FileOf, StampFor, Content, Readable

(* Whatever put does to the live files, completely or not, they stay typed. *)
LEMMA LiveTyped ==
    ASSUME NEW l \in [Files -> Content], NEW r \in Record, NEW k \in Keys
    PROVE  /\ PutLive(l, r) \in [Files -> Content]
           /\ TearLive(l, r) \in [Files -> Content]
           /\ RemoveLive(l, k) \in [Files -> Content]
  BY RecordParts, StoreAssumption DEF PutLive, TearLive, RemoveLive, Content

(* The same of the retained publishes. *)
LEMMA HistoryTyped ==
    ASSUME NEW h \in [Files -> [Stamps -> Content]], NEW r \in Record
    PROVE  /\ PutHistory(h, r) \in [Files -> [Stamps -> Content]]
           /\ TearHistory(h, r) \in [Files -> [Stamps -> Content]]
  BY RecordParts, StoreAssumption DEF PutHistory, TearHistory, Content

(* What is stored under a key is a body, or nothing. *)
LEMMA StoredTyped ==
    ASSUME NEW l \in [Files -> Content]
    PROVE  StoredIn(l) \in [Keys -> Bodies \cup {NoBody}]
  BY StoreAssumption DEF StoredIn, BodyIn, Readable, Record, Content

(* The record of a publish that happens now. *)
LEMMA PublishedRecord ==
    ASSUME TypeOK, NEW b \in Bodies
    PROVE  /\ [body |-> b, at |-> clock] \in Record
           /\ [body |-> b, at |-> clock].body = b
           /\ BodyKey[b] \in Keys
  BY StoreAssumption DEF TypeOK, Record

-----------------------------------------------------------------------------
(* Type correctness. *)

(* What the body of a publish leaves, whichever write fails, is typed. *)
LEMMA PublishBodyTyped ==
    ASSUME TypeOK, NEW b \in Bodies, PublishBody(b)
    PROVE  /\ registry' \in [Keys -> Bodies \cup {NoBody}]
           /\ live' \in [Files -> Content]
           /\ history' \in [Files -> [Stamps -> Content]]
           /\ owed' \in [Keys -> Bodies \cup {NoBody, Unsure}]
           /\ retained' \in SUBSET Record
<1> DEFINE r == [body |-> b, at |-> clock]
<1>1. r \in Record /\ BodyKey[b] \in Keys
  BY PublishedRecord
<1> HIDE DEF r
<1>2. registry' \in [Keys -> Bodies \cup {NoBody}]
  BY <1>1 DEF PublishBody, Register, TypeOK
<1>3. live' \in {live, PutLive(live, r), TearLive(live, r)}
  BY DEF PublishBody, r
<1>4. history' \in {history, PutHistory(history, r), TearHistory(history, r)}
  BY DEF PublishBody, r
<1>5. owed' \in {Owe(BodyKey[b], b), Owe(BodyKey[b], Unsure)}
  BY DEF PublishBody
<1>6. retained' \in {retained, StillRetained(r), StillRetained(r) \cup {r}}
  BY DEF PublishBody, r
<1>7. owed' \in [Keys -> Bodies \cup {NoBody, Unsure}]
  BY <1>5 DEF Owe, TypeOK
<1>8. retained' \in SUBSET Record
  BY <1>1, <1>6 DEF StillRetained, TypeOK
<1> QED
  BY <1>1, <1>2, <1>3, <1>4, <1>7, <1>8, LiveTyped, HistoryTyped DEF TypeOK

LEMMA TypeInit == Init => TypeOK
<1> SUFFICES ASSUME Init PROVE TypeOK
  OBVIOUS
<1>1. 0 \in Stamps
  BY StoreAssumption DEF Stamps
<1>2. live \in [Files -> Content]
  BY <1>1 DEF Init, Content, Record
<1>3. owed \in [Keys -> Bodies \cup {NoBody, Unsure}]
  BY <1>2, StoredTyped DEF Init
<1> QED
  BY <1>1, <1>2, <1>3 DEF Init, TypeOK, Unpublished, NothingHeld, Content

LEMMA TypeNext == TypeOK /\ [Next]_vars => TypeOK'
<1> SUFFICES ASSUME TypeOK, [Next]_vars PROVE TypeOK'
  OBVIOUS
<1>1. ASSUME NEW b \in Bodies, Publish(b) PROVE TypeOK'
  BY <1>1, PublishBodyTyped DEF Publish, TypeOK, memory
<1>2. ASSUME NEW b \in Bodies, KilledInPut(b) PROVE TypeOK'
  <2> DEFINE r == [body |-> b, at |-> clock]
  <2>1. r \in Record /\ BodyKey[b] \in Keys
    BY PublishedRecord
  <2> HIDE DEF r
  <2>2. live' \in {live, PutLive(live, r), TearLive(live, r)}
    BY <1>2 DEF KilledInPut, r
  <2>3. history' \in {history, PutHistory(history, r), TearHistory(history, r)}
    BY <1>2 DEF KilledInPut, r
  <2>4. retained' \in {retained, StillRetained(r)}
    BY <1>2 DEF KilledInPut, r
  <2>5. retained' \in SUBSET Record
    BY <2>4 DEF StillRetained, TypeOK
  <2>6. owed' \in [Keys -> Bodies \cup {NoBody, Unsure}]
    BY <1>2 DEF KilledInPut, Owe, TypeOK
  <2>7. live' \in [Files -> Content] /\ history' \in [Files -> [Stamps -> Content]]
    BY <2>1, <2>2, <2>3, LiveTyped, HistoryTyped DEF TypeOK
  <2>8. /\ phase' = "down" /\ restored' = FALSE /\ accepted' = {} /\ clock' = clock
        /\ registry' = Unpublished /\ held' = NothingHeld
    BY <1>2 DEF KilledInPut, Lose
  <2> QED
    BY <2>5, <2>6, <2>7, <2>8 DEF TypeOK, Unpublished, NothingHeld
<1>3. ASSUME NEW a \in Admins, RollbackPublish(a) PROVE TypeOK'
  <2>1. held[a].body \in Bodies
    BY <1>3 DEF RollbackPublish, TypeOK, Record
  <2> QED
    BY <1>3, <2>1, PublishBodyTyped DEF RollbackPublish, TypeOK, memory
<1>4. ASSUME NEW a \in Admins, NEW k \in Keys, RollbackRead(a, k) PROVE TypeOK'
  <2>1. ASSUME NEW s \in SnapshotStamps(history, k)
        PROVE  ReadSnapshot(history, k, s) \in Record
    BY <2>1 DEF SnapshotStamps, ReadSnapshot, Readable
  <2> QED
    BY <1>4, <2>1 DEF RollbackRead, TypeOK, memory
<1>5. ASSUME NEW k \in Keys, Delete(k) PROVE TypeOK'
  BY <1>5, StoreAssumption DEF Delete, RemoveLive, RemoveHistory, Content, TypeOK, memory
<1>6. CASE Start
  BY <1>6 DEF Start, TypeOK
<1>7. CASE Restore
  BY <1>7 DEF Restore, TypeOK
<1>8. CASE ServeUnrestored
  BY <1>8 DEF ServeUnrestored, TypeOK
<1>9. CASE Stop
  BY <1>9 DEF Stop, Lose, Unpublished, NothingHeld, TypeOK
<1>10. CASE Tick
  BY <1>10, StoreAssumption DEF Tick, Stamps, TypeOK, memory
<1>11. CASE UNCHANGED vars
  BY <1>11 DEF vars, TypeOK
<1> QED
  BY <1>1, <1>2, <1>3, <1>4, <1>5, <1>6, <1>7, <1>8, <1>9, <1>10, <1>11 DEF Next

(* Every variable of a view server's catalogs keeps its type, whatever fails. *)
THEOREM TypeCorrect == Spec => []TypeOK
  BY TypeInit, TypeNext, PTL DEF Spec

-----------------------------------------------------------------------------
(* What is served is valid. *)

(* Before it serves, a process has nothing registered and has restored nothing. *)
EmptyBeforeServing == phase # "serving" => registry = Unpublished /\ ~restored

Served == TypeOK /\ EmptyBeforeServing /\ ServedIsValid

(* A publish registers only what has just been validated, under its own key. *)
LEMMA PublishBodyServesValid ==
    ASSUME TypeOK, ServedIsValid, NEW b \in Bodies, PublishBody(b), accepted' = accepted
    PROVE  ServedIsValid'
<1> SUFFICES ASSUME NEW k \in Keys, registry'[k] # NoBody
             PROVE  registry'[k] \in accepted /\ BodyKey[registry'[k]] = k
  BY DEF ServedIsValid
<1>1. b \in accepted /\ registry' = [registry EXCEPT ![BodyKey[b]] = b]
  BY DEF PublishBody, Validates, Register
<1>2. CASE k = BodyKey[b]
  BY <1>1, <1>2 DEF TypeOK
<1>3. CASE k # BodyKey[b]
  BY <1>1, <1>3 DEF TypeOK, ServedIsValid
<1> QED
  BY <1>2, <1>3

LEMMA ServedNext == Served /\ [Next]_vars => Served'
<1> SUFFICES ASSUME Served, [Next]_vars PROVE EmptyBeforeServing' /\ ServedIsValid'
  BY TypeNext DEF Served
<1> USE DEF Served
<1>1. ASSUME NEW b \in Bodies, Publish(b) PROVE EmptyBeforeServing' /\ ServedIsValid'
  BY <1>1, PublishBodyServesValid DEF Publish, memory, EmptyBeforeServing
<1>2. ASSUME Lose PROVE EmptyBeforeServing' /\ ServedIsValid'
  BY <1>2 DEF Lose, EmptyBeforeServing, ServedIsValid, Unpublished
<1>3. ASSUME NEW a \in Admins, RollbackPublish(a)
      PROVE  EmptyBeforeServing' /\ ServedIsValid'
  <2>1. held[a].body \in Bodies
    BY <1>3 DEF RollbackPublish, TypeOK, Record
  <2>2. EmptyBeforeServing'
    BY <1>3 DEF RollbackPublish, memory, EmptyBeforeServing
  <2>3. CASE PublishBody(held[a].body)
    BY <1>3, <2>1, <2>2, <2>3, PublishBodyServesValid DEF RollbackPublish, memory
  <2>4. CASE registry' = registry
    BY <1>3, <2>2, <2>4 DEF RollbackPublish, memory, ServedIsValid
  <2> QED
    BY <1>3, <2>3, <2>4 DEF RollbackPublish
<1>4. ASSUME NEW k \in Keys, Delete(k) PROVE EmptyBeforeServing' /\ ServedIsValid'
  BY <1>4 DEF Delete, memory, EmptyBeforeServing, ServedIsValid, TypeOK
<1>5. CASE Start
  BY <1>5 DEF Start, EmptyBeforeServing, ServedIsValid, Unpublished
<1>6. CASE Restore
  BY <1>6 DEF Restore, Replays, Validates, EmptyBeforeServing, ServedIsValid
<1>7. CASE ServeUnrestored
  BY <1>7 DEF ServeUnrestored, EmptyBeforeServing, ServedIsValid
<1>8. ASSUME UNCHANGED <<memory, registry>> PROVE EmptyBeforeServing' /\ ServedIsValid'
  BY <1>8 DEF memory, EmptyBeforeServing, ServedIsValid
<1>9. ASSUME NEW b \in Bodies, KilledInPut(b) PROVE EmptyBeforeServing' /\ ServedIsValid'
  BY <1>2, <1>9 DEF KilledInPut
<1>10. CASE Stop
  BY <1>2, <1>10 DEF Stop
<1>11. ASSUME NEW a \in Admins, NEW k \in Keys, RollbackRead(a, k)
       PROVE  EmptyBeforeServing' /\ ServedIsValid'
  BY <1>8, <1>11 DEF RollbackRead
<1>12. CASE Tick
  BY <1>8, <1>12 DEF Tick
<1>13. CASE UNCHANGED vars
  BY <1>8, <1>13 DEF vars, memory
<1> QED
  BY <1>1, <1>3, <1>4, <1>5, <1>6, <1>7, <1>9, <1>10, <1>11, <1>12, <1>13 DEF Next

LEMMA ServedInvariant == Spec => []Served
<1>1. Init => Served
  BY TypeInit DEF Init, Served, EmptyBeforeServing, ServedIsValid, Unpublished
<1> QED
  BY <1>1, ServedNext, PTL DEF Spec

(* Whatever path a body took into a registry, it validates under the configuration
   of the process that serves it, and is served under the key it names. *)
THEOREM ServesOnlyValid == Spec => []ServedIsValid
<1>1. Served => ServedIsValid
  BY DEF Served
<1> QED
  BY <1>1, ServedInvariant, PTL

-----------------------------------------------------------------------------
(* What is retained stays readable. *)

(* A snapshot that is still retained is untouched by whatever becomes of the
   snapshot of another record. *)
LEMMA OthersStayRecoverable ==
    ASSUME TypeOK, Recoverable, NEW r \in Record, NEW q \in StillRetained(r)
    PROVE  /\ PutHistory(history, r)[FileOf(q)][StampFor(q)] = q
           /\ TearHistory(history, r)[FileOf(q)][StampFor(q)] = q
           /\ history[FileOf(q)][StampFor(q)] = q
<1>1. q \in retained /\ (FileOf(q) # FileOf(r) \/ StampFor(q) # StampFor(r))
  BY DEF StillRetained
<1>2. q \in Record /\ history[FileOf(q)][StampFor(q)] = q
  BY <1>1 DEF TypeOK, Recoverable
<1>3. FileOf(q) \in Files /\ StampFor(q) \in Stamps /\ FileOf(r) \in Files
        /\ StampFor(r) \in Stamps
  BY <1>2, RecordParts
<1> QED
  BY <1>1, <1>2, <1>3 DEF PutHistory, TearHistory, TypeOK

LEMMA PutIsRecoverable ==
    ASSUME TypeOK, NEW r \in Record
    PROVE  PutHistory(history, r)[FileOf(r)][StampFor(r)] = r
  BY RecordParts DEF PutHistory, TypeOK

LEMMA PublishBodyRecoverable ==
    ASSUME TypeOK, Recoverable, NEW b \in Bodies, PublishBody(b)
    PROVE  Recoverable'
<1> DEFINE r == [body |-> b, at |-> clock]
<1>1. r \in Record
  BY PublishedRecord
<1>2. \/ history' = PutHistory(history, r) /\ retained' = StillRetained(r) \cup {r}
      \/ history' \in {history, TearHistory(history, r)} /\ retained' = StillRetained(r)
      \/ UNCHANGED <<history, retained>>
  BY DEF PublishBody
<1> HIDE DEF r
<1> SUFFICES ASSUME NEW q \in retained' PROVE history'[FileOf(q)][StampFor(q)] = q
  BY DEF Recoverable, FileOf, StampFor
<1>3. CASE UNCHANGED <<history, retained>>
  BY <1>3 DEF Recoverable
<1>4. CASE q = r /\ history' = PutHistory(history, r)
  BY <1>1, <1>4, PutIsRecoverable
<1>5. CASE q \in StillRetained(r)
  BY <1>1, <1>2, <1>5, OthersStayRecoverable DEF StillRetained
<1> QED
  BY <1>2, <1>3, <1>4, <1>5

LEMMA RecoverableNext == TypeOK /\ Recoverable /\ [Next]_vars => Recoverable'
<1> SUFFICES ASSUME TypeOK, Recoverable, [Next]_vars PROVE Recoverable'
  OBVIOUS
<1>1. ASSUME UNCHANGED <<history, retained>> PROVE Recoverable'
  BY <1>1 DEF Recoverable, FileOf, StampFor
<1>2. ASSUME NEW b \in Bodies, Publish(b) PROVE Recoverable'
  BY <1>2, PublishBodyRecoverable DEF Publish
<1>3. ASSUME NEW b \in Bodies, KilledInPut(b) PROVE Recoverable'
  <2> DEFINE r == [body |-> b, at |-> clock]
  <2>1. r \in Record
    BY PublishedRecord
  <2>2. \/ UNCHANGED <<history, retained>>
        \/ /\ history' \in {history, TearHistory(history, r), PutHistory(history, r)}
           /\ retained' = StillRetained(r)
    BY <1>3 DEF KilledInPut
  <2> HIDE DEF r
  <2>3. CASE retained' = StillRetained(r)
                /\ history' \in {history, TearHistory(history, r), PutHistory(history, r)}
    <3> SUFFICES ASSUME NEW q \in StillRetained(r)
                 PROVE  history'[FileOf(q)][StampFor(q)] = q
      BY <2>3 DEF Recoverable, FileOf, StampFor
    <3> QED
      BY <2>1, <2>3, OthersStayRecoverable
  <2> QED
    BY <1>1, <2>2, <2>3
<1>4. ASSUME NEW a \in Admins, RollbackPublish(a) PROVE Recoverable'
  <2>1. held[a].body \in Bodies
    BY <1>4 DEF RollbackPublish, TypeOK, Record
  <2> QED
    BY <1>1, <1>4, <2>1, PublishBodyRecoverable DEF RollbackPublish
<1>5. ASSUME NEW k \in Keys, Delete(k) PROVE Recoverable'
  BY <1>1, <1>5 DEF Delete, RemoveHistory
<1>6. ASSUME NEW a \in Admins, NEW k \in Keys, RollbackRead(a, k) PROVE Recoverable'
  BY <1>1, <1>6 DEF RollbackRead
<1>7. CASE Start \/ Restore \/ ServeUnrestored \/ Stop \/ Tick
  BY <1>1, <1>7 DEF Start, Restore, ServeUnrestored, Stop, Tick
<1>8. CASE UNCHANGED vars
  BY <1>1, <1>8 DEF vars
<1> QED
  BY <1>2, <1>3, <1>4, <1>5, <1>6, <1>7, <1>8 DEF Next

(* A publish whose snapshot was written stays readable under its stamp through
   publishes, deletes, rollbacks and kills, until another publish of the same file
   carries the same stamp. *)
THEOREM RetainedStaysRecoverable == Spec => []Recoverable
<1>1. Init => Recoverable
  BY DEF Init, Recoverable
<1>2. (TypeOK /\ Recoverable) /\ [Next]_vars => (TypeOK /\ Recoverable)'
  BY TypeNext, RecoverableNext
<1> QED
  BY <1>1, <1>2, TypeInit, PTL DEF Spec

-----------------------------------------------------------------------------
(* A file only receives what has just been validated. *)

(* One file of a put, completed or torn: unreadable, untouched, or the record of
   a body that validates. *)
LEMMA PutStoresValid ==
    ASSUME TypeOK, NEW b \in Bodies, b \in accepted, NEW f \in Files,
           live' \in {live, PutLive(live, [body |-> b, at |-> clock]),
                      TearLive(live, [body |-> b, at |-> clock])},
           live'[f] # live[f], Readable(live'[f])
    PROVE  live'[f].body \in accepted
<1> DEFINE r == [body |-> b, at |-> clock]
<1>1. r \in Record /\ r.body = b
  BY PublishedRecord
<1>2. live' \in {live, PutLive(live, r), TearLive(live, r)}
  OBVIOUS
<1> HIDE DEF r
<1>3. live'[f] \in {live[f], r, Torn}
  BY <1>2 DEF PutLive, TearLive, TypeOK
<1> QED
  BY <1>1, <1>3, StoreAssumption DEF Readable

(* Nothing unreplayable is stored: a file only ever receives a body that the process
   writing it has just validated, whether the put is answered, fails or is killed. *)
THEOREM StoresOnlyValid == Spec => NothingUnreplayableStored
<1> DEFINE Stored ==
      \A f \in Files :
        live'[f] # live[f] /\ Readable(live'[f]) => live'[f].body \in accepted
<1>1. TypeOK /\ [Next]_vars => [Stored]_vars
  <2> SUFFICES ASSUME TypeOK, Next, NEW f \in Files, live'[f] # live[f], Readable(live'[f])
               PROVE  live'[f].body \in accepted
    OBVIOUS
  <2>1. ASSUME NEW b \in Bodies, PublishBody(b) PROVE live'[f].body \in accepted
    <3>1. /\ b \in accepted
          /\ live' \in {live, PutLive(live, [body |-> b, at |-> clock]),
                        TearLive(live, [body |-> b, at |-> clock])}
      BY <2>1 DEF PublishBody, Validates
    <3> QED
      BY <3>1, PutStoresValid
  <2>2. ASSUME NEW b \in Bodies, KilledInPut(b) PROVE live'[f].body \in accepted
    <3>1. /\ b \in accepted
          /\ live' \in {live, PutLive(live, [body |-> b, at |-> clock]),
                        TearLive(live, [body |-> b, at |-> clock])}
      BY <2>2 DEF KilledInPut, Validates
    <3> QED
      BY <3>1, PutStoresValid
  <2>3. ASSUME NEW a \in Admins, RollbackPublish(a) PROVE live'[f].body \in accepted
    <3>1. held[a].body \in Bodies
      BY <2>3 DEF RollbackPublish, TypeOK, Record
    <3> QED
      BY <2>1, <2>3, <3>1 DEF RollbackPublish
  <2>4. ASSUME NEW k \in Keys, Delete(k) PROVE live'[f].body \in accepted
    <3>1. live' \in {live, [live EXCEPT ![SafeFileName[k]] = Absent]}
      BY <2>4 DEF Delete, RemoveLive
    <3>2. live'[f] \in {live[f], Absent}
      BY <3>1 DEF TypeOK
    <3> QED
      BY <3>2, StoreAssumption DEF Readable
  <2>5. live' # live
    OBVIOUS
  <2> QED
    BY <2>1, <2>2, <2>3, <2>4, <2>5
    DEF Next, Publish, RollbackRead, Start, Restore, ServeUnrestored, Stop, Tick
<1>2. Spec => []TypeOK
  BY TypeCorrect
<1> QED
  BY <1>1, <1>2, PTL DEF Spec, NothingUnreplayableStored

-----------------------------------------------------------------------------
(* What is stored under each key, when no two keys share a file. *)

(* A put stores its body under its key and disturbs no other. *)
LEMMA StoredAfterPut ==
    ASSUME NoCollision, NEW l \in [Files -> Content], NEW r \in Record
    PROVE  StoredIn(PutLive(l, r)) = [StoredIn(l) EXCEPT ![BodyKey[r.body]] = r.body]
<1> DEFINE m == PutLive(l, r)
<1>1. r.body \in Bodies /\ BodyKey[r.body] \in Keys /\ FileOf(r) = SafeFileName[BodyKey[r.body]]
        /\ FileOf(r) \in Files /\ r.body # NoBody
  BY RecordParts, StoreAssumption DEF FileOf
<1>2. ASSUME NEW k \in Keys, k # BodyKey[r.body]
      PROVE  m[SafeFileName[k]] = l[SafeFileName[k]]
  BY <1>1, <1>2, StoreAssumption DEF PutLive, NoCollision
<1>3. m[SafeFileName[BodyKey[r.body]]] = r
  BY <1>1 DEF PutLive
<1>4. BodyIn(r) = r.body
  BY DEF BodyIn, Readable
<1>5. ASSUME NEW k \in Keys, k # BodyKey[r.body] PROVE StoredIn(m)[k] = StoredIn(l)[k]
  BY <1>2, <1>5 DEF StoredIn
<1>6. StoredIn(m)[BodyKey[r.body]] = r.body
  BY <1>1, <1>3, <1>4 DEF StoredIn
<1>7. /\ StoredIn(m) = [k \in Keys |-> StoredIn(m)[k]]
      /\ StoredIn(l) = [k \in Keys |-> StoredIn(l)[k]]
  BY DEF StoredIn
<1> HIDE DEF m
<1>8. StoredIn(m) = [StoredIn(l) EXCEPT ![BodyKey[r.body]] = r.body]
  BY <1>1, <1>5, <1>6, <1>7
<1> QED
  BY <1>8 DEF m

(* A put that tears the file leaves nothing under its key. *)
LEMMA StoredAfterTear ==
    ASSUME NoCollision, NEW l \in [Files -> Content], NEW r \in Record
    PROVE  StoredIn(TearLive(l, r)) = [StoredIn(l) EXCEPT ![BodyKey[r.body]] = NoBody]
<1> DEFINE m == TearLive(l, r)
<1>1. r.body \in Bodies /\ BodyKey[r.body] \in Keys /\ FileOf(r) = SafeFileName[BodyKey[r.body]]
        /\ FileOf(r) \in Files
  BY RecordParts, StoreAssumption DEF FileOf
<1>2. ASSUME NEW k \in Keys, k # BodyKey[r.body]
      PROVE  m[SafeFileName[k]] = l[SafeFileName[k]]
  BY <1>1, <1>2, StoreAssumption DEF TearLive, NoCollision
<1>3. m[SafeFileName[BodyKey[r.body]]] = Torn
  BY <1>1 DEF TearLive
<1>4. BodyIn(Torn) = NoBody
  BY StoreAssumption DEF BodyIn, Readable
<1> QED
  BY <1>1, <1>2, <1>3, <1>4 DEF StoredIn

(* A remove leaves nothing under its key. *)
LEMMA StoredAfterRemove ==
    ASSUME NoCollision, NEW l \in [Files -> Content], NEW k \in Keys
    PROVE  StoredIn(RemoveLive(l, k)) = [StoredIn(l) EXCEPT ![k] = NoBody]
<1> DEFINE m == RemoveLive(l, k)
<1>1. ASSUME NEW j \in Keys, j # k PROVE m[SafeFileName[j]] = l[SafeFileName[j]]
  BY <1>1, StoreAssumption DEF RemoveLive, NoCollision
<1>2. m[SafeFileName[k]] = Absent
  BY StoreAssumption DEF RemoveLive
<1>3. BodyIn(Absent) = NoBody
  BY StoreAssumption DEF BodyIn, Readable
<1> QED
  BY <1>1, <1>2, <1>3 DEF StoredIn

(* What a publish leaves stored: its body, the body before it, or nothing. *)
LEMMA PublishBodyStored ==
    ASSUME NoCollision, TypeOK, NEW b \in Bodies, PublishBody(b)
    PROVE  \/ /\ StoredIn(live)' = [StoredIn(live) EXCEPT ![BodyKey[b]] = b]
              /\ owed' = Owe(BodyKey[b], b)
           \/ /\ StoredIn(live)' \in {StoredIn(live),
                                      [StoredIn(live) EXCEPT ![BodyKey[b]] = NoBody]}
              /\ owed' = Owe(BodyKey[b], Unsure)
<1> DEFINE r == [body |-> b, at |-> clock]
<1>1. r \in Record /\ r.body = b
  BY PublishedRecord
<1>2. \/ live' = PutLive(live, r) /\ owed' = Owe(BodyKey[b], b)
      \/ live' \in {live, TearLive(live, r)} /\ owed' = Owe(BodyKey[b], Unsure)
  BY DEF PublishBody
<1> HIDE DEF r
<1>3. StoredIn(live)' = StoredIn(live')
  BY DEF StoredIn, BodyIn, Readable
<1> QED
  BY <1>1, <1>2, <1>3, StoredAfterPut, StoredAfterTear DEF TypeOK

-----------------------------------------------------------------------------
(* What the requests left, the store holds and the process serves. *)

(* Every readable file holds a record of the catalog that owns the file. *)
FilesFiled == \A f \in Files : Readable(live[f]) => FileOf(live[f]) = f

Mirrored == Served /\ FilesFiled /\ AckedIsStored /\ ServedMirrorsStore

(* Without collisions, what is owed under other keys is left alone. *)
LEMMA OweAlone ==
    ASSUME NoCollision, TypeOK, NEW k \in Keys, NEW what
    PROVE  \A l \in Keys : Owe(k, what)[l] = IF l = k THEN what ELSE owed[l]
  BY StoreAssumption DEF Owe, NoCollision

LEMMA PublishBodyMirrors ==
    ASSUME NoCollision, Mirrored, NEW b \in Bodies, PublishBody(b),
           phase = "serving", UNCHANGED memory
    PROVE  FilesFiled' /\ AckedIsStored' /\ ServedMirrorsStore'
<1> USE DEF Mirrored, Served
<1> DEFINE r == [body |-> b, at |-> clock]
<1>1. r \in Record /\ r.body = b /\ BodyKey[b] \in Keys /\ b \in accepted /\ b # Unsure /\ b # NoBody
        /\ Unsure # NoBody /\ Unsure \notin accepted
  BY PublishedRecord, StoreAssumption, LifecycleAssumption DEF PublishBody, Validates, TypeOK
<1>2. FilesFiled'
  <2>1. live' \in {live, PutLive(live, r), TearLive(live, r)}
    BY DEF PublishBody
  <2> HIDE DEF r
  <2>2. ASSUME NEW f \in Files PROVE live'[f] = live[f] \/ live'[f] = Torn
                                        \/ (live'[f] = r /\ FileOf(r) = f)
    BY <2>1 DEF PutLive, TearLive, TypeOK
  <2> QED
    BY <2>2, StoreAssumption DEF FilesFiled, FileOf, Readable
<1>3. AckedIsStored'
  <2> SUFFICES ASSUME NEW k \in Keys, owed'[k] # Unsure PROVE StoredIn(live)'[k] = owed'[k]
    BY DEF AckedIsStored
  <2>1. StoredIn(live) \in [Keys -> Bodies \cup {NoBody}]
    BY StoredTyped DEF TypeOK
  <2>2. CASE k = BodyKey[b]
    BY <1>1, <2>1, <2>2, PublishBodyStored, OweAlone
  <2>3. CASE k # BodyKey[b]
    <3>1. StoredIn(live)'[k] = StoredIn(live)[k]
      BY <2>1, <2>3, PublishBodyStored
    <3>2. owed'[k] = owed[k]
      BY <1>1, <2>3, PublishBodyStored, OweAlone
    <3> QED
      BY <3>1, <3>2 DEF AckedIsStored
  <2> QED
    BY <2>2, <2>3
<1>4. ServedMirrorsStore'
  <2>1. registry' = [registry EXCEPT ![BodyKey[b]] = b]
    BY DEF PublishBody, Register
  <2>2. owed'[BodyKey[b]] \in {b, Unsure}
    BY <1>1, PublishBodyStored, OweAlone
  <2>3. \A l \in Keys : l # BodyKey[b] => owed'[l] = owed[l] /\ registry'[l] = registry[l]
    BY <1>1, <2>1, PublishBodyStored, OweAlone DEF TypeOK
  <2>4. registry'[BodyKey[b]] = b
    BY <1>1, <2>1 DEF TypeOK
  <2>5. phase' = phase /\ accepted' = accepted /\ restored' = restored
    BY DEF memory
  <2> QED
    BY <1>1, <2>2, <2>3, <2>4, <2>5 DEF ServedMirrorsStore
<1> QED
  BY <1>2, <1>3, <1>4

(* A body replays under its key exactly when it is the one stored there. *)
LEMMA ReplaysStored ==
    ASSUME TypeOK, FilesFiled, NEW k \in Keys, NEW b \in Bodies, BodyKey[b] = k
    PROVE  b \in Replayed <=> StoredIn(live)[k] = b
<1>1. ASSUME b \in Replayed PROVE StoredIn(live)[k] = b
  <2>1. PICK f \in Files : Readable(live[f]) /\ live[f].body = b
    BY <1>1 DEF Replayed, ListRecords
  <2>2. f = SafeFileName[k]
    BY <2>1 DEF FilesFiled, FileOf
  <2> QED
    BY <2>1, <2>2, StoreAssumption DEF StoredIn, BodyIn
<1>2. ASSUME StoredIn(live)[k] = b PROVE b \in Replayed
  <2>1. SafeFileName[k] \in Files /\ b # NoBody
    BY StoreAssumption
  <2>2. Readable(live[SafeFileName[k]]) /\ live[SafeFileName[k]].body = b
    BY <1>2, <2>1 DEF StoredIn, BodyIn
  <2> QED
    BY <2>1, <2>2 DEF Replayed, ListRecords
<1> QED
  BY <1>1, <1>2

LEMMA MirroredNext ==
    ASSUME NoCollision, Mirrored, [Next]_vars
    PROVE  Mirrored'
<1> SUFFICES FilesFiled' /\ AckedIsStored' /\ ServedMirrorsStore'
  BY ServedNext DEF Mirrored
<1> USE DEF Mirrored, Served
<1>1. ASSUME UNCHANGED <<live, owed>> PROVE FilesFiled' /\ AckedIsStored'
  BY <1>1 DEF FilesFiled, AckedIsStored, StoredIn, BodyIn, FileOf, Readable
<1>2. ASSUME NEW b \in Bodies, Publish(b)
      PROVE  FilesFiled' /\ AckedIsStored' /\ ServedMirrorsStore'
  BY <1>2, PublishBodyMirrors DEF Publish
<1>3. ASSUME NEW a \in Admins, RollbackPublish(a)
      PROVE  FilesFiled' /\ AckedIsStored' /\ ServedMirrorsStore'
  <2>1. held[a].body \in Bodies
    BY <1>3 DEF RollbackPublish, TypeOK, Record
  <2>2. CASE PublishBody(held[a].body)
    BY <1>3, <2>1, <2>2, PublishBodyMirrors DEF RollbackPublish
  <2>3. CASE UNCHANGED <<registry, live, history, owed, retained>>
    BY <1>1, <1>3, <2>3 DEF RollbackPublish, memory, ServedMirrorsStore
  <2> QED
    BY <1>3, <2>2, <2>3 DEF RollbackPublish
<1>4. ASSUME NEW k \in Keys, Delete(k)
      PROVE  FilesFiled' /\ AckedIsStored' /\ ServedMirrorsStore'
  <2>1. live' \in {live, RemoveLive(live, k)}
    BY <1>4 DEF Delete
  <2>2. FilesFiled'
    BY <2>1, StoreAssumption DEF FilesFiled, FileOf, Readable, RemoveLive, TypeOK
  <2>3. StoredIn(live)' = StoredIn(live')
    BY DEF StoredIn, BodyIn, Readable
  <2>4. StoredIn(live) \in [Keys -> Bodies \cup {NoBody}]
    BY StoredTyped DEF TypeOK
  <2>5. \/ /\ StoredIn(live)' = [StoredIn(live) EXCEPT ![k] = NoBody]
           /\ owed' = [owed EXCEPT ![k] = NoBody]
        \/ /\ StoredIn(live)' = StoredIn(live)
           /\ owed' = [owed EXCEPT ![k] = Unsure]
    BY <1>4, <2>3, StoredAfterRemove DEF Delete, TypeOK
  <2>6. AckedIsStored'
    BY <2>4, <2>5 DEF AckedIsStored, TypeOK
  <2>7. owed'[k] \in {NoBody, Unsure} /\ registry'[k] = NoBody
    BY <1>4, <2>5 DEF Delete, TypeOK
  <2>8. \A l \in Keys : l # k => owed'[l] = owed[l] /\ registry'[l] = registry[l]
    BY <1>4, <2>5 DEF Delete, TypeOK
  <2>9. Unsure \notin accepted \cup {NoBody}
    BY LifecycleAssumption DEF TypeOK
  <2>10. phase' = phase /\ accepted' = accepted /\ restored' = restored
    BY <1>4 DEF Delete, memory
  <2> QED
    BY <2>2, <2>6, <2>7, <2>8, <2>9, <2>10 DEF ServedMirrorsStore
<1>5. ASSUME NEW b \in Bodies, KilledInPut(b)
      PROVE  FilesFiled' /\ AckedIsStored' /\ ServedMirrorsStore'
  <2> DEFINE r == [body |-> b, at |-> clock]
  <2>1. r \in Record /\ r.body = b /\ BodyKey[b] \in Keys
    BY PublishedRecord
  <2>2. /\ live' \in {live, PutLive(live, r), TearLive(live, r)}
        /\ owed' = Owe(BodyKey[b], Unsure) /\ phase' = "down"
    BY <1>5 DEF KilledInPut, Lose
  <2> HIDE DEF r
  <2>3. ASSUME NEW f \in Files PROVE live'[f] = live[f] \/ live'[f] = Torn
                                        \/ (live'[f] = r /\ FileOf(r) = f)
    BY <2>2 DEF PutLive, TearLive, TypeOK
  <2>4. FilesFiled'
    BY <2>3, StoreAssumption DEF FilesFiled, FileOf, Readable
  <2>5. ASSUME NEW k \in Keys, owed'[k] # Unsure PROVE StoredIn(live)'[k] = owed'[k]
    <3>1. k # BodyKey[b] /\ owed'[k] = owed[k]
      BY <2>1, <2>2, <2>5, OweAlone
    <3>2. live'[SafeFileName[k]] = live[SafeFileName[k]]
      BY <2>1, <2>2, <3>1, StoreAssumption DEF PutLive, TearLive, FileOf, NoCollision, TypeOK
    <3> QED
      BY <2>5, <3>1, <3>2 DEF AckedIsStored, StoredIn, BodyIn, Readable
  <2> QED
    BY <2>2, <2>4, <2>5 DEF AckedIsStored, ServedMirrorsStore
<1>6. CASE Restore
  <2>1. FilesFiled' /\ AckedIsStored' /\ UNCHANGED <<accepted, owed>>
    BY <1>1, <1>6 DEF Restore
  <2>2. ASSUME NEW k \in Keys
        PROVE  \/ /\ registry'[k] \in Bodies \cap accepted /\ StoredIn(live)[k] = registry'[k]
               \/ /\ registry'[k] = NoBody
                  /\ ~\E b \in Bodies \cap accepted : BodyKey[b] = k /\ StoredIn(live)[k] = b
    <3>1. CASE Replays(registry'[k]) /\ BodyKey[registry'[k]] = k
      <4>1. registry'[k] \in accepted /\ registry'[k] \in Bodies /\ registry'[k] \in Replayed
        BY <3>1 DEF Replays, Validates, TypeOK
      <4> QED
        BY <3>1, <4>1, ReplaysStored
    <3>2. CASE registry'[k] = NoBody /\ ~\E b \in Replayed : Replays(b) /\ BodyKey[b] = k
      <4> SUFFICES ASSUME NEW b \in Bodies, b \in accepted, BodyKey[b] = k,
                          StoredIn(live)[k] = b
                   PROVE  FALSE
        BY <3>2
      <4>1. b \in Replayed
        BY ReplaysStored
      <4> QED
        BY <3>2, <4>1 DEF Replays, Validates
    <3> QED
      BY <1>6, <3>1, <3>2 DEF Restore
  <2>3. ASSUME NEW k \in Keys, owed[k] \in Bodies PROVE BodyKey[owed[k]] = k
    BY <2>3, StoreAssumption, LifecycleAssumption DEF AckedIsStored, StoredIn
  <2>4. Unsure \notin accepted \cup {NoBody} /\ NoBody \notin accepted
    BY StoreAssumption, LifecycleAssumption DEF TypeOK
  <2>5. ASSUME NEW k \in Keys, owed[k] \in accepted \cup {NoBody} PROVE registry'[k] = owed[k]
    BY <2>2, <2>3, <2>4, <2>5, StoreAssumption DEF AckedIsStored, TypeOK
  <2>6. ASSUME NEW k \in Keys, registry'[k] # NoBody, owed[k] # Unsure
        PROVE  registry'[k] = owed[k]
    BY <2>2, <2>6 DEF AckedIsStored
  <2> QED
    BY <2>1, <2>5, <2>6 DEF ServedMirrorsStore
<1>7. CASE ServeUnrestored
  BY <1>1, <1>7 DEF ServeUnrestored, EmptyBeforeServing, Unpublished, ServedMirrorsStore
<1>8. CASE Start
  BY <1>1, <1>8 DEF Start, ServedMirrorsStore
<1>9. CASE Stop
  BY <1>1, <1>9 DEF Stop, Lose, ServedMirrorsStore
<1>10. ASSUME UNCHANGED <<memory, registry, live, owed>>
       PROVE  FilesFiled' /\ AckedIsStored' /\ ServedMirrorsStore'
  BY <1>1, <1>10 DEF memory, ServedMirrorsStore
<1>11. ASSUME NEW a \in Admins, NEW k \in Keys, RollbackRead(a, k)
       PROVE  FilesFiled' /\ AckedIsStored' /\ ServedMirrorsStore'
  BY <1>10, <1>11 DEF RollbackRead
<1>12. CASE Tick
  BY <1>10, <1>12 DEF Tick
<1>13. CASE UNCHANGED vars
  BY <1>10, <1>13 DEF vars, memory
<1> QED
  BY <1>2, <1>3, <1>4, <1>5, <1>6, <1>7, <1>8, <1>9, <1>11, <1>12, <1>13 DEF Next

LEMMA MirroredInvariant == ASSUME NoCollision PROVE Spec => []Mirrored
<1>1. Init => Mirrored
  <2> SUFFICES ASSUME Init PROVE Mirrored
    OBVIOUS
  <2>1. Served
    BY TypeInit DEF Init, Served, EmptyBeforeServing, ServedIsValid, Unpublished
  <2> QED
    BY <2>1 DEF Init, Mirrored, FilesFiled, AckedIsStored, ServedMirrorsStore
<1>2. Mirrored /\ [Next]_vars => Mirrored'
  BY MirroredNext
<1> QED
  BY <1>1, <1>2, PTL DEF Spec

(* When no two catalogs share a file, a publish or delete that was answered with
   success is what the store holds, until a later request on that catalog fails. *)
THEOREM AnsweredIsStored == ASSUME NoCollision PROVE Spec => []AckedIsStored
<1>1. Mirrored => AckedIsStored
  BY DEF Mirrored
<1> QED
  BY <1>1, MirroredInvariant, PTL

(* Under the same assumption, a restored process serves what the answered requests
   left, and an unrestored one nothing older than its own publishes. *)
THEOREM ServesWhatIsOwed == ASSUME NoCollision PROVE Spec => []ServedMirrorsStore
<1>1. Mirrored => ServedMirrorsStore
  BY DEF Mirrored
<1> QED
  BY <1>1, MirroredInvariant, PTL

-----------------------------------------------------------------------------
(* The lifecycle implements PublishedCatalogs. *)

(* A publish, whatever becomes of its writes, is a publish of the abstraction. *)
LEMMA PublishBodyRefines ==
    ASSUME NoCollision, TypeOK, NEW b \in Bodies, PublishBody(b)
    PROVE  Published!Publish(b) \/ Published!PublishUnstored(b)
<1>1. registry' = [registry EXCEPT ![BodyKey[b]] = b]
  BY DEF PublishBody, Register
<1> QED
  BY <1>1, PublishBodyStored DEF Published!Publish, Published!PublishUnstored

(* A kill in a put leaves the stored body, the new one, or nothing. *)
LEMMA KilledInPutRefines ==
    ASSUME NoCollision, TypeOK, NEW b \in Bodies, KilledInPut(b)
    PROVE  Published!Stop
<1> DEFINE r == [body |-> b, at |-> clock]
<1>1. r \in Record /\ r.body = b
  BY PublishedRecord
<1>2. live' \in {live, PutLive(live, r), TearLive(live, r)} /\ registry' = Unpublished
  BY DEF KilledInPut, Lose
<1> HIDE DEF r
<1>3. StoredIn(live)' = StoredIn(live')
  BY DEF StoredIn, BodyIn, Readable
<1>4. StoredIn(live)' \in {StoredIn(live), [StoredIn(live) EXCEPT ![BodyKey[b]] = b],
                           [StoredIn(live) EXCEPT ![BodyKey[b]] = NoBody]}
  BY <1>1, <1>2, <1>3, StoredAfterPut, StoredAfterTear DEF TypeOK
<1> QED
  BY <1>2, <1>4 DEF Published!Stop, Published!Nothing, Unpublished

LEMMA StepRefines ==
    ASSUME NoCollision, Mirrored, [Next]_vars
    PROVE  [Published!Next]_(Published!vars)
<1> USE DEF Mirrored, Served
<1>1. ASSUME UNCHANGED <<registry, live>> PROVE UNCHANGED Published!vars
  BY <1>1 DEF Published!vars, StoredIn, BodyIn, Readable
<1>2. ASSUME NEW b \in Bodies, Publish(b) PROVE Published!Next
  BY <1>2, PublishBodyRefines DEF Publish, Published!Next
<1>3. ASSUME NEW a \in Admins, RollbackPublish(a)
      PROVE  Published!Next \/ UNCHANGED Published!vars
  <2>1. held[a].body \in Bodies
    BY <1>3 DEF RollbackPublish, TypeOK, Record
  <2> QED
    BY <1>1, <1>3, <2>1, PublishBodyRefines DEF RollbackPublish, Published!Next
<1>4. ASSUME NEW k \in Keys, Delete(k) PROVE Published!Next
  <2>1. live' \in {live, RemoveLive(live, k)} /\ registry' = [registry EXCEPT ![k] = NoBody]
    BY <1>4 DEF Delete
  <2>2. StoredIn(live)' = StoredIn(live')
    BY DEF StoredIn, BodyIn, Readable
  <2>3. Published!Delete(k)
    BY <2>1, <2>2, StoredAfterRemove DEF Published!Delete, TypeOK
  <2> QED
    BY <2>3 DEF Published!Next
<1>5. ASSUME NEW b \in Bodies, KilledInPut(b) PROVE Published!Next
  BY <1>5, KilledInPutRefines DEF Published!Next
<1>6. CASE Restore
  <2>1. registry = Unpublished
    BY <1>6 DEF Restore, EmptyBeforeServing
  <2>2. ASSUME NEW k \in Keys PROVE registry'[k] \in {StoredIn(live)[k], NoBody}
    <3>1. CASE Replays(registry'[k]) /\ BodyKey[registry'[k]] = k
      <4>1. registry'[k] \in Bodies /\ registry'[k] \in Replayed
        BY <3>1 DEF Replays, Validates, TypeOK
      <4> QED
        BY <3>1, <4>1, ReplaysStored
    <3> QED
      BY <1>6, <3>1 DEF Restore
  <2>3. UNCHANGED StoredIn(live)
    BY <1>6 DEF Restore, StoredIn, BodyIn, Readable
  <2>4. Published!Restore
    BY <1>6, <2>1, <2>2, <2>3
    DEF Restore, Published!Restore, Published!Nothing, Unpublished
  <2> QED
    BY <2>4 DEF Published!Next
<1>7. CASE Stop
  <2>1. registry' = Unpublished /\ UNCHANGED StoredIn(live)
    BY <1>7 DEF Stop, Lose, StoredIn, BodyIn, Readable
  <2> QED
    BY <2>1 DEF Published!Next, Published!Stop, Published!Nothing, Unpublished
<1>8. ASSUME NEW a \in Admins, NEW k \in Keys, RollbackRead(a, k)
      PROVE  UNCHANGED Published!vars
  BY <1>1, <1>8 DEF RollbackRead
<1>9. CASE Start \/ ServeUnrestored \/ Tick
  BY <1>1, <1>9 DEF Start, ServeUnrestored, Tick
<1>10. CASE UNCHANGED vars
  BY <1>1, <1>10 DEF vars
<1> QED
  BY <1>2, <1>3, <1>4, <1>5, <1>6, <1>7, <1>8, <1>9, <1>10 DEF Next

(* When no two catalogs share a file, every behaviour of the server, its failed
   writes, kills and partial restores included, is one PublishedCatalogs allows. *)
THEOREM LifecycleRefines == ASSUME NoCollision PROVE Spec => ImplementsPublished
<1>1. Init => Published!Init
  <2> SUFFICES ASSUME Init PROVE Published!Init
    OBVIOUS
  <2>1. StoredIn(live) \in [Keys -> Bodies \cup {NoBody}]
    BY TypeInit, StoredTyped DEF TypeOK
  <2> QED
    BY <2>1 DEF Init, Published!Init, Published!Nothing, Unpublished
<1>2. Mirrored /\ [Next]_vars => [Published!Next]_(Published!vars)
  BY StepRefines
<1> QED
  BY <1>1, <1>2, MirroredInvariant, PTL DEF Spec, ImplementsPublished, Published!Spec

-----------------------------------------------------------------------------
(* Induction over the numbers, as a set that holds zero and what follows each of its
   numbers: an infinite descent in it would be one among finite sets. *)
LEMMA SetInduction ==
    ASSUME NEW S, 0 \in S, \A n \in Nat : n \in S => n + 1 \in S
    PROVE  Nat \subseteq S
<1> SUFFICES ASSUME ~(Nat \subseteq S) PROVE FALSE
  OBVIOUS
<1> DEFINE Missed == {1 .. n : n \in Nat \ S}
<1>1. Missed # {} /\ Missed \subseteq FiniteSubsetsOf(Nat)
  <2>1. \A n \in Nat : IsFiniteSet(1 .. n) /\ 1 .. n \subseteq Nat
    BY FS_Interval
  <2> QED
    BY <2>1 DEF FiniteSubsetsOf
<1>2. PICK U \in Missed : \A V \in Missed : <<V, U>> \notin StrictSubsetOrdering(Nat)
  <2> HIDE DEF Missed
  <2> QED
    BY <1>1, WFMin, FS_StrictSubsetOrderingWellFounded
<1>3. PICK n \in Nat \ S : U = 1 .. n
  OBVIOUS
<1>4. n # 0 /\ n - 1 \in Nat /\ (n - 1) + 1 = n
  BY <1>3
<1>5. n - 1 \in Nat \ S
  BY <1>3, <1>4
<1>6. 1 .. (n - 1) \in Missed
  BY <1>5
<1>7. 1 .. (n - 1) \subseteq 1 .. n /\ 1 .. (n - 1) # 1 .. n
  <2>1. n \in 1 .. n /\ n \notin 1 .. (n - 1)
    BY <1>4
  <2> QED
    BY <1>4, <2>1
<1>8. <<1 .. (n - 1), U>> \in StrictSubsetOrdering(Nat)
  BY <1>3, <1>7 DEF StrictSubsetOrdering
<1> QED
  BY <1>2, <1>6, <1>8

(* A step maps a number and a member of S to one of S; f follows it from the base. *)
Steps(n, S, step) == \A k \in 1 .. n, x \in S : step[<<k, x>>] \in S
Follows(f, n, S, base, step) ==
    f \in [0 .. n -> S] /\ f[0] = base /\ \A k \in 1 .. n : f[k] = step[<<k, f[k - 1]>>]

(* A function of the numbers up to n that begins and goes on as it is told. *)
LEMMA Recursion ==
    ASSUME NEW n \in Nat, NEW S, NEW base \in S, NEW step, Steps(n, S, step)
    PROVE  \E f : Follows(f, n, S, base, step)
<1> DEFINE Upto(m, f) == f[0] = base /\ \A k \in 1 .. m : f[k] = step[<<k, f[k - 1]>>]
           Fine(m) == \E f \in [0 .. m -> S] : Upto(m, f)
           D == {m \in Nat : m <= n => Fine(m)}
<1>1. Fine(0)
  <2>1. [k \in 0 .. 0 |-> base] \in [0 .. 0 -> S] /\ Upto(0, [k \in 0 .. 0 |-> base])
    OBVIOUS
  <2> QED
    BY <2>1
<1>2. ASSUME NEW m \in Nat, Fine(m), m + 1 <= n PROVE Fine(m + 1)
  <2>1. PICK f \in [0 .. m -> S] : Upto(m, f)
    BY <1>2
  <2> DEFINE g == [k \in 0 .. m + 1 |-> IF k = m + 1 THEN step[<<m + 1, f[m]>>] ELSE f[k]]
  <2>2. f[m] \in S /\ step[<<m + 1, f[m]>>] \in S
    BY <1>2 DEF Steps
  <2>3. g \in [0 .. m + 1 -> S]
    BY <2>2
  <2>4. \A k \in 0 .. m : g[k] = f[k]
    OBVIOUS
  <2>5. g[m + 1] = step[<<m + 1, g[m]>>]
    <3>1. g[m] = f[m]
      BY <2>4
    <3>2. g[m + 1] = step[<<m + 1, f[m]>>]
      OBVIOUS
    <3> QED
      BY <3>1, <3>2
  <2>6. Upto(m + 1, g)
    <3>1. g[0] = base
      BY <2>1, <2>4
    <3>2. ASSUME NEW k \in 1 .. m + 1 PROVE g[k] = step[<<k, g[k - 1]>>]
      <4>1. CASE k = m + 1
        <5>1. k - 1 = m
          BY <4>1
        <5> HIDE DEF g
        <5> QED
          BY <2>5, <4>1, <5>1
      <4>2. CASE k # m + 1
        <5>1. k \in 1 .. m /\ k \in 0 .. m /\ k - 1 \in 0 .. m
          BY <4>2
        <5> QED
          BY <5>1, <2>1, <2>4
      <4> QED
        BY <4>1, <4>2
    <3> QED
      BY <3>1, <3>2
  <2> QED
    BY <2>3, <2>6
<1>3. n \in D
  <2> HIDE DEF Fine
  <2>1. 0 \in D /\ \A m \in Nat : m \in D => m + 1 \in D
    BY <1>1, <1>2
  <2> HIDE DEF D
  <2> QED
    BY <2>1, SetInduction
<1> QED
  BY <1>3 DEF Follows

(* How a list is filtered, member by member. *)
Filters(only, list, S) ==
    /\ only[0] = <<>> /\ Only(list, S) = only[Len(list)]
    /\ \A k \in 1 .. Len(list) : only[k] = IF list[k] \in S THEN Append(only[k - 1], list[k]) ELSE only[k - 1]
LEMMA OnlySteps ==
    ASSUME NEW T, NEW list \in Seq(T), NEW S
    PROVE  \E only : Filters(only, list, S)
<1> DEFINE n == Len(list)
           Q == Seq(T)
           Then(k, s) == IF list[k] \in S THEN Append(s, list[k]) ELSE s
           E(f) == [k \in 0 .. n |-> IF k = 0 THEN <<>> ELSE Then(k, f[k - 1])]
           only == CHOOSE f : f = E(f)
<1>1. n \in Nat /\ DOMAIN list = 1 .. n /\ \A k \in 1 .. n : list[k] \in T
  OBVIOUS
<1> HIDE DEF n
<1>2. \A k \in 1 .. n, s \in Q : Then(k, s) \in Q
  BY <1>1
<1>3. \E f : f = E(f)
  <2> DEFINE step == [x \in (1 .. n) \X Q |-> Then(x[1], x[2])]
  <2>1. Steps(n, Q, step)
    <3> HIDE DEF Then, Q
    <3> QED
      BY <1>2 DEF Steps
  <2>2. <<>> \in Q
    OBVIOUS
  <2>3. PICK f : Follows(f, n, Q, <<>>, step)
    <3> HIDE DEF Q, step
    <3> QED
      BY <1>1, <2>1, <2>2, Recursion
  <2>4. ASSUME NEW k \in 1 .. n PROVE f[k] = Then(k, f[k - 1])
    <3>1. k - 1 \in 0 .. n
      BY <1>1
    <3>2. f[k - 1] \in Q /\ <<k, f[k - 1]>> \in (1 .. n) \X Q
      BY <2>3, <3>1 DEF Follows
    <3> HIDE DEF Then, Q
    <3> QED
      BY <2>3, <3>2 DEF Follows
  <2>5. f = E(f)
    <3> HIDE DEF Then, Q
    <3> QED
      BY <2>3, <2>4, <1>1 DEF Follows
  <2> QED
    BY <2>5
<1>4. only[0] = <<>> /\ \A k \in 1 .. n : only[k] = Then(k, only[k - 1])
  <2>1. only = E(only)
    BY <1>3
  <2> HIDE DEF only, Then
  <2>2. \A f : f = E(f) => f[0] = <<>> /\ \A k \in 1 .. n : f[k] = Then(k, f[k - 1])
    BY <1>1
  <2> HIDE DEF E
  <2> QED
    BY <2>1, <2>2
<1>5. Only(list, S) = only[n]
  <2>1. Only(list, S) = IF list = <<>> THEN <<>> ELSE only[n]
    BY DEF Only, n
  <2>2. list = <<>> => n = 0
    BY DEF n
  <2> HIDE DEF only
  <2> QED
    BY <1>4, <2>1, <2>2
<1> HIDE DEF only
<1> QED
  BY <1>4, <1>5 DEF n, Filters

(* What is left of a list: what was in it and is in the set. *)
LEMMA OnlyAre ==
    ASSUME NEW T, NEW list \in Seq(T), NEW S
    PROVE  /\ Only(list, S) \in Seq(T)
           /\ Range(Only(list, S)) = {x \in Range(list) : x \in S}
<1> DEFINE n == Len(list)
           Q == Seq(T)
<1>1. n \in Nat /\ DOMAIN list = 1 .. n /\ \A k \in 1 .. n : list[k] \in T
  OBVIOUS
<1>2. PICK only : /\ only[0] = <<>> /\ Only(list, S) = only[n]
                  /\ \A k \in 1 .. n : only[k] = IF list[k] \in S THEN Append(only[k - 1], list[k]) ELSE only[k - 1]
  <2>1. \E only : Filters(only, list, S)
    BY OnlySteps, Zenon
  <2> QED
    BY <2>1 DEF Filters
<1> HIDE DEF n
<1> DEFINE Good(k, s) ==
        /\ s \in Q
        /\ \A i \in 1 .. Len(s) : s[i] \in S /\ \E j \in 1 .. k : s[i] = list[j]
        /\ \A j \in 1 .. k : list[j] \in S => \E i \in 1 .. Len(s) : s[i] = list[j]
    D == {k \in Nat : k <= n => Good(k, only[k])}
<1>6. 0 \in D
  <2>1. Good(0, <<>>)
    OBVIOUS
  <2> HIDE DEF Good
  <2> QED
    BY <1>2, <2>1
<1>7. ASSUME NEW k \in Nat, k \in D PROVE k + 1 \in D
  <2> SUFFICES ASSUME k + 1 <= n PROVE Good(k + 1, only[k + 1])
    OBVIOUS
  <2> DEFINE s == only[k]
             t == only[k + 1]
             x == list[k + 1]
  <2> SUFFICES Good(k + 1, t)
    OBVIOUS
  <2>1. Good(k, s)
    BY <1>7, <1>1
  <2>2. t = IF x \in S THEN Append(s, x) ELSE s
    <3>1. k + 1 \in 1 .. n /\ (k + 1) - 1 = k
      BY <1>1
    <3> QED
      BY <1>2, <3>1
  <2>3. x \in T /\ s \in Seq(T)
    BY <1>1, <2>1
  <2>4. \A j \in 1 .. k + 1 : j \in 1 .. k \/ j = k + 1
    OBVIOUS
  <2>5. k + 1 \in 1 .. k + 1 /\ \A j \in 1 .. k : j \in 1 .. k + 1
    OBVIOUS
  <2>6. CASE x \notin S
    <3>1. t = s
      BY <2>2, <2>6
    <3> HIDE DEF s, t
    <3>2. ASSUME NEW i \in 1 .. Len(s) PROVE s[i] \in S /\ \E j \in 1 .. k + 1 : s[i] = list[j]
      BY <2>1, <2>5
    <3>3. ASSUME NEW j \in 1 .. k + 1, list[j] \in S PROVE \E i \in 1 .. Len(s) : s[i] = list[j]
      <4>1. j \in 1 .. k
        BY <2>4, <2>6, <3>3
      <4> QED
        BY <2>1, <3>3, <4>1
    <3> QED
      BY <2>1, <3>1, <3>2, <3>3
  <2>7. CASE x \in S
    <3>1. t = Append(s, x)
      BY <2>2, <2>7
    <3> HIDE DEF t
    <3>2. /\ t \in Q /\ Len(t) = Len(s) + 1 /\ t[Len(s) + 1] = x /\ Len(s) \in Nat
          /\ \A i \in 1 .. Len(s) : t[i] = s[i]
      BY <2>3, <3>1
    <3> HIDE DEF s
    <3>3. /\ Len(s) + 1 \in 1 .. Len(t)
          /\ \A i \in 1 .. Len(t) : i \in 1 .. Len(s) \/ i = Len(s) + 1
          /\ \A i \in 1 .. Len(s) : i \in 1 .. Len(t)
      BY <3>2
    <3>4. ASSUME NEW i \in 1 .. Len(t) PROVE t[i] \in S /\ \E j \in 1 .. k + 1 : t[i] = list[j]
      <4>1. CASE i = Len(s) + 1
        BY <4>1, <3>2, <2>5, <2>7
      <4>2. CASE i \in 1 .. Len(s)
        <5>1. PICK j \in 1 .. k : s[i] = list[j]
          BY <2>1, <4>2
        <5> QED
          BY <5>1, <4>2, <3>2, <2>1, <2>5
      <4> QED
        BY <3>3, <4>1, <4>2
    <3>5. ASSUME NEW j \in 1 .. k + 1, list[j] \in S PROVE \E i \in 1 .. Len(t) : t[i] = list[j]
      <4>1. CASE j = k + 1
        BY <4>1, <3>2, <3>3
      <4>2. CASE j \in 1 .. k
        <5>1. PICK i \in 1 .. Len(s) : s[i] = list[j]
          BY <2>1, <3>5, <4>2
        <5> QED
          BY <5>1, <3>2, <3>3
      <4> QED
        BY <2>4, <4>1, <4>2
    <3> QED
      BY <3>2, <3>4, <3>5
  <2> HIDE DEF Good, t, x
  <2> QED
    BY <2>6, <2>7
<1>8. Good(n, only[n])
  <2>1. n \in D
    <3> HIDE DEF D
    <3> QED
      BY <1>1, <1>6, <1>7, SetInduction
  <2> QED
    BY <1>1, <2>1
<1> DEFINE s == only[n]
<1>9. Range(s) = {x \in Range(list) : x \in S}
  <2>1. DOMAIN s = 1 .. Len(s)
    BY <1>8
  <2>2. Good(n, s)
    BY <1>8
  <2> HIDE DEF s
  <2>3. ASSUME NEW i \in 1 .. Len(s) PROVE s[i] \in Range(list) /\ s[i] \in S
    BY <1>1, <2>2 DEF Range
  <2>4. ASSUME NEW x \in Range(list), x \in S PROVE x \in Range(s)
    <3>1. PICK j \in 1 .. n : x = list[j]
      BY <1>1 DEF Range
    <3>2. PICK i \in 1 .. Len(s) : s[i] = list[j]
      BY <2>2, <2>4, <3>1
    <3> QED
      BY <2>1, <3>1, <3>2 DEF Range
  <2>5. \A x \in Range(s) : \E i \in 1 .. Len(s) : x = s[i]
    BY <2>1 DEF Range
  <2> QED
    BY <2>3, <2>4, <2>5
<1> QED
  BY <1>2, <1>8, <1>9

(* A number of a set of numbers that is the least. *)
LEMMA LeastOf ==
    ASSUME NEW S \in SUBSET Nat, S # {}
    PROVE  \E x \in S : \A y \in S : x <= y
<1> DEFINE below == {n \in Nat : \A m \in 0 .. n : m \notin S}
<1> SUFFICES ASSUME \A x \in S : \E y \in S : ~(x <= y) PROVE FALSE
  OBVIOUS
<1>1. 0 \in below
  OBVIOUS
<1>2. ASSUME NEW n \in Nat, n \in below PROVE n + 1 \in below
  <2>1. \A m \in 0 .. n : m \notin S
    BY <1>2
  <2>2. n + 1 \notin S
    BY <2>1
  <2> QED
    BY <2>1, <2>2
<1>3. Nat \subseteq below
  <2> HIDE DEF below
  <2> QED
    BY <1>1, <1>2, SetInduction
<1>4. PICK x : x \in S
  OBVIOUS
<1>5. x \in below /\ x \in 0 .. x
  BY <1>3, <1>4
<1> QED
  BY <1>4, <1>5

-----------------------------------------------------------------------------
(* What is in a document. *)

(* The members of a list. *)
LEMMA RangeIs ==
    ASSUME NEW T, NEW list \in Seq(T)
    PROVE  /\ list \in Seq(Range(list)) /\ Range(list) \subseteq T
           /\ \A x \in Range(list) : \E i \in 1 .. Len(list) : x = list[i]
           /\ \A i \in 1 .. Len(list) : list[i] \in Range(list)
<1>1. DOMAIN list = 1 .. Len(list) /\ Len(list) \in Nat /\ \A i \in 1 .. Len(list) : list[i] \in T
  OBVIOUS
<1>2. \A i \in 1 .. Len(list) : list[i] \in Range(list)
  BY <1>1 DEF Range
<1>3. list \in [1 .. Len(list) -> Range(list)]
  BY <1>1, <1>2
<1> QED
  BY <1>1, <1>2, <1>3 DEF Range

(* The members of a list made of two. *)
LEMMA JoinedRange ==
    ASSUME NEW s, NEW t, s \in Seq(Range(s)), t \in Seq(Range(t))
    PROVE  /\ s \o t \in Seq(Range(s) \cup Range(t))
           /\ Range(s \o t) = Range(s) \cup Range(t)
<1> DEFINE S == Range(s)
           T == Range(t)
           u == s \o t
<1>1. s \in Seq(S \cup T) /\ t \in Seq(S \cup T)
  <2> HIDE DEF S, T
  <2>1. s \in Seq(S) /\ t \in Seq(T)
    BY DEF S, T
  <2> QED
    BY <2>1
<1>2. /\ u \in Seq(S \cup T) /\ Len(u) = Len(s) + Len(t) /\ Len(s) \in Nat /\ Len(t) \in Nat
      /\ \A i \in 1 .. Len(s) : u[i] = s[i]
      /\ \A i \in 1 .. Len(t) : u[Len(s) + i] = t[i]
  BY <1>1
<1> HIDE DEF u
<1>3. /\ \A i \in 1 .. Len(u) : i \in 1 .. Len(s) \/ \E j \in 1 .. Len(t) : i = Len(s) + j
      /\ \A i \in 1 .. Len(s) : i \in 1 .. Len(u)
      /\ \A i \in 1 .. Len(t) : Len(s) + i \in 1 .. Len(u)
  <2>1. ASSUME NEW i \in 1 .. Len(u), i \notin 1 .. Len(s) PROVE \E j \in 1 .. Len(t) : i = Len(s) + j
    <3>1. i - Len(s) \in 1 .. Len(t) /\ i = Len(s) + (i - Len(s))
      BY <1>2, <2>1
    <3> QED
      BY <3>1
  <2> QED
    BY <1>2, <2>1
<1>4. ASSUME NEW x \in Range(u) PROVE x \in Range(s) \cup Range(t)
  <2>1. PICK i \in 1 .. Len(u) : x = u[i]
    BY <1>2, RangeIs
  <2>2. CASE i \in 1 .. Len(s)
    BY <1>2, <2>1, <2>2, RangeIs
  <2>3. CASE \E j \in 1 .. Len(t) : i = Len(s) + j
    BY <1>2, <2>1, <2>3, RangeIs
  <2> QED
    BY <1>3, <2>2, <2>3
<1>5. ASSUME NEW x \in Range(s) PROVE x \in Range(u)
  <2>1. PICK i \in 1 .. Len(s) : x = s[i]
    BY RangeIs
  <2> QED
    BY <1>2, <1>3, <2>1, RangeIs
<1>6. ASSUME NEW x \in Range(t) PROVE x \in Range(u)
  <2>1. PICK i \in 1 .. Len(t) : x = t[i]
    BY RangeIs
  <2> QED
    BY <1>2, <1>3, <2>1, RangeIs
<1> QED
  BY <1>2, <1>4, <1>5, <1>6 DEF u

(* How the inputs of an operation are named. *)
UrlId(id) == \E name : id = <<name>>
BodyId(id) == \E name : id = <<"body", name>>
InputId(id) == UrlId(id) \/ BodyId(id)

(* What an operation can be called with. *)
LEMMA ParametersAre ==
    ASSUME NEW document, IsDocument(document), NEW op \in Range(document)
    PROVE  /\ Parameters(op) \in Seq(Range(Parameters(op)))
           /\ \A p \in Range(Parameters(op)) :
                \/ p.in # "body" /\ UrlId(p.id)
                \/ p.in = "body" /\ BodyId(p.id)
           /\ {p.id[2] : p \in {x \in Range(BodyParameters(op)) : x.required}} \subseteq RequiredBody(op)
<1> DEFINE planned == Only(op.params, {p \in Range(op.params) : p.in \in {"query", "path"}})
           url == UrlParameters(op)
           properties == BodyProperties(op)
           body == BodyParameters(op)
<1>1. /\ op.params \in Seq(Range(op.params))
      /\ op.body # None => op.body \in Seq(Range(op.body))
  BY DEF IsDocument, NamesOnce
<1>2. /\ planned \in Seq(Range(op.params))
      /\ Range(planned) = {x \in Range(op.params) : x \in {p \in Range(op.params) : p.in \in {"query", "path"}}}
  BY <1>1, OnlyAre
<1>3. url = [i \in DOMAIN planned |->
                [id |-> <<planned[i].name>>, in |-> planned[i].in, private |-> planned[i].private,
                 required |-> planned[i].required \/ planned[i].in = "path"]]
  BY DEF UrlParameters
<1>4. DOMAIN planned = 1 .. Len(planned) /\ Len(planned) \in Nat
      /\ \A i \in 1 .. Len(planned) : planned[i].in \in {"query", "path"}
  <2> HIDE DEF planned
  <2>1. DOMAIN planned = 1 .. Len(planned) /\ Len(planned) \in Nat
        /\ \A i \in 1 .. Len(planned) : planned[i] \in Range(planned)
    BY <1>2, RangeIs
  <2> QED
    BY <1>2, <2>1
<1> HIDE DEF planned, url
<1>5. /\ url \in Seq(Range(url))
      /\ \A i \in 1 .. Len(url) : url[i].in # "body" /\ UrlId(url[i].id)
  <2>1. DOMAIN url = 1 .. Len(planned)
    BY <1>3, <1>4
  <2>2. ASSUME NEW i \in 1 .. Len(planned) PROVE url[i].in # "body" /\ UrlId(url[i].id)
    <3>1. url[i].in = planned[i].in /\ url[i].id = <<planned[i].name>>
      BY <1>3, <1>4
    <3> QED
      BY <1>4, <3>1 DEF UrlId
  <2>3. url \in [1 .. Len(planned) -> Range(url)]
    BY <2>1, <1>3, <1>4 DEF Range
  <2>4. url \in Seq(Range(url)) /\ Len(url) = Len(planned)
    BY <2>3, <1>4
  <2> QED
    BY <2>2, <2>4
<1>6. /\ properties \in Seq(Range(properties))
      /\ op.body # None => properties = op.body
      /\ op.body = None => properties = <<>>
  <2>1. <<>> \in Seq(Range(<<>>))
    OBVIOUS
  <2> QED
    BY <1>1, <2>1 DEF BodyProperties
<1>7. body = [i \in DOMAIN properties |->
                [id |-> <<"body", op.body[i].name>>, in |-> "body", private |-> op.body[i].private,
                 required |-> op.body[i].required]]
  BY DEF BodyParameters
<1> HIDE DEF properties, body
<1>8. DOMAIN properties = 1 .. Len(properties) /\ Len(properties) \in Nat
  BY <1>6
<1>9. /\ body \in Seq(Range(body)) /\ Len(body) = Len(properties)
      /\ \A i \in 1 .. Len(body) : /\ body[i].in = "body" /\ body[i].id = <<"body", op.body[i].name>>
                                    /\ body[i].required = op.body[i].required
  <2>1. DOMAIN body = 1 .. Len(properties)
    BY <1>7, <1>8
  <2>2. body \in [1 .. Len(properties) -> Range(body)]
    BY <2>1, <1>7, <1>8 DEF Range
  <2>3. body \in Seq(Range(body)) /\ Len(body) = Len(properties)
    BY <2>2, <1>8
  <2> QED
    BY <1>7, <1>8, <2>3
<1>10. /\ Parameters(op) = url \o body
       /\ Parameters(op) \in Seq(Range(url) \cup Range(body))
       /\ Range(Parameters(op)) = Range(url) \cup Range(body)
  <2>1. Parameters(op) = url \o body
    BY DEF Parameters, url, body
  <2>2. /\ url \o body \in Seq(Range(url) \cup Range(body))
        /\ Range(url \o body) = Range(url) \cup Range(body)
    <3>1. url \in Seq(Range(url)) /\ body \in Seq(Range(body))
      BY <1>5, <1>9
    <3> QED
      BY <3>1, JoinedRange
  <2> QED
    BY <2>1, <2>2
<1>11. ASSUME NEW p \in Range(url) PROVE p.in # "body" /\ UrlId(p.id)
  BY <1>5, RangeIs
<1>12. ASSUME NEW p \in Range(body) PROVE p.in = "body" /\ BodyId(p.id)
  <2>1. PICK i \in 1 .. Len(body) : p = body[i]
    BY <1>9, RangeIs
  <2> QED
    BY <1>9, <2>1 DEF BodyId
<1>13. ASSUME NEW p \in Range(body), p.required PROVE p.id[2] \in RequiredBody(op)
  <2>1. PICK i \in 1 .. Len(body) : p = body[i]
    BY <1>9, RangeIs
  <2>2. op.body # None /\ properties = op.body
    <3>1. Len(properties) # 0
      BY <1>8, <1>9, <2>1
    <3> QED
      BY <1>6, <3>1
  <2>3. op.body[i] \in Range(properties) /\ op.body[i].required
    BY <1>6, <1>9, <1>13, <2>1, <2>2, RangeIs
  <2>4. p.id[2] = op.body[i].name
    BY <1>9, <2>1
  <2> QED
    BY <2>3, <2>4 DEF RequiredBody, properties
<1> QED
  BY <1>10, <1>11, <1>12, <1>13 DEF body

(* An operation is known by its path and method. *)
LEMMA OperationIs ==
    ASSUME NEW document, IsDocument(document), NEW op \in Range(document)
    PROVE  (CHOOSE x \in Range(document) : CandidateKey(x) = <<op.method, op.path>>) = op
<1> DEFINE keys == [i \in DOMAIN document |-> CandidateKey(document[i])]
<1>1. document \in Seq(Range(document)) /\ IsInjective(keys)
  BY DEF IsDocument, Repeats
<1>2. \A i, j \in DOMAIN document : CandidateKey(document[i]) = CandidateKey(document[j]) => i = j
  BY <1>1 DEF IsInjective
<1>3. \A x, y \in Range(document) : CandidateKey(x) = CandidateKey(y) => x = y
  BY <1>2 DEF Range
<1>4. CandidateKey(op) = <<op.method, op.path>>
  BY DEF CandidateKey
<1> QED
  BY <1>3, <1>4

(* The operation that is selected is one of the document. *)
LEMMA LocatedIs ==
    ASSUME NEW document, IsDocument(document), NEW sel, NEW op \in Range(document), Selects(sel, op)
    PROVE  Located(document, sel) \in Range(document)
<1>1. document \in Seq(Range(document)) /\ DOMAIN document = 1 .. Len(document) /\ Len(document) \in Nat
  BY DEF IsDocument
<1> DEFINE S == {i \in 1 .. Len(document) : Selects(sel, document[i])}
<1>2. S \in SUBSET Nat /\ S # {}
  <2>1. PICK i \in 1 .. Len(document) : op = document[i]
    BY <1>1, RangeIs
  <2> QED
    BY <2>1
<1>3. PICK i \in S : \A k \in S : i <= k
  <2> HIDE DEF S
  <2> QED
    BY <1>2, LeastOf
<1>4. \A k \in 1 .. i - 1 : ~Selects(sel, document[k])
  BY <1>1, <1>3
<1> DEFINE First(j) == Selects(sel, document[j]) /\ \A k \in 1 .. j - 1 : ~Selects(sel, document[k])
<1>5. First(CHOOSE j \in DOMAIN document : First(j)) /\ (CHOOSE j \in DOMAIN document : First(j)) \in DOMAIN document
  <2>1. i \in DOMAIN document /\ First(i)
    BY <1>1, <1>3, <1>4
  <2> HIDE DEF First
  <2> QED
    BY <2>1
<1>6. Located(document, sel) = document[CHOOSE j \in DOMAIN document : First(j)]
  BY DEF Located
<1> QED
  BY <1>5, <1>6 DEF Range

(* The names of the properties a binding takes. *)
LEMMA ReadOnce ==
    ASSUME NEW document, IsDocument(document), NEW op \in Range(document), NEW shape
    PROVE  \A f, g \in Range(ReadFields(op.reply, shape)) : f.name = g.name => f = g
<1> DEFINE list == ReadFields(op.reply, shape)
<1>1. list = op.reply.fields \/ (list # None /\ list \in {op.body, op.reply.items, op.reply.envelope})
  BY DEF ReadFields
<1>2. NamesOnce(list)
  BY <1>1 DEF IsDocument
<1> HIDE DEF list
<1>3. /\ list \in Seq(Range(list))
      /\ \A i, j \in DOMAIN list : list[i].name = list[j].name => i = j
  BY <1>2 DEF NamesOnce, Repeats, IsInjective
<1> QED
  BY <1>3 DEF Range, list

-----------------------------------------------------------------------------
(* What a compile is refused for. *)

LEMMA Joined ==
    ASSUME NEW S, NEW a \in Seq(S), NEW b \in Seq(S)
    PROVE  /\ a \o b \in Seq(S)
           /\ a \o b = <<>> <=> a = <<>> /\ b = <<>>
<1>1. a \o b \in Seq(S) /\ Len(a \o b) = Len(a) + Len(b) /\ Len(a) \in Nat /\ Len(b) \in Nat
  OBVIOUS
<1>2. \A s \in Seq(S) : s = <<>> <=> Len(s) = 0
  OBVIOUS
<1> QED
  BY <1>1, <1>2

(* The first reason is one of those there are. *)
LEMMA FirstFaultIs ==
    ASSUME NEW R, NEW n \in Nat, NEW faults, DOMAIN faults = 1 .. n, \A i \in 1 .. n : faults[i] \in Seq(R),
           Fails(faults)
    PROVE  FirstFault(faults) \in R
<1> DEFINE S == {i \in 1 .. n : faults[i] # <<>>}
<1>1. S \in SUBSET Nat /\ S # {}
  BY DEF Fails
<1>2. PICK i \in S : \A k \in S : i <= k
  <2> HIDE DEF S
  <2> QED
    BY <1>1, LeastOf
<1>3. \A k \in 1 .. i - 1 : faults[k] = <<>>
  BY <1>2
<1> DEFINE First(j) == faults[j] # <<>> /\ \A k \in 1 .. j - 1 : faults[k] = <<>>
           first == CHOOSE j \in DOMAIN faults : First(j)
<1>4. First(first) /\ first \in DOMAIN faults
  <2>1. i \in DOMAIN faults /\ First(i)
    BY <1>2, <1>3
  <2> HIDE DEF First
  <2> QED
    BY <2>1
<1>5. FirstFault(faults) = Head(faults[first])
  BY DEF FirstFault
<1> HIDE DEF first
<1>6. faults[first] # <<>> /\ faults[first] \in Seq(R)
  BY <1>4
<1>7. \A s \in Seq(R) : s # <<>> => Head(s) \in R
  OBVIOUS
<1> QED
  BY <1>5, <1>6, <1>7

(* A list of one. *)
LEMMA Single ==
    ASSUME NEW R, NEW x \in R
    PROVE  <<x>> \in Seq(R) /\ <<x>> # <<>> /\ <<>> \in Seq(R)
  OBVIOUS

(* What the decisions on a selection, and the import of it, say when they refuse nothing. *)
LEMMA NoDecisionFault ==
    ASSUME NEW inv, NEW d, NEW sel
    PROVE  /\ DecisionFaults(inv, d, sel) \in Seq(Refusals)
           /\ (\E i \in DOMAIN d.operations : DecidedOn(d, sel.capability) = {i}) =>
                DecisionFaults(inv, d, sel) \in Seq({"visitor parameter", "output field", "no output field"})
           /\ DecisionFaults(inv, d, sel) = <<>> =>
                LET e == Decision(d, sel.capability)
                    r == ReviewedAs(inv, sel.capability) IN
                /\ Range(e.params) \subseteq Ids(r.params)
                /\ Range(e.fields) \subseteq Named(r.fields)
                /\ e.fields # <<>>
<1> DEFINE e == Decision(d, sel.capability)
           r == ReviewedAs(inv, sel.capability)
           R == {"visitor parameter", "output field", "no output field"}
           p == Fault("visitor parameter", ~IsUniqueSubset(e.params, Ids(r.params)))
           o == Fault("output field", ~IsUniqueSubset(e.fields, Named(r.fields)))
           z == Fault("no output field", e.fields = <<>>)
           One == \E i \in DOMAIN d.operations : DecidedOn(d, sel.capability) = {i}
<1>1. "visitor parameter" \in R /\ "output field" \in R /\ "no output field" \in R
  OBVIOUS
<1> HIDE DEF R, e, r
<1>2. /\ p \in Seq(R) /\ (p = <<>> => IsUniqueSubset(e.params, Ids(r.params)))
      /\ o \in Seq(R) /\ (o = <<>> => IsUniqueSubset(e.fields, Named(r.fields)))
  BY <1>1, Single DEF Fault
<1>3. z \in Seq(R) /\ (z = <<>> => e.fields # <<>>)
  BY <1>1, Single DEF Fault
<1>4. DecisionFaults(inv, d, sel) = IF ~One THEN <<"not one decision">> ELSE (p \o o) \o z
  <2> HIDE DEF One
  <2>1. (\A i \in DOMAIN d.operations : DecidedOn(d, sel.capability) # {i}) <=> ~One
    BY DEF One
  <2> QED
    BY <2>1, Zenon DEF DecisionFaults, e, r
<1> HIDE DEF p, o, z, One
<1>5. (p \o o) \o z \in Seq(R) /\ ((p \o o) \o z = <<>> => p = <<>> /\ o = <<>> /\ z = <<>>)
  <2>1. p \o o \in Seq(R) /\ (p \o o = <<>> => p = <<>> /\ o = <<>>)
    BY <1>2, Joined
  <2> QED
    BY <1>3, <2>1, Joined
<1>6. \A s \in Seq(R) : s \in Seq(Refusals)
  <2>1. R \subseteq Refusals
    BY DEF Refusals, R
  <2> QED
    BY <2>1
<1>7. <<"not one decision">> \in Seq(Refusals) /\ <<"not one decision">> # <<>>
  BY DEF Refusals
<1>8. DecisionFaults(inv, d, sel) \in Seq(Refusals)
  BY <1>4, <1>5, <1>6, <1>7
<1>9. One => DecisionFaults(inv, d, sel) \in Seq(R)
  BY <1>4, <1>5
<1>10. DecisionFaults(inv, d, sel) = <<>> =>
        /\ IsUniqueSubset(e.params, Ids(r.params))
        /\ IsUniqueSubset(e.fields, Named(r.fields))
        /\ e.fields # <<>>
  BY <1>2, <1>3, <1>4, <1>5, <1>7
<1> QED
  BY <1>8, <1>9, <1>10 DEF IsUniqueSubset, e, r, R, One

(* The same of the import. *)
LEMMA NoImportFault ==
    ASSUME NEW document, NEW d, NEW sel
    PROVE  LET op == Located(document, sel)
               body == ApprovedBody(d, sel)
           IN  /\ ImportFaults(document, d, sel) \in
                    Seq({"unknown body parameter", "required body parameter", "name used twice", "field not read"})
               /\ ImportFaults(document, d, sel) = <<>> =>
                    /\ RequiredBody(op) \subseteq body
                    /\ \A n \in body : <<n>> \notin ApprovedUrl(d, sel)
                    /\ Range(Decision(d, sel.capability).fields) \subseteq Named(ReadFields(op.reply, sel.shape))
<1> DEFINE op == Located(document, sel)
           body == ApprovedBody(d, sel)
           R == {"unknown body parameter", "required body parameter", "name used twice", "field not read"}
           u == Fault("unknown body parameter", ~(body \subseteq Named(BodyProperties(op))))
           q == Fault("required body parameter", ~(RequiredBody(op) \subseteq body))
           t == Fault("name used twice", \E n \in body : <<n>> \in ApprovedUrl(d, sel))
           f == Fault("field not read",
                    ~(Range(Decision(d, sel.capability).fields) \subseteq Named(ReadFields(op.reply, sel.shape))))
           Read == Range(Decision(d, sel.capability).fields) \subseteq Named(ReadFields(op.reply, sel.shape))
           Twice == \E n \in body : <<n>> \in ApprovedUrl(d, sel)
<1>2. \A why \in {"unknown body parameter", "required body parameter", "name used twice", "field not read"} : why \in R
  OBVIOUS
<1> HIDE DEF R, op, body, Read, Twice
<1>1. <<>> \in Seq(R) /\ \A why \in R : <<why>> \in Seq(R) /\ <<why>> # <<>>
  BY <1>2, Single
<1>3. u \in Seq(R) /\ q \in Seq(R) /\ t \in Seq(R) /\ f \in Seq(R)
  BY <1>1, <1>2 DEF Fault
<1>4. /\ q = <<>> => RequiredBody(op) \subseteq body
      /\ t = <<>> => ~Twice
      /\ f = <<>> => Read
  BY <1>1, <1>2 DEF Fault, Read, Twice
<1>5. ImportFaults(document, d, sel) = ((u \o q) \o t) \o f
  BY DEF ImportFaults, op, body
<1> HIDE DEF u, q, t, f
<1>6. u \o q \in Seq(R) /\ (u \o q = <<>> => q = <<>>)
  BY <1>3, Joined
<1>7. (u \o q) \o t \in Seq(R) /\ ((u \o q) \o t = <<>> => q = <<>> /\ t = <<>>)
  BY <1>3, <1>6, Joined
<1>8. ((u \o q) \o t) \o f \in Seq(R) /\ (((u \o q) \o t) \o f = <<>> => q = <<>> /\ t = <<>> /\ f = <<>>)
  BY <1>3, <1>7, Joined
<1> QED
  BY <1>4, <1>5, <1>8 DEF op, body, R, Read, Twice

(* What a compile that refuses nothing found. *)
LEMMA NotRefused ==
    ASSUME None \notin Refusals, NEW document, NEW inv, NEW d, inv.selections \in Seq(Range(inv.selections)),
           RestRefusal(document, inv, d) = None
    PROVE  /\ ~Repeats(Capable(d.operations))
           /\ \A i \in DOMAIN inv.selections : /\ DecisionFaults(inv, d, inv.selections[i]) = <<>>
                                               /\ ImportFaults(document, d, inv.selections[i]) = <<>>
           /\ ~InvalidCatalog(inv, d)
<1> DEFINE n == Len(inv.selections)
           Another == d.hash # inv.hash \/ inv.hash # SourceHash(document, inv.catalog, inv.selections)
           Unknown == ~(Range(Capable(d.operations)) \subseteq Range(Capable(inv.operations)))
           h == Fault("another source", Another)
           p == Fault("repeated decision", Repeats(Capable(d.operations)))
           u == Fault("unknown capability", Unknown)
           file == (h \o p) \o u
           decided == [i \in DOMAIN inv.selections |-> DecisionFaults(inv, d, inv.selections[i])]
           imported == [i \in DOMAIN inv.selections |-> ImportFaults(document, d, inv.selections[i])]
<1>1. n \in Nat /\ DOMAIN inv.selections = 1 .. n
  OBVIOUS
<1>2. RestRefusal(document, inv, d) =
        IF file # <<>> THEN Head(file)
        ELSE IF Fails(decided) THEN FirstFault(decided)
        ELSE IF Fails(imported) THEN FirstFault(imported)
        ELSE IF InvalidCatalog(inv, d) THEN "invalid catalog" ELSE None
  BY DEF RestRefusal
<1> HIDE DEF Another, Unknown, n
<1>3. "another source" \in Refusals /\ "repeated decision" \in Refusals
      /\ "unknown capability" \in Refusals /\ "invalid catalog" \in Refusals
  BY DEF Refusals
<1>4. h \in Seq(Refusals) /\ p \in Seq(Refusals) /\ u \in Seq(Refusals)
      /\ (p = <<>> => ~Repeats(Capable(d.operations)))
  BY <1>3, Single DEF Fault
<1> HIDE DEF h, p, u
<1>5. h \o p \in Seq(Refusals) /\ (h \o p = <<>> => p = <<>>)
  BY <1>4, Joined
<1>6. file \in Seq(Refusals) /\ (file = <<>> => p = <<>>)
  BY <1>4, <1>5, Joined
<1> HIDE DEF file
<1>7. \A s \in Seq(Refusals) : s # <<>> => Head(s) \in Refusals
  OBVIOUS
<1>8. DOMAIN decided = 1 .. n /\ \A i \in 1 .. n : decided[i] \in Seq(Refusals)
  BY <1>1, NoDecisionFault
<1>9. DOMAIN imported = 1 .. n /\ \A i \in 1 .. n : imported[i] \in Seq(Refusals)
  <2>1. \A s : s \in Seq({"unknown body parameter", "required body parameter", "name used twice", "field not read"})
                  => s \in Seq(Refusals)
    <3> DEFINE R == {"unknown body parameter", "required body parameter", "name used twice", "field not read"}
    <3>1. R \subseteq Refusals
      BY DEF Refusals
    <3> HIDE DEF R
    <3>2. \A s : s \in Seq(R) => s \in Seq(Refusals)
      BY <3>1
    <3> QED
      BY <3>2 DEF R
  <2>2. ASSUME NEW i \in 1 .. n PROVE ImportFaults(document, d, inv.selections[i]) \in Seq(Refusals)
    BY <2>1, NoImportFault
  <2> QED
    BY <1>1, <2>2
<1>10. Fails(decided) => FirstFault(decided) \in Refusals
  <2> HIDE DEF decided
  <2> QED
    BY <1>1, <1>8, FirstFaultIs
<1>11. Fails(imported) => FirstFault(imported) \in Refusals
  <2> HIDE DEF imported
  <2> QED
    BY <1>1, <1>9, FirstFaultIs
<1>12. file = <<>> /\ ~Fails(decided) /\ ~Fails(imported) /\ ~InvalidCatalog(inv, d)
  <2> HIDE DEF decided, imported
  <2> QED
    BY <1>2, <1>3, <1>6, <1>7, <1>10, <1>11
<1>13. \A i \in DOMAIN inv.selections : decided[i] = <<>> /\ imported[i] = <<>>
  BY <1>12 DEF Fails
<1> QED
  BY <1>4, <1>6, <1>12, <1>13

-----------------------------------------------------------------------------
(* What was approved. *)

(* What is on at first. *)
SafeIds(r) == {p.id : p \in {q \in Range(r.params) : SafeParameter(q)}}
SafeNames(r) == {f.name : f \in {g \in Range(r.fields) : SafeField(g)}}

(* A decision on what is reviewed of an operation: what is on at first and was not
   ticked since, and what was ticked and is not. *)
DecidesOn(r, e, now) ==
    /\ e = [capability |-> r.capability, public |-> e.public, params |-> e.params, fields |-> e.fields]
    /\ e.params \in Seq(Range(e.params)) /\ e.fields \in Seq(Range(e.fields))
    /\ \A id : InputId(id) => (id \in Range(e.params) <=> (id \in SafeIds(r) <=> <<r.capability, id>> \notin now))
    /\ \A name : name \in Range(e.fields) <=> (name \in SafeNames(r) <=> <<r.capability, <<"field", name>>>> \notin now)
    /\ e.public \in BOOLEAN /\ (e.public <=> <<r.capability, Access>> \in now)
DecidedAll(inv, d, now) ==
    /\ d = [hash |-> inv.hash, operations |-> d.operations]
    /\ DOMAIN d.operations = DOMAIN inv.operations
    /\ \A i \in DOMAIN inv.operations : DecidesOn(inv.operations[i], d.operations[i], now)

(* The inventory of what is selected of a document. *)
IsReview(document, inv) ==
    /\ inv = RestInventory(document, inv.catalog, inv.selections)
    /\ inv.selections \in Seq(Range(inv.selections))
    /\ \A sel \in Range(inv.selections) : \E op \in Range(document) : Selects(sel, op)

(* Where no decision comes twice, the decision on a selection and what was reviewed of
   it are found at its place. *)
LEMMA DecisionIs ==
    ASSUME NEW document, NEW inv, NEW d, NEW now, IsReview(document, inv), DecidedAll(inv, d, now),
           ~Repeats(Capable(d.operations)), NEW i \in DOMAIN inv.selections
    PROVE  /\ DecidedOn(d, inv.selections[i].capability) = {i}
           /\ Decision(d, inv.selections[i].capability) = d.operations[i]
           /\ ReviewedAs(inv, inv.selections[i].capability) = OperationReview(document, inv.selections[i])
           /\ DecidesOn(OperationReview(document, inv.selections[i]), d.operations[i], now)
<1>1. inv.selections \in Seq(Range(inv.selections))
  BY DEF IsReview
<1>2. DOMAIN inv.selections = 1 .. Len(inv.selections) /\ Len(inv.selections) \in Nat
  BY <1>1
<1>3. inv.operations = [k \in DOMAIN inv.selections |-> OperationReview(document, inv.selections[k])]
  <2>1. inv = RestInventory(document, inv.catalog, inv.selections)
    BY DEF IsReview
  <2>2. RestInventory(document, inv.catalog, inv.selections).operations =
            [k \in DOMAIN inv.selections |-> OperationReview(document, inv.selections[k])]
    BY DEF RestInventory
  <2> QED
    BY <2>1, <2>2
<1>4. \A k \in DOMAIN inv.selections : OperationReview(document, inv.selections[k]).capability = inv.selections[k].capability
  BY DEF OperationReview
<1>5. /\ DOMAIN d.operations = DOMAIN inv.selections
      /\ \A k \in DOMAIN inv.selections : DecidesOn(inv.operations[k], d.operations[k], now)
  BY <1>3 DEF DecidedAll
<1>6. \A k \in DOMAIN inv.selections : /\ d.operations[k].capability = inv.selections[k].capability
                                       /\ inv.operations[k].capability = inv.selections[k].capability
  <2>1. ASSUME NEW k \in DOMAIN inv.selections
        PROVE  /\ d.operations[k].capability = inv.operations[k].capability
               /\ inv.operations[k].capability = inv.selections[k].capability
    <3>1. inv.operations[k].capability = inv.selections[k].capability
      BY <1>3, <1>4
    <3>2. d.operations[k] = [capability |-> inv.operations[k].capability, public |-> d.operations[k].public,
                             params |-> d.operations[k].params, fields |-> d.operations[k].fields]
      BY <1>5 DEF DecidesOn
    <3> QED
      BY <3>1, <3>2
  <2> QED
    BY <2>1
<1>7. \A j, k \in DOMAIN inv.selections : inv.selections[j].capability = inv.selections[k].capability => j = k
  <2>1. IsInjective(Capable(d.operations))
    BY DEF Repeats
  <2>2. \A j, k \in DOMAIN d.operations : d.operations[j].capability = d.operations[k].capability => j = k
    BY <2>1 DEF IsInjective, Capable
  <2> QED
    BY <1>5, <1>6, <2>2
<1> DEFINE n == inv.selections[i].capability
<1>8. DecidedOn(d, n) = {i}
  <2>1. DecidedOn(d, n) = {k \in DOMAIN inv.selections : d.operations[k].capability = n}
    BY <1>5 DEF DecidedOn
  <2> QED
    BY <2>1, <1>6, <1>7
<1>9. Decision(d, n) = d.operations[i]
  BY <1>8 DEF Decision
<1>10. ReviewedAs(inv, n) = inv.operations[i]
  <2> DEFINE First(k) == inv.operations[k].capability = n /\ \A j \in 1 .. k - 1 : inv.operations[j].capability # n
  <2>1. DOMAIN inv.operations = DOMAIN inv.selections
    BY <1>3
  <2>2. First(i)
    <3>1. ASSUME NEW j \in 1 .. i - 1 PROVE inv.operations[j].capability # n
      <4>1. j \in DOMAIN inv.selections /\ j # i
        BY <1>2
      <4> QED
        BY <4>1, <1>6, <1>7
    <3> QED
      BY <1>6, <3>1
  <2>3. \A k \in DOMAIN inv.operations : First(k) => k = i
    BY <2>1, <1>6, <1>7
  <2>4. (CHOOSE k \in DOMAIN inv.operations : First(k)) = i
    <3> HIDE DEF First
    <3> QED
      BY <2>1, <2>2, <2>3
  <2> QED
    BY <2>4 DEF ReviewedAs
<1> QED
  BY <1>3, <1>5, <1>8, <1>9, <1>10

(* An operation that compiles was approved. *)
LEMMA BindingApproved ==
    ASSUME None \notin Refusals, NEW document, IsDocument(document), NEW inv, NEW d, NEW now,
           IsReview(document, inv), DecidedAll(inv, d, now), RestRefusal(document, inv, d) = None,
           NEW i \in DOMAIN inv.selections
    PROVE  WasApproved(RestBinding(document, inv, d, inv.selections[i]), now)
<1> DEFINE sel == inv.selections[i]
           op == Located(document, sel)
           r == OperationReview(document, sel)
           e == d.operations[i]
           b == RestBinding(document, inv, d, sel)
           offered == Range(Parameters(op))
           read == Range(ReadFields(op.reply, b.shape))
           fields == {f \in read : f.name \in b.fields}
           params == {p \in offered : p.id \in b.url \/ (p.in = "body" /\ p.id[2] \in b.body)}
<1>1. inv.selections \in Seq(Range(inv.selections))
  BY DEF IsReview
<1>2. /\ ~Repeats(Capable(d.operations))
      /\ DecisionFaults(inv, d, sel) = <<>> /\ ImportFaults(document, d, sel) = <<>>
      /\ ~InvalidCatalog(inv, d)
  BY <1>1, NotRefused
<1>3. /\ Decision(d, sel.capability) = e /\ ReviewedAs(inv, sel.capability) = r /\ DecidesOn(r, e, now)
  BY <1>2, DecisionIs
<1>4. sel \in Range(inv.selections)
  BY DEF Range
<1>5. op \in Range(document)
  BY <1>4, LocatedIs DEF IsReview
<1>6. /\ r.capability = sel.capability /\ r.params = Parameters(op)
      /\ r.fields = ShownFields(op.reply, sel.shape)
  BY DEF OperationReview
<1>7. /\ b.capability = sel.capability /\ b.path = op.path /\ b.method = op.method /\ b.document = document
      /\ b.url = ApprovedUrl(d, sel) /\ b.body = ApprovedBody(d, sel)
      /\ b.fields = Range(e.fields) /\ b.typed = Fields(d, FirstOfType(inv, sel))
      /\ b.shape = sel.shape /\ b.public = e.public
  BY <1>3 DEF RestBinding, Fields
<1>8. op = CHOOSE x \in Range(b.document) : CandidateKey(x) = <<b.method, b.path>>
  BY <1>5, <1>7, OperationIs
<1>9. /\ Range(e.params) \subseteq Ids(r.params) /\ Range(e.fields) \subseteq Named(r.fields)
      /\ e.fields # <<>>
  BY <1>2, <1>3, NoDecisionFault
<1>10. /\ RequiredBody(op) \subseteq b.body /\ \A n \in b.body : <<n>> \notin b.url
       /\ b.fields \subseteq Named(ReadFields(op.reply, b.shape))
  <2>1. /\ RequiredBody(op) \subseteq ApprovedBody(d, sel)
        /\ \A n \in ApprovedBody(d, sel) : <<n>> \notin ApprovedUrl(d, sel)
        /\ Range(Decision(d, sel.capability).fields) \subseteq Named(ReadFields(op.reply, sel.shape))
    <3>1. ImportFaults(document, d, sel) = <<>>
      BY <1>2
    <3> HIDE DEF sel
    <3> QED
      BY <3>1, NoImportFault
  <2> HIDE DEF b, op, e, r, sel
  <2> QED
    BY <2>1, <1>3, <1>7
<1>11. /\ b.url = {id \in Range(e.params) : Len(id) = 1}
       /\ b.body = {id[2] : id \in {x \in Range(e.params) : Len(x) = 2}}
  BY <1>3, <1>7 DEF ApprovedUrl, ApprovedBody
<1>12. b.shape \in ListShapes => b.fields \subseteq b.typed
  BY <1>2, <1>3, <1>4, <1>7 DEF InvalidCatalog, Fields
<1>13. \A p \in offered : \/ p.in # "body" /\ UrlId(p.id)
                          \/ p.in = "body" /\ BodyId(p.id)
  BY <1>5, ParametersAre
<1>14. {p.id[2] : p \in {x \in Range(BodyParameters(op)) : x.required}} \subseteq b.body
  BY <1>5, <1>10, ParametersAre
<1> HIDE DEF b, op, r, e, sel
<1>15. b.fields # {} /\ b.fields = {f.name : f \in fields}
  <2>1. e.fields \in Seq(Range(e.fields))
    BY <1>3 DEF DecidesOn
  <2>2. Len(e.fields) # 0 /\ Len(e.fields) \in Nat
    BY <1>9, <2>1
  <2>3. e.fields[1] \in b.fields
    BY <1>7, <2>1, <2>2, RangeIs
  <2> QED
    BY <1>10, <2>3 DEF Named
<1>16. ASSUME NEW p \in params PROVE p.id \in Range(e.params) /\ InputId(p.id)
  <2>1. InputId(p.id)
    BY <1>13 DEF InputId
  <2>2. CASE p.id \in b.url
    BY <1>11, <2>1, <2>2
  <2>3. CASE p.in = "body" /\ p.id[2] \in b.body
    <3>1. PICK id \in Range(e.params) : Len(id) = 2 /\ id[2] = p.id[2]
      BY <1>11, <2>3
    <3>2. PICK q \in offered : id = q.id
      BY <1>6, <1>9 DEF Ids
    <3>3. ~UrlId(id)
      BY <3>1 DEF UrlId
    <3>4. BodyId(id) /\ BodyId(p.id)
      BY <1>13, <2>3, <3>2, <3>3
    <3>5. id = p.id
      BY <3>1, <3>4 DEF BodyId
    <3> QED
      BY <2>1, <3>5
  <2> QED
    BY <2>2, <2>3
<1>17. ASSUME NEW p \in params
       PROVE  \/ \E q \in offered : (q.id = p.id /\ SafeParameter(q))
              \/ <<b.capability, p.id>> \in now
  <2>1. p.id \in SafeIds(r) \/ <<r.capability, p.id>> \in now
    BY <1>3, <1>16 DEF DecidesOn
  <2> QED
    BY <1>6, <1>7, <2>1 DEF SafeIds
<1>18. ASSUME SameFields(op.reply, b.shape), NEW f \in fields
       PROVE  (f.meaning # "unknown" /\ ~f.private) \/ <<b.capability, <<"field", f.name>>>> \in now
  <2>1. f.name \in SafeNames(r) \/ <<r.capability, <<"field", f.name>>>> \in now
    BY <1>3, <1>7 DEF DecidesOn
  <2>2. Range(r.fields) = read
    BY <1>6, <1>7, <1>18 DEF SameFields
  <2>3. ASSUME f.name \in SafeNames(r) PROVE SafeField(f)
    <3>1. PICK g \in read : g.name = f.name /\ SafeField(g)
      BY <2>2, <2>3 DEF SafeNames
    <3>2. g = f
      BY <1>5, <3>1, ReadOnce
    <3> QED
      BY <3>1, <3>2
  <2> QED
    BY <1>6, <1>7, <2>1, <2>3 DEF SafeField
<1>19. b.public <=> <<b.capability, Access>> \in now
  BY <1>3, <1>6, <1>7 DEF DecidesOn
<1> HIDE DEF offered, read
<1> QED
  BY <1>8, <1>10, <1>12, <1>14, <1>15, <1>17, <1>18, <1>19 DEF WasApproved, offered, read, b, sel

(* A review with a decision for each of its operations is refused for nothing but what
   the reviewer said in them. *)
LEMMA RefusedIs ==
    ASSUME None \notin Refusals, NEW document, NEW inv, NEW d, NEW now, IsReview(document, inv), DecidedAll(inv, d, now)
    PROVE  RestRefusal(document, inv, d) \notin {"another source", "unknown capability", "not one decision"}
<1> DEFINE Others == Refusals \ {"another source", "unknown capability", "not one decision"}
           n == Len(inv.selections)
           Again == Repeats(Capable(d.operations))
           h == Fault("another source",
                   d.hash # inv.hash \/ inv.hash # SourceHash(document, inv.catalog, inv.selections))
           p == Fault("repeated decision", Again)
           u == Fault("unknown capability",
                   ~(Range(Capable(d.operations)) \subseteq Range(Capable(inv.operations))))
           decided == [i \in DOMAIN inv.selections |-> DecisionFaults(inv, d, inv.selections[i])]
           imported == [i \in DOMAIN inv.selections |-> ImportFaults(document, d, inv.selections[i])]
<1>1. n \in Nat /\ DOMAIN inv.selections = 1 .. n
  BY DEF IsReview
<1>2. RestRefusal(document, inv, d) =
        IF (h \o p) \o u # <<>> THEN Head((h \o p) \o u)
        ELSE IF Fails(decided) THEN FirstFault(decided)
        ELSE IF Fails(imported) THEN FirstFault(imported)
        ELSE IF InvalidCatalog(inv, d) THEN "invalid catalog" ELSE None
  BY DEF RestRefusal
<1>3. h = <<>>
  <2>1. inv.hash = SourceHash(document, inv.catalog, inv.selections)
    BY DEF IsReview, RestInventory
  <2>2. d.hash = inv.hash
    BY DEF DecidedAll
  <2> QED
    BY <2>1, <2>2 DEF Fault
<1>4. u = <<>>
  <2>1. \A i \in DOMAIN inv.operations : d.operations[i].capability = inv.operations[i].capability
    <3>1. ASSUME NEW i \in DOMAIN inv.operations PROVE d.operations[i].capability = inv.operations[i].capability
      <4>1. d.operations[i] = [capability |-> inv.operations[i].capability, public |-> d.operations[i].public,
                               params |-> d.operations[i].params, fields |-> d.operations[i].fields]
        BY DEF DecidedAll, DecidesOn
      <4> QED
        BY <4>1
    <3> QED
      BY <3>1
  <2>2. DOMAIN d.operations = DOMAIN inv.operations
    BY DEF DecidedAll
  <2>3. Capable(d.operations) = Capable(inv.operations)
    BY <2>1, <2>2 DEF Capable
  <2> QED
    BY <2>3 DEF Fault
<1>5. (h \o p) \o u = p /\ (p # <<>> => p = <<"repeated decision">>) /\ (p = <<>> => ~Again)
  <2>1. p = <<>> \/ p = <<"repeated decision">>
    BY DEF Fault
  <2>2. (<<>> \o <<"repeated decision">>) \o <<>> = <<"repeated decision">> /\ (<<>> \o <<>>) \o <<>> = <<>>
    OBVIOUS
  <2>3. p = <<>> => ~Again
    <3>1. <<"repeated decision">> # <<>>
      OBVIOUS
    <3> HIDE DEF Again
    <3> QED
      BY <3>1 DEF Fault
  <2> HIDE DEF h, p, u, Again
  <2> QED
    BY <2>1, <2>2, <2>3, <1>3, <1>4
<1>6. \A i \in 1 .. n : ~Again => decided[i] \in Seq(Others)
  <2> SUFFICES ASSUME NEW i \in 1 .. n, ~Again PROVE DecisionFaults(inv, d, inv.selections[i]) \in Seq(Others)
    BY <1>1
  <2> DEFINE R == {"visitor parameter", "output field", "no output field"}
  <2>1. DecidedOn(d, inv.selections[i].capability) = {i}
    <3>1. i \in DOMAIN inv.selections /\ ~Repeats(Capable(d.operations))
      BY <1>1
    <3> HIDE DEF n, Again, h, p, u, decided, imported, Others, R
    <3>2. /\ DecidedOn(d, inv.selections[i].capability) = {i}
          /\ Decision(d, inv.selections[i].capability) = d.operations[i]
          /\ ReviewedAs(inv, inv.selections[i].capability) = OperationReview(document, inv.selections[i])
          /\ DecidesOn(OperationReview(document, inv.selections[i]), d.operations[i], now)
      BY <3>1, DecisionIs
    <3> QED
      BY <3>2
  <2>2. i \in DOMAIN d.operations
    BY <2>1 DEF DecidedOn
  <2>3. DecisionFaults(inv, d, inv.selections[i]) \in Seq(R)
    BY <2>1, <2>2, NoDecisionFault
  <2>4. R \subseteq Others
    BY DEF Refusals
  <2> HIDE DEF R, Others
  <2>5. \A s : s \in Seq(R) => s \in Seq(Others)
    BY <2>4
  <2> QED
    BY <2>3, <2>5
<1>7. \A i \in 1 .. n : imported[i] \in Seq(Others)
  <2> SUFFICES ASSUME NEW i \in 1 .. n PROVE ImportFaults(document, d, inv.selections[i]) \in Seq(Others)
    BY <1>1
  <2> DEFINE R == {"unknown body parameter", "required body parameter", "name used twice", "field not read"}
  <2>1. ImportFaults(document, d, inv.selections[i]) \in Seq(R)
    BY NoImportFault
  <2>2. R \subseteq Others
    BY DEF Refusals
  <2> HIDE DEF R, Others
  <2>3. \A s : s \in Seq(R) => s \in Seq(Others)
    BY <2>2
  <2> QED
    BY <2>1, <2>3
<1>8. DOMAIN decided = 1 .. n /\ DOMAIN imported = 1 .. n
  BY <1>1
<1> HIDE DEF decided, imported, n, Others, h, p, u, Again
<1>9. ~Again /\ Fails(decided) => FirstFault(decided) \in Others
  BY <1>1, <1>6, <1>8, FirstFaultIs
<1>10. Fails(imported) => FirstFault(imported) \in Others
  BY <1>1, <1>7, <1>8, FirstFaultIs
<1>11. Head(<<"repeated decision">>) = "repeated decision"
  OBVIOUS
<1>12. "repeated decision" \in Others /\ "invalid catalog" \in Others
  BY DEF Others, Refusals
<1>13. RestRefusal(document, inv, d) \in Others \cup {None}
  BY <1>2, <1>5, <1>9, <1>10, <1>11, <1>12
<1>14. None \notin {"another source", "unknown capability", "not one decision"}
  BY DEF Refusals
<1> QED
  BY <1>13, <1>14 DEF Others

(* What is ticked of a list: one more, or one less. *)
LEMMA TickingIs ==
    ASSUME NEW list, list \in Seq(Range(list)), NEW x
    PROVE  /\ Ticking(list, x) \in Seq(Range(Ticking(list, x)))
           /\ \A y : y \in Range(Ticking(list, x)) <=> (IF y = x THEN x \notin Range(list) ELSE y \in Range(list))
<1> DEFINE R == Range(list)
           t == Ticking(list, x)
<1>1. CASE x \in R
  <2>1. t = Only(list, R \ {x})
    BY <1>1 DEF Ticking
  <2>2. t \in Seq(R) /\ Range(t) = {y \in R : y \in R \ {x}}
    BY <2>1, OnlyAre
  <2> HIDE DEF t, R
  <2>3. t \in Seq(Range(t))
    BY <2>2, RangeIs
  <2> QED
    BY <1>1, <2>2, <2>3 DEF t, R
<1>2. CASE x \notin R
  <2>1. t = Append(list, x)
    BY <1>2 DEF Ticking
  <2>2. <<x>> \in Seq({x}) /\ Range(<<x>>) = {x}
    BY DEF Range
  <2>3. Append(list, x) = list \o <<x>>
    <3>1. list \in Seq(R \cup {x})
      <4> HIDE DEF R
      <4>1. list \in Seq(R)
        BY DEF R
      <4> QED
        BY <4>1
    <3> HIDE DEF R
    <3> QED
      BY <3>1
  <2>4. list \o <<x>> \in Seq(R \cup {x}) /\ Range(list \o <<x>>) = R \cup {x}
    <3>1. <<x>> \in Seq(Range(<<x>>))
      BY <2>2
    <3> QED
      BY <2>2, <3>1, JoinedRange
  <2> HIDE DEF t
  <2>5. t \in Seq(Range(t)) /\ Range(t) = R \cup {x}
    BY <2>1, <2>3, <2>4
  <2> QED
    BY <1>2, <2>5 DEF t
<1> QED
  BY <1>1, <1>2

-----------------------------------------------------------------------------
(* What its actions do to the decisions. *)

(* A tick on the inputs of another capability, and one of the three kinds on this one. *)
LEMMA ElsewhereDecided ==
    ASSUME NEW r, NEW e, NEW now, DecidesOn(r, e, now), NEW n, r.capability # n, NEW x, NEW after,
           after = IF <<n, x>> \in now THEN now \ {<<n, x>>} ELSE now \cup {<<n, x>>}
    PROVE  DecidesOn(r, e, after)
<1>1. \A y : <<r.capability, y>> \in after <=> <<r.capability, y>> \in now
  OBVIOUS
<1> QED
  BY <1>1 DEF DecidesOn

(* A tick changes what is ticked, and nothing else. *)
LEMMA TickChanges ==
    ASSUME NEW n, NEW x, NEW now, NEW after,
           after = IF <<n, x>> \in now THEN now \ {<<n, x>>} ELSE now \cup {<<n, x>>}
    PROVE  \A y : <<n, y>> \in after <=> (IF y = x THEN <<n, y>> \notin now ELSE <<n, y>> \in now)
  OBVIOUS

(* The three kinds are told apart. *)
LEMMA KindsApart ==
    ASSUME NEW id, InputId(id)
    PROVE  id # Access /\ \A name : id # <<"field", name>> /\ <<"field", name>> # Access
<1>1. CASE UrlId(id)
  <2>1. PICK name : id = <<name>>
    BY <1>1 DEF UrlId
  <2> QED
    BY <2>1 DEF Access
<1>2. CASE BodyId(id)
  <2>1. PICK name : id = <<"body", name>>
    BY <1>2 DEF BodyId
  <2> QED
    BY <2>1 DEF Access
<1> QED
  BY <1>1, <1>2 DEF InputId

(* The decision on a capability after a tick of one of its parameters. *)
LEMMA ParameterDecided ==
    ASSUME NEW r, NEW e, NEW now, DecidesOn(r, e, now), NEW x, InputId(x), NEW after,
           after = IF <<r.capability, x>> \in now THEN now \ {<<r.capability, x>>} ELSE now \cup {<<r.capability, x>>}
    PROVE  DecidesOn(r, [e EXCEPT !.params = Ticking(@, x)], after)
<1> DEFINE c == [e EXCEPT !.params = Ticking(@, x)]
           n == r.capability
           t == Ticking(e.params, x)
<1>1. e = [capability |-> n, public |-> e.public, params |-> e.params, fields |-> e.fields]
  BY DEF DecidesOn
<1>2. c = [capability |-> n, public |-> e.public, params |-> t, fields |-> e.fields]
  BY <1>1
<1>3. c.public = e.public /\ c.params = t /\ c.fields = e.fields
  BY <1>2
<1>4. \A y : <<n, y>> \in after <=> (IF y = x THEN <<n, y>> \notin now ELSE <<n, y>> \in now)
  BY TickChanges
<1>5. x # Access /\ \A name : x # <<"field", name>>
  BY KindsApart
<1>6. t \in Seq(Range(t)) /\ \A y : y \in Range(t) <=> (IF y = x THEN x \notin Range(e.params) ELSE y \in Range(e.params))
  BY TickingIs DEF DecidesOn
<1> HIDE DEF c, t
<1>7. \A id : InputId(id) => (id \in Range(t) <=> (id \in SafeIds(r) <=> <<n, id>> \notin after))
  <2> SUFFICES ASSUME NEW id, InputId(id) PROVE id \in Range(t) <=> (id \in SafeIds(r) <=> <<n, id>> \notin after)
    OBVIOUS
  <2>1. id \in Range(e.params) <=> (id \in SafeIds(r) <=> <<n, id>> \notin now)
    BY DEF DecidesOn
  <2> QED
    BY <2>1, <1>4, <1>6
<1>8. \A name : name \in Range(e.fields) <=> (name \in SafeNames(r) <=> <<n, <<"field", name>>>> \notin after)
  BY <1>4, <1>5 DEF DecidesOn
<1>9. e.public <=> <<n, Access>> \in after
  BY <1>4, <1>5 DEF DecidesOn
<1> QED
  BY <1>2, <1>3, <1>6, <1>7, <1>8, <1>9 DEF DecidesOn, c

(* The same after a tick of a field. *)
LEMMA FieldDecided ==
    ASSUME NEW r, NEW e, NEW now, DecidesOn(r, e, now), NEW name, NEW after,
           after = IF <<r.capability, <<"field", name>>>> \in now THEN now \ {<<r.capability, <<"field", name>>>>}
                   ELSE now \cup {<<r.capability, <<"field", name>>>>}
    PROVE  DecidesOn(r, [e EXCEPT !.fields = Ticking(@, name)], after)
<1> DEFINE c == [e EXCEPT !.fields = Ticking(@, name)]
           n == r.capability
           x == <<"field", name>>
           t == Ticking(e.fields, name)
<1>1. e = [capability |-> n, public |-> e.public, params |-> e.params, fields |-> e.fields]
  BY DEF DecidesOn
<1>2. c = [capability |-> n, public |-> e.public, params |-> e.params, fields |-> t]
  BY <1>1
<1>3. c.public = e.public /\ c.fields = t /\ c.params = e.params
  BY <1>2
<1>4. \A y : <<n, y>> \in after <=> (IF y = x THEN <<n, y>> \notin now ELSE <<n, y>> \in now)
  <2> HIDE DEF x
  <2>1. after = IF <<n, x>> \in now THEN now \ {<<n, x>>} ELSE now \cup {<<n, x>>}
    BY DEF x
  <2> QED
    BY <2>1, TickChanges
<1>5. x # Access /\ \A other : <<"field", other>> = x <=> other = name
  BY DEF Access
<1>6. \A id : InputId(id) => id # x
  BY KindsApart
<1>7. t \in Seq(Range(t)) /\ \A y : y \in Range(t) <=> (IF y = name THEN name \notin Range(e.fields) ELSE y \in Range(e.fields))
  BY TickingIs DEF DecidesOn
<1> HIDE DEF c, t
<1>8. \A other : other \in Range(t) <=> (other \in SafeNames(r) <=> <<n, <<"field", other>>>> \notin after)
  <2> SUFFICES ASSUME NEW other PROVE other \in Range(t) <=> (other \in SafeNames(r) <=> <<n, <<"field", other>>>> \notin after)
    OBVIOUS
  <2>1. other \in Range(e.fields) <=> (other \in SafeNames(r) <=> <<n, <<"field", other>>>> \notin now)
    BY DEF DecidesOn
  <2> HIDE DEF x
  <2> QED
    BY <2>1, <1>4, <1>5, <1>7
<1>9. \A id : InputId(id) => (id \in Range(e.params) <=> (id \in SafeIds(r) <=> <<n, id>> \notin after))
  <2> HIDE DEF x
  <2> QED
    BY <1>4, <1>6 DEF DecidesOn
<1>10. e.public <=> <<n, Access>> \in after
  <2>1. e.public <=> <<n, Access>> \in now
    BY DEF DecidesOn
  <2>2. <<n, Access>> \in after <=> <<n, Access>> \in now
    <3> HIDE DEF x
    <3> QED
      BY <1>4, <1>5
  <2> QED
    BY <2>1, <2>2
<1> QED
  BY <1>2, <1>3, <1>7, <1>8, <1>9, <1>10 DEF DecidesOn, c

(* The same after a tick of its access. *)
LEMMA AccessDecided ==
    ASSUME NEW r, NEW e, NEW now, DecidesOn(r, e, now), NEW after,
           after = IF <<r.capability, Access>> \in now THEN now \ {<<r.capability, Access>>}
                   ELSE now \cup {<<r.capability, Access>>}
    PROVE  DecidesOn(r, [e EXCEPT !.public = ~@], after)
<1> DEFINE c == [e EXCEPT !.public = ~@]
           n == r.capability
<1>1. e = [capability |-> n, public |-> e.public, params |-> e.params, fields |-> e.fields] /\ e.public \in BOOLEAN
  BY DEF DecidesOn
<1>2. c = [capability |-> n, public |-> ~e.public, params |-> e.params, fields |-> e.fields]
  BY <1>1
<1>3. c.public = ~e.public /\ c.public \in BOOLEAN /\ c.fields = e.fields /\ c.params = e.params
  BY <1>1, <1>2
<1>4. \A y : <<n, y>> \in after <=> (IF y = Access THEN <<n, y>> \notin now ELSE <<n, y>> \in now)
  BY TickChanges
<1>5. \A id : InputId(id) => id # Access
  BY KindsApart
<1>6. \A name : <<"field", name>> # Access
  BY DEF Access
<1> HIDE DEF c
<1>7. \A id : InputId(id) => (id \in Range(e.params) <=> (id \in SafeIds(r) <=> <<n, id>> \notin after))
  BY <1>4, <1>5 DEF DecidesOn
<1>8. \A other : other \in Range(e.fields) <=> (other \in SafeNames(r) <=> <<n, <<"field", other>>>> \notin after)
  BY <1>4, <1>6 DEF DecidesOn
<1>9. c.public <=> <<n, Access>> \in after
  <2>1. e.public <=> <<n, Access>> \in now
    BY DEF DecidesOn
  <2> QED
    BY <2>1, <1>1, <1>3, <1>4
<1> QED
  BY <1>1, <1>2, <1>3, <1>7, <1>8, <1>9 DEF DecidesOn, c

(* What an inventory shows of an operation. *)
LEMMA ReviewedIs ==
    ASSUME NEW document, IsDocument(document), NEW inv, IsReview(document, inv), NEW i \in DOMAIN inv.operations
    PROVE  LET op == Located(document, inv.selections[i])
               r == inv.operations[i] IN
           /\ i \in DOMAIN inv.selections /\ op \in Range(document)
           /\ r = [capability |-> r.capability, path |-> op.path, method |-> op.method,
                   params |-> Parameters(op), fields |-> r.fields]
           /\ r.fields \in Seq(Range(r.fields))
           /\ r.params \in Seq(Range(r.params)) /\ \A p \in Range(r.params) : InputId(p.id)
<1> DEFINE sel == inv.selections[i]
           op == Located(document, sel)
           r == inv.operations[i]
<1>1. inv.operations = [k \in DOMAIN inv.selections |-> OperationReview(document, inv.selections[k])]
  <2>1. inv = RestInventory(document, inv.catalog, inv.selections)
    BY DEF IsReview
  <2>2. RestInventory(document, inv.catalog, inv.selections).operations =
            [k \in DOMAIN inv.selections |-> OperationReview(document, inv.selections[k])]
    BY DEF RestInventory
  <2> QED
    BY <2>1, <2>2
<1>2. i \in DOMAIN inv.selections /\ r = OperationReview(document, sel)
  BY <1>1
<1>3. sel \in Range(inv.selections)
  BY <1>2 DEF Range
<1>4. op \in Range(document)
  BY <1>3, LocatedIs DEF IsReview
<1>5. r = [capability |-> sel.capability, path |-> op.path, method |-> op.method,
           params |-> Parameters(op), fields |-> ShownFields(op.reply, sel.shape)]
  BY <1>2 DEF OperationReview
<1> HIDE DEF op, r, sel
<1>6. r.capability = sel.capability /\ r.params = Parameters(op) /\ r.fields = ShownFields(op.reply, sel.shape)
  BY <1>5
<1>7. r.fields \in Seq(Range(r.fields))
  <2>1. r.fields = op.reply.fields \/ (r.fields # None /\ r.fields \in {op.body, op.reply.items, op.reply.envelope})
    BY <1>6 DEF ShownFields
  <2> QED
    BY <1>4, <2>1 DEF IsDocument, NamesOnce
<1>8. r.params \in Seq(Range(r.params)) /\ \A p \in Range(r.params) : InputId(p.id)
  BY <1>4, <1>6, ParametersAre DEF InputId
<1>9. r = [capability |-> r.capability, path |-> op.path, method |-> op.method,
           params |-> Parameters(op), fields |-> r.fields]
  BY <1>5, <1>6
<1> QED
  BY <1>2, <1>4, <1>7, <1>8, <1>9 DEF op, r, sel

(* The decisions a review begins with. *)
LEMMA DecidedAtFirst ==
    ASSUME NEW document, IsDocument(document), NEW inv, IsReview(document, inv)
    PROVE  DecidedAll(inv, NewApproval(inv), {})
<1> DEFINE d == NewApproval(inv)
           Opening(op) ==
             LET params == Only(op.params, {p \in Range(op.params) : SafeParameter(p)})
                 fields == Only(op.fields, {f \in Range(op.fields) : SafeField(f)})
             IN  [capability |-> op.capability, public |-> FALSE,
                  params |-> [k \in DOMAIN params |-> params[k].id],
                  fields |-> [k \in DOMAIN fields |-> fields[k].name]]
<1>1. d = [hash |-> inv.hash, operations |-> [i \in DOMAIN inv.operations |-> Opening(inv.operations[i])]]
  BY DEF NewApproval
<1>2. ASSUME NEW i \in DOMAIN inv.operations PROVE DecidesOn(inv.operations[i], Opening(inv.operations[i]), {})
  <2> DEFINE r == inv.operations[i]
             e == Opening(r)
             params == Only(r.params, {p \in Range(r.params) : SafeParameter(p)})
             fields == Only(r.fields, {f \in Range(r.fields) : SafeField(f)})
             ids == [k \in DOMAIN params |-> params[k].id]
             names == [k \in DOMAIN fields |-> fields[k].name]
  <2>1. /\ r.fields \in Seq(Range(r.fields))
        /\ r.params \in Seq(Range(r.params))
    BY <1>2, ReviewedIs
  <2>2. /\ params \in Seq(Range(r.params))
        /\ Range(params) = {x \in Range(r.params) : x \in {p \in Range(r.params) : SafeParameter(p)}}
    BY <2>1, OnlyAre
  <2>3. /\ fields \in Seq(Range(r.fields))
        /\ Range(fields) = {x \in Range(r.fields) : x \in {f \in Range(r.fields) : SafeField(f)}}
    BY <2>1, OnlyAre
  <2>4. e = [capability |-> r.capability, public |-> FALSE, params |-> ids, fields |-> names]
    OBVIOUS
  <2> HIDE DEF e, r, params, fields
  <2>5. ids \in Seq(Range(ids)) /\ Range(ids) = {x.id : x \in Range(params)}
    <3>1. DOMAIN params = 1 .. Len(params) /\ Len(params) \in Nat
      BY <2>2
    <3>2. ids \in [1 .. Len(params) -> Range(ids)] /\ Range(ids) = {x.id : x \in Range(params)}
      BY <3>1 DEF Range
    <3> HIDE DEF ids
    <3> QED
      BY <3>1, <3>2
  <2>6. names \in Seq(Range(names)) /\ Range(names) = {x.name : x \in Range(fields)}
    <3>1. DOMAIN fields = 1 .. Len(fields) /\ Len(fields) \in Nat
      BY <2>3
    <3>2. names \in [1 .. Len(fields) -> Range(names)] /\ Range(names) = {x.name : x \in Range(fields)}
      BY <3>1 DEF Range
    <3> HIDE DEF names
    <3> QED
      BY <3>1, <3>2
  <2> HIDE DEF ids, names
  <2>7. Range(ids) = SafeIds(r)
    BY <2>2, <2>5 DEF SafeIds
  <2>8. Range(names) = SafeNames(r)
    BY <2>3, <2>6 DEF SafeNames
  <2>9. e.public = FALSE /\ e.params = ids /\ e.fields = names
    BY <2>4
  <2>10. DecidesOn(r, e, {})
    BY <2>4, <2>5, <2>6, <2>7, <2>8, <2>9 DEF DecidesOn
  <2> QED
    BY <2>10 DEF e, r
<1> HIDE DEF Opening
<1>3. d.operations = [i \in DOMAIN inv.operations |-> Opening(inv.operations[i])] /\ d = [hash |-> inv.hash, operations |-> d.operations]
  BY <1>1
<1> QED
  BY <1>2, <1>3 DEF DecidedAll

(* The decisions when every one of them is made again. *)
LEMMA AllDecided ==
    ASSUME NEW inv, NEW d, NEW now, DecidedAll(inv, d, now), NEW after, NEW operations,
           DOMAIN operations = DOMAIN d.operations,
           \A i \in DOMAIN inv.operations : DecidesOn(inv.operations[i], operations[i], after)
    PROVE  DecidedAll(inv, [d EXCEPT !.operations = operations], after)
<1> DEFINE c == [d EXCEPT !.operations = operations]
<1>1. d = [hash |-> inv.hash, operations |-> d.operations] /\ DOMAIN d.operations = DOMAIN inv.operations
  BY DEF DecidedAll
<1>2. c = [hash |-> inv.hash, operations |-> operations]
  BY <1>1
<1> HIDE DEF c
<1>3. c.operations = operations /\ c = [hash |-> inv.hash, operations |-> c.operations]
  BY <1>2
<1> QED
  BY <1>1, <1>3 DEF DecidedAll, c

-----------------------------------------------------------------------------
(* What its steps keep. *)

(* The inductive invariant.  A screen, and a draft, is of a document there is. *)
ScreenIs(s) ==
    /\ s = [document |-> s.document, catalog |-> s.catalog, configs |-> s.configs, chosen |-> s.chosen]
    /\ s.document \in Documents \cup {None}
DraftIs == stored # None => ScreenIs(stored)
(* The review in hand was made of what is on the screen, and its decisions follow the ticks. *)
ReviewInHand ==
    review # None =>
        /\ screen.document # None /\ IsReview(screen.document, review) /\ review.catalog = screen.catalog
        /\ \A sel \in Range(review.selections) : \E op \in Range(screen.document) :
              OperationKey(op) \in screen.chosen /\ sel = SelectionOf(screen, op)
        /\ DecidedAll(review, approval, ticked)
(* What is on its way was approved. *)
PostsAre ==
    \A post \in posts :
        /\ post = [id |-> post.id, ticked |-> post.ticked, awaited |-> post.awaited, review |-> post.review,
                   catalog |-> post.catalog]
        /\ \A b \in post.catalog.bindings : WasApproved(b, post.ticked)
DeskInv == ScreenIs(screen) /\ DraftIs /\ ReviewInHand /\ PostsAre

(* It holds of the empty desk. *)
LEMMA DeskInvInit == ASSUME DeskInit PROVE DeskInv
<1>1. ScreenIs(screen)
  BY DEF DeskInit, Blank, ScreenIs
<1> QED
  BY <1>1 DEF DeskInv, DeskInit, DraftIs, ReviewInHand, PostsAre

(* A draft is what is on the screen. *)
LEMMA DraftStays ==
    ASSUME DraftIs, ScreenIs(screen)', DraftKept
    PROVE  DraftIs'
  BY DEF DraftIs, ScreenIs, DraftKept

(* More is chosen while a review is in hand. *)
LEMMA MoreChosen ==
    ASSUME DeskInv, NEW more, screen' = [screen EXCEPT !.chosen = @ \cup more],
           review' = review, approval' = approval, ticked' = ticked
    PROVE  ScreenIs(screen)' /\ ReviewInHand'
<1>1. /\ screen' = [document |-> screen.document, catalog |-> screen.catalog, configs |-> screen.configs,
                    chosen |-> screen.chosen \cup more]
      /\ screen.document \in Documents \cup {None}
  BY DEF DeskInv, ScreenIs
<1>2. /\ screen'.document = screen.document /\ screen'.catalog = screen.catalog
      /\ screen'.configs = screen.configs /\ screen'.chosen = screen.chosen \cup more
  BY <1>1
<1>3. ScreenIs(screen)'
  BY <1>1, <1>2 DEF ScreenIs
<1>4. \A op : SelectionOf(screen', op) = SelectionOf(screen, op)
  BY <1>2 DEF SelectionOf
<1>5. ReviewInHand'
  <2> SUFFICES ASSUME review # None PROVE ReviewInHand'
    BY DEF ReviewInHand
  <2>1. /\ screen.document # None /\ IsReview(screen.document, review) /\ review.catalog = screen.catalog
        /\ \A sel \in Range(review.selections) : \E op \in Range(screen.document) :
              OperationKey(op) \in screen.chosen /\ sel = SelectionOf(screen, op)
        /\ DecidedAll(review, approval, ticked)
    BY DEF DeskInv, ReviewInHand
  <2>2. \A sel \in Range(review.selections) : \E op \in Range(screen'.document) :
              OperationKey(op) \in screen'.chosen /\ sel = SelectionOf(screen', op)
    BY <2>1, <1>2, <1>4
  <2> QED
    BY <1>2, <2>1, <2>2 DEF ReviewInHand
<1> QED
  BY <1>3, <1>5

(* An edit that ends the review. *)
LEMMA ReviewEnds ==
    ASSUME DeskInv, ScreenIs(screen)', review' = None, posts' = posts, DraftKept
    PROVE  DeskInv'
<1>1. DraftIs'
  BY DraftStays DEF DeskInv
<1> QED
  BY <1>1 DEF DeskInv, ReviewInHand, PostsAre
(* A step that leaves the screen and the review alone. *)
LEMMA ReviewRests ==
    ASSUME DeskInv, screen' = screen, review' = review, approval' = approval, ticked' = ticked
    PROVE  ScreenIs(screen)' /\ ReviewInHand'
  BY DEF DeskInv, ScreenIs, ReviewInHand

(* A document is loaded. *)
LEMMA LoadKeeps ==
    ASSUME DeskInv, NEW document \in Documents, LoadDocument(document)
    PROVE  DeskInv'
<1> DEFINE configs == [key \in KeysIn(document) |-> DefaultConfig(OpAt(document, key))]
<1>1. /\ screen' = [document |-> document, catalog |-> "first", chosen |-> {}, configs |-> configs]
      /\ review' = None /\ posts' = posts /\ DraftKept
  BY DEF LoadDocument, ResetReview
<1> HIDE DEF configs
<1>2. ScreenIs(screen)'
  BY <1>1 DEF ScreenIs
<1> QED
  BY <1>1, <1>2, ReviewEnds

(* An operation is chosen or configured, or the catalog is. *)
LEMMA UpdatesKeep ==
    ASSUME DeskInv,
           \/ \E op \in Range(screen.document) : ToggleOperation(op)
           \/ \E key \in DOMAIN screen.configs : \E edit \in ConfigEdits : UpdateOperation(key, edit)
           \/ UpdateCatalog
    PROVE  DeskInv'
<1>1. /\ screen = [document |-> screen.document, catalog |-> screen.catalog, configs |-> screen.configs, chosen |-> screen.chosen]
      /\ screen.document \in Documents \cup {None}
  BY DEF DeskInv, ScreenIs
<1>2. review' = None /\ posts' = posts /\ DraftKept
  BY DEF ToggleOperation, UpdateOperation, UpdateCatalog, ResetReview
<1>3. CASE \E op \in Range(screen.document) : ToggleOperation(op)
  <2>1. PICK op : ToggleOperation(op)
    BY <1>3
  <2>2. PICK chosen : screen' = [screen EXCEPT !.chosen = chosen]
    BY <2>1 DEF ToggleOperation
  <2>3. screen' = [document |-> screen.document, catalog |-> screen.catalog, configs |-> screen.configs, chosen |-> chosen]
    BY <1>1, <2>2
  <2>4. ScreenIs(screen)'
    BY <1>1, <2>3 DEF ScreenIs
  <2> QED
    BY <1>2, <2>4, ReviewEnds
<1>4. CASE \E key \in DOMAIN screen.configs : \E edit \in ConfigEdits : UpdateOperation(key, edit)
  <2>1. PICK key, edit : screen' = [screen EXCEPT !.configs[key][edit.field] = edit.value]
    BY <1>4 DEF UpdateOperation
  <2> DEFINE configs == [screen.configs EXCEPT ![key][edit.field] = edit.value]
  <2>2. screen' = [screen EXCEPT !.configs = configs]
    BY <2>1
  <2> HIDE DEF configs
  <2>3. screen' = [document |-> screen.document, catalog |-> screen.catalog, configs |-> configs, chosen |-> screen.chosen]
    BY <1>1, <2>2
  <2>4. ScreenIs(screen)'
    BY <1>1, <2>3 DEF ScreenIs
  <2> QED
    BY <1>2, <2>4, ReviewEnds
<1>5. CASE UpdateCatalog
  <2>1. screen' = [screen EXCEPT !.catalog = "second"]
    BY <1>5 DEF UpdateCatalog
  <2>2. screen' = [document |-> screen.document, catalog |-> "second", configs |-> screen.configs, chosen |-> screen.chosen]
    BY <1>1, <2>1
  <2>3. ScreenIs(screen)'
    BY <1>1, <2>2 DEF ScreenIs
  <2> QED
    BY <1>2, <2>3, ReviewEnds
<1> QED
  BY <1>3, <1>4, <1>5

(* A decision is changed: the inputs that can be ticked are those of the review. *)
LEMMA TogglesKeep ==
    ASSUME DeskInv, review # None, NEW op \in Range(review.operations),
           \/ \E p \in Range(op.params) : ToggleParameter(op.capability, p.id)
           \/ \E f \in Range(op.fields) : ToggleField(op.capability, f.name)
           \/ SetAuthentication(op.capability)
    PROVE  DeskInv'
<1> DEFINE n == op.capability
<1>1. /\ screen.document \in Documents /\ IsDocument(screen.document)
      /\ IsReview(screen.document, review) /\ DecidedAll(review, approval, ticked)
      /\ DOMAIN approval.operations = DOMAIN review.operations
  BY OpenApiDeskAssumption DEF DeskInv, ScreenIs, ReviewInHand, DecidedAll
<1>2. /\ screen' = screen /\ review' = review /\ posts' = posts /\ DraftKept
  BY DEF ToggleParameter, ToggleField, SetAuthentication, Decide
<1>3. \A i \in DOMAIN review.operations :
        /\ DecidesOn(review.operations[i], approval.operations[i], ticked)
        /\ approval.operations[i].capability = review.operations[i].capability
  <2> SUFFICES ASSUME NEW i \in DOMAIN review.operations
               PROVE  /\ DecidesOn(review.operations[i], approval.operations[i], ticked)
                      /\ approval.operations[i].capability = review.operations[i].capability
    OBVIOUS
  <2>1. DecidesOn(review.operations[i], approval.operations[i], ticked)
    BY <1>1 DEF DecidedAll
  <2>2. approval.operations[i] =
            [capability |-> review.operations[i].capability, public |-> approval.operations[i].public,
             params |-> approval.operations[i].params, fields |-> approval.operations[i].fields]
    BY <2>1 DEF DecidesOn
  <2> QED
    BY <2>1, <2>2
<1>4. DecidedAll(review, approval, ticked)'
  <2>1. CASE \E p \in Range(op.params) : ToggleParameter(n, p.id)
    <3>1. PICK p \in Range(op.params) : ToggleParameter(n, p.id)
      BY <2>1
    <3> DEFINE x == p.id
               changed == [i \in DOMAIN approval.operations |-> [approval.operations[i] EXCEPT !.params = Ticking(@, x)]]
    <3>2. InputId(x)
      <4>1. PICK k \in DOMAIN review.operations : op = review.operations[k]
        BY DEF Range
      <4> QED
        BY <1>1, <4>1, ReviewedIs
    <3>3. /\ approval' = [approval EXCEPT !.operations = ApprovalWith(n, changed)]
          /\ ticked' = IF <<n, x>> \in ticked THEN ticked \ {<<n, x>>} ELSE ticked \cup {<<n, x>>}
      BY <3>1 DEF ToggleParameter, Decide, Retick
    <3> HIDE DEF x, n
    <3>4. \A i \in DOMAIN review.operations : review.operations[i].capability = n => DecidesOn(review.operations[i], changed[i], ticked')
      <4> SUFFICES ASSUME NEW i \in DOMAIN review.operations, review.operations[i].capability = n
                   PROVE  DecidesOn(review.operations[i], changed[i], ticked')
        OBVIOUS
      <4>1. changed[i] = [approval.operations[i] EXCEPT !.params = Ticking(@, x)]
        BY <1>1
      <4>2. DecidesOn(review.operations[i], [approval.operations[i] EXCEPT !.params = Ticking(@, x)], ticked')
        BY <1>3, <3>2, <3>3, ParameterDecided
      <4> HIDE DEF changed
      <4> QED
        BY <4>1, <4>2
    <3> DEFINE operations == ApprovalWith(n, changed)
    <3> HIDE DEF changed
    <3>5. DOMAIN operations = DOMAIN review.operations
      BY <1>1 DEF ApprovalWith
    <3>6. ASSUME NEW i \in DOMAIN review.operations PROVE DecidesOn(review.operations[i], operations[i], ticked')
      <4>1. CASE review.operations[i].capability = n
        <5>1. operations[i] = changed[i]
          BY <1>1, <1>3, <4>1 DEF ApprovalWith
        <5> QED
          BY <3>4, <4>1, <5>1
      <4>2. CASE review.operations[i].capability # n
        <5>1. operations[i] = approval.operations[i]
          BY <1>1, <1>3, <4>2 DEF ApprovalWith
        <5>2. DecidesOn(review.operations[i], approval.operations[i], ticked')
          BY <1>3, <3>3, <4>2, ElsewhereDecided
        <5> QED
          BY <5>1, <5>2
      <4> QED
        BY <4>1, <4>2
    <3>7. DecidedAll(review, approval, ticked) /\ approval' = [approval EXCEPT !.operations = operations]
      BY <1>1, <3>3
    <3> HIDE DEF operations
    <3>8. DecidedAll(review, [approval EXCEPT !.operations = operations], ticked')
      BY <1>1, <3>5, <3>6, <3>7, AllDecided
    <3> QED
      BY <1>2, <3>7, <3>8
  <2>2. CASE \E f \in Range(op.fields) : ToggleField(n, f.name)
    <3>1. PICK name : ToggleField(n, name)
      BY <2>2
    <3> DEFINE x == <<"field", name>>
               changed == [i \in DOMAIN approval.operations |-> [approval.operations[i] EXCEPT !.fields = Ticking(@, name)]]
    <3>3. /\ approval' = [approval EXCEPT !.operations = ApprovalWith(n, changed)]
          /\ ticked' = IF <<n, x>> \in ticked THEN ticked \ {<<n, x>>} ELSE ticked \cup {<<n, x>>}
      BY <3>1 DEF ToggleField, Decide, Retick
    <3> HIDE DEF n
    <3>4. \A i \in DOMAIN review.operations : review.operations[i].capability = n => DecidesOn(review.operations[i], changed[i], ticked')
      <4> SUFFICES ASSUME NEW i \in DOMAIN review.operations, review.operations[i].capability = n
                   PROVE  DecidesOn(review.operations[i], changed[i], ticked')
        OBVIOUS
      <4>1. changed[i] = [approval.operations[i] EXCEPT !.fields = Ticking(@, name)]
        BY <1>1
      <4>2. DecidesOn(review.operations[i], [approval.operations[i] EXCEPT !.fields = Ticking(@, name)], ticked')
        BY <1>3, <3>3, FieldDecided
      <4> HIDE DEF changed
      <4> QED
        BY <4>1, <4>2
    <3> DEFINE operations == ApprovalWith(n, changed)
    <3> HIDE DEF changed, x
    <3>5. DOMAIN operations = DOMAIN review.operations
      BY <1>1 DEF ApprovalWith
    <3>6. ASSUME NEW i \in DOMAIN review.operations PROVE DecidesOn(review.operations[i], operations[i], ticked')
      <4>1. CASE review.operations[i].capability = n
        <5>1. operations[i] = changed[i]
          BY <1>1, <1>3, <4>1 DEF ApprovalWith
        <5> QED
          BY <3>4, <4>1, <5>1
      <4>2. CASE review.operations[i].capability # n
        <5>1. operations[i] = approval.operations[i]
          BY <1>1, <1>3, <4>2 DEF ApprovalWith
        <5>2. DecidesOn(review.operations[i], approval.operations[i], ticked')
          BY <1>3, <3>3, <4>2, ElsewhereDecided
        <5> QED
          BY <5>1, <5>2
      <4> QED
        BY <4>1, <4>2
    <3>7. DecidedAll(review, approval, ticked) /\ approval' = [approval EXCEPT !.operations = operations]
      BY <1>1, <3>3
    <3> HIDE DEF operations
    <3>8. DecidedAll(review, [approval EXCEPT !.operations = operations], ticked')
      BY <1>1, <3>5, <3>6, <3>7, AllDecided
    <3> QED
      BY <1>2, <3>7, <3>8
  <2>3. CASE SetAuthentication(n)
    <3> DEFINE x == Access
               changed == [i \in DOMAIN approval.operations |-> [approval.operations[i] EXCEPT !.public = ~@]]
    <3>3. /\ approval' = [approval EXCEPT !.operations = ApprovalWith(n, changed)]
          /\ ticked' = IF <<n, x>> \in ticked THEN ticked \ {<<n, x>>} ELSE ticked \cup {<<n, x>>}
      BY <2>3 DEF SetAuthentication, Decide, Retick
    <3> HIDE DEF n
    <3>4. \A i \in DOMAIN review.operations : review.operations[i].capability = n => DecidesOn(review.operations[i], changed[i], ticked')
      <4> SUFFICES ASSUME NEW i \in DOMAIN review.operations, review.operations[i].capability = n
                   PROVE  DecidesOn(review.operations[i], changed[i], ticked')
        OBVIOUS
      <4>1. changed[i] = [approval.operations[i] EXCEPT !.public = ~@]
        BY <1>1
      <4>2. DecidesOn(review.operations[i], [approval.operations[i] EXCEPT !.public = ~@], ticked')
        BY <1>3, <3>3, AccessDecided
      <4> HIDE DEF changed
      <4> QED
        BY <4>1, <4>2
    <3> DEFINE operations == ApprovalWith(n, changed)
    <3> HIDE DEF changed, x
    <3>5. DOMAIN operations = DOMAIN review.operations
      BY <1>1 DEF ApprovalWith
    <3>6. ASSUME NEW i \in DOMAIN review.operations PROVE DecidesOn(review.operations[i], operations[i], ticked')
      <4>1. CASE review.operations[i].capability = n
        <5>1. operations[i] = changed[i]
          BY <1>1, <1>3, <4>1 DEF ApprovalWith
        <5> QED
          BY <3>4, <4>1, <5>1
      <4>2. CASE review.operations[i].capability # n
        <5>1. operations[i] = approval.operations[i]
          BY <1>1, <1>3, <4>2 DEF ApprovalWith
        <5>2. DecidesOn(review.operations[i], approval.operations[i], ticked')
          BY <1>3, <3>3, <4>2, ElsewhereDecided
        <5> QED
          BY <5>1, <5>2
      <4> QED
        BY <4>1, <4>2
    <3>7. DecidedAll(review, approval, ticked) /\ approval' = [approval EXCEPT !.operations = operations]
      BY <1>1, <3>3
    <3> HIDE DEF operations
    <3>8. DecidedAll(review, [approval EXCEPT !.operations = operations], ticked')
      BY <1>1, <3>5, <3>6, <3>7, AllDecided
    <3> QED
      BY <1>2, <3>7, <3>8
  <2> QED
    BY <2>1, <2>2, <2>3
<1>5. ScreenIs(screen)' /\ ReviewInHand' /\ PostsAre'
  BY <1>2, <1>4 DEF DeskInv, ScreenIs, ReviewInHand, PostsAre
<1>6. DraftIs'
  BY <1>2, <1>5, DraftStays DEF DeskInv
<1> QED
  BY <1>5, <1>6 DEF DeskInv

(* The operations chosen, in order. *)
LEMMA ChosenAre ==
    ASSUME NEW s, IsDocument(s.document)
    PROVE  /\ ChosenOps(s) \in Seq(Range(s.document))
           /\ Range(ChosenOps(s)) = {op \in Range(s.document) : OperationKey(op) \in s.chosen}
<1> DEFINE S == {op \in Range(s.document) : OperationKey(op) \in s.chosen}
<1>1. ChosenOps(s) = Only(s.document, S) /\ s.document \in Seq(Range(s.document))
  BY DEF ChosenOps, IsDocument
<1>2. /\ Only(s.document, S) \in Seq(Range(s.document))
      /\ Range(Only(s.document, S)) = {x \in Range(s.document) : x \in S}
  <2> HIDE DEF S
  <2> QED
    BY <1>1, OnlyAre
<1> QED
  BY <1>1, <1>2

(* A review is begun. *)
LEMMA StartKeeps ==
    ASSUME DeskInv, StartReview
    PROVE  DeskInv'
<1> DEFINE document == screen.document
           ops == ChosenOps(screen)
           sels == SelectionsOf(screen)
<1>1. /\ document # None /\ screen' = screen /\ posts' = posts /\ DraftKept
      /\ review' = RestInventory(document, screen.catalog, sels)
      /\ approval' = NewApproval(review') /\ ticked' = {}
  BY DEF StartReview
<1>2. document \in Documents /\ IsDocument(document)
  BY <1>1, OpenApiDeskAssumption DEF DeskInv, ScreenIs
<1>3. /\ ops \in Seq(Range(document))
      /\ Range(ops) = {op \in Range(document) : OperationKey(op) \in screen.chosen}
  BY <1>2, ChosenAre
<1>4. sels = [i \in DOMAIN ops |-> SelectionOf(screen, ops[i])]
  BY DEF SelectionsOf
<1> HIDE DEF ops, sels
<1>5. /\ sels \in Seq(Range(sels))
      /\ \A sel \in Range(sels) : \E op \in Range(ops) : sel = SelectionOf(screen, op)
  <2>1. DOMAIN ops = 1 .. Len(ops) /\ Len(ops) \in Nat
    BY <1>3
  <2>2. sels \in [1 .. Len(ops) -> Range(sels)]
    BY <1>4, <2>1 DEF Range
  <2> QED
    BY <1>4, <2>1, <2>2 DEF Range
<1>6. \A op : Selects(SelectionOf(screen, op), op)
  BY DEF Selects, SelectionOf
<1>7. /\ review'.selections = sels /\ review'.catalog = screen.catalog
      /\ review' = RestInventory(document, review'.catalog, review'.selections)
  BY <1>1 DEF RestInventory
<1>8. IsReview(document, review')
  BY <1>3, <1>5, <1>6, <1>7 DEF IsReview
<1>9. DecidedAll(review', approval', ticked')
  BY <1>1, <1>2, <1>8, DecidedAtFirst
<1>10. ReviewInHand'
  <2>1. \A sel \in Range(review'.selections) : \E op \in Range(document) :
            OperationKey(op) \in screen.chosen /\ sel = SelectionOf(screen, op)
    BY <1>3, <1>5, <1>7
  <2> QED
    BY <1>1, <1>7, <1>8, <1>9, <2>1 DEF ReviewInHand
<1>11. ScreenIs(screen)' /\ PostsAre'
  BY <1>1 DEF DeskInv, ScreenIs, PostsAre
<1>12. DraftIs'
  BY <1>1, <1>11, DraftStays DEF DeskInv
<1> QED
  BY <1>10, <1>11, <1>12 DEF DeskInv

(* What compiles is posted. *)
LEMMA PublishKeeps ==
    ASSUME DeskInv, PublishApproved
    PROVE  DeskInv'
<1> DEFINE document == screen.document
           catalog == RestCatalog(document, review, approval)
           new == [id |-> deskActs, ticked |-> ticked, awaited |-> TRUE, review |-> review, catalog |-> catalog]
<1>1. /\ review # None /\ RestRefusal(document, review, approval) = None
      /\ posts' = posts \cup {new} /\ DraftKept
      /\ screen' = screen /\ review' = review /\ approval' = approval /\ ticked' = ticked
  BY DEF PublishApproved, Compiles
<1>2. /\ document \in Documents /\ IsDocument(document) /\ None \notin Refusals
      /\ IsReview(document, review) /\ DecidedAll(review, approval, ticked)
  BY <1>1, OpenApiDeskAssumption DEF DeskInv, ScreenIs, ReviewInHand
<1>3. \A b \in catalog.bindings : WasApproved(b, ticked)
  <2>1. catalog.bindings = {RestBinding(document, review, approval, sel) : sel \in Range(review.selections)}
    BY DEF RestCatalog
  <2> HIDE DEF catalog
  <2> SUFFICES ASSUME NEW b \in catalog.bindings PROVE WasApproved(b, ticked)
    OBVIOUS
  <2>2. PICK sel \in Range(review.selections) : b = RestBinding(document, review, approval, sel)
    BY <2>1
  <2>3. PICK i \in DOMAIN review.selections : sel = review.selections[i]
    BY DEF Range
  <2> QED
    BY <1>1, <1>2, <2>2, <2>3, BindingApproved
<1> HIDE DEF catalog
<1>4. PostsAre'
  <2>1. /\ new.ticked = ticked /\ new.catalog = catalog
        /\ new = [id |-> new.id, ticked |-> new.ticked, awaited |-> new.awaited, review |-> new.review, catalog |-> new.catalog]
    OBVIOUS
  <2> HIDE DEF new
  <2> QED
    BY <1>1, <1>3, <2>1 DEF DeskInv, PostsAre
<1>5. ScreenIs(screen)' /\ ReviewInHand'
  BY <1>1, ReviewRests
<1>6. DraftIs'
  BY <1>1, <1>5, DraftStays DEF DeskInv
<1> QED
  BY <1>4, <1>5, <1>6 DEF DeskInv

(* The page is loaded again. *)
LEMMA ReloadKeeps ==
    ASSUME DeskInv, Reload
    PROVE  DeskInv'
<1>1. /\ screen' = Blank /\ review' = None /\ DraftKept
      /\ posts' = {[post EXCEPT !.awaited = FALSE] : post \in posts}
  BY DEF Reload, ResetReview
<1>2. ScreenIs(screen)'
  BY <1>1 DEF ScreenIs, Blank
<1>3. PostsAre'
  <2> SUFFICES ASSUME NEW late \in posts'
               PROVE  /\ late = [id |-> late.id, ticked |-> late.ticked, awaited |-> late.awaited, review |-> late.review,
                                 catalog |-> late.catalog]
                      /\ \A b \in late.catalog.bindings : WasApproved(b, late.ticked)
    BY DEF PostsAre
  <2>1. PICK post \in posts : late = [post EXCEPT !.awaited = FALSE]
    BY <1>1
  <2>2. /\ post = [id |-> post.id, ticked |-> post.ticked, awaited |-> post.awaited, review |-> post.review,
                   catalog |-> post.catalog]
        /\ \A b \in post.catalog.bindings : WasApproved(b, post.ticked)
    BY DEF DeskInv, PostsAre
  <2>3. late = [id |-> post.id, ticked |-> post.ticked, awaited |-> FALSE, review |-> post.review, catalog |-> post.catalog]
    BY <2>1, <2>2
  <2>4. /\ late.id = post.id /\ late.ticked = post.ticked /\ late.awaited = FALSE /\ late.review = post.review
        /\ late.catalog = post.catalog
    BY <2>3
  <2> QED
    BY <2>2, <2>3, <2>4
<1>4. DraftIs'
  BY <1>1, <1>2, DraftStays DEF DeskInv
<1> QED
  BY <1>1, <1>2, <1>3, <1>4 DEF DeskInv, ReviewInHand

(* Every step of the desk keeps the invariant. *)
LEMMA DeskInvStep ==
    ASSUME DeskInv, [DeskNext]_deskVars
    PROVE  DeskInv'
<1>1. ASSUME NEW document \in Documents, LoadDocument(document) PROVE DeskInv'
  BY <1>1, LoadKeeps
<1>2. ASSUME ClassifyAgain PROVE DeskInv'
  <2>1. /\ screen' = screen /\ review' = review /\ approval' = approval /\ ticked' = ticked /\ posts' = posts /\ DraftKept
    BY <1>2 DEF ClassifyAgain
  <2> QED
    BY <2>1, ReviewRests, DraftStays DEF DeskInv, PostsAre
<1>3. ASSUME NEW call \in calls, NEW b \in call.flying, NEW opinion \in Opinions, NEW whole \in BOOLEAN,
             BatchAnswered(call, b, opinion, whole)
      PROVE  DeskInv'
  <2>1. /\ review' = review /\ approval' = approval /\ ticked' = ticked /\ posts' = posts /\ DraftKept
        /\ screen' = screen \/ \E more : screen' = [screen EXCEPT !.chosen = @ \cup more]
    BY <1>3 DEF BatchAnswered
  <2>2. ScreenIs(screen)' /\ ReviewInHand'
    BY <2>1, ReviewRests, MoreChosen
  <2> QED
    BY <2>1, <2>2, DraftStays DEF DeskInv, PostsAre
<1>4. ASSUME NEW call \in calls, NEW b \in call.flying, BatchFailed(call, b) PROVE DeskInv'
  <2>1. /\ screen' = screen /\ review' = review /\ approval' = approval /\ ticked' = ticked /\ posts' = posts /\ DraftKept
    BY <1>4 DEF BatchFailed
  <2> QED
    BY <2>1, ReviewRests, DraftStays DEF DeskInv, PostsAre
<1>5. ASSUME SelectSuggestedReads PROVE DeskInv'
  <2>1. /\ review' = review /\ approval' = approval /\ ticked' = ticked /\ posts' = posts /\ DraftKept
        /\ \E more : screen' = [screen EXCEPT !.chosen = @ \cup more]
    BY <1>5 DEF SelectSuggestedReads
  <2>2. ScreenIs(screen)' /\ ReviewInHand'
    BY <2>1, MoreChosen
  <2> QED
    BY <2>1, <2>2, DraftStays DEF DeskInv, PostsAre
<1>6. ASSUME NEW post \in posts, NEW ok \in BOOLEAN, PublishAnswered(post, ok) PROVE DeskInv'
  <2>1. /\ screen' = screen /\ review' = review /\ approval' = approval /\ ticked' = ticked /\ DraftKept
        /\ posts' \subseteq posts
    BY <1>6 DEF PublishAnswered
  <2>2. PostsAre'
    BY <2>1 DEF DeskInv, PostsAre
  <2> QED
    BY <2>1, <2>2, ReviewRests, DraftStays DEF DeskInv
<1>7. ASSUME Remember PROVE DeskInv'
  <2>1. /\ screen' = screen /\ review' = review /\ approval' = approval /\ ticked' = ticked /\ posts' = posts /\ DraftKept
    BY <1>7 DEF Remember
  <2> QED
    BY <2>1, ReviewRests, DraftStays DEF DeskInv, PostsAre
<1>8. ASSUME RestoreDraft PROVE DeskInv'
  <2>1. /\ stored # None /\ screen' = stored /\ review' = None /\ posts' = posts /\ DraftKept
    BY <1>8 DEF RestoreDraft, ResetReview
  <2>2. ScreenIs(screen)'
    BY <2>1 DEF DeskInv, DraftIs, ScreenIs
  <2> QED
    BY <2>1, <2>2, ReviewEnds
<1>9. ASSUME ClearStoredDraft PROVE DeskInv'
  <2>1. /\ screen' = screen /\ review' = review /\ approval' = approval /\ ticked' = ticked /\ posts' = posts /\ stored' = None
    BY <1>9 DEF ClearStoredDraft
  <2>2. DraftIs'
    BY <2>1 DEF DraftIs
  <2> QED
    BY <2>1, <2>2, ReviewRests DEF DeskInv, PostsAre
<1>10. ASSUME UNCHANGED deskVars PROVE DeskInv'
  <2>1. /\ screen' = screen /\ review' = review /\ approval' = approval /\ ticked' = ticked /\ posts' = posts /\ stored' = stored
    BY <1>10 DEF deskVars, inDesk
  <2>2. DraftIs'
    BY <2>1 DEF DeskInv, DraftIs, ScreenIs
  <2> QED
    BY <2>1, <2>2, ReviewRests DEF DeskInv, PostsAre
<1> QED
  BY <1>1, <1>2, <1>3, <1>4, <1>5, <1>6, <1>7, <1>8, <1>9, <1>10, UpdatesKeep, TogglesKeep, StartKeeps, PublishKeeps, ReloadKeeps
     DEF DeskNext

(* What is posted was approved: every operation in it can be called and read as it is
   bound, and what it takes and shows was understood and does not read like a secret, or
   was ticked in the review that it was compiled from, whatever was edited, reloaded or
   reviewed again since. *)
THEOREM ApprovedIsPosted == DeskSpec => []PostedWasApproved
<1>1. DeskInit => DeskInv
  BY DeskInvInit
<1>2. DeskInv /\ [DeskNext]_deskVars => DeskInv'
  BY DeskInvStep
<1>3. DeskInv => PostedWasApproved
  BY DEF DeskInv, PostsAre, PostedWasApproved
<1> QED
  BY <1>1, <1>2, <1>3, PTL DEF DeskSpec

(* The review in hand is the review of what is on the screen. *)
THEOREM ReviewIsCurrent == DeskSpec => []ReviewIsOfScreen
<1>1. DeskInit => DeskInv
  BY DeskInvInit
<1>2. DeskInv /\ [DeskNext]_deskVars => DeskInv'
  BY DeskInvStep
<1>3. DeskInv => ReviewIsOfScreen
  <2> SUFFICES ASSUME DeskInv, review # None PROVE ReviewIsOfScreen
    BY DEF ReviewIsOfScreen
  <2>1. /\ screen.document \in Documents /\ IsDocument(screen.document) /\ None \notin Refusals
        /\ IsReview(screen.document, review) /\ DecidedAll(review, approval, ticked) /\ review.catalog = screen.catalog
        /\ \A sel \in Range(review.selections) : \E op \in Range(screen.document) :
              OperationKey(op) \in screen.chosen /\ sel = SelectionOf(screen, op)
    BY OpenApiDeskAssumption DEF DeskInv, ScreenIs, ReviewInHand
  <2>2. review.hash = SourceHash(screen.document, screen.catalog, review.selections)
    BY <2>1 DEF IsReview, RestInventory
  <2>3. \A sel \in Range(review.selections) : \E op \in Range(ChosenOps(screen)) : sel = SelectionOf(screen, op)
    BY <2>1, ChosenAre
  <2>4. RestRefusal(screen.document, review, approval) \notin {"another source", "unknown capability", "not one decision"}
    BY <2>1, RefusedIs
  <2> QED
    BY <2>2, <2>3, <2>4 DEF ReviewIsOfScreen
<1> QED
  BY <1>1, <1>2, <1>3, PTL DEF DeskSpec

=============================================================================
