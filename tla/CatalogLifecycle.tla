---------------------------- MODULE CatalogLifecycle ----------------------------
(***************************************************************************)
(* The life of a published catalog on one view server                      *)
(* (packages/server/src/index.ts): publish, delete, roll back, restart and *)
(* restore, over the in-memory registries of packages/data-runtime and     *)
(* packages/site-sdk and the files of CatalogStore.                        *)
(*                                                                         *)
(* A publish handler runs in one turn of the event loop up to the end of   *)
(* its synchronous file writes, so it is one action, with the outcomes its *)
(* writes can have.  A rollback suspends between reading a snapshot and    *)
(* republishing it, so it is two.  A kill may land inside any write.       *)
(***************************************************************************)
EXTENDS CatalogStore

CONSTANTS
    Admins,         \* concurrent administrators' requests
    Faults,         \* whether a write may fail and a kill may land inside one
    Unsure          \* owed: the last request on the catalog did not succeed

VARIABLES
    phase,          \* "down", "booting" (before the host serves) or "serving"
    restored,       \* the host has replayed the store in this process
    accepted,       \* the bodies this process's configuration validates
    registry,       \* [Keys -> Bodies or NoBody]: both in-memory registries
    live,           \* CatalogStore: the live files
    history,        \* CatalogStore: the retained publishes
    clock,          \* Date.now(), in milliseconds
    held,           \* per request: the snapshot a rollback has read, or Absent
    owed,           \* history variable: what the last successful request left stored
    retained        \* history variable: publishes whose snapshot was written

ASSUME LifecycleAssumption ==
    /\ Faults \in BOOLEAN
    /\ Unsure \notin Bodies /\ Unsure # NoBody

vars == <<phase, restored, accepted, registry, live, history, clock, held, owed, retained>>
memory == <<phase, restored, accepted>>

Unpublished == [k \in Keys |-> NoBody]
NothingHeld == [a \in Admins |-> Absent]

TypeOK ==
    /\ phase \in {"down", "booting", "serving"}
    /\ restored \in BOOLEAN
    /\ accepted \in SUBSET Bodies
    /\ registry \in [Keys -> Bodies \cup {NoBody}]
    /\ live \in [Files -> Content]
    /\ history \in [Files -> [Stamps -> Content]]
    /\ clock \in Stamps
    /\ held \in [Admins -> Record \cup {Absent}]
    /\ owed \in [Keys -> Bodies \cup {NoBody, Unsure}]
    /\ retained \in SUBSET Record

(* Before the first start the directory is empty, or holds the bare bodies of a
   host that wrote this layout by hand: list() gives those the time 0. *)
Init ==
    /\ phase = "down"
    /\ restored = FALSE
    /\ accepted = {}
    /\ registry = Unpublished
    /\ live \in [Files -> {Absent} \cup [body : Bodies, at : {0}]]
    /\ \A f \in Files : Readable(live[f]) => FileOf(live[f]) = f
    /\ history = [f \in Files |-> [s \in Stamps |-> Absent]]
    /\ clock = 0
    /\ held = NothingHeld
    /\ owed = StoredIn(live)
    /\ retained = {}

-----------------------------------------------------------------------------
(* What a request that reached the store leaves owed: a catalog that shares the
   file lost its record, which is the cost the store's comment names. *)
Owe(k, what) ==
    [l \in Keys |-> IF l = k THEN what
                    ELSE IF SafeFileName[l] = SafeFileName[k] THEN Unsure ELSE owed[l]]

(* A snapshot survives until another publish of the file carries its stamp. *)
StillRetained(r) == {q \in retained : FileOf(q) # FileOf(r) \/ StampFor(q) # StampFor(r)}

(* publishReviewedCatalogInMemory and publishUiCatalogInMemory: validate under
   the running configuration, then replace by key.  They throw before any state
   changes when the body is refused. *)
Validates(b) == b \in accepted
Register(b) == [registry EXCEPT ![BodyKey[b]] = b]

(* publishReviewedCatalog and publishUiCatalog, once the body validates: the
   registry first, then put.  Its outcomes: stored with its snapshot; stored
   while the best-effort snapshot failed; or refused by the live write, which
   leaves the registry serving what the store does not hold. *)
PublishBody(b) ==
    LET r == [body |-> b, at |-> clock] IN
    /\ Validates(b)
    /\ registry' = Register(b)
    /\ \/ /\ live' = PutLive(live, r)
          /\ owed' = Owe(BodyKey[b], b)
          /\ \/ /\ history' = PutHistory(history, r)
                /\ retained' = StillRetained(r) \cup {r}
             \/ /\ Faults
                /\ history' \in {history, TearHistory(history, r)}
                /\ retained' = StillRetained(r)
       \/ /\ Faults
          /\ live' \in {live, TearLive(live, r)}
          /\ owed' = Owe(BodyKey[b], Unsure)
          /\ UNCHANGED <<history, retained>>

Publish(b) ==
    /\ phase = "serving"
    /\ PublishBody(b)
    /\ UNCHANGED <<memory, clock, held>>

(* rollbackPublishedCatalog, up to its await on readSnapshot. *)
RollbackRead(a, k) ==
    /\ phase = "serving"
    /\ held[a] = Absent
    /\ \E s \in SnapshotStamps(history, k) :
         held' = [held EXCEPT ![a] = ReadSnapshot(history, k, s)]
    /\ UNCHANGED <<memory, registry, live, history, clock, owed, retained>>

(* ... and after it: an ordinary publish of the snapshot's body, under the key
   that body names, or an error when the configuration no longer takes it. *)
RollbackPublish(a) ==
    /\ phase = "serving"
    /\ held[a] # Absent
    /\ held' = [held EXCEPT ![a] = Absent]
    /\ \/ PublishBody(held[a].body)
       \/ /\ ~Validates(held[a].body)
          /\ UNCHANGED <<registry, live, history, owed, retained>>
    /\ UNCHANGED <<memory, clock>>

(* deletePublishedCatalog: out of the registry, then out of the store; rmSync
   may throw after the registry has already forgotten the catalog. *)
Delete(k) ==
    /\ phase = "serving"
    /\ registry' = [registry EXCEPT ![k] = NoBody]
    /\ \/ /\ live' = RemoveLive(live, k)
          /\ history' = RemoveHistory(history, k)
          /\ owed' = [owed EXCEPT ![k] = NoBody]
       \/ /\ Faults
          /\ live[SafeFileName[k]] # Absent
          /\ owed' = [owed EXCEPT ![k] = Unsure]
          /\ UNCHANGED <<live, history>>
    /\ UNCHANGED <<memory, clock, held, retained>>

-----------------------------------------------------------------------------
(* A process starts with empty registries and the configuration of the day. *)
Start ==
    /\ phase = "down"
    /\ phase' = "booting"
    /\ accepted' \in SUBSET Bodies
    /\ UNCHANGED <<restored, registry, live, history, clock, held, owed, retained>>

(* The bodies list() hands to the replay, and the ones that replay. *)
ReplayedDated == {r.body : r \in {q \in ListRecords(live) : q.at # 0}}
Replayed == {r.body : r \in ListRecords(live)}
Replays(b) == b \in Replayed /\ Validates(b)

(* restorePublishedCatalogs, awaited before serving: every readable record is
   published in memory under the key its body names; one that no longer
   validates is reported and skipped. *)
Restore ==
    /\ phase = "booting"
    /\ phase' = "serving"
    /\ restored' = TRUE
    /\ registry' \in [Keys -> Bodies \cup {NoBody}]
    /\ \A k \in Keys :
         \/ Replays(registry'[k]) /\ BodyKey[registry'[k]] = k
         \/ registry'[k] = NoBody /\ ~\E b \in Replayed : Replays(b) /\ BodyKey[b] = k
    /\ UNCHANGED <<accepted, live, history, clock, held, owed, retained>>

(* A host that forgets the boot step serves empty registries. *)
ServeUnrestored ==
    /\ phase = "booting"
    /\ phase' = "serving"
    /\ UNCHANGED <<restored, accepted, registry, live, history, clock, held, owed, retained>>

Lose ==
    /\ phase' = "down"
    /\ restored' = FALSE
    /\ accepted' = {}
    /\ registry' = Unpublished
    /\ held' = NothingHeld

(* A restart or a kill between requests. *)
Stop ==
    /\ phase # "down"
    /\ Lose
    /\ UNCHANGED <<live, history, clock, owed, retained>>

(* A kill inside a put: before, in or after the live write, and then in the
   snapshot's.  Nobody is told, so nothing certain is owed. *)
KilledInPut(b) ==
    LET r == [body |-> b, at |-> clock] IN
    /\ Faults
    /\ phase = "serving"
    /\ Validates(b)
    /\ Lose
    /\ owed' = Owe(BodyKey[b], Unsure)
    /\ \/ /\ live' \in {live, TearLive(live, r)}
          /\ UNCHANGED <<history, retained>>
       \/ /\ live' = PutLive(live, r)
          /\ history' \in {history, TearHistory(history, r), PutHistory(history, r)}
          /\ retained' = StillRetained(r)
    /\ UNCHANGED clock

Tick ==
    /\ clock < MaxClock
    /\ clock' = clock + 1
    /\ UNCHANGED <<memory, registry, live, history, held, owed, retained>>

Next ==
    \/ \E b \in Bodies : Publish(b) \/ KilledInPut(b)
    \/ \E a \in Admins : RollbackPublish(a) \/ \E k \in Keys : RollbackRead(a, k)
    \/ \E k \in Keys : Delete(k)
    \/ Start \/ Restore \/ ServeUnrestored \/ Stop \/ Tick

Spec == Init /\ [][Next]_vars

-----------------------------------------------------------------------------
(* A publish or delete that was answered with success is what the store holds,
   until a later request on that catalog fails or is killed: the reason
   publishReviewedCatalog awaits put before it answers, and deletePublishedCatalog
   goes to the store whatever the registry held. *)
AckedIsStored ==
    \A k \in Keys : owed[k] # Unsure => StoredIn(live)[k] = owed[k]

(* After a restore the process serves exactly what the successful requests left,
   except the bodies its configuration refuses; and a process that skipped the
   restore serves nothing older than its own publishes. *)
ServedMirrorsStore ==
    phase = "serving" =>
        \A k \in Keys :
            /\ restored /\ owed[k] \in accepted \cup {NoBody} => registry[k] = owed[k]
            /\ registry[k] # NoBody /\ owed[k] # Unsure => registry[k] = owed[k]

(* Whatever path a body took into a registry (a publish, a rollback that read it
   before the configuration was narrowed, a replay at boot), it validates under
   the configuration of the process that serves it, under the key it names. *)
ServedIsValid ==
    \A k \in Keys : registry[k] # NoBody => registry[k] \in accepted /\ BodyKey[registry[k]] = k

(* A publish whose snapshot was written stays readable under its own stamp
   through later publishes, deletes, rollbacks and kills, unless another publish
   of the file carries the same stamp. *)
Recoverable ==
    \A r \in retained : history[FileOf(r)][StampFor(r)] = r

(* Nothing unreplayable is ever stored: a file only ever receives a body that the
   process writing it has just validated. *)
NothingUnreplayableStored ==
    [][\A f \in Files :
         live'[f] # live[f] /\ Readable(live'[f]) => live'[f].body \in accepted]_vars

(* The lifecycle implements the abstract one of PublishedCatalogs. *)
Published == INSTANCE PublishedCatalogs WITH served <- registry, stored <- StoredIn(live)
ImplementsPublished == Published!Spec
=============================================================================
