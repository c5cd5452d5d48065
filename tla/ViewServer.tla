------------------------------- MODULE ViewServer -------------------------------
(***************************************************************************)
(* The life of a plan on one view server (packages/server/src/index.ts):   *)
(* compose (fresh, from the plan cache, or as a revision), refine, save    *)
(* and pin, reopen and delete, for several visitors at once, while an      *)
(* owner republishes the catalogs the plans are pinned to and the process  *)
(* restarts.                                                               *)
(*                                                                         *)
(* A run is one request between its awaits: for a compose, the session and *)
(* admission checks, then the planner, then the data execution; for a      *)
(* refinement and a reopen, the data execution.  What a run reads before   *)
(* an await it keeps; the cache, the recent plans and the view store are   *)
(* read after it.                                                          *)
(***************************************************************************)
EXTENDS Naturals, Sequences, FiniteSets

CONSTANTS
    Visitors,       \* owner keys resolveViewOwner derives from sessions
    Catalogs,       \* capability catalog ids
    Hashes,         \* capability catalog contents, by their hash
    Offers,         \* [Hashes -> SUBSET Capabilities]: the capabilities of each
    Capabilities,
    Registrations,  \* UI registrations, by their registrationFingerprint
    Fingerprint,    \* [Registrations -> fingerprints]: site.catalog.fingerprint,
                    \* which does not cover data slots, surfaces or theme
    Fits,           \* <<u, w>>: a plan validated under u passes w's structural checks
    Prompts,        \* normalised prompts
    Runs,           \* concurrent requests
    MaxId,          \* bound: plans and views minted (random UUIDs in the code)
    MaxRecent,      \* MAX_RECENT_PLANS
    MaxCached,      \* createMemoryPlanCache maxEntries
    NoValue

Ids == 1 .. MaxId

ASSUME ViewServerAssumption ==
    /\ Offers \in [Hashes -> SUBSET Capabilities]
    /\ Fits \in SUBSET (Registrations \X Registrations)
    /\ \A u \in Registrations : <<u, u>> \in Fits
    /\ Registrations = DOMAIN Fingerprint
    /\ MaxId \in Nat /\ MaxRecent \in Nat /\ MaxCached \in Nat
    /\ NoValue \notin Visitors \cup Catalogs \cup Hashes \cup Registrations \cup Prompts

(* A plan names its pins (catalog, hash, and the fingerprint of reg), what it
   asks for, and nothing else the server compares.  `reg` and `private` are what a
   reader of the plan could tell and the code never reads back: the registration it
   was validated against, and the visitors whose own view or prompt went into it
   beyond the shared prompt. *)
Plan == [id : Ids, catalog : Catalogs, hash : Hashes, reg : Registrations,
         caps : SUBSET Capabilities, private : SUBSET Visitors]

(* An entry of recentPlans. *)
Remembered == [plan : Plan, catalog : Catalogs, prompt : Prompts, hash : Hashes,
               owner : Visitors]

SavedView == [id : Ids, owner : Visitors, catalog : Catalogs, plan : Plan,
              prompt : Prompts, hash : Hashes, reg : Registrations \cup {NoValue}]

(* A run: what it was asked, the snapshot of both registries it works from, the
   plan it revises (by id, then as the entry's plan), the plan it executes, and
   whether planning failed and the previous view is being served instead. *)
Run == [kind : {"compose", "refine", "reopen"},
        stage : {"session", "planning", "executing"},
        visitor : Visitors, catalog : Catalogs, hash : Hashes, reg : Registrations,
        prompt : Prompts, previousId : Ids \cup {NoValue}, previous : Plan \cup {NoValue},
        plan : Plan \cup {NoValue}, failed : BOOLEAN]

VARIABLES
    published,      \* [Catalogs -> Hashes or NoValue]: the capability registry
    site,           \* [Catalogs -> Registrations or NoValue]: the UI registry
    planCache,      \* bounded map of plans
    recentPlans,    \* bounded map from plan ids to Remembered
    views,          \* the view store, which outlives the process
    runs,           \* [Runs -> Run or NoValue]
    nextId

viewVars == <<published, site, planCache, recentPlans, views, runs, nextId>>
registries == <<published, site>>

ViewInit ==
    /\ published \in [Catalogs -> Hashes \cup {NoValue}]
    /\ site \in [Catalogs -> Registrations \cup {NoValue}]
    /\ planCache = <<>>
    /\ recentPlans = <<>>
    /\ views = {}
    /\ runs = [r \in Runs |-> NoValue]
    /\ nextId = 1

-----------------------------------------------------------------------------
(* The bounded Map that the plan cache and the recent plans share: a JavaScript Map,
   as the sequence of its entries in insertion order, from which a set at capacity
   first evicts the oldest entry, whatever key is being set. *)
Entry(k, v) == [key |-> k, val |-> v]

HasKey(m, k) == \E i \in DOMAIN m : m[i].key = k
Position(m, k) == CHOOSE i \in DOMAIN m : m[i].key = k
ValueAt(m, k) == m[Position(m, k)].val

(* Map.prototype.set: a key that is present keeps its place. *)
MapSet(m, k, v) ==
    IF HasKey(m, k)
    THEN [i \in DOMAIN m |-> IF m[i].key = k THEN Entry(k, v) ELSE m[i]]
    ELSE Append(m, Entry(k, v))

(* Map.prototype.delete of a key that is present. *)
MapDelete(m, k) ==
    [i \in 1 .. Len(m) - 1 |-> IF i < Position(m, k) THEN m[i] ELSE m[i + 1]]

(* if (size >= max) delete the first of keys(), which an empty map has not. *)
EvictOldest(m, max) == IF Len(m) >= max /\ m # <<>> THEN Tail(m) ELSE m

(* A slip: the bound tested one entry late. *)
EvictLate(m, max, k, v) == IF Len(m) > max THEN MapSet(Tail(m), k, v) ELSE MapSet(m, k, v)
SetBounded(m, max, k, v) == MapSet(EvictOldest(m, max), k, v)

MapValues(m) == {m[i].val : i \in DOMAIN m}
DistinctKeys(m) == \A i, j \in DOMAIN m : m[i].key = m[j].key => i = j

(* A map of capacity zero still holds the entry just set. *)
Capacity(max) == IF max = 0 THEN 1 ELSE max

-----------------------------------------------------------------------------
Finish(r) == runs' = [runs EXCEPT ![r] = NoValue]
Become(r, run) == runs' = [runs EXCEPT ![r] = run]
Fresh == nextId \in Ids
Mint == nextId' = nextId + 1

(* requireOwnedPlan: the same refusal for an id that is not remembered, is
   remembered for another catalog, or belongs to another visitor. *)
HeldByAnyone(id, c, v) ==
    /\ HasKey(recentPlans, id)
    /\ ValueAt(recentPlans, id).catalog = c
RequireOwnedPlan(id, c, v) ==
    /\ HasKey(recentPlans, id)
    /\ ValueAt(recentPlans, id).catalog = c
    /\ ValueAt(recentPlans, id).owner = v

(* rememberPlan, with the prompt of the request and the hash of its snapshot. *)
Remember(run, plan) ==
    [plan |-> plan, catalog |-> run.catalog, prompt |-> run.prompt, hash |-> run.hash,
     owner |-> run.visitor]
RememberPlan(run, plan) ==
    recentPlans' = SetBounded(recentPlans, MaxRecent, plan.id, Remember(run, plan))

(* The two pins and the structural checks of compilePlanDataSurfaceMessages. *)
Pinned(plan, c, h, u) ==
    plan.catalog = c /\ plan.hash = h /\ Fingerprint[plan.reg] = Fingerprint[u]
Structural(plan, h, u) == <<plan.reg, u>> \in Fits /\ plan.caps \subseteq Offers[h]
CompilesUnpinned(plan, run) == Structural(plan, run.hash, run.reg)
Compiles(plan, run) ==
    Pinned(plan, run.catalog, run.hash, run.reg) /\ Structural(plan, run.hash, run.reg)

-----------------------------------------------------------------------------
(* composeAgainstPublishedCatalogs, up to its first await: both registries are
   read once, and everything later works from that snapshot. *)
ComposeStart(r, v, c, p, id) ==
    /\ runs[r] = NoValue
    /\ published[c] # NoValue /\ site[c] # NoValue
    /\ Become(r, [kind |-> "compose", stage |-> "session", visitor |-> v, catalog |-> c,
                  hash |-> published[c], reg |-> site[c], prompt |-> p,
                  previousId |-> id, previous |-> NoValue, plan |-> NoValue, failed |-> FALSE])
    /\ UNCHANGED <<registries, planCache, recentPlans, views, nextId>>

(* resolveSession rejects, allowCompose denies, or no provider is configured. *)
ComposeRefused(r) ==
    /\ runs[r] # NoValue /\ runs[r].kind = "compose" /\ runs[r].stage = "session"
    /\ Finish(r)
    /\ UNCHANGED <<registries, planCache, recentPlans, views, nextId>>

(* planCacheKey; a revision has none. *)
CacheKeyWithoutHash(run) == <<run.catalog, Fingerprint[run.reg], run.prompt>>
CacheKey(run) == <<run.catalog, run.hash, Fingerprint[run.reg], run.prompt>>
AlwaysCacheable(run) == TRUE
Cacheable(run) == run.previousId = NoValue

(* A cached plan is reused, its identity is not. *)
Reidentified(plan) == [plan EXCEPT !.id = nextId]

ComposeHit(r) ==
    LET run == runs[r] IN
    /\ run # NoValue /\ run.kind = "compose" /\ run.stage = "session"
    /\ Cacheable(run) /\ HasKey(planCache, CacheKey(run))
    /\ Fresh /\ Mint
    /\ Become(r, [run EXCEPT !.stage = "executing",
                             !.plan = Reidentified(ValueAt(planCache, CacheKey(run)))])
    /\ UNCHANGED <<registries, planCache, recentPlans, views>>

(* A miss: nothing is cached, the entry has expired (get deletes it), or the
   host's cache threw.  A revision is looked up only here, and refused unless the
   visitor owns the plan it revises. *)
ComposeMiss(r) ==
    LET run == runs[r] IN
    /\ run # NoValue /\ run.kind = "compose" /\ run.stage = "session"
    /\ planCache' \in {planCache} \cup
         (IF Cacheable(run) /\ HasKey(planCache, CacheKey(run))
          THEN {MapDelete(planCache, CacheKey(run))} ELSE {})
    /\ \/ /\ run.previousId = NoValue
          /\ Become(r, [run EXCEPT !.stage = "planning"])
       \/ /\ run.previousId # NoValue
          /\ RequireOwnedPlan(run.previousId, run.catalog, run.visitor)
          /\ Become(r, [run EXCEPT !.stage = "planning",
                          !.previous = ValueAt(recentPlans, run.previousId).plan])
       \/ /\ run.previousId # NoValue
          /\ ~RequireOwnedPlan(run.previousId, run.catalog, run.visitor)
          /\ Finish(r)
    /\ UNCHANGED <<registries, recentPlans, views, nextId>>

(* composeDataPlan validated a draft against the snapshot.  A revision's plan is
   written from the visitor's previous plan and is theirs alone. *)
PlanFor(run, caps) ==
    [id |-> nextId, catalog |-> run.catalog, hash |-> run.hash, reg |-> run.reg,
     caps |-> caps,
     private |-> IF run.previous = NoValue THEN {} ELSE run.previous.private \cup {run.visitor}]
PlanWritten(run, caps) == PlanFor(run, caps)

ComposePlanned(r) ==
    LET run == runs[r] IN
    /\ run # NoValue /\ run.stage = "planning"
    /\ Fresh /\ Mint
    /\ \E caps \in (SUBSET Offers[run.hash]) \ {{}} :
         LET plan == PlanWritten(run, caps) IN
         /\ Become(r, [run EXCEPT !.stage = "executing", !.plan = plan])
         /\ IF Cacheable(run)
            THEN planCache' \in {planCache,
                                 SetBounded(planCache, MaxCached, CacheKey(run), plan)}
            ELSE UNCHANGED planCache
    /\ UNCHANGED <<registries, recentPlans, views>>

(* Planning ended unsupported, with a question, or invalid: a revision falls back
   to the plan it revises, anything else ends. *)
ComposeUnplanned(r) ==
    LET run == runs[r] IN
    /\ run # NoValue /\ run.stage = "planning"
    /\ \/ /\ run.previous = NoValue
          /\ Finish(r)
       \/ /\ run.previous # NoValue
          /\ Become(r, [run EXCEPT !.stage = "executing", !.plan = run.previous,
                                   !.failed = TRUE])
    /\ UNCHANGED <<registries, planCache, recentPlans, views, nextId>>

(* The data has settled: the view is compiled and the plan remembered, or
   compilation throws and nothing is. *)
Complete(r) ==
    /\ Finish(r)
    /\ IF Compiles(runs[r].plan, runs[r])
       THEN RememberPlan(runs[r], runs[r].plan)
       ELSE UNCHANGED recentPlans
    /\ UNCHANGED <<registries, planCache, views, nextId>>

ComposeFinish(r) ==
    /\ runs[r] # NoValue /\ runs[r].kind = "compose" /\ runs[r].stage = "executing"
    /\ Complete(r)

-----------------------------------------------------------------------------
(* refineComposedView, up to its data execution: the plan edit gets a new id and
   keeps the prompt and the owner of the plan it came from. *)
RefineStart(r, v, c, id) ==
    /\ runs[r] = NoValue
    /\ RequireOwnedPlan(id, c, v)
    /\ published[c] # NoValue /\ site[c] # NoValue
    /\ Fresh /\ Mint
    /\ LET held == ValueAt(recentPlans, id) IN
       Become(r, [kind |-> "refine", stage |-> "executing", visitor |-> v, catalog |-> c,
                  hash |-> published[c], reg |-> site[c], prompt |-> held.prompt,
                  previousId |-> id, previous |-> NoValue, failed |-> FALSE,
                  plan |-> [held.plan EXCEPT !.id = nextId, !.private = @ \cup {v}]])
    /\ UNCHANGED <<registries, planCache, recentPlans, views>>

RefineFinish(r) ==
    /\ runs[r] # NoValue /\ runs[r].kind = "refine"
    /\ Complete(r)

(* saveComposedView without nodeIds: the remembered plan as it stands, with the
   hash of its compose and the registrations published now. *)
SavedAs(id, v, held, plan) ==
    [id |-> id, owner |-> v, catalog |-> held.catalog, plan |-> plan,
     prompt |-> held.prompt, hash |-> held.hash, reg |-> site[held.catalog]]

Save(v, c, id) ==
    /\ RequireOwnedPlan(id, c, v)
    /\ Fresh /\ Mint
    /\ LET held == ValueAt(recentPlans, id) IN
       views' = views \cup {SavedAs(nextId, v, held, held.plan)}
    /\ UNCHANGED <<registries, planCache, recentPlans, runs>>

(* saveComposedView with nodeIds: a slice under an id of its own, validated
   against what is published now. *)
Pin(v, c, id) ==
    /\ RequireOwnedPlan(id, c, v)
    /\ published[c] # NoValue /\ site[c] # NoValue
    /\ nextId + 1 \in Ids
    /\ nextId' = nextId + 2
    /\ LET held == ValueAt(recentPlans, id) IN
       \E caps \in (SUBSET held.plan.caps) \ {{}} :
         LET slice == [held.plan EXCEPT !.id = nextId, !.caps = caps,
                                        !.private = @ \cup {v}] IN
         /\ Pinned(slice, c, published[c], site[c]) /\ Structural(slice, published[c], site[c])
         /\ views' = views \cup {SavedAs(nextId + 1, v, held, slice)}
    /\ UNCHANGED <<registries, planCache, recentPlans, runs>>

(* The view store's get and delete: another owner's view is absent. *)
Visible(view, v) == view.owner = v

(* describeDrift *)
DriftedSiteOnly(view) == site[view.catalog] = NoValue \/ site[view.catalog] # view.reg
Drifted(view) ==
    \/ published[view.catalog] # view.hash
    \/ site[view.catalog] = NoValue \/ view.reg = NoValue
    \/ site[view.catalog] # view.reg

(* reopenSavedView: unsupported unless both catalogs are published; a drifted
   view is attempted all the same. *)
ReopenStart(r, v, view) ==
    /\ runs[r] = NoValue
    /\ Visible(view, v)
    /\ published[view.catalog] # NoValue /\ site[view.catalog] # NoValue
    /\ Become(r, [kind |-> "reopen", stage |-> "executing", visitor |-> v,
                  catalog |-> view.catalog, hash |-> published[view.catalog],
                  reg |-> site[view.catalog], prompt |-> view.prompt,
                  previousId |-> NoValue, previous |-> NoValue, plan |-> view.plan,
                  failed |-> FALSE])
    /\ UNCHANGED <<registries, planCache, recentPlans, views, nextId>>

(* Every request of a plan pinned to another hash is refused by the executor, and
   compilation, with allowCatalogDrift, checks structure only. *)
Delivered(run) == IF run.plan.hash = run.hash THEN run.plan.caps ELSE {}
ReopenOk(run) == CompilesUnpinned(run.plan, run)

ReopenFinish(r) ==
    /\ runs[r] # NoValue /\ runs[r].kind = "reopen"
    /\ Finish(r)
    /\ UNCHANGED <<registries, planCache, recentPlans, views, nextId>>

DeleteView(v, view) ==
    /\ Visible(view, v)
    /\ views' = views \ {view}
    /\ UNCHANGED <<registries, planCache, recentPlans, runs, nextId>>

-----------------------------------------------------------------------------
(* Publishing, republishing and withdrawing, by the owner of the server. *)
Republish(c) ==
    /\ \/ /\ published' \in {[published EXCEPT ![c] = h] : h \in Hashes \cup {NoValue}}
          /\ UNCHANGED site
       \/ /\ site' \in {[site EXCEPT ![c] = u] : u \in Registrations \cup {NoValue}}
          /\ UNCHANGED published
    /\ UNCHANGED <<planCache, recentPlans, views, runs, nextId>>

(* A restart: the registries are replayed, the views are durable, the rest is
   process-local. *)
Restart ==
    /\ planCache' = <<>>
    /\ recentPlans' = <<>>
    /\ runs' = [r \in Runs |-> NoValue]
    /\ UNCHANGED <<registries, views, nextId>>

ViewNext ==
    \/ \E r \in Runs :
         \/ \E v \in Visitors, c \in Catalogs :
              \/ \E p \in Prompts, id \in (1 .. nextId - 1) \cup {NoValue} :
                   ComposeStart(r, v, c, p, id)
              \/ \E id \in 1 .. nextId - 1 : RefineStart(r, v, c, id)
         \/ ComposeRefused(r) \/ ComposeHit(r) \/ ComposeMiss(r)
         \/ ComposePlanned(r) \/ ComposeUnplanned(r) \/ ComposeFinish(r)
         \/ \E v \in Visitors, view \in views : ReopenStart(r, v, view)
         \/ RefineFinish(r) \/ ReopenFinish(r)
    \/ \E v \in Visitors :
         \/ \E c \in Catalogs, id \in 1 .. nextId - 1 : Save(v, c, id) \/ Pin(v, c, id)
         \/ \E view \in views : DeleteView(v, view)
    \/ \E c \in Catalogs : Republish(c)
    \/ Restart

ViewSpec == ViewInit /\ [][ViewNext]_viewVars

-----------------------------------------------------------------------------
(* Types; and a map never outgrows its limit, nor holds a key twice. *)
TypeOK ==
    /\ published \in [Catalogs -> Hashes \cup {NoValue}]
    /\ site \in [Catalogs -> Registrations \cup {NoValue}]
    /\ Len(planCache) <= Capacity(MaxCached) /\ DistinctKeys(planCache)
    /\ Len(recentPlans) <= Capacity(MaxRecent) /\ DistinctKeys(recentPlans)
    /\ \A i \in DOMAIN planCache : planCache[i].val \in Plan
    /\ \A i \in DOMAIN recentPlans :
         recentPlans[i].key \in Ids /\ recentPlans[i].val \in Remembered
    /\ views \in SUBSET SavedView
    /\ runs \in [Runs -> Run \cup {NoValue}]
    /\ nextId \in 1 .. MaxId + 1

(* Nothing written from one visitor's view reaches another: what the plan cache
   shares is written from shared prompts alone, and a remembered plan, a saved
   view or a run holds only what its own visitor put in.  It is what the cache
   bypass of revisions and the ownership check of every planId are for. *)
PrivateToOwner ==
    /\ TypeOK
    /\ \A plan \in MapValues(planCache) : plan.private = {}
    /\ \A held \in MapValues(recentPlans) : held.plan.private \subseteq {held.owner}
    /\ \A view \in views : view.plan.private \subseteq {view.owner}
    /\ \A r \in Runs : runs[r] # NoValue /\ runs[r].plan # NoValue =>
         runs[r].plan.private \subseteq {runs[r].visitor}

(* A republish landing in the middle of a compose cannot make two reads disagree:
   the plan that is executed, fresh or from the cache, is pinned to the run's own
   snapshot.  Only a fallback may not be. *)
SnapshotHolds ==
    \A r \in Runs :
        LET run == runs[r] IN
        run # NoValue /\ run.kind = "compose" /\ run.stage = "executing" /\ ~run.failed =>
            Pinned(run.plan, run.catalog, run.hash, run.reg)

(* A view that is not reported as drifted replays its data: none of its requests
   is refused for naming another catalog. *)
FreshViewDelivers ==
    \A view \in views : ~Drifted(view) => published[view.catalog] = view.plan.hash

==============================================================================
