# RenderYes in TLA+

RenderYes turns a visitor's prompt into a *plan* (which capabilities of a
site's API catalog to call, how to show their results), executes the plan's
data requests, and compiles it into a view made of the site's registered
components.  This directory holds TLA+ modules of it, from the review in which
a host decides what of its API may be asked for to the screen of the visitor
who asks; TLC configurations that check them on small instances; and proofs,
checked by TLAPS, for every value of the constants.

Source paths are relative to the repository root (`src/` in `PROJECT.json`).
`PROJECT.json` lists, per definition, the lines of code it stands for; per
hazard, the properties that would catch it; and per property, a slip the code
could make, under which TLC finds that property violated.

## 1. The system

| component | code | state it keeps | operations |
|---|---|---|---|
| catalog compilation | `packages/capability-catalog/src`: `graphql.ts`, `openapi.ts`, `compile.ts` | none | discover, inventory, candidate, compile to a catalog |
| review decisions | `decisions.ts`, `review.ts`, `bin/catalog.mjs` | files: a schema, an inventory, decisions | inventory, candidate, diff, migrate, re-bind, compile, curate |
| catalog review application | `apps/catalog-review/src` | one desk for REST, two for GraphQL: what was loaded, chosen, approved, compiled | load, analyse, choose, configure, approve, compile, post |
| catalog store | `packages/server/src/catalogs-fs.ts`, `catalogs.ts` | one live JSON file per catalog, a directory of time-stamped snapshots beside it | put, remove, list, history, readSnapshot |
| catalog lifecycle | `packages/server/src/index.ts` 2679-3191, `data-runtime/src/registry.ts`, `site-sdk/src/site-registry.ts` | two in-memory registries (capability catalogs, UI registrations) over the store | publish, delete, roll back, restore at boot |
| plan lifecycle | `packages/server/src/index.ts` 2020-2120 and 3380-4620, `views.ts`, `views-fs.ts` | plan cache, recent plans, saved views | compose, revise, refine, save, pin, list, reopen, delete |
| planner contract | `planner/src/contract.ts`, `capability-catalog/src/planning-contract.ts` | none | what a model is offered: schema, example, scope |
| planner loop, providers | `planner/src/compose.ts`, `server/src/providers.ts` | attempts, last errors, usage | call the model, validate, repair, give up at a deadline |
| System One | `server/src/system-one.ts` | none | guard, route, draft, merge, ask; or hand over to a model |
| plan validation | `core/src/validate.ts` | none | check a plan against a snapshot |
| data executor | `packages/data-runtime/src/index.ts` | requests in flight, settled results, audit | gate, dispatch, time out, abort, push down, bound rows |
| REST adapter, GraphQL runtime | `openapi-adapter.ts`, `graphql.ts`, `filter-pushdown.ts`, `ordering.ts` | attempts of one exchange | resolve headers, send, retry, read the answer |
| composition and joins | `data-runtime/src/compose.ts`, `join.ts`, `query.ts` | none | union, join, aggregate, order |
| slice and refine | `server/src/slice.ts`, `refine.ts` | none | cut a plan to some panels; edit one of them |
| site SDK | `site-sdk/src/index.ts` | none | register components, project results, compile a surface |
| HTTP transport | `server/src/http.ts`, `http-node.ts` | one request's body and answer | route, gate, read, dispatch, answer |
| streamed compose | `core/src/events.ts`, `server/src/http.ts`, `react/src/compose-stream.ts` | the view folded so far | emit, frame, fold |
| client compose | `react/src/use-compose.tsx` | the view on screen, the write behind it | compose, revise, refine, rearrange, save, reopen, reset |
| the rest | view generator, planner evaluation, starter components, installer | none shared | build-time tools and rendering |

How they interact.  A host reviews its API, by commands or at a desk, and posts
what compiles.  The lifecycle validates that body, replaces it in a registry,
and writes it to the store.  A visitor's compose comes through the transport,
reads both registries once, and asks a planner (a model, the rules of System
One, or the plan cache) for a plan under the contract drawn from them.  The
plan's requests go to the data executor, which calls upstreams through the
adapters; what comes back is composed, joined, projected into the panels and
compiled.  The plan is remembered under its id.  Refine, save and pin name a
remembered plan by that id; reopen names a saved view.  The client follows a
compose as a stream of events or waits for its answer, and may go on to
something else before that answer comes.

What is hard.

- *Crashes and half-done writes.*  The registry is changed before the store; a
  write may throw or the process may be killed half way through a file; what
  a restart replays must be what the requests were told.
- *Stale state.*  Model calls and data calls take seconds.  A republish, an
  eviction, a restart or another visitor's request lands between what a run
  has read and what it does with it.  A review takes days: the schema moves on
  under the decisions, and at a desk an answer comes for a document that is no
  longer on screen.
- *Two descriptions of one thing.*  The contract a model is given is assembled
  apart from the checks its draft meets; a filter means one thing here and is
  compiled for an upstream; results are written to paths in one walk of a plan
  and bound to components in another; a stream and a single answer tell one
  run; `diff` foretells `compile`.
- *Limits.*  Bounded maps evict while their entries are being named by
  requests; results are truncated before they are filtered; discovery stops at
  a depth; bodies, rows, fields, panels and repairs are counted.
- *Timeouts and late answers.*  Deadlines that are read only between attempts;
  an upstream that answers after its caller has settled; a retry of a request
  that may have taken effect.
- *Partial answers.*  One input of a union failed, one part of a prompt was
  understood, one field of a row came with an error.

What makes each component correct.

- Review and compilation: discovery names what it leaves out; a candidate
  needs only decisions no tool may take; what `diff` calls unaffected compiles;
  what compiles can be executed and was approved; what a desk posts is what it
  shows.
- Catalog store and lifecycle: an answered request is what is stored; a
  restored process serves what is owed and nothing its configuration refuses;
  a retained snapshot can be read back.
- Plan lifecycle: no visitor's private plan reaches another; a compose works
  from one snapshot; a saved view that shows no drift delivers.
- Contract and validation: nothing a surface could show is withheld; what the
  contract offers validates; a plan that validates runs.
- Planner loop: at most `maxRetries` repairs, none after the deadline; the
  failure reported is the last one's; what is metered is what was called.
- System One: what the rules draft needs no repair, says what the prompt says,
  keeps what was on screen and answers no prompt by half.
- Data executor: every request settles once and is audited once; a late
  answer changes nothing; no more than the limit in flight; an answer without
  a mark of being partial is the answer over the whole collection.
- Composition, slices, projection: a composed panel shows the set it is defined
  as; a slice stands on its own; a panel reads its own sources' results.
- Transport, stream and client: a body is read whole before anything runs; a
  stream tells what a single answer would, once; the screen is the plan the
  next request would name.

## 2. Modules

| module | models | composed from |
|---|---|---|
| `CatalogStore` | the file-backed store, torn writes included | |
| `CatalogLifecycle` | publish, roll back, delete, stop, kill, start, restore | extends `CatalogStore` |
| `PublishedCatalogs` | what the lifecycle promises: a map served, a map stored | refined by `CatalogLifecycle` |
| `ViewServer` | compose, revise, refine, save, pin, reopen, delete, republish, restart; the insertion-ordered `Map` with eviction it uses twice | |
| `DataExecutor` | the worker pool, the host checks, the race of an upstream with its timeout and the budget, the audit | |
| `RequestPool` | what execution promises: taken in order, decided once, given back once, within capacity | refined by `DataExecutor` |
| `OpenApiUpstream` | the exchanges of REST operations under the executor: headers, attempts, delays | extends `DataExecutor` |
| `PlannerLoop` | the attempts of `composeDataPlan` and the calls of a provider, under the deadlines of a compose | |
| `PlanContract` | what a model is offered, and the checks its draft meets | |
| `SystemOne` | planning by rules, over a conversation | |
| `SystemOneDraft` | how one capability is drafted from the catalog and the words of a prompt | |
| `PlanData` | the checks of a plan, set operations and joins over its answers, panels, refinement, slices | |
| `SurfaceCompile` | registration of components, projection into scoped paths, compile of a surface | |
| `FilterPushdown`, `GraphQlBinding`, `QueryAnswer` | one query: its filter in an upstream's dialect; who writes each argument; the page that comes back and its marks | each extends the one before |
| `ComposeStream` | the events of one streamed compose, their transport, the client's fold | |
| `HttpFront` | one request through the transport | |
| `ClientCompose` | the session of one browser | |
| `CatalogDefinition`, `GraphQlCatalog`, `GraphQlCompile` | from a GraphQL schema to a catalog: discovery, inventory, candidate, diff, compile, curated compile | each extends the one before |
| `InputSchema` | the arguments a planner may write, from input types and approvals | |
| `CatalogReview` | the commands over a review's files | extends `GraphQlCompile` |
| `OpenApiCatalog`, `OpenApiDesk` | from an OpenAPI document to a catalog; the desk for it | extend `CatalogDefinition` |
| `GraphQlDesk`, `CuratedDesk` | the two desks for a GraphQL API | extend `GraphQlCompile` |
| `CatalogProofs`, `GraphQlProofs`, `ServerProofs`, `DataExecutorProofs`, `PlannerLoopProofs`, `PlanDataProofs`, `PlanContractProofs`, `ClientComposeProofs` | theorems | extend the modules they are about: `CatalogProofs` is about `CatalogLifecycle` and `OpenApiDesk`, `GraphQlProofs` about the GraphQL catalog, `CatalogReview`, `GraphQlDesk` and `CuratedDesk`, `PlanDataProofs` about `PlanData` and `QueryAnswer`, `ServerProofs` about `ViewServer`, `ComposeStream` and `HttpFront`, `DataExecutorProofs` also about `OpenApiUpstream`, `PlannerLoopProofs` about `SystemOne` and `SystemOneDraft` |
| `MC...` | values of the constants, and where one run asks about two modules, the choice between them | |

Where an `MC` module joins modules, a variable of its own picks one at the
start and never changes, and the other ones' variables keep their initial
values: nothing is composed that the code does not compose.  `MCComposeStream`
joins `ComposeStream`, `HttpFront` and `ClientCompose`, `MCPlanData` `PlanData` and
`SurfaceCompile`, `MCSystemOne` `SystemOne`, `SystemOneDraft` and `PlannerLoop`,
`MCPlanContract` `PlanContract` and `InputSchema`, and `MCReviewTools` the
commands and the three desks.

### CatalogStore, CatalogLifecycle and PublishedCatalogs

A *body* is a publish body; all the model keeps of it is the key (capability
or UI catalog, and its id) that it names.  `SafeFileName` is the store's
`safeFileName`, a constant function which may map two keys to one file.  The
contents of a file are `Absent`, `Torn` (not parseable) or a record with the
body and the millisecond of its publish.  `PutLive`, `TearLive`, `PutHistory`,
`TearHistory`, `RemoveLive` and `RemoveHistory` say what the writes of `put`
and `remove` leave when they complete and when they are cut; `ListRecords`,
`SnapshotStamps` and `ReadSnapshot` what the readers find.

`registry` stands for both in-memory registries.  The code's handlers up to the
end of their synchronous writes run in one turn of the event loop, so
`Publish`, `Delete` and `Restore` are one action each, with the outcomes that
their writes can have as disjuncts.  `rollbackPublishedCatalog` awaits
`readSnapshot`, so it is `RollbackRead` and `RollbackPublish`, and anything may
happen between the two.  `Stop` is a restart between requests, `KilledInPut` a
kill inside a write, `ServeUnrestored` a host that never calls
`restorePublishedCatalogs`.  Validation against the configuration is a set of
bodies, `accepted`, chosen anew at each `Start`.

Two history variables state the properties: `owed` is what the last request on
a key that was answered with success left stored, or `Unsure` after one that
failed or was killed; `retained` is the set of publishes whose snapshot was
written and not overwritten since.

`PublishedCatalogs` has, per key, one body served and one stored.  A request
moves both, or half succeeds; a restart loses what is served; a replay serves
only what is stored.  `CatalogLifecycle` implements it with
`served <- registry` and `stored <- StoredIn(live)`.

### ViewServer

A run is one request between its awaits.  Every field a run holds is a value
the handler keeps in a local variable across an await; everything read after
an await is read from the state.  `ComposeStart` takes the snapshot of both
registries; `ComposeHit`, `ComposeMiss` and `ComposeRefused` follow the session
and admission checks; `ComposePlanned` and `ComposeUnplanned` follow the
planner; `ComposeFinish` follows the data and compiles and remembers.
`RefineStart`/`RefineFinish` and `ReopenStart`/`ReopenFinish` are the same
around one await.  `Save`, `Pin` and `DeleteView` are one turn each with a
synchronous view store.  `Republish` changes either registry (which is all that
`CatalogLifecycle` does to them, as seen from here), and `Restart` empties
everything but the views.

A plan is its id, its three pins and the set of capabilities it asks for.  The
two fields a plan carries for the properties (`reg`, `private`) are never read
by an action except through what the code does store of them: `reg` is read
only as `Fingerprint[reg]` and by `Fits`, which stands for the structural
checks of plan compilation.  `Fingerprint` need not be injective, because
`registrationFingerprint` does not cover data slots, surfaces or theme.  What
those checks are is in `PlanData`.

### DataExecutor, RequestPool and OpenApiUpstream

A request is an index of the plan.  `Dispatch` and `Settle` are the two ends of
a worker's loop in `mapWithConcurrency`; between them a request is `gating`
(the host's checks, `Awaits[i]` of them, each a promise), `racing` (its
upstream has been called) or `auditing`.  Each action is one turn of the event
loop: a promise that settles or a timer that fires, with the microtasks that
follow.  So `Call` with an expired budget decides at once, because
`raceWithAbort` looks at an aborted signal before it listens to it, and
`Expire` aborts every open race in one step.  What an upstream answers is a
choice between rows and a failure; an answer outside a race is consumed and
changes nothing.  A request can be refused at any point of its checks
(`Refuse`), which merges the refusals that need no host with those of each
check.

`RequestPool` knows neither checks, upstreams nor timers.  `DataExecutor`
implements it with `taken <- next - 1`, `outcome <- result` and `returned <-`
the settled requests.

`OpenApiUpstream` gives some of the requests a REST operation for an upstream.
The loop of `createOpenApiRuntime` resolves the host's headers (`Begin`,
`Resolved`), sends, waits for the response (`Responds`) and for its body
(`Reads`), and tries again after a delay what may pass (`Retries`), unless it
is a POST.  The race's signal ends the loop wherever it waits, but in the
host's resolver (`Aborts`); `Return` gives the executor its answer.  `sent`
counts what left for the upstream.

### PlannerLoop

`answers` is the sequence of what the attempts brought; the loop's counter is
its length.  `Ask` is the top of the loop, `GiveUp` the early return when time
has run out, `Responds` and `RetryWithoutSchema` are the calls of a provider,
of which an endpoint that refuses the schema takes two, and each of the other
actions is the end of an attempt with all that the loop does before it comes
round: the failure it remembers, the prompt it rebuilds, the return after the
last attempt.  What makes a draft valid is a choice of the environment.
`quoted` is what the user prompt carries of earlier attempts: a provider that
throws leaves the prompt alone, since only the end of the loop's body rebuilds
it.  `metered` is what `index.ts` counts; `spent` what was called.  Time
advances in calls only: a response within `Timeout`, then a body within
`MaxBody`, which nothing in the code bounds.

### PlanContract and InputSchema

A *world* is one published catalog beside one surface, and a draft what a
planner may write for it.  `PlanContract` has the scope of the surface
(`scopeManifestToSurface`), the schema a draft is held to, the worked examples
beside it, the validation, and what the executor refuses of a request with a query.
Its steps draw up the contract, take a draft, judge it and run it.

A worked example of the prompt (`shapeExampleLines`) is the set of drafts a model may
write that follows it: its brackets filled with any capability, component and
relationship of the contract, its literals kept, `query: { limit: 10 }` of the first
included.  `CanFollow` asks whether the schema takes one of them.  `counted` is what the
prompt says counting questions are supported of, and `CanCount` whether the schema
takes one.  `ExampleLimit` is the literal 10, and 4 in the runs, beside pages of two
and four and budgets of three and five.

`InputSchema` compiles one field's arguments: a type is walked from each
approved argument, pruned to the approved paths, cut where it is already inside
itself by a reference to a definition of the type, and its enums lose the
excluded values.  `ParamsAreApproved` reads the compiled schema back, place by
place, through every reference.

### SystemOne and SystemOneDraft

A prompt is what its words let the rules see of it: flags and sets, no text.
`Compose`, `Pick` (an answer to the rules' own question) and `OpenStored`
start; `Begin` is the guards and the route; `Decide` and `DecidePart` a
decision of the endpoint, whole or for a part of a compound prompt;
`Compound` what the parts come to; `ModelAnswer` the language model where there
is one (`assisted`), or where rules only watch (`shadow`).  `Deliver`, `Repair`
and `Abandon` are `composeDataPlan` over it, so a draft that does not validate is
seen to be sent back.  A request of a plan carries what it was written for, the
compose and the part of its prompt, so that what a panel shows can be followed
through any renumbering (`Shown`).  `Nothing` stands for a request nobody makes,
which a host's draft may bind; the panels have no panels inside.

`SystemOneDraft` builds one draft: arguments from declared values the prompt
names, a count, the words left over for a search; filter groups; an ordering;
a limit under `effectiveLimitCeiling`; the first component that can show it.

### PlanData and SurfaceCompile

`Compose` takes any candidate draft and runs the checks on it; `Settle` is one
request's result; `Show` the end of execution: set operations (`union`,
`intersection`, `difference`) and joins over what came back, with their
refusals and the row budget, then the panels.  With `streamed` the panels whose
sources have settled are drawn before.  `Refine` is each operation of
`refine.ts`, `Save`, `Pin` (a slice with its referential closure) and `Reopen`
make and replay a saved plan.  `Fits` is the
conjunction of the checks of `validate.ts` and of the planner, one operator
each; `Accepted` adds that nothing fetched goes unused.

`SurfaceCompile` has the other half of the site SDK.  `Register` and
`Registrable` are what registration adds to a component's bindings and refuses
of them.  `ModelOf` writes each node's result, state and provenance under the
paths of that node, one write after another, with the refusals of a
conflicting write and of a path that leads through data; `Compile` walks the
same nodes and makes component records that name paths.  `ReadsItsOwn`
evaluates those records against that model.

### FilterPushdown, GraphQlBinding and QueryAnswer

`FilterPushdown` compiles a filter into a dialect.  A filter is a tree, written as a
function from positions (sequences of numbers) to nodes, no deeper than `MaxFilterDepth`,
and what the code does by recursion is done level by level (`Stands`).  A dialect has per field the operators, null
tests and, across a list of related rows, quantifiers; per combinator whether
it is missing, takes one expression or a list.  `Selects` is how an upstream
reads the result, `Evaluates` how `query.ts` reads the filter.
`GraphQlBinding` is who writes each argument of a root field: the plan, the
session's identity or the runtime.  `QueryAnswer` is one request in two steps.
`Fetch` is the runtime's call: what goes with it, the page the upstream answers
with, null nodes dropped from it, its errors and marks.  `Finish` is what
`executeTrusted` does with the page: refuse an aggregate over a truncated page,
refuse an ordering the upstream did not apply, apply the query, mark what was
narrowed here beyond the page, and cut to the row budget.  The upstream may put
rows that lack the sorted field first or last and may order ties as it likes.
`Hidden` is a row the session may not read, which a connection shows as null.

### ComposeStream and HttpFront

`Serve` is the next thing a compose does: accept, plan, settle a request,
compose what is composed, finish or fall back; with each, the events it emits
and the deltas against `lastDataModel`.  A projection may throw, which costs
its event.  `Throw` ends the run by an error, `Lose` cuts the connection after
any frame, `Read` is one frame folded by the client, `BodyEnded` what the hook
reports when the body ends.  `answer` is what the batch form of the same run
would have said.

`HttpFront` is one request below it.  `Arrive` is a chunk the node adapter
queues, `GoAway` the caller; `Unrouted` all that is answered by path, method
and content type; `Gate` the host's `requireAdmin`; `ReadChunk`, `ReadBroken`
and `ReadEnd` the reader of `readJsonBody`; `Incomplete`, `Returns` and
`Throws` the dispatch; `Deliver` writes the response and applies
`failureKindFor` to it as the client does.

### ClientCompose

`Visit` is what a visitor does: submit, refine, move a panel, save, reopen,
reset.  `Answered` is the answer of the operation that holds `busy`, whole, or a
stream's frames one at a time, or its loss.  Beside it `FlushReorder` arms and
fires the debounced write of a rearrangement, and `Write` is that write's
answer, which may come after anything.  `generation` is the code's own guard
against late answers.  `excuses` is a history variable of the three reasons
for which the screen may differ from the plan behind it.

### GraphQlCatalog, GraphQlCompile and CatalogReview

A schema has types by name and root fields.  `Discovered` is the walk of
`graphql.ts` from a root: what it offers, and the ledger of what it does not,
with the reason.  `Refusal` is `compileApprovedGraphQlCatalog`'s first reason
to refuse, in its order; `Compiled` the catalog otherwise; `CuratedInventory`
and `CuratedDecisions` what a curated compile makes up from the schema alone.
`CatalogReview` has a file for each of schema, inventory and decisions, and one
action per command or edit; `Upstream` replaces the schema.

### OpenApiCatalog, OpenApiDesk, GraphQlDesk and CuratedDesk

`OpenApiCatalog` has the listing of operations, the inventory and the compile
for a document.  The desks are the browser forms: one action per thing the
reviewer does and per answer of the tool's own server, which may come late, in
any order, or not at all.  `OpenApiDesk` keeps the draft in the browser's
storage and may be reloaded.  `ticked` is a history variable: what the reviewer
ticked by hand in the review under way.

## 3. Runs

Each run finishes in under five minutes with two workers.

| run | asks | bounds |
|---|---|---|
| `CatalogLifecycle` | retained snapshots stay readable (`Recoverable`); what was answered is what is stored (`AckedIsStored`) and, restored, served (`ServedMirrorsStore`); the lifecycle implements `PublishedCatalogs` (`ImplementsPublished`) | two keys with a body and a file each, two milliseconds, writes that fail or are cut, kills, restarts, narrowed configurations |
| `ViewServer` | nothing private crosses (`PrivateToOwner`); a compose works from one snapshot (`SnapshotHolds`); a view that shows no drift delivers its data (`FreshViewDelivers`) | two visitors, two requests at a time, one catalog of two contents, three ids, one recent plan, one cached plan |
| `DataExecutor` | nothing late is accepted (`NothingAcceptedLate`), nothing is sent that nobody waits for and a POST once (`SentWhileAwaited`), everything ends (`EverythingEnds`), and the executor implements `RequestPool` (`ImplementsPool`) | three requests with no, one and two host checks, two workers; one request is a GET of two attempts, one a POST |
| `PlanContract` | the scope withholds nothing (`ScopeWithholdsNothing`); contract, schema and validation agree, and the examples of the prompt can be followed but for two exact exceptions (`ContractHolds`); a valid plan runs (`ReadyRuns`); compiled arguments are what was approved (`ParamsAreApproved`) | 1,440 worlds, with lists and single rows that group and count, pages of two, four and none, surfaces of one component, two and any number; what is asked of each, 407 drafts; 3,998 decisions on input types that nest, with paths of up to four |
| `QueryAnswer` | an answer without a mark is the answer over the whole collection (`UnmarkedIsWhole`), an aggregate is exact or refused (`AggregateExactOrRefused`), an upstream that sorts is not refused for ties and missing values (`ObedientIsAccepted`) | every query with every page over up to three rows; every filter in five dialects, whoever writes it, and every fault, over up to two |
| `ComposeStream` | the stream tells what the batch form would (`StreamTellsAll`), a run that plans ends and is heard to (`Concludes`), a request is answered in order (`AnswersInOrder`), the screen is the plan the session acts on (`ScreenIsPlan`), what was replaced stays so (`ReplacedStaysReplaced`) | three requests, two at once; 3,456 requests at the transport with bodies of up to three chunks; views of three panels, five acts of a visitor |
| `Planners` | a model's: no attempt starts late (`EndsSoon`), the failure reported is the last one (`ReportsLastAnswer`), a repair quotes the latest draft (`QuotesLatestDraft`), what is metered was called (`EveryCallMetered`); the rules': drafts pass as they are (`DraftsStand`), say what the prompt says (`DraftSaysIt`), and keep the view (`KeepsTheView`) | three attempts of one or two calls, deadlines 4 and 5, timeout 2, bodies of up to 2; three capabilities, seven prompts, two panels, one repair, three turns, with a model, without one, or beside one; some 64,500 drafts |
| `PlanData` | slices stand (`PinsStand`), panels show what they are defined as and read their own sources (`DrawnAsDefined`), what was drawn early stays (`SettledPanelsStay`) | some 200 drafts of up to two panels, with a set operation or a join, over rows that fail, fall short or arrive whole, two acts after; some 41,000 compiles of up to three nodes on two surfaces |
| `ReviewTools` | the ledger is total (`LedgerTotal`), diff foretells compile (`DiffForetells`), a candidate fills what one capability may hold, in order and by whole groups, and needs only what no tool may decide (`CandidateStands`), what compiles can be executed (`CompiledStands`), what is in hand is of what is on screen (`InHandIsOnScreen`), what is posted was approved (`PostedWasApproved`), a curated catalog is what was confirmed (`CuratedStands`) | three schemas with five options each, three fields to a capability, four commands; two documents of a desk, four acts; two schemas of two queries, four acts; three curated schemas, six acts |

`FilterMeaning` checks one statement of a comment, that a hoisted filter
survives being nested under the dialect's own conjunction
(`filter-pushdown.ts:408-411`), and finds it broken: a `none` of two conditions
for an input whose `_not` takes one expression is sent as not (a and b), so the
upstream keeps rows of which one holds.  Where no combinator that takes
one expression has several parts (and no row is related to none, see below),
meaning does survive: `QueryAnswer` checks it in five dialects, and it is proved
for all (section 4).

`OrderedTop` checks another, that the first `limit` rows of a source that applies
the ordering are the plan's top `limit` (`data-runtime/src/index.ts:942-944`), and
finds it broken where the source is not told the limit and puts the rows without
the field first: of the nulls and the 1 it serves, the sort done here puts the
nulls last, and the window then shows 1 and a null where the source holds a 2.  No
mark says so.  `UnmarkedIsWhole` has a premise, `SortFindsItSorted`, that leaves
out that case alone: no more rows were served than the limit, or each has the field.

`ExampleFits` checks a third, that the model is never invited to ask for a limit one
page can never hold (`planning-contract.ts:174-176`), of catalogs with a list on offer,
and finds it broken: the first worked example asks for ten rows whatever is on offer
(`contract.ts:373`), and where every list on offer has fewer to a page, or a smaller
row budget, the example followed to the letter is a draft the schema refuses.
`ContractHolds` says exactly when: the first example can be followed if and only if
some list on offer takes its limit, which includes that there is a list at all.

Why the bounds are enough.

*Lifecycle.*  Interference between catalogs is pairwise; overwriting a snapshot
takes two publishes in one millisecond and telling them apart takes a tick; a
rollback race takes one stamp to come back to.  That a body other than a key's
only one is never mistaken for it is proved, for any number of them (section
4).

*ViewServer.*  A leak needs two visitors and the shared cache between them; an
eviction needs one plan more than the map holds, hence two ids for one place,
and a third for the plan another run mints meanwhile.  Symmetry is used between
the two visitors, the two runs and the two contents, which no constant operator
tells apart.

*DataExecutor.*  A late answer needs one request beyond the race and one before
it, the bound on workers one request more than workers, and checks that await
nothing, once and twice let the budget run out before, between and after them.
Two attempts are one retry, the most of which the next is like the last.

*PlannerLoop.*  Three attempts, the code's default, are the fewest in which a
provider can fail between two drafts.  A call may outlast the deadline, or
several shorter ones add up to it.

*PlanContract.*  A rule of the scope needs at most three capabilities (a join's
two sides and what composes); pages of two and four rows beside an example of
four, budgets of three and five, and limits of up to six tell limit, page, budget and example from
each other.  A single row that groups and counts is what the prompt says counting is
supported of and the schema offers none.  A type that is inside itself is met at the second level, so a path
of four meets it under another argument's root.

*QueryAnswer.*  A page must be able to miss rows by its own size, by the limit
and by the budget, each alone.  Two rows in either order show a wrong ordering;
the third is what a page of two has missed.  `Obeys` is `{TRUE}`, since the code
promises no mark for an upstream that drops an ordering (see below).  Filters are of
two levels of groups, the fewest that nest.  `OrderedTop` has one collection, and a
default page that is longer than a limit.

*ComposeStream.*  Three requests over two workers settle out of
order; three panels leave a view that can be rearranged after a removal; five
acts hold a rearrangement, what replaces it, and a rearrangement of that.

*SystemOne, PlanData.*  Two panels fill a surface, so that a third turn pushes
one out.  A second act after the first is a pin of a refined plan.  Three nodes
are a parent with two children, the fewest with an order.

*ReviewTools.*  Three schemas let the upstream move twice, which is how a
decision can outlive a field and meet another of its name.  A limit of three
fields is below what one type offers.  Four acts are a load, an edit, a compile
and an answer that comes after another edit; the curated desk's need two more
for the suggestions.

`MaxClock`, `MaxId`, `MaxActs` and their like bound counters in guards, and
nothing else is cut.  Deadlock is not checked: a request that has been answered,
a case that has been drafted and a visitor who has used up the acts of the model
have nothing left to do.

Fairness is stated where something must end.  In `DataExecutor`, workers go on
(`Dispatch`, `Settle`, `Finish`), since the event loop runs what is ready;
timers fire (`TimeOut`, `Expire`); a host's check and audit settle (`PassGate`,
`Call`, and again `Settle`); and in `OpenApiUpstream` the host's resolver of
headers, the delay between attempts and a signal's listener do (`Resolved`,
`Retries`, `Aborts`).  That a host's check, audit or resolver settles is an
assumption which the code cannot discharge, as it bounds none of these waits.
Nothing is assumed of an upstream, and every request settles regardless.  In
`ComposeStream`, a run goes on once it plans (planning and execution are bounded
as the two runs above show; the host's session lookup before them is not, so it
is assumed to do nothing), and a client reads what it is sent.  The other
modules state safety only.

### Disagreements met while reading

Where code, comments, docs and tests say different things, the modules follow
the code.  A property is stated so that it leaves out what is known not to
hold, and says so in its comment.

*Catalog store and lifecycle.*

- Every publish is said to be retained, with a counter suffix within one
  instant (`catalogs-fs.ts:13`, `:47`).  There is no suffix: the second publish
  in a millisecond replaces the first one's snapshot (`:51`).
- A file name collision is said to cost "one overwritten record"
  (`catalogs-fs.ts:33-36`).  Deleting the overwritten catalog then deletes the
  other one's record too (`:128`).  `SafeFileName` may map two keys to one file
  in the modules; the theorems that need it not to say so.

*Plan lifecycle.*

- A failed revision is said to keep the previous view
  (`docs/ARCHITECTURE.md:582`).  After a republish the previous plan's pins no
  longer match and the compose fails (`index.ts:3771`).
- A view whose catalog changed is said to mostly replay (`index.ts:4524`).  The
  executor refuses each of its requests for naming another catalog.
- Reopening is said to return an id that every follow-up takes
  (`docs/INTEGRATION.md:813`).  A reopened plan is not remembered
  (`index.ts:4594`).
- A saved view's prompt is said to have produced its plan (`views.ts:24`).  A
  failed revision re-remembers the previous plan under the prompt that failed
  (`index.ts:3954`), and a save then stores that prompt.
- A save records the site fingerprint of the moment of the save
  (`index.ts:4426`), not that of the plan, so a plan composed before a
  republish and saved after it is not reported as drifted on the site's side
  (`:4464`).
- After a republish a pin of an older plan is validated against the new catalog
  without the leave for drift that reopening has, and is reported as "a bug in
  the server's slicer" (`index.ts:4403`).
- A cached plan is said to be correct for every visitor (`index.ts:549`).  Its
  key has the catalog's hash and the components' fingerprint, which misses data
  slots (`core/src/registry.ts:100-119`): after a republish that narrows a slot,
  composes fail on the cached plan until its entry expires.

*Deadlines, providers and metering.*

- `composeDeadlineMs` is said to bound the whole request
  (`docs/INTEGRATION.md:1055`).  The host's checks and its audit are awaited
  with no signal (`data-runtime/src/index.ts:683`, `:694`, `:743`, `:757`,
  `:1145`), so a host that hangs hangs the compose.
- Planning and execution are said not to sum past the compose's deadline
  (`docs/INTEGRATION.md:1056`, `index.ts:419`).  The planner reads the deadline
  before a repair only (`planner/src/compose.ts:278`), so a model call that has
  started runs on past it.
- A provider's timeout bounds its headers: the body is read after the timer is
  cleared (`providers.ts:92-104`, `system-one.ts:1643`).  `MaxBody` is an
  assumption.
- `modelCalls` is said to be every model HTTP call of a compose
  (`index.ts:783`).  Only calls that returned are counted (`:3671`), so an
  attempt that threw is not, nor traced under a number of its own (`:3666`).
- The comment at `index.ts:3715-3722` derives the repairs of a failed plan from
  its attempts; for a revision the value is overwritten at `:3775` by the
  previous plan's.
- `stage: "repair"` is said to follow a draft that failed validation
  (`planner/src/compose.ts:107-108`).  It also follows a provider that threw,
  when there may be no draft and the prompt carries no new issues.
- The memory of an endpoint's refused schema is said to be kept "once per
  provider" (`index.ts:2116-2122`); what the provider keeps is "read by nothing
  that decides" (`providers.ts`, `SchemaFallbackState`).

*Executor and adapters.*

- On a signal that is already aborted `raceWithAbort` returns at once and leaves
  the upstream's promise without a handler (`data-runtime/src/index.ts:1116`),
  so an adapter that throws for the same signal rejects unhandled.
- The wait for the host's headers is said to be "subject to the same abort
  check" (`openapi-adapter.ts:139-142`).  Nothing bounds it.

*Queries.*

- A dropped ordering is said to give `ORDERING_NOT_APPLIED`, since it would hand
  back the wrong rows with no sign of it (`docs/BUILD_A_HOST.md:574-577`).  A
  page of one row, or one that happens to be in order, passes the check.
- Only an approved top-level field is said to be pushed as an ordering
  (`capability-catalog/src/ordering.ts:51-53`).  `canPushOrdering` does not look
  at grouping, so a sort on an aggregate's output column is sent too
  (`data-runtime/src/index.ts:773`).
- Aggregating over the top 10 is said to be legitimate and to work
  (`docs/BUILD_A_HOST.md:740`, `data-runtime/src/index.ts:843`).  A limit is not
  sent with an aggregate (`:962`), so a page with another behind it satisfies no
  stated limit, is marked truncated, and its aggregate is refused.
- The first `limit` rows of a source that orders are said to be the plan's top
  `limit` (`data-runtime/src/index.ts:943`), and a result that passes the check
  to be one the local sort would leave alone (`query.ts:465`).  Where the source
  puts missing values first, they are its first rows and the local sort's last
  ones.  `UnmarkedIsWhole` allows either placement, and where the source serves more
  than the limit, neither is kept (the run `OrderedTop`).
- `totalRowsBeforeTruncation` is said to be what the upstream reports in total
  (`capability-catalog/src/schema.ts:289`).  The row budget overwrites it with
  the number of rows fetched (`data-runtime/src/index.ts:1046-1065`).
- A `not-eq` or `not-in` across an empty relation is false here and true when
  pushed as a negated quantifier (`filter-pushdown.ts:180-204`): the rows are
  fetched and dropped, and a limit falls short without a mark.
- An identity argument that is also the filter's or the ordering's compiles, and
  each request that pushes it declares the variable twice and is rejected.
- A non-null field's error that takes its row with it is reported as a degraded
  field though a row is missing, and an aggregate over a degraded field is
  delivered.  An envelope without a `hasNextPageField`, or a plain list, never
  marks a page as cut short.

*Composition.*

- A union over an input that failed or was cut is written `complete: true`,
  against `site-sdk/src/index.ts:1807` and `:1874`: `mergeProvenance`
  (`data-runtime/src/compose.ts:347`) drops the marks of the inputs, and
  `partial` and `failedInputs` (`:266-269`) are not projected.
- Rows without the match key are dropped from a union, and unmatched in a join,
  without a mark.
- A join that passed `validateJoin` is said to be "guaranteed to be
  runtime-executable" (`planner/src/compose.ts:831-838`).  An input of one
  entity, the row budget and a collision of fields still fail; the last is
  looked for in every left row, not as `join.ts:247` says.

*Contract.*

- The scope is said never to "exclude something validation would have accepted".
  It leaves out what only a slot for joined rows would take.  It also offers
  what nothing can use: a join whose target nobody delivers, and a single
  capability with set operations (`site-sdk/src/index.ts:1195`).
- A pair of data type and shape is listed as not displayable when one capability
  of it is left out although another is offered (`contract.ts:172`).
- The schema allows more than validation takes: eight compositions where the
  parser takes sixteen, duplicate inputs, `sum` and `average` without a numeric
  field, `count` with a field, operators a field's type has not, more than 32
  conditions over several groups; and less, as the ordering and projection of
  an aggregate name source fields only.
- Each worked example "may only use keys the enforced schema accepts"
  (`planner/test/shape-examples.test.mjs:20-22`).  The first always has a limit of ten
  (`contract.ts:373`), which the schema refuses where no list on offer has ten rows to
  a page and in its budget (the run `ExampleFits`), and whose very key it omits where
  nothing on offer is a list.
- The sentence that counting is supported "can never talk a model into an operation the
  validator would reject" (`planning-contract.ts:256-258`).  It is emitted of a
  capability of any shape with aggregates, and the schema offers `groupBy` and `aggregates`
  to lists only (`:105-121`).
- With an empty scope no example with a request can be written.

*Input types.*

- A definition's name is its type and the root argument (`graphql.ts:2407`), so
  one recursive type at two places of one argument has one definition, the
  later one's: approvals and excluded values leak or swap.
- A relation of a type to itself (`parent`) counts as a combinator and survives
  unapproved; a key such as `where.AND.status` of excluded values matches
  nothing; of types that nest each other an approved path may lead back to the
  pruned outer one.  The depth budget of the walk is never in effect.

*System One.*

- An offered answer may be refused by the guard of compound prompts
  (`system-one.ts:444-452`), and an answer without a draft asks a question that
  the answering contract refuses (`:2105`).
- A compound of more parts than the surface holds drops its first part without
  a word (`:2030-2033`).
- Ids are renumbered for "a plan the language model once wrote (with any ids at
  all)" (`:1100-1105`).  Only those of the outermost nodes are counted and
  renumbered (`:1112-1131`): a panel inside a panel may meet the fresh id of
  another, and keeps the request ids of the draft it came with, as does a host's
  binding to a request nobody makes, which may then find one of the view's.
- Another presentation is drafted for a view with a composition in it, and then
  fails; a removed panel's request stays in the plan and fails the next such
  draft.  An integer argument with declared values can be clamped outside them.

*Site SDK.*

- A node named `root` passes validation and meets the compiled root; a node
  whose id is no identifier passes and then throws in the compile; node ids are
  unique per surface, but all surfaces are projected into one model, so one id
  on two surfaces throws "Conflicting data projections"; and an id that is a key
  of the host's model writes inside the host's data.
- Layouts of several slots are said to be able to declare companions per slot
  (`site-sdk/src/index.ts:338`).  Nothing reads them.
- Registration is said to catch what collides (`:364-368`).  It compares whole
  paths, so one that leads through another throws after execution or replaces
  the data.
- `complete: false` is said to mean that the request succeeded (`:1870-1875`).
  Failed and pending results write it too.

*Stream, transport and client.*

- A stream of a view whose data was unavailable ends without `fellBack`, which
  the client tells as a success and the batch form as a failure (`http.ts:558`).
  An unauthenticated stream is told as a service error where the batch form
  says `auth`.  An unsafe key drops the whole delta it is in.
- A 429 is "the one refusal a client should retry" (`http.ts`), and a
  `service-error` that "waiting will not change" (`use-compose.tsx:572-586`).
  `onError` is said to be called for every 5xx; the handler answers none and
  reports 400s.
- A 413 found while a body is read never reaches its caller, whose socket
  `cancel` destroys (`http-node.ts`).  The adapter queues a body that is not
  being read, whole, which the comments on the limit (`http.ts:469-470`,
  `http-node.ts:49-51`) mean to prevent.
- A rearrangement is lost when its write finds the session busy
  (`use-compose.tsx:1131`, its resolvers left waiting), when it is pending while
  a submit or a reopen begins that then fails, and when a refinement and its own
  write start from one plan (`:760-764`, `:1104`, `:1226`): the later answer
  replaces the earlier one's edit.

*Review and compilation.*

- Re-binding is said to require that every decided field and argument still
  exists (`decisions.ts:123-126`).  `affected` looks at approved output fields
  only.  New capabilities are said to stay unapproved (`:231-233`); the compile
  wants exactly one entry for each.
- The inventory's hash covers the selections and not `queries`.  `migrate` keeps
  `edges.node.x` beside `x`.  A refusal for a list without rows looks at the
  inventoried shape, not at the decided one.  Dropping `id` under a match key
  `id` is nothing to decide for `diff` and refused by the compile.  Two
  connections over one node type get one data type with two descriptions from
  the command line and always conflict.  A candidate whose only group exceeds
  the budget approves nothing, which the schema of decisions refuses.
- OpenAPI: a review shows the root's fields and the compile projects those of
  `items` (`reviewItemSchemaFor`, `projectOutputSchema`), so approved fields are
  refused or others exposed, where "approval may only narrow the candidate
  surface" (`openapi.ts:1280`).  Envelope siblings are not narrowed; a required
  path parameter may be left unapproved and stays a literal `{id}`; two
  operations of one `operationId` resolve to the first.
- OpenAPI: decisions are on names, and a parameter in the path may have the name
  of one in the query (`getOrder` of `MCReviewTools` has).  Then approving the one
  approves the other: a path identifier is on from the start although "Path
  identifiers and sensitive-looking inputs remain unchecked"
  (`main.tsx:1225-1226`).  `PostedWasApproved` says of a parameter that it, or one
  of its name, was safe or ticked.  A query parameter called `body.x` beside a
  body property `x` would meet it in the same way (`openapi.ts:843`); the modules
  leave such a name out.

*Review desks.*

- A late analysis adds an older document's operations to the selection and
  replaces the effects of the newer one; a batch answered after another failed
  leaves the analysis running for ever; toggling an approval does not reset what
  was posted; a post answered after a reset says "published"; restoring a draft
  re-selects what was deselected; a review that fails to start leaves the older
  one in place.
- A late analysis grows the selection of queries after a compile; field
  proposals outlive the schema; a lower depth hides approved fields, which can
  then only be cleared together; another endpoint lets a second post go while
  the first is under way.
- A curated catalog can be posted after its confirmation was withdrawn; a
  decision made while unconfirmed is not in what is posted, though the list
  shows it; a suggestion answered late is accepted for a field not on the list
  and left out; after a lower depth such a key makes every compile throw, and
  hides the panel on which it could be removed.

## 4. Proofs

| theorems | of | module |
|---|---|---|
| `TypeCorrect`, `ServesOnlyValid`, `RetainedStaysRecoverable`, `StoresOnlyValid`, `AnsweredIsStored`, `ServesWhatIsOwed`, `LifecycleRefines` | any catalogs, bodies, files, clock bound and administrators | `CatalogProofs` |
| `ApprovedIsPosted`, `ReviewIsCurrent` | any documents, opinions, edits and numbers of acts, operations of any number of parameters and fields | `CatalogProofs` |
| `CompiledAlwaysStands`, `DiffAlwaysForetells`, `LedgerAlwaysTotal`, `CandidateAlwaysStands` | any schemas, of any depth and with any cycles, any limits, any edits of the files and any number of commands | `GraphQlProofs` |
| `DeskShowsCompiled`, `CuratedAlwaysStands`, `HandIsOnScreen` | the same at the desks, with any answers, early or late | `GraphQlProofs` |
| `ServerTyped`, `PrivacyHolds`, `SnapshotsHold`, `FreshViewsDeliver` | any visitors, catalogs, registrations, prompts, concurrent requests, and maps of any limit | `ServerProofs` |
| `ExecutorTyped`, `LimitRespected`, `NoTimerLeft`, `LateAnswersDropped`, `ExecutorRefines` | plans, limits and numbers of host checks of any size | `DataExecutorProofs` |
| `RestIsExecutor`, `RestLateAnswersDropped`, `RestRefines`, `RestTyped`, `PostsLeaveOnce`, `SendsAreAwaited` | the same where REST operations stand for the upstreams, with any number of retries | `DataExecutorProofs` |
| `PlannerTyped`, `PlanningEndsSoon`, `LastAnswerReported`, `LatestDraftQuoted`, `CallsMetered` | any number of retries, any deadlines, responses and bodies of any length | `PlannerLoopProofs` |
| `DraftsSayIt` | any catalogs, surfaces and prompts | `PlannerLoopProofs` |
| `DraftsOfRulesStand`, `ViewIsKept` | any capabilities, prompts of any number of parts, surfaces of any size, conversations of any length | `PlannerLoopProofs` |
| `SliceAccepted`, `TypeCorrect`, `PinsAlwaysStand`, `PanelsStay`, `ComposedAlwaysExact` | any catalogs, surfaces, drafts and rows, limits and row budgets | `PlanDataProofs` |
| `UnmarkedAlwaysWhole`, `GroupsAlwaysExact`, `ObedientAlwaysAccepted` | collections and pages of any length, filters of any depth in any dialect, sorts of any number of terms, any decisions, faults, limits, caps and budgets | `PlanDataProofs` |
| `ContractAlwaysHolds`, `OfferHonoured`, `ReadyPlansRun`, `NothingIsWithheld` | any catalogs, surfaces, page sizes, limits of the example, drafts and depths | `PlanContractProofs` |
| `StreamTells` | plans of any size, any limit, a connection that dies anywhere | `ServerProofs` |
| `FrontAnswersInOrder` | any requests, in any chunks, and any limit | `ServerProofs` |
| `ScreenAgrees`, `ReplacedViewsStay` | any panels and orders, any number of acts | `ClientComposeProofs` |

The assumptions on constants only type them and keep the sentinels apart from
the data, but for five, and TLC evaluates them in the runs.  `PromptsAssumption`:
no word of a prompt that names nothing but a presentation (`PRESENTATION_ONLY`,
`system-one.ts:526`) is on a list of `guardPrompt`.  `IsDocument`: a document has
one operation to a path and method, and a schema one property to a name, because
both are objects in JSON that `Object.entries` goes through
(`openapi.ts:516`, `:853`); parameters are a list, and of them nothing is assumed.
Its counterpart for GraphQL, `IsSchema`, says what graphql-js has checked before it
hands a schema over: names are unique and types exist.  `QueryAssumption` types what is
sorted: a field that a query sorts by is a number or missing, where the code also
compares texts and truth values, and a grouped query, which has its count as the only
output column here, sorts by nothing else.  `Published` says of a surface what its
definition and its registration refuse otherwise: it may hold at least one panel, and
its components are registered (`site-sdk/src/index.ts:535-538`, `:630`).

`CatalogProofs`.  `AnsweredIsStored`, `ServesWhatIsOwed` and
`LifecycleRefines` assume `NoCollision` (two keys have two files).  Without it,
deleting one of two catalogs in one file removes what the other is owed.

1. `TypeOK` is inductive; the other properties are not.
2. `ServedIsValid` (what is served, the process has validated) is preserved by
   `Restore` only when nothing is registered before, and by `Start`, which
   changes the configuration, only for the same reason: `EmptyBeforeServing`
   says that a process that does not serve yet has empty registries.  `Served`
   is the three together.
3. `AckedIsStored` says that the store holds what is owed; a step on one key
   must leave what is stored under the others alone.  This needs each file to
   hold a record of the one key it is named for: `FilesFiled`, which holds of
   what was on disk before the first start and of every write, and from which,
   with `NoCollision`, `StoredIn` of the other keys is unchanged.  `Mirrored` is
   `Served`, `FilesFiled`, `AckedIsStored` and `ServedMirrorsStore` together; the
   last needs the third at `Restore`.
4. Under `Mirrored`, each step is one of `PublishedCatalogs` or a stutter.
   A publish whose live write tears is `PublishUnstored`, a kill inside one is
   `Stop`, a tick and a rollback's read are stutters.

`CatalogProofs`, the desk of a REST API.  `PostedWasApproved` speaks of a post long
after the page moved on, so all of the argument is about the moment it was
compiled.  `DeskInv` says of every reachable desk:

1. `ReviewInHand`: the review was made of the document and the catalog on
   screen, of operations that are still chosen, as they are configured; for every
   edit resets it but one that only chooses more (`MoreChosen`).
2. In it, `DecidedAll`: there is one decision to an operation, and what is on in
   it is what was on at first, but for the ticks.  A tick that finds its input
   goes by its name (`ParameterDecided`, `FieldDecided`, `AccessDecided`); that a
   parameter, a field and the access to an operation cannot be mistaken for each
   other is `KindsApart`, from `ParametersAre`.
3. `BindingApproved` then looks at a compile that refused nothing: where no
   decision comes twice, the one on a selection is the one at its place
   (`DecisionIs`), so what was refused for is what was looked at
   (`NotRefused`, `NoDecisionFault`, `NoImportFault`), and the operation a binding
   names is found again by its path and method (`OperationIs`).

A list that was filtered is a recursive function of its length; `OnlyAre` says
what is in it, from `Recursion` (there is such a function) and `SetInduction`.

`GraphQlProofs`.  A schema may be of any size and have cycles, so discovery comes
first, then what a compile checks, and then the three who compile.

1. Discovery is a walk, level by level, of recursive functions.  `SetInduction` over
   the levels gives that whatever is offered can be selected, along fields that
   exist, and is offered once (`WalkIs` says what the levels find, `WalkSound` that it is so).
   `LedgerInv` is that the inventory says of each root what discovery says.  A way
   down from a row begins with a field of its type and goes on from that field's
   (`WayBegins`), so what a level finds along other fields is met by no such way
   and, by induction on the depth, one leaf or one mark is met by each (`WalkMet`).
2. A check is a list of reasons, and the first one ends a compile.  What passes them
   all is stated per file, entry and catalog (`RefusalIs`); `CompileExecutes` concludes that
   a compile that refused nothing gives a catalog that is `Executable`.
3. `ReviewInv`, of the commands: the inventory file is one that was taken of some
   schema with the hash it carries, but for what was edited of its selections; the
   schema may have moved on since, and the hash is what a compile goes by.  This is
   `CompiledAlwaysStands`.
4. `DiffInv`: besides, the inventory selects no root twice and gives no meaning by
   hand, and the decisions file is one whose entries have their fields, through each
   edit, migration and re-binding.  Where diff finds something, a check
   refuses for it (`UndecidedIsRefused`); where it finds nothing, the first reason is
   none of those it looked at (`DecidedIsTaken`).
5. A candidate (`CandidateAlwaysStands`) needs no more than `DiffInv`, but its fields
   are a selection, which took a specification of its own: `ByLevelAre` says that the
   groups come once each and all of them, `SelectIs` that what is kept of them is whole
   groups, within the budget, and that each group left out did not fit then nor would
   now, because what is kept only grows.  Filtering the inventory by what was kept gives
   back its order (`FilteredInOrder`).  The made-up entry then passes every check but
   those that are the host's (`CandidateEntryStands`), and the file parses unless some
   capability was left without fields (`CandidateParses`).
6. `BoardInv`: each query's configuration has one mode for each of its arguments, as
   they are in the schema on the form, so the arguments in a compiled catalog are those
   set for the visitor and the identity.  A late analysis only chooses more.
7. A curated compile makes up its inventory and decisions, and they pass every
   check but that of a custom scalar: `CuratedRefusesFor`.  `CuratedHolds` says that each
   query within the limits is in it, whole.  `CuratedInv` follows what the host
   decided while unconfirmed (`unheard`) until the next compile.
8. `HandIsOnScreen` is about the composition of the tools (`ToolsSpec` of
   `MCReviewTools`): a step of it is a step of each desk or none (`ToolsUse`), so the
   theorems of each carry over.

`ServerProofs`, the view server.  `PrivateToOwner` and `SnapshotHolds` are not inductive: a
hit takes its plan from the cache, a revision from the recent plans, a reopen
from the view store.  `Kept` says of each of these what a run may then rely on.

1. `CachedFits`: a cached plan holds nothing private, and its key names the very
   catalog, hash and fingerprint it is pinned to; so a hit under a run's key
   (`CachedPlan`) is pinned to the run's snapshot although both registries may
   have moved since.  A revision never writes there, because a run without a
   `previousId` has no previous plan (`RunFits`).
2. `HeldFits` and `ViewFits`: a remembered plan and a saved view are their
   owner's, and the hash they are filed under is their plan's; the second half
   is `FreshViewDelivers`, and it comes from `Compiles`, which `Complete` tests
   before it remembers anything, even a fallback that missed the snapshot.
3. The bounded map in general: a set adds its own entry and no other
   (`SetBoundedKeeps`), keeps the keys apart and the limit, also when it evicts
   another key than it replaces; a delete adds none (`DeleteKeeps`).  With these
   the per-action lemmas only look at the entry they write.

`DataExecutorProofs`.

1. The inductive invariant is `Working`: the queued requests are those from
   `next` on; a result is there exactly after the race; a hand that is not
   empty holds a request being worked on, each such request is in a hand, and in
   one only; timers match open races; an expired budget leaves no timer.
2. The limit follows by counting: under `Working` the map from requests in
   flight to the worker holding each is an injection into the workers
   (`InFlightFits`).
3. A late answer finds no open race, because expiry closed them all and
   `Call` opens none afterwards: `budget = "expired" => timers = {}` with
   `TimerPerRace`.
4. For the refinement, `Take` needs fewer taken-but-not-returned requests than
   capacity: those are the requests in flight, and a worker with an empty hand
   leaves the count below the number of workers.

5. `OpenApiUpstream` implements `DataExecutor` (`RestIsExecutor`): a step of an
   exchange is a stutter or an answer of an upstream that is being waited for, so
   what 1 to 4 prove carries over.  What an exchange may do on its own,
   `SentWhileAwaited` and the single send of a POST, needs `Exchanging`: `Working`,
   the types, and for each operation `Exchange`, which ties its counters to where
   its loop is.  An exchange that waits for anything is of a race that is open
   or of a signal not yet heeded (`Follows` says no step of the executor takes
   that away without telling the loop).

`PlannerLoopProofs`.  None of the four properties is inductive.  `Conversing`
is `TypeOK` and four more facts: `Timely` bounds how late it is by the calls of
the attempt being made, which started as the first one or within the deadline;
`Accounted` says which calls are counted already and which the attempt owes;
`Unfinished` that, until planning ends, every answer so far was a failure or a
rejected draft, that `failure` is the kind of the last of them and `quoted` the
latest rejected draft; with `EndsSoon` and `ReportsLastAnswer` themselves.
`DraftsSayIt`, about `SystemOneDraft`, is a lemma for each part of a draft:
`ParamsRight` (through `FilledRight`, one argument), `QueryRight` (through
`GroupRight`, one field's filter), `ComponentRight`.  A choice the code makes by
going through a list is the least position at which something holds; that there
is one is `LeastIs`, from an induction over numbers that `SetInduction` states
of a set instead of a predicate.

`PlannerLoopProofs`, System One.  `DraftsStand` and `KeepsTheView` are about
plans that were joined many times, so the argument is first about one join, and
then about the conversation.

1. `FreshIdsAre`: ids made one after the other meet no used one and no other; the
   search for one ends because it goes through more numbers than are used.
   `NewestIs` and `KeptAre` say what leaves a full surface, and which requests
   leave with it.
2. `AppendIs`: two plans that use each id once and make what they bind
   (`Draft`) come to another such plan, whose panels show what they showed
   before, whatever their ids have become.
3. `MergedIs`: by induction over the parts, a compound's panels are about its
   parts in their order, and none is left out but by the limit.  `JoinedAdds`
   puts them after a view: because each of its requests is of an earlier compose,
   the newest panels are those that were added, and only those.
4. `SettleIs`, `CompoundIs` and `PresentedIs`: whatever the route, what the rules
   answer is `Right`, that is, stands, and if it validates is what `KeepsTheView`
   asks of the step that shows it.
5. `ConversationInv`: `ConversationTyped`, with `Right` of an answer from when it is
   given to when it is read; the view is older than the compose under way
   (`ViewOlder`); and a prompt is split only when the rules plan alone, for the
   first time and past every guard (`SplitUnguarded`), without which a part might
   be answered that the whole was refused for.  The view on screen must have
   passed validation, whoever wrote it: a stored or a model's plan may hold a
   composition and any ids.

`PlanDataProofs`.

1. `SliceKeeps` and `SliceAccepted`: the referential closure of some panels
   keeps, for each kept binding, all that the binding's checks look at, and
   nothing a kept panel does not read; panels become fewer (`FewerPanels`).
2. `RemovalFits` and `RefinedFits`: each refinement leaves a plan that fits.
3. `Inv`: the plan in hand and the saved one are typed and fit, and what is
   shown is what the settled requests of the plan come to.
4. `SliceComputes` and `SliceShows`: compositions and joins of a slice see the
   inputs they saw in the plan, so its panels show the same of the same answers.
   With 1 this is `PinsStand`.
5. `PanelsStay` needs `Streaming`: what a panel shows while answers come in is
   of an answer that is in.  A composed or joined panel is pending until all is
   (`ViewStays`), so no later projection, nor the last, has another answer to
   show in its place.
6. `ComposedAlwaysExact` is about what `composeOne` and `joinOne` compute, of any
   answers.  The rows at some places of a list (`Those`) are a recursive function,
   so what the merges keep follows by induction over a list's length (`ThoseAre`):
   `Once` has each wanted key once and the first row of it (`OnceIs`), and what is
   wanted is what the operation is over sets of keys (`MergedIs`, `ReferenceIs`).
   So the rows are as many as the keys (`KeysCount`), and a limit takes the first
   of them.  Errors: a plan that passed its checks is never refused by the composition
   itself (`InputsAre`), because only a capability that returns a collection can be
   open to set operations (`PlanDataAssumption`, `compile.ts:170`).

`PlanDataProofs`, one query.  `AnswerInv` says that the request stands (`Requested`: what
was asked was validated against a binding that compiles), that a page that was fetched
is the first rows of some order in which the upstream may hold them (`PageOf`), and at
the end the three properties themselves.  None of them speaks of the page alone, so the
work is in the last step, `FinishInv`.

1. Lists.  `Picked`, the rows of a list that are in a set, is a recursive function;
   `PickedSteps` (from `Recursion`) and `ListInduction` give what it keeps: the rows' order (`PickedRises`), beginnings
   (`PickedBegins`), and that picking twice is picking from both (`PickedTwice`).
   An arrangement is a renumbering of places (`ArrangementIs`), and arranging a
   list arranges what is picked of it (`PickedArranged`), by counting one's rows in the other.
2. Filters.  `SelectsEvaluated`: where no combinator that takes one expression has
   several parts and no row is related to none, each condition reads there as it does
   here (`ConditionReads`) and each group combines the same parts, so the tree selects
   the same rows.  Hence rows that were filtered there and are filtered again
   here are those that are wanted (`HeldWanted`).
3. Groups.  A page that misses a row is marked truncated, as no limit is sent with a
   group, and an aggregate over it is refused; so a grouped query that is answered saw
   every row (`WholePage`).  This is `GroupsExact`.
4. Orders.  `Before` is a strict order that knows of two rows which comes first unless
   they are alike (`BeforeOrAfter`, `BeforeAll`), from the first term on which they
   differ (`DecidesBefore`).  `Sorted` puts each row at its place, the number of
   those that precede it, so places are taken once (`PlacesAre`), and a list that is in
   order stays as it is (`SortedIs`).  The check on a page compares neighbours
   that both have the field, and these come from rows of the upstream's order in that order
   (`PageRows`): `ObedientAlwaysAccepted`.
5. Windows.  Where all rows came, the local order is one the upstream might have taken
   (`WholeOfAll`).  Where not, no mark means that filter and ordering went up and that
   the limit was filled; so the page begins the wanted rows in the upstream's order
   (`PageOfWanted`), its window is that order's (`WindowOfTop`), and `SortFindsItSorted` keeps
   the sort done here from exchanging rows across the limit (`WholeOfTop`).

`PlanContractProofs`.  The states are simple (`Judged`: the contract is the
world's, the verdict what contract and checks come to); the properties are
about two formulations of one rule.

1. `OfferHonoured`: what an offer holds, its capability has (`OfferWithin`), so
   each clause of the schema gives the check that validation makes in its place;
   one lemma for each kind of thing a draft names.
2. `ReadyPlansRun`: no list operation is offered where there is no list
   (`ListsAlone`), and the ceiling of an offer is at most one page where its
   source pages (`CeilingIsNumber`).
3. `NothingIsWithheld`: in a plan without a flaw, each request is bound, composed
   or joined (`Flawless`).  Whatever is bound fits a slot the surface shows
   (`BoundFits`, `DerivedFits`), and what is composed or joined is bound in turn,
   because neither is ever the input of another (`DerivedIsBound`).  So each
   request satisfies one of the four clauses of the scope.
4. `ContractAlwaysHolds`: `OfferHonoured`, and each example followed by a draft that is
   given.  What is in scope has a slot it could be shown in, so where anything is on
   offer there is a panel for it (`PanelThere`), and a panel that reads one source is
   legal (`PanelIsLegal`); the condition under which the prompt shows an example is what
   else its draft needs (`SiblingsFollowed`, `JoinFollowed`, `ChildrenFollowed`,
   `QuestionFollowed`).  Both exceptions are equivalences: a draft of one request is as
   legal as the request (`OnePanel`), and that one's limit, or its grouping, is taken exactly
   of a list with room for it (`OneFollowed`, `CountsLists`).

`ServerProofs`, the stream.  `StreamTellsAll` relates the frames sent to
what the server holds, and the client has read only some of them.

1. A frame at a time: what `Applied` makes of each kind of frame (`Hears...`), and
   that a delta turns the model it was computed from into the one it was
   computed for (`DiffPatches`).
2. `Holds(frames, s)`: there is a run of the fold over all frames, which passes
   through what the client holds after as many frames as it has read, ends at
   `s`, and in which nothing is over before the last frame.  `OneMore` extends it
   by a frame.  So a step of the server is reasoned about as if the client had
   read everything, and `Read` is a step along the run that is already there.
3. `Telling`, the invariant: some `s` with `Holds(emitted, s)` is what the server
   has told (`Ahead`): the model of `lastDataModel`, as many settled and the same
   failed requests, not ended before the run has, and then ended as the batch
   answer says (`Agreed`).  And what the visitor was told is what its fold
   comes to (`Repeats`).
4. An ending was read only when everything was, so whoever is told of one is told
   of `s`.

`ServerProofs`, the transport.  `Orderly` says, phase by phase, what may be relied
on: past the gate the request is `LetIn`; while its body is read it is within the limit;
once dispatched it is read whole; the socket is destroyed only by the answer
413; and each answer has one of the statuses its phase gives (`Told`), which is
what makes `FailureKind` blame the right party.

`ClientComposeProofs`.  Neither property is inductive.  `Steady` is three parts.

1. `Known`: every id in hand is of a plan the server has, which is immutable.
2. `Followed`: a write whose generation is current is of the view on screen, and
   something is still pending; a compose or a reopen under way leaves no such
   write; a refinement under way is of the view on screen.  This alone gives
   `ReplacedStaysReplaced`.
3. `Agreed`: outside the frames between a stream's plan and its view, the screen
   has its plan's panels, and in its order unless there is an excuse or a
   rearrangement pending; and while there is no excuse, `serverOrder` is the
   plan's order, so that the flush that finds nothing to write is right.

Left to TLC.  Liveness (`EverythingEnds`, `Concludes`).  What rests on RECURSIVE operators:
an input type's fields (`InputSchema`), a node's children (`SurfaceCompile`).  So of
`DrawnAsDefined` the half about answers is proved, and the half about the compiled
surface (`SurfaceStands`) is checked only.

## 5. Not modelled

`PROJECT.json` lists every component with what of it is left out.  For good:

- the view generator, planner evaluation, starter components and panels, and
  the installer: build-time command lines, a batch harness and rendering, with
  no shared state and no interleaving (of the panels, how they are reordered is
  in `ClientCompose`);
- texts: prompts, descriptions, operations sent to an upstream, URLs, messages
  of errors, the layout of props, the theme;
- parsing: what a wire value or a document must look like before the code
  modelled here sees it, and the introspection that fetches one;
- what a prompt's words name: word lists and matching are inputs of
  `SystemOne` and `SystemOneDraft`;
- an upstream's third truth value: a comparison with null is neither true nor
  false in SQL, and is false in the modules;
- sinks of events and metrics, CORS headers, view stores other than the
  file-backed one, which are the host's.

Hazards that are known and not listed in `PROJECT.json`, because a listed one's
properties cover them or the code is known to be exposed to them (section 3): a
reopened plan that is not remembered (`index.ts:4594`), a failed revision that
re-labels a plan (`:3954`) or falls back to a plan of a replaced catalog
(`:3771`), two publishes in one millisecond (`catalogs-fs.ts:51`), two catalogs
in one file (`:38`), a stored body refused at boot (`index.ts:3159`) or never
replayed (`:1871`), a question answered with a question (`:3451`), the bounds of
the two maps (`:2030`, kept in `ViewServer`'s `TypeOK`), and host callbacks that
no signal bounds (`data-runtime/src/index.ts:681`).

## 6. Plan

The modules follow the components of section 1.  What a next release of this
development would take up, most valuable first:

1. `SurfaceCompile` with the walk over a node's children as a function of the
   plan, so that `SurfaceStands` can be proved for surfaces of any depth.
2. `PlanData` and `ViewServer` over one plan type, so that a republish may fall
   between a refinement and a pin.
3. The matching of a prompt's words to declared values, as a relation between
   tokens, under `SystemOneDraft`.
4. `InputSchema` with the walk of an input type level by level, as
   `FilterPushdown` has a filter's, so that `ParamsAreApproved` can be proved.
