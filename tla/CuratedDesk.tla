------------------------------ MODULE CuratedDesk ------------------------------
(***************************************************************************)
(* The desk at which a host publishes a curated GraphQL API whole          *)
(* (CuratedGraphQlOnboarding of apps/catalog-review/src/graphql-panel.tsx):*)
(* a schema is loaded, the policy is set for all of it, the host confirms  *)
(* it and compiles, decides the meanings of fields the compile left out,   *)
(* by itself or with a model's suggestions, and posts the result.          *)
(*                                                                         *)
(* A field left out goes by <<root field, path>>.  Leaving for the other   *)
(* desk forgets everything here and is left out.                           *)
(***************************************************************************)
EXTENDS GraphQlCompile

CONSTANTS
    CuratedSchemas,     \* what may be loaded
    CuratedDepths,      \* discovery depths the host may set
    SharedCount,        \* the fields one query may have: maximumSelectedFields
    Suggestion,         \* the meaning a model suggests
    MaxCuratedActs      \* bound on what the host does

ASSUME CuratedDeskAssumption ==
    /\ \A s \in CuratedSchemas : IsSchema(s)
    /\ MaxCuratedActs \in Nat /\ CuratedDepths \subseteq 1 .. MaxLevels /\ CuratedDepths # {}
    /\ SharedCount \in 1 .. MaxFields

VARIABLES
    form,       \* [schema, depth, scalars, session, title]
    confirmed,  \* that the API is safe to show
    gaps,       \* the fields on the list, which a compile without decisions fills
    decided,    \* meanings by field
    suggested,  \* suggestions by field
    suggesting, \* idle, loading, ready or error
    asked,      \* requests for suggestions not answered yet: [id, keys]
    result,     \* what is compiled: [title, options, catalog], or None
    trouble,    \* why the last compile refused, or None
    unheard,    \* fields decided since without a compile: it needs the confirmation
    releasing,  \* idle, publishing, published or error
    released,   \* posts not answered yet: [id, schema, catalog]
    curatedActs

curatedVars == <<form, confirmed, gaps, decided, suggested, suggesting, asked, result, trouble, unheard,
                 releasing, released, curatedActs>>
sideVars == <<suggested, suggesting, asked>>

CuratedInit ==
    /\ form = [schema |-> None, depth |-> CHOOSE d \in CuratedDepths : TRUE, scalars |-> {}, session |-> TRUE,
               title |-> "first"]
    /\ confirmed = FALSE /\ gaps = {} /\ decided = <<>>
    /\ suggested = <<>> /\ suggesting = "idle" /\ asked = {}
    /\ result = None /\ trouble = None /\ unheard = {}
    /\ releasing = "idle" /\ released = {} /\ curatedActs = 0

CuratedAct == curatedActs < MaxCuratedActs /\ curatedActs' = curatedActs + 1

(* customScalarNames: the mappings are filled in for what is discovered at that depth. *)
CustomScalars(s, depth) ==
    UNION {{f.type : f \in {g \in Range(Discovered(s, r, None, depth).offered) : s.types[g.type].kind = "custom"}}
            \cup UNION {a.scalars : a \in Range(r.args)} : r \in Range(s.roots)}
LoadCurated(s) ==
    /\ CuratedAct /\ s.roots # <<>>
    /\ form' = [form EXCEPT !.schema = s, !.scalars = CustomScalars(s, form.depth)]
    /\ gaps' = {} /\ decided' = <<>> /\ suggested' = <<>> /\ suggesting' = "idle"
    /\ result' = None /\ trouble' = None /\ unheard' = {} /\ releasing' = "idle"
    /\ UNCHANGED <<confirmed, asked, released>>

(* Every field of the form discards what is compiled, but not what is decided. *)
FormEdits ==
    {[form EXCEPT !.depth = d] : d \in CuratedDepths \ {form.depth}}
        \cup {[form EXCEPT !.session = ~@], [form EXCEPT !.title = "second"]}
        \cup (IF form.scalars = {} THEN {} ELSE {[form EXCEPT !.scalars = {}]})
EditForm(edited) ==
    /\ CuratedAct /\ form.schema # None /\ form' = edited /\ result' = None /\ unheard' = {}
    /\ UNCHANGED <<confirmed, gaps, decided, sideVars, trouble, releasing, released>>
Confirm ==
    /\ CuratedAct /\ form.schema # None /\ confirmed' = ~confirmed
    /\ UNCHANGED <<form, gaps, decided, sideVars, result, trouble, unheard, releasing, released>>

-----------------------------------------------------------------------------
(* compile: decisions on fields that are not on the list are held back, if there is a
   list, and a compile without decisions makes a new one. *)
Restricted(f, keys) == [k \in DOMAIN f \cap keys |-> f[k]]
Over(f, g) == [k \in DOMAIN f \cup DOMAIN g |-> IF k \in DOMAIN f THEN f[k] ELSE g[k]]
PolicyWith(meanings) ==
    [depth |-> form.depth, levels |-> form.depth, count |-> SharedCount, scalars |-> form.scalars,
     meanings |-> meanings, session |-> form.session]
NeedsSemanticType(s, o) ==
    UNION {{<<r.name, f.path>> : f \in {g \in Range(Discovered(s, r, None, o.depth).offered) : CuratedMeaning(o, r, g) = Unknown}} :
            r \in Range(Included(s, o))}
CompileUnder(o, why) ==
    /\ trouble' = why /\ unheard' = {}
    /\ result' = IF why # None THEN None
                 ELSE [title |-> form.title, options |-> o,
                       catalog |-> Compiled(form.schema, CuratedInventory(form.schema, o), CuratedDecisions(form.schema, o))]
    /\ gaps' = IF why = None /\ DOMAIN o.meanings = {} THEN NeedsSemanticType(form.schema, o) ELSE gaps
CompileWith(decisions) ==
    LET o == PolicyWith(IF gaps = {} THEN decisions ELSE Restricted(decisions, gaps))
    IN  CompileUnder(o, CuratedRefusal(form.schema, o))
CompileCurated ==
    /\ CuratedAct /\ form.schema # None /\ confirmed /\ CompileWith(decided)
    /\ UNCHANGED <<form, confirmed, decided, sideVars, releasing, released>>

(* The list is shown beside a result only.  Every decision compiles, or waits for the
   confirmation. *)
Listed == result # None /\ gaps # {}
Decides(next) ==
    /\ decided' = next
    /\ IF confirmed THEN CompileWith(next)
       ELSE unheard' = unheard \cup gaps /\ UNCHANGED <<result, trouble, gaps>>
    /\ UNCHANGED <<form, confirmed, sideVars, releasing, released>>
DecideSemanticType(key, meaning) ==
    /\ CuratedAct /\ Listed
    /\ Decides(IF meaning = None THEN Restricted(decided, DOMAIN decided \ {key})
               ELSE Over([k \in {key} |-> meaning], decided))
AcceptAllSuggestions ==
    /\ CuratedAct /\ Listed /\ suggesting = "ready" /\ DOMAIN suggested # {}
    /\ Decides(Over(decided, suggested))

RequestSuggestions ==
    /\ CuratedAct /\ Listed /\ suggesting # "loading"
    /\ suggesting' = "loading" /\ asked' = asked \cup {[id |-> curatedActs, keys |-> gaps]}
    /\ UNCHANGED <<form, confirmed, gaps, decided, suggested, result, trouble, unheard, releasing, released>>
SuggestionsAnswered(ask) ==
    /\ asked' = asked \ {ask} /\ suggested' = [k \in ask.keys |-> Suggestion] /\ suggesting' = "ready"
    /\ UNCHANGED <<form, confirmed, gaps, decided, result, trouble, unheard, releasing, released, curatedActs>>
SuggestionsFailed(ask) ==
    /\ asked' = asked \ {ask} /\ suggesting' = "error"
    /\ UNCHANGED <<form, confirmed, gaps, decided, suggested, result, trouble, unheard, releasing, released, curatedActs>>

-----------------------------------------------------------------------------
PublishCurated ==
    /\ CuratedAct /\ result # None /\ releasing # "publishing" /\ releasing' = "publishing"
    /\ released' = released \cup {[id |-> curatedActs, schema |-> form.schema, catalog |-> result.catalog]}
    /\ UNCHANGED <<form, confirmed, gaps, decided, sideVars, result, trouble, unheard>>
EditDestination ==
    /\ CuratedAct /\ result # None /\ releasing # "idle" /\ releasing' = "idle"
    /\ UNCHANGED <<form, confirmed, gaps, decided, sideVars, result, trouble, unheard, released>>
CuratedAnswered(post, ok) ==
    /\ released' = released \ {post} /\ releasing' = IF ok THEN "published" ELSE "error"
    /\ UNCHANGED <<form, confirmed, gaps, decided, sideVars, result, trouble, unheard, curatedActs>>

CuratedNext ==
    \/ \E s \in CuratedSchemas : LoadCurated(s)
    \/ \E edited \in FormEdits : EditForm(edited)
    \/ Confirm
    \/ CompileCurated
    \/ \E key \in gaps : \E meaning \in {"number", None} : DecideSemanticType(key, meaning)
    \/ AcceptAllSuggestions
    \/ RequestSuggestions
    \/ \E ask \in asked : SuggestionsAnswered(ask) \/ SuggestionsFailed(ask)
    \/ PublishCurated
    \/ EditDestination
    \/ \E post \in released : \E ok \in BOOLEAN : CuratedAnswered(post, ok)

CuratedSpec == CuratedInit /\ [][CuratedNext]_curatedVars

-----------------------------------------------------------------------------
(* A curated catalog is what the host confirmed: the schema and policy on the form, every
   query the schema supports with all of its arguments and every field that can be
   placed, or left out for a shared limit, and no meaning but the host's own, as decided
   now unless it was decided unconfirmed; no argument reads like an identity.  It can be
   executed, and so can what is on its way.  A compile refuses for what the host can do
   something about. *)
HoldsEverything(s, o, catalog) ==
    \A r \in Range(CuratedRoots(s, o)) :
        /\ \A a \in Range(r.args) : ~a.identity
        /\ r.name \in DOMAIN catalog.capabilities <=> WithinLimits(s, o, r)
        /\ r.name \in DOMAIN catalog.capabilities =>
            LET c == catalog.capabilities[r.name] IN
            /\ Range(c.args) = {a.name : a \in Range(r.args)}
            /\ \A f \in Range(Discovered(s, r, None, o.depth).offered) :
                Contains(c.fields, f.path) <=> CuratedMeaning(o, r, f) # Unknown
CuratedStands ==
    /\ trouble \in {None, "nothing supported", "stray decision", "identity argument", "nothing understood",
                    "nothing fits", "scalar"}
    /\ result # None =>
        LET o == result.options IN
        /\ result.catalog.schema = form.schema /\ result.title = form.title
        /\ o = PolicyWith(o.meanings)
        /\ \A key \in DOMAIN o.meanings \ unheard : key \in DOMAIN decided /\ o.meanings[key] = decided[key]
        /\ HoldsEverything(form.schema, o, result.catalog) /\ Executable(result.catalog)
    /\ \A post \in released : post.schema = post.catalog.schema /\ Executable(post.catalog)

=============================================================================
