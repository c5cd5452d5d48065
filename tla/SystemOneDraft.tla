----------------------------- MODULE SystemOneDraft -----------------------------
(***************************************************************************)
(* The draft a capability comes to without a model: the arguments, the     *)
(* query, the component and its props are read from the catalogs and from  *)
(* the words of the prompt (packages/server/src/system-one.ts:             *)
(* buildSystemOneDraft).                                                   *)
(*                                                                         *)
(* A case is one prompt for one capability on one surface:                 *)
(*   prompt      named (the declared values its words name), count (a      *)
(*               number it states, or Absent), oldest, terms (it leaves    *)
(*               words to search for), cue ("table", "chart" or Absent)    *)
(*   args        the sequence of [name, kind, many, values, required,      *)
(*               default, least, most] of the input schema; kind is "enum",*)
(*               "count", "search" or "other"                              *)
(*   listed      the capability returns a list                             *)
(*   fields      f |-> [values, many, text] of the plannable filter fields *)
(*   sortable    the sequence of [name, dated] it can sort by              *)
(*   ceiling     effectiveLimitCeiling: the most rows it gives             *)
(*   components  the sequence of [accepted, slots, takes, nominal, kind,   *)
(*               props] of the surface; a prop is [name, heading, required,*)
(*               default, simple]                                          *)
(***************************************************************************)
EXTENDS Naturals, FiniteSets, SequencesExt

CONSTANTS
    Asks,               \* the cases
    Absent,             \* no value, no draft
    DefaultListLimit    \* DEFAULT_LIST_LIMIT

(* An input schema names an argument once, bounds a count by numbers and declares no
   values for it; a prompt that counts counts at least one. *)
Counts(arg) ==
    arg.kind = "count" =>
        /\ arg.values = {}
        /\ arg.least \in Nat /\ {arg.most, arg.default} \subseteq Nat \cup {Absent}
        /\ arg.most # Absent => arg.least <= arg.most
Asked(a) ==
    /\ a.prompt.count \in (Nat \ {0}) \cup {Absent} /\ a.ceiling \in Nat \ {0}
    /\ \A i \in DOMAIN a.args : Counts(a.args[i]) /\ IsFiniteSet(a.args[i].values)
    /\ \A i, j \in DOMAIN a.args : a.args[i].name = a.args[j].name => i = j
    /\ \A f \in DOMAIN a.fields : IsFiniteSet(a.fields[f].values)
    /\ DOMAIN a.sortable \subseteq Nat /\ DOMAIN a.components \subseteq Nat

ASSUME SystemOneDraftAssumption ==
    /\ Absent \notin Nat /\ DefaultListLimit \in Nat \ {0}
    /\ \A a \in Asks : Asked(a)

VARIABLES ask, drafted  \* drafted: Absent until the draft is built
draftVars == <<ask, drafted>>

-----------------------------------------------------------------------------
(* catalogVocabulary and matchVocabulary: the values a prompt names, of an argument, and
   of a filter field of what comes as a list. *)
NamedFor(a, arg) == arg.values \cap a.prompt.named
NamedIn(a, f) == IF a.listed THEN a.fields[f].values \cap a.prompt.named ELSE {}
NamedFields(a) == {f \in DOMAIN a.fields : NamedIn(a, f) # {}}

Least(x, y) == IF x <= y THEN x ELSE y
Clamp(n, arg) ==
    LET most == IF arg.most # Absent THEN Least(n, arg.most) ELSE n IN IF most <= arg.least THEN arg.least ELSE most

-----------------------------------------------------------------------------
(* fillParams: what one argument is given, Skip when it is left out. *)
Skip == [kind |-> "skip"]
Fault(why) == [kind |-> "fault", why |-> why]
Value(v) == [kind |-> "value", value |-> v]
OneOf(values) == CHOOSE v \in values : TRUE

Counted(a, arg) ==
    CASE a.prompt.count # Absent -> Value(Clamp(a.prompt.count, arg))
      [] a.prompt.count = Absent /\ arg.required ->
            Value(Clamp(IF arg.default # Absent THEN arg.default ELSE DefaultListLimit, arg))
      [] OTHER -> Skip
Filled(a, arg) ==
    LET named == NamedFor(a, arg) IN
    CASE named # {} /\ arg.many -> Value(named)
      [] named # {} /\ ~arg.many -> IF Cardinality(named) = 1 THEN Value(OneOf(named)) ELSE Fault("ambiguous")
      [] named = {} /\ arg.kind = "count" -> Counted(a, arg)
      [] named = {} /\ arg.kind = "search" /\ arg.required ->
            IF a.prompt.terms THEN Value("words") ELSE Fault("required")
      [] named = {} /\ arg.kind \notin {"count", "search"} /\ arg.required ->
            IF arg.default # Absent THEN Value(arg.default) ELSE Fault("required")
      [] OTHER -> Skip
FillParams(a) ==
    LET filled == [i \in DOMAIN a.args |-> Filled(a, a.args[i])]
        given == {i \in DOMAIN a.args : filled[i].kind = "value"}
    IN  IF \E i \in DOMAIN a.args : filled[i].kind = "fault" THEN Absent
        ELSE [n \in {a.args[i].name : i \in given} |->
                filled[CHOOSE i \in given : a.args[i].name = n].value]

(* buildQuery: the named values of each field, the newest or oldest first, so many rows.
   A field that holds several values holds one of the named; a scalar is one of them. *)
AllOf(f, values) == [field |-> f, combine |-> "all", operator |-> "contains", values |-> values]   \* a slip: a row would have to hold them all
AnyOf(f, values) == [field |-> f, combine |-> "any", operator |-> "contains", values |-> values]
FilterFor(a, f) ==
    LET values == NamedIn(a, f) IN
    CASE a.fields[f].many /\ ~a.fields[f].text -> Absent
      [] a.fields[f].many /\ a.fields[f].text -> AnyOf(f, values)
      [] OTHER -> [field |-> f, combine |-> "all", operator |-> IF Cardinality(values) = 1 THEN "eq" ELSE "in", values |-> values]
DateSort(a) ==
    LET dated == {i \in DOMAIN a.sortable : a.sortable[i].dated} IN
    IF dated = {} THEN <<>>
    ELSE <<[field |-> a.sortable[Min(dated)].name, direction |-> IF a.prompt.oldest THEN "asc" ELSE "desc"]>>
Wanted(a) == IF a.prompt.count # Absent THEN a.prompt.count ELSE DefaultListLimit
NoQuery == [filter |-> {}, sort |-> <<>>, limit |-> Absent]
BuildQuery(a) ==
    LET groups == {FilterFor(a, f) : f \in NamedFields(a)} IN
    CASE ~a.listed -> NoQuery
      [] a.listed /\ Absent \in groups -> Absent
      [] OTHER -> [filter |-> groups, sort |-> DateSort(a), limit |-> Least(Wanted(a), a.ceiling)]

(* chooseComponent: a component of the surface with one slot that takes the rows as they
   are; of the kind the prompt names before another, for the type by name before one for
   any rows, and the surface's first of those. *)
Eligible(c) == c.accepted /\ c.slots = 1 /\ c.takes
Preferred(a, c) == a.prompt.cue # Absent /\ c.kind = a.prompt.cue
Better(a, c, d) ==
    \/ Preferred(a, c) /\ ~Preferred(a, d)
    \/ (Preferred(a, c) <=> Preferred(a, d)) /\ c.nominal /\ ~d.nominal
ChooseComponent(a) ==
    LET eligible == {i \in DOMAIN a.components : Eligible(a.components[i])}
        best == {i \in eligible : \A j \in eligible : ~Better(a, a.components[j], a.components[i])}
    IN  IF best = {} THEN Absent ELSE a.components[Min(best)]

(* fillProps: the visitor's words for a heading, and for the other required props their
   default or the simplest value their type admits. *)
Fillable(prop) == prop.heading \/ ~prop.required \/ prop.default \/ prop.simple
FillProps(c) ==
    IF \E prop \in Range(c.props) : ~Fillable(prop) THEN Absent
    ELSE {prop.name : prop \in {x \in Range(c.props) : x.heading \/ x.required}}

(* buildSystemOneDraft: each part in turn, or the reason there is no draft. *)
NoDraft(why) == [ok |-> FALSE, why |-> why]
SystemOneDraftOf(a) ==
    LET component == ChooseComponent(a) IN
    CASE component = Absent -> NoDraft("no-component")
      [] component # Absent /\ FillParams(a) = Absent -> NoDraft("argument")
      [] component # Absent /\ FillParams(a) # Absent /\ BuildQuery(a) = Absent -> NoDraft("filter-inexpressible")
      [] OTHER ->
            IF FillProps(component) = Absent THEN NoDraft("props-unfillable")
            ELSE [ok |-> TRUE, component |-> component, params |-> FillParams(a),
                  query |-> BuildQuery(a), props |-> FillProps(component)]

DraftInit == ask \in Asks /\ drafted = Absent
BuildDraft == drafted = Absent /\ drafted' = SystemOneDraftOf(ask) /\ UNCHANGED ask
DraftSpec == DraftInit /\ [][BuildDraft]_draftVars

-----------------------------------------------------------------------------
(* What the contract and the query validation ask of such a request. *)
Takes(arg, v) ==
    CASE arg.kind = "enum" /\ arg.many -> v \subseteq arg.values \/ v = arg.default
      [] arg.kind = "enum" /\ ~arg.many -> v \in arg.values \/ v = arg.default
      [] arg.kind = "count" -> arg.least <= v /\ (arg.most # Absent => v <= arg.most)
      [] OTHER -> TRUE
Conforms(a, d) ==
    /\ \A arg \in Range(a.args) :
        IF arg.name \in DOMAIN d.params THEN Takes(arg, d.params[arg.name]) ELSE ~arg.required
    /\ \A g \in d.query.filter :
        /\ g.values # {} /\ g.values \subseteq a.fields[g.field].values
        /\ g.operator = "contains" => a.fields[g.field].text
    /\ {s.field : s \in Range(d.query.sort)} \subseteq {s.name : s \in Range(a.sortable)}
    /\ d.query.limit # Absent => a.listed /\ d.query.limit \in 1 .. a.ceiling
    /\ {prop.name : prop \in {x \in Range(d.component.props) : x.required}} \subseteq d.props

(* A row gives each field the set of values it holds, one where the field is a scalar. *)
Rows(a) ==
    {r \in [DOMAIN a.fields -> SUBSET UNION {a.fields[f].values : f \in DOMAIN a.fields}] :
        \A f \in DOMAIN a.fields : r[f] \subseteq a.fields[f].values /\ (a.fields[f].many \/ Cardinality(r[f]) = 1)}
Holds(r, g) ==
    IF g.combine = "any" THEN \E v \in g.values : v \in r[g.field]
    ELSE IF g.operator = "contains" THEN g.values \subseteq r[g.field]
    ELSE r[g.field] \subseteq g.values

(* A draft says what the prompt named and nothing else: the rows it asks for are those
   that hold a named value of every field the prompt names, each named value of an
   argument is passed on, no more rows are asked for than the prompt counts, the
   presentation it names is used where the surface has it - and the draft is one the
   contract and validation take, since no rule could repair it. *)
DraftSaysIt ==
    (drafted # Absent /\ drafted.ok) =>
        /\ Conforms(ask, drafted)
        /\ ask.listed =>
            \A r \in Rows(ask) :
                (\A g \in drafted.query.filter : Holds(r, g))
                    <=> \A f \in NamedFields(ask) : r[f] \cap ask.prompt.named # {}
        /\ \A arg \in Range(ask.args) :
            NamedFor(ask, arg) # {} =>
                /\ arg.name \in DOMAIN drafted.params
                /\ IF arg.many THEN drafted.params[arg.name] = NamedFor(ask, arg)
                   ELSE NamedFor(ask, arg) = {drafted.params[arg.name]}
        /\ (ask.listed /\ ask.prompt.count # Absent) => drafted.query.limit <= ask.prompt.count
        /\ Eligible(drafted.component)
        /\ \A c \in Range(ask.components) :
            (Eligible(c) /\ Preferred(ask, c)) => Preferred(ask, drafted.component)

=============================================================================
