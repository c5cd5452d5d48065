------------------------------- MODULE MCSystemOne -------------------------------
(* The two planners: a surface of three capabilities, one of them a search, with the
   prompts of a conversation about it, and a model's attempts at one plan. *)
EXTENDS SystemOne, SystemOneDraft, PlannerLoop

(* What a capability may be drafted from. *)
Argument(name, kind) ==
    [name |-> name, kind |-> kind, many |-> FALSE, values |-> {}, required |-> FALSE,
     default |-> Absent, least |-> 1, most |-> Absent]
State == [Argument("state", "enum") EXCEPT !.values = {"open", "shut"}]
Size == [Argument("first", "count") EXCEPT !.most = 20]
Words == [Argument("q", "search") EXCEPT !.required = TRUE]
Arguments ==
    {<<>>, <<State, Size>>, <<[State EXCEPT !.many = TRUE], [Size EXCEPT !.least = 5, !.required = TRUE]>>,
     <<[State EXCEPT !.required = TRUE, !.default = "open"], [Size EXCEPT !.required = TRUE, !.default = 7]>>,
     <<[State EXCEPT !.required = TRUE], Words>>, <<[Argument("id", "other") EXCEPT !.required = TRUE]>>,
     <<Words, [Argument("lang", "other") EXCEPT !.required = TRUE, !.default = "en"]>>}

FieldOf(values, many) == [values |-> values, many |-> many, text |-> TRUE]
FilterSets ==
    {<<>>, [state |-> FieldOf({"open", "shut"}, FALSE)],
     [state |-> FieldOf({"open", "shut"}, FALSE), tags |-> FieldOf({"red", "open", "old"}, TRUE)],
     [tags |-> [FieldOf({"red", "old"}, TRUE) EXCEPT !.text = FALSE]]}

Heading == [name |-> "heading", heading |-> TRUE, required |-> TRUE, default |-> FALSE, simple |-> TRUE]
Panel(kind, nominal) ==
    [accepted |-> TRUE, slots |-> 1, takes |-> TRUE, nominal |-> nominal, kind |-> kind, props |-> <<Heading>>]
Columns == [name |-> "columns", heading |-> FALSE, required |-> TRUE, default |-> FALSE, simple |-> FALSE]
Surfaces ==
    {<<Panel(Absent, FALSE), Panel("table", FALSE), Panel("chart", TRUE)>>,
     <<[Panel("table", TRUE) EXCEPT !.slots = 2], [Panel("chart", FALSE) EXCEPT !.takes = FALSE], Panel("table", TRUE)>>,
     <<Panel("chart", TRUE), [Panel("table", FALSE) EXCEPT !.props = <<Heading, Columns>>]>>,
     <<[Panel("table", FALSE) EXCEPT !.accepted = FALSE]>>}
Sortable == {<<>>, <<[name |-> "total", dated |-> FALSE], [name |-> "made", dated |-> TRUE]>>}

MCAsks ==
    {[prompt |-> [named |-> named, count |-> count, oldest |-> sortable # <<>>, terms |-> cue # "chart", cue |-> cue],
      args |-> args, listed |-> listed, fields |-> fields, sortable |-> sortable,
      ceiling |-> IF sortable = <<>> THEN 8 ELSE 40, components |-> components] :
        named \in SUBSET {"open", "shut", "red", "old"}, count \in {Absent, 3, 30},
        cue \in {Absent, "table", "chart"}, args \in Arguments, listed \in BOOLEAN, fields \in FilterSets,
        sortable \in Sortable, components \in Surfaces}
------------------------------------------------------------------------------
CONSTANTS open, tags, search

VARIABLE looksAt    \* "conversation", "draft": how one capability is drafted, or "model"

MCCaps == {open, tags, search}
MCFreeText == {search}
MCHosted == {tags}

Plain == [blank |-> FALSE, flagged |-> FALSE, conj |-> FALSE, paired |-> {},
          drafts |-> {open, tags}, cue |-> FALSE, parts |-> <<>>]
Flagged == [Plain EXCEPT !.flagged = TRUE]
Title == [Plain EXCEPT !.conj = TRUE, !.drafts = {search}]
Pair == [Plain EXCEPT !.conj = TRUE, !.paired = {tags}]
Two == [Plain EXCEPT !.conj = TRUE, !.parts = <<Plain, Plain>>]
Half == [Plain EXCEPT !.conj = TRUE, !.parts = <<Plain, Flagged>>]
Table == [Plain EXCEPT !.cue = TRUE, !.drafts = {}]

MCPrompts == {Plain, Flagged, Title, Pair, Two, Half, Table}

NothingDrafted == ask = Absent /\ drafted = Absent
Idle == Init /\ provider = "own" /\ ~revising

(* The drafts of a conversation are abstract there; here each is built, one at a time,
   and so is one plan by a model. *)
LooksInit ==
    \/ looksAt = "conversation" /\ ConversationInit /\ NothingDrafted /\ Idle
    \/ looksAt = "draft" /\ ConversationInit /\ mode = "rules" /\ DraftInit /\ Idle
    \/ looksAt = "model" /\ ConversationInit /\ mode = "rules" /\ NothingDrafted /\ Init
LooksNext ==
    /\ UNCHANGED looksAt
    /\ \/ looksAt = "conversation" /\ Converse /\ UNCHANGED <<draftVars, vars>>
       \/ looksAt = "draft" /\ BuildDraft /\ UNCHANGED <<conversation, vars>>
       \/ looksAt = "model" /\ Next /\ UNCHANGED <<conversation, draftVars>>
LooksSpec == LooksInit /\ [][LooksNext]_<<looksAt, conversation, draftVars, vars>>
==============================================================================
