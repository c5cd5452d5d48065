--------------------------- MODULE PlannerLoopProofs ---------------------------
(***************************************************************************)
(* Proofs about PlannerLoop, for any number of retries, any deadlines and  *)
(* responses of any length.  The inductive invariant is Conversing: what   *)
(* the loop holds between two attempts follows from the answers so far,    *)
(* and how late it is follows from the calls of the attempt being made.    *)
(* And about the drafts of SystemOneDraft, which the same loop validates,  *)
(* for any catalog and prompt: a lemma for each part of a draft.           *)
(* And about the conversations of SystemOne, for any prompts and surfaces: *)
(* first what one join of two plans comes to (AppendIs), then the parts of *)
(* a compound prompt (MergedIs), then any answer the rules give (Right).   *)
(* The inductive invariant ConversationInv keeps that of an answer until   *)
(* it is read, and the view on screen valid and older than the compose.    *)
(***************************************************************************)
EXTENDS PlannerLoop, SystemOne, SystemOneDraft, SequenceTheorems, FiniteSetTheorems, TLAPS

LEMMA Constants ==
    /\ MaxRetries \in Nat /\ PlanDeadline \in Nat /\ ComposeDeadline \in Nat
    /\ Timeout \in Nat /\ MaxBody \in Nat /\ None \notin Nat /\ Deadline \in Nat
  BY PlannerAssumption DEF Deadline, Min2

(* The attempts that brought a draft. *)
DraftsIn(s) == {n \in 1 .. Len(s) : s[n] \in Drafts}

(* No attempt has ended planning yet, the kind to report is that of the last one,
   and the issues quoted are those of the latest draft. *)
Unfinished ==
    /\ \A n \in 1 .. Len(answers) : answers[n] \in {"error", "rejected"}
    /\ answers # <<>> => failure = KindOf[answers[Len(answers)]]
    /\ IF DraftsIn(answers) = {} THEN quoted = None
       ELSE /\ quoted # None /\ quoted + 1 \in DraftsIn(answers)
            /\ \A n \in DraftsIn(answers) : n <= quoted + 1

(* An attempt begins at once or before the deadline, and each of its calls adds at
   most a response and a body. *)
Earlier == IF calls = 2 THEN Timeout + MaxBody ELSE 0
Timely ==
    /\ stage = "ready" /\ answers = <<>> => elapsed = 0
    /\ Attempting => began = 0 \/ began < Deadline
    /\ stage = "calling" => elapsed <= began + Earlier
    /\ stage = "reading" => elapsed <= began + Earlier + Timeout

(* The calls of the attempt being made are not counted yet. *)
Pending == IF Attempting THEN calls ELSE 0
NoneThrew == \A n \in 1 .. Len(answers) : answers[n] # "error"
Accounted ==
    /\ metered + Pending <= spent
    /\ NoneThrew => spent = metered + Pending

Conversing ==
    /\ TypeOK
    /\ Timely
    /\ EndsSoon
    /\ Accounted
    /\ stage # "done" => Unfinished
    /\ ReportsLastAnswer

LEMMA ConversingInit == Init => Conversing
<1> SUFFICES ASSUME Init PROVE Conversing
  OBVIOUS
<1>1. TypeOK
  BY Constants DEF Init, TypeOK, Attempting, Statuses
<1>2. Unfinished
  BY DEF Init, Unfinished, DraftsIn
<1>3. EndsSoon
  BY Constants DEF Init, EndsSoon, LongestAttempt
<1>4. Timely /\ Accounted
  BY Constants DEF Init, Timely, Earlier, Attempting, Accounted, Pending
<1> QED
  BY <1>1, <1>2, <1>3, <1>4 DEF Conversing, Init, ReportsLastAnswer

(* However long the response or the body being waited for takes, planning ends in time. *)
LEMMA WaitingEndsSoon ==
    ASSUME Conversing, Attempting, Passes
    PROVE  elapsed' \in Nat /\ EndsSoon'
<1>1. elapsed \in Nat /\ began \in Nat /\ stage \in {"calling", "reading"}
  BY DEF Conversing, TypeOK, Attempting
<1>2. elapsed' \in Nat /\ elapsed' <= elapsed + Longest
  BY <1>1, Constants DEF Passes, Longest
<1>3. elapsed' <= began + LongestAttempt
  BY <1>1, <1>2, Constants DEF Conversing, Timely, Earlier, Longest, LongestAttempt
<1>4. began = 0 \/ began < Deadline
  BY DEF Conversing, Timely
<1>5. Deadline' = Deadline /\ LongestAttempt' = LongestAttempt
  BY DEF Deadline, LongestAttempt
<1>6. LongestAttempt \in Nat
  BY Constants DEF LongestAttempt
<1> QED
  BY <1>1, <1>2, <1>3, <1>4, <1>5, <1>6, Constants DEF EndsSoon

(* What an answer does to the sequence of answers, to the time and to the metrics. *)
LEMMA AfterAnswer ==
    ASSUME Conversing, NEW a \in Answers, Brings(a), stage' \in {"ready", "done"}
    PROVE  /\ answers' \in Seq(Answers) /\ answers' # <<>>
           /\ Len(answers') = Len(answers) + 1 /\ Len(answers) <= MaxRetries
           /\ answers'[Len(answers')] = a
           /\ \A n \in 1 .. Len(answers) : answers'[n] = answers[n]
           /\ elapsed' \in Nat /\ EndsSoon' /\ Timely'
           /\ metered' \in Nat /\ Accounted'
           /\ Unfinished
<1>1. /\ answers \in Seq(Answers) /\ elapsed \in Nat /\ Len(answers) \in Nat
      /\ answers' = Append(answers, a)
      /\ Attempting
  BY DEF Conversing, TypeOK, Brings
<1>2. /\ answers' \in Seq(Answers) /\ answers' # <<>>
      /\ Len(answers') = Len(answers) + 1
      /\ answers'[Len(answers')] = a
      /\ \A n \in 1 .. Len(answers) : answers'[n] = answers[n]
  BY <1>1
<1>3. elapsed' \in Nat /\ EndsSoon'
  BY <1>1, WaitingEndsSoon DEF Brings
<1>4. ~Attempting' /\ Timely'
  BY <1>2 DEF Attempting, Timely
<1>5. /\ metered \in Nat /\ calls \in {1, 2} /\ spent \in Nat /\ spent' = spent
      /\ metered' = metered + Metered(a)
  BY <1>1 DEF Conversing, TypeOK, Brings
<1>6. NoneThrew' => NoneThrew /\ a # "error"
  BY <1>1, <1>2 DEF NoneThrew
<1>7. metered' \in Nat /\ Accounted'
  BY <1>1, <1>4, <1>5, <1>6 DEF Metered, Conversing, Accounted, Pending
<1> QED
  BY <1>1, <1>2, <1>3, <1>4, <1>7 DEF Conversing, TypeOK, Attempting

(* A failed call or a rejected draft. *)
LEMMA AnotherAttempt ==
    ASSUME Conversing, Next, ProviderFails \/ DraftRejected
    PROVE  Conversing'
<1>1. PICK a \in {"error", "rejected"} :
        /\ Brings(a) /\ failure' = KindOf[a] /\ Again(KindOf[a])
        /\ quoted' = IF a = "rejected" /\ attempt < MaxRetries THEN attempt ELSE quoted
  BY DEF ProviderFails, DraftRejected, KindOf, Invalid, Quote, KeepQuote
<1>2. a \in Answers /\ stage' \in {"ready", "done"}
  BY <1>1 DEF Answers, Again, End
<1>3. /\ answers' \in Seq(Answers) /\ answers' # <<>>
      /\ Len(answers') = Len(answers) + 1 /\ Len(answers) <= MaxRetries
      /\ answers'[Len(answers')] = a
      /\ \A n \in 1 .. Len(answers) : answers'[n] = answers[n]
      /\ elapsed' \in Nat /\ EndsSoon' /\ Timely'
      /\ metered' \in Nat /\ Accounted'
      /\ Unfinished
  BY <1>1, <1>2, AfterAnswer
<1>4. Len(answers) \in Nat /\ attempt = Len(answers)
  BY DEF Conversing, TypeOK, attempt
<1>5. KindOf[a] \in {"invalid", "provider-error"}
  BY DEF KindOf
<1>6. stage' \in {"ready", "done"} /\ (stage' # "done" => attempt < MaxRetries)
  BY <1>1 DEF Again, End
<1>7. TypeOK'
  <2>1. quoted' \in (0 .. MaxRetries) \cup {None}
    BY <1>1, <1>3, <1>4, Constants DEF Conversing, TypeOK
  <2>2. outcome' \in Kinds \cup {None} /\ view' \in {"new", "previous", None}
    BY <1>1, <1>5 DEF Again, End, Kinds, Conversing, TypeOK
  <2>3. ~Attempting'
    BY <1>6 DEF Attempting
  <2> QED
    BY <1>1, <1>3, <1>4, <1>5, <1>6, <2>1, <2>2, <2>3, Constants DEF Conversing, TypeOK, Brings
<1>8. ReportsLastAnswer'
  BY <1>1, <1>3, <1>5 DEF Again, End, ReportsLastAnswer, KindOf
<1>9. ASSUME stage' # "done" PROVE Unfinished'
  <2>1. DraftsIn(answers') = DraftsIn(answers) \cup (IF a = "rejected" THEN {attempt + 1} ELSE {})
    <3>1. \A n \in 1 .. Len(answers') : n = Len(answers) + 1 \/ n \in 1 .. Len(answers)
      BY <1>3, <1>4
    <3>2. a \in Drafts <=> a = "rejected"
      BY DEF Drafts, Answers
    <3> QED
      BY <1>3, <1>4, <3>1, <3>2 DEF DraftsIn
  <2>2. \A n \in 1 .. Len(answers') : answers'[n] \in {"error", "rejected"}
    BY <1>3, <1>4 DEF Unfinished
  <2>3. \A n \in DraftsIn(answers) : n <= attempt
    BY <1>4 DEF DraftsIn
  <2>4. CASE a = "rejected"
    <3>1. quoted' = attempt /\ quoted' # None
      BY <1>1, <1>4, <1>6, <1>9, <2>4, Constants
    <3>2. quoted' + 1 \in DraftsIn(answers') /\ \A n \in DraftsIn(answers') : n <= quoted' + 1
      BY <1>4, <2>1, <2>3, <2>4, <3>1 DEF DraftsIn
    <3> QED
      BY <1>1, <1>3, <2>2, <3>1, <3>2 DEF Unfinished
  <2>5. CASE a = "error"
    BY <1>1, <1>3, <2>1, <2>2, <2>5 DEF Unfinished
  <2> QED
    BY <2>4, <2>5
<1> QED
  BY <1>3, <1>6, <1>7, <1>8, <1>9 DEF Conversing

(* A refusal, a question or a plan. *)
LEMMA LastAttempt ==
    ASSUME Conversing, DraftFinal
    PROVE  Conversing'
<1>1. PICK a \in {"unsupported", "question", "plan"} : Brings(a) /\ End(KindOf[a])
  BY DEF DraftFinal, KindOf
<1>2. a \in Answers /\ stage' = "done"
  BY <1>1 DEF Answers, End
<1>3. /\ answers' \in Seq(Answers) /\ answers' # <<>>
      /\ Len(answers') = Len(answers) + 1 /\ Len(answers) <= MaxRetries
      /\ answers'[Len(answers')] = a
      /\ elapsed' \in Nat /\ EndsSoon' /\ Timely'
      /\ metered' \in Nat /\ Accounted'
  BY <1>1, <1>2, AfterAnswer
<1>4. Len(answers) \in Nat /\ failure' = failure /\ quoted' = quoted
  BY DEF Conversing, TypeOK, DraftFinal
<1>5. KindOf[a] \in Kinds
  BY DEF KindOf, Kinds
<1>6. TypeOK'
  BY <1>1, <1>3, <1>4, <1>5, Constants DEF Conversing, TypeOK, Brings, End, Attempting
<1>7. ReportsLastAnswer'
  BY <1>1, <1>3 DEF ReportsLastAnswer, End
<1> QED
  BY <1>1, <1>3, <1>6, <1>7 DEF Conversing, End

LEMMA ConversingNext == Conversing /\ [Next]_vars => Conversing'
<1> SUFFICES ASSUME Conversing, [Next]_vars PROVE Conversing'
  OBVIOUS
<1>1. CASE Ask
  <2>1. (answers = <<>> /\ elapsed = 0) \/ elapsed < Deadline
    BY <1>1, Constants DEF Ask, OutOfTime, attempt, Conversing, TypeOK, Timely
  <2>2. TypeOK'
    BY <1>1 DEF Ask, loop, Conversing, TypeOK, Attempting
  <2>3. Timely'
    BY <1>1, <2>1, Constants DEF Ask, loop, Conversing, TypeOK, Timely, Attempting, Earlier
  <2>4. Accounted'
    BY <1>1 DEF Ask, loop, Conversing, TypeOK, Accounted, Pending, Attempting, NoneThrew
  <2> QED
    BY <1>1, <2>2, <2>3, <2>4
    DEF Ask, loop, Conversing, Unfinished, DraftsIn, EndsSoon, ReportsLastAnswer
<1>2. CASE GiveUp
  <2>1. answers # <<>> /\ Unfinished
    BY <1>2 DEF GiveUp, OutOfTime, attempt, Conversing
  <2>2. failure \in Kinds
    BY DEF Conversing, TypeOK, Kinds
  <2>3. TypeOK' /\ ReportsLastAnswer'
    BY <1>2, <2>1, <2>2
    DEF GiveUp, End, Conversing, TypeOK, Attempting, Unfinished, ReportsLastAnswer
  <2>4. Timely' /\ Accounted'
    BY <1>2 DEF GiveUp, End, Conversing, Timely, Attempting, Accounted, Pending, NoneThrew
  <2> QED
    BY <1>2, <2>3, <2>4 DEF GiveUp, End, Conversing, EndsSoon
<1>3. CASE Responds
  <2>1. Attempting /\ Attempting' /\ elapsed' \in Nat /\ EndsSoon'
    BY <1>3, WaitingEndsSoon DEF Responds, Attempting
  <2>2. TypeOK'
    BY <1>3, <2>1 DEF Responds, loop, Conversing, TypeOK
  <2>3. Timely'
    <3>1. elapsed' <= elapsed + Timeout
      BY <1>3, Constants DEF Responds, Passes, Longest, Conversing, TypeOK
    <3> QED
      BY <1>3, <2>1, <3>1, Constants DEF Responds, loop, Conversing, TypeOK, Timely, Earlier
  <2>4. Accounted'
    BY <1>3, <2>1 DEF Responds, loop, Conversing, Accounted, Pending, NoneThrew
  <2> QED
    BY <1>3, <2>1, <2>2, <2>3, <2>4
    DEF Responds, loop, Conversing, Unfinished, DraftsIn, ReportsLastAnswer
<1>4. CASE RetryWithoutSchema
  <2>1. Attempting /\ Attempting' /\ elapsed' \in Nat /\ EndsSoon'
    BY <1>4, WaitingEndsSoon DEF RetryWithoutSchema, Attempting
  <2>2. TypeOK'
    BY <1>4, <2>1 DEF RetryWithoutSchema, loop, Conversing, TypeOK
  <2>3. Timely'
    <3>1. elapsed' <= elapsed + MaxBody
      BY <1>4, Constants DEF RetryWithoutSchema, Passes, Longest, Conversing, TypeOK
    <3> QED
      BY <1>4, <2>1, <3>1, Constants
      DEF RetryWithoutSchema, loop, Conversing, TypeOK, Timely, Earlier
  <2>4. Accounted'
    BY <1>4, <2>1 DEF RetryWithoutSchema, loop, Conversing, TypeOK, Accounted, Pending, NoneThrew
  <2> QED
    BY <1>4, <2>1, <2>2, <2>3, <2>4
    DEF RetryWithoutSchema, loop, Conversing, Unfinished, DraftsIn, ReportsLastAnswer
<1>5. CASE ProviderFails \/ DraftRejected
  BY <1>5, AnotherAttempt DEF Next
<1>6. CASE DraftFinal
  BY <1>6, LastAttempt
<1>7. CASE UNCHANGED vars
  BY <1>7 DEF vars, Conversing, TypeOK, Attempting, Timely, Earlier, Accounted, Pending, NoneThrew,
    Unfinished, DraftsIn, EndsSoon, ReportsLastAnswer
<1> QED
  BY <1>1, <1>2, <1>3, <1>4, <1>5, <1>6, <1>7 DEF Next

LEMMA AlwaysConversing == Spec => []Conversing
  BY ConversingInit, ConversingNext, PTL DEF Spec

(* Type correctness, for any number of retries and any deadlines. *)
THEOREM PlannerTyped == Spec => []TypeOK
  BY AlwaysConversing, PTL DEF Conversing

(* The latest end of planning: one attempt, of two calls at most, after its deadline,
   or the one attempt that is always made. *)
THEOREM PlanningEndsSoon == Spec => []EndsSoon
  BY AlwaysConversing, PTL DEF Conversing

(* The failure reported is the one of the last attempt. *)
THEOREM LastAnswerReported == Spec => []ReportsLastAnswer
  BY AlwaysConversing, PTL DEF Conversing

(* A repair prompt quotes the issues of the model's own latest draft, whatever
   failed in between. *)
THEOREM LatestDraftQuoted == Spec => []QuotesLatestDraft
<1>1. Conversing => QuotesLatestDraft
  BY DEF Conversing, Unfinished, DraftsIn, Attempting, QuotesLatestDraft
<1> QED
  BY <1>1, AlwaysConversing, PTL

(* The calls reported are the calls made, as long as no attempt threw, and never more. *)
THEOREM CallsMetered == Spec => []EveryCallMetered
<1>1. ASSUME Conversing PROVE EveryCallMetered
  <2>1. metered \in Nat /\ spent \in Nat /\ Pending \in Nat
    BY <1>1 DEF Conversing, TypeOK, Pending
  <2>2. ~Attempting => Pending = 0
    BY DEF Pending
  <2> QED
    BY <1>1, <2>1, <2>2 DEF Conversing, Accounted, NoneThrew, EveryCallMetered
<1> QED
  BY <1>1, AlwaysConversing, PTL

-----------------------------------------------------------------------------
(* The least of some numbers. *)
LEMMA SetInduction ==
    ASSUME NEW S, 0 \in S, \A n \in Nat : n \in S => n + 1 \in S
    PROVE  Nat \subseteq S
<1> SUFFICES ASSUME ~(Nat \subseteq S) PROVE FALSE
  OBVIOUS
<1> DEFINE Missed == {1 .. n : n \in Nat \ S}
<1>1. Missed # {} /\ Missed \subseteq FiniteSubsetsOf(Nat)
  <2>1. \A n \in Nat : IsFiniteSet(1 .. n) /\ 1 .. n \subseteq Nat
    BY FS_Interval
  <2> QED
    BY <2>1 DEF FiniteSubsetsOf
<1>2. PICK U \in Missed : \A V \in Missed : <<V, U>> \notin StrictSubsetOrdering(Nat)
  <2> HIDE DEF Missed
  <2> QED
    BY <1>1, WFMin, FS_StrictSubsetOrderingWellFounded
<1>3. PICK n \in Nat \ S : U = 1 .. n
  OBVIOUS
<1>4. n # 0 /\ n - 1 \in Nat /\ (n - 1) + 1 = n
  BY <1>3
<1>5. n - 1 \in Nat \ S
  BY <1>3, <1>4
<1>6. 1 .. (n - 1) \in Missed
  BY <1>5
<1>7. 1 .. (n - 1) \subseteq 1 .. n /\ 1 .. (n - 1) # 1 .. n
  <2>1. n \in 1 .. n /\ n \notin 1 .. (n - 1)
    BY <1>4
  <2> QED
    BY <1>4, <2>1
<1>8. <<1 .. (n - 1), U>> \in StrictSubsetOrdering(Nat)
  BY <1>3, <1>7 DEF StrictSubsetOrdering
<1> QED
  BY <1>2, <1>6, <1>8

LEMMA LeastIs ==
    ASSUME NEW S \in SUBSET Nat, S # {}
    PROVE  Min(S) \in S /\ \A n \in S : Min(S) <= n
<1> DEFINE below == {n \in Nat : \A m \in 0 .. n : m \notin S}
<1>1. \E x \in S : \A y \in S : x <= y
  <2> SUFFICES ASSUME \A x \in S : \E y \in S : ~(x <= y) PROVE FALSE
    OBVIOUS
  <2>1. 0 \in below
    OBVIOUS
  <2>2. ASSUME NEW n \in Nat, n \in below PROVE n + 1 \in below
    <3>1. \A m \in 0 .. n : m \notin S
      BY <2>2
    <3>2. n + 1 \notin S
      BY <3>1
    <3> QED
      BY <3>1, <3>2
  <2>3. Nat \subseteq below
    <3> HIDE DEF below
    <3> QED
      BY <2>1, <2>2, SetInduction
  <2>4. PICK x : x \in S
    OBVIOUS
  <2>5. x \in below /\ x \in 0 .. x
    BY <2>3, <2>4
  <2> QED
    BY <2>4, <2>5
<1> QED
  BY <1>1 DEF Min

-----------------------------------------------------------------------------
(* SystemOneDraft: what each part of a draft comes to. *)
LEMMA Clamped ==
    ASSUME NEW arg, arg.kind = "count", Counts(arg), NEW n \in Nat
    PROVE  arg.least <= Clamp(n, arg) /\ (arg.most # Absent => Clamp(n, arg) <= arg.most)
  BY SystemOneDraftAssumption DEF Counts, Clamp, Least

(* What an argument is given: what the prompt names of it, and what it takes. *)
LEMMA FilledRight ==
    ASSUME NEW a, NEW arg, Counts(arg), IsFiniteSet(arg.values), a.prompt.count \in (Nat \ {0}) \cup {Absent}
    PROVE  LET f == Filled(a, arg) IN
           /\ f.kind = "value" => Takes(arg, f.value)
           /\ f.kind \notin {"value", "fault"} => ~arg.required /\ NamedFor(a, arg) = {}
           /\ f.kind = "value" /\ NamedFor(a, arg) # {} =>
                IF arg.many THEN f.value = NamedFor(a, arg) ELSE NamedFor(a, arg) = {f.value}
<1> DEFINE f == Filled(a, arg)
           named == NamedFor(a, arg)
<1>1. named \subseteq arg.values /\ (arg.kind = "count" => named = {})
  BY DEF NamedFor, Counts
<1>2. CASE named # {} /\ arg.many
  <2>1. f = Value(named)
    BY <1>2 DEF Filled
  <2>2. f.kind = "value" /\ f.value = named
    BY <2>1 DEF Value
  <2> QED
    BY <1>1, <1>2, <2>2 DEF Takes
<1>3. CASE named # {} /\ ~arg.many
  <2>1. CASE Cardinality(named) = 1
    <3>1. f = Value(OneOf(named))
      BY <1>3, <2>1 DEF Filled
    <3>2. f.kind = "value" /\ f.value = OneOf(named) /\ OneOf(named) \in named
      BY <1>3, <3>1 DEF Value, OneOf
    <3>3. PICK x : named = {x}
      BY <1>1, <2>1, FS_Subset, FS_Singleton
    <3> QED
      BY <1>1, <1>3, <3>2, <3>3 DEF Takes
  <2>2. CASE Cardinality(named) # 1
    <3>1. f.kind = "fault"
      BY <1>3, <2>2 DEF Filled, Fault
    <3> QED
      BY <3>1
  <2> QED
    BY <2>1, <2>2
<1>4. CASE named = {} /\ arg.kind = "count"
  <2>1. f = Counted(a, arg)
    BY <1>4 DEF Filled
  <2>2. CASE a.prompt.count # Absent
    <3>1. f = Value(Clamp(a.prompt.count, arg))
      BY <2>1, <2>2 DEF Counted
    <3>2. f.kind = "value" /\ f.value = Clamp(a.prompt.count, arg)
      BY <3>1 DEF Value
    <3> QED
      BY <1>4, <2>2, <3>2, Clamped DEF Takes
  <2>3. CASE a.prompt.count = Absent /\ arg.required
    <3> DEFINE n == IF arg.default # Absent THEN arg.default ELSE DefaultListLimit
    <3>1. f = Value(Clamp(n, arg))
      BY <2>1, <2>3 DEF Counted
    <3>2. f.kind = "value" /\ f.value = Clamp(n, arg)
      BY <3>1 DEF Value
    <3>3. n \in Nat
      BY <1>4, SystemOneDraftAssumption DEF Counts
    <3> QED
      BY <1>4, <3>2, <3>3, Clamped DEF Takes
  <2>4. CASE a.prompt.count = Absent /\ ~arg.required
    <3>1. f.kind = "skip"
      BY <2>1, <2>4 DEF Counted, Skip
    <3> QED
      BY <1>4, <2>4, <3>1
  <2> QED
    BY <2>2, <2>3, <2>4
<1>5. CASE named = {} /\ arg.kind # "count" /\ arg.required
  <2>1. f = Fault("required") \/ (f = Value("words") /\ arg.kind = "search") \/ f = Value(arg.default)
    BY <1>5 DEF Filled
  <2>2. f.kind \in {"fault", "value"} /\ (f.kind = "value" => f.value = arg.default \/ arg.kind = "search")
    <3> HIDE DEF f
    <3> QED
      BY <2>1 DEF Value, Fault
  <2> QED
    BY <1>5, <2>2 DEF Takes
<1>6. CASE named = {} /\ arg.kind # "count" /\ ~arg.required
  <2>1. f.kind = "skip"
    BY <1>6 DEF Filled, Skip
  <2> QED
    BY <1>6, <2>1
<1> QED
  BY <1>2, <1>3, <1>4, <1>5, <1>6

LEMMA ParamsRight ==
    ASSUME NEW a, Asked(a), FillParams(a) # Absent, NEW i \in DOMAIN a.args
    PROVE  LET arg == a.args[i]
               params == FillParams(a) IN
           /\ IF arg.name \in DOMAIN params THEN Takes(arg, params[arg.name]) ELSE ~arg.required
           /\ NamedFor(a, arg) # {} =>
                /\ arg.name \in DOMAIN params
                /\ IF arg.many THEN params[arg.name] = NamedFor(a, arg) ELSE NamedFor(a, arg) = {params[arg.name]}
<1> DEFINE arg == a.args[i]
           filled == [j \in DOMAIN a.args |-> Filled(a, a.args[j])]
           given == {j \in DOMAIN a.args : filled[j].kind = "value"}
           named(n) == CHOOSE j \in given : a.args[j].name = n
           params == FillParams(a)
<1>1. filled[i] = Filled(a, arg)
  OBVIOUS
<1>2. \A j \in DOMAIN a.args : filled[j].kind # "fault"
  BY DEF FillParams
<1>3. params = [n \in {a.args[j].name : j \in given} |-> filled[named(n)].value]
  BY <1>2 DEF FillParams
<1>4. Counts(arg) /\ IsFiniteSet(arg.values) /\ a.prompt.count \in (Nat \ {0}) \cup {Absent}
  BY DEF Asked
<1>5. \A j \in DOMAIN a.args : a.args[j].name = arg.name => j = i
  BY DEF Asked
<1>6. CASE i \in given
  <2>1. named(arg.name) = i
    BY <1>5, <1>6
  <2> HIDE DEF named, params
  <2>2. arg.name \in DOMAIN params /\ params[arg.name] = filled[i].value
    BY <1>3, <1>6, <2>1
  <2> HIDE DEF params, arg, filled
  <2>3. filled[i].kind = "value"
    BY <1>6
  <2> QED
    BY <1>1, <1>4, <2>2, <2>3, FilledRight DEF params, arg
<1>7. CASE i \notin given
  <2>1. arg.name \notin DOMAIN params
    <3>1. arg.name \notin {a.args[j].name : j \in given}
      <4> HIDE DEF filled, arg
      <4> QED
        BY <1>5, <1>7
    <3> HIDE DEF params, named, given, filled, arg
    <3>2. DOMAIN params = {a.args[j].name : j \in given}
      BY <1>3
    <3> QED
      BY <3>1, <3>2
  <2>2. filled[i].kind \notin {"value", "fault"}
    BY <1>2, <1>7
  <2> HIDE DEF params, arg, filled
  <2>3. ~arg.required /\ NamedFor(a, arg) = {}
    BY <1>1, <1>4, <2>2, FilledRight
  <2> QED
    BY <2>1, <2>3 DEF params, arg
<1> QED
  BY <1>6, <1>7

(* A row that holds a named value of a field is one its group lets through. *)
LEMMA GroupRight ==
    ASSUME NEW a, Asked(a), a.listed, NEW f \in NamedFields(a), FilterFor(a, f) # Absent
    PROVE  LET g == FilterFor(a, f) IN
           /\ g.field = f /\ g.values = NamedIn(a, f)
           /\ g.values # {} /\ g.values \subseteq a.fields[f].values
           /\ g.operator = "contains" => a.fields[f].text
           /\ \A r \in Rows(a) : Holds(r, g) <=> r[f] \cap a.prompt.named # {}
<1> DEFINE g == FilterFor(a, f)
           values == NamedIn(a, f)
<1>1. f \in DOMAIN a.fields /\ values # {} /\ values = a.fields[f].values \cap a.prompt.named
  BY DEF NamedFields, NamedIn
<1>2. \A r \in Rows(a) : r[f] \subseteq a.fields[f].values /\ (a.fields[f].many \/ Cardinality(r[f]) = 1)
  BY <1>1 DEF Rows
<1> HIDE DEF values
<1>3. CASE a.fields[f].many
  <2>1. a.fields[f].text /\ g = AnyOf(f, values)
    BY <1>3 DEF FilterFor, values
  <2>2. g.field = f /\ g.values = values /\ g.combine = "any" /\ g.operator = "contains"
    BY <2>1 DEF AnyOf
  <2> HIDE DEF g
  <2>3. \A r \in Rows(a) : Holds(r, g) <=> r[f] \cap a.prompt.named # {}
    BY <1>1, <1>2, <2>2 DEF Holds
  <2> QED
    BY <1>1, <2>1, <2>2, <2>3 DEF g, values
<1>4. CASE ~a.fields[f].many
  <2>1. g = [field |-> f, combine |-> "all", operator |-> IF Cardinality(values) = 1 THEN "eq" ELSE "in", values |-> values]
    BY <1>4 DEF FilterFor, values
  <2>2. g.field = f /\ g.values = values /\ g.combine = "all" /\ g.operator # "contains"
    BY <2>1
  <2> HIDE DEF g
  <2>3. ASSUME NEW r \in Rows(a) PROVE Holds(r, g) <=> r[f] \cap a.prompt.named # {}
    <3>1. IsFiniteSet(r[f])
      BY <1>1, <1>2, FS_Subset DEF Asked
    <3>2. PICK x : r[f] = {x}
      BY <1>2, <1>4, <3>1, FS_Singleton
    <3>3. Holds(r, g) <=> r[f] \subseteq values
      BY <2>2 DEF Holds
    <3> QED
      BY <1>1, <1>2, <3>2, <3>3
  <2> QED
    BY <1>1, <2>2, <2>3 DEF g, values
<1> QED
  BY <1>3, <1>4

LEMMA QueryRight ==
    ASSUME NEW a \in Asks, BuildQuery(a) # Absent
    PROVE  LET q == BuildQuery(a) IN
           /\ \A g \in q.filter :
                /\ g.values # {} /\ g.values \subseteq a.fields[g.field].values
                /\ g.operator = "contains" => a.fields[g.field].text
           /\ {s.field : s \in Range(q.sort)} \subseteq {s.name : s \in Range(a.sortable)}
           /\ q.limit # Absent => a.listed /\ q.limit \in 1 .. a.ceiling
           /\ a.listed =>
                \A r \in Rows(a) :
                    (\A g \in q.filter : Holds(r, g)) <=> \A f \in NamedFields(a) : r[f] \cap a.prompt.named # {}
           /\ (a.listed /\ a.prompt.count # Absent) => q.limit <= a.prompt.count
<1> DEFINE q == BuildQuery(a)
           groups == {FilterFor(a, f) : f \in NamedFields(a)}
<1>1. Asked(a) /\ DefaultListLimit \in Nat \ {0} /\ Absent \notin Nat
  BY SystemOneDraftAssumption
<1>2. CASE ~a.listed
  <2>1. q = NoQuery
    BY <1>2 DEF BuildQuery
  <2>2. q.filter = {} /\ q.sort = <<>> /\ q.limit = Absent
    BY <2>1 DEF NoQuery
  <2>3. Range(q.sort) = {}
    BY <2>2 DEF Range
  <2> HIDE DEF q
  <2> QED
    BY <1>2, <2>2, <2>3 DEF q
<1>3. CASE a.listed
  <2>1. Absent \notin groups
    BY <1>3 DEF BuildQuery
  <2>2. q = [filter |-> groups, sort |-> DateSort(a), limit |-> Least(Wanted(a), a.ceiling)]
    BY <1>3, <2>1 DEF BuildQuery
  <2>3. q.filter = groups /\ q.sort = DateSort(a) /\ q.limit = Least(Wanted(a), a.ceiling)
    BY <2>2
  <2>4. \A f \in NamedFields(a) :
            LET g == FilterFor(a, f) IN
            /\ g.field = f /\ g.values # {} /\ g.values \subseteq a.fields[f].values
            /\ g.operator = "contains" => a.fields[f].text
            /\ \A r \in Rows(a) : Holds(r, g) <=> r[f] \cap a.prompt.named # {}
    <3> SUFFICES ASSUME NEW f \in NamedFields(a)
                 PROVE  LET g == FilterFor(a, f) IN
                        /\ g.field = f /\ g.values # {} /\ g.values \subseteq a.fields[f].values
                        /\ g.operator = "contains" => a.fields[f].text
                        /\ \A r \in Rows(a) : Holds(r, g) <=> r[f] \cap a.prompt.named # {}
      OBVIOUS
    <3>1. FilterFor(a, f) # Absent
      BY <2>1
    <3> QED
      BY <1>1, <1>3, <3>1, GroupRight
  <2>5. Wanted(a) \in Nat \ {0} /\ a.ceiling \in Nat \ {0} /\ (a.prompt.count # Absent => Wanted(a) = a.prompt.count)
    BY <1>1 DEF Wanted, Asked
  <2>6. q.limit \in 1 .. a.ceiling /\ q.limit <= Wanted(a)
    BY <2>3, <2>5 DEF Least
  <2>7. {s.field : s \in Range(q.sort)} \subseteq {s.name : s \in Range(a.sortable)}
    <3> DEFINE dated == {i \in DOMAIN a.sortable : a.sortable[i].dated}
    <3>1. CASE dated = {}
      <4>1. Range(q.sort) = {}
        BY <2>3, <3>1 DEF DateSort, Range
      <4> QED
        BY <4>1
    <3>2. CASE dated # {}
      <4> DEFINE by == [field |-> a.sortable[Min(dated)].name, direction |-> IF a.prompt.oldest THEN "asc" ELSE "desc"]
      <4>1. q.sort = <<by>>
        BY <2>3, <3>2 DEF DateSort
      <4>2. Min(dated) \in dated
        BY <1>1, <3>2, LeastIs DEF Asked
      <4>3. a.sortable[Min(dated)] \in Range(a.sortable)
        BY <4>2 DEF Range
      <4>4. Range(q.sort) = {by}
        <5>1. DOMAIN q.sort = {1} /\ q.sort[1] = by
          BY <4>1
        <5> HIDE DEF q, by
        <5> QED
          BY <5>1 DEF Range
      <4>5. by.field = a.sortable[Min(dated)].name
        OBVIOUS
      <4> HIDE DEF by, dated
      <4> QED
        BY <4>3, <4>4, <4>5
    <3> QED
      BY <3>1, <3>2
  <2> HIDE DEF q
  <2>8. \A g \in q.filter :
            /\ g.values # {} /\ g.values \subseteq a.fields[g.field].values
            /\ g.operator = "contains" => a.fields[g.field].text
    BY <2>3, <2>4
  <2>9. ASSUME NEW r \in Rows(a)
        PROVE (\A g \in q.filter : Holds(r, g)) <=> \A f \in NamedFields(a) : r[f] \cap a.prompt.named # {}
    BY <2>3, <2>4
  <2> QED
    BY <1>3, <2>5, <2>6, <2>7, <2>8, <2>9 DEF q
<1> QED
  BY <1>2, <1>3

LEMMA ComponentRight ==
    ASSUME NEW a, Asked(a), ChooseComponent(a) # Absent
    PROVE  /\ Eligible(ChooseComponent(a))
           /\ \A c \in Range(a.components) :
                (Eligible(c) /\ Preferred(a, c)) => Preferred(a, ChooseComponent(a))
<1> DEFINE eligible == {i \in DOMAIN a.components : Eligible(a.components[i])}
           best == {i \in eligible : \A j \in eligible : ~Better(a, a.components[j], a.components[i])}
<1>1. best # {} /\ ChooseComponent(a) = a.components[Min(best)]
  BY DEF ChooseComponent
<1>2. Min(best) \in best
  BY <1>1, LeastIs DEF Asked
<1>3. ASSUME NEW c \in Range(a.components), Eligible(c), Preferred(a, c)
      PROVE  Preferred(a, ChooseComponent(a))
  <2>1. PICK j \in DOMAIN a.components : c = a.components[j]
    BY DEF Range
  <2>2. ~Better(a, c, a.components[Min(best)])
    BY <1>2, <1>3, <2>1
  <2> QED
    BY <1>1, <1>3, <2>2 DEF Better
<1> QED
  BY <1>1, <1>2, <1>3

(* A draft says what the prompt named and nothing else, in a request that the contract and
   the validation of queries take (buildSystemOneDraft: fillParams, buildQuery,
   chooseComponent, fillProps). *)
LEMMA DraftRight ==
    ASSUME NEW a \in Asks, ask = a, drafted = SystemOneDraftOf(a)
    PROVE  DraftSaysIt
<1> SUFFICES ASSUME drafted.ok PROVE DraftSaysIt
  BY DEF DraftSaysIt
<1> DEFINE component == ChooseComponent(a)
<1>1. /\ component # Absent /\ FillParams(a) # Absent /\ BuildQuery(a) # Absent /\ FillProps(component) # Absent
      /\ drafted = [ok |-> TRUE, component |-> component, params |-> FillParams(a),
                    query |-> BuildQuery(a), props |-> FillProps(component)]
  BY DEF SystemOneDraftOf, NoDraft
<1>2. /\ drafted.component = component /\ drafted.params = FillParams(a)
      /\ drafted.query = BuildQuery(a) /\ drafted.props = FillProps(component)
  BY <1>1
<1> HIDE DEF component
<1>3. Asked(a)
  BY SystemOneDraftAssumption
<1>4. \A arg \in Range(a.args) :
        /\ IF arg.name \in DOMAIN drafted.params THEN Takes(arg, drafted.params[arg.name]) ELSE ~arg.required
        /\ NamedFor(a, arg) # {} =>
             /\ arg.name \in DOMAIN drafted.params
             /\ IF arg.many THEN drafted.params[arg.name] = NamedFor(a, arg)
                ELSE NamedFor(a, arg) = {drafted.params[arg.name]}
  BY <1>1, <1>2, <1>3, ParamsRight DEF Range
<1>5. {prop.name : prop \in {x \in Range(component.props) : x.required}} \subseteq drafted.props
  BY <1>1, <1>2 DEF FillProps
<1>6. Eligible(drafted.component) /\
      \A c \in Range(a.components) : (Eligible(c) /\ Preferred(a, c)) => Preferred(a, drafted.component)
  BY <1>1, <1>2, <1>3, ComponentRight DEF component
<1>7. Conforms(a, drafted)
  BY <1>1, <1>2, <1>4, <1>5, QueryRight DEF Conforms
<1>8. /\ a.listed => \A r \in Rows(a) :
            (\A g \in drafted.query.filter : Holds(r, g)) <=> \A f \in NamedFields(a) : r[f] \cap a.prompt.named # {}
      /\ (a.listed /\ a.prompt.count # Absent) => drafted.query.limit <= a.prompt.count
  BY <1>1, <1>2, QueryRight
<1> QED
  BY <1>4, <1>6, <1>7, <1>8 DEF DraftSaysIt

(* Whatever the catalog and the words of a prompt: a draft the rules make says what the
   prompt named and nothing else, and is one that the contract and the validation of
   queries take (packages/server/src/system-one.ts: buildSystemOneDraft). *)
THEOREM DraftsSayIt == DraftSpec => []DraftSaysIt
<1> DEFINE Drafted == ask \in Asks /\ drafted \in {Absent, SystemOneDraftOf(ask)}
<1>1. DraftInit => Drafted
  BY DEF DraftInit
<1>2. Drafted /\ [BuildDraft]_draftVars => Drafted'
  BY DEF BuildDraft, draftVars
<1>3. Drafted => DraftSaysIt
  <2>1. drafted = Absent => DraftSaysIt
    BY DEF DraftSaysIt
  <2> QED
    BY <2>1, DraftRight
<1> QED
  BY <1>1, <1>2, <1>3, PTL DEF DraftSpec

-----------------------------------------------------------------------------
(* SystemOne: functions defined by recursion over numbers. *)
Steps(n, S, step) == \A k \in 1 .. n, x \in S : step[<<k, x>>] \in S
Follows(f, n, S, base, step) ==
    f \in [0 .. n -> S] /\ f[0] = base /\ \A k \in 1 .. n : f[k] = step[<<k, f[k - 1]>>]

LEMMA Recursion ==
    ASSUME NEW n \in Nat, NEW S, NEW base \in S, NEW step, Steps(n, S, step)
    PROVE  \E f : Follows(f, n, S, base, step)
<1> DEFINE Upto(m, f) == f[0] = base /\ \A k \in 1 .. m : f[k] = step[<<k, f[k - 1]>>]
           Fine(m) == \E f \in [0 .. m -> S] : Upto(m, f)
           D == {m \in Nat : m <= n => Fine(m)}
<1>1. Fine(0)
  <2>1. [k \in 0 .. 0 |-> base] \in [0 .. 0 -> S] /\ Upto(0, [k \in 0 .. 0 |-> base])
    OBVIOUS
  <2> QED
    BY <2>1
<1>2. ASSUME NEW m \in Nat, Fine(m), m + 1 <= n PROVE Fine(m + 1)
  <2>1. PICK f \in [0 .. m -> S] : Upto(m, f)
    BY <1>2
  <2> DEFINE g == [k \in 0 .. m + 1 |-> IF k = m + 1 THEN step[<<m + 1, f[m]>>] ELSE f[k]]
  <2>2. f[m] \in S /\ step[<<m + 1, f[m]>>] \in S
    BY <1>2 DEF Steps
  <2>3. g \in [0 .. m + 1 -> S]
    BY <2>2
  <2>4. \A k \in 0 .. m : g[k] = f[k]
    OBVIOUS
  <2>5. g[m + 1] = step[<<m + 1, g[m]>>]
    <3>1. g[m] = f[m]
      BY <2>4
    <3>2. g[m + 1] = step[<<m + 1, f[m]>>]
      OBVIOUS
    <3> QED
      BY <3>1, <3>2
  <2>6. Upto(m + 1, g)
    <3>1. g[0] = base
      BY <2>1, <2>4
    <3>2. ASSUME NEW k \in 1 .. m + 1 PROVE g[k] = step[<<k, g[k - 1]>>]
      <4>1. CASE k = m + 1
        <5>1. k - 1 = m
          BY <4>1
        <5> HIDE DEF g
        <5> QED
          BY <2>5, <4>1, <5>1
      <4>2. CASE k # m + 1
        <5>1. k \in 1 .. m /\ k \in 0 .. m /\ k - 1 \in 0 .. m
          BY <4>2
        <5> QED
          BY <5>1, <2>1, <2>4
      <4> QED
        BY <4>1, <4>2
    <3> QED
      BY <3>1, <3>2
  <2> QED
    BY <2>3, <2>6
<1>3. n \in D
  <2> HIDE DEF Fine
  <2>1. 0 \in D /\ \A m \in Nat : m \in D => m + 1 \in D
    BY <1>1, <1>2
  <2> HIDE DEF D
  <2> QED
    BY <2>1, SetInduction
<1> QED
  BY <1>3 DEF Follows

(* An id that is not used. *)
LEMMA FreshIdIs ==
    ASSUME NEW used, IsFiniteSet(used)
    PROVE  freshId(used) \in Nat \ {0} /\ freshId(used) \notin used
<1> DEFINE c == Cardinality(used)
           free == {n \in c + 1 .. 2 * c + 1 : n \notin used}
<1>1. c \in Nat
  BY FS_CardinalityType
<1> HIDE DEF c
<1>2. free # {} /\ free \in SUBSET Nat
  <2>1. IsFiniteSet(c + 1 .. 2 * c + 1) /\ Cardinality(c + 1 .. 2 * c + 1) = c + 1
    <3>1. c + 1 \in Int /\ 2 * c + 1 \in Int /\ ~(c + 1 > 2 * c + 1) /\ (2 * c + 1) - (c + 1) + 1 = c + 1
      BY <1>1
    <3> QED
      BY <3>1, FS_Interval
  <2>2. ~(c + 1 .. 2 * c + 1 \subseteq used)
    <3>1. SUFFICES ASSUME c + 1 .. 2 * c + 1 \subseteq used PROVE FALSE
      OBVIOUS
    <3>2. Cardinality(c + 1 .. 2 * c + 1) <= Cardinality(used)
      BY <3>1, FS_Subset
    <3> QED
      BY <1>1, <2>1, <3>2 DEF c
  <2> QED
    BY <1>1, <2>2
<1> DEFINE least == Min(free)
<1>3. least \in free /\ \A n \in free : least <= n
  BY <1>2, LeastIs
<1> HIDE DEF least
<1>4. /\ least \in c + 1 .. 2 * c + 1 /\ least \notin used
      /\ \A k \in c + 1 .. least - 1 : k \in used
  BY <1>1, <1>3
<1> DEFINE P(n) == n \notin used /\ \A k \in c + 1 .. n - 1 : k \in used
<1>5. freshId(used) \in c + 1 .. 2 * c + 1 /\ P(freshId(used))
  <2>1. freshId(used) = CHOOSE n \in c + 1 .. 2 * c + 1 : P(n)
    BY DEF freshId, c
  <2>2. \E n \in c + 1 .. 2 * c + 1 : P(n)
    BY <1>4
  <2> HIDE DEF P
  <2> QED
    BY <2>1, <2>2
<1> QED
  BY <1>1, <1>5

(* Fresh ids meet no used one and no other. *)
LEMMA FreshIdsAre ==
    ASSUME NEW used, IsFiniteSet(used), NEW n \in Nat
    PROVE  /\ FreshIds(used, n) \in [1 .. n -> Nat \ {0}]
           /\ \A i, j \in 1 .. n : FreshIds(used, n)[i] = FreshIds(used, n)[j] => i = j
           /\ \A i \in 1 .. n : FreshIds(used, n)[i] \notin used
<1> DEFINE S == Seq(Nat \ {0})
           Then(s) == Append(s, freshId(used \cup Range(s)))
           E(f) == [k \in 0 .. n |-> IF k = 0 THEN <<>> ELSE Then(f[k - 1])]
           ids == CHOOSE f : f = E(f)
<1>1. \A s \in S : IsFiniteSet(used \cup Range(s))
  <2>1. ASSUME NEW s \in S PROVE IsFiniteSet(Range(s))
    <3>1. s \in Surjection(DOMAIN s, Range(s)) /\ DOMAIN s = 1 .. Len(s) /\ Len(s) \in Nat
      BY DEF Range, Surjection
    <3>2. IsFiniteSet(1 .. Len(s))
      BY <3>1, FS_Interval
    <3> QED
      BY <3>1, <3>2, FS_Surjection
  <2> QED
    BY <2>1, FS_Union
<1>2. \A s \in S : freshId(used \cup Range(s)) \in Nat \ {0} /\ freshId(used \cup Range(s)) \notin used \cup Range(s)
  BY <1>1, FreshIdIs
<1>3. \A s \in S : Then(s) \in S
  BY <1>2
<1>4. \E f : f = E(f)
  <2> DEFINE step == [x \in (1 .. n) \X S |-> Then(x[2])]
  <2>1. Steps(n, S, step)
    <3> HIDE DEF Then, S
    <3> QED
      BY <1>3 DEF Steps
  <2>2. <<>> \in S
    OBVIOUS
  <2>3. PICK f : Follows(f, n, S, <<>>, step)
    <3> HIDE DEF S, step
    <3> QED
      BY <2>1, <2>2, Recursion
  <2>4. ASSUME NEW k \in 1 .. n PROVE f[k] = Then(f[k - 1])
    <3>1. k - 1 \in 0 .. n
      OBVIOUS
    <3>2. f[k - 1] \in S /\ <<k, f[k - 1]>> \in (1 .. n) \X S
      BY <2>3, <3>1 DEF Follows
    <3> HIDE DEF Then, S
    <3> QED
      BY <2>3, <3>2 DEF Follows
  <2>5. f = E(f)
    <3> HIDE DEF Then, S
    <3> QED
      BY <2>3, <2>4 DEF Follows
  <2> QED
    BY <2>5
<1>5. ids[0] = <<>> /\ \A k \in 1 .. n : ids[k] = Then(ids[k - 1])
  <2>1. ids = E(ids)
    BY <1>4
  <2> HIDE DEF ids, Then
  <2>2. \A f : f = E(f) => f[0] = <<>> /\ \A k \in 1 .. n : f[k] = Then(f[k - 1])
    OBVIOUS
  <2> HIDE DEF E
  <2> QED
    BY <2>1, <2>2
<1>6. FreshIds(used, n) = ids[n]
  BY DEF FreshIds
<1> HIDE DEF ids
<1> DEFINE Good(k, s) ==
        /\ s \in Seq(Nat \ {0}) /\ Len(s) = k
        /\ \A i, j \in 1 .. k : s[i] = s[j] => i = j
        /\ \A i \in 1 .. k : s[i] \notin used
    D == {k \in Nat : k <= n => Good(k, ids[k])}
<1>7. 0 \in D
  <2>1. Good(0, <<>>)
    OBVIOUS
  <2> HIDE DEF Good
  <2> QED
    BY <1>5, <2>1
<1>8. ASSUME NEW k \in Nat, k \in D PROVE k + 1 \in D
  <2> SUFFICES ASSUME k + 1 <= n PROVE Good(k + 1, ids[k + 1])
    OBVIOUS
  <2> DEFINE s == ids[k]
             new == freshId(used \cup Range(s))
  <2>1. Good(k, s)
    BY <1>8
  <2>2. ids[k + 1] = Append(s, new)
    <3>1. k + 1 \in 1 .. n /\ (k + 1) - 1 = k
      OBVIOUS
    <3> QED
      BY <1>5, <3>1
  <2>3. new \in Nat \ {0} /\ new \notin used /\ \A i \in 1 .. k : s[i] # new
    <3>1. s \in S /\ DOMAIN s = 1 .. k
      BY <2>1
    <3>2. new \in Nat \ {0} /\ new \notin used \cup Range(s)
      BY <1>2, <3>1
    <3>3. \A i \in 1 .. k : s[i] \in Range(s)
      BY <3>1 DEF Range
    <3> HIDE DEF s, new
    <3> QED
      BY <3>2, <3>3
  <2> HIDE DEF s, new
  <2>4. Append(s, new) \in Seq(Nat \ {0}) /\ Len(Append(s, new)) = k + 1
    BY <2>1, <2>3
  <2>5. \A i \in 1 .. k + 1 : Append(s, new)[i] = IF i = k + 1 THEN new ELSE s[i]
    BY <2>1, <2>3
  <2>6. \A i \in 1 .. k + 1 : i = k + 1 \/ i \in 1 .. k
    OBVIOUS
  <2>7. \A i, j \in 1 .. k + 1 : Append(s, new)[i] = Append(s, new)[j] => i = j
    BY <2>1, <2>3, <2>5, <2>6
  <2>8. \A i \in 1 .. k + 1 : Append(s, new)[i] \notin used
    BY <2>1, <2>3, <2>5, <2>6
  <2> QED
    BY <2>2, <2>4, <2>7, <2>8
<1>9. n \in D
  <2> HIDE DEF D
  <2> QED
    BY <1>7, <1>8, SetInduction
<1>10. Good(n, ids[n])
  BY <1>9
<1>11. ids[n] \in [1 .. n -> Nat \ {0}]
  BY <1>10, LenProperties
<1> QED
  BY <1>6, <1>10, <1>11

(* The requests that are kept. *)
LEMMA KeptAre ==
    ASSUME NEW R, NEW requests \in Seq(R), NEW bound
    PROVE  /\ Kept(requests, bound) \in Seq(R)
           /\ Range(Kept(requests, bound)) = {r \in Range(requests) : r.id \in bound}
           /\ (\A i, j \in 1 .. Len(requests) : requests[i].id = requests[j].id => i = j) =>
                \A i, j \in 1 .. Len(Kept(requests, bound)) :
                    Kept(requests, bound)[i].id = Kept(requests, bound)[j].id => i = j
<1> DEFINE n == Len(requests)
           S == Seq(R)
           Then(k, s) == IF requests[k].id \in bound THEN Append(s, requests[k]) ELSE s
           E(f) == [k \in 0 .. n |-> IF k = 0 THEN <<>> ELSE Then(k, f[k - 1])]
           kept == CHOOSE f : f = E(f)
<1>1. n \in Nat /\ \A k \in 1 .. n : requests[k] \in R
  OBVIOUS
<1> HIDE DEF n
<1>2. \A k \in 1 .. n, s \in S : Then(k, s) \in S
  BY <1>1
<1>3. \E f : f = E(f)
  <2> DEFINE step == [x \in (1 .. n) \X S |-> Then(x[1], x[2])]
  <2>1. Steps(n, S, step)
    <3> HIDE DEF Then, S
    <3> QED
      BY <1>2 DEF Steps
  <2>2. <<>> \in S
    OBVIOUS
  <2>3. PICK f : Follows(f, n, S, <<>>, step)
    <3> HIDE DEF S, step
    <3> QED
      BY <1>1, <2>1, <2>2, Recursion
  <2>4. ASSUME NEW k \in 1 .. n PROVE f[k] = Then(k, f[k - 1])
    <3>1. k - 1 \in 0 .. n
      BY <1>1
    <3>2. f[k - 1] \in S /\ <<k, f[k - 1]>> \in (1 .. n) \X S
      BY <2>3, <3>1 DEF Follows
    <3> HIDE DEF Then, S
    <3> QED
      BY <2>3, <3>2 DEF Follows
  <2>5. f = E(f)
    <3> HIDE DEF Then, S
    <3> QED
      BY <2>3, <2>4, <1>1 DEF Follows
  <2> QED
    BY <2>5
<1>4. kept[0] = <<>> /\ \A k \in 1 .. n : kept[k] = Then(k, kept[k - 1])
  <2>1. kept = E(kept)
    BY <1>3
  <2> HIDE DEF kept, Then
  <2>2. \A f : f = E(f) => f[0] = <<>> /\ \A k \in 1 .. n : f[k] = Then(k, f[k - 1])
    BY <1>1
  <2> HIDE DEF E
  <2> QED
    BY <2>1, <2>2
<1>5. Kept(requests, bound) = kept[n]
  BY DEF Kept, n
<1> HIDE DEF kept
<1> DEFINE Distinct == \A i, j \in 1 .. n : requests[i].id = requests[j].id => i = j
           Good(k, s) ==
        /\ s \in S
        /\ \A i \in 1 .. Len(s) : s[i].id \in bound /\ \E j \in 1 .. k : s[i] = requests[j]
        /\ \A j \in 1 .. k : requests[j].id \in bound => \E i \in 1 .. Len(s) : s[i] = requests[j]
        /\ Distinct => \A i, j \in 1 .. Len(s) : s[i].id = s[j].id => i = j
    D == {k \in Nat : k <= n => Good(k, kept[k])}
<1>6. 0 \in D
  <2>1. Good(0, <<>>)
    OBVIOUS
  <2> HIDE DEF Good
  <2> QED
    BY <1>4, <2>1
<1>7. ASSUME NEW k \in Nat, k \in D PROVE k + 1 \in D
  <2> SUFFICES ASSUME k + 1 <= n PROVE Good(k + 1, kept[k + 1])
    OBVIOUS
  <2> DEFINE s == kept[k]
             t == kept[k + 1]
             r == requests[k + 1]
  <2> SUFFICES Good(k + 1, t)
    OBVIOUS
  <2>1. Good(k, s)
    BY <1>7, <1>1
  <2>2. t = IF r.id \in bound THEN Append(s, r) ELSE s
    <3>1. k + 1 \in 1 .. n /\ (k + 1) - 1 = k
      BY <1>1
    <3> QED
      BY <1>4, <3>1
  <2>3. k + 1 \in 1 .. n /\ r \in R
    BY <1>1
  <2>4. s \in Seq(R)
    BY <2>1
  <2>5. CASE r.id \notin bound
    <3>1. t = s
      BY <2>2, <2>5
    <3>2. \A j \in 1 .. k + 1 : j \in 1 .. k \/ j = k + 1
      OBVIOUS
    <3>3. \A j \in 1 .. k : j \in 1 .. k + 1
      OBVIOUS
    <3> HIDE DEF s, t
    <3> QED
      BY <2>1, <3>1, <3>2, <3>3, <2>5
  <2>6. CASE r.id \in bound
    <3>1. t = Append(s, r)
      BY <2>2, <2>6
    <3> HIDE DEF t
    <3>2. /\ t \in S /\ Len(t) = Len(s) + 1 /\ t[Len(s) + 1] = r /\ Len(s) \in Nat
          /\ \A i \in 1 .. Len(s) : t[i] = s[i]
      BY <2>3, <2>4, <3>1
    <3> HIDE DEF s
    <3>3. \A i \in 1 .. Len(t) : i \in 1 .. Len(s) \/ i = Len(s) + 1
      BY <3>2
    <3>4. ASSUME NEW i \in 1 .. Len(t)
          PROVE  t[i].id \in bound /\ \E j \in 1 .. k + 1 : t[i] = requests[j]
      <4>1. CASE i = Len(s) + 1
        BY <4>1, <3>2, <2>6
      <4>2. CASE i \in 1 .. Len(s)
        <5>1. PICK j \in 1 .. k : s[i] = requests[j]
          BY <2>1, <4>2
        <5> QED
          BY <5>1, <4>2, <3>2, <2>1
      <4> QED
        BY <3>3, <4>1, <4>2
    <3>5. ASSUME NEW j \in 1 .. k + 1, requests[j].id \in bound
          PROVE  \E i \in 1 .. Len(t) : t[i] = requests[j]
      <4>1. CASE j = k + 1
        BY <4>1, <3>2
      <4>2. CASE j # k + 1
        <5>1. j \in 1 .. k
          BY <4>2
        <5>2. PICK i \in 1 .. Len(s) : s[i] = requests[j]
          BY <2>1, <5>1, <3>5
        <5> QED
          BY <5>2, <3>2
      <4> QED
        BY <4>1, <4>2
    <3>6. ASSUME Distinct, NEW i \in 1 .. Len(t), NEW j \in 1 .. Len(t), t[i].id = t[j].id
          PROVE  i = j
      <4>1. \A l \in 1 .. Len(s) : s[l].id # r.id
        <5> SUFFICES ASSUME NEW l \in 1 .. Len(s), s[l].id = r.id PROVE FALSE
          OBVIOUS
        <5>1. PICK m \in 1 .. k : s[l] = requests[m]
          BY <2>1
        <5>2. m \in 1 .. n /\ m # k + 1
          BY <2>3, <1>1
        <5> QED
          BY <5>1, <5>2, <3>6, <2>3
      <4>2. CASE i \in 1 .. Len(s) /\ j \in 1 .. Len(s)
        BY <4>2, <3>6, <3>2, <2>1
      <4>3. CASE i = Len(s) + 1 /\ j \in 1 .. Len(s)
        BY <4>3, <4>1, <3>6, <3>2
      <4>4. CASE j = Len(s) + 1 /\ i \in 1 .. Len(s)
        BY <4>4, <4>1, <3>6, <3>2
      <4> QED
        BY <3>3, <4>2, <4>3, <4>4
    <3> HIDE DEF Distinct
    <3> QED
      BY <3>2, <3>4, <3>5, <3>6
  <2> QED
    BY <2>5, <2>6
<1>8. Good(n, kept[n])
  <2>1. n \in D
    <3> HIDE DEF D
    <3> QED
      BY <1>1, <1>6, <1>7, SetInduction
  <2> QED
    BY <1>1, <2>1
<1> DEFINE s == kept[n]
<1>9. Range(s) = {r \in Range(requests) : r.id \in bound}
  <2>1. s \in Seq(R) /\ DOMAIN s = 1 .. Len(s) /\ DOMAIN requests = 1 .. n
    BY <1>8 DEF n
  <2>2. Good(n, s)
    BY <1>8
  <2> HIDE DEF s, n
  <2>3. ASSUME NEW i \in 1 .. Len(s) PROVE s[i] \in Range(requests) /\ s[i].id \in bound
    BY <2>1, <2>2 DEF Range
  <2>4. ASSUME NEW r \in Range(requests), r.id \in bound PROVE r \in Range(s)
    <3>1. PICK j \in 1 .. n : r = requests[j]
      BY <2>1 DEF Range
    <3>2. PICK i \in 1 .. Len(s) : s[i] = requests[j]
      BY <2>2, <2>4, <3>1
    <3> QED
      BY <2>1, <3>1, <3>2 DEF Range
  <2>5. \A r \in Range(s) : \E i \in 1 .. Len(s) : r = s[i]
    BY <2>1 DEF Range
  <2> QED
    BY <2>3, <2>4, <2>5
<1> QED
  BY <1>5, <1>8, <1>9 DEF n
(* What is left of a list when its oldest elements leave. *)
LEMMA NewestIs ==
    ASSUME NEW S, NEW s \in Seq(S), NEW n \in Nat
    PROVE  /\ Newest(s, n) \in Seq(S)
           /\ Len(Newest(s, n)) = IF Len(s) > n THEN n ELSE Len(s)
           /\ \A i \in 1 .. Len(Newest(s, n)) :
                /\ i + (Len(s) - Len(Newest(s, n))) \in 1 .. Len(s)
                /\ Newest(s, n)[i] = s[i + (Len(s) - Len(Newest(s, n)))]
<1>1. Len(s) \in Nat
  OBVIOUS
<1>2. CASE Len(s) > n
  <2> DEFINE m == Len(s) - n + 1
  <2>1. m \in 1 .. Len(s) + 1
    BY <1>1, <1>2
  <2>2. Newest(s, n) = SubSeq(s, m, Len(s))
    BY <1>2 DEF Newest
  <2>3. /\ Newest(s, n) \in Seq(S) /\ Len(Newest(s, n)) = n
        /\ \A i \in 1 .. n : Newest(s, n)[i] = s[m + i - 1]
    BY <1>1, <2>1, <2>2
  <2> QED
    BY <1>1, <1>2, <2>3
<1>3. CASE ~(Len(s) > n)
  <2>1. Newest(s, n) = s
    BY <1>3 DEF Newest
  <2> QED
    BY <1>1, <1>3, <2>1
<1> QED
  BY <1>2, <1>3

LEMMA JoinIs ==
    ASSUME NEW S, NEW s \in Seq(S), NEW t \in Seq(S), NEW m \in Nat, NEW n \in Nat, Len(s) = m, Len(t) = n
    PROVE  /\ s \o t \in Seq(S) /\ Len(s \o t) = m + n
           /\ \A i \in 1 .. m + n : (s \o t)[i] = IF i <= m THEN s[i] ELSE t[i - m]
  OBVIOUS

LEMMA ListIs ==
    ASSUME NEW S, NEW n \in Nat, NEW s \in [1 .. n -> S]
    PROVE  s \in Seq(S) /\ Len(s) = n
  OBVIOUS

(* A plan that is typed, uses each id once, binds nothing but its requests and makes
   no request for nothing. *)
Draft(plan) ==
    /\ plan \in Plans /\ ~plan.composed /\ Len(plan.panels) \in 1 .. MaxPanels
    /\ \A i, j \in 1 .. Len(plan.panels) : plan.panels[i].node = plan.panels[j].node => i = j
    /\ \A i, j \in 1 .. Len(plan.requests) : plan.requests[i].id = plan.requests[j].id => i = j
    /\ Bound(plan.panels) \subseteq RequestIds(plan) \cup {Nothing}
    /\ RequestIds(plan) \subseteq Bound(plan.panels)

(* The panels that leave when a draft joins a plan. *)
Leaving(base, draft) ==
    IF Len(base.panels) + Len(draft.panels) > MaxPanels
    THEN Len(base.panels) + Len(draft.panels) - MaxPanels ELSE 0

(* What a joined panel shows is what it showed before. *)
LEMMA AppendIs ==
    ASSUME NEW base, Draft(base), NEW draft, Draft(draft)
    PROVE  LET plan == appendDraft(base, draft)
               gone == Leaving(base, draft)
           IN  /\ Draft(plan)
               /\ Len(plan.panels) = Len(base.panels) + Len(draft.panels) - gone
               /\ \A i \in 1 .. Len(plan.panels) :
                    Shown(plan)[i] = IF i + gone <= Len(base.panels) THEN Shown(base)[i + gone]
                                     ELSE Shown(draft)[i + gone - Len(base.panels)]
<1> DEFINE Req == [id : Nat \ {0}, cap : Caps, ask : Nat \X Nat]
           Pan == [node : Nat \ {0}, req : Int]
           nb == Len(base.panels)
           nd == Len(draft.panels)
           mb == Len(base.requests)
           md == Len(draft.requests)
           rids == FreshIds(RequestIds(base), md)
           nids == FreshIds(NodeIds(base), nd)
           Rebound(req) ==
               IF req \in RequestIds(draft)
               THEN rids[CHOOSE k \in DOMAIN draft.requests : draft.requests[k].id = req]
               ELSE req
           moved == [i \in 1 .. nd |-> [node |-> nids[i], req |-> Rebound(draft.panels[i].req)]]
           renamed == [i \in 1 .. md |-> [draft.requests[i] EXCEPT !.id = rids[i]]]
           panels == Newest(base.panels \o moved, MaxPanels)
           requests == Kept(base.requests \o renamed, Bound(panels))
           plan == appendDraft(base, draft)
           gone == Leaving(base, draft)
<1>1. plan = [requests |-> requests, panels |-> panels, composed |-> FALSE]
  BY DEF appendDraft
<1>2. /\ base.requests \in Seq(Req) /\ draft.requests \in Seq(Req)
      /\ base.panels \in Seq(Pan) /\ draft.panels \in Seq(Pan)
      /\ nb \in Nat \ {0} /\ nd \in Nat \ {0} /\ mb \in Nat /\ md \in Nat
      /\ DOMAIN base.requests = 1 .. mb /\ DOMAIN draft.requests = 1 .. md
      /\ DOMAIN base.panels = 1 .. nb /\ DOMAIN draft.panels = 1 .. nd
  <2>1. base \in Plans /\ draft \in Plans /\ Len(base.panels) # 0 /\ Len(draft.panels) # 0
    BY DEF Draft
  <2>2. /\ base.requests \in Seq(Req) /\ draft.requests \in Seq(Req)
        /\ base.panels \in Seq(Pan) /\ draft.panels \in Seq(Pan)
    BY <2>1 DEF Plans
  <2>3. \A S : \A s \in Seq(S) : Len(s) \in Nat /\ DOMAIN s = 1 .. Len(s)
    OBVIOUS
  <2> HIDE DEF Req, Pan
  <2> QED
    BY <2>1, <2>2, <2>3
<1>3. /\ \A i \in 1 .. mb : base.requests[i] \in Req
      /\ \A i \in 1 .. md : draft.requests[i] \in Req
      /\ \A i \in 1 .. nb : base.panels[i] \in Pan
      /\ \A i \in 1 .. nd : draft.panels[i] \in Pan
  <2> HIDE DEF Req, Pan
  <2> QED
    BY <1>2
<1>4. /\ RequestIds(base) = {base.requests[i].id : i \in 1 .. mb}
      /\ RequestIds(draft) = {draft.requests[i].id : i \in 1 .. md}
      /\ NodeIds(base) = {base.panels[i].node : i \in 1 .. nb}
      /\ Bound(base.panels) = {base.panels[i].req : i \in 1 .. nb}
      /\ Bound(draft.panels) = {draft.panels[i].req : i \in 1 .. nd}
  <2> HIDE DEF nb, nd, mb, md
  <2> QED
    BY <1>2 DEF RequestIds, NodeIds, Bound, Requests, Range
<1>5. IsFiniteSet(RequestIds(base)) /\ IsFiniteSet(NodeIds(base))
  <2> DEFINE f == [i \in 1 .. mb |-> base.requests[i].id]
             g == [i \in 1 .. nb |-> base.panels[i].node]
  <2>1. f \in Surjection(1 .. mb, RequestIds(base))
    <3> HIDE DEF mb
    <3> QED
      BY <1>4 DEF Surjection
  <2>2. g \in Surjection(1 .. nb, NodeIds(base))
    <3> HIDE DEF nb
    <3> QED
      BY <1>4 DEF Surjection
  <2>3. IsFiniteSet(1 .. mb) /\ IsFiniteSet(1 .. nb)
    <3>1. mb \in Int /\ nb \in Int /\ 1 \in Int
      BY <1>2
    <3> HIDE DEF mb, nb
    <3> QED
      BY <3>1, FS_Interval
  <2> HIDE DEF f, g
  <2> QED
    BY <2>1, <2>2, <2>3, FS_Surjection
<1>6. /\ rids \in [1 .. md -> Nat \ {0}]
      /\ \A i, j \in 1 .. md : rids[i] = rids[j] => i = j
      /\ \A i \in 1 .. md : rids[i] \notin RequestIds(base)
      /\ nids \in [1 .. nd -> Nat \ {0}]
      /\ \A i, j \in 1 .. nd : nids[i] = nids[j] => i = j
      /\ \A i \in 1 .. nd : nids[i] \notin NodeIds(base)
  BY <1>2, <1>5, FreshIdsAre
<1> HIDE DEF rids, nids
<1>7. /\ \A i, j \in 1 .. nb : base.panels[i].node = base.panels[j].node => i = j
      /\ \A i, j \in 1 .. mb : base.requests[i].id = base.requests[j].id => i = j
      /\ \A i, j \in 1 .. md : draft.requests[i].id = draft.requests[j].id => i = j
      /\ \A i \in 1 .. nb : base.panels[i].req # Nothing => \E k \in 1 .. mb : base.panels[i].req = base.requests[k].id
      /\ \A i \in 1 .. nd : draft.panels[i].req # Nothing => \E k \in 1 .. md : draft.panels[i].req = draft.requests[k].id
      /\ \A i \in 1 .. mb : base.requests[i].id # Nothing
      /\ \A i \in 1 .. md : draft.requests[i].id # Nothing
  <2>1. \A i \in 1 .. nb : base.panels[i].req \in RequestIds(base) \cup {Nothing}
    <3>1. Bound(base.panels) \subseteq RequestIds(base) \cup {Nothing}
      BY DEF Draft
    <3> HIDE DEF nb
    <3> QED
      BY <3>1, <1>4
  <2>2. \A i \in 1 .. nd : draft.panels[i].req \in RequestIds(draft) \cup {Nothing}
    <3>1. Bound(draft.panels) \subseteq RequestIds(draft) \cup {Nothing}
      BY DEF Draft
    <3> HIDE DEF nd
    <3> QED
      BY <3>1, <1>4
  <2>3. /\ \A i \in 1 .. mb : base.requests[i].id \in Nat
        /\ \A i \in 1 .. md : draft.requests[i].id \in Nat
    BY <1>3
  <2>4. /\ \A i \in 1 .. mb : base.requests[i].id # Nothing
        /\ \A i \in 1 .. md : draft.requests[i].id # Nothing
    BY <2>3 DEF Nothing
  <2> HIDE DEF nb, nd, mb, md
  <2> QED
    BY <1>4, <2>1, <2>2, <2>4 DEF Draft, nb, nd, mb, md
<1> HIDE DEF nb, nd, mb, md, Req, Pan
<1>8. /\ \A k \in 1 .. md : Rebound(draft.requests[k].id) = rids[k]
      /\ Rebound(Nothing) = Nothing
  <2>1. ASSUME NEW k \in 1 .. md PROVE Rebound(draft.requests[k].id) = rids[k]
    <3> DEFINE j == CHOOSE l \in DOMAIN draft.requests : draft.requests[l].id = draft.requests[k].id
    <3>1. j \in 1 .. md /\ draft.requests[j].id = draft.requests[k].id
      BY <1>2
    <3>2. j = k
      BY <3>1, <1>7
    <3> HIDE DEF j
    <3>3. draft.requests[k].id \in RequestIds(draft)
      BY <1>4
    <3> QED
      BY <3>2, <3>3 DEF j
  <2>2. Nothing \notin RequestIds(draft)
    BY <1>4, <1>7
  <2> QED
    BY <2>1, <2>2
<1>9. \A i \in 1 .. nd : Rebound(draft.panels[i].req) \in Int
  <2> SUFFICES ASSUME NEW i \in 1 .. nd PROVE Rebound(draft.panels[i].req) \in Int
    OBVIOUS
  <2>1. CASE draft.panels[i].req = Nothing
    BY <2>1, <1>8 DEF Nothing
  <2>2. CASE draft.panels[i].req # Nothing
    <3>1. PICK k \in 1 .. md : draft.panels[i].req = draft.requests[k].id
      BY <2>2, <1>7
    <3>2. Rebound(draft.panels[i].req) = rids[k]
      BY <3>1, <1>8
    <3>3. rids[k] \in Nat
      BY <1>6
    <3> HIDE DEF Rebound
    <3> QED
      BY <3>2, <3>3
  <2> QED
    BY <2>1, <2>2
<1> HIDE DEF Rebound
<1>10. /\ moved \in Seq(Pan) /\ Len(moved) = nd
       /\ \A i \in 1 .. nd : moved[i] = [node |-> nids[i], req |-> Rebound(draft.panels[i].req)]
  <2>1. \A i \in 1 .. nd : [node |-> nids[i], req |-> Rebound(draft.panels[i].req)] \in Pan
    BY <1>6, <1>9 DEF Pan
  <2> QED
    BY <1>2, <2>1
<1>11. /\ renamed \in Seq(Req) /\ Len(renamed) = md
       /\ \A i \in 1 .. md : /\ renamed[i].id = rids[i]
                             /\ renamed[i].cap = draft.requests[i].cap
                             /\ renamed[i].ask = draft.requests[i].ask
  <2>1. ASSUME NEW i \in 1 .. md
        PROVE  /\ [draft.requests[i] EXCEPT !.id = rids[i]] \in Req
               /\ [draft.requests[i] EXCEPT !.id = rids[i]].id = rids[i]
               /\ [draft.requests[i] EXCEPT !.id = rids[i]].cap = draft.requests[i].cap
               /\ [draft.requests[i] EXCEPT !.id = rids[i]].ask = draft.requests[i].ask
    <3>1. draft.requests[i] \in Req /\ rids[i] \in Nat \ {0}
      BY <1>3, <1>6
    <3> QED
      BY <3>1 DEF Req
  <2>2. renamed \in [1 .. md -> Req]
    BY <2>1
  <2>3. /\ \A i \in 1 .. md : renamed[i] = [draft.requests[i] EXCEPT !.id = rids[i]]
    OBVIOUS
  <2> HIDE DEF renamed
  <2> QED
    BY <1>2, <2>1, <2>2, <2>3, ListIs
<1> HIDE DEF moved, renamed
<1> DEFINE all == base.panels \o moved
           made == base.requests \o renamed
<1>12. /\ all \in Seq(Pan) /\ Len(all) = nb + nd
       /\ \A i \in 1 .. nb + nd : all[i] = IF i <= nb THEN base.panels[i] ELSE moved[i - nb]
  <2> DEFINE s == base.panels
  <2>1. s \in Seq(Pan) /\ moved \in Seq(Pan) /\ nb \in Nat /\ nd \in Nat /\ Len(s) = nb /\ Len(moved) = nd
    BY <1>2, <1>10 DEF nb
  <2>2. all = s \o moved
    BY DEF all
  <2> HIDE DEF s, all
  <2>3. /\ s \o moved \in Seq(Pan) /\ Len(s \o moved) = nb + nd
        /\ \A i \in 1 .. nb + nd : (s \o moved)[i] = IF i <= nb THEN s[i] ELSE moved[i - nb]
    BY <2>1, JoinIs
  <2> QED
    BY <2>2, <2>3 DEF s
<1>13. /\ made \in Seq(Req) /\ Len(made) = mb + md
       /\ \A i \in 1 .. mb + md : made[i] = IF i <= mb THEN base.requests[i] ELSE renamed[i - mb]
  <2> DEFINE s == base.requests
  <2>1. s \in Seq(Req) /\ renamed \in Seq(Req) /\ mb \in Nat /\ md \in Nat /\ Len(s) = mb /\ Len(renamed) = md
    BY <1>2, <1>11 DEF mb
  <2>2. made = s \o renamed
    BY DEF made
  <2> HIDE DEF s, made
  <2>3. /\ s \o renamed \in Seq(Req) /\ Len(s \o renamed) = mb + md
        /\ \A i \in 1 .. mb + md : (s \o renamed)[i] = IF i <= mb THEN s[i] ELSE renamed[i - mb]
    BY <2>1, JoinIs
  <2> QED
    BY <2>2, <2>3 DEF s
<1> HIDE DEF all, made
<1>14. /\ panels \in Seq(Pan) /\ gone \in Nat /\ Len(panels) = nb + nd - gone
       /\ Len(panels) \in 1 .. MaxPanels
       /\ \A i \in 1 .. Len(panels) : i + gone \in 1 .. nb + nd /\ panels[i] = all[i + gone]
  <2>1. MaxPanels \in Nat \ {0}
    BY SystemOneAssumption
  <2>2. panels = Newest(all, MaxPanels)
    BY DEF all
  <2>3. gone = IF nb + nd > MaxPanels THEN nb + nd - MaxPanels ELSE 0
    BY Zenon DEF Leaving, gone, nb, nd
  <2> HIDE DEF panels, gone
  <2>4. /\ Newest(all, MaxPanels) \in Seq(Pan)
        /\ Len(Newest(all, MaxPanels)) = IF Len(all) > MaxPanels THEN MaxPanels ELSE Len(all)
        /\ \A i \in 1 .. Len(Newest(all, MaxPanels)) :
             /\ i + (Len(all) - Len(Newest(all, MaxPanels))) \in 1 .. Len(all)
             /\ Newest(all, MaxPanels)[i] = all[i + (Len(all) - Len(Newest(all, MaxPanels)))]
    BY <2>1, <1>12, NewestIs
  <2>5. /\ Len(panels) = nb + nd - gone /\ gone \in Nat /\ Len(panels) \in 1 .. MaxPanels
        /\ (nb + nd) - Len(panels) = gone
    BY <2>1, <2>2, <2>3, <2>4, <1>2, <1>12
  <2> QED
    BY <2>2, <2>4, <2>5, <1>12
<1> HIDE DEF panels, gone
<1>15. \A i, j \in 1 .. nb + nd : all[i].node = all[j].node => i = j
  <2> SUFFICES ASSUME NEW i \in 1 .. nb + nd, NEW j \in 1 .. nb + nd, all[i].node = all[j].node
               PROVE  i = j
    OBVIOUS
  <2>1. \A k \in 1 .. nb + nd : k <= nb => k \in 1 .. nb /\ all[k].node = base.panels[k].node /\ all[k].node \in NodeIds(base)
    <3> QED
      BY <1>2, <1>4, <1>12
  <2>2. \A k \in 1 .. nb + nd : ~(k <= nb) => k - nb \in 1 .. nd /\ all[k].node = nids[k - nb]
    <3> SUFFICES ASSUME NEW k \in 1 .. nb + nd, ~(k <= nb)
                 PROVE  k - nb \in 1 .. nd /\ all[k].node = nids[k - nb]
      OBVIOUS
    <3>1. k - nb \in 1 .. nd /\ all[k] = moved[k - nb]
      BY <1>2, <1>12
    <3> QED
      BY <3>1, <1>10
  <2>3. CASE i <= nb /\ j <= nb
    BY <2>1, <2>3, <1>7
  <2>4. CASE i <= nb /\ ~(j <= nb)
    BY <2>1, <2>2, <2>4, <1>6
  <2>5. CASE ~(i <= nb) /\ j <= nb
    BY <2>1, <2>2, <2>5, <1>6
  <2>6. CASE ~(i <= nb) /\ ~(j <= nb)
    <3>1. i - nb = j - nb
      BY <2>2, <2>6, <1>6
    <3> QED
      BY <3>1, <1>2
  <2> QED
    BY <2>3, <2>4, <2>5, <2>6
<1>16. /\ \A k \in 1 .. mb + md : IF k <= mb THEN k \in 1 .. mb /\ made[k].id = base.requests[k].id /\ made[k].id \in RequestIds(base)
                                 ELSE k - mb \in 1 .. md /\ made[k].id = rids[k - mb]
       /\ \A k \in 1 .. mb : k \in 1 .. mb + md /\ made[k] = base.requests[k]
       /\ \A k \in 1 .. md : mb + k \in 1 .. mb + md /\ made[mb + k] = renamed[k]
  <2>1. \A k \in 1 .. mb + md : k <= mb => k \in 1 .. mb /\ made[k].id = base.requests[k].id /\ made[k].id \in RequestIds(base)
    <3> QED
      BY <1>2, <1>4, <1>13
  <2>2. \A k \in 1 .. mb + md : ~(k <= mb) => k - mb \in 1 .. md /\ made[k].id = rids[k - mb]
    <3> SUFFICES ASSUME NEW k \in 1 .. mb + md, ~(k <= mb)
                 PROVE  k - mb \in 1 .. md /\ made[k].id = rids[k - mb]
      OBVIOUS
    <3>1. k - mb \in 1 .. md /\ made[k] = renamed[k - mb]
      BY <1>2, <1>13
    <3> QED
      BY <3>1, <1>11
  <2>3. \A k \in 1 .. mb : k \in 1 .. mb + md /\ made[k] = base.requests[k]
    BY <1>2, <1>13
  <2>4. ASSUME NEW k \in 1 .. md PROVE mb + k \in 1 .. mb + md /\ made[mb + k] = renamed[k]
    <3>1. mb + k \in 1 .. mb + md /\ ~(mb + k <= mb) /\ (mb + k) - mb = k
      BY <1>2
    <3> QED
      BY <3>1, <1>13
  <2> QED
    BY <2>1, <2>2, <2>3, <2>4
<1>17. \A i, j \in 1 .. mb + md : made[i].id = made[j].id => i = j
  <2> SUFFICES ASSUME NEW i \in 1 .. mb + md, NEW j \in 1 .. mb + md, made[i].id = made[j].id
               PROVE  i = j
    OBVIOUS
  <2>3. CASE i <= mb /\ j <= mb
    BY <1>16, <2>3, <1>7
  <2>4. CASE i <= mb /\ ~(j <= mb)
    BY <1>16, <2>4, <1>6
  <2>5. CASE ~(i <= mb) /\ j <= mb
    BY <1>16, <2>5, <1>6
  <2>6. CASE ~(i <= mb) /\ ~(j <= mb)
    <3>1. i - mb = j - mb
      BY <1>16, <2>6, <1>6
    <3> QED
      BY <3>1, <1>2
  <2> QED
    BY <2>3, <2>4, <2>5, <2>6
<1> HIDE DEF requests, plan
<1>18. /\ requests \in Seq(Req)
       /\ Range(requests) = {r \in Range(made) : r.id \in Bound(panels)}
       /\ \A i, j \in 1 .. Len(requests) : requests[i].id = requests[j].id => i = j
  <2>1. requests = Kept(made, Bound(panels))
    BY DEF requests, made
  <2>2. \A i, j \in 1 .. Len(made) : made[i].id = made[j].id => i = j
    BY <1>13, <1>17
  <2> QED
    BY <2>1, <2>2, <1>13, KeptAre
<1>19. /\ Range(made) = {base.requests[k] : k \in 1 .. mb} \cup {renamed[k] : k \in 1 .. md}
       /\ \A r \in Range(made) : r \in Req
  <2>1. DOMAIN made = 1 .. mb + md
    BY <1>13
  <2>2. ASSUME NEW k \in 1 .. mb + md
        PROVE  made[k] \in {base.requests[l] : l \in 1 .. mb} \cup {renamed[l] : l \in 1 .. md}
    <3>1. k - mb \in 1 .. md \/ k \in 1 .. mb
      BY <1>16
    <3>2. CASE k <= mb
      BY <3>2, <1>16, <1>13
    <3>3. CASE ~(k <= mb)
      BY <3>3, <1>16, <1>13
    <3> QED
      BY <3>2, <3>3
  <2>3. \A k \in 1 .. mb + md : made[k] \in Req
    BY <1>13
  <2> QED
    BY <2>1, <2>2, <2>3, <1>16 DEF Range
<1>20. /\ Requests(plan) = {r \in Range(made) : r.id \in Bound(panels)}
       /\ RequestIds(plan) = {r.id : r \in {q \in Range(made) : q.id \in Bound(panels)}}
       /\ plan.panels = panels /\ plan.requests = requests /\ ~plan.composed
  BY <1>1, <1>18 DEF Requests, RequestIds
<1>21. Bound(panels) = {panels[i].req : i \in 1 .. Len(panels)}
  <2>1. DOMAIN panels = 1 .. Len(panels)
    BY <1>14
  <2> QED
    BY <2>1 DEF Bound, Range
(* What each panel binds, before and after. *)
<1>22. ASSUME NEW i \in 1 .. Len(panels), i + gone <= nb
       PROVE  /\ i + gone \in 1 .. nb /\ panels[i] = base.panels[i + gone]
              /\ panels[i].req # Nothing => \E r \in Range(made) : r.id = panels[i].req
              /\ {r \in Range(made) : r.id = panels[i].req} = {r \in Requests(base) : r.id = base.panels[i + gone].req}
  <2>1. i + gone \in 1 .. nb /\ panels[i] = base.panels[i + gone]
    <3>1. i + gone \in 1 .. nb + nd /\ panels[i] = all[i + gone]
      BY <1>14
    <3>2. i \in Int /\ gone \in Int /\ nb \in Nat /\ nd \in Nat
      BY <1>14, <1>2
    <3>3. i + gone \in 1 .. nb
      BY <3>1, <3>2, <1>22
    <3>4. all[i + gone] = base.panels[i + gone]
      BY <3>1, <1>22, <1>12
    <3> QED
      BY <3>1, <3>3, <3>4
  <2>2. Requests(base) = {base.requests[k] : k \in 1 .. mb}
    BY <1>2 DEF Requests, Range
  <2>3. panels[i].req # Nothing => \E k \in 1 .. mb : panels[i].req = base.requests[k].id
    BY <2>1, <1>7
  <2>4. \A k \in 1 .. md : renamed[k].id # panels[i].req
    <3>1. \A k \in 1 .. md : renamed[k].id \notin RequestIds(base) /\ renamed[k].id # Nothing
      <4>1. \A k \in 1 .. md : rids[k] # Nothing
        <5>1. \A k \in 1 .. md : rids[k] \in Nat
          BY <1>6
        <5> QED
          BY <5>1 DEF Nothing
      <4> QED
        BY <4>1, <1>6, <1>11
    <3> QED
      BY <3>1, <2>3, <1>4
  <2> QED
    BY <2>1, <2>2, <2>3, <2>4, <1>19
<1>23. ASSUME NEW i \in 1 .. Len(panels), ~(i + gone <= nb)
       PROVE  LET j == i + gone - nb IN
              /\ j \in 1 .. nd
              /\ panels[i].req # Nothing => \E r \in Range(made) : r.id = panels[i].req
              /\ {<<r.cap, r.ask>> : r \in {q \in Range(made) : q.id = panels[i].req}} =
                    {<<r.cap, r.ask>> : r \in {q \in Requests(draft) : q.id = draft.panels[j].req}}
  <2> DEFINE j == i + gone - nb
  <2>1. j \in 1 .. nd /\ panels[i] = moved[j]
    <3>1. i + gone \in 1 .. nb + nd /\ panels[i] = all[i + gone]
      BY <1>14
    <3>2. i \in Int /\ gone \in Int /\ nb \in Nat /\ nd \in Nat
      BY <1>14, <1>2
    <3>3. i + gone - nb \in 1 .. nd
      BY <3>1, <3>2, <1>23
    <3>4. all[i + gone] = moved[i + gone - nb]
      <4> DEFINE k == i + gone
      <4>1. k \in 1 .. nb + nd /\ ~(k <= nb) /\ k = i + gone
        BY <3>1, <3>2, <1>23
      <4> HIDE DEF k
      <4>2. all[k] = moved[k - nb]
        BY <4>1, <1>12
      <4> QED
        BY <4>1, <4>2, <3>2
    <3> QED
      BY <3>1, <3>3, <3>4
  <2> HIDE DEF j
  <2>2. panels[i].req = Rebound(draft.panels[j].req)
    BY <2>1, <1>10
  <2>3. Requests(draft) = {draft.requests[k] : k \in 1 .. md}
    BY <1>2 DEF Requests, Range
  <2>4. CASE draft.panels[j].req = Nothing
    <3>1. panels[i].req = Nothing
      BY <2>2, <2>4, <1>8
    <3>2. \A r \in Range(made) : r.id # Nothing
      <4>1. \A r \in Range(made) : r.id \in Nat
        BY <1>19 DEF Req
      <4> QED
        BY <4>1 DEF Nothing
    <3>3. \A r \in Requests(draft) : r.id # Nothing
      BY <2>3, <1>7
    <3>4. /\ {q \in Range(made) : q.id = panels[i].req} = {}
          /\ {q \in Requests(draft) : q.id = draft.panels[j].req} = {}
      BY <3>1, <3>2, <3>3, <2>4
    <3> QED
      BY <3>1, <3>4, <2>1 DEF j
  <2>5. CASE draft.panels[j].req # Nothing
    <3>1. PICK k \in 1 .. md : draft.panels[j].req = draft.requests[k].id
      BY <2>5, <2>1, <1>7
    <3>2. panels[i].req = rids[k] /\ renamed[k].id = rids[k] /\ renamed[k] \in Range(made)
      BY <3>1, <2>2, <1>8, <1>11, <1>19
    <3>3. {q \in Requests(draft) : q.id = draft.panels[j].req} = {draft.requests[k]}
      BY <3>1, <2>3, <1>7
    <3>4. {q \in Range(made) : q.id = panels[i].req} = {renamed[k]}
      <4>1. ASSUME NEW q \in Range(made), q.id = rids[k] PROVE q = renamed[k]
        <5>1. CASE q \in {base.requests[l] : l \in 1 .. mb}
          <6>1. q.id \in RequestIds(base)
            BY <5>1, <1>4
          <6> QED
            BY <6>1, <4>1, <1>6
        <5>2. CASE q \in {renamed[l] : l \in 1 .. md}
          <6>1. PICK l \in 1 .. md : q = renamed[l]
            BY <5>2
          <6>2. rids[l] = rids[k]
            BY <6>1, <4>1, <1>11
          <6> QED
            BY <6>1, <6>2, <1>6
        <5> QED
          BY <5>1, <5>2, <1>19
      <4> QED
        BY <4>1, <3>2
    <3>5. renamed[k].cap = draft.requests[k].cap /\ renamed[k].ask = draft.requests[k].ask
      BY <1>11
    <3> QED
      BY <3>2, <3>3, <3>4, <3>5, <2>1 DEF j
  <2> QED
    BY <2>4, <2>5
<1>24. Draft(plan)
  <2>1. plan \in Plans /\ Len(plan.panels) \in 1 .. MaxPanels
    BY <1>1, <1>14, <1>18 DEF Plans, Req, Pan
  <2>2. \A i, j \in 1 .. Len(plan.panels) : plan.panels[i].node = plan.panels[j].node => i = j
    <3> SUFFICES ASSUME NEW i \in 1 .. Len(panels), NEW j \in 1 .. Len(panels), panels[i].node = panels[j].node
                 PROVE  i = j
      BY <1>20
    <3>1. i + gone = j + gone
      BY <1>14, <1>15
    <3> QED
      BY <3>1, <1>14
  <2>3. \A i, j \in 1 .. Len(plan.requests) : plan.requests[i].id = plan.requests[j].id => i = j
    BY <1>18, <1>20
  <2>4. Bound(plan.panels) \subseteq RequestIds(plan) \cup {Nothing}
    <3>1. ASSUME NEW i \in 1 .. Len(panels), panels[i].req # Nothing
          PROVE  \E r \in Range(made) : r.id = panels[i].req
      <4>1. CASE i + gone <= nb
        BY <4>1, <3>1, <1>22
      <4>2. CASE ~(i + gone <= nb)
        BY <4>2, <3>1, <1>23
      <4> QED
        BY <4>1, <4>2
    <3> QED
      BY <3>1, <1>20, <1>21
  <2>5. RequestIds(plan) \subseteq Bound(plan.panels)
    BY <1>20
  <2> QED
    BY <2>1, <2>2, <2>3, <2>4, <2>5, <1>20 DEF Draft
<1>25. ASSUME NEW i \in 1 .. Len(panels)
       PROVE  Shown(plan)[i] = IF i + gone <= nb THEN Shown(base)[i + gone] ELSE Shown(draft)[i + gone - nb]
  <2>1. Shown(plan)[i] = {<<r.cap, r.ask>> : r \in {q \in Requests(plan) : q.id = panels[i].req}}
    BY <1>20 DEF Shown
  <2>2. panels[i].req \in Bound(panels)
    BY <1>21
  <2>3. {q \in Requests(plan) : q.id = panels[i].req} = {q \in Range(made) : q.id = panels[i].req}
    BY <1>20, <2>2
  <2>4. CASE i + gone <= nb
    <3>1. Shown(base)[i + gone] = {<<r.cap, r.ask>> : r \in {q \in Requests(base) : q.id = base.panels[i + gone].req}}
      <4>1. i + gone \in 1 .. Len(base.panels)
        BY <2>4, <1>22 DEF nb
      <4> QED
        BY <4>1 DEF Shown
    <3> QED
      BY <2>1, <2>3, <2>4, <3>1, <1>22
  <2>5. CASE ~(i + gone <= nb)
    <3> DEFINE j == i + gone - nb
    <3>1. Shown(draft)[j] = {<<r.cap, r.ask>> : r \in {q \in Requests(draft) : q.id = draft.panels[j].req}}
      <4>1. j \in 1 .. Len(draft.panels)
        BY <2>5, <1>23 DEF nd
      <4> HIDE DEF j
      <4> QED
        BY <4>1 DEF Shown
    <3>2. {<<r.cap, r.ask>> : r \in {q \in Range(made) : q.id = panels[i].req}} =
             {<<r.cap, r.ask>> : r \in {q \in Requests(draft) : q.id = draft.panels[j].req}}
      BY <2>5, <1>23
    <3> HIDE DEF j
    <3> QED
      BY <2>1, <2>3, <2>5, <3>1, <3>2 DEF j
  <2> QED
    BY <2>4, <2>5
<1> QED
  BY <1>14, <1>20, <1>24, <1>25 DEF plan, gone, nb, nd
(* What a plan shows, panel by panel. *)
Pairs == Caps \X (Nat \X Nat)

LEMMA ShownIs ==
    ASSUME NEW plan \in Plans
    PROVE  /\ Shown(plan) \in Seq(SUBSET Pairs)
           /\ Len(Shown(plan)) = Len(plan.panels) /\ Len(plan.panels) \in Nat
           /\ \A i \in 1 .. Len(plan.panels) :
                /\ Shown(plan)[i] \in SUBSET Pairs
                /\ Shown(plan)[i] = {<<r.cap, r.ask>> : r \in {q \in Requests(plan) : q.id = plan.panels[i].req}}
           /\ Bound(plan.panels) = {plan.panels[i].req : i \in 1 .. Len(plan.panels)}
           /\ \A r \in Requests(plan) : r.cap \in Caps /\ r.ask \in Nat \X Nat /\ r.id \in Nat \ {0}
<1> DEFINE Req == [id : Nat \ {0}, cap : Caps, ask : Nat \X Nat]
           Pan == [node : Nat \ {0}, req : Int]
<1>1. plan.requests \in Seq(Req) /\ plan.panels \in Seq(Pan)
  BY DEF Plans
<1>2. \A r \in Requests(plan) : r.cap \in Caps /\ r.ask \in Nat \X Nat /\ r.id \in Nat \ {0}
  <2>1. \A r \in Requests(plan) : r \in Req
    <3> HIDE DEF Req, Pan
    <3> QED
      BY <1>1 DEF Requests, Range
  <2> QED
    BY <2>1
<1> HIDE DEF Req, Pan
<1>3. Len(plan.panels) \in Nat /\ DOMAIN plan.panels = 1 .. Len(plan.panels)
  BY <1>1
<1>4. Bound(plan.panels) = {plan.panels[i].req : i \in 1 .. Len(plan.panels)}
  BY <1>3 DEF Bound, Range
<1>5. ASSUME NEW i \in 1 .. Len(plan.panels)
      PROVE  /\ Shown(plan)[i] \in SUBSET Pairs
             /\ Shown(plan)[i] = {<<r.cap, r.ask>> : r \in {q \in Requests(plan) : q.id = plan.panels[i].req}}
  <2>1. Shown(plan)[i] = {<<r.cap, r.ask>> : r \in {q \in Requests(plan) : q.id = plan.panels[i].req}}
    BY DEF Shown
  <2>2. \A r \in Requests(plan) : <<r.cap, r.ask>> \in Pairs
    BY <1>2 DEF Pairs
  <2> QED
    BY <2>1, <2>2
<1>6. Shown(plan) \in [1 .. Len(plan.panels) -> SUBSET Pairs]
  BY <1>5 DEF Shown
<1> QED
  BY <1>2, <1>3, <1>4, <1>5, <1>6, ListIs

(* A draft that binds nothing but its requests is one validation accepts. *)
LEMMA ValidIs ==
    ASSUME NEW plan \in Plans, ~plan.composed
    PROVE  Valid(plan) <=> Draft(plan) /\ Nothing \notin Bound(plan.panels)
<1>1. /\ DOMAIN plan.panels = 1 .. Len(plan.panels)
      /\ DOMAIN plan.requests = 1 .. Len(plan.requests)
  BY DEF Plans
<1>2. IsInjective([i \in DOMAIN plan.panels |-> plan.panels[i].node]) <=>
        \A i, j \in 1 .. Len(plan.panels) : plan.panels[i].node = plan.panels[j].node => i = j
  BY <1>1 DEF IsInjective
<1>3. IsInjective([i \in DOMAIN plan.requests |-> plan.requests[i].id]) <=>
        \A i, j \in 1 .. Len(plan.requests) : plan.requests[i].id = plan.requests[j].id => i = j
  BY <1>1 DEF IsInjective
<1>4. Nothing \notin RequestIds(plan)
  <2>1. \A r \in Requests(plan) : r.id \in Nat
    BY ShownIs
  <2> QED
    BY <2>1 DEF RequestIds, Nothing
<1> QED
  BY <1>2, <1>3, <1>4 DEF Valid, Draft

(* Every request a draft makes shows in a panel. *)
LEMMA ShownByAPanel ==
    ASSUME NEW plan, Draft(plan), NEW r \in Requests(plan)
    PROVE  \E i \in 1 .. Len(plan.panels) : <<r.cap, r.ask>> \in Shown(plan)[i]
<1>1. plan \in Plans
  BY DEF Draft
<1>2. r.id \in Bound(plan.panels)
  BY DEF Draft, RequestIds
<1>3. PICK i \in 1 .. Len(plan.panels) : plan.panels[i].req = r.id
  <2>1. DOMAIN plan.panels = 1 .. Len(plan.panels)
    BY <1>1 DEF Plans
  <2> QED
    BY <1>2, <2>1 DEF Bound, Range
<1> QED
  BY <1>1, <1>3, ShownIs

(* Every panel of a valid plan the rules can write shows something. *)
LEMMA ShowsSomething ==
    ASSUME NEW plan \in Plans, ~plan.composed, Valid(plan), NEW i \in 1 .. Len(plan.panels)
    PROVE  Shown(plan)[i] # {}
<1>1. plan.panels[i].req \in Bound(plan.panels)
  BY ShownIs
<1>2. PICK r \in Requests(plan) : r.id = plan.panels[i].req
  BY <1>1 DEF Valid, RequestIds
<1>3. <<r.cap, r.ask>> \in Shown(plan)[i]
  <2>1. Shown(plan)[i] = {<<q.cap, q.ask>> : q \in {q \in Requests(plan) : q.id = plan.panels[i].req}}
    BY ShownIs
  <2> QED
    BY <1>2, <2>1
<1> QED
  BY <1>3

LEMMA SingleIs ==
    ASSUME NEW S, NEW x \in S
    PROVE  <<x>> \in Seq(S) /\ Len(<<x>>) = 1 /\ <<x>>[1] = x /\ Range(<<x>>) = {x}
<1>1. <<x>> \in Seq(S) /\ Len(<<x>>) = 1 /\ <<x>>[1] = x /\ DOMAIN <<x>> = {1}
  OBVIOUS
<1> QED
  BY <1>1 DEF Range

LEMMA PairIs ==
    ASSUME NEW S, NEW x \in S, NEW y \in S
    PROVE  /\ <<x, y>> \in Seq(S) /\ Len(<<x, y>>) = 2
           /\ <<x, y>>[1] = x /\ <<x, y>>[2] = y /\ Range(<<x, y>>) = {x, y}
<1>1. <<x, y>> \in Seq(S) /\ Len(<<x, y>>) = 2 /\ <<x, y>>[1] = x /\ <<x, y>>[2] = y /\ DOMAIN <<x, y>> = {1, 2}
  OBVIOUS
<1> QED
  BY <1>1 DEF Range

LEMMA NoneIs ==
    ASSUME NEW S
    PROVE  <<>> \in Seq(S) /\ Len(<<>>) = 0 /\ Range(<<>>) = {}
  BY DEF Range

(* The draft of one capability shows nothing else. *)
LEMMA DraftForIs ==
    ASSUME NEW p, NEW cap \in Caps, NEW about \in Nat \X Nat,
           NEW draft \in draftFor(p, cap, about), draft # Nil
    PROVE  Draft(draft) /\ \A i \in 1 .. Len(draft.panels) : Shown(draft)[i] \subseteq {<<cap, about>>}
<1> DEFINE Req == [id : Nat \ {0}, cap : Caps, ask : Nat \X Nat]
           Pan == [node : Nat \ {0}, req : Int]
           made(n) == [id |-> n, cap |-> cap, ask |-> about]
           panel(n, req) == [node |-> n, req |-> req]
           drawn(r, s) == [requests |-> r, panels |-> s, composed |-> FALSE]
<1>1. \A n \in {1, 2} : made(n) \in Req /\ made(n).id = n /\ made(n).cap = cap /\ made(n).ask = about
  OBVIOUS
<1>2. \A n \in {1, 2}, q \in Int : panel(n, q) \in Pan /\ panel(n, q).node = n /\ panel(n, q).req = q
  OBVIOUS
<1>3. \A r, s : /\ drawn(r, s).requests = r /\ drawn(r, s).panels = s /\ drawn(r, s).composed = FALSE
                /\ r \in Seq(Req) /\ s \in Seq(Pan) => drawn(r, s) \in Plans
  BY DEF Plans
<1>4. \/ draft = drawn(<<made(1)>>, <<panel(1, 1)>>)
      \/ draft = drawn(<<made(2)>>, <<panel(1, 2)>>)
      \/ draft = drawn(<<made(2)>>, <<panel(1, 2), panel(2, 2)>>) /\ MaxPanels > 1
      \/ draft = drawn(<<>>, <<panel(1, Nothing)>>)
  BY DEF draftFor, buildSystemOneDraft, HostDrafts
<1>5. MaxPanels \in Nat \ {0} /\ Nothing \in Int
  BY SystemOneAssumption DEF Nothing
<1> HIDE DEF made, panel, drawn, Req, Pan
<1> DEFINE Fine ==
      /\ draft \in Plans /\ ~draft.composed /\ Len(draft.panels) \in 1 .. MaxPanels
      /\ Len(draft.requests) \in {0, 1}
      /\ \A r \in Requests(draft) : r.cap = cap /\ r.ask = about
      /\ \A i, j \in 1 .. Len(draft.panels) : draft.panels[i].node = draft.panels[j].node => i = j
      /\ Bound(draft.panels) \subseteq RequestIds(draft) \cup {Nothing}
      /\ RequestIds(draft) \subseteq Bound(draft.panels)
<1>6. Fine
  <2>1. ASSUME NEW n \in {1, 2}, draft = drawn(<<made(n)>>, <<panel(1, n)>>)
        PROVE  Fine
    <3>1. draft.requests = <<made(n)>> /\ draft.panels = <<panel(1, n)>> /\ ~draft.composed
      BY <2>1, <1>3
    <3>2. made(n) \in Req /\ panel(1, n) \in Pan /\ panel(1, n).req = n /\ made(n).id = n
      BY <1>1, <1>2
    <3>3. /\ <<made(n)>> \in Seq(Req) /\ Len(<<made(n)>>) = 1 /\ Range(<<made(n)>>) = {made(n)}
          /\ <<panel(1, n)>> \in Seq(Pan) /\ Len(<<panel(1, n)>>) = 1 /\ Range(<<panel(1, n)>>) = {panel(1, n)}
      BY <3>2, SingleIs
    <3>4. Requests(draft) = {made(n)} /\ Bound(draft.panels) = {n} /\ RequestIds(draft) = {n}
      BY <3>1, <3>2, <3>3 DEF Requests, Bound, RequestIds
    <3>5. draft \in Plans
      BY <2>1, <3>3, <1>3
    <3> QED
      BY <3>1, <3>3, <3>4, <3>5, <1>1, <1>5
  <2>2. ASSUME MaxPanels > 1, draft = drawn(<<made(2)>>, <<panel(1, 2), panel(2, 2)>>)
        PROVE  Fine
    <3>1. draft.requests = <<made(2)>> /\ draft.panels = <<panel(1, 2), panel(2, 2)>> /\ ~draft.composed
      BY <2>2, <1>3
    <3>2. /\ made(2) \in Req /\ made(2).id = 2
          /\ \A n \in {1, 2} : panel(n, 2) \in Pan /\ panel(n, 2).req = 2 /\ panel(n, 2).node = n
      BY <1>1, <1>2
    <3>3. /\ <<made(2)>> \in Seq(Req) /\ Len(<<made(2)>>) = 1 /\ Range(<<made(2)>>) = {made(2)}
          /\ draft.panels \in Seq(Pan) /\ Len(draft.panels) = 2 /\ Range(draft.panels) = {panel(1, 2), panel(2, 2)}
          /\ draft.panels[1] = panel(1, 2) /\ draft.panels[2] = panel(2, 2)
      BY <3>1, <3>2, SingleIs, PairIs
    <3>4. Requests(draft) = {made(2)} /\ Bound(draft.panels) = {2} /\ RequestIds(draft) = {2}
      BY <3>1, <3>2, <3>3 DEF Requests, Bound, RequestIds
    <3>5. draft \in Plans
      BY <2>2, <3>1, <3>3, <1>3
    <3>6. \A i \in 1 .. Len(draft.panels) : i \in {1, 2} /\ draft.panels[i].node = i
      BY <3>2, <3>3
    <3> QED
      BY <3>1, <3>3, <3>4, <3>5, <3>6, <1>1, <1>5, <2>2
  <2>3. ASSUME draft = drawn(<<>>, <<panel(1, Nothing)>>)
        PROVE  Fine
    <3>1. draft.requests = <<>> /\ draft.panels = <<panel(1, Nothing)>> /\ ~draft.composed
      BY <2>3, <1>3
    <3>2. panel(1, Nothing) \in Pan /\ panel(1, Nothing).req = Nothing
      BY <1>2, <1>5
    <3>3. /\ <<>> \in Seq(Req) /\ Len(<<>>) = 0 /\ Range(<<>>) = {}
          /\ <<panel(1, Nothing)>> \in Seq(Pan) /\ Len(<<panel(1, Nothing)>>) = 1
          /\ Range(<<panel(1, Nothing)>>) = {panel(1, Nothing)}
      BY <3>2, SingleIs, NoneIs
    <3>4. Requests(draft) = {} /\ Bound(draft.panels) = {Nothing} /\ RequestIds(draft) = {}
      BY <3>1, <3>2, <3>3 DEF Requests, Bound, RequestIds
    <3>5. draft \in Plans
      BY <2>3, <3>3, <1>3
    <3> QED
      BY <3>1, <3>3, <3>4, <3>5, <1>5
  <2> QED
    BY <1>4, <2>1, <2>2, <2>3
<1>7. Draft(draft)
  BY <1>6 DEF Draft
<1>8. ASSUME NEW i \in 1 .. Len(draft.panels) PROVE Shown(draft)[i] \subseteq {<<cap, about>>}
  <2>1. Shown(draft)[i] = {<<r.cap, r.ask>> : r \in {q \in Requests(draft) : q.id = draft.panels[i].req}}
    BY <1>6, ShownIs
  <2> QED
    BY <2>1, <1>6
<1> QED
  BY <1>7, <1>8
(* What a draft's panels are about: parts of the prompt, each after the ones before it. *)
About(draft, parts) ==
    \A i \in 1 .. Len(draft.panels) : \A e \in Shown(draft)[i] : \E k \in parts : e[2] = <<turns, k>>
InOrder(draft) ==
    \A i, j \in 1 .. Len(draft.panels) :
        i < j => \A e \in Shown(draft)[i], f \in Shown(draft)[j] : e[2][2] <= f[2][2]
Has(draft, k) ==
    \E i \in 1 .. Len(draft.panels) : \A e \in Shown(draft)[i] : e[2] = <<turns, k>>
Answers1To(draft, n) ==
    /\ Draft(draft) /\ About(draft, 1 .. n) /\ InOrder(draft)
    /\ Len(draft.panels) < MaxPanels => \A k \in 1 .. n : Has(draft, k)

(* One part joins those before it. *)
LEMMA PartJoins ==
    ASSUME NEW n \in Nat, NEW base, Answers1To(base, n), NEW draft, Draft(draft), About(draft, {n + 1})
    PROVE  Answers1To(appendDraft(base, draft), n + 1)
<1> DEFINE plan == appendDraft(base, draft)
           gone == Leaving(base, draft)
           nb == Len(base.panels)
           nd == Len(draft.panels)
           np == Len(plan.panels)
<1>1. /\ Draft(plan) /\ np = nb + nd - gone
      /\ \A i \in 1 .. np : Shown(plan)[i] = IF i + gone <= nb THEN Shown(base)[i + gone] ELSE Shown(draft)[i + gone - nb]
  BY AppendIs DEF Answers1To
<1>2. /\ nb \in Nat /\ nd \in Nat \ {0} /\ MaxPanels \in Nat /\ np \in Nat
      /\ gone = IF nb + nd > MaxPanels THEN nb + nd - MaxPanels ELSE 0
  <2>1. nb \in 1 .. MaxPanels /\ nd \in 1 .. MaxPanels /\ np \in 1 .. MaxPanels /\ MaxPanels \in Nat
    BY <1>1, SystemOneAssumption DEF Draft, Answers1To
  <2> QED
    BY <2>1 DEF Leaving
<1> HIDE DEF plan, gone, nb, nd, np
<1>3. ASSUME NEW i \in 1 .. np
      PROVE  \/ i + gone <= nb /\ i + gone \in 1 .. nb /\ Shown(plan)[i] = Shown(base)[i + gone]
             \/ ~(i + gone <= nb) /\ i + gone - nb \in 1 .. nd /\ Shown(plan)[i] = Shown(draft)[i + gone - nb]
  BY <1>1, <1>2
<1>4. /\ \A i \in 1 .. nb : \A e \in Shown(base)[i] : \E k \in 1 .. n : e[2] = <<turns, k>>
      /\ \A i \in 1 .. nd : \A e \in Shown(draft)[i] : e[2] = <<turns, n + 1>>
      /\ \A i, j \in 1 .. nb : i < j => \A e \in Shown(base)[i], f \in Shown(base)[j] : e[2][2] <= f[2][2]
  BY DEF Answers1To, About, InOrder, nb, nd
<1>5. About(plan, 1 .. n + 1)
  <2>1. ASSUME NEW i \in 1 .. np, NEW e \in Shown(plan)[i] PROVE \E k \in 1 .. n + 1 : e[2] = <<turns, k>>
    <3>1. CASE Shown(plan)[i] = Shown(base)[i + gone] /\ i + gone \in 1 .. nb
      BY <3>1, <1>4
    <3>2. CASE Shown(plan)[i] = Shown(draft)[i + gone - nb] /\ i + gone - nb \in 1 .. nd
      BY <3>2, <1>4
    <3> QED
      BY <1>3, <3>1, <3>2
  <2> QED
    BY <2>1 DEF About, np
<1>6. InOrder(plan)
  <2>1. ASSUME NEW i \in 1 .. np, NEW j \in 1 .. np, i < j, NEW e \in Shown(plan)[i], NEW f \in Shown(plan)[j]
        PROVE  e[2][2] <= f[2][2]
    <3>1. CASE i + gone <= nb /\ j + gone <= nb
      <4>1. i + gone \in 1 .. nb /\ j + gone \in 1 .. nb /\ i + gone < j + gone
        BY <3>1, <1>2, <1>3, <2>1
      <4> QED
        BY <4>1, <3>1, <1>3, <1>4
    <3>2. CASE i + gone <= nb /\ ~(j + gone <= nb)
      <4>1. PICK k \in 1 .. n : e[2] = <<turns, k>>
        BY <3>2, <1>3, <1>4
      <4>2. f[2] = <<turns, n + 1>>
        BY <3>2, <1>3, <1>4
      <4> QED
        BY <4>1, <4>2
    <3>3. CASE ~(i + gone <= nb)
      <4>1. ~(j + gone <= nb)
        BY <3>3, <2>1, <1>2
      <4>2. e[2] = <<turns, n + 1>> /\ f[2] = <<turns, n + 1>>
        BY <3>3, <4>1, <1>3, <1>4
      <4> QED
        BY <4>2
    <3> QED
      BY <3>1, <3>2, <3>3
  <2> QED
    BY <2>1 DEF InOrder, np
<1>7. ASSUME np < MaxPanels, NEW k \in 1 .. n + 1 PROVE Has(plan, k)
  <2>1. gone = 0 /\ nb < MaxPanels /\ np = nb + nd
    BY <1>1, <1>2, <1>7
  <2>2. CASE k = n + 1
    <3>1. nb + 1 \in 1 .. np /\ 1 \in 1 .. nd
      BY <1>2, <2>1
    <3>2. Shown(plan)[nb + 1] = Shown(draft)[1]
      BY <1>1, <1>2, <2>1, <3>1
    <3> QED
      BY <2>2, <3>1, <3>2, <1>4 DEF Has, np
  <2>3. CASE k # n + 1
    <3>1. k \in 1 .. n
      BY <2>3
    <3>2. Has(base, k)
      BY <2>1, <3>1 DEF Answers1To, nb
    <3>3. PICK i \in 1 .. nb : \A e \in Shown(base)[i] : e[2] = <<turns, k>>
      BY <3>2 DEF Has, nb
    <3>4. i \in 1 .. np /\ Shown(plan)[i] = Shown(base)[i]
      BY <1>1, <1>2, <2>1
    <3> QED
      BY <3>3, <3>4 DEF Has, np
  <2> QED
    BY <2>2, <2>3
<1> QED
  BY <1>1, <1>5, <1>6, <1>7 DEF Answers1To, plan, np

(* The parts of a prompt, drafted one by one. *)
LEMMA MergedIs ==
    ASSUME NEW n \in Nat \ {0}, NEW drafts, Len(drafts) = n,
           \A k \in 1 .. n : drafts[k] # Nil /\ Draft(drafts[k]) /\ About(drafts[k], {k})
    PROVE  Answers1To(Merged(drafts), n)
<1> DEFINE S == {Nil} \cup {x \in Plans : Draft(x)}
           Then(k, m) == IF drafts[k] = Nil THEN m
                         ELSE IF m = Nil THEN drafts[k] ELSE appendDraft(m, drafts[k])
           E(f) == [k \in 0 .. n |-> IF k = 0 THEN Nil ELSE Then(k, f[k - 1])]
           merged == CHOOSE f : f = E(f)
<1>1. \A k \in 1 .. n, m \in S : Then(k, m) \in S
  <2> SUFFICES ASSUME NEW k \in 1 .. n, NEW m \in S PROVE Then(k, m) \in S
    OBVIOUS
  <2>1. drafts[k] \in S
    BY DEF Draft
  <2>2. CASE m # Nil
    <3>1. Draft(appendDraft(m, drafts[k]))
      BY <2>2, AppendIs
    <3> QED
      BY <2>1, <3>1 DEF Draft
  <2> QED
    BY <2>1, <2>2
<1>3. \E f : f = E(f)
  <2> DEFINE step == [x \in (1 .. n) \X S |-> Then(x[1], x[2])]
  <2>1. Steps(n, S, step)
    <3> HIDE DEF Then, S
    <3> QED
      BY <1>1 DEF Steps
  <2>2. Nil \in S
    OBVIOUS
  <2>3. PICK f : Follows(f, n, S, Nil, step)
    <3> HIDE DEF S, step
    <3> QED
      BY <2>1, <2>2, Recursion
  <2>4. ASSUME NEW k \in 1 .. n PROVE f[k] = Then(k, f[k - 1])
    <3>1. k - 1 \in 0 .. n
      OBVIOUS
    <3>2. f[k - 1] \in S /\ <<k, f[k - 1]>> \in (1 .. n) \X S
      BY <2>3, <3>1 DEF Follows
    <3> HIDE DEF Then, S
    <3> QED
      BY <2>3, <3>2 DEF Follows
  <2>5. f = E(f)
    <3> HIDE DEF Then, S
    <3> QED
      BY <2>3, <2>4 DEF Follows
  <2> QED
    BY <2>5
<1>4. merged[0] = Nil /\ \A k \in 1 .. n : merged[k] = Then(k, merged[k - 1])
  <2>1. merged = E(merged)
    BY <1>3
  <2> HIDE DEF merged, Then
  <2>2. \A f : f = E(f) => f[0] = Nil /\ \A k \in 1 .. n : f[k] = Then(k, f[k - 1])
    OBVIOUS
  <2> HIDE DEF E
  <2> QED
    BY <2>1, <2>2
<1>5. Merged(drafts) = merged[n]
  BY DEF Merged
<1> HIDE DEF merged
<1> DEFINE D == {k \in Nat : 0 < k /\ k <= n => Answers1To(merged[k], k)}
<1>6. 0 \in D
  OBVIOUS
<1>7. ASSUME NEW k \in Nat, k \in D PROVE k + 1 \in D
  <2> SUFFICES ASSUME k + 1 <= n PROVE Answers1To(merged[k + 1], k + 1)
    OBVIOUS
  <2>1. /\ k + 1 \in 1 .. n /\ (k + 1) - 1 = k
        /\ drafts[k + 1] # Nil /\ Draft(drafts[k + 1]) /\ About(drafts[k + 1], {k + 1})
    OBVIOUS
  <2>2. merged[k + 1] = Then(k + 1, merged[k])
    BY <1>4, <2>1
  <2>3. CASE k = 0
    <3>1. merged[k + 1] = drafts[1] /\ Draft(drafts[1]) /\ About(drafts[1], {1})
      BY <2>1, <2>2, <2>3, <1>4
    <3>2. \A i \in 1 .. Len(drafts[1].panels) : \A e \in Shown(drafts[1])[i] : e[2] = <<turns, 1>>
      BY <3>1 DEF About
    <3>3. InOrder(drafts[1]) /\ About(drafts[1], 1 .. 1)
      BY <3>2 DEF InOrder, About
    <3>4. Has(drafts[1], 1)
      <4>1. 1 \in 1 .. Len(drafts[1].panels)
        BY <3>1 DEF Draft
      <4> QED
        BY <3>2, <4>1 DEF Has
    <3> QED
      BY <3>1, <3>3, <3>4, <2>3 DEF Answers1To
  <2>4. CASE k # 0
    <3>1. Answers1To(merged[k], k)
      BY <1>7, <2>4
    <3>2. merged[k] # Nil
      BY <3>1, NilAssumption DEF Answers1To, Draft
    <3>3. merged[k + 1] = appendDraft(merged[k], drafts[k + 1])
      BY <2>1, <2>2, <3>2
    <3> QED
      BY <2>1, <3>1, <3>3, PartJoins
  <2> QED
    BY <2>3, <2>4
<1>8. n \in D
  <2> HIDE DEF D
  <2> QED
    BY <1>6, <1>7, SetInduction
<1> QED
  BY <1>5, <1>8
(* A plan's panels: what is left of the old ones, and then a draft's. *)
Joins(plan, draft, old, gone) ==
    /\ gone = IF Len(old) + Len(draft.panels) > MaxPanels
              THEN Len(old) + Len(draft.panels) - MaxPanels ELSE 0
    /\ Len(plan.panels) = Len(old) + Len(draft.panels) - gone
    /\ \A i \in 1 .. Len(plan.panels) :
         Shown(plan)[i] = IF i + gone <= Len(old) THEN old[i + gone] ELSE Shown(draft)[i + gone - Len(old)]

(* The old panels are the view's, on a revision, and all older than this compose. *)
Keeps(t, old) ==
    /\ old = IF t.revising THEN Shown(onScreen) ELSE <<>>
    /\ \A i \in 1 .. Len(old) : \A e \in old[i] : e[2][1] < turns

(* A draft joined to a view, or in its place, adds itself after what the view keeps. *)
LEMMA JoinedAdds ==
    ASSUME NEW t, NEW reason, NEW plan, Draft(plan), NEW draft, Draft(draft), turns \in Nat,
           NEW n \in Nat, About(draft, 1 .. n), InOrder(draft),
           reason = "compound-by-parts" /\ Len(draft.panels) < MaxPanels =>
               \A k \in DOMAIN t.prompt.parts : Has(draft, k),
           NEW old \in Seq(SUBSET Pairs), NEW gone, Joins(plan, draft, old, gone), Keeps(t, old)
    PROVE  /\ \A r \in Requests(plan) : r.ask[1] <= turns
           /\ \A i \in 1 .. Len(plan.panels) : \A e \in Shown(plan)[i] :
                Fresh(e, turns) => \E j \in 1 .. Len(draft.panels) : e \in Shown(draft)[j]
           /\ Valid(plan) \/ Nothing \in Bound(plan.panels)
           /\ Valid(plan) => Adds(t, onScreen, plan, reason, turns)
<1> DEFINE nb == Len(old)
           nd == Len(draft.panels)
           np == Len(plan.panels)
           now == Shown(plan)
<1>1. /\ plan \in Plans /\ draft \in Plans /\ ~plan.composed
      /\ now \in Seq(SUBSET Pairs) /\ Len(now) = np /\ DOMAIN now = 1 .. np
      /\ nb \in Nat /\ nd \in 1 .. MaxPanels /\ np \in 1 .. MaxPanels /\ MaxPanels \in Nat
      /\ gone = IF nb + nd > MaxPanels THEN nb + nd - MaxPanels ELSE 0
      /\ gone \in Nat /\ np = nb + nd - gone /\ nb - gone \in Nat /\ np = (nb - gone) + nd
  <2>1. plan \in Plans /\ draft \in Plans /\ ~plan.composed /\ nd \in 1 .. MaxPanels /\ np \in 1 .. MaxPanels
    BY DEF Draft
  <2>2. now \in Seq(SUBSET Pairs) /\ Len(now) = np /\ DOMAIN now = 1 .. np
    <3>1. now \in Seq(SUBSET Pairs) /\ Len(now) = np
      BY <2>1, ShownIs
    <3> HIDE DEF now, np
    <3> QED
      BY <3>1
  <2>3. nb \in Nat /\ MaxPanels \in Nat
    BY SystemOneAssumption
  <2>4. gone = IF nb + nd > MaxPanels THEN nb + nd - MaxPanels ELSE 0
    BY DEF Joins
  <2>5. np = nb + nd - gone
    BY DEF Joins
  <2> HIDE DEF nb, nd, np, now
  <2>6. nd \in Nat /\ nd <= MaxPanels
    BY <2>1, <2>3
  <2>7. gone \in Nat /\ nb - gone \in Nat /\ np = (nb - gone) + nd
    BY <2>3, <2>4, <2>5, <2>6
  <2> QED
    BY <2>1, <2>2, <2>3, <2>4, <2>5, <2>7
<1>2. \A i \in 1 .. np : now[i] = IF i + gone <= nb THEN old[i + gone] ELSE Shown(draft)[i + gone - nb]
  BY DEF Joins
<1>3. /\ \A i \in 1 .. nb : \A e \in old[i] : e[2][1] < turns
      /\ \A i \in 1 .. nd : \A e \in Shown(draft)[i] : \E k \in 1 .. n : e[2] = <<turns, k>>
      /\ \A i, j \in 1 .. nd : i < j => \A e \in Shown(draft)[i], f \in Shown(draft)[j] : e[2][2] <= f[2][2]
  BY DEF About, InOrder, Keeps
<1> HIDE DEF nb, nd, np, now
<1>4. ASSUME NEW i \in 1 .. np
      PROVE  \/ i + gone <= nb /\ i + gone \in 1 .. nb /\ now[i] = old[i + gone]
             \/ ~(i + gone <= nb) /\ i + gone - nb \in 1 .. nd /\ now[i] = Shown(draft)[i + gone - nb]
  BY <1>1, <1>2
<1>5. ASSUME NEW i \in 1 .. np, NEW e \in now[i]
      PROVE  /\ e[2][1] <= turns
             /\ Fresh(e, turns) <=> ~(i + gone <= nb)
             /\ ~(i + gone <= nb) => e \in Shown(draft)[i + gone - nb] /\ i + gone - nb \in 1 .. nd
  <2>1. e \in Pairs
    BY <1>1, <1>5
  <2>2. e[2][1] \in Nat
    BY <2>1 DEF Pairs
  <2>3. CASE i + gone <= nb
    <3>1. e[2][1] < turns
      BY <2>3, <1>3, <1>4, <1>5
    <3> QED
      BY <2>2, <2>3, <3>1 DEF Fresh
  <2>4. CASE ~(i + gone <= nb)
    <3>1. i + gone - nb \in 1 .. nd /\ e \in Shown(draft)[i + gone - nb]
      BY <2>4, <1>4, <1>5
    <3>2. PICK k \in 1 .. n : e[2] = <<turns, k>>
      BY <3>1, <1>3
    <3> QED
      BY <2>4, <3>1, <3>2 DEF Fresh
  <2> QED
    BY <2>3, <2>4
<1>6. \A r \in Requests(plan) : r.ask[1] <= turns
  <2> SUFFICES ASSUME NEW r \in Requests(plan) PROVE r.ask[1] <= turns
    OBVIOUS
  <2>1. PICK i \in 1 .. np : <<r.cap, r.ask>> \in now[i]
    BY ShownByAPanel DEF np, now
  <2> QED
    BY <2>1, <1>5
<1>7. \A i \in 1 .. np : \A e \in now[i] : Fresh(e, turns) => \E j \in 1 .. nd : e \in Shown(draft)[j]
  BY <1>5
<1>8. Valid(plan) \/ Nothing \in Bound(plan.panels)
  BY <1>1, ValidIs
<1>9. ASSUME Valid(plan) PROVE Adds(t, onScreen, plan, reason, turns)
  <2>1. \A i \in 1 .. np : now[i] # {}
    BY <1>1, <1>9, ShowsSomething DEF np, now
  <2>2. nd \in 0 .. Len(now) /\ np - nd = nb - gone /\ Len(now) - nd = np - nd /\ np - nd \in 0 .. np
    BY <1>1
  <2>3. ASSUME NEW i \in DOMAIN now PROVE (i > Len(now) - nd) <=> (\E e \in now[i] : Fresh(e, turns))
    <3>1. i \in 1 .. np /\ now[i] # {}
      BY <1>1, <2>1
    <3>2. (i > Len(now) - nd) <=> ~(i + gone <= nb)
      BY <3>1, <2>2, <1>1
    <3>3. \A e \in now[i] : Fresh(e, turns) <=> ~(i + gone <= nb)
      BY <3>1, <1>5
    <3> QED
      BY <3>1, <3>2, <3>3
  <2>4. SubSeq(now, 1, Len(now) - nd) = Newest(old, MaxPanels - nd)
    <3> DEFINE kept == SubSeq(now, 1, np - nd)
               left == Newest(old, MaxPanels - nd)
    <3>1. /\ kept \in Seq(SUBSET Pairs) /\ Len(kept) = np - nd
          /\ \A i \in 1 .. np - nd : kept[i] = now[i]
      BY <1>1, <2>2
    <3>2. MaxPanels - nd \in Nat
      BY <1>1
    <3>3. /\ left \in Seq(SUBSET Pairs)
          /\ Len(left) = IF nb > MaxPanels - nd THEN MaxPanels - nd ELSE nb
          /\ \A i \in 1 .. Len(left) : left[i] = old[i + (nb - Len(left))]
      BY <3>2, NewestIs DEF nb
    <3> HIDE DEF kept, left
    <3>4. Len(left) = np - nd /\ nb - Len(left) = gone
      BY <3>3, <1>1
    <3>5. \A i \in 1 .. np - nd : kept[i] = left[i]
      <4> SUFFICES ASSUME NEW i \in 1 .. np - nd PROVE kept[i] = left[i]
        OBVIOUS
      <4>1. i \in 1 .. np /\ i + gone <= nb
        BY <1>1, <2>2
      <4> QED
        BY <4>1, <3>1, <3>3, <3>4, <1>2
    <3>6. kept = left
      BY <3>1, <3>3, <3>4, <3>5, SeqEqual
    <3> QED
      BY <2>2, <3>6 DEF kept, left
  <2>9. \A i \in Len(now) - nd + 1 .. Len(now) : i \in 1 .. np /\ ~(i + gone <= nb)
    <3>1. Len(now) - nd + 1 = (nb - gone) + 1 /\ Len(now) = np
      BY <1>1
    <3>2. \A i \in (nb - gone) + 1 .. np : i \in 1 .. np /\ ~(i + gone <= nb)
      BY <1>1
    <3> QED
      BY <3>1, <3>2
  <2>5. ASSUME NEW i \in Len(now) - nd + 1 .. Len(now), NEW j \in Len(now) - nd + 1 .. Len(now), i < j,
               NEW e \in now[i], NEW f \in now[j]
        PROVE  e[2][2] <= f[2][2]
    <3>1. i \in 1 .. np /\ j \in 1 .. np /\ ~(i + gone <= nb) /\ ~(j + gone <= nb)
      BY <2>9
    <3>2. i + gone - nb < j + gone - nb
      BY <3>1, <2>5, <1>1
    <3> QED
      BY <3>1, <3>2, <1>3, <1>5
  <2>6. nd # 0
    BY <1>1
  <2>7. ASSUME reason = "compound-by-parts", nd < MaxPanels, NEW k \in DOMAIN t.prompt.parts
        PROVE  \E i \in DOMAIN now : \E e \in now[i] : e[2] = <<turns, k>>
    <3>1. PICK j \in 1 .. nd : \A e \in Shown(draft)[j] : e[2] = <<turns, k>>
      BY <2>7 DEF Has, nd
    <3>2. (j + nb - gone) \in 1 .. np /\ ~((j + nb - gone) + gone <= nb) /\ (j + nb - gone) + gone - nb = j
      BY <1>1, <2>2
    <3>3. now[j + nb - gone] = Shown(draft)[j]
      BY <1>2, <3>2
    <3> QED
      BY <1>1, <2>1, <3>1, <3>2, <3>3
  <2>8. old = IF t.revising THEN Shown(onScreen) ELSE <<>>
    BY DEF Keeps
  <2> QED
    BY <2>2, <2>3, <2>4, <2>5, <2>6, <2>7, <2>8 DEF Adds, now
<1> QED
  BY <1>6, <1>7, <1>8, <1>9 DEF np, nd, now
(* A draft the rules place is right: it stands, and keeps the view. *)
Older(plan) == \A r \in Requests(plan) : r.ask[1] < turns
Placeable(t, draft, reason) ==
    /\ Draft(draft) /\ InOrder(draft) /\ \E n \in Nat : About(draft, 1 .. n)
    /\ reason = "compound-by-parts" /\ Len(draft.panels) < MaxPanels =>
           \A k \in DOMAIN t.prompt.parts : Has(draft, k)

LEMMA PlacedIs ==
    ASSUME NEW t, t.revising \in BOOLEAN, t.revising <=> RevisionByRules(Stage(t)), turns \in Nat,
           t.revising => onScreen \in Plans /\ Valid(onScreen) /\ Older(onScreen),
           NEW draft, NEW reason, Placeable(t, draft, reason), placed(t, draft) # Nil
    PROVE  LET plan == placed(t, draft)
           IN  /\ plan \in Plans
               /\ \A r \in Requests(plan) : r.ask[1] <= turns
               /\ \A i \in 1 .. Len(plan.panels) : \A e \in Shown(plan)[i] :
                    Fresh(e, turns) => \E j \in 1 .. Len(draft.panels) : e \in Shown(draft)[j]
               /\ Valid(plan) \/ Nothing \in Bound(plan.panels)
               /\ Valid(plan) => Adds(t, onScreen, plan, reason, turns)
<1> DEFINE plan == placed(t, draft)
           old == IF t.revising THEN Shown(onScreen) ELSE <<>>
           Joined == \E gone : Joins(plan, draft, old, gone)
<1>1. Draft(plan) /\ old \in Seq(SUBSET Pairs) /\ Joined /\ Keeps(t, old)
  <2>1. CASE t.revising
    <3>1. onScreen \in Plans /\ Valid(onScreen) /\ Older(onScreen) /\ old = Shown(onScreen)
      BY <2>1
    <3>2. plan = appendDraft(onScreen, draft) /\ ~onScreen.composed
      BY <2>1 DEF placed, mergeIntoPlan
    <3>3. Draft(onScreen) /\ Draft(draft)
      BY <3>1, <3>2, ValidIs DEF Placeable
    <3>4. /\ old \in Seq(SUBSET Pairs) /\ Len(old) = Len(onScreen.panels)
          /\ \A i \in 1 .. Len(old) : old[i] = {<<r.cap, r.ask>> : r \in {q \in Requests(onScreen) : q.id = onScreen.panels[i].req}}
      BY <3>1, ShownIs
    <3>5. Joins(plan, draft, old, Leaving(onScreen, draft))
      <4>1. /\ Draft(plan)
            /\ Len(plan.panels) = Len(onScreen.panels) + Len(draft.panels) - Leaving(onScreen, draft)
            /\ \A i \in 1 .. Len(plan.panels) :
                 Shown(plan)[i] = IF i + Leaving(onScreen, draft) <= Len(onScreen.panels)
                                  THEN Shown(onScreen)[i + Leaving(onScreen, draft)]
                                  ELSE Shown(draft)[i + Leaving(onScreen, draft) - Len(onScreen.panels)]
        BY <3>2, <3>3, AppendIs
      <4>2. Leaving(onScreen, draft) = IF Len(old) + Len(draft.panels) > MaxPanels
                                       THEN Len(old) + Len(draft.panels) - MaxPanels ELSE 0
        BY <3>4 DEF Leaving
      <4> HIDE DEF plan, old
      <4> QED
        BY <4>1, <4>2, <3>1, <3>4 DEF Joins
    <3>6. Draft(plan)
      BY <3>2, <3>3, AppendIs
    <3>7. Keeps(t, old)
      BY <3>1, <3>4 DEF Keeps, Older
    <3> HIDE DEF plan, old
    <3> QED
      BY <3>4, <3>5, <3>6, <3>7
  <2>2. CASE ~t.revising
    <3>1. plan = draft /\ old = <<>>
      BY <2>2 DEF placed
    <3>2. Draft(draft)
      BY DEF Placeable
    <3>3. Keeps(t, old) /\ old \in Seq(SUBSET Pairs) /\ Len(old) = 0
      <4>1. old = IF t.revising THEN Shown(onScreen) ELSE <<>>
        OBVIOUS
      <4> HIDE DEF old
      <4> QED
        BY <3>1, <4>1 DEF Keeps
    <3>4. Len(draft.panels) \in Nat /\ Len(draft.panels) <= MaxPanels
      BY <3>2, SystemOneAssumption DEF Draft
    <3> HIDE DEF plan, old
    <3>5. Joins(plan, draft, old, 0)
      BY <3>1, <3>3, <3>4, SystemOneAssumption DEF Joins
    <3> QED
      BY <3>1, <3>2, <3>3, <3>5
  <2> QED
    BY <2>1, <2>2
<1>2. PICK gone : Joins(plan, draft, old, gone)
  BY <1>1
<1>3. PICK n \in Nat : About(draft, 1 .. n)
  BY DEF Placeable
<1>4. /\ Draft(draft) /\ InOrder(draft)
      /\ reason = "compound-by-parts" /\ Len(draft.panels) < MaxPanels =>
             \A k \in DOMAIN t.prompt.parts : Has(draft, k)
  BY DEF Placeable
<1>5. plan \in Plans
  BY <1>1 DEF Draft
<1> HIDE DEF plan, old
<1>6. /\ \A r \in Requests(plan) : r.ask[1] <= turns
      /\ \A i \in 1 .. Len(plan.panels) : \A e \in Shown(plan)[i] :
           Fresh(e, turns) => \E j \in 1 .. Len(draft.panels) : e \in Shown(draft)[j]
      /\ Valid(plan) \/ Nothing \in Bound(plan.panels)
      /\ Valid(plan) => Adds(t, onScreen, plan, reason, turns)
  BY <1>1, <1>2, <1>3, <1>4, JoinedAdds
<1> QED
  BY <1>5, <1>6 DEF plan

(* What the rules answer is right: it is typed, it stands, and if it validates it
   answers the prompt and keeps the view. *)
Right(t, a, before, serial) ==
    a.kind = "ready" =>
        /\ a.plan \in Plans /\ \A r \in Requests(a.plan) : r.ask[1] <= serial
        /\ a.by = "rules" =>
             /\ \/ Valid(a.plan)
                \/ Nothing \in Bound(a.plan.panels)
                \/ a.reason = "presentation" /\ before.composed
             /\ Valid(a.plan) => /\ WholeAndUnguarded(t.prompt, a.plan, a.reason, serial)
                                 /\ Adds(t, before, a.plan, a.reason, serial)

(* The view shown another way keeps every panel. *)
LEMMA PresentedIs ==
    ASSUME NEW t, t.revising = TRUE, t.prompt \in Prompts, t.prompt.cue, turns \in Nat,
           onScreen \in Plans, Valid(onScreen), Older(onScreen)
    PROVE  Right(t, Ready(representLastPanel(onScreen), "presentation"), onScreen, turns) \/ representLastPanel(onScreen) = Nil
<1> DEFINE plan == [onScreen EXCEPT !.composed = FALSE]
           a == Ready(plan, "presentation")
           now == Shown(plan)
           np == Len(plan.panels)
<1> SUFFICES Right(t, Ready(plan, "presentation"), onScreen, turns)
  BY DEF representLastPanel
<1>1. plan \in Plans /\ plan.panels = onScreen.panels /\ plan.requests = onScreen.requests /\ plan.composed = FALSE
  BY DEF Plans
<1>2. a.kind = "ready" /\ a.by = "rules" /\ a.reason = "presentation" /\ a.plan = plan
  BY DEF Ready, Answer
<1> HIDE DEF plan, a
<1>3. Requests(plan) = Requests(onScreen) /\ Shown(plan) = Shown(onScreen)
  BY <1>1 DEF Requests, Shown
<1>4. \A r \in Requests(plan) : r.ask[1] < turns /\ r.ask[1] <= turns
  <2>1. \A r \in Requests(plan) : r.ask[1] \in Nat
    BY <1>1, ShownIs
  <2> QED
    BY <1>3, <2>1 DEF Older
<1>5. Valid(plan) \/ onScreen.composed
  BY <1>1, <1>3 DEF Valid, RequestIds
<1>6. /\ now \in Seq(SUBSET Pairs) /\ Len(now) = np /\ DOMAIN now = 1 .. np
      /\ np \in 1 .. MaxPanels /\ MaxPanels \in Nat
      /\ \A i \in 1 .. np : \A e \in now[i] : ~Fresh(e, turns)
  <2>1. now \in Seq(SUBSET Pairs) /\ Len(now) = np /\ np \in Nat
    BY <1>1, ShownIs
  <2>2. np \in 1 .. MaxPanels /\ MaxPanels \in Nat
    BY <1>1, SystemOneAssumption DEF Valid
  <2>3. ASSUME NEW i \in 1 .. np, NEW e \in now[i] PROVE ~Fresh(e, turns)
    <3>1. now[i] = {<<r.cap, r.ask>> : r \in {q \in Requests(plan) : q.id = plan.panels[i].req}}
      BY <1>1, ShownIs
    <3>2. PICK r \in Requests(plan) : e = <<r.cap, r.ask>>
      BY <2>3, <3>1
    <3>3. r.ask[1] \in Nat /\ r.ask[1] < turns
      BY <1>1, <1>4, ShownIs
    <3> QED
      BY <3>2, <3>3 DEF Fresh
  <2>4. DOMAIN now = 1 .. np
    BY <2>1
  <2> QED
    BY <2>1, <2>2, <2>3, <2>4
<1>7. Adds(t, onScreen, plan, "presentation", turns)
  <2> HIDE DEF now, np
  <2>1. 0 \in 0 .. Len(now) /\ Len(now) - 0 = Len(now) /\ MaxPanels - 0 = MaxPanels
    BY <1>6
  <2>2. \A i \in DOMAIN now : (i > Len(now) - 0) <=> (\E e \in now[i] : Fresh(e, turns))
    BY <1>6
  <2>3. SubSeq(now, 1, Len(now) - 0) = Newest(now, MaxPanels - 0)
    BY <1>6, <2>1 DEF Newest
  <2>4. \A i, j \in Len(now) - 0 + 1 .. Len(now) : FALSE
    BY <1>6
  <2>5. now = Shown(plan) /\ now = IF t.revising THEN Shown(onScreen) ELSE <<>>
    BY <1>3 DEF now
  <2> QED
    BY <2>1, <2>2, <2>3, <2>4, <2>5 DEF Adds
<1>8. WholeAndUnguarded(t.prompt, plan, "presentation", turns)
  BY PromptsAssumption DEF WholeAndUnguarded
<1> QED
  BY <1>1, <1>2, <1>4, <1>5, <1>7, <1>8 DEF Right, a
-----------------------------------------------------------------------------
(* SystemOne: what a route leaves to be drafted. *)
Stages == {"initial", "revision", "repair", "clarification-answer"}

LEMMA RouteOneIs ==
    ASSUME NEW p, NEW at \in Stages, NEW d \in Decisions, NEW host \in HostRules
    PROVE  LET route == routeOne(p, at, d, host)
           IN  /\ route.reason \in Reasons
               /\ route.path = "fast" =>
                    /\ route.cap \in Caps /\ guardPrompt(p, route.cap) = Nil /\ HostStage(at)
                    /\ route.reason \notin {"compound-by-parts", "presentation"}
               /\ route.reason = "compound-prompt" => ~p.flagged /\ HostStage(at)
<1> DEFINE Good(route) ==
        /\ route.reason \in Reasons
        /\ route.path = "fast" =>
             /\ route.cap \in Caps /\ guardPrompt(p, route.cap) = Nil /\ HostStage(at)
             /\ route.reason \notin {"compound-by-parts", "presentation"}
        /\ route.reason = "compound-prompt" => ~p.flagged /\ HostStage(at)
<1> USE NilAssumption DEF Reasons
<1>1. /\ \A reason : Defer(reason).reason = reason /\ Defer(reason).path # "fast"
      /\ \A reason, cap : Fast(reason, cap).reason = reason /\ Fast(reason, cap).cap = cap
  BY DEF Defer, Fast
<1>2. \A reason \in Reasons : reason # "compound-prompt" => Good(Defer(reason))
  BY <1>1
<1>3. ASSUME NEW cap, guardPrompt(p, cap) # Nil, HostStage(at) PROVE Good(Defer(guardPrompt(p, cap)))
  <2>1. \/ guardPrompt(p, cap) = "flagged"
        \/ guardPrompt(p, cap) = "compound-prompt" /\ ~p.flagged
    BY <1>3 DEF guardPrompt
  <2> QED
    BY <2>1, <1>1, <1>3
<1>4. ASSUME NEW cap \in Caps, guardPrompt(p, cap) = Nil, HostStage(at)
      PROVE  Good(Fast("host-override", cap)) /\ Good(Fast("confident", cap))
  BY <1>1, <1>4
<1>5. ASSUME NEW path, path # "fast", NEW reason \in Reasons, reason # "compound-prompt", NEW cap
      PROVE  Good([path |-> path, reason |-> reason, cap |-> cap])
  BY <1>5
<1>6. d.cap # Nil => d.cap \in Caps
  <2>1. CASE d \in {[ok |-> FALSE, cap |-> Nil, confidence |-> 0, inScope |-> FALSE]}
    BY <2>1
  <2>2. CASE d \in [ok : {TRUE}, cap : Caps \cup {Nil}, confidence : Confidences, inScope : BOOLEAN]
    BY <2>2
  <2> QED
    BY <2>1, <2>2 DEF Decisions
<1>7. (at # "initial" => at \in Reasons) /\ at # "compound-prompt"
  BY DEF Stages
<1> HIDE DEF Good
<1>8. Good(routeSystemOne(p, at, d))
  <2>1. CASE at = "initial" \/ RevisionByRules(at)
    <3>1. HostStage(at)
      BY <2>1 DEF HostStage
    <3> QED
      BY <3>1, <2>1, <1>2, <1>3, <1>4, <1>5, <1>6 DEF routeSystemOne
  <2>2. CASE at # "initial" /\ ~RevisionByRules(at)
    BY <2>2, <1>2, <1>7 DEF routeSystemOne
  <2> QED
    BY <2>1, <2>2
<1>9. ASSUME host \in Caps, HostStage(at) PROVE Good(overridden(p, host))
  BY <1>9, <1>3, <1>4 DEF overridden
<1>10. Good(routeOne(p, at, d, host))
  BY <1>5, <1>8, <1>9 DEF routeOne
<1> QED
  BY <1>10 DEF Good

LEMMA ChosenIs ==
    ASSUME NEW p, NEW at \in Stages, NEW cap \in Caps
    PROVE  LET route == routeChosenCapability(p, at, cap)
           IN  /\ route.reason \in Reasons
               /\ route.path = "fast" =>
                    /\ route.cap = cap /\ guardPrompt(p, cap) = Nil
                    /\ at \in {"initial", "clarification-answer"} \/ RevisionByRules(at)
                    /\ route.reason \notin {"compound-by-parts", "presentation"}
<1>1. /\ \A reason : Defer(reason).reason = reason /\ Defer(reason).path # "fast"
      /\ Fast("chosen", cap).reason = "chosen" /\ Fast("chosen", cap).cap = cap
  BY DEF Defer, Fast
<1>2. guardPrompt(p, cap) # Nil => guardPrompt(p, cap) \in Reasons
  BY DEF guardPrompt, Reasons
<1>3. at # "initial" => at \in Reasons
  BY DEF Stages, Reasons
<1> QED
  BY <1>1, <1>2, <1>3 DEF routeChosenCapability, Reasons

LEMMA StageIs ==
    ASSUME NEW t, t.revising \in BOOLEAN
    PROVE  /\ Stage(t) \in Stages
           /\ Stage(t) \in {"initial", "clarification-answer"} \/ RevisionByRules(Stage(t)) =>
                (t.revising <=> RevisionByRules(Stage(t)))
           /\ RevisionByRules(Stage(t)) => t.revising
  BY DEF Stage, Stages, RevisionByRules

LEMMA CandidatesAre ==
    ASSUME NEW pick, NEW caps, NEW c \in systemOneCandidates(pick, caps)
    PROVE  c \subseteq caps
  BY DEF systemOneCandidates

LEMMA AnswersTyped ==
    ASSUME NEW reason \in Reasons
    PROVE  /\ Refusal(reason) \in ProviderAnswers /\ Refusal(reason).kind # "ready"
           /\ AskModel(reason) \in ProviderAnswers /\ AskModel(reason).kind # "ready"
           /\ \A c \in SUBSET Caps : Question(c, reason) \in ProviderAnswers /\ Question(c, reason).kind # "ready"
           /\ \A plan \in Plans :
                /\ Ready(plan, reason) \in ProviderAnswers
                /\ Ready(plan, reason).plan = plan /\ Ready(plan, reason).reason = reason
  BY DEF Refusal, AskModel, Question, Ready, Answer, ProviderAnswers

(* What a route is carried out with. *)
GoodRoute(t, route) ==
    /\ route.reason \in Reasons
    /\ route.path = "fast" =>
         /\ route.cap \in Caps /\ guardPrompt(t.prompt, route.cap) = Nil
         /\ route.reason \notin {"compound-by-parts", "presentation"}
         /\ t.revising <=> RevisionByRules(Stage(t))

LEMMA SettleIs ==
    ASSUME NEW t, t.revising \in BOOLEAN, turns \in Nat,
           t.revising => onScreen \in Plans /\ Valid(onScreen) /\ Older(onScreen),
           NEW route, GoodRoute(t, route), NEW a \in settle(t, route)
    PROVE  a \in ProviderAnswers /\ Right(t, a, onScreen, turns)
<1>1. route.reason \in Reasons
  BY DEF GoodRoute
<1>2. \A x : x.kind # "ready" => Right(t, x, onScreen, turns)
  BY DEF Right
<1>5. "revision" \in Reasons /\ "no-draft" \in Reasons /\ "low-confidence" \in Reasons
  BY DEF Reasons
<1>3. CASE route.path = "fast"
  <2>1. /\ route.cap \in Caps /\ guardPrompt(t.prompt, route.cap) = Nil
        /\ route.reason \notin {"compound-by-parts", "presentation"}
        /\ t.revising <=> RevisionByRules(Stage(t))
    BY <1>3 DEF GoodRoute
  <2>2. PICK draft \in draftFor(t.prompt, route.cap, <<turns, 1>>) :
            \/ draft # Nil /\ a \in {IF placed(t, draft) = Nil THEN Refusal("revision")
                                     ELSE Ready(placed(t, draft), route.reason)}
            \/ a = AskModel("no-draft") \/ a = Refusal("no-draft")
            \/ \E c \in systemOneCandidates(route.cap, Caps \ {route.cap}) : a = Question(c, "no-draft")
    BY <1>3 DEF settle
  <2>3. CASE draft # Nil /\ placed(t, draft) # Nil /\ a = Ready(placed(t, draft), route.reason)
    <3> DEFINE plan == placed(t, draft)
    <3>1. <<turns, 1>> \in Nat \X Nat
      OBVIOUS
    <3>2. Draft(draft) /\ \A i \in 1 .. Len(draft.panels) : Shown(draft)[i] \subseteq {<<route.cap, <<turns, 1>> >>}
      BY <2>1, <2>3, <3>1, DraftForIs
    <3>3. Placeable(t, draft, route.reason)
      <4>1. InOrder(draft)
        BY <3>2 DEF InOrder
      <4>2. About(draft, 1 .. 1)
        BY <3>2 DEF About
      <4> QED
        BY <2>1, <3>2, <4>1, <4>2 DEF Placeable
    <3>4. /\ plan \in Plans
          /\ \A r \in Requests(plan) : r.ask[1] <= turns
          /\ \A i \in 1 .. Len(plan.panels) : \A e \in Shown(plan)[i] :
               Fresh(e, turns) => \E j \in 1 .. Len(draft.panels) : e \in Shown(draft)[j]
          /\ Valid(plan) \/ Nothing \in Bound(plan.panels)
          /\ Valid(plan) => Adds(t, onScreen, plan, route.reason, turns)
      BY <2>1, <2>3, <3>3, PlacedIs
    <3> HIDE DEF plan
    <3>5. WholeAndUnguarded(t.prompt, plan, route.reason, turns)
      <4>1. ~t.prompt.flagged /\ (t.prompt.conj => route.cap \in FreeText \cup t.prompt.paired)
        BY <2>1, SystemOneAssumption, NilAssumption DEF guardPrompt, Reasons
      <4>2. ASSUME NEW s \in Range(Shown(plan)), NEW e \in s, Fresh(e, turns) PROVE e[1] = route.cap
        <5>1. DOMAIN Shown(plan) = 1 .. Len(plan.panels)
          BY <3>4 DEF Shown
        <5>2. PICK i \in 1 .. Len(plan.panels) : s = Shown(plan)[i]
          BY <5>1 DEF Range
        <5>3. PICK j \in 1 .. Len(draft.panels) : e \in Shown(draft)[j]
          BY <5>2, <4>2, <3>4
        <5> QED
          BY <5>3, <3>2
      <4> QED
        BY <2>1, <4>1, <4>2 DEF WholeAndUnguarded
    <3>6. /\ a \in ProviderAnswers /\ a.plan = plan /\ a.reason = route.reason
      BY <1>1, <2>3, <3>4, AnswersTyped DEF plan
    <3> QED
      BY <3>4, <3>5, <3>6 DEF Right
  <2>4. CASE ~(draft # Nil /\ placed(t, draft) # Nil /\ a = Ready(placed(t, draft), route.reason))
    <3>1. \/ a = Refusal("revision") \/ a = AskModel("no-draft") \/ a = Refusal("no-draft")
          \/ \E c \in SUBSET Caps : a = Question(c, "no-draft")
      BY <2>2, <2>4, CandidatesAre
    <3> QED
      BY <3>1, <1>2, <1>5, AnswersTyped
  <2> QED
    BY <2>3, <2>4
<1>4. CASE route.path # "fast"
  <2>1. \/ a = Refusal("low-confidence") \/ a = AskModel(route.reason) \/ a = Refusal(route.reason)
        \/ \E c \in systemOneCandidates(route.cap, Caps) : a = Question(c, route.reason)
    BY <1>4 DEF settle
  <2> QED
    BY <1>1, <1>2, <1>5, <2>1, AnswersTyped, CandidatesAre
<1> QED
  BY <1>3, <1>4
(* A prompt answered by its parts. *)
LEMMA CompoundIs ==
    ASSUME NEW t, t.revising \in BOOLEAN, t.revising <=> RevisionByRules(Stage(t)), turns \in Nat,
           t.revising => onScreen \in Plans /\ Valid(onScreen) /\ Older(onScreen),
           t.prompt \in Prompts, ~t.prompt.flagged, t.prompt.parts # <<>>,
           t.routes \in Seq(Caps \cup {Nil}), Len(t.routes) = Len(t.prompt.parts),
           \A k \in 1 .. Len(t.routes) : t.routes[k] # Nil => ~t.prompt.parts[k].flagged,
           NEW drafts \in PartDrafts(t.prompt.parts, t.routes), compoundByParts(t, drafts) # Nil
    PROVE  LET plan == compoundByParts(t, drafts)
           IN  plan \in Plans /\ Right(t, Ready(plan, "compound-by-parts"), onScreen, turns)
<1> DEFINE plan == compoundByParts(t, drafts)
           n == Len(t.prompt.parts)
           parts == t.prompt.parts
           routes == t.routes
           PartDraft(k) == IF routes[k] = Nil THEN {Nil} ELSE draftFor(parts[k], routes[k], <<turns, k>>)
           all == UNION {PartDraft(k) : k \in DOMAIN parts}
<1>1. n \in Nat \ {0} /\ DOMAIN parts = 1 .. n
  <2>1. parts \in Seq(Range(parts)) /\ parts # <<>>
    BY PromptsAssumption
  <2> HIDE DEF parts
  <2> QED
    BY <2>1 DEF parts
<1>2. /\ drafts \in [1 .. n -> all]
      /\ \A k \in 1 .. n : drafts[k] \in PartDraft(k)
  BY <1>1 DEF PartDrafts
<1>3. Nil \notin Range(drafts) /\ plan = placed(t, Merged(drafts))
  BY DEF compoundByParts
<1>4. \A k \in 1 .. n : drafts[k] # Nil
  BY <1>2, <1>3 DEF Range
<1>5. Len(drafts) = n
  <2> HIDE DEF all, n
  <2> QED
    BY <1>1, <1>2, ListIs
<1>6. ASSUME NEW k \in 1 .. n
      PROVE  routes[k] \in Caps /\ ~parts[k].flagged /\ Draft(drafts[k]) /\ About(drafts[k], {k})
  <2>1. routes[k] # Nil /\ drafts[k] \in draftFor(parts[k], routes[k], <<turns, k>>)
    BY <1>2, <1>4
  <2>2. routes[k] \in Caps /\ ~parts[k].flagged
    BY <2>1
  <2>3. <<turns, k>> \in Nat \X Nat
    OBVIOUS
  <2>4. /\ Draft(drafts[k])
        /\ \A i \in 1 .. Len(drafts[k].panels) : Shown(drafts[k])[i] \subseteq {<<routes[k], <<turns, k>> >>}
    BY <1>4, <2>1, <2>2, <2>3, DraftForIs
  <2>5. About(drafts[k], {k})
    BY <2>4 DEF About
  <2> QED
    BY <2>2, <2>4, <2>5
<1>7. Answers1To(Merged(drafts), n)
  <2> HIDE DEF n
  <2> QED
    BY <1>1, <1>4, <1>5, <1>6, MergedIs
<1>8. Placeable(t, Merged(drafts), "compound-by-parts")
  <2> HIDE DEF n
  <2> QED
    BY <1>1, <1>7 DEF Placeable, Answers1To
<1>9. /\ plan \in Plans
      /\ \A r \in Requests(plan) : r.ask[1] <= turns
      /\ Valid(plan) \/ Nothing \in Bound(plan.panels)
      /\ Valid(plan) => Adds(t, onScreen, plan, "compound-by-parts", turns)
  <2>1. placed(t, Merged(drafts)) # Nil
    BY <1>3
  <2> HIDE DEF plan
  <2> QED
    BY <1>3, <1>8, <2>1, PlacedIs
<1>10. WholeAndUnguarded(t.prompt, plan, "compound-by-parts", turns)
  <2>1. \A q \in Range(t.prompt.parts) : ~q.flagged
    BY <1>1, <1>6 DEF Range
  <2> QED
    BY <2>1 DEF WholeAndUnguarded
<1> DEFINE a == Ready(plan, "compound-by-parts")
<1>11. a.plan = plan /\ a.reason = "compound-by-parts"
  BY DEF Ready, Answer
<1> QED
  BY <1>9, <1>10, <1>11 DEF Right, plan, a

(* What a language model writes. *)
LEMMA ModelPlansAre ==
    ASSUME NEW about \in Nat \X Nat, NEW plan \in ModelPlans(about)
    PROVE  plan \in Plans /\ \A r \in Requests(plan) : r.ask = about
<1> DEFINE Req == [id : Nat \ {0}, cap : Caps, ask : Nat \X Nat]
           Pan == [node : Nat \ {0}, req : Int]
           made(n, cap) == [id |-> n, cap |-> cap, ask |-> about]
           panel(n, req) == [node |-> n, req |-> req]
           drawn(r, s, c) == [requests |-> r, panels |-> s, composed |-> c]
<1>1. \A n \in {2, 3}, cap \in Caps : made(n, cap) \in Req /\ made(n, cap).ask = about
  OBVIOUS
<1>2. \A n \in {1, 2, 3}, q \in Int : panel(n, q) \in Pan
  OBVIOUS
<1>3. /\ \A r, s, c : drawn(r, s, c).requests = r
      /\ \A r \in Seq(Req), s \in Seq(Pan), c \in BOOLEAN : drawn(r, s, c) \in Plans
  BY DEF Plans
<1>4. \/ \E cap \in Caps : plan = drawn(<<made(2, cap)>>, <<panel(2, 2)>>, FALSE)
      \/ \E cap \in Caps : plan = drawn(<<made(3, cap)>>, <<panel(3, Composed), panel(1, 3)>>, TRUE)
      \/ \E cap \in Caps : plan = drawn(<<made(3, cap)>>, <<panel(3, Composed)>>, TRUE)
      \/ plan = drawn(<<>>, <<panel(1, 1)>>, FALSE)
  BY DEF ModelPlans
<1>5. Composed \in Int
  BY DEF Composed
<1> HIDE DEF Req, Pan, made, panel, drawn
<1>6. /\ <<panel(2, 2)>> \in Seq(Pan) /\ <<panel(3, Composed), panel(1, 3)>> \in Seq(Pan)
      /\ <<panel(3, Composed)>> \in Seq(Pan) /\ <<panel(1, 1)>> \in Seq(Pan)
  BY <1>2, <1>5, SingleIs, PairIs
<1>7. \A n \in {2, 3}, cap \in Caps :
        /\ <<made(n, cap)>> \in Seq(Req) /\ Range(<<made(n, cap)>>) = {made(n, cap)}
  BY <1>1, SingleIs
<1>8. <<>> \in Seq(Req) /\ Range(<<>>) = {}
  BY NoneIs
<1>9. ASSUME NEW cap \in Caps, NEW n \in {2, 3}, NEW s \in Seq(Pan), NEW c \in BOOLEAN,
             plan = drawn(<<made(n, cap)>>, s, c)
      PROVE  plan \in Plans /\ \A r \in Requests(plan) : r.ask = about
  <2>1. plan.requests = <<made(n, cap)>> /\ plan \in Plans
    BY <1>3, <1>7, <1>9
  <2>2. Requests(plan) = {made(n, cap)}
    BY <1>7, <2>1 DEF Requests
  <2> QED
    BY <1>1, <2>1, <2>2
<1>10. ASSUME plan = drawn(<<>>, <<panel(1, 1)>>, FALSE)
       PROVE  plan \in Plans /\ \A r \in Requests(plan) : r.ask = about
  <2>1. plan.requests = <<>> /\ plan \in Plans
    BY <1>3, <1>6, <1>8, <1>10
  <2> QED
    BY <1>8, <2>1 DEF Requests
<1> QED
  BY <1>4, <1>6, <1>9, <1>10

LEMMA ModelAnswersAre ==
    ASSUME turns \in Nat, NEW t, NEW a \in ModelAnswers(<<turns, 1>>)
    PROVE  a \in ProviderAnswers /\ a.kind # "asking" /\ Right(t, a, onScreen, turns)
<1>1. "fallback" \in Reasons
  BY DEF Reasons
<1>2. <<turns, 1>> \in Nat \X Nat
  OBVIOUS
<1>3. CASE \E plan \in ModelPlans(<<turns, 1>>) : a = Answer("ready", "model", "fallback", plan, {})
  <2>1. PICK plan \in ModelPlans(<<turns, 1>>) : a = Answer("ready", "model", "fallback", plan, {})
    BY <1>3
  <2>2. plan \in Plans /\ \A r \in Requests(plan) : r.ask = <<turns, 1>>
    BY <1>2, ModelPlansAre
  <2>3. \A r \in Requests(plan) : r.ask[1] <= turns
    BY <2>2
  <2>4. a.kind = "ready" /\ a.by = "model" /\ a.plan = plan /\ a \in ProviderAnswers
    BY <1>1, <2>1, <2>2 DEF Answer, ProviderAnswers
  <2> QED
    BY <2>2, <2>3, <2>4 DEF Right
<1>4. CASE \E kind \in {"unsupported", "needs-clarification", "error"} : a = Answer(kind, "model", "fallback", Nil, {})
  <2>1. a \in ProviderAnswers /\ a.kind \notin {"asking", "ready"}
    BY <1>1, <1>4 DEF Answer, ProviderAnswers
  <2> QED
    BY <2>1 DEF Right
<1> QED
  BY <1>3, <1>4 DEF ModelAnswers
-----------------------------------------------------------------------------
(* SystemOne: the inductive invariant.  A view on screen is older than the compose
   under way, a prompt is split only when the rules plan alone, for the first time
   and past every guard, and an answer is right from when it is given to when it is
   read. *)
ViewOlder ==
    onScreen # Nil => \A r \in Requests(onScreen) : r.ask[1] <= turns /\ (turn # Nil => r.ask[1] < turns)
SplitUnguarded ==
    turn # Nil =>
        /\ turn.step \in {"start", "deciding"} => turn.routes = <<>>
        /\ turn.step = "parts" =>
             /\ mode = "rules" /\ turn.attempt = 0
             /\ ~turn.prompt.flagged /\ turn.prompt.parts # <<>>
             /\ Len(turn.routes) <= Len(turn.prompt.parts)
             /\ \A k \in 1 .. Len(turn.routes) : turn.routes[k] # Nil => ~turn.prompt.parts[k].flagged
AnsweredRight ==
    turn # Nil /\ turn.step = "answered" => Right(turn, turn.answer, onScreen, turns)
ConversationInv == ConversationTyped /\ ViewOlder /\ SplitUnguarded /\ AnsweredRight

Turns ==
    [prompt : Prompts, chosen : Caps \cup {Nil}, answering : BOOLEAN,
     revising : BOOLEAN, attempt : 0 .. MaxRepairs,
     step : {"start", "deciding", "parts", "asking", "answered"},
     routes : Seq(Caps \cup {Nil}), answer : {Nil} \cup ProviderAnswers]

LEMMA RightSame ==
    ASSUME NEW t, NEW u, u.prompt = t.prompt, u.revising = t.revising,
           NEW a, NEW before, NEW serial, Right(t, a, before, serial)
    PROVE  Right(u, a, before, serial)
<1>1. \A plan, reason : Adds(t, before, plan, reason, serial) => Adds(u, before, plan, reason, serial)
  BY ZenonT(40) DEF Adds
<1> QED
  BY <1>1 DEF Right

LEMMA TurnIs ==
    ASSUME ConversationInv, turn # Nil
    PROVE  /\ turns \in Nat /\ turn \in Turns
           /\ turn.revising => onScreen # Nil /\ onScreen \in Plans /\ Valid(onScreen) /\ Older(onScreen)
<1>1. turns \in Nat
  BY SystemOneAssumption DEF ConversationInv, ConversationTyped
<1>2. turn \in Turns /\ (turn.revising => onScreen # Nil) /\ (onScreen # Nil => onScreen \in Plans /\ Valid(onScreen))
  BY DEF ConversationInv, ConversationTyped, Turns
<1>3. onScreen # Nil => Older(onScreen)
  BY DEF ConversationInv, ViewOlder, Older
<1> QED
  BY <1>1, <1>2, <1>3

(* A step of a turn that leaves the view alone. *)
LEMMA TurnGoesOn ==
    ASSUME ConversationInv, turn # Nil, UNCHANGED <<mode, onScreen, question, reply, turns>>,
           NEW next \in Turns, turn' = next, next.prompt = turn.prompt, next.revising = turn.revising,
           next.step = "answered" => next.answer \in ProviderAnswers /\ Right(turn, next.answer, onScreen, turns),
           next.step \in {"start", "deciding"} => next.routes = <<>>,
           next.step = "parts" =>
               /\ mode = "rules" /\ next.attempt = 0
               /\ ~turn.prompt.flagged /\ turn.prompt.parts # <<>>
               /\ Len(next.routes) <= Len(turn.prompt.parts)
               /\ \A k \in 1 .. Len(next.routes) : next.routes[k] # Nil => ~turn.prompt.parts[k].flagged
    PROVE  ConversationInv'
<1>1. ConversationTyped'
  <2>1. question = Nil
    BY DEF ConversationInv, ConversationTyped
  <2>2. turn.revising => onScreen # Nil
    BY TurnIs
  <2> QED
    BY <2>1, <2>2 DEF ConversationInv, ConversationTyped, Turns
<1>2. ViewOlder'
  BY DEF ConversationInv, ViewOlder
<1>3. SplitUnguarded'
  BY DEF SplitUnguarded
<1>4. next.step = "answered" => Right(next, next.answer, onScreen, turns)
  BY RightSame
<1>5. AnsweredRight'
  BY <1>4 DEF AnsweredRight
<1> QED
  BY <1>1, <1>2, <1>3, <1>5 DEF ConversationInv

LEMMA SettledIs ==
    ASSUME ConversationInv, turn # Nil, UNCHANGED <<mode, onScreen, question, reply, turns>>,
           NEW a \in ProviderAnswers, Right(turn, a, onScreen, turns), Settled(a)
    PROVE  ConversationInv'
<1> DEFINE next == [turn EXCEPT !.step = IF a.kind = "asking" THEN "asking" ELSE "answered", !.answer = a]
<1>1. turn \in Turns
  BY TurnIs
<1>2. /\ next \in Turns /\ next.prompt = turn.prompt /\ next.revising = turn.revising
      /\ next.step \in {"asking", "answered"} /\ next.answer = a
  BY <1>1 DEF Turns
<1>3. turn' = next
  BY DEF Settled
<1> HIDE DEF next
<1> QED
  BY <1>2, <1>3, TurnGoesOn

LEMMA StartIs ==
    ASSUME ConversationInv, NEW prompt \in Prompts, NEW chosen \in Caps \cup {Nil},
           NEW answering \in BOOLEAN, NEW again \in BOOLEAN, again => onScreen # Nil,
           Start(prompt, chosen, answering, again)
    PROVE  ConversationInv'
<1> DEFINE next == [prompt |-> prompt, chosen |-> chosen, answering |-> answering,
                    revising |-> again, attempt |-> 0, step |-> "start",
                    routes |-> <<>>, answer |-> Nil]
<1>1. /\ turn = Nil /\ turns < MaxTurns /\ turns' = turns + 1 /\ turn' = next /\ question' = Nil
      /\ mode' = mode /\ onScreen' = onScreen /\ reply' = reply
  BY DEF Start
<1>2. /\ next \in Turns /\ next.revising = again /\ next.step = "start" /\ next.routes = <<>>
  BY SystemOneAssumption DEF Turns
<1> HIDE DEF next
<1>3. turns \in 0 .. MaxTurns /\ MaxTurns \in Nat
  BY SystemOneAssumption DEF ConversationInv, ConversationTyped
<1>4. ConversationTyped'
  BY <1>1, <1>2, <1>3 DEF ConversationInv, ConversationTyped, Turns
<1>5. ViewOlder'
  <2>1. ASSUME onScreen # Nil, NEW r \in Requests(onScreen) PROVE r.ask[1] <= turns' /\ r.ask[1] < turns'
    <3>1. onScreen \in Plans
      BY <2>1 DEF ConversationInv, ConversationTyped
    <3>2. r.ask[1] \in Nat /\ r.ask[1] <= turns
      BY <2>1, <3>1, ShownIs DEF ConversationInv, ViewOlder
    <3> QED
      BY <1>1, <1>3, <3>2
  <2> QED
    BY <1>1, <2>1 DEF ViewOlder
<1>6. SplitUnguarded' /\ AnsweredRight'
  BY <1>1, <1>2 DEF SplitUnguarded, AnsweredRight
<1> QED
  BY <1>4, <1>5, <1>6 DEF ConversationInv

LEMMA OpenIs ==
    ASSUME ConversationInv, OpenStored
    PROVE  ConversationInv'
<1>1. /\ turn = Nil /\ turns < MaxTurns /\ turns' = turns + 1 /\ turn' = Nil /\ question' = Nil
      /\ mode' = mode
  BY DEF OpenStored
<1>2. turns \in 0 .. MaxTurns /\ MaxTurns \in Nat
  BY SystemOneAssumption DEF ConversationInv, ConversationTyped
<1> DEFINE serial == turns + 1
<1>3. serial \in 0 .. MaxTurns /\ turns' = serial /\ <<serial, 0>> \in Nat \X Nat
  BY <1>1, <1>2
<1> HIDE DEF serial
<1>4. PICK plan \in ModelPlans(<<serial, 0>>) : Valid(plan) /\ onScreen' = plan
  BY <1>3 DEF OpenStored
<1>5. plan \in Plans /\ \A r \in Requests(plan) : r.ask = <<serial, 0>>
  BY <1>3, ModelPlansAre
<1>6. ConversationTyped'
  BY <1>1, <1>3, <1>4, <1>5 DEF ConversationInv, ConversationTyped
<1>7. ViewOlder'
  <2>1. \A r \in Requests(plan) : r.ask[1] <= serial
    BY <1>3, <1>5
  <2> QED
    BY <1>1, <1>3, <1>4, <2>1 DEF ViewOlder
<1>8. SplitUnguarded' /\ AnsweredRight'
  BY <1>1 DEF SplitUnguarded, AnsweredRight
<1> QED
  BY <1>6, <1>7, <1>8 DEF ConversationInv

LEMMA BeginIs ==
    ASSUME ConversationInv, Begin
    PROVE  ConversationInv'
<1>1. turn # Nil /\ turn.step = "start" /\ UNCHANGED <<mode, onScreen, question, reply, turns>>
  BY DEF Begin
<1>2. /\ turns \in Nat /\ turn \in Turns /\ turn.revising \in BOOLEAN /\ turn.prompt \in Prompts
      /\ turn.revising => onScreen # Nil /\ onScreen \in Plans /\ Valid(onScreen) /\ Older(onScreen)
  BY <1>1, TurnIs DEF Turns
<1>3. \A a : a.kind # "ready" => Right(turn, a, onScreen, turns)
  BY DEF Right
<1>4. "shadow" \in Reasons /\ "no-presentation" \in Reasons /\ "presentation" \in Reasons
  BY DEF Reasons
<1>5. CASE Settled(AskModel("shadow"))
  BY <1>1, <1>3, <1>4, <1>5, AnswersTyped, SettledIs
<1>6. CASE turn.chosen # Nil /\ \E answer \in settle(turn,
                routeChosenCapability(turn.prompt, Stage(turn), turn.chosen)) : Settled(answer)
  <2> DEFINE route == routeChosenCapability(turn.prompt, Stage(turn), turn.chosen)
  <2>1. turn.chosen \in Caps
    BY <1>2, <1>6 DEF Turns
  <2>2. /\ Stage(turn) \in Stages
        /\ Stage(turn) \in {"initial", "clarification-answer"} \/ RevisionByRules(Stage(turn)) =>
             (turn.revising <=> RevisionByRules(Stage(turn)))
    BY <1>2, StageIs
  <2>3. GoodRoute(turn, route)
    BY <2>1, <2>2, ChosenIs DEF GoodRoute
  <2>4. PICK a \in settle(turn, route) : Settled(a)
    BY <1>6
  <2>5. a \in ProviderAnswers /\ Right(turn, a, onScreen, turns)
    BY <1>2, <2>3, <2>4, SettleIs
  <2> QED
    BY <1>1, <2>4, <2>5, SettledIs
<1>7. CASE /\ RevisionByRules(Stage(turn)) /\ turn.prompt.cue
           /\ \E answer \in {Refusal("no-presentation")} \cup
                          (IF representLastPanel(onScreen) = Nil THEN {}
                           ELSE {Ready(representLastPanel(onScreen), "presentation")}) : Settled(answer)
  <2> DEFINE plan == representLastPanel(onScreen)
  <2>1. turn.revising = TRUE
    BY <1>2, <1>7, StageIs
  <2>2. CASE Settled(Refusal("no-presentation"))
    BY <1>1, <1>3, <1>4, <2>2, AnswersTyped, SettledIs
  <2>3. CASE plan # Nil /\ Settled(Ready(plan, "presentation"))
    <3>1. Right(turn, Ready(plan, "presentation"), onScreen, turns)
      BY <1>2, <1>7, <2>1, <2>3, PresentedIs
    <3>2. plan \in Plans
      BY <1>2, <2>1, <2>3 DEF representLastPanel, Plans
    <3>3. Ready(plan, "presentation") \in ProviderAnswers
      BY <1>4, <3>2, AnswersTyped
    <3> QED
      BY <1>1, <2>3, <3>1, <3>3, SettledIs
  <2> QED
    BY <1>7, <2>2, <2>3
<1>8. CASE turn' = [turn EXCEPT !.step = "deciding"]
  <2> DEFINE next == [turn EXCEPT !.step = "deciding"]
  <2>1. turn.routes = <<>>
    BY <1>1 DEF ConversationInv, SplitUnguarded
  <2>2. /\ next \in Turns /\ next.prompt = turn.prompt /\ next.revising = turn.revising
        /\ next.step = "deciding" /\ next.routes = <<>>
    BY <1>2, <2>1 DEF Turns
  <2>3. turn' = next
    BY <1>8
  <2> HIDE DEF next
  <2> QED
    BY <1>1, <2>2, <2>3, TurnGoesOn
<1> QED
  BY <1>5, <1>6, <1>7, <1>8 DEF Begin

LEMMA DecideIs ==
    ASSUME ConversationInv, Decide
    PROVE  ConversationInv'
<1>1. turn # Nil /\ turn.step = "deciding" /\ UNCHANGED <<mode, onScreen, question, reply, turns>>
  BY DEF Decide
<1>2. /\ turns \in Nat /\ turn \in Turns /\ turn.revising \in BOOLEAN
      /\ turn.revising => onScreen # Nil /\ onScreen \in Plans /\ Valid(onScreen) /\ Older(onScreen)
  BY <1>1, TurnIs DEF Turns
<1>3. PICK d \in Decisions, host \in HostRules :
        LET route == routeOne(turn.prompt, Stage(turn), d, host)
        IN IF route.reason = "compound-prompt" /\ ~HasFallback /\ turn.prompt.parts # <<>>
           THEN turn' = [turn EXCEPT !.step = "parts"]
           ELSE \E answer \in settle(turn, route) : Settled(answer)
  BY DEF Decide
<1> DEFINE route == routeOne(turn.prompt, Stage(turn), d, host)
<1>4. /\ Stage(turn) \in Stages
      /\ HostStage(Stage(turn)) => (turn.revising <=> RevisionByRules(Stage(turn)))
  BY <1>2, StageIs DEF HostStage
<1>5. /\ route.reason \in Reasons
      /\ route.path = "fast" =>
           /\ route.cap \in Caps /\ guardPrompt(turn.prompt, route.cap) = Nil /\ HostStage(Stage(turn))
           /\ route.reason \notin {"compound-by-parts", "presentation"}
      /\ route.reason = "compound-prompt" => ~turn.prompt.flagged /\ HostStage(Stage(turn))
  BY <1>4, RouteOneIs
<1>6. \/ /\ route.reason = "compound-prompt" /\ ~HasFallback /\ turn.prompt.parts # <<>>
         /\ turn' = [turn EXCEPT !.step = "parts"]
      \/ \E answer \in settle(turn, route) : Settled(answer)
  BY <1>3
<1> HIDE DEF route
<1>7. CASE /\ route.reason = "compound-prompt" /\ ~HasFallback /\ turn.prompt.parts # <<>>
           /\ turn' = [turn EXCEPT !.step = "parts"]
  <2> DEFINE next == [turn EXCEPT !.step = "parts"]
  <2>1. turn.routes = <<>>
    BY <1>1 DEF ConversationInv, SplitUnguarded
  <2>2. mode = "rules" /\ ~turn.prompt.flagged
    BY <1>5, <1>7 DEF HasFallback
  <2>3. turn.attempt = 0
    <3>1. Stage(turn) # "repair"
      BY <1>5, <1>7 DEF HostStage, RevisionByRules
    <3>2. turn.attempt \in Nat
      BY <1>2, SystemOneAssumption DEF Turns
    <3> QED
      BY <3>1, <3>2 DEF Stage
  <2>4. /\ next \in Turns /\ next.prompt = turn.prompt /\ next.revising = turn.revising
        /\ next.step = "parts" /\ next.routes = <<>> /\ next.attempt = 0
    BY <1>2, <2>1, <2>3 DEF Turns
  <2>5. turn' = next
    BY <1>7
  <2>6. Len(turn.prompt.parts) \in Nat
    <3>1. turn.prompt \in Prompts
      BY <1>2 DEF Turns
    <3> QED
      BY <3>1, PromptsAssumption
  <2> HIDE DEF next
  <2>7. Len(next.routes) <= Len(turn.prompt.parts) /\ \A k \in 1 .. Len(next.routes) : FALSE
    BY <2>4, <2>6
  <2> QED
    BY <1>1, <1>7, <2>2, <2>4, <2>5, <2>7, TurnGoesOn
<1>8. CASE \E answer \in settle(turn, route) : Settled(answer)
  <2>1. PICK a \in settle(turn, route) : Settled(a)
    BY <1>8
  <2>2. GoodRoute(turn, route)
    BY <1>4, <1>5 DEF GoodRoute
  <2>3. a \in ProviderAnswers /\ Right(turn, a, onScreen, turns)
    BY <1>2, <2>1, <2>2, SettleIs
  <2> QED
    BY <1>1, <2>1, <2>3, SettledIs
<1> QED
  BY <1>6, <1>7, <1>8

LEMMA DecidePartIs ==
    ASSUME ConversationInv, DecidePart
    PROVE  ConversationInv'
<1>1. /\ turn # Nil /\ turn.step = "parts" /\ Len(turn.routes) < Len(turn.prompt.parts)
      /\ UNCHANGED <<mode, onScreen, question, reply, turns>>
  BY DEF DecidePart
<1>2. turn \in Turns
  BY <1>1, TurnIs
<1> DEFINE k == Len(turn.routes) + 1
           part == turn.prompt.parts[k]
<1>3. PICK d \in Decisions, host \in HostRules :
        turn' = [turn EXCEPT !.routes =
                    Append(@, IF routeOne(part, "initial", d, host).path = "fast"
                              THEN routeOne(part, "initial", d, host).cap ELSE Nil)]
  BY DEF DecidePart
<1> DEFINE cap == IF routeOne(part, "initial", d, host).path = "fast"
                  THEN routeOne(part, "initial", d, host).cap ELSE Nil
<1>4. cap \in Caps \cup {Nil} /\ (cap # Nil => ~part.flagged)
  <2>1. "initial" \in Stages
    BY DEF Stages
  <2>2. cap # Nil => cap \in Caps /\ guardPrompt(part, cap) = Nil
    BY <2>1, RouteOneIs
  <2> HIDE DEF cap, part
  <2> QED
    BY <2>2, NilAssumption DEF guardPrompt, Reasons
<1> DEFINE next == [turn EXCEPT !.routes = Append(@, cap)]
<1>5. turn' = next
  BY <1>3
<1> HIDE DEF cap
<1>6. turn.routes \in Seq(Caps \cup {Nil})
  BY <1>2 DEF Turns
<1>7. /\ next \in Turns /\ next.prompt = turn.prompt /\ next.revising = turn.revising
      /\ next.step = "parts" /\ next.attempt = turn.attempt /\ next.routes = Append(turn.routes, cap)
  <2>1. Append(turn.routes, cap) \in Seq(Caps \cup {Nil})
    BY <1>4, <1>6
  <2>2. turn.step = "parts"
    BY <1>1
  <2> QED
    BY <1>2, <2>1, <2>2 DEF Turns
<1> HIDE DEF next, part
<1> DEFINE routes == turn.routes
           longer == next.routes
<1>8. /\ routes \in Seq(Caps \cup {Nil}) /\ longer = Append(routes, cap) /\ k = Len(routes) + 1
  BY <1>6, <1>7
<1> HIDE DEF routes, longer, k
<1>9. Len(longer) = k /\ k \in Nat /\ \A l \in 1 .. k : longer[l] = IF l = k THEN cap ELSE routes[l]
  BY <1>4, <1>8
<1>10. /\ mode = "rules" /\ turn.attempt = 0 /\ ~turn.prompt.flagged /\ turn.prompt.parts # <<>>
       /\ \A l \in 1 .. Len(routes) : routes[l] # Nil => ~turn.prompt.parts[l].flagged
  BY <1>1 DEF ConversationInv, SplitUnguarded, routes
<1>11. Len(longer) <= Len(turn.prompt.parts)
  <2>1. Len(turn.prompt.parts) \in Nat
    <3>1. turn.prompt \in Prompts
      BY <1>2 DEF Turns
    <3> QED
      BY <3>1, PromptsAssumption
  <2>2. Len(routes) < Len(turn.prompt.parts)
    BY <1>1 DEF routes
  <2>3. Len(routes) \in Nat
    BY <1>8
  <2> QED
    BY <1>8, <1>9, <2>1, <2>2, <2>3
<1>12. \A l \in 1 .. Len(longer) : longer[l] # Nil => ~turn.prompt.parts[l].flagged
  <2> SUFFICES ASSUME NEW l \in 1 .. k, longer[l] # Nil PROVE ~turn.prompt.parts[l].flagged
    BY <1>9
  <2>1. CASE l = k
    BY <2>1, <1>4, <1>9 DEF part
  <2>2. CASE l # k
    <3>1. l \in 1 .. Len(routes)
      BY <2>2, <1>8, <1>9
    <3> QED
      BY <3>1, <2>2, <1>9, <1>10
  <2> QED
    BY <2>1, <2>2
<1> QED
  BY <1>1, <1>5, <1>7, <1>10, <1>11, <1>12, TurnGoesOn DEF longer

LEMMA CompoundStep ==
    ASSUME ConversationInv, Compound
    PROVE  ConversationInv'
<1>1. /\ turn # Nil /\ turn.step = "parts" /\ Len(turn.routes) = Len(turn.prompt.parts)
      /\ UNCHANGED <<mode, onScreen, question, reply, turns>>
  BY DEF Compound
<1>2. /\ turns \in Nat /\ turn \in Turns /\ turn.revising \in BOOLEAN /\ turn.prompt \in Prompts
      /\ turn.routes \in Seq(Caps \cup {Nil})
      /\ turn.revising => onScreen # Nil /\ onScreen \in Plans /\ Valid(onScreen) /\ Older(onScreen)
  BY <1>1, TurnIs DEF Turns
<1>3. /\ mode = "rules" /\ turn.attempt = 0 /\ ~turn.prompt.flagged /\ turn.prompt.parts # <<>>
      /\ \A k \in 1 .. Len(turn.routes) : turn.routes[k] # Nil => ~turn.prompt.parts[k].flagged
  BY <1>1 DEF ConversationInv, SplitUnguarded
<1>4. turn.revising <=> RevisionByRules(Stage(turn))
  BY <1>2, <1>3 DEF RevisionByRules, Stage, HasFallback
<1>5. PICK drafts \in PartDrafts(turn.prompt.parts, turn.routes) :
        LET plan == compoundByParts(turn, drafts)
        IN Settled(IF plan = Nil THEN Refusal("compound-prompt") ELSE Ready(plan, "compound-by-parts"))
  BY DEF Compound
<1>6. "compound-prompt" \in Reasons /\ "compound-by-parts" \in Reasons
  BY DEF Reasons
<1> DEFINE plan == compoundByParts(turn, drafts)
<1>7. CASE plan = Nil
  <2>1. Settled(Refusal("compound-prompt"))
    BY <1>5, <1>7
  <2>2. Refusal("compound-prompt") \in ProviderAnswers /\ Right(turn, Refusal("compound-prompt"), onScreen, turns)
    BY <1>6, AnswersTyped DEF Right
  <2> QED
    BY <1>1, <2>1, <2>2, SettledIs
<1>8. CASE plan # Nil
  <2>1. Settled(Ready(plan, "compound-by-parts"))
    BY <1>5, <1>8
  <2>2. plan \in Plans /\ Right(turn, Ready(plan, "compound-by-parts"), onScreen, turns)
    BY <1>1, <1>2, <1>3, <1>4, <1>8, CompoundIs
  <2>3. Ready(plan, "compound-by-parts") \in ProviderAnswers
    BY <1>6, <2>2, AnswersTyped
  <2> QED
    BY <1>1, <2>1, <2>2, <2>3, SettledIs
<1> QED
  BY <1>7, <1>8

LEMMA ModelAnswerIs ==
    ASSUME ConversationInv, ModelAnswer
    PROVE  ConversationInv'
<1>1. turn # Nil /\ UNCHANGED <<mode, onScreen, question, reply, turns>>
  BY DEF ModelAnswer
<1>2. PICK a \in ModelAnswers(<<turns, 1>>) : Settled(a)
  BY DEF ModelAnswer
<1>3. a \in ProviderAnswers /\ Right(turn, a, onScreen, turns)
  BY <1>1, TurnIs, ModelAnswersAre
<1> QED
  BY <1>1, <1>2, <1>3, SettledIs

LEMMA DeliverIs ==
    ASSUME ConversationInv, Deliver
    PROVE  /\ ConversationInv'
           /\ turn.answer.kind = "ready" => Valid(turn.answer.plan) /\ onScreen' = turn.answer.plan
           /\ turn # Nil /\ Right(turn, turn.answer, onScreen, turns)
<1>1. /\ turn # Nil /\ turn.step = "answered" /\ Accepted(turn.answer) /\ turn' = Nil
      /\ onScreen' = IF turn.answer.kind = "ready" THEN turn.answer.plan ELSE onScreen
      /\ question' = IF turn.answer.kind # "needs-clarification" THEN Nil
                     ELSE [prompt |-> turn.prompt, caps |-> turn.answer.caps, revising |-> turn.revising]
      /\ mode' = mode /\ turns' = turns
  BY DEF Deliver, Replied
<1>2. /\ turns \in Nat /\ turn \in Turns
      /\ turn.revising => onScreen # Nil /\ onScreen \in Plans /\ Valid(onScreen) /\ Older(onScreen)
  BY <1>1, TurnIs
<1>3. turn.answer \in ProviderAnswers /\ Right(turn, turn.answer, onScreen, turns)
  BY <1>1 DEF ConversationInv, ConversationTyped, AnsweredRight
<1>4. turn.answer.kind = "ready" => Valid(turn.answer.plan) /\ turn.answer.plan \in Plans
                                    /\ \A r \in Requests(turn.answer.plan) : r.ask[1] <= turns
  BY <1>1, <1>3 DEF Accepted, Askable, Right
<1>5. turn.answer.caps \in SUBSET Caps /\ turn.prompt \in Prompts /\ turn.revising \in BOOLEAN
  BY <1>2, <1>3 DEF ProviderAnswers, Turns
<1>6. ConversationTyped'
  <2>1. turns \in 0 .. MaxTurns /\ mode \in {"rules", "assisted", "shadow"} /\ (onScreen # Nil => onScreen \in Plans /\ Valid(onScreen))
    BY DEF ConversationInv, ConversationTyped
  <2> QED
    BY <1>1, <1>2, <1>4, <1>5, <2>1 DEF ConversationTyped
<1>7. ViewOlder'
  <2>1. onScreen # Nil => \A r \in Requests(onScreen) : r.ask[1] <= turns
    BY DEF ConversationInv, ViewOlder
  <2> QED
    BY <1>1, <1>4, <2>1 DEF ViewOlder
<1>8. SplitUnguarded' /\ AnsweredRight'
  BY <1>1 DEF SplitUnguarded, AnsweredRight
<1> QED
  BY <1>1, <1>3, <1>4, <1>6, <1>7, <1>8 DEF ConversationInv

LEMMA RepairIs ==
    ASSUME ConversationInv, Repair
    PROVE  ConversationInv'
<1>1. /\ turn # Nil /\ turn.attempt < MaxRepairs
      /\ turn' = [turn EXCEPT !.attempt = turn.attempt + 1, !.step = "start", !.routes = <<>>, !.answer = Nil]
      /\ UNCHANGED <<mode, onScreen, question, reply, turns>>
  BY DEF Repair
<1>2. turn \in Turns
  BY <1>1, TurnIs
<1> DEFINE n == turn.attempt + 1
           next == [turn EXCEPT !.attempt = n, !.step = "start", !.routes = <<>>, !.answer = Nil]
<1>3. n \in 0 .. MaxRepairs /\ <<>> \in Seq(Caps \cup {Nil})
  BY <1>1, <1>2, SystemOneAssumption DEF Turns
<1>6. turn' = next
  BY <1>1
<1> HIDE DEF n
<1>4. /\ next \in Turns /\ next.prompt = turn.prompt /\ next.revising = turn.revising
      /\ next.step = "start" /\ next.routes = <<>>
  BY <1>2, <1>3 DEF Turns
<1> HIDE DEF next
<1> QED
  BY <1>1, <1>4, <1>6, TurnGoesOn

LEMMA AbandonIs ==
    ASSUME ConversationInv, Abandon
    PROVE  ConversationInv'
<1>1. turn # Nil /\ turn' = Nil /\ UNCHANGED <<mode, onScreen, question, turns>>
  BY DEF Abandon, Replied
<1>2. question = Nil
  BY <1>1 DEF ConversationInv, ConversationTyped
<1>3. ConversationTyped'
  BY <1>1, <1>2 DEF ConversationInv, ConversationTyped
<1>4. ViewOlder' /\ SplitUnguarded' /\ AnsweredRight'
  BY <1>1 DEF ConversationInv, ViewOlder, SplitUnguarded, AnsweredRight
<1> QED
  BY <1>3, <1>4 DEF ConversationInv

LEMMA ConversationGoesOn ==
    ASSUME ConversationInv, [Converse]_conversation
    PROVE  ConversationInv'
<1>1. CASE Compose
  <2>1. PICK p \in Prompts, again \in {FALSE, onScreen # Nil} : Start(p, Nil, FALSE, again)
    BY <1>1 DEF Compose
  <2>2. again \in BOOLEAN /\ (again => onScreen # Nil)
    BY <2>1
  <2> QED
    BY <2>1, <2>2, StartIs
<1>2. CASE Pick
  <2>1. PICK cap \in question.caps \cup {Nil} : Start(question.prompt, cap, TRUE, question.revising)
    BY <1>2 DEF Pick
  <2>2. /\ question \in [prompt : Prompts, caps : SUBSET Caps, revising : BOOLEAN]
        /\ question.revising => onScreen # Nil
    BY <1>2 DEF Pick, ConversationInv, ConversationTyped
  <2>3. question.prompt \in Prompts /\ cap \in Caps \cup {Nil} /\ question.revising \in BOOLEAN
    BY <2>1, <2>2
  <2> QED
    BY <2>1, <2>2, <2>3, StartIs
<1>3. CASE UNCHANGED conversation
  BY <1>3 DEF conversation, ConversationInv, ConversationTyped, ViewOlder, SplitUnguarded, AnsweredRight
<1> QED
  BY <1>1, <1>2, <1>3, OpenIs, BeginIs, DecideIs, DecidePartIs, CompoundStep, ModelAnswerIs,
     DeliverIs, RepairIs, AbandonIs DEF Converse

LEMMA ConversationHolds == ConversationSpec => []ConversationInv
<1>1. ConversationInit => ConversationInv
  BY SystemOneAssumption
  DEF ConversationInit, ConversationInv, ConversationTyped, ViewOlder, SplitUnguarded, AnsweredRight
<1> QED
  BY <1>1, ConversationGoesOn, PTL DEF ConversationSpec

(* SystemOne: the drafts of the rules stand, whatever the view they join, the parts
   they answer and the size of the surface: none of them is sent to a repair for its
   ids, its bindings or its size, but for a host's draft that binds nothing and a
   composition shown another way (appendDraft and freshId in system-one.ts). *)
THEOREM DraftsOfRulesStand == ConversationSpec => []DraftsStand
<1>1. ConversationInv => DraftsStand
  BY DEF ConversationInv, AnsweredRight, Right, DraftsStand
<1> QED
  BY <1>1, ConversationHolds, PTL

(* SystemOne: a plan the rules write and the visitor gets answers the prompt whole,
   past no guard, after the panels that were on screen, of which only the oldest leave
   a full surface (routeOne, compoundByParts, mergeIntoPlan in system-one.ts). *)
THEOREM ViewIsKept == ConversationSpec => KeepsTheView
<1>1. ASSUME ConversationInv, [Converse]_conversation, reply' # reply, reply'.kind = "ready", reply'.by = "rules"
      PROVE  /\ WholeAndUnguarded(turn.prompt, onScreen', reply'.reason, turns)
             /\ Adds(turn, onScreen, onScreen', reply'.reason, turns)
  <2>1. Deliver
    <3>1. Deliver \/ Abandon
      BY <1>1 DEF Converse, conversation, Compose, Pick, Start, OpenStored, Begin, Decide, DecidePart,
           Compound, ModelAnswer, Repair
    <3>2. ~Abandon
      BY <1>1 DEF Abandon, Replied
    <3> QED
      BY <3>1, <3>2
  <2>2. turn.answer.kind = "ready" /\ turn.answer.by = "rules" /\ reply'.reason = turn.answer.reason
    BY <1>1, <2>1 DEF Deliver, Replied
  <2>3. /\ Valid(turn.answer.plan) /\ onScreen' = turn.answer.plan
        /\ Right(turn, turn.answer, onScreen, turns)
    BY <1>1, <2>1, <2>2, DeliverIs
  <2> QED
    BY <2>2, <2>3 DEF Right
<1>2. ConversationInv /\ [Converse]_conversation =>
        [reply' # reply /\ reply'.kind = "ready" /\ reply'.by = "rules" =>
           /\ WholeAndUnguarded(turn.prompt, onScreen', reply'.reason, turns)
           /\ Adds(turn, onScreen, onScreen', reply'.reason, turns)]_conversation
  BY <1>1
<1> QED
  BY <1>2, ConversationHolds, PTL DEF ConversationSpec, KeepsTheView
=============================================================================
