------------------------------ MODULE ServerProofs ------------------------------
(***************************************************************************)
(* Proofs about the server in front of its visitors, in three parts.       *)
(*                                                                         *)
(* ComposeStream, for plans of any size and any order of answers: the      *)
(* client's fold of the frames it has read is what the server believes it  *)
(* to be.  The inductive invariant is Telling: some run of the fold over   *)
(* all frames sent passes through what the client holds and ends at what   *)
(* the server has told (Ahead).                                            *)
(*                                                                         *)
(* HttpFront, for any requests, cut into any chunks, and any limit.  The   *)
(* inductive invariant is Orderly: what each phase of a request may rely   *)
(* on, and what every answer tells.                                        *)
(*                                                                         *)
(* ViewServer, for any visitors, catalogs, prompts and concurrent          *)
(* requests, and maps of any capacity.  The inductive invariant is Kept:   *)
(* every plan a run, a map or the view store holds is one its visitor may  *)
(* see, and is pinned to what it is filed under.                           *)
(***************************************************************************)
EXTENDS ComposeStream, HttpFront, ViewServer, SequenceTheorems, FiniteSetTheorems, TLAPS

-----------------------------------------------------------------------------
(* Deltas. *)

LEMMA Nothing ==
    /\ N \in Nat /\ None \notin Nat /\ None \notin States /\ None \notin Endings
    /\ None \notin [Requests -> States] /\ None \notin Models
  BY StreamAssumption DEF StreamAssumption

(* A projection is a model. *)
LEMMA Projects ==
    ASSUME NEW results \in [Requests -> Results \cup {None}], NEW joined \in Results \cup {None}
    PROVE  Project(results, joined) \in Models
<1>1. \A r \in Requests : Shown(results[r]) \in States
  BY DEF Shown, States
<1>2. Shown(joined) \in States
  BY DEF Shown, States
<1> QED
  BY <1>1, <1>2 DEF Project, Models

(* A patch turns the model it was computed from into the one it was computed for. *)
LEMMA DiffPatches ==
    ASSUME NEW before \in Models, NEW after \in Models
    PROVE  /\ Empty(Diff(before, after)) => after = before
           /\ Patched(before, Diff(before, after)) = after
<1> DEFINE patch == Diff(before, after)
<1>1. /\ before = [requests |-> before.requests, composed |-> before.composed, slots |-> before.slots]
      /\ after = [requests |-> after.requests, composed |-> after.composed, slots |-> after.slots]
      /\ before.requests \in [Requests -> States] /\ after.requests \in [Requests -> States]
      /\ before.composed \in States /\ after.composed \in States
      /\ before.slots \in [Requests \cup {Joined} -> States] /\ after.slots \in [Requests \cup {Joined} -> States]
  BY DEF Models
<1>2. /\ patch.requests = IF before.requests = after.requests THEN None ELSE after.requests
      /\ patch.composed = IF before.composed = after.composed THEN None ELSE after.composed
      /\ DOMAIN patch.slots = {t \in Requests \cup {Joined} : before.slots[t] # after.slots[t]}
      /\ \A s \in DOMAIN patch.slots : patch.slots[s] = after.slots[s]
  BY <1>1 DEF Diff
<1> HIDE DEF patch
<1>3. (IF patch.requests = None THEN before.requests ELSE patch.requests) = after.requests
  BY <1>1, <1>2, Nothing
<1>4. (IF patch.composed = None THEN before.composed ELSE patch.composed) = after.composed
  BY <1>1, <1>2, Nothing
<1>5. [s \in DOMAIN before.slots |-> IF s \in DOMAIN patch.slots THEN patch.slots[s] ELSE before.slots[s]] = after.slots
  BY <1>1, <1>2
<1>6. Patched(before, patch) = after
  BY <1>1, <1>3, <1>4, <1>5 DEF Patched
<1>7. Empty(patch) => after = before
  <2> SUFFICES ASSUME Empty(patch) PROVE after = before
    OBVIOUS
  <2>1. before.requests = after.requests /\ before.composed = after.composed
    BY <1>1, <1>2, Nothing DEF Empty
  <2>2. before.slots = after.slots
    BY <1>1, <1>2 DEF Empty
  <2> QED
    BY <1>1, <2>1, <2>2
<1> QED
  BY <1>6, <1>7 DEF patch

-----------------------------------------------------------------------------
(* What the client makes of one frame. *)

IsState(s) ==
    s = [stage |-> s.stage, model |-> s.model, planId |-> s.planId, settled |-> s.settled, total |-> s.total,
         failed |-> s.failed, failure |-> s.failure, fellBack |-> s.fellBack, finished |-> s.finished]
Unended(s) == ~s.finished /\ s.failure = None

(* The view, and how far it has come. *)
SameView(t, s) == t.model = s.model /\ t.total = s.total /\ t.settled = s.settled /\ t.failed = s.failed
SameEnd(t, s) == t.failure = s.failure /\ t.finished = s.finished

LEMMA InitialState ==
    /\ IsState(Initial) /\ Unended(Initial)
    /\ Initial.model = None /\ Initial.failed = {}
  BY DEF IsState, Unended, Initial

LEMMA HearsStart ==
    ASSUME NEW s
    PROVE  LET t == Applied(s, [type |-> "RUN_STARTED"]) IN
           IsState(t) /\ SameView(t, Initial) /\ SameEnd(t, Initial)
  BY DEF Applied, IsState, SameView, SameEnd, Initial

LEMMA HearsStep ==
    ASSUME NEW s, IsState(s), NEW step, NEW id
    PROVE  /\ LET t == Applied(s, Step(step)) IN IsState(t) /\ SameView(t, s) /\ SameEnd(t, s)
           /\ LET t == Applied(s, StepDone(step, id)) IN IsState(t) /\ SameView(t, s) /\ SameEnd(t, s)
  BY DEF Applied, Step, StepDone, IsState, SameView, SameEnd

LEMMA HearsSnapshot ==
    ASSUME NEW s, IsState(s), NEW m
    PROVE  LET t == Applied(s, [type |-> "STATE_SNAPSHOT", model |-> m]) IN
           /\ IsState(t) /\ SameEnd(t, s) /\ t.failed = s.failed
           /\ t.model = m /\ t.settled = 0 /\ t.total = Pending(m)
  BY DEF Applied, IsState, SameEnd

LEMMA HearsCall ==
    ASSUME NEW s, NEW r
    PROVE  Applied(s, [type |-> "TOOL_CALL_START", request |-> r]) = s
  BY DEF Applied

LEMMA HearsAnswer ==
    ASSUME NEW s, IsState(s), NEW r, NEW state, s.total # None
    PROVE  LET t == Applied(s, [type |-> "TOOL_CALL_END", request |-> r, state |-> state]) IN
           /\ IsState(t) /\ SameEnd(t, s) /\ t.model = s.model /\ t.total = s.total
           /\ t.settled = s.settled + 1
           /\ t.failed = IF state = "error" THEN s.failed \cup {r} ELSE s.failed
  BY DEF Applied, IsState, SameEnd

LEMMA HearsDelta ==
    ASSUME NEW s, IsState(s), NEW patch, s.model # None
    PROVE  LET t == Applied(s, [type |-> "STATE_DELTA", patch |-> patch]) IN
           /\ IsState(t) /\ SameEnd(t, s) /\ t.total = s.total /\ t.settled = s.settled /\ t.failed = s.failed
           /\ t.model = Patched(s.model, patch)
  BY DEF Applied, IsState, SameEnd

LEMMA HearsError ==
    ASSUME NEW s, IsState(s), NEW kind
    PROVE  LET t == Applied(s, RunError(kind)) IN
           IsState(t) /\ SameView(t, s) /\ t.finished /\ t.failure = kind
  BY DEF Applied, RunError, IsState, SameView

LEMMA HearsEnd ==
    ASSUME NEW s, IsState(s), NEW id, NEW fellBack \in BOOLEAN, NEW kind
    PROVE  LET t == Applied(s, RunFinished(id, fellBack, kind)) IN
           /\ IsState(t) /\ SameView(t, s) /\ t.finished /\ t.planId = id
           /\ t.failure = IF fellBack THEN kind ELSE s.failure
  BY DEF Applied, RunFinished, IsState, SameView

-----------------------------------------------------------------------------
(* The fold of all frames sent, of which the client has made the first `read` steps:
   no frame ends the run but the last. *)
IsFrames(frames) == \E S : frames \in Seq(S)
Folding(frames, h) ==
    /\ IsFrames(frames)
    /\ h[0] = Initial
    /\ \A i \in 1 .. Len(frames) : h[i] = Applied(h[i - 1], frames[i])
    /\ \A i \in 0 .. Len(frames) : IsState(h[i])
    /\ \A i \in 0 .. Len(frames) : i # Len(frames) => Unended(h[i])
    /\ \A i \in 1 .. Len(frames) : Terminal(frames[i]) => ~Unended(h[i])
Holds(frames, s) ==
    \E h : /\ Folding(frames, h) /\ h[Len(frames)] = s
           /\ read \in 0 .. Len(frames) /\ fold = h[read]

LEMMA HoldsState == ASSUME NEW frames, NEW s, Holds(frames, s) PROVE IsState(s) /\ IsFrames(frames)
<1>1. PICK h : Folding(frames, h) /\ h[Len(frames)] = s
  BY DEF Holds
<1>2. Len(frames) \in Nat
  BY <1>1 DEF Folding, IsFrames
<1> QED
  BY <1>1, <1>2 DEF Folding

(* One frame more. *)
LEMMA OneMore ==
    ASSUME NEW frames, NEW s, Holds(frames, s), Unended(s), NEW e, IsState(Applied(s, e)),
           Terminal(e) => ~Unended(Applied(s, e))
    PROVE  Holds(Append(frames, e), Applied(s, e))
<1>1. PICK h : /\ Folding(frames, h) /\ h[Len(frames)] = s
               /\ read \in 0 .. Len(frames) /\ fold = h[read]
  BY DEF Holds
<1>2. PICK S : frames \in Seq(S)
  BY <1>1 DEF Folding, IsFrames
<1> DEFINE n == Len(frames)
           more == Append(frames, e)
           g == [i \in 0 .. n + 1 |-> IF i = n + 1 THEN Applied(s, e) ELSE h[i]]
<1>3. n \in Nat
  BY <1>2
<1>4. more \in Seq(S \cup {e}) /\ Len(more) = n + 1 /\ more[n + 1] = e
  <2>1. frames \in Seq(S \cup {e})
    BY <1>2
  <2> QED
    BY <2>1
<1>5. \A i \in 1 .. n : more[i] = frames[i]
  BY <1>2
<1> HIDE DEF n, more
<1>6. g[n + 1] = Applied(s, e) /\ \A i \in 0 .. n : g[i] = h[i]
  BY <1>3
<1> HIDE DEF g
<1>7. \A i \in 1 .. n + 1 : g[i] = Applied(g[i - 1], more[i]) /\ (Terminal(more[i]) => ~Unended(g[i]))
  <2> SUFFICES ASSUME NEW i \in 1 .. n + 1
               PROVE g[i] = Applied(g[i - 1], more[i]) /\ (Terminal(more[i]) => ~Unended(g[i]))
    OBVIOUS
  <2>1. CASE i = n + 1
    <3>1. i - 1 = n /\ n \in 0 .. n
      BY <1>3, <2>1
    <3>2. g[i - 1] = s
      BY <1>1, <1>6, <3>1 DEF n
    <3> QED
      BY <1>4, <1>6, <2>1, <3>2
  <2>2. CASE i # n + 1
    <3>1. i \in 1 .. n /\ i \in 0 .. n /\ i - 1 \in 0 .. n
      BY <1>3, <2>2
    <3>2. h[i] = Applied(h[i - 1], frames[i]) /\ (Terminal(frames[i]) => ~Unended(h[i]))
      BY <1>1, <3>1 DEF Folding, n
    <3> QED
      BY <1>5, <1>6, <3>1, <3>2
  <2> QED
    BY <2>1, <2>2
<1>8. \A i \in 0 .. n + 1 : IsState(g[i]) /\ (i # n + 1 => Unended(g[i]))
  <2> SUFFICES ASSUME NEW i \in 0 .. n + 1 PROVE IsState(g[i]) /\ (i # n + 1 => Unended(g[i]))
    OBVIOUS
  <2>1. CASE i = n + 1
    BY <1>6, <2>1
  <2>2. CASE i # n + 1
    <3>1. i \in 0 .. n
      BY <1>3, <2>2
    <3>2. IsState(h[i]) /\ (i # n => Unended(h[i])) /\ h[n] = s
      BY <1>1, <3>1 DEF Folding, n
    <3> QED
      BY <1>6, <3>1, <3>2
  <2> QED
    BY <2>1, <2>2
<1>9. g[0] = Initial /\ read \in 0 .. n + 1 /\ fold = g[read]
  BY <1>1, <1>3, <1>6 DEF Folding, n
<1>10. Folding(more, g)
  BY <1>4, <1>7, <1>8, <1>9 DEF Folding, IsFrames
<1> QED
  BY <1>4, <1>6, <1>9, <1>10 DEF Holds, more

(* The frames of one step, one at a time. *)
LEMMA Appends ==
    ASSUME NEW frames, IsFrames(frames), NEW a, NEW b, NEW c
    PROVE  /\ frames \o <<a>> = Append(frames, a)
           /\ frames \o <<a, b>> = Append(Append(frames, a), b)
           /\ frames \o <<a, b, c>> = Append(Append(Append(frames, a), b), c)
<1>1. PICK S : frames \in Seq(S)
  BY DEF IsFrames
<1> DEFINE T == S \cup {a, b, c}
<1>2. frames \in Seq(T) /\ a \in T /\ b \in T /\ c \in T
  BY <1>1
<1> HIDE DEF T
<1>3. frames \o <<a>> = Append(frames, a)
  BY <1>2
<1>4. frames \o <<a, b>> = Append(Append(frames, a), b)
  BY <1>2
<1>5. frames \o <<a, b, c>> = Append(Append(Append(frames, a), b), c)
  BY <1>2
<1> QED
  BY <1>3, <1>4, <1>5

-----------------------------------------------------------------------------
(* What the fold of all frames sent comes to. *)
Views(s) ==
    /\ s.model = lastDataModel /\ lastDataModel \in Models
    /\ s.total = Cardinality(Requests)
    /\ s.settled = Cardinality({r \in Requests : settled[r] # None})
    /\ s.failed = {r \in Requests : settled[r] = "error"}

(* The last frame of a run that has ended says so. *)
Closing(frames, s) ==
    /\ Len(frames) > 0 /\ Terminal(frames[Len(frames)])
    /\ s.finished
    /\ s.failure = None => frames[Len(frames)].type = "RUN_FINISHED"

(* ... and says what a batch caller is told. *)
Agreed(s) ==
    /\ answer.kind \notin {"data-unavailable", "unauthenticated"} =>
         Outcome(s) = IF answer.kind = None THEN "ok" ELSE BatchKindOf(answer.kind)
    /\ answer.model # None =>
         /\ s.model = answer.model /\ s.planId = answer.planId
         /\ s.failed = {r \in Requests : settled[r] = "error"}

Ahead(s) ==
    /\ pc \notin {"answered", "ended"} => Unended(s)
    /\ pc \in {"called", "accepted", "planning"} => s.model = None /\ s.failed = {} /\ settled = NoResults
    /\ pc = "executing" => s.model # None
    /\ s.model # None => Views(s)
    /\ pc \in {"answered", "ended"} => Closing(emitted, s) /\ Agreed(s)

Running == settled \in [Requests -> Results \cup {None}]
Foretold == \E s : Holds(emitted, s) /\ Ahead(s)
Repeats == told \notin {None, "timeout"} => told = Outcome(fold)

Telling == Running /\ Foretold /\ Repeats

LEMMA LastSent ==
    ASSUME NEW frames, IsFrames(frames), NEW e
    PROVE  LET more == Append(frames, e) IN IsFrames(more) /\ Len(more) > 0 /\ more[Len(more)] = e
<1>1. PICK S : frames \in Seq(S)
  BY DEF IsFrames
<1>2. frames \in Seq(S \cup {e}) /\ e \in S \cup {e}
  BY <1>1
<1>3. Append(frames, e) \in Seq(S \cup {e}) /\ Len(Append(frames, e)) = Len(frames) + 1 /\ Len(frames) \in Nat
  BY <1>2
<1>4. Append(frames, e)[Len(frames) + 1] = e
  BY <1>2
<1> QED
  BY <1>3, <1>4 DEF IsFrames

(* The frames that end a run. *)
LEMMA ErrorEnds ==
    ASSUME NEW frames, NEW s, Holds(frames, s), Unended(s), NEW kind, kind # None
    PROVE  LET more == Append(frames, RunError(kind)) IN
           \E t : Holds(more, t) /\ Closing(more, t) /\ SameView(t, s) /\ t.failure = kind
<1> DEFINE t == Applied(s, RunError(kind))
           more == Append(frames, RunError(kind))
<1>1. IsState(s) /\ IsFrames(frames)
  BY HoldsState
<1>2. IsState(t) /\ SameView(t, s) /\ t.finished /\ t.failure = kind
  BY <1>1, HearsError
<1>3. Holds(more, t)
  BY <1>2, OneMore DEF Unended
<1>4. Len(more) > 0 /\ more[Len(more)] = RunError(kind)
  BY <1>1, LastSent
<1>5. Terminal(RunError(kind))
  BY DEF Terminal, RunError
<1> HIDE DEF t, more
<1>6. Closing(more, t)
  BY <1>2, <1>4, <1>5 DEF Closing
<1> QED
  BY <1>2, <1>3, <1>6 DEF more

LEMMA FinishEnds ==
    ASSUME NEW frames, NEW s, Holds(frames, s), Unended(s), NEW id, NEW fellBack \in BOOLEAN, NEW kind
    PROVE  LET more == Append(frames, RunFinished(id, fellBack, kind)) IN
           \E t : /\ Holds(more, t) /\ Closing(more, t) /\ SameView(t, s) /\ t.planId = id
                  /\ t.failure = IF fellBack THEN kind ELSE None
<1> DEFINE t == Applied(s, RunFinished(id, fellBack, kind))
           more == Append(frames, RunFinished(id, fellBack, kind))
<1>1. IsState(s) /\ IsFrames(frames)
  BY HoldsState
<1>2. /\ IsState(t) /\ SameView(t, s) /\ t.finished /\ t.planId = id
      /\ t.failure = IF fellBack THEN kind ELSE s.failure
  BY <1>1, HearsEnd
<1>3. Holds(more, t)
  BY <1>2, OneMore DEF Unended
<1>4. Len(more) > 0 /\ more[Len(more)] = RunFinished(id, fellBack, kind)
  BY <1>1, LastSent
<1>5. RunFinished(id, fellBack, kind).type = "RUN_FINISHED"
  BY DEF RunFinished
<1> HIDE DEF t, more
<1>6. Closing(more, t)
  BY <1>2, <1>4, <1>5 DEF Closing, Terminal
<1> QED
  BY <1>2, <1>3, <1>6 DEF more, Unended

(* A delta brings the fold from one model to the next. *)
LEMMA DeltaTells ==
    ASSUME NEW frames, NEW s, Holds(frames, s), Unended(s),
           NEW before \in Models, NEW after \in Models, s.model = before
    PROVE  \E t : /\ Holds(frames \o Delta(before, after), t) /\ Unended(t) /\ t.model = after
                  /\ t.total = s.total /\ t.settled = s.settled /\ t.failed = s.failed
<1> DEFINE patch == Diff(before, after)
           e == [type |-> "STATE_DELTA", patch |-> patch]
           t == Applied(s, e)
<1>1. IsState(s) /\ IsFrames(frames) /\ s.model # None
  BY HoldsState, Nothing
<1>2. CASE Empty(patch)
  <2>1. after = before
    BY <1>2, DiffPatches
  <2>2. Delta(before, after) = <<>>
    BY <1>2 DEF Delta
  <2>3. PICK S : frames \in Seq(S)
    BY <1>1 DEF IsFrames
  <2>4. frames \o <<>> = frames
    BY <2>3
  <2> QED
    BY <2>1, <2>2, <2>4
<1>3. CASE ~Empty(patch)
  <2>1. Delta(before, after) = <<e>>
    BY <1>3 DEF Delta
  <2>2. /\ IsState(t) /\ SameEnd(t, s) /\ t.total = s.total /\ t.settled = s.settled /\ t.failed = s.failed
        /\ t.model = Patched(s.model, patch)
    BY <1>1, HearsDelta
  <2>3. t.model = after
    BY <2>2, DiffPatches
  <2>4. Holds(Append(frames, e), t)
    BY <2>2, OneMore DEF Terminal
  <2>5. frames \o <<e>> = Append(frames, e)
    BY <1>1, Appends
  <2>6. Unended(t)
    BY <2>2 DEF SameEnd, Unended
  <2> HIDE DEF t, e
  <2> QED
    BY <2>1, <2>2, <2>3, <2>4, <2>5, <2>6
<1> QED
  BY <1>2, <1>3

(* A delta between other frames. *)
LEMMA Threaded ==
    ASSUME NEW frames, IsFrames(frames), NEW a, NEW c, NEW before, NEW after
    PROVE  LET d == Delta(before, after) IN
           /\ frames \o (<<a>> \o d) = Append(frames, a) \o d
           /\ IsFrames(Append(frames, a) \o d)
           /\ frames \o (<<a>> \o d \o <<c>>) = Append(Append(frames, a) \o d, c)
<1> DEFINE d == Delta(before, after)
           x == [type |-> "STATE_DELTA", patch |-> Diff(before, after)]
<1>1. PICK S : frames \in Seq(S)
  BY DEF IsFrames
<1> DEFINE T == S \cup {a, c, x}
<1>2. frames \in Seq(T) /\ a \in T /\ c \in T /\ x \in T
  BY <1>1
<1>3. d = <<>> \/ d = <<x>>
  BY DEF Delta
<1> HIDE DEF T, d, x
<1>4. d \in Seq(T)
  <2>1. <<>> \in Seq(T) /\ <<x>> \in Seq(T)
    BY <1>2
  <2> QED
    BY <1>3, <2>1
<1>5. frames \o <<a>> = Append(frames, a) /\ Append(frames, a) \in Seq(T)
  BY <1>2
<1>6. frames \o (<<a>> \o d) = Append(frames, a) \o d
  <2>1. <<a>> \in Seq(T)
    BY <1>2
  <2>2. frames \o (<<a>> \o d) = (frames \o <<a>>) \o d
    BY <1>2, <1>4, <2>1, ConcatAssociative
  <2> QED
    BY <1>5, <2>2
<1>7. Append(frames, a) \o d \in Seq(T)
  BY <1>4, <1>5
<1>8. frames \o (<<a>> \o d \o <<c>>) = Append(Append(frames, a) \o d, c)
  <2>1. <<a>> \o d \in Seq(T) /\ <<c>> \in Seq(T)
    BY <1>2, <1>4
  <2>2. frames \o ((<<a>> \o d) \o <<c>>) = (frames \o (<<a>> \o d)) \o <<c>>
    BY <1>2, <2>1, ConcatAssociative
  <2>3. (Append(frames, a) \o d) \o <<c>> = Append(Append(frames, a) \o d, c)
    BY <1>2, <1>7
  <2> QED
    BY <1>6, <2>2, <2>3
<1> QED
  BY <1>6, <1>7, <1>8 DEF d, IsFrames

-----------------------------------------------------------------------------
(* The steps of the server. *)
LEMMA Onward ==
    ASSUME NEW t, Holds(emitted', t), Ahead(t)', UNCHANGED <<fold, read>>
    PROVE  Foretold'
  BY DEF Foretold, Holds

(* A run that ends with an error. *)
LEMMA Fails ==
    ASSUME NEW frames, NEW s, Holds(frames, s), Unended(s), s.model # None => Views(s),
           NEW kind \in Failures, emitted' = Append(frames, RunError(kind)),
           answer' = Reply(FALSE, kind, None, None), pc' = "answered",
           UNCHANGED <<settled, lastDataModel, client>>
    PROVE  Foretold'
<1>1. kind # None
  BY Nothing DEF Endings
<1>2. PICK t : Holds(emitted', t) /\ Closing(emitted', t) /\ SameView(t, s) /\ t.failure = kind
  BY <1>1, ErrorEnds
<1>3. Outcome(t) = KindOf(kind)
  BY <1>1, <1>2 DEF Outcome
<1>4. kind # "unauthenticated" => KindOf(kind) = BatchKindOf(kind)
  BY DEF BatchKindOf
<1>5. answer'.kind = kind /\ answer'.model = None
  BY DEF Reply
<1>6. Agreed(t)'
  BY <1>1, <1>3, <1>4, <1>5 DEF Agreed, Outcome, BatchKindOf, KindOf
<1>7. t.model # None => Views(t)'
  BY <1>2 DEF Views, SameView
<1>8. Ahead(t)'
  BY <1>2, <1>6, <1>7 DEF Ahead, Closing
<1> QED
  BY <1>2, <1>8, Onward DEF client

LEMMA ThrowTold ==
    ASSUME Telling, NEW kind \in {"unauthenticated", "failed"}, Throw(kind)
    PROVE  Foretold'
<1>1. PICK s : Holds(emitted, s) /\ Ahead(s)
  BY DEF Telling, Foretold
<1>2. Unended(s) /\ (s.model # None => Views(s))
  BY <1>1 DEF Ahead, Throw
<1>3. emitted' = Append(emitted, RunError(kind))
  BY <1>1, HoldsState, Appends DEF Throw, Emit
<1>4. kind \in Failures
  BY DEF Failures
<1> QED
  BY <1>1, <1>2, <1>3, <1>4, Fails DEF Throw

LEMMA UnplannedTold ==
    ASSUME Telling, NEW kind \in Refusals, Unplanned(kind)
    PROVE  Foretold'
<1>1. PICK s : Holds(emitted, s) /\ Ahead(s)
  BY DEF Telling, Foretold
<1>2. Unended(s) /\ (s.model # None => Views(s))
  BY <1>1 DEF Ahead, Unplanned
<1>3. emitted' = Append(emitted, RunError(kind))
  BY <1>1, HoldsState, Appends DEF Unplanned, Emit
<1>4. kind \in Failures
  BY DEF Failures
<1> QED
  BY <1>1, <1>2, <1>3, <1>4, Fails DEF Unplanned

LEMMA AcceptTold ==
    ASSUME Telling, Accept
    PROVE  Foretold'
<1>1. PICK s : Holds(emitted, s) /\ Ahead(s)
  BY DEF Telling, Foretold
<1> DEFINE e == [type |-> "RUN_STARTED"]
           t == Applied(s, e)
<1>2. emitted' = Append(emitted, e)
  BY <1>1, HoldsState, Appends DEF Accept, Emit
<1>3. IsState(t) /\ SameView(t, Initial) /\ SameEnd(t, Initial)
  BY HearsStart
<1>4. Unended(s) /\ settled = NoResults
  BY <1>1 DEF Ahead, Accept
<1>5. Holds(emitted', t)
  BY <1>1, <1>2, <1>3, <1>4, OneMore DEF Terminal
<1> HIDE DEF t, e
<1>6. Unended(t) /\ t.model = None /\ t.failed = {}
  BY <1>3, InitialState DEF SameView, SameEnd, Unended
<1>7. Ahead(t)'
  BY <1>4, <1>6 DEF Ahead, Accept, Unended
<1> QED
  BY <1>5, <1>7, Onward DEF Accept, client

LEMMA AdmitTold ==
    ASSUME Telling, Admit
    PROVE  Foretold'
<1>1. PICK s : Holds(emitted, s) /\ Ahead(s)
  BY DEF Telling, Foretold
<1> DEFINE t == Applied(s, Step("plan"))
<1>2. emitted' = Append(emitted, Step("plan"))
  BY <1>1, HoldsState, Appends DEF Admit, Emit
<1>3. IsState(t) /\ SameView(t, s) /\ SameEnd(t, s)
  BY <1>1, HoldsState, HearsStep
<1>4. Unended(s) /\ settled = NoResults /\ s.model = None /\ s.failed = {}
  BY <1>1 DEF Ahead, Admit
<1>5. ~Terminal(Step("plan"))
  BY DEF Terminal, Step
<1>6. Holds(emitted', t)
  BY <1>1, <1>2, <1>3, <1>4, <1>5, OneMore
<1> HIDE DEF t
<1>7. Unended(t) /\ t.model = None /\ t.failed = {}
  BY <1>3, <1>4 DEF SameView, SameEnd, Unended
<1>8. Ahead(t)'
  BY <1>4, <1>7 DEF Ahead, Admit, Unended
<1> QED
  BY <1>6, <1>8, Onward DEF Admit, client

(* Telling the client of a step does not disturb what it holds. *)
LEMMA StepTells ==
    ASSUME NEW frames, NEW s, Holds(frames, s), Unended(s), NEW e, NEW step, NEW id,
           e = Step(step) \/ e = StepDone(step, id)
    PROVE  \E t : Holds(Append(frames, e), t) /\ SameView(t, s) /\ Unended(t)
<1> DEFINE t == Applied(s, e)
<1>1. IsState(t) /\ SameView(t, s) /\ SameEnd(t, s)
  BY HoldsState, HearsStep
<1>2. ~Terminal(e)
  BY DEF Terminal, Step, StepDone
<1>3. Holds(Append(frames, e), t)
  BY <1>1, <1>2, OneMore
<1> HIDE DEF t
<1>4. Unended(t)
  BY <1>1 DEF SameEnd, Unended
<1> QED
  BY <1>1, <1>3, <1>4

LEMMA Skeleton ==
    LET m == Project(NoResults, None) IN
    /\ m \in Models /\ Pending(m) = Cardinality(Requests)
    /\ Cardinality({r \in Requests : NoResults[r] # None}) = 0
    /\ {r \in Requests : NoResults[r] = "error"} = {}
<1>1. NoResults \in [Requests -> Results \cup {None}] /\ None \in Results \cup {None}
  BY DEF NoResults
<1>2. {r \in Requests : Project(NoResults, None).requests[r] = "pending"} = Requests
  BY DEF Project, NoResults, Shown
<1>3. {r \in Requests : NoResults[r] # None} = {}
  BY DEF NoResults
<1>4. {r \in Requests : NoResults[r] = "error"} = {}
  BY Nothing DEF NoResults, States, Results
<1> QED
  BY <1>1, <1>2, <1>3, <1>4, Projects, FS_EmptySet DEF Pending

LEMMA PlannedTold ==
    ASSUME Telling, NEW kind \in Refusals \cup {None}, Planned(kind)
    PROVE  Foretold'
<1>1. PICK s : Holds(emitted, s) /\ Ahead(s)
  BY DEF Telling, Foretold
<1> DEFINE id == PlanId
           planned == StepDone("plan", id)
           model == Project(NoResults, None)
           shown == [type |-> "STATE_SNAPSHOT", model |-> model]
           one == Append(emitted, planned)
           two == Append(one, shown)
<1>2. Unended(s) /\ settled = NoResults /\ s.model = None /\ s.failed = {} /\ IsFrames(emitted)
  BY <1>1, HoldsState DEF Ahead, Planned
<1>3. PICK t : Holds(one, t) /\ SameView(t, s) /\ Unended(t)
  BY <1>1, <1>2, StepTells
<1>4. t.model = None /\ t.failed = {}
  BY <1>2, <1>3 DEF SameView
<1>5. CASE /\ pc' = "executing" /\ lastDataModel' = model
           /\ Emit(<<planned, shown, Step("execute")>>)
  <2> DEFINE u == Applied(t, shown)
  <2>1. emitted' = Append(two, Step("execute"))
    BY <1>2, <1>5, Appends DEF Emit
  <2>2. /\ IsState(u) /\ SameEnd(u, t) /\ u.failed = {}
        /\ u.model = model /\ u.settled = 0 /\ u.total = Pending(model)
    BY <1>3, <1>4, HoldsState, HearsSnapshot
  <2>3. Holds(two, u)
    BY <1>3, <2>2, OneMore DEF Terminal
  <2>4. Unended(u)
    BY <1>3, <2>2 DEF Unended, SameEnd
  <2> HIDE DEF u, two
  <2>5. PICK v : Holds(emitted', v) /\ SameView(v, u) /\ Unended(v)
    BY <2>1, <2>3, <2>4, StepTells
  <2> HIDE DEF model
  <2>6. /\ model \in Models /\ Pending(model) = Cardinality(Requests) /\ settled' = NoResults
        /\ Cardinality({r \in Requests : NoResults[r] # None}) = 0
        /\ {r \in Requests : NoResults[r] = "error"} = {}
    BY <1>2, Skeleton DEF model, Planned
  <2>7. Views(v)'
    BY <1>5, <2>2, <2>5, <2>6 DEF Views, SameView
  <2>8. v.model # None
    BY <2>2, <2>5, <2>6, Nothing DEF SameView
  <2>9. Ahead(v)'
    BY <1>5, <2>5, <2>7, <2>8 DEF Ahead, Unended
  <2> QED
    BY <2>5, <2>9, Onward DEF Planned, client
<1>6. CASE /\ pc' = "answered" /\ Emit(<<planned, RunError("failed")>>)
           /\ answer' = Reply(FALSE, "failed", None, None) /\ UNCHANGED lastDataModel
  <2>1. emitted' = Append(one, RunError("failed"))
    BY <1>2, <1>6, Appends DEF Emit
  <2> HIDE DEF one
  <2>2. "failed" \in Failures
    BY DEF Failures
  <2> QED
    BY <1>3, <1>4, <1>6, <2>1, <2>2, Fails DEF Planned
<1> QED
  BY <1>5, <1>6 DEF Planned

LEMMA RequestStartedTold ==
    ASSUME Telling, NEW r \in Requests, RequestStarted(r)
    PROVE  Foretold'
<1>1. PICK s : Holds(emitted, s) /\ Ahead(s)
  BY DEF Telling, Foretold
<1> DEFINE e == [type |-> "TOOL_CALL_START", request |-> r]
<1>2. emitted' = Append(emitted, e)
  BY <1>1, HoldsState, Appends DEF RequestStarted, Emit
<1>3. Unended(s) /\ s.model # None /\ Views(s) /\ IsState(s)
  BY <1>1, HoldsState DEF Ahead, RequestStarted
<1>4. s.total # None
  BY <1>3, Nothing, FS_Interval, FS_CardinalityType, 1 \in Int, N \in Int DEF Views, Requests
<1>5. Applied(s, e) = s
  BY <1>3, <1>4, HearsCall
<1>6. Holds(emitted', s)
  BY <1>1, <1>2, <1>3, <1>5, OneMore DEF Terminal
<1>7. Ahead(s)'
  BY <1>1, <1>3 DEF Ahead, Views, RequestStarted, Unended
<1> QED
  BY <1>6, <1>7, Onward DEF RequestStarted, client

(* One answer more. *)
LEMMA Counts ==
    ASSUME Running, NEW r \in Requests, settled[r] = None, NEW result \in Results,
           settled' = [settled EXCEPT ![r] = result]
    PROVE  /\ settled' \in [Requests -> Results \cup {None}]
           /\ Cardinality({q \in Requests : settled'[q] # None}) = Cardinality({q \in Requests : settled[q] # None}) + 1
           /\ {q \in Requests : settled'[q] = "error"} =
                {q \in Requests : settled[q] = "error"} \cup (IF result = "error" THEN {r} ELSE {})
<1>1. result # None /\ "error" # None
  BY Nothing DEF States, Results
<1>2. settled'[r] = result /\ \A q \in Requests : q # r => settled'[q] = settled[q]
  BY DEF Running
<1>3. {q \in Requests : settled'[q] # None} = {q \in Requests : settled[q] # None} \cup {r}
  BY <1>1, <1>2
<1>4. IsFiniteSet({q \in Requests : settled[q] # None}) /\ r \notin {q \in Requests : settled[q] # None}
  <2>1. IsFiniteSet(Requests)
    BY Nothing, FS_Interval, 1 \in Int, N \in Int DEF Requests
  <2> QED
    BY <2>1, FS_Subset
<1>5. Cardinality({q \in Requests : settled'[q] # None}) = Cardinality({q \in Requests : settled[q] # None}) + 1
  BY <1>3, <1>4, FS_AddElement
<1>6. {q \in Requests : settled'[q] = "error"} =
        {q \in Requests : settled[q] = "error"} \cup (IF result = "error" THEN {r} ELSE {})
  BY <1>1, <1>2
<1> QED
  BY <1>5, <1>6 DEF Running

LEMMA RequestSettledTold ==
    ASSUME Telling, NEW r \in Requests, NEW result \in Results, RequestSettled(r, result)
    PROVE  Foretold' /\ Running'
<1>1. PICK s : Holds(emitted, s) /\ Ahead(s)
  BY DEF Telling, Foretold
<1> DEFINE ended == [type |-> "TOOL_CALL_END", request |-> r, state |-> StateOf(result)]
           partial == Project(settled', None)
           one == Append(emitted, ended)
           t == Applied(s, ended)
<1>2. Unended(s) /\ s.model # None /\ Views(s) /\ IsState(s) /\ IsFrames(emitted)
  BY <1>1, HoldsState DEF Ahead, RequestSettled
<1>3. s.total # None
  BY <1>2, Nothing, FS_Interval, FS_CardinalityType, 1 \in Int, N \in Int DEF Views, Requests
<1>4. /\ IsState(t) /\ SameEnd(t, s) /\ t.model = s.model /\ t.total = s.total
      /\ t.settled = s.settled + 1
      /\ t.failed = IF StateOf(result) = "error" THEN s.failed \cup {r} ELSE s.failed
  BY <1>2, <1>3, HearsAnswer
<1>5. Unended(t)
  BY <1>2, <1>4 DEF SameEnd, Unended
<1>6. Holds(one, t)
  BY <1>1, <1>2, <1>4, OneMore DEF Terminal
<1>7. Running'
  BY Counts DEF RequestSettled, Telling, Running
<1>8. /\ t.settled = Cardinality({q \in Requests : settled'[q] # None})
      /\ t.failed = {q \in Requests : settled'[q] = "error"}
  <2>1. StateOf(result) = "error" <=> result = "error"
    BY DEF StateOf
  <2>2. t.settled = Cardinality({q \in Requests : settled[q] # None}) + 1
    BY <1>2, <1>4 DEF Views
  <2>3. t.failed = {q \in Requests : settled[q] = "error"} \cup (IF result = "error" THEN {r} ELSE {})
    BY <1>2, <1>4, <2>1 DEF Views
  <2> HIDE DEF t
  <2> QED
    BY <2>2, <2>3, Counts DEF RequestSettled, Telling
<1> HIDE DEF t
<1>9. CASE Projectable(settled')
  <2>1. lastDataModel' = partial /\ emitted' = emitted \o (<<ended>> \o Delta(lastDataModel, partial))
    BY <1>9 DEF RequestSettled, Emit
  <2>2. emitted' = one \o Delta(lastDataModel, partial)
    BY <1>2, <2>1, Threaded
  <2>3. partial \in Models
    BY <1>7, Projects DEF Running
  <2> HIDE DEF partial, one
  <2>4. lastDataModel \in Models /\ t.model = lastDataModel
    BY <1>2, <1>4 DEF Views
  <2>5. PICK u : /\ Holds(emitted', u) /\ Unended(u) /\ u.model = partial
                 /\ u.total = t.total /\ u.settled = t.settled /\ u.failed = t.failed
    BY <1>5, <1>6, <2>2, <2>3, <2>4, DeltaTells
  <2>6. Views(u)'
    BY <1>2, <1>4, <1>8, <2>1, <2>3, <2>5 DEF Views
  <2>7. Ahead(u)'
    BY <2>3, <2>5, <2>6, Nothing DEF Ahead, RequestSettled, Unended
  <2> QED
    BY <1>7, <2>5, <2>7, Onward DEF RequestSettled, client
<1>10. CASE ~Projectable(settled')
  <2>1. UNCHANGED lastDataModel /\ emitted' = emitted \o <<ended>>
    BY <1>10 DEF RequestSettled, Emit
  <2>2. emitted' = one
    BY <1>2, <2>1, Appends
  <2>3. Views(t)'
    BY <1>2, <1>4, <1>8, <2>1 DEF Views
  <2>4. Ahead(t)'
    BY <1>2, <1>4, <1>5, <2>3 DEF Ahead, RequestSettled, Unended
  <2> QED
    BY <1>6, <1>7, <2>2, <2>4, Onward DEF RequestSettled, client
<1> QED
  BY <1>9, <1>10

LEMMA ConcludeTold ==
    ASSUME Telling, NEW joined \in {"ready", "error"}, Conclude(joined)
    PROVE  Foretold'
<1>1. PICK s : Holds(emitted, s) /\ Ahead(s)
  BY DEF Telling, Foretold
<1> DEFINE done == StepDone("execute", None)
           one == Append(emitted, done)
<1>2. Unended(s) /\ s.model # None /\ Views(s) /\ IsFrames(emitted)
  BY <1>1, HoldsState DEF Ahead, Conclude
<1>3. PICK t : Holds(one, t) /\ SameView(t, s) /\ Unended(t)
  BY <1>1, <1>2, StepTells
<1>4. t.model # None /\ Views(t)
  BY <1>2, <1>3 DEF SameView, Views
<1>5. CASE ~Projectable(settled)
  <2>1. emitted' = Append(one, RunError("failed"))
    BY <1>2, <1>5, Appends DEF Conclude, Emit
  <2> HIDE DEF one
  <2>2. "failed" \in Failures
    BY DEF Failures
  <2> QED
    BY <1>3, <1>4, <1>5, <2>1, <2>2, Fails DEF Conclude
<1>6. CASE Projectable(settled)
  <2> DEFINE final == Project(settled, joined)
             id == IF fellBackFrom = None THEN "new" ELSE "previous"
             fellBack == fellBackFrom # None
             kind == IF fellBackFrom # None THEN fellBackFrom
                     ELSE IF NothingArrived THEN "data-unavailable" ELSE None
             last == RunFinished(id, fellBack, kind)
             two == one \o Delta(lastDataModel, final)
  <2>1. /\ lastDataModel' = final /\ answer' = Reply(kind = None, kind, id, final)
        /\ emitted' = emitted \o (<<done>> \o Delta(lastDataModel, final) \o <<last>>)
    BY <1>6 DEF Conclude, Emit
  <2>2. emitted' = Append(two, last)
    BY <1>2, <2>1, Threaded
  <2>3. final \in Models
    BY Projects DEF Telling, Running, Results
  <2>4. fellBack \in BOOLEAN /\ kind = IF fellBack THEN fellBackFrom ELSE IF NothingArrived THEN "data-unavailable" ELSE None
    OBVIOUS
  <2>5. fellBack => kind # None
    OBVIOUS
  <2>6. answer'.kind = kind /\ answer'.model = final /\ answer'.planId = id
    BY <2>1 DEF Reply
  <2> HIDE DEF final, one, id, fellBack, kind
  <2>7. lastDataModel \in Models /\ t.model = lastDataModel
    BY <1>4 DEF Views
  <2>8. PICK u : /\ Holds(two, u) /\ Unended(u) /\ u.model = final
                 /\ u.total = t.total /\ u.settled = t.settled /\ u.failed = t.failed
    BY <1>3, <2>3, <2>7, DeltaTells
  <2> HIDE DEF two
  <2>9. PICK v : /\ Holds(emitted', v) /\ Closing(emitted', v) /\ SameView(v, u) /\ v.planId = id
                 /\ v.failure = IF fellBack THEN kind ELSE None
    BY <2>2, <2>4, <2>8, FinishEnds
  <2>10. settled' = settled /\ pc' = "answered"
    BY DEF Conclude
  <2>11. Views(v)'
    BY <1>4, <2>1, <2>3, <2>8, <2>9, <2>10 DEF Views, SameView
  <2>12. kind \notin {"data-unavailable", "unauthenticated"} =>
          Outcome(v) = IF kind = None THEN "ok" ELSE BatchKindOf(kind)
    BY <2>4, <2>5, <2>9 DEF Outcome, BatchKindOf, Closing
  <2>13. v.model = final /\ v.failed = {r \in Requests : settled[r] = "error"}
    BY <1>4, <2>8, <2>9 DEF Views, SameView
  <2>14. Agreed(v)'
    BY <2>6, <2>9, <2>10, <2>12, <2>13 DEF Agreed, Outcome, BatchKindOf, KindOf
  <2>15. Ahead(v)'
    BY <2>9, <2>10, <2>11, <2>14 DEF Ahead, Closing
  <2> QED
    BY <2>9, <2>15, Onward DEF Conclude, client
<1> QED
  BY <1>5, <1>6

LEMMA CloseTold ==
    ASSUME Telling, Close
    PROVE  Foretold'
<1>1. PICK s : Holds(emitted, s) /\ Ahead(s)
  BY DEF Telling, Foretold
<1>2. UNCHANGED <<emitted, settled, lastDataModel, answer, client>> /\ pc = "answered" /\ pc' = "ended"
  BY DEF Close
<1>3. Ahead(s)'
  BY <1>1, <1>2 DEF Ahead, Views, Agreed, Closing, Outcome
<1> QED
  BY <1>1, <1>2, <1>3, Onward DEF client

-----------------------------------------------------------------------------
(* The steps of the client. *)
LEMMA ReadTold ==
    ASSUME Telling, Read
    PROVE  Foretold'
<1>1. PICK s : Holds(emitted, s) /\ Ahead(s)
  BY DEF Telling, Foretold
<1>2. PICK h : /\ Folding(emitted, h) /\ h[Len(emitted)] = s
               /\ read \in 0 .. Len(emitted) /\ fold = h[read]
  BY <1>1 DEF Holds
<1>3. Len(emitted) \in Nat
  BY <1>2 DEF Folding, IsFrames
<1>4. read' \in 1 .. Len(emitted) /\ read = read' - 1 /\ fold' = Applied(fold, emitted[read'])
  BY <1>2, <1>3 DEF Read
<1>5. fold' = h[read'] /\ read' \in 0 .. Len(emitted)
  BY <1>2, <1>3, <1>4 DEF Folding
<1>6. UNCHANGED server
  BY DEF Read
<1>7. Holds(emitted, s)'
  BY <1>2, <1>5, <1>6 DEF Holds, server
<1>8. Ahead(s)'
  BY <1>1, <1>6 DEF Ahead, Views, Agreed, Closing, Outcome, server
<1> QED
  BY <1>7, <1>8 DEF Foretold

LEMMA Still ==
    ASSUME Telling, UNCHANGED <<server, fold, read>>
    PROVE  Foretold'
<1>1. PICK s : Holds(emitted, s) /\ Ahead(s)
  BY DEF Telling, Foretold
<1>2. Ahead(s)'
  BY <1>1 DEF Ahead, Views, Agreed, Closing, Outcome, server
<1> QED
  BY <1>1, <1>2, Onward DEF server

-----------------------------------------------------------------------------
(* What a client holds while it reads is what the server holds, and what it is told at
   the end is what the batch form would have told it: the frames of a run, folded one
   by one, come to the run's own account of itself. *)
LEMMA TellingInit == Init => Telling
<1> SUFFICES ASSUME Init PROVE Telling
  OBVIOUS
<1>1. Holds(<<>>, Initial)
  <2> DEFINE h == [i \in {0} |-> Initial]
  <2>1. h[0] = Initial
    OBVIOUS
  <2> HIDE DEF h
  <2>2. <<>> \in Seq({}) /\ Len(<<>>) = 0
    OBVIOUS
  <2>3. Folding(<<>>, h)
    BY <2>1, <2>2, InitialState DEF Folding, IsFrames
  <2> QED
    BY <2>1, <2>2, <2>3 DEF Holds, Init
<1>2. Ahead(Initial)
  BY InitialState DEF Ahead, Init
<1>3. Running
  BY DEF Running, Init, NoResults
<1> QED
  BY <1>1, <1>2, <1>3 DEF Telling, Foretold, Repeats, Init

LEMMA TellingStep == Telling /\ [Next]_vars => Telling'
<1> SUFFICES ASSUME Telling, [Next]_vars PROVE Telling'
  OBVIOUS
<1>1. CASE Accept
  BY <1>1, AcceptTold DEF Telling, Running, Repeats, Accept, client
<1>2. CASE Admit
  BY <1>2, AdmitTold DEF Telling, Running, Repeats, Admit, client
<1>3. CASE Close
  BY <1>3, CloseTold DEF Telling, Running, Repeats, Close, client
<1>4. ASSUME NEW kind \in Refusals \cup {None}, Planned(kind) PROVE Telling'
  BY <1>4, PlannedTold DEF Telling, Running, Repeats, Planned, client
<1>5. ASSUME NEW kind \in Refusals, Unplanned(kind) PROVE Telling'
  BY <1>5, UnplannedTold DEF Telling, Running, Repeats, Unplanned, client
<1>6. ASSUME NEW r \in Requests, RequestStarted(r) PROVE Telling'
  BY <1>6, RequestStartedTold DEF Telling, Running, Repeats, RequestStarted, client
<1>7. ASSUME NEW r \in Requests, NEW result \in Results, RequestSettled(r, result) PROVE Telling'
  BY <1>7, RequestSettledTold DEF Telling, Repeats, RequestSettled, client
<1>8. ASSUME NEW joined \in {"ready", "error"}, Conclude(joined) PROVE Telling'
  BY <1>8, ConcludeTold DEF Telling, Running, Repeats, Conclude, client
<1>9. ASSUME NEW kind \in {"unauthenticated", "failed"}, Throw(kind) PROVE Telling'
  BY <1>9, ThrowTold DEF Telling, Running, Repeats, Throw, client
<1>10. CASE Lose
  BY <1>10, Still DEF Telling, Running, Repeats, Lose, server, client
<1>11. CASE Read
  BY <1>11, ReadTold DEF Telling, Running, Repeats, Read, server
<1>12. CASE BodyEnded
  BY <1>12, Still DEF Telling, Running, Repeats, BodyEnded, server
<1>13. CASE UNCHANGED vars
  BY <1>13, Still DEF Telling, Running, Repeats, vars, server, client
<1> QED
  BY <1>1, <1>2, <1>3, <1>4, <1>5, <1>6, <1>7, <1>8, <1>9, <1>10, <1>11, <1>12, <1>13 DEF Next, Serve

LEMMA TellingTells == Telling => StreamTellsAll
<1> SUFFICES ASSUME Telling PROVE StreamTellsAll
  OBVIOUS
<1>1. PICK s : Holds(emitted, s) /\ Ahead(s)
  BY DEF Telling, Foretold
<1>2. PICK h : /\ Folding(emitted, h) /\ h[Len(emitted)] = s
               /\ read \in 0 .. Len(emitted) /\ fold = h[read]
  BY <1>1 DEF Holds
<1>3. Len(emitted) \in Nat
  BY <1>2 DEF Folding, IsFrames
<1>4. Mirrors
  <2> SUFFICES ASSUME read = Len(emitted), fold.model # None
               PROVE  /\ fold.model = lastDataModel
                      /\ fold.settled = Cardinality({r \in Requests : settled[r] # None})
                      /\ fold.settled <= fold.total
    BY DEF Mirrors
  <2>1. fold = s /\ Views(s)
    BY <1>1, <1>2 DEF Ahead
  <2>2. IsFiniteSet(Requests)
    BY Nothing, FS_Interval, 1 \in Int, N \in Int DEF Requests
  <2>3. Cardinality({r \in Requests : settled[r] # None}) <= Cardinality(Requests)
    BY <2>2, FS_Subset
  <2> QED
    BY <2>1, <2>3 DEF Views
<1>5. read # Len(emitted) => Unended(fold)
  BY <1>2 DEF Folding
<1>6. told \notin {None, "timeout", "network"} => ~Unended(fold) /\ told = Outcome(fold)
  BY DEF Telling, Repeats, Outcome, Unended
<1>7. told \notin {None, "timeout", "network"} => fold = s /\ read = Len(emitted) /\ pc \in {"answered", "ended"}
  BY <1>1, <1>2, <1>5, <1>6 DEF Ahead
<1>8. OneEnding
  <2>1. ASSUME NEW i \in 1 .. Len(emitted), Terminal(emitted[i]) PROVE i = Len(emitted)
    BY <1>2, <1>3, <2>1 DEF Folding
  <2>2. pc = "ended" => Terminal(emitted[Len(emitted)])
    BY <1>1 DEF Ahead, Closing
  <2>3. ASSUME told = "ok" PROVE read > 0 /\ emitted[read].type = "RUN_FINISHED"
    <3>1. fold = s /\ read = Len(emitted) /\ pc \in {"answered", "ended"} /\ Outcome(fold) = "ok"
      BY <1>6, <1>7, <2>3, Nothing DEF Endings
    <3>2. fold.failure = None
      BY <3>1 DEF Outcome, KindOf, ServiceKinds, Refusals
    <3> QED
      BY <1>1, <3>1, <3>2 DEF Ahead, Closing
  <2> QED
    BY <2>1, <2>2, <2>3 DEF OneEnding
<1>9. AgreesWithBatch
  BY <1>1, <1>6, <1>7 DEF AgreesWithBatch, Ahead, Agreed
<1> QED
  BY <1>4, <1>8, <1>9 DEF StreamTellsAll

THEOREM StreamTells == Spec => []StreamTellsAll
<1>1. Init => Telling
  BY TellingInit
<1>2. Telling /\ [Next]_vars => Telling'
  BY TellingStep
<1>3. Telling => StreamTellsAll
  BY TellingTells
<1> QED
  BY <1>1, <1>2, <1>3, PTL DEF Spec

-----------------------------------------------------------------------------
(* The transport. *)

Typed ==
    /\ phase \in {"received", "reading", "dispatch", "streaming", "answered", "done"}
    /\ wire \in Seq(Nat) /\ queue \in Seq(Nat) /\ got \in Nat
    /\ socket \in {"open", "aborted", "destroyed"}

(* A request past the gate may be there, and its body was sent on purpose. *)
LetIn == Routed /\ gate = "admitted" /\ (call.verb = "POST" => call.json)
WholeBody == wire = <<>> /\ queue = <<>> /\ got <= MaxBodyBytes

Phases ==
    /\ phase = "received" => got = 0 /\ ~ran
    /\ phase \in {"reading", "dispatch", "streaming"} \/ ran \/ got > 0 => LetIn
    /\ phase = "reading" => got <= MaxBodyBytes
    /\ phase \in {"reading", "streaming"} \/ got > 0 => call.verb = "POST"
    /\ phase \in {"reading", "dispatch"} => ~ran
    /\ phase \in {"dispatch", "streaming"} \/ ran => (call.verb = "POST" => WholeBody)
    /\ phase # "done" => heard = Unset

Told ==
    /\ ran => phase \in {"answered", "done"} /\ response.status \in {200, 400, 401, 404, 429}
    /\ phase \in {"answered", "done"} =>
         /\ response.status \in {200, 204, 400, 401, 403, 404, 405, 413, 415, 429}
         /\ response.kind \in Returned \cup {"visitor-identity-required"}
         /\ response.status \in {200, 204} /\ call.verb # "OPTIONS" => ran
    /\ socket = "destroyed" =>
         phase \in {"answered", "done"} /\ response.status = 413 /\ got > MaxBodyBytes

(* What a caller who was told something heard. *)
Heard ==
    phase = "done" =>
        heard = IF socket # "open" THEN "network"
                ELSE IF response.status \in {200, 204} /\ response.kind = Unset THEN "ok"
                ELSE FailureKind(response.status, response.kind)

Orderly == Typed /\ Phases /\ Told /\ Heard

-----------------------------------------------------------------------------
LEMMA OrderlyAnswers == Orderly => AnswersInOrder
<1> SUFFICES ASSUME Orderly PROVE AnswersInOrder
  OBVIOUS
<1>1. /\ ran \/ phase = "streaming" =>
           /\ Routed
           /\ Admin(call.path) => gate = "admitted"
           /\ call.verb = "POST" => call.json /\ wire = <<>> /\ queue = <<>> /\ got <= MaxBodyBytes
      /\ got > 0 => gate = "admitted" /\ call.json
  BY DEF Orderly, Phases, LetIn, WholeBody
<1>2. ASSUME heard # Unset
      PROVE  /\ (heard = "ok" /\ call.verb # "OPTIONS") => ran
             /\ heard = "auth" <=> socket = "open" /\ response.status \in {401, 403}
             /\ heard = "network" => socket = "aborted" \/ (response.status = 413 /\ got > MaxBodyBytes)
             /\ (ran /\ heard \notin {"ok", "network"}) => response.status \in {200, 400, 401, 404, 429}
  <2>1. phase = "done"
    BY <1>2 DEF Orderly, Phases
  <2> DEFINE status == response.status
             kind == response.kind
  <2>2. /\ status \in {200, 204, 400, 401, 403, 404, 405, 413, 415, 429}
        /\ status \in {200, 204} /\ call.verb # "OPTIONS" => ran
    BY <2>1 DEF Orderly, Told
  <2>3. CASE socket # "open"
    <3>1. heard = "network"
      BY <2>1, <2>3 DEF Orderly, Heard
    <3> QED BY <2>3, <3>1 DEF Orderly, Told, Typed
  <2>4. CASE socket = "open" /\ status \in {200, 204} /\ kind = Unset
    <3>1. heard = "ok"
      BY <2>1, <2>4 DEF Orderly, Heard
    <3> QED BY <2>2, <2>4, <3>1
  <2>5. CASE socket = "open" /\ ~(status \in {200, 204} /\ kind = Unset)
    <3>1. heard = FailureKind(status, kind)
      BY <2>1, <2>5 DEF Orderly, Heard
    <3>2. heard = "auth" <=> status \in {401, 403}
      BY <3>1 DEF FailureKind, ServiceFailureKinds
    <3>3. heard # "network" /\ heard # "ok"
      BY <2>2, <3>1 DEF FailureKind, ServiceFailureKinds
    <3>4. ran => status \in {200, 400, 401, 404, 429}
      BY DEF Orderly, Told
    <3> QED BY <2>5, <3>2, <3>3, <3>4
  <2> QED BY <2>3, <2>4, <2>5
<1> QED BY <1>1, <1>2 DEF AnswersInOrder

LEMMA OrderlyInit == FrontInit => Orderly
  BY HttpFrontAssumption, EmptySeq DEF FrontInit, Orderly, Typed, Phases, Told, Heard

(* An answer that nothing ran for, from any phase before the dispatch. *)
LEMMA Turned ==
    ASSUME Orderly, phase \in {"received", "reading", "dispatch"},
           NEW status \in {204, 400, 403, 404, 405, 413, 415}, NEW kind \in Returned,
           Answer(status, kind), status = 204 => call.verb = "OPTIONS",
           UNCHANGED <<call, Body, got, ran, heard>>, got > 0 => gate' = gate
    PROVE  Orderly'
<1>1. /\ phase' = "answered" /\ response'.status = status /\ response'.kind = kind
      /\ ~ran /\ UNCHANGED <<call, wire, queue, socket, got, ran, heard>>
  BY DEF Answer, Response, Body, Orderly, Phases
<1>2. Typed'
  BY <1>1 DEF Orderly, Typed
<1>3. Phases'
  BY <1>1 DEF Orderly, Phases, LetIn, Routed, Admin, WholeBody
<1>4. Told' /\ Heard'
  BY <1>1 DEF Orderly, Told, Heard
<1> QED BY <1>2, <1>3, <1>4 DEF Orderly

LEMMA ArriveKeeps == ASSUME Orderly, Arrive PROVE Orderly'
<1>1. /\ wire # <<>> /\ phase \notin {"answered", "done"} /\ wire' \in Seq(Nat) /\ queue' \in Seq(Nat)
      /\ UNCHANGED <<call, phase, socket, got, gate, ran, response, heard>>
  BY HeadTailProperties, AppendProperties DEF Arrive, Orderly, Typed
<1>2. Typed'
  BY <1>1 DEF Orderly, Typed
<1>3. Phases'
  BY <1>1 DEF Orderly, Phases, Told, LetIn, Routed, WholeBody
<1>4. Told' /\ Heard'
  BY <1>1 DEF Orderly, Told, Heard
<1> QED BY <1>2, <1>3, <1>4 DEF Orderly

LEMMA GoAwayKeeps == ASSUME Orderly, GoAway PROVE Orderly'
  BY DEF GoAway, Orderly, Typed, Phases, LetIn, Routed, WholeBody, Told, Heard

LEMMA UnroutedKeeps == ASSUME Orderly, Unrouted PROVE Orderly'
<1>1. phase = "received" /\ Unset \in Returned /\ got = 0 /\ UNCHANGED <<call, Body, got, ran, heard>>
  BY DEF Unrouted, Orderly, Phases, Returned
<1>2. \E status \in {204, 404, 405} : Answer(status, Unset) /\ (status = 204 => call.verb = "OPTIONS")
  BY DEF Unrouted
<1> QED BY <1>1, <1>2, Turned

LEMMA GateKeeps == ASSUME Orderly, NEW verdict, Gate(verdict) PROVE Orderly'
<1>1. /\ phase = "received" /\ Unset \in Returned /\ got = 0 /\ ~ran /\ Routed /\ gate' = verdict
      /\ UNCHANGED <<call, Body, got, ran, heard>>
  BY DEF Gate, Orderly, Phases, Returned
<1>2. CASE \E status \in {400, 403, 413, 415} : Answer(status, Unset)
  BY <1>1, <1>2, Turned
<1>3. CASE /\ verdict = "admitted" /\ UNCHANGED response
           /\ \/ phase' = "dispatch" /\ call.verb = "GET"
              \/ phase' = "reading" /\ call.verb # "GET" /\ call.json
  <2>1. UNCHANGED <<call, wire, queue, socket, got, ran, heard>>
    BY <1>1 DEF Body
  <2>2. call.verb \in {"GET", "POST"}
    BY <1>1 DEF Routed, Served
  <2>3. Typed'
    BY <1>3, <2>1 DEF Orderly, Typed
  <2>4. Phases'
    BY <1>1, <1>3, <2>1, <2>2, HttpFrontAssumption DEF Orderly, Phases, LetIn, Routed, WholeBody
  <2>5. Told' /\ Heard'
    BY <1>1, <1>3, <2>1 DEF Orderly, Told, Heard
  <2> QED BY <2>3, <2>4, <2>5 DEF Orderly
<1> QED BY <1>2, <1>3 DEF Gate, Entered

LEMMA ReadChunkKeeps == ASSUME Orderly, ReadChunk PROVE Orderly'
<1>1. /\ phase = "reading" /\ got \in Nat /\ Head(queue) \in Nat /\ queue' \in Seq(Nat)
      /\ got' = got + Head(queue) /\ got' \in Nat
      /\ ~ran /\ LetIn /\ call.verb = "POST"
      /\ UNCHANGED <<call, wire, gate, ran, heard>>
  BY HeadTailProperties DEF ReadChunk, Orderly, Typed, Phases
<1>2. CASE got' > MaxBodyBytes
  <2>1. /\ phase' = "answered" /\ response'.status = 413 /\ response'.kind = Unset /\ socket' = "destroyed"
    BY <1>2 DEF ReadChunk, Exceeds, Answer, Response
  <2> QED BY <1>1, <1>2, <2>1 DEF Orderly, Typed, Phases, LetIn, Routed, Told, Heard, Returned
<1>3. CASE ~(got' > MaxBodyBytes)
  <2>1. UNCHANGED <<phase, response, socket>> /\ got' <= MaxBodyBytes
    BY <1>1, <1>3, HttpFrontAssumption DEF ReadChunk, Exceeds
  <2> QED BY <1>1, <2>1 DEF Orderly, Typed, Phases, LetIn, Routed, Told, Heard
<1> QED BY <1>2, <1>3

LEMMA ReadBrokenKeeps == ASSUME Orderly, ReadBroken PROVE Orderly'
  BY Turned DEF ReadBroken, Returned

LEMMA ReadEndKeeps == ASSUME Orderly, ReadEnd PROVE Orderly'
<1>1. phase = "reading" /\ Unset \in Returned /\ UNCHANGED <<call, Body, got, gate, ran, heard>>
  BY DEF ReadEnd, Returned
<1>2. CASE Answer(400, Unset)
  BY <1>1, <1>2, Turned
<1>3. CASE phase' \in {"streaming", "dispatch"}
  BY <1>1, <1>3 DEF ReadEnd, Body, Orderly, Typed, Phases, LetIn, Routed, WholeBody, Told, Heard
<1> QED BY <1>2, <1>3 DEF ReadEnd

LEMMA IncompleteKeeps == ASSUME Orderly, Incomplete PROVE Orderly'
  BY Turned DEF Incomplete, Returned

(* An answer of the method that ran. *)
LEMMA RanKeeps ==
    ASSUME Orderly, phase = "dispatch", ran' = TRUE,
           NEW status \in {200, 400, 401, 404, 429},
           NEW kind \in Returned \cup {"visitor-identity-required"}, Answer(status, kind),
           UNCHANGED <<call, Body, got, gate, heard>>
    PROVE  Orderly'
<1>1. /\ phase' = "answered" /\ response'.status = status /\ response'.kind = kind
      /\ UNCHANGED <<call, wire, queue, socket, got, gate, heard>>
  BY DEF Answer, Response, Body
<1>2. Typed' /\ Phases'
  BY <1>1 DEF Orderly, Typed, Phases, LetIn, Routed, WholeBody
<1>3. Told' /\ Heard'
  BY <1>1 DEF Orderly, Told, Heard
<1> QED BY <1>2, <1>3 DEF Orderly

LEMMA ReturnsKeeps == ASSUME Orderly, NEW kind \in Returned, Returns(kind) PROVE Orderly'
  BY RanKeeps DEF Returns, Returned

LEMMA ThrowsKeeps == ASSUME Orderly, NEW cause \in Causes, Throws(cause) PROVE Orderly'
<1>1. phase = "dispatch" /\ ran' = TRUE /\ UNCHANGED <<call, Body, got, gate, heard>> /\ Unset \in Returned
  BY DEF Throws, Returned
<1>2. CASE \E status \in {400, 401, 429} : Answer(status, Unset)
  BY <1>1, <1>2, RanKeeps
<1>3. CASE Answer(400, "visitor-identity-required")
  BY <1>1, <1>3, RanKeeps
<1>4. CASE cause = "visitor-identity-required" /\ Answer(400, cause)
  BY <1>3, <1>4
<1>5. Answer(401, Unset) \/ Answer(429, Unset) \/ Answer(400, Unset) \/ (cause = "visitor-identity-required" /\ Answer(400, cause))
  BY DEF Throws
<1> QED BY <1>2, <1>4, <1>5

LEMMA DeliverKeeps == ASSUME Orderly, Deliver PROVE Orderly'
  BY DEF Deliver, Body, Orderly, Typed, Phases, LetIn, Routed, WholeBody, Told, Heard

LEMMA OrderlyNext == Orderly /\ [FrontNext]_frontVars => Orderly'
<1> SUFFICES ASSUME Orderly, [FrontNext]_frontVars PROVE Orderly'
  OBVIOUS
<1>1. CASE UNCHANGED frontVars
  BY <1>1 DEF frontVars, Orderly, Typed, Phases, LetIn, Routed, WholeBody, Told, Heard
<1>2. CASE FrontNext
  BY <1>2, ArriveKeeps, GoAwayKeeps, UnroutedKeeps, GateKeeps, ReadChunkKeeps, ReadBrokenKeeps,
     ReadEndKeeps, IncompleteKeeps, ReturnsKeeps, ThrowsKeeps, DeliverKeeps DEF FrontNext
<1> QED BY <1>1, <1>2

(* Whatever arrives, in whatever pieces, and whenever the client goes away: nothing runs
   for a request that was not let in or read to its end within the limit, and the caller
   learns whose doing a failure is (createViewHttpHandler, toNodeHandler,
   failureKindFor). *)
THEOREM FrontAnswersInOrder == FrontSpec => []AnswersInOrder
  BY OrderlyInit, OrderlyNext, OrderlyAnswers, PTL DEF FrontSpec

-----------------------------------------------------------------------------
(* The bounded map.  Within is that the entries of n are entries of m or the
   entry e: what no operation but set may add. *)
Within(n, m, e) == \A i \in DOMAIN n : n[i] = e \/ \E j \in DOMAIN m : n[i] = m[j]

LEMMA CapacityTyped == ASSUME NEW max \in Nat PROVE Capacity(max) \in Nat \ {0} /\ max <= Capacity(max)
  BY DEF Capacity

LEMMA ValueIsHeld ==
    ASSUME NEW m, NEW k, HasKey(m, k)
    PROVE  \E i \in DOMAIN m : m[i].key = k /\ ValueAt(m, k) = m[i].val
  BY DEF HasKey, ValueAt, Position

LEMMA EvictMakesRoom ==
    ASSUME NEW S, NEW m \in Seq(S), NEW max \in Nat, Len(m) <= Capacity(max), DistinctKeys(m),
           NEW e
    PROVE  LET n == EvictOldest(m, max) IN
           /\ n \in Seq(S) /\ Len(n) < Capacity(max) /\ DistinctKeys(n) /\ Within(n, m, e)
<1> DEFINE n == EvictOldest(m, max)
<1>1. Len(m) \in Nat /\ DOMAIN m = 1 .. Len(m)
  BY LenProperties
<1>2. CASE Len(m) >= max /\ m # <<>>
  <2>1. /\ n = Tail(m) /\ n \in Seq(S) /\ Len(n) = Len(m) - 1
        /\ \A i \in 1 .. Len(n) : n[i] = m[i + 1]
    BY <1>2, HeadTailProperties DEF EvictOldest
  <2>2. DOMAIN n = 1 .. Len(n) /\ Len(n) \in Nat
    BY <2>1, LenProperties
  <2>3. Len(n) < Capacity(max)
    BY <1>1, <2>1, CapacityTyped
  <2>4. \A i \in DOMAIN n : i + 1 \in DOMAIN m /\ n[i] = m[i + 1] /\ i \in Nat
    BY <1>1, <2>1, <2>2
  <2>5. DistinctKeys(n)
    BY <2>2, <2>4 DEF DistinctKeys
  <2> QED BY <2>1, <2>3, <2>4, <2>5 DEF Within
<1>3. CASE ~(Len(m) >= max /\ m # <<>>)
  <2>1. n = m
    BY <1>3 DEF EvictOldest
  <2>2. Len(m) < Capacity(max)
    <3>1. CASE m = <<>>
      BY <3>1, CapacityTyped, EmptySeq
    <3>2. CASE Len(m) < max
      BY <3>2, <1>1, CapacityTyped
    <3> QED BY <1>1, <1>3, <3>1, <3>2
  <2> QED BY <2>1, <2>2 DEF Within
<1> QED BY <1>2, <1>3

LEMMA SetAddsOne ==
    ASSUME NEW S, NEW m \in Seq(S), NEW k, NEW v, Entry(k, v) \in S, DistinctKeys(m)
    PROVE  LET n == MapSet(m, k, v) IN
           /\ n \in Seq(S) /\ Len(n) <= Len(m) + 1 /\ DistinctKeys(n) /\ Within(n, m, Entry(k, v))
<1> DEFINE n == MapSet(m, k, v)
<1>1. Len(m) \in Nat /\ DOMAIN m = 1 .. Len(m) /\ \A i \in DOMAIN m : m[i] \in S
  BY LenProperties, ElementOfSeq
<1>2. CASE HasKey(m, k)
  <2>1. n = [i \in 1 .. Len(m) |-> IF m[i].key = k THEN Entry(k, v) ELSE m[i]]
    BY <1>1, <1>2 DEF MapSet
  <2>2. n \in Seq(S) /\ Len(n) = Len(m) /\ DOMAIN n = DOMAIN m
    <3>1. n \in [1 .. Len(m) -> S]
      BY <1>1, <2>1
    <3> QED BY <1>1, <3>1, <2>1 
  <2>3. \A i \in DOMAIN n : n[i].key = m[i].key
    BY <1>1, <2>1, <2>2 DEF Entry
  <2>4. DistinctKeys(n)
    BY <2>2, <2>3 DEF DistinctKeys
  <2>5. Within(n, m, Entry(k, v))
    BY <1>1, <2>1, <2>2 DEF Within
  <2> QED BY <1>1, <2>2, <2>4, <2>5
<1>3. CASE ~HasKey(m, k)
  <2>1. /\ n = Append(m, Entry(k, v)) /\ n \in Seq(S) /\ Len(n) = Len(m) + 1
        /\ \A i \in 1 .. Len(m) : n[i] = m[i]
        /\ n[Len(m) + 1] = Entry(k, v)
    BY <1>3, AppendProperties DEF MapSet
  <2>2. DOMAIN n = 1 .. Len(m) + 1
    BY <1>1, <2>1, LenProperties
  <2>3. \A i \in DOMAIN n : i = Len(m) + 1 \/ i \in DOMAIN m
    BY <1>1, <2>2
  <2>4. DistinctKeys(n)
    <3> SUFFICES ASSUME NEW i \in DOMAIN n, NEW j \in DOMAIN n, n[i].key = n[j].key PROVE i = j
      BY DEF DistinctKeys
    <3>1. \A x \in DOMAIN m : n[x].key # k
      BY <1>1, <1>3, <2>1 DEF HasKey
    <3>2. n[Len(m) + 1].key = k
      BY <2>1 DEF Entry
    <3>3. CASE i \in DOMAIN m /\ j \in DOMAIN m
      BY <3>3, <1>1, <2>1 DEF DistinctKeys
    <3> QED BY <2>3, <3>1, <3>2, <3>3
  <2>5. Within(n, m, Entry(k, v))
    BY <1>1, <2>1, <2>3 DEF Within
  <2> QED BY <2>1, <1>1, <2>4, <2>5
<1> QED BY <1>2, <1>3

(* A set adds its own entry and no other, keeps the keys apart and the limit. *)
LEMMA SetBoundedKeeps ==
    ASSUME NEW S, NEW m \in Seq(S), NEW max \in Nat, Len(m) <= Capacity(max), DistinctKeys(m),
           NEW k, NEW v, Entry(k, v) \in S
    PROVE  LET n == SetBounded(m, max, k, v) IN
           /\ n \in Seq(S) /\ Len(n) <= Capacity(max) /\ DistinctKeys(n) /\ Within(n, m, Entry(k, v))
<1> DEFINE e == EvictOldest(m, max)
           n == SetBounded(m, max, k, v)
<1>1. e \in Seq(S) /\ Len(e) < Capacity(max) /\ DistinctKeys(e) /\ Within(e, m, Entry(k, v))
  BY EvictMakesRoom
<1>2. n = MapSet(e, k, v)
  BY DEF SetBounded
<1>3. n \in Seq(S) /\ Len(n) <= Len(e) + 1 /\ DistinctKeys(n) /\ Within(n, e, Entry(k, v))
  BY <1>1, <1>2, SetAddsOne
<1>4. Len(n) <= Capacity(max)
  BY <1>1, <1>3, CapacityTyped, LenProperties
<1>5. Within(n, m, Entry(k, v))
  BY <1>1, <1>3 DEF Within
<1> QED BY <1>3, <1>4, <1>5

(* A delete takes one entry and adds none. *)
LEMMA DeleteKeeps ==
    ASSUME NEW S, NEW m \in Seq(S), NEW k, HasKey(m, k), DistinctKeys(m)
    PROVE  LET n == MapDelete(m, k) IN
           /\ n \in Seq(S) /\ Len(n) <= Len(m) /\ DistinctKeys(n)
           /\ \A i \in DOMAIN n : \E j \in DOMAIN m : n[i] = m[j]
<1> DEFINE n == MapDelete(m, k)
           p == Position(m, k)
<1>1. Len(m) \in Nat /\ DOMAIN m = 1 .. Len(m) /\ \A i \in DOMAIN m : m[i] \in S
  BY LenProperties, ElementOfSeq
<1>2. p \in DOMAIN m
  BY DEF HasKey, Position
<1>3. Len(m) - 1 \in Nat
  BY <1>1, <1>2
<1>4. n = [i \in 1 .. Len(m) - 1 |-> IF i < p THEN m[i] ELSE m[i + 1]]
  BY DEF MapDelete
<1>5. \A i \in 1 .. Len(m) - 1 : i \in DOMAIN m /\ i + 1 \in DOMAIN m
  BY <1>1
<1>6. n \in [1 .. Len(m) - 1 -> S]
  BY <1>1, <1>4, <1>5
<1>7. n \in Seq(S) /\ Len(n) = Len(m) - 1 /\ DOMAIN n = 1 .. Len(m) - 1
  BY <1>3, <1>6, <1>4
<1>8. \A i \in DOMAIN n : \E j \in DOMAIN m : n[i] = m[j]
  BY <1>4, <1>5, <1>7
<1>9. DistinctKeys(n)
  <2> DEFINE at(i) == IF i < p THEN i ELSE i + 1
  <2>1. \A i \in DOMAIN n : at(i) \in DOMAIN m /\ n[i] = m[at(i)]
    BY <1>4, <1>5, <1>7
  <2>2. \A i, j \in DOMAIN n : at(i) = at(j) => i = j
    BY <1>1, <1>2, <1>7
  <2> QED BY <2>1, <2>2 DEF DistinctKeys
<1> QED BY <1>1, <1>7, <1>8, <1>9

-----------------------------------------------------------------------------
(* The inductive invariant. *)
Entries(Keys, Values) == [key : Keys, val : Values]
CacheKeys == Catalogs \X Hashes \X {Fingerprint[u] : u \in Registrations} \X Prompts
CacheEntries == Entries(CacheKeys, Plan)
RecentEntries == Entries(Ids, Remembered)

(* The plan cache holds plans of shared prompts, each pinned to the snapshot its key
   names. *)
CachedFits(e) ==
    /\ e.val.private = {}
    /\ \E p \in Prompts : e.key = <<e.val.catalog, e.val.hash, Fingerprint[e.val.reg], p>>

(* A remembered plan and a saved view are their owner's, and say which contents of the
   catalog their plan is pinned to. *)
HeldFits(held) == held.plan.private \subseteq {held.owner} /\ held.hash = held.plan.hash
ViewFits(view) == view.plan.private \subseteq {view.owner} /\ view.hash = view.plan.hash

(* A run has a plan exactly while it executes; what it holds is its visitor's; only a
   revision has a previous plan; and what a compose has planned is pinned to its
   snapshot. *)
RunFits(run) ==
    /\ run.stage = "executing" => run.plan \in Plan /\ run.plan.private \subseteq {run.visitor}
    /\ run.stage # "executing" => run.kind = "compose" /\ run.plan = NoValue
    /\ run.previous # NoValue => run.previous.private \subseteq {run.visitor} /\ run.previousId # NoValue
    /\ run.kind = "compose" /\ run.stage = "executing" /\ ~run.failed =>
         Pinned(run.plan, run.catalog, run.hash, run.reg)

CacheKept ==
    /\ planCache \in Seq(CacheEntries) /\ Len(planCache) <= Capacity(MaxCached) /\ DistinctKeys(planCache)
    /\ \A i \in DOMAIN planCache : CachedFits(planCache[i])
RecentKept ==
    /\ recentPlans \in Seq(RecentEntries) /\ Len(recentPlans) <= Capacity(MaxRecent)
    /\ DistinctKeys(recentPlans)
    /\ \A i \in DOMAIN recentPlans : HeldFits(recentPlans[i].val)
ViewsKept == views \in SUBSET SavedView /\ \A view \in views : ViewFits(view)
RunsKept ==
    /\ runs \in [Runs -> Run \cup {NoValue}]
    /\ \A r \in Runs : runs[r] # NoValue => RunFits(runs[r])
RegistriesKept ==
    /\ published \in [Catalogs -> Hashes \cup {NoValue}]
    /\ site \in [Catalogs -> Registrations \cup {NoValue}]
    /\ nextId \in 1 .. MaxId + 1
Kept == RegistriesKept /\ CacheKept /\ RecentKept /\ ViewsKept /\ RunsKept

LEMMA CacheEntry ==
    ASSUME CacheKept
    PROVE  \A i \in DOMAIN planCache :
             planCache[i].val \in Plan /\ CachedFits(planCache[i])
<1>1. planCache \in Seq(CacheEntries) /\ \A i \in DOMAIN planCache : CachedFits(planCache[i])
  BY DEF CacheKept
<1>2. \A i \in DOMAIN planCache : planCache[i] \in CacheEntries
  BY <1>1, LenProperties, ElementOfSeq
<1> QED BY <1>1, <1>2 DEF CacheEntries, Entries

LEMMA RecentEntry ==
    ASSUME RecentKept
    PROVE  \A i \in DOMAIN recentPlans :
             /\ recentPlans[i].key \in Ids /\ recentPlans[i].val \in Remembered
             /\ HeldFits(recentPlans[i].val)
<1>1. recentPlans \in Seq(RecentEntries) /\ \A i \in DOMAIN recentPlans : HeldFits(recentPlans[i].val)
  BY DEF RecentKept
<1>2. \A i \in DOMAIN recentPlans : recentPlans[i] \in RecentEntries
  BY <1>1, LenProperties, ElementOfSeq
<1> QED BY <1>1, <1>2 DEF RecentEntries, Entries

LEMMA KeptIsTyped == Kept => TypeOK
<1> SUFFICES ASSUME Kept PROVE TypeOK
  OBVIOUS
<1>1. \A i \in DOMAIN planCache : planCache[i].val \in Plan
  BY CacheEntry DEF Kept
<1>2. \A i \in DOMAIN recentPlans : recentPlans[i].key \in Ids /\ recentPlans[i].val \in Remembered
  BY RecentEntry DEF Kept
<1> QED BY <1>1, <1>2 DEF Kept, CacheKept, RecentKept, ViewsKept, RunsKept, RegistriesKept, TypeOK

LEMMA KeptIsPrivate == Kept => PrivateToOwner
<1> SUFFICES ASSUME Kept PROVE PrivateToOwner
  OBVIOUS
<1>1. TypeOK
  BY KeptIsTyped
<1>2. \A plan \in MapValues(planCache) : plan.private = {}
  BY DEF Kept, CacheKept, CachedFits, MapValues
<1>3. \A held \in MapValues(recentPlans) : held.plan.private \subseteq {held.owner}
  BY DEF Kept, RecentKept, HeldFits, MapValues
<1>4. \A view \in views : view.plan.private \subseteq {view.owner}
  BY DEF Kept, ViewsKept, ViewFits
<1>5. \A r \in Runs : runs[r] # NoValue /\ runs[r].plan # NoValue => runs[r].plan.private \subseteq {runs[r].visitor}
  BY DEF Kept, RunsKept, RunFits
<1> QED BY <1>1, <1>2, <1>3, <1>4, <1>5 DEF PrivateToOwner

LEMMA KeptHoldsSnapshots == Kept => SnapshotHolds
  BY DEF Kept, RunsKept, RunFits, SnapshotHolds

LEMMA KeptDelivers == Kept => FreshViewDelivers
  BY DEF Kept, ViewsKept, ViewFits, FreshViewDelivers, Drifted

-----------------------------------------------------------------------------
(* What an action does to each part. *)
LEMMA KeptInit == ViewInit => Kept
<1> SUFFICES ASSUME ViewInit PROVE Kept
  OBVIOUS
<1>1. RegistriesKept
  BY ViewServerAssumption DEF ViewInit, RegistriesKept
<1>2. <<>> \in Seq(CacheEntries) /\ <<>> \in Seq(RecentEntries) /\ Len(<<>>) = 0 /\ DOMAIN <<>> = {}
  BY EmptySeq
<1>3. CacheKept /\ RecentKept
  BY <1>2, ViewServerAssumption, CapacityTyped DEF ViewInit, CacheKept, RecentKept, DistinctKeys
<1>4. ViewsKept /\ RunsKept
  BY DEF ViewInit, ViewsKept, RunsKept
<1> QED BY <1>1, <1>3, <1>4 DEF Kept

LEMMA RunBecomes ==
    ASSUME RunsKept, NEW r \in Runs, NEW run \in Run, RunFits(run), Become(r, run)
    PROVE  RunsKept'
  BY DEF RunsKept, Become

LEMMA RunEnds == ASSUME RunsKept, NEW r \in Runs, Finish(r) PROVE RunsKept'
  BY DEF RunsKept, Finish

(* What is remembered of a run that compiled is its visitor's and pinned to its
   snapshot. *)
LEMMA Remembers ==
    ASSUME RecentKept, NEW run \in Run, RunFits(run), run.stage = "executing",
           Compiles(run.plan, run), RememberPlan(run, run.plan)
    PROVE  RecentKept'
<1> DEFINE e == Entry(run.plan.id, Remember(run, run.plan))
<1>1. run.plan \in Plan /\ run.plan.private \subseteq {run.visitor} /\ run.plan.hash = run.hash
  BY DEF RunFits, Compiles, Pinned
<1>2. Remember(run, run.plan) \in Remembered /\ run.plan.id \in Ids
  BY <1>1 DEF Remember, Remembered, Run, Plan
<1>3. e \in RecentEntries /\ HeldFits(e.val)
  BY <1>1, <1>2 DEF Entry, RecentEntries, Entries, HeldFits, Remember
<1>4. MaxRecent \in Nat
  BY ViewServerAssumption
<1>5. recentPlans' = SetBounded(recentPlans, MaxRecent, run.plan.id, Remember(run, run.plan))
  BY DEF RememberPlan
<1>6. /\ recentPlans' \in Seq(RecentEntries) /\ Len(recentPlans') <= Capacity(MaxRecent)
      /\ DistinctKeys(recentPlans') /\ Within(recentPlans', recentPlans, e)
  BY <1>3, <1>4, <1>5, SetBoundedKeeps DEF RecentKept
<1> QED BY <1>3, <1>6 DEF RecentKept, Within

(* What requireOwnedPlan finds is the visitor's own. *)
LEMMA OwnedPlan ==
    ASSUME RecentKept, NEW id, NEW c, NEW v, RequireOwnedPlan(id, c, v)
    PROVE  LET held == ValueAt(recentPlans, id) IN
           /\ held \in Remembered /\ held.owner = v /\ held.catalog = c /\ HeldFits(held)
           /\ held.plan \in Plan /\ held.plan.private \subseteq {v}
<1> DEFINE held == ValueAt(recentPlans, id)
<1>1. PICK i \in DOMAIN recentPlans : held = recentPlans[i].val
  BY ValueIsHeld DEF RequireOwnedPlan
<1>3. held \in Remembered /\ HeldFits(held)
  BY <1>1, RecentEntry
<1> QED BY <1>3 DEF RequireOwnedPlan, HeldFits, Remembered

(* A plan found under the key of a run is shared and pinned to the run's snapshot. *)
LEMMA CachedPlan ==
    ASSUME CacheKept, NEW run \in Run, HasKey(planCache, CacheKey(run))
    PROVE  LET plan == ValueAt(planCache, CacheKey(run)) IN
           /\ plan \in Plan /\ plan.private = {}
           /\ Pinned(plan, run.catalog, run.hash, run.reg)
<1> DEFINE plan == ValueAt(planCache, CacheKey(run))
<1>1. PICK i \in DOMAIN planCache : planCache[i].key = CacheKey(run) /\ plan = planCache[i].val
  BY ValueIsHeld
<1>3. plan \in Plan /\ plan.private = {} /\ CachedFits(planCache[i])
  BY <1>1, CacheEntry DEF CachedFits
<1>4. PICK p \in Prompts : CacheKey(run) = <<plan.catalog, plan.hash, Fingerprint[plan.reg], p>>
  BY <1>1, <1>3 DEF CachedFits
<1>5. plan.catalog = run.catalog /\ plan.hash = run.hash /\ Fingerprint[plan.reg] = Fingerprint[run.reg]
  BY <1>4 DEF CacheKey
<1> QED BY <1>3, <1>5 DEF Pinned

(* What a run holds between two of its steps. *)
LEMMA RunHeld ==
    ASSUME RunsKept, NEW r \in Runs, runs[r] # NoValue
    PROVE  runs[r] \in Run /\ RunFits(runs[r])
  BY DEF RunsKept

LEMMA FreshId == ASSUME RegistriesKept, Fresh PROVE nextId \in Ids /\ nextId + 1 \in 1 .. MaxId + 1
  BY ViewServerAssumption DEF RegistriesKept, Fresh, Ids

(* The parts of the invariant an action leaves alone. *)
LEMMA Unchanged ==
    /\ RegistriesKept /\ UNCHANGED <<registries, nextId>> => RegistriesKept'
    /\ RegistriesKept /\ UNCHANGED registries /\ Fresh /\ Mint => RegistriesKept'
    /\ CacheKept /\ UNCHANGED planCache => CacheKept'
    /\ RecentKept /\ UNCHANGED recentPlans => RecentKept'
    /\ ViewsKept /\ UNCHANGED views => ViewsKept'
    /\ RunsKept /\ UNCHANGED runs => RunsKept'
<1>1. ASSUME RegistriesKept, UNCHANGED <<registries, nextId>> PROVE RegistriesKept'
  BY <1>1 DEF RegistriesKept, registries
<1>2. ASSUME RegistriesKept, UNCHANGED registries, Fresh, Mint PROVE RegistriesKept'
  BY <1>2, FreshId DEF RegistriesKept, registries, Mint
<1>3. CacheKept /\ UNCHANGED planCache => CacheKept'
  BY DEF CacheKept
<1>4. RecentKept /\ UNCHANGED recentPlans => RecentKept'
  BY DEF RecentKept
<1>5. ViewsKept /\ UNCHANGED views => ViewsKept'
  BY DEF ViewsKept
<1>6. RunsKept /\ UNCHANGED runs => RunsKept'
  BY DEF RunsKept
<1> QED BY <1>1, <1>2, <1>3, <1>4, <1>5, <1>6

-----------------------------------------------------------------------------
(* The steps of a compose. *)
LEMMA ComposeStartKeeps ==
    ASSUME Kept, NEW r \in Runs, NEW v \in Visitors, NEW c \in Catalogs, NEW p \in Prompts,
           NEW id \in (1 .. nextId - 1) \cup {NoValue}, ComposeStart(r, v, c, p, id)
    PROVE  Kept'
<1> DEFINE run == [kind |-> "compose", stage |-> "session", visitor |-> v, catalog |-> c,
                   hash |-> published[c], reg |-> site[c], prompt |-> p,
                   previousId |-> id, previous |-> NoValue, plan |-> NoValue, failed |-> FALSE]
<1>1. id \in Ids \cup {NoValue}
  BY ViewServerAssumption DEF Kept, RegistriesKept, Ids
<1>2. published[c] \in Hashes /\ site[c] \in Registrations
  BY DEF ComposeStart, Kept, RegistriesKept
<1>3. run \in Run
  BY <1>1, <1>2 DEF Run
<1>4. RunFits(run)
  BY DEF RunFits
<1>5. Become(r, run)
  BY DEF ComposeStart
<1>6. RunsKept'
  BY <1>3, <1>4, <1>5, RunBecomes DEF Kept
<1> QED BY <1>6, Unchanged DEF ComposeStart, Kept

LEMMA ComposeRefusedKeeps == ASSUME Kept, NEW r \in Runs, ComposeRefused(r) PROVE Kept'
  BY RunEnds, Unchanged DEF ComposeRefused, Kept

LEMMA ComposeHitKeeps == ASSUME Kept, NEW r \in Runs, ComposeHit(r) PROVE Kept'
<1> DEFINE run == runs[r]
           cached == ValueAt(planCache, CacheKey(run))
           plan == Reidentified(cached)
           after == [run EXCEPT !.stage = "executing", !.plan = plan]
<1>1. run \in Run /\ RunFits(run) /\ run.stage = "session" /\ run.kind = "compose"
  BY RunHeld DEF ComposeHit, Kept
<1>2. cached \in Plan /\ cached.private = {} /\ Pinned(cached, run.catalog, run.hash, run.reg)
  BY <1>1, CachedPlan DEF ComposeHit, Kept
<1>3. nextId \in Ids
  BY DEF ComposeHit, Fresh
<1>4. plan \in Plan /\ plan.private = {} /\ Pinned(plan, run.catalog, run.hash, run.reg)
  BY <1>2, <1>3 DEF Reidentified, Plan, Pinned
<1>5. after \in Run
  BY <1>1, <1>4 DEF Run
<1>6. /\ after.stage = "executing" /\ after.plan = plan /\ after.previous = run.previous
      /\ after.previousId = run.previousId /\ after.visitor = run.visitor /\ after.kind = "compose"
      /\ after.catalog = run.catalog /\ after.hash = run.hash /\ after.reg = run.reg
  BY <1>1 DEF Run
<1>7. RunFits(after)
  BY <1>1, <1>4, <1>6 DEF RunFits
<1>8. RunsKept'
  BY <1>5, <1>7, RunBecomes DEF ComposeHit, Kept
<1> QED BY <1>8, Unchanged DEF ComposeHit, Kept

LEMMA ComposeMissKeeps == ASSUME Kept, NEW r \in Runs, ComposeMiss(r) PROVE Kept'
<1> DEFINE run == runs[r]
<1>1. run \in Run /\ RunFits(run) /\ run.stage = "session" /\ run.kind = "compose" /\ run.plan = NoValue
  BY RunHeld DEF ComposeMiss, Kept, RunFits
<1>2. CacheKept'
  <2>1. CASE planCache' = planCache
    BY <2>1, Unchanged DEF Kept
  <2>2. CASE HasKey(planCache, CacheKey(run)) /\ planCache' = MapDelete(planCache, CacheKey(run))
    <3>1. planCache \in Seq(CacheEntries) /\ DistinctKeys(planCache) /\ Len(planCache) <= Capacity(MaxCached)
      BY DEF Kept, CacheKept
    <3>2. /\ planCache' \in Seq(CacheEntries) /\ Len(planCache') <= Len(planCache)
          /\ DistinctKeys(planCache')
          /\ \A i \in DOMAIN planCache' : \E j \in DOMAIN planCache : planCache'[i] = planCache[j]
      BY <2>2, <3>1, DeleteKeeps
    <3>3. Len(planCache') <= Capacity(MaxCached)
      BY <3>1, <3>2, LenProperties, CapacityTyped, ViewServerAssumption
    <3> QED BY <3>2, <3>3 DEF Kept, CacheKept
  <2> QED BY <2>1, <2>2 DEF ComposeMiss
<1>3. RunsKept'
  <2>1. CASE Become(r, [run EXCEPT !.stage = "planning"])
    <3> DEFINE after == [run EXCEPT !.stage = "planning"]
    <3>1. after \in Run
      BY <1>1 DEF Run
    <3>2. /\ after.stage = "planning" /\ after.kind = "compose" /\ after.plan = NoValue
          /\ after.previous = run.previous /\ after.previousId = run.previousId
          /\ after.visitor = run.visitor
      BY <1>1 DEF Run
    <3>3. RunFits(after)
      BY <1>1, <3>2 DEF RunFits
    <3> QED BY <2>1, <3>1, <3>3, RunBecomes DEF Kept
  <2>2. CASE /\ run.previousId # NoValue
             /\ RequireOwnedPlan(run.previousId, run.catalog, run.visitor)
             /\ Become(r, [run EXCEPT !.stage = "planning",
                             !.previous = ValueAt(recentPlans, run.previousId).plan])
    <3> DEFINE previous == ValueAt(recentPlans, run.previousId).plan
               after == [run EXCEPT !.stage = "planning", !.previous = previous]
    <3>1. previous \in Plan /\ previous.private \subseteq {run.visitor}
      BY <2>2, OwnedPlan DEF Kept
    <3>2. after \in Run
      BY <1>1, <3>1 DEF Run
    <3>3. /\ after.stage = "planning" /\ after.kind = "compose" /\ after.plan = NoValue
          /\ after.previous = previous /\ after.previousId = run.previousId
          /\ after.visitor = run.visitor
      BY <1>1 DEF Run
    <3>4. RunFits(after)
      BY <2>2, <3>1, <3>3 DEF RunFits
    <3> QED BY <2>2, <3>2, <3>4, RunBecomes DEF Kept
  <2>3. CASE Finish(r)
    BY <2>3, RunEnds DEF Kept
  <2> QED BY <2>1, <2>2, <2>3 DEF ComposeMiss
<1> QED BY <1>2, <1>3, Unchanged DEF ComposeMiss, Kept

LEMMA ComposePlannedKeeps == ASSUME Kept, NEW r \in Runs, ComposePlanned(r) PROVE Kept'
<1> DEFINE run == runs[r]
<1>1. /\ run \in Run /\ RunFits(run) /\ run.stage = "planning" /\ run.kind = "compose"
      /\ run.plan = NoValue
  BY RunHeld DEF ComposePlanned, Kept, RunFits
<1>2. nextId \in Ids
  BY DEF ComposePlanned, Fresh
<1>3. PICK caps \in (SUBSET Offers[run.hash]) \ {{}} :
         /\ Become(r, [run EXCEPT !.stage = "executing", !.plan = PlanWritten(run, caps)])
         /\ IF Cacheable(run)
            THEN planCache' \in {planCache, SetBounded(planCache, MaxCached, CacheKey(run),
                                                       PlanWritten(run, caps))}
            ELSE UNCHANGED planCache
  BY DEF ComposePlanned
<1> DEFINE plan == PlanFor(run, caps)
           after == [run EXCEPT !.stage = "executing", !.plan = plan]
<1>4. /\ run.catalog \in Catalogs /\ run.hash \in Hashes /\ run.reg \in Registrations
      /\ run.visitor \in Visitors /\ run.prompt \in Prompts /\ run.previous \in Plan \cup {NoValue}
  BY <1>1 DEF Run
<1>5. caps \in SUBSET Capabilities
  BY <1>3, <1>4, ViewServerAssumption
<1>6. /\ plan.private \in SUBSET Visitors /\ plan.private \subseteq {run.visitor}
      /\ run.previous = NoValue => plan.private = {}
  <2>1. CASE run.previous = NoValue
    BY <2>1 DEF PlanFor
  <2>2. CASE run.previous # NoValue
    <3>1. plan.private = run.previous.private \cup {run.visitor}
      BY <2>2 DEF PlanFor
    <3>2. run.previous.private \subseteq {run.visitor}
      BY <1>1, <2>2 DEF RunFits
    <3> QED BY <1>4, <2>2, <3>1, <3>2
  <2> QED BY <2>1, <2>2
<1>7. plan \in Plan
  <2>1. plan = [id |-> nextId, catalog |-> run.catalog, hash |-> run.hash, reg |-> run.reg,
                caps |-> caps, private |-> plan.private]
    BY DEF PlanFor
  <2> QED BY <1>2, <1>4, <1>5, <1>6, <2>1 DEF Plan
<1>8. /\ Pinned(plan, run.catalog, run.hash, run.reg)
      /\ plan.catalog = run.catalog /\ plan.hash = run.hash /\ plan.reg = run.reg
  BY DEF Pinned, PlanFor
<1>9. after \in Run
  BY <1>1, <1>7 DEF Run
<1>10. /\ after.stage = "executing" /\ after.plan = plan /\ after.previous = run.previous
       /\ after.previousId = run.previousId /\ after.visitor = run.visitor /\ after.kind = "compose"
       /\ after.catalog = run.catalog /\ after.hash = run.hash /\ after.reg = run.reg
  BY <1>1 DEF Run
<1>11. RunFits(after)
  BY <1>1, <1>6, <1>7, <1>8, <1>10 DEF RunFits
<1>12. RunsKept'
  BY <1>3, <1>9, <1>11, RunBecomes DEF Kept, PlanWritten
<1>13. CacheKept'
  <2>1. CASE planCache' = planCache
    BY <2>1, Unchanged DEF Kept
  <2>2. CASE /\ Cacheable(run)
             /\ planCache' = SetBounded(planCache, MaxCached, CacheKey(run), plan)
    <3> DEFINE e == Entry(CacheKey(run), plan)
    <3>1. plan.private = {}
      BY <1>1, <1>6, <2>2 DEF Cacheable, RunFits
    <3>2. CacheKey(run) \in CacheKeys
      BY <1>4 DEF CacheKey, CacheKeys
    <3>3. e \in CacheEntries
      BY <1>7, <3>2 DEF Entry, CacheEntries, Entries
    <3>4. CachedFits(e)
      BY <1>4, <1>8, <3>1 DEF CachedFits, Entry, CacheKey
    <3>5. /\ planCache \in Seq(CacheEntries) /\ DistinctKeys(planCache)
          /\ Len(planCache) <= Capacity(MaxCached) /\ MaxCached \in Nat
      BY ViewServerAssumption DEF Kept, CacheKept
    <3>6. /\ planCache' \in Seq(CacheEntries) /\ Len(planCache') <= Capacity(MaxCached)
          /\ DistinctKeys(planCache') /\ Within(planCache', planCache, e)
      BY <2>2, <3>3, <3>5, SetBoundedKeeps
    <3> QED BY <3>4, <3>6 DEF Kept, CacheKept, Within
  <2> QED BY <1>3, <2>1, <2>2 DEF PlanWritten
<1> QED BY <1>12, <1>13, Unchanged DEF ComposePlanned, Kept

LEMMA ComposeUnplannedKeeps == ASSUME Kept, NEW r \in Runs, ComposeUnplanned(r) PROVE Kept'
<1> DEFINE run == runs[r]
           after == [run EXCEPT !.stage = "executing", !.plan = run.previous, !.failed = TRUE]
<1>1. run \in Run /\ RunFits(run) /\ run.stage = "planning" /\ run.kind = "compose"
  BY RunHeld DEF ComposeUnplanned, Kept, RunFits
<1>2. RunsKept'
  <2>1. CASE Finish(r)
    BY <2>1, RunEnds DEF Kept
  <2>2. CASE run.previous # NoValue /\ Become(r, after)
    <3>1. run.previous \in Plan /\ run.previous.private \subseteq {run.visitor}
      BY <1>1, <2>2 DEF Run, RunFits
    <3>2. after \in Run
      BY <1>1, <3>1 DEF Run
    <3>3. /\ after.stage = "executing" /\ after.plan = run.previous /\ after.failed
          /\ after.previous = run.previous /\ after.previousId = run.previousId
          /\ after.visitor = run.visitor /\ after.kind = "compose"
      BY <1>1 DEF Run
    <3>4. RunFits(after)
      BY <1>1, <3>1, <3>3 DEF RunFits
    <3> QED BY <2>2, <3>2, <3>4, RunBecomes DEF Kept
  <2> QED BY <2>1, <2>2 DEF ComposeUnplanned
<1> QED BY <1>2, Unchanged DEF ComposeUnplanned, Kept

(* The end of a compose and of a refinement. *)
LEMMA CompleteKeeps ==
    ASSUME Kept, NEW r \in Runs, runs[r] # NoValue, runs[r].stage = "executing", Complete(r)
    PROVE  Kept'
<1>1. runs[r] \in Run /\ RunFits(runs[r])
  BY RunHeld DEF Kept
<1>2. RunsKept'
  BY RunEnds DEF Complete, Kept
<1>3. RecentKept'
  BY <1>1, Remembers, Unchanged DEF Complete, Kept
<1> QED BY <1>2, <1>3, Unchanged DEF Complete, Kept

LEMMA ComposeFinishKeeps == ASSUME Kept, NEW r \in Runs, ComposeFinish(r) PROVE Kept'
  BY CompleteKeeps DEF ComposeFinish

-----------------------------------------------------------------------------
(* Refinements, saved views and reopens. *)
LEMMA RefineStartKeeps ==
    ASSUME Kept, NEW r \in Runs, NEW v \in Visitors, NEW c \in Catalogs,
           NEW id \in 1 .. nextId - 1, RefineStart(r, v, c, id)
    PROVE  Kept'
<1> DEFINE held == ValueAt(recentPlans, id)
           plan == [held.plan EXCEPT !.id = nextId, !.private = @ \cup {v}]
           run == [kind |-> "refine", stage |-> "executing", visitor |-> v, catalog |-> c,
                   hash |-> published[c], reg |-> site[c], prompt |-> held.prompt,
                   previousId |-> id, previous |-> NoValue, failed |-> FALSE, plan |-> plan]
<1>1. held \in Remembered /\ held.plan \in Plan /\ held.plan.private \subseteq {v}
  BY OwnedPlan DEF RefineStart, Kept
<1>2. id \in Ids /\ nextId \in Ids
  BY ViewServerAssumption DEF Kept, RegistriesKept, Ids, RefineStart, Fresh
<1>3. plan \in Plan /\ plan.private \subseteq {v}
  BY <1>1, <1>2 DEF Plan
<1>4. published[c] \in Hashes /\ site[c] \in Registrations /\ held.prompt \in Prompts
  BY <1>1 DEF RefineStart, Kept, RegistriesKept, Remembered
<1>5. run \in Run
  BY <1>2, <1>3, <1>4 DEF Run
<1>6. RunFits(run)
  BY <1>3 DEF RunFits
<1>7. RunsKept'
  BY <1>5, <1>6, RunBecomes DEF RefineStart, Kept
<1> QED BY <1>7, Unchanged DEF RefineStart, Kept

LEMMA RefineFinishKeeps == ASSUME Kept, NEW r \in Runs, RefineFinish(r) PROVE Kept'
<1>1. runs[r].stage = "executing"
  BY RunHeld DEF RefineFinish, Kept, RunFits
<1> QED BY <1>1, CompleteKeeps DEF RefineFinish

(* What is saved of a visitor's plan is theirs, under the hash it is pinned to. *)
LEMMA SavedFits ==
    ASSUME Kept, NEW id \in Ids, NEW v \in Visitors, NEW held \in Remembered, HeldFits(held),
           NEW plan \in Plan, plan.private \subseteq {v}, plan.hash = held.plan.hash
    PROVE  SavedAs(id, v, held, plan) \in SavedView /\ ViewFits(SavedAs(id, v, held, plan))
<1>1. /\ held.catalog \in Catalogs /\ held.prompt \in Prompts /\ held.hash \in Hashes
      /\ held.hash = held.plan.hash
  BY DEF Remembered, HeldFits
<1>2. site[held.catalog] \in Registrations \cup {NoValue}
  BY <1>1 DEF Kept, RegistriesKept
<1> QED BY <1>1, <1>2 DEF SavedAs, SavedView, ViewFits

LEMMA SaveKeeps ==
    ASSUME Kept, NEW v \in Visitors, NEW c \in Catalogs, NEW id \in 1 .. nextId - 1, Save(v, c, id)
    PROVE  Kept'
<1> DEFINE held == ValueAt(recentPlans, id)
<1>1. held \in Remembered /\ HeldFits(held) /\ held.plan \in Plan /\ held.plan.private \subseteq {v}
  BY OwnedPlan DEF Save, Kept
<1>2. nextId \in Ids
  BY DEF Save, Fresh
<1>3. ViewsKept'
  BY <1>1, <1>2, SavedFits DEF Save, Kept, ViewsKept
<1> QED BY <1>3, Unchanged DEF Save, Kept

LEMMA PinKeeps ==
    ASSUME Kept, NEW v \in Visitors, NEW c \in Catalogs, NEW id \in 1 .. nextId - 1, Pin(v, c, id)
    PROVE  Kept'
<1> DEFINE held == ValueAt(recentPlans, id)
           Slice(caps) == [held.plan EXCEPT !.id = nextId, !.caps = caps, !.private = @ \cup {v}]
<1>1. held \in Remembered /\ HeldFits(held) /\ held.plan \in Plan /\ held.plan.private \subseteq {v}
  BY OwnedPlan DEF Pin, Kept
<1>2. nextId \in Ids /\ nextId + 1 \in Ids /\ nextId + 2 \in 1 .. MaxId + 1
  BY ViewServerAssumption DEF Pin, Kept, RegistriesKept, Ids
<1>3. PICK caps \in (SUBSET held.plan.caps) \ {{}} :
         views' = views \cup {SavedAs(nextId + 1, v, held, Slice(caps))}
  BY DEF Pin
<1>4. /\ Slice(caps) \in Plan /\ Slice(caps).private \subseteq {v}
      /\ Slice(caps).hash = held.plan.hash
  BY <1>1, <1>2, <1>3 DEF Plan
<1>5. ViewsKept'
  <2> DEFINE saved == SavedAs(nextId + 1, v, held, Slice(caps))
  <2>1. saved \in SavedView /\ ViewFits(saved)
    <3> HIDE DEF Slice, held
    <3> QED BY <1>1, <1>2, <1>4, SavedFits
  <2>2. views' = views \cup {saved}
    BY <1>3
  <2> HIDE DEF saved
  <2> QED BY <2>1, <2>2 DEF Kept, ViewsKept
<1>6. RegistriesKept'
  BY <1>2 DEF Pin, Kept, RegistriesKept, registries
<1> QED BY <1>5, <1>6, Unchanged DEF Pin, Kept

LEMMA DeleteViewKeeps ==
    ASSUME Kept, NEW v \in Visitors, NEW view \in views, DeleteView(v, view)
    PROVE  Kept'
<1>1. ViewsKept'
  BY DEF DeleteView, Kept, ViewsKept
<1> QED BY <1>1, Unchanged DEF DeleteView, Kept

LEMMA ReopenStartKeeps ==
    ASSUME Kept, NEW r \in Runs, NEW v \in Visitors, NEW view \in views, ReopenStart(r, v, view)
    PROVE  Kept'
<1> DEFINE run == [kind |-> "reopen", stage |-> "executing", visitor |-> v,
                   catalog |-> view.catalog, hash |-> published[view.catalog],
                   reg |-> site[view.catalog], prompt |-> view.prompt,
                   previousId |-> NoValue, previous |-> NoValue, plan |-> view.plan,
                   failed |-> FALSE]
<1>1. view \in SavedView /\ view.plan.private \subseteq {v}
  BY DEF ReopenStart, Visible, Kept, ViewsKept, ViewFits
<1>2. view.catalog \in Catalogs /\ view.plan \in Plan /\ view.prompt \in Prompts
  BY <1>1 DEF SavedView
<1>3. published[view.catalog] \in Hashes /\ site[view.catalog] \in Registrations
  BY <1>2 DEF ReopenStart, Kept, RegistriesKept
<1>4. run \in Run
  BY <1>2, <1>3 DEF Run
<1>5. RunFits(run)
  BY <1>1, <1>2 DEF RunFits
<1>6. RunsKept'
  BY <1>4, <1>5, RunBecomes DEF ReopenStart, Kept
<1> QED BY <1>6, Unchanged DEF ReopenStart, Kept

LEMMA ReopenFinishKeeps == ASSUME Kept, NEW r \in Runs, ReopenFinish(r) PROVE Kept'
  BY RunEnds, Unchanged DEF ReopenFinish, Kept

-----------------------------------------------------------------------------
(* The owner of the server, and the process. *)
LEMMA RepublishKeeps == ASSUME Kept, NEW c \in Catalogs, Republish(c) PROVE Kept'
<1>1. RegistriesKept'
  BY DEF Republish, Kept, RegistriesKept
<1> QED BY <1>1, Unchanged DEF Republish, Kept

LEMMA RestartKeeps == ASSUME Kept, Restart PROVE Kept'
<1>1. <<>> \in Seq(CacheEntries) /\ <<>> \in Seq(RecentEntries) /\ Len(<<>>) = 0 /\ DOMAIN <<>> = {}
  BY EmptySeq
<1>2. CacheKept' /\ RecentKept'
  BY <1>1, ViewServerAssumption, CapacityTyped DEF Restart, CacheKept, RecentKept, DistinctKeys
<1>3. RunsKept'
  BY DEF Restart, RunsKept
<1> QED BY <1>2, <1>3, Unchanged DEF Restart, Kept

LEMMA KeptNext == Kept /\ [ViewNext]_viewVars => Kept'
<1> SUFFICES ASSUME Kept, [ViewNext]_viewVars PROVE Kept'
  OBVIOUS
<1>1. CASE UNCHANGED viewVars
  BY <1>1, Unchanged DEF viewVars, registries, Kept
<1>2. ASSUME NEW r \in Runs, NEW v \in Visitors, NEW c \in Catalogs, NEW p \in Prompts,
             NEW id \in (1 .. nextId - 1) \cup {NoValue}, ComposeStart(r, v, c, p, id)
      PROVE  Kept'
  BY <1>2, ComposeStartKeeps
<1>3. ASSUME NEW r \in Runs, NEW v \in Visitors, NEW c \in Catalogs, NEW id \in 1 .. nextId - 1,
             RefineStart(r, v, c, id)
      PROVE  Kept'
  BY <1>3, RefineStartKeeps
<1>4. ASSUME NEW r \in Runs,
             \/ ComposeRefused(r) \/ ComposeHit(r) \/ ComposeMiss(r)
             \/ ComposePlanned(r) \/ ComposeUnplanned(r) \/ ComposeFinish(r)
      PROVE  Kept'
  BY <1>4, ComposeRefusedKeeps, ComposeHitKeeps, ComposeMissKeeps, ComposePlannedKeeps,
     ComposeUnplannedKeeps, ComposeFinishKeeps
<1>5. ASSUME NEW r \in Runs,
             \/ RefineFinish(r) \/ ReopenFinish(r)
             \/ \E v \in Visitors, view \in views : ReopenStart(r, v, view)
      PROVE  Kept'
  BY <1>5, RefineFinishKeeps, ReopenFinishKeeps, ReopenStartKeeps
<1>6. ASSUME NEW v \in Visitors,
             \/ \E c \in Catalogs, id \in 1 .. nextId - 1 : Save(v, c, id) \/ Pin(v, c, id)
             \/ \E view \in views : DeleteView(v, view)
      PROVE  Kept'
  BY <1>6, SaveKeeps, PinKeeps, DeleteViewKeeps
<1>7. CASE (\E c \in Catalogs : Republish(c)) \/ Restart
  BY <1>7, RepublishKeeps, RestartKeeps
<1> QED BY <1>1, <1>2, <1>3, <1>4, <1>5, <1>6, <1>7 DEF ViewNext

-----------------------------------------------------------------------------
(* The invariant, of every behaviour of the server. *)
THEOREM KeptAlways == ViewSpec => []Kept
  BY KeptInit, KeptNext, PTL DEF ViewSpec

(* Runs, maps, views and registries keep their types, and neither bounded map
   outgrows its limit or holds a key twice, however large the limits and however
   many requests interleave (the cache and the recent plans of
   packages/server/src/index.ts). *)
THEOREM ServerTyped == ViewSpec => []TypeOK
  BY KeptAlways, KeptIsTyped, PTL

(* What one visitor's view or prompt went into stays with that visitor, through the
   plan cache, the recent plans, saves, pins and reopens, for any number of visitors
   and concurrent requests. *)
THEOREM PrivacyHolds == ViewSpec => []PrivateToOwner
  BY KeptAlways, KeptIsPrivate, PTL

(* A compose executes a plan pinned to the snapshot of the registries it read when it
   began, fresh or from the cache, wherever a republish or a restart lands. *)
THEOREM SnapshotsHold == ViewSpec => []SnapshotHolds
  BY KeptAlways, KeptHoldsSnapshots, PTL

(* A saved view describeDrift does not report has a plan of the published contents,
   so none of its requests is refused. *)
THEOREM FreshViewsDeliver == ViewSpec => []FreshViewDelivers
  BY KeptAlways, KeptDelivers, PTL

=================================================================================
