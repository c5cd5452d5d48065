--------------------------- MODULE DataExecutorProofs ---------------------------
(***************************************************************************)
(* Proofs about DataExecutor, for plans and limits of any size: typing,    *)
(* the bound on requests in flight, the timers, the late answers, and the  *)
(* refinement of RequestPool.  The inductive invariant is Working: the     *)
(* requests being worked on are those in the workers' hands, one each.     *)
(*                                                                         *)
(* And about OpenApiUpstream, for any operations and number of attempts:   *)
(* it runs the executor, so all of that holds of it, and what it sends.    *)
(* Its inductive invariant is Exchanging: where the loop of a call is, the *)
(* race it answers to is, and what left is what was attempted.             *)
(***************************************************************************)
EXTENDS OpenApiUpstream, FiniteSetTheorems, TLAPS

LEMMA Constants ==
    /\ N \in Nat /\ Limit \in Nat /\ None \notin Outcomes
    /\ Awaits \in [Requests -> Nat]
    /\ WorkerCount \in Nat /\ WorkerCount >= 1
    /\ WorkerCount <= IF Limit <= 1 THEN 1 ELSE Limit
    /\ 0 \notin Requests /\ 0 \notin Workers
    /\ Requests \subseteq Nat
  BY ExecutorAssumption DEF WorkerCount, Requests, Workers

-----------------------------------------------------------------------------
(* Each request is where next, its result, its timer and the hands say it is. *)
Working ==
    /\ TypeOK
    /\ \A i \in Requests : stage[i] = "queued" <=> i >= next
    /\ \A i \in Requests : result[i] = None <=> stage[i] \in {"queued", "gating", "racing"}
    /\ \A w \in Workers : hand[w] # 0 => stage[hand[w]] \in Awaited
    /\ \A i \in InFlight : \E w \in Workers : hand[w] = i
    /\ \A w, x \in Workers : hand[w] = hand[x] /\ hand[w] # 0 => w = x
    /\ TimerPerRace
    /\ budget = "expired" => timers = {}

(* Deciding a request that a worker awaits keeps everything else in place. *)
LEMMA DecideWorking ==
    ASSUME Working, NEW i \in Requests, stage[i] \in {"gating", "racing"},
           NEW outcome \in Outcomes, Decide(i, outcome),
           UNCHANGED <<next, hand, gate, budget, finished>>,
           pending' \in SUBSET Requests
    PROVE  Working'
<1>1. TypeOK'
  BY Constants DEF Working, TypeOK, Decide, Stages, Awaited
<1>2. /\ \A j \in Requests : j # i => stage'[j] = stage[j] /\ result'[j] = result[j]
      /\ stage'[i] = "auditing" /\ result'[i] = outcome
  BY DEF Working, TypeOK, Decide
<1>3. \A j \in Requests : stage'[j] = "queued" <=> j >= next'
  BY <1>2 DEF Working
<1>4. \A j \in Requests : result'[j] = None <=> stage'[j] \in {"queued", "gating", "racing"}
  BY <1>2, Constants DEF Working
<1>5. \A w \in Workers : hand'[w] # 0 => stage'[hand'[w]] \in Awaited
  BY <1>2 DEF Working, TypeOK, Awaited
<1>6. InFlight' = InFlight
  BY <1>2 DEF InFlight, Awaited
<1>7. TimerPerRace'
  BY <1>2 DEF Working, TimerPerRace, Racing, Decide
<1>8. budget' = "expired" => timers' = {}
  BY DEF Working, Decide
<1> QED
  BY <1>1, <1>3, <1>4, <1>5, <1>6, <1>7, <1>8 DEF Working

LEMMA WorkingInit == Init => Working
<1> SUFFICES ASSUME Init PROVE Working
  OBVIOUS
<1>1. TypeOK
  <2>1. 1 \in 1 .. N + 1
    BY Constants
  <2> QED
    BY <2>1 DEF Init, TypeOK, Stages
<1>2. InFlight = {} /\ TimerPerRace
  BY DEF Init, InFlight, Awaited, TimerPerRace, Racing
<1>3. \A i \in Requests : i >= next
  BY DEF Init, Requests
<1> QED
  BY <1>1, <1>2, <1>3 DEF Init, Working

LEMMA WorkingNext == Working /\ [Next]_vars => Working'
<1> SUFFICES ASSUME Working, [Next]_vars PROVE Working'
  OBVIOUS
<1>0. TypeOK
  BY DEF Working
<1>1. ASSUME NEW w \in Workers, Dispatch(w) PROVE Working'
  <2>1. next \in Requests /\ stage[next] = "queued" /\ hand[w] = 0
    BY <1>1, Constants DEF Working, TypeOK, Dispatch, Requests
  <2>2. /\ \A j \in Requests : j # next => stage'[j] = stage[j]
        /\ stage'[next] = "gating" /\ next' = next + 1
        /\ \A x \in Workers : x # w => hand'[x] = hand[x]
        /\ hand'[w] = next
    BY <1>1, <2>1 DEF Dispatch, Working, TypeOK
  <2>3. TypeOK'
    BY <1>0, <1>1, <2>1, Constants DEF TypeOK, Dispatch, Stages, Awaited, Requests
  <2>4. \A j \in Requests : stage'[j] = "queued" <=> j >= next'
    BY <2>1, <2>2, Constants DEF Working, TypeOK, Requests
  <2>5. \A j \in Requests : result'[j] = None <=> stage'[j] \in {"queued", "gating", "racing"}
    BY <1>1, <2>1, <2>2 DEF Dispatch, Working
  <2>6. \A x \in Workers : hand[x] # next
    BY <2>1, Constants DEF Working, Awaited
  <2>7. \A x \in Workers : hand'[x] # 0 => stage'[hand'[x]] \in Awaited
    BY <1>0, <2>2, <2>6 DEF Working, TypeOK, Awaited
  <2>8. \A j \in InFlight' : \E x \in Workers : hand'[x] = j
    <3> SUFFICES ASSUME NEW j \in Requests, stage'[j] \in Awaited
                 PROVE  \E x \in Workers : hand'[x] = j
      BY DEF InFlight
    <3>1. CASE j = next
      BY <3>1, <2>2
    <3>2. CASE j # next
      <4>1. PICK x \in Workers : hand[x] = j
        BY <3>2, <2>2 DEF Working, InFlight
      <4>2. x # w
        BY <4>1, <2>1, Constants
      <4> QED
        BY <4>1, <4>2, <2>2
    <3> QED
      BY <3>1, <3>2
  <2>9. \A x, y \in Workers : hand'[x] = hand'[y] /\ hand'[x] # 0 => x = y
    BY <2>2, <2>6 DEF Working
  <2>10. TimerPerRace'
    BY <1>1, <2>1, <2>2 DEF Dispatch, Working, TimerPerRace, Racing
  <2>11. budget' = "expired" => timers' = {}
    BY <1>1 DEF Dispatch, Working
  <2> QED
    BY <2>3, <2>4, <2>5, <2>7, <2>8, <2>9, <2>10, <2>11 DEF Working
<1>2. ASSUME NEW w \in Workers, Settle(w) PROVE Working'
  <2> DEFINE i == hand[w]
  <2>1. i \in Requests /\ stage[i] = "auditing"
    BY <1>0, <1>2 DEF Settle, TypeOK
  <2>2. /\ \A j \in Requests : j # i => stage'[j] = stage[j]
        /\ stage'[i] = "settled"
        /\ \A x \in Workers : x # w => hand'[x] = hand[x]
        /\ hand'[w] = 0
    BY <1>0, <1>2, <2>1 DEF Settle, TypeOK
  <2>3. TypeOK'
    BY <1>0, <1>2 DEF TypeOK, Settle, Stages
  <2>4. \A j \in Requests : stage'[j] = "queued" <=> j >= next'
    BY <1>2, <2>1, <2>2 DEF Settle, Working
  <2>5. \A j \in Requests : result'[j] = None <=> stage'[j] \in {"queued", "gating", "racing"}
    BY <1>2, <2>1, <2>2 DEF Settle, Working
  <2>6. \A x \in Workers : hand'[x] # 0 => stage'[hand'[x]] \in Awaited
    <3> SUFFICES ASSUME NEW x \in Workers, hand'[x] # 0 PROVE stage'[hand'[x]] \in Awaited
      OBVIOUS
    <3>1. x # w /\ hand'[x] = hand[x]
      BY <2>2
    <3>2. hand[x] # i /\ hand[x] \in Requests
      BY <1>0, <3>1 DEF Working, TypeOK
    <3> QED
      BY <3>1, <3>2, <2>2 DEF Working
  <2>7. \A j \in InFlight' : \E x \in Workers : hand'[x] = j
    <3> SUFFICES ASSUME NEW j \in Requests, stage'[j] \in Awaited
                 PROVE  \E x \in Workers : hand'[x] = j
      BY DEF InFlight
    <3>1. j # i
      BY <2>2 DEF Awaited
    <3>2. PICK x \in Workers : hand[x] = j
      BY <3>1, <2>2 DEF Working, InFlight
    <3>3. x # w
      BY <3>1, <3>2
    <3> QED
      BY <3>2, <3>3, <2>2
  <2>8. \A x, y \in Workers : hand'[x] = hand'[y] /\ hand'[x] # 0 => x = y
    BY <2>2 DEF Working
  <2>9. TimerPerRace'
    BY <1>2, <2>1, <2>2 DEF Settle, Working, TimerPerRace, Racing
  <2>10. budget' = "expired" => timers' = {}
    BY <1>2 DEF Settle, Working
  <2> QED
    BY <2>3, <2>4, <2>5, <2>6, <2>7, <2>8, <2>9, <2>10 DEF Working
<1>3. ASSUME NEW i \in Requests, PassGate(i) PROVE Working'
  <2>1. TypeOK'
    BY <1>0, <1>3, Constants DEF TypeOK, PassGate
  <2>2. InFlight' = InFlight /\ TimerPerRace'
    BY <1>3 DEF PassGate, InFlight, Working, TimerPerRace, Racing
  <2> QED
    BY <1>3, <2>1, <2>2 DEF PassGate, Working
<1>4. ASSUME NEW i \in Requests, Refuse(i) PROVE Working'
  <2>1. PICK outcome \in {"refused", "failed"} : Decide(i, outcome)
    BY <1>4 DEF Refuse
  <2> QED
    BY <1>0, <1>4, <2>1, DecideWorking DEF Refuse, Outcomes, TypeOK
<1>5. ASSUME NEW i \in Requests, Call(i) PROVE Working'
  <2>1. CASE AlreadyAborted
    BY <1>0, <1>5, <2>1, DecideWorking DEF Call, Outcomes, TypeOK
  <2>2. CASE ~AlreadyAborted
    <3>1. /\ \A j \in Requests : j # i => stage'[j] = stage[j]
          /\ stage'[i] = "racing" /\ stage[i] = "gating"
          /\ timers' = timers \cup {i}
          /\ UNCHANGED <<next, hand, gate, result, budget, finished>>
      BY <1>0, <1>5, <2>2 DEF Call, Race, TypeOK
    <3>2. TypeOK'
      BY <1>0, <1>5, <2>2 DEF Call, Race, TypeOK, Stages, Awaited
    <3>3. InFlight' = InFlight /\ TimerPerRace'
      BY <3>1 DEF InFlight, Awaited, Working, TimerPerRace, Racing
    <3>4. \A w \in Workers : hand'[w] # 0 => stage'[hand'[w]] \in Awaited
      BY <1>0, <3>1 DEF Working, TypeOK, Awaited
    <3> QED
      BY <2>2, <3>1, <3>2, <3>3, <3>4 DEF Working, AlreadyAborted
  <2> QED
    BY <2>1, <2>2
<1>6. ASSUME NEW i \in Requests, Answer(i) PROVE Working'
  <2>1. pending' \in SUBSET Requests
    BY <1>0, <1>6 DEF Answer, TypeOK
  <2>2. CASE Racing(i)
    <3>1. PICK outcome \in {"rows", "failed"} : Decide(i, outcome)
      BY <1>6, <2>2 DEF Answer
    <3> QED
      BY <1>6, <2>1, <2>2, <3>1, DecideWorking DEF Answer, Outcomes, Racing
  <2>3. CASE ~Racing(i)
    <3>1. UNCHANGED <<next, hand, stage, gate, result, timers, budget, finished>>
      BY <1>6, <2>3 DEF Answer
    <3>2. InFlight' = InFlight /\ TimerPerRace' /\ TypeOK'
      BY <1>0, <2>1, <3>1 DEF InFlight, Working, TimerPerRace, Racing, TypeOK
    <3> QED
      BY <3>1, <3>2 DEF Working
  <2> QED
    BY <2>2, <2>3
<1>7. ASSUME NEW i \in Requests, TimeOut(i) PROVE Working'
  <2>1. stage[i] = "racing"
    BY <1>7 DEF TimeOut, Working, TimerPerRace, Racing
  <2> QED
    BY <1>0, <1>7, <2>1, DecideWorking DEF TimeOut, Outcomes, TypeOK
<1>8. CASE Expire
  <2>1. \A i \in Requests :
          /\ Racing(i) => stage'[i] = "auditing" /\ result'[i] = "ABORTED"
          /\ ~Racing(i) => stage'[i] = stage[i] /\ result'[i] = result[i]
    BY <1>8 DEF Expire
  <2>2. TypeOK'
    BY <1>0, <1>8 DEF Expire, TypeOK, Stages, Awaited, Outcomes
  <2>3. InFlight' = InFlight /\ TimerPerRace'
    BY <1>8, <2>1 DEF Expire, InFlight, Awaited, TimerPerRace, Racing
  <2>4. \A i \in Requests : stage'[i] = "queued" <=> i >= next'
    BY <1>8, <2>1 DEF Expire, Working, Racing
  <2>5. \A i \in Requests : result'[i] = None <=> stage'[i] \in {"queued", "gating", "racing"}
    BY <2>1, Constants DEF Working, Racing, Outcomes
  <2>6. \A w \in Workers : hand'[w] # 0 => stage'[hand'[w]] \in Awaited
    BY <1>0, <1>8, <2>1 DEF Expire, Working, TypeOK, Awaited
  <2> QED
    BY <1>8, <2>2, <2>3, <2>4, <2>5, <2>6 DEF Expire, Working
<1>9. CASE Finish
  <2>1. InFlight' = InFlight /\ TimerPerRace' /\ TypeOK'
    BY <1>0, <1>9 DEF Finish, InFlight, Working, TimerPerRace, Racing, TypeOK
  <2> QED
    BY <1>0, <1>9, <2>1 DEF Finish, Working, TypeOK
<1>10. CASE UNCHANGED vars
  <2>1. InFlight' = InFlight /\ TimerPerRace' /\ TypeOK'
    BY <1>0, <1>10 DEF vars, InFlight, Working, TimerPerRace, Racing, TypeOK
  <2> QED
    BY <1>10, <2>1 DEF vars, Working
<1> QED
  BY <1>1, <1>2, <1>3, <1>4, <1>5, <1>6, <1>7, <1>8, <1>9, <1>10 DEF Next

(* The state of the executor is always well typed. *)
THEOREM ExecutorTyped == Spec => []TypeOK
<1>1. Spec => []Working
  BY WorkingInit, WorkingNext, PTL DEF Spec
<1> QED
  BY <1>1, PTL DEF Working

-----------------------------------------------------------------------------
(* Counting. *)

(* The requests in flight inject into the busy workers. *)
LEMMA InFlightFits ==
    ASSUME Working, NEW Busy \in SUBSET Workers,
           \A w \in Workers : hand[w] # 0 => w \in Busy
    PROVE  /\ IsFiniteSet(InFlight) /\ IsFiniteSet(Busy)
           /\ Cardinality(InFlight) <= Cardinality(Busy)
<1> DEFINE holder == [i \in InFlight |-> CHOOSE w \in Busy : hand[w] = i]
<1>1. \A i \in InFlight : \E w \in Busy : hand[w] = i
  <2> SUFFICES ASSUME NEW i \in InFlight PROVE \E w \in Busy : hand[w] = i
    OBVIOUS
  <2>1. PICK w \in Workers : hand[w] = i
    BY DEF Working
  <2>2. i # 0
    BY Constants DEF InFlight
  <2> QED
    BY <2>1, <2>2
<1>2. \A i \in InFlight : holder[i] \in Busy /\ hand[holder[i]] = i
  BY <1>1
<1>3. holder \in Injection(InFlight, Busy)
  <2>1. holder \in [InFlight -> Busy]
    BY <1>2
  <2>2. \A i, j \in InFlight : holder[i] = holder[j] => i = j
    <3> HIDE DEF holder
    <3> QED
      BY <1>2
  <2> HIDE DEF holder
  <2> QED
    BY <2>1, <2>2 DEF Injection, IsInjective
<1>4. IsFiniteSet(Workers)
  BY FS_Interval, Constants DEF Workers
<1>5. IsFiniteSet(Busy)
  BY <1>4, FS_Subset
<1> QED
  BY <1>3, <1>5, FS_Injection

LEMMA WorkerTotal == IsFiniteSet(Workers) /\ Cardinality(Workers) = WorkerCount
  BY FS_Interval, Constants DEF Workers

(* What has been taken is in flight or settled. *)
LEMMA TakenSplits ==
    ASSUME Working
    PROVE  /\ IsFiniteSet(Settled) /\ Cardinality(Settled) \in Nat
           /\ Cardinality(InFlight) = (next - 1) - Cardinality(Settled)
<1>1. next - 1 \in Nat /\ next \in Nat
  BY Constants DEF Working, TypeOK
<1>2. IsFiniteSet(1 .. next - 1) /\ Cardinality(1 .. next - 1) = next - 1
  BY <1>1, FS_Interval
<1>3. InFlight \cup Settled = 1 .. next - 1
  <2>1. \A i \in Requests : i \in InFlight \cup Settled <=> stage[i] # "queued"
    BY DEF Working, TypeOK, Stages, Awaited, InFlight, Settled
  <2>2. \A i \in Requests : i \in InFlight \cup Settled <=> i < next
    BY <2>1, <1>1, Constants DEF Working
  <2>3. next <= N + 1
    BY Constants DEF Working, TypeOK
  <2>4. 1 .. next - 1 = {i \in Requests : i < next}
    BY <2>3, <1>1, Constants DEF Requests
  <2>5. InFlight \cup Settled \subseteq Requests
    BY DEF InFlight, Settled
  <2> QED
    BY <2>2, <2>4, <2>5
<1>4. InFlight \cap Settled = {}
  BY DEF InFlight, Settled, Awaited
<1>5. IsFiniteSet(InFlight) /\ IsFiniteSet(Settled)
  BY <1>2, <1>3, FS_Subset
<1>6. Cardinality(InFlight) \in Nat /\ Cardinality(Settled) \in Nat
  BY <1>5, FS_CardinalityType
<1>7. Cardinality(InFlight \cup Settled) = Cardinality(InFlight) + Cardinality(Settled)
  <2>1. Cardinality(InFlight \cap Settled) = 0
    BY <1>4, FS_EmptySet, Zenon
  <2>2. Cardinality(InFlight \cup Settled) =
          Cardinality(InFlight) + Cardinality(Settled) - Cardinality(InFlight \cap Settled)
    BY <1>5, FS_Union
  <2> QED
    BY <1>6, <2>1, <2>2
<1>8. Cardinality(InFlight \cup Settled) = next - 1
  BY <1>2, <1>3, Zenon
<1> QED
  BY <1>1, <1>5, <1>6, <1>7, <1>8

LEMMA WorkingLimit == Working => AtMostLimit
<1> SUFFICES ASSUME Working PROVE AtMostLimit
  OBVIOUS
<1>1. IsFiniteSet(InFlight) /\ Cardinality(InFlight) <= WorkerCount
  BY InFlightFits, WorkerTotal
<1>2. Cardinality(InFlight) \in Nat
  BY <1>1, FS_CardinalityType
<1>3. \A w, x \in Workers : hand[w] = hand[x] /\ hand[w] # 0 => w = x
  BY DEF Working
<1>4. Cardinality(InFlight) <= IF Limit <= 1 THEN 1 ELSE Limit
  BY <1>1, <1>2, Constants
<1> QED
  BY <1>3, <1>4 DEF AtMostLimit

(* No more requests than the limit are in flight, one per worker. *)
THEOREM LimitRespected == Spec => []AtMostLimit
<1>1. Spec => []Working
  BY WorkingInit, WorkingNext, PTL DEF Spec
<1> QED
  BY <1>1, WorkingLimit, PTL

(* A timer runs exactly while its race is open. *)
THEOREM NoTimerLeft == Spec => []TimerPerRace
<1>1. Spec => []Working
  BY WorkingInit, WorkingNext, PTL DEF Spec
<1> QED
  BY <1>1, PTL DEF Working

-----------------------------------------------------------------------------
(* Late answers. *)

LEMMA WorkingLate ==
    ASSUME Working, Next, NEW i \in Requests,
           budget = "expired", result'[i] # result[i]
    PROVE  result'[i] # "rows"
<1>1. \A j \in Requests : ~Racing(j)
  BY DEF Working, TimerPerRace
<1>2. ASSUME NEW j \in Requests, NEW outcome \in Outcomes, Decide(j, outcome),
             outcome # "rows"
      PROVE  result'[i] # "rows"
  BY <1>2 DEF Decide, Working, TypeOK
<1>3. ASSUME NEW j \in Requests, Refuse(j) PROVE result'[i] # "rows"
  BY <1>2, <1>3 DEF Refuse, Outcomes
<1>4. ASSUME NEW j \in Requests, Call(j) PROVE result'[i] # "rows"
  BY <1>2, <1>4 DEF Call, AlreadyAborted, Outcomes
<1>5. ASSUME NEW j \in Requests, Answer(j) PROVE result'[i] # "rows"
  BY <1>1, <1>5 DEF Answer
<1>6. ASSUME NEW j \in Requests, TimeOut(j) PROVE result'[i] # "rows"
  BY <1>2, <1>6 DEF TimeOut, Outcomes
<1>7. ASSUME NEW j \in Requests, PassGate(j) PROVE result'[i] # "rows"
  BY <1>7 DEF PassGate
<1>8. ASSUME NEW w \in Workers, Dispatch(w) \/ Settle(w) PROVE result'[i] # "rows"
  BY <1>8 DEF Dispatch, Settle
<1>9. ~Expire
  BY DEF Expire
<1>10. CASE Finish
  BY <1>10 DEF Finish
<1> QED
  BY <1>3, <1>4, <1>5, <1>6, <1>7, <1>8, <1>9, <1>10 DEF Next

(* No answer that arrives after the budget ran out becomes a result. *)
THEOREM LateAnswersDropped == Spec => NothingAcceptedLate
<1>1. Spec => []Working
  BY WorkingInit, WorkingNext, PTL DEF Spec
<1>2. Working /\ [Next]_vars =>
        [\A i \in Requests :
           budget = "expired" /\ result'[i] # result[i] => result'[i] # "rows"]_vars
  BY WorkingLate
<1> QED
  BY <1>1, <1>2, PTL DEF Spec, NothingAcceptedLate

-----------------------------------------------------------------------------
(* The refinement of RequestPool. *)

(* The pool counts as the executor does. *)
LEMMA SameCount == \A S : Pool!Cardinality(S) = Cardinality(S)
  BY DEF Pool!Cardinality, Cardinality

LEMMA PoolInit == Init => Pool!Init
<1> SUFFICES ASSUME Init PROVE Pool!Init
  OBVIOUS
<1>1. Settled = {}
  BY DEF Init, Settled
<1> QED
  BY <1>1 DEF Init, Pool!Init, Pool!Requests, Requests

(* Deciding one request is a step of the pool. *)
LEMMA PoolDecide ==
    ASSUME Working, Working', NEW i \in Requests, stage[i] \in {"gating", "racing"},
           NEW outcome \in Outcomes, Decide(i, outcome), UNCHANGED next
    PROVE  Pool!Decide
<1>1. Settled' = Settled /\ i \notin Settled
  BY DEF Decide, Settled, Working, TypeOK
<1>2. result[i] = None /\ i <= next - 1
  BY Constants DEF Working, TypeOK
<1>3. \A j \in Requests : result'[j] # result[j] => j = i
  BY DEF Decide, Working, TypeOK
<1>4. result' \in [Requests -> Outcomes \cup {None}]
  BY DEF Working, TypeOK
<1> QED
  BY <1>1, <1>2, <1>3, <1>4 DEF Pool!Decide, Pool!Requests, Requests

LEMMA PoolNext == Working /\ Working' /\ [Next]_vars => [Pool!Next]_(Pool!vars)
<1> SUFFICES ASSUME Working, Working', [Next]_vars
             PROVE  Pool!Next \/ UNCHANGED Pool!vars
  OBVIOUS
<1>0. TypeOK
  BY DEF Working
<1>1. ASSUME NEW w \in Workers, Dispatch(w) PROVE Pool!Take
  <2>1. next \in Requests /\ next \in Nat /\ hand[w] = 0
    BY <1>0, <1>1, Constants DEF TypeOK, Dispatch, Requests
  <2>2. Settled' = Settled
    <3>1. stage[next] = "queued"
      BY <2>1, Constants DEF Working
    <3> QED
      BY <1>0, <1>1, <2>1, <3>1 DEF Dispatch, Settled, TypeOK
  <2>3. IsFiniteSet(InFlight) /\ Cardinality(InFlight) <= Cardinality(Workers \ {w})
    BY <2>1, InFlightFits
  <2>4. Cardinality(Workers \ {w}) = WorkerCount - 1
    BY WorkerTotal, FS_RemoveElement
  <2>5. Cardinality(InFlight) \in Nat
    BY <2>3, FS_CardinalityType
  <2>6. (next - 1) - Cardinality(Settled) < WorkerCount
    BY <2>3, <2>4, <2>5, TakenSplits, Constants
  <2> QED
    <3>1. next - 1 < N /\ next' - 1 = (next - 1) + 1 /\ result' = result
      BY <1>1, <2>1, Constants DEF Dispatch, Requests
    <3> QED
      BY <2>2, <2>6, <3>1, SameCount DEF Pool!Take
<1>2. ASSUME NEW w \in Workers, Settle(w) PROVE \E i \in Requests : Pool!Return(i)
  <2> DEFINE i == hand[w]
  <2>1. i \in Requests /\ stage[i] = "auditing"
    BY <1>0, <1>2 DEF Settle, TypeOK
  <2>2. Settled' = Settled \cup {i} /\ i \notin Settled
    BY <1>0, <1>2, <2>1 DEF Settle, Settled, TypeOK
  <2>3. result[i] # None
    BY <2>1 DEF Working
  <2> QED
    BY <1>2, <2>1, <2>2, <2>3 DEF Settle, Pool!Return
<1>3. ASSUME NEW i \in Requests, PassGate(i) PROVE UNCHANGED Pool!vars
  BY <1>3 DEF PassGate, Pool!vars, Settled
<1>4. ASSUME NEW i \in Requests, Refuse(i) PROVE Pool!Decide
  BY <1>4, PoolDecide DEF Refuse, Outcomes
<1>5. ASSUME NEW i \in Requests, Call(i) PROVE Pool!Decide \/ UNCHANGED Pool!vars
  <2>1. CASE AlreadyAborted
    BY <1>5, <2>1, PoolDecide DEF Call, Outcomes
  <2>2. CASE ~AlreadyAborted
    <3>1. Settled' = Settled
      BY <1>0, <1>5, <2>2 DEF Call, Race, Settled, TypeOK
    <3> QED
      BY <1>5, <2>2, <3>1 DEF Call, Race, Pool!vars
  <2> QED
    BY <2>1, <2>2
<1>6. ASSUME NEW i \in Requests, Answer(i) PROVE Pool!Decide \/ UNCHANGED Pool!vars
  <2>1. CASE Racing(i)
    BY <1>6, <2>1, PoolDecide DEF Answer, Racing, Outcomes
  <2>2. CASE ~Racing(i)
    BY <1>6, <2>2 DEF Answer, Pool!vars, Settled
  <2> QED
    BY <2>1, <2>2
<1>7. ASSUME NEW i \in Requests, TimeOut(i) PROVE Pool!Decide
  <2>1. stage[i] = "racing"
    BY <1>7 DEF TimeOut, Working, TimerPerRace, Racing
  <2> QED
    BY <1>7, <2>1, PoolDecide DEF TimeOut, Outcomes
<1>8. ASSUME Expire PROVE Pool!Decide
  <2>1. Settled' = Settled
    BY <1>8 DEF Expire, Settled, Racing
  <2>2. \A i \in Requests : result'[i] # result[i] => Racing(i)
    BY <1>8 DEF Expire, Working, TypeOK
  <2>3. \A i \in Requests : Racing(i) => result[i] = None /\ i <= next - 1 /\ i \notin Settled
    BY <1>0, Constants DEF Racing, Working, TypeOK, Settled
  <2>4. result' \in [Requests -> Outcomes \cup {None}]
    BY DEF Working, TypeOK
  <2> QED
    BY <1>8, <2>1, <2>2, <2>3, <2>4 DEF Expire, Pool!Decide, Pool!Requests, Requests
<1>9. ASSUME Finish PROVE UNCHANGED Pool!vars
  BY <1>9 DEF Finish, Pool!vars, Settled
<1>10. ASSUME UNCHANGED vars PROVE UNCHANGED Pool!vars
  BY <1>10 DEF vars, Pool!vars, Settled
<1> QED
  BY <1>1, <1>2, <1>3, <1>4, <1>5, <1>6, <1>7, <1>8, <1>9, <1>10
  DEF Next, Pool!Next, Pool!Requests, Requests

(* The executor implements the pool: in order, decided once, given back once, and
   never more out than its capacity. *)
THEOREM ExecutorRefines == Spec => ImplementsPool
<1>1. Spec => []Working
  BY WorkingInit, WorkingNext, PTL DEF Spec
<1> QED
  BY <1>1, PoolInit, PoolNext, PTL DEF Spec, ImplementsPool, Pool!Spec

-----------------------------------------------------------------------------
(* The executor over REST operations. *)

LEMMA Adapter ==
    /\ Rest \subseteq Requests /\ Posts \subseteq Rest
    /\ GetAttempts \in Nat /\ GetAttempts >= 1
    /\ \A i \in Rest : AttemptsFor(i) \in Nat /\ AttemptsFor(i) >= 1 /\ AttemptsFor(i) <= GetAttempts
  BY RestAssumption DEF RestAssumption, AttemptsFor

LEMMA RestSteps == [RestNext]_all => [Next]_vars
<1>1. ASSUME NEW i \in Rest, Begin(i) PROVE Next
  BY <1>1, Adapter DEF Begin, Next
<1>2. ASSUME NEW i \in Rest, Return(i) PROVE Next
  BY <1>2, Adapter DEF Return, Next
<1>3. ASSUME NEW i \in Rest, Resolved(i) \/ Responds(i) \/ Reads(i) \/ Retries(i) \/ Aborts(i)
      PROVE  UNCHANGED vars
  BY <1>3 DEF Resolved, Responds, Reads, Retries, Aborts
<1>4. UNCHANGED all => UNCHANGED vars
  BY DEF all
<1> QED
  BY <1>1, <1>2, <1>3, <1>4 DEF RestNext, Next

(* The executor whose upstreams are REST operations is the executor: no step of a
   call's own loop is one it could not take, or touches what it holds. *)
THEOREM RestIsExecutor == RestSpec => Spec
<1>1. RestInit => Init
  BY DEF RestInit
<1> QED
  BY <1>1, RestSteps, PTL DEF RestSpec, Spec

(* So an answer that comes after the budget is dropped, whatever the loop of its call
   goes on doing. *)
THEOREM RestLateAnswersDropped == RestSpec => NothingAcceptedLate
  BY RestIsExecutor, LateAnswersDropped, PTL

(* And whatever the loops do, execution is still the pool. *)
THEOREM RestRefines == RestSpec => ImplementsPool
  BY RestIsExecutor, ExecutorRefines, PTL

(* The loop of request i. *)
Exchange(i) ==
    /\ stage[i] \in {"queued", "gating"} => at[i] = "idle"
    /\ at[i] = "idle" => attempt[i] = 0 /\ sent[i] = 0
    /\ at[i] \in Waits =>
        /\ i \in pending
        /\ Racing(i) \/ Signalled(i)
        /\ attempt[i] >= 1 /\ attempt[i] <= AttemptsFor(i)
    /\ at[i] = "headers" => sent[i] = attempt[i] - 1 /\ (sent[i] > 0 => SentInVain(i))
    /\ at[i] \in {"fetch", "body", "delay"} => sent[i] = attempt[i]
    /\ at[i] = "delay" => attempt[i] < AttemptsFor(i) /\ reply[i] = "transient"
    /\ sent[i] <= AttemptsFor(i)
Exchanging ==
    /\ Working
    /\ RestTypeOK
    /\ \A i \in Rest : Exchange(i)

LEMMA ExchangingInit == RestInit => Exchanging
<1> SUFFICES ASSUME RestInit PROVE Exchanging
  OBVIOUS
<1>1. Working
  BY WorkingInit DEF RestInit
<1>2. RestTypeOK
  BY <1>1, Adapter DEF RestInit, RestTypeOK, Working
<1>3. \A i \in Rest : Exchange(i)
  BY Adapter DEF RestInit, Init, Exchange, Waits
<1> QED
  BY <1>1, <1>2, <1>3 DEF Exchanging

(* A step of the executor that is not one of the loop of i: the loop still waits for
   what it waited for. *)
Follows(i) ==
    /\ stage'[i] \in {"queued", "gating"} => stage[i] \in {"queued", "gating"}
    /\ i \in pending /\ stage[i] \notin {"queued", "gating"} /\ (Racing(i) \/ Signalled(i)) =>
        i \in pending' /\ (Racing(i)' \/ Signalled(i)')

LEMMA FollowsKeeps ==
    ASSUME NEW i \in Rest, Exchange(i), Follows(i),
           at'[i] = at[i], attempt'[i] = attempt[i], sent'[i] = sent[i], reply'[i] = reply[i]
    PROVE  Exchange(i)'
<1>1. at[i] \in Waits => stage[i] \notin {"queued", "gating"}
  BY DEF Exchange, Waits
<1>2. AttemptsFor(i)' = AttemptsFor(i)
  BY DEF AttemptsFor
<1> QED
  BY <1>1, <1>2 DEF Exchange, Follows, SentInVain

LEMMA OutsideFollows ==
    ASSUME Working, NEW i \in Rest,
           \/ \E w \in Workers : Dispatch(w) \/ Settle(w)
           \/ \E j \in Requests : PassGate(j) \/ Refuse(j) \/ TimeOut(j)
           \/ \E j \in Requests \ {i} : Call(j) \/ Answer(j)
           \/ Expire
           \/ Finish
           \/ UNCHANGED vars
    PROVE  Follows(i)
<1>0. TypeOK /\ i \in Requests
  BY Adapter DEF Working
<1> USE DEF Follows, Racing, Signalled
<1>1. ASSUME NEW w \in Workers, Dispatch(w) PROVE Follows(i)
  <2>1. next \in Requests /\ stage[next] = "queued"
    BY <1>1, Constants DEF Working, TypeOK, Dispatch, Requests
  <2> QED
    BY <1>0, <1>1, <2>1 DEF Dispatch, TypeOK
<1>2. ASSUME NEW w \in Workers, Settle(w) PROVE Follows(i)
  BY <1>0, <1>2 DEF Settle, TypeOK
<1>3. ASSUME NEW j \in Requests, PassGate(j) PROVE Follows(i)
  BY <1>3 DEF PassGate
<1>4. ASSUME NEW j \in Requests, Refuse(j) PROVE Follows(i)
  BY <1>0, <1>4 DEF Refuse, Decide, TypeOK
<1>5. ASSUME NEW j \in Requests, TimeOut(j) PROVE Follows(i)
  BY <1>0, <1>5 DEF TimeOut, Decide, TypeOK
<1>6. ASSUME NEW j \in Requests \ {i}, Call(j) PROVE Follows(i)
  BY <1>0, <1>6 DEF Call, Decide, Race, TypeOK
<1>7. ASSUME NEW j \in Requests \ {i}, Answer(j) PROVE Follows(i)
  BY <1>0, <1>7 DEF Answer, Decide, TypeOK
<1>8. CASE Expire
  BY <1>0, <1>8 DEF Expire, TypeOK
<1>9. CASE Finish
  BY <1>9 DEF Finish
<1>10. CASE UNCHANGED vars
  BY <1>10 DEF vars
<1> QED
  BY <1>1, <1>2, <1>3, <1>4, <1>5, <1>6, <1>7, <1>8, <1>9, <1>10

(* A step of the loop of i moves only that loop, and leaves it where it may be. *)
Moves(i) ==
    /\ Exchange(i)'
    /\ at' \in [Rest -> {"idle", "ended"} \cup Waits]
    /\ attempt' \in [Rest -> 0 .. GetAttempts]
    /\ sent' \in [Rest -> 0 .. GetAttempts]
    /\ reply' \in [Rest -> Replies \cup {None}]
    /\ \A j \in Rest \ {i} :
         at'[j] = at[j] /\ attempt'[j] = attempt[j] /\ sent'[j] = sent[j] /\ reply'[j] = reply[j]

LEMMA LoopMoves ==
    ASSUME Exchanging, NEW i \in Rest,
           Begin(i) \/ Return(i) \/ Resolved(i) \/ Responds(i) \/ Reads(i) \/ Retries(i) \/ Aborts(i)
    PROVE  Moves(i)
<1>0. /\ i \in Requests /\ Exchange(i) /\ TypeOK /\ RestTypeOK
      /\ AttemptsFor(i) \in Nat /\ AttemptsFor(i) >= 1 /\ AttemptsFor(i) <= GetAttempts
      /\ AttemptsFor(i)' = AttemptsFor(i)
      /\ GetAttempts \in Nat
      /\ attempt[i] \in Nat /\ sent[i] \in Nat /\ sent[i] <= GetAttempts
  BY Adapter DEF Exchanging, Working, RestTypeOK, AttemptsFor
<1> USE DEF RestTypeOK, Waits
<1>1. CASE Begin(i)
  <2>1. stage[i] = "gating" /\ at[i] = "idle" /\ attempt[i] = 0 /\ sent[i] = 0
    BY <1>0, <1>1 DEF Begin, Call, Exchange
  <2>2. i \in pending' /\ stage'[i] \notin {"queued", "gating"}
    BY <1>0, <1>1 DEF Begin, Call, Decide, Race, TypeOK
  <2>3. CASE Ends(i, "failed") /\ UNCHANGED <<attempt, sent>>
    BY <1>0, <2>1, <2>2, <2>3 DEF Ends, Goes, Moves, Exchange, Replies
  <2>4. CASE ~AlreadyAborted /\ Attempt(i) /\ UNCHANGED <<sent, reply>>
    <3>1. Racing(i)'
      BY <1>0, <1>1, <2>4 DEF Begin, Call, Race, Racing, TypeOK
    <3> QED
      BY <1>0, <2>1, <2>2, <2>4, <3>1 DEF Attempt, Goes, Moves, Exchange
  <2> QED
    BY <1>1, <2>3, <2>4 DEF Begin
<1>2. CASE Return(i)
  <2>1. at[i] = "ended" /\ UNCHANGED adapter /\ stage[i] \notin {"queued", "gating"}
    BY <1>0, <1>2 DEF Return, Exchange
  <2>2. stage'[i] \notin {"queued", "gating"}
    BY <1>0, <1>2, <2>1 DEF Return, Answer, Decide, TypeOK
  <2> QED
    BY <1>0, <2>1, <2>2 DEF adapter, Moves, Exchange
<1>3. CASE Resolved(i)
  <2>1. at[i] = "headers" /\ UNCHANGED <<vars, attempt>>
    BY <1>3 DEF Resolved
  <2>2. sent[i] = attempt[i] - 1 /\ attempt[i] <= AttemptsFor(i) /\ stage[i] \notin {"queued", "gating"}
    BY <1>0, <2>1 DEF Exchange
  <2>3. CASE Send(i)
    <3>1. sent'[i] = attempt[i] /\ at'[i] = "fetch"
      BY <1>0, <2>2, <2>3 DEF Send, Goes
    <3> QED
      BY <1>0, <2>1, <2>2, <2>3, <3>1 DEF Send, Goes, Moves, Exchange, vars, Racing, Signalled
  <2>4. CASE Ends(i, "failed") /\ UNCHANGED sent
    BY <1>0, <2>1, <2>2, <2>4 DEF Ends, Goes, Moves, Exchange, Replies, vars
  <2> QED
    BY <1>3, <2>3, <2>4 DEF Resolved
<1>4. CASE Responds(i)
  <2>1. at[i] = "fetch" /\ UNCHANGED <<vars, attempt, sent>> /\ stage[i] \notin {"queued", "gating"}
    BY <1>0, <1>4 DEF Responds, Exchange
  <2>2. CASE Goes(i, "delay") /\ reply' = [reply EXCEPT ![i] = "transient"] /\ attempt[i] < AttemptsFor(i)
    BY <1>0, <2>1, <2>2 DEF Goes, Moves, Exchange, Replies, vars, Racing, Signalled
  <2>3. ASSUME NEW what \in Replies, Ends(i, what) PROVE Moves(i)
    BY <1>0, <2>1, <2>3 DEF Ends, Goes, Moves, Exchange, vars
  <2>4. CASE Goes(i, "body") /\ UNCHANGED reply
    BY <1>0, <2>1, <2>4 DEF Goes, Moves, Exchange, vars, Racing, Signalled
  <2> QED
    BY <1>4, <2>2, <2>3, <2>4 DEF Responds, Passing, Replies
<1>5. CASE Reads(i)
  <2>1. at[i] = "body" /\ UNCHANGED <<vars, attempt, sent>> /\ stage[i] \notin {"queued", "gating"}
    BY <1>0, <1>5 DEF Reads, Exchange
  <2>2. ASSUME NEW what \in Replies, Ends(i, what) PROVE Moves(i)
    BY <1>0, <2>1, <2>2 DEF Ends, Goes, Moves, Exchange, vars
  <2> QED
    BY <1>5, <2>2 DEF Reads, Replies
<1>6. CASE Retries(i)
  <2>1. /\ at[i] = "delay" /\ Attempt(i) /\ UNCHANGED <<vars, sent, reply>>
        /\ stage[i] \notin {"queued", "gating"}
    BY <1>0, <1>6 DEF Retries, Exchange
  <2>2. /\ attempt[i] >= 1 /\ attempt[i] < AttemptsFor(i) /\ sent[i] = attempt[i]
        /\ reply[i] = "transient"
    BY <1>0, <2>1 DEF Exchange
  <2>3. i \notin Posts
    BY <1>0, <2>2 DEF AttemptsFor
  <2>4. attempt'[i] = attempt[i] + 1 /\ at'[i] = "headers"
    BY <1>0, <2>1 DEF Attempt, Goes
  <2>5. SentInVain(i)'
    BY <2>1, <2>2, <2>3 DEF SentInVain
  <2> QED
    BY <1>0, <2>1, <2>2, <2>4, <2>5 DEF Attempt, Goes, Moves, Exchange, vars, Racing, Signalled
<1>7. CASE Aborts(i)
  <2>1. /\ at[i] \in Waits /\ UNCHANGED <<vars, attempt, sent>>
        /\ stage[i] \notin {"queued", "gating"} /\ Ends(i, "failed")
    BY <1>0, <1>7 DEF Aborts, Abandons, Exchange
  <2> QED
    BY <1>0, <2>1 DEF Ends, Goes, Moves, Exchange, Replies, vars
<1> QED
  BY <1>1, <1>2, <1>3, <1>4, <1>5, <1>6, <1>7

LEMMA ExchangingNext == Exchanging /\ [RestNext]_all => Exchanging'
<1> SUFFICES ASSUME Exchanging, [RestNext]_all PROVE Exchanging'
  OBVIOUS
<1>1. Working'
  BY RestSteps, WorkingNext DEF Exchanging
<1>2. CASE \E i \in Rest : Begin(i) \/ Return(i) \/ Resolved(i) \/ Responds(i) \/ Reads(i) \/ Retries(i) \/ Aborts(i)
  <2>1. PICK i \in Rest : Begin(i) \/ Return(i) \/ Resolved(i) \/ Responds(i) \/ Reads(i) \/ Retries(i) \/ Aborts(i)
    BY <1>2
  <2>2. Moves(i)
    BY <2>1, LoopMoves
  <2>3. RestTypeOK'
    BY <1>1, <2>2 DEF Moves, RestTypeOK, Working
  <2>4. ASSUME NEW j \in Rest \ {i} PROVE Exchange(j)'
    <3>1. \/ i \in Requests \ {j} /\ (Call(i) \/ Answer(i))
          \/ UNCHANGED vars
      BY <2>1, Adapter DEF Begin, Return, Resolved, Responds, Reads, Retries, Aborts
    <3>2. Follows(j)
      BY <3>1, OutsideFollows DEF Exchanging
    <3> QED
      BY <2>2, <3>2, FollowsKeeps DEF Moves, Exchanging
  <2> QED
    BY <1>1, <2>2, <2>3, <2>4 DEF Exchanging, Moves
<1>3. CASE ~\E i \in Rest : Begin(i) \/ Return(i) \/ Resolved(i) \/ Responds(i) \/ Reads(i) \/ Retries(i) \/ Aborts(i)
  <2>1. UNCHANGED adapter
    BY <1>3 DEF RestNext, all
  <2>2. RestTypeOK'
    BY <1>1, <2>1 DEF Exchanging, RestTypeOK, Working, adapter
  <2>3. ASSUME NEW i \in Rest PROVE Exchange(i)'
    <3>1. \/ \E w \in Workers : Dispatch(w) \/ Settle(w)
          \/ \E j \in Requests : PassGate(j) \/ Refuse(j) \/ TimeOut(j)
          \/ \E j \in Requests \ {i} : Call(j) \/ Answer(j)
          \/ Expire
          \/ Finish
          \/ UNCHANGED vars
      BY <1>3 DEF RestNext, all
    <3>2. Follows(i)
      BY <3>1, OutsideFollows DEF Exchanging
    <3> QED
      BY <2>1, <3>2, FollowsKeeps DEF Exchanging, adapter
  <2> QED
    BY <1>1, <2>2, <2>3 DEF Exchanging
<1> QED
  BY <1>2, <1>3

LEMMA ExchangingAlways == RestSpec => []Exchanging
  BY ExchangingInit, ExchangingNext, PTL DEF RestSpec

(* The state of the executor and of its calls is always well typed: in particular no
   call attempts or sends more than it may. *)
THEOREM RestTyped == RestSpec => []RestTypeOK
<1>1. Exchanging => RestTypeOK
  BY DEF Exchanging
<1> QED
  BY <1>1, ExchangingAlways, PTL

(* A POST leaves once, however its answer is lost: what it did is not known. *)
THEOREM PostsLeaveOnce == RestSpec => [](\A i \in Posts : sent[i] <= 1)
<1>1. Exchanging => \A i \in Posts : sent[i] <= 1
  BY Adapter DEF Exchanging, Exchange, AttemptsFor
<1> QED
  BY <1>1, ExchangingAlways, PTL

(* A request leaves only while its race is open, and leaves again only when the last
   one came to nothing and asking twice is harmless (retry loop of callOperation). *)
THEOREM SendsAreAwaited == RestSpec => SentWhileAwaited
<1> DEFINE Leaves == \A i \in Rest : sent'[i] # sent[i] => Racing(i) /\ (sent[i] > 0 => SentInVain(i))
<1>1. Exchanging /\ [RestNext]_all => [Leaves]_all
  <2> SUFFICES ASSUME Exchanging, RestNext, NEW i \in Rest, sent'[i] # sent[i]
               PROVE  Racing(i) /\ (sent[i] > 0 => SentInVain(i))
    BY DEF all, adapter
  <2>1. Resolved(i) /\ Send(i)
    <3>1. PICK j \in Rest : Begin(j) \/ Return(j) \/ Resolved(j) \/ Responds(j) \/ Reads(j) \/ Retries(j) \/ Aborts(j)
      BY DEF RestNext, adapter
    <3>2. Resolved(j) /\ Send(j)
      BY <3>1 DEF Begin, Return, Resolved, Responds, Reads, Retries, Aborts, adapter
    <3>3. i = j
      BY <3>2 DEF Send, Exchanging, RestTypeOK
    <3> QED
      BY <3>2, <3>3
  <2> QED
    BY <2>1 DEF Resolved, Send, Exchanging, Exchange, Waits
<1> QED
  BY <1>1, ExchangingAlways, PTL DEF RestSpec, SentWhileAwaited
=============================================================================
