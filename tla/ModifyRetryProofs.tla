------------------------- MODULE ModifyRetryProofs -------------------------
(***************************************************************************)
(* Proofs about ModifyRetry, for any number of calls and tries.            *)
(***************************************************************************)
EXTENDS ModifyRetry, TLAPS

USE DEF object, calls

-----------------------------------------------------------------------------
(* The inductive invariant *)

LEMMA NoMarksType == NoMarks \in [Callers -> Nat] /\ Stale \in [Callers -> BOOLEAN]
BY DEF NoMarks, Stale

LEMMA InitInductive == Init => Inductive
<1> SUFFICES ASSUME Init PROVE Inductive
  OBVIOUS
<1>1. TypeOK
  BY BoundsAssumption, NoMarksType DEF Init, TypeOK
<1>2. CopyIsCurrent /\ TriesLeft /\ ChangesCounted
  BY BoundsAssumption DEF Init, CopyIsCurrent, TriesLeft, ChangesCounted, NoMarks
<1> QED BY <1>1, <1>2 DEF Inductive

LEMMA HappensType ==
  ASSUME TypeOK, Happens
  PROVE  events' \in 0 .. MaxEvents
BY BoundsAssumption DEF Happens, TypeOK

\* A call that tries again, or gives up, keeps every part about itself.
LEMMA RetryKeeps ==
  ASSUME TypeOK, TriesLeft, NEW c \in Callers, pc[c] \in {"try", "update"}, Retry(c)
  PROVE  /\ tries' \in [Callers -> 0 .. MaxTries]
         /\ pc' \in [Callers -> {"try", "update", "done", "failed"}]
         /\ pc'[c] \in {"try", "failed"}
         /\ \A d \in Callers : d # c => pc'[d] = pc[d]
         /\ TriesLeft'
<1>1. tries[c] \in Nat /\ tries[c] < MaxTries
  BY DEF TypeOK, TriesLeft
<1>2. tries' \in [Callers -> 0 .. MaxTries]
  BY <1>1, BoundsAssumption DEF Retry, TypeOK
<1>3. \A d \in Callers : tries'[d] = IF d = c THEN tries[c] + 1 ELSE tries[d]
  BY DEF Retry, TypeOK
<1>4. \A d \in Callers :
        pc'[d] = IF d # c THEN pc[d] ELSE IF tries[c] + 1 < MaxTries THEN "try" ELSE "failed"
  BY DEF Retry, TypeOK
<1>5. pc' \in [Callers -> {"try", "update", "done", "failed"}]
  BY DEF Retry, TypeOK
<1>6. TriesLeft'
  BY <1>3, <1>4 DEF TriesLeft
<1> QED BY <1>2, <1>4, <1>5, <1>6

\* What an accepted update stores: one more change of its caller.
LEMMA StoreAddsOne ==
  ASSUME TypeOK, CopyIsCurrent, NEW c \in Callers, Store(c)
  PROVE  present /\ marks' = [marks EXCEPT ![c] = @ + 1]
<1>1. present /\ copy[c] = [marks EXCEPT ![c] = @ + 1]
  BY DEF Store, Accepts, CopyIsCurrent
<1>2. c \in Written(c)
  BY DEF Written
<1>3. \A d \in Callers : marks'[d] = [marks EXCEPT ![c] = @ + 1][d]
  BY <1>1, <1>2 DEF Store, TypeOK
<1>4. marks' = [d \in Callers |-> marks'[d]]
  BY DEF Store
<1> QED BY <1>1, <1>3, <1>4 DEF TypeOK

LEMMA NextInductive == Inductive /\ [Next]_vars => Inductive'
<1> SUFFICES ASSUME Inductive, [Next]_vars PROVE Inductive'
  OBVIOUS
<1> USE DEF Inductive
<1>1. ASSUME NEW c \in Callers, GetAndModify(c) PROVE Inductive'
  <2>1. [marks EXCEPT ![c] = @ + 1] \in [Callers -> Nat]
    BY DEF TypeOK
  <2>2. copy' = [copy EXCEPT ![c] = [marks EXCEPT ![c] = @ + 1]]
    BY <1>1 DEF GetAndModify, Read
  <2>3. TypeOK'
    BY <1>1, <2>1, <2>2 DEF GetAndModify, TypeOK
  <2>4. CopyIsCurrent'
    <3> SUFFICES ASSUME NEW d \in Callers, pc'[d] = "update", fresh'[d]
                 PROVE  present' /\ copy'[d] = [marks' EXCEPT ![d] = @ + 1]
      BY DEF CopyIsCurrent
    <3>1. UNCHANGED object /\ present
      BY <1>1 DEF GetAndModify
    <3>2. CASE d = c
      BY <2>2, <3>1, <3>2 DEF TypeOK
    <3>3. CASE d # c
      <4>1. pc[d] = "update" /\ fresh[d] /\ copy'[d] = copy[d]
        BY <1>1, <2>2, <3>3 DEF GetAndModify, TypeOK
      <4> QED BY <3>1, <4>1 DEF CopyIsCurrent
    <3> QED BY <3>2, <3>3
  <2>5. TriesLeft'
    BY <1>1 DEF GetAndModify, TriesLeft, TypeOK
  <2>6. ChangesCounted'
    BY <1>1 DEF GetAndModify, ChangesCounted, TypeOK
  <2> QED BY <2>3, <2>4, <2>5, <2>6
<1>2. ASSUME NEW c \in Callers, NotFound(c) PROVE Inductive'
  <2>1. TypeOK'
    BY <1>2 DEF NotFound, TypeOK
  <2>2. CopyIsCurrent'
    BY <1>2 DEF NotFound, CopyIsCurrent, TypeOK
  <2>3. TriesLeft'
    BY <1>2 DEF NotFound, TriesLeft, TypeOK
  <2>4. ChangesCounted'
    BY <1>2 DEF NotFound, ChangesCounted, TypeOK
  <2> QED BY <2>1, <2>2, <2>3, <2>4
<1>3. ASSUME NEW c \in Callers, Update(c) PROVE Inductive'
  <2>1. marks' = [marks EXCEPT ![c] = @ + 1] /\ pc[c] = "update"
    BY <1>3, StoreAddsOne DEF Update, Store
  <2>2. TypeOK'
    <3>1. marks' \in [Callers -> Nat]
      BY <2>1 DEF TypeOK
    <3>2. pc' \in [Callers -> {"try", "update", "done", "failed"}]
      BY <1>3 DEF Update, TypeOK
    <3>3. fresh' = Stale /\ UNCHANGED <<present, tries, copy, lost, events>>
      BY <1>3 DEF Update, Store
    <3> QED BY <3>1, <3>2, <3>3, NoMarksType DEF TypeOK
  <2>3. CopyIsCurrent'
    BY <1>3 DEF Update, Store, Stale, CopyIsCurrent
  <2>4. TriesLeft'
    BY <1>3 DEF Update, TriesLeft, TypeOK
  <2>5. ChangesCounted'
    BY <1>3, <2>1 DEF Update, ChangesCounted, TypeOK
  <2> QED BY <2>2, <2>3, <2>4, <2>5
<1>4. ASSUME NEW c \in Callers, pc[c] \in {"try", "update"}, Retry(c),
             UNCHANGED <<object, copy, fresh, lost>>, events' \in 0 .. MaxEvents
      PROVE  Inductive'
  <2>1. TypeOK'
    BY <1>4, RetryKeeps DEF TypeOK
  <2>2. CopyIsCurrent'
    BY <1>4, RetryKeeps DEF CopyIsCurrent
  <2>3. TriesLeft'
    BY <1>4, RetryKeeps
  <2>4. ChangesCounted'
    BY <1>4, RetryKeeps DEF ChangesCounted
  <2> QED BY <2>1, <2>2, <2>3, <2>4
<1>5. ASSUME NEW c \in Callers, UpdateRefused(c) PROVE Inductive'
  BY <1>4, <1>5 DEF UpdateRefused, TypeOK
<1>6. ASSUME NEW c \in Callers, Fail(c) PROVE Inductive'
  BY <1>4, <1>6, HappensType DEF Fail
<1>7. ASSUME NEW c \in Callers, LoseAnswer(c) PROVE Inductive'
  <2>1. /\ marks' = [marks EXCEPT ![c] = @ + 1] /\ lost' = [lost EXCEPT ![c] = @ + 1]
        /\ pc[c] = "update" /\ Retry(c)
    BY <1>7, StoreAddsOne DEF LoseAnswer, Store
  <2>2. TypeOK'
    <3>1. events' \in 0 .. MaxEvents
      BY <1>7, HappensType DEF LoseAnswer
    <3>2. present' = present /\ copy' = copy /\ fresh' = Stale
      BY <1>7 DEF LoseAnswer, Store
    <3>3. marks' \in [Callers -> Nat] /\ lost' \in [Callers -> Nat]
      BY <2>1 DEF TypeOK
    <3> QED BY <2>1, <3>1, <3>2, <3>3, RetryKeeps, NoMarksType DEF TypeOK
  <2>3. CopyIsCurrent'
    BY <1>7 DEF LoseAnswer, Store, Stale, CopyIsCurrent
  <2>4. TriesLeft'
    BY <2>1, RetryKeeps
  <2>5. ChangesCounted'
    BY <2>1, RetryKeeps DEF ChangesCounted, TypeOK
  <2> QED BY <2>2, <2>3, <2>4, <2>5
<1>8. CASE Touch
  <2>1. TypeOK'
    BY <1>8, HappensType, NoMarksType DEF Touch, TypeOK
  <2>2. CopyIsCurrent'
    BY <1>8 DEF Touch, Stale, CopyIsCurrent
  <2>3. TriesLeft' /\ ChangesCounted'
    BY <1>8 DEF Touch, TriesLeft, ChangesCounted
  <2> QED BY <2>1, <2>2, <2>3
<1>9. CASE ComeOrGo
  <2>1. TypeOK'
    BY <1>9, HappensType, NoMarksType DEF ComeOrGo, TypeOK
  <2>2. CopyIsCurrent'
    BY <1>9 DEF ComeOrGo, Stale, CopyIsCurrent
  <2>3. TriesLeft' /\ ChangesCounted'
    BY <1>9 DEF ComeOrGo, NoMarks, TriesLeft, ChangesCounted, TypeOK
  <2> QED BY <2>1, <2>2, <2>3
<1>10. CASE UNCHANGED vars
  BY <1>10 DEF vars, TypeOK, CopyIsCurrent, TriesLeft, ChangesCounted
<1> QED BY <1>1, <1>2, <1>3, <1>5, <1>6, <1>7, <1>8, <1>9, <1>10 DEF Next, Step

\* The parts of Inductive hold in every state, for any number of calls.
THEOREM ModifyInvariance == Spec => []Inductive
BY InitInductive, NextInductive, PTL DEF Spec

\* Every variable keeps its type; in particular a call makes at most MaxTries
\* tries.
THEOREM ModifyTypeCorrect == Spec => []TypeOK
<1>1. Inductive => TypeOK
  BY DEF Inductive
<1> QED BY <1>1, ModifyInvariance, PTL

\* A change is in the object more than once only if an answer got lost.
THEOREM ChangedOnceCorrect == Spec => []ChangedOnce
<1>1. Inductive => ChangedOnce
  <2> SUFFICES ASSUME Inductive, NEW c \in Callers PROVE marks[c] <= lost[c] + 1
    BY DEF ChangedOnce
  <2>1. marks[c] \in Nat /\ lost[c] \in Nat
    BY DEF Inductive, TypeOK
  <2>2. marks[c] <= lost[c] + IF pc[c] = "done" THEN 1 ELSE 0
    BY DEF Inductive, ChangesCounted
  <2> QED BY <2>1, <2>2
<1> QED BY <1>1, ModifyInvariance, PTL

-----------------------------------------------------------------------------
(* Refinement *)

\* What a caller that runs on is told, if anything.
LEMMA OutcomeChanges ==
  ASSUME TypeOK, NEW c \in Callers, pc[c] \in {"try", "update"},
         pc' \in [Callers -> {"try", "update", "done", "failed"}],
         \A d \in Callers : d # c => pc'[d] = pc[d]
  PROVE  /\ Outcome[c] = "running"
         /\ pc'[c] \in {"try", "update"} => Outcome' = Outcome
         /\ pc'[c] \in {"done", "failed"} => Outcome' = [Outcome EXCEPT ![c] = pc'[c]]
<1>1. Outcome[c] = "running"
  BY DEF Outcome
<1>2. \A d \in Callers : Outcome'[d] =
        IF pc'[d] \in {"done", "failed"} THEN pc'[d] ELSE "running"
  BY DEF Outcome
<1>3. \A d \in Callers : d # c => Outcome'[d] = Outcome[d]
  BY DEF Outcome
<1>4. Outcome = [d \in Callers |-> Outcome[d]] /\ Outcome' = [d \in Callers |-> Outcome'[d]]
  BY DEF Outcome
<1>5. ASSUME pc'[c] \in {"try", "update"} PROVE Outcome' = Outcome
  <2>1. \A d \in Callers : Outcome'[d] = Outcome[d]
    BY <1>1, <1>2, <1>3, <1>5
  <2> QED BY <1>4, <2>1
<1>6. ASSUME pc'[c] \in {"done", "failed"} PROVE Outcome' = [Outcome EXCEPT ![c] = pc'[c]]
  <2>1. \A d \in Callers : Outcome'[d] = [Outcome EXCEPT ![c] = pc'[c]][d]
    BY <1>2, <1>3, <1>4, <1>6
  <2> QED BY <1>4, <2>1
<1> QED BY <1>1, <1>5, <1>6

LEMMA StoreRefines ==
  ASSUME TypeOK, CopyIsCurrent, NEW c \in Callers, Store(c),
         pc' \in [Callers -> {"try", "update", "done", "failed"}],
         \A d \in Callers : d # c => pc'[d] = pc[d]
  PROVE  Atomic!Apply(c)
<1>1. pc[c] = "update" /\ UNCHANGED present
  BY DEF Store
<1>2. present /\ marks' = [marks EXCEPT ![c] = @ + 1]
  BY StoreAddsOne
<1>3. Outcome[c] = "running"
  BY <1>1, OutcomeChanges
<1>4. Outcome' \in {Outcome, [Outcome EXCEPT ![c] = "done"], [Outcome EXCEPT ![c] = "failed"]}
  BY <1>1, OutcomeChanges
<1> QED BY <1>1, <1>2, <1>3, <1>4 DEF Atomic!Apply

\* A step of a call that does not reach the object.
LEMMA OtherStepRefines ==
  ASSUME TypeOK, NEW c \in Callers, UNCHANGED object, pc[c] \in {"try", "update"},
         pc' \in [Callers -> {"try", "update", "done", "failed"}],
         pc'[c] # "done",
         \A d \in Callers : d # c => pc'[d] = pc[d]
  PROVE  Atomic!GiveUp(c) \/ UNCHANGED Atomic!vars
<1>1. Outcome[c] = "running"
  BY OutcomeChanges
<1>2. CASE pc'[c] \in {"try", "update"}
  BY <1>2, OutcomeChanges DEF Atomic!vars
<1>3. CASE pc'[c] = "failed"
  BY <1>1, <1>3, OutcomeChanges DEF Atomic!GiveUp
<1> QED BY <1>2, <1>3

LEMMA StepRefines == Inductive /\ [Next]_vars => [Atomic!Next]_(Atomic!vars)
<1> SUFFICES ASSUME Inductive, [Next]_vars PROVE [Atomic!Next]_(Atomic!vars)
  OBVIOUS
<1> USE DEF Inductive
<1>1. ASSUME NEW c \in Callers, GetAndModify(c) PROVE UNCHANGED Atomic!vars
  <2>1. pc' \in [Callers -> {"try", "update", "done", "failed"}] /\ pc'[c] = "update"
    BY <1>1 DEF GetAndModify, TypeOK
  <2>2. UNCHANGED object /\ pc[c] = "try" /\ \A d \in Callers : d # c => pc'[d] = pc[d]
    BY <1>1 DEF GetAndModify, TypeOK
  <2> QED BY <2>1, <2>2, OutcomeChanges DEF Atomic!vars
<1>2. ASSUME NEW c \in Callers, NotFound(c) PROVE Atomic!GiveUp(c) \/ UNCHANGED Atomic!vars
  <2>1. pc' \in [Callers -> {"try", "update", "done", "failed"}] /\ pc'[c] = "failed"
    BY <1>2 DEF NotFound, TypeOK
  <2>2. UNCHANGED object /\ pc[c] = "try" /\ \A d \in Callers : d # c => pc'[d] = pc[d]
    BY <1>2 DEF NotFound, TypeOK
  <2> QED BY <2>1, <2>2, OtherStepRefines
<1>3. ASSUME NEW c \in Callers, Update(c) PROVE Atomic!Apply(c)
  <2>1. pc' \in [Callers -> {"try", "update", "done", "failed"}]
    BY <1>3 DEF Update, TypeOK
  <2>2. Store(c) /\ \A d \in Callers : d # c => pc'[d] = pc[d]
    BY <1>3 DEF Update, TypeOK
  <2> QED BY <2>1, <2>2, StoreRefines
<1>4. ASSUME NEW c \in Callers, UpdateRefused(c) \/ Fail(c)
      PROVE  Atomic!GiveUp(c) \/ UNCHANGED Atomic!vars
  <2>1. UNCHANGED object /\ pc[c] \in {"try", "update"} /\ Retry(c)
    BY <1>4 DEF UpdateRefused, Fail
  <2> QED BY <2>1, RetryKeeps, OtherStepRefines
<1>5. ASSUME NEW c \in Callers, LoseAnswer(c) PROVE Atomic!Apply(c)
  <2>1. Store(c) /\ pc[c] = "update" /\ Retry(c)
    BY <1>5 DEF LoseAnswer, Store
  <2> QED BY <2>1, RetryKeeps, StoreRefines
<1>6. CASE Touch
  <2>1. UNCHANGED <<present, marks, pc>>
    BY <1>6 DEF Touch
  <2> QED BY <2>1 DEF Atomic!vars, Outcome
<1>7. CASE ComeOrGo
  <2>1. UNCHANGED pc
    BY <1>7 DEF ComeOrGo
  <2>2. Outcome' = Outcome
    BY <2>1 DEF Outcome
  <2>3. Atomic!ComeOrGo
    BY <1>7, <2>2 DEF ComeOrGo, Atomic!ComeOrGo, NoMarks
  <2> QED BY <2>3 DEF Atomic!Next
<1>8. CASE UNCHANGED vars
  BY <1>8 DEF vars, Atomic!vars, Outcome
<1> QED BY <1>1, <1>2, <1>3, <1>4, <1>5, <1>6, <1>7, <1>8 DEF Next, Step, Atomic!Next

LEMMA InitRefines == Init => Atomic!Init
BY DEF Init, Atomic!Init, NoMarks, Outcome

\* Modify and ModifyStatus implement AtomicModify, for any number of calls,
\* tries and failures.
THEOREM ModifyAtomic == Spec => ModifiesAtomically
<1>1. Spec => Init /\ [][Next]_vars
  BY PTL DEF Spec
<1> QED BY <1>1, InitRefines, StepRefines, ModifyInvariance, PTL
        DEF ModifiesAtomically, Atomic!Spec

-----------------------------------------------------------------------------
(* Every call comes to an end *)

\* The steps of its own that a call may still make: two for every try.
StepsLeft(c) ==
  CASE pc[c] \in {"done", "failed"} -> 0
    [] pc[c] = "try"    -> 2 * (MaxTries - tries[c])
    [] pc[c] = "update" -> 2 * (MaxTries - tries[c]) - 1

LEMMA RetryCountsDown ==
  ASSUME Inductive, NEW c \in Callers, pc[c] = "update" \/ pc[c] = "try", Retry(c)
  PROVE  /\ StepsLeft(c)' < StepsLeft(c)
         /\ \A d \in Callers \ {c} : StepsLeft(d)' = StepsLeft(d)
<1>1. tries[c] \in Nat /\ tries[c] < MaxTries /\ tries'[c] = tries[c] + 1
  BY DEF Inductive, TypeOK, TriesLeft, Retry
<1>2. pc'[c] = IF tries[c] + 1 < MaxTries THEN "try" ELSE "failed"
  BY DEF Inductive, TypeOK, Retry
<1>3. StepsLeft(c)' < StepsLeft(c)
  BY <1>1, <1>2, BoundsAssumption DEF StepsLeft
<1>4. \A d \in Callers \ {c} : pc'[d] = pc[d] /\ tries'[d] = tries[d]
  BY DEF Inductive, TypeOK, Retry
<1> QED BY <1>3, <1>4 DEF StepsLeft

LEMMA CallStep ==
  ASSUME Inductive, NEW c \in Callers, Step(c) \/ Fail(c) \/ LoseAnswer(c)
  PROVE  /\ StepsLeft(c)' < StepsLeft(c)
         /\ \A d \in Callers \ {c} : StepsLeft(d)' = StepsLeft(d)
<1>1. /\ tries[c] \in Nat
      /\ pc[c] \in {"try", "update"} => tries[c] < MaxTries
      /\ MaxTries \in Nat
  BY BoundsAssumption DEF Inductive, TypeOK, TriesLeft
<1>2. ASSUME NEW p \in {"done", "failed"}, pc' = [pc EXCEPT ![c] = p], tries' = tries,
             pc[c] \in {"try", "update"}
      PROVE  /\ StepsLeft(c)' < StepsLeft(c)
             /\ \A d \in Callers \ {c} : StepsLeft(d)' = StepsLeft(d)
  <2>1. pc'[c] = p /\ \A d \in Callers \ {c} : pc'[d] = pc[d]
    BY <1>2 DEF Inductive, TypeOK
  <2>2. StepsLeft(c)' < StepsLeft(c)
    BY <1>1, <1>2, <2>1 DEF StepsLeft
  <2>3. \A d \in Callers \ {c} : StepsLeft(d)' = StepsLeft(d)
    BY <1>2, <2>1 DEF StepsLeft
  <2> QED BY <2>2, <2>3
<1>3. CASE GetAndModify(c)
  <2>1. pc[c] = "try" /\ pc' = [pc EXCEPT ![c] = "update"] /\ tries' = tries
    BY <1>3 DEF GetAndModify
  <2>2. pc'[c] = "update" /\ \A d \in Callers \ {c} : pc'[d] = pc[d]
    BY <2>1 DEF Inductive, TypeOK
  <2>3. StepsLeft(c)' < StepsLeft(c)
    BY <1>1, <2>1, <2>2 DEF StepsLeft
  <2>4. \A d \in Callers \ {c} : StepsLeft(d)' = StepsLeft(d)
    BY <2>1, <2>2 DEF StepsLeft
  <2> QED BY <2>3, <2>4
<1>4. CASE NotFound(c)
  BY <1>2, <1>4 DEF NotFound
<1>5. CASE Update(c)
  BY <1>2, <1>5 DEF Update, Store
<1>6. CASE UpdateRefused(c)
  BY <1>6, RetryCountsDown DEF UpdateRefused
<1>7. CASE Fail(c)
  BY <1>7, RetryCountsDown DEF Fail
<1>8. CASE LoseAnswer(c)
  BY <1>8, RetryCountsDown DEF LoseAnswer, Store
<1> QED BY <1>3, <1>4, <1>5, <1>6, <1>7, <1>8 DEF Step

LEMMA StepsLeftType ==
  ASSUME Inductive, NEW c \in Callers
  PROVE  StepsLeft(c) \in 0 .. 2 * MaxTries
<1>1. tries[c] \in 0 .. MaxTries /\ (pc[c] \in {"try", "update"} => tries[c] < MaxTries)
  BY DEF Inductive, TypeOK, TriesLeft
<1>2. pc[c] \in {"try", "update", "done", "failed"}
  BY DEF Inductive, TypeOK
<1> QED BY <1>1, <1>2, BoundsAssumption DEF StepsLeft

LEMMA CountsDownStep ==
  ASSUME Inductive, [Next]_vars, NEW c \in Callers
  PROVE  /\ StepsLeft(c) \in 0 .. 2 * MaxTries
         /\ \/ StepsLeft(c)' < StepsLeft(c)
            \/ StepsLeft(c)' = StepsLeft(c) /\ ~Step(c)
<1>1. StepsLeft(c) \in 0 .. 2 * MaxTries
  BY StepsLeftType
<1>2. CASE Step(c) \/ Fail(c) \/ LoseAnswer(c)
  BY <1>1, <1>2, CallStep
<1>3. ASSUME ~Step(c),
             \/ \E d \in Callers \ {c} : Step(d) \/ Fail(d) \/ LoseAnswer(d)
             \/ Touch \/ ComeOrGo \/ UNCHANGED vars
      PROVE  StepsLeft(c)' = StepsLeft(c)
  <2>1. ASSUME NEW d \in Callers \ {c}, Step(d) \/ Fail(d) \/ LoseAnswer(d)
        PROVE  StepsLeft(c)' = StepsLeft(c)
    BY <2>1, CallStep
  <2>2. ASSUME Touch \/ ComeOrGo \/ UNCHANGED vars PROVE StepsLeft(c)' = StepsLeft(c)
    BY <2>2 DEF Touch, ComeOrGo, vars, StepsLeft
  <2> QED BY <1>3, <2>1, <2>2
<1> QED BY <1>1, <1>2, <1>3 DEF Next

\* A call makes at most two steps for every try the back-off allows: each step of
\* its own, and each failure of one, brings its end nearer, and nothing that other
\* calls or programs do to the object puts it off.
THEOREM CallsCountDown ==
  Spec => [][\A c \in Callers :
               /\ StepsLeft(c) \in 0 .. 2 * MaxTries
               /\ \/ StepsLeft(c)' < StepsLeft(c)
                  \/ StepsLeft(c)' = StepsLeft(c) /\ ~Step(c)]_vars
<1>1. Inductive /\ [Next]_vars =>
        [\A c \in Callers :
           /\ StepsLeft(c) \in 0 .. 2 * MaxTries
           /\ \/ StepsLeft(c)' < StepsLeft(c)
              \/ StepsLeft(c)' = StepsLeft(c) /\ ~Step(c)]_vars
  BY CountsDownStep
<1> QED BY ModifyInvariance, <1>1, PTL DEF Spec

=============================================================================
