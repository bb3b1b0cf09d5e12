---------------------------- MODULE ModifyRetry ----------------------------
(***************************************************************************)
(* Service.Modify and ModifyStatus: get an object, change it, update it,   *)
(* and try again from the start when that fails.  Several callers change   *)
(* one object, each with a function that is not idempotent.                *)
(***************************************************************************)
EXTENDS Naturals

CONSTANTS
  Callers,        \* calls, one each
  StatusCallers,  \* those that called ModifyStatus
  MaxTries,       \* tries the back-off allows
  MaxEvents       \* bound on failures and on what others do

ASSUME CallersAssumption == StatusCallers \subseteq Callers

ASSUME BoundsAssumption == MaxTries \in Nat \ {0} /\ MaxEvents \in Nat

VARIABLES
  present,  \* the object exists
  marks,    \* how often it holds the change of each caller
  pc, tries,
  copy,     \* what obj points to
  fresh,    \* its resourceVersion is the stored one
  lost,     \* updates made whose answer was lost
  events

object == <<present, marks>>
calls  == <<pc, tries, copy, lost>>
vars   == <<object, calls, fresh, events>>

NoMarks == [c \in Callers |-> 0]
Stale   == [c \in Callers |-> FALSE]

Init ==
  /\ present = TRUE
  /\ marks = NoMarks
  /\ pc = [c \in Callers |-> "try"]
  /\ tries = [c \in Callers |-> 0]
  /\ copy = [c \in Callers |-> NoMarks]
  /\ fresh = Stale
  /\ lost = [c \in Callers |-> 0]
  /\ events = 0

\* One more try, if the back-off has any left.
RetryOnceMore(c) ==
  /\ tries' = [tries EXCEPT ![c] = @ + 1]
  /\ pc' = [pc EXCEPT ![c] = IF tries[c] <= MaxTries THEN "try" ELSE "failed"]
Retry(c) ==
  /\ tries' = [tries EXCEPT ![c] = @ + 1]
  /\ pc' = [pc EXCEPT ![c] = IF tries[c] + 1 < MaxTries THEN "try" ELSE "failed"]

\* Get fills in the fields the stored object has; obj was zeroed before.
ReadOver(c) == [d \in Callers |-> IF marks[d] = 0 THEN copy[c][d] ELSE marks[d]]
Read(c) == marks

\* Get, then modifyFunc.
GetAndModify(c) ==
  /\ pc[c] = "try"
  /\ present
  /\ copy' = [copy EXCEPT ![c] = [Read(c) EXCEPT ![c] = @ + 1]]
  /\ fresh' = [fresh EXCEPT ![c] = TRUE]
  /\ pc' = [pc EXCEPT ![c] = "update"]
  /\ UNCHANGED <<object, tries, lost, events>>

\* A permanent error: not retried, whatever the back-off allows.
NotFoundRetried(c) ==
  /\ pc[c] = "try"
  /\ ~present
  /\ UNCHANGED vars
NotFound(c) ==
  /\ pc[c] = "try"
  /\ ~present
  /\ pc' = [pc EXCEPT ![c] = "failed"]
  /\ UNCHANGED <<object, tries, copy, fresh, lost, events>>

\* The API server refuses an update from a copy that is not the stored object.
AcceptsAny(c) == present
Accepts(c) == present /\ fresh[c]

\* Update leaves the status alone, and Status().Update all else.
Written(c) ==
  {d \in Callers : (d \in StatusCallers) = (c \in StatusCallers)}

Store(c) ==
  /\ pc[c] = "update"
  /\ Accepts(c)
  /\ marks' = [d \in Callers |-> IF d \in Written(c) THEN copy[c][d] ELSE marks[d]]
  /\ fresh' = Stale
  /\ UNCHANGED <<present, copy>>

Update(c) ==
  /\ Store(c)
  /\ pc' = [pc EXCEPT ![c] = "done"]
  /\ UNCHANGED <<tries, lost, events>>

UpdateRefused(c) ==
  /\ pc[c] = "update"
  /\ ~Accepts(c)
  /\ Retry(c)
  /\ UNCHANGED <<object, copy, fresh, lost, events>>

Step(c) == GetAndModify(c) \/ NotFound(c) \/ Update(c) \/ UpdateRefused(c)

-----------------------------------------------------------------------------
(* The environment *)

Happens == events < MaxEvents /\ events' = events + 1

\* Get, modifyFunc or Update fails.
Fail(c) ==
  /\ Happens
  /\ pc[c] \in {"try", "update"}
  /\ Retry(c)
  /\ UNCHANGED <<object, copy, fresh, lost>>

\* Update fails after the object was stored.
LoseAnswer(c) ==
  /\ Happens
  /\ Store(c)
  /\ Retry(c)
  /\ lost' = [lost EXCEPT ![c] = @ + 1]

\* Another program writes to the object.
Touch ==
  /\ Happens
  /\ present
  /\ fresh' = Stale
  /\ UNCHANGED <<object, calls>>

\* The object is removed, or created anew.
ComeOrGo ==
  /\ Happens
  /\ present' = ~present
  /\ marks' = NoMarks
  /\ fresh' = Stale
  /\ UNCHANGED calls

Next ==
  \/ \E c \in Callers : Step(c) \/ Fail(c) \/ LoseAnswer(c)
  \/ Touch \/ ComeOrGo

\* Every call runs on.
Spec == Init /\ [][Next]_vars /\ \A c \in Callers : WF_vars(Step(c))

-----------------------------------------------------------------------------
(* Properties *)

\* Every variable keeps its type.
TypeOK ==
  /\ present \in BOOLEAN
  /\ marks \in [Callers -> Nat]
  /\ pc \in [Callers -> {"try", "update", "done", "failed"}]
  /\ tries \in [Callers -> 0 .. MaxTries]
  /\ copy \in [Callers -> [Callers -> Nat]]
  /\ fresh \in [Callers -> BOOLEAN]
  /\ lost \in [Callers -> Nat]
  /\ events \in 0 .. MaxEvents

Outcome == [c \in Callers |-> IF pc[c] \in {"done", "failed"} THEN pc[c] ELSE "running"]

Atomic == INSTANCE AtomicModify WITH outcome <- Outcome

\* However the calls interleave, each change is made to the object as it is at
\* that moment, and no change of another caller to the same object is undone.
ModifiesAtomically == Atomic!Spec

\* Although modifyFunc is called on every try, a change is in the object more
\* than once only if the answer to an update that was made got lost.
ChangedOnce == \A c \in Callers : marks[c] <= lost[c] + 1

\* The inductive invariant: an update that will be accepted stores the object
\* as it is and one change, and a call that runs on has tries left and has
\* made no other change than those whose answer was lost.
CopyIsCurrent ==
  \A c \in Callers : pc[c] = "update" /\ fresh[c] =>
    present /\ copy[c] = [marks EXCEPT ![c] = @ + 1]

TriesLeft == \A c \in Callers : pc[c] \in {"try", "update"} => tries[c] < MaxTries

ChangesCounted ==
  \A c \in Callers : marks[c] <= lost[c] + IF pc[c] = "done" THEN 1 ELSE 0

Inductive == TypeOK /\ CopyIsCurrent /\ TriesLeft /\ ChangesCounted

\* Every call ends.
CallsEnd == \A c \in Callers : <>(pc[c] \in {"done", "failed"})

=============================================================================
