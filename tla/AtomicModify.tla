--------------------------- MODULE AtomicModify ---------------------------
(***************************************************************************)
(* What Modify and ModifyStatus promise their callers: a change is made to *)
(* the object as it is at that moment and leaves the changes of others     *)
(* alone, and who is told "done" has made one.  Somebody who has not been  *)
(* told anything yet may have made one too, or several.                    *)
(***************************************************************************)
EXTENDS Naturals

CONSTANT Callers

VARIABLES present, marks, outcome

vars == <<present, marks, outcome>>

Init ==
  /\ present = TRUE
  /\ marks = [c \in Callers |-> 0]
  /\ outcome = [c \in Callers |-> "running"]

Apply(c) ==
  /\ outcome[c] = "running"
  /\ present
  /\ marks' = [marks EXCEPT ![c] = @ + 1]
  /\ outcome' \in {outcome, [outcome EXCEPT ![c] = "done"],
                   [outcome EXCEPT ![c] = "failed"]}
  /\ UNCHANGED present

GiveUp(c) ==
  /\ outcome[c] = "running"
  /\ outcome' = [outcome EXCEPT ![c] = "failed"]
  /\ UNCHANGED <<present, marks>>

ComeOrGo ==
  /\ present' = ~present
  /\ marks' = [c \in Callers |-> 0]
  /\ UNCHANGED outcome

Next == (\E c \in Callers : Apply(c) \/ GiveUp(c)) \/ ComeOrGo

Spec == Init /\ [][Next]_vars

=============================================================================
