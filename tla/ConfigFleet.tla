---------------------------- MODULE ConfigFleet ----------------------------
(***************************************************************************)
(* Two Configs of one namespace and the one worker that reconciles them.   *)
(* The worker takes the Configs from a queue and finishes a loop before it *)
(* begins another, but loops that failed leave the work half done.  The    *)
(* Configs read one catalog and one source, and they share the ConfigMaps  *)
(* and Secrets of the namespace: when their names agree in the part that   *)
(* genStableObjectName keeps, they use the same ones.                      *)
(*                                                                         *)
(* The variables of ConfigReconciler are those of one Config, the ones     *)
(* with a 2 those of the other; what is not doubled is shared.             *)
(***************************************************************************)
EXTENDS ConfigReconciler

CONSTANT StableName2  \* genStableObjectName for the other Config

ASSUME Names2Assumption ==
  /\ StableName2 \in [Apps -> Names]
  /\ \A a, b \in Apps : StableName2[a] = StableName2[b] => a = b

VARIABLES phase2, config2, pc2, local2, fresh2, version2, name2, kind2,
          rendered2, found2, pass2, todo2, asked2

own  == <<phase, config, pc, local, fresh, version, name, kind, rendered, found,
          pass, todo, asked>>
own2 == <<phase2, config2, pc2, local2, fresh2, version2, name2, kind2, rendered2,
          found2, pass2, todo2, asked2>>
fleet == <<own, own2, objects, catalog, upstream, events>>

Other == INSTANCE ConfigReconciler WITH
  StableName <- StableName2, phase <- phase2, config <- config2, pc <- pc2,
  local <- local2, fresh <- fresh2, version <- version2, name <- name2,
  kind <- kind2, rendered <- rendered2, found <- found2, pass <- pass2,
  todo <- todo2, asked <- asked2

FleetInit == Init /\ Other!Init

\* A worker that begins with a Config before it is through with another.
MayInterleave(otherPc) == TRUE
\* operatorkit runs one loop at a time.
MayStep(otherPc) == otherPc = "idle"

ThisLoop  == MayStep(pc2) /\ Worker /\ UNCHANGED own2
OtherLoop == MayStep(pc) /\ Other!Worker /\ UNCHANGED own

\* What happens to the catalog, the source and the objects happens to both.
ThisEvent == Environment /\ UNCHANGED own2
OtherEvent ==
  /\ \/ \E a \in Apps : Other!CreateConfig(a) \/ Other!EditSpec(a)
     \/ Other!DeleteConfig
     \/ Other!Fail
  /\ UNCHANGED own

FleetNext == ThisLoop \/ OtherLoop \/ ThisEvent \/ OtherEvent

\* The queue is first in, first out and every Config is in it again after each
\* resync period, so neither keeps the worker from the other.
FleetFairness == SF_fleet(ThisLoop) /\ SF_fleet(OtherLoop)

FleetSpec == FleetInit /\ [][FleetNext]_fleet /\ FleetFairness

-----------------------------------------------------------------------------
(* Properties *)

\* One loop at a time, and for each Config what ConfigReconciler rests on:
\* a loop of one never finds that the other has written to the objects it is
\* at.
FleetInductive ==
  /\ Inductive /\ Other!Inductive
  /\ pc = "idle" \/ pc2 = "idle"

\* Both Configs together are a ledger of the objects of the namespace.  One
\* may forget a name that the other still knows of, but a name that neither
\* knows of any more has no object, also when the two share it.
Shared == INSTANCE ObjectLedger WITH
  tracked <- Tracked \cup Other!Tracked, present <- Present

FleetKeepsLedger == Shared!Spec

\* Configs that share objects delete them under each other when one moves to
\* another App or is deleted (create.go:186-191, delete.go:40-45).  Still each
\* of them reaches and keeps the configuration its App calls for.
FleetConverges == Converges /\ Other!Converges

\* And each of them can be deleted, whichever objects the other has deleted.
FleetDeletes == DeletionCompletes /\ Other!DeletionCompletes

=============================================================================
