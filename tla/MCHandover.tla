----------------------------- MODULE MCHandover -----------------------------
(***************************************************************************)
(* Handover of a Config with two Apps between two versions.                *)
(***************************************************************************)
EXTENDS Handover, TLC

CONSTANTS a1, a2, n1, n2, v1

MCStableName ==
  CHOOSE f \in [Apps -> Names] : \A a, b \in Apps : f[a] = f[b] => a = b

\* One App has a config version, the other falls back to draughtsman.
MCHandoverInit == HandoverInit /\ catalog = (a1 :> v1 @@ a2 :> None)
MCHandoverSpec == MCHandoverInit /\ [][HandoverNext]_system /\ HandoverFairness

=============================================================================
