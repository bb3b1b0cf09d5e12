------------------------ MODULE MCConfigReconciler ------------------------
(***************************************************************************)
(* ConfigReconciler on small instances: two or three Apps a Config is      *)
(* moved between, one or two config versions.                              *)
(***************************************************************************)
EXTENDS ConfigReconciler

CONSTANTS a1, a2, a3, n1, n2, n3, v1, v2

\* genStableObjectName gives every App a name of its own.
MCStableName ==
  CHOOSE f \in [Apps -> Names] : \A a, b \in Apps : f[a] = f[b] => a = b

=============================================================================
