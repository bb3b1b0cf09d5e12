--------------------------- MODULE ObjectLedger ---------------------------
(***************************************************************************)
(* What the Config CR promises about the objects made for it: .status and  *)
(* the previous-config annotation are a ledger of names, and a name is     *)
(* struck off only when no object of that name is left.  Objects may come  *)
(* into being before they are entered and may vanish at any time.          *)
(***************************************************************************)
CONSTANT Names

VARIABLES
  tracked,  \* names the ledger holds
  present   \* names for which a ConfigMap or a Secret exists

vars == <<tracked, present>>

Init ==
  /\ tracked = {}
  /\ present \subseteq Names

Appear(n) ==
  /\ present' = present \cup {n}
  /\ UNCHANGED tracked

Vanish(n) ==
  /\ present' = present \ {n}
  /\ UNCHANGED tracked

Enter(n) ==
  /\ tracked' = tracked \cup {n}
  /\ UNCHANGED present

StrikeOff(gone) ==
  /\ gone \cap present = {}
  /\ tracked' = tracked \ gone
  /\ UNCHANGED present

Next ==
  \/ \E n \in Names : Appear(n) \/ Vanish(n) \/ Enter(n)
  \/ \E gone \in SUBSET tracked : StrikeOff(gone)

Spec == Init /\ [][Next]_vars

=============================================================================
