------------------------------ MODULE MCLinter ------------------------------
(***************************************************************************)
(* LintReport, and with it Linter and ConfigGenerator, on repositories with *)
(* two Apps and two installations.                                         *)
(***************************************************************************)
EXTENDS LintReport, TLC

CONSTANTS i1, i2, a1, a2, p1, p2, r, t1, t2, n1

Plain(x) == [text |-> x, sealed |-> FALSE]
Sealed(x) == [text |-> x, sealed |-> TRUE]
Ref(x) == [kind |-> "ref", of |-> x, field |-> None, when |-> None]
Each(x, p) == [kind |-> "ref", of |-> x, field |-> p, when |-> None]
Says(v) == [kind |-> "value", of |-> v, when |-> None]
Include(x) == [kind |-> "include", of |-> x, when |-> None]
If(x, line) == [line EXCEPT !.when = x]

\* Each installation overrides one value, for i2 with the same one; a2 has what
\* the include file makes of p1, and nothing reads p2 but a1.
Both ==
  [config         |-> p1 :> Plain(t1) @@ p2 :> Plain(t1),
   patch          |-> i1 :> (p2 :> Plain(t2)) @@ i2 :> (p2 :> Plain(t1)),
   secret         |-> i1 :> (p1 :> Sealed(t1)) @@ i2 :> (p1 :> Sealed(t2) @@ p2 :> Sealed(t1)),
   template       |-> a1 :> (p1 :> Ref(p2)) @@ a2 :> (p2 :> Include(n1)),
   templatePatch  |-> [x \in Installations |-> [y \in Apps |->
                         IF x = i2 /\ y = a1 THEN p1 :> Ref(p1) ELSE None]],
   secretTemplate |-> a1 :> (p1 :> Ref(p1)) @@ a2 :> (p2 :> Says(Sealed(t1))),
   secretPatch    |-> [x \in Installations |-> [y \in Apps |->
                         IF x = i2 THEN p2 :> If(p1, Says(Sealed(t2))) ELSE None]],
   include        |-> n1 :> [refs |-> {p1}, includes |-> {}]]

\* Patches alone, without a default for what is below r, which a2 looks at where p1
\* holds, and no include file.
Sparse ==
  [config         |-> p1 :> Plain(t1),
   patch          |-> i1 :> (p1 :> Plain(t2) @@ p2 :> Plain(t2)) @@ i2 :> (p1 :> Plain(t1)),
   secret         |-> [x \in Installations |-> Empty],
   template       |-> a1 :> (p1 :> Ref(p1)) @@ a2 :> (p1 :> If(p1, Ref(r))),
   templatePatch  |-> [x \in Installations |-> [y \in Apps |->
                         IF x = i1 /\ y = a2 THEN p2 :> Ref(p2) ELSE None]],
   secretTemplate |-> [x \in Apps |-> IF x = a1 THEN Empty ELSE None],
   secretPatch    |-> [x \in Installations |-> [y \in Apps |-> None]],
   include        |-> [x \in Includes |-> None]]

\* Nothing to report but that a1 alone uses the secrets.
Clean ==
  [config         |-> p1 :> Plain(t1),
   patch          |-> [x \in Installations |-> p2 :> Plain(t2)],
   secret         |-> [x \in Installations |-> p1 :> Sealed(t1)],
   template       |-> a1 :> (p1 :> Ref(p1) @@ p2 :> Ref(p2)) @@ a2 :> (p1 :> Ref(p1)),
   templatePatch  |-> [x \in Installations |-> [y \in Apps |->
                         IF x = i1 /\ y = a1 THEN p1 :> Include(n1) ELSE None]],
   secretTemplate |-> a1 :> (p1 :> Ref(p1)) @@ a2 :> Empty,
   secretPatch    |-> [x \in Installations |-> [y \in Apps |->
                         IF y = a1 THEN p2 :> Says(Sealed(t2)) ELSE None]],
   include        |-> n1 :> [refs |-> {p1}, includes |-> {}]]

\* Everything; only errors, and the first of them; the functions that matter to
\* generation, with two messages; and all of it but for a path.
MCOptions ==
  {[functions |-> {}, onlyErrors |-> FALSE, maxMessages |-> 0, skipped |-> {}],
   [functions |-> {}, onlyErrors |-> TRUE, maxMessages |-> 1, skipped |-> {}],
   [functions |-> Needed, onlyErrors |-> FALSE, maxMessages |-> 2, skipped |-> {}],
   [functions |-> {}, onlyErrors |-> TRUE, maxMessages |-> 50, skipped |-> {p2}]}

MCInstallations == {i1, i2}
MCApps == {a1, a2}
MCPaths == {p1, p2}
MCUnder == r :> {p2}
MCLines ==
  {Says(Plain(t1)), Says(Sealed(t1)), If(p2, Says(Sealed(t1))),
   Ref(p1), Ref(p2), Ref(r), Each(r, p1), If(p1, Ref(p2)), If(r, Ref(p1)),
   Include(n1), If(p1, Include(n1))}
MCInitialFiles == {Both, Sparse, Clean}

=============================================================================
