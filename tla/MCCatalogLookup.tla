--------------------------- MODULE MCCatalogLookup ---------------------------
(***************************************************************************)
(* CatalogLookup for one App in two versions, in a catalog that is used    *)
(* and in the one that is refused.                                         *)
(***************************************************************************)
EXTENDS CatalogLookup, TLC

CONSTANTS c1, n1, n2, w1, w2, v1, v2

Listed(entries) == n1 :> entries @@ n2 :> << >>
With(w, a) == [version |-> w, annotation |-> a]

\* One version annotated and one not, both with the annotations swapped, a
\* version listed twice, an annotation left empty, an index without the App, and
\* an error page.
MCPages ==
  {Listed(<<With(w1, v1), With(w2, NoAnnotation)>>),
   Listed(<<With(w2, v2), With(w1, NoAnnotation), With(w1, v2)>>),
   Listed(<<With(w2, Blank)>>),
   Listed(<< >>),
   Garbage}

=============================================================================
