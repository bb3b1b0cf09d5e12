-------------------------- MODULE MCConfigSource --------------------------
(***************************************************************************)
(* ConfigSource with three tags of major 1 and one of major 10, a branch   *)
(* and a branch spelled like a tag.                                        *)
(***************************************************************************)
EXTENDS ConfigSource

CONSTANT main

V(x, y, form) == [major |-> x, minor |-> y, patch |-> 0, form |-> form]

\* Names in descending order, as GitHub lists them.
MCListing == << V(10, 0, "exact"), V(1, 9, "exact"), V(1, 2, "exact"),
                V(1, 10, "suffixed"), V(1, 10, "exact") >>
MCTags == {MCListing[i] : i \in DOMAIN MCListing}

\* Major 1 alone, with a tag that is no version and one that is printed back
\* under another name.
MCListingOne == << V(1, 9, "exact"), V(1, 2, "exact"), V(1, 11, "padded"),
                   V(1, 10, "suffixed"), V(1, 10, "exact") >>
MCTagsOne == {MCListingOne[i] : i \in DOMAIN MCListingOne}

MCBranches == {main, V(1, 10, "exact")}

MCInitial == {<<"tag", V(1, 2, "exact")>>, <<"branch", V(1, 10, "exact")>>}

\* Without any tag.
MCInitialBare == {<<"branch", V(1, 10, "exact")>>}

MCVersions ==
  { [form |-> "range",   major |-> 1, name |-> main],
    [form |-> "digits",  major |-> 1, name |-> main],
    [form |-> "vdigits", major |-> 1, name |-> V(1, 10, "exact")],
    [form |-> "word",    major |-> 1, name |-> main] }

=============================================================================
