--------------------------- MODULE MCConfigFleet ---------------------------
(***************************************************************************)
(* ConfigFleet for two Configs whose names differ only after the cut.      *)
(* Names are short here: four characters, two of them the digest and the   *)
(* dash, so that two are kept.                                             *)
(***************************************************************************)
EXTENDS ConfigFleet, StableNames, TLC

CONSTANTS a1, a2, v1, x, y, z, dash, dot

MCDigest == a1 :> <<x>> @@ a2 :> <<y>>

ConfigName  == <<x, y, y>>
ConfigName2 == <<x, y, dot, z>>

MCStableName  == [a \in Apps |-> genStableObjectName(ConfigName, a)]
MCStableName2 == [a \in Apps |-> genStableObjectName(ConfigName2, a)]
MCNames == {MCStableName[a] : a \in Apps} \cup {MCStableName2[a] : a \in Apps}

\* One App has a config version, the other falls back to draughtsman.
MCFleetInit == FleetInit /\ catalog = (a1 :> v1 @@ a2 :> None)
MCFleetSpec == MCFleetInit /\ [][FleetNext]_fleet /\ FleetFairness

=============================================================================
