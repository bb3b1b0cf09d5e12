------------------------- MODULE ConfigFleetProofs -------------------------
(***************************************************************************)
(* Two Configs under one worker keep what one Config keeps, and together   *)
(* they implement ObjectLedger, whether or not they share names.  What     *)
(* ConfigReconcilerProofs shows of a step is used twice: as it stands for  *)
(* one Config, and instantiated for the other; a lemma shows that a step   *)
(* of one leaves the invariant of the other alone.                         *)
(***************************************************************************)
EXTENDS ConfigFleet, ConfigReconcilerProofs

OtherProofs == INSTANCE ConfigReconcilerProofs WITH
  StableName <- StableName2, phase <- phase2, config <- config2, pc <- pc2,
  local <- local2, fresh <- fresh2, version <- version2, name <- name2,
  kind <- kind2, rendered <- rendered2, found <- found2, pass <- pass2,
  todo <- todo2, asked <- asked2

USE DEF Kinds, stored, world, locals

-----------------------------------------------------------------------------
(* Other and OtherProofs are instances of the same definitions *)

LEMMA SameInductive == Other!Inductive <=> OtherProofs!Inductive
BY DEF Other!stored, OtherProofs!stored, Other!world, OtherProofs!world,
       Other!locals, OtherProofs!locals, Other!Kinds, OtherProofs!Kinds,
       Other!Refs, OtherProofs!Refs, Other!Status, OtherProofs!Status,
       Other!NoStatus, OtherProofs!NoStatus, Other!ConfigCR,
       OtherProofs!ConfigCR, Other!NewConfig, OtherProofs!NewConfig,
       Other!Content, OtherProofs!Content, Other!Object, OtherProofs!Object,
       Other!Wanted, OtherProofs!Wanted,
       Other!Hashed, OtherProofs!Hashed, Other!UpToDate,
       OtherProofs!UpToDate, Other!Pair, OtherProofs!Pair, Other!Current,
       OtherProofs!Current, Other!Orphaned, OtherProofs!Orphaned,
       Other!Clean, OtherProofs!Clean, Other!TypeOK, OtherProofs!TypeOK,
       Other!SpecIsUsers, OtherProofs!SpecIsUsers, Other!Tracked,
       OtherProofs!Tracked, Other!LoopHasFinalizer,
       OtherProofs!LoopHasFinalizer, Other!UntrackedUntilAdopted,
       OtherProofs!UntrackedUntilAdopted, Other!CopyIsStored,
       OtherProofs!CopyIsStored, Other!LoopComputed,
       OtherProofs!LoopComputed, Other!InTodo, OtherProofs!InTodo,
       Other!TodoIsOrphans, OtherProofs!TodoIsOrphans, Other!Ensured,
       OtherProofs!Ensured, Other!LoopEnsured, OtherProofs!LoopEnsured,
       Other!Inductive, OtherProofs!Inductive

LEMMA SameTracked == Other!Tracked = OtherProofs!Tracked
BY DEF Other!Tracked, OtherProofs!Tracked

LEMMA SameNext == Other!Next <=> OtherProofs!Next
BY DEF Other!stored, OtherProofs!stored, Other!world, OtherProofs!world,
       Other!locals, OtherProofs!locals, Other!Kinds, OtherProofs!Kinds,
       Other!Refs, OtherProofs!Refs, Other!Status, OtherProofs!Status,
       Other!NoStatus, OtherProofs!NoStatus, Other!ConfigCR,
       OtherProofs!ConfigCR, Other!NewConfig, OtherProofs!NewConfig,
       Other!Content, OtherProofs!Content, Other!Object, OtherProofs!Object,
       Other!Wanted, OtherProofs!Wanted,
       Other!Hashed, OtherProofs!Hashed, Other!UpToDate,
       OtherProofs!UpToDate, Other!Pair, OtherProofs!Pair, Other!Current,
       OtherProofs!Current, Other!Orphaned, OtherProofs!Orphaned,
       Other!Clean, OtherProofs!Clean, Other!Abandon, OtherProofs!Abandon,
       Other!AddFinalizer, OtherProofs!AddFinalizer, Other!StartLoop,
       OtherProofs!StartLoop, Other!StartPurge, OtherProofs!StartPurge,
       Other!RemoveFinalizer, OtherProofs!RemoveFinalizer,
       Other!ResolveVersion, OtherProofs!ResolveVersion, Other!ResolveFails,
       OtherProofs!ResolveFails, Other!Rendering, OtherProofs!Rendering,
       Other!Generate, OtherProofs!Generate, Other!CopyFromDraughtsman,
       OtherProofs!CopyFromDraughtsman, Other!NextObject,
       OtherProofs!NextObject, Other!GetObject, OtherProofs!GetObject,
       Other!PutObject, OtherProofs!PutObject, Other!CreateObject,
       OtherProofs!CreateObject, Other!UpdateObject,
       OtherProofs!UpdateObject, Other!WriteFails, OtherProofs!WriteFails,
       Other!Refetch, OtherProofs!Refetch, Other!DeleteNext,
       OtherProofs!DeleteNext, Other!Conflict, OtherProofs!Conflict,
       Other!Annotate, OtherProofs!Annotate, Other!DesiredStatus,
       OtherProofs!DesiredStatus, Other!UpdateStatus,
       OtherProofs!UpdateStatus, Other!ConfigConflict,
       OtherProofs!ConfigConflict, Other!Finish, OtherProofs!Finish,
       Other!Worker, OtherProofs!Worker, Other!Happens, OtherProofs!Happens,
       Other!CreateConfig, OtherProofs!CreateConfig, Other!EditSpec,
       OtherProofs!EditSpec, Other!DeleteConfig, OtherProofs!DeleteConfig,
       Other!ChangeCatalog, OtherProofs!ChangeCatalog, Other!PushUpstream,
       OtherProofs!PushUpstream, Other!RemoveObject,
       OtherProofs!RemoveObject, Other!EditObject,
       OtherProofs!EditObject, Other!Fail, OtherProofs!Fail,
       Other!Environment, OtherProofs!Environment, Other!Next,
       OtherProofs!Next

LEMMA SameInit == Other!Init <=> OtherProofs!Init
BY DEF Other!Init, OtherProofs!Init, Other!Kinds, OtherProofs!Kinds,
       Other!NewConfig, OtherProofs!NewConfig, Other!NoStatus, OtherProofs!NoStatus

\* OtherProofs makes the assumptions of ConfigReconciler about its constants.
LEMMA OtherInit == Other!Init => Other!Inductive
<1>1. OtherProofs!Init => OtherProofs!Inductive
  BY OtherProofs!InitInductive, Names2Assumption, ProjectAssumption, BoundAssumption,
     SentinelAssumption DEF Object, Content, OtherProofs!Object, OtherProofs!Content
<1> QED BY <1>1, SameInit, SameInductive

LEMMA OtherNext == Other!Inductive /\ Other!Next => Other!Inductive'
<1>1. OtherProofs!Inductive /\ OtherProofs!Next => OtherProofs!Inductive'
  BY OtherProofs!NextInductive, Names2Assumption, ProjectAssumption, BoundAssumption,
     SentinelAssumption DEF Object, Content, OtherProofs!Object, OtherProofs!Content
<1>2. Other!Inductive' <=> OtherProofs!Inductive'
  BY SameInductive, PTL
<1> QED BY <1>1, <1>2, SameNext, SameInductive

-----------------------------------------------------------------------------
(* The invariant *)

\* A step beside the loops of the other Config.
LEMMA OtherKept ==
  ASSUME Other!Inductive, TypeOK', UNCHANGED own2, pc2 = "idle" \/ UNCHANGED objects
  PROVE  Other!Inductive'
<1> USE DEF Object, Content, OtherProofs!Object, OtherProofs!Content, OtherProofs!Kinds
<1>0. /\ objects' \in [OtherProofs!Kinds -> [Names -> OtherProofs!Object \cup {None}]]
      /\ catalog' \in [Apps -> Versions \cup {None, Unknown}]
      /\ upstream' \in [OtherProofs!Kinds -> Nat]
      /\ events' \in Nat
  BY DEF TypeOK
<1>a. UNCHANGED <<phase2, config2, pc2, OtherProofs!locals, asked2>>
  BY DEF own2, OtherProofs!locals
<1>1. OtherProofs!Inductive => OtherProofs!Inductive'
  BY <1>0, <1>a, OtherProofs!OthersStep, Names2Assumption, ProjectAssumption,
     BoundAssumption, SentinelAssumption
<1>2. Other!Inductive' <=> OtherProofs!Inductive'
  BY SameInductive, PTL
<1> QED BY <1>1, <1>2, SameInductive

LEMMA ThisKept ==
  ASSUME Inductive, Other!TypeOK', UNCHANGED own, pc = "idle" \/ UNCHANGED objects
  PROVE  Inductive'
<1>1. /\ objects' \in [Kinds -> [Names -> Object \cup {None}]]
      /\ catalog' \in [Apps -> Versions \cup {None, Unknown}]
      /\ upstream' \in [Kinds -> Nat]
      /\ events' \in Nat
  BY DEF Other!TypeOK, Other!Kinds, Object, Content, Other!Object, Other!Content
<1>2. UNCHANGED <<phase, config, pc, locals, asked>>
  BY DEF own
<1> QED BY <1>1, <1>2, OthersStep

LEMMA FleetStep ==
  ASSUME FleetInductive, FleetNext
  PROVE  FleetInductive'
<1> USE DEF FleetInductive
<1>1. CASE ThisLoop
  <2>1. Inductive' /\ TypeOK'
    BY <1>1, NextInductive DEF ThisLoop, Next, Inductive
  <2>2. Other!Inductive' /\ pc2' = "idle"
    BY <1>1, <2>1, OtherKept DEF ThisLoop, MayStep, own2
  <2> QED BY <2>1, <2>2
<1>2. CASE OtherLoop
  <2>1. Other!Inductive' /\ Other!TypeOK'
    BY <1>2, OtherNext DEF OtherLoop, Other!Next, Other!Inductive
  <2>2. Inductive' /\ pc' = "idle"
    BY <1>2, <2>1, ThisKept DEF OtherLoop, MayStep, own
  <2> QED BY <2>1, <2>2
<1>3. CASE ThisEvent
  <2>1. Inductive' /\ TypeOK'
    BY <1>3, NextInductive DEF ThisEvent, Next, Inductive
  <2>2. pc' \in {pc, "idle"} /\ pc2' = pc2
    BY <1>3 DEF ThisEvent, own2, Environment, CreateConfig, EditSpec, DeleteConfig,
                ChangeCatalog, PushUpstream, RemoveObject, EditObject, Fail, Abandon
  <2>3. CASE UNCHANGED objects
    BY <1>3, <2>1, <2>2, <2>3, OtherKept DEF ThisEvent
  <2>4. ASSUME NEW k \in Kinds, NEW n \in Names, RemoveObject(k, n)
        PROVE  Other!Inductive'
    <3>1. Other!RemoveObject(k, n)
      BY <1>3, <2>4 DEF ThisEvent, own2, RemoveObject, Other!RemoveObject, Happens,
                        Other!Happens, Other!world, Other!locals
    <3>2. Other!Next
      BY <2>4, <3>1 DEF Other!Next, Other!Environment, Other!Kinds
    <3> QED BY <3>2, OtherNext
  <2>5. ASSUME NEW k \in Kinds, NEW n \in Names, EditObject(k, n)
        PROVE  Other!Inductive'
    <3>1. Other!EditObject(k, n)
      BY <1>3, <2>5 DEF ThisEvent, own2, EditObject, Other!EditObject, Happens,
                        Other!Happens, Other!world, Other!locals
    <3>2. Other!Next
      BY <2>5, <3>1 DEF Other!Next, Other!Environment, Other!Kinds
    <3> QED BY <3>2, OtherNext
  <2>6. UNCHANGED objects \/ \E k \in Kinds, n \in Names : RemoveObject(k, n) \/ EditObject(k, n)
    BY <1>3 DEF ThisEvent, Environment, CreateConfig, EditSpec, DeleteConfig,
                ChangeCatalog, PushUpstream, Fail
  <2> QED BY <2>1, <2>2, <2>3, <2>4, <2>5, <2>6
<1>4. CASE OtherEvent
  <2>1. Other!Next
    BY <1>4 DEF OtherEvent, Other!Next, Other!Environment
  <2>2. Other!Inductive' /\ Other!TypeOK'
    BY <2>1, OtherNext DEF Other!Inductive
  <2>3. UNCHANGED objects /\ pc2' \in {pc2, "idle"} /\ pc' = pc
    BY <1>4 DEF OtherEvent, own, Other!CreateConfig, Other!EditSpec,
                Other!DeleteConfig, Other!Fail, Other!Abandon, Other!stored, Other!locals
  <2> QED BY <1>4, <2>2, <2>3, ThisKept DEF OtherEvent
<1> QED BY <1>1, <1>2, <1>3, <1>4 DEF FleetNext

LEMMA FleetStutters ==
  ASSUME FleetInductive, UNCHANGED fleet
  PROVE  FleetInductive'
<1>1. Inductive'
  BY StutterInductive DEF FleetInductive, fleet, own, vars
<1>2. TypeOK'
  BY <1>1 DEF Inductive
<1> QED BY <1>1, <1>2, OtherKept DEF FleetInductive, fleet, own, own2

\* With one loop at a time each Config has the invariant it would have alone,
\* although the other writes and deletes the objects they share.
THEOREM FleetInvariance == FleetSpec => []FleetInductive
<1>1. FleetInit => FleetInductive
  BY InitInductive, OtherInit DEF FleetInit, FleetInductive, Init
<1>2. FleetInductive /\ [FleetNext]_fleet => FleetInductive'
  BY FleetStep, FleetStutters
<1> QED BY <1>1, <1>2, PTL DEF FleetSpec

-----------------------------------------------------------------------------
(* One ledger for both *)

\* What one Config enters or strikes off, the union enters, or strikes off
\* unless the other Config still holds it.
LEMMA UnionStep ==
  ASSUME [Ledger!Next]_(Ledger!vars), UNCHANGED Other!Tracked
  PROVE  [Shared!Next]_(Shared!vars)
<1> USE DEF Ledger!vars, Shared!vars
<1>1. ASSUME NEW n \in Names, Ledger!Appear(n) PROVE Shared!Next
  BY <1>1 DEF Ledger!Appear, Shared!Appear, Shared!Next
<1>2. ASSUME NEW n \in Names, Ledger!Vanish(n) PROVE Shared!Next
  BY <1>2 DEF Ledger!Vanish, Shared!Vanish, Shared!Next
<1>3. ASSUME NEW n \in Names, Ledger!Enter(n) PROVE Shared!Next
  <2>1. Shared!Enter(n)
    BY <1>3 DEF Ledger!Enter, Shared!Enter
  <2> QED BY <2>1 DEF Shared!Next
<1>4. ASSUME NEW gone \in SUBSET Tracked, Ledger!StrikeOff(gone) PROVE Shared!Next
  <2> DEFINE left == gone \ Other!Tracked
  <2>1. Shared!StrikeOff(left)
    BY <1>4 DEF Ledger!StrikeOff, Shared!StrikeOff
  <2>2. left \in SUBSET (Tracked \cup Other!Tracked)
    OBVIOUS
  <2> QED BY <2>1, <2>2 DEF Shared!Next
<1> QED BY <1>1, <1>2, <1>3, <1>4 DEF Ledger!Next

LEMMA OtherLedgerStep ==
  ASSUME Other!Inductive, Other!Next
  PROVE  [OtherProofs!Ledger!Next]_(OtherProofs!Ledger!vars)
<1>1. OtherProofs!Inductive /\ OtherProofs!Next
        => [OtherProofs!Ledger!Next]_(OtherProofs!Ledger!vars)
  BY OtherProofs!LedgerStep, Names2Assumption, ProjectAssumption, BoundAssumption,
     SentinelAssumption DEF Object, Content, OtherProofs!Object, OtherProofs!Content
<1> QED BY <1>1, SameInductive, SameNext

LEMMA OtherUnionStep ==
  ASSUME [OtherProofs!Ledger!Next]_(OtherProofs!Ledger!vars), UNCHANGED Tracked
  PROVE  [Shared!Next]_(Shared!vars)
<1>0. /\ OtherProofs!Present = Present /\ OtherProofs!Present' = Present'
      /\ OtherProofs!Tracked = Other!Tracked /\ OtherProofs!Tracked' = Other!Tracked'
  BY DEF OtherProofs!Present, Present, OtherProofs!Kinds, OtherProofs!Tracked, Other!Tracked
<1> USE <1>0 DEF OtherProofs!Ledger!vars, Shared!vars
<1>1. ASSUME NEW n \in Names, OtherProofs!Ledger!Appear(n) PROVE Shared!Next
  BY <1>1 DEF OtherProofs!Ledger!Appear, Shared!Appear, Shared!Next
<1>2. ASSUME NEW n \in Names, OtherProofs!Ledger!Vanish(n) PROVE Shared!Next
  BY <1>2 DEF OtherProofs!Ledger!Vanish, Shared!Vanish, Shared!Next
<1>3. ASSUME NEW n \in Names, OtherProofs!Ledger!Enter(n) PROVE Shared!Next
  <2>1. Shared!Enter(n)
    BY <1>3 DEF OtherProofs!Ledger!Enter, Shared!Enter
  <2> QED BY <2>1 DEF Shared!Next
<1>4. ASSUME NEW gone \in SUBSET OtherProofs!Tracked, OtherProofs!Ledger!StrikeOff(gone)
      PROVE  Shared!Next
  <2> DEFINE left == gone \ Tracked
  <2>1. Shared!StrikeOff(left)
    BY <1>4 DEF OtherProofs!Ledger!StrikeOff, Shared!StrikeOff
  <2>2. left \in SUBSET (Tracked \cup Other!Tracked)
    OBVIOUS
  <2> QED BY <2>1, <2>2 DEF Shared!Next
<1> QED BY <1>1, <1>2, <1>3, <1>4 DEF OtherProofs!Ledger!Next

LEMMA FleetLedgerStep ==
  ASSUME FleetInductive, FleetNext
  PROVE  [Shared!Next]_(Shared!vars)
<1>1. CASE ThisLoop \/ ThisEvent
  <2>1. Next
    BY <1>1 DEF ThisLoop, ThisEvent, Next
  <2>2. [Ledger!Next]_(Ledger!vars)
    BY <2>1, LedgerStep DEF FleetInductive
  <2>3. UNCHANGED Other!Tracked
    BY <1>1 DEF ThisLoop, ThisEvent, own2, Other!Tracked
  <2> QED BY <2>2, <2>3, UnionStep
<1>2. CASE OtherLoop \/ OtherEvent
  <2>1. Other!Next
    BY <1>2 DEF OtherLoop, OtherEvent, Other!Next, Other!Environment
  <2>2. [OtherProofs!Ledger!Next]_(OtherProofs!Ledger!vars)
    BY <2>1, OtherLedgerStep DEF FleetInductive
  <2>3. UNCHANGED Tracked
    BY <1>2 DEF OtherLoop, OtherEvent, own, Tracked
  <2> QED BY <2>2, <2>3, OtherUnionStep
<1> QED BY <1>1, <1>2 DEF FleetNext

\* A name that neither Config knows of any more has no object, whether or not
\* they shared it: the two together implement ObjectLedger.
THEOREM FleetLedgerKept == FleetSpec => FleetKeepsLedger
<1>1. FleetInit => Shared!Init
  <2>1. ASSUME FleetInit PROVE Tracked = {} /\ Other!Tracked = {} /\ Present \subseteq Names
    <3>1. Tracked = {}
      BY <2>1, LedgerInit DEF FleetInit, Ledger!Init
    <3>2. Other!Tracked = {}
      BY <2>1 DEF FleetInit, Other!Init, Other!Tracked, Other!NewConfig, Other!NoStatus
    <3> QED BY <3>1, <3>2 DEF Present
  <2> QED BY <2>1 DEF Shared!Init
<1>2. UNCHANGED fleet => UNCHANGED Shared!vars
  BY DEF fleet, own, own2, Shared!vars, Tracked, Other!Tracked, Present
<1>3. FleetInductive /\ [FleetNext]_fleet => [Shared!Next]_(Shared!vars)
  BY <1>2, FleetLedgerStep
<1> QED BY FleetInvariance, <1>1, <1>3, PTL DEF FleetSpec, FleetKeepsLedger, Shared!Spec

=============================================================================
