--------------------------- MODULE HandoverProofs ---------------------------
(***************************************************************************)
(* Two versions of the controller that work on one Config at once never    *)
(* take back each other's writes, nor the user's; what a version leaves    *)
(* behind is the other's, and it takes away what is in use only when it    *)
(* has not seen the Config written.  The lemmas about a step of a worker   *)
(* in ConfigReconcilerProofs are used twice: as they stand for the first   *)
(* process, and instantiated for the second.                               *)
(***************************************************************************)
EXTENDS Handover, ConfigReconcilerProofs

OtherProofs == INSTANCE ConfigReconcilerProofs WITH
  Project <- Project2, pc <- pc2, local <- local2, fresh <- fresh2,
  version <- version2, name <- name2, kind <- kind2, rendered <- rendered2,
  found <- found2, pass <- pass2, todo <- todo2

USE DEF Kinds, stored, world, locals

-----------------------------------------------------------------------------
(* Other and OtherProofs are instances of the same definitions *)

LEMMA SameType == Other!TypeOK <=> OtherProofs!TypeOK
BY DEF Other!TypeOK, OtherProofs!TypeOK, Other!Kinds, OtherProofs!Kinds,
       Other!Refs, OtherProofs!Refs, Other!Status, OtherProofs!Status,
       Other!ConfigCR, OtherProofs!ConfigCR, Other!Content,
       OtherProofs!Content, Other!Object, OtherProofs!Object

LEMMA SameControl ==
  /\ Other!LoopHasFinalizer <=> OtherProofs!LoopHasFinalizer
  /\ Other!LoopComputed <=> OtherProofs!LoopComputed
  /\ Other!RendersOwn <=> OtherProofs!RendersOwn
  /\ Other!TodoFollowsCopy <=> OtherProofs!TodoFollowsCopy
BY DEF Other!LoopHasFinalizer, OtherProofs!LoopHasFinalizer,
       Other!LoopComputed, OtherProofs!LoopComputed, Other!Content,
       OtherProofs!Content, Other!Kinds, OtherProofs!Kinds, Other!RendersOwn,
       OtherProofs!RendersOwn, Other!TodoFollowsCopy,
       OtherProofs!TodoFollowsCopy, Other!Missed, OtherProofs!Missed,
       Other!InTodo, OtherProofs!InTodo, Other!Clean, OtherProofs!Clean

LEMMA SameWorker == Other!Worker <=> OtherProofs!Worker
BY DEF Other!stored, OtherProofs!stored, Other!world, OtherProofs!world,
       Other!locals, OtherProofs!locals, Other!Kinds, OtherProofs!Kinds,
       Other!Refs, OtherProofs!Refs, Other!Status, OtherProofs!Status,
       Other!NoStatus, OtherProofs!NoStatus, Other!ConfigCR,
       OtherProofs!ConfigCR, Other!NewConfig, OtherProofs!NewConfig,
       Other!Content, OtherProofs!Content, Other!Object, OtherProofs!Object,
       Other!Wanted, OtherProofs!Wanted,
       Other!Hashed, OtherProofs!Hashed, Other!UpToDate,
       OtherProofs!UpToDate, Other!Pair, OtherProofs!Pair, Other!Current,
       OtherProofs!Current, Other!Orphaned, OtherProofs!Orphaned,
       Other!Clean, OtherProofs!Clean, Other!Abandon, OtherProofs!Abandon,
       Other!AddFinalizer, OtherProofs!AddFinalizer, Other!StartLoop,
       OtherProofs!StartLoop, Other!StartPurge, OtherProofs!StartPurge,
       Other!RemoveFinalizer, OtherProofs!RemoveFinalizer,
       Other!ResolveVersion, OtherProofs!ResolveVersion, Other!ResolveFails,
       OtherProofs!ResolveFails, Other!Rendering, OtherProofs!Rendering,
       Other!Generate, OtherProofs!Generate, Other!CopyFromDraughtsman,
       OtherProofs!CopyFromDraughtsman, Other!NextObject,
       OtherProofs!NextObject, Other!GetObject, OtherProofs!GetObject,
       Other!PutObject, OtherProofs!PutObject, Other!CreateObject,
       OtherProofs!CreateObject, Other!UpdateObject,
       OtherProofs!UpdateObject, Other!WriteFails, OtherProofs!WriteFails,
       Other!Refetch, OtherProofs!Refetch, Other!DeleteNext,
       OtherProofs!DeleteNext, Other!Conflict, OtherProofs!Conflict,
       Other!Annotate, OtherProofs!Annotate, Other!DesiredStatus,
       OtherProofs!DesiredStatus, Other!UpdateStatus,
       OtherProofs!UpdateStatus, Other!ConfigConflict,
       OtherProofs!ConfigConflict, Other!Finish, OtherProofs!Finish,
       Other!Worker, OtherProofs!Worker

LEMMA SameInit == Other!Init <=> OtherProofs!Init
BY DEF Other!Init, OtherProofs!Init, Other!NewConfig, OtherProofs!NewConfig,
       Other!NoStatus, OtherProofs!NoStatus, Other!Kinds, OtherProofs!Kinds,
       Other!Refs, OtherProofs!Refs, Other!Status, OtherProofs!Status,
       Other!ConfigCR, OtherProofs!ConfigCR, Other!Content,
       OtherProofs!Content, Other!Object, OtherProofs!Object, Other!stored,
       OtherProofs!stored, Other!world, OtherProofs!world, Other!locals,
       OtherProofs!locals

LEMMA SameFail == Other!Fail <=> OtherProofs!Fail
BY DEF Other!Fail, OtherProofs!Fail, Other!Happens, OtherProofs!Happens,
       Other!Abandon, OtherProofs!Abandon, Other!NewConfig,
       OtherProofs!NewConfig, Other!NoStatus, OtherProofs!NoStatus,
       Other!Kinds, OtherProofs!Kinds, Other!Refs, OtherProofs!Refs,
       Other!Status, OtherProofs!Status, Other!ConfigCR,
       OtherProofs!ConfigCR, Other!Content, OtherProofs!Content,
       Other!Object, OtherProofs!Object, Other!stored, OtherProofs!stored,
       Other!world, OtherProofs!world, Other!locals, OtherProofs!locals

-----------------------------------------------------------------------------
(* What a process knows by itself *)

Knows ==
  /\ TypeOK
  /\ LoopHasFinalizer
  /\ LoopComputed
  /\ RendersOwn
  /\ TodoFollowsCopy

OtherKnows ==
  /\ Other!TypeOK
  /\ Other!LoopHasFinalizer
  /\ Other!LoopComputed
  /\ Other!RendersOwn
  /\ Other!TodoFollowsCopy

LEMMA KnowsStep ==
  ASSUME Knows, Worker \/ Environment
  PROVE  Knows'
BY WorkerType, EnvironmentType, FinalizerStep, ComputedStep, RendersOwnStep,
   TodoFollowsStep DEF Knows, Next

LEMMA OtherKnowsStep ==
  ASSUME OtherKnows, Other!Worker \/ Other!Fail
  PROVE  OtherKnows'
<1>1. /\ OtherProofs!TypeOK /\ OtherProofs!LoopHasFinalizer /\ OtherProofs!LoopComputed
      /\ OtherProofs!RendersOwn /\ OtherProofs!TodoFollowsCopy
      /\ OtherProofs!Worker \/ OtherProofs!Fail
  BY SameType, SameControl, SameWorker, SameFail DEF OtherKnows
<1>2. /\ OtherProofs!TypeOK' /\ OtherProofs!LoopHasFinalizer' /\ OtherProofs!LoopComputed'
      /\ OtherProofs!RendersOwn' /\ OtherProofs!TodoFollowsCopy'
  <2> USE NamesAssumption, Project2Assumption, BoundAssumption, SentinelAssumption
          DEF Object, Content, OtherProofs!Object, OtherProofs!Content
  <2>1. OtherProofs!TypeOK'
    BY <1>1, OtherProofs!WorkerType, OtherProofs!EnvironmentType DEF OtherProofs!Environment
  <2>2. OtherProofs!Next
    BY <1>1 DEF OtherProofs!Next, OtherProofs!Environment
  <2>3. OtherProofs!LoopHasFinalizer'
    BY <1>1, <2>2, OtherProofs!FinalizerStep
  <2>4. OtherProofs!LoopComputed'
    BY <1>1, <2>2, OtherProofs!ComputedStep
  <2>5. OtherProofs!RendersOwn'
    BY <1>1, <2>2, OtherProofs!RendersOwnStep
  <2>6. OtherProofs!TodoFollowsCopy'
    BY <1>1, <2>2, OtherProofs!TodoFollowsStep
  <2> QED BY <2>1, <2>3, <2>4, <2>5, <2>6
<1>3. /\ Other!TypeOK' <=> OtherProofs!TypeOK'
      /\ Other!LoopHasFinalizer' <=> OtherProofs!LoopHasFinalizer'
      /\ Other!LoopComputed' <=> OtherProofs!LoopComputed'
      /\ Other!RendersOwn' <=> OtherProofs!RendersOwn'
      /\ Other!TodoFollowsCopy' <=> OtherProofs!TodoFollowsCopy'
  BY SameType, SameControl, PTL
<1> QED BY <1>2, <1>3 DEF OtherKnows

\* The part of the state both share.
SharedType ==
  /\ phase \in {"absent", "new", "adopted", "deleting"}
  /\ config \in ConfigCR
  /\ objects \in [Kinds -> [Names -> Object \cup {None}]]
  /\ catalog \in [Apps -> Versions \cup {None, Unknown}]
  /\ upstream \in [Kinds -> Nat]
  /\ asked \in Apps
  /\ events \in Nat

LEMMA SharedTypes ==
  /\ TypeOK => SharedType
  /\ Other!TypeOK => SharedType
BY DEF SharedType, TypeOK, Other!TypeOK, Other!Kinds, Other!ConfigCR, Other!Status,
       Other!Refs, Other!Object, Other!Content, ConfigCR, Status, Refs, Object, Content

\* A process whose own variables stay as they are, but for the notice it takes
\* of a write to the Config, while others write the objects.
LEMMA KnowsBeside ==
  ASSUME Knows, SharedType', UNCHANGED <<pc, local, version, name, kind, rendered,
         found, pass, todo>>, fresh' \in {FALSE, fresh},
         phase' = phase \/ (phase = "new" /\ phase' = "adopted"),
         \A k \in Kinds, n \in Names : NotOurs(k, n)
  PROVE  Knows'
<1>1. TypeOK'
  <2>2. fresh' \in BOOLEAN
    BY DEF Knows, TypeOK
  <2>3. /\ pc' \in {"idle", "resolve", "generate", "copy", "get", "write", "refetch",
                     "cleanup", "status", "done", "purge"}
        /\ local' \in ConfigCR
        /\ version' \in Versions \cup {None}
        /\ name' \in Refs
        /\ kind' \in Kinds
        /\ rendered' \in [Kinds -> Content \cup {None}]
        /\ found' \in BOOLEAN
        /\ pass' \in {1, 2}
        /\ todo' \in Seq(Kinds \X Names)
    BY DEF Knows, TypeOK
  <2> QED BY <2>2, <2>3 DEF TypeOK, SharedType
<1>2. LoopHasFinalizer'
  <2>1. pc = "idle" => ~fresh'
    BY Zenon DEF Knows, LoopHasFinalizer
  <2> QED BY <2>1 DEF Knows, LoopHasFinalizer
<1>3. LoopComputed'
  BY DEF Knows, LoopComputed
<1>4. RendersOwn'
  BY DEF Knows, RendersOwn
<1>5. TodoFollowsCopy'
  BY TodoBeside DEF Knows
<1> QED BY <1>1, <1>2, <1>3, <1>4, <1>5 DEF Knows

LEMMA OtherKnowsBeside ==
  ASSUME OtherKnows, SharedType', UNCHANGED <<pc2, local2, version2, name2, kind2, rendered2,
         found2, pass2, todo2>>, fresh2' \in {FALSE, fresh2},
         phase' = phase \/ (phase = "new" /\ phase' = "adopted"),
         \A k \in Kinds, n \in Names : OtherProofs!NotOurs(k, n)
  PROVE  OtherKnows'
<1>1. Other!TypeOK'
  <2>1. /\ phase' \in {"absent", "new", "adopted", "deleting"}
        /\ config' \in Other!ConfigCR
        /\ objects' \in [Other!Kinds -> [Names -> Other!Object \cup {None}]]
        /\ catalog' \in [Apps -> Versions \cup {None, Unknown}]
        /\ upstream' \in [Other!Kinds -> Nat]
        /\ asked' \in Apps
        /\ events' \in Nat
    BY DEF SharedType, Other!Kinds, Other!ConfigCR, Other!Status,
           Other!Refs, Other!Object, Other!Content, ConfigCR, Status, Refs, Object, Content
  <2>2. fresh2' \in BOOLEAN
    BY DEF OtherKnows, Other!TypeOK
  <2>3. /\ pc2' \in {"idle", "resolve", "generate", "copy", "get", "write", "refetch",
                     "cleanup", "status", "done", "purge"}
        /\ local2' \in Other!ConfigCR
        /\ version2' \in Versions \cup {None}
        /\ name2' \in Other!Refs
        /\ kind2' \in Other!Kinds
        /\ rendered2' \in [Other!Kinds -> Other!Content \cup {None}]
        /\ found2' \in BOOLEAN
        /\ pass2' \in {1, 2}
        /\ todo2' \in Seq(Other!Kinds \X Names)
    BY DEF OtherKnows, Other!TypeOK
  <2> QED BY <2>1, <2>2, <2>3 DEF Other!TypeOK
<1>2. Other!LoopHasFinalizer'
  <2>1. pc2 = "idle" => ~fresh2'
    BY Zenon DEF OtherKnows, Other!LoopHasFinalizer
  <2> QED BY <2>1 DEF OtherKnows, Other!LoopHasFinalizer
<1>3. Other!LoopComputed'
  BY DEF OtherKnows, Other!LoopComputed, Other!Content, Other!Kinds
<1>4. Other!RendersOwn'
  BY DEF OtherKnows, Other!RendersOwn, Other!Kinds
<1>5. Other!TodoFollowsCopy'
  <2>1. OtherProofs!TypeOK /\ OtherProofs!TodoFollowsCopy
    BY SameType, SameControl DEF OtherKnows
  <2>2. OtherProofs!TodoFollowsCopy'
    BY <2>1, OtherProofs!TodoBeside, NamesAssumption, Project2Assumption,
       BoundAssumption, SentinelAssumption
    DEF Object, Content, OtherProofs!Object, OtherProofs!Content, OtherProofs!Kinds
  <2>3. Other!TodoFollowsCopy' <=> OtherProofs!TodoFollowsCopy'
    BY SameControl, PTL
  <2> QED BY <2>2, <2>3
<1> QED BY <1>1, <1>2, <1>3, <1>4, <1>5 DEF OtherKnows

-----------------------------------------------------------------------------
(* What both do to the Config *)

LEMMA OtherFollows ==
  ASSUME OtherKnows, phase \in {"new", "adopted"}, fresh2 => local2 = config, Other!Worker
  PROVE  OtherProofs!WriteFollows
BY OtherProofs!CurrentStep, SameType, SameControl, SameWorker, NamesAssumption,
   Project2Assumption, BoundAssumption, SentinelAssumption
DEF OtherKnows, Object, Content, OtherProofs!Object, OtherProofs!Content

\* What one puts into the cluster is foreign to the other.
LEMMA StepIsForeign ==
  ASSUME Knows, Worker, NEW k \in Kinds, NEW n \in Names
  PROVE  OtherProofs!NotOurs(k, n)
BY WritesOwn, Project2Assumption DEF Knows, OtherProofs!NotOurs

LEMMA OtherStepIsForeign ==
  ASSUME OtherKnows, Other!Worker, NEW k \in Kinds, NEW n \in Names
  PROVE  NotOurs(k, n)
<1>1. /\ OtherProofs!TypeOK /\ OtherProofs!LoopComputed /\ OtherProofs!RendersOwn
      /\ OtherProofs!Worker
  BY SameType, SameControl, SameWorker DEF OtherKnows
<1>2. \/ objects'[k][n] \in {None, objects[k][n]}
      \/ objects'[k][n].content.by = Project2
  BY <1>1, OtherProofs!WritesOwn, NamesAssumption, Project2Assumption,
     BoundAssumption, SentinelAssumption
  DEF Object, Content, OtherProofs!Object, OtherProofs!Content, OtherProofs!Kinds
<1> QED BY <1>2, Project2Assumption, ProjectAssumption DEF NotOurs

LEMMA KeptIsForeign ==
  ASSUME NEW k \in Kinds, NEW n \in Names,
         \/ objects'[k][n] \in {None, objects[k][n]}
         \/ objects[k][n] # None /\ objects'[k][n].content = objects[k][n].content
  PROVE  NotOurs(k, n) /\ OtherProofs!NotOurs(k, n)
BY DEF NotOurs, OtherProofs!NotOurs

-----------------------------------------------------------------------------
(* The invariant *)

LEMMA HandoverStarts == HandoverInit => HandoverInductive
<1> SUFFICES ASSUME HandoverInit PROVE HandoverInductive
  OBVIOUS
<1>1. Knows
  BY InitInductive, InitOwn DEF HandoverInit, Inductive, Knows
<1>2. OtherKnows
  <2>1. OtherProofs!Inductive /\ OtherProofs!RendersOwn /\ OtherProofs!TodoFollowsCopy
    BY OtherProofs!InitInductive, OtherProofs!InitOwn, SameInit, NamesAssumption,
       Project2Assumption, BoundAssumption, SentinelAssumption
    DEF HandoverInit, Object, Content, OtherProofs!Object, OtherProofs!Content
  <2> QED BY <2>1, SameType, SameControl DEF OtherProofs!Inductive, OtherKnows
<1>3. phase = "new" /\ ~fresh /\ ~fresh2 /\ config.app = asked
  BY DEF HandoverInit, Init, Other!Init, NewConfig
<1> QED BY <1>1, <1>2, <1>3
        DEF HandoverInductive, Knows, OtherKnows, CopyIsCurrent, SpecIsUsers

\* Of the environment only an edit writes the Config, and none begins or ends it.
LEMMA OutsideFollows ==
  ASSUME TypeOK, Environment, fresh => local = config, config.app = asked
  PROVE  /\ phase' = phase
         /\ config'.app = asked'
         /\ fresh' => local' = config'
         /\ config'.status = config.status /\ config'.prev = config.prev
         /\ config' = config \/ \E a \in Apps : EditSpec(a)
         /\ \A k \in Kinds, n \in Names : NotOurs(k, n) /\ OtherProofs!NotOurs(k, n)
         /\ events' # events
<1>0. events \in Nat /\ events' = events + 1
  BY DEF TypeOK, Environment, Happens, CreateConfig, EditSpec, DeleteConfig,
         ChangeCatalog, PushUpstream, RemoveObject, EditObject, Fail
<1>1. /\ \A a \in Apps : ~CreateConfig(a)
      /\ ~DeleteConfig
  BY Project2Assumption DEF CreateConfig, DeleteConfig, Happens
<1>2. ASSUME NEW a \in Apps, EditSpec(a)
      PROVE  /\ phase' = phase
             /\ config'.app = asked'
             /\ ~fresh'
             /\ config'.status = config.status /\ config'.prev = config.prev
             /\ objects' = objects
  BY <1>2 DEF EditSpec, TypeOK, ConfigCR
<1>3. ASSUME UNCHANGED objects \/ \E k \in Kinds, n \in Names : RemoveObject(k, n)
      PROVE  \A k \in Kinds, n \in Names : NotOurs(k, n) /\ OtherProofs!NotOurs(k, n)
  BY <1>3, KeptIsForeign DEF RemoveObject, TypeOK
<1>4. CASE \E a \in Apps, v \in Versions \cup {None, Unknown} : ChangeCatalog(a, v)
  BY <1>0, <1>3, <1>4 DEF ChangeCatalog
<1>5. CASE \E k \in Kinds : PushUpstream(k)
  BY <1>0, <1>3, <1>5 DEF PushUpstream
<1>6. CASE \E k \in Kinds, n \in Names : RemoveObject(k, n)
  <2>1. \A k \in Kinds, n \in Names : NotOurs(k, n) /\ OtherProofs!NotOurs(k, n)
    BY <1>3, <1>6
  <2> QED BY <1>0, <1>6, <2>1 DEF RemoveObject
<1>7. CASE \E k \in Kinds, n \in Names : EditObject(k, n)
  <2>1. \A k \in Kinds, n \in Names : NotOurs(k, n) /\ OtherProofs!NotOurs(k, n)
    BY <1>7, EditedObject, KeptIsForeign
  <2> QED BY <1>0, <1>7, <2>1 DEF EditObject
<1>8. CASE Fail
  BY <1>0, <1>3, <1>8 DEF Fail, Abandon
<1> QED BY <1>0, <1>1, <1>2, <1>3, <1>4, <1>5, <1>6, <1>7, <1>8 DEF Environment

\* Two booleans, one of which only takes the other back.
LEMMA TakenBack ==
  ASSUME NEW a \in BOOLEAN, NEW b
  PROVE  (a /\ b) \in {FALSE, a}
OBVIOUS

LEMMA HandoverStep ==
  ASSUME HandoverInductive, [HandoverNext]_system
  PROVE  HandoverInductive'
<1>a. /\ Knows /\ OtherKnows
      /\ phase \in {"new", "adopted"}
      /\ fresh => local = config
      /\ fresh2 => local2 = config
      /\ config.app = asked
      /\ fresh \in BOOLEAN /\ fresh2 \in BOOLEAN
  BY DEF HandoverInductive, Knows, OtherKnows, CopyIsCurrent, SpecIsUsers, TypeOK,
         Other!TypeOK
<1> SUFFICES /\ Knows' /\ OtherKnows'
             /\ phase' \in {"new", "adopted"}
             /\ fresh' => local' = config'
             /\ fresh2' => local2' = config'
             /\ config'.app = asked'
  BY DEF HandoverInductive, Knows, OtherKnows, CopyIsCurrent, SpecIsUsers
<1>b. /\ Knows' => SharedType'
      /\ OtherKnows' => SharedType'
  <2>1. (TypeOK' => SharedType') /\ (Other!TypeOK' => SharedType')
    BY SharedTypes, PTL
  <2> QED BY <2>1 DEF Knows, OtherKnows
<1>c. Knows => SharedType
  BY SharedTypes DEF Knows
<1>1. CASE Step
  <2>1. Worker /\ UNCHANGED <<pc2, local2, version2, name2, kind2, rendered2, found2,
                              pass2, todo2>>
    BY <1>1 DEF Step
  <2>2. Knows' /\ WriteFollows
    BY <1>a, <2>1, KnowsStep, CurrentStep DEF Knows
  <2>3. fresh2' = (fresh2 /\ UNCHANGED <<phase, config>>)
    BY <1>1 DEF Step, Written
  <2>4. fresh2' \in {FALSE, fresh2}
    BY <1>a, <2>3, TakenBack
  <2>5. OtherKnows'
    BY <1>a, <1>b, <2>1, <2>2, <2>4, OtherKnowsBeside, StepIsForeign DEF WriteFollows
  <2>6. fresh2' => local2' = config'
    BY <1>a, <2>1, <2>3
  <2> QED BY <1>a, <2>2, <2>5, <2>6 DEF WriteFollows
<1>2. CASE Step2
  <2>1. Other!Worker /\ UNCHANGED <<pc, local, version, name, kind, rendered, found,
                                    pass, todo>>
    BY <1>2 DEF Step2
  <2>2. OtherKnows' /\ OtherProofs!WriteFollows
    BY <1>a, <2>1, OtherKnowsStep, OtherFollows
  <2>3. fresh' = (fresh /\ UNCHANGED <<phase, config>>)
    BY <1>2 DEF Step2, Written
  <2>4. fresh' \in {FALSE, fresh}
    BY <1>a, <2>3, TakenBack
  <2>5. Knows'
    BY <1>a, <1>b, <2>1, <2>2, <2>4, KnowsBeside, OtherStepIsForeign
    DEF OtherProofs!WriteFollows
  <2>6. fresh' => local' = config'
    BY <1>a, <2>1, <2>3
  <2> QED BY <1>a, <2>2, <2>5, <2>6 DEF OtherProofs!WriteFollows, OtherProofs!world
<1>3. CASE Outside
  <2>1. Environment /\ UNCHANGED <<pc2, local2, version2, name2, kind2, rendered2, found2,
                                   pass2, todo2>>
    BY <1>3 DEF Outside
  <2>2. /\ Knows'
        /\ phase' = phase
        /\ config'.app = asked'
        /\ fresh' => local' = config'
        /\ config' = config \/ \E a \in Apps : EditSpec(a)
        /\ \A k \in Kinds, n \in Names : OtherProofs!NotOurs(k, n)
    BY <1>a, <2>1, KnowsStep, OutsideFollows DEF Knows
  <2>3. fresh2' = (fresh2 /\ ~\E a \in Apps : EditSpec(a))
    BY <1>3 DEF Outside
  <2>4. fresh2' \in {FALSE, fresh2}
    BY <1>a, <2>3, TakenBack
  <2>5. OtherKnows'
    BY <1>a, <1>b, <2>1, <2>2, <2>4, OtherKnowsBeside
  <2>6. fresh2' => local2' = config'
    BY <1>a, <2>1, <2>2, <2>3
  <2> QED BY <1>a, <2>2, <2>5, <2>6
<1>4. CASE Fail2
  <2>1. Other!Fail /\ UNCHANGED process
    BY <1>4 DEF Fail2
  <2>2. OtherKnows' /\ UNCHANGED <<phase, config, objects, asked>> /\ ~fresh2'
    BY <1>a, <2>1, OtherKnowsStep DEF Other!Fail, Other!Abandon, Other!stored, Other!world
  <2>3. Knows'
    BY <1>a, <1>b, <2>1, <2>2, KnowsBeside, KeptIsForeign DEF process
  <2>4. UNCHANGED <<local, fresh>>
    BY <2>1 DEF process
  <2> QED BY <1>a, <2>2, <2>3, <2>4
<1>5. ASSUME /\ UNCHANGED <<stored, world, pc, local, version, name, kind, rendered, found,
                            pass, todo, pc2, local2, version2, name2, kind2, rendered2,
                            found2, pass2, todo2>>
             /\ \/ fresh' = fresh /\ fresh2' = fresh2
                \/ fresh' = FALSE /\ fresh2' = FALSE
             /\ events' \in Nat
      PROVE  HandoverInductive'
  <2>1. SharedType'
    BY <1>a, <1>c, <1>5 DEF SharedType
  <2>2. Knows' /\ OtherKnows'
    <3>1. fresh' \in {FALSE, fresh} /\ fresh2' \in {FALSE, fresh2}
      BY <1>5
    <3> QED BY <1>a, <1>5, <2>1, <3>1, KnowsBeside, OtherKnowsBeside, KeptIsForeign
  <2>3. (fresh' => local' = config') /\ (fresh2' => local2' = config')
    <3>1. UNCHANGED <<local, local2, config>>
      BY <1>5
    <3>2. CASE fresh' = fresh /\ fresh2' = fresh2
      BY <1>a, <3>1, <3>2
    <3>3. CASE fresh' = FALSE /\ fresh2' = FALSE
      BY <3>3
    <3> QED BY <1>5, <3>2, <3>3
  <2>4. phase' \in {"new", "adopted"} /\ config'.app = asked'
    BY <1>a, <1>5
  <2> QED BY <2>2, <2>3, <2>4
          DEF HandoverInductive, Knows, OtherKnows, CopyIsCurrent, SpecIsUsers
<1>6. events \in Nat
  BY <1>a, <1>c DEF SharedType
<1>7. CASE \E p \in {Project, Project2} : Notice(p)
  <2>1. HandoverInductive'
    BY <1>5, <1>6, <1>7 DEF Notice, shared, process, process2
  <2> QED BY <2>1 DEF HandoverInductive, Knows, OtherKnows, CopyIsCurrent, SpecIsUsers
<1>8. CASE \E p \in {Project, Project2} : Relabel(p)
  <2>1. /\ UNCHANGED <<stored, world, pc, local, version, name, kind, rendered, found,
                      pass, todo, pc2, local2, version2, name2, kind2, rendered2,
                      found2, pass2, todo2>>
        /\ events' = events + 1
    BY <1>8 DEF Relabel
  <2>2. fresh' = FALSE /\ fresh2' = FALSE /\ events' \in Nat
    BY <1>6, <1>8 DEF Relabel
  <2>3. HandoverInductive'
    BY <1>5, <2>1, <2>2
  <2> QED BY <2>3 DEF HandoverInductive, Knows, OtherKnows, CopyIsCurrent, SpecIsUsers
<1>9. CASE UNCHANGED system
  <2>1. HandoverInductive'
    BY <1>5, <1>6, <1>9 DEF system, shared, process, process2
  <2> QED BY <2>1 DEF HandoverInductive, Knows, OtherKnows, CopyIsCurrent, SpecIsUsers
<1> QED BY <1>1, <1>2, <1>3, <1>4, <1>7, <1>8, <1>9 DEF HandoverNext

\* Whatever the two processes, the users and failures do, in any order: what
\* each process relies on holds, a copy the API server would accept is the
\* stored Config, and the stored spec is the one the user wrote last.
THEOREM HandoverInvariance == HandoverSpec => []HandoverInductive
BY HandoverStarts, HandoverStep, PTL DEF HandoverSpec

-----------------------------------------------------------------------------
(* What a write makes of what it replaces *)

LEMMA WritesStep ==
  ASSUME HandoverInductive, [HandoverNext]_system
  PROVE  /\ config'.prev # config.prev =>
              config'.prev = config.status.ref /\ config'.status = config.status
         /\ config'.status # config.status =>
              config'.status.app = config.app /\ config'.prev = config.prev
<1>a. /\ Knows /\ OtherKnows
      /\ phase \in {"new", "adopted"}
      /\ fresh => local = config
      /\ fresh2 => local2 = config
      /\ config.app = asked
  BY DEF HandoverInductive, Knows, OtherKnows, CopyIsCurrent, SpecIsUsers
<1>1. CASE Step
  BY <1>1, <1>a, CurrentStep DEF Step, WriteFollows, Knows
<1>2. CASE Step2
  BY <1>2, <1>a, OtherFollows DEF Step2, OtherProofs!WriteFollows
<1>3. CASE Outside
  BY <1>3, <1>a, OutsideFollows DEF Outside, Knows
<1>4. CASE Fail2
  BY <1>4 DEF Fail2, Other!Fail, Other!stored
<1>5. CASE \E p \in {Project, Project2} : Notice(p) \/ Relabel(p)
  BY <1>5 DEF Notice, Relabel, shared
<1>6. CASE UNCHANGED system
  BY <1>6 DEF system, shared
<1> QED BY <1>1, <1>2, <1>3, <1>4, <1>5, <1>6 DEF HandoverNext

\* However the loops of two versions interleave, a write of one replaces only
\* what it has seen.
THEOREM HandoverWrites == HandoverSpec => WritesFollow
<1>1. HandoverInductive /\ [HandoverNext]_system =>
        [/\ config'.prev # config.prev =>
              config'.prev = config.status.ref /\ config'.status = config.status
         /\ config'.status # config.status =>
              config'.status.app = config.app /\ config'.prev = config.prev]_system
  BY WritesStep
<1> QED BY <1>1, HandoverInvariance, PTL DEF HandoverSpec, WritesFollow

-----------------------------------------------------------------------------
(* What is left behind, and what is taken away *)

LEMMA OtherForgets ==
  ASSUME OtherKnows, phase \in {"new", "adopted"}, fresh2 => local2 = config,
         Other!Worker, NEW n \in Tracked \ Tracked', NEW k \in Kinds,
         objects[k][n] # None
  PROVE  objects[k][n].content.by # Project2
<1>1. /\ OtherProofs!TypeOK /\ OtherProofs!LoopHasFinalizer
      /\ OtherProofs!TodoFollowsCopy /\ OtherProofs!Worker
  BY SameType, SameControl, SameWorker DEF OtherKnows
<1>2. n \in OtherProofs!Tracked \ OtherProofs!Tracked'
  BY DEF Tracked, OtherProofs!Tracked
<1> QED BY <1>1, <1>2, OtherProofs!ForgetStep, NamesAssumption, Project2Assumption,
           BoundAssumption, SentinelAssumption
        DEF Object, Content, OtherProofs!Object, OtherProofs!Content, OtherProofs!Kinds

LEMMA OtherServes ==
  ASSUME OtherKnows, phase \in {"new", "adopted"}, fresh2 => local2 = config,
         Other!Worker, NEW k \in Kinds, config.status.ref # None,
         objects[k][config.status.ref] # None, objects'[k][config.status.ref] = None
  PROVE  todo2' # todo2 /\ ~fresh2
<1>1. /\ OtherProofs!TypeOK /\ OtherProofs!LoopHasFinalizer /\ OtherProofs!LoopComputed
      /\ OtherProofs!TodoFollowsCopy /\ OtherProofs!Worker
  BY SameType, SameControl, SameWorker DEF OtherKnows
<1> QED BY <1>1, OtherProofs!OutdatedStep, NamesAssumption, Project2Assumption,
           BoundAssumption, SentinelAssumption
        DEF Object, Content, OtherProofs!Object, OtherProofs!Content, OtherProofs!Kinds

LEMMA HandoverForgetStep ==
  ASSUME HandoverInductive, [HandoverNext]_system, NEW n \in Tracked \ Tracked',
         NEW k \in Kinds, objects[k][n] # None
  PROVE  objects[k][n].content.by # IF pc' # pc THEN Project ELSE Project2
<1>a. /\ Knows /\ OtherKnows
      /\ phase \in {"new", "adopted"}
      /\ fresh => local = config
      /\ fresh2 => local2 = config
      /\ config.app = asked
  BY DEF HandoverInductive, Knows, OtherKnows, CopyIsCurrent, SpecIsUsers
<1>1. CASE Step
  BY <1>1, <1>a, ForgetStep DEF Step, Knows
<1>2. CASE Step2
  <2>1. Other!Worker /\ pc' = pc
    BY <1>2 DEF Step2
  <2> QED BY <1>a, <2>1, OtherForgets
<1>3. config'.status # config.status \/ config'.prev # config.prev
  BY DEF Tracked
<1>4. ~Outside
  BY <1>3, <1>a, OutsideFollows DEF Outside, Knows
<1>5. ~Fail2
  BY <1>3 DEF Fail2, Other!Fail, Other!stored
<1>6. \A p \in {Project, Project2} : ~Notice(p) /\ ~Relabel(p)
  BY <1>3 DEF Notice, Relabel, shared
<1>7. ~UNCHANGED system
  BY <1>3 DEF system, shared
<1> QED BY <1>1, <1>2, <1>4, <1>5, <1>6, <1>7 DEF HandoverNext

LEMMA HandoverServeStep ==
  ASSUME HandoverInductive, [HandoverNext]_system, NEW k \in Kinds,
         config.status.ref # None, objects[k][config.status.ref] # None,
         objects'[k][config.status.ref] = None
  PROVE  \/ todo' # todo /\ ~fresh
         \/ todo2' # todo2 /\ ~fresh2
         \/ events' # events
<1>a. /\ Knows /\ OtherKnows
      /\ phase \in {"new", "adopted"}
      /\ fresh => local = config
      /\ fresh2 => local2 = config
      /\ config.app = asked
  BY DEF HandoverInductive, Knows, OtherKnows, CopyIsCurrent, SpecIsUsers
<1>1. CASE Step
  BY <1>1, <1>a, OutdatedStep DEF Step, Knows
<1>2. CASE Step2
  BY <1>2, <1>a, OtherServes DEF Step2
<1>3. CASE Outside
  BY <1>3, <1>a, OutsideFollows DEF Outside, Knows
<1>4. objects' # objects
  OBVIOUS
<1>5. ~Fail2
  BY <1>4 DEF Fail2, Other!Fail, Other!stored
<1>6. \A p \in {Project, Project2} : ~Notice(p) /\ ~Relabel(p)
  BY <1>4 DEF Notice, Relabel, shared
<1>7. ~UNCHANGED system
  BY <1>4 DEF system, shared
<1> QED BY <1>1, <1>2, <1>3, <1>5, <1>6, <1>7 DEF HandoverNext

\* When one version strikes a name off the Config, every object of the name that
\* is left has been put there by the other: a version never leaks an object of
\* its own, however late its loop.
THEOREM HandoverForgets == HandoverSpec => ForgetsOnlyOthers
<1>1. HandoverInductive /\ [HandoverNext]_system =>
        [\A n \in Tracked \ Tracked', k \in Kinds :
           objects[k][n] # None =>
             objects[k][n].content.by # IF pc' # pc THEN Project ELSE Project2]_system
  BY HandoverForgetStep
<1> QED BY <1>1, HandoverInvariance, PTL DEF HandoverSpec, ForgetsOnlyOthers

\* An object that .status refers to goes only by a clean-up that has not seen the
\* last write of the Config, or at the hands of a user.
THEOREM HandoverServes == HandoverSpec => ServedUnlessOutdated
<1>1. HandoverInductive /\ [HandoverNext]_system =>
        [config.status.ref # None => \A k \in Kinds :
           objects[k][config.status.ref] # None /\ objects'[k][config.status.ref] = None =>
             \/ todo' # todo /\ ~fresh
             \/ todo2' # todo2 /\ ~fresh2
             \/ events' # events]_system
  BY HandoverServeStep
<1> QED BY <1>1, HandoverInvariance, PTL DEF HandoverSpec, ServedUnlessOutdated

=============================================================================
