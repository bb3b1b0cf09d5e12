---------------------- MODULE ConfigReconcilerProofs ----------------------
(***************************************************************************)
(* Proofs about ConfigReconciler, for every value of its constants: the    *)
(* conjunction Inductive is an invariant, and with it SpecIsUsers,         *)
(* DoneMeansRendered, ServedUntilReplaced and the refinement KeepsLedger;  *)
(* and a loop makes a bounded number of calls.                             *)
(* Each conjunct of Inductive has a lemma that the steps keep it, with one *)
(* step per action.                                                        *)
(***************************************************************************)
EXTENDS ConfigReconciler, TLAPS

USE DEF Kinds, stored, world, locals

-----------------------------------------------------------------------------
(* What the data operators return *)

LEMMA PairType ==
  ASSUME NEW n \in Names
  PROVE  Pair(n) \in Seq(Kinds \X Names)
BY DEF Pair

LEMMA ReferencesType ==
  ASSUME NEW c \in ConfigCR
  PROVE  /\ Current(c) \in Seq(Kinds \X Names)
         /\ Orphaned(c) \in Seq(Kinds \X Names)
BY PairType, SentinelAssumption DEF Current, Orphaned, ConfigCR, Status, Refs

LEMMA NewConfigType ==
  ASSUME NEW a \in Apps
  PROVE  NewConfig(a) \in ConfigCR
BY DEF NewConfig, NoStatus, ConfigCR, Status, Refs

LEMMA RenderingType ==
  ASSUME TypeOK, NEW k \in Kinds, NEW v \in Versions \cup {Draughtsman}
  PROVE  Rendering(k, v) \in Content
BY ProjectAssumption DEF Rendering, Content, TypeOK, ConfigCR

LEMMA WantedType ==
  ASSUME rendered \in [Kinds -> Content], NEW k \in Kinds
  PROVE  Wanted(k) \in Object /\ Wanted(k) # None
BY SentinelAssumption DEF Wanted, Object

-----------------------------------------------------------------------------
(* Type correctness *)

LEMMA EmptyType == << >> \in Seq(Kinds \X Names)
OBVIOUS

LEMMA InitType == Init => TypeOK
<1> SUFFICES ASSUME Init PROVE TypeOK
  OBVIOUS
<1>1. PICK a \in Apps : config = NewConfig(a)
  BY DEF Init
<1>2. config \in ConfigCR /\ config.app \in Apps
  BY <1>1, NewConfigType DEF ConfigCR
<1>3. local \in ConfigCR
  BY <1>2, NewConfigType DEF Init
<1>4. objects \in [Kinds -> [Names -> Object \cup {None}]]
  BY DEF Init
<1>5. todo \in Seq(Kinds \X Names)
  BY EmptyType DEF Init
<1> QED BY <1>2, <1>3, <1>4, <1>5 DEF Init, TypeOK, Refs

LEMMA AbandonType ==
  ASSUME TypeOK, Abandon,
         phase' \in {"absent", "new", "adopted", "deleting"},
         config' \in ConfigCR, UNCHANGED <<objects, world>>, events' \in Nat
  PROVE  TypeOK'
<1>1. local' \in ConfigCR
  BY NewConfigType DEF Abandon, TypeOK, ConfigCR
<1>2. rendered' \in [Kinds -> Content \cup {None}]
  BY DEF Abandon
<1>3. todo' \in Seq(Kinds \X Names)
  BY EmptyType DEF Abandon
<1> QED BY <1>1, <1>2, <1>3 DEF Abandon, TypeOK, Refs

LEMMA PutObjectType ==
  ASSUME TypeOK, LoopComputed, pc = "write", PutObject
  PROVE  TypeOK'
<1>1. name \in Names /\ Wanted(kind) \in Object
  BY WantedType DEF LoopComputed, TypeOK
<1>2. objects' \in [Kinds -> [Names -> Object \cup {None}]]
  BY <1>1 DEF PutObject, TypeOK
<1> QED BY <1>2 DEF PutObject, NextObject, TypeOK

LEMMA WorkerType ==
  ASSUME TypeOK, LoopComputed, Worker
  PROVE  TypeOK'
<1>a. config.app \in Apps /\ local.app \in Apps
  BY DEF TypeOK, ConfigCR
<1>1. CASE AddFinalizer
  BY <1>1 DEF AddFinalizer, TypeOK
<1>2. CASE StartLoop
  BY <1>2 DEF StartLoop, TypeOK
<1>3. CASE StartPurge
  <2>1. Current(config) \o Orphaned(config) \in Seq(Kinds \X Names)
    BY ReferencesType DEF TypeOK
  <2> QED BY <1>3, <2>1 DEF StartPurge, TypeOK
<1>4. CASE RemoveFinalizer
  <2>1. config' \in ConfigCR
    BY <1>a, <1>4, NewConfigType DEF RemoveFinalizer
  <2> QED BY <1>4, <2>1, AbandonType DEF RemoveFinalizer, TypeOK
<1>5. CASE ResolveVersion
  <2>1. version' \in Versions \cup {None}
    BY <1>a, <1>5 DEF ResolveVersion, TypeOK
  <2>2. name' \in Refs
    BY <1>a, <1>5, NamesAssumption DEF ResolveVersion, Refs
  <2> QED BY <1>5, <2>1, <2>2 DEF ResolveVersion, TypeOK
<1>6. CASE ResolveFails
  BY <1>6, AbandonType DEF ResolveFails, TypeOK
<1>7. CASE Generate
  <2>1. rendered' \in [Kinds -> Content \cup {None}]
    BY <1>7, RenderingType DEF Generate, LoopComputed
  <2> QED BY <1>7, <2>1 DEF Generate, TypeOK
<1>8. CASE CopyFromDraughtsman
  <2>1. rendered' \in [Kinds -> Content \cup {None}]
    BY <1>8, RenderingType DEF CopyFromDraughtsman, TypeOK
  <2> QED BY <1>8, <2>1 DEF CopyFromDraughtsman, TypeOK
<1>9. CASE GetObject
  BY <1>9 DEF GetObject, NextObject, TypeOK
<1>10. CASE CreateObject
  BY <1>10, PutObjectType DEF CreateObject
<1>11. CASE UpdateObject
  BY <1>11, PutObjectType DEF UpdateObject
<1>12. CASE WriteFails
  BY <1>12, AbandonType DEF WriteFails, TypeOK
<1>13. CASE Refetch
  <2>1. todo' \in Seq(Kinds \X Names)
    BY <1>13, EmptyType, ReferencesType DEF Refetch, TypeOK
  <2> QED BY <1>13, <2>1 DEF Refetch, TypeOK
<1>14. CASE DeleteNext
  <2>1. objects' \in [Kinds -> [Names -> Object \cup {None}]]
    BY <1>14 DEF DeleteNext, TypeOK
  <2>2. todo' \in Seq(Kinds \X Names)
    BY <1>14 DEF DeleteNext, TypeOK
  <2> QED BY <1>14, <2>1, <2>2 DEF DeleteNext, TypeOK
<1>15. CASE Annotate
  <2>1. config' \in ConfigCR
    BY <1>15 DEF Annotate, TypeOK, ConfigCR, Status
  <2> QED BY <1>15, <2>1 DEF Annotate, TypeOK
<1>16. CASE UpdateStatus
  <2>1. DesiredStatus \in Status
    BY <1>a DEF DesiredStatus, Status, TypeOK
  <2>2. config' \in ConfigCR /\ local' \in ConfigCR
    BY <1>16, <2>1 DEF UpdateStatus, TypeOK, ConfigCR
  <2> QED BY <1>16, <2>2 DEF UpdateStatus, TypeOK
<1>17. CASE ConfigConflict
  BY <1>17, AbandonType DEF ConfigConflict, TypeOK
<1>18. CASE Finish
  BY <1>18, AbandonType DEF Finish, TypeOK
<1> QED
  BY <1>1, <1>2, <1>3, <1>4, <1>5, <1>6, <1>7, <1>8, <1>9, <1>10, <1>11,
     <1>12, <1>13, <1>14, <1>15, <1>16, <1>17, <1>18 DEF Worker

\* An edit by hand creates and removes nothing, and leaves annotations as they are.
LEMMA EditedObject ==
  ASSUME TypeOK, NEW k \in Kinds, NEW n \in Names, EditObject(k, n)
  PROVE  /\ objects' \in [Kinds -> [Names -> Object \cup {None}]]
         /\ \A l \in Kinds, m \in Names :
              \/ objects'[l][m] = objects[l][m]
              \/ /\ objects[l][m] # None /\ objects'[l][m] # None
                 /\ Hashed(objects'[l][m]) = Hashed(objects[l][m])
                 /\ objects'[l][m].content = objects[l][m].content
<1> DEFINE Edited == [objects[k][n] EXCEPT !.data = "edited"]
<1>1. objects[k][n] \in Object
  BY DEF EditObject, TypeOK
<1>2. Edited \in Object /\ Edited # None
  BY <1>1, SentinelAssumption DEF Object
<1>3. Hashed(Edited) = Hashed(objects[k][n]) /\ Edited.content = objects[k][n].content
  BY <1>1 DEF Object, Hashed
<1>4. objects' = [objects EXCEPT ![k][n] = Edited]
  BY <1>1 DEF EditObject, Object, TypeOK
<1> HIDE DEF Edited
<1>5. objects' \in [Kinds -> [Names -> Object \cup {None}]]
  BY <1>2, <1>4 DEF TypeOK
<1>6. ASSUME NEW l \in Kinds, NEW m \in Names
      PROVE  objects'[l][m] = IF l = k /\ m = n THEN Edited ELSE objects[l][m]
  BY <1>4 DEF TypeOK
<1>7. objects[k][n] # None
  BY DEF EditObject
<1> QED BY <1>2, <1>3, <1>5, <1>6, <1>7

LEMMA EnvironmentType ==
  ASSUME TypeOK, Environment
  PROVE  TypeOK'
<1> USE DEF Happens
<1>1. ASSUME NEW a \in Apps, CreateConfig(a) PROVE TypeOK'
  BY <1>1, NewConfigType DEF CreateConfig, TypeOK
<1>2. ASSUME NEW a \in Apps, EditSpec(a) PROVE TypeOK'
  <2>1. config' \in ConfigCR
    BY <1>2 DEF EditSpec, TypeOK, ConfigCR
  <2>2. fresh' \in BOOLEAN
    BY <1>2 DEF EditSpec
  <2> QED BY <1>2, <2>1, <2>2 DEF EditSpec, TypeOK
<1>3. CASE DeleteConfig
  <2>0. config.app \in Apps
    BY DEF TypeOK, ConfigCR
  <2>1. config' \in ConfigCR
    BY <1>3, <2>0, NewConfigType DEF DeleteConfig, TypeOK
  <2>2. fresh' \in BOOLEAN
    BY <1>3 DEF DeleteConfig
  <2>3. phase' \in {"absent", "deleting"}
    BY <1>3 DEF DeleteConfig
  <2> QED BY <1>3, <2>1, <2>2, <2>3 DEF DeleteConfig, TypeOK
<1>4. ASSUME NEW a \in Apps, NEW v \in Versions \cup {None, Unknown},
             ChangeCatalog(a, v)
      PROVE  TypeOK'
  BY <1>4 DEF ChangeCatalog, TypeOK
<1>5. ASSUME NEW k \in Kinds, PushUpstream(k) PROVE TypeOK'
  BY <1>5 DEF PushUpstream, TypeOK
<1>6. ASSUME NEW k \in Kinds, NEW n \in Names, RemoveObject(k, n) PROVE TypeOK'
  BY <1>6 DEF RemoveObject, TypeOK
<1>7. ASSUME NEW k \in Kinds, NEW n \in Names, EditObject(k, n) PROVE TypeOK'
  <2>1. objects' \in [Kinds -> [Names -> Object \cup {None}]]
    BY <1>7, EditedObject
  <2>2. UNCHANGED <<phase, config, world, pc, locals>> /\ events' = events + 1
    BY <1>7 DEF EditObject
  <2> QED BY <2>1, <2>2 DEF TypeOK
<1>8. CASE Fail
  BY <1>8, AbandonType DEF Fail, TypeOK
<1> QED
  BY <1>1, <1>2, <1>3, <1>4, <1>5, <1>6, <1>7, <1>8 DEF Environment

-----------------------------------------------------------------------------
(* Control *)

LEMMA AbandonStarts ==
  ASSUME Abandon
  PROVE  /\ LoopHasFinalizer'
         /\ CopyIsStored'
         /\ LoopComputed'
         /\ TodoIsOrphans'
         /\ LoopEnsured'
BY DEF Abandon, LoopHasFinalizer, CopyIsStored, LoopComputed, TodoIsOrphans, LoopEnsured

LEMMA FinalizerStep ==
  ASSUME LoopHasFinalizer, Next
  PROVE  LoopHasFinalizer'
<1> USE DEF LoopHasFinalizer
<1>1. CASE AddFinalizer
  BY <1>1 DEF AddFinalizer
<1>2. CASE StartLoop
  BY <1>2 DEF StartLoop
<1>3. CASE StartPurge
  BY <1>3 DEF StartPurge
<1>4. CASE RemoveFinalizer
  BY <1>4, AbandonStarts DEF RemoveFinalizer
<1>5. CASE ResolveVersion
  BY <1>5 DEF ResolveVersion
<1>6. CASE ResolveFails
  BY <1>6, AbandonStarts DEF ResolveFails
<1>7. CASE Generate
  BY <1>7 DEF Generate
<1>8. CASE CopyFromDraughtsman
  BY <1>8 DEF CopyFromDraughtsman
<1>9. CASE GetObject
  BY <1>9 DEF GetObject, NextObject
<1>10. CASE CreateObject
  BY <1>10 DEF CreateObject, PutObject, NextObject
<1>11. CASE UpdateObject
  BY <1>11 DEF UpdateObject, PutObject, NextObject
<1>12. CASE WriteFails
  BY <1>12, AbandonStarts DEF WriteFails
<1>13. CASE Refetch
  BY <1>13 DEF Refetch
<1>14. CASE DeleteNext
  BY <1>14 DEF DeleteNext
<1>15. CASE Annotate
  BY <1>15 DEF Annotate, Conflict
<1>16. CASE UpdateStatus
  BY <1>16 DEF UpdateStatus, Conflict, DesiredStatus
<1>17. CASE ConfigConflict
  BY <1>17, AbandonStarts DEF ConfigConflict
<1>18. CASE Finish
  BY <1>18, AbandonStarts DEF Finish
<1>19. ASSUME NEW a \in Apps, CreateConfig(a)
      PROVE  LoopHasFinalizer'
  BY <1>19 DEF CreateConfig
<1>20. ASSUME NEW a \in Apps, EditSpec(a)
      PROVE  LoopHasFinalizer'
  BY <1>20 DEF EditSpec
<1>21. CASE DeleteConfig
  BY <1>21 DEF DeleteConfig
<1>22. ASSUME NEW a \in Apps, NEW v \in Versions \cup {None, Unknown}, ChangeCatalog(a, v)
      PROVE  LoopHasFinalizer'
  BY <1>22 DEF ChangeCatalog
<1>23. ASSUME NEW k \in Kinds, PushUpstream(k)
      PROVE  LoopHasFinalizer'
  BY <1>23 DEF PushUpstream
<1>24. ASSUME NEW k \in Kinds, NEW n \in Names, RemoveObject(k, n)
      PROVE  LoopHasFinalizer'
  BY <1>24 DEF RemoveObject
<1>25. CASE Fail
  BY <1>25, AbandonStarts DEF Fail
<1>26. ASSUME NEW k \in Kinds, NEW n \in Names, EditObject(k, n)
      PROVE  LoopHasFinalizer'
  BY <1>26 DEF EditObject
<1> QED
  BY <1>1, <1>2, <1>3, <1>4, <1>5, <1>6, <1>7, <1>8, <1>9, <1>10, <1>11,
     <1>12, <1>13, <1>14, <1>15, <1>16, <1>17, <1>18, <1>19, <1>20, <1>21,
     <1>22, <1>23, <1>24, <1>25, <1>26
     DEF Next, Worker, Environment

LEMMA CopyStep ==
  ASSUME TypeOK, LoopHasFinalizer, CopyIsStored, Next
  PROVE  CopyIsStored'
<1> USE DEF CopyIsStored, LoopHasFinalizer
<1>1. CASE AddFinalizer
  BY <1>1 DEF AddFinalizer
<1>2. CASE StartLoop
  BY <1>2 DEF StartLoop
<1>3. CASE StartPurge
  BY <1>3 DEF StartPurge
<1>4. CASE RemoveFinalizer
  BY <1>4, AbandonStarts DEF RemoveFinalizer
<1>5. CASE ResolveVersion
  BY <1>5 DEF ResolveVersion
<1>6. CASE ResolveFails
  BY <1>6, AbandonStarts DEF ResolveFails
<1>7. CASE Generate
  BY <1>7 DEF Generate
<1>8. CASE CopyFromDraughtsman
  BY <1>8 DEF CopyFromDraughtsman
<1>9. CASE GetObject
  BY <1>9 DEF GetObject, NextObject
<1>10. CASE CreateObject
  BY <1>10 DEF CreateObject, PutObject, NextObject
<1>11. CASE UpdateObject
  BY <1>11 DEF UpdateObject, PutObject, NextObject
<1>12. CASE WriteFails
  BY <1>12, AbandonStarts DEF WriteFails
<1>13. CASE Refetch
  BY <1>13 DEF Refetch
<1>14. CASE DeleteNext
  BY <1>14 DEF DeleteNext
<1>15. CASE Annotate
  BY <1>15 DEF Annotate, Conflict, TypeOK, ConfigCR
<1>16. CASE UpdateStatus
  BY <1>16 DEF UpdateStatus, Conflict, DesiredStatus, TypeOK, ConfigCR
<1>17. CASE ConfigConflict
  BY <1>17, AbandonStarts DEF ConfigConflict
<1>18. CASE Finish
  BY <1>18, AbandonStarts DEF Finish
<1>19. ASSUME NEW a \in Apps, CreateConfig(a)
      PROVE  CopyIsStored'
  BY <1>19 DEF CreateConfig, TypeOK
<1>20. ASSUME NEW a \in Apps, EditSpec(a)
      PROVE  CopyIsStored'
  BY <1>20 DEF EditSpec, Clean
<1>21. CASE DeleteConfig
  BY <1>21 DEF DeleteConfig
<1>22. ASSUME NEW a \in Apps, NEW v \in Versions \cup {None, Unknown}, ChangeCatalog(a, v)
      PROVE  CopyIsStored'
  BY <1>22 DEF ChangeCatalog
<1>23. ASSUME NEW k \in Kinds, PushUpstream(k)
      PROVE  CopyIsStored'
  BY <1>23 DEF PushUpstream
<1>24. ASSUME NEW k \in Kinds, NEW n \in Names, RemoveObject(k, n)
      PROVE  CopyIsStored'
  BY <1>24 DEF RemoveObject
<1>25. CASE Fail
  BY <1>25, AbandonStarts DEF Fail
<1>26. ASSUME NEW k \in Kinds, NEW n \in Names, EditObject(k, n)
      PROVE  CopyIsStored'
  BY <1>26 DEF EditObject
<1> QED
  BY <1>1, <1>2, <1>3, <1>4, <1>5, <1>6, <1>7, <1>8, <1>9, <1>10, <1>11,
     <1>12, <1>13, <1>14, <1>15, <1>16, <1>17, <1>18, <1>19, <1>20, <1>21,
     <1>22, <1>23, <1>24, <1>25, <1>26
     DEF Next, Worker, Environment

LEMMA ComputedStep ==
  ASSUME TypeOK, LoopHasFinalizer, LoopComputed, Next
  PROVE  LoopComputed'
<1> USE DEF LoopComputed, LoopHasFinalizer
<1>1. CASE AddFinalizer
  BY <1>1 DEF AddFinalizer
<1>2. CASE StartLoop
  BY <1>2 DEF StartLoop
<1>3. CASE StartPurge
  BY <1>3 DEF StartPurge
<1>4. CASE RemoveFinalizer
  BY <1>4, AbandonStarts DEF RemoveFinalizer
<1>5. CASE ResolveVersion
  <2>1. local.app \in Apps BY DEF TypeOK, ConfigCR
  <2>2. name' \in Names BY <2>1, <1>5, NamesAssumption DEF ResolveVersion
  <2>3. version' # None => version' \in Versions
    BY <2>1, <1>5 DEF ResolveVersion, TypeOK
  <2> QED BY <1>5, <2>2, <2>3 DEF ResolveVersion
<1>6. CASE ResolveFails
  BY <1>6, AbandonStarts DEF ResolveFails
<1>7. CASE Generate
  <2>1. rendered' \in [Kinds -> Content]
    BY <1>7, RenderingType DEF Generate
  <2> QED BY <1>7, <2>1 DEF Generate
<1>8. CASE CopyFromDraughtsman
  <2>1. Rendering(kind, Draughtsman) \in Content
    BY RenderingType DEF TypeOK
  <2>2. CASE kind = "configmap"
    <3>1. rendered'["configmap"] \in Content
      BY <1>8, <2>1, <2>2 DEF CopyFromDraughtsman, TypeOK
    <3> QED BY <1>8, <2>2, <3>1 DEF CopyFromDraughtsman
  <2>3. CASE kind = "secret"
    <3>1. rendered' \in [Kinds -> Content]
      BY <1>8, <2>1, <2>3 DEF CopyFromDraughtsman, TypeOK
    <3> QED BY <1>8, <2>3, <3>1 DEF CopyFromDraughtsman
  <2> QED BY <2>2, <2>3 DEF TypeOK
<1>9. CASE GetObject
  BY <1>9 DEF GetObject, NextObject
<1>10. CASE CreateObject
  BY <1>10 DEF CreateObject, PutObject, NextObject
<1>11. CASE UpdateObject
  BY <1>11 DEF UpdateObject, PutObject, NextObject
<1>12. CASE WriteFails
  BY <1>12, AbandonStarts DEF WriteFails
<1>13. CASE Refetch
  BY <1>13 DEF Refetch
<1>14. CASE DeleteNext
  BY <1>14 DEF DeleteNext
<1>15. CASE Annotate
  BY <1>15 DEF Annotate, Conflict
<1>16. CASE UpdateStatus
  BY <1>16 DEF UpdateStatus, Conflict, DesiredStatus
<1>17. CASE ConfigConflict
  BY <1>17, AbandonStarts DEF ConfigConflict
<1>18. CASE Finish
  BY <1>18, AbandonStarts DEF Finish
<1>19. ASSUME NEW a \in Apps, CreateConfig(a)
      PROVE  LoopComputed'
  BY <1>19 DEF CreateConfig
<1>20. ASSUME NEW a \in Apps, EditSpec(a)
      PROVE  LoopComputed'
  BY <1>20 DEF EditSpec
<1>21. CASE DeleteConfig
  BY <1>21 DEF DeleteConfig
<1>22. ASSUME NEW a \in Apps, NEW v \in Versions \cup {None, Unknown}, ChangeCatalog(a, v)
      PROVE  LoopComputed'
  BY <1>22 DEF ChangeCatalog
<1>23. ASSUME NEW k \in Kinds, PushUpstream(k)
      PROVE  LoopComputed'
  BY <1>23 DEF PushUpstream
<1>24. ASSUME NEW k \in Kinds, NEW n \in Names, RemoveObject(k, n)
      PROVE  LoopComputed'
  BY <1>24 DEF RemoveObject
<1>25. CASE Fail
  BY <1>25, AbandonStarts DEF Fail
<1>26. ASSUME NEW k \in Kinds, NEW n \in Names, EditObject(k, n)
      PROVE  LoopComputed'
  BY <1>26 DEF EditObject
<1> QED
  BY <1>1, <1>2, <1>3, <1>4, <1>5, <1>6, <1>7, <1>8, <1>9, <1>10, <1>11,
     <1>12, <1>13, <1>14, <1>15, <1>16, <1>17, <1>18, <1>19, <1>20, <1>21,
     <1>22, <1>23, <1>24, <1>25, <1>26
     DEF Next, Worker, Environment

-----------------------------------------------------------------------------
(* The references of the Config *)

LEMMA BlankTracksNothing ==
  ASSUME NEW a, config = NewConfig(a)
  PROVE  Tracked = {}
BY DEF NewConfig, NoStatus, Tracked

LEMMA BlankTracksNothingNext ==
  ASSUME NEW a, config' = NewConfig(a)
  PROVE  Tracked' = {}
BY DEF NewConfig, NoStatus, Tracked

LEMMA UntrackedStep ==
  ASSUME TypeOK, LoopHasFinalizer, UntrackedUntilAdopted, Next
  PROVE  UntrackedUntilAdopted'
<1> USE DEF UntrackedUntilAdopted
<1>1. CASE AddFinalizer
  BY <1>1 DEF AddFinalizer, Tracked
<1>2. CASE StartLoop
  BY <1>2 DEF StartLoop, Tracked
<1>3. CASE StartPurge
  BY <1>3 DEF StartPurge, Tracked
<1>4. CASE RemoveFinalizer
  BY <1>4, BlankTracksNothingNext DEF RemoveFinalizer
<1>5. CASE ResolveVersion
  BY <1>5 DEF ResolveVersion, Tracked
<1>6. CASE ResolveFails
  BY <1>6 DEF ResolveFails, Tracked
<1>7. CASE Generate
  BY <1>7 DEF Generate, Tracked
<1>8. CASE CopyFromDraughtsman
  BY <1>8 DEF CopyFromDraughtsman, Tracked
<1>9. CASE GetObject
  BY <1>9 DEF GetObject, NextObject, Tracked
<1>10. CASE CreateObject
  BY <1>10 DEF CreateObject, PutObject, NextObject, Tracked
<1>11. CASE UpdateObject
  BY <1>11 DEF UpdateObject, PutObject, NextObject, Tracked
<1>12. CASE WriteFails
  BY <1>12 DEF WriteFails, Tracked
<1>13. CASE Refetch
  BY <1>13 DEF Refetch, Tracked
<1>14. CASE DeleteNext
  BY <1>14 DEF DeleteNext, Tracked
<1>15. CASE Annotate
  BY <1>15 DEF Annotate, LoopHasFinalizer
<1>16. CASE UpdateStatus
  BY <1>16 DEF UpdateStatus, LoopHasFinalizer
<1>17. CASE ConfigConflict
  BY <1>17 DEF ConfigConflict, Tracked
<1>18. CASE Finish
  BY <1>18 DEF Finish, Tracked
<1>19. ASSUME NEW a \in Apps, CreateConfig(a)
      PROVE  UntrackedUntilAdopted'
  BY <1>19, BlankTracksNothingNext DEF CreateConfig
<1>20. ASSUME NEW a \in Apps, EditSpec(a)
      PROVE  UntrackedUntilAdopted'
  <2>1. Tracked' = Tracked
    BY <1>20 DEF EditSpec, Tracked, TypeOK, ConfigCR
  <2> QED BY <1>20, <2>1 DEF EditSpec
<1>21. CASE DeleteConfig
  BY <1>21, BlankTracksNothingNext DEF DeleteConfig
<1>22. ASSUME NEW a \in Apps, NEW v \in Versions \cup {None, Unknown}, ChangeCatalog(a, v)
      PROVE  UntrackedUntilAdopted'
  BY <1>22 DEF ChangeCatalog, Tracked
<1>23. ASSUME NEW k \in Kinds, PushUpstream(k)
      PROVE  UntrackedUntilAdopted'
  BY <1>23 DEF PushUpstream, Tracked
<1>24. ASSUME NEW k \in Kinds, NEW n \in Names, RemoveObject(k, n)
      PROVE  UntrackedUntilAdopted'
  BY <1>24 DEF RemoveObject, Tracked
<1>25. CASE Fail
  BY <1>25 DEF Fail, Tracked
<1>26. ASSUME NEW k \in Kinds, NEW n \in Names, EditObject(k, n)
      PROVE  UntrackedUntilAdopted'
  BY <1>26 DEF EditObject, Tracked
<1> QED
  BY <1>1, <1>2, <1>3, <1>4, <1>5, <1>6, <1>7, <1>8, <1>9, <1>10, <1>11,
     <1>12, <1>13, <1>14, <1>15, <1>16, <1>17, <1>18, <1>19, <1>20, <1>21,
     <1>22, <1>23, <1>24, <1>25, <1>26
     DEF Next, Worker, Environment

-----------------------------------------------------------------------------
(* The objects a loop has gone through *)

LEMMA PutEnsures ==
  ASSUME TypeOK, LoopComputed, LoopEnsured, pc = "write", PutObject
  PROVE  LoopEnsured'
<1>1. name \in Names /\ kind \in Kinds
  BY DEF LoopComputed, TypeOK
<1>2. objects'[kind][name] = Wanted(kind)
  BY <1>1 DEF PutObject, TypeOK
<1>3. \A k \in Kinds : k # kind => objects'[k][name] = objects[k][name]
  BY <1>1 DEF PutObject, TypeOK
<1>4. \A k \in Kinds : Wanted(k)' = Wanted(k)
  BY DEF PutObject, Wanted
<1>5. name' = name /\ pass' = pass
  BY DEF PutObject
<1>6. \A k \in Kinds : Hashed(Wanted(k)) = Wanted(k)
  BY DEF Hashed, Wanted
<1>7. CASE kind = "configmap"
  <2>1. Ensured("configmap")'
    BY <1>2, <1>4, <1>5, <1>6, <1>7 DEF Ensured
  <2> QED BY <2>1, <1>5, <1>7 DEF PutObject, NextObject, LoopEnsured
<1>8. CASE kind = "secret"
  <2>1. Ensured("configmap")
    BY <1>8 DEF LoopEnsured
  <2>2. \A k \in Kinds : Ensured(k)'
    BY <1>2, <1>3, <1>4, <1>5, <1>8, <1>6, <2>1 DEF Ensured
  <2> QED BY <2>2, <1>5, <1>8 DEF PutObject, NextObject, LoopEnsured
<1> QED BY <1>1, <1>7, <1>8

\* Objects that only vanish, or are edited under their annotations, stay ensured.
LEMMA VanishingEnsures ==
  ASSUME LoopEnsured,
         \A k \in Kinds, n \in Names :
           \/ objects'[k][n] \in {None, objects[k][n]}
           \/ objects[k][n] # None /\ Hashed(objects'[k][n]) = Hashed(objects[k][n]),
         LoopComputed, UNCHANGED <<pc, name, kind, rendered, pass, version>>,
         config'.status = config.status
  PROVE  LoopEnsured'
<1>1. \A k \in Kinds : name \in Names /\ Ensured(k) => Ensured(k)'
  BY DEF Ensured, Wanted
<1> QED BY <1>1 DEF LoopEnsured, LoopComputed

LEMMA EnsuredStep ==
  ASSUME TypeOK, LoopHasFinalizer, CopyIsStored, LoopComputed, LoopEnsured, Next
  PROVE  LoopEnsured'
<1>1. CASE AddFinalizer
  <2>1. \A l \in Kinds : Ensured(l)' <=> Ensured(l)
    BY <1>1 DEF AddFinalizer, Ensured, Wanted
  <2> QED BY <1>1, <2>1 DEF AddFinalizer, LoopEnsured, LoopHasFinalizer, CopyIsStored
<1>2. CASE StartLoop
  <2>1. \A l \in Kinds : Ensured(l)' <=> Ensured(l)
    BY <1>2 DEF StartLoop, Ensured, Wanted
  <2> QED BY <1>2, <2>1 DEF StartLoop, LoopEnsured, LoopHasFinalizer, CopyIsStored
<1>3. CASE StartPurge
  <2>1. \A l \in Kinds : Ensured(l)' <=> Ensured(l)
    BY <1>3 DEF StartPurge, Ensured, Wanted
  <2> QED BY <1>3, <2>1 DEF StartPurge, LoopEnsured, LoopHasFinalizer, CopyIsStored
<1>4. CASE RemoveFinalizer
  BY <1>4, AbandonStarts DEF RemoveFinalizer
<1>5. CASE ResolveVersion
  BY <1>5 DEF ResolveVersion, LoopEnsured, LoopHasFinalizer
<1>6. CASE ResolveFails
  BY <1>6, AbandonStarts DEF ResolveFails
<1>7. CASE Generate
  BY <1>7 DEF Generate, LoopEnsured, LoopHasFinalizer
<1>8. CASE CopyFromDraughtsman
  BY <1>8 DEF CopyFromDraughtsman, LoopEnsured, LoopHasFinalizer
<1>9. CASE GetObject
  <2>1. \A l \in Kinds : Ensured(l)' <=> Ensured(l)
    BY <1>9 DEF GetObject, Ensured, Wanted
  <2>2. UpToDate(objects[kind][name], kind) => Ensured(kind)
    BY DEF UpToDate, Ensured
  <2> QED BY <1>9, <2>1, <2>2 DEF GetObject, NextObject, LoopEnsured, TypeOK
<1>10. CASE CreateObject
  BY <1>10, PutEnsures DEF CreateObject
<1>11. CASE UpdateObject
  BY <1>11, PutEnsures DEF UpdateObject
<1>12. CASE WriteFails
  BY <1>12, AbandonStarts DEF WriteFails
<1>13. CASE Refetch
  <2>1. \A l \in Kinds : Ensured(l)' <=> Ensured(l)
    BY <1>13 DEF Refetch, Ensured, Wanted
  <2> QED BY <1>13, <2>1 DEF Refetch, LoopEnsured, LoopHasFinalizer, CopyIsStored,
     TypeOK
<1>14. CASE DeleteNext
  <2>1. \A l \in Kinds, m \in Names : objects'[l][m] \in {None, objects[l][m]}
    BY <1>14 DEF DeleteNext, TypeOK
  <2> QED BY <1>14, <2>1, VanishingEnsures DEF DeleteNext
<1>15. CASE Annotate
  <2>1. \A l \in Kinds : Ensured(l)' <=> Ensured(l)
    BY <1>15 DEF Annotate, Ensured, Wanted
  <2> QED BY <1>15, <2>1 DEF Annotate, Conflict, LoopEnsured, LoopHasFinalizer, CopyIsStored
<1>16. CASE UpdateStatus
  <2>1. \A l \in Kinds : Ensured(l)' <=> Ensured(l)
    BY <1>16 DEF UpdateStatus, Ensured, Wanted
  <2>2. local.status = config.status
    BY <1>16 DEF UpdateStatus, CopyIsStored
  <2>3. config'.status = DesiredStatus
    BY <1>16, <2>2 DEF UpdateStatus, TypeOK, ConfigCR
  <2>4. config'.status.ref = name' /\ config'.status.version = version'
    BY <1>16, <2>3 DEF UpdateStatus, DesiredStatus
  <2> QED BY <1>16, <2>1, <2>4 DEF UpdateStatus, LoopEnsured
<1>17. CASE ConfigConflict
  BY <1>17, AbandonStarts DEF ConfigConflict
<1>18. CASE Finish
  BY <1>18, AbandonStarts DEF Finish
<1>19. ASSUME NEW a \in Apps, CreateConfig(a)
      PROVE  LoopEnsured'
  <2>1. \A l \in Kinds : Ensured(l)' <=> Ensured(l)
    BY <1>19 DEF CreateConfig, Ensured, Wanted
  <2> QED BY <1>19, <2>1 DEF CreateConfig, LoopEnsured, LoopHasFinalizer, CopyIsStored
<1>20. ASSUME NEW a \in Apps, EditSpec(a)
      PROVE  LoopEnsured'
  <2>1. \A l \in Kinds : Ensured(l)' <=> Ensured(l)
    BY <1>20 DEF EditSpec, Ensured, Wanted
  <2> QED BY <1>20, <2>1 DEF EditSpec, LoopEnsured, LoopHasFinalizer, CopyIsStored
<1>21. CASE DeleteConfig
  <2>1. \A l \in Kinds : Ensured(l)' <=> Ensured(l)
    BY <1>21 DEF DeleteConfig, Ensured, Wanted
  <2> QED BY <1>21, <2>1 DEF DeleteConfig, LoopEnsured, LoopHasFinalizer, CopyIsStored
<1>22. ASSUME NEW a \in Apps, NEW v \in Versions \cup {None, Unknown}, ChangeCatalog(a, v)
      PROVE  LoopEnsured'
  <2>1. \A l \in Kinds : Ensured(l)' <=> Ensured(l)
    BY <1>22 DEF ChangeCatalog, Ensured, Wanted
  <2> QED BY <1>22, <2>1 DEF ChangeCatalog, LoopEnsured, LoopHasFinalizer, CopyIsStored
<1>23. ASSUME NEW k \in Kinds, PushUpstream(k)
      PROVE  LoopEnsured'
  <2>1. \A l \in Kinds : Ensured(l)' <=> Ensured(l)
    BY <1>23 DEF PushUpstream, Ensured, Wanted
  <2> QED BY <1>23, <2>1 DEF PushUpstream, LoopEnsured, LoopHasFinalizer, CopyIsStored
<1>24. ASSUME NEW k \in Kinds, NEW n \in Names, RemoveObject(k, n)
      PROVE  LoopEnsured'
  <2>1. \A l \in Kinds, m \in Names : objects'[l][m] \in {None, objects[l][m]}
    BY <1>24 DEF RemoveObject, TypeOK
  <2> QED BY <1>24, <2>1, VanishingEnsures DEF RemoveObject
<1>25. CASE Fail
  BY <1>25, AbandonStarts DEF Fail
<1>26. ASSUME NEW k \in Kinds, NEW n \in Names, EditObject(k, n)
      PROVE  LoopEnsured'
  BY <1>26, EditedObject, VanishingEnsures DEF EditObject
<1> QED
  BY <1>1, <1>2, <1>3, <1>4, <1>5, <1>6, <1>7, <1>8, <1>9, <1>10, <1>11,
     <1>12, <1>13, <1>14, <1>15, <1>16, <1>17, <1>18, <1>19, <1>20, <1>21,
     <1>22, <1>23, <1>24, <1>25, <1>26
     DEF Next, Worker, Environment

-----------------------------------------------------------------------------
(* The spec *)

LEMMA SpecStep ==
  ASSUME CopyIsStored, TypeOK, SpecIsUsers, Next
  PROVE  SpecIsUsers'
<1> USE DEF SpecIsUsers, NewConfig
<1>1. CASE AddFinalizer
  BY <1>1 DEF AddFinalizer
<1>2. CASE StartLoop
  BY <1>2 DEF StartLoop
<1>3. CASE StartPurge
  BY <1>3 DEF StartPurge
<1>4. CASE RemoveFinalizer
  BY <1>4 DEF RemoveFinalizer
<1>5. CASE ResolveVersion
  BY <1>5 DEF ResolveVersion
<1>6. CASE ResolveFails
  BY <1>6 DEF ResolveFails
<1>7. CASE Generate
  BY <1>7 DEF Generate
<1>8. CASE CopyFromDraughtsman
  BY <1>8 DEF CopyFromDraughtsman
<1>9. CASE GetObject
  BY <1>9 DEF GetObject, NextObject
<1>10. CASE CreateObject
  BY <1>10 DEF CreateObject, PutObject, NextObject
<1>11. CASE UpdateObject
  BY <1>11 DEF UpdateObject, PutObject, NextObject
<1>12. CASE WriteFails
  BY <1>12 DEF WriteFails
<1>13. CASE Refetch
  BY <1>13 DEF Refetch
<1>14. CASE DeleteNext
  BY <1>14 DEF DeleteNext
<1>15. CASE Annotate
  BY <1>15 DEF Annotate, Conflict, CopyIsStored, Conflict
<1>16. CASE UpdateStatus
  BY <1>16 DEF UpdateStatus, Conflict, DesiredStatus, TypeOK, ConfigCR
<1>17. CASE ConfigConflict
  BY <1>17 DEF ConfigConflict
<1>18. CASE Finish
  BY <1>18 DEF Finish
<1>19. ASSUME NEW a \in Apps, CreateConfig(a)
      PROVE  SpecIsUsers'
  BY <1>19 DEF CreateConfig
<1>20. ASSUME NEW a \in Apps, EditSpec(a)
      PROVE  SpecIsUsers'
  BY <1>20 DEF EditSpec, TypeOK, ConfigCR
<1>21. CASE DeleteConfig
  BY <1>21 DEF DeleteConfig
<1>22. ASSUME NEW a \in Apps, NEW v \in Versions \cup {None, Unknown}, ChangeCatalog(a, v)
      PROVE  SpecIsUsers'
  BY <1>22 DEF ChangeCatalog
<1>23. ASSUME NEW k \in Kinds, PushUpstream(k)
      PROVE  SpecIsUsers'
  BY <1>23 DEF PushUpstream
<1>24. ASSUME NEW k \in Kinds, NEW n \in Names, RemoveObject(k, n)
      PROVE  SpecIsUsers'
  BY <1>24 DEF RemoveObject
<1>25. CASE Fail
  BY <1>25 DEF Fail
<1>26. ASSUME NEW k \in Kinds, NEW n \in Names, EditObject(k, n)
      PROVE  SpecIsUsers'
  BY <1>26 DEF EditObject
<1> QED
  BY <1>1, <1>2, <1>3, <1>4, <1>5, <1>6, <1>7, <1>8, <1>9, <1>10, <1>11,
     <1>12, <1>13, <1>14, <1>15, <1>16, <1>17, <1>18, <1>19, <1>20, <1>21,
     <1>22, <1>23, <1>24, <1>25, <1>26
     DEF Next, Worker, Environment

-----------------------------------------------------------------------------
(* The objects still to be deleted *)

LEMMA PairCovers ==
  ASSUME NEW n
  PROVE  /\ Len(Pair(n)) = 2
         /\ \A i \in 1 .. 2 : Pair(n)[i][2] = n
         /\ \A k \in Kinds : \E i \in 1 .. 2 : Pair(n)[i] = <<k, n>>
<1>1. Pair(n)[1] = <<"configmap", n>> /\ Pair(n)[2] = <<"secret", n>>
  BY DEF Pair
<1> QED BY <1>1 DEF Pair

LEMMA OrphanedCovers ==
  ASSUME NEW c \in ConfigCR
  PROVE  /\ \A i \in 1 .. Len(Orphaned(c)) : Orphaned(c)[i][2] # c.status.ref
         /\ \A k \in Kinds :
              c.prev \notin {None, c.status.ref} =>
                \E i \in 1 .. Len(Orphaned(c)) : Orphaned(c)[i] = <<k, c.prev>>
BY PairCovers DEF Orphaned

LEMMA CurrentCovers ==
  ASSUME NEW c \in ConfigCR, c.status.ref # None, NEW k \in Kinds
  PROVE  \E i \in 1 .. Len(Current(c)) : Current(c)[i] = <<k, c.status.ref>>
BY PairCovers DEF Current

LEMMA PurgeCovers ==
  ASSUME NEW c \in ConfigCR, NEW k \in Kinds,
         NEW n \in {c.status.ref, c.prev} \ {None}
  PROVE  \E i \in 1 .. Len(Current(c) \o Orphaned(c)) :
            (Current(c) \o Orphaned(c))[i] = <<k, n>>
<1> DEFINE s == Current(c)
           t == Orphaned(c)
<1>1. s \in Seq(Kinds \X Names) /\ t \in Seq(Kinds \X Names)
  BY ReferencesType
<1>2. CASE n = c.status.ref
  <2>1. PICK i \in 1 .. Len(s) : s[i] = <<k, n>>
    BY <1>2, CurrentCovers
  <2>2. i \in 1 .. Len(s \o t) /\ (s \o t)[i] = <<k, n>>
    BY <1>1, <2>1
  <2> QED BY <2>2
<1>3. CASE n # c.status.ref
  <2>1. n = c.prev /\ c.prev \notin {None, c.status.ref}
    BY <1>3
  <2>2. PICK i \in 1 .. Len(t) : t[i] = <<k, n>>
    BY <2>1, OrphanedCovers
  <2> DEFINE j == Len(s) + i
  <2>3. j \in 1 .. Len(s \o t) /\ (s \o t)[j] = <<k, n>>
    BY <1>1, <2>2
  <2> QED BY <2>3
<1> QED BY <1>2, <1>3

\* Deleting the head of todo removes one entry and the object it stands for.
LEMMA DeleteCovers ==
  ASSUME TypeOK, DeleteNext, NEW k \in Kinds, NEW n \in Names,
         objects[k][n] = None \/ InTodo(k, n)
  PROVE  objects'[k][n] = None \/ InTodo(k, n)'
<1>1. todo \in Seq(Kinds \X Names) /\ todo # << >> /\ todo' = Tail(todo)
  BY DEF DeleteNext, TypeOK
<1>2. objects' = [objects EXCEPT ![Head(todo)[1]][Head(todo)[2]] = None]
  BY DEF DeleteNext
<1>3. Head(todo) \in Kinds \X Names /\ Head(todo) = todo[1]
  BY <1>1
<1>4. CASE objects[k][n] = None
  BY <1>2, <1>3, <1>4 DEF TypeOK
<1>5. CASE InTodo(k, n)
  <2>1. PICK i \in 1 .. Len(todo) : todo[i] = <<k, n>>
    BY <1>5 DEF InTodo
  <2>2. CASE i = 1
    <3>1. Head(todo)[1] = k /\ Head(todo)[2] = n
      BY <1>3, <2>1, <2>2
    <3> QED BY <1>2, <3>1 DEF TypeOK
  <2>3. CASE i # 1
    <3>1. i - 1 \in 1 .. Len(todo') /\ todo'[i - 1] = <<k, n>>
      BY <1>1, <2>1, <2>3
    <3> QED BY <3>1 DEF InTodo
  <2> QED BY <2>2, <2>3
<1> QED BY <1>4, <1>5

\* A step that keeps the references and the list, and creates no object.
LEMMA VanishingCovers ==
  ASSUME TypeOK, TodoIsOrphans, UNCHANGED <<pc, todo>>,
         config'.status = config.status, config'.prev = config.prev,
         \A k \in Kinds, n \in Names : objects[k][n] = None => objects'[k][n] = None
  PROVE  TodoIsOrphans'
<1>1. Tracked' = Tracked /\ Tracked \subseteq Names
  BY DEF Tracked, TypeOK, ConfigCR, Status, Refs
<1>2. \A k \in Kinds, n \in Names : InTodo(k, n)' <=> InTodo(k, n)
  BY DEF InTodo
<1> QED BY <1>1, <1>2 DEF TodoIsOrphans

LEMMA TodoStep ==
  ASSUME TypeOK, LoopHasFinalizer, TodoIsOrphans, Next
  PROVE  TodoIsOrphans'
<1>1. CASE AddFinalizer
  BY <1>1 DEF AddFinalizer, TodoIsOrphans, LoopHasFinalizer
<1>2. CASE StartLoop
  BY <1>2 DEF StartLoop, TodoIsOrphans, LoopHasFinalizer
<1>3. CASE StartPurge
  <2>1. config \in ConfigCR /\ config' = config
    BY <1>3 DEF StartPurge, TypeOK
  <2>2. pc' = "purge" /\ todo' = Current(config) \o Orphaned(config)
    BY <1>3 DEF StartPurge
  <2>3. \A k \in Kinds, n \in Tracked : InTodo(k, n)'
    BY <2>1, <2>2, PurgeCovers DEF Tracked, InTodo
  <2> QED BY <2>1, <2>2, <2>3 DEF TodoIsOrphans, Tracked
<1>4. CASE RemoveFinalizer
  BY <1>4, AbandonStarts DEF RemoveFinalizer
<1>5. CASE ResolveVersion
  BY <1>5 DEF ResolveVersion, TodoIsOrphans, LoopHasFinalizer
<1>6. CASE ResolveFails
  BY <1>6, AbandonStarts DEF ResolveFails
<1>7. CASE Generate
  BY <1>7 DEF Generate, TodoIsOrphans, LoopHasFinalizer
<1>8. CASE CopyFromDraughtsman
  BY <1>8 DEF CopyFromDraughtsman, TodoIsOrphans, LoopHasFinalizer
<1>9. CASE GetObject
  BY <1>9 DEF GetObject, NextObject, TodoIsOrphans, LoopHasFinalizer
<1>10. CASE CreateObject
  BY <1>10 DEF CreateObject, PutObject, NextObject, TodoIsOrphans, LoopHasFinalizer
<1>11. CASE UpdateObject
  BY <1>11 DEF UpdateObject, PutObject, NextObject, TodoIsOrphans, LoopHasFinalizer
<1>12. CASE WriteFails
  BY <1>12, AbandonStarts DEF WriteFails
<1>13. CASE Refetch
  <2>1. config \in ConfigCR /\ config' = config
    BY <1>13 DEF Refetch, TypeOK
  <2>2. CASE Clean(config)
    BY <1>13, <2>2 DEF Refetch, TodoIsOrphans
  <2>3. CASE ~Clean(config)
    <3>1. pc' = "cleanup" /\ todo' = Orphaned(config)
      BY <1>13, <2>3 DEF Refetch
    <3>2. \A k \in Kinds, n \in Tracked : n # config.status.ref => InTodo(k, n)'
      BY <2>1, <3>1, OrphanedCovers DEF Tracked, InTodo
    <3>3. \A i \in 1 .. Len(todo') : todo'[i][2] # config'.status.ref
      BY <2>1, <3>1, OrphanedCovers
    <3> QED BY <2>1, <3>1, <3>2, <3>3 DEF TodoIsOrphans, Tracked
  <2> QED BY <2>2, <2>3
<1>14. CASE DeleteNext
  <2>1. UNCHANGED <<pc, config>> /\ pc \in {"cleanup", "purge"}
    BY <1>14 DEF DeleteNext
  <2>2. todo \in Seq(Kinds \X Names) /\ todo # << >> /\ todo' = Tail(todo)
    BY <1>14 DEF DeleteNext, TypeOK
  <2>3. Tracked' = Tracked /\ Tracked \subseteq Names
    BY <2>1 DEF Tracked, TypeOK, ConfigCR, Status, Refs
  <2>4. pc = "cleanup" => \A i \in 1 .. Len(todo') : todo'[i][2] # config.status.ref
    BY <2>2 DEF TodoIsOrphans
  <2>5. \A k \in Kinds, n \in Tracked :
          \/ pc = "cleanup" /\ n = config.status.ref
          \/ objects'[k][n] = None
          \/ InTodo(k, n)'
    BY <1>14, <2>1, <2>3, DeleteCovers DEF TodoIsOrphans
  <2> QED BY <2>1, <2>3, <2>4, <2>5 DEF TodoIsOrphans
<1>15. CASE Annotate
  BY <1>15 DEF Annotate, Conflict, TodoIsOrphans, LoopHasFinalizer
<1>16. CASE UpdateStatus
  BY <1>16 DEF UpdateStatus, Conflict, DesiredStatus, TodoIsOrphans, LoopHasFinalizer
<1>17. CASE ConfigConflict
  BY <1>17, AbandonStarts DEF ConfigConflict
<1>18. CASE Finish
  BY <1>18, AbandonStarts DEF Finish
<1>19. ASSUME NEW a \in Apps, CreateConfig(a)
      PROVE  TodoIsOrphans'
  BY <1>19 DEF CreateConfig, TodoIsOrphans, LoopHasFinalizer
<1>20. ASSUME NEW a \in Apps, EditSpec(a)
      PROVE  TodoIsOrphans'
  <2>1. UNCHANGED <<pc, todo>>
    BY <1>20 DEF EditSpec
  <2>2. config'.status = config.status /\ config'.prev = config.prev
    BY <1>20 DEF EditSpec, TypeOK, ConfigCR
  <2>3. \A l \in Kinds, m \in Names : objects'[l][m] \in {None, objects[l][m]}
    BY <1>20 DEF EditSpec, TypeOK
  <2> QED BY <2>1, <2>2, <2>3, VanishingCovers
<1>21. CASE DeleteConfig
  <2>1. UNCHANGED <<pc, todo, objects>>
    BY <1>21 DEF DeleteConfig
  <2>2. CASE phase = "new"
    BY <1>21, <2>1, <2>2 DEF LoopHasFinalizer, TodoIsOrphans
  <2>3. CASE phase # "new"
    <3>1. config' = config
      BY <1>21, <2>3 DEF DeleteConfig
    <3> QED BY <2>1, <3>1, VanishingCovers
  <2> QED BY <2>2, <2>3
<1>22. ASSUME NEW a \in Apps, NEW v \in Versions \cup {None, Unknown}, ChangeCatalog(a, v)
      PROVE  TodoIsOrphans'
  <2>1. UNCHANGED <<pc, todo>>
    BY <1>22 DEF ChangeCatalog
  <2>2. config'.status = config.status /\ config'.prev = config.prev
    BY <1>22 DEF ChangeCatalog, TypeOK, ConfigCR
  <2>3. \A l \in Kinds, m \in Names : objects'[l][m] \in {None, objects[l][m]}
    BY <1>22 DEF ChangeCatalog, TypeOK
  <2> QED BY <2>1, <2>2, <2>3, VanishingCovers
<1>23. ASSUME NEW k \in Kinds, PushUpstream(k)
      PROVE  TodoIsOrphans'
  <2>1. UNCHANGED <<pc, todo>>
    BY <1>23 DEF PushUpstream
  <2>2. config'.status = config.status /\ config'.prev = config.prev
    BY <1>23 DEF PushUpstream, TypeOK, ConfigCR
  <2>3. \A l \in Kinds, m \in Names : objects'[l][m] \in {None, objects[l][m]}
    BY <1>23 DEF PushUpstream, TypeOK
  <2> QED BY <2>1, <2>2, <2>3, VanishingCovers
<1>24. ASSUME NEW k \in Kinds, NEW n \in Names, RemoveObject(k, n)
      PROVE  TodoIsOrphans'
  <2>1. UNCHANGED <<pc, todo>>
    BY <1>24 DEF RemoveObject
  <2>2. config'.status = config.status /\ config'.prev = config.prev
    BY <1>24 DEF RemoveObject, TypeOK, ConfigCR
  <2>3. \A l \in Kinds, m \in Names : objects'[l][m] \in {None, objects[l][m]}
    BY <1>24 DEF RemoveObject, TypeOK
  <2> QED BY <2>1, <2>2, <2>3, VanishingCovers
<1>25. CASE Fail
  BY <1>25, AbandonStarts DEF Fail
<1>26. ASSUME NEW k \in Kinds, NEW n \in Names, EditObject(k, n)
      PROVE  TodoIsOrphans'
  <2>1. UNCHANGED <<pc, todo, config>>
    BY <1>26 DEF EditObject
  <2> QED BY <1>26, <2>1, EditedObject, VanishingCovers
<1> QED
  BY <1>1, <1>2, <1>3, <1>4, <1>5, <1>6, <1>7, <1>8, <1>9, <1>10, <1>11,
     <1>12, <1>13, <1>14, <1>15, <1>16, <1>17, <1>18, <1>19, <1>20, <1>21,
     <1>22, <1>23, <1>24, <1>25, <1>26
     DEF Next, Worker, Environment

-----------------------------------------------------------------------------
(* The inductive invariant and what follows from it *)

LEMMA InitInductive == Init => Inductive
<1> SUFFICES ASSUME Init PROVE Inductive
  OBVIOUS
<1>1. TypeOK
  BY InitType
<1>2. LoopHasFinalizer /\ UntrackedUntilAdopted /\ CopyIsStored /\ LoopComputed
  BY BlankTracksNothing DEF Init, UntrackedUntilAdopted, LoopHasFinalizer, CopyIsStored, LoopComputed
<1>3. TodoIsOrphans /\ LoopEnsured /\ SpecIsUsers
  BY DEF Init, TodoIsOrphans, LoopEnsured, SpecIsUsers
<1> QED BY <1>1, <1>2, <1>3 DEF Inductive

LEMMA StutterInductive ==
  ASSUME Inductive, UNCHANGED vars
  PROVE  Inductive'
<1> USE DEF vars
<1>1. TypeOK'
  BY DEF Inductive, TypeOK
<1>2. LoopHasFinalizer' /\ CopyIsStored' /\ LoopComputed' /\ SpecIsUsers'
  BY DEF Inductive, LoopHasFinalizer, CopyIsStored, Clean, LoopComputed, SpecIsUsers
<1>3. Tracked' = Tracked /\ (\A k \in Kinds, n \in Names : InTodo(k, n)' <=> InTodo(k, n))
  BY DEF Tracked, InTodo
<1>4. Tracked \subseteq Names
  BY DEF Inductive, TypeOK, ConfigCR, Status, Refs, Tracked
<1>5. TodoIsOrphans' /\ UntrackedUntilAdopted'
  BY <1>3, <1>4 DEF Inductive, TodoIsOrphans, UntrackedUntilAdopted
<1>6. \A k \in Kinds : Ensured(k)' <=> Ensured(k)
  BY DEF Ensured, Wanted
<1>7. LoopEnsured'
  BY <1>6 DEF Inductive, LoopEnsured
<1> QED BY <1>1, <1>2, <1>5, <1>7 DEF Inductive

LEMMA NextInductive ==
  ASSUME Inductive, Next
  PROVE  Inductive'
<1>1. TypeOK'
  BY WorkerType, EnvironmentType DEF Inductive, Next
<1>2. LoopHasFinalizer' /\ UntrackedUntilAdopted' /\ CopyIsStored' /\ LoopComputed'
  BY UntrackedStep, FinalizerStep, CopyStep, ComputedStep DEF Inductive
<1>3. TodoIsOrphans' /\ LoopEnsured' /\ SpecIsUsers'
  BY TodoStep, EnsuredStep, SpecStep DEF Inductive
<1> QED BY <1>1, <1>2, <1>3 DEF Inductive

\* A step of somebody else, which writes no object while a loop runs.
LEMMA OthersStep ==
  ASSUME Inductive, UNCHANGED <<phase, config, pc, locals, asked>>,
         pc = "idle" \/ UNCHANGED objects,
         objects' \in [Kinds -> [Names -> Object \cup {None}]],
         catalog' \in [Apps -> Versions \cup {None, Unknown}],
         upstream' \in [Kinds -> Nat], events' \in Nat
  PROVE  Inductive'
<1>1. TypeOK'
  BY DEF Inductive, TypeOK
<1>2. LoopHasFinalizer' /\ CopyIsStored' /\ LoopComputed' /\ SpecIsUsers'
  BY DEF Inductive, LoopHasFinalizer, CopyIsStored, Clean, LoopComputed, SpecIsUsers
<1>3. Tracked' = Tracked
  BY DEF Tracked
<1>4. CASE pc = "idle"
  <2>2. TodoIsOrphans' /\ LoopEnsured' /\ UntrackedUntilAdopted'
    BY <1>3, <1>4 DEF Inductive, TodoIsOrphans, LoopEnsured, UntrackedUntilAdopted
  <2> QED BY <1>1, <1>2, <2>2 DEF Inductive
<1>5. CASE UNCHANGED objects
  <2>1. \A k \in Kinds, n \in Names : InTodo(k, n)' <=> InTodo(k, n)
    BY DEF InTodo
  <2>2. Tracked \subseteq Names
    BY DEF Inductive, TypeOK, ConfigCR, Status, Refs, Tracked
  <2>3. TodoIsOrphans' /\ UntrackedUntilAdopted'
    BY <1>3, <1>5, <2>1, <2>2 DEF Inductive, TodoIsOrphans, UntrackedUntilAdopted
  <2>4. \A k \in Kinds : Ensured(k)' <=> Ensured(k)
    BY <1>5 DEF Ensured, Wanted
  <2>5. LoopEnsured'
    BY <2>4 DEF Inductive, LoopEnsured
  <2> QED BY <1>1, <1>2, <2>3, <2>5 DEF Inductive
<1> QED BY <1>4, <1>5

\* Every reachable state of the reconciler satisfies the inductive invariant.
THEOREM Invariance == Spec => []Inductive
<1>1. Inductive /\ [Next]_vars => Inductive'
  BY NextInductive, StutterInductive
<1> QED BY InitInductive, <1>1, PTL DEF Spec

\* Every variable keeps its type, whatever the Apps, versions and events.
THEOREM TypeCorrect == Spec => []TypeOK
<1>1. Inductive => TypeOK
  BY DEF Inductive
<1> QED BY Invariance, <1>1, PTL

\* No write of the controller ever takes back what a user wrote to .spec.app,
\* because the Update that sets the annotation needs the resourceVersion of the
\* Config the spec was read from.
THEOREM SpecPreserved == Spec => []SpecIsUsers
<1>1. Inductive => SpecIsUsers
  BY DEF Inductive
<1> QED BY Invariance, <1>1, PTL

\* A loop that ends without error reports what it rendered, and what is left
\* at the reported reference is exactly that.
THEOREM DoneCorrect == Spec => []DoneMeansRendered
<1>1. Inductive => DoneMeansRendered
  BY DEF Inductive, LoopEnsured, Ensured, DoneMeansRendered
<1> QED BY Invariance, <1>1, PTL

-----------------------------------------------------------------------------
(* Every loop comes to an end *)

\* The calls that the running loop may still make.  After its first clean-up it
\* writes the status and cleans up once more; a clean-up that deletes anything
\* sets the annotation, so that the one it starts again finds nothing to do.
AfterCleanUp == IF pass = 1 THEN 7 ELSE 1

CallsLeft ==
  CASE pc = "idle"     -> 0
    [] pc = "purge"    -> Len(todo) + 1
    [] pc = "done"     -> 1
    [] pc = "status"   -> 7
    [] pc = "cleanup"  -> AfterCleanUp + Len(todo) + 2
    [] pc = "refetch"  -> AfterCleanUp + IF Clean(config) THEN 1 ELSE 5
    [] pc = "write"    -> IF kind = "secret" THEN 13 ELSE 15
    [] pc = "get"      -> IF kind = "secret" THEN 14 ELSE 16
    [] pc = "copy"     -> IF kind = "secret" THEN 17 ELSE 18
    [] pc = "generate" -> 17
    [] pc = "resolve"  -> 19

LEMMA CallsLeftType ==
  ASSUME TypeOK
  PROVE  CallsLeft \in Nat /\ (pc # "idle" => CallsLeft > 0)
<1>1. Len(todo) \in Nat
  BY DEF TypeOK
<1> QED BY <1>1 DEF CallsLeft, AfterCleanUp, TypeOK

\* A Config refers to two pairs of objects at most, and one of them is orphaned.
LEMMA ReferencesShort ==
  ASSUME NEW c \in ConfigCR
  PROVE  /\ Len(Orphaned(c)) <= 2
         /\ Len(Current(c) \o Orphaned(c)) <= 4
<1> DEFINE o == Orphaned(c)
           r == Current(c)
<1>1. Len(o) <= 2 /\ Len(r) <= 2
  BY DEF Orphaned, Current, Pair
<1>2. o \in Seq(Kinds \X Names) /\ r \in Seq(Kinds \X Names)
  BY ReferencesType
<1> HIDE DEF o, r
<1>3. Len(r \o o) <= 4
  BY <1>1, <1>2
<1> QED BY <1>1, <1>3 DEF o, r

LEMMA WorkerCountsDown ==
  ASSUME Inductive, Worker, pc # "idle", pc' # "idle"
  PROVE  CallsLeft' < CallsLeft
<1> USE DEF CallsLeft, AfterCleanUp
<1>a. TypeOK /\ LoopHasFinalizer /\ CopyIsStored /\ LoopEnsured
  BY DEF Inductive
<1>b. pass \in {1, 2} /\ kind \in Kinds /\ todo \in Seq(Kinds \X Names) /\ Len(todo) \in Nat
  BY <1>a DEF TypeOK
<1>1. CASE ResolveVersion
  BY <1>a, <1>1 DEF ResolveVersion, LoopHasFinalizer
<1>2. CASE Generate
  BY <1>a, <1>2 DEF Generate, LoopHasFinalizer
<1>3. CASE CopyFromDraughtsman
  BY <1>b, <1>3 DEF CopyFromDraughtsman
<1>4. CASE GetObject
  <2>1. pass = 1
    BY <1>a, <1>b, <1>4 DEF GetObject, LoopEnsured
  <2> QED BY <1>b, <1>4, <2>1 DEF GetObject, NextObject
<1>5. ASSUME pc = "write", PutObject PROVE CallsLeft' < CallsLeft
  BY <1>b, <1>5 DEF PutObject, NextObject
<1>6. CASE Refetch
  <2>1. config \in ConfigCR /\ pass' = pass
    BY <1>a, <1>6 DEF Refetch, TypeOK
  <2>2. CASE Clean(config)
    BY <1>b, <1>6, <2>1, <2>2 DEF Refetch
  <2>3. CASE ~Clean(config)
    <3>1. pc = "refetch" /\ pc' = "cleanup" /\ todo' = Orphaned(config)
      BY <1>6, <2>3 DEF Refetch
    <3>2. Len(todo') \in Nat /\ Len(todo') <= 2
      BY <2>1, <3>1, ReferencesType, ReferencesShort
    <3>3. CallsLeft = AfterCleanUp + 5
      BY <2>3, <3>1
    <3>4. CallsLeft' = AfterCleanUp' + Len(todo') + 2
      BY <3>1
    <3>5. AfterCleanUp' = AfterCleanUp /\ AfterCleanUp \in Nat
      BY <2>1
    <3> HIDE DEF CallsLeft, AfterCleanUp
    <3> QED BY <3>2, <3>3, <3>4, <3>5
  <2> QED BY <2>2, <2>3
<1>7. CASE DeleteNext
  <2>1. UNCHANGED <<pc, pass>> /\ pc \in {"cleanup", "purge"} /\ todo # << >> /\ todo' = Tail(todo)
    BY <1>7 DEF DeleteNext
  <2>2. Len(todo') = Len(todo) - 1
    BY <1>b, <2>1
  <2> QED BY <1>b, <2>1, <2>2
<1>8. CASE Annotate
  <2>1. pc = "cleanup" /\ pc' = "refetch" /\ todo = << >> /\ pass' = pass
    BY <1>8 DEF Annotate
  <2>2. local.status = config.status
    BY <1>a, <2>1 DEF CopyIsStored
  <2>3. Clean(config)'
    BY <1>8, <2>2 DEF Annotate, Clean
  <2> QED BY <1>b, <2>1, <2>3
<1>9. CASE UpdateStatus
  <2>1. pc = "status" /\ pc' = "refetch" /\ pass' = 2
    BY <1>9 DEF UpdateStatus
  <2> QED BY <2>1
<1> QED BY <1>1, <1>2, <1>3, <1>4, <1>5, <1>6, <1>7, <1>8, <1>9
    DEF Worker, AddFinalizer, StartLoop, StartPurge, RemoveFinalizer, ResolveFails,
        CreateObject, UpdateObject, WriteFails, ConfigConflict, Finish, Abandon

\* Nothing that happens outside gives the running loop more to do.
LEMMA EventsAddNothing ==
  ASSUME Inductive, Environment, pc # "idle", pc' # "idle"
  PROVE  CallsLeft' = CallsLeft
<1>1. TypeOK /\ phase \in {"adopted", "deleting"}
  BY DEF Inductive, LoopHasFinalizer
<1> DEFINE Kept == /\ UNCHANGED <<pc, pass, kind, todo>>
                   /\ config'.status = config.status
                   /\ config'.prev = config.prev
<1> SUFFICES Kept
  BY DEF CallsLeft, AfterCleanUp, Clean
<1>2. ASSUME NEW a \in Apps, CreateConfig(a) \/ EditSpec(a) PROVE Kept
  BY <1>1, <1>2 DEF CreateConfig, EditSpec, TypeOK, ConfigCR
<1>3. CASE DeleteConfig
  BY <1>1, <1>3 DEF DeleteConfig
<1>4. ASSUME NEW a \in Apps, NEW v \in Versions \cup {None, Unknown}, ChangeCatalog(a, v)
      PROVE  Kept
  BY <1>4 DEF ChangeCatalog
<1>5. ASSUME NEW k \in Kinds, PushUpstream(k) PROVE Kept
  BY <1>5 DEF PushUpstream
<1>6. ASSUME NEW k \in Kinds, NEW n \in Names, RemoveObject(k, n) PROVE Kept
  BY <1>6 DEF RemoveObject
<1>7. ASSUME NEW k \in Kinds, NEW n \in Names, EditObject(k, n) PROVE Kept
  BY <1>7 DEF EditObject
<1>8. ~Fail
  BY DEF Fail, Abandon
<1> QED BY <1>2, <1>3, <1>4, <1>5, <1>6, <1>7, <1>8 DEF Environment

LEMMA LoopStep ==
  ASSUME Inductive, CallsLeft \in 0 .. 19, [Next]_vars
  PROVE  CallsLeft' \in 0 .. 19
<1>1. CASE pc' = "idle"
  BY <1>1 DEF CallsLeft
<1>2. CASE pc = "idle" /\ pc' # "idle"
  <2>1. ~Environment
    BY <1>2 DEF Environment, CreateConfig, EditSpec, DeleteConfig, ChangeCatalog,
       PushUpstream, RemoveObject, EditObject, Fail
  <2>2. StartLoop \/ StartPurge
    BY <1>2, <2>1 DEF Next, vars, Worker, AddFinalizer, RemoveFinalizer, ResolveVersion,
       ResolveFails, Generate, CopyFromDraughtsman, GetObject, CreateObject, UpdateObject,
       WriteFails, Refetch, DeleteNext, Annotate, UpdateStatus, ConfigConflict, Finish
  <2>3. CASE StartLoop
    BY <2>3 DEF StartLoop, CallsLeft
  <2>4. CASE StartPurge
    <3>1. pc' = "purge" /\ todo' = Current(config) \o Orphaned(config)
      BY <2>4 DEF StartPurge
    <3>2. Len(todo') \in Nat /\ Len(todo') <= 4
      BY <3>1, ReferencesType, ReferencesShort DEF Inductive, TypeOK
    <3> QED BY <3>1, <3>2 DEF CallsLeft
  <2> QED BY <2>2, <2>3, <2>4
<1>3. CASE pc # "idle" /\ pc' # "idle"
  <2>0. Inductive'
    BY NextInductive, StutterInductive
  <2>1. CallsLeft' \in Nat
    <3>1. (TypeOK => CallsLeft \in Nat)'
      BY CallsLeftType, PTL
    <3> QED BY <2>0, <3>1 DEF Inductive
  <2>2. CallsLeft' <= CallsLeft
    <3>1. CASE UNCHANGED vars
      <4>1. UNCHANGED <<pc, pass, kind, todo, config>>
        BY <3>1 DEF vars
      <4>2. CallsLeft' = CallsLeft
        BY <4>1 DEF CallsLeft, AfterCleanUp, Clean
      <4> QED BY <2>1, <4>2
    <3> QED BY <1>3, <2>1, <3>1, WorkerCountsDown, EventsAddNothing DEF Next
  <2> QED BY <2>1, <2>2
<1> QED BY <1>1, <1>2, <1>3

\* A loop makes no more than 19 calls, whatever edits, failures and removed objects
\* it meets: cleanupOrphanedConfig, which starts itself again, does so once in each
\* of its two runs.
THEOREM LoopIsShort == Spec => [](CallsLeft \in 0 .. 19)
<1>1. Init => CallsLeft \in 0 .. 19
  BY DEF Init, CallsLeft
<1>2. Inductive /\ CallsLeft \in 0 .. 19 /\ [Next]_vars => (CallsLeft \in 0 .. 19)'
  BY LoopStep
<1> QED BY Invariance, <1>1, <1>2, PTL DEF Spec

\* Each call of a loop brings its end nearer, and no event of the outside world
\* puts it off.
THEOREM LoopCountsDown ==
  Spec => [][pc # "idle" /\ pc' # "idle" =>
               \/ Worker /\ CallsLeft' < CallsLeft
               \/ Environment /\ CallsLeft' = CallsLeft]_vars
<1>1. Inductive /\ [Next]_vars =>
        [pc # "idle" /\ pc' # "idle" =>
           \/ Worker /\ CallsLeft' < CallsLeft
           \/ Environment /\ CallsLeft' = CallsLeft]_vars
  BY WorkerCountsDown, EventsAddNothing DEF Next
<1> QED BY Invariance, <1>1, PTL DEF Spec

-----------------------------------------------------------------------------
(* A worker that is not alone *)

\* What is kept by a write of a worker whose copy of the Config is the stored
\* one whenever the API server would accept it.
WriteFollows ==
  /\ phase' \in {phase, "adopted"}
  /\ UNCHANGED <<world, events>>
  /\ fresh' => local' = config'
  /\ config'.app = config.app
  /\ config'.prev # config.prev =>
       config'.prev = config.status.ref /\ config'.status = config.status
  /\ config'.status # config.status =>
       config'.status.app = config.app /\ config'.prev = config.prev

LEMMA CurrentStep ==
  ASSUME TypeOK, LoopHasFinalizer, phase \in {"new", "adopted"},
         fresh => local = config, Worker
  PROVE  WriteFollows
<1> USE DEF WriteFollows
<1>1. CASE AddFinalizer
  BY <1>1 DEF AddFinalizer
<1>2. CASE StartLoop
  BY <1>2 DEF StartLoop
<1>3. ~StartPurge /\ ~RemoveFinalizer
  BY DEF StartPurge, RemoveFinalizer, LoopHasFinalizer
<1>5. CASE ResolveVersion
  BY <1>5 DEF ResolveVersion
<1>6. CASE ResolveFails
  BY <1>6 DEF ResolveFails, Abandon
<1>7. CASE Generate
  BY <1>7 DEF Generate
<1>8. CASE CopyFromDraughtsman
  BY <1>8 DEF CopyFromDraughtsman
<1>9. CASE GetObject
  BY <1>9 DEF GetObject
<1>10. CASE CreateObject
  BY <1>10 DEF CreateObject, PutObject
<1>11. CASE UpdateObject
  BY <1>11 DEF UpdateObject, PutObject
<1>12. CASE WriteFails
  BY <1>12 DEF WriteFails, Abandon
<1>13. CASE Refetch
  BY <1>13 DEF Refetch
<1>14. CASE DeleteNext
  BY <1>14 DEF DeleteNext
<1>15. CASE Annotate
  <2>1. fresh /\ local = config /\ config \in ConfigCR
    BY <1>15 DEF Annotate, Conflict, TypeOK
  <2>2. config' = [app |-> config.app, status |-> config.status, prev |-> config.status.ref]
    BY <1>15, <2>1 DEF Annotate
  <2>3. local' = config' /\ UNCHANGED <<phase, world, events>>
    BY <1>15 DEF Annotate
  <2> QED BY <2>2, <2>3
<1>16. CASE UpdateStatus
  <2> DEFINE c == [config EXCEPT !.status = DesiredStatus]
  <2>0. config \in ConfigCR /\ local \in ConfigCR /\ fresh' = fresh /\ UNCHANGED <<phase, world, events>>
    BY <1>16 DEF UpdateStatus, TypeOK
  <2>1. CASE UNCHANGED config /\ local.status = DesiredStatus
    <3>1. local' = local
      BY <1>16, <2>0, <2>1 DEF UpdateStatus, ConfigCR
    <3> QED BY <2>0, <2>1, <3>1
  <2>2. CASE config' = c /\ fresh
    <3>1. local = config /\ local' = c
      BY <1>16, <2>2 DEF UpdateStatus
    <3>2. c.app = config.app /\ c.prev = config.prev /\ c.status.app = config.app
      BY <2>0, <3>1 DEF ConfigCR, DesiredStatus
    <3> QED BY <2>0, <2>2, <3>1, <3>2
  <2> QED BY <1>16, <2>1, <2>2 DEF UpdateStatus, Conflict
<1>17. CASE ConfigConflict
  BY <1>17 DEF ConfigConflict, Abandon
<1>18. CASE Finish
  BY <1>18 DEF Finish, Abandon
<1> QED
  BY <1>1, <1>2, <1>3, <1>5, <1>6, <1>7, <1>8, <1>9, <1>10, <1>11, <1>12,
     <1>13, <1>14, <1>15, <1>16, <1>17, <1>18 DEF Worker

-----------------------------------------------------------------------------
(* What a worker knows of its own copy and of its own objects *)

LEMMA AbandonStartsAfresh ==
  ASSUME Abandon
  PROVE  RendersOwn' /\ TodoFollowsCopy'
BY DEF Abandon, RendersOwn, TodoFollowsCopy

LEMMA InitOwn == Init => RendersOwn /\ TodoFollowsCopy
BY DEF Init, RendersOwn, TodoFollowsCopy

LEMMA RendersOwnStep ==
  ASSUME TypeOK, LoopHasFinalizer, RendersOwn, Next
  PROVE  RendersOwn'
<1> USE DEF RendersOwn, LoopHasFinalizer
<1>1. CASE AddFinalizer
  BY <1>1 DEF AddFinalizer
<1>2. CASE StartLoop
  BY <1>2 DEF StartLoop
<1>3. CASE StartPurge
  BY <1>3 DEF StartPurge
<1>4. CASE RemoveFinalizer
  BY <1>4, AbandonStartsAfresh DEF RemoveFinalizer
<1>5. CASE ResolveVersion
  BY <1>5 DEF ResolveVersion
<1>6. CASE ResolveFails
  BY <1>6, AbandonStartsAfresh DEF ResolveFails
<1>7. CASE Generate
  BY <1>7 DEF Generate, Rendering
<1>8. CASE CopyFromDraughtsman
  <2>1. Rendering(kind, Draughtsman).by = Project
    BY DEF Rendering
  <2>2. CASE kind = "configmap"
    BY <1>8, <2>1, <2>2 DEF CopyFromDraughtsman, TypeOK
  <2>3. CASE kind = "secret"
    BY <1>8, <2>1, <2>3 DEF CopyFromDraughtsman, TypeOK
  <2> QED BY <2>2, <2>3 DEF TypeOK
<1>9. CASE GetObject
  BY <1>9 DEF GetObject, NextObject
<1>10. CASE CreateObject
  BY <1>10 DEF CreateObject, PutObject, NextObject
<1>11. CASE UpdateObject
  BY <1>11 DEF UpdateObject, PutObject, NextObject
<1>12. CASE WriteFails
  BY <1>12, AbandonStartsAfresh DEF WriteFails
<1>13. CASE Refetch
  BY <1>13 DEF Refetch
<1>14. CASE DeleteNext
  BY <1>14 DEF DeleteNext
<1>15. CASE Annotate
  BY <1>15 DEF Annotate
<1>16. CASE UpdateStatus
  BY <1>16 DEF UpdateStatus
<1>17. CASE ConfigConflict
  BY <1>17, AbandonStartsAfresh DEF ConfigConflict
<1>18. CASE Finish
  BY <1>18, AbandonStartsAfresh DEF Finish
<1>19. ASSUME NEW a \in Apps, CreateConfig(a)
      PROVE  RendersOwn'
  BY <1>19 DEF CreateConfig
<1>20. ASSUME NEW a \in Apps, EditSpec(a)
      PROVE  RendersOwn'
  BY <1>20 DEF EditSpec
<1>21. CASE DeleteConfig
  BY <1>21 DEF DeleteConfig
<1>22. ASSUME NEW a \in Apps, NEW v \in Versions \cup {None, Unknown}, ChangeCatalog(a, v)
      PROVE  RendersOwn'
  BY <1>22 DEF ChangeCatalog
<1>23. ASSUME NEW k \in Kinds, PushUpstream(k)
      PROVE  RendersOwn'
  BY <1>23 DEF PushUpstream
<1>24. ASSUME NEW k \in Kinds, NEW n \in Names, RemoveObject(k, n)
      PROVE  RendersOwn'
  BY <1>24 DEF RemoveObject
<1>25. CASE Fail
  BY <1>25, AbandonStartsAfresh DEF Fail
<1>26. ASSUME NEW k \in Kinds, NEW n \in Names, EditObject(k, n)
      PROVE  RendersOwn'
  BY <1>26 DEF EditObject
<1> QED
  BY <1>1, <1>2, <1>3, <1>4, <1>5, <1>6, <1>7, <1>8, <1>9, <1>10, <1>11,
     <1>12, <1>13, <1>14, <1>15, <1>16, <1>17, <1>18, <1>19, <1>20, <1>21,
     <1>22, <1>23, <1>24, <1>25, <1>26
     DEF Next, Worker, Environment

\* Of the others' writes: each leaves what an object was made of, removes it, or puts
\* one there that this worker has not made.
NotOurs(k, n) ==
  \/ objects'[k][n] \in {None, objects[k][n]}
  \/ objects'[k][n].content.by # Project
  \/ objects[k][n] # None /\ objects'[k][n].content = objects[k][n].content

LEMMA TodoBeside ==
  ASSUME TypeOK, TodoFollowsCopy, UNCHANGED <<pc, local, todo>>,
         \A k \in Kinds, n \in Names : NotOurs(k, n)
  PROVE  TodoFollowsCopy'
<1>1. local.prev \in Names \cup {None}
  BY DEF TypeOK, ConfigCR, Refs
<1>2. \A k \in Kinds, n \in Names : InTodo(k, n)' <=> InTodo(k, n)
  BY DEF InTodo
<1>3. \A k \in Kinds, n \in Names : ~Missed(k, n) => ~Missed(k, n)'
  BY <1>2 DEF NotOurs, Missed
<1>4. Clean(local)' <=> Clean(local)
  BY DEF Clean
<1> QED BY <1>1, <1>3, <1>4 DEF TodoFollowsCopy

LEMMA TodoFollowsStep ==
  ASSUME TypeOK, LoopHasFinalizer, TodoFollowsCopy, Next
  PROVE  TodoFollowsCopy'
<1> USE DEF LoopHasFinalizer, TodoFollowsCopy
<1>1. CASE AddFinalizer
  BY <1>1 DEF AddFinalizer
<1>2. CASE StartLoop
  BY <1>2 DEF StartLoop
<1>3. CASE StartPurge
  BY <1>3 DEF StartPurge
<1>4. CASE RemoveFinalizer
  BY <1>4, AbandonStartsAfresh DEF RemoveFinalizer
<1>5. CASE ResolveVersion
  BY <1>5 DEF ResolveVersion
<1>6. CASE ResolveFails
  BY <1>6, AbandonStartsAfresh DEF ResolveFails
<1>7. CASE Generate
  BY <1>7 DEF Generate
<1>8. CASE CopyFromDraughtsman
  BY <1>8 DEF CopyFromDraughtsman
<1>9. CASE GetObject
  BY <1>9 DEF GetObject, NextObject
<1>10. CASE CreateObject
  BY <1>10 DEF CreateObject, PutObject, NextObject
<1>11. CASE UpdateObject
  BY <1>11 DEF UpdateObject, PutObject, NextObject
<1>12. CASE WriteFails
  BY <1>12, AbandonStartsAfresh DEF WriteFails
<1>13. CASE Refetch
  <2>1. config \in ConfigCR /\ local' = config /\ config.prev \in Names \cup {None}
    BY <1>13 DEF Refetch, TypeOK, ConfigCR, Refs
  <2>2. CASE Clean(config)
    BY <1>13, <2>1, <2>2 DEF Refetch, Clean
  <2>3. CASE ~Clean(config)
    <3>1. pc' = "cleanup" /\ todo' = Orphaned(config)
      BY <1>13, <2>3 DEF Refetch
    <3>2. \A k \in Kinds :
            local'.prev \notin {None, local'.status.ref} => InTodo(k, local.prev)'
      BY <2>1, <3>1, OrphanedCovers DEF InTodo
    <3>3. \A i \in 1 .. Len(todo') : todo'[i][2] # config.status.ref
      BY <2>1, <3>1, OrphanedCovers
    <3> QED BY <2>1, <3>1, <3>2, <3>3 DEF Missed
  <2> QED BY <2>2, <2>3
<1>14. CASE DeleteNext
  <2>1. UNCHANGED <<pc, local>> /\ pc \in {"cleanup", "purge"}
    BY <1>14 DEF DeleteNext
  <2>2. todo \in Seq(Kinds \X Names) /\ todo # << >> /\ todo' = Tail(todo)
    BY <1>14 DEF DeleteNext, TypeOK
  <2>3. pc = "cleanup" => \A i \in 1 .. Len(todo') : todo'[i][2] # local.status.ref
    BY <2>2
  <2>4. Head(todo) \in Kinds \X Names
    BY <2>2
  <2>5. ASSUME NEW k \in Kinds, NEW n \in Names, ~Missed(k, n) PROVE ~Missed(k, n)'
    <3>1. objects'[k][n] \in {None, objects[k][n]}
      BY <1>14, <2>4 DEF DeleteNext, TypeOK
    <3>2. objects[k][n] = None \/ InTodo(k, n) => objects'[k][n] = None \/ InTodo(k, n)'
      BY <1>14, DeleteCovers
    <3> QED BY <2>5, <3>1, <3>2 DEF Missed
  <2>6. local.prev \in Names \cup {None}
    BY DEF TypeOK, ConfigCR, Refs
  <2> QED BY <2>1, <2>3, <2>5, <2>6
<1>15. CASE Annotate
  BY <1>15 DEF Annotate
<1>16. CASE UpdateStatus
  BY <1>16 DEF UpdateStatus
<1>17. CASE ConfigConflict
  BY <1>17, AbandonStartsAfresh DEF ConfigConflict
<1>18. CASE Finish
  BY <1>18, AbandonStartsAfresh DEF Finish
<1>19. ASSUME NEW a \in Apps, CreateConfig(a)
      PROVE  TodoFollowsCopy'
  <2>1. UNCHANGED <<pc, local, todo>>
    BY <1>19 DEF CreateConfig
  <2>2. \A l \in Kinds, m \in Names : NotOurs(l, m)
    BY <1>19 DEF CreateConfig, NotOurs, TypeOK
  <2> QED BY <2>1, <2>2, TodoBeside
<1>20. ASSUME NEW a \in Apps, EditSpec(a)
      PROVE  TodoFollowsCopy'
  <2>1. UNCHANGED <<pc, local, todo>>
    BY <1>20 DEF EditSpec
  <2>2. \A l \in Kinds, m \in Names : NotOurs(l, m)
    BY <1>20 DEF EditSpec, NotOurs, TypeOK
  <2> QED BY <2>1, <2>2, TodoBeside
<1>21. CASE DeleteConfig
  <2>1. UNCHANGED <<pc, local, todo>>
    BY <1>21 DEF DeleteConfig
  <2>2. \A l \in Kinds, m \in Names : NotOurs(l, m)
    BY <1>21 DEF DeleteConfig, NotOurs, TypeOK
  <2> QED BY <2>1, <2>2, TodoBeside
<1>22. ASSUME NEW a \in Apps, NEW v \in Versions \cup {None, Unknown}, ChangeCatalog(a, v)
      PROVE  TodoFollowsCopy'
  <2>1. UNCHANGED <<pc, local, todo>>
    BY <1>22 DEF ChangeCatalog
  <2>2. \A l \in Kinds, m \in Names : NotOurs(l, m)
    BY <1>22 DEF ChangeCatalog, NotOurs, TypeOK
  <2> QED BY <2>1, <2>2, TodoBeside
<1>23. ASSUME NEW k \in Kinds, PushUpstream(k)
      PROVE  TodoFollowsCopy'
  <2>1. UNCHANGED <<pc, local, todo>>
    BY <1>23 DEF PushUpstream
  <2>2. \A l \in Kinds, m \in Names : NotOurs(l, m)
    BY <1>23 DEF PushUpstream, NotOurs, TypeOK
  <2> QED BY <2>1, <2>2, TodoBeside
<1>24. ASSUME NEW k \in Kinds, NEW n \in Names, RemoveObject(k, n)
      PROVE  TodoFollowsCopy'
  <2>1. UNCHANGED <<pc, local, todo>>
    BY <1>24 DEF RemoveObject
  <2>2. \A l \in Kinds, m \in Names : NotOurs(l, m)
    BY <1>24 DEF RemoveObject, NotOurs, TypeOK
  <2> QED BY <2>1, <2>2, TodoBeside
<1>25. CASE Fail
  BY <1>25, AbandonStartsAfresh DEF Fail
<1>26. ASSUME NEW k \in Kinds, NEW n \in Names, EditObject(k, n)
      PROVE  TodoFollowsCopy'
  <2>1. UNCHANGED <<pc, local, todo>>
    BY <1>26 DEF EditObject
  <2>2. \A l \in Kinds, m \in Names : NotOurs(l, m)
    BY <1>26, EditedObject DEF NotOurs
  <2> QED BY <2>1, <2>2, TodoBeside
<1> QED
  BY <1>1, <1>2, <1>3, <1>4, <1>5, <1>6, <1>7, <1>8, <1>9, <1>10, <1>11,
     <1>12, <1>13, <1>14, <1>15, <1>16, <1>17, <1>18, <1>19, <1>20, <1>21,
     <1>22, <1>23, <1>24, <1>25, <1>26
     DEF Next, Worker, Environment

\* What a worker puts into the cluster is its own.
LEMMA WritesOwn ==
  ASSUME TypeOK, LoopComputed, RendersOwn, Worker, NEW k \in Kinds, NEW n \in Names
  PROVE  \/ objects'[k][n] \in {None, objects[k][n]}
         \/ objects'[k][n].content.by = Project
<1>1. ASSUME pc = "write", PutObject
      PROVE  \/ objects'[k][n] = objects[k][n]
             \/ objects'[k][n].content.by = Project
  <2>1. Wanted(kind).content.by = Project
    BY <1>1 DEF Wanted, RendersOwn, TypeOK
  <2> QED BY <1>1, <2>1 DEF PutObject, TypeOK
<1>2. CASE DeleteNext
  BY <1>2 DEF DeleteNext, TypeOK
<1>3. CASE UNCHANGED objects
  BY <1>3
<1> QED BY <1>1, <1>2, <1>3 DEF Worker, AddFinalizer, StartLoop, StartPurge,
     RemoveFinalizer, ResolveVersion, ResolveFails, Generate, CopyFromDraughtsman,
     GetObject, CreateObject, UpdateObject, WriteFails, Refetch, Annotate,
     UpdateStatus, ConfigConflict, Finish

-----------------------------------------------------------------------------
(* Deletions *)

\* Only these steps remove an object without an event of the outside world.
LEMMA OnlyDeleteNextRemoves ==
  ASSUME TypeOK, LoopComputed, [Next]_vars, events' = events,
         NEW k \in Kinds, NEW n \in Names,
         objects[k][n] # None, objects'[k][n] = None
  PROVE  DeleteNext /\ Head(todo) = <<k, n>>
<1>1. ~Environment
  BY DEF Environment, Happens, CreateConfig, EditSpec, DeleteConfig,
         ChangeCatalog, PushUpstream, RemoveObject, EditObject, Fail, TypeOK
<1>2. Worker
  BY <1>1 DEF Next, vars
<1>3. ASSUME pc = "write", PutObject PROVE FALSE
  <2>1. Wanted(kind) # None
    BY <1>3, WantedType DEF LoopComputed, TypeOK
  <2> QED BY <1>3, <2>1 DEF PutObject, TypeOK
<1>4. DeleteNext
  BY <1>2, <1>3 DEF Worker, AddFinalizer, StartLoop, StartPurge, RemoveFinalizer,
     ResolveVersion, ResolveFails, Generate, CopyFromDraughtsman, GetObject,
     CreateObject, UpdateObject, WriteFails, Refetch, Annotate, UpdateStatus,
     ConfigConflict, Finish
<1>5. Head(todo) \in Kinds \X Names
  BY <1>4 DEF DeleteNext, TypeOK
<1>6. Head(todo)[1] = k /\ Head(todo)[2] = n
  BY <1>4, <1>5 DEF DeleteNext, TypeOK
<1> QED BY <1>4, <1>5, <1>6

\* A worker that reads the Config the API server has removes nothing that .status
\* refers to.
LEMMA OutdatedStep ==
  ASSUME TypeOK, LoopHasFinalizer, LoopComputed, TodoFollowsCopy,
         phase \in {"new", "adopted"}, fresh => local = config, Worker, NEW k \in Kinds,
         config.status.ref # None, objects[k][config.status.ref] # None,
         objects'[k][config.status.ref] = None
  PROVE  todo' # todo /\ ~fresh
<1> DEFINE n == config.status.ref
<1>1. n \in Names
  BY DEF TypeOK, ConfigCR, Status, Refs
<1>2. events' = events
  BY CurrentStep DEF WriteFollows
<1>3. DeleteNext /\ Head(todo) = <<k, n>>
  BY <1>1, <1>2, OnlyDeleteNextRemoves DEF Next
<1>4. todo \in Seq(Kinds \X Names) /\ todo # << >> /\ todo' = Tail(todo)
  BY <1>3 DEF DeleteNext, TypeOK
<1>5. pc = "cleanup"
  BY <1>3 DEF DeleteNext, LoopHasFinalizer
<1>6. 1 \in 1 .. Len(todo) /\ todo[1] = <<k, n>> /\ Len(todo') # Len(todo)
  BY <1>3, <1>4
<1>7. n # local.status.ref
  BY <1>5, <1>6 DEF TodoFollowsCopy
<1> QED BY <1>6, <1>7

\* A worker strikes off a name only when it knows of no object of its own that
\* has the name.
LEMMA ForgetStep ==
  ASSUME TypeOK, LoopHasFinalizer, TodoFollowsCopy, phase \in {"new", "adopted"},
         fresh => local = config, Worker, NEW n \in Tracked \ Tracked',
         NEW k \in Kinds, objects[k][n] # None
  PROVE  pc' # pc /\ objects[k][n].content.by # Project
<1>1. config' # config
  BY DEF Tracked
<1>2. ~StartPurge /\ ~RemoveFinalizer
  BY DEF StartPurge, RemoveFinalizer, LoopHasFinalizer
<1>3. Annotate \/ UpdateStatus
  BY <1>1, <1>2 DEF Worker, AddFinalizer, StartLoop, ResolveVersion, ResolveFails,
     Generate, CopyFromDraughtsman, GetObject, CreateObject, UpdateObject, PutObject,
     WriteFails, Refetch, DeleteNext, ConfigConflict, Finish
<1>4. local = config
  BY <1>1, <1>3 DEF Annotate, UpdateStatus, Conflict
<1>5. ~UpdateStatus
  <2> SUFFICES ASSUME UpdateStatus PROVE FALSE
    OBVIOUS
  <2>1. config'.prev = config.prev
    BY DEF UpdateStatus, TypeOK, ConfigCR
  <2>2. config.status.ref = config.prev
    BY <1>4 DEF UpdateStatus, TodoFollowsCopy, Clean
  <2> QED BY <2>1, <2>2 DEF Tracked
<1>6. pc = "cleanup" /\ pc' = "refetch" /\ todo = << >>
  BY <1>3, <1>5 DEF Annotate
<1>7. config'.prev = config.status.ref
  BY <1>3, <1>4, <1>5 DEF Annotate
<1>8. n = config.prev /\ config.prev \notin {None, config.status.ref}
  BY <1>7 DEF Tracked
<1>9. ~Missed(k, n) /\ ~InTodo(k, n)
  BY <1>4, <1>6, <1>8 DEF TodoFollowsCopy, InTodo
<1> QED BY <1>6, <1>9 DEF Missed

LEMMA ServedStep ==
  ASSUME Inductive, [Next]_vars, NEW k \in Kinds, NEW n \in Names,
         objects[k][n] # None, objects'[k][n] = None, events' = events
  PROVE  n # config.status.ref \/ phase = "deleting"
<1>1. DeleteNext /\ Head(todo) = <<k, n>>
  BY OnlyDeleteNextRemoves DEF Inductive
<1>2. CASE pc = "purge"
  BY <1>2 DEF Inductive, LoopHasFinalizer
<1>3. CASE pc = "cleanup"
  <2>1. 1 \in 1 .. Len(todo) /\ todo[1] = <<k, n>>
    BY <1>1 DEF DeleteNext, Inductive, TypeOK
  <2> QED BY <1>3, <2>1 DEF Inductive, TodoIsOrphans
<1> QED BY <1>1, <1>2, <1>3 DEF DeleteNext

\* The controller never deletes the objects a living Config refers to in its
\* status, whatever was edited, removed or restarted since it read the Config.
THEOREM ServedPreserved == Spec => ServedUntilReplaced
<1>1. Inductive /\ [Next]_vars =>
        [\A k \in Kinds, n \in Names :
           (objects[k][n] # None /\ objects'[k][n] = None /\ events' = events)
             => (n # config.status.ref \/ phase = "deleting")]_vars
  BY ServedStep
<1> QED BY Invariance, <1>1, PTL DEF Spec, ServedUntilReplaced

-----------------------------------------------------------------------------
(* ConfigReconciler implements ObjectLedger *)

USE DEF Ledger!vars

LEMMA LedgerInit == Init => Ledger!Init
BY BlankTracksNothing DEF Init, Ledger!Init, Present

\* A step that neither writes an object nor moves a reference is a stutter.
LEMMA LedgerStutters ==
  ASSUME UNCHANGED objects, Tracked' = Tracked
  PROVE  UNCHANGED Ledger!vars
BY DEF Present

\* A write of one object makes its name appear or vanish at most.
LEMMA LedgerObjectStep ==
  ASSUME TypeOK, Tracked' = Tracked, NEW k \in Kinds, NEW n \in Names,
         NEW x, objects' = [objects EXCEPT ![k][n] = x]
  PROVE  [Ledger!Next]_(Ledger!vars)
<1>1. \A l \in Kinds, m \in Names :
        objects'[l][m] = IF l = k /\ m = n THEN x ELSE objects[l][m]
  BY DEF TypeOK
<1>2. \A m \in Names : m # n => (m \in Present' <=> m \in Present)
  BY <1>1 DEF Present
<1>3. CASE n \in Present'
  <2>1. Present' = Present \cup {n}
    BY <1>2, <1>3 DEF Present
  <2> QED BY <2>1 DEF Ledger!Next, Ledger!Appear
<1>4. CASE n \notin Present'
  <2>1. Present' = Present \ {n}
    BY <1>2, <1>4 DEF Present
  <2> QED BY <2>1 DEF Ledger!Next, Ledger!Vanish
<1> QED BY <1>3, <1>4

LEMMA LedgerPut ==
  ASSUME TypeOK, LoopComputed, pc = "write", PutObject
  PROVE  [Ledger!Next]_(Ledger!vars)
<1>1. name \in Names /\ kind \in Kinds
  BY DEF LoopComputed, TypeOK
<1>2. Tracked' = Tracked
  BY DEF PutObject, Tracked
<1>3. objects' = [objects EXCEPT ![kind][name] = Wanted(kind)]
  BY DEF PutObject
<1> QED BY <1>1, <1>2, <1>3, LedgerObjectStep

LEMMA LedgerStep ==
  ASSUME Inductive, Next
  PROVE  [Ledger!Next]_(Ledger!vars)
<1>1. CASE AddFinalizer
  <2>1. UNCHANGED objects /\ Tracked' = Tracked
    BY <1>1 DEF AddFinalizer, Tracked
  <2> QED BY <2>1, LedgerStutters
<1>2. CASE StartLoop
  <2>1. UNCHANGED objects /\ Tracked' = Tracked
    BY <1>2 DEF StartLoop, Tracked
  <2> QED BY <2>1, LedgerStutters
<1>3. CASE StartPurge
  <2>1. UNCHANGED objects /\ Tracked' = Tracked
    BY <1>3 DEF StartPurge, Tracked
  <2> QED BY <2>1, LedgerStutters
<1>4. CASE RemoveFinalizer
  <2>1. Tracked' = {}
    BY <1>4, BlankTracksNothingNext DEF RemoveFinalizer
  <2>2. \A k \in Kinds, n \in Tracked : objects[k][n] = None
    BY <1>4 DEF RemoveFinalizer, Inductive, TodoIsOrphans, InTodo
  <2>3. Tracked \cap Present = {}
    BY <2>2 DEF Present
  <2>4. Present' = Present
    BY <1>4 DEF RemoveFinalizer, Present
  <2>5. Ledger!StrikeOff(Tracked)
    BY <2>1, <2>3, <2>4 DEF Ledger!StrikeOff
  <2> QED BY <2>5 DEF Ledger!Next
<1>5. CASE ResolveVersion
  <2>1. UNCHANGED objects /\ Tracked' = Tracked
    BY <1>5 DEF ResolveVersion, Tracked
  <2> QED BY <2>1, LedgerStutters
<1>6. CASE ResolveFails
  <2>1. UNCHANGED objects /\ Tracked' = Tracked
    BY <1>6 DEF ResolveFails, Tracked
  <2> QED BY <2>1, LedgerStutters
<1>7. CASE Generate
  <2>1. UNCHANGED objects /\ Tracked' = Tracked
    BY <1>7 DEF Generate, Tracked
  <2> QED BY <2>1, LedgerStutters
<1>8. CASE CopyFromDraughtsman
  <2>1. UNCHANGED objects /\ Tracked' = Tracked
    BY <1>8 DEF CopyFromDraughtsman, Tracked
  <2> QED BY <2>1, LedgerStutters
<1>9. CASE GetObject
  <2>1. UNCHANGED objects /\ Tracked' = Tracked
    BY <1>9 DEF GetObject, Tracked
  <2> QED BY <2>1, LedgerStutters
<1>10. CASE CreateObject
  BY <1>10, LedgerPut DEF CreateObject, Inductive
<1>11. CASE UpdateObject
  BY <1>11, LedgerPut DEF UpdateObject, Inductive
<1>12. CASE WriteFails
  <2>1. UNCHANGED objects /\ Tracked' = Tracked
    BY <1>12 DEF WriteFails, Tracked
  <2> QED BY <2>1, LedgerStutters
<1>13. CASE Refetch
  <2>1. UNCHANGED objects /\ Tracked' = Tracked
    BY <1>13 DEF Refetch, Tracked
  <2> QED BY <2>1, LedgerStutters
<1>14. CASE DeleteNext
  <2>1. Head(todo) \in Kinds \X Names
    BY <1>14 DEF DeleteNext, Inductive, TypeOK
  <2>2. Tracked' = Tracked
    BY <1>14 DEF DeleteNext, Tracked
  <2> QED BY <1>14, <2>1, <2>2, LedgerObjectStep DEF DeleteNext, Inductive
<1>15. CASE Annotate
  <2> DEFINE gone == Tracked \ {config.status.ref}
  <2>1. local.status = config.status
    BY <1>15 DEF Annotate, Inductive, CopyIsStored
  <2>2. Tracked' = Tracked \ gone
    BY <1>15, <2>1 DEF Annotate, Tracked
  <2>3. \A k \in Kinds, n \in gone : objects[k][n] = None
    BY <1>15 DEF Annotate, Inductive, TodoIsOrphans, InTodo
  <2>4. gone \cap Present = {}
    BY <2>3 DEF Present
  <2>5. Present' = Present
    BY <1>15 DEF Annotate, Present
  <2>6. Ledger!StrikeOff(gone)
    BY <2>2, <2>4, <2>5 DEF Ledger!StrikeOff
  <2> QED BY <2>6 DEF Ledger!Next
<1>16. CASE UpdateStatus
  <2>1. config.status.ref = config.prev
    BY <1>16 DEF UpdateStatus, Inductive, CopyIsStored, Clean
  <2>2. name \in Names /\ name # None
    BY <1>16, SentinelAssumption DEF UpdateStatus, Inductive, LoopComputed
  <2>3. UNCHANGED objects
    BY <1>16 DEF UpdateStatus
  <2>4. CASE UNCHANGED config
    BY <2>3, <2>4, LedgerStutters DEF Tracked
  <2>5. CASE config' = [config EXCEPT !.status = DesiredStatus]
    <3>1. config'.status.ref = name /\ config'.prev = config.prev
      BY <2>5 DEF Inductive, TypeOK, ConfigCR, DesiredStatus
    <3>2. Tracked' = Tracked \cup {name}
      BY <2>1, <2>2, <3>1 DEF Tracked
    <3>3. Present' = Present
      BY <2>3 DEF Present
    <3> QED BY <2>2, <3>2, <3>3 DEF Ledger!Next, Ledger!Enter
  <2> QED BY <1>16, <2>4, <2>5 DEF UpdateStatus
<1>17. CASE ConfigConflict
  <2>1. UNCHANGED objects /\ Tracked' = Tracked
    BY <1>17 DEF ConfigConflict, Tracked
  <2> QED BY <2>1, LedgerStutters
<1>18. CASE Finish
  <2>1. UNCHANGED objects /\ Tracked' = Tracked
    BY <1>18 DEF Finish, Tracked
  <2> QED BY <2>1, LedgerStutters
<1>19. ASSUME NEW a \in Apps, CreateConfig(a)
      PROVE  [Ledger!Next]_(Ledger!vars)
  <2>1. Tracked = {} /\ Tracked' = {}
    BY <1>19, BlankTracksNothingNext DEF CreateConfig, Inductive, UntrackedUntilAdopted
  <2>2. UNCHANGED objects
    BY <1>19 DEF CreateConfig
  <2> QED BY <2>1, <2>2, LedgerStutters
<1>20. ASSUME NEW a \in Apps, EditSpec(a)
      PROVE  [Ledger!Next]_(Ledger!vars)
  <2>1. UNCHANGED objects /\ Tracked' = Tracked
    BY <1>20 DEF EditSpec, Tracked, TypeOK, ConfigCR
  <2> QED BY <2>1, LedgerStutters
<1>21. CASE DeleteConfig
  <2>1. UNCHANGED objects
    BY <1>21 DEF DeleteConfig
  <2>2. CASE phase = "new"
    <3>1. Tracked = {} /\ Tracked' = {}
      BY <1>21, <2>2, BlankTracksNothingNext
      DEF DeleteConfig, Inductive, UntrackedUntilAdopted
    <3> QED BY <2>1, <3>1, LedgerStutters
  <2>3. CASE phase # "new"
    <3>1. Tracked' = Tracked
      BY <1>21, <2>3 DEF DeleteConfig, Tracked
    <3> QED BY <2>1, <3>1, LedgerStutters
  <2> QED BY <2>2, <2>3
<1>22. ASSUME NEW a \in Apps, NEW v \in Versions \cup {None, Unknown}, ChangeCatalog(a, v)
      PROVE  [Ledger!Next]_(Ledger!vars)
  <2>1. UNCHANGED objects /\ Tracked' = Tracked
    BY <1>22 DEF ChangeCatalog, Tracked
  <2> QED BY <2>1, LedgerStutters
<1>23. ASSUME NEW k \in Kinds, PushUpstream(k)
      PROVE  [Ledger!Next]_(Ledger!vars)
  <2>1. UNCHANGED objects /\ Tracked' = Tracked
    BY <1>23 DEF PushUpstream, Tracked
  <2> QED BY <2>1, LedgerStutters
<1>24. ASSUME NEW k \in Kinds, NEW n \in Names, RemoveObject(k, n)
      PROVE  [Ledger!Next]_(Ledger!vars)
  <2>1. Tracked' = Tracked
    BY <1>24 DEF RemoveObject, Tracked
  <2> QED BY <1>24, <2>1, LedgerObjectStep DEF RemoveObject, Inductive
<1>25. CASE Fail
  <2>1. UNCHANGED objects /\ Tracked' = Tracked
    BY <1>25 DEF Fail, Tracked
  <2> QED BY <2>1, LedgerStutters
<1>26. ASSUME NEW k \in Kinds, NEW n \in Names, EditObject(k, n)
      PROVE  [Ledger!Next]_(Ledger!vars)
  <2>1. Tracked' = Tracked
    BY <1>26 DEF EditObject, Tracked
  <2> QED BY <1>26, <2>1, EditedObject, LedgerObjectStep DEF EditObject, Inductive
<1> QED
  BY <1>1, <1>2, <1>3, <1>4, <1>5, <1>6, <1>7, <1>8, <1>9, <1>10, <1>11,
     <1>12, <1>13, <1>14, <1>15, <1>16, <1>17, <1>18, <1>19, <1>20, <1>21,
     <1>22, <1>23, <1>24, <1>25, <1>26
     DEF Next, Worker, Environment

\* The Config CR is a faithful ledger: it forgets the name of an object only
\* when no object of that name exists any more.
THEOREM LedgerKept == Spec => KeepsLedger
<1>1. UNCHANGED vars => UNCHANGED Ledger!vars
  BY LedgerStutters DEF vars, Tracked
<1>2. Inductive /\ [Next]_vars => [Ledger!Next]_(Ledger!vars)
  BY <1>1, LedgerStep
<1> QED BY Invariance, LedgerInit, <1>2, PTL DEF Spec, KeepsLedger, Ledger!Spec

=============================================================================
