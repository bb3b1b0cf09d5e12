------------------------- MODULE ConfigReconciler -------------------------
(***************************************************************************)
(* The reconciliation of one Config CR by the "configuration" handler:     *)
(* EnsureCreated, cleanupOrphanedConfig and EnsureDeleted, together with   *)
(* the k8sresource calls they make.  Every action of the worker is one     *)
(* call to the Kubernetes API (or one read of the outside world) and the   *)
(* code up to the next call; between two of them users may edit or delete  *)
(* the Config, the catalog and the sources of the configuration may        *)
(* change, and the loop may fail or the process be restarted.              *)
(*                                                                         *)
(* The controller runs a single worker (one replica, Recreate strategy),   *)
(* so there is one program counter.                                        *)
(***************************************************************************)
EXTENDS Naturals, Sequences, FiniteSets

CONSTANTS
  Apps,         \* values of .spec.app: catalog, name and version of an App
  Names,        \* names of generated ConfigMaps and Secrets
  StableName,   \* genStableObjectName for this Config: [Apps -> Names]
  Versions,     \* config versions that catalog entries are annotated with
  None,         \* the empty string, a missing annotation, a missing object
  Draughtsman,  \* the version put in the annotation of copied objects
  Unknown,      \* the catalog has no entry for the App, or cannot be read
  Project,      \* version of the controller that runs this worker
  Projects,     \* versions of the controller there have been
  Events,       \* the kinds of outside events that may happen
  MaxEvents     \* bound on the number of outside events

ASSUME NamesAssumption ==
  /\ StableName \in [Apps -> Names]
  /\ \A a, b \in Apps : StableName[a] = StableName[b] => a = b

ASSUME ProjectAssumption == Project \in Projects

ASSUME BoundAssumption ==
  /\ MaxEvents \in Nat
  /\ Events \subseteq {"create", "edit", "delete", "catalog", "push", "remove", "overwrite",
                     "fail"}

VARIABLES
  (* the cluster and the outside world *)
  phase,     \* life of the Config CR; "adopted" and "deleting" have the finalizer
  config,    \* the stored Config CR
  objects,   \* the stored ConfigMaps and Secrets
  catalog,   \* what configversion.Service.Get answers for an App
  upstream,  \* revision of the data ConfigMaps and Secrets are made from
  (* the worker: its program counter and the locals of the running loop *)
  pc, local, fresh, version, name, kind, rendered, found, pass, todo,
  (* history and bound *)
  asked,     \* the .spec.app the user wrote last
  events     \* number of outside events so far

stored == <<phase, config, objects>>
world  == <<catalog, upstream, asked>>
locals == <<local, fresh, version, name, kind, rendered, found, pass, todo>>
vars   == <<stored, world, pc, locals, events>>

-----------------------------------------------------------------------------
(* Data *)

Kinds == {"configmap", "secret"}
Refs  == Names \cup {None}

\* .status: the two references always carry one name, so ref stands for both.
Status    == [app : Apps \cup {None}, ref : Refs, version : Versions \cup {None}]
NoStatus  == [app |-> None, ref |-> None, version |-> None]

\* prev is the previous-config annotation.
ConfigCR     == [app : Apps, status : Status, prev : Refs]
NewConfig(a) == [app |-> a, status |-> NoStatus, prev |-> None]

\* What a generated object says: for which App and version, and by which
\* controller (annotations), and from which revision of the source (data).
Content ==
  [app : Apps, version : Versions \cup {Draughtsman}, rev : Nat, by : Projects]

\* A stored object.  Its object-hash annotation is the digest of what it was
\* made of: newConfigurationFromDraughtsman and GenerateConfig give the ConfigMap
\* and the Secret the SAME annotation map, so the Secret is hashed after the
\* hash of the ConfigMap was put in that map, which is what "shared" records.
\* An "edited" object has data somebody has written over since, and has kept its
\* annotations.
Object ==
  [content : Content, shared : Content \cup {None}, data : {"generated", "edited"}]

ASSUME SentinelAssumption ==
  /\ None \notin Apps \cup Names \cup Versions
  /\ None \notin Object
  /\ {Draughtsman, Unknown} \cap (Versions \cup {None}) = {}

Wanted(k) == [content |-> rendered[k],
              shared  |-> IF k = "secret" THEN rendered["configmap"] ELSE None,
              data    |-> "generated"]

\* What the object-hash annotation of a stored object is the digest of.
Hashed(object) == [object EXCEPT !.data = "generated"]

\* The annotations of the desired and of the current object agree; what the
\* current one has come to say is not looked at.
UpToDateIgnoringHash(current, k) == current # None
UpToDate(current, k) == current # None /\ Hashed(current) = Wanted(k)

PairWithoutSecret(n) == << <<"configmap", n>> >>
Pair(n) == << <<"configmap", n>>, <<"secret", n>> >>

\* getConfigObjectsMeta: what .status refers to, and what only the annotation
\* refers to.
CurrentUnchecked(c) == Pair(c.status.ref)
Current(c)  == IF c.status.ref = None THEN << >> ELSE Pair(c.status.ref)
OrphanedSwapped(c) == Current(c)
Orphaned(c) == IF c.prev \in {None, c.status.ref} THEN << >> ELSE Pair(c.prev)

\* The early return of cleanupOrphanedConfig.
AlwaysClean(c) == TRUE
Clean(c) == c.status.ref = c.prev

-----------------------------------------------------------------------------
Init ==
  /\ phase = "new"
  /\ \E a \in Apps : config = NewConfig(a)
  /\ objects = [k \in Kinds |-> [n \in Names |-> None]]
  /\ catalog \in [Apps -> Versions \cup {None, Unknown}]
  /\ upstream = [k \in Kinds |-> 0]
  /\ pc = "idle"
  /\ local = NewConfig(config.app)
  /\ fresh = FALSE
  /\ version = None
  /\ name = None
  /\ kind = "configmap"
  /\ rendered = [k \in Kinds |-> None]
  /\ found = FALSE
  /\ pass = 1
  /\ todo = << >>
  /\ asked = config.app
  /\ events = 0

-----------------------------------------------------------------------------
(* The worker: operatorkit's part *)

\* Any return from the handler: the locals of the loop are gone.
Abandon ==
  /\ pc' = "idle"
  /\ local' = NewConfig(config.app)
  /\ fresh' = FALSE
  /\ version' = None
  /\ name' = None
  /\ kind' = "configmap"
  /\ rendered' = [k \in Kinds |-> None]
  /\ found' = FALSE
  /\ pass' = 1
  /\ todo' = << >>

\* operatorkit reconciles a Config only when it carries the finalizer.
AddFinalizer ==
  /\ pc = "idle" /\ phase = "new"
  /\ phase' = "adopted"
  /\ UNCHANGED <<config, objects, world, pc, locals, events>>

\* EnsureCreated is called with the Config just read from the API.
StartLoop ==
  /\ pc = "idle" /\ phase = "adopted"
  /\ pc' = "resolve"
  /\ local' = config
  /\ fresh' = TRUE
  /\ UNCHANGED <<stored, world, version, name, kind, rendered, found, pass, todo, events>>

\* EnsureDeleted is called instead once the Config has a deletion timestamp.
StartPurge ==
  /\ pc = "idle" /\ phase = "deleting"
  /\ pc' = "purge"
  /\ local' = config
  /\ fresh' = TRUE
  /\ todo' = Current(config) \o Orphaned(config)
  /\ UNCHANGED <<stored, world, version, name, kind, rendered, found, pass, events>>

\* EnsureDeleted returned no error: the finalizer goes, and the Config with it.
RemoveFinalizer ==
  /\ pc = "purge" /\ todo = << >>
  /\ phase' = "absent"
  /\ config' = NewConfig(config.app)
  /\ Abandon
  /\ UNCHANGED <<objects, world, events>>

-----------------------------------------------------------------------------
(* The worker: EnsureCreated *)

\* configversion.Service.Get, and the name of the objects to be ensured.  No
\* annotation (None) means falling back to the draughtsman objects.
ResolveVersion ==
  /\ pc = "resolve"
  /\ catalog[local.app] # Unknown
  /\ version' = catalog[local.app]
  /\ name' = StableName[local.app]
  /\ pc' = IF version' = None THEN "copy" ELSE "generate"
  /\ UNCHANGED <<stored, world, local, fresh, kind, rendered, found, pass, todo, events>>

ResolveFails ==
  /\ pc = "resolve"
  /\ catalog[local.app] = Unknown
  /\ Abandon
  /\ UNCHANGED <<stored, world, events>>

Rendering(k, v) ==
  [app |-> local.app, version |-> v, rev |-> upstream[k], by |-> Project]

\* Both objects are rendered from one clone of the config repository.
Generate ==
  /\ pc = "generate"
  /\ rendered' = [k \in Kinds |-> Rendering(k, version)]
  /\ pc' = "get"
  /\ UNCHANGED <<stored, world, local, fresh, version, name, kind, found, pass, todo, events>>

\* newConfigurationFromDraughtsman reads the two objects one after the other.
CopyFromDraughtsman ==
  /\ pc = "copy"
  /\ rendered' = [rendered EXCEPT ![kind] = Rendering(kind, Draughtsman)]
  /\ IF kind = "configmap"
     THEN kind' = "secret" /\ UNCHANGED pc
     ELSE kind' = "configmap" /\ pc' = "get"
  /\ UNCHANGED <<stored, world, local, fresh, version, name, found, pass, todo, events>>

\* One object is ensured: go on with the Secret, then with the clean-up.
NextObject ==
  IF kind = "configmap"
  THEN kind' = "secret" /\ pc' = "get"
  ELSE kind' = "configmap" /\ pc' = "refetch"

\* k8sresource EnsureCreated: read the object and compare the hashes.
GetObject ==
  /\ pc = "get"
  /\ LET current == objects[kind][name] IN
     IF UpToDate(current, kind)
     THEN found' = FALSE /\ NextObject
     ELSE found' = (current # None) /\ pc' = "write" /\ UNCHANGED kind
  /\ UNCHANGED <<stored, world, local, fresh, version, name, rendered, pass, todo, events>>

PutObject ==
  /\ objects' = [objects EXCEPT ![kind][name] = Wanted(kind)]
  /\ found' = FALSE
  /\ NextObject
  /\ UNCHANGED <<phase, config, world, local, fresh, version, name, rendered, pass, todo, events>>

\* The desired object has no resourceVersion: the update is unconditional.
CreateObject ==
  /\ pc = "write" /\ ~found
  /\ objects[kind][name] = None
  /\ PutObject

UpdateObject ==
  /\ pc = "write" /\ found
  /\ objects[kind][name] # None
  /\ PutObject

\* Update fails if the object was removed since it was read, and Create if it
\* was made.
WriteFails ==
  /\ pc = "write"
  /\ found <=> objects[kind][name] = None
  /\ Abandon
  /\ UNCHANGED <<stored, world, events>>

\* cleanupOrphanedConfig, up to its early return or its first deletion.
Refetch ==
  /\ pc = "refetch"
  /\ local' = config
  /\ fresh' = TRUE
  /\ IF Clean(config)
     THEN todo' = << >> /\ pc' = IF pass = 1 THEN "status" ELSE "done"
     ELSE todo' = Orphaned(config) /\ pc' = "cleanup"
  /\ UNCHANGED <<stored, world, version, name, kind, rendered, found, pass, events>>

\* A deletion for which an object already gone is an error.
DeleteNextStrict ==
  /\ pc \in {"cleanup", "purge"}
  /\ todo # << >>
  /\ LET k == Head(todo)[1]
         n == Head(todo)[2]
     IN IF objects[k][n] # None
        THEN /\ objects' = [objects EXCEPT ![k][n] = None]
             /\ todo' = Tail(todo)
             /\ UNCHANGED <<phase, config, world, pc, local, fresh, version, name,
                            kind, rendered, found, pass, events>>
        ELSE Abandon /\ UNCHANGED <<stored, world, events>>

\* k8sresource EnsureDeleted: an object already gone is no error.
DeleteNext ==
  /\ pc \in {"cleanup", "purge"}
  /\ todo # << >>
  /\ LET k == Head(todo)[1]
         n == Head(todo)[2]
     IN  objects' = [objects EXCEPT ![k][n] = None]
  /\ todo' = Tail(todo)
  /\ UNCHANGED <<phase, config, world, pc, local, fresh, version, name, kind,
                 rendered, found, pass, events>>

\* The API server refuses an update of a Config written since it was read.
NeverConflict == FALSE
Conflict == ~fresh

\* The orphans are deleted: write the whole Config back with the annotation
\* set, then start cleanupOrphanedConfig again.
Annotate ==
  /\ pc = "cleanup" /\ todo = << >>
  /\ ~Conflict
  /\ config' = [app |-> local.app, status |-> config.status, prev |-> local.status.ref]
  /\ local' = config'
  /\ pc' = "refetch"
  /\ UNCHANGED <<phase, objects, world, fresh, version, name, kind, rendered, found,
                 pass, todo, events>>

\* The app comes from the Config re-read by cleanupOrphanedConfig, the name and
\* the version from the start of the loop.
DesiredStatusOldVersion ==
  [app |-> local.app, ref |-> name, version |-> local.status.version]
DesiredStatus == [app |-> local.app, ref |-> name, version |-> version]

\* The status subresource: everything else in the stored Config is kept.
UpdateStatus ==
  /\ pc = "status"
  /\ \/ local.status = DesiredStatus /\ UNCHANGED config
     \/ /\ local.status # DesiredStatus
        /\ ~Conflict
        /\ config' = [config EXCEPT !.status = DesiredStatus]
  /\ local' = [local EXCEPT !.status = DesiredStatus]
  /\ pass' = 2
  /\ pc' = "refetch"
  /\ UNCHANGED <<phase, objects, world, fresh, version, name, kind, rendered, found,
                 todo, events>>

ConfigConflict ==
  /\ Conflict
  /\ \/ pc = "cleanup" /\ todo = << >>
     \/ pc = "status" /\ local.status # DesiredStatus
  /\ Abandon
  /\ UNCHANGED <<stored, world, events>>

Finish ==
  /\ pc = "done"
  /\ Abandon
  /\ UNCHANGED <<stored, world, events>>

Worker ==
  \/ AddFinalizer \/ StartLoop \/ StartPurge \/ RemoveFinalizer
  \/ ResolveVersion \/ ResolveFails \/ Generate \/ CopyFromDraughtsman
  \/ GetObject \/ CreateObject \/ UpdateObject \/ WriteFails
  \/ Refetch \/ DeleteNext \/ Annotate \/ UpdateStatus \/ ConfigConflict \/ Finish

-----------------------------------------------------------------------------
(* The environment *)

Happens(event) ==
  /\ event \in Events
  /\ events < MaxEvents
  /\ events' = events + 1

CreateConfig(a) ==
  /\ Happens("create")
  /\ phase = "absent"
  /\ phase' = "new"
  /\ config' = NewConfig(a)
  /\ asked' = a
  /\ UNCHANGED <<objects, catalog, upstream, pc, locals>>

\* Any write of a user to the Config; a = config.app is one that leaves
\* .spec.app alone.
EditSpec(a) ==
  /\ Happens("edit")
  /\ phase # "absent"
  /\ config' = [config EXCEPT !.app = a]
  /\ asked' = a
  /\ fresh' = FALSE
  /\ UNCHANGED <<phase, objects, catalog, upstream, pc, local, version, name, kind,
                 rendered, found, pass, todo>>

DeleteConfig ==
  /\ Happens("delete")
  /\ phase \in {"new", "adopted"}
  /\ phase' = IF phase = "new" THEN "absent" ELSE "deleting"
  /\ config' = IF phase = "new" THEN NewConfig(config.app) ELSE config
  /\ fresh' = FALSE
  /\ UNCHANGED <<objects, world, pc, local, version, name, kind, rendered, found,
                 pass, todo>>

\* The catalog is republished, or cannot be read any more, or again.
ChangeCatalog(a, v) ==
  /\ Happens("catalog")
  /\ catalog' = [catalog EXCEPT ![a] = v]
  /\ UNCHANGED <<stored, upstream, asked, pc, locals>>

\* A new tag or commit, or a write to a draughtsman object.
PushUpstream(k) ==
  /\ Happens("push")
  /\ upstream' = [upstream EXCEPT ![k] = @ + 1]
  /\ UNCHANGED <<stored, catalog, asked, pc, locals>>

\* Somebody deletes a generated object.
RemoveObject(k, n) ==
  /\ Happens("remove")
  /\ objects[k][n] # None
  /\ objects' = [objects EXCEPT ![k][n] = None]
  /\ UNCHANGED <<phase, config, world, pc, locals>>

\* Somebody writes other data into a generated object, and leaves its annotations.
EditObject(k, n) ==
  /\ Happens("overwrite")
  /\ objects[k][n] # None
  /\ objects' = [objects EXCEPT ![k][n].data = "edited"]
  /\ UNCHANGED <<phase, config, world, pc, locals>>

\* The process restarts, or a call fails, with its effect on the server or
\* without: the loop ends where it is.
Fail ==
  /\ Happens("fail")
  /\ pc # "idle"
  /\ Abandon
  /\ UNCHANGED <<stored, world>>

Environment ==
  \/ \E a \in Apps : CreateConfig(a) \/ EditSpec(a)
  \/ DeleteConfig
  \/ \E a \in Apps, v \in Versions \cup {None, Unknown} : ChangeCatalog(a, v)
  \/ \E k \in Kinds : PushUpstream(k)
  \/ \E k \in Kinds, n \in Names : RemoveObject(k, n) \/ EditObject(k, n)
  \/ Fail

Next == Worker \/ Environment

\* operatorkit calls the handler again on every event of the Config and every
\* resync period, so the worker never stops; nothing is assumed of anybody else.
Spec == Init /\ [][Next]_vars /\ WF_vars(Worker)

-----------------------------------------------------------------------------
(* Type invariant *)

\* Every variable keeps its type; todo holds only names of Names.
TypeOK ==
  /\ phase \in {"absent", "new", "adopted", "deleting"}
  /\ config \in ConfigCR
  /\ objects \in [Kinds -> [Names -> Object \cup {None}]]
  /\ catalog \in [Apps -> Versions \cup {None, Unknown}]
  /\ upstream \in [Kinds -> Nat]
  /\ pc \in {"idle", "resolve", "generate", "copy", "get", "write", "refetch",
             "cleanup", "status", "done", "purge"}
  /\ local \in ConfigCR
  /\ fresh \in BOOLEAN
  /\ version \in Versions \cup {None}
  /\ name \in Refs
  /\ kind \in Kinds
  /\ rendered \in [Kinds -> Content \cup {None}]
  /\ found \in BOOLEAN
  /\ pass \in {1, 2}
  /\ todo \in Seq(Kinds \X Names)
  /\ asked \in Apps
  /\ events \in Nat

-----------------------------------------------------------------------------
(* Safety *)

\* The annotation is written with an Update of the whole Config
\* (create.go:207).  However it interleaves with the writes of users, the
\* stored spec is always the one a user wrote last.
SpecIsUsers == config.app = asked

\* The clean-up of orphans (create.go:186-191) and the deletion of a Config
\* (delete.go:40-45) work on references read some calls earlier.  Whatever
\* happened since, the controller deletes an object that .status refers to
\* only when the Config itself is being deleted.
ServedUntilReplaced ==
  [][\A k \in Kinds, n \in Names :
       (objects[k][n] # None /\ objects'[k][n] = None /\ events' = events)
         => (n # config.status.ref \/ phase = "deleting")]_vars

\* What .status refers to when a loop ends without error is what this loop
\* rendered, unless somebody has removed it or has written over its data: an
\* object made of anything else never survives the hash comparison of
\* k8sresource (service.go:76-82), and no conflict or event in between leaves
\* .status behind.
DoneMeansRendered ==
  pc = "done" =>
    /\ config.status.ref = name
    /\ config.status.version = version
    /\ \A k \in Kinds : objects[k][name] = None \/ Hashed(objects[k][name]) = Wanted(k)

\* The ledger of ObjectLedger: the names a Config CR knows of, and the names
\* for which there is an object.
Tracked == {config.status.ref, config.prev} \ {None}
Present == {n \in Names : \E k \in Kinds : objects[k][n] # None}

Ledger == INSTANCE ObjectLedger WITH tracked <- Tracked, present <- Present

\* Whatever fails or interleaves, the Config forgets a name only when no object
\* of that name is left, so nothing it ever knew of can leak.
KeepsLedger == Ledger!Spec

-----------------------------------------------------------------------------
(* The inductive invariant the proofs rest on *)

\* A loop runs only for a Config that has the finalizer.
LoopHasFinalizer ==
  /\ pc # "idle" => phase \in {"adopted", "deleting"}
  /\ pc = "purge" => phase = "deleting"
  /\ pc \in {"idle", "resolve", "generate"} => kind = "configmap"
  /\ pc = "idle" => ~fresh

\* A Config without the finalizer refers to nothing.
UntrackedUntilAdopted == phase \in {"absent", "new"} => Tracked = {}

\* A copy with the stored resourceVersion has the stored spec, and nobody but
\* the worker writes the status.
CopyIsStored ==
  /\ fresh => local.app = config.app
  /\ pc \in {"cleanup", "status"} => local.status = config.status
  /\ pc = "status" => Clean(config)

\* What a loop has computed by the time it is used.
LoopComputed ==
  /\ pc \notin {"idle", "resolve", "purge"} => name \in Names
  /\ pc = "generate" => version \in Versions
  /\ pc = "copy" /\ kind = "secret" => rendered["configmap"] \in Content
  /\ pc \in {"get", "write", "refetch", "cleanup", "status", "done"}
       => rendered \in [Kinds -> Content]

\* Still to be deleted is everything the Config will forget, and in
\* EnsureCreated nothing that it refers to.
InTodo(k, n) == \E i \in 1 .. Len(todo) : todo[i] = <<k, n>>

TodoIsOrphans ==
  /\ pc = "cleanup" =>
       \A i \in 1 .. Len(todo) : todo[i][2] # config.status.ref
  /\ pc \in {"cleanup", "purge"} =>
       \A k \in Kinds, n \in Tracked :
         \/ pc = "cleanup" /\ n = config.status.ref
         \/ objects[k][n] = None
         \/ InTodo(k, n)

\* The same of the Config that the loop has read, which may be another one by now,
\* with another version of the controller at work: but for what that has made.
RendersOwn ==
  /\ pc = "copy" /\ kind = "secret" => rendered["configmap"].by = Project
  /\ pc \in {"get", "write", "refetch", "cleanup", "status", "done"}
       => \A k \in Kinds : rendered[k].by = Project

Missed(k, n) == objects[k][n] # None /\ ~InTodo(k, n) /\ objects[k][n].content.by = Project

TodoFollowsCopy ==
  /\ pc = "status" => Clean(local)
  /\ pc = "cleanup" =>
       /\ \A i \in 1 .. Len(todo) : todo[i][2] # local.status.ref
       /\ local.prev \notin {None, local.status.ref} => \A k \in Kinds : ~Missed(k, local.prev)

\* The objects gone through hold what was rendered, and the second clean-up
\* runs with the status of this loop.
Ensured(k) == objects[k][name] = None \/ Hashed(objects[k][name]) = Wanted(k)

LoopEnsured ==
  /\ pc \in {"get", "write"} /\ kind = "secret" => Ensured("configmap")
  /\ pc \in {"refetch", "cleanup", "status", "done"} => \A k \in Kinds : Ensured(k)
  /\ pass = 2 => /\ pc \in {"refetch", "cleanup", "done"}
                 /\ config.status.ref = name
                 /\ config.status.version = version
  /\ pc = "done" => pass = 2

\* All of it is inductive; it gives SpecIsUsers and DoneMeansRendered directly
\* and what the steps of ServedUntilReplaced and KeepsLedger need.
Inductive ==
  /\ TypeOK
  /\ LoopHasFinalizer
  /\ UntrackedUntilAdopted
  /\ CopyIsStored
  /\ LoopComputed
  /\ TodoIsOrphans
  /\ LoopEnsured
  /\ SpecIsUsers

-----------------------------------------------------------------------------
(* Liveness.  The environment is quiet after MaxEvents events. *)

\* Everything is as one undisturbed loop leaves it, but for data that somebody has
\* written over since.
Converged ==
  LET r == StableName[config.app]
      v == catalog[config.app]
      wanted(k) == [app     |-> config.app,
                    version |-> IF v = None THEN Draughtsman ELSE v,
                    rev     |-> upstream[k],
                    by      |-> Project]
  IN /\ config.status = [app |-> config.app, ref |-> r, version |-> v]
     /\ config.prev = r
     /\ \A k \in Kinds : objects[k][r] # None /\ objects[k][r].content = wanted(k)

\* From every state that edits, failures, removed objects and moved references
\* can leave behind, the loops reach the configuration the catalog and the
\* sources call for and stay there, as long as the catalog answers.
Converges ==
  <>[](phase = "adopted" /\ catalog[config.app] # Unknown) => <>[]Converged

\* A Config being deleted goes, whatever the state of its catalog and of its
\* objects.
DeletionCompletes == phase = "deleting" ~> phase = "absent"

-----------------------------------------------------------------------------
(* Statements of the repository that the code does not keep *)

\* create.go:112: "Cleanup orphaned ConfigMap and Secret in case previous loop
\* failed in between": when a loop ends without error only what .status refers
\* to is left.
NoLeak ==
  pc = "done" =>
    \A k \in Kinds, n \in Names : objects[k][n] # None => n = config.status.ref

\* create.go:99: "Ensure ConfigMap and Secret": they exist when a loop ends
\* without error (in runs where nobody else removes objects).
EnsuredPairExists ==
  pc = "done" => \A k \in Kinds : objects[k][config.status.ref] # None

\* CHANGELOG.md:111: "Update configuration ConfigMap ans Secret only when they
\* change": an object is written over only with other contents.
UpdatedOnlyWhenChanged ==
  [][\A k \in Kinds, n \in Names :
       (objects[k][n] # None /\ objects'[k][n] # None /\ objects'[k][n] # objects[k][n])
         => objects'[k][n].content # objects[k][n].content]_vars

=============================================================================
