------------------------------ MODULE Handover ------------------------------
(***************************************************************************)
(* One Config and two versions of the controller that run side by side.    *)
(* Each of them reconciles the Configs whose version label names it        *)
(* (Version.Selector), and a Config is handed over by changing the label.  *)
(* The label is looked at when an event of the Config is queued, so the    *)
(* loop of the old version may still run, or even begin, when the new one  *)
(* is at work; neither knows of the other but through the Config and the   *)
(* objects.                                                                *)
(*                                                                         *)
(* The variables of ConfigReconciler with a 2 are those of the second      *)
(* process; the cluster and the world are shared.  Bound: the Config is    *)
(* not deleted while it is handed over.                                    *)
(***************************************************************************)
EXTENDS ConfigReconciler

CONSTANT Project2  \* version of the second controller

ASSUME Project2Assumption ==
  /\ Project2 \in Projects \ {Project}
  /\ Events \cap {"create", "delete"} = {}

VARIABLES
  label,          \* the version label of the Config
  queued,         \* versions with an event of the Config in their queue
  pc2, local2, fresh2, version2, name2, kind2, rendered2, found2, pass2, todo2

process  == <<pc, locals>>
process2 == <<pc2, local2, fresh2, version2, name2, kind2, rendered2, found2,
              pass2, todo2>>
shared   == <<stored, world, events>>
system   == <<shared, process, process2, label, queued>>

Other == INSTANCE ConfigReconciler WITH
  Project <- Project2, pc <- pc2, local <- local2, fresh <- fresh2,
  version <- version2, name <- name2, kind <- kind2, rendered <- rendered2,
  found <- found2, pass <- pass2, todo <- todo2

HandoverInit ==
  /\ Init
  /\ Other!Init
  /\ label = Project
  /\ queued = {}

-----------------------------------------------------------------------------

\* A write of the Config makes every copy of it out of date but the writer's.
WrittenUnnoticed(copyIsFresh) == copyIsFresh
Written(copyIsFresh) == copyIsFresh /\ UNCHANGED <<phase, config>>

\* Version.Selector: an event of the Config, or a resync, gets into the queue of
\* the version that the label names.
SelectedAll(p) == p \in {Project, Project2}
Selected(p) == label = p

Notice(p) ==
  /\ Selected(p)
  /\ p \notin queued
  /\ queued' = queued \cup {p}
  /\ UNCHANGED <<shared, process, process2, label>>

\* A loop begins when the queue has an event, whatever the label is by now.
Dequeue(p, starts) ==
  IF starts THEN p \in queued /\ queued' = queued \ {p} ELSE UNCHANGED queued

Step ==
  /\ Worker
  /\ Dequeue(Project, pc = "idle")
  /\ fresh2' = Written(fresh2)
  /\ UNCHANGED <<pc2, local2, version2, name2, kind2, rendered2, found2, pass2,
                 todo2, label>>

Step2 ==
  /\ Other!Worker
  /\ Dequeue(Project2, pc2 = "idle")
  /\ fresh' = Written(fresh)
  /\ UNCHANGED <<pc, local, version, name, kind, rendered, found, pass, todo, label>>

\* Somebody hands the Config over.
Relabel(p) ==
  /\ events < MaxEvents
  /\ events' = events + 1
  /\ label' = p
  /\ fresh' = FALSE
  /\ fresh2' = FALSE
  /\ UNCHANGED <<stored, world, pc, local, version, name, kind, rendered, found, pass,
                 todo, pc2, local2, version2, name2, kind2, rendered2, found2, pass2,
                 todo2, queued>>

\* Edits, changes of the catalog and the sources, removed objects, failures.
Outside ==
  /\ Environment
  /\ fresh2' = (fresh2 /\ ~\E a \in Apps : EditSpec(a))
  /\ UNCHANGED <<pc2, local2, version2, name2, kind2, rendered2, found2, pass2,
                 todo2, label, queued>>

Fail2 == Other!Fail /\ UNCHANGED <<process, label, queued>>

HandoverNext ==
  \/ Step \/ Step2
  \/ \E p \in {Project, Project2} : Notice(p) \/ Relabel(p)
  \/ Outside \/ Fail2

\* Both processes run on, and resyncs queue the Config for the one selected.
HandoverFairness ==
  /\ WF_system(Step) /\ WF_system(Step2)
  /\ \A p \in {Project, Project2} : WF_system(Notice(p))

HandoverSpec == HandoverInit /\ [][HandoverNext]_system /\ HandoverFairness

-----------------------------------------------------------------------------
(* Properties *)

\* A copy that would be accepted by the API server is the stored Config.
CopyIsCurrent ==
  /\ fresh => local = config
  /\ fresh2 => local2 = config

\* The invariant: what both processes know, and that neither has taken back
\* the spec the user wrote (create.go:207), although each writes the whole
\* Config and each has read it at another time.
HandoverInductive ==
  /\ TypeOK /\ Other!TypeOK
  /\ LoopHasFinalizer /\ Other!LoopHasFinalizer
  /\ LoopComputed /\ Other!LoopComputed
  /\ RendersOwn /\ Other!RendersOwn
  /\ TodoFollowsCopy /\ Other!TodoFollowsCopy
  /\ phase \in {"new", "adopted"}
  /\ CopyIsCurrent
  /\ SpecIsUsers

\* Two loops interleave their writes of status and annotation (create.go:135,
\* create.go:207), but whichever writes, the status it replaces or refers to is
\* the one it has seen: the annotation becomes what the status is, and the
\* status is that of the spec now stored.
WritesFollow ==
  [][/\ config'.prev # config.prev =>
          config'.prev = config.status.ref /\ config'.status = config.status
     /\ config'.status # config.status =>
          config'.status.app = config.app /\ config'.prev = config.prev]_system

\* A name is struck off by the clean-up of one version (create.go:204) while the
\* other may make objects of that name: only these are left behind, never one that
\* the version itself has made.
ForgetsOnlyOthers ==
  [][\A n \in Tracked \ Tracked', k \in Kinds :
       objects[k][n] # None =>
         objects[k][n].content.by # IF pc' # pc THEN Project ELSE Project2]_system

\* A clean-up deletes one object after the other (create.go:186) of what the Config
\* referred to when it was read: what .status refers to by now only if the other
\* version, or a user, has written the Config since.
ServedUnlessOutdated ==
  [][config.status.ref # None => \A k \in Kinds :
       objects[k][config.status.ref] # None /\ objects'[k][config.status.ref] = None =>
         \/ todo' # todo /\ ~fresh
         \/ todo2' # todo2 /\ ~fresh2
         \/ events' # events]_system

\* Whichever version the Config ends up with, and whatever the late loops of
\* the other did to its objects, it gets the configuration that version makes.
HandoverConverges ==
  /\ <>[](label = Project /\ catalog[config.app] # Unknown) => <>[]Converged
  /\ <>[](label = Project2 /\ catalog[config.app] # Unknown) => <>[]Other!Converged

=============================================================================
