# config-controller in TLA+

config-controller is a Kubernetes operator. For every `Config` custom resource
it makes one ConfigMap and one Secret, from templates in a git repository or,
when the App's catalog entry names no config version, as a copy of two
"draughtsman" objects, and it keeps references to them in the Config's status.
This directory models the parts of it that keep state, checks them with TLC and
proves the main safety properties with TLAPS.

## The system

| part | state | operations | talks to |
|---|---|---|---|
| configuration handler (`service/controller/handler/configuration`) | locals of one loop; the Config's `.status` and `previous-config` annotation | `EnsureCreated`, `cleanupOrphanedConfig`, `EnsureDeleted` | API server, the three services below; called by operatorkit |
| k8sresource (`pkg/k8sresource`) | the stored ConfigMaps and Secrets | `EnsureCreated`, `EnsureDeleted`, `Modify`, `ModifyStatus` | API server |
| config version lookup (`internal/configversion`) | none | `Get`: a version, "not annotated", or an error | AppCatalog CR, the catalog's index.yaml |
| configuration source (`internal/generator`, `pkg/github`) | a tag cache and a repository cache with a lifetime of a minute | `Generate`, `GetLatestTag`, `GetFilesByTag`, `GetFilesByBranch` | GitHub |
| generator (`pkg/generator`) | none | `GenerateConfig`: templates, includes and patches to two documents | the clone, decryption |
| linter (`pkg/lint`) | the cross reference of one clone | `NewDiscovery`, the lint functions | the clone |
| decryption (`pkg/decrypt`) | none | walk YAML, decrypt values | Vault |
| wiring (`main.go`, `service`, `server`, `flag`, `cmd`) | flags | boot, HTTP endpoints, CLI | everything |

operatorkit calls the handler for one Config at a time (one replica, strategy
`Recreate`), when the Config changes and every resync period. It adds a
finalizer first, and removes it when `EnsureDeleted` returned no error. Several
versions of the controller run side by side, each for the Configs whose version
label names it, and a Config moves between them by a change of the label.

What is hard: every call to the API server may fail or be the last one before a
restart; users edit and delete the Config while a loop runs; the handler holds
copies of the Config it read several calls ago; objects are created before
anything refers to them and must be deleted before the reference is dropped;
the sources change between two reads; Configs share objects when their names
are cut alike; a loop of one version may outlive the handover of its Config to
another. `PROJECT.json` lists the hazards one by
one, at their lines, with the properties that cover them.

What makes each part correct:

* handler: no user edit is lost; an object in use is not deleted; no object the
  Config refers to is forgotten; the loops converge; a deleted Config goes.
* k8sresource: an object that differs from the desired one is written, one that
  does not is left alone; deletion tolerates absence.
* names: short enough, one App each, and shared by Configs only when the cut
  makes them.
* config version lookup: an answer is one that the catalog gave during the call;
  an outage is never taken for "not annotated".
* configuration source: what is generated is from the right kind of reference
  and not older than the caches allow; the tag is the latest of its major.
* generator and linter: patches override templates, for one installation only;
  what the linter says may go, the generator does not use; a leaf it reports undefined
  fails generation where it is evaluated; its report is not empty while generation
  fails.

## Modules

| module | models |
|---|---|
| `ConfigReconciler` | the handler together with the k8sresource calls it makes, for one Config |
| `ObjectLedger` | abstract: what the Config CR promises about objects |
| `MCConfigReconciler` | small instances for TLC |
| `ConfigReconcilerProofs` | the theorems about `ConfigReconciler` |
| `StableNames`, `StableNamesProofs` | `genStableObjectName` and the cut to 63 characters, with its theorems |
| `ConfigFleet` | two Configs of one namespace under one worker: two `ConfigReconciler`s that share objects |
| `MCConfigFleet`, `ConfigFleetProofs` | an instance with names from `StableNames`; the theorems |
| `Handover` | one Config and two versions of the controller: two `ConfigReconciler`s that share a Config |
| `MCHandover`, `HandoverProofs` | an instance for TLC; the theorems |
| `CatalogLookup` | `configversion.Service.Get`, request by request |
| `MCCatalogLookup`, `CatalogLookupProofs` | an instance for TLC; the theorems |
| `ConfigSource` | where a config version's files come from: `Service.Generate` up to the store, both caches, the listing of tags, the clone |
| `MCConfigSource` | small instances for TLC |
| `ConfigSourceProofs` | the theorems about `ConfigSource` |
| `ModifyRetry` | `Modify` and `ModifyStatus` with several callers |
| `AtomicModify` | abstract: changes applied to the object one at a time |
| `MCModifyRetry`, `ModifyRetryProofs` | an instance for TLC; the theorems |
| `ConfigGenerator` | `generateRawConfig` as a function of the files, with Vault's part in it |
| `Linter` | what the linter reports of the same files, compared with the generator |
| `LintReport` | the report of `Lint` and the exit status of the command, with filters and limit |
| `MCLinter`, `LinterProofs` | an instance for TLC of all three; the theorems about them |

### ConfigReconciler

The cluster is `phase` (life of the Config), `config` (spec.app, status,
annotation), `objects` (ConfigMaps and Secrets by name); the outside world is
`catalog` and `upstream`. `pc` is where the one worker is, and the other
variables are the locals of the running loop: `local` is the `config` pointer
of the code, `name`, `version` and `rendered` what the loop computed, `todo`
the objects a clean-up has still to delete.

Each action is one call to the API (or one read of the outside world) and the
code up to the next call:

    EnsureCreated   StartLoop, ResolveVersion | ResolveFails,
                    Generate | CopyFromDraughtsman (twice),
                    per object GetObject, CreateObject | UpdateObject | WriteFails,
                    Refetch ..., UpdateStatus | ConfigConflict, Refetch ..., Finish
    clean-up        Refetch, DeleteNext*, Annotate | ConfigConflict, Refetch
    EnsureDeleted   StartPurge, DeleteNext*, RemoveFinalizer

Abstractions:

* `fresh` says whether the `resourceVersion` of `local` is the stored one. Any
  write by somebody else clears it; an Update that needs it (`Annotate`,
  `UpdateStatus`) then conflicts and ends the loop. ConfigMaps and Secrets are
  updated without a resourceVersion, so there the last write wins.
* Both references in the status carry the same name, so `ref` is one name.
* An object is the App it was made for, its version annotation, the version of
  the controller that made it (`Project`) and the revision of its data. Hashes are
  equal when what they digest is; `shared` records that the Secret is digested with
  the ConfigMap's hash among its annotations, since the two share one annotation map.
* The handler compares annotations and never looks at what an object says
  (`service.go:76`). `data` is whether somebody has overwritten that by hand, leaving
  the annotations (`EditObject`), and `Hashed` is the object the annotations tell of.
  Such an object is kept as it is until the Config wants something else, so
  `DoneMeansRendered` and `Converges` say that everything was made for what is wanted
  now, and not that nobody has overwritten it since.
* The Config cannot vanish during a loop, because of the finalizer, so the
  NotFound answers of Get and Update on it are left out. For one Config
  `StableName` is injective (theorem `NameTellsApps`); objects that it shares with
  another Config are the subject of `ConfigFleet`.
* The lookup of the config version is one step; `CatalogLookup` takes it apart.
* The caches of the configuration source are left out: `Generate` reads the
  present revision.

The environment may create, edit and delete the Config, change the catalog and
the sources, remove objects or overwrite them, and end a loop at any point (`Fail`: a failed call,
a lost answer, a restart), up to `MaxEvents` times in all. `Events` selects
which kinds a run allows.

### StableNames and ConfigFleet

A name is a sequence of characters of the alphabet of object names; the digest of
an App is an operand, injective on the Apps in use, for SHA-1 is not modelled.
`ConfigFleet` instantiates `ConfigReconciler` twice with different `StableName`s:
the Configs, the locals and the program counters are apart, `objects`, `catalog`
and `upstream` are shared. `MayStep` is the one worker: a loop begins only when no
other runs, but a loop that fails leaves its work half done, and then the other
Config may have its turn.

### Handover

`ConfigReconciler` is instantiated twice again, now with one Config, one set of
objects and two processes (`Project`, `Project2`). `label` is the version label and
`queued` the versions that have an event of the Config in their queue: `Notice`
looks at the label, `Dequeue` does not, so a loop of the old version may begin
after the handover. Each write of the Config by one process makes the copy of the
other out of date (`Written`). The rest of a process, its calls and their order, is
that of `ConfigReconciler` unchanged. Every `Relabel` counts as an event, and the
Config is not deleted while it is handed over.

Not all that holds of one process holds of two. `ServedUntilReplaced`,
`DoneMeansRendered` and the ledger rest on there being one loop at a time: with two,
the late loop of the old version may delete the pair the new one has just ensured,
or replace an object between the other's ensuring it and its status, and a name may be
forgotten while an object of that name exists. What is left, and what `handover`
checks: their writes of the Config do not mix (`WritesFollow`); an object left behind
when its name is forgotten is one the other version made after the clean-up had gone
past it (`ForgetsOnlyOthers`); an object in use is deleted only by a clean-up whose copy of
the Config is out of date, and whose write will therefore be refused
(`ServedUnlessOutdated`); and the selected version has the last word.

### CatalogLookup

`storage` is the URL in each AppCatalog CR and `pages` what is served there. A call
is `Call`, `GetAppCatalog`, `GetIndex`, `Return`; others move the catalog or publish
another page between any two of them. A page is a function from names to lists of
entries, or `Garbage`, whatever does not parse as an index. The HTTP status is not
in the model, for the code does not look at it: an error page is a page. Two
histories, `named` and `served`, record what the catalog said during the call, and
`begun` whether anything happened at all.

### ConfigSource

GitHub is `pushes`, the times at which each tag and branch was pushed; `now` is
the clock. `tagCache` maps a major to the latest tag found for it, `repoCache`
the bare name of a reference to its files. One call runs at a time (there is one
worker), and its locals are the other variables:

    Generate    Call
    tag range   LookupTag, ListPage*, PickLatest | NoTagFound
    files       LookupFiles, Clone | NoSuchReference, StoreFiles, Finish

Between any two steps time may pass (`Tick`), somebody may push (`Push`), and a
request may fail (`RequestFails`). A request, and the whole of a listing, takes
at most `Latency`.

Abstractions:

* A tag is its three numbers and whether it is spelled exactly so, with a
  suffix, or with a padded number. `getLatestTag` passes over suffixed ones and
  prints the numbers back (`Printed`), so a padded tag is looked up under a name
  it may not have.
* The filter of the listing is a substring, so "v1" also gives majors 10 to 19
  (`Contains`). GitHub lists names in a fixed order; the cursor is a position in
  it, and tags pushed meanwhile appear before or after it.
* Files are the kind and the push they come from. Each cache entry carries the
  time it expires; errors are not cached, and go-cache's janitor only removes
  what `Get` would not find any more.
* Name and owner of the repository are constant and left out of the keys.

### ModifyRetry

The controller itself does not call `Modify` and `ModifyStatus`; they are the
package's means for changing an object that others write too. The object is
`marks`: how often it holds the change of each caller, so that a change lost or
made twice shows. A call gets the object into a zeroed struct, applies
`modifyFunc` (`GetAndModify`), and sends it (`Update`); each error but NotFound of
the Get leads to another try while the back-off allows one. `Modify` writes all
but the status, `ModifyStatus` the status alone; both need the resourceVersion
the object was read with (`fresh`). Failures, lost answers, writes, removal and
re-creation by others may come between any two steps. The time between tries
and a back-off that resets itself are left out; `MaxTries` is 7 in the default
back-off and 3 in the run, so that a call may be refused because of each of the
other two and still succeed, or use up its tries.

### ConfigGenerator, Linter and LintReport

`files` is the config repository: values (`config`, `patch`, `secret`), templates
(`template`, `secretTemplate`), patches of templates (`templatePatch`,
`secretPatch`) and `include` files, by installation and App, `None` where the
code finds no file. They change by commits, one line at a time; the generator
and the linter are functions of them. `Generated` goes through the eight steps
of `generateRawConfig`: patch the values, render template and template patch
with them, patch the one with the other, and likewise for secrets, decrypting
`secret.yaml` before and the rendered patch after. `Failed` stands for any error.

`Linter` has an operator for a lint function, true of what that function reports,
over the cross reference `newDiscovery` makes (`UsesConfig`, `UsesPatch`,
`UsesSecret`, `Missing`). `Lintable` are the files it reads without an error,
fewer than the generator.

Abstractions:

* A document is a function from leaves to values, and a tree node (`Nodes`) is there
  when a leaf below it is (`Under`). Trees without leaves, and documents in which one
  has a leaf where another has a tree, are left out.
* A line of a template is a value, a reference to a leaf or a tree, or an include. It
  may stand under a condition (`when`), and a reference to a tree may be a range whose
  body names a field of each thing in it (`field`). `else`, negation and functions are
  left out. The generator evaluates every condition, and of the rest what is under one
  that holds (`Taken`, `Evaluated`); the body of a range is found defined.
* The linter has two views of a template, neither of them this one: whatever looks like
  a field in its text counts as referred to (`References`), and its paths and includes
  are those of an execution without values, when no condition holds (`PathsOf`,
  `IncludesOf`). It looks a field up among the leaves alone (`Missing`).
* Vault refuses what it has not encrypted; `sealed` is also what the linter
  recognizes by its prefix. An include file's text is never encrypted.
* `LintReport` collects what the functions find: per function errors before
  suggestions (`LinterMessages.Less`; the alphabetical order among equals is any
  order here), then by function, then without what the filters take away, then up
  to the limit. Regular expressions of filters are sets of functions and of paths;
  the wording of messages is left out.

### Runs

| run | expects | shows |
|---|---|---|
| `reconciler` | pass | `SpecIsUsers`, `ServedUntilReplaced`, `DoneMeansRendered`, `KeepsLedger`, the inductive invariant, and `Converges` and `DeletionCompletes` after edits, deletions, failures and changes of every kind |
| `no_leak` | violation | objects of a loop that failed before the status update leak |
| `ensured` | violation | a loop can delete the objects it has just ensured |
| `rewrites` | violation | the Secret is rewritten when only the ConfigMap changed |
| `fleet` | pass | two Configs that share objects: `FleetKeepsLedger`, `FleetConverges`, `FleetDeletes`, and the inductive invariants of both |
| `handover` | pass | two versions and one Config: `WritesFollow`, `ForgetsOnlyOthers`, `ServedUnlessOutdated`, `HandoverConverges`, and the part of the invariant that survives |
| `catalog` | pass | `AnswerWasServed` and `QuietCallIsExact` of the lookup |
| `source` | pass | `RightKind`, `TagNotTooOld`, `FilesNotTooOld`, the inductive invariant, and `CallReturns`: the listing ends although tags are pushed meanwhile |
| `modify` | pass | `ModifiesAtomically` (refinement), `ChangedOnce`, `CallsEnd`, and the inductive invariant |
| `range` | violation | the range `1.x.x` gives a tag of major 10 |
| `lint` | pass | `EditsAreLocal`, `NoCiphertext`, `AdviceIsSafe`, `AdviceComesToAnEnd`, `NeverConfiguredFails`, `PatchErrorsMatch`, `CleanGenerates` |
| `lint_secrets` | violation | the linter takes secret values for unused that a template reads |

`reconciler` uses two Apps with a name each, one config version and "no version",
and three events of any kind. Two Apps suffice because at most three names matter
at a time (the desired one, `ref` and `prev`) and the interesting coincidence is
that two of them are equal; three events suffice for an interrupted move to another
App and back, the longest pattern found to matter. A deleted Config really stops, so
deadlock is not checked, but a stop anywhere else would violate `Converges` or
`DeletionCompletes`. `no_leak`, `ensured` and `rewrites` allow the events they need.

`fleet` has two Configs whose names are cut to the same two characters, so that they
share all their objects, one App annotated and one not, and three edits, deletions
or failures: one Config can move away, fail half way, and the other be deleted.
`handover` has two versions and two edits, failures or changes of the label: a
handover, and a failure or an edit at any point of either loop. The catalog is fixed
in both, for `reconciler` varies it.

`catalog` has an App in a catalog in use and one in the refused catalog, two names,
two versions and two URLs, five pages (versions annotated and not, listed twice, left
empty, not listed, an error page) and three events: two to move the catalog and
publish at the new place during a call, and one more in the second request.

`source` has three tags of major 1, a suffixed one and one that is padded, a branch
and a branch spelled like a tag, one tag a page, no tag at first, an entry's lifetime
and a request's latency of one tick each, two pushes or failures, and four ticks: the
shortest time in which a push is old enough that a call must see it while an older
entry could still be there. Every way a call can end occurs.

`lint` starts from a dense repository (every kind of file is used, two ways to say a
value, one of them a duplicate), a sparse one, and one with nothing to report but a
suggestion, and takes all that two commits lead to; the command is run with four sets
of flags: everything; errors only, and of them the first; the functions that matter to
generation, two messages; errors only but for one path. The properties speak of one
App in one installation and one path, and what else can matter to them is one other of
each. One path is below a tree node, and one of the two texts is what a condition does
not hold of. Commits write one of eleven lines (`MCLines`), at least one of each kind:
values encrypted or not, references to leaves and to the node, a range with a field,
and a value, a reference and an include under a condition. Commits stop at the bound, so deadlock is not checked.

What the violations show:

* `no_leak`: create objects for App 1, fail (or conflict) before
  `Status().Update`, edit the spec to App 2. Nothing refers to the first pair
  any more and neither later loops nor the deletion of the Config remove it.
* `ensured`: while the clean-up of a move from App 1 to App 2 runs, the user
  goes back to App 1 and the annotation's update conflicts. The next loop
  ensures the pair of App 1, then its first clean-up deletes that pair, because
  the annotation still names it and the status names App 2; the status is then
  set to it. The pair is missing until a later loop creates it again.
* `rewrites`: see `shared` above.
* `range`: the listing of "v1" includes v10.0.0, and `getLatestTag` compares all
  it was given, so a Config on `1.x.x` moves to major 10 when that appears.
* `lint_secrets`: `populateSecretPathsWithUsedBy` looks at a default template
  only where the installation has a patch of it. Removing what is reported
  unused makes generation fail.

Some more of what the linter does differs from its messages. It was seen while
its functions were read, and is why `CleanGenerates` and `AdviceIsSafe` have the
conditions they have:

* `discovery.go:333` finds no tree among the leaves, so a default template that has
  `{{ range .registry }}`, or asks `{{ if .registry }}`, is told that `.registry` is
  templated but never configured although `config.yaml` has `registry.domain`, unless a
  template patch has a path below it (`lint.go:260`). A patch of templates is told so in
  any case (`lint.go:309`, and `lint.go:228` for secrets), and so is a field under a
  condition that does not hold. `NeverConfiguredFails` and `PatchErrorsMatch` are
  therefore about fields that come to be evaluated, and what follows from a report is
  said of leaves only. A leaf that is read through its tree alone is reported unused
  (`ReadByNode`), and an include under a condition is not seen (`OnCondition`).
* `lint.go:207` tests the error of `Get` the wrong way round, so a path that is
  nowhere is "found" and never reported by `lintUndefinedSecrettemplateValues`, and a
  tree that is there everywhere is.
* `fileparser.go:74` and `lint.go:253` let a template patch stand in for an
  undefined value, but the generator renders the default template before it
  patches it, and fails. `CleanGenerates` has to leave such templates out
  (`NotLookedAt`).
* `lint.go:324` does not search secret templates for includes, and
  `discovery.go:287` does not count the references of include files: what only
  these use is reported never included, or unused.
* `lint.go:135` takes the quotient of two integers, so 0.75 is never reached
  unless all patches overshadow the value, which is handled before.
* A `--filter-functions` that matches no function makes an empty report and exit
  status 0; `CleanGenerates` is about runs with the functions it names.

Two pieces of advice may not both be followed without linting in between: a
value that is overridden everywhere by itself is reported overshadowed in
`config.yaml` and duplicate in each patch. `AdviceIsSafe` is about one removal, and
`AdviceComesToAnEnd` shows that linting after each brings nobody back to where he was:
an error goes, and none comes. It is about values; an include file that is removed
may leave another never included.

### Fairness

`WF_vars(Worker)`: operatorkit starts a loop on every change of the Config and
every resync period, and each call returns. Nothing is assumed of users or of
the outside world except that a run has finitely many events (`MaxEvents`), so
`Converges` speaks of what happens once disturbances stop.

In `ConfigFleet` it is `SF` of a loop of each Config: the queue is first in, first
out, and each Config is in it again after the resync period, so the worker, which is
taken from a Config again and again by the other, does come back to it. In `Handover`
it is `WF` of both processes and of `Notice`, for the resync queues a Config for the
version its label names; `HandoverConverges` is about a label that stays. In
`CatalogLookup` nothing is assumed and no liveness is stated: the client has no timeout
(`service.go:93`), and a server that keeps a connection open for ever stops the
controller.

In `ConfigSource` it is `WF_vars(Steps)`: a call, once made, runs on, for every
request is answered or fails. Calls themselves are not assumed to be made.
In `ModifyRetry` it is `WF_vars(Step(c))` for each caller, for the same reason.

`Converges` holds under the condition that the catalog answers for the App in
the end: `configversion.Get` failing for good (unknown App) stops every loop at
its first step, clean-up of old objects included.

## Proofs

`ConfigReconcilerProofs` proves, for every set of Apps, names and versions and
every number of events:

* `Invariance`: `Inductive` is an invariant. It consists of the type invariant;
  `LoopHasFinalizer` and `UntrackedUntilAdopted` (which phases a loop can be
  in); `CopyIsStored` (what an unconflicted copy of the Config still agrees
  on); `LoopComputed` (locals are set when used); `TodoIsOrphans` (the
  deletions still to be made cover what is about to be forgotten, and nothing
  in use); `LoopEnsured` (objects gone through hold what was rendered); and
  `SpecIsUsers`. None of the checked properties is inductive on its own:
  `SpecIsUsers` needs that a fresh copy has the stored spec, the type of
  `rendered` needs that `generate` is entered with a version, and the
  deletions need the relation of `todo` to the stored references.
* `TypeCorrect`, `SpecPreserved`, `DoneCorrect`: corollaries.
* `ServedPreserved`: the action property `ServedUntilReplaced`.
* `LedgerKept`: `ConfigReconciler` implements `ObjectLedger` under the mapping
  `tracked <- Tracked`, `present <- Present`.
* `LoopIsShort`, `LoopCountsDown`: the part of termination that is a safety property.
  `CallsLeft` counts the calls a loop may still make. It is never more than 19, each
  step of the worker lowers it until the loop is over, and no edit, failure or change
  of the world raises it, although `cleanupOrphanedConfig` calls itself: after the
  annotation is written the copy agrees with its own status, so that it starts over
  at most once in each of its two runs (`AfterCleanUp`). What is left to fairness is
  that the worker does take its steps.

Assumptions: `NamesAssumption` (different Apps get different names; the proofs
use only that names are names), `SentinelAssumption` (`None` is not an object or
a name, the markers are distinct), `BoundAssumption`.

`StableNamesProofs` proves, for every alphabet, length of digests and of names: `NameFits`
(never longer than `MaxLen`), `NamesSharedIff` (two Configs share a name exactly for one
App and one kept part), `NameTellsApps`, `ShortNamesApart`, and `NameLegal` (legal exactly
when the cut leaves no dot in front of the dash). Assumption: `DigestAssumption`.

`ConfigFleetProofs` proves `FleetInvariance` and `FleetLedgerKept`. Each step of one
Config's loop is, for the other, a change of objects while it is idle; `Inductive` says
nothing of objects then, and so is kept (`FleetInductive` adds that one of the two is
idle). The ledger of both is a ledger because what one forgets with an object left is
known to be tracked by the other. Assumptions: those of `ConfigReconciler`, and
`Names2Assumption`.

`HandoverProofs` proves, for two processes, `HandoverInvariance`: `HandoverInductive`, in
which `CopyIsStored` and what is said of objects are gone, and `CopyIsCurrent` has come
in: a copy of the Config that the API server would accept is the stored one. From it
`HandoverWrites`: a write that changes the annotation changes it to the reference of the
status as stored, and a write that changes the status is of the spec as stored.
`RendersOwn` (each process renders with its own version) and `TodoFollowsCopy` (what a
clean-up has still to delete is what its own copy calls orphaned, and whatever was
orphaned and is not in `todo` any more is gone or made by the other) are in the
invariant for `HandoverForgets` and `HandoverServes`, the two action properties about
objects. Assumptions: those of `ConfigReconciler`, and `Project2Assumption`.

`CatalogLookupProofs` proves `LookupTypeCorrect`, `AnswersWereServed` and
`QuietCallsAreExact` for any catalogs and pages. The invariant says that the page at the URL the call holds is among those
served, and that without events the URL and the page are those of the beginning; the
search for the first entry is an operator whose two readings, by the code's loop and by
what a page says, are shown to agree. Assumptions: `PagesAssumption`,
`LookupBoundAssumption`, `LookupSentinelAssumption`.

`ConfigSourceProofs` proves, for all tags, listings, page sizes, lifetimes and
latencies:

* `SourceInvariance`: `Inductive` is an invariant. `TypeOK` alone is not
  inductive: the keys with which a step reads a cache are those of `CallHolds`.
  `CachesHold` says that the name under which files are kept tells their kind;
  this is what makes the shared cache safe, and it rests on `toTagPrefix`
  refusing branches spelled like a tag. `TimesOrdered`, `TagEntriesRecent`,
  `FileEntriesRecent`, `ListingRecent`, `TagRecent` and `CloneRecent` carry the
  age of what was read from the request, through the cache, to the call.
* `SourceTypeCorrect`, `KindsNotConfused`, `TagsRecent`, `FilesRecent`:
  corollaries. `TagsRecent` needs that pages cover the listing: a page is a
  prefix of what remains (`PageIsPrefix`) and empty only when nothing remains
  (`EmptyPageIsLast`).
* `GenerateCountsDown`: a call takes at most `6 + Len(Listing)` steps, for each of its
  own steps lowers `StepsLeft` and nothing else changes it. The cursor is a position in
  the listing, so tags that are pushed meanwhile do not put the end off.

Assumptions: `TagsAssumption` (GitHub lists every tag; pages are not empty; a
config version that starts with a word is not the name of a version tag) and
`TimesAssumption`.

`ModifyRetryProofs` proves, for any number of calls, tries and events:

* `ModifyInvariance`: `Inductive` is an invariant. `CopyIsCurrent` says that an
  update that would be accepted is the stored object and one change;
  `ChangesCounted`, that a call still running has made only the changes whose
  answers it did not get.
* `ModifyAtomic`: `ModifyRetry` implements `AtomicModify` under
  `outcome <- Outcome`. `ModifyTypeCorrect`, `ChangedOnceCorrect`: corollaries.
* `CallsCountDown`: a call takes at most `2 * MaxTries` steps (`StepsLeft`); its own
  steps and failures lower what is left, and no other caller raises it.

Assumptions: `CallersAssumption`, `BoundsAssumption`.

`LinterProofs` proves, for any installations, Apps, paths, trees and files:

* `FilesTyped`, a lemma: commits keep the types of files. It is the only inductive
  fact; the others hold in each well-typed state or step.
* `EditsStayLocal`: generation depends on the files of `Concerns` alone
  (`GeneratedConcerns`).
* `AdviceStaysSafe`: unsetting a value leaves the values a template is rendered
  with as they were, if a patch hides it (`GeneratedContext`), or else changes
  them only where the App's templates and the include files do not look,
  at the leaf or at a tree above it (`DefinedWithout`, `PartWithout`, `RendersWithout`,
  `GeneratedWithout`); likewise for secrets (`UnsetSecretSafe`) and
  for include files that no template names (`RendersWithoutInclude`).
* `NeverConfiguredFailsAlways`, `PatchErrorsAlwaysMatch`: what is evaluated and not
  defined fails the rendering (`RenderFails`), and for a leaf the linter's cross
  reference decides the same (`ContextDomain`, `LeafDefined`); what is evaluated stands
  in the template's text (`EvaluatedReferences`), so an undefined field is not missed.
* `NoCiphertextEver`: what `Decrypted` returns is plain, so is what a template makes of
  it (`TextPlain`), and a Secret's lines are of the patch or of the template
  (`PatchedAt`).
* `CleanAlwaysGenerates`: each way generation can fail is an error of one of the
  functions of `Needed`, on a path of `Reportable`, so no filter takes it away; a message
  that is wanted is in the flattened report; and the limit never cuts that to nothing.
* `AdviceAlwaysEnds`: removing what is reported adds to no function's errors and takes
  away the one that was reported. `AdviceCountsDown`: errors are finitely many
  (`ErrorsFinite`), so their number falls with each removal, and there is an end.

The report is a fold over the functions' messages. The induction theorems of the
library that take an operator are of no use here; what the fold and `SetToSeq` give is
proved from a form of induction over a set of numbers (`NaturalInduction`), which
follows from the existence of minimal elements.

Assumptions: `FilesAssumption` (the first files are well-typed, and `None` is not
a document), `FieldsAssumption` (leaves are not trees), `FailedAssumption` (an error is no document), `OptionsAssumption` (what the
flags of the command can be) and `RepositoryAssumption` (a repository has finitely many
files and lines).

Every invariant and action property that a passing run checks is stated by a theorem.
Liveness (`Converges`, `DeletionCompletes`, `FleetConverges`, `FleetDeletes`,
`HandoverConverges`, `CallReturns`, `CallsEnd`) rests on fairness and stays with TLC,
as do the violations.

## Plan

1. Done: `ConfigReconciler`, `ObjectLedger`, their runs and proofs.
2. Done: `ConfigSource`, its runs and proofs.
3. Done: `ModifyRetry`, `AtomicModify`, their run and proofs.
4. Done: `StableNames`, `ConfigFleet`: names cut alike, and the Configs that share
   objects because of them.
5. Done: `CatalogLookup`, its run and proofs.
6. Done: `ConfigGenerator`, `Linter` and `LintReport`, with trees, conditions and
   ranges, their runs and proofs. Left: `else`, negation and functions, with which more
   of what the linter sees differs from what is evaluated.
7. Done: `Handover`, two versions of the controller and one Config.
8. The reconciler with the caches: `ConfigReconciler` reading through a
   `ConfigSource` that may be a minute old, and what `Converges` then says.
9. More proofs: `NoLeak` and `EnsuredPairExists` under the conditions in which they do
   hold. That `CatalogLookup` implements the one step `ResolveVersion` is not among them:
   when the AppCatalog is moved between the two requests, the answer may be one that
   the catalog never gave at any one time, and `AnswerWasServed` is what holds.

## Not modelled

Requests to Vault, the walk over YAML, flags, HTTP endpoints, the empty metrics
collector, Helm chart, CI, the `generate` command: input/output and wiring without a
protocol. GET into a struct that is not zeroed (`create.go:158`) can only matter when a
field or an annotation is removed from the Config by hand; it is left out. So is a
previous-config annotation that somebody made no JSON of: `XPreviousConfig.Get` then fails
in the clean-up and in `EnsureDeleted`, at every loop, until it is mended by hand.
`templatePathPattern` (`fileparser.go:22`) does not see references to values at the top
with a name of less than three characters; `Linter` takes it to see them all.
