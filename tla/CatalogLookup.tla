---------------------------- MODULE CatalogLookup ----------------------------
(***************************************************************************)
(* How the config version of an App is found: configversion.Service.Get,   *)
(* called by EnsureCreated.  The AppCatalog CR names the URL of an index,  *)
(* the index is fetched from there, and the first entry of the App's       *)
(* version decides.  The two reads are apart, so the catalog may be moved, *)
(* republished or broken between them and during either.  ConfigReconciler *)
(* takes all of it as the one step ResolveVersion.                         *)
(***************************************************************************)
EXTENDS Naturals, Sequences

CONSTANTS
  Catalogs,        \* names of AppCatalogs
  Unsupported,     \* "releases", the catalog that is refused
  URLs,            \* spec.storage.url of AppCatalogs
  AppNames,
  AppVersions,
  ConfigVersions,  \* non-empty values of the config version annotation
  Blank,           \* the annotation with the empty value
  NoAnnotation,    \* no such annotation, or no annotations at all
  Garbage,         \* a page that is no YAML of an index
  Pages,           \* pages that may be served at a URL
  None,            \* no AppCatalog, no URL, no answer
  NotFound,        \* the error that IsNotFound matches
  Failed,          \* any other error
  MaxEvents        \* bound on the number of outside events

App   == [catalog : Catalogs, name : AppNames, version : AppVersions]
Entry == [version : AppVersions, annotation : ConfigVersions \cup {Blank, NoAnnotation}]

\* catalogIndex.Entries; an error page that happens to be YAML has no entries.
Index == [AppNames -> Seq(Entry)]

ASSUME PagesAssumption == Pages \subseteq Index \cup {Garbage} /\ Garbage \notin Index
ASSUME LookupBoundAssumption == Unsupported \in Catalogs /\ MaxEvents \in Nat
ASSUME LookupSentinelAssumption ==
  /\ None \notin URLs
  /\ NoAnnotation \notin ConfigVersions \cup {Blank}
  /\ {NotFound, Failed} \cap (ConfigVersions \cup {Blank, NoAnnotation}) = {}
  /\ NotFound # Failed

VARIABLES
  storage,   \* the URL in each AppCatalog CR, None if there is no such CR
  pages,     \* what is served at each URL
  pc, app, url, answer,
  named,     \* history: URLs that the App's AppCatalog had during the call,
  served,    \* and the pages served there meanwhile
  begun,     \* history: the value of events when the call began
  events

outside == <<storage, pages, events>>
history == <<named, served, begun>>
vars    == <<outside, pc, app, url, answer, history>>

LookupInit ==
  /\ storage \in [Catalogs -> URLs \cup {None}]
  /\ pages \in [URLs -> Pages]
  /\ pc = "idle"
  /\ app \in App
  /\ url = None
  /\ answer = None
  /\ named = {}
  /\ served = {}
  /\ begun = 0
  /\ events = 0

-----------------------------------------------------------------------------
(* Service.Get *)

Answered(a) == pc' = "answered" /\ answer' = a

Begins(a) ==
  /\ pc = "idle"
  /\ app' = a
  /\ named' = {storage[a.catalog]} \ {None}
  /\ served' = {pages[u] : u \in named'}
  /\ begun' = events
  /\ UNCHANGED <<outside, url>>

\* EnsureCreated calls Get for the .spec.app it has read.
CallAny(a) ==
  Begins(a) /\ pc' = "catalog" /\ UNCHANGED answer
Call(a) ==
  /\ Begins(a)
  /\ IF a.catalog = Unsupported
     THEN Answered(Failed)
     ELSE pc' = "catalog" /\ UNCHANGED answer

\* A missing AppCatalog is an error of Kubernetes, not the notFoundError that
\* makes EnsureCreated fall back.
GetAppCatalog ==
  /\ pc = "catalog"
  /\ IF storage[app.catalog] = None
     THEN Answered(Failed) /\ UNCHANGED url
     ELSE url' = storage[app.catalog] /\ pc' = "index" /\ UNCHANGED answer
  /\ UNCHANGED <<outside, app, history>>

\* The first entry of the App's version decides, with an annotation or without.
IsFirst(page, i) ==
  /\ i \in DOMAIN page[app.name]
  /\ page[app.name][i].version = app.version
  /\ \A j \in 1 .. i - 1 : page[app.name][j].version # app.version
Unlisted(page) == \A i \in DOMAIN page[app.name] : ~IsFirst(page, i)
Annotation(page) ==
  page[app.name][CHOOSE i \in DOMAIN page[app.name] : IsFirst(page, i)].annotation

LookupUnchecked(page) ==
  IF page = Garbage \/ Unlisted(page) THEN Failed ELSE Annotation(page)
LookupLenient(page) ==
  IF page = Garbage THEN Failed
  ELSE IF Unlisted(page) \/ Annotation(page) = NoAnnotation THEN NotFound
  ELSE Annotation(page)
Lookup(page) ==
  IF page = Garbage \/ Unlisted(page) THEN Failed
  ELSE IF Annotation(page) = NoAnnotation THEN NotFound
  ELSE Annotation(page)

\* The HTTP status is not looked at, only what the page says.
GetIndex ==
  /\ pc = "index"
  /\ Answered(Lookup(pages[url]))
  /\ UNCHANGED <<outside, app, url, history>>

\* EnsureCreated goes on with the answer, and comes back in another loop.
Return ==
  /\ pc = "answered"
  /\ pc' = "idle"
  /\ answer' = None
  /\ url' = None
  /\ named' = {}
  /\ served' = {}
  /\ begun' = 0
  /\ UNCHANGED <<outside, app>>

-----------------------------------------------------------------------------
(* The environment *)

Happens == events < MaxEvents /\ events' = events + 1

\* During a call, what the catalog names and serves from now on counts too.
Serves ==
  /\ named' = IF pc = "idle" THEN {}
              ELSE named \cup ({storage'[app.catalog]} \ {None})
  /\ served' = served \cup {pages'[u] : u \in named'}
  /\ UNCHANGED begun

\* The AppCatalog is edited, deleted or created.
MoveCatalog(c, u) ==
  /\ Happens
  /\ storage' = [storage EXCEPT ![c] = u]
  /\ UNCHANGED <<pages, pc, app, url, answer>>
  /\ Serves

\* The index is published anew, or an error page takes its place.
Publish(u, page) ==
  /\ Happens
  /\ pages' = [pages EXCEPT ![u] = page]
  /\ UNCHANGED <<storage, pc, app, url, answer>>
  /\ Serves

\* The API server or the catalog's web server does not answer.
CallFails ==
  /\ Happens
  /\ pc \in {"catalog", "index"}
  /\ Answered(Failed)
  /\ UNCHANGED <<storage, pages, app, url, history>>

Get == GetAppCatalog \/ GetIndex \/ Return

LookupNext ==
  \/ \E a \in App : Call(a)
  \/ Get
  \/ \E c \in Catalogs, u \in URLs \cup {None} : MoveCatalog(c, u)
  \/ \E u \in URLs, page \in Pages : Publish(u, page)
  \/ CallFails

\* Nothing is assumed of progress: the HTTP client has no timeout of its own.
LookupSpec == LookupInit /\ [][LookupNext]_vars

-----------------------------------------------------------------------------
(* Properties *)

\* Every variable keeps its type; an answer is an annotation or one of two errors.
LookupTypeOK ==
  /\ storage \in [Catalogs -> URLs \cup {None}]
  /\ pages \in [URLs -> Pages]
  /\ pc \in {"idle", "catalog", "index", "answered"}
  /\ app \in App
  /\ url \in URLs \cup {None}
  /\ answer \in ConfigVersions \cup {Blank, None, NotFound, Failed}
  /\ named \subseteq URLs
  /\ served \subseteq Pages
  /\ begun \in Nat
  /\ events \in Nat

\* What a page says of the App: its version is listed, and the first mention is
\* with this annotation.
Says(page, annotation) ==
  /\ page # Garbage
  /\ \E i \in DOMAIN page[app.name] :
       /\ page[app.name][i] = [version |-> app.version, annotation |-> annotation]
       /\ \A j \in 1 .. i - 1 : page[app.name][j].version # app.version

\* Whatever is moved, republished or out of order during the call, an answer
\* other than an error is one that an index named by the App's catalog gave
\* during the call (service.go:49, service.go:58): a catalog that is down, an
\* error page or an App that is not listed never make EnsureCreated fall back
\* to draughtsman.
AnswerWasServed ==
  pc = "answered" =>
    \/ answer = Failed
    \/ \E page \in served :
         Says(page, IF answer = NotFound THEN NoAnnotation ELSE answer)

\* A call that nothing disturbs fails only for an App the catalog does not list
\* or that comes from the catalog that is refused.
QuietCallIsExact ==
  pc = "answered" /\ events = begun =>
    (answer = Failed
       <=> \/ app.catalog = Unsupported
           \/ \A page \in served, annotation \in ConfigVersions \cup {Blank, NoAnnotation} :
                ~Says(page, annotation))

=============================================================================
