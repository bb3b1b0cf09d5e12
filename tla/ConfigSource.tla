--------------------------- MODULE ConfigSource ---------------------------
(***************************************************************************)
(* Where the generator service takes the files of a config version from:   *)
(* Service.Generate up to the point where it has a store, through the tag  *)
(* cache and the repository cache, to the listing of tags page by page and *)
(* the clone.  GitHub changes and time passes between any two steps.  The  *)
(* reconciler has one worker, so one call runs at a time.                  *)
(***************************************************************************)
EXTENDS Integers, Sequences, FiniteSets

CONSTANTS
  Tags,            \* tag names GitHub may have
  Listing,         \* the tag names in the order GitHub lists them
  PageSize,        \* number of tags on a page
  ConfigVersions,  \* the config versions of Apps, see toTagPrefix
  Branches,        \* branch names; one may be spelled like a tag
  Initial,         \* the references that exist at first
  Expiration,      \* lifetime of a cache entry
  Latency,         \* longest time a listing or a clone takes
  None,            \* no entry, no value
  MaxTime,         \* bound on time
  MaxEvents        \* bound on the number of pushes and failures

\* "v1.2.3", "v1.2.3-rc" and "v1.02.3" are exact, suffixed and padded.
Tag == [major : Nat, minor : Nat, patch : Nat,
        form : {"exact", "suffixed", "padded"}]

\* How getLatestTag prints the numbers it has read.
Printed(t) == [t EXCEPT !.form = "exact"]

Kinds == {"tag", "branch"}
Names == Tags \cup {Printed(t) : t \in Tags} \cup Branches
Refs  == Kinds \X Names

\* A config version by its part before the first dot: a number with ".x.x"
\* after it, another number, "v" and a number, or anything else ("word").  name is
\* its spelling as a branch; that of a word is never that of a tag.
ConfigVersion == [form : {"range", "digits", "vdigits", "word"}, major : Nat,
                  name : Branches]

ASSUME TagsAssumption ==
  /\ Tags \subseteq Tag
  /\ Listing \in Seq(Tags)
  /\ \A t \in Tags : \E i \in DOMAIN Listing : Listing[i] = t
  /\ PageSize \in Nat \ {0}
  /\ Initial \subseteq Refs
  /\ ConfigVersions \subseteq ConfigVersion
  /\ \A cv \in ConfigVersions : cv.form = "word" => cv.name \notin Tag

ASSUME TimesAssumption ==
  {Expiration, Latency, MaxTime, MaxEvents} \subseteq Nat

VARIABLES
  now,        \* the clock
  pushes,     \* GitHub: the times at which each reference was pushed
  tagCache,   \* major to the latest tag
  repoCache,  \* name of a reference to files
  pc,         \* where the running call is
  start,      \* when it began
  want, major, ref,      \* what it looks for: the kind, the major, the name
  listed, after, begun,  \* tags seen, the cursor, start of the request
  files,                 \* what it has got
  events

github == <<now, pushes>>
caches == <<tagCache, repoCache>>
vars   == <<github, caches, pc, start, want, major, ref, listed, after, begun, files, events>>

Majors == {cv.major : cv \in ConfigVersions}

\* Files, by where they come from: a reference as it was after a push.
Files == [kind : Kinds, content : Nat]

Published(kind, n) == pushes[<<kind, n>>] # {}

IsLastPush(p, kind, n) ==
  p \in pushes[<<kind, n>>] /\ \A q \in pushes[<<kind, n>>] : q <= p

Init ==
  /\ now = 0
  /\ pushes = [r \in Refs |-> IF r \in Initial THEN {0} ELSE {}]
  /\ tagCache = [m \in Majors |-> None]
  /\ repoCache = [n \in Names |-> None]
  /\ pc = "idle"
  /\ start = 0
  /\ want = "tag"
  /\ major = 0
  /\ ref = None
  /\ listed = {}
  /\ after = 0
  /\ begun = 0
  /\ files = None
  /\ events = 0

-----------------------------------------------------------------------------
(* The caches *)

\* go-cache finds an entry until it has expired.
FoundExpired(entry) == entry # None
Found(entry) == entry # None /\ now <= entry.expires

EntryForever(v) == [value |-> v, expires |-> -1]
Entry(v) == [value |-> v, expires |-> now + Expiration]

-----------------------------------------------------------------------------
(* Tags *)

\* The name contains the filter "v" and p: the digits of the major begin with
\* those of p.
Contains(t, p) ==
  \E d \in {1, 10, 100, 1000} : (d = 1 \/ t.major >= d) /\ t.major \div d = p

\* Positions in the listing of the tags a request with this cursor has left.
FirstPageOnly(cursor) ==
  {i \in DOMAIN Listing : /\ cursor = 0
                          /\ Published("tag", Listing[i])
                          /\ Contains(Listing[i], major)}
Remaining(cursor) ==
  {i \in DOMAIN Listing : /\ i > cursor
                          /\ Published("tag", Listing[i])
                          /\ Contains(Listing[i], major)}

Page(cursor) ==
  {i \in Remaining(cursor) :
     Cardinality({j \in Remaining(cursor) : j <= i}) <= PageSize}

\* lessFunc, or equal.
Leq(x, y) ==
  \/ x.major < y.major
  \/ /\ x.major = y.major
     /\ \/ x.minor < y.minor
        \/ x.minor = y.minor /\ x.patch <= y.patch

\* Names that are not three numbers are passed over.
IsVersion(t) == t.form # "suffixed"

IsLatest(t, tags) ==
  t \in tags /\ IsVersion(t) /\ \A u \in tags : IsVersion(u) => Leq(u, t)

-----------------------------------------------------------------------------
(* Service.Generate *)

ReturnKeepsCursor ==
  /\ pc' = "idle"
  /\ start' = 0 /\ want' = "tag" /\ major' = 0 /\ ref' = None /\ begun' = 0
  /\ UNCHANGED <<listed, after>>
  /\ files' = None
Return ==
  /\ pc' = "idle"
  /\ start' = 0
  /\ want' = "tag"
  /\ major' = 0
  /\ ref' = None
  /\ begun' = 0
  /\ listed' = {}
  /\ after' = 0
  /\ files' = None

\* toTagPrefix: which config versions are refused, which are tag ranges, and
\* which are taken for branches.
AnyWordIsBranch(cv) ==
  IF cv.form = "digits" THEN "error" ELSE IF cv.form = "range" THEN "tag" ELSE "branch"
KindOf(cv) ==
  CASE cv.form = "range" -> "tag"
    [] cv.form = "word"  -> "branch"
    [] OTHER             -> "error"

Call(cv) ==
  /\ pc = "idle"
  /\ KindOf(cv) # "error"
  /\ start' = now
  /\ want' = KindOf(cv)
  /\ major' = IF want' = "tag" THEN cv.major ELSE 0
  /\ ref' = IF want' = "tag" THEN None ELSE cv.name
  /\ pc' = IF want' = "tag" THEN "tag" ELSE "files"
  /\ UNCHANGED <<github, caches, listed, after, begun, files, events>>

\* GetLatestTag: the cache first.
LookupTag ==
  /\ pc = "tag"
  /\ IF Found(tagCache[major])
     THEN /\ ref' = tagCache[major].value
          /\ pc' = "files"
          /\ UNCHANGED begun
     ELSE /\ pc' = "list"
          /\ begun' = now
          /\ UNCHANGED ref
  /\ UNCHANGED <<github, caches, start, want, major, listed, after, files, events>>

\* getTags: the next page.  The cursor is that of its last tag.
CursorStays(i, page) == i = after
IsCursor(i, page) == i \in page /\ \A j \in page : j <= i

ListPage ==
  /\ pc = "list"
  /\ LET page == Page(after) IN
     /\ page # {}
     /\ listed' = listed \cup {Listing[i] : i \in page}
     /\ \E i \in 0 .. Len(Listing) : IsCursor(i, page) /\ after' = i
  /\ UNCHANGED <<github, caches, pc, start, want, major, ref, begun, files, events>>

\* An empty page ends the listing; the latest tag is cached.
PickLatest ==
  /\ pc = "list"
  /\ Page(after) = {}
  /\ \E t \in listed : IsLatest(t, listed) /\ ref' = Printed(t)
  /\ tagCache' = [tagCache EXCEPT ![major] = Entry(ref')]
  /\ pc' = "files"
  /\ listed' = {} /\ after' = 0 /\ begun' = 0
  /\ UNCHANGED <<github, repoCache, start, want, major, files, events>>

NoTagFound ==
  /\ pc = "list"
  /\ Page(after) = {}
  /\ \A t \in listed : ~IsVersion(t)
  /\ Return
  /\ UNCHANGED <<github, caches, events>>

\* GetFilesByTag and GetFilesByBranch: one cache, keyed by the bare name.
LookupFiles ==
  /\ pc = "files"
  /\ IF Found(repoCache[ref])
     THEN /\ files' = repoCache[ref].value
          /\ pc' = "done"
          /\ UNCHANGED begun
     ELSE /\ pc' = "clone"
          /\ begun' = now
          /\ UNCHANGED files
  /\ UNCHANGED <<github, caches, start, want, major, ref, listed, after, events>>

\* ShallowClone of refs/tags/ or refs/heads/.
Clone ==
  /\ pc = "clone"
  /\ \E p \in pushes[<<want, ref>>] :
       /\ IsLastPush(p, want, ref)
       /\ files' = [kind |-> want, content |-> p]
  /\ pc' = "store"
  /\ UNCHANGED <<github, caches, start, want, major, ref, listed, after, begun, events>>

NoSuchReference ==
  /\ pc = "clone"
  /\ ~Published(want, ref)
  /\ Return
  /\ UNCHANGED <<github, caches, events>>

StoreFiles ==
  /\ pc = "store"
  /\ repoCache' = [repoCache EXCEPT ![ref] = Entry(files)]
  /\ pc' = "done"
  /\ begun' = 0
  /\ UNCHANGED <<github, tagCache, start, want, major, ref, listed, after, files, events>>

Finish ==
  /\ pc = "done"
  /\ Return
  /\ UNCHANGED <<github, caches, events>>

Steps ==
  \/ LookupTag \/ ListPage \/ PickLatest \/ NoTagFound
  \/ LookupFiles \/ Clone \/ NoSuchReference \/ StoreFiles \/ Finish

-----------------------------------------------------------------------------
(* The environment *)

\* A request takes at most Latency.
Tick ==
  /\ now < MaxTime
  /\ pc \in {"list", "clone", "store"} => now < begun + Latency
  /\ now' = now + 1
  /\ UNCHANGED <<pushes, caches, pc, start, want, major, ref, listed, after, begun, files, events>>

\* A new tag or a moved one, a new branch or a commit on one.
Push(r) ==
  /\ events < MaxEvents
  /\ r[2] \in IF r[1] = "tag" THEN Tags ELSE Branches
  /\ now \notin pushes[r]
  /\ pushes' = [pushes EXCEPT ![r] = @ \cup {now}]
  /\ events' = events + 1
  /\ UNCHANGED <<now, caches, pc, start, want, major, ref, listed, after, begun, files>>

\* A request fails.
RequestFails ==
  /\ events < MaxEvents
  /\ pc \in {"list", "clone"}
  /\ Return
  /\ events' = events + 1
  /\ UNCHANGED <<github, caches>>

Next ==
  \/ \E cv \in ConfigVersions : Call(cv)
  \/ Steps
  \/ Tick
  \/ \E r \in Refs : Push(r)
  \/ RequestFails

\* Once called, Generate runs on.
Spec == Init /\ [][Next]_vars /\ WF_vars(Steps)

-----------------------------------------------------------------------------
(* Properties *)

\* Every variable keeps its type.
TypeOK ==
  /\ now \in 0 .. MaxTime
  /\ pushes \in [Refs -> SUBSET (0 .. MaxTime)]
  /\ tagCache \in [Majors -> [value : Names, expires : Nat] \cup {None}]
  /\ repoCache \in [Names -> [value : Files, expires : Nat] \cup {None}]
  /\ pc \in {"idle", "tag", "list", "files", "clone", "store", "done"}
  /\ start \in 0 .. MaxTime /\ begun \in 0 .. MaxTime
  /\ want \in Kinds
  /\ major \in Majors \cup {0}
  /\ ref \in Names \cup {None}
  /\ listed \subseteq Tags
  /\ after \in 0 .. Len(Listing)
  /\ files \in Files \cup {None}
  /\ events \in 0 .. MaxEvents

\* The repository cache keeps tags and branches under their bare names
\* (github.go:55 and :71).  Still, files of a branch are never used for a tag
\* range, nor those of a tag for a branch spelled like it: toTagPrefix refuses
\* every branch name that could be the name of a latest tag.
RightKind == pc = "done" => files.kind = want

\* Old enough to be seen by any call that began at start: the entry it finds
\* is at most Expiration old and its request took at most Latency.
MustBeSeen(p) == p + Expiration + Latency < start

\* A tag range gives a tag that is not older than the caches allow, whatever
\* is pushed between the pages of a listing.
TagNotTooOld ==
  pc = "done" /\ want = "tag" =>
    \A t \in Tags : \A p \in pushes[<<"tag", t>>] :
      t.major = major /\ IsVersion(t) /\ MustBeSeen(p) => Leq(t, ref)

\* The same of the files of the reference that was chosen.
FilesNotTooOld ==
  pc = "done" =>
    \A p \in pushes[<<want, ref>>] : MustBeSeen(p) => p <= files.content

\* The inductive invariant the two bounds above rest on, by parts.  What the
\* running call holds at each of its steps:
CallHolds ==
  /\ pc # "idle" /\ want = "tag" => major \in Majors
  /\ pc \in {"tag", "list"} => want = "tag"
  /\ pc # "list" => after = 0
  /\ pc \in {"files", "clone", "store", "done"} =>
       ref \in Names /\ (ref \in Tag <=> want = "tag")
  /\ pc \in {"store", "done"} => files \in Files /\ files.kind = want

\* which entries the caches hold,
CachesHold ==
  /\ \A m \in Majors : tagCache[m] # None => tagCache[m].value \in Tag
  /\ \A n \in Names : repoCache[n] # None =>
       (n \in Tag <=> repoCache[n].value.kind = "tag")

\* how the times are ordered,
TimesOrdered ==
  /\ start <= now
  /\ pc \in {"list", "clone", "store"} =>
       start <= begun /\ begun <= now /\ now <= begun + Latency
  /\ \A r \in Refs : \A p \in pushes[r] : p <= now

\* and what an entry of each cache, the listing so far, the chosen tag and the
\* clone cannot have missed.
TagEntriesRecent ==
  \A m \in Majors : tagCache[m] # None =>
    /\ tagCache[m].expires <= now + Expiration
    /\ \A t \in Tags : \A p \in pushes[<<"tag", t>>] :
         /\ t.major = m /\ IsVersion(t)
         /\ p + Expiration + Latency < tagCache[m].expires
         => Leq(t, tagCache[m].value)

FileEntriesRecent ==
  \A n \in Names : repoCache[n] # None =>
    /\ repoCache[n].expires <= now + Expiration
    /\ \A p \in pushes[<<repoCache[n].value.kind, n>>] :
         p + Expiration + Latency < repoCache[n].expires
         => p <= repoCache[n].value.content

ListingRecent ==
  pc = "list" =>
    \A i \in 1 .. after : \A p \in pushes[<<"tag", Listing[i]>>] :
      Contains(Listing[i], major) /\ p < begun => Listing[i] \in listed

TagRecent ==
  pc \in {"files", "clone", "store", "done"} /\ want = "tag" =>
    \A t \in Tags : \A p \in pushes[<<"tag", t>>] :
      t.major = major /\ IsVersion(t) /\ MustBeSeen(p) => Leq(t, ref)

CloneRecent ==
  pc = "store" => \A p \in pushes[<<want, ref>>] : p < begun => p <= files.content

Inductive ==
  /\ TypeOK /\ CallHolds /\ CachesHold /\ TimesOrdered
  /\ TagEntriesRecent /\ FileEntriesRecent
  /\ ListingRecent /\ TagRecent /\ CloneRecent /\ FilesNotTooOld

\* Listing the tags ends, although tags are pushed meanwhile: the cursor moves
\* with every page.
CallReturns == pc # "idle" ~> pc = "idle"

\* internal/generator/service.go:103: "ConfigVersion used to generate the
\* configuration which is either a major" version range or a branch name: the
\* tag of a range has the major of the range.
RangeKeepsMajor == pc = "done" /\ want = "tag" => ref.major = major

=============================================================================
