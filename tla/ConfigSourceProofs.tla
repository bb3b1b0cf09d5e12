------------------------ MODULE ConfigSourceProofs ------------------------
(***************************************************************************)
(* Proofs about ConfigSource, for every value of its constants: the type   *)
(* invariant, that tags and branches are not confused, and the bounds on   *)
(* the age of the tag and of the files a call gets.                        *)
(***************************************************************************)
EXTENDS ConfigSource, FiniteSetTheorems, WellFoundedInduction, TLAPS

USE DEF github, caches

-----------------------------------------------------------------------------
(* What the data operators return *)

LEMMA PrintedType ==
  ASSUME NEW t \in Tags
  PROVE  Printed(t) \in Names /\ Printed(t) \in Tag
<1>1. Printed(t) \in Names
  BY DEF Names
<1>2. t \in Tag
  BY TagsAssumption
<1>3. Printed(t) \in Tag
  BY <1>2 DEF Printed, Tag
<1> QED BY <1>1, <1>3

LEMMA KindOfType ==
  ASSUME NEW cv \in ConfigVersions, KindOf(cv) # "error"
  PROVE  /\ cv.major \in Majors
         /\ cv.name \in Names
         /\ KindOf(cv) \in Kinds
         /\ KindOf(cv) = "branch" => cv.name \notin Tag
<1>1. cv \in ConfigVersion
  BY TagsAssumption
<1>2. cv.major \in Majors
  BY DEF Majors
<1>3. cv.name \in Names
  BY <1>1 DEF Names, ConfigVersion
<1>4. KindOf(cv) \in Kinds
  BY <1>1 DEF KindOf, Kinds, ConfigVersion
<1>5. ASSUME KindOf(cv) = "branch" PROVE cv.form = "word"
  BY <1>1, <1>5 DEF KindOf, ConfigVersion
<1> QED BY <1>2, <1>3, <1>4, <1>5, TagsAssumption

LEMMA EntryType ==
  ASSUME NEW v, now \in Nat
  PROVE  /\ Entry(v).value = v
         /\ Entry(v).expires = now + Expiration
         /\ \A S : v \in S => Entry(v) \in [value : S, expires : Nat]
BY TimesAssumption DEF Entry

-----------------------------------------------------------------------------
(* Pages of the listing *)

LEMMA PageType == Page(after) \subseteq DOMAIN Listing
BY DEF Page, Remaining

\* A tag before one that is on the page is on the page too.
LEMMA PageIsPrefix ==
  ASSUME NEW k \in Page(after), NEW i \in Remaining(after), i <= k
  PROVE  i \in Page(after)
<1> DEFINE Upto(n) == {j \in Remaining(after) : j <= n}
<1>1. Remaining(after) \subseteq 1 .. Len(Listing) /\ Len(Listing) \in Nat
  BY TagsAssumption DEF Remaining
<1>2. k \in Remaining(after) /\ Cardinality(Upto(k)) <= PageSize
  BY DEF Page
<1>3. IsFiniteSet(Upto(k))
  <2>1. IsFiniteSet(1 .. Len(Listing))
    BY <1>1, FS_Interval
  <2>2. Upto(k) \in SUBSET (1 .. Len(Listing))
    BY <1>1
  <2> QED BY <2>1, <2>2, FS_Subset
<1>4. Upto(i) \in SUBSET Upto(k)
  BY <1>1, <1>2
<1>5. IsFiniteSet(Upto(i)) /\ Cardinality(Upto(i)) <= Cardinality(Upto(k))
  BY <1>3, <1>4, FS_Subset
<1>6. Cardinality(Upto(i)) \in Nat /\ Cardinality(Upto(k)) \in Nat
  BY <1>3, <1>5, FS_CardinalityType
<1>7. Cardinality(Upto(i)) <= PageSize
  BY <1>2, <1>5, <1>6, TagsAssumption
<1> QED BY <1>7 DEF Page

\* While tags remain the page is not empty.
LEMMA EmptyPageIsLast ==
  ASSUME Page(after) = {}
  PROVE  Remaining(after) = {}
<1> SUFFICES ASSUME Remaining(after) # {} PROVE FALSE
  OBVIOUS
<1>1. Remaining(after) \subseteq Nat
  BY TagsAssumption DEF Remaining
<1>2. PICK i \in Remaining(after) :
        \A j \in Remaining(after) : <<j, i>> \notin OpToRel(<, Nat)
  <2> HIDE DEF Remaining
  <2> QED BY <1>1, NatLessThanWellFounded, WFMin, Zenon
<1>3. \A j \in Remaining(after) : i <= j
  <2> SUFFICES ASSUME NEW j \in Remaining(after), j < i PROVE FALSE
    BY <1>1
  <2> QED BY <1>1, <1>2 DEF OpToRel
<1>4. {j \in Remaining(after) : j <= i} = {i}
  BY <1>1, <1>3
<1>5. Cardinality({j \in Remaining(after) : j <= i}) <= PageSize
  <2>1. Cardinality({i}) = 1
    BY FS_Singleton, Zenon
  <2>2. 1 <= PageSize
    BY TagsAssumption
  <2> QED BY <1>4, <2>1, <2>2
<1> QED BY <1>5 DEF Page

-----------------------------------------------------------------------------
(* Type correctness *)

LEMMA InitType == Init => TypeOK
<1> SUFFICES ASSUME Init PROVE TypeOK
  OBVIOUS
<1>1. 0 \in 0 .. MaxTime /\ 0 \in 0 .. MaxEvents
  BY TimesAssumption
<1>2. 0 \in 0 .. Len(Listing)
  BY TagsAssumption
<1>3. pushes \in [Refs -> SUBSET (0 .. MaxTime)]
  BY <1>1 DEF Init
<1> QED BY <1>1, <1>2, <1>3 DEF Init, TypeOK, Kinds

LEMMA ReturnType ==
  ASSUME TypeOK, Return, UNCHANGED <<github, caches>>, events' \in 0 .. MaxEvents
  PROVE  TypeOK'
<1>1. 0 \in 0 .. MaxTime
  BY TimesAssumption
<1>2. 0 \in 0 .. Len(Listing)
  BY TagsAssumption
<1> QED BY <1>1, <1>2 DEF Return, TypeOK, Kinds

LEMMA StepsType ==
  ASSUME TypeOK, CallHolds, Steps
  PROVE  TypeOK'
<1>a. now \in Nat /\ 0 \in 0 .. MaxTime /\ 0 \in 0 .. Len(Listing)
  BY TimesAssumption, TagsAssumption DEF TypeOK
<1>1. CASE LookupTag
  <2>1. CASE Found(tagCache[major])
    <3>1. tagCache[major] \in [value : Names, expires : Nat]
      BY <1>1, <2>1 DEF LookupTag, CallHolds, TypeOK, Found
    <3> QED BY <1>1, <2>1, <3>1 DEF LookupTag, TypeOK
  <2>2. CASE ~Found(tagCache[major])
    BY <1>1, <2>2 DEF LookupTag, TypeOK
  <2> QED BY <2>1, <2>2
<1>2. CASE ListPage
  <2>1. \A i \in Page(after) : Listing[i] \in Tags
    BY PageType, TagsAssumption
  <2>2. listed' \subseteq Tags
    BY <1>2, <2>1 DEF ListPage, TypeOK
  <2>3. after' \in 0 .. Len(Listing)
    BY <1>2 DEF ListPage
  <2> QED BY <1>2, <2>2, <2>3 DEF ListPage, TypeOK
<1>3. CASE PickLatest
  <2>1. ref' \in Names
    BY <1>3, PrintedType DEF PickLatest, IsLatest, TypeOK
  <2>2. Entry(ref') \in [value : Names, expires : Nat]
    BY <1>a, <2>1, EntryType
  <2>3. tagCache' \in [Majors -> [value : Names, expires : Nat] \cup {None}]
    BY <1>3, <2>2 DEF PickLatest, TypeOK
  <2> QED BY <1>3, <1>a, <2>1, <2>3 DEF PickLatest, TypeOK
<1>4. CASE NoTagFound
  BY <1>4, ReturnType DEF NoTagFound, TypeOK
<1>5. CASE LookupFiles
  <2>1. CASE Found(repoCache[ref])
    <3>1. repoCache[ref] \in [value : Files, expires : Nat]
      BY <1>5, <2>1 DEF LookupFiles, CallHolds, TypeOK, Found
    <3> QED BY <1>5, <2>1, <3>1 DEF LookupFiles, TypeOK
  <2>2. CASE ~Found(repoCache[ref])
    BY <1>5, <2>2 DEF LookupFiles, TypeOK
  <2> QED BY <2>1, <2>2
<1>6. CASE Clone
  <2>1. <<want, ref>> \in Refs
    BY <1>6 DEF Clone, CallHolds, TypeOK, Refs
  <2>2. files' \in Files
    BY <1>6, <2>1 DEF Clone, TypeOK, Files
  <2> QED BY <1>6, <2>2 DEF Clone, TypeOK
<1>7. CASE NoSuchReference
  BY <1>7, ReturnType DEF NoSuchReference, TypeOK
<1>8. CASE StoreFiles
  <2>1. Entry(files) \in [value : Files, expires : Nat]
    BY <1>8, <1>a, EntryType DEF StoreFiles, CallHolds
  <2>2. repoCache' \in [Names -> [value : Files, expires : Nat] \cup {None}]
    BY <1>8, <2>1 DEF StoreFiles, TypeOK
  <2> QED BY <1>8, <1>a, <2>2 DEF StoreFiles, TypeOK
<1>9. CASE Finish
  BY <1>9, ReturnType DEF Finish, TypeOK
<1> QED BY <1>1, <1>2, <1>3, <1>4, <1>5, <1>6, <1>7, <1>8, <1>9 DEF Steps

LEMMA NextType ==
  ASSUME TypeOK, CallHolds, [Next]_vars
  PROVE  TypeOK'
<1>1. ASSUME NEW cv \in ConfigVersions, Call(cv) PROVE TypeOK'
  <2>1. want' \in Kinds
    BY <1>1, KindOfType DEF Call
  <2>2. major' \in Majors \cup {0} /\ ref' \in Names \cup {None}
    BY <1>1, KindOfType DEF Call
  <2> QED BY <1>1, <2>1, <2>2 DEF Call, TypeOK
<1>2. CASE Steps
  BY <1>2, StepsType
<1>3. CASE Tick
  BY <1>3, TimesAssumption DEF Tick, TypeOK
<1>4. ASSUME NEW r \in Refs, Push(r) PROVE TypeOK'
  <2>1. pushes' \in [Refs -> SUBSET (0 .. MaxTime)]
    BY <1>4 DEF Push, TypeOK
  <2>2. events' \in 0 .. MaxEvents
    BY <1>4, TimesAssumption DEF Push, TypeOK
  <2> QED BY <1>4, <2>1, <2>2 DEF Push, TypeOK
<1>5. CASE RequestFails
  <2>1. events' \in 0 .. MaxEvents
    BY <1>5, TimesAssumption DEF RequestFails, TypeOK
  <2> QED BY <1>5, <2>1, ReturnType DEF RequestFails
<1>6. CASE UNCHANGED vars
  BY <1>6 DEF vars, TypeOK
<1> QED BY <1>1, <1>2, <1>3, <1>4, <1>5, <1>6 DEF Next

-----------------------------------------------------------------------------
(* What the call and the caches hold *)

LEMMA NextCallHolds ==
  ASSUME TypeOK, CallHolds, CachesHold, [Next]_vars
  PROVE  CallHolds'
<1>1. ASSUME NEW cv \in ConfigVersions, Call(cv) PROVE CallHolds'
  <2>1. KindOf(cv) \in {"tag", "branch"}
    BY <1>1, KindOfType DEF Call, Kinds
  <2>2. CASE KindOf(cv) = "tag"
    BY <1>1, <2>2, KindOfType DEF Call, CallHolds
  <2>3. CASE KindOf(cv) = "branch"
    BY <1>1, <2>3, KindOfType DEF Call, CallHolds
  <2> QED BY <2>1, <2>2, <2>3
<1>2. CASE LookupTag
  <2>1. CASE Found(tagCache[major])
    <3>1. major \in Majors /\ want = "tag"
      BY <1>2 DEF LookupTag, CallHolds
    <3>2. tagCache[major].value \in Tag
      BY <2>1, <3>1 DEF Found, CachesHold
    <3>3. tagCache[major].value \in Names
      BY <2>1, <3>1 DEF Found, TypeOK
    <3> QED BY <1>2, <2>1, <3>1, <3>2, <3>3 DEF LookupTag, CallHolds
  <2>2. CASE ~Found(tagCache[major])
    BY <1>2, <2>2 DEF LookupTag, CallHolds
  <2> QED BY <2>1, <2>2
<1>3. CASE ListPage
  BY <1>3 DEF ListPage, CallHolds
<1>4. CASE PickLatest
  <2>1. ref' \in Names /\ ref' \in Tag
    BY <1>4, PrintedType DEF PickLatest, IsLatest, TypeOK
  <2> QED BY <1>4, <2>1 DEF PickLatest, CallHolds
<1>5. CASE NoTagFound
  BY <1>5 DEF NoTagFound, Return, CallHolds
<1>6. CASE LookupFiles
  <2>1. CASE Found(repoCache[ref])
    <3>1. ref \in Names /\ (ref \in Tag <=> want = "tag")
      BY <1>6 DEF LookupFiles, CallHolds
    <3>2. repoCache[ref].value \in Files
      BY <2>1, <3>1 DEF Found, TypeOK
    <3>3. repoCache[ref].value.kind = want
      BY <2>1, <3>1, <3>2 DEF Found, CachesHold, TypeOK, Kinds, Files
    <3> QED BY <1>6, <2>1, <3>1, <3>2, <3>3 DEF LookupFiles, CallHolds
  <2>2. CASE ~Found(repoCache[ref])
    BY <1>6, <2>2 DEF LookupFiles, CallHolds
  <2> QED BY <2>1, <2>2
<1>7. CASE Clone
  <2>1. <<want, ref>> \in Refs
    BY <1>7 DEF Clone, CallHolds, TypeOK, Refs
  <2>2. files' \in Files /\ files'.kind = want
    BY <1>7, <2>1 DEF Clone, TypeOK, Files
  <2> QED BY <1>7, <2>2 DEF Clone, CallHolds
<1>8. CASE NoSuchReference
  BY <1>8 DEF NoSuchReference, Return, CallHolds
<1>9. CASE StoreFiles
  BY <1>9 DEF StoreFiles, CallHolds
<1>10. CASE Finish
  BY <1>10 DEF Finish, Return, CallHolds
<1>11. CASE Tick
  BY <1>11 DEF Tick, CallHolds
<1>12. ASSUME NEW r \in Refs, Push(r) PROVE CallHolds'
  BY <1>12 DEF Push, CallHolds
<1>13. CASE RequestFails
  BY <1>13 DEF RequestFails, Return, CallHolds
<1>14. CASE UNCHANGED vars
  BY <1>14 DEF vars, CallHolds
<1> QED BY <1>1, <1>2, <1>3, <1>4, <1>5, <1>6, <1>7, <1>8, <1>9, <1>10,
           <1>11, <1>12, <1>13, <1>14 DEF Next, Steps

\* Only these two steps write to a cache, and only Push to GitHub.
LEMMA CachesChange ==
  ASSUME [Next]_vars
  PROVE  \/ PickLatest
         \/ StoreFiles
         \/ UNCHANGED caches
BY DEF Next, Steps, Call, LookupTag, ListPage, NoTagFound, LookupFiles, Clone,
       NoSuchReference, Finish, Tick, Push, RequestFails, vars

LEMMA GithubChanges ==
  ASSUME [Next]_vars
  PROVE  \/ Tick
         \/ \E r \in Refs : Push(r)
         \/ UNCHANGED github
BY DEF Next, Steps, Call, LookupTag, ListPage, PickLatest, NoTagFound, LookupFiles,
       Clone, NoSuchReference, StoreFiles, Finish, RequestFails, vars

LEMMA NextCachesHold ==
  ASSUME TypeOK, CallHolds, CachesHold, [Next]_vars
  PROVE  CachesHold'
<1>1. CASE PickLatest
  <2>1. ref' \in Tag
    BY <1>1, PrintedType DEF PickLatest, IsLatest, TypeOK
  <2>2. Entry(ref').value = ref'
    BY EntryType DEF TypeOK
  <2> QED BY <1>1, <2>1, <2>2 DEF PickLatest, CachesHold, TypeOK
<1>2. CASE StoreFiles
  <2>1. ref \in Tag <=> files.kind = "tag"
    BY <1>2 DEF StoreFiles, CallHolds
  <2>2. Entry(files).value = files
    BY EntryType DEF TypeOK
  <2> QED BY <1>2, <2>1, <2>2 DEF StoreFiles, CachesHold, TypeOK
<1>3. CASE UNCHANGED caches
  BY <1>3 DEF CachesHold
<1> QED BY <1>1, <1>2, <1>3, CachesChange

-----------------------------------------------------------------------------
(* The order of times *)

LEMMA NextTimesOrdered ==
  ASSUME TypeOK, TimesOrdered, [Next]_vars
  PROVE  TimesOrdered'
<1>a. now \in Nat /\ start \in Nat /\ begun \in Nat /\ Latency \in Nat
  BY TimesAssumption DEF TypeOK
<1>1. CASE Tick
  <2>1. \A r \in Refs : \A p \in pushes[r] : p \in Nat
    BY DEF TypeOK
  <2> QED BY <1>a, <1>1, <2>1 DEF Tick, TimesOrdered
<1>2. ASSUME NEW r \in Refs, Push(r) PROVE TimesOrdered'
  BY <1>a, <1>2 DEF Push, TimesOrdered, TypeOK
<1>3. CASE UNCHANGED github
  <2>1. \A r \in Refs : \A p \in pushes'[r] : p <= now'
    BY <1>3 DEF TimesOrdered
  <2>2. start' <= now'
    BY <1>a, <1>3 DEF TimesOrdered, Next, Steps, Call, LookupTag, ListPage, PickLatest,
       NoTagFound, LookupFiles, Clone, NoSuchReference, StoreFiles, Finish, Tick,
       Push, RequestFails, Return, vars
  <2>3. ASSUME pc' \in {"list", "clone", "store"}
        PROVE  start' <= begun' /\ begun' <= now' /\ now' <= begun' + Latency
    BY <1>a, <1>3, <2>3 DEF TimesOrdered, Next, Steps, Call, LookupTag, ListPage,
       PickLatest, NoTagFound, LookupFiles, Clone, NoSuchReference, StoreFiles,
       Finish, Tick, Push, RequestFails, Return, vars
  <2> QED BY <2>1, <2>2, <2>3 DEF TimesOrdered
<1> QED BY <1>1, <1>2, <1>3, GithubChanges

-----------------------------------------------------------------------------
(* The age of the tag *)

LEMMA ContainsOwnMajor ==
  ASSUME NEW t \in Tag
  PROVE  Contains(t, t.major)
<1>1. t.major \in Nat
  BY DEF Tag
<1>2. t.major \div 1 = t.major
  BY <1>1
<1> QED BY <1>2 DEF Contains

LEMMA LeqPrinted ==
  ASSUME NEW t \in Tag, NEW u \in Tag, Leq(u, t)
  PROVE  Leq(u, Printed(t))
<1>1. /\ Printed(t).major = t.major
      /\ Printed(t).minor = t.minor
      /\ Printed(t).patch = t.patch
  BY DEF Printed, Tag
<1> QED BY <1>1 DEF Leq

\* When the page is empty, every tag of this major that was there when the
\* listing began has been listed, whatever was pushed meanwhile: so the tag that
\* is picked is not less than any of them.
LEMMA PickedIsLatest ==
  ASSUME TypeOK, ListingRecent, PickLatest,
         NEW t \in Tags, NEW p \in pushes[<<"tag", t>>],
         t.major = major, IsVersion(t), p < begun
  PROVE  Leq(t, ref')
<1>1. pc = "list" /\ Page(after) = {}
  BY DEF PickLatest
<1>2. PICK i \in DOMAIN Listing : Listing[i] = t
  BY TagsAssumption
<1>3. Contains(Listing[i], major)
  BY <1>2, ContainsOwnMajor, TagsAssumption
<1>4. i \notin Remaining(after)
  BY <1>1, EmptyPageIsLast
<1>5. i \in 1 .. after
  <2>1. Published("tag", Listing[i])
    BY <1>2 DEF Published
  <2>2. ~(i > after)
    BY <1>2, <1>3, <1>4, <2>1 DEF Remaining
  <2>3. i \in 1 .. Len(Listing) /\ after \in Nat
    BY <1>2, TagsAssumption DEF TypeOK
  <2> QED BY <2>2, <2>3
<1>6. t \in listed
  BY <1>1, <1>2, <1>3, <1>5 DEF ListingRecent
<1>7. PICK u \in listed : IsLatest(u, listed) /\ ref' = Printed(u)
  BY DEF PickLatest
<1>8. Leq(t, u)
  BY <1>6, <1>7 DEF IsLatest
<1>9. t \in Tag /\ u \in Tag
  BY TagsAssumption DEF TypeOK
<1> QED BY <1>7, <1>8, <1>9, LeqPrinted

LEMMA NextListingRecent ==
  ASSUME TypeOK, CallHolds, TimesOrdered, ListingRecent, [Next]_vars
  PROVE  ListingRecent'
<1>a. \A r \in Refs : \A p \in pushes[r] : p \in Nat
  BY DEF TypeOK
<1>1. CASE LookupTag
  <2>1. after' = 0
    BY <1>1 DEF LookupTag, CallHolds
  <2> QED BY <2>1 DEF ListingRecent
<1>2. CASE ListPage
  <2> SUFFICES ASSUME NEW i \in 1 .. after', NEW p \in pushes[<<"tag", Listing[i]>>],
                      Contains(Listing[i], major), p < begun
               PROVE  Listing[i] \in listed'
    BY <1>2 DEF ListPage, ListingRecent
  <2>1. after \in Nat /\ after' \in Page(after)
    BY <1>2 DEF ListPage, IsCursor, TypeOK
  <2>2. CASE i <= after
    <3>1. i \in 1 .. after
      BY <2>1, <2>2
    <3>2. Listing[i] \in listed
      BY <1>2, <3>1 DEF ListPage, ListingRecent
    <3> QED BY <1>2, <3>2 DEF ListPage
  <2>3. CASE i > after
    <3>1. i \in DOMAIN Listing
      BY <1>2, TagsAssumption DEF ListPage
    <3>2. i \in Remaining(after)
      BY <2>3, <3>1 DEF Remaining, Published
    <3>3. i \in Page(after)
      BY <2>1, <3>2, PageIsPrefix
    <3> QED BY <1>2, <3>3 DEF ListPage
  <2> QED BY <2>1, <2>2, <2>3
<1>3. ASSUME NEW r \in Refs, Push(r) PROVE ListingRecent'
  <2> SUFFICES ASSUME pc = "list", NEW i \in 1 .. after,
                      NEW p \in pushes'[<<"tag", Listing[i]>>],
                      Contains(Listing[i], major), p < begun
               PROVE  Listing[i] \in listed
    BY <1>3 DEF Push, ListingRecent
  <2>1. p # now
    BY DEF TimesOrdered, TypeOK
  <2>2. p \in pushes[<<"tag", Listing[i]>>]
    BY <1>3, <2>1 DEF Push, TypeOK
  <2> QED BY <2>2 DEF ListingRecent
<1>4. ASSUME UNCHANGED <<pushes, pc, major, listed, after, begun>> PROVE ListingRecent'
  BY <1>4 DEF ListingRecent
<1>5. CASE pc' # "list"
  BY <1>5 DEF ListingRecent
<1> QED BY <1>1, <1>2, <1>3, <1>4, <1>5 DEF Next, Steps, Call, PickLatest, NoTagFound,
       LookupFiles, Clone, NoSuchReference, StoreFiles, Finish, Tick, RequestFails,
       Return, vars

\* Nothing is in the caches, or in GitHub, from the future.
LEMMA OldPush ==
  ASSUME TypeOK, NEW r \in Refs, NEW s \in Refs, Push(s),
         NEW p \in pushes'[r], p < now
  PROVE  p \in pushes[r]
BY DEF Push, TypeOK

LEMMA NextTagEntriesRecent ==
  ASSUME TypeOK, CallHolds, TimesOrdered, ListingRecent, TagEntriesRecent, [Next]_vars
  PROVE  TagEntriesRecent'
<1>a. {now, begun, start, Expiration, Latency} \subseteq Nat
  BY TimesAssumption DEF TypeOK
<1>b. \A r \in Refs : \A p \in pushes[r] : p \in Nat
  BY DEF TypeOK
<1>c. \A t \in Tags : <<"tag", t>> \in Refs
  BY DEF Refs, Kinds, Names
<1>d. \A m \in Majors : tagCache[m] # None => tagCache[m].expires \in Nat
  BY DEF TypeOK
<1>1. CASE PickLatest
  <2> DEFINE e == Entry(ref')
  <2>1. e.value = ref' /\ e.expires = now + Expiration
    BY <1>a, EntryType
  <2>2. major \in Majors /\ begun <= now /\ now <= begun + Latency
    BY <1>1 DEF PickLatest, CallHolds, TimesOrdered
  <2>3. \A m \in Majors : tagCache'[m] = IF m = major THEN e ELSE tagCache[m]
    BY <1>1 DEF PickLatest, TypeOK
  <2>4. UNCHANGED github
    BY <1>1 DEF PickLatest
  <2>5. ASSUME NEW t \in Tags, NEW p \in pushes[<<"tag", t>>],
               t.major = major, IsVersion(t), p + Expiration + Latency < now + Expiration
        PROVE  Leq(t, ref')
    <3>1. p < begun
      BY <1>a, <1>b, <1>c, <2>2, <2>5
    <3> QED BY <1>1, <2>5, <3>1, PickedIsLatest
  <2> HIDE DEF e
  <2> SUFFICES ASSUME NEW m \in Majors, tagCache'[m] # None
               PROVE  /\ tagCache'[m].expires <= now' + Expiration
                      /\ \A t \in Tags : \A p \in pushes'[<<"tag", t>>] :
                           /\ t.major = m /\ IsVersion(t)
                           /\ p + Expiration + Latency < tagCache'[m].expires
                           => Leq(t, tagCache'[m].value)
    BY DEF TagEntriesRecent
  <2>6. CASE m = major
    BY <1>a, <2>1, <2>3, <2>4, <2>5, <2>6
  <2>7. CASE m # major
    BY <2>3, <2>4, <2>7 DEF TagEntriesRecent
  <2> QED BY <2>6, <2>7
<1>2. ASSUME UNCHANGED tagCache PROVE TagEntriesRecent'
  <2>1. CASE Tick
    <3>1. now <= now' /\ now' \in Nat /\ pushes' = pushes
      BY <1>a, <2>1 DEF Tick
    <3> QED BY <1>2, <1>a, <1>d, <3>1 DEF TagEntriesRecent
  <2>2. ASSUME NEW s \in Refs, Push(s) PROVE TagEntriesRecent'
    <3>1. now' = now
      BY <2>2 DEF Push
    <3> SUFFICES ASSUME NEW m \in Majors, tagCache[m] # None,
                        NEW t \in Tags, NEW p \in pushes'[<<"tag", t>>],
                        t.major = m, IsVersion(t),
                        p + Expiration + Latency < tagCache[m].expires
                 PROVE  Leq(t, tagCache[m].value)
      BY <1>2, <3>1 DEF TagEntriesRecent
    <3>2. p \in Nat
      BY <1>a, <1>b, <1>c, <2>2 DEF Push, TypeOK
    <3>3. p < now
      BY <1>a, <1>d, <3>2 DEF TagEntriesRecent
    <3>4. p \in pushes[<<"tag", t>>]
      BY <1>c, <2>2, <3>3, OldPush
    <3> QED BY <3>4 DEF TagEntriesRecent
  <2>3. CASE UNCHANGED github
    BY <1>2, <2>3 DEF TagEntriesRecent
  <2> QED BY <2>1, <2>2, <2>3, GithubChanges
<1>3. PickLatest \/ UNCHANGED tagCache
  BY CachesChange DEF StoreFiles
<1> QED BY <1>1, <1>2, <1>3

\* What is pushed now is too young to be missed.
LEMMA MustBeSeenStays ==
  ASSUME TypeOK, TimesOrdered, NEW r \in Refs, NEW s \in Refs, Push(s),
         NEW p \in pushes'[r], MustBeSeen(p)
  PROVE  p \in pushes[r]
<1>1. {now, start, Expiration, Latency} \subseteq Nat /\ p \in Nat
  BY TimesAssumption DEF TypeOK, Push
<1>2. p < now
  BY <1>1 DEF MustBeSeen, TimesOrdered
<1> QED BY <1>2, OldPush

LEMMA NextTagRecent ==
  ASSUME TypeOK, CallHolds, TimesOrdered, ListingRecent, TagEntriesRecent,
         TagRecent, [Next]_vars
  PROVE  TagRecent'
<1>a. {now, begun, start, Expiration, Latency} \subseteq Nat
  BY TimesAssumption DEF TypeOK
<1>b. \A t \in Tags : <<"tag", t>> \in Refs
  BY DEF Refs, Kinds, Names
<1>c. \A t \in Tags : \A p \in pushes[<<"tag", t>>] : p \in Nat
  BY <1>b DEF TypeOK
<1>1. ASSUME NEW cv \in ConfigVersions, Call(cv) PROVE TagRecent'
  BY <1>1 DEF Call, TagRecent
<1>2. CASE LookupTag
  <2>1. CASE Found(tagCache[major])
    <3>1. major \in Majors /\ tagCache[major] # None /\ now <= tagCache[major].expires
      BY <1>2, <2>1 DEF LookupTag, Found, CallHolds
    <3>2. tagCache[major].expires \in Nat
      BY <3>1 DEF TypeOK
    <3>3. ASSUME NEW t \in Tags, NEW p \in pushes[<<"tag", t>>],
                 t.major = major, IsVersion(t), MustBeSeen(p)
          PROVE  Leq(t, tagCache[major].value)
      <4>1. p + Expiration + Latency < tagCache[major].expires
        BY <1>a, <1>c, <3>1, <3>2, <3>3 DEF MustBeSeen, TimesOrdered
      <4> QED BY <3>1, <3>3, <4>1 DEF TagEntriesRecent
    <3> QED BY <1>2, <2>1, <3>3 DEF LookupTag, TagRecent, MustBeSeen
  <2>2. CASE ~Found(tagCache[major])
    BY <1>2, <2>2 DEF LookupTag, TagRecent
  <2> QED BY <2>1, <2>2
<1>3. CASE ListPage
  BY <1>3 DEF ListPage, TagRecent
<1>4. CASE PickLatest
  <2>1. start <= begun
    BY <1>4 DEF PickLatest, TimesOrdered
  <2>2. ASSUME NEW t \in Tags, NEW p \in pushes[<<"tag", t>>],
               t.major = major, IsVersion(t), MustBeSeen(p)
        PROVE  Leq(t, ref')
    <3>1. p < begun
      BY <1>a, <1>c, <2>1, <2>2 DEF MustBeSeen
    <3> QED BY <1>4, <2>2, <3>1, PickedIsLatest
  <2> QED BY <1>4, <2>2 DEF PickLatest, TagRecent, MustBeSeen
<1>5. ASSUME Return PROVE TagRecent'
  BY <1>5 DEF Return, TagRecent
<1>6. ASSUME pc \in {"files", "clone", "store", "done"},
             UNCHANGED <<pushes, start, want, major, ref>>
      PROVE  TagRecent'
  BY <1>6 DEF TagRecent, MustBeSeen
<1>7. CASE Tick
  BY <1>7 DEF Tick, TagRecent, MustBeSeen
<1>8. ASSUME NEW r \in Refs, Push(r) PROVE TagRecent'
  <2>1. UNCHANGED <<pc, start, want, major, ref>>
    BY <1>8 DEF Push
  <2>2. \A t \in Tags : \A p \in pushes'[<<"tag", t>>] :
          MustBeSeen(p) => p \in pushes[<<"tag", t>>]
    BY <1>b, <1>8, MustBeSeenStays
  <2> QED BY <2>1, <2>2 DEF TagRecent, MustBeSeen
<1>9. CASE UNCHANGED vars
  BY <1>9 DEF vars, TagRecent, MustBeSeen
<1> QED BY <1>1, <1>2, <1>3, <1>4, <1>5, <1>6, <1>7, <1>8, <1>9 DEF Next, Steps,
       NoTagFound, LookupFiles, Clone, NoSuchReference, StoreFiles, Finish, RequestFails

-----------------------------------------------------------------------------
(* The age of the files *)

LEMMA NextCloneRecent ==
  ASSUME TypeOK, CallHolds, TimesOrdered, CloneRecent, [Next]_vars
  PROVE  CloneRecent'
<1>1. CASE Clone
  BY <1>1 DEF Clone, CloneRecent, IsLastPush
<1>2. ASSUME NEW r \in Refs, Push(r) PROVE CloneRecent'
  <2> SUFFICES ASSUME pc = "store", NEW p \in pushes'[<<want, ref>>], p < begun
               PROVE  p <= files.content
    BY <1>2 DEF Push, CloneRecent
  <2>1. <<want, ref>> \in Refs
    BY DEF CallHolds, TypeOK, Refs
  <2>2. p \in Nat /\ begun \in Nat /\ now \in Nat
    BY <1>2, <2>1 DEF Push, TypeOK
  <2>3. p < now
    BY <2>2 DEF TimesOrdered
  <2>4. p \in pushes[<<want, ref>>]
    BY <1>2, <2>1, <2>3, OldPush
  <2> QED BY <2>4 DEF CloneRecent
<1>3. CASE Tick
  BY <1>3 DEF Tick, CloneRecent
<1>4. CASE UNCHANGED vars
  BY <1>4 DEF vars, CloneRecent
<1>5. CASE pc' # "store"
  BY <1>5 DEF CloneRecent
<1> QED BY <1>1, <1>2, <1>3, <1>4, <1>5 DEF Next, Steps, Call, LookupTag, ListPage,
       PickLatest, NoTagFound, LookupFiles, NoSuchReference, StoreFiles, Finish,
       RequestFails, Return

LEMMA NextFileEntriesRecent ==
  ASSUME TypeOK, CallHolds, TimesOrdered, CloneRecent, FileEntriesRecent, [Next]_vars
  PROVE  FileEntriesRecent'
<1>a. {now, begun, start, Expiration, Latency} \subseteq Nat
  BY TimesAssumption DEF TypeOK
<1>b. \A r \in Refs : \A p \in pushes[r] : p \in Nat
  BY DEF TypeOK
<1>c. \A n \in Names : repoCache[n] # None =>
        /\ repoCache[n].expires \in Nat
        /\ <<repoCache[n].value.kind, n>> \in Refs
  BY DEF TypeOK, Files, Refs
<1>1. CASE StoreFiles
  <2> DEFINE e == Entry(files)
  <2>1. e.value = files /\ e.expires = now + Expiration
    BY <1>a, EntryType
  <2>2. /\ pc = "store" /\ ref \in Names /\ files.kind = want
        /\ now <= begun + Latency
    BY <1>1 DEF StoreFiles, CallHolds, TimesOrdered
  <2>3. \A n \in Names : repoCache'[n] = IF n = ref THEN e ELSE repoCache[n]
    BY <1>1 DEF StoreFiles, TypeOK
  <2>4. UNCHANGED github
    BY <1>1 DEF StoreFiles
  <2>5. ASSUME NEW p \in pushes[<<files.kind, ref>>],
               p + Expiration + Latency < now + Expiration
        PROVE  p <= files.content
    <3>1. <<want, ref>> \in Refs
      BY <2>2 DEF TypeOK, Refs
    <3>2. p < begun
      BY <1>a, <1>b, <2>2, <2>5, <3>1
    <3> QED BY <2>2, <2>5, <3>2 DEF CloneRecent
  <2> HIDE DEF e
  <2> SUFFICES ASSUME NEW n \in Names, repoCache'[n] # None
               PROVE  /\ repoCache'[n].expires <= now' + Expiration
                      /\ \A p \in pushes'[<<repoCache'[n].value.kind, n>>] :
                           p + Expiration + Latency < repoCache'[n].expires
                           => p <= repoCache'[n].value.content
    BY DEF FileEntriesRecent
  <2>6. CASE n = ref
    BY <1>a, <2>1, <2>3, <2>4, <2>5, <2>6
  <2>7. CASE n # ref
    BY <2>3, <2>4, <2>7 DEF FileEntriesRecent
  <2> QED BY <2>6, <2>7
<1>2. ASSUME UNCHANGED repoCache PROVE FileEntriesRecent'
  <2>1. CASE Tick
    <3>1. now <= now' /\ now' \in Nat /\ pushes' = pushes
      BY <1>a, <2>1 DEF Tick
    <3> QED BY <1>2, <1>a, <1>c, <3>1 DEF FileEntriesRecent
  <2>2. ASSUME NEW s \in Refs, Push(s) PROVE FileEntriesRecent'
    <3>1. now' = now
      BY <2>2 DEF Push
    <3> SUFFICES ASSUME NEW n \in Names, repoCache[n] # None,
                        NEW p \in pushes'[<<repoCache[n].value.kind, n>>],
                        p + Expiration + Latency < repoCache[n].expires
                 PROVE  p <= repoCache[n].value.content
      BY <1>2, <3>1 DEF FileEntriesRecent
    <3>2. p \in Nat
      BY <1>a, <1>b, <1>c, <2>2 DEF Push, TypeOK
    <3>3. p < now
      BY <1>a, <1>c, <3>2 DEF FileEntriesRecent
    <3>4. p \in pushes[<<repoCache[n].value.kind, n>>]
      BY <1>c, <2>2, <3>3, OldPush
    <3> QED BY <3>4 DEF FileEntriesRecent
  <2>3. CASE UNCHANGED github
    BY <1>2, <2>3 DEF FileEntriesRecent
  <2> QED BY <2>1, <2>2, <2>3, GithubChanges
<1>3. StoreFiles \/ UNCHANGED repoCache
  BY CachesChange DEF PickLatest
<1> QED BY <1>1, <1>2, <1>3

LEMMA NextFilesNotTooOld ==
  ASSUME TypeOK, CallHolds, CachesHold, TimesOrdered, CloneRecent, FileEntriesRecent,
         FilesNotTooOld, [Next]_vars
  PROVE  FilesNotTooOld'
<1>a. {now, begun, start, Expiration, Latency} \subseteq Nat
  BY TimesAssumption DEF TypeOK
<1>b. pc \in {"files", "store", "done"} =>
        <<want, ref>> \in Refs /\ \A p \in pushes[<<want, ref>>] : p \in Nat
  BY DEF TypeOK, CallHolds, Refs
<1>1. CASE LookupFiles
  <2>1. CASE Found(repoCache[ref])
    <3>1. /\ ref \in Names /\ (ref \in Tag <=> want = "tag")
          /\ repoCache[ref] # None /\ now <= repoCache[ref].expires
      BY <1>1, <2>1 DEF LookupFiles, Found, CallHolds
    <3>2. repoCache[ref].expires \in Nat /\ repoCache[ref].value \in Files
      BY <3>1 DEF TypeOK
    <3>3. repoCache[ref].value.kind = want
      BY <3>1, <3>2 DEF CachesHold, TypeOK, Kinds, Files
    <3>4. ASSUME NEW p \in pushes[<<want, ref>>], MustBeSeen(p)
          PROVE  p <= repoCache[ref].value.content
      <4>1. p \in Nat
        BY <1>1, <1>b, <3>4 DEF LookupFiles
      <4>2. p + Expiration + Latency < repoCache[ref].expires
        BY <1>a, <3>1, <3>2, <3>4, <4>1 DEF MustBeSeen, TimesOrdered
      <4> QED BY <3>1, <3>3, <3>4, <4>2 DEF FileEntriesRecent
    <3> QED BY <1>1, <2>1, <3>4 DEF LookupFiles, FilesNotTooOld, MustBeSeen
  <2>2. CASE ~Found(repoCache[ref])
    BY <1>1, <2>2 DEF LookupFiles, FilesNotTooOld
  <2> QED BY <2>1, <2>2
<1>2. CASE StoreFiles
  <2>1. ASSUME NEW p \in pushes[<<want, ref>>], MustBeSeen(p)
        PROVE  p <= files.content
    <3>1. p \in Nat /\ start <= begun /\ pc = "store"
      BY <1>2, <1>b DEF StoreFiles, TimesOrdered
    <3>2. p < begun
      BY <1>a, <2>1, <3>1 DEF MustBeSeen
    <3> QED BY <3>1, <3>2 DEF CloneRecent
  <2> QED BY <1>2, <2>1 DEF StoreFiles, FilesNotTooOld, MustBeSeen
<1>3. ASSUME NEW r \in Refs, Push(r) PROVE FilesNotTooOld'
  <2>1. UNCHANGED <<pc, start, want, ref, files>>
    BY <1>3 DEF Push
  <2>2. pc = "done" => \A p \in pushes'[<<want, ref>>] :
          MustBeSeen(p) => p \in pushes[<<want, ref>>]
    BY <1>b, <1>3, MustBeSeenStays
  <2> QED BY <2>1, <2>2 DEF FilesNotTooOld, MustBeSeen
<1>4. CASE Tick
  BY <1>4 DEF Tick, FilesNotTooOld, MustBeSeen
<1>5. CASE UNCHANGED vars
  BY <1>5 DEF vars, FilesNotTooOld, MustBeSeen
<1>6. CASE pc' # "done"
  BY <1>6 DEF FilesNotTooOld
<1> QED BY <1>1, <1>2, <1>3, <1>4, <1>5, <1>6 DEF Next, Steps, Call, LookupTag,
       ListPage, PickLatest, NoTagFound, Clone, NoSuchReference, Finish,
       RequestFails, Return

-----------------------------------------------------------------------------
(* The theorems *)

LEMMA InitInductive == Init => Inductive
<1> SUFFICES ASSUME Init PROVE Inductive
  OBVIOUS
<1>1. TypeOK
  BY InitType
<1>2. CallHolds /\ CachesHold /\ TagEntriesRecent /\ FileEntriesRecent
  BY DEF Init, CallHolds, CachesHold, TagEntriesRecent, FileEntriesRecent
<1>3. TimesOrdered
  BY DEF Init, TimesOrdered
<1>4. ListingRecent /\ TagRecent /\ CloneRecent /\ FilesNotTooOld
  BY DEF Init, ListingRecent, TagRecent, CloneRecent, FilesNotTooOld
<1> QED BY <1>1, <1>2, <1>3, <1>4 DEF Inductive

LEMMA NextInductive == Inductive /\ [Next]_vars => Inductive'
BY NextType, NextCallHolds, NextCachesHold, NextTimesOrdered, NextTagEntriesRecent,
   NextFileEntriesRecent, NextListingRecent, NextTagRecent, NextCloneRecent,
   NextFilesNotTooOld DEF Inductive

\* The parts of Inductive hold in every state: what the running call and the
\* caches hold, and what they cannot have missed.
THEOREM SourceInvariance == Spec => []Inductive
BY InitInductive, NextInductive, PTL DEF Spec

\* Every variable keeps its type.
THEOREM SourceTypeCorrect == Spec => []TypeOK
<1>1. Inductive => TypeOK
  BY DEF Inductive
<1> QED BY <1>1, SourceInvariance, PTL

\* Files of a branch are never used for a tag range, nor those of a tag for a
\* branch, although repoCache has one key for both.
THEOREM KindsNotConfused == Spec => []RightKind
<1>1. Inductive => RightKind
  BY DEF Inductive, CallHolds, RightKind
<1> QED BY <1>1, SourceInvariance, PTL

\* A tag range gives a tag that is not older than the lifetime of a cache entry
\* and the duration of a listing allow, for every listing and page size.
THEOREM TagsRecent == Spec => []TagNotTooOld
<1>1. Inductive => TagNotTooOld
  BY DEF Inductive, TagRecent, TagNotTooOld
<1> QED BY <1>1, SourceInvariance, PTL

\* The same of the files of the reference that was chosen.
THEOREM FilesRecent == Spec => []FilesNotTooOld
<1>1. Inductive => FilesNotTooOld
  BY DEF Inductive
<1> QED BY <1>1, SourceInvariance, PTL

-----------------------------------------------------------------------------
(* Every call comes to an end *)

\* The steps that a running call may still make, if every page has but one tag.
StepsLeft ==
  CASE pc = "idle"  -> 0
    [] pc = "done"  -> 1
    [] pc = "store" -> 2
    [] pc = "clone" -> 3
    [] pc = "files" -> 4
    [] pc = "list"  -> 5 + (Len(Listing) - after)
    [] pc = "tag"   -> 6 + Len(Listing)

LEMMA StepsLeftType ==
  ASSUME TypeOK
  PROVE  StepsLeft \in 0 .. 6 + Len(Listing)
<1>1. Len(Listing) \in Nat /\ after \in 0 .. Len(Listing)
  BY TagsAssumption DEF TypeOK
<1> QED BY <1>1 DEF StepsLeft, TypeOK

\* A page is behind the cursor, whatever has been pushed since the one before.
LEMMA StepsCountDown ==
  ASSUME TypeOK, Steps, pc # "idle", pc' # "idle"
  PROVE  StepsLeft' < StepsLeft
<1>1. Len(Listing) \in Nat /\ after \in 0 .. Len(Listing)
  BY TagsAssumption DEF TypeOK
<1>2. CASE LookupTag
  <2>1. after' = after
    BY <1>2 DEF LookupTag
  <2> QED BY <1>1, <1>2, <2>1 DEF LookupTag, StepsLeft
<1>3. CASE ListPage
  <2>1. /\ pc = "list" /\ pc' = "list"
        /\ after' \in 0 .. Len(Listing)
        /\ IsCursor(after', Page(after))
    BY <1>3 DEF ListPage
  <2>2. after' > after
    BY <1>1, <2>1 DEF IsCursor, Page, Remaining
  <2> QED BY <1>1, <2>1, <2>2 DEF StepsLeft
<1>4. CASE PickLatest
  BY <1>1, <1>4 DEF PickLatest, StepsLeft
<1>5. CASE LookupFiles
  BY <1>5 DEF LookupFiles, StepsLeft
<1>6. CASE Clone
  BY <1>6 DEF Clone, StepsLeft
<1>7. CASE StoreFiles
  BY <1>7 DEF StoreFiles, StepsLeft
<1> QED BY <1>2, <1>3, <1>4, <1>5, <1>6, <1>7
        DEF Steps, NoTagFound, NoSuchReference, Finish, Return

\* However many tags are pushed while it is being listed, page by page, a call of
\* Generate comes to an end: each request takes it further, and nothing that
\* happens on GitHub meanwhile takes it back.
THEOREM GenerateCountsDown ==
  Spec => [][/\ StepsLeft \in 0 .. 6 + Len(Listing)
             /\ pc # "idle" /\ pc' # "idle" =>
                  \/ Steps /\ StepsLeft' < StepsLeft
                  \/ ~Steps /\ StepsLeft' = StepsLeft]_vars
<1>1. ASSUME Inductive, Next
      PROVE  /\ StepsLeft \in 0 .. 6 + Len(Listing)
             /\ pc # "idle" /\ pc' # "idle" =>
                  \/ Steps /\ StepsLeft' < StepsLeft
                  \/ ~Steps /\ StepsLeft' = StepsLeft
  <2>1. StepsLeft \in 0 .. 6 + Len(Listing)
    BY <1>1, StepsLeftType DEF Inductive
  <2>2. CASE Steps
    BY <1>1, <2>1, <2>2, StepsCountDown DEF Inductive
  <2>3. ASSUME ~Steps, pc # "idle", pc' # "idle" PROVE StepsLeft' = StepsLeft
    <3>1. UNCHANGED <<pc, after>>
      BY <1>1, <2>3 DEF Next, Call, Tick, Push, RequestFails, Return
    <3> QED BY <3>1 DEF StepsLeft
  <2> QED BY <2>1, <2>2, <2>3
<1>2. Inductive /\ [Next]_vars =>
        [/\ StepsLeft \in 0 .. 6 + Len(Listing)
         /\ pc # "idle" /\ pc' # "idle" =>
              \/ Steps /\ StepsLeft' < StepsLeft
              \/ ~Steps /\ StepsLeft' = StepsLeft]_vars
  BY <1>1
<1> QED BY SourceInvariance, <1>2, PTL DEF Spec

=============================================================================
