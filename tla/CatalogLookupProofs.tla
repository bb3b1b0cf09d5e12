------------------------- MODULE CatalogLookupProofs -------------------------
(***************************************************************************)
(* An answer of Service.Get is one that the App's catalog gave during the  *)
(* call, for indexes of any length and any number of catalogs and events.  *)
(***************************************************************************)
EXTENDS CatalogLookup, TLAPS

USE DEF outside, history

\* What is known of a call before it is answered: the URL read is one the
\* catalog named, and if nothing has happened it is the one it names.
CallKnows ==
  /\ begun <= events
  /\ pc # "idle" => \A u \in named : pages[u] \in served
  /\ pc # "idle" => storage[app.catalog] \in named \cup {None}
  /\ pc = "index" => url \in named
  /\ pc \in {"catalog", "index"} => app.catalog # Unsupported
  /\ pc # "idle" /\ events = begun =>
       /\ named = {storage[app.catalog]} \ {None}
       /\ served = {pages[u] : u \in named}

LookupInductive == LookupTypeOK /\ CallKnows /\ AnswerWasServed /\ QuietCallIsExact

-----------------------------------------------------------------------------
(* What Lookup makes of a page *)

LEMMA SaysFirst ==
  ASSUME app \in App, NEW page \in Index, NEW annotation
  PROVE  Says(page, annotation) <=>
           \E i \in DOMAIN page[app.name] :
             IsFirst(page, i) /\ page[app.name][i].annotation = annotation
<1>1. ASSUME NEW i \in DOMAIN page[app.name], page[app.name][i].version = app.version
      PROVE  page[app.name][i] = [version |-> app.version, annotation |-> annotation]
               <=> page[app.name][i].annotation = annotation
  <2>1. page[app.name] \in Seq(Entry)
    BY DEF Index, App
  <2>2. page[app.name][i] \in Entry
    BY <2>1
  <2> QED BY <1>1, <2>2 DEF Entry
<1>2. page # Garbage
  BY PagesAssumption
<1> QED BY <1>1, <1>2 DEF Says, IsFirst

LEMMA OneFirst ==
  ASSUME app \in App, NEW page \in Index,
         NEW i \in DOMAIN page[app.name], NEW j \in DOMAIN page[app.name],
         IsFirst(page, i), IsFirst(page, j)
  PROVE  i = j
<1>1. page[app.name] \in Seq(Entry)
  BY DEF Index, App
<1>2. i \in Nat \ {0} /\ j \in Nat \ {0}
  BY <1>1
<1>3. ~(i < j) /\ ~(j < i)
  BY <1>2 DEF IsFirst
<1> QED BY <1>2, <1>3

\* Lookup is an error exactly if the page says nothing of the App, and else it is
\* what the page says.
LEMMA LookupSays ==
  ASSUME app \in App, NEW page \in Pages
  PROVE  /\ Lookup(page) \in ConfigVersions \cup {Blank, NotFound, Failed}
         /\ Lookup(page) = Failed
              <=> \A annotation \in ConfigVersions \cup {Blank, NoAnnotation} :
                    ~Says(page, annotation)
         /\ Lookup(page) # Failed =>
              Says(page, IF Lookup(page) = NotFound THEN NoAnnotation ELSE Lookup(page))
<1>1. CASE page = Garbage \/ Unlisted(page)
  <2>1. \A annotation : ~Says(page, annotation)
    <3>1. CASE page = Garbage
      BY <3>1 DEF Says
    <3>2. CASE page # Garbage
      <4>1. page \in Index
        BY <3>2, PagesAssumption
      <4> QED BY <1>1, <3>2, <4>1, SaysFirst DEF Unlisted
    <3> QED BY <3>1, <3>2
  <2> QED BY <1>1, <2>1 DEF Lookup
<1>2. CASE ~(page = Garbage \/ Unlisted(page))
  <2>1. page \in Index
    BY <1>2, PagesAssumption
  <2> DEFINE first == CHOOSE i \in DOMAIN page[app.name] : IsFirst(page, i)
             annotation == page[app.name][first].annotation
  <2>2. first \in DOMAIN page[app.name] /\ IsFirst(page, first)
    BY <1>2 DEF Unlisted
  <2>3. annotation \in ConfigVersions \cup {Blank, NoAnnotation}
    <3>1. page[app.name] \in Seq(Entry)
      BY <2>1 DEF Index, App
    <3>2. page[app.name][first] \in Entry
      BY <2>2, <3>1
    <3> QED BY <3>2 DEF Entry
  <2>4. Says(page, annotation)
    BY <2>1, <2>2, SaysFirst
  <2>5. Lookup(page) = IF annotation = NoAnnotation THEN NotFound ELSE annotation
    BY <1>2 DEF Lookup, Annotation
  <2> HIDE DEF first, annotation
  <2> QED BY <2>3, <2>4, <2>5, LookupSentinelAssumption
<1> QED BY <1>1, <1>2

-----------------------------------------------------------------------------
(* The invariant *)

LEMMA LookupStarts == LookupInit => LookupInductive
BY LookupBoundAssumption
DEF LookupInit, LookupInductive, LookupTypeOK, CallKnows, AnswerWasServed, QuietCallIsExact

\* Says depends on the App alone.
LEMMA LookupStep ==
  ASSUME LookupInductive, [LookupNext]_vars
  PROVE  LookupInductive'
<1> USE DEF LookupInductive, LookupTypeOK
<1>1. ASSUME NEW a \in App, Call(a) PROVE LookupInductive'
  <2>1. /\ begun' = events /\ events' = events /\ app' = a
        /\ named' = {storage[a.catalog]} \ {None}
        /\ served' = {pages[u] : u \in named'}
        /\ UNCHANGED <<storage, pages, url>>
    BY <1>1 DEF Call, Begins
  <2>2. a.catalog \in Catalogs
    BY DEF App
  <2>3. storage[a.catalog] \in URLs \cup {None}
    BY <2>2
  <2>4. named' \subseteq URLs /\ served' \subseteq Pages
    BY <2>1, <2>3
  <2>5. CASE a.catalog = Unsupported
    <3>1. pc' = "answered" /\ answer' = Failed
      BY <1>1, <2>5 DEF Call, Answered
    <3>2. LookupTypeOK' /\ CallKnows'
      BY <2>1, <2>4, <3>1 DEF CallKnows
    <3> QED BY <2>1, <2>5, <3>1, <3>2 DEF AnswerWasServed, QuietCallIsExact
  <2>6. CASE a.catalog # Unsupported
    <3>1. pc' = "catalog" /\ answer' = answer
      BY <1>1, <2>6 DEF Call
    <3>2. LookupTypeOK' /\ CallKnows'
      BY <2>1, <2>4, <2>6, <3>1 DEF CallKnows
    <3> QED BY <3>1, <3>2 DEF AnswerWasServed, QuietCallIsExact
  <2> QED BY <2>5, <2>6
<1>2. CASE GetAppCatalog
  <2>1. app.catalog \in Catalogs /\ storage[app.catalog] \in URLs \cup {None}
    BY DEF App
  <2>2. pc = "catalog" /\ UNCHANGED <<storage, pages, events, app, named, served, begun>>
    BY <1>2 DEF GetAppCatalog
  <2>3. CASE storage[app.catalog] = None
    <3>1. pc' = "answered" /\ answer' = Failed /\ UNCHANGED url
      BY <1>2, <2>3 DEF GetAppCatalog, Answered
    <3>2. LookupTypeOK' /\ CallKnows'
      BY <2>2, <3>1 DEF CallKnows
    <3>3. events = begun => served = {}
      BY <2>2, <2>3 DEF CallKnows
    <3> QED BY <2>2, <3>1, <3>2, <3>3 DEF AnswerWasServed, QuietCallIsExact
  <2>4. CASE storage[app.catalog] # None
    <3>1. pc' = "index" /\ url' = storage[app.catalog] /\ UNCHANGED answer
      BY <1>2, <2>4 DEF GetAppCatalog
    <3>2. storage[app.catalog] \in named
      BY <2>2, <2>4 DEF CallKnows
    <3>3. LookupTypeOK' /\ CallKnows'
      BY <2>1, <2>2, <2>4, <3>1, <3>2 DEF CallKnows
    <3> QED BY <3>1, <3>3 DEF AnswerWasServed, QuietCallIsExact
  <2> QED BY <2>3, <2>4
<1>3. CASE GetIndex
  <2>1. /\ pc = "index" /\ pc' = "answered" /\ answer' = Lookup(pages[url])
        /\ UNCHANGED <<storage, pages, events, app, url, named, served, begun>>
    BY <1>3 DEF GetIndex, Answered
  <2>2. url \in named /\ url \in URLs /\ pages[url] \in served /\ pages[url] \in Pages
    BY <2>1 DEF CallKnows
  <2>3. LookupTypeOK' /\ CallKnows'
    BY <2>1, <2>2, LookupSays DEF CallKnows
  <2>4. events = begun => served = {pages[url]} /\ app.catalog # Unsupported
    BY <2>1, <2>2 DEF CallKnows
  <2>5. AnswerWasServed' /\ QuietCallIsExact'
    BY <2>1, <2>2, <2>4, LookupSays DEF AnswerWasServed, QuietCallIsExact, Says
  <2> QED BY <2>3, <2>5
<1>4. CASE Return
  BY <1>4, LookupBoundAssumption
  DEF Return, CallKnows, AnswerWasServed, QuietCallIsExact
<1>5. ASSUME Happens, Serves, UNCHANGED <<pc, app, url, answer>>,
             storage' \in [Catalogs -> URLs \cup {None}], pages' \in [URLs -> Pages]
      PROVE  LookupInductive'
  <2>1. events' = events + 1 /\ begun' = begun /\ begun < events'
    BY <1>5 DEF Happens, Serves, CallKnows
  <2>2. named' \subseteq URLs /\ (pc # "idle" => named \subseteq named')
    BY <1>5 DEF Serves, App
  <2>3. served' \subseteq Pages /\ served \subseteq served'
        /\ \A u \in named' : pages'[u] \in served'
    BY <1>5, <2>2 DEF Serves
  <2>4. LookupTypeOK' /\ CallKnows'
    <3>1. pc # "idle" => storage'[app.catalog] \in named' \cup {None}
      BY <1>5 DEF Serves
    <3>2. events' # begun'
      BY <2>1
    <3> QED BY <1>5, <2>1, <2>2, <2>3, <3>1, <3>2 DEF CallKnows
  <2>5. AnswerWasServed'
    BY <1>5, <2>3 DEF AnswerWasServed, Says
  <2>6. QuietCallIsExact'
    BY <2>1 DEF QuietCallIsExact
  <2> QED BY <2>4, <2>5, <2>6
<1>6. ASSUME NEW c \in Catalogs, NEW u \in URLs \cup {None}, MoveCatalog(c, u)
      PROVE  LookupInductive'
  BY <1>5, <1>6 DEF MoveCatalog
<1>7. ASSUME NEW u \in URLs, NEW page \in Pages, Publish(u, page)
      PROVE  LookupInductive'
  BY <1>5, <1>7 DEF Publish
<1>8. CASE CallFails
  <2>1. /\ pc' = "answered" /\ answer' = Failed /\ events' = events + 1 /\ pc # "idle"
        /\ UNCHANGED <<storage, pages, app, url, named, served, begun>>
    BY <1>8 DEF CallFails, Answered, Happens
  <2> QED BY <2>1 DEF CallKnows, AnswerWasServed, QuietCallIsExact
<1>9. CASE UNCHANGED vars
  BY <1>9 DEF vars, CallKnows, AnswerWasServed, QuietCallIsExact, Says
<1> QED BY <1>1, <1>2, <1>3, <1>4, <1>6, <1>7, <1>8, <1>9 DEF LookupNext, Get

LEMMA LookupInvariance == LookupSpec => []LookupInductive
BY LookupStarts, LookupStep, PTL DEF LookupSpec

\* Every variable keeps its type: an answer is an annotation or one of two errors.
THEOREM LookupTypeCorrect == LookupSpec => []LookupTypeOK
BY LookupInvariance, PTL DEF LookupInductive

\* However long the indexes and whatever happens during the call: an answer that
\* is no error is what an index named by the App's catalog said during the call.
THEOREM AnswersWereServed == LookupSpec => []AnswerWasServed
BY LookupInvariance, PTL DEF LookupInductive

\* An undisturbed call fails exactly for Apps that are not listed.
THEOREM QuietCallsAreExact == LookupSpec => []QuietCallIsExact
BY LookupInvariance, PTL DEF LookupInductive

=============================================================================
