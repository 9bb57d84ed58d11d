----------------------------- MODULE PagedLookup -----------------------------
(***************************************************************************)
(* One read of a data source, while other clients create, rename and       *)
(* delete objects.  The service lists the objects of a place in the order  *)
(* of their ids; a page ends where the service likes and its next holds a  *)
(* token from which the listing goes on.                                   *)
(***************************************************************************)
EXTENDS Integers, FiniteSets, DataSourceCatalog

CONSTANTS
    Ids,                \* ids of objects
    Words,              \* the words that names are made of
    Reads,              \* the lookups looked at
    MaxChanges          \* bound of what the other clients do

VARIABLES
    lookup,             \* the lookup, and
    wanted,             \* the name or the id that it is for
    objects,            \* what exists
    lasting,            \* what has existed, unchanged, since the read began
    changes,
    at,                 \* "page", "get" or "done"
    place,              \* where the read lists: Organization or an environment
    token,              \* pageToken
    pages,              \* objects loaded from place so far
    found,              \* objects loaded from the places before
    todo,               \* environments that are still to be listed
    outcome,
    disturbed           \* a request failed or something changed

vars == <<lookup, wanted, objects, lasting, changes, at, place, token, pages, found, todo,
          outcome, disturbed>>
world == <<objects, lasting, changes>>
scan == <<place, token, pages, found, todo>>

ASSUME IdsAssumption == Ids \subseteq Nat \ {0} /\ IsFiniteSet(Ids)
ASSUME WordsAssumption == Words # {} /\ IsFiniteSet(Words)
ASSUME BoundAssumption == MaxChanges \in Nat
ASSUME ReadsAssumption == Reads \subseteq Lookups

---------------------------------------------------------------------------
(* The service (external).                                                 *)

\* A name is the set of its words.
Names == (SUBSET Words) \ {{}}
\* Only a read by name tells names apart, and only one by words looks into them.
ByName == lookup.match \in {"name", "words"}
NamesSeen == CASE lookup.match = "words" -> Names
               [] lookup.match = "name" -> {{w} : w \in Words}
               [] OTHER -> {Words}
Organization == 0
Object == [id : Ids, name : Names, in : Ids \cup {Organization}]
\* The first page.
NoPage == 0

In(p) == {o \in objects : o.in = p}
Exists(p) == p = Organization \/ \E e \in In(Organization) : e.id = p
\* Only a read everywhere looks into environments.
Places == {Organization} \cup IF lookup.how = "everywhere" THEN Ids ELSE {}

\* Ids are not used twice.
Create(o) ==
    /\ changes < MaxChanges
    /\ \A x \in objects \cup lasting \cup pages \cup found : x.id # o.id
    /\ o.name \in NamesSeen /\ o.in \in Places /\ Exists(o.in)
    /\ objects' = objects \cup {o}
    /\ changes' = changes + 1
    /\ disturbed' = TRUE
    /\ UNCHANGED <<lookup, wanted, lasting, at, scan, outcome>>

\* What is in an environment goes with it.
Gone(o) == {x \in objects : x = o \/ x.in = o.id}
Delete(o) ==
    /\ changes < MaxChanges
    /\ objects' = objects \ Gone(o)
    /\ lasting' = lasting \ Gone(o)
    /\ changes' = changes + 1
    /\ disturbed' = TRUE
    /\ UNCHANGED <<lookup, wanted, at, scan, outcome>>

Rename(o, name) ==
    /\ changes < MaxChanges /\ name # o.name
    /\ objects' = (objects \ {o}) \cup {[o EXCEPT !.name = name]}
    /\ lasting' = lasting \ {o}
    /\ changes' = changes + 1
    /\ disturbed' = TRUE
    /\ UNCHANGED <<lookup, wanted, at, scan, outcome>>

---------------------------------------------------------------------------
(* What is made of the objects that were loaded.                           *)

Wanted == IF lookup.match = "id" THEN Ids ELSE IF ByName THEN NamesSeen ELSE {"everything"}

Matches(o) ==
    CASE lookup.match = "id" -> o.id = wanted
      [] lookup.match = "name" -> o.name = wanted
      [] lookup.match = "words" -> o.name \in {{w} : w \in wanted}
      [] OTHER -> TRUE
Matching(loaded) == {o \in loaded : Matches(o)}

\* Mutated: two are not yet many.
ThreeAreMany(loaded) == Cardinality(Matching(loaded)) > 2
orgHasMultipleWithTargetDisplayName(loaded) == Cardinality(Matching(loaded)) > 1

Verdict(loaded) ==
    IF lookup.match = "all" THEN "read"
    ELSE IF lookup.distinct /\ orgHasMultipleWithTargetDisplayName(loaded) THEN "multiple"
    ELSE IF Matching(loaded) = {} THEN lookup.missing
    ELSE "read"

\* The objects whose attributes are set.
Ends(how, result) ==
    /\ at' = "done" /\ outcome' = how
    /\ found' = result /\ pages' = {} /\ todo' = {}
    /\ UNCHANGED <<lookup, wanted, world, place, token>>

Concludes(loaded) ==
    \/ lookup.match = "all" /\ Ends("read", loaded)
    \/ lookup.match # "all" /\ Verdict(loaded) # "read" /\ Ends(Verdict(loaded), {})
    \/ /\ lookup.match # "all" /\ Verdict(loaded) = "read"
       /\ \E o \in Matching(loaded) :
            \/ lookup.again = "no" /\ Ends("read", {o})
            \/ /\ lookup.again # "no"
               /\ at' = "get" /\ found' = {o} /\ pages' = {} /\ todo' = {}
               /\ UNCHANGED <<lookup, wanted, world, place, token, outcome>>

---------------------------------------------------------------------------
(* The read.                                                               *)

Init ==
    /\ lookup \in Reads
    /\ wanted \in Wanted
    /\ \E ids \in SUBSET Ids :
         \E name \in [ids -> NamesSeen], in \in [ids -> Places] :
            objects = {[id |-> i, name |-> name[i], in |-> in[i]] : i \in ids}
    /\ \A o \in objects : Exists(o.in) /\ o.in # o.id
    /\ lasting = objects /\ changes = 0
    /\ at = IF lookup.how = "get" THEN "get" ELSE "page"
    /\ place = Organization /\ token = NoPage
    /\ pages = {} /\ found = {} /\ todo = {}
    /\ outcome = "running" /\ disturbed = FALSE

\* The page that goes as far as the object with id upto.
Page(upto) == {o \in In(place) : token < o.id /\ o.id <= upto}
Rest == {o \in In(place) : token < o.id}

\* Mutated: a page replaces the one before.
KeepsTheLastPage(upto) ==
    /\ at = "page" /\ lookup.how \in {"scan", "everywhere"} /\ Exists(place)
    /\ token < upto
    /\ pages' = Page(upto)
    /\ token' = upto
    /\ UNCHANGED <<lookup, wanted, world, at, place, found, todo, outcome, disturbed>>
\* Mutated: every other request leaves the token out.
ForgetsTheToken(upto) ==
    /\ at = "page" /\ lookup.how \in {"scan", "everywhere"} /\ Exists(place)
    /\ token < upto
    /\ pages' = pages \cup Page(upto)
    /\ token' = IF token = NoPage THEN upto ELSE NoPage
    /\ UNCHANGED <<lookup, wanted, world, at, place, found, todo, outcome, disturbed>>
\* Mutated: the next is not followed.
StopsAfterThePage(upto) ==
    /\ at = "page" /\ lookup.how = "scan" /\ Exists(place)
    /\ token < upto
    /\ Concludes(Page(upto)) /\ UNCHANGED disturbed
\* A page with a next that holds a token.
LoadPage(upto) ==
    /\ at = "page" /\ lookup.how \in {"scan", "everywhere"} /\ Exists(place)
    /\ token < upto
    /\ pages' = pages \cup Page(upto)
    /\ token' = upto
    /\ UNCHANGED <<lookup, wanted, world, at, place, found, todo, outcome, disturbed>>

\* Mutated: the listing of the next environment goes on from the last token.
ListsFromTheToken(p, environments, loaded) ==
    /\ p \in environments
    /\ place' = p
    /\ todo' = environments \ {p}
    /\ pages' = {} /\ found' = loaded
    /\ UNCHANGED <<lookup, wanted, world, at, token, outcome, disturbed>>
\* loadAllSchemaRegistryClusters: the next environment is listed from its first page.
ListEnvironment(p, environments, loaded) ==
    /\ p \in environments
    /\ place' = p /\ token' = NoPage
    /\ todo' = environments \ {p}
    /\ pages' = {} /\ found' = loaded
    /\ UNCHANGED <<lookup, wanted, world, at, outcome, disturbed>>

\* A page without a next, or with an empty one: the last of this place.
LoadLastPage(next) ==
    /\ at = "page" /\ lookup.how \in {"scan", "everywhere"} /\ Exists(place)
    /\ lookup.next = "pointer" => next # "absent"
    /\ LET loaded == pages \cup Rest
           environments == IF place = Organization THEN {e.id : e \in loaded} ELSE todo
           all == IF place = Organization THEN {} ELSE found \cup loaded
       IN  \/ lookup.how = "scan" /\ Concludes(loaded) /\ UNCHANGED disturbed
           \/ lookup.how = "everywhere" /\ \E p \in environments :
                                               ListEnvironment(p, environments, all)
           \/ /\ lookup.how = "everywhere" /\ environments = {}
              /\ Concludes(all) /\ UNCHANGED disturbed

\* The next of the last page is absent, and its address is read before it is tested.
NextIsNil ==
    /\ at = "page" /\ lookup.next = "pointer"
    /\ Ends("panic", {}) /\ UNCHANGED disturbed

\* extractPageToken: the next holds no token.
NextHasNoToken ==
    /\ at = "page" /\ lookup.how \in {"scan", "everywhere"} /\ Exists(place)
    /\ Ends("error", {}) /\ disturbed' = TRUE

\* One request for what matches; at least the list of environments and of schemas is
\* asked for without a filter.
ListOnceAndPick ==
    /\ at = "page" /\ lookup.how = "once"
    /\ Concludes(Matching(In(place))) /\ UNCHANGED disturbed

\* The object that the second request, or the only one, is for.
Target(o) ==
    IF lookup.how = "get" THEN o.id = wanted
    ELSE \E x \in found : x.id = o.id /\ (lookup.again = "name" => x.name = o.name)

GetObject(o) ==
    /\ at = "get" /\ Target(o)
    /\ Ends("read", {o}) /\ UNCHANGED disturbed

GetMissing ==
    /\ at = "get" /\ \A o \in objects : ~Target(o)
    /\ Ends(lookup.missing, {}) /\ UNCHANGED disturbed

\* A request fails; the environment to list may be gone.
RequestFails ==
    /\ at \in {"page", "get"}
    /\ \E how \in {"error", lookup.refused} : Ends(how, {})
    /\ disturbed' = TRUE

Read ==
    \/ \E upto \in Ids : LoadPage(upto)
    \/ \E next \in {"absent", "empty"} : LoadLastPage(next)
    \/ NextIsNil \/ NextHasNoToken
    \/ ListOnceAndPick
    \/ \E o \in objects : GetObject(o)
    \/ GetMissing
    \/ RequestFails

Others ==
    /\ at # "done"
    /\ \/ \E o \in Object : Create(o)
       \/ \E o \in objects : Delete(o) \/ \E name \in NamesSeen : Rename(o, name)

Next == Read \/ Others

\* The service answers, and a request has a timeout.
Fairness == WF_vars(Read)
Spec == Init /\ [][Next]_vars /\ Fairness

---------------------------------------------------------------------------
(* Properties.                                                             *)

TypeOK ==
    /\ lookup \in Reads /\ wanted \in Wanted
    /\ objects \subseteq Object /\ lasting \subseteq objects
    /\ changes \in 0 .. MaxChanges
    /\ at \in {"page", "get", "done"}
    /\ place \in Ids \cup {Organization} /\ token \in Ids \cup {NoPage}
    /\ pages \subseteq Object /\ found \subseteq Object /\ todo \subseteq Ids
    /\ \/ outcome \in {"running", "read", "multiple", "notFound", "nothing", "error"}
       \/ outcome = "panic" /\ lookup.next = "pointer"
    /\ disturbed \in BOOLEAN

\* serviceAccountDataSourceRead of a name with a space.
SplitName == lookup.match = "words" /\ Cardinality(wanted) > 1

\* Safety: what is read has the name asked for, whatever was renamed meanwhile, but for
\* a service account whose name has several words: each of them is looked for.
FoundIsNamed ==
    outcome = "read" /\ ByName /\ ~SplitName => \A o \in found : o.name = wanted

\* Safety: no read by name silently picks one of two objects that both have the name
\* all the while, on whichever pages they are; materialized tables of several Kafka
\* clusters and the data sources that take the first of a filtered list do.
AnswerIsUnique ==
    /\ outcome = "read" /\ ByName /\ ~SplitName
    /\ lookup \notin materializedTableDataSourceRead \cup providerIntegrationSetupDataSourceRead
    => ~\E o, x \in lasting : o # x /\ o.name = wanted /\ x.name = wanted

\* Safety: a read that finds nothing, be it an error or not, missed nothing that was
\* there all the while.  But a refusal makes a Connect artifact look absent, and a
\* materialized table hides its namesake when it is deleted after it was picked.
MissingMeansAbsent ==
    /\ outcome \in {"notFound", "nothing"} /\ ~SplitName
    /\ ~(disturbed /\ lookup \in connectArtifactDataSourceRead \cup materializedTableDataSourceRead)
    => ~\E o \in lasting : Matches(o)

\* Safety: a list is complete, across pages and environments and whatever comes and
\* goes: it has every object that was there all the while.
ListIsComplete ==
    outcome = "read" /\ lookup.match = "all"
    => {o \in lasting : (o.in = Organization) = (lookup.how # "everywhere")} \subseteq found

\* Safety: undisturbed, a read ends as a look at all objects at once would, however
\* the service cuts the pages, but for the panics of the loops that read a pointer.
PagesDoNotMatter ==
    at = "done" /\ ~disturbed
    => \/ outcome = Verdict(objects)
       \/ outcome = "panic"
          /\ lookup \in connectionDataSourceRead \cup materializedTableDataSourceRead

\* Liveness: every read ends.
ReadEnds == <>(at = "done")
=============================================================================
