------------------------- MODULE PagedLookup_proofs -------------------------
(***************************************************************************)
(* For any number of objects, pages and changes by others: what the reads  *)
(* of the data sources find, miss and take for unique.                     *)
(***************************************************************************)
EXTENDS PagedLookup, FiniteSetTheorems, TLAPS

USE DEF Organization, NoPage

---------------------------------------------------------------------------
(* The lookups of the catalog.                                             *)

\* Every data source has one of these forms.
Forms ==
    {Get, Scan, List, ListOnce, Once, [Scan EXCEPT !.match = "any", !.again = "id"],
     [Scan EXCEPT !.missing = "nothing"], [List EXCEPT !.how = "everywhere"],
     [Once EXCEPT !.distinct = FALSE, !.match = "any"]}
    \cup connectionDataSourceRead \cup materializedTableDataSourceRead
    \cup providerIntegrationSetupDataSourceRead \cup connectArtifactDataSourceRead
    \cup serviceAccountDataSourceRead

LEMMA LookupsHaveForms == Lookups \subseteq Forms
  BY DEF Forms, Lookups, certificatePoolDataSourceRead, computePoolDataSourceRead,
     environmentDataSourceRead, groupMappingDataSourceRead, identityPoolDataSourceRead,
     identityProviderDataSourceRead, kafkaDataSourceRead, ksqlDataSourceRead,
     networkDataSourceRead, networkLinkServiceDataSourceRead, peeringDataSourceRead,
     privateLinkAccessDataSourceRead, transitGatewayAttachmentDataSourceRead,
     userDataSourceRead, schemaRegistryClusterDataSourceRead, flinkArtifactDataSourceRead,
     providerIntegrationDataSourceRead, connectionDataSourceRead,
     materializedTableDataSourceRead, serviceAccountDataSourceRead,
     flinkRegionDataSourceRead, providerIntegrationSetupDataSourceRead,
     organizationDataSourceRead, tagBindingDataSourceRead,
     businessMetadataBindingDataSourceRead, environmentsDataSourceRead, usersDataSourceRead,
     kafkaClustersDataSourceRead, gatewaysDataSourceRead, ipAddressesDataSourceRead,
     endpointDataSourceRead, schemaRegistryClustersDataSourceRead, schemasDataSourceRead,
     accessPointDataSourceRead, businessMetadataDataSourceRead, byokKeyDataSourceRead,
     catalogIntegrationDataSourceRead, certificateAuthorityDataSourceRead,
     clusterLinkDataSourceRead, dnsRecordDataSourceRead,
     flinkComputePoolConfigDataSourceRead, gatewayDataSourceRead, invitationDataSourceRead,
     ipFilterDataSourceRead, ipGroupDataSourceRead, kafkaClientQuotaDataSourceRead,
     networkLinkEndpointDataSourceRead, privateLinkAttachmentDataSourceRead,
     privateLinkAttachmentConnectionDataSourceRead,
     providerIntegrationAuthorizationDataSourceRead, roleBindingDataSourceRead,
     rtceTopicDataSourceRead, schemaRegistryDekDataSourceRead,
     schemaRegistryKekDataSourceRead, tableflowTopicDataSourceRead, tagDataSourceRead,
     kafkaTopicDataSourceRead, schemaDataSourceRead,
     schemaRegistryClusterConfigDataSourceRead, schemaRegistryClusterModeDataSourceRead,
     subjectConfigDataSourceRead, subjectModeDataSourceRead, connectArtifactDataSourceRead

\* What the proofs use of a lookup.
WellFormed(l) ==
    /\ l.how \in {"get", "scan", "everywhere", "once"}
    /\ l.match \in {"id", "name", "words", "any", "all"}
    /\ l.missing \in {"notFound", "nothing"}
    /\ l.again \in {"no", "id", "name"}
    /\ l.distinct \in BOOLEAN
    /\ l.how = "get" <=> l.match = "id"
    /\ l.how = "get" => l.again = "no" /\ l.distinct = FALSE
    /\ l.how = "everywhere" => l.match = "all"
    /\ l.match = "all" => l.again = "no"
    /\ l.again = "id" => l.match = "any" /\ l.distinct = TRUE
    /\ l.again = "name" => l.match = "name" /\ l \in materializedTableDataSourceRead
    /\ l.next = "pointer"
       => l \in connectionDataSourceRead \cup materializedTableDataSourceRead
    /\ l.refused \in {"error", "nothing"}
    /\ l.refused = "nothing" => l \in connectArtifactDataSourceRead
    /\ l.match \in {"name", "words"}
       => \/ l.distinct = TRUE
          \/ l \in materializedTableDataSourceRead \cup providerIntegrationSetupDataSourceRead

LEMMA LookupsAreWellFormed == \A l \in Lookups : WellFormed(l)
<1> USE DEF Get, Scan, List, ListOnce, Once, WellFormed
<1>1. WellFormed(Get)
  OBVIOUS
<1>2. WellFormed(Scan) /\ WellFormed([Scan EXCEPT !.missing = "nothing"])
  OBVIOUS
<1>3. WellFormed([Scan EXCEPT !.match = "any", !.again = "id"])
  OBVIOUS
<1>4. WellFormed(List) /\ WellFormed(ListOnce) /\ WellFormed([List EXCEPT !.how = "everywhere"])
  OBVIOUS
<1>5. WellFormed(Once) /\ WellFormed([Once EXCEPT !.distinct = FALSE, !.match = "any"])
  OBVIOUS
<1>6. \A l \in connectionDataSourceRead : WellFormed(l)
  BY DEF connectionDataSourceRead
<1>7. \A l \in materializedTableDataSourceRead : WellFormed(l)
  BY DEF materializedTableDataSourceRead
<1>8. \A l \in connectArtifactDataSourceRead : WellFormed(l)
  BY DEF connectArtifactDataSourceRead
<1>9. WellFormed([Once EXCEPT !.distinct = FALSE])
  BY DEF providerIntegrationSetupDataSourceRead
<1>10. WellFormed([Once EXCEPT !.match = "words"])
  OBVIOUS
<1> HIDE DEF Get, Scan, List, ListOnce, Once, WellFormed
<1> QED
  BY <1>1, <1>2, <1>3, <1>4, <1>5, <1>6, <1>7, <1>8, <1>9, <1>10, LookupsHaveForms
  DEF Forms, providerIntegrationSetupDataSourceRead, serviceAccountDataSourceRead

---------------------------------------------------------------------------
(* The inductive invariant.                                                *)

\* There are finitely many objects, and each is in the organization or, for a read
\* that lists every environment, in an environment.
WorldInv ==
    /\ IsFiniteSet(objects)
    /\ \A o \in objects : o.in # Organization => lookup.how = "everywhere" /\ Exists(o.in)
    /\ disturbed \/ lasting = objects

\* Before the last page: what lasts and is listed up to the token has been loaded;
\* what lasts in an environment is in one that is still to be listed or has been, also
\* when the environment was renamed meanwhile.
PageInv ==
    at = "page" =>
        /\ outcome = "running" /\ lookup.how # "get"
        /\ IsFiniteSet(pages)
        /\ \A o \in lasting : o.in = place /\ o.id <= token => o \in pages
        /\ lookup.how # "everywhere" => place = Organization
        /\ lookup.how = "everywhere" /\ place = Organization =>
               \A o \in lasting : o.in # Organization /\ o.in <= token
                                      => \E e \in pages : e.id = o.in
        /\ place # Organization =>
               \A o \in lasting : o.in # Organization
                                      => o.in = place \/ o.in \in todo \/ o \in found
        /\ disturbed \/ pages \subseteq objects

\* Before the second request: the object picked matches and, if matches have to be
\* unique, is the only one of those that last.
PickInv ==
    at = "get" /\ lookup.how # "get" =>
        /\ lookup.again # "no"
        /\ \E x \in found : Matches(x) /\ found = {x}
        /\ lookup.distinct = TRUE => \A o \in lasting : Matches(o) => o \in found
        /\ disturbed \/ found \subseteq objects

RunningInv == at # "done" => outcome = "running"

Promises ==
    /\ FoundIsNamed
    /\ AnswerIsUnique
    /\ MissingMeansAbsent
    /\ ListIsComplete
    /\ PagesDoNotMatter

IInv == TypeOK /\ WorldInv /\ RunningInv /\ PageInv /\ PickInv /\ Promises

---------------------------------------------------------------------------
(* Facts about the operators.                                              *)

LEMMA NamesSeenAreNames == NamesSeen \subseteq Names /\ NamesSeen # {}
  BY WordsAssumption DEF NamesSeen, Names

LEMMA ObjectType ==
  ASSUME NEW o \in Object
  PROVE  /\ o.id \in Ids /\ o.id \in Nat /\ o.id # 0
         /\ o.in \in Ids \cup {0} /\ o.in \in Nat
<1>1. o.id \in Ids /\ o.in \in Ids \cup {0}
  BY DEF Object
<1>2. \A i \in Ids : i \in Nat /\ i # 0
  BY IdsAssumption
<1> QED BY <1>1, <1>2

\* Two matches are many: the service has finitely many objects.
LEMMA TwoAreMany ==
  ASSUME NEW loaded, IsFiniteSet(loaded), NEW o \in Matching(loaded), NEW x \in Matching(loaded),
         o # x
  PROVE  orgHasMultipleWithTargetDisplayName(loaded)
<1>1. IsFiniteSet(Matching(loaded))
  BY FS_Subset DEF Matching
<1>2. IsFiniteSet({o}) /\ Cardinality({o}) = 1
  BY FS_Singleton
<1>3. Cardinality({o} \cup {x}) = 2
  BY <1>2, FS_AddElement, x \notin {o}
<1>4. {o} \cup {x} \in SUBSET Matching(loaded)
  OBVIOUS
<1>5. Cardinality(Matching(loaded)) \in Nat /\ 2 <= Cardinality(Matching(loaded))
  BY <1>1, <1>3, <1>4, FS_Subset, FS_CardinalityType
<1> QED BY <1>5 DEF orgHasMultipleWithTargetDisplayName

\* A verdict depends on what matches only.
LEMMA SameMatchesSameVerdict ==
  ASSUME NEW loaded, NEW others, Matching(loaded) = Matching(others)
  PROVE  Verdict(loaded) = Verdict(others)
  BY DEF Verdict, orgHasMultipleWithTargetDisplayName

LEMMA WantedName ==
  ASSUME TypeOK, ByName, ~SplitName, NEW o \in Object
  PROVE  Matches(o) <=> o.name = wanted
<1>1. CASE lookup.match = "name"
  BY <1>1 DEF Matches
<1>2. CASE lookup.match = "words"
  <2>1. wanted \in Names
    BY <1>2, NamesSeenAreNames DEF TypeOK, Wanted, ByName
  <2>2. IsFiniteSet(wanted) /\ wanted # {}
    BY <2>1, WordsAssumption, FS_Subset DEF Names
  <2>3. Cardinality(wanted) \in Nat /\ Cardinality(wanted) # 0
    BY <2>2, FS_EmptySet, FS_CardinalityType
  <2>4. ~(Cardinality(wanted) > 1)
    BY <1>2 DEF SplitName
  <2>5. Cardinality(wanted) = 1
    BY <2>3, <2>4
  <2>6. PICK w : wanted = {w}
    BY <2>2, <2>5, FS_Singleton
  <2> QED BY <1>2, <2>6 DEF Matches
<1> QED BY <1>1, <1>2 DEF ByName

---------------------------------------------------------------------------
(* The initial states.                                                     *)

LEMMA InitEstablishes == Init => IInv
<1> SUFFICES ASSUME Init PROVE IInv
  OBVIOUS
<1>0. WellFormed(lookup)
  BY ReadsAssumption, LookupsAreWellFormed DEF Init
<1>1. PICK ids \in SUBSET Ids : \E name \in [ids -> NamesSeen], in \in [ids -> Places] :
              objects = {[id |-> i, name |-> name[i], in |-> in[i]] : i \in ids}
  BY DEF Init
<1>2. PICK name \in [ids -> NamesSeen], in \in [ids -> Places] :
              objects = {[id |-> i, name |-> name[i], in |-> in[i]] : i \in ids}
  BY <1>1
<1>3. objects \subseteq Object
  BY <1>2, NamesSeenAreNames DEF Object, Places
<1>4. IsFiniteSet(objects)
  <2> DEFINE f == [i \in ids |-> [id |-> i, name |-> name[i], in |-> in[i]]]
  <2>1. f \in Surjection(ids, objects)
    BY <1>2 DEF Surjection
  <2>2. IsFiniteSet(ids)
    BY IdsAssumption, FS_Subset
  <2> QED BY <2>1, <2>2, FS_Surjection
<1>5. \A o \in objects : o.in \in Places
  BY <1>2
<1>6. TypeOK
  <2>1. lookup \in Reads /\ wanted \in Wanted /\ lasting \subseteq objects
    BY DEF Init
  <2>2. changes \in 0 .. MaxChanges
    BY BoundAssumption DEF Init
  <2>3. at \in {"page", "get", "done"} /\ outcome = "running" /\ disturbed \in BOOLEAN
    BY DEF Init
  <2>4. /\ place \in Ids \cup {Organization} /\ token \in Ids \cup {NoPage}
        /\ pages \subseteq Object /\ found \subseteq Object /\ todo \subseteq Ids
    BY DEF Init
  <2> QED BY <1>3, <2>1, <2>2, <2>3, <2>4 DEF TypeOK
<1>7. WorldInv
  BY <1>4, <1>5 DEF Init, WorldInv, Places
<1>8. RunningInv /\ PickInv
  BY DEF Init, RunningInv, PickInv
<1>9. PageInv
  <2>1. \A o \in lasting : o.id \in Nat /\ o.id # 0 /\ o.in \in Nat
    BY <1>3, ObjectType DEF Init
  <2> QED BY <2>1, FS_EmptySet DEF Init, PageInv
<1>10. Promises
  BY DEF Init, Promises, FoundIsNamed, AnswerIsUnique, MissingMeansAbsent, ListIsComplete,
         PagesDoNotMatter
<1> QED BY <1>6, <1>7, <1>8, <1>9, <1>10 DEF IInv

---------------------------------------------------------------------------
(* What the other clients do.                                              *)

\* Whatever they do, less lasts.
LEMMA OthersPreserve ==
  ASSUME IInv, at # "done", UNCHANGED <<lookup, wanted, at, scan, outcome>>, disturbed' = TRUE,
         lasting' \subseteq lasting, lasting' \subseteq objects', objects' \subseteq Object,
         changes' \in 0 .. MaxChanges, IsFiniteSet(objects'),
         \A o \in objects' : o.in # Organization => lookup.how = "everywhere" /\ Exists(o.in)'
  PROVE  IInv'
<1> USE DEF IInv, scan
<1>1. outcome = "running"
  BY DEF RunningInv
<1>2. TypeOK'
  BY DEF TypeOK, Wanted, ByName, NamesSeen
<1>3. WorldInv' /\ RunningInv'
  BY DEF WorldInv, RunningInv
<1>4. PageInv'
  BY DEF PageInv
<1>5. PickInv'
  BY DEF PickInv, Matches
<1>6. Promises'
  BY <1>1 DEF Promises, FoundIsNamed, AnswerIsUnique, MissingMeansAbsent, ListIsComplete,
              PagesDoNotMatter
<1> QED BY <1>2, <1>3, <1>4, <1>5, <1>6

LEMMA OthersKeepIInv == IInv /\ Others => IInv'
<1> SUFFICES ASSUME IInv, Others PROVE IInv'
  OBVIOUS
<1>0. /\ changes \in Nat /\ MaxChanges \in Nat /\ lasting \subseteq objects
      /\ objects \subseteq Object /\ IsFiniteSet(objects)
  BY BoundAssumption DEF IInv, TypeOK, WorldInv
<1>1. ASSUME NEW o \in Object, Create(o) PROVE IInv'
  <2>1. IsFiniteSet(objects')
    BY <1>0, <1>1, FS_AddElement DEF Create
  <2>2. \A x \in objects' : x.in # Organization => lookup.how = "everywhere" /\ Exists(x.in)'
    BY <1>1 DEF Create, Places, Exists, In, IInv, WorldInv
  <2> QED BY <1>0, <1>1, <2>1, <2>2, OthersPreserve DEF Others, Create
<1>2. ASSUME NEW o \in objects, Delete(o) PROVE IInv'
  <2>1. IsFiniteSet(objects')
    BY <1>0, <1>2, FS_Subset DEF Delete
  <2>2. \A x \in objects' : x.in # Organization => lookup.how = "everywhere" /\ Exists(x.in)'
    <3> SUFFICES ASSUME NEW x \in objects', x.in # Organization
                 PROVE  lookup.how = "everywhere" /\ Exists(x.in)'
      OBVIOUS
    <3>1. PICK e \in objects : e.in = Organization /\ e.id = x.in
      BY <1>2 DEF Delete, IInv, WorldInv, Exists, In
    <3>2. e # o /\ e.in # o.id
      BY <1>0, <1>2, <3>1, ObjectType DEF Delete, Gone
    <3> QED BY <1>2, <3>1, <3>2 DEF Delete, Gone, Exists, In, IInv, WorldInv
  <2> QED BY <1>0, <1>2, <2>1, <2>2, OthersPreserve DEF Others, Delete
<1>3. ASSUME NEW o \in objects, NEW name \in NamesSeen, Rename(o, name) PROVE IInv'
  <2> DEFINE r == [o EXCEPT !.name = name]
  <2>0. r \in Object /\ r.id = o.id /\ r.in = o.in
    BY <1>0, NamesSeenAreNames DEF Object
  <2>1. IsFiniteSet(objects')
    BY <1>0, <1>3, FS_AddElement, FS_RemoveElement DEF Rename
  <2>2. \A x \in objects' : x.in # Organization => lookup.how = "everywhere" /\ Exists(x.in)'
    <3> SUFFICES ASSUME NEW x \in objects', x.in # Organization
                 PROVE  lookup.how = "everywhere" /\ Exists(x.in)'
      OBVIOUS
    <3>1. PICK y \in objects : y.in = x.in
      BY <1>3, <2>0 DEF Rename
    <3>2. lookup.how = "everywhere"
      BY <3>1 DEF IInv, WorldInv
    <3>3. PICK e \in objects : e.in = Organization /\ e.id = x.in
      BY <3>1 DEF IInv, WorldInv, Exists, In
    <3>4. \E f \in objects' : f.in = Organization /\ f.id = x.in
      BY <1>3, <2>0, <3>3 DEF Rename
    <3> QED BY <3>2, <3>4 DEF Exists, In
  <2>3. objects' \subseteq Object /\ lasting' \subseteq lasting /\ lasting' \subseteq objects'
    BY <1>0, <1>3, <2>0 DEF Rename
  <2> QED BY <1>0, <1>3, <2>1, <2>2, <2>3, OthersPreserve DEF Others, Rename
<1> QED BY <1>1, <1>2, <1>3 DEF Others

---------------------------------------------------------------------------
(* How a read ends.                                                        *)

\* After the end nothing is left to show but what was promised.
LEMMA EndsKeeps ==
  ASSUME IInv, NEW how, NEW result \in SUBSET Object, Ends(how, result),
         disturbed' \in BOOLEAN, disturbed => disturbed',
         \/ how \in {"read", "multiple", "notFound", "nothing", "error"}
         \/ how = "panic" /\ lookup.next = "pointer",
         how = "read" /\ ByName /\ ~SplitName => \A o \in result : o.name = wanted,
         how = "read" /\ ByName /\ ~SplitName
           /\ lookup \notin materializedTableDataSourceRead
                              \cup providerIntegrationSetupDataSourceRead
           => ~\E o, x \in lasting : o # x /\ o.name = wanted /\ x.name = wanted,
         how \in {"notFound", "nothing"} /\ ~SplitName
           /\ ~(disturbed' /\ lookup \in connectArtifactDataSourceRead
                                           \cup materializedTableDataSourceRead)
           => ~\E o \in lasting : Matches(o),
         how = "read" /\ lookup.match = "all"
           => {o \in lasting : (o.in = Organization) = (lookup.how # "everywhere")}
              \subseteq result,
         ~disturbed' => how = Verdict(objects) \/ how = "panic"
  PROVE  IInv'
<1> USE DEF Ends, world
<1>0. WellFormed(lookup)
  BY ReadsAssumption, LookupsAreWellFormed DEF IInv, TypeOK
<1>1. TypeOK'
  BY DEF IInv, TypeOK, Wanted, ByName, NamesSeen
<1>2. WorldInv'
  BY DEF IInv, WorldInv, Exists, In
<1>3. RunningInv' /\ PageInv' /\ PickInv'
  BY DEF RunningInv, PageInv, PickInv
<1>4. FoundIsNamed'
  BY DEF FoundIsNamed, ByName, SplitName
<1>5. AnswerIsUnique'
  BY DEF AnswerIsUnique, ByName, SplitName
<1>6. MissingMeansAbsent'
  BY DEF MissingMeansAbsent, Matches, SplitName
<1>7. ListIsComplete'
  BY DEF ListIsComplete
<1>8. PagesDoNotMatter'
  <2>1. Verdict(objects)' = Verdict(objects)
    BY DEF Verdict, orgHasMultipleWithTargetDisplayName, Matching, Matches
  <2>2. how = "panic" => lookup \in connectionDataSourceRead \cup materializedTableDataSourceRead
    BY <1>0 DEF WellFormed
  <2> QED BY <2>1, <2>2 DEF PagesDoNotMatter
<1> QED BY <1>1, <1>2, <1>3, <1>4, <1>5, <1>6, <1>7, <1>8 DEF IInv, Promises

\* What is made of all that was loaded: of the objects that match, those that last are
\* among what was loaded.
LEMMA ConcludesKeeps ==
  ASSUME IInv, at = "page", UNCHANGED disturbed,
         NEW loaded \in SUBSET Object, Concludes(loaded),
         lookup.match # "all" => IsFiniteSet(loaded),
         lookup.match # "all" => \A o \in lasting : Matches(o) => o \in loaded,
         lookup.match = "all"
           => {o \in lasting : (o.in = Organization) = (lookup.how # "everywhere")}
              \subseteq loaded,
         lookup.match # "all" /\ ~disturbed => Matching(loaded) = Matching(objects)
  PROVE  IInv'
<1>0. WellFormed(lookup) /\ disturbed \in BOOLEAN /\ lasting \subseteq Object
  BY ReadsAssumption, LookupsAreWellFormed DEF IInv, TypeOK
<1>1. CASE lookup.match = "all" /\ Ends("read", loaded)
  <2>1. Verdict(objects) = "read" /\ ~ByName
    BY <1>1 DEF Verdict, ByName
  <2> QED BY <1>0, <1>1, <2>1, EndsKeeps
<1>2. ASSUME lookup.match # "all", ~disturbed PROVE Verdict(loaded) = Verdict(objects)
  BY <1>2, SameMatchesSameVerdict
<1>3. CASE lookup.match # "all" /\ Verdict(loaded) # "read" /\ Ends(Verdict(loaded), {})
  <2>1. Verdict(loaded) \in {"multiple", "notFound", "nothing"}
    BY <1>0, <1>3 DEF Verdict, WellFormed
  <2>2. Verdict(loaded) \in {"notFound", "nothing"} => Matching(loaded) = {}
    BY <1>3 DEF Verdict
  <2>3. Verdict(loaded) \in {"notFound", "nothing"} => ~\E o \in lasting : Matches(o)
    BY <1>3, <2>2 DEF Matching
  <2> QED BY <1>0, <1>2, <1>3, <2>1, <2>3, EndsKeeps
<1>4. ASSUME lookup.match # "all", Verdict(loaded) = "read", NEW o \in Matching(loaded),
             lookup.again = "no", Ends("read", {o})
      PROVE  IInv'
  <2>1. o \in Object /\ Matches(o)
    BY DEF Matching
  <2>2. ByName /\ ~SplitName => o.name = wanted
    BY <2>1, WantedName DEF IInv
  <2>3. ASSUME ByName, ~SplitName,
               lookup \notin materializedTableDataSourceRead
                             \cup providerIntegrationSetupDataSourceRead
        PROVE  ~\E y, x \in lasting : y # x /\ y.name = wanted /\ x.name = wanted
    <3>1. lookup.distinct = TRUE
      BY <1>0, <2>3 DEF WellFormed, ByName
    <3>2. ~orgHasMultipleWithTargetDisplayName(loaded)
      BY <1>4, <3>1 DEF Verdict
    <3> SUFFICES ASSUME NEW y \in lasting, NEW x \in lasting, y # x, y.name = wanted,
                        x.name = wanted
                 PROVE  FALSE
      OBVIOUS
    <3>3. Matches(x) /\ Matches(y)
      BY <1>0, <2>3, WantedName DEF IInv
    <3>4. x \in Matching(loaded) /\ y \in Matching(loaded)
      BY <1>4, <3>3 DEF Matching
    <3> QED BY <1>4, <3>2, <3>4, TwoAreMany
  <2> QED BY <1>0, <1>2, <1>4, <2>1, <2>2, <2>3, EndsKeeps
<1>5. ASSUME lookup.match # "all", Verdict(loaded) = "read", NEW o \in Matching(loaded),
             lookup.again # "no", at' = "get", found' = {o}, pages' = {}, todo' = {},
             UNCHANGED <<lookup, wanted, world, place, token, outcome>>
      PROVE  IInv'
  <2> USE DEF world
  <2>0. o \in Object /\ Matches(o) /\ outcome = "running"
    BY DEF Matching, IInv, PageInv
  <2>1. TypeOK'
    BY <1>5, <2>0 DEF IInv, TypeOK, Wanted, ByName, NamesSeen
  <2>2. WorldInv'
    BY <1>5 DEF IInv, WorldInv, Exists, In
  <2>3. RunningInv' /\ PageInv'
    BY <1>5, <2>0 DEF RunningInv, PageInv
  <2>4. ASSUME lookup.distinct = TRUE, NEW x \in lasting, Matches(x) PROVE x = o
    <3>1. ~orgHasMultipleWithTargetDisplayName(loaded)
      BY <1>5, <2>4 DEF Verdict
    <3>2. x \in Matching(loaded)
      BY <1>5, <2>4 DEF Matching
    <3> QED BY <1>5, <3>1, <3>2, TwoAreMany
  <2>5. ~disturbed => o \in objects
    BY <1>5 DEF Matching
  <2>6. \A x : Matches(x)' <=> Matches(x)
    BY <1>5 DEF Matches
  <2>7. PickInv'
    BY <1>5, <2>0, <2>4, <2>5, <2>6 DEF PickInv
  <2>8. Promises'
    BY <1>5, <2>0 DEF Promises, FoundIsNamed, AnswerIsUnique, MissingMeansAbsent,
                      ListIsComplete, PagesDoNotMatter
  <2> QED BY <2>1, <2>2, <2>3, <2>7, <2>8 DEF IInv
<1> QED BY <1>1, <1>3, <1>4, <1>5 DEF Concludes

---------------------------------------------------------------------------
(* The read.                                                               *)

\* Nothing that lasts on the rest of a place is missed by its last page.
LEMMA RestHasTheRest ==
  ASSUME IInv, at = "page", NEW o \in lasting, o.in = place
  PROVE  o \in pages \cup Rest
<1>1. o \in Object /\ o \in objects /\ token \in Ids \cup {0}
  BY DEF IInv, TypeOK
<1>2. token \in Nat
  BY <1>1, IdsAssumption
<1>3. o.id <= token \/ token < o.id
  BY <1>1, <1>2, ObjectType
<1> QED BY <1>1, <1>3 DEF IInv, PageInv, Rest, In

\* Every environment with something that lasts in it has been listed by then.
LEMMA RestHasTheEnvironments ==
  ASSUME IInv, at = "page", place = Organization, lookup.how = "everywhere",
         NEW o \in lasting, o.in # Organization
  PROVE  \E e \in pages \cup Rest : e.id = o.in
<1>1. o \in Object /\ o \in objects /\ token \in Ids \cup {0} /\ objects \subseteq Object
  BY DEF IInv, TypeOK
<1>2. token \in Nat
  BY <1>1, IdsAssumption
<1>3. CASE o.in <= token
  BY <1>3 DEF IInv, PageInv
<1>4. CASE token < o.in
  <2>1. PICK e \in In(Organization) : e.id = o.in
    BY <1>1 DEF IInv, WorldInv, Exists
  <2> QED BY <1>4, <2>1 DEF Rest, In
<1> QED BY <1>1, <1>2, <1>3, <1>4, ObjectType

LEMMA LoadPageKeeps == \A upto \in Ids : IInv /\ LoadPage(upto) => IInv'
<1> SUFFICES ASSUME NEW upto \in Ids, IInv, LoadPage(upto) PROVE IInv'
  OBVIOUS
<1> USE DEF LoadPage, world
<1>0. /\ outcome = "running" /\ IsFiniteSet(pages) /\ IsFiniteSet(objects)
      /\ objects \subseteq Object /\ lasting \subseteq objects /\ pages \subseteq Object
  BY DEF IInv, PageInv, TypeOK, WorldInv
<1>1. token \in Nat /\ upto \in Nat
  BY IdsAssumption DEF IInv, TypeOK
<1>2. Page(upto) \subseteq objects
  BY DEF Page, In
<1>3. IsFiniteSet(pages')
  BY <1>0, <1>2, FS_Subset, FS_Union
<1>4. TypeOK'
  BY <1>0, <1>2 DEF IInv, TypeOK, Wanted, ByName, NamesSeen
<1>5. WorldInv' /\ RunningInv' /\ PickInv'
  BY <1>0 DEF IInv, WorldInv, RunningInv, PickInv, Exists, In
<1>6. PageInv'
  <2>1. ASSUME NEW o \in lasting, o.in = place, o.id <= upto PROVE o \in pages'
    <3>1. o.id <= token \/ token < o.id
      BY <1>0, <1>1, ObjectType
    <3> QED BY <1>0, <2>1, <3>1 DEF IInv, PageInv, Page, In
  <2>2. ASSUME lookup.how = "everywhere", place = Organization, NEW o \in lasting,
               o.in # Organization, o.in <= upto
        PROVE  \E e \in pages' : e.id = o.in
    <3>1. CASE o.in <= token
      BY <2>2, <3>1 DEF IInv, PageInv
    <3>2. CASE token < o.in
      <4>1. PICK e \in In(Organization) : e.id = o.in
        BY <1>0, <2>2 DEF IInv, WorldInv, Exists
      <4>2. e \in Page(upto)
        BY <2>2, <3>2, <4>1 DEF Page
      <4> QED BY <4>1, <4>2
    <3> QED BY <1>0, <1>1, <3>1, <3>2, ObjectType
  <2>3. lookup.how # "get" /\ (lookup.how # "everywhere" => place = Organization)
    BY DEF IInv, PageInv
  <2>4. place # Organization =>
          \A o \in lasting : o.in # Organization => o.in = place \/ o.in \in todo \/ o \in found
    BY DEF IInv, PageInv
  <2>5. disturbed \/ pages' \subseteq objects
    BY <1>2 DEF IInv, PageInv
  <2> QED BY <1>0, <1>3, <2>1, <2>2, <2>3, <2>4, <2>5 DEF PageInv
<1>7. Promises'
  BY <1>0 DEF Promises, FoundIsNamed, AnswerIsUnique, MissingMeansAbsent, ListIsComplete,
              PagesDoNotMatter
<1> QED BY <1>4, <1>5, <1>6, <1>7 DEF IInv

\* The next environment: its first page has still to come.
LEMMA ListEnvironmentKeeps ==
  ASSUME IInv, at = "page", lookup.how = "everywhere",
         NEW environments \in SUBSET Ids, NEW all \in SUBSET Object,
         NEW p, ListEnvironment(p, environments, all),
         \A o \in lasting : o.in # Organization => o.in \in environments \/ o \in all
  PROVE  IInv'
<1> USE DEF ListEnvironment, world
<1>0. /\ outcome = "running" /\ lasting \subseteq Object /\ p \in Ids /\ p # 0
  BY IdsAssumption DEF IInv, PageInv, TypeOK
<1>1. TypeOK'
  BY <1>0 DEF IInv, TypeOK, Wanted, ByName, NamesSeen
<1>2. WorldInv' /\ RunningInv' /\ PickInv'
  BY <1>0 DEF IInv, WorldInv, RunningInv, PickInv, Exists, In
<1>3. PageInv'
  <2>1. \A o \in lasting : ~(o.id <= 0)
    BY <1>0, ObjectType
  <2> QED BY <1>0, <2>1, FS_EmptySet DEF PageInv
<1>4. Promises'
  BY <1>0 DEF Promises, FoundIsNamed, AnswerIsUnique, MissingMeansAbsent, ListIsComplete,
              PagesDoNotMatter
<1> QED BY <1>1, <1>2, <1>3, <1>4 DEF IInv

LEMMA LoadLastPageKeeps == \A next : IInv /\ LoadLastPage(next) => IInv'
<1> SUFFICES ASSUME NEW next, IInv, LoadLastPage(next) PROVE IInv'
  OBVIOUS
<1> DEFINE loaded == pages \cup Rest
           environments == IF place = Organization THEN {e.id : e \in loaded} ELSE todo
           all == IF place = Organization THEN {} ELSE found \cup loaded
<1>0. /\ at = "page" /\ IsFiniteSet(pages) /\ IsFiniteSet(objects)
      /\ objects \subseteq Object /\ lasting \subseteq objects /\ pages \subseteq Object
      /\ found \subseteq Object /\ todo \subseteq Ids
  BY DEF LoadLastPage, IInv, PageInv, TypeOK, WorldInv
<1>1. Rest \subseteq objects
  BY DEF Rest, In
<1>2. loaded \subseteq Object /\ IsFiniteSet(loaded)
  BY <1>0, <1>1, FS_Subset, FS_Union
<1>3. environments \subseteq Ids /\ all \subseteq Object
  BY <1>0, <1>2, ObjectType
<1>4. CASE lookup.how = "scan" /\ Concludes(loaded) /\ UNCHANGED disturbed
  <2>1. \A o \in lasting : o \in loaded
    BY <1>0, <1>4, RestHasTheRest DEF IInv, PageInv, WorldInv
  <2>2. ~disturbed => loaded = objects
    BY <1>0, <1>1, <2>1 DEF IInv, PageInv, WorldInv
  <2> QED BY <1>0, <1>2, <1>4, <2>1, <2>2, ConcludesKeeps
<1>5. ASSUME lookup.how = "everywhere", NEW o \in lasting, o.in # Organization
      PROVE  o.in \in environments \/ o \in all
  <2>1. CASE place = Organization
    BY <1>0, <1>5, <2>1, RestHasTheEnvironments
  <2>2. CASE place # Organization
    BY <1>0, <1>5, <2>2, RestHasTheRest DEF IInv, PageInv
  <2> QED BY <2>1, <2>2
<1>6. ASSUME lookup.how = "everywhere", NEW p \in environments,
             ListEnvironment(p, environments, all)
      PROVE  IInv'
  BY <1>0, <1>3, <1>5, <1>6, ListEnvironmentKeeps
<1>7. CASE lookup.how = "everywhere" /\ environments = {} /\ Concludes(all)
           /\ UNCHANGED disturbed
  <2>1. lookup.match = "all"
    BY <1>7, ReadsAssumption, LookupsAreWellFormed DEF IInv, TypeOK, WellFormed
  <2>2. {o \in lasting : (o.in = Organization) = (lookup.how # "everywhere")} \subseteq all
    BY <1>5, <1>7
  <2> QED BY <1>0, <1>3, <1>7, <2>1, <2>2, ConcludesKeeps
<1> QED BY <1>4, <1>6, <1>7 DEF LoadLastPage

LEMMA ListOnceAndPickKeeps == IInv /\ ListOnceAndPick => IInv'
<1> SUFFICES ASSUME IInv, ListOnceAndPick PROVE IInv'
  OBVIOUS
<1> DEFINE loaded == Matching(In(place))
<1>1. In(place) = objects
  BY DEF ListOnceAndPick, IInv, PageInv, WorldInv, In
<1>2. /\ loaded \subseteq objects /\ objects \subseteq Object /\ lasting \subseteq objects
      /\ IsFiniteSet(objects)
  BY <1>1 DEF IInv, TypeOK, WorldInv, Matching
<1>3. IsFiniteSet(loaded)
  BY <1>2, FS_Subset
<1>4. Matching(loaded) = Matching(objects)
  BY <1>1 DEF Matching
<1>5. \A o \in lasting : Matches(o) => o \in loaded
  BY <1>1, <1>2 DEF Matching
<1>6. lookup.match = "all" => \A o \in lasting : Matches(o)
  BY DEF Matches
<1> HIDE DEF loaded
<1> QED BY <1>2, <1>3, <1>4, <1>5, <1>6, ConcludesKeeps DEF ListOnceAndPick, loaded

\* The answer of an undisturbed second request is the one a look at all objects gives.
LEMMA PickedIsTheVerdict ==
  ASSUME IInv, at = "get", lookup.how # "get", ~disturbed
  PROVE  Verdict(objects) = "read"
<1>0. WellFormed(lookup) /\ lasting = objects /\ IsFiniteSet(objects)
  BY ReadsAssumption, LookupsAreWellFormed DEF IInv, TypeOK, WorldInv
<1>1. PICK x \in found : Matches(x) /\ found = {x}
  BY DEF IInv, PickInv
<1>2. x \in objects /\ lookup.again # "no"
  BY <1>1 DEF IInv, PickInv
<1>3. x \in Matching(objects) /\ Matching(objects) # {}
  BY <1>1, <1>2 DEF Matching
<1>4. ASSUME lookup.distinct = TRUE PROVE ~orgHasMultipleWithTargetDisplayName(objects)
  <2>1. Matching(objects) = {x}
    BY <1>0, <1>1, <1>3, <1>4 DEF Matching, IInv, PickInv
  <2>2. Cardinality({x}) = 1
    BY FS_Singleton
  <2> QED BY <2>1, <2>2 DEF orgHasMultipleWithTargetDisplayName
<1> QED BY <1>0, <1>2, <1>3, <1>4 DEF Verdict, WellFormed

LEMMA GetObjectKeeps == \A o \in objects : IInv /\ GetObject(o) => IInv'
<1> SUFFICES ASSUME NEW o \in objects, IInv, GetObject(o) PROVE IInv'
  OBVIOUS
<1>0. /\ WellFormed(lookup) /\ disturbed \in BOOLEAN /\ o \in Object
      /\ at = "get" /\ Target(o) /\ Ends("read", {o}) /\ disturbed' = disturbed
  BY ReadsAssumption, LookupsAreWellFormed DEF IInv, TypeOK, GetObject
<1>1. CASE lookup.how = "get"
  <2>1. lookup.match = "id" /\ lookup.distinct = FALSE /\ ~ByName
    BY <1>0, <1>1 DEF WellFormed, ByName
  <2>2. Matching(objects) # {}
    BY <1>0, <1>1, <2>1 DEF Target, Matching, Matches
  <2>3. Verdict(objects) = "read"
    BY <2>1, <2>2 DEF Verdict
  <2> QED BY <1>0, <2>1, <2>3, EndsKeeps
<1>2. CASE lookup.how # "get"
  <2>1. PICK x \in found : Matches(x) /\ found = {x}
    BY <1>0, <1>2 DEF IInv, PickInv
  <2>2. lookup.again # "no" /\ lookup.match # "all"
    BY <1>0, <1>2 DEF IInv, PickInv, WellFormed
  <2>3. ByName => /\ lookup.match = "name" /\ lookup.again = "name"
                  /\ lookup \in materializedTableDataSourceRead
    BY <1>0, <2>2 DEF WellFormed, ByName
  <2>4. ByName => o.name = wanted
    BY <1>0, <1>2, <2>1, <2>3 DEF Target, Matches
  <2> QED BY <1>0, <1>2, <2>2, <2>3, <2>4, PickedIsTheVerdict, EndsKeeps
<1> QED BY <1>1, <1>2

LEMMA GetMissingKeeps == IInv /\ GetMissing => IInv'
<1> SUFFICES ASSUME IInv, GetMissing PROVE IInv'
  OBVIOUS
<1>0. /\ WellFormed(lookup) /\ disturbed \in BOOLEAN /\ lasting \subseteq objects
      /\ at = "get" /\ (\A o \in objects : ~Target(o)) /\ Ends(lookup.missing, {})
      /\ disturbed' = disturbed
  BY ReadsAssumption, LookupsAreWellFormed DEF IInv, TypeOK, GetMissing
<1>1. lookup.missing \in {"notFound", "nothing"}
  BY <1>0 DEF WellFormed
<1>2. CASE lookup.how = "get"
  <2>1. lookup.match = "id" /\ lookup.distinct = FALSE /\ ~ByName
    BY <1>0, <1>2 DEF WellFormed, ByName
  <2>2. \A o \in objects : ~Matches(o)
    BY <1>0, <1>2, <2>1 DEF Target, Matches
  <2>3. Verdict(objects) = lookup.missing
    BY <2>1, <2>2 DEF Verdict, Matching
  <2> QED BY <1>0, <1>1, <2>1, <2>2, <2>3, EndsKeeps
<1>3. CASE lookup.how # "get"
  <2>1. PICK x \in found : Matches(x) /\ found = {x}
    BY <1>0, <1>3 DEF IInv, PickInv
  <2>2. x \notin objects
    BY <1>0, <1>3, <2>1 DEF Target
  <2>3. disturbed
    BY <1>0, <1>3, <2>1, <2>2 DEF IInv, PickInv
  <2>4. lookup.again = "name" => lookup \in materializedTableDataSourceRead
    BY <1>0 DEF WellFormed
  <2>5. lookup.again = "id" => ~\E o \in lasting : Matches(o)
    BY <1>0, <1>3, <2>1, <2>2 DEF IInv, PickInv, WellFormed
  <2>6. lookup.again \in {"id", "name"}
    BY <1>0, <1>3 DEF IInv, PickInv, WellFormed
  <2> QED BY <1>0, <1>1, <2>3, <2>4, <2>5, <2>6, EndsKeeps
<1> QED BY <1>2, <1>3

LEMMA FailuresKeep == IInv /\ (NextIsNil \/ NextHasNoToken \/ RequestFails) => IInv'
<1>0. IInv => WellFormed(lookup) /\ disturbed \in BOOLEAN
  BY ReadsAssumption, LookupsAreWellFormed DEF IInv, TypeOK
<1>1. ASSUME IInv, NextIsNil PROVE IInv'
  BY <1>0, <1>1, EndsKeeps DEF NextIsNil
<1>2. ASSUME IInv, NextHasNoToken PROVE IInv'
  BY <1>0, <1>2, EndsKeeps DEF NextHasNoToken
<1>3. ASSUME IInv, RequestFails PROVE IInv'
  <2>1. PICK how \in {"error", lookup.refused} : Ends(how, {})
    BY <1>3 DEF RequestFails
  <2>2. how = "error" \/ (how = "nothing" /\ lookup \in connectArtifactDataSourceRead)
    BY <1>0, <1>3, <2>1 DEF WellFormed
  <2> QED BY <1>3, <2>1, <2>2, EndsKeeps DEF RequestFails
<1> QED BY <1>1, <1>2, <1>3

LEMMA ReadKeepsIInv == IInv /\ Read => IInv'
  BY LoadPageKeeps, LoadLastPageKeeps, ListOnceAndPickKeeps, GetObjectKeeps,
     GetMissingKeeps, FailuresKeep DEF Read

---------------------------------------------------------------------------
(* The theorems.                                                           *)

\* The inductive invariant holds of every read, however many objects there are,
\* however the service cuts its pages and whatever other clients do meanwhile.
THEOREM Invariant == Spec => []IInv
<1>1. Init => IInv
  BY InitEstablishes
<1>2. IInv /\ [Next]_vars => IInv'
  <2>1. ASSUME IInv, Next PROVE IInv'
    BY <2>1, ReadKeepsIInv, OthersKeepIInv DEF Next
  <2>2. ASSUME IInv, UNCHANGED vars PROVE IInv'
    BY <2>2 DEF vars, IInv, TypeOK, Wanted, ByName, NamesSeen, WorldInv, RunningInv, PageInv,
       PickInv, Promises, FoundIsNamed, AnswerIsUnique, MissingMeansAbsent, ListIsComplete,
       PagesDoNotMatter, SplitName, Matches, Exists, In, Verdict, Matching,
       orgHasMultipleWithTargetDisplayName
  <2> QED BY <2>1, <2>2
<1> QED BY <1>1, <1>2, PTL DEF Spec

\* Each variable of a read keeps its type; in particular only the loops that read the
\* next of a page through a pointer can panic.
THEOREM TypeCorrect == Spec => []TypeOK
<1>1. IInv => TypeOK
  BY DEF IInv
<1> QED BY <1>1, Invariant, PTL

\* What any data source reads by name has that name, whatever is renamed meanwhile.
THEOREM ReadHasTheName == Spec => []FoundIsNamed
<1>1. IInv => FoundIsNamed
  BY DEF IInv, Promises
<1> QED BY <1>1, Invariant, PTL

\* No read by name silently picks one of two objects that both have the name all the
\* while, on whichever pages they are (but for the data sources named in the property).
THEOREM NameIsUnique == Spec => []AnswerIsUnique
<1>1. IInv => AnswerIsUnique
  BY DEF IInv, Promises
<1> QED BY <1>1, Invariant, PTL

\* "Not found" is said only when nothing that matches was there all the while.
THEOREM NothingIsMissed == Spec => []MissingMeansAbsent
<1>1. IInv => MissingMeansAbsent
  BY DEF IInv, Promises
<1> QED BY <1>1, Invariant, PTL

\* A list has everything that was there all the while, across pages and environments.
THEOREM ListsAreComplete == Spec => []ListIsComplete
<1>1. IInv => ListIsComplete
  BY DEF IInv, Promises
<1> QED BY <1>1, Invariant, PTL

\* Undisturbed, the loop over pages gives the verdict of one look at all objects.
THEOREM LoopIsALookAtOnce == Spec => []PagesDoNotMatter
<1>1. IInv => PagesDoNotMatter
  BY DEF IInv, Promises
<1> QED BY <1>1, Invariant, PTL
=============================================================================
