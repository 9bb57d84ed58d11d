------------------------------ MODULE TfImporter ------------------------------
(***************************************************************************)
(* confluent_tf_importer: lists the instances of the resources asked for,  *)
(* loads the state of each, and writes a Terraform configuration and a     *)
(* Terraform state file into a folder; Terraform tracks the folder's path. *)
(* Other clients delete and create objects meanwhile, requests and writes  *)
(* fail, and the process is killed between any two steps.                  *)
(***************************************************************************)
EXTENDS Integers, Sequences, FiniteSets, Functions, TLC

CONSTANTS
    Ids,                \* ids of objects
    DisplayNames,       \* their names: sequences of letters, numbers and other signs
    Numbers,            \* the numbers in names
    Configurations,     \* credentials of the provider, and resources to import
    MaxChanges,         \* bound of what the other clients do
    MaxRuns             \* bound of the number of creates

VARIABLES
    keys,               \* the provider's credentials: "Cloud", "Kafka", "SchemaRegistry"
    resources,          \* the resources attribute
    ownPath,            \* output_path is not the default one
    objects,            \* what exists
    lasting,            \* what has existed since the create began
    changes,
    at,                 \* where the handler is, "idle" between two calls
    run,                \* the creates so far
    todo,               \* importers whose LoadInstances is still to be called
    walk,               \* the importer that is listing, and what it has to list
    partial,            \* its instances so far
    listed,             \* the InstanceIdMaps
    current,            \* the instance that is being loaded
    loaded,             \* instances, in order, with their final names
    lost,               \* why instances may be missing from this create
    disturbed,          \* something failed, was killed or deleted in this create
    outcome,            \* of the last call
    folder,             \* the output folder exists,
    config,             \*   main.tf and
    state,              \*   terraform.tfstate
    tracked             \* the create whose id Terraform holds, if any

configuration == <<keys, resources, ownPath>>
world == <<objects, lasting, changes>>
lists == <<todo, walk, partial, listed>>
loads == <<current, loaded>>
disk == <<folder, config, state>>
vars == <<configuration, world, at, run, lists, loads, lost, disturbed, outcome, disk, tracked>>

ASSUME IdsAssumption == Ids \subseteq Nat \ {0}
ASSUME BoundsAssumption == MaxChanges \in Nat /\ MaxRuns \in Nat
\* What ToString writes is a number, and not that of another number.
ASSUME NumbersAssumption ==
    /\ IsFiniteSet(Ids)
    /\ \A n \in 1 .. Cardinality(Ids) : ToString(n) \in Numbers
    /\ \A m, n \in 1 .. Cardinality(Ids) : ToString(m) = ToString(n) => m = n
ASSUME NamesAssumption == DisplayNames # {} /\ DisplayNames \subseteq Seq(STRING) \ {<<>>}

---------------------------------------------------------------------------
(* The service (external): organizations, clusters and registries hold     *)
(* objects, some of which hold others.                                     *)

Top == 0
Holder == [environment |-> "top", service_account |-> "top", kafka_cluster |-> "environment",
           connector |-> "kafka_cluster", kafka_topic |-> "top", kafka_acl |-> "top",
           schema |-> "top"]
Kinds == DOMAIN Holder
Object == [id : Ids, kind : Kinds, in : Ids \cup {Top}, name : DisplayNames]
In(p) == {o \in objects : o.in = p}
Exists(p) == p = Top \/ \E o \in objects : o.id = p
\* The kind of what p identifies.
KindOf(p) == IF p = Top THEN "top" ELSE (CHOOSE o \in objects : o.id = p).kind

---------------------------------------------------------------------------
(* What is asked for.                                                      *)

cloudSupportedImporters == {"service_account", "environment", "kafka_cluster", "connector"}
kafkaSupportedImporters == {"kafka_acl", "kafka_topic"}
schemaRegistrySupportedImporters == {"schema"}
Families == [Cloud |-> cloudSupportedImporters, Kafka |-> kafkaSupportedImporters,
             SchemaRegistry |-> schemaRegistrySupportedImporters]
\* StringInSlice(ImportableResources).
ASSUME ConfigurationsAssumption ==
    Configurations \subseteq [keys : SUBSET DOMAIN Families, resources : SUBSET Kinds]
FamilyOf(kind) == CHOOSE f \in DOMAIN Families : kind \in Families[f]

importerMode ==
    IF "Kafka" \in keys THEN "Kafka"
    ELSE IF "SchemaRegistry" \in keys THEN "SchemaRegistry" ELSE "Cloud"

\* Mutated: the family has to be asked for as a whole.
ContainsTheSameKeys(map1, map2) == map2 = map1
mapContainsAllKeys(map1, map2) == map2 \subseteq map1

importers == IF resources = {} THEN Families[importerMode] ELSE resources
\* getResourceImporters returns no error.
OneFamily == \E f \in DOMAIN Families : mapContainsAllKeys(Families[f], importers)

\* Where a list of the instances is asked for; each subject of a Schema Registry is
\* asked for its latest schema.
Source(kind) == IF kind = "schema" THEN "schema" ELSE Holder[kind]
\* The kinds that are listed on the way there.
Way(kind) ==
    CASE kind = "connector" -> {"environment", "kafka_cluster"}
      [] kind \in {"kafka_cluster", "schema"} -> {Source(kind)}
      [] OTHER -> {}
\* The kinds that the importers look at.
Seen == UNION {{kind} \cup Way(kind) : kind \in importers}
\* Ids come in order and are not used twice.  Names are told apart of what is imported,
\* and not of ACLs, whose instance name ends with a resource type.
WellPlaced(o) ==
    /\ o.in < o.id /\ Exists(o.in) /\ KindOf(o.in) = Holder[o.kind]
    /\ o.kind \notin importers \ {"kafka_acl"} => o.name = CHOOSE name \in DisplayNames : TRUE

---------------------------------------------------------------------------
(* Names of instances.                                                     *)

Lower == [X |-> "x", x |-> "x", y |-> "y"]
IsLetter(sign) == sign \in DOMAIN Lower
\* Digits that follow each other are one sign.
IsDigit(sign) == sign \in Numbers
Sign(sign) == IF IsLetter(sign) THEN Lower[sign] ELSE IF IsDigit(sign) THEN sign ELSE "_"
Signs(input) ==
    LET output == [i \in DOMAIN input |-> Sign(input[i])]
        kept == IsLetter(Head(input)) \/ IsDigit(Head(input)) \/ Head(input) = "_"
    IN  IF kept THEN output ELSE Tail(output)

\* Mutated: the first sign is not looked at.
AnyFirstSign(input) == Signs(input)
toValidTerraformResourceName(input) ==
    LET output == Signs(input)
    IN  IF output = <<>> \/ ~IsLetter(Head(output)) THEN <<"importer", "_">> \o output
        ELSE output

Address(instance) == [kind |-> instance.kind, name |-> instance.name]
AddressesOf(kind) == {Address(x) : x \in {y \in Range(loaded) : y.kind = kind}}

\* Mutated: a name gets an index only when it is taken.
IndexWhenTaken(instance) ==
    LET n == Cardinality(AddressesOf(instance.kind))
    IN  [instance EXCEPT !.name = IF Address(instance) \in AddressesOf(instance.kind)
                                  THEN @ \o <<"_", ToString(n)>> ELSE @]
\* The name in the files: all but the first of a kind get the number of addresses that
\* the kind has by then, plus one, as an index.
WithIndex(instance) ==
    LET n == Cardinality(AddressesOf(instance.kind))
    IN  [instance EXCEPT !.name = IF n > 0 THEN @ \o <<"_", ToString(n + 1)>> ELSE @]

---------------------------------------------------------------------------
(* tfImporterCreate.                                                       *)

Absent == [run |-> 0]
NoWalk == [kind |-> "none", places |-> {}]
None == [id |-> 0]
TopPlace == [id |-> Top, kind |-> "top"]

Init ==
    /\ \E c \in Configurations : keys = c.keys /\ resources = c.resources
    /\ ownPath \in BOOLEAN
    /\ \E n \in Ids \cup {0} :
         LET ids == {i \in Ids : i <= n}
         IN  \E kind \in [ids -> Seen], in \in [ids -> Ids \cup {Top}],
                name \in [ids -> DisplayNames] :
                objects = {[id |-> i, kind |-> kind[i], in |-> in[i], name |-> name[i]] : i \in ids}
    /\ \A o \in objects : WellPlaced(o)
    /\ lasting = {} /\ changes = 0
    /\ at = "idle" /\ run = 0
    /\ todo = {} /\ walk = NoWalk /\ partial = {} /\ listed = {}
    /\ current = None /\ loaded = <<>>
    /\ lost = {} /\ disturbed = FALSE /\ outcome = "none"
    /\ folder = FALSE /\ config = Absent /\ state = Absent
    /\ tracked = 0

EndsWith(how) ==
    /\ at' = "idle" /\ outcome' = how
    /\ todo' = {} /\ walk' = NoWalk /\ partial' = {} /\ listed' = {}
    /\ current' = None /\ loaded' = <<>>
    /\ lost' = IF how = "created" THEN lost ELSE {}
    /\ lasting' = IF how = "created" THEN lasting ELSE {}
    /\ UNCHANGED <<configuration, objects, changes, run>>

tfImporterCreate ==
    /\ at = "idle" /\ tracked = 0 /\ run < MaxRuns
    /\ run' = run + 1 /\ lost' = {} /\ disturbed' = FALSE
    /\ \/ ~OneFamily /\ outcome' = "failed" /\ UNCHANGED <<lasting, at, todo>>
       \/ OneFamily /\ lasting' = objects /\ at' = "list" /\ todo' = importers /\ outcome' = "none"
    /\ UNCHANGED <<configuration, objects, changes, walk, partial, listed, loads, disk, tracked>>

\* buildImporterInstanceIdMaps: the importers are called in any order.
LoadInstances(kind) ==
    /\ at = "list" /\ walk = NoWalk /\ kind \in todo
    /\ walk' = [kind |-> kind, places |-> {TopPlace}]
    /\ todo' = todo \ {kind} /\ partial' = {}
    /\ UNCHANGED <<configuration, world, at, run, listed, loads, lost, disturbed, outcome,
                   disk, tracked>>

Place(o) == [id |-> o.id, kind |-> o.kind]
\* The clusters of an environment are gone through before the next environment.
Innermost(p) == p.kind = "environment" => \A q \in walk.places : q.kind # "kafka_cluster"
Instance(o) == [id |-> o.id, kind |-> o.kind, name |-> toValidTerraformResourceName(o.name)]

Answer(p) == IF p.kind = "schema" THEN {o \in objects : o.id = p.id} ELSE In(p.id)
\* An answer of which the instances in known are kept.
Visit(p, known) ==
    LET there == p.kind = Source(walk.kind)
        ways == IF there THEN {} ELSE {x \in Answer(p) : x.kind \in Way(walk.kind)}
        new == IF there THEN {Instance(x) : x \in {y \in known : y.kind = walk.kind}} ELSE {}
        places == (walk.places \ {p}) \cup {Place(x) : x \in ways}
    IN  /\ \/ /\ places = {} /\ walk' = NoWalk
              /\ partial' = {} /\ listed' = listed \cup partial \cup new
           \/ /\ places # {} /\ walk' = [walk EXCEPT !.places = places]
              /\ partial' = partial \cup new /\ UNCHANGED listed
        /\ UNCHANGED <<configuration, world, at, run, todo, loads, outcome, disk, tracked>>

\* Mutated: a place is listed over and over.
ListsThePlaceAgain(p) ==
    /\ at = "list" /\ p \in walk.places /\ Innermost(p) /\ Exists(p.id)
    /\ FamilyOf(walk.kind) \in keys
    /\ disturbed' = ~disturbed
    /\ UNCHANGED <<configuration, world, at, run, lists, loads, lost, outcome, disk, tracked>>
\* Mutated: one environment is enough.
ListsOneWay(p) ==
    LET ways == {x \in Answer(p) : x.kind \in Way(walk.kind)}
    IN  /\ at = "list" /\ p \in walk.places /\ Exists(p.id)
        /\ FamilyOf(walk.kind) \in keys
        /\ \/ (p # TopPlace \/ ways = {}) /\ Visit(p, Answer(p))
           \/ /\ p = TopPlace
              /\ \E x \in ways : walk' = [walk EXCEPT !.places = {Place(x)}]
              /\ UNCHANGED <<configuration, world, at, run, todo, partial, listed, loads,
                             outcome, disk, tracked>>
        /\ UNCHANGED <<lost, disturbed>>
\* loadEnvironments, loadKafkaClusters, loadConnectorsByEnvironmentIdAndKafkaClusterId,
\* GetKafkaAcls, ListKafkaTopics, and the list of subjects with loadSchema of each.
ListPlace(p) ==
    /\ at = "list" /\ p \in walk.places /\ Innermost(p) /\ Exists(p.id)
    /\ FamilyOf(walk.kind) \in keys
    /\ Visit(p, Answer(p))
    /\ UNCHANGED <<lost, disturbed>>

\* loadAllKafkaAcls skips the ACLs whose principals it cannot tell.
ListKnownAcls(p, known) ==
    /\ at = "list" /\ p \in walk.places /\ walk.kind = "kafka_acl"
    /\ "Kafka" \in keys /\ known # In(p.id)
    /\ Visit(p, known)
    /\ lost' = lost \cup {"principals"} /\ disturbed' = TRUE

\* loadConnectorsByEnvironmentIdAndKafkaClusterId: a refusal is no error.
ConnectorsRefused(p) ==
    /\ at = "list" /\ p \in walk.places /\ walk.kind = "connector" /\ p.kind = "kafka_cluster"
    /\ Visit(p, {})
    /\ lost' = lost \cup {"refused"} /\ disturbed' = TRUE

\* A list that fails ends buildImporterInstanceIdMaps, without an error.
ListFails ==
    /\ at = "list" /\ walk # NoWalk
    /\ at' = "load" /\ todo' = {} /\ walk' = NoWalk /\ partial' = {}
    /\ lost' = lost \cup {"list"}
    /\ disturbed' = (disturbed \/ FamilyOf(walk.kind) \in keys)
    /\ UNCHANGED <<configuration, world, run, listed, loads, outcome, disk, tracked>>

ListsEnd ==
    /\ at = "list" /\ walk = NoWalk /\ todo = {}
    /\ at' = "load"
    /\ UNCHANGED <<configuration, world, run, lists, loads, lost, disturbed, outcome, disk,
                   tracked>>

Left == {x \in listed : \A y \in Range(loaded) : y.id # x.id}
\* loadInstances goes through the instances of one kind, then of the next.
InTurn(x) ==
    loaded # <<>> /\ (\E y \in Left : y.kind = loaded[Len(loaded)].kind)
    => x.kind = loaded[Len(loaded)].kind

\* getInstanceState: the StateContext of the resource's importer reads the instance,
ImportInstance(x) ==
    /\ at = "load" /\ x \in Left /\ InTurn(x) /\ Exists(x.id)
    /\ at' = "refresh" /\ current' = x
    /\ UNCHANGED <<configuration, world, run, lists, loaded, lost, disturbed, outcome, disk,
                   tracked>>

\* and RefreshWithoutUpgrade reads it again.
RefreshInstance ==
    /\ at = "refresh" /\ Exists(current.id)
    /\ at' = "load" /\ current' = None
    /\ loaded' = Append(loaded, WithIndex(current))
    /\ UNCHANGED <<configuration, world, run, lists, lost, disturbed, outcome, disk, tracked>>

\* It was deleted between the two: the state that is asked for its ID is nil.
RefreshPanics ==
    /\ at = "refresh" /\ ~Exists(current.id)
    /\ EndsWith("panic") /\ UNCHANGED <<disturbed, disk, tracked>>

LoadsEnd ==
    /\ at = "load" /\ Left = {}
    /\ \/ loaded = <<>> /\ EndsWith("failed")
       \/ /\ loaded # <<>> /\ at' = "folder"
          /\ UNCHANGED <<configuration, world, run, lists, loads, lost, outcome>>
    /\ UNCHANGED <<disturbed, disk, tracked>>

\* Mutated: files are left to be overwritten.
KeepsTheFiles == UNCHANGED <<config, state>>
createOrRecreateDirectory == config' = Absent /\ state' = Absent

setupOutputFolder ==
    /\ at = "folder" /\ at' = "config"
    /\ createOrRecreateDirectory /\ folder' = TRUE
    /\ UNCHANGED <<configuration, world, run, lists, loads, lost, disturbed, outcome, tracked>>

\* The removal breaks off: in a folder of the user's, main.tf goes first.
FolderBreaksOff ==
    /\ at = "folder" /\ folder
    /\ config' \in {config, Absent} /\ state' \in {state, Absent}
    /\ ownPath /\ config' # Absent => state' = state
    /\ folder' \in {TRUE, ownPath \/ config' # Absent \/ state' # Absent}
    /\ EndsWith("failed") /\ disturbed' = TRUE /\ UNCHANGED tracked

Blocks(n) == [i \in 1 .. n |-> Address(loaded[i])]
writeHclConfig ==
    /\ at = "config" /\ at' = "state"
    /\ config' = [run |-> run, blocks |-> Blocks(Len(loaded))]
    /\ UNCHANGED <<configuration, world, run, lists, loads, lost, disturbed, outcome,
                   folder, state, tracked>>

ConfigBreaksOff(n) ==
    /\ at = "config" /\ n \in 0 .. Len(loaded)
    /\ config' = [run |-> run, blocks |-> Blocks(n)]
    /\ EndsWith("failed") /\ disturbed' = TRUE /\ UNCHANGED <<folder, state, tracked>>

\* Mutated: the state has the names that were listed.
EntriesAsListed == {x \in listed : \E y \in Range(loaded) : y.id = x.id}
\* Of instances with one address, the last one stays.
Entries == {loaded[i] : i \in {j \in DOMAIN loaded : \A k \in DOMAIN loaded :
                                  Address(loaded[k]) = Address(loaded[j]) => k <= j}}

writeTfState ==
    /\ at = "state" /\ at' = "upgrade"
    /\ state' = [run |-> run, entries |-> Entries, upgraded |-> FALSE]
    /\ UNCHANGED <<configuration, world, run, lists, loads, lost, disturbed, outcome,
                   folder, config, tracked>>

StateBreaksOff ==
    /\ at = "state"
    /\ state' = [run |-> run, entries |-> {}, upgraded |-> FALSE]
    /\ EndsWith("failed") /\ disturbed' = TRUE /\ UNCHANGED <<folder, config, tracked>>

\* terraform state replace-provider, then SetId.
ReplaceProvider ==
    /\ at = "upgrade"
    /\ state' = [state EXCEPT !.upgraded = TRUE]
    /\ tracked' = run
    /\ EndsWith("created") /\ UNCHANGED <<disturbed, folder, config>>
\* The command fails, or the process is killed: the files are there, the id is not.
ReplaceProviderFails(upgraded) ==
    /\ at = "upgrade"
    /\ state' = [state EXCEPT !.upgraded = upgraded]
    /\ EndsWith("failed") /\ disturbed' = TRUE /\ UNCHANGED <<folder, config, tracked>>

\* A request for an instance fails, it is gone, or the process is killed.
CreateFails ==
    /\ at \in {"list", "load", "refresh", "folder", "config", "state"}
    /\ EndsWith("failed") /\ disturbed' = TRUE /\ UNCHANGED <<disk, tracked>>

Create ==
    \/ \E kind \in todo : LoadInstances(kind)
    \/ \E p \in walk.places : \/ ListPlace(p) \/ ConnectorsRefused(p)
                              \/ \E known \in SUBSET In(p.id) : ListKnownAcls(p, known)
    \/ ListFails \/ ListsEnd
    \/ \E x \in listed : ImportInstance(x)
    \/ RefreshInstance \/ RefreshPanics \/ LoadsEnd
    \/ setupOutputFolder \/ FolderBreaksOff
    \/ writeHclConfig \/ \E n \in 0 .. Len(loaded) : ConfigBreaksOff(n)
    \/ writeTfState \/ StateBreaksOff
    \/ ReplaceProvider \/ \E upgraded \in BOOLEAN : ReplaceProviderFails(upgraded)
    \/ CreateFails

---------------------------------------------------------------------------
(* The other handlers, and what goes on around them.                       *)

Imported == -1

\* The folder is gone.
tfImporterRead ==
    /\ at = "idle" /\ tracked # 0 /\ ~folder
    /\ tracked' = 0 /\ outcome' = "none"
    /\ UNCHANGED <<configuration, world, at, run, lists, loads, lost, disturbed, disk>>

\* terraform import with the path as the id.
ImportStatePassthrough ==
    /\ at = "idle" /\ tracked = 0 /\ folder
    /\ tracked' = Imported /\ outcome' = "none"
    /\ UNCHANGED <<configuration, world, at, run, lists, loads, lost, disturbed, disk>>

\* main.tf is removed, or cannot be.
tfImporterDelete ==
    /\ at = "idle" /\ tracked # 0
    /\ \/ config # Absent /\ config' = Absent /\ at' = "delete" /\ UNCHANGED outcome
       \/ outcome' = "failed" /\ UNCHANGED <<at, config>>
    /\ UNCHANGED <<configuration, world, run, lists, loads, lost, disturbed, folder,
                   state, tracked>>

\* Mutated: a state file that stays is no error.
DeletedAnyway ==
    /\ at = "delete" /\ at' = "idle"
    /\ outcome' = "deleted" /\ tracked' = 0
    /\ UNCHANGED <<configuration, world, run, lists, loads, lost, disturbed, disk>>
RemoveState ==
    /\ at = "delete" /\ at' = "idle" /\ state # Absent
    /\ state' = Absent /\ outcome' = "deleted" /\ tracked' = 0
    /\ UNCHANGED <<configuration, world, run, lists, loads, lost, disturbed, folder,
                   config>>
RemoveStateFails ==
    /\ at = "delete" /\ at' = "idle"
    /\ outcome' = "failed"
    /\ UNCHANGED <<configuration, world, run, lists, loads, lost, disturbed, disk, tracked>>

UserRemovesFolder ==
    /\ at = "idle" /\ folder
    /\ folder' = FALSE /\ config' = Absent /\ state' = Absent
    /\ UNCHANGED <<configuration, world, at, run, lists, loads, lost, disturbed, outcome,
                   tracked>>
UserMakesFolder ==
    /\ at = "idle" /\ ~folder
    /\ folder' = TRUE
    /\ UNCHANGED <<configuration, world, at, run, lists, loads, lost, disturbed, outcome,
                   config, state, tracked>>

\* Others delete an object, with what it holds, or create one, while objects are read.
DeleteObject(o) ==
    /\ at \in {"list", "load", "refresh"} /\ changes < MaxChanges
    /\ LET held == {x \in objects : x.in = o.id}
           gone == {o} \cup held \cup {x \in objects : \E h \in held : x.in = h.id}
       IN  objects' = objects \ gone /\ lasting' = lasting \ gone
    /\ changes' = changes + 1 /\ disturbed' = TRUE
    /\ UNCHANGED <<configuration, at, run, lists, loads, lost, outcome, disk, tracked>>
CreateObject(o) ==
    /\ at = "list" /\ changes < MaxChanges
    /\ \A x \in objects \cup listed \cup partial : x.id < o.id
    /\ o.kind \in Seen /\ WellPlaced(o)
    /\ objects' = objects \cup {o}
    /\ changes' = changes + 1 /\ disturbed' = TRUE
    /\ UNCHANGED <<configuration, lasting, at, run, lists, loads, lost, outcome, disk, tracked>>

Next ==
    \/ tfImporterCreate \/ Create
    \/ tfImporterRead \/ ImportStatePassthrough
    \/ tfImporterDelete \/ RemoveState \/ RemoveStateFails
    \/ UserRemovesFolder \/ UserMakesFolder
    \/ \E o \in objects : DeleteObject(o)
    \/ \E o \in Object : CreateObject(o)

\* A handler goes on: requests and the command end with the context of the create.
Fairness == WF_vars(Create) /\ WF_vars(RemoveState \/ RemoveStateFails)
Spec == Init /\ [][Next]_vars /\ Fairness

---------------------------------------------------------------------------
(* Properties.                                                             *)

ValidName(name) ==
    /\ name # <<>> /\ (IsLetter(Head(name)) \/ Head(name) = "importer")
    /\ \A i \in DOMAIN name : IsDigit(name[i]) \/ name[i] \in Range(Lower) \cup {"importer", "_"}

\* Types; every name that is written is one that Terraform accepts.
TypeOK ==
    /\ [keys |-> keys, resources |-> resources] \in Configurations /\ ownPath \in BOOLEAN
    /\ objects \subseteq Object /\ lasting \subseteq objects /\ changes \in 0 .. MaxChanges
    /\ at \in {"idle", "list", "load", "refresh", "folder", "config", "state", "upgrade", "delete"}
    /\ run \in 0 .. MaxRuns /\ tracked \in -1 .. MaxRuns
    /\ todo \subseteq Kinds /\ walk.kind \in Kinds \cup {"none"}
    /\ \A x \in Range(loaded) \cup listed \cup partial : x.kind \in Kinds /\ ValidName(x.name)
    /\ (at = "refresh") = (current # None)
    /\ lost \subseteq {"list", "refused", "principals"} /\ disturbed \in BOOLEAN
    /\ outcome \in {"none", "created", "deleted", "failed", "panic"}
    /\ folder \in BOOLEAN /\ config.run \in 0 .. MaxRuns /\ state.run \in 0 .. MaxRuns
    /\ config # Absent \/ state # Absent => folder

\* Safety: while Terraform tracks a create and its main.tf is there, so is its state
\* file, upgraded, and the two are of that create and have the same addresses: no
\* earlier create that broke off shows, and no half of a destroy.
TrackedFilesAgree ==
    tracked > 0 /\ config # Absent
    => /\ config.run = tracked /\ state.run = tracked /\ state.upgraded
       /\ Range(config.blocks) = {Address(x) : x \in state.entries}

\* Safety: wherever a create breaks off, a state file never lies beside the main.tf of
\* another create.
OneCreateOnDisk == config # Absent /\ state # Absent => config.run = state.run

\* A name that ends with an index of its own.
Indexed(name) == Len(name) > 2 /\ name[Len(name) - 1] = "_" /\ IsDigit(name[Len(name)])

\* Safety: two resource blocks of main.tf have the same address only if the first one of
\* their kind is itself called like a name with an index.
AddressesAreUnique ==
    config # Absent =>
        LET b == config.blocks
        IN  \A i, j \in DOMAIN b : i < j /\ b[i] = b[j]
               => \E k \in 1 .. i : /\ b[k].kind = b[i].kind /\ Indexed(b[k].name)
                                    /\ \A l \in 1 .. k - 1 : b[l].kind # b[k].kind

Twice(block) == \E i, j \in DOMAIN config.blocks : i # j /\ {config.blocks[i], config.blocks[j]} = {block}
\* Safety: a create that succeeds has every instance of the resources asked for that was
\* there all the while, through all levels, in its state file, unless a list failed or
\* was refused, a principal is unknown, or two instances have one address.
CreateIsComplete ==
    outcome = "created" /\ config # Absent /\ lost = {}
    => \A o \in lasting : o.kind \in importers
          => \/ \E x \in state.entries : x.id = o.id
             \/ \E x \in state.entries : x.kind = o.kind /\ Twice(Address(x))

\* Safety: an undisturbed create fails only if resources of two families are asked for,
\* credentials are missing, or there is nothing to import.
FailsForAReason ==
    outcome \in {"failed", "panic"} /\ ~disturbed /\ tracked = 0 /\ run > 0
    => \/ \A f \in DOMAIN Families : ~(importers \subseteq Families[f])
       \/ \E kind \in importers : FamilyOf(kind) \notin keys
       \/ ~\E o \in objects : o.kind \in importers

\* Action: Terraform lets go of a create only when neither file is left.
LetGoMeansGone ==
    [][tracked # 0 /\ tracked' = 0 => config' = Absent /\ state' = Absent]_vars

\* Liveness: every create and every destroy ends.
HandlersEnd == (at # "idle") ~> (at = "idle")
=============================================================================
