-------------------------- MODULE TfImporter_proofs --------------------------
(***************************************************************************)
(* For any number of objects, names, creates and changes by others: what   *)
(* confluent_tf_importer leaves in its folder, and what it misses.         *)
(***************************************************************************)
EXTENDS TfImporter, FiniteSetTheorems, SequenceTheorems, TLAPS

USE DEF Top, Imported, configuration, world, lists, loads, disk

---------------------------------------------------------------------------
(* The inductive invariant.                                                *)

Creating == at \in {"list", "load", "refresh", "folder", "config", "state", "upgrade"}
Reading == at \in {"list", "load", "refresh"}
Writing == at \in {"folder", "config", "state", "upgrade"}

\* The signs of the names that are written.
NameParts == Numbers \cup Range(Lower) \cup {"importer", "_"}
Instances == [id : Ids, kind : Kinds, name : Seq(NameParts)]

\* No instance is loaded twice.
DistinctIds == \A i, j \in DOMAIN loaded : loaded[i].id = loaded[j].id => i = j

\* Where the handler is, and what it holds there.
ControlInv ==
    /\ listed \subseteq Instances /\ partial \subseteq Instances /\ loaded \in Seq(Instances)
    /\ DistinctIds
    /\ walk = NoWalk \/ (walk.kind \in importers /\ walk = [kind |-> walk.kind, places |-> walk.places])
    /\ todo \subseteq importers
    /\ at # "list" => walk = NoWalk /\ todo = {}
    /\ walk = NoWalk => partial = {}
    /\ at \in {"idle", "list", "delete"} => loaded = <<>>
    /\ at \in {"idle", "delete"} => listed = {}
    /\ at = "refresh" => current \in Left
    /\ Creating => tracked = 0 /\ run # 0 /\ outcome = "none"
    /\ at \in {"config", "state", "upgrade"} => folder
    /\ at = "delete" => tracked # 0 /\ config = Absent

\* Of two instances with one address, one is the last.
HasLast ==
    \A i \in DOMAIN loaded : \E j \in DOMAIN loaded :
        /\ Address(loaded[j]) = Address(loaded[i])
        /\ \A k \in DOMAIN loaded : Address(loaded[k]) = Address(loaded[j]) => k <= j

FilesInv ==
    /\ config = Absent \/ (config.run \in 1 .. run /\ config = [run |-> config.run, blocks |-> config.blocks])
    /\ state = Absent \/ (state.run \in 1 .. run /\ state = [run |-> state.run, entries |-> state.entries, upgraded |-> state.upgraded])
    /\ tracked \in {Imported, 0, run}
    /\ at = "config" => config = Absent /\ state = Absent
    /\ at = "state" => state = Absent
    /\ at = "upgrade" => state = [run |-> run, entries |-> Entries, upgraded |-> FALSE]
    /\ at \in {"state", "upgrade"} => config = [run |-> run, blocks |-> Blocks(Len(loaded))]
    /\ OneCreateOnDisk /\ TrackedFilesAgree

\* Every object is held by one of the kind that its kind is held by.
HeldIn(o, some) ==
    IF Holder[o.kind] = "top" THEN o.in = Top
    ELSE \E h \in some : h.id = o.in /\ h.kind = Holder[o.kind]
WorldInv ==
    /\ \A o, x \in objects : o.id = x.id => o = x
    /\ \A o \in objects : HeldIn(o, objects)
    /\ \A o \in lasting : HeldIn(o, lasting)
    /\ \A x \in listed \cup partial : \A o \in objects \cup listed \cup partial :
          o.id = x.id => o.kind = x.kind

Covers(p, o) ==
    \/ p = TopPlace
    \/ o.kind # "schema" /\ p.id = o.in /\ p.kind = Source(o.kind)
    \/ o.kind = "schema" /\ p = Place(o)
    \/ o.kind = "connector" /\ \E c \in lasting : /\ c.id = o.in /\ c.kind = "kafka_cluster"
                                                  /\ p = [id |-> c.in, kind |-> "environment"]
Has(instances, o) == \E x \in instances : x.id = o.id /\ x.kind = o.kind
Listing(o) ==
    \/ o.kind \in todo
    \/ walk.kind = o.kind /\ ((\E p \in walk.places : Covers(p, o)) \/ Has(partial, o))
    \/ Has(listed, o)

Missing == \E kind \in importers : FamilyOf(kind) \notin keys

ListInv ==
    /\ at = "list" /\ lost = {} => \A o \in lasting : o.kind \in importers => Listing(o)
    /\ Creating /\ at # "list" /\ lost = {}
       => \A o \in lasting : o.kind \in importers => Has(listed, o)
    /\ Creating /\ ~disturbed => lasting = objects /\ (lost = {} \/ Missing)
    /\ Reading /\ ~disturbed => \A x \in listed \cup partial : Exists(x.id)
    /\ \A y \in Range(loaded) : \E x \in listed : x.id = y.id /\ x.kind = y.kind
    /\ Writing => Left = {}

IInv == TypeOK /\ ControlInv /\ HasLast /\ FilesInv /\ WorldInv /\ ListInv
        /\ CreateIsComplete /\ FailsForAReason

---------------------------------------------------------------------------
(* Facts about the operators.                                              *)

\* What is asked for is a set of kinds.
LEMMA ImportersAreKinds ==
  ASSUME [keys |-> keys, resources |-> resources] \in Configurations
  PROVE  importers \subseteq Kinds
<1>1. resources \subseteq Kinds
  <2>1. [keys |-> keys, resources |-> resources]
          \in [keys : SUBSET DOMAIN Families, resources : SUBSET Kinds]
    BY ConfigurationsAssumption
  <2> QED BY <2>1
<1>2. Families[importerMode] \subseteq Kinds
  BY DEF Families, importerMode, cloudSupportedImporters, kafkaSupportedImporters,
         schemaRegistrySupportedImporters, Kinds, Holder
<1> QED BY <1>1, <1>2 DEF importers

LEMMA KindsSeen ==
  ASSUME [keys |-> keys, resources |-> resources] \in Configurations
  PROVE  Seen \subseteq Kinds
<1>1. \A kind \in Kinds : Way(kind) \subseteq Kinds
  BY DEF Way, Source, Kinds, Holder
<1> QED BY <1>1, ImportersAreKinds DEF Seen

LEMMA SignType == \A sign : Sign(sign) \in NameParts
<1> SUFFICES ASSUME NEW sign PROVE Sign(sign) \in NameParts
  OBVIOUS
<1>1. CASE IsLetter(sign)
  BY <1>1 DEF Sign, IsLetter, NameParts, Range
<1>2. CASE ~IsLetter(sign)
  BY <1>2 DEF Sign, IsDigit, NameParts
<1> QED BY <1>1, <1>2

LEMMA PartsAreValid ==
  ASSUME NEW name \in Seq(NameParts), name # <<>>, IsLetter(Head(name)) \/ Head(name) = "importer"
  PROVE  ValidName(name)
<1>1. \A i \in DOMAIN name : name[i] \in NameParts
  OBVIOUS
<1> QED BY <1>1 DEF ValidName, NameParts, IsDigit

\* Two signs that are put before or after a name.
LEMMA JoinedParts ==
  ASSUME NEW a \in NameParts, NEW b \in NameParts
  PROVE  <<a, b>> \in Seq(NameParts) /\ Len(<<a, b>>) = 2 /\ <<a, b>>[1] = a /\ <<a, b>>[2] = b
  OBVIOUS

\* toValidTerraformResourceName returns a name that Terraform accepts.
LEMMA NamesAreValid ==
  ASSUME NEW input \in DisplayNames
  PROVE  /\ toValidTerraformResourceName(input) \in Seq(NameParts)
         /\ ValidName(toValidTerraformResourceName(input))
<1>1. input \in Seq(STRING) /\ input # <<>>
  BY NamesAssumption
<1> DEFINE whole == [i \in DOMAIN input |-> Sign(input[i])]
           output == Signs(input)
<1>2. Len(input) \in Nat /\ Len(input) # 0 /\ DOMAIN input = 1 .. Len(input)
  BY <1>1, EmptySeq, LenProperties
<1>3. whole \in [1 .. Len(input) -> NameParts]
  BY <1>2, SignType
<1>4. whole \in Seq(NameParts) /\ Len(whole) = Len(input)
  BY <1>2, <1>3
<1> HIDE DEF whole
<1>5. whole # <<>>
  BY <1>2, <1>4, EmptySeq
<1>6. Tail(whole) \in Seq(NameParts)
  BY <1>4, <1>5, HeadTailProperties
<1>7. output \in Seq(NameParts)
  BY <1>4, <1>6 DEF Signs, whole
<1> HIDE DEF output
<1>8. CASE output = <<>> \/ ~IsLetter(Head(output))
  <2> DEFINE first == <<"importer", "_">>
             name == first \o output
  <2>0. first \in Seq(NameParts) /\ Len(first) = 2 /\ first[1] = "importer"
    BY JoinedParts DEF NameParts
  <2> HIDE DEF first
  <2>1. /\ name \in Seq(NameParts) /\ Len(name) = Len(first) + Len(output)
        /\ \A i \in 1 .. Len(first) + Len(output) :
              name[i] = IF i <= Len(first) THEN first[i] ELSE output[i - Len(first)]
    BY <1>7, <2>0, ConcatProperties
  <2>2. Len(output) \in Nat
    BY <1>7, LenProperties
  <2> HIDE DEF name
  <2>3. name[1] = first[1] /\ Len(name) # 0
    BY <2>0, <2>1, <2>2
  <2>4. name # <<>>
    BY <2>3, EmptySeq
  <2>5. Head(name) = name[1]
    BY <2>1, <2>4
  <2>6. ValidName(name)
    BY <2>0, <2>1, <2>3, <2>4, <2>5, PartsAreValid
  <2> QED BY <1>8, <2>1, <2>6 DEF toValidTerraformResourceName, output, name, first
<1>9. CASE ~(output = <<>> \/ ~IsLetter(Head(output)))
  <2>1. toValidTerraformResourceName(input) = output
    BY <1>9 DEF toValidTerraformResourceName, output
  <2> QED BY <1>7, <1>9, <2>1, PartsAreValid
<1> QED BY <1>8, <1>9

\* A kind has at most as many addresses as instances were loaded.
LEMMA AddressesAreFew ==
  ASSUME NEW S, loaded \in Seq(S), NEW kind
  PROVE  /\ IsFiniteSet(AddressesOf(kind)) /\ Cardinality(AddressesOf(kind)) \in Nat
         /\ Cardinality(AddressesOf(kind)) <= Len(loaded)
<1> DEFINE of == {i \in DOMAIN loaded : loaded[i].kind = kind}
           f == [i \in of |-> Address(loaded[i])]
<1>1. AddressesOf(kind) = {Address(loaded[i]) : i \in of}
  BY DEF AddressesOf, Range
<1>2. f \in Surjection(of, AddressesOf(kind))
  BY <1>1 DEF Surjection
<1>3. Len(loaded) \in Nat /\ DOMAIN loaded = 1 .. Len(loaded)
  OBVIOUS
<1>4. IsFiniteSet(1 .. Len(loaded)) /\ Cardinality(1 .. Len(loaded)) = Len(loaded)
  BY <1>3, FS_Interval
<1>5. IsFiniteSet(of) /\ Cardinality(of) <= Len(loaded) /\ Cardinality(of) \in Nat
  BY <1>3, <1>4, FS_Subset, FS_CardinalityType
<1>6. IsFiniteSet(AddressesOf(kind)) /\ Cardinality(AddressesOf(kind)) <= Cardinality(of)
  BY <1>2, <1>5, FS_Surjection
<1> QED BY <1>3, <1>5, <1>6, FS_CardinalityType

LEMMA SameImporters == UNCHANGED configuration => importers' = importers
  BY DEF importers, importerMode

\* The next instance is not one of those that were loaded: as long as it is so, the
\* index is not greater than the number of ids.
LEMMA IndexBound ==
  ASSUME loaded \in Seq(Instances), DistinctIds, NEW x \in Instances,
         \A y \in Range(loaded) : y.id # x.id
  PROVE  /\ Cardinality(AddressesOf(x.kind)) \in Nat
         /\ Cardinality(AddressesOf(x.kind)) + 1 \in 1 .. Cardinality(Ids)
<1> DEFINE n == Len(loaded)
           f == [i \in 1 .. n |-> loaded[i].id]
           others == Ids \ {x.id}
<1>1. n \in Nat /\ DOMAIN loaded = 1 .. n
  OBVIOUS
<1>2. x.id \in Ids /\ \A i \in 1 .. n : loaded[i].id \in Ids /\ loaded[i].id # x.id
  <2>1. \A y \in Instances : y.id \in Ids
    BY DEF Instances
  <2>2. \A i \in 1 .. n : loaded[i] \in Instances
    BY <1>1
  <2>3. \A i \in 1 .. n : loaded[i] \in Range(loaded)
    BY <1>1 DEF Range
  <2> QED BY <2>1, <2>2, <2>3
<1>3. f \in Injection(1 .. n, others)
  <2>1. f \in [1 .. n -> others]
    BY <1>2
  <2>2. \A i, j \in 1 .. n : f[i] = f[j] => i = j
    BY <1>1 DEF DistinctIds
  <2> HIDE DEF f
  <2> QED BY <2>1, <2>2 DEF Injection, IsInjective
<1>4. /\ IsFiniteSet(others) /\ Cardinality(others) = Cardinality(Ids) - 1
      /\ Cardinality(Ids) \in Nat
  BY <1>2, NumbersAssumption, FS_RemoveElement, FS_CardinalityType
<1>5. IsFiniteSet(1 .. n) /\ Cardinality(1 .. n) = n
  BY <1>1, FS_Interval
<1>6. n <= Cardinality(others)
  BY <1>3, <1>4, <1>5, FS_Injection
<1> HIDE DEF others
<1>7. /\ Cardinality(AddressesOf(x.kind)) \in Nat
      /\ Cardinality(AddressesOf(x.kind)) <= n
  BY AddressesAreFew
<1> QED BY <1>1, <1>4, <1>6, <1>7

\* The name that an instance has in the files is valid as well; all but the first of
\* a kind end with an index.
LEMMA WithIndexType ==
  ASSUME loaded \in Seq(Instances), DistinctIds, NEW x \in Instances, ValidName(x.name),
         \A z \in Range(loaded) : z.id # x.id,
         NEW y, y = WithIndex(x), NEW n, n = Cardinality(AddressesOf(x.kind))
  PROVE  /\ y \in Instances /\ y.id = x.id /\ y.kind = x.kind /\ ValidName(y.name)
         /\ n > 0 => /\ Len(y.name) \in Nat /\ Len(y.name) > 2
                     /\ y.name[Len(y.name) - 1] = "_" /\ y.name[Len(y.name)] = ToString(n + 1)
<1>1. n \in Nat /\ n + 1 \in 1 .. Cardinality(Ids)
  BY IndexBound
<1>2. CASE ~(n > 0)
  <2>1. y = [x EXCEPT !.name = x.name]
    BY <1>2 DEF WithIndex
  <2>2. y = x
    BY <2>1 DEF Instances
  <2> QED BY <1>2, <2>2 DEF Instances
<1>3. CASE n > 0
  <2> DEFINE last == <<"_", ToString(n + 1)>>
             name == x.name \o last
  <2>0. x.name \in Seq(NameParts) /\ x.name # <<>> /\ x.id \in Ids /\ x.kind \in Kinds
    BY DEF ValidName, Instances
  <2>1. last \in Seq(NameParts) /\ Len(last) = 2 /\ last[1] = "_" /\ last[2] = ToString(n + 1)
    <3>1. "_" \in NameParts /\ ToString(n + 1) \in NameParts
      BY <1>1, NumbersAssumption DEF NameParts
    <3> QED BY <3>1, JoinedParts
  <2> HIDE DEF last
  <2>2. y = [x EXCEPT !.name = name]
    BY <1>3 DEF WithIndex, last
  <2>3. /\ name \in Seq(NameParts) /\ Len(name) = Len(x.name) + Len(last)
        /\ \A i \in 1 .. Len(x.name) + Len(last) :
              name[i] = IF i <= Len(x.name) THEN x.name[i] ELSE last[i - Len(x.name)]
    BY <2>0, <2>1, ConcatProperties
  <2>4. Len(x.name) \in Nat \ {0}
    BY <2>0, EmptySeq
  <2> HIDE DEF name
  <2>5. y \in Instances /\ y.id = x.id /\ y.kind = x.kind /\ y.name = name
    BY <2>0, <2>2, <2>3 DEF Instances
  <2>6. \A i \in 1 .. Len(x.name) + 2 :
            name[i] = IF i <= Len(x.name) THEN x.name[i] ELSE last[i - Len(x.name)]
    BY <2>1, <2>3
  <2>7. Len(name) = Len(x.name) + 2
    BY <2>1, <2>3
  <2>8. name # <<>> /\ Head(name) = Head(x.name)
    <3>1. name[1] = x.name[1] /\ Len(name) # 0
      <4>1. 1 \in 1 .. Len(x.name) + 2 /\ 1 <= Len(x.name)
        BY <2>4
      <4>2. name[1] = IF 1 <= Len(x.name) THEN x.name[1] ELSE last[1 - Len(x.name)]
        BY <2>6, <4>1
      <4>3. Len(name) # 0
        BY <2>4, <2>7
      <4> QED BY <4>1, <4>2, <4>3
    <3>2. name # <<>>
      BY <3>1, EmptySeq
    <3>3. Head(name) = name[1] /\ Head(x.name) = x.name[1]
      BY <2>0, <2>3, <3>2
    <3> QED BY <3>1, <3>2, <3>3
  <2>9. ValidName(name)
    BY <2>3, <2>8, PartsAreValid DEF ValidName
  <2>10. Len(name) \in Nat /\ Len(name) > 2
    BY <2>4, <2>7
  <2>11. name[Len(x.name) + 1] = last[1] /\ name[Len(x.name) + 2] = last[2]
    <3> DEFINE m == Len(x.name)
    <3>1. m + 1 \in 1 .. m + 2 /\ m + 2 \in 1 .. m + 2
      BY <2>4
    <3>2. ~(m + 1 <= m) /\ ~(m + 2 <= m) /\ (m + 1) - m = 1 /\ (m + 2) - m = 2
      BY <2>4
    <3>3. /\ name[m + 1] = IF m + 1 <= m THEN x.name[m + 1] ELSE last[(m + 1) - m]
          /\ name[m + 2] = IF m + 2 <= m THEN x.name[m + 2] ELSE last[(m + 2) - m]
      BY <2>6, <3>1
    <3> QED BY <3>2, <3>3
  <2>12. name[Len(name) - 1] = "_" /\ name[Len(name)] = ToString(n + 1)
    <3>1. Len(name) - 1 = Len(x.name) + 1
      BY <2>4, <2>7
    <3> QED BY <2>1, <2>11, <2>7, <3>1
  <2> QED BY <2>5, <2>9, <2>10, <2>12
<1> QED BY <1>1, <1>2, <1>3

---------------------------------------------------------------------------
(* Types and control.                                                      *)

LEMMA InitTypes == Init => TypeOK /\ ControlInv
<1> SUFFICES ASSUME Init PROVE TypeOK /\ ControlInv
  OBVIOUS
<1>1. [keys |-> keys, resources |-> resources] \in Configurations
  BY ConfigurationsAssumption DEF Init
<1>2. objects \subseteq Object
  <2>1. PICK n \in Ids \cup {0} :
               LET ids == {i \in Ids : i <= n}
               IN  \E kind \in [ids -> Seen], in \in [ids -> Ids \cup {Top}],
                      name \in [ids -> DisplayNames] :
                      objects = {[id |-> i, kind |-> kind[i], in |-> in[i], name |-> name[i]] : i \in ids}
    BY DEF Init
  <2> QED BY <1>1, <2>1, KindsSeen DEF Object
<1>3. changes \in 0 .. MaxChanges /\ run \in 0 .. MaxRuns /\ tracked \in -1 .. MaxRuns
  BY BoundsAssumption DEF Init
<1>4. config.run \in 0 .. MaxRuns /\ state.run \in 0 .. MaxRuns
  BY BoundsAssumption DEF Init, Absent
<1>5. Range(loaded) \cup listed \cup partial = {}
  BY DEF Init, Range
<1>6. walk.kind \in Kinds \cup {"none"}
  BY DEF Init, NoWalk
<1>7. TypeOK
  BY <1>1, <1>2, <1>3, <1>4, <1>5, <1>6 DEF Init, TypeOK
<1>8. ControlInv
  BY DEF Init, ControlInv, Creating, DistinctIds
<1> QED BY <1>7, <1>8

\* A create ends: nothing of it is left in memory.
LEMMA EndsTypes ==
  ASSUME TypeOK, ControlInv, NEW how \in {"created", "failed", "panic"}, EndsWith(how),
         disturbed' \in BOOLEAN, folder' \in BOOLEAN, tracked' \in -1 .. MaxRuns,
         config'.run \in 0 .. MaxRuns, state'.run \in 0 .. MaxRuns,
         config' # Absent \/ state' # Absent => folder'
  PROVE  TypeOK' /\ ControlInv'
<1> USE DEF EndsWith
<1>1. (Range(loaded) \cup listed \cup partial)' = {}
  BY DEF Range
<1>2. (walk.kind \in Kinds \cup {"none"})'
  BY DEF NoWalk
<1>3. ((at = "refresh") = (current # None))'
  OBVIOUS
<1>4. TypeOK'
  BY <1>1, <1>2, <1>3 DEF TypeOK
<1>5. ControlInv'
  BY DEF ControlInv, Creating, DistinctIds
<1> QED BY <1>4, <1>5

LEMMA CreateTypes == TypeOK /\ ControlInv /\ tfImporterCreate => TypeOK' /\ ControlInv'
<1> SUFFICES ASSUME TypeOK, ControlInv, tfImporterCreate PROVE TypeOK' /\ ControlInv'
  OBVIOUS
<1> USE DEF tfImporterCreate
<1>1. importers' = importers /\ importers \subseteq Kinds
  BY SameImporters, ImportersAreKinds DEF TypeOK
<1>2. run' \in 1 .. MaxRuns
  BY BoundsAssumption DEF TypeOK
<1>3. TypeOK'
  <2>1. \A x \in (Range(loaded) \cup listed \cup partial)' : x.kind \in Kinds /\ ValidName(x.name)
    BY DEF TypeOK
  <2>2. ((at = "refresh") = (current # None))'
    BY DEF TypeOK
  <2>3. /\ lasting' \subseteq objects' /\ todo' \subseteq Kinds
        /\ at' \in {"idle", "list"} /\ outcome' \in {"none", "failed"}
    BY <1>1 DEF TypeOK
  <2>4. walk'.kind \in Kinds \cup {"none"} /\ tracked' \in -1 .. MaxRuns /\ run' \in 0 .. MaxRuns
    BY <1>2, BoundsAssumption DEF TypeOK
  <2>5. lost' = {} /\ disturbed' \in BOOLEAN /\ UNCHANGED <<configuration, objects, changes, disk>>
    OBVIOUS
  <2> QED BY <2>1, <2>2, <2>3, <2>4, <2>5 DEF TypeOK
<1>4. ControlInv'
  BY <1>1, <1>2 DEF ControlInv, Creating, DistinctIds
<1> QED BY <1>3, <1>4

LEMMA LoadInstancesTypes ==
  ASSUME TypeOK, ControlInv, NEW kind \in todo, LoadInstances(kind)
  PROVE  TypeOK' /\ ControlInv'
<1> USE DEF LoadInstances
<1>1. importers' = importers
  BY SameImporters
<1>2. TypeOK'
  BY DEF TypeOK
<1>3. ControlInv'
  BY <1>1 DEF ControlInv, Creating, DistinctIds
<1> QED BY <1>2, <1>3

LEMMA InstanceType ==
  ASSUME TypeOK, NEW o \in objects
  PROVE  /\ Instance(o) \in Instances /\ Instance(o).id = o.id /\ Instance(o).kind = o.kind
         /\ ValidName(Instance(o).name)
<1>1. o.id \in Ids /\ o.kind \in Kinds /\ o.name \in DisplayNames
  BY DEF TypeOK, Object
<1> QED BY <1>1, NamesAreValid DEF Instance, Instances

LEMMA VisitTypes ==
  ASSUME TypeOK, ControlInv, at = "list", NEW p \in walk.places, NEW known \in SUBSET objects,
         Visit(p, known), lost' \subseteq {"list", "refused", "principals"}, disturbed' \in BOOLEAN
  PROVE  TypeOK' /\ ControlInv'
<1>0. walk # NoWalk
  BY DEF NoWalk
<1>1. importers' = importers /\ importers \subseteq Kinds
  BY SameImporters, ImportersAreKinds DEF TypeOK, Visit
<1> DEFINE there == p.kind = Source(walk.kind)
           ways == IF there THEN {} ELSE {x \in Answer(p) : x.kind \in Way(walk.kind)}
           new == IF there THEN {Instance(x) : x \in {y \in known : y.kind = walk.kind}} ELSE {}
           places == (walk.places \ {p}) \cup {Place(x) : x \in ways}
<1>2. /\ \/ /\ places = {} /\ walk' = NoWalk
            /\ partial' = {} /\ listed' = listed \cup partial \cup new
         \/ /\ places # {} /\ walk' = [walk EXCEPT !.places = places]
            /\ partial' = partial \cup new /\ UNCHANGED listed
      /\ UNCHANGED <<configuration, world, at, run, todo, loads, outcome, disk, tracked>>
  BY DEF Visit
<1>3. \A x \in new : x \in Instances /\ x.kind \in Kinds /\ ValidName(x.name)
  BY InstanceType DEF Instances
<1> HIDE DEF new, places
<1>4. walk' = NoWalk \/ (walk'.kind = walk.kind /\ walk' = [kind |-> walk.kind, places |-> places])
  BY <1>0, <1>2 DEF ControlInv
<1>5. walk'.kind \in Kinds \cup {"none"}
  BY <1>4 DEF TypeOK, NoWalk
<1>6. \A x \in (Range(loaded) \cup listed \cup partial)' : x.kind \in Kinds /\ ValidName(x.name)
  BY <1>2, <1>3 DEF TypeOK
<1>7. TypeOK'
  BY <1>2, <1>5, <1>6 DEF TypeOK
<1>8. walk' = NoWalk => partial' = {}
  BY <1>2, <1>4 DEF NoWalk
<1>9. ControlInv'
  BY <1>0, <1>1, <1>2, <1>3, <1>4, <1>8 DEF ControlInv, Creating, DistinctIds
<1> QED BY <1>7, <1>9

\* The steps that change none of the lists and do not end the create.
LEMMA PlainTypes ==
  ASSUME TypeOK, ControlInv, UNCHANGED <<configuration, run, listed, loaded, tracked>>,
         walk' = walk \/ walk' = NoWalk, todo' \subseteq todo, partial' \subseteq partial,
         at' # "list" => walk' = NoWalk /\ todo' = {}, walk' = NoWalk => partial' = {},
         objects' \subseteq Object, lasting' \subseteq objects', changes' \in 0 .. MaxChanges,
         (at' = "refresh") = (current' # None), at' = "refresh" => current' \in Left,
         at' \in {"list", "load", "refresh", "folder", "config", "state", "upgrade"},
         at' = "list" => at = "list", Creating, outcome' = outcome,
         lost' \subseteq {"list", "refused", "principals"}, disturbed' \in BOOLEAN,
         folder' \in BOOLEAN, config'.run \in 0 .. MaxRuns, state'.run \in 0 .. MaxRuns,
         config' # Absent \/ state' # Absent \/ at' \in {"config", "state", "upgrade"} => folder'
  PROVE  TypeOK' /\ ControlInv'
<1>1. importers' = importers /\ Left' = Left
  BY SameImporters DEF Left
<1>2. \A x \in (Range(loaded) \cup listed \cup partial)' : x.kind \in Kinds /\ ValidName(x.name)
  BY DEF TypeOK
<1>3. walk'.kind \in Kinds \cup {"none"}
  BY DEF TypeOK, NoWalk
<1>4. TypeOK'
  BY <1>2, <1>3 DEF TypeOK
<1>5. ControlInv'
  BY <1>1 DEF ControlInv, Creating, DistinctIds
<1> QED BY <1>4, <1>5

LEMMA ListTypes ==
  TypeOK /\ ControlInv /\ (ListFails \/ ListsEnd \/ \E x \in listed : ImportInstance(x))
  => TypeOK' /\ ControlInv'
<1>1. ASSUME TypeOK, ControlInv, ListFails PROVE TypeOK' /\ ControlInv'
  <2>1. Creating
    BY <1>1 DEF ListFails, Creating
  <2> QED BY <1>1, <2>1, PlainTypes DEF ListFails, TypeOK
<1>2. ASSUME TypeOK, ControlInv, ListsEnd PROVE TypeOK' /\ ControlInv'
  <2>1. Creating
    BY <1>2 DEF ListsEnd, Creating
  <2>2. partial = {}
    BY <1>2 DEF ListsEnd, ControlInv
  <2> QED BY <1>2, <2>1, <2>2, PlainTypes DEF ListsEnd, TypeOK
<1>3. ASSUME TypeOK, ControlInv, NEW x \in listed, ImportInstance(x) PROVE TypeOK' /\ ControlInv'
  <2>1. Creating
    BY <1>3 DEF ImportInstance, Creating
  <2>2. x # None
    <3>1. x.id \in Ids /\ 0 \notin Ids
      BY <1>3, IdsAssumption DEF ControlInv, Instances
    <3> QED BY <3>1 DEF None
  <2> QED BY <1>3, <2>1, <2>2, PlainTypes DEF ImportInstance, TypeOK, ControlInv
<1> QED BY <1>1, <1>2, <1>3

\* The instance that is appended.
LEMMA RefreshAppends ==
  ASSUME TypeOK, ControlInv, RefreshInstance
  PROVE  \E x \in listed, y \in Instances :
            /\ x \in Instances /\ ValidName(x.name) /\ \A z \in Range(loaded) : z.id # x.id
            /\ y = WithIndex(x) /\ y.id = x.id /\ y.kind = x.kind /\ ValidName(y.name)
            /\ loaded' = Append(loaded, y) /\ loaded' \in Seq(Instances)
            /\ DOMAIN loaded = 1 .. Len(loaded) /\ DOMAIN loaded' = 1 .. Len(loaded) + 1
            /\ Len(loaded) \in Nat /\ loaded'[Len(loaded) + 1] = y
            /\ \A i \in 1 .. Len(loaded) : loaded'[i] = loaded[i]
            /\ Range(loaded') \subseteq Range(loaded) \cup {y}
<1>1. PICK x \in listed : x = current /\ x \in Instances /\ \A z \in Range(loaded) : z.id # x.id
  BY DEF RefreshInstance, ControlInv, Left
<1>2. PICK y : y = WithIndex(x)
  OBVIOUS
<1>3. loaded' = Append(loaded, y) /\ loaded \in Seq(Instances) /\ DistinctIds /\ ValidName(x.name)
  BY <1>1, <1>2 DEF RefreshInstance, ControlInv, TypeOK
<1>4. y \in Instances /\ y.id = x.id /\ y.kind = x.kind /\ ValidName(y.name)
  BY <1>1, <1>2, <1>3, WithIndexType
<1>5. /\ Len(loaded) \in Nat /\ DOMAIN loaded = 1 .. Len(loaded)
      /\ DOMAIN loaded' = 1 .. Len(loaded) + 1 /\ loaded'[Len(loaded) + 1] = y
      /\ loaded' \in Seq(Instances)
      /\ \A i \in 1 .. Len(loaded) : loaded'[i] = loaded[i]
  BY <1>3, <1>4
<1>6. Range(loaded') \subseteq Range(loaded) \cup {y}
  BY <1>5 DEF Range
<1> QED BY <1>1, <1>2, <1>3, <1>4, <1>5, <1>6

LEMMA RefreshTypes == TypeOK /\ ControlInv /\ RefreshInstance => TypeOK' /\ ControlInv'
<1> SUFFICES ASSUME TypeOK, ControlInv, RefreshInstance PROVE TypeOK' /\ ControlInv'
  OBVIOUS
<1> USE DEF RefreshInstance
<1>1. importers' = importers
  BY SameImporters
<1>2. PICK x \in listed, y \in Instances :
            /\ \A z \in Range(loaded) : z.id # x.id
            /\ y.id = x.id /\ ValidName(y.name) /\ loaded' \in Seq(Instances)
            /\ DOMAIN loaded = 1 .. Len(loaded) /\ DOMAIN loaded' = 1 .. Len(loaded) + 1
            /\ Len(loaded) \in Nat /\ loaded'[Len(loaded) + 1] = y
            /\ \A i \in 1 .. Len(loaded) : loaded'[i] = loaded[i]
            /\ Range(loaded') \subseteq Range(loaded) \cup {y}
  BY RefreshAppends
<1>3. \A z \in (Range(loaded) \cup listed \cup partial)' : z.kind \in Kinds /\ ValidName(z.name)
  BY <1>2 DEF TypeOK, Instances
<1>4. TypeOK'
  BY <1>3 DEF TypeOK
<1>5. DistinctIds'
  <2>1. \A i \in 1 .. Len(loaded) : loaded[i].id # y.id
    BY <1>2 DEF Range
  <2>2. \A i \in 1 .. Len(loaded) + 1 : i \in 1 .. Len(loaded) \/ i = Len(loaded) + 1
    BY <1>2
  <2> QED BY <1>2, <2>1, <2>2 DEF ControlInv, DistinctIds
<1>6. ControlInv'
  BY <1>1, <1>2, <1>5 DEF ControlInv, Creating, DistinctIds
<1> QED BY <1>4, <1>6

LEMMA WriteTypes ==
  TypeOK /\ ControlInv /\ (setupOutputFolder \/ writeHclConfig \/ writeTfState)
  => TypeOK' /\ ControlInv'
<1> USE DEF Absent
<1>1. ASSUME TypeOK, ControlInv, setupOutputFolder PROVE TypeOK' /\ ControlInv'
  <2>1. Creating
    BY <1>1 DEF setupOutputFolder, Creating
  <2> QED BY <1>1, <2>1, PlainTypes, BoundsAssumption
          DEF setupOutputFolder, createOrRecreateDirectory, TypeOK, ControlInv
<1>2. ASSUME TypeOK, ControlInv, writeHclConfig PROVE TypeOK' /\ ControlInv'
  <2>1. Creating
    BY <1>2 DEF writeHclConfig, Creating
  <2> QED BY <1>2, <2>1, PlainTypes DEF writeHclConfig, TypeOK, ControlInv
<1>3. ASSUME TypeOK, ControlInv, writeTfState PROVE TypeOK' /\ ControlInv'
  <2>1. Creating
    BY <1>3 DEF writeTfState, Creating
  <2> QED BY <1>3, <2>1, PlainTypes DEF writeTfState, TypeOK, ControlInv
<1> QED BY <1>1, <1>2, <1>3

LEMMA PlaceTypes ==
  ASSUME TypeOK, ControlInv, NEW p \in walk.places,
         \/ ListPlace(p) \/ ConnectorsRefused(p)
         \/ \E known \in SUBSET In(p.id) : ListKnownAcls(p, known)
  PROVE  TypeOK' /\ ControlInv'
<1>1. CASE ListPlace(p)
  BY <1>1, VisitTypes DEF ListPlace, Answer, In, TypeOK
<1>2. CASE ConnectorsRefused(p)
  BY <1>2, VisitTypes DEF ConnectorsRefused, TypeOK
<1>3. ASSUME NEW known \in SUBSET In(p.id), ListKnownAcls(p, known) PROVE TypeOK' /\ ControlInv'
  BY <1>3, VisitTypes DEF ListKnownAcls, In, TypeOK
<1> QED BY <1>1, <1>2, <1>3

LEMMA EndTypes ==
  /\ TypeOK /\ ControlInv
  /\ \/ RefreshPanics \/ LoadsEnd \/ FolderBreaksOff
     \/ \E n \in 0 .. Len(loaded) : ConfigBreaksOff(n)
     \/ StateBreaksOff \/ ReplaceProvider
     \/ \E upgraded \in BOOLEAN : ReplaceProviderFails(upgraded)
     \/ CreateFails
  => TypeOK' /\ ControlInv'
<1> SUFFICES ASSUME TypeOK, ControlInv PROVE
       \/ RefreshPanics \/ LoadsEnd \/ FolderBreaksOff
       \/ \E n \in 0 .. Len(loaded) : ConfigBreaksOff(n)
       \/ StateBreaksOff \/ ReplaceProvider
       \/ \E upgraded \in BOOLEAN : ReplaceProviderFails(upgraded)
       \/ CreateFails
       => TypeOK' /\ ControlInv'
  OBVIOUS
<1>0. /\ disturbed \in BOOLEAN /\ folder \in BOOLEAN /\ tracked \in -1 .. MaxRuns
      /\ config.run \in 0 .. MaxRuns /\ state.run \in 0 .. MaxRuns /\ run \in 0 .. MaxRuns
      /\ (config # Absent \/ state # Absent => folder) /\ Absent.run \in 0 .. MaxRuns
  BY BoundsAssumption DEF TypeOK, Absent
<1>1. CASE RefreshPanics
  BY <1>0, <1>1, EndsTypes DEF RefreshPanics
<1>2. CASE LoadsEnd
  <2>1. CASE EndsWith("failed")
    BY <1>0, <1>2, <2>1, EndsTypes DEF LoadsEnd
  <2>2. CASE ~EndsWith("failed")
    <3>1. Creating /\ current = None /\ partial = {} /\ walk = NoWalk /\ todo = {}
      BY <1>2 DEF LoadsEnd, Creating, TypeOK, ControlInv
    <3> QED BY <1>0, <1>2, <2>2, <3>1, PlainTypes DEF LoadsEnd, TypeOK
  <2> QED BY <2>1, <2>2
<1>3. CASE FolderBreaksOff
  <2>1. folder' \in BOOLEAN /\ (config' # Absent \/ state' # Absent => folder')
    BY <1>3 DEF FolderBreaksOff
  <2> QED BY <1>0, <1>3, <2>1, EndsTypes DEF FolderBreaksOff
<1>4. ASSUME NEW n \in 0 .. Len(loaded), ConfigBreaksOff(n) PROVE TypeOK' /\ ControlInv'
  <2>1. folder /\ config'.run \in 0 .. MaxRuns
    BY <1>0, <1>4 DEF ConfigBreaksOff, ControlInv
  <2> QED BY <1>0, <1>4, <2>1, EndsTypes DEF ConfigBreaksOff
<1>5. CASE StateBreaksOff
  <2>1. folder /\ state'.run \in 0 .. MaxRuns
    BY <1>0, <1>5 DEF StateBreaksOff, ControlInv
  <2> QED BY <1>0, <1>5, <2>1, EndsTypes DEF StateBreaksOff
<1>6. CASE ReplaceProvider
  <2>1. folder /\ state'.run \in 0 .. MaxRuns
    BY <1>0, <1>6 DEF ReplaceProvider, ControlInv
  <2>2. tracked' \in -1 .. MaxRuns
    BY <1>0, <1>6 DEF ReplaceProvider
  <2> QED BY <1>0, <1>6, <2>1, <2>2, EndsTypes DEF ReplaceProvider
<1>7. ASSUME NEW upgraded \in BOOLEAN, ReplaceProviderFails(upgraded) PROVE TypeOK' /\ ControlInv'
  <2>1. folder /\ state'.run \in 0 .. MaxRuns
    BY <1>0, <1>7 DEF ReplaceProviderFails, ControlInv
  <2> QED BY <1>0, <1>7, <2>1, EndsTypes DEF ReplaceProviderFails
<1>8. CASE CreateFails
  BY <1>0, <1>8, EndsTypes DEF CreateFails
<1> QED BY <1>1, <1>2, <1>3, <1>4, <1>5, <1>6, <1>7, <1>8

\* The steps between two creates.
LEMMA IdleTypes ==
  ASSUME TypeOK, ControlInv, at \in {"idle", "delete"}, at' \in {"idle", "delete"},
         UNCHANGED <<configuration, world, run, lists, loads, lost, disturbed>>,
         outcome' \in {"none", "created", "deleted", "failed", "panic"},
         folder' \in BOOLEAN, tracked' \in -1 .. MaxRuns,
         config'.run \in 0 .. MaxRuns, state'.run \in 0 .. MaxRuns,
         config' # Absent \/ state' # Absent => folder',
         at' = "delete" => tracked' # 0 /\ config' = Absent
  PROVE  TypeOK' /\ ControlInv'
<1>1. importers' = importers
  BY SameImporters
<1>2. \A x \in (Range(loaded) \cup listed \cup partial)' : x.kind \in Kinds /\ ValidName(x.name)
  BY DEF TypeOK
<1>3. TypeOK'
  BY <1>2 DEF TypeOK
<1>4. ControlInv'
  BY <1>1 DEF ControlInv, Creating, DistinctIds
<1> QED BY <1>3, <1>4

LEMMA OtherHandlersTypes ==
  /\ TypeOK /\ ControlInv
  /\ \/ tfImporterRead \/ ImportStatePassthrough
     \/ tfImporterDelete \/ RemoveState \/ RemoveStateFails
     \/ UserRemovesFolder \/ UserMakesFolder
  => TypeOK' /\ ControlInv'
<1> SUFFICES ASSUME TypeOK, ControlInv PROVE
       \/ tfImporterRead \/ ImportStatePassthrough
       \/ tfImporterDelete \/ RemoveState \/ RemoveStateFails
       \/ UserRemovesFolder \/ UserMakesFolder
       => TypeOK' /\ ControlInv'
  OBVIOUS
<1>0. /\ folder \in BOOLEAN /\ tracked \in -1 .. MaxRuns /\ 0 \in -1 .. MaxRuns
      /\ -1 \in -1 .. MaxRuns
      /\ config.run \in 0 .. MaxRuns /\ state.run \in 0 .. MaxRuns
      /\ (config # Absent \/ state # Absent => folder) /\ Absent.run \in 0 .. MaxRuns
      /\ outcome \in {"none", "created", "deleted", "failed", "panic"}
  BY BoundsAssumption DEF TypeOK, Absent
<1>1. CASE tfImporterRead
  BY <1>0, <1>1, IdleTypes DEF tfImporterRead
<1>2. CASE ImportStatePassthrough
  BY <1>0, <1>2, IdleTypes DEF ImportStatePassthrough
<1>3. CASE tfImporterDelete
  BY <1>0, <1>3, IdleTypes DEF tfImporterDelete
<1>4. CASE RemoveState
  BY <1>0, <1>4, IdleTypes DEF RemoveState, ControlInv
<1>5. CASE RemoveStateFails
  BY <1>0, <1>5, IdleTypes DEF RemoveStateFails
<1>6. CASE UserRemovesFolder
  BY <1>0, <1>6, IdleTypes DEF UserRemovesFolder
<1>7. CASE UserMakesFolder
  BY <1>0, <1>7, IdleTypes DEF UserMakesFolder
<1> QED BY <1>1, <1>2, <1>3, <1>4, <1>5, <1>6, <1>7

LEMMA ObjectsTypes ==
  /\ TypeOK /\ ControlInv
  /\ (\E o \in objects : DeleteObject(o)) \/ (\E o \in Object : CreateObject(o))
  => TypeOK' /\ ControlInv'
<1> SUFFICES ASSUME TypeOK, ControlInv PROVE
       (\E o \in objects : DeleteObject(o)) \/ (\E o \in Object : CreateObject(o))
       => TypeOK' /\ ControlInv'
  OBVIOUS
<1>0. changes \in Nat /\ MaxChanges \in Nat
  BY BoundsAssumption DEF TypeOK
<1>1. ASSUME NEW o \in objects, DeleteObject(o) PROVE TypeOK' /\ ControlInv'
  <2>1. Creating /\ changes' \in 0 .. MaxChanges
    BY <1>0, <1>1 DEF DeleteObject, Creating
  <2>2. objects' \subseteq objects /\ lasting' \subseteq objects'
    BY <1>1 DEF DeleteObject, TypeOK
  <2> QED BY <1>1, <2>1, <2>2, PlainTypes DEF DeleteObject, TypeOK, ControlInv
<1>2. ASSUME NEW o \in Object, CreateObject(o) PROVE TypeOK' /\ ControlInv'
  <2>1. Creating /\ changes' \in 0 .. MaxChanges
    BY <1>0, <1>2 DEF CreateObject, Creating
  <2>2. objects' \subseteq Object /\ lasting' \subseteq objects'
    BY <1>2 DEF CreateObject, TypeOK
  <2> QED BY <1>2, <2>1, <2>2, PlainTypes DEF CreateObject, TypeOK, ControlInv
<1> QED BY <1>1, <1>2

LEMMA NextTypes == TypeOK /\ ControlInv /\ [Next]_vars => TypeOK' /\ ControlInv'
<1>1. ASSUME TypeOK, ControlInv, UNCHANGED vars PROVE TypeOK' /\ ControlInv'
  <2>1. importers' = importers /\ Left' = Left
    BY <1>1, SameImporters DEF vars, Left
  <2>2. \A x \in (Range(loaded) \cup listed \cup partial)' : x.kind \in Kinds /\ ValidName(x.name)
    BY <1>1 DEF vars, TypeOK
  <2>3. TypeOK'
    BY <1>1, <2>2 DEF vars, TypeOK
  <2>4. ControlInv'
    BY <1>1, <2>1 DEF vars, ControlInv, Creating, DistinctIds
  <2> QED BY <2>3, <2>4
<1>2. ASSUME TypeOK, ControlInv, Create PROVE TypeOK' /\ ControlInv'
  BY <1>2, LoadInstancesTypes, PlaceTypes, ListTypes, RefreshTypes, WriteTypes, EndTypes
  DEF Create
<1>3. ASSUME TypeOK, ControlInv, Next PROVE TypeOK' /\ ControlInv'
  BY <1>2, <1>3, CreateTypes, OtherHandlersTypes, ObjectsTypes DEF Next
<1> QED BY <1>1, <1>3

---------------------------------------------------------------------------
(* The files.                                                              *)

LEMMA AppendHasLast == TypeOK /\ ControlInv /\ HasLast /\ RefreshInstance => HasLast'
<1> SUFFICES ASSUME TypeOK, ControlInv, HasLast, RefreshInstance PROVE HasLast'
  OBVIOUS
<1> DEFINE n == Len(loaded)
<1>3. PICK y \in Instances :
            /\ n \in Nat /\ DOMAIN loaded = 1 .. n /\ DOMAIN loaded' = 1 .. n + 1
            /\ loaded'[n + 1] = y /\ \A i \in 1 .. n : loaded'[i] = loaded[i]
  BY RefreshAppends
<1> HIDE DEF n
<1> DEFINE Last(f, j) == \A k \in DOMAIN f : Address(f[k]) = Address(f[j]) => k <= j
<1>4. Last(loaded', n + 1)
  BY <1>3
<1>5. ASSUME NEW i \in 1 .. n
      PROVE  \E j \in DOMAIN loaded' : Address(loaded'[j]) = Address(loaded'[i]) /\ Last(loaded', j)
  <2>1. CASE Address(y) = Address(loaded[i])
    <3>1. n + 1 \in DOMAIN loaded' /\ Address(loaded'[n + 1]) = Address(loaded'[i])
      BY <1>3, <2>1
    <3> QED BY <1>4, <3>1
  <2>2. CASE Address(y) # Address(loaded[i])
    <3>1. PICK j \in 1 .. n : Address(loaded[j]) = Address(loaded[i]) /\ Last(loaded, j)
      BY <1>3 DEF HasLast
    <3>2. j \in DOMAIN loaded' /\ Address(loaded'[j]) = Address(loaded'[i])
      BY <1>3, <3>1
    <3>3. ASSUME NEW k \in DOMAIN loaded', Address(loaded'[k]) = Address(loaded'[j]) PROVE k <= j
      <4>1. k # n + 1
        BY <1>3, <2>2, <3>1, <3>3
      <4>2. k \in 1 .. n
        BY <1>3, <4>1
      <4> QED BY <1>3, <3>1, <3>3, <4>2
    <3> QED BY <3>2, <3>3
  <2> QED BY <2>1, <2>2
<1>6. \E j \in DOMAIN loaded' : Address(loaded'[j]) = Address(loaded'[n + 1]) /\ Last(loaded', j)
  <2>1. n + 1 \in DOMAIN loaded'
    BY <1>3
  <2> QED BY <1>4, <2>1
<1>7. \A i \in DOMAIN loaded' : i \in 1 .. n \/ i = n + 1
  BY <1>3
<1> QED BY <1>5, <1>6, <1>7 DEF HasLast, Address

\* The state file has the addresses of all the blocks.
LEMMA BlocksAreEntries ==
  ASSUME HasLast, loaded \in Seq(Instances)
  PROVE  Range(Blocks(Len(loaded))) = {Address(x) : x \in Entries}
<1>1. DOMAIN loaded = 1 .. Len(loaded)
  OBVIOUS
<1>2. Range(Blocks(Len(loaded))) = {Address(loaded[i]) : i \in DOMAIN loaded}
  BY <1>1 DEF Blocks, Range
<1>3. ASSUME NEW i \in DOMAIN loaded PROVE \E x \in Entries : Address(x) = Address(loaded[i])
  BY DEF HasLast, Entries
<1>4. ASSUME NEW x \in Entries PROVE \E i \in DOMAIN loaded : x = loaded[i]
  BY DEF Entries
<1> QED BY <1>2, <1>3, <1>4

LEMMA FilesStay ==
  ASSUME FilesInv, UNCHANGED <<config, state, run, tracked>>,
         at' \notin {"config", "state", "upgrade"}
  PROVE  FilesInv'
  BY DEF FilesInv, OneCreateOnDisk, TrackedFilesAgree

LEMMA InitFiles == Init => HasLast /\ FilesInv
<1> SUFFICES ASSUME Init PROVE HasLast /\ FilesInv
  OBVIOUS
<1>1. HasLast
  BY DEF Init, HasLast
<1>2. FilesInv
  BY DEF Init, FilesInv, OneCreateOnDisk, TrackedFilesAgree
<1> QED BY <1>1, <1>2

LEMMA CreateFiles ==
  ASSUME TypeOK, ControlInv, HasLast, FilesInv, Create
  PROVE  FilesInv'
<1>0. /\ run \in Nat /\ (Creating => run # 0 /\ tracked = 0)
  BY DEF TypeOK, ControlInv
<1>1. CASE \/ \E kind \in todo : LoadInstances(kind)
           \/ \E p \in walk.places : \/ ListPlace(p) \/ ConnectorsRefused(p)
                                     \/ \E known \in SUBSET In(p.id) : ListKnownAcls(p, known)
           \/ ListFails \/ ListsEnd
  BY <1>1, FilesStay
  DEF LoadInstances, ListPlace, ConnectorsRefused, ListKnownAcls, Visit, ListFails, ListsEnd
<1>2. CASE \/ \E x \in listed : ImportInstance(x)
           \/ RefreshInstance \/ RefreshPanics \/ LoadsEnd \/ CreateFails
  BY <1>2, FilesStay
  DEF ImportInstance, RefreshInstance, RefreshPanics, LoadsEnd, CreateFails, EndsWith
<1>3. CASE setupOutputFolder
  BY <1>3 DEF setupOutputFolder, createOrRecreateDirectory, FilesInv, OneCreateOnDisk,
              TrackedFilesAgree
<1>4. CASE FolderBreaksOff
  <2>1. tracked = 0 /\ at' = "idle" /\ UNCHANGED <<run, tracked>>
    BY <1>0, <1>4 DEF FolderBreaksOff, EndsWith, Creating
  <2>2. config' \in {config, Absent} /\ state' \in {state, Absent}
    BY <1>4 DEF FolderBreaksOff
  <2> QED BY <2>1, <2>2 DEF FilesInv, OneCreateOnDisk, TrackedFilesAgree
<1>5. CASE writeHclConfig
  <2>1. run # 0 /\ tracked = 0 /\ state = Absent /\ at' = "state"
        /\ UNCHANGED <<run, tracked, state, loaded>>
    BY <1>0, <1>5 DEF writeHclConfig, Creating, FilesInv
  <2>2. config' = [run |-> run, blocks |-> Blocks(Len(loaded))]
    BY <1>5 DEF writeHclConfig
  <2>3. (Blocks(Len(loaded)))' = Blocks(Len(loaded))
    BY <2>1 DEF Blocks
  <2> QED BY <1>0, <2>1, <2>2, <2>3 DEF FilesInv, OneCreateOnDisk, TrackedFilesAgree
<1>6. ASSUME NEW n \in 0 .. Len(loaded), ConfigBreaksOff(n) PROVE FilesInv'
  <2>1. run # 0 /\ tracked = 0 /\ state = Absent /\ at' = "idle"
        /\ UNCHANGED <<run, tracked, state>>
    BY <1>0, <1>6 DEF ConfigBreaksOff, EndsWith, Creating, FilesInv
  <2>2. config' = [run |-> run, blocks |-> Blocks(n)]
    BY <1>6 DEF ConfigBreaksOff
  <2> QED BY <1>0, <2>1, <2>2 DEF FilesInv, OneCreateOnDisk, TrackedFilesAgree
<1>7. CASE writeTfState
  <2>1. run # 0 /\ tracked = 0 /\ at' = "upgrade" /\ UNCHANGED <<run, tracked, config, loaded>>
        /\ config = [run |-> run, blocks |-> Blocks(Len(loaded))]
    BY <1>0, <1>7 DEF writeTfState, Creating, FilesInv
  <2>2. state' = [run |-> run, entries |-> Entries, upgraded |-> FALSE]
    BY <1>7 DEF writeTfState
  <2>3. (Blocks(Len(loaded)))' = Blocks(Len(loaded)) /\ Entries' = Entries
    BY <2>1 DEF Blocks, Entries
  <2> QED BY <1>0, <2>1, <2>2, <2>3 DEF FilesInv, OneCreateOnDisk, TrackedFilesAgree
<1>8. CASE StateBreaksOff
  <2>1. run # 0 /\ tracked = 0 /\ at' = "idle" /\ UNCHANGED <<run, tracked, config>>
        /\ config = [run |-> run, blocks |-> Blocks(Len(loaded))]
    BY <1>0, <1>8 DEF StateBreaksOff, EndsWith, Creating, FilesInv
  <2>2. state' = [run |-> run, entries |-> {}, upgraded |-> FALSE]
    BY <1>8 DEF StateBreaksOff
  <2> QED BY <1>0, <2>1, <2>2 DEF FilesInv, OneCreateOnDisk, TrackedFilesAgree
<1>9. ASSUME at = "upgrade", NEW upgraded \in BOOLEAN,
             state' = [state EXCEPT !.upgraded = upgraded],
             at' = "idle", UNCHANGED <<run, config>>, tracked' = 0 \/ (tracked' = run /\ upgraded)
      PROVE  FilesInv'
  <2>1. /\ config = [run |-> run, blocks |-> Blocks(Len(loaded))]
        /\ state = [run |-> run, entries |-> Entries, upgraded |-> FALSE] /\ run # 0
    BY <1>0, <1>9 DEF Creating, FilesInv
  <2>2. state' = [run |-> run, entries |-> Entries, upgraded |-> upgraded]
    BY <1>9, <2>1
  <2>3. Range(config.blocks) = {Address(x) : x \in Entries}
    BY <2>1, BlocksAreEntries DEF ControlInv
  <2>4. TrackedFilesAgree'
    BY <1>9, <2>1, <2>2, <2>3 DEF TrackedFilesAgree, Address
  <2> QED BY <1>0, <1>9, <2>1, <2>2, <2>4 DEF FilesInv, OneCreateOnDisk
<1>10. CASE ReplaceProvider
  BY <1>9, <1>10 DEF ReplaceProvider, EndsWith
<1>11. ASSUME NEW upgraded \in BOOLEAN, ReplaceProviderFails(upgraded) PROVE FilesInv'
  BY <1>0, <1>9, <1>11 DEF ReplaceProviderFails, EndsWith, Creating
<1> QED BY <1>1, <1>2, <1>3, <1>4, <1>5, <1>6, <1>7, <1>8, <1>10, <1>11 DEF Create

LEMMA NextFiles ==
  TypeOK /\ ControlInv /\ HasLast /\ FilesInv /\ [Next]_vars => HasLast' /\ FilesInv'
<1> SUFFICES ASSUME TypeOK, ControlInv, HasLast, FilesInv, [Next]_vars PROVE HasLast' /\ FilesInv'
  OBVIOUS
<1>1. HasLast'
  <2>1. CASE RefreshInstance
    BY <2>1, AppendHasLast
  <2>2. CASE loaded' = loaded
    BY <2>2 DEF HasLast
  <2>3. CASE loaded' = <<>>
    BY <2>3 DEF HasLast
  <2>4. Create => RefreshInstance \/ loaded' = loaded \/ loaded' = <<>>
    BY DEF Create, LoadInstances, ListPlace, ConnectorsRefused, ListKnownAcls, Visit, ListFails,
       ListsEnd, ImportInstance, RefreshPanics, LoadsEnd, CreateFails, setupOutputFolder,
       FolderBreaksOff, writeHclConfig, ConfigBreaksOff, writeTfState, StateBreaksOff,
       ReplaceProvider, ReplaceProviderFails, EndsWith
  <2>5. CASE UNCHANGED vars
    BY <2>2, <2>5 DEF vars
  <2>6. Next => Create \/ loaded' = loaded
    BY DEF Next, tfImporterCreate, tfImporterRead, ImportStatePassthrough, tfImporterDelete,
       RemoveState, RemoveStateFails, UserRemovesFolder, UserMakesFolder, DeleteObject,
       CreateObject
  <2> QED BY <2>1, <2>2, <2>3, <2>4, <2>5, <2>6
<1>2. FilesInv'
  <2>0. run \in Nat /\ (Creating => tracked = 0)
    BY DEF TypeOK, ControlInv
  <2>1. CASE Create
    BY <2>1, CreateFiles
  <2>2. CASE tfImporterCreate
    <3>1. /\ run' = run + 1 /\ tracked' = 0 /\ UNCHANGED <<config, state>>
          /\ at' \in {"idle", "list"}
      BY <2>2 DEF tfImporterCreate
    <3> QED BY <2>0, <3>1 DEF FilesInv, OneCreateOnDisk, TrackedFilesAgree
  <2>3. CASE tfImporterRead \/ ImportStatePassthrough
    BY <2>3 DEF tfImporterRead, ImportStatePassthrough, FilesInv, OneCreateOnDisk,
                TrackedFilesAgree
  <2>4. CASE tfImporterDelete
    BY <2>4 DEF tfImporterDelete, FilesInv, OneCreateOnDisk, TrackedFilesAgree
  <2>5. CASE RemoveState
    BY <2>5 DEF RemoveState, ControlInv, FilesInv, OneCreateOnDisk, TrackedFilesAgree
  <2>6. CASE RemoveStateFails
    BY <2>6, FilesStay DEF RemoveStateFails
  <2>7. CASE UserRemovesFolder
    BY <2>7 DEF UserRemovesFolder, FilesInv, OneCreateOnDisk, TrackedFilesAgree
  <2>8. CASE UserMakesFolder
    BY <2>8, FilesStay DEF UserMakesFolder
  <2>9. CASE (\E o \in objects : DeleteObject(o)) \/ (\E o \in Object : CreateObject(o))
    BY <2>9, FilesStay DEF DeleteObject, CreateObject
  <2>10. CASE UNCHANGED vars
    BY <2>10 DEF vars, FilesInv, OneCreateOnDisk, TrackedFilesAgree, Blocks, Entries
  <2> QED BY <2>1, <2>2, <2>3, <2>4, <2>5, <2>6, <2>7, <2>8, <2>9, <2>10 DEF Next
<1> QED BY <1>1, <1>2

---------------------------------------------------------------------------
(* What exists, and what is listed.                                        *)

LEMMA Holders ==
  /\ Holder["environment"] = "top" /\ Holder["kafka_cluster"] = "environment"
  /\ Holder["connector"] = "kafka_cluster" /\ Holder["schema"] = "top"
  /\ \A kind \in Kinds : \/ kind \in {"environment", "kafka_cluster", "connector", "schema"}
                          \/ Holder[kind] = "top"
  /\ "top" \notin Kinds /\ "none" \notin Kinds
  BY DEF Holder, Kinds

LEMMA IdType ==
  ASSUME objects \subseteq Object, NEW o \in objects
  PROVE  o.id \in Ids /\ o.id \in Nat /\ o.id # 0 /\ o.kind \in Kinds
<1>1. o.id \in Ids /\ o.kind \in Kinds
  BY DEF Object
<1> QED BY <1>1, IdsAssumption

LEMMA WellPlacedIsHeld ==
  ASSUME objects \subseteq Object, NEW o \in Object, WellPlaced(o)
  PROVE  HeldIn(o, objects)
<1>0. o.kind \in Kinds
  BY DEF Object
<1>1. CASE o.in = Top
  <2>1. Holder[o.kind] = "top"
    BY <1>1 DEF WellPlaced, KindOf
  <2> QED BY <1>1, <2>1 DEF HeldIn
<1>2. CASE o.in # Top
  <2>1. \E h \in objects : h.id = o.in
    BY <1>2 DEF WellPlaced, Exists
  <2>2. PICK h \in objects : h.id = o.in /\ h.kind = Holder[o.kind]
    <3>1. (CHOOSE h \in objects : h.id = o.in) \in objects
          /\ (CHOOSE h \in objects : h.id = o.in).id = o.in
      BY <2>1
    <3>2. (CHOOSE h \in objects : h.id = o.in).kind = Holder[o.kind]
      BY <1>2 DEF WellPlaced, KindOf
    <3> QED BY <3>1, <3>2
  <2>3. Holder[o.kind] # "top"
    BY <2>2, IdType, Holders
  <2> QED BY <2>2, <2>3 DEF HeldIn
<1> QED BY <1>1, <1>2

LEMMA MoreHold ==
  ASSUME NEW some, NEW more, some \subseteq more, NEW o, HeldIn(o, some)
  PROVE  HeldIn(o, more)
  BY DEF HeldIn

\* What is held by what is deleted is deleted too, through all levels.
LEMMA DeletedWithAll ==
  ASSUME objects \subseteq Object, WorldInv, NEW d \in objects,
         NEW some \in SUBSET objects, \A o \in some : HeldIn(o, some),
         NEW held, held = {x \in objects : x.in = d.id},
         NEW gone, gone = {d} \cup held \cup {x \in objects : \E h \in held : x.in = h.id},
         NEW o \in some \ gone
  PROVE  HeldIn(o, some \ gone)
<1>1. CASE Holder[o.kind] = "top"
  BY <1>1 DEF HeldIn
<1>2. CASE Holder[o.kind] # "top"
  <2>1. PICK h \in some : h.id = o.in /\ h.kind = Holder[o.kind]
    BY <1>2 DEF HeldIn
  <2>2. h \notin {d} \cup held
    BY <2>1
  <2>3. ASSUME NEW x \in held, h.in = x.id PROVE FALSE
    <3>1. x \in objects /\ x.in = d.id /\ x.id # 0 /\ d.id # 0
      BY IdType
    <3>2. h.kind \in {"environment", "kafka_cluster"}
      BY <1>2, <2>1, IdType, Holders
    <3>3. h.kind = "kafka_cluster"
      BY <2>1, <2>3, <3>1, <3>2, Holders DEF WorldInv, HeldIn
    <3>4. PICK y \in objects : y.id = h.in /\ y.kind = "environment"
      BY <2>1, <3>3, Holders DEF WorldInv, HeldIn
    <3>5. y = x
      BY <2>3, <3>1, <3>4 DEF WorldInv
    <3> QED BY <3>1, <3>4, <3>5, Holders DEF WorldInv, HeldIn
  <2>4. h \in some \ gone
    BY <2>1, <2>2, <2>3
  <2> QED BY <1>2, <2>1, <2>4 DEF HeldIn
<1> QED BY <1>1, <1>2

LEMMA InitWorld == Init => WorldInv
<1> SUFFICES ASSUME Init PROVE WorldInv
  OBVIOUS
<1>1. objects \subseteq Object
  BY InitTypes DEF TypeOK
<1>2. \A o \in objects : HeldIn(o, objects)
  BY <1>1, WellPlacedIsHeld DEF Init
<1>3. \A o, x \in objects : o.id = x.id => o = x
  <2>1. PICK n \in Ids \cup {0} :
               LET ids == {i \in Ids : i <= n}
               IN  \E kind \in [ids -> Seen], in \in [ids -> Ids \cup {Top}],
                      name \in [ids -> DisplayNames] :
                      objects = {[id |-> i, kind |-> kind[i], in |-> in[i], name |-> name[i]] : i \in ids}
    BY DEF Init
  <2> QED BY <2>1
<1> QED BY <1>2, <1>3 DEF Init, WorldInv

\* What Visit makes of an answer: the object is listed, or one of the places to list
\* next leads to it.
LEMMA AnswerLeadsOn ==
  ASSUME TypeOK, WorldInv, NEW p, NEW o \in lasting, Covers(p, o)
  PROVE  \/ p.kind = Source(o.kind) /\ o \in Answer(p)
         \/ /\ p.kind # Source(o.kind)
            /\ \E x \in Answer(p) : x.kind \in Way(o.kind) /\ Covers(Place(x), o)
<1>0. /\ objects \subseteq Object /\ lasting \subseteq objects /\ o \in objects
      /\ o.kind \in Kinds /\ HeldIn(o, lasting)
  BY IdType DEF TypeOK, WorldInv
<1>1. CASE p = TopPlace
  <2>0. p.id = 0 /\ p.kind = "top" /\ Answer(p) = {x \in objects : x.in = 0}
    BY <1>1 DEF TopPlace, Answer, In
  <2>1. CASE o.kind = "schema"
    <3>1. o \in Answer(p) /\ Source(o.kind) = "schema" /\ o.kind \in Way(o.kind)
      BY <1>0, <2>0, <2>1, Holders DEF HeldIn, Source, Way
    <3> QED BY <2>0, <2>1, <3>1 DEF Covers
  <2>2. CASE o.kind = "kafka_cluster"
    <3>1. PICK h \in lasting : h.id = o.in /\ h.kind = "environment"
      BY <1>0, <2>2, Holders DEF HeldIn
    <3>2. h \in Answer(p)
      BY <1>0, <2>0, <3>1, Holders DEF WorldInv, HeldIn
    <3>3. Source(o.kind) = "environment" /\ h.kind \in Way(o.kind)
      BY <2>2, <3>1, Holders DEF Source, Way
    <3>4. Covers(Place(h), o)
      BY <2>2, <3>1, <3>3 DEF Covers, Place
    <3> QED BY <2>0, <3>2, <3>3, <3>4
  <2>3. CASE o.kind = "connector"
    <3>1. PICK c \in lasting : c.id = o.in /\ c.kind = "kafka_cluster"
      BY <1>0, <2>3, Holders DEF HeldIn
    <3>2. PICK h \in lasting : h.id = c.in /\ h.kind = "environment"
      BY <3>1, Holders DEF WorldInv, HeldIn
    <3>3. h \in Answer(p)
      BY <1>0, <2>0, <3>2, Holders DEF WorldInv, HeldIn
    <3>4. Source(o.kind) = "kafka_cluster" /\ h.kind \in Way(o.kind)
      BY <2>3, <3>2, Holders DEF Source, Way
    <3>5. Covers(Place(h), o)
      BY <2>3, <3>1, <3>2 DEF Covers, Place
    <3> QED BY <2>0, <3>3, <3>4, <3>5
  <2>4. CASE o.kind \notin {"schema", "kafka_cluster", "connector"}
    <3>1. Holder[o.kind] = "top"
      BY <1>0, <2>4, Holders
    <3>2. Source(o.kind) = "top" /\ o.in = 0
      BY <1>0, <2>4, <3>1 DEF Source, HeldIn
    <3> QED BY <1>0, <2>0, <3>2
  <2> QED BY <2>1, <2>2, <2>3, <2>4
<1>2. CASE o.kind # "schema" /\ p.id = o.in /\ p.kind = Source(o.kind)
  <2>1. p.kind # "schema"
    BY <1>0, <1>2, Holders DEF Source
  <2> QED BY <1>0, <1>2, <2>1 DEF Answer, In
<1>3. CASE o.kind = "schema" /\ p = Place(o)
  BY <1>0, <1>3 DEF Place, Answer, Source
<1>4. CASE o.kind = "connector" /\ \E c \in lasting : /\ c.id = o.in /\ c.kind = "kafka_cluster"
                                              /\ p = [id |-> c.in, kind |-> "environment"]
  <2>1. PICK c \in lasting : /\ c.id = o.in /\ c.kind = "kafka_cluster"
                             /\ p = [id |-> c.in, kind |-> "environment"]
    BY <1>4
  <2>2. Source(o.kind) = "kafka_cluster" /\ c.kind \in Way(o.kind)
    BY <1>4, <2>1, Holders DEF Source, Way
  <2>3. c \in Answer(p)
    BY <1>0, <2>1 DEF Answer, In
  <2>4. Covers(Place(c), o)
    BY <1>4, <2>1, <2>2 DEF Covers, Place
  <2> QED BY <2>1, <2>2, <2>3, <2>4
<1> QED BY <1>1, <1>2, <1>3, <1>4 DEF Covers

\* The world stays as it is, and the lists get no longer.
LEMMA WorldStays ==
  ASSUME WorldInv, objects' = objects, lasting' \in {lasting, {}, objects},
         (listed \cup partial)' \subseteq listed \cup partial
  PROVE  WorldInv'
  BY DEF WorldInv, HeldIn

LEMMA VisitWorld ==
  ASSUME TypeOK, WorldInv, NEW p, NEW known \in SUBSET objects, Visit(p, known)
  PROVE  /\ WorldInv'
         /\ \A x \in (listed \cup partial)' :
               x \in listed \cup partial \/ \E o \in objects : o.id = x.id
<1> DEFINE new == {Instance(x) : x \in {y \in known : y.kind = walk.kind}}
<1>1. (listed \cup partial)' \subseteq listed \cup partial \cup new /\ UNCHANGED world
  BY DEF Visit
<1>2. \A x \in new : \E o \in objects : o.id = x.id /\ o.kind = x.kind
  BY InstanceType
<1> HIDE DEF new
<1>3. ASSUME NEW x \in listed \cup partial \cup new,
             NEW o \in objects \cup listed \cup partial \cup new, o.id = x.id
      PROVE  o.kind = x.kind
  <2>1. CASE x \in listed \cup partial
    BY <1>2, <1>3, <2>1 DEF WorldInv
  <2>2. CASE x \in new
    <3>1. PICK y \in objects : y.id = x.id /\ y.kind = x.kind
      BY <1>2, <2>2
    <3> QED BY <1>2, <1>3, <3>1 DEF WorldInv
  <2> QED BY <2>1, <2>2
<1>4. WorldInv'
  BY <1>1, <1>3 DEF WorldInv, HeldIn
<1> QED BY <1>1, <1>2, <1>4

LEMMA NextWorld ==
  TypeOK /\ ControlInv /\ WorldInv /\ [Next]_vars => WorldInv'
<1> SUFFICES ASSUME TypeOK, ControlInv, WorldInv, [Next]_vars PROVE WorldInv'
  OBVIOUS
<1>1. ASSUME NEW p \in walk.places,
             \/ ListPlace(p) \/ ConnectorsRefused(p)
             \/ \E known \in SUBSET In(p.id) : ListKnownAcls(p, known)
      PROVE  WorldInv'
  BY <1>1, VisitWorld DEF ListPlace, ConnectorsRefused, ListKnownAcls, Answer, In
<1>2. CASE Create
  BY <1>1, <1>2, WorldStays DEF Create, LoadInstances, ListFails,
       ListsEnd, ImportInstance, RefreshInstance, RefreshPanics, LoadsEnd, CreateFails,
       setupOutputFolder, FolderBreaksOff, writeHclConfig, ConfigBreaksOff, writeTfState,
       StateBreaksOff, ReplaceProvider, ReplaceProviderFails, EndsWith
<1>3. CASE tfImporterCreate
  BY <1>3, WorldStays DEF tfImporterCreate
<1>4. CASE \/ tfImporterRead \/ ImportStatePassthrough
           \/ tfImporterDelete \/ RemoveState \/ RemoveStateFails
           \/ UserRemovesFolder \/ UserMakesFolder
  BY <1>4, WorldStays DEF tfImporterRead, ImportStatePassthrough, tfImporterDelete,
       RemoveState, RemoveStateFails, UserRemovesFolder, UserMakesFolder
<1>5. ASSUME NEW d \in objects, DeleteObject(d) PROVE WorldInv'
  <2> DEFINE held == {x \in objects : x.in = d.id}
             gone == {d} \cup held \cup {x \in objects : \E h \in held : x.in = h.id}
  <2>1. /\ objects' = objects \ gone /\ lasting' = lasting \ gone /\ UNCHANGED <<listed, partial>>
        /\ objects \subseteq Object /\ lasting \subseteq objects
    BY <1>5 DEF DeleteObject, TypeOK
  <2>2. \A o \in objects \ gone : HeldIn(o, objects \ gone)
    <3>1. objects \in SUBSET objects /\ \A o \in objects : HeldIn(o, objects)
      BY DEF WorldInv
    <3> QED BY <2>1, <3>1, DeletedWithAll
  <2>3. \A o \in lasting \ gone : HeldIn(o, lasting \ gone)
    BY <2>1, DeletedWithAll DEF WorldInv
  <2> HIDE DEF gone
  <2>4. \A o \in objects' : HeldIn(o, objects)'
    BY <2>1, <2>2 DEF HeldIn
  <2>5. \A o \in lasting' : HeldIn(o, lasting)'
    BY <2>1, <2>3 DEF HeldIn
  <2> QED BY <2>1, <2>4, <2>5 DEF WorldInv
<1>6. ASSUME NEW o \in Object, CreateObject(o) PROVE WorldInv'
  <2>1. /\ objects' = objects \cup {o} /\ UNCHANGED <<lasting, listed, partial>>
        /\ objects \subseteq Object /\ o.id \in Nat
        /\ \A x \in objects \cup listed \cup partial : x.id \in Nat /\ x.id < o.id
    <3>1. \A i \in Ids : i \in Nat
      BY IdsAssumption
    <3> QED BY <1>6, <3>1 DEF CreateObject, TypeOK, ControlInv, Instances, Object
  <2>2. \A x \in objects \cup listed \cup partial : x.id # o.id
    BY <2>1
  <2>3. \A x \in objects' : HeldIn(x, objects')
    <3>1. HeldIn(o, objects)
      BY <1>6, <2>1, WellPlacedIsHeld DEF CreateObject
    <3> QED BY <2>1, <3>1, MoreHold DEF WorldInv
  <2>4. \A x \in objects' : HeldIn(x, objects)'
    BY <2>3 DEF HeldIn
  <2>5. \A x \in lasting' : HeldIn(x, lasting)'
    BY <2>1 DEF WorldInv, HeldIn
  <2>6. \A x, y \in objects' : x.id = y.id => x = y
    BY <2>1, <2>2 DEF WorldInv
  <2>7. \A x \in listed \cup partial : \A y \in objects' \cup listed \cup partial :
           y.id = x.id => y.kind = x.kind
    BY <2>1, <2>2 DEF WorldInv
  <2> QED BY <2>1, <2>4, <2>5, <2>6, <2>7 DEF WorldInv
<1>7. CASE UNCHANGED vars
  BY <1>7, WorldStays DEF vars
<1> QED BY <1>2, <1>3, <1>4, <1>5, <1>6, <1>7 DEF Next

---------------------------------------------------------------------------
(* What is listed, loaded and written.                                     *)

\* An answer that is kept as a whole loses no object that lasts.
LEMMA VisitLists ==
  ASSUME TypeOK, ControlInv, WorldInv, NEW p \in walk.places, Visit(p, Answer(p)),
         NEW o \in lasting, Listing(o)
  PROVE  Listing(o)'
<1> DEFINE there == p.kind = Source(walk.kind)
           ways == IF there THEN {} ELSE {x \in Answer(p) : x.kind \in Way(walk.kind)}
           new == IF there THEN {Instance(x) : x \in {y \in Answer(p) : y.kind = walk.kind}} ELSE {}
           places == (walk.places \ {p}) \cup {Place(x) : x \in ways}
<1>1. /\ \/ /\ places = {} /\ walk' = NoWalk
            /\ partial' = {} /\ listed' = listed \cup partial \cup new
         \/ /\ places # {} /\ walk' = [walk EXCEPT !.places = places]
            /\ partial' = partial \cup new /\ UNCHANGED listed
      /\ UNCHANGED <<world, todo>>
  BY DEF Visit
<1>2. \A x : Covers(x, o)' <=> Covers(x, o)
  BY <1>1 DEF Covers
<1>3. walk = [kind |-> walk.kind, places |-> walk.places]
  BY DEF ControlInv, NoWalk
<1>4. CASE o.kind \in todo \/ Has(listed, o)
  BY <1>1, <1>4 DEF Listing, Has
<1>5. CASE walk.kind = o.kind /\ Has(partial, o)
  <2>1. CASE places = {}
    BY <1>1, <1>5, <2>1 DEF Listing, Has
  <2>2. CASE places # {}
    <3>1. walk'.kind = walk.kind
      BY <1>1, <1>3, <2>2
    <3> QED BY <1>1, <1>5, <2>2, <3>1 DEF Listing, Has
  <2> QED BY <2>1, <2>2
<1>6. ASSUME walk.kind = o.kind, NEW q \in places, Covers(q, o) PROVE Listing(o)'
  <2>1. walk'.kind = o.kind /\ walk'.places = places
    BY <1>1, <1>3, <1>6
  <2> QED BY <1>2, <1>6, <2>1 DEF Listing
<1>7. ASSUME walk.kind = o.kind, Has(new, o) PROVE Listing(o)'
  <2>1. CASE places = {}
    BY <1>1, <1>7, <2>1 DEF Listing, Has
  <2>2. CASE places # {}
    <3>1. walk'.kind = walk.kind
      BY <1>1, <1>3, <2>2
    <3> QED BY <1>1, <1>7, <2>2, <3>1 DEF Listing, Has
  <2> QED BY <2>1, <2>2
<1>8. ASSUME walk.kind = o.kind, NEW q \in walk.places, Covers(q, o) PROVE Listing(o)'
  <2>1. CASE q # p
    <3>1. q \in places
      BY <2>1
    <3> QED BY <1>6, <1>8, <3>1
  <2>2. CASE q = p /\ there
    <3>1. o \in Answer(p)
      BY <1>8, <2>2, AnswerLeadsOn
    <3>2. Instance(o) \in new
      BY <1>8, <2>2, <3>1
    <3>3. Has(new, o)
      BY <3>2, InstanceType DEF Has, TypeOK
    <3> QED BY <1>7, <1>8, <3>3
  <2>3. CASE q = p /\ ~there
    <3>1. PICK x \in Answer(p) : x.kind \in Way(o.kind) /\ Covers(Place(x), o)
      BY <1>8, <2>3, AnswerLeadsOn
    <3>2. Place(x) \in places
      BY <1>8, <2>3, <3>1
    <3> QED BY <1>6, <1>8, <3>1, <3>2
  <2> QED BY <2>1, <2>2, <2>3
<1> QED BY <1>4, <1>5, <1>8 DEF Listing

\* Without a handler that creates there is nothing to say of the lists.
LEMMA IdleLists ==
  ASSUME at' \in {"idle", "delete"}, loaded' = <<>>
  PROVE  ListInv'
  BY DEF ListInv, Creating, Reading, Writing, Range

\* The steps after the lists.
LEMMA LoadingLists ==
  ASSUME ListInv, Creating, at # "list",
         at' \in {"load", "refresh", "folder", "config", "state", "upgrade"},
         UNCHANGED <<configuration, listed, partial, lost, lasting, objects, disturbed>>,
         Reading' => Reading,
         \A y \in Range(loaded') : \E x \in listed : x.id = y.id /\ x.kind = y.kind,
         Writing' => Left' = {}
  PROVE  ListInv'
<1>1. importers' = importers /\ Missing' = Missing
  BY SameImporters DEF Missing
<1>2. \A i : Exists(i)' <=> Exists(i)
  BY DEF Exists
<1>3. Creating' /\ at' # "list"
  BY DEF Creating
<1>4. \A o : Has(listed, o)' <=> Has(listed, o)
  BY DEF Has
<1> QED BY <1>1, <1>2, <1>3, <1>4 DEF ListInv

LEMMA CreateLists ==
  ASSUME TypeOK, ControlInv, WorldInv, WorldInv', ListInv, Create
  PROVE  ListInv'
<1> USE DEF Creating, Reading, Writing
<1>1. ASSUME NEW kind \in todo, LoadInstances(kind) PROVE ListInv'
  <2>1. importers' = importers /\ Missing' = Missing
    BY <1>1, SameImporters DEF LoadInstances, Missing
  <2>2. ASSUME NEW o \in lasting, Listing(o) PROVE Listing(o)'
    <3>1. walk.kind = "none" /\ o.kind # "none"
      BY <1>1, IdType, Holders DEF LoadInstances, NoWalk, TypeOK
    <3>2. o.kind \in todo \/ Has(listed, o)
      BY <2>2, <3>1 DEF Listing
    <3>3. CASE o.kind = kind
      <4>1. walk'.kind = o.kind /\ TopPlace \in walk'.places
        BY <1>1, <3>3 DEF LoadInstances
      <4>2. Covers(TopPlace, o)'
        BY DEF Covers
      <4> QED BY <4>1, <4>2 DEF Listing
    <3>4. CASE o.kind # kind
      BY <1>1, <3>2, <3>4 DEF Listing, LoadInstances, Has
    <3> QED BY <3>3, <3>4
  <2>3. \A i : Exists(i)' <=> Exists(i)
    BY <1>1 DEF LoadInstances, Exists
  <2> QED BY <1>1, <2>1, <2>2, <2>3 DEF LoadInstances, ListInv
<1>2. ASSUME NEW p \in walk.places, NEW known \in SUBSET objects, Visit(p, known), at = "list",
             \/ known = Answer(p) /\ UNCHANGED <<lost, disturbed>>
             \/ lost' # {} /\ disturbed'
      PROVE  ListInv'
  <2>1. /\ importers' = importers /\ Missing' = Missing /\ at' = "list"
        /\ UNCHANGED <<objects, lasting, loaded>>
    BY <1>2, SameImporters DEF Visit, Missing
  <2>2. lost' = {} => \A o \in lasting' : o.kind \in importers' => Listing(o)'
    BY <1>2, <2>1, VisitLists DEF ListInv
  <2>3. ~disturbed' => lasting' = objects' /\ (lost' = {} \/ Missing')
    BY <1>2, <2>1 DEF ListInv
  <2>4. ~disturbed' => \A x \in (listed \cup partial)' : Exists(x.id)'
    BY <1>2, <2>1, VisitWorld DEF ListInv, Exists
  <2>5. Range(loaded') = {}
    BY <1>2, <2>1 DEF ControlInv, Range
  <2> QED BY <2>1, <2>2, <2>3, <2>4, <2>5 DEF ListInv
<1>3. ASSUME NEW p \in walk.places,
             \/ ListPlace(p) \/ ConnectorsRefused(p)
             \/ \E known \in SUBSET In(p.id) : ListKnownAcls(p, known)
      PROVE  ListInv'
  BY <1>2, <1>3 DEF ListPlace, ConnectorsRefused, ListKnownAcls, Answer, In
<1>4. CASE ListFails
  <2>1. importers' = importers /\ Missing' = Missing
    BY <1>4, SameImporters DEF ListFails, Missing
  <2>2. walk.kind \in importers
    BY <1>4 DEF ListFails, ControlInv
  <2>3. ~disturbed' => ~disturbed /\ Missing
    BY <1>4, <2>2 DEF ListFails, Missing
  <2>4. \A i : Exists(i)' <=> Exists(i)
    BY <1>4 DEF ListFails, Exists
  <2> QED BY <1>4, <2>1, <2>3, <2>4 DEF ListFails, ListInv
<1>5. CASE ListsEnd
  <2>1. importers' = importers /\ Missing' = Missing
    BY <1>5, SameImporters DEF ListsEnd, Missing
  <2>2. \A o \in lasting : Listing(o) => Has(listed, o)'
    BY <1>5, IdType, Holders DEF ListsEnd, Listing, NoWalk, TypeOK, Has
  <2>3. \A i : Exists(i)' <=> Exists(i)
    BY <1>5 DEF ListsEnd, Exists
  <2> QED BY <1>5, <2>1, <2>2, <2>3 DEF ListsEnd, ListInv
<1>6. ASSUME NEW x \in listed, ImportInstance(x) PROVE ListInv'
  BY <1>6, LoadingLists DEF ImportInstance, ListInv
<1>7. CASE RefreshInstance
  <2>1. PICK x \in listed, y \in Instances :
              y.id = x.id /\ y.kind = x.kind /\ Range(loaded') \subseteq Range(loaded) \cup {y}
    BY <1>7, RefreshAppends
  <2>2. \A z \in Range(loaded') : \E w \in listed : w.id = z.id /\ w.kind = z.kind
    BY <2>1 DEF ListInv
  <2> QED BY <1>7, <2>2, LoadingLists DEF RefreshInstance
<1>8. CASE LoadsEnd /\ ~EndsWith("failed")
  <2>1. Left' = {}
    BY <1>8 DEF LoadsEnd, Left
  <2> QED BY <1>8, <2>1, LoadingLists DEF LoadsEnd, ListInv
<1>9. CASE setupOutputFolder \/ writeHclConfig \/ writeTfState
  <2>1. Left' = Left
    BY <1>9 DEF setupOutputFolder, writeHclConfig, writeTfState, Left
  <2> QED BY <1>9, <2>1, LoadingLists DEF setupOutputFolder, writeHclConfig, writeTfState, ListInv
<1>10. CASE \/ RefreshPanics \/ (LoadsEnd /\ EndsWith("failed")) \/ FolderBreaksOff
            \/ \E n \in 0 .. Len(loaded) : ConfigBreaksOff(n)
            \/ StateBreaksOff \/ ReplaceProvider
            \/ \E upgraded \in BOOLEAN : ReplaceProviderFails(upgraded)
            \/ CreateFails
  BY <1>10, IdleLists DEF RefreshPanics, FolderBreaksOff, ConfigBreaksOff, StateBreaksOff,
     ReplaceProvider, ReplaceProviderFails, CreateFails, EndsWith
<1> QED BY <1>1, <1>3, <1>4, <1>5, <1>6, <1>7, <1>8, <1>9, <1>10 DEF Create

LEMMA NextLists ==
  ASSUME TypeOK, ControlInv, WorldInv, WorldInv', ListInv, [Next]_vars
  PROVE  ListInv'
<1> USE DEF Creating, Reading, Writing
<1>1. CASE Create
  BY <1>1, CreateLists
<1>2. CASE tfImporterCreate
  <2>1. importers' = importers /\ loaded' = <<>> /\ listed' = {} /\ partial' = {}
    BY <1>2, SameImporters DEF tfImporterCreate, ControlInv
  <2>2. CASE ~OneFamily
    BY <1>2, <2>1, <2>2, IdleLists DEF tfImporterCreate
  <2>3. CASE OneFamily
    <3>1. /\ at' = "list" /\ lasting' = objects' /\ todo' = importers' /\ lost' = {}
      BY <1>2, <2>1, <2>3 DEF tfImporterCreate
    <3> QED BY <2>1, <3>1 DEF ListInv, Listing, Range
  <2> QED BY <2>2, <2>3
<1>3. CASE \/ tfImporterRead \/ ImportStatePassthrough
           \/ tfImporterDelete \/ RemoveState \/ RemoveStateFails
           \/ UserRemovesFolder \/ UserMakesFolder
  BY <1>3, IdleLists DEF tfImporterRead, ImportStatePassthrough, tfImporterDelete,
       RemoveState, RemoveStateFails, UserRemovesFolder, UserMakesFolder, ControlInv
<1>4. ASSUME NEW d \in objects, DeleteObject(d) PROVE ListInv'
  <2>1. /\ importers' = importers /\ disturbed' = TRUE /\ lasting' \subseteq lasting
        /\ at' = at /\ at \in {"list", "load", "refresh"}
        /\ UNCHANGED <<lost, loaded, listed, partial, walk, todo>>
    BY <1>4, SameImporters DEF DeleteObject
  <2>2. ASSUME NEW o \in lasting', Listing(o) PROVE Listing(o)'
    <3>1. ASSUME NEW p, Covers(p, o) PROVE Covers(p, o)'
      <4>1. ASSUME o.kind = "connector", NEW c \in lasting, c.id = o.in, c.kind = "kafka_cluster"
            PROVE  c \in lasting'
        <5>1. PICK h \in lasting' : h.id = o.in
          BY <4>1, Holders DEF WorldInv, HeldIn
        <5> QED BY <2>1, <4>1, <5>1 DEF WorldInv, TypeOK
      <4> QED BY <3>1, <4>1 DEF Covers
    <3>2. (Has(listed, o) => Has(listed, o)') /\ (Has(partial, o) => Has(partial, o)')
      BY <2>1 DEF Has
    <3> QED BY <2>1, <2>2, <3>1, <3>2 DEF Listing
  <2>3. \A o : Has(listed, o) => Has(listed, o)'
    BY <2>1 DEF Has
  <2> QED BY <2>1, <2>2, <2>3 DEF ListInv
<1>5. ASSUME NEW o \in Object, CreateObject(o) PROVE ListInv'
  <2>1. /\ importers' = importers /\ disturbed' = TRUE /\ lasting' = lasting
        /\ at' = at /\ at = "list"
        /\ UNCHANGED <<lost, loaded, listed, partial, walk, todo>>
    BY <1>5, SameImporters DEF CreateObject
  <2>2. \A x \in lasting : Listing(x) => Listing(x)'
    BY <2>1 DEF Listing, Has, Covers
  <2> QED BY <2>1, <2>2 DEF ListInv
<1>6. CASE UNCHANGED vars
  BY <1>6, SameImporters DEF vars, ListInv, Listing, Has, Covers, Missing, Exists, Left
<1> QED BY <1>1, <1>2, <1>3, <1>4, <1>5, <1>6 DEF Next

---------------------------------------------------------------------------
(* What a create promises.                                                 *)

\* The state file that the last step writes has every object that lasts.
LEMMA CreatedIsComplete ==
  ASSUME TypeOK, ControlInv, HasLast, FilesInv, WorldInv, ListInv, ReplaceProvider
  PROVE  CreateIsComplete'
<1>1. /\ at = "upgrade" /\ UNCHANGED <<configuration, config>>
      /\ lost' = lost /\ lasting' = lasting
  BY DEF ReplaceProvider, EndsWith
<1>2. importers' = importers
  BY <1>1, SameImporters
<1>3. /\ config.blocks = Blocks(Len(loaded)) /\ state'.entries = Entries
  BY <1>1 DEF ReplaceProvider, FilesInv
<1>4. loaded \in Seq(Instances) /\ DOMAIN loaded = 1 .. Len(loaded) /\ Left = {}
  BY <1>1 DEF ControlInv, ListInv, Writing
<1> SUFFICES ASSUME lost = {}, NEW o \in lasting, o.kind \in importers
             PROVE  \/ \E x \in Entries : x.id = o.id
                    \/ \E x \in Entries : x.kind = o.kind /\ Twice(Address(x))'
  BY <1>1, <1>2, <1>3 DEF CreateIsComplete
<1>5. PICK x \in listed : x.id = o.id /\ x.kind = o.kind
  BY <1>1 DEF ListInv, Creating, Has
<1>6. PICK i \in DOMAIN loaded : loaded[i].id = o.id
  BY <1>4, <1>5 DEF Left, Range
<1>7. loaded[i].kind = o.kind
  <2>1. PICK y \in listed : y.id = loaded[i].id /\ y.kind = loaded[i].kind
    BY DEF ListInv, Range
  <2> QED BY <1>5, <1>6, <2>1 DEF WorldInv
<1>8. PICK j \in DOMAIN loaded :
             /\ Address(loaded[j]) = Address(loaded[i])
             /\ \A k \in DOMAIN loaded : Address(loaded[k]) = Address(loaded[j]) => k <= j
  BY DEF HasLast
<1>9. loaded[j] \in Entries
  BY <1>8 DEF Entries
<1>10. CASE j = i
  BY <1>6, <1>9, <1>10
<1>11. CASE j # i
  <2>1. /\ DOMAIN config.blocks = DOMAIN loaded
        /\ config.blocks[i] = Address(loaded[i]) /\ config.blocks[j] = Address(loaded[j])
    BY <1>3, <1>4 DEF Blocks
  <2>2. {config.blocks[i], config.blocks[j]} = {Address(loaded[j])}
    BY <1>8, <2>1
  <2>3. loaded[j].kind = o.kind
    BY <1>7, <1>8 DEF Address
  <2>4. \A block : block = Address(loaded[j]) => Twice(block)'
    BY <1>1, <1>11, <2>1, <2>2 DEF Twice
  <2>5. PICK z \in Entries : z = loaded[j]
    BY <1>9
  <2>6. Twice(Address(z))'
    BY <2>4, <2>5 DEF Address
  <2> QED BY <2>3, <2>5, <2>6
<1> QED BY <1>10, <1>11

\* Nothing is said of a create that goes on.
LEMMA NoAnswerYet == outcome' = "none" => CreateIsComplete' /\ FailsForAReason'
  BY DEF CreateIsComplete, FailsForAReason

\* Nothing was loaded: nothing was there, or credentials are missing.
LEMMA NothingLoaded ==
  ASSUME TypeOK, ControlInv, ListInv, at = "load", Left = {}, loaded = <<>>, ~disturbed
  PROVE  Missing \/ ~\E o \in objects : o.kind \in importers
<1>1. listed = {}
  BY DEF Left, Range
<1>2. lasting = objects /\ (lost = {} \/ Missing)
  BY DEF ListInv, Creating
<1>3. lost = {} => \A o \in objects : o.kind \in importers => FALSE
  BY <1>1, <1>2 DEF ListInv, Creating, Has
<1> QED BY <1>2, <1>3

LEMMA CreateAnswers ==
  ASSUME TypeOK, ControlInv, HasLast, FilesInv, WorldInv, ListInv, Create
  PROVE  CreateIsComplete' /\ FailsForAReason'
<1>0. Creating => outcome = "none" /\ tracked = 0
  BY DEF ControlInv
<1>1. CASE \/ \E kind \in todo : LoadInstances(kind)
           \/ \E p \in walk.places : \/ ListPlace(p) \/ ConnectorsRefused(p)
                                     \/ \E known \in SUBSET In(p.id) : ListKnownAcls(p, known)
           \/ ListFails \/ ListsEnd \/ \E x \in listed : ImportInstance(x)
  BY <1>0, <1>1, NoAnswerYet DEF LoadInstances, ListPlace, ConnectorsRefused, ListKnownAcls,
     Visit, ListFails, ListsEnd, ImportInstance, Creating
<1>2. CASE RefreshInstance \/ setupOutputFolder \/ writeHclConfig \/ writeTfState
  BY <1>0, <1>2, NoAnswerYet DEF RefreshInstance, setupOutputFolder, writeHclConfig,
     writeTfState, Creating
<1>3. CASE RefreshPanics
  <2>1. current \in listed
    BY <1>3 DEF RefreshPanics, ControlInv, Left
  <2>2. disturbed
    BY <1>3, <2>1 DEF RefreshPanics, ListInv, Reading
  <2>3. disturbed' /\ outcome' = "panic"
    BY <1>3, <2>2 DEF RefreshPanics, EndsWith
  <2> QED BY <2>3 DEF CreateIsComplete, FailsForAReason
<1>4. CASE LoadsEnd
  <2>1. CASE EndsWith("failed")
    <3>1. outcome' = "failed" /\ UNCHANGED <<configuration, objects, disturbed>>
      BY <1>4, <2>1 DEF LoadsEnd, EndsWith
    <3>2. importers' = importers
      BY <3>1, SameImporters
    <3>3. loaded = <<>>
      BY <1>4, <2>1 DEF LoadsEnd, EndsWith
    <3>4. ~disturbed => Missing \/ ~\E o \in objects : o.kind \in importers
      BY <1>4, <3>3, NothingLoaded DEF LoadsEnd
    <3> QED BY <3>1, <3>2, <3>4 DEF CreateIsComplete, FailsForAReason, Missing
  <2>2. CASE ~EndsWith("failed")
    BY <1>0, <1>4, <2>2, NoAnswerYet DEF LoadsEnd, Creating
  <2> QED BY <2>1, <2>2
<1>5. CASE \/ FolderBreaksOff \/ \E n \in 0 .. Len(loaded) : ConfigBreaksOff(n)
           \/ StateBreaksOff \/ \E upgraded \in BOOLEAN : ReplaceProviderFails(upgraded)
           \/ CreateFails
  <2>1. outcome' = "failed" /\ disturbed'
    BY <1>5 DEF FolderBreaksOff, ConfigBreaksOff, StateBreaksOff, ReplaceProviderFails,
                CreateFails, EndsWith
  <2> QED BY <2>1 DEF CreateIsComplete, FailsForAReason
<1>6. CASE ReplaceProvider
  <2>1. outcome' = "created"
    BY <1>6 DEF ReplaceProvider, EndsWith
  <2> QED BY <1>6, <2>1, CreatedIsComplete DEF FailsForAReason
<1> QED BY <1>1, <1>2, <1>3, <1>4, <1>5, <1>6 DEF Create

\* Between two creates the answer stays, as long as it is one.
LEMMA AnswerStays ==
  ASSUME CreateIsComplete, FailsForAReason,
         UNCHANGED <<configuration, lost, lasting, objects, disturbed, run>>,
         \/ config' = Absent \/ outcome' # "created" \/ UNCHANGED <<config, state, outcome>>,
         \/ tracked' # 0 \/ outcome' \notin {"failed", "panic"} \/ UNCHANGED <<outcome, tracked>>
  PROVE  CreateIsComplete' /\ FailsForAReason'
<1>1. importers' = importers
  BY SameImporters
<1>2. CreateIsComplete'
  BY <1>1 DEF CreateIsComplete, Twice, Address
<1>3. FailsForAReason'
  BY <1>1 DEF FailsForAReason
<1> QED BY <1>2, <1>3

LEMMA NextAnswers ==
  ASSUME TypeOK, ControlInv, HasLast, FilesInv, WorldInv, ListInv,
         CreateIsComplete, FailsForAReason, [Next]_vars
  PROVE  CreateIsComplete' /\ FailsForAReason'
<1>1. CASE Create
  BY <1>1, CreateAnswers
<1>2. CASE tfImporterCreate
  <2>1. CASE OneFamily
    BY <1>2, <2>1, NoAnswerYet DEF tfImporterCreate
  <2>2. CASE ~OneFamily
    <3>1. outcome' = "failed" /\ importers' = importers
      BY <1>2, <2>2, SameImporters DEF tfImporterCreate
    <3>2. \A f \in DOMAIN Families : ~(importers \subseteq Families[f])
      BY <2>2 DEF OneFamily, mapContainsAllKeys
    <3> QED BY <3>1, <3>2 DEF CreateIsComplete, FailsForAReason
  <2> QED BY <2>1, <2>2
<1>3. CASE tfImporterRead \/ ImportStatePassthrough
  BY <1>3, NoAnswerYet DEF tfImporterRead, ImportStatePassthrough
<1>4. CASE tfImporterDelete
  BY <1>4, AnswerStays DEF tfImporterDelete
<1>5. CASE RemoveState
  BY <1>5, AnswerStays DEF RemoveState
<1>6. CASE RemoveStateFails
  BY <1>6, AnswerStays DEF RemoveStateFails, ControlInv
<1>7. CASE UserRemovesFolder
  BY <1>7, AnswerStays DEF UserRemovesFolder
<1>8. CASE UserMakesFolder
  BY <1>8, AnswerStays DEF UserMakesFolder
<1>9. CASE (\E o \in objects : DeleteObject(o)) \/ (\E o \in Object : CreateObject(o))
  BY <1>9, NoAnswerYet DEF DeleteObject, CreateObject, ControlInv, Creating
<1>10. CASE UNCHANGED vars
  BY <1>10, AnswerStays DEF vars
<1> QED BY <1>1, <1>2, <1>3, <1>4, <1>5, <1>6, <1>7, <1>8, <1>9, <1>10 DEF Next

---------------------------------------------------------------------------
(* The theorems.                                                           *)

\* The inductive invariant holds however often a create, a destroy or a removal of the
\* folder follow each other, and wherever a create is cut off.
THEOREM Invariant == Spec => []IInv
<1>1. Init => IInv
  <2>1. Init => CreateIsComplete /\ FailsForAReason
    BY DEF Init, CreateIsComplete, FailsForAReason
  <2>2. Init => ListInv
    BY DEF Init, ListInv, Creating, Reading, Writing, Range
  <2> QED BY <2>1, <2>2, InitTypes, InitFiles, InitWorld DEF IInv
<1>2. IInv /\ [Next]_vars => IInv'
  BY NextTypes, NextFiles, NextWorld, NextLists, NextAnswers DEF IInv
<1> QED BY <1>1, <1>2, PTL DEF Spec

\* Types; every name that is written, with or without an index, is one that Terraform
\* accepts.
THEOREM TypeCorrect == Spec => []TypeOK
<1>1. IInv => TypeOK
  BY DEF IInv
<1> QED BY <1>1, Invariant, PTL

\* The files beside a tracked create are both of that create and have the same addresses.
THEOREM FilesOfTheCreate == Spec => []TrackedFilesAgree
<1>1. IInv => TrackedFilesAgree
  BY DEF IInv, FilesInv
<1> QED BY <1>1, Invariant, PTL

\* main.tf and terraform.tfstate are never of two different creates.
THEOREM NoMixedFolder == Spec => []OneCreateOnDisk
<1>1. IInv => OneCreateOnDisk
  BY DEF IInv, FilesInv
<1> QED BY <1>1, Invariant, PTL

\* A create that succeeds and reports no loss misses nothing that was there all the
\* while, through environments, clusters and connectors.
THEOREM NothingIsLeftOut == Spec => []CreateIsComplete
<1>1. IInv => CreateIsComplete
  BY DEF IInv
<1> QED BY <1>1, Invariant, PTL

\* A create that nothing disturbs fails for one of three reasons.
THEOREM FailureIsJustified == Spec => []FailsForAReason
<1>1. IInv => FailsForAReason
  BY DEF IInv
<1> QED BY <1>1, Invariant, PTL

\* Terraform forgets a create only when both of its files are gone: a refresh that finds
\* no folder, or a destroy that removed both.
THEOREM ForgottenWithItsFiles == Spec => LetGoMeansGone
<1>1. IInv /\ [Next]_vars => [tracked # 0 /\ tracked' = 0 => config' = Absent /\ state' = Absent]_vars
  <2> SUFFICES ASSUME IInv, Next, tracked # 0, tracked' = 0
               PROVE  config' = Absent /\ state' = Absent
    OBVIOUS
  <2>1. ~Create
    <3>1. Create => Creating
      BY DEF Create, LoadInstances, ListPlace, ConnectorsRefused, ListKnownAcls, ListFails,
         ListsEnd, ImportInstance, RefreshInstance, RefreshPanics, LoadsEnd, CreateFails,
         setupOutputFolder, FolderBreaksOff, writeHclConfig, ConfigBreaksOff, writeTfState,
         StateBreaksOff, ReplaceProvider, ReplaceProviderFails, Creating
    <3> QED BY <3>1 DEF IInv, ControlInv, Creating
  <2>2. CASE tfImporterRead
    BY <2>2 DEF tfImporterRead, IInv, TypeOK
  <2>3. CASE RemoveState
    BY <2>3 DEF RemoveState, IInv, ControlInv
  <2>4. ~(\/ tfImporterCreate \/ ImportStatePassthrough \/ tfImporterDelete \/ RemoveStateFails
          \/ UserRemovesFolder \/ UserMakesFolder
          \/ (\E o \in objects : DeleteObject(o)) \/ (\E o \in Object : CreateObject(o)))
    BY DEF tfImporterCreate, ImportStatePassthrough, tfImporterDelete, RemoveStateFails,
       UserRemovesFolder, UserMakesFolder, DeleteObject, CreateObject
  <2> QED BY <2>1, <2>2, <2>3, <2>4 DEF Next
<1> QED BY <1>1, Invariant, PTL DEF Spec, LetGoMeansGone
=============================================================================
