---------------------- MODULE TfImporterAddresses_proofs ----------------------
(***************************************************************************)
(* For any number of objects and any names: when two resource blocks of a  *)
(* main.tf have the same address.                                          *)
(***************************************************************************)
EXTENDS TfImporter_proofs

USE DEF configuration, world, lists, loads, disk

---------------------------------------------------------------------------
(* The inductive invariant, about a sequence of instances.                 *)

First(s, i) == \A k \in 1 .. i - 1 : s[k].kind # s[i].kind
\* The addresses of the kind of s[i] that were there before it.
Before(s, i) == {Address(s[k]) : k \in {l \in 1 .. i - 1 : s[l].kind = s[i].kind}}
EndsWithIndex(name, n) ==
    Len(name) > 2 /\ name[Len(name) - 1] = "_" /\ name[Len(name)] = ToString(n)

\* All but the first of a kind have the number of addresses as an index,
Numbered(s) ==
    \A i \in 1 .. Len(s) : ~First(s, i) =>
        /\ IsFiniteSet(Before(s, i))
        /\ Cardinality(Before(s, i)) + 1 \in 1 .. Cardinality(Ids)
        /\ EndsWithIndex(s[i].name, Cardinality(Before(s, i)) + 1)
\* and two have the same address only after a first one with an index of its own.
Unique(s) ==
    \A i, j \in 1 .. Len(s) : i < j /\ Address(s[i]) = Address(s[j])
        => \E k \in 1 .. i : s[k].kind = s[i].kind /\ Indexed(s[k].name) /\ First(s, k)

AddressInv == Numbered(loaded) /\ Unique(loaded) /\ AddressesAreUnique

---------------------------------------------------------------------------
(* Steps.                                                                  *)

\* Two instances of a kind, of which the second is appended with the first one's address.
LEMMA SameAddress ==
  ASSUME NEW s, NEW i \in Nat \ {0}, NEW j \in Nat, i < j, j <= Len(s), Len(s) \in Nat,
         Numbered(s), Address(s[i]) = Address(s[j]),
         \A g, h \in 1 .. j - 1 : g < h /\ Address(s[g]) = Address(s[h])
            => \E k \in 1 .. g : s[k].kind = s[g].kind /\ Indexed(s[k].name) /\ First(s, k)
  PROVE  \E k \in 1 .. i : s[k].kind = s[i].kind /\ Indexed(s[k].name) /\ First(s, k)
<1>1. s[i].kind = s[j].kind /\ s[i].name = s[j].name
  BY DEF Address
<1>2. i \in 1 .. Len(s) /\ j \in 1 .. Len(s) /\ i \in 1 .. j - 1 /\ i \in 1 .. i
  OBVIOUS
<1>3. ~First(s, j)
  BY <1>1, <1>2 DEF First
<1> DEFINE m == Cardinality(Before(s, i))
           n == Cardinality(Before(s, j))
<1>4. /\ IsFiniteSet(Before(s, j)) /\ n + 1 \in 1 .. Cardinality(Ids)
      /\ EndsWithIndex(s[j].name, n + 1)
  BY <1>2, <1>3 DEF Numbered
<1>5. CASE First(s, i)
  <2>1. Indexed(s[i].name)
    BY <1>1, <1>4, NumbersAssumption DEF EndsWithIndex, Indexed, IsDigit
  <2> QED BY <1>2, <1>5, <2>1
<1>6. CASE ~First(s, i)
  <2>1. m + 1 \in 1 .. Cardinality(Ids) /\ EndsWithIndex(s[i].name, m + 1)
    BY <1>2, <1>6 DEF Numbered
  <2>2. ToString(m + 1) = ToString(n + 1)
    BY <1>1, <1>4, <2>1 DEF EndsWithIndex
  <2>3. m + 1 = n + 1
    BY <1>4, <2>1, <2>2, NumbersAssumption
  <2>4. Before(s, i) \subseteq Before(s, j)
    <3>1. \A l \in 1 .. i - 1 : l \in 1 .. j - 1
      OBVIOUS
    <3> QED BY <1>1, <3>1 DEF Before
  <2>5. m \in Nat /\ n \in Nat
    <3>1. IsFiniteSet(Before(s, i))
      BY <1>4, <2>4, FS_Subset
    <3> QED BY <1>4, <3>1, FS_CardinalityType
  <2>6. Before(s, i) = Before(s, j)
    BY <1>4, <2>3, <2>4, <2>5, FS_Subset
  <2>7. Address(s[i]) \in Before(s, j)
    BY <1>1, <1>2 DEF Before
  <2>8. PICK h \in 1 .. i - 1 : s[h].kind = s[i].kind /\ Address(s[h]) = Address(s[i])
    BY <2>6, <2>7 DEF Before
  <2>9. h \in 1 .. j - 1 /\ h < i /\ 1 .. h \subseteq 1 .. i
    OBVIOUS
  <2>10. PICK k \in 1 .. h : s[k].kind = s[h].kind /\ Indexed(s[k].name) /\ First(s, k)
    BY <1>2, <2>8, <2>9
  <2> QED BY <2>8, <2>9, <2>10
<1> QED BY <1>5, <1>6

LEMMA AppendNumbers ==
  ASSUME TypeOK, ControlInv, RefreshInstance, Numbered(loaded), Unique(loaded)
  PROVE  Numbered(loaded') /\ Unique(loaded')
<1>1. PICK x \in listed, y \in Instances :
            /\ x \in Instances /\ ValidName(x.name) /\ \A z \in Range(loaded) : z.id # x.id
            /\ y = WithIndex(x) /\ y.kind = x.kind
            /\ loaded' \in Seq(Instances)
            /\ DOMAIN loaded = 1 .. Len(loaded) /\ DOMAIN loaded' = 1 .. Len(loaded) + 1
            /\ Len(loaded) \in Nat /\ loaded'[Len(loaded) + 1] = y
            /\ \A i \in 1 .. Len(loaded) : loaded'[i] = loaded[i]
  BY RefreshAppends
<1>2. loaded \in Seq(Instances) /\ DistinctIds
  BY DEF ControlInv
<1> DEFINE l == Len(loaded)
           c == Cardinality(AddressesOf(x.kind))
<1>3. PICK t : t = loaded'
  OBVIOUS
<1>4. PICK s : s = loaded
  OBVIOUS
<1>5. /\ l \in Nat /\ Len(t) = l + 1 /\ Len(s) = l /\ t[l + 1] = y
      /\ \A i \in 1 .. l : t[i] = s[i]
  <2>1. Len(loaded') = l + 1
    BY <1>1, LenProperties
  <2> QED BY <1>1, <1>3, <1>4, <2>1
<1>6. /\ IsFiniteSet(AddressesOf(x.kind)) /\ c \in Nat /\ c + 1 \in 1 .. Cardinality(Ids)
  BY <1>1, <1>2, AddressesAreFew, IndexBound
<1>7. c > 0 => EndsWithIndex(y.name, c + 1)
  BY <1>1, <1>2, WithIndexType DEF EndsWithIndex
<1>8. AddressesOf(x.kind) = {Address(s[k]) : k \in {h \in 1 .. l : s[h].kind = x.kind}}
  BY <1>1, <1>4 DEF AddressesOf, Range
<1> HIDE DEF l, c
<1>9. \A i \in 1 .. l : Before(t, i) = Before(s, i) /\ (First(t, i) <=> First(s, i))
  <2> SUFFICES ASSUME NEW i \in 1 .. l
               PROVE  Before(t, i) = Before(s, i) /\ (First(t, i) <=> First(s, i))
    OBVIOUS
  <2>1. t[i] = s[i] /\ \A k \in 1 .. i - 1 : t[k] = s[k]
    BY <1>5
  <2> QED BY <2>1 DEF Before, First
<1>10. Before(t, l + 1) = AddressesOf(x.kind)
  <2>1. (l + 1) - 1 = l
    BY <1>5
  <2>2. Before(t, l + 1) = {Address(t[k]) : k \in {h \in 1 .. l : t[h].kind = x.kind}}
    BY <1>1, <1>5, <2>1 DEF Before
  <2> QED BY <1>5, <1>8, <2>2
<1>11. ~First(t, l + 1) => c > 0
  <2> SUFFICES ASSUME ~First(t, l + 1) PROVE c > 0
    OBVIOUS
  <2>1. PICK k \in 1 .. (l + 1) - 1 : t[k].kind = t[l + 1].kind
    BY DEF First
  <2>2. Before(t, l + 1) # {}
    BY <2>1 DEF Before
  <2> QED BY <1>6, <1>10, <2>2, FS_EmptySet DEF c
<1>12. \A i \in 1 .. l + 1 : i \in 1 .. l \/ i = l + 1
  BY <1>5
<1>13. Numbered(t)
  <2> SUFFICES ASSUME NEW i \in 1 .. l + 1, ~First(t, i)
               PROVE  /\ IsFiniteSet(Before(t, i))
                      /\ Cardinality(Before(t, i)) + 1 \in 1 .. Cardinality(Ids)
                      /\ EndsWithIndex(t[i].name, Cardinality(Before(t, i)) + 1)
    BY <1>5 DEF Numbered
  <2>1. CASE i \in 1 .. l
    BY <1>4, <1>5, <1>9, <2>1 DEF Numbered
  <2>2. CASE i = l + 1
    BY <1>5, <1>6, <1>7, <1>10, <1>11, <2>2 DEF c
  <2> QED BY <1>12, <2>1, <2>2
<1>14. \A i, j \in 1 .. l : i < j /\ Address(t[i]) = Address(t[j])
          => \E k \in 1 .. i : t[k].kind = t[i].kind /\ Indexed(t[k].name) /\ First(t, k)
  <2> SUFFICES ASSUME NEW i \in 1 .. l, NEW j \in 1 .. l, i < j, Address(t[i]) = Address(t[j])
               PROVE  \E k \in 1 .. i : t[k].kind = t[i].kind /\ Indexed(t[k].name) /\ First(t, k)
    OBVIOUS
  <2>1. t[i] = s[i] /\ t[j] = s[j]
    BY <1>5
  <2>2. PICK k \in 1 .. i : s[k].kind = s[i].kind /\ Indexed(s[k].name) /\ First(s, k)
    BY <1>4, <1>5, <2>1 DEF Unique
  <2>3. k \in 1 .. l
    BY <1>5
  <2>4. t[k] = s[k] /\ First(t, k)
    BY <1>5, <1>9, <2>2, <2>3
  <2> QED BY <2>1, <2>2, <2>4
<1>15. Unique(t)
  <2> SUFFICES ASSUME NEW i \in 1 .. l + 1, NEW j \in 1 .. l + 1, i < j, Address(t[i]) = Address(t[j])
               PROVE  \E k \in 1 .. i : t[k].kind = t[i].kind /\ Indexed(t[k].name) /\ First(t, k)
    BY <1>5 DEF Unique
  <2>1. CASE j \in 1 .. l
    <3>1. i \in 1 .. l
      BY <1>5, <2>1
    <3> QED BY <1>14, <2>1, <3>1
  <2>2. CASE j = l + 1
    <3>1. i \in Nat \ {0} /\ j \in Nat /\ j <= Len(t) /\ Len(t) \in Nat /\ j - 1 = l
      BY <1>5, <2>2
    <3> QED BY <1>13, <1>14, <3>1, SameAddress
  <2> QED BY <1>12, <2>1, <2>2
<1> QED BY <1>3, <1>13, <1>15

\* The blocks are the addresses of the first instances, in order.
LEMMA BlocksAreUnique ==
  ASSUME Unique(loaded), Len(loaded) \in Nat, NEW n \in 0 .. Len(loaded),
         NEW b, b = Blocks(n)
  PROVE  \A i, j \in DOMAIN b : i < j /\ b[i] = b[j]
            => \E k \in 1 .. i : /\ b[k].kind = b[i].kind /\ Indexed(b[k].name)
                                 /\ \A l \in 1 .. k - 1 : b[l].kind # b[k].kind
<1>1. DOMAIN b = 1 .. n
  BY DEF Blocks
<1>2. \A i \in 1 .. n : /\ b[i] = Address(loaded[i])
                        /\ b[i].kind = loaded[i].kind /\ b[i].name = loaded[i].name
  BY DEF Blocks, Address
<1> SUFFICES ASSUME NEW i \in 1 .. n, NEW j \in 1 .. n, i < j, b[i] = b[j]
             PROVE  \E k \in 1 .. i : /\ b[k].kind = b[i].kind /\ Indexed(b[k].name)
                                      /\ \A l \in 1 .. k - 1 : b[l].kind # b[k].kind
  BY <1>1
<1>3. i \in 1 .. Len(loaded) /\ j \in 1 .. Len(loaded) /\ Address(loaded[i]) = Address(loaded[j])
  BY <1>2
<1>4. PICK k \in 1 .. i : /\ loaded[k].kind = loaded[i].kind /\ Indexed(loaded[k].name)
                          /\ First(loaded, k)
  BY <1>3 DEF Unique
<1>5. k \in 1 .. n /\ \A l \in 1 .. k - 1 : l \in 1 .. n
  OBVIOUS
<1>6. \A l \in 1 .. k - 1 : loaded[l].kind # loaded[k].kind
  BY <1>4 DEF First
<1> QED BY <1>2, <1>4, <1>5, <1>6

LEMMA InitAddresses == Init => AddressInv
<1> SUFFICES ASSUME Init PROVE AddressInv
  OBVIOUS
<1>1. Numbered(loaded) /\ Unique(loaded)
  BY DEF Init, Numbered, Unique
<1>2. AddressesAreUnique
  BY DEF Init, AddressesAreUnique
<1> QED BY <1>1, <1>2 DEF AddressInv

LEMMA NextAddresses ==
  ASSUME TypeOK, ControlInv, AddressInv, [Next]_vars
  PROVE  AddressInv'
<1>1. RefreshInstance \/ loaded' = loaded \/ loaded' = <<>>
  <2>1. Create => RefreshInstance \/ loaded' = loaded \/ loaded' = <<>>
    BY DEF Create, LoadInstances, ListPlace, ConnectorsRefused, ListKnownAcls, Visit, ListFails,
       ListsEnd, ImportInstance, RefreshPanics, LoadsEnd, CreateFails, setupOutputFolder,
       FolderBreaksOff, writeHclConfig, ConfigBreaksOff, writeTfState, StateBreaksOff,
       ReplaceProvider, ReplaceProviderFails, EndsWith
  <2>2. Next => Create \/ loaded' = loaded
    BY DEF Next, tfImporterCreate, tfImporterRead, ImportStatePassthrough, tfImporterDelete,
       RemoveState, RemoveStateFails, UserRemovesFolder, UserMakesFolder, DeleteObject,
       CreateObject
  <2>3. UNCHANGED vars => loaded' = loaded
    BY DEF vars
  <2> QED BY <2>1, <2>2, <2>3
<1>2. Numbered(loaded') /\ Unique(loaded')
  <2>1. CASE RefreshInstance
    BY <2>1, AppendNumbers DEF AddressInv
  <2>2. CASE loaded' = loaded
    BY <2>2 DEF AddressInv
  <2>3. CASE loaded' = <<>>
    BY <2>3 DEF Numbered, Unique
  <2> QED BY <1>1, <2>1, <2>2, <2>3
<1>3. \/ config' = config \/ config' = Absent
      \/ \E n \in 0 .. Len(loaded) : config' = [run |-> run, blocks |-> Blocks(n)]
  <2>0. Len(loaded) \in 0 .. Len(loaded)
    <3>1. Len(loaded) \in Nat
      BY DEF ControlInv
    <3> QED BY <3>1
  <2>1. Create => \/ config' = config \/ config' = Absent
                  \/ \E n \in 0 .. Len(loaded) : config' = [run |-> run, blocks |-> Blocks(n)]
    BY <2>0 DEF Create, LoadInstances, ListPlace, ConnectorsRefused, ListKnownAcls, Visit,
       ListFails, ListsEnd, ImportInstance, RefreshInstance, RefreshPanics, LoadsEnd,
       CreateFails, setupOutputFolder, createOrRecreateDirectory, FolderBreaksOff,
       writeHclConfig, ConfigBreaksOff, writeTfState, StateBreaksOff, ReplaceProvider,
       ReplaceProviderFails
  <2>2. Next => Create \/ config' = config \/ config' = Absent
    BY DEF Next, tfImporterCreate, tfImporterRead, ImportStatePassthrough, tfImporterDelete,
       RemoveState, RemoveStateFails, UserRemovesFolder, UserMakesFolder, DeleteObject,
       CreateObject
  <2>3. UNCHANGED vars => config' = config
    BY DEF vars
  <2> QED BY <2>1, <2>2, <2>3
<1>4. AddressesAreUnique'
  <2>1. CASE config' = config
    BY <2>1 DEF AddressInv, AddressesAreUnique
  <2>2. CASE config' = Absent
    BY <2>2 DEF AddressesAreUnique
  <2>3. ASSUME NEW n \in 0 .. Len(loaded), config' = [run |-> run, blocks |-> Blocks(n)]
        PROVE  AddressesAreUnique'
    <3>1. config'.blocks = Blocks(n)
      BY <2>3
    <3>2. Unique(loaded) /\ Len(loaded) \in Nat
      BY DEF AddressInv, ControlInv
    <3>3. PICK b : b = Blocks(n)
      OBVIOUS
    <3> QED BY <3>1, <3>2, <3>3, BlocksAreUnique DEF AddressesAreUnique
  <2> QED BY <1>3, <2>1, <2>2, <2>3
<1> QED BY <1>2, <1>4 DEF AddressInv

---------------------------------------------------------------------------
(* The theorem.                                                            *)

\* Two resource blocks of main.tf, of a create that is over or broke off while writing,
\* have the same address only if the first instance of their kind is itself called like a
\* name with an index: the indices of the others are all different as long as their
\* addresses are, since each is the number of addresses before it.
THEOREM AddressesAreTold == Spec => []AddressesAreUnique
<1>1. IInv => TypeOK /\ ControlInv
  BY DEF IInv
<1>2. AddressInv /\ TypeOK /\ ControlInv /\ [Next]_vars => AddressInv'
  BY NextAddresses
<1>3. AddressInv => AddressesAreUnique
  BY DEF AddressInv
<1> QED BY <1>1, <1>2, <1>3, InitAddresses, Invariant, PTL DEF Spec
=============================================================================
