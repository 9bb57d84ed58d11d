------------------------ MODULE ResourceCatalog_proofs ------------------------
(***************************************************************************)
(* The handlers of the provider keep the disciplines that the theorems of  *)
(* ResourceLifecycle_proofs and HandlerShapes_proofs assume, shown kind by *)
(* kind; so that those theorems hold of the provider.                      *)
(***************************************************************************)
EXTENDS HandlerShapes_proofs

-----------------------------------------------------------------------------
(* The disciplines, handler by handler. *)

\* What Disciplined asks of the handlers h of a kind k.
KeepsDisciplines(k, h) ==
    /\ k \notin SettingKinds \cup LateIdKinds => KeepsTrack(h)
    /\ k \notin DescribeFirstKinds => ClassifiesRefusals(h)
    /\ ReadyOnReturn(h)
    /\ ReadsBack(h, Both \ Secrets(k))
    /\ k \in WaitingKinds => WaitsForItsEnd(h)
    /\ SendsThePlan(h)

\* The same, handler by handler.
Asks(k, s) ==
    \A i \in 1 .. Len(s) : s[i].do = "get" =>
        /\ s[i].how # "blind"
        /\ k \notin DescribeFirstKinds => s[i].how \in {"ClassifyThenDescribe", "StatusIsNotFound"}
Quiet(s) == \A i \in 1 .. Len(s) : s[i].do \notin {"post", "setId"}
AtOnce(s) == \A i \in 1 .. Len(s) : s[i].do = "post" => s[i].how # "provisioning"
Hard(s) == \A i \in 1 .. Len(s) : s[i].do # "softDelete"
ReadsAll(k, s) == \A p \in Both \ Secrets(k) : \E i \in 1 .. Len(s) : ReadsBackAt(s, i, p)
Sends(s, mutable) ==
    \A h : h.naming # "once" =>
        \A changed \in SUBSET mutable : \A p \in changed :
            \E i \in 1 .. Len(s) : SendsAt(h, s, i, p, changed)
Reposts(s) ==
    \A i \in 1 .. Len(s) : s[i].do = "setId" =>
        \E j \in 1 .. (i - 1) : s[j].do = "post" /\ s[j].how # "ifSecond"
OnePostOf(s) == \A i, j \in 1 .. Len(s) : s[i].do = "post" /\ s[j].do = "post" => i = j

FineCreate(k, s) ==
    /\ Asks(k, s) /\ Hard(s) /\ ReadsAll(k, s) /\ Sends(s, PartNames) /\ OnePostOf(s)
    /\ AtOnce(s) \/ WaitsForItsPost(s)
    /\ k \notin LateIdKinds => SetsIdAtOnce(s)
FineRead(k, s) == Asks(k, s) /\ Hard(s) /\ ReadsAll(k, s) /\ Quiet(s)
FineUpdate(k, s, mutable, naming) ==
    /\ Asks(k, s) /\ Hard(s) /\ Sends(s, mutable) /\ AtOnce(s)
    /\ Quiet(s) \/ (naming # "minted" /\ Reposts(s))
FineDelete(k, s) ==
    /\ Quiet(s) /\ \A i \in 1 .. Len(s) : s[i].do # "get"
    /\ k \notin SettingKinds => Deletes(s)
    /\ k \in WaitingKinds =>
           /\ s # << >> /\ Hard(s)
           /\ s[Len(s)].do = "waitGone" /\ s[Len(s)].how \notin {"blind", "ifSecond"}

\* A resource all of whose handlers are fine keeps the disciplines.
LEMMA Assembled ==
    ASSUME NEW k, NEW create, NEW read, NEW update, NEW delete, NEW import, NEW mutable, NEW naming,
           FineCreate(k, create), FineRead(k, read), FineUpdate(k, update, mutable, naming),
           FineDelete(k, delete), FineRead(k, import), naming # "once"
    PROVE  KeepsDisciplines(k, Resource(create, read, update, delete, import, mutable, naming))
<1> DEFINE h == Resource(create, read, update, delete, import, mutable, naming)
<1>1. /\ h.create = create /\ h.read = read /\ h.update = update /\ h.delete = delete
      /\ h.import = import /\ h.mutable = mutable /\ h.naming = naming
      /\ h["create"] = create /\ h["read"] = read /\ h["update"] = update
      /\ h["delete"] = delete /\ h["import"] = import
  BY DEF Resource
<1> HIDE DEF h
<1> USE DEF Ops
<1>2. CreatesNothing(h) \/ RegistersAgain(h)
  <2>1. CASE Quiet(update)
    BY <1>1, <2>1 DEF CreatesNothing, FineRead, FineDelete, Quiet
  <2>2. CASE naming # "minted" /\ Reposts(update)
    BY <1>1, <2>2 DEF RegistersAgain, FineRead, FineDelete, Quiet, Reposts
  <2> QED BY <2>1, <2>2 DEF FineUpdate
<1>3. k \notin SettingKinds \cup LateIdKinds => KeepsTrack(h)
  <2>1. AsksForItsObject(h)
    BY <1>1 DEF AsksForItsObject, FineCreate, FineRead, FineUpdate, FineDelete, Asks
  <2> QED BY <1>1, <1>2, <2>1 DEF KeepsTrack, FineCreate, FineDelete
<1>4. k \notin DescribeFirstKinds => ClassifiesRefusals(h)
  BY <1>1 DEF ClassifiesRefusals, FineCreate, FineRead, FineUpdate, FineDelete, Asks
<1>5. ReadyOnReturn(h)
  BY <1>1 DEF ReadyOnReturn, NeverProvisions, FineCreate, FineRead, FineUpdate, FineDelete,
           AtOnce, Quiet
<1>6. ReadsBack(h, Both \ Secrets(k))
  BY <1>1 DEF ReadsBack, FineCreate, FineRead, ReadsAll
<1>7. k \in WaitingKinds => WaitsForItsEnd(h)
  BY <1>1 DEF WaitsForItsEnd, FineCreate, FineRead, FineUpdate, FineDelete, Hard, Quiet
<1>8. SendsThePlan(h)
  <2>1. /\ \A changed \in SUBSET PartNames : \A p \in changed :
              \E i \in 1 .. Len(create) : SendsAt(h, create, i, p, changed)
        /\ \A changed \in SUBSET mutable : \A p \in changed :
              \E i \in 1 .. Len(update) : SendsAt(h, update, i, p, changed)
    BY <1>1 DEF FineCreate, FineUpdate, Sends
  <2>2. naming = "minted" => CreatesNothing(h)
    BY <1>1, <1>2 DEF RegistersAgain
  <2> QED BY <1>1, <2>1, <2>2 DEF SendsThePlan, FineCreate, OnePostOf
<1> QED BY <1>3, <1>4, <1>5, <1>6, <1>7, <1>8 DEF KeepsDisciplines, h

-----------------------------------------------------------------------------
(* The forms that handlers have. *)

\* A read handler of the kind: one GET.
IsGet(k, read) ==
    \E how \in Manners, parts \in SUBSET PartNames :
        /\ read = <<Get(how, parts)>>
        /\ how \notin {"blind", "ifSecond"}
        /\ k \notin DescribeFirstKinds => how \in {"ClassifyThenDescribe", "StatusIsNotFound"}
        /\ Both \ Secrets(k) \subseteq parts

\* The three ways to read, and those that leave a secret alone, are such reads.
LEMMA Reads ==
    ASSUME NEW k
    PROVE  /\ IsGet(k, ClassifiesFirst) /\ IsGet(k, ChecksStatus)
           /\ k \in DescribeFirstKinds => IsGet(k, DescribesFirst)
           /\ k \in SecretKinds => IsGet(k, KeepsSecret("ClassifyThenDescribe"))
                                   /\ IsGet(k, KeepsSecret("StatusIsNotFound"))
           /\ k \in SecretKinds /\ k \in DescribeFirstKinds => IsGet(k, KeepsSecret("DescribeThenClassify"))
<1>1. Both \in SUBSET PartNames /\ First \in SUBSET PartNames
  BY DEF Both, First, PartNames
<1>2. k \in SecretKinds => Both \ Secrets(k) \subseteq First
  BY DEF Both, First, Second, PartNames, Secrets
<1> HIDE DEF Both, First, PartNames
<1>3. IsGet(k, ClassifiesFirst)
  BY <1>1 DEF IsGet, ClassifiesFirst, Manners
<1>4. IsGet(k, ChecksStatus)
  BY <1>1 DEF IsGet, ChecksStatus, Manners
<1>5. k \in DescribeFirstKinds => IsGet(k, DescribesFirst)
  BY <1>1 DEF IsGet, DescribesFirst, Manners
<1>6. k \in SecretKinds => IsGet(k, KeepsSecret("ClassifyThenDescribe"))
  BY <1>1, <1>2 DEF IsGet, KeepsSecret, Manners
<1>7. k \in SecretKinds => IsGet(k, KeepsSecret("StatusIsNotFound"))
  BY <1>1, <1>2 DEF IsGet, KeepsSecret, Manners
<1>8. k \in SecretKinds /\ k \in DescribeFirstKinds => IsGet(k, KeepsSecret("DescribeThenClassify"))
  BY <1>1, <1>2 DEF IsGet, KeepsSecret, Manners
<1> QED BY <1>3, <1>4, <1>5, <1>6, <1>7, <1>8

\* The steps before the read that ends most handlers read nothing; what they owe
\* the disciplines, the whole handler then keeps.
Unread(s) == \A i \in 1 .. Len(s) : s[i].do # "get"

\* A handler that ends with the read keeps what its steps before it keep.
LEMMA ThenReads ==
    ASSUME NEW k, NEW read, IsGet(k, read), NEW pre \in Seq(Steps), Unread(pre), Hard(pre)
    PROVE  /\ Asks(k, pre \o read) /\ Hard(pre \o read) /\ ReadsAll(k, pre \o read)
           /\ Quiet(pre) => Quiet(pre \o read)
           /\ AtOnce(pre) => AtOnce(pre \o read)
           /\ OnePostOf(pre) => OnePostOf(pre \o read)
           /\ WaitsForItsPost(pre) => WaitsForItsPost(pre \o read)
           /\ SetsIdAtOnce(pre) => SetsIdAtOnce(pre \o read)
           /\ \A mutable : Sends(pre, mutable) => Sends(pre \o read, mutable)
<1>1. PICK how \in Manners, parts \in SUBSET PartNames :
        /\ read = <<Get(how, parts)>>
        /\ how \notin {"blind", "ifSecond"}
        /\ k \notin DescribeFirstKinds => how \in {"ClassifyThenDescribe", "StatusIsNotFound"}
        /\ Both \ Secrets(k) \subseteq parts
  BY DEF IsGet
<1> DEFINE s == pre \o read
<1> DEFINE n == Len(pre)
<1>2. n \in Nat /\ Len(s) = n + 1 /\ (\A i \in 1 .. n : s[i] = pre[i]) /\ s[n + 1] = Get(how, parts)
      /\ 1 .. Len(s) = (1 .. n) \cup {n + 1}
  <2>1. Get(how, parts) \in Steps
    BY DEF Get, Step, Steps, StepNames
  <2> QED BY <1>1, <2>1
<1>3. /\ s[n + 1].do = "get" /\ s[n + 1].how = how /\ s[n + 1].parts = parts
  BY <1>2 DEF Get, Step
<1> HIDE DEF s, n
<1>4. Asks(k, s) /\ Hard(s)
  BY <1>1, <1>2, <1>3 DEF Asks, Hard, Unread, n
<1>5. ReadsAll(k, s)
  <2>1. (n + 2) .. Len(s) = {}
    BY <1>2
  <2> QED BY <1>1, <1>2, <1>3, <2>1 DEF ReadsAll, ReadsBackAt
<1>6. Quiet(pre) => Quiet(s)
  BY <1>2, <1>3 DEF Quiet, n
<1>7. AtOnce(pre) => AtOnce(s)
  BY <1>2, <1>3 DEF AtOnce, n
<1>8. OnePostOf(pre) => OnePostOf(s)
  BY <1>2, <1>3 DEF OnePostOf, n
<1>9. WaitsForItsPost(pre) => WaitsForItsPost(s)
  BY <1>2, <1>3 DEF WaitsForItsPost, n
<1>10. SetsIdAtOnce(pre) => SetsIdAtOnce(s)
  BY <1>2, <1>3 DEF SetsIdAtOnce, n
<1>11. ASSUME NEW mutable, Sends(pre, mutable) PROVE Sends(s, mutable)
  <2> SUFFICES ASSUME NEW h, h.naming # "once", NEW changed \in SUBSET mutable, NEW p \in changed
               PROVE  \E i \in 1 .. Len(s) : SendsAt(h, s, i, p, changed)
    BY DEF Sends
  <2>1. PICK i \in 1 .. n : SendsAt(h, pre, i, p, changed)
    BY <1>11 DEF Sends, n
  <2>2. /\ i \in 1 .. Len(s) /\ s[i] = pre[i]
        /\ \A j \in 1 .. (i - 1) : s[j] = pre[j]
        /\ \A j \in (i + 1) .. Len(s) : j = n + 1 \/ (j \in (i + 1) .. n /\ s[j] = pre[j])
    <3>1. i \in Nat /\ i <= n /\ i >= 1
      BY <1>2
    <3>2. \A j \in 1 .. (i - 1) : j \in 1 .. n
      BY <1>2, <3>1
    <3>3. \A j \in (i + 1) .. Len(s) : j = n + 1 \/ (j \in (i + 1) .. n /\ j \in 1 .. n)
      BY <1>2, <3>1
    <3> QED BY <1>2, <3>2, <3>3
  <2>3. \A j, g \in 1 .. Len(s) : s[j].how = "ifSecond" /\ s[g].do = "get" => j < g
    <3>1. \A j \in 1 .. Len(s) : s[j].how = "ifSecond" => j \in 1 .. n
      BY <1>1, <1>2, <1>3
    <3>2. \A g \in 1 .. Len(s) : s[g].do = "get" => g = n + 1
      BY <1>2, <1>3 DEF Unread, n
    <3> QED BY <1>2, <3>1, <3>2
  <2>4. SendsAt(h, s, i, p, changed)
    BY <1>2, <1>3, <2>1, <2>2, <2>3 DEF SendsAt, n
  <2> QED BY <2>2, <2>4
<1> QED BY <1>4, <1>5, <1>6, <1>7, <1>8, <1>9, <1>10, <1>11 DEF s

\* Short sequences.
LEMMA ShortSeqs ==
    ASSUME NEW S, NEW a \in S, NEW b \in S, NEW c \in S, NEW e \in S, NEW f \in S
    PROVE  /\ <<a>> \in Seq(S) /\ Len(<<a>>) = 1 /\ <<a>>[1] = a
           /\ <<a, b>> \in Seq(S) /\ Len(<<a, b>>) = 2 /\ <<a, b>>[1] = a /\ <<a, b>>[2] = b
           /\ /\ <<a, b, c>> \in Seq(S) /\ Len(<<a, b, c>>) = 3
              /\ <<a, b, c>>[1] = a /\ <<a, b, c>>[2] = b /\ <<a, b, c>>[3] = c
           /\ /\ <<a, b, c, e>> \in Seq(S) /\ Len(<<a, b, c, e>>) = 4
              /\ <<a, b, c, e>>[1] = a /\ <<a, b, c, e>>[2] = b /\ <<a, b, c, e>>[3] = c
              /\ <<a, b, c, e>>[4] = e
           /\ /\ <<a, b, c, e, f>> \in Seq(S) /\ Len(<<a, b, c, e, f>>) = 5
              /\ <<a, b, c, e, f>>[1] = a /\ <<a, b, c, e, f>>[2] = b /\ <<a, b, c, e, f>>[3] = c
              /\ <<a, b, c, e, f>>[4] = e /\ <<a, b, c, e, f>>[5] = f
OBVIOUS

\* What the steps of creates do.
LEMMA StepFacts ==
    /\ MarkNewResource.do = "markNew" /\ SetId.do = "setId" /\ Check.do = "check"
    /\ WaitReady.do = "waitReady" /\ Fetch.do = "fetch" /\ CheckOrRevert.do = "check"
    /\ Post.do = "post" /\ Post.how = "ready"
    /\ PostProvisions.do = "post" /\ PostProvisions.how = "provisioning"
    /\ CheckOrRevert.how = "revert"
    /\ MarkNewResource.how = "" /\ SetId.how = "" /\ Check.how = "" /\ WaitReady.how = ""
    /\ Fetch.how = ""
    /\ {MarkNewResource, SetId, Check, CheckOrRevert, WaitReady, Fetch, Post, PostProvisions}
          \subseteq Steps
<1> USE DEF MarkNewResource, SetId, Check, CheckOrRevert, WaitReady, Fetch, Post, PostProvisions,
            Step
<1>1. /\ MarkNewResource.do = "markNew" /\ SetId.do = "setId" /\ Check.do = "check"
      /\ WaitReady.do = "waitReady" /\ Fetch.do = "fetch" /\ CheckOrRevert.do = "check"
      /\ Post.do = "post" /\ Post.how = "ready"
      /\ PostProvisions.do = "post" /\ PostProvisions.how = "provisioning"
      /\ CheckOrRevert.how = "revert"
  OBVIOUS
<1>2. /\ MarkNewResource.how = "" /\ SetId.how = "" /\ Check.how = "" /\ WaitReady.how = ""
      /\ Fetch.how = ""
  OBVIOUS
<1>3. /\ {MarkNewResource, SetId, Check, CheckOrRevert, WaitReady, Fetch, Post, PostProvisions}
          \subseteq Steps
  BY DEF Steps, StepNames, Manners, Both, PartNames
<1> QED BY <1>1, <1>2, <1>3

\* The read and the import handlers.
LEMMA TheRead ==
    ASSUME NEW k, NEW read, IsGet(k, read)
    PROVE  FineRead(k, read) /\ FineRead(k, <<MarkNewResource>> \o read)
<1>1. FineRead(k, <<MarkNewResource>> \o read)
  <2>1. <<MarkNewResource>> \in Seq(Steps)
    BY DEF MarkNewResource, Step, Steps, StepNames, Manners
  <2>2. Unread(<<MarkNewResource>>) /\ Hard(<<MarkNewResource>>) /\ Quiet(<<MarkNewResource>>)
    <3>1. \A i \in 1 .. Len(<<MarkNewResource>>) : <<MarkNewResource>>[i] = MarkNewResource
      OBVIOUS
    <3> QED BY <3>1, StepFacts DEF Unread, Hard, Quiet
  <2> QED BY <2>1, <2>2, ThenReads DEF FineRead
<1>2. FineRead(k, read)
  <2>1. << >> \in Seq(Steps) /\ << >> \o read = read
    BY DEF IsGet, Get, Step, Steps, StepNames
  <2>2. Unread(<< >>) /\ Hard(<< >>) /\ Quiet(<< >>)
    BY DEF Unread, Hard, Quiet
  <2> QED BY <2>1, <2>2, ThenReads DEF FineRead
<1> QED BY <1>1, <1>2

\* The five forms of a create handler.
LEMMA Creates ==
    ASSUME NEW k, NEW read, IsGet(k, read)
    PROVE  /\ FineCreate(k, <<Post, SetId>> \o read)
           /\ FineCreate(k, <<PostProvisions, SetId, WaitReady>> \o read)
           /\ FineCreate(k, <<PostProvisions, SetId, WaitReady, Check>> \o read)
           /\ k \in LateIdKinds => /\ FineCreate(k, <<PostProvisions, WaitReady, SetId>> \o read)
                                   /\ FineCreate(k, <<PostProvisions, Fetch, SetId, WaitReady>> \o read)
<1>1. ASSUME NEW pre \in Seq(Steps), Len(pre) > 1, pre[1] \in {Post, PostProvisions},
             pre[1] = Post \/ \E w \in 2 .. Len(pre) : pre[w] = WaitReady,
             \A i \in 2 .. Len(pre) : pre[i] \in {SetId, WaitReady, Check, Fetch},
             k \notin LateIdKinds => pre[2] = SetId
      PROVE  FineCreate(k, pre \o read)
  <2>1. /\ Len(pre) \in Nat /\ 1 .. Len(pre) = {1} \cup 2 .. Len(pre)
        /\ pre[1].do = "post" /\ pre[1].how # "ifSecond"
        /\ \A i \in 2 .. Len(pre) : /\ pre[i].do \notin {"post", "get", "softDelete", "disturb"}
                                    /\ pre[i].how # "ifSecond"
    <3>1. pre[1].do = "post" /\ pre[1].how # "ifSecond"
      BY <1>1, StepFacts
    <3>2. \A i \in 2 .. Len(pre) : /\ pre[i].do \notin {"post", "get", "softDelete", "disturb"}
                                   /\ pre[i].how # "ifSecond"
      BY <1>1, StepFacts
    <3> QED BY <1>1, <3>1, <3>2
  <2>2. Unread(pre) /\ Hard(pre) /\ OnePostOf(pre)
    BY <2>1 DEF Unread, Hard, OnePostOf
  <2>3. AtOnce(pre) \/ WaitsForItsPost(pre)
    <3>1. CASE pre[1] = Post
      BY <2>1, <3>1 DEF AtOnce, Post, Step
    <3>2. CASE \E w \in 2 .. Len(pre) : pre[w] = WaitReady
      BY <2>1, <3>2 DEF WaitsForItsPost
    <3> QED BY <1>1, <3>1, <3>2
  <2>4. k \notin LateIdKinds => SetsIdAtOnce(pre)
    BY <1>1, <2>1 DEF SetsIdAtOnce
  <2>5. Sends(pre, PartNames)
    <3>1. \A h, p, changed : h.naming # "once" => SendsAt(h, pre, 1, p, changed)
      BY <2>1 DEF SendsAt
    <3> QED BY <1>1, <2>1, <3>1 DEF Sends
  <2> QED BY <1>1, <2>2, <2>3, <2>4, <2>5, ThenReads DEF FineCreate
<1>2. FineCreate(k, <<Post, SetId>> \o read)
  <2> DEFINE pre == <<Post, SetId>>
  <2>1. pre \in Seq(Steps) /\ Len(pre) = 2 /\ pre[1] = Post /\ pre[2] = SetId
    BY StepFacts, ShortSeqs
  <2>2. 2 .. 2 = {2}
    OBVIOUS
  <2> HIDE DEF pre
  <2>3. FineCreate(k, pre \o read)
    BY <1>1, <2>1, <2>2
  <2> QED BY <2>3 DEF pre
<1>3. FineCreate(k, <<PostProvisions, SetId, WaitReady>> \o read)
  <2> DEFINE pre == <<PostProvisions, SetId, WaitReady>>
  <2>1. /\ pre \in Seq(Steps) /\ Len(pre) = 3
        /\ pre[1] = PostProvisions /\ pre[2] = SetId /\ pre[3] = WaitReady
    BY StepFacts, ShortSeqs
  <2>2. 2 .. 3 = {2, 3}
    OBVIOUS
  <2> HIDE DEF pre
  <2>3. FineCreate(k, pre \o read)
    BY <1>1, <2>1, <2>2
  <2> QED BY <2>3 DEF pre
<1>4. FineCreate(k, <<PostProvisions, SetId, WaitReady, Check>> \o read)
  <2> DEFINE pre == <<PostProvisions, SetId, WaitReady, Check>>
  <2>1. /\ pre \in Seq(Steps) /\ Len(pre) = 4
        /\ pre[1] = PostProvisions /\ pre[2] = SetId /\ pre[3] = WaitReady /\ pre[4] = Check
    BY StepFacts, ShortSeqs
  <2>2. 2 .. 4 = {2, 3, 4}
    OBVIOUS
  <2> HIDE DEF pre
  <2>3. FineCreate(k, pre \o read)
    BY <1>1, <2>1, <2>2
  <2> QED BY <2>3 DEF pre
<1>5. k \in LateIdKinds => FineCreate(k, <<PostProvisions, WaitReady, SetId>> \o read)
  <2> DEFINE pre == <<PostProvisions, WaitReady, SetId>>
  <2>1. /\ pre \in Seq(Steps) /\ Len(pre) = 3
        /\ pre[1] = PostProvisions /\ pre[2] = WaitReady /\ pre[3] = SetId
    BY StepFacts, ShortSeqs
  <2>2. 2 .. 3 = {2, 3}
    OBVIOUS
  <2> HIDE DEF pre
  <2>3. k \in LateIdKinds => FineCreate(k, pre \o read)
    BY <1>1, <2>1, <2>2
  <2> QED BY <2>3 DEF pre
<1>6. k \in LateIdKinds => FineCreate(k, <<PostProvisions, Fetch, SetId, WaitReady>> \o read)
  <2> DEFINE pre == <<PostProvisions, Fetch, SetId, WaitReady>>
  <2>1. /\ pre \in Seq(Steps) /\ Len(pre) = 4
        /\ pre[1] = PostProvisions /\ pre[2] = Fetch /\ pre[3] = SetId /\ pre[4] = WaitReady
    BY StepFacts, ShortSeqs
  <2>2. 2 .. 4 = {2, 3, 4}
    OBVIOUS
  <2> HIDE DEF pre
  <2>3. k \in LateIdKinds => FineCreate(k, pre \o read)
    BY <1>1, <2>1, <2>2
  <2> QED BY <2>3 DEF pre
<1> QED BY <1>2, <1>3, <1>4, <1>5, <1>6

\* What the steps of updates and deletions do.
LEMMA MoreStepFacts ==
    /\ \A parts \in SUBSET PartNames :
           /\ {Patch(parts), PatchOrRevert(parts), PatchIfSecond(parts), Disturb(parts),
               DisturbIfSecond(parts)} \subseteq Steps
           /\ Patch(parts).do = "patch" /\ Patch(parts).how = "" /\ Patch(parts).parts = parts
           /\ /\ PatchOrRevert(parts).do = "patch" /\ PatchOrRevert(parts).how = "revert"
              /\ PatchOrRevert(parts).parts = parts
           /\ /\ PatchIfSecond(parts).do = "patch" /\ PatchIfSecond(parts).how = "ifSecond"
              /\ PatchIfSecond(parts).parts = parts
           /\ Disturb(parts).do = "disturb" /\ Disturb(parts).how = ""
           /\ DisturbIfSecond(parts).do = "disturb" /\ DisturbIfSecond(parts).how = "ifSecond"
    /\ \A how \in Manners : /\ WaitGone(how) \in Steps
                            /\ WaitGone(how).do = "waitGone" /\ WaitGone(how).how = how
    /\ {Delete, DeleteTolerant, DeleteRetries, SoftDelete, HardDelete} \subseteq Steps
    /\ Delete.do = "delete" /\ Delete.how = ""
    /\ DeleteTolerant.do = "delete" /\ DeleteTolerant.how = "tolerant"
    /\ DeleteRetries.do = "delete" /\ DeleteRetries.how = "retries"
    /\ SoftDelete.do = "softDelete" /\ SoftDelete.how = "" /\ HardDelete.do = "hardDelete"
<1>1. ASSUME NEW parts \in SUBSET PartNames
      PROVE  /\ {Patch(parts), PatchOrRevert(parts), PatchIfSecond(parts), Disturb(parts),
                 DisturbIfSecond(parts)} \subseteq Steps
             /\ Patch(parts).do = "patch" /\ Patch(parts).how = "" /\ Patch(parts).parts = parts
             /\ /\ PatchOrRevert(parts).do = "patch" /\ PatchOrRevert(parts).how = "revert"
                /\ PatchOrRevert(parts).parts = parts
             /\ /\ PatchIfSecond(parts).do = "patch" /\ PatchIfSecond(parts).how = "ifSecond"
                /\ PatchIfSecond(parts).parts = parts
             /\ Disturb(parts).do = "disturb" /\ Disturb(parts).how = ""
             /\ DisturbIfSecond(parts).do = "disturb" /\ DisturbIfSecond(parts).how = "ifSecond"
  BY DEF Patch, PatchOrRevert, PatchIfSecond, Disturb, DisturbIfSecond, Step, Steps, StepNames,
           Manners
<1>2. ASSUME NEW how \in Manners
      PROVE  WaitGone(how) \in Steps /\ WaitGone(how).do = "waitGone" /\ WaitGone(how).how = how
  BY DEF WaitGone, Step, Steps, StepNames
<1>3. {Delete, DeleteTolerant, DeleteRetries, SoftDelete, HardDelete} \subseteq Steps
  BY DEF Delete, DeleteTolerant, DeleteRetries, SoftDelete, HardDelete, Step, Steps, StepNames,
           Manners
<1>4. /\ Delete.do = "delete" /\ Delete.how = ""
      /\ DeleteTolerant.do = "delete" /\ DeleteTolerant.how = "tolerant"
      /\ DeleteRetries.do = "delete" /\ DeleteRetries.how = "retries"
      /\ SoftDelete.do = "softDelete" /\ SoftDelete.how = "" /\ HardDelete.do = "hardDelete"
  BY DEF Delete, DeleteTolerant, DeleteRetries, SoftDelete, HardDelete, Step
<1> QED BY <1>1, <1>2, <1>3, <1>4

\* A sequence of one step.
LEMMA OneStep ==
    ASSUME NEW a \in Steps
    PROVE  <<a>> \in Seq(Steps) /\ Len(<<a>>) = 1 /\ <<a>>[1] = a
OBVIOUS

\* The update handlers that only send: what they patch, a plan may change.
Patching(s, mutable) ==
    /\ \A i \in 1 .. Len(s) : /\ s[i].do \in {"patch", "check", "waitReady", "fetch"}
                              /\ s[i].how \notin {"ifSecond", "tolerant"}
    /\ \A p \in mutable : \E i \in 1 .. Len(s) : s[i].do = "patch" /\ p \in s[i].parts

\* They are fine updates, with the read after them or without.
LEMMA Patches ==
    ASSUME NEW k, NEW s \in Seq(Steps), NEW mutable, NEW naming, Patching(s, mutable)
    PROVE  /\ FineUpdate(k, s, mutable, naming)
           /\ \A read : IsGet(k, read) => FineUpdate(k, s \o read, mutable, naming)
<1>1. Unread(s) /\ Hard(s) /\ Quiet(s) /\ AtOnce(s) /\ Asks(k, s)
  BY DEF Patching, Unread, Hard, Quiet, AtOnce, Asks
<1>2. Sends(s, mutable)
  <2> SUFFICES ASSUME NEW h, h.naming # "once", NEW changed \in SUBSET mutable, NEW p \in changed
               PROVE  \E i \in 1 .. Len(s) : SendsAt(h, s, i, p, changed)
    BY DEF Sends
  <2>1. PICK i \in 1 .. Len(s) : s[i].do = "patch" /\ p \in s[i].parts
    BY DEF Patching
  <2>2. /\ \A j \in 1 .. (i - 1) : j \in 1 .. Len(s)
        /\ \A j \in (i + 1) .. Len(s) : j \in 1 .. Len(s)
    BY <2>1
  <2>3. SendsAt(h, s, i, p, changed)
    BY <2>1, <2>2 DEF SendsAt, Patching
  <2> QED BY <2>3
<1> QED BY <1>1, <1>2, ThenReads DEF FineUpdate

\* The forms of an update handler.
LEMMA Updates ==
    ASSUME NEW k, NEW naming, NEW read, IsGet(k, read)
    PROVE  /\ FineUpdate(k, << >>, {}, naming)
           /\ FineUpdate(k, read, {}, naming)
           /\ FineUpdate(k, <<Patch(First)>> \o read, First, naming)
           /\ FineUpdate(k, <<Patch(Both)>> \o read, Both, naming)
           /\ FineUpdate(k, <<Patch(Second), Patch(First)>> \o read, Both, naming)
           /\ FineUpdate(k, <<Fetch, Patch(First), WaitReady>> \o read, First, naming)
           /\ FineUpdate(k, <<CheckOrRevert, Patch(First), WaitReady>> \o read, First, naming)
           /\ FineUpdate(k, <<PatchOrRevert(First), Patch(Second), Fetch>>, Both, naming)
           /\ FineUpdate(k, <<Patch(First), Check, Patch(Second), WaitReady, Patch(Second)>> \o read, Both, naming)
           /\ FineUpdate(k, <<Check, Patch(First), WaitReady, Patch(Second), WaitReady>> \o read, Both, naming)
<1>1. First \in SUBSET PartNames /\ Second \in SUBSET PartNames /\ Both \in SUBSET PartNames
  BY DEF First, Second, Both, PartNames
<1>2. /\ Patch(First) \in Steps /\ Patch(First).do = "patch" /\ Patch(First).how = ""
      /\ Patch(Second) \in Steps /\ Patch(Second).do = "patch" /\ Patch(Second).how = ""
      /\ Patch(Both) \in Steps /\ Patch(Both).do = "patch" /\ Patch(Both).how = ""
      /\ /\ PatchOrRevert(First) \in Steps /\ PatchOrRevert(First).do = "patch"
         /\ PatchOrRevert(First).how = "revert"
  <2>1. ASSUME NEW parts \in SUBSET PartNames
        PROVE  /\ Patch(parts) \in Steps /\ Patch(parts).do = "patch" /\ Patch(parts).how = ""
               /\ /\ PatchOrRevert(parts) \in Steps /\ PatchOrRevert(parts).do = "patch"
                  /\ PatchOrRevert(parts).how = "revert"
    BY MoreStepFacts
  <2> QED BY <1>1, <2>1
<1>3. /\ \A p \in First : p \in Patch(First).parts /\ p \in PatchOrRevert(First).parts
     /\ \A p \in Both : /\ p \in Patch(Both).parts
                        /\ \/ p \in Patch(First).parts /\ p \in PatchOrRevert(First).parts
                           \/ p \in Patch(Second).parts
  BY DEF First, Second, Both, PartNames, Patch, PatchOrRevert, Step
<1> DEFINE Fine(s, mutable) == s \in Seq(Steps) /\ Patching(s, mutable)
<1>4. Fine(<< >>, {})
  BY DEF Patching
<1>5. Fine(<<Patch(First)>>, First)
  <2> DEFINE s == <<Patch(First)>>
  <2>1. /\ s \in Seq(Steps) /\ Len(s) = 1
        /\ s[1] = Patch(First)
    BY <1>2, OneStep
  <2>2. 1 .. 1 = {1}
    OBVIOUS
  <2> HIDE DEF s
  <2>3. Fine(s, First)
    BY <1>3, <1>2, <2>1, <2>2, StepFacts DEF Patching
  <2> QED BY <2>3 DEF s
<1>6. Fine(<<Patch(Both)>>, Both)
  <2> DEFINE s == <<Patch(Both)>>
  <2>1. /\ s \in Seq(Steps) /\ Len(s) = 1
        /\ s[1] = Patch(Both)
    BY <1>2, OneStep
  <2>2. 1 .. 1 = {1}
    OBVIOUS
  <2> HIDE DEF s
  <2>3. Fine(s, Both)
    BY <1>3, <1>2, <2>1, <2>2, StepFacts DEF Patching
  <2> QED BY <2>3 DEF s
<1>7. Fine(<<Patch(Second), Patch(First)>>, Both)
  <2> DEFINE s == <<Patch(Second), Patch(First)>>
  <2>1. /\ s \in Seq(Steps) /\ Len(s) = 2
        /\ s[1] = Patch(Second) /\ s[2] = Patch(First)
    BY <1>2, StepFacts, ShortSeqs
  <2>2. 1 .. 2 = {1, 2}
    OBVIOUS
  <2> HIDE DEF s
  <2>3. Fine(s, Both)
    BY <1>3, <1>2, <2>1, <2>2, StepFacts DEF Patching
  <2> QED BY <2>3 DEF s
<1>8. Fine(<<Fetch, Patch(First), WaitReady>>, First)
  <2> DEFINE s == <<Fetch, Patch(First), WaitReady>>
  <2>1. /\ s \in Seq(Steps) /\ Len(s) = 3
        /\ s[1] = Fetch /\ s[2] = Patch(First) /\ s[3] = WaitReady
    BY <1>2, StepFacts, ShortSeqs
  <2>2. 1 .. 3 = {1, 2, 3}
    OBVIOUS
  <2> HIDE DEF s
  <2>3. Fine(s, First)
    BY <1>3, <1>2, <2>1, <2>2, StepFacts DEF Patching
  <2> QED BY <2>3 DEF s
<1>9. Fine(<<CheckOrRevert, Patch(First), WaitReady>>, First)
  <2> DEFINE s == <<CheckOrRevert, Patch(First), WaitReady>>
  <2>1. /\ s \in Seq(Steps) /\ Len(s) = 3
        /\ s[1] = CheckOrRevert /\ s[2] = Patch(First) /\ s[3] = WaitReady
    BY <1>2, StepFacts, ShortSeqs
  <2>2. 1 .. 3 = {1, 2, 3}
    OBVIOUS
  <2> HIDE DEF s
  <2>3. Fine(s, First)
    BY <1>3, <1>2, <2>1, <2>2, StepFacts DEF Patching
  <2> QED BY <2>3 DEF s
<1>10. Fine(<<PatchOrRevert(First), Patch(Second), Fetch>>, Both)
  <2> DEFINE s == <<PatchOrRevert(First), Patch(Second), Fetch>>
  <2>1. /\ s \in Seq(Steps) /\ Len(s) = 3
        /\ s[1] = PatchOrRevert(First) /\ s[2] = Patch(Second) /\ s[3] = Fetch
    BY <1>2, StepFacts, ShortSeqs
  <2>2. 1 .. 3 = {1, 2, 3}
    OBVIOUS
  <2> HIDE DEF s
  <2>3. Fine(s, Both)
    BY <1>3, <1>2, <2>1, <2>2, StepFacts DEF Patching
  <2> QED BY <2>3 DEF s
<1>11. Fine(<<Patch(First), Check, Patch(Second), WaitReady, Patch(Second)>>, Both)
  <2> DEFINE s == <<Patch(First), Check, Patch(Second), WaitReady, Patch(Second)>>
  <2>1. /\ s \in Seq(Steps) /\ Len(s) = 5
        /\ s[1] = Patch(First) /\ s[2] = Check /\ s[3] = Patch(Second) /\ s[4] = WaitReady /\ s[5] = Patch(Second)
    BY <1>2, StepFacts, ShortSeqs
  <2>2. 1 .. 5 = {1, 2, 3, 4, 5}
    OBVIOUS
  <2> HIDE DEF s
  <2>3. Fine(s, Both)
    BY <1>3, <1>2, <2>1, <2>2, StepFacts DEF Patching
  <2> QED BY <2>3 DEF s
<1>12. Fine(<<Check, Patch(First), WaitReady, Patch(Second), WaitReady>>, Both)
  <2> DEFINE s == <<Check, Patch(First), WaitReady, Patch(Second), WaitReady>>
  <2>1. /\ s \in Seq(Steps) /\ Len(s) = 5
        /\ s[1] = Check /\ s[2] = Patch(First) /\ s[3] = WaitReady /\ s[4] = Patch(Second) /\ s[5] = WaitReady
    BY <1>2, StepFacts, ShortSeqs
  <2>2. 1 .. 5 = {1, 2, 3, 4, 5}
    OBVIOUS
  <2> HIDE DEF s
  <2>3. Fine(s, Both)
    BY <1>3, <1>2, <2>1, <2>2, StepFacts DEF Patching
  <2> QED BY <2>3 DEF s
<1> HIDE DEF Fine
<1>13. \A s, mutable : Fine(s, mutable) => /\ FineUpdate(k, s, mutable, naming)
                                             /\ FineUpdate(k, s \o read, mutable, naming)
  BY Patches DEF Fine
<1>14. << >> \o read = read
  BY DEF IsGet, Get, Step, Steps, StepNames
<1> QED BY <1>4, <1>5, <1>6, <1>7, <1>8, <1>9, <1>10, <1>11, <1>12, <1>13, <1>14

\* Two sequences of steps, one after the other.
LEMMA Joined ==
    ASSUME NEW a \in Seq(Steps), NEW b \in Seq(Steps)
    PROVE  /\ a \o b \in Seq(Steps) /\ Len(a \o b) = Len(a) + Len(b)
           /\ \A i \in 1 .. Len(a) : (a \o b)[i] = a[i]
           /\ \A i \in 1 .. Len(b) : (a \o b)[Len(a) + i] = b[i]
OBVIOUS

\* The update of a schema registers a new version of it.
LEMMA Registers ==
    ASSUME NEW k, NEW naming, naming # "minted", NEW read, IsGet(k, read)
    PROVE  FineUpdate(k, <<CheckOrRevert>> \o (<<Post, SetId>> \o read), Both, naming)
<1>1. PICK g \in Steps :
        /\ read = <<g>> /\ g.do = "get" /\ g.how \notin {"blind", "ifSecond"}
        /\ k \notin DescribeFirstKinds => g.how \in {"ClassifyThenDescribe", "StatusIsNotFound"}
  BY DEF IsGet, Get, Step, Steps, StepNames
<1> DEFINE t == <<Post, SetId>> \o <<g>>
<1> DEFINE s == <<CheckOrRevert>> \o t
<1>2. t \in Seq(Steps) /\ Len(t) = 3 /\ t[1] = Post /\ t[2] = SetId /\ t[3] = g
  <2> DEFINE a == <<Post, SetId>>
  <2> DEFINE b == <<g>>
  <2>1. a \in Seq(Steps) /\ Len(a) = 2 /\ a[1] = Post /\ a[2] = SetId
    BY StepFacts, ShortSeqs
  <2>2. b \in Seq(Steps) /\ Len(b) = 1 /\ b[1] = g
    BY OneStep
  <2>3. t = a \o b
    OBVIOUS
  <2> HIDE DEF a, b, t
  <2>4. /\ t \in Seq(Steps) /\ Len(t) = Len(a) + Len(b)
        /\ \A i \in 1 .. Len(a) : t[i] = a[i]
        /\ \A i \in 1 .. Len(b) : t[Len(a) + i] = b[i]
    BY <2>1, <2>2, <2>3, Joined
  <2> QED BY <2>1, <2>2, <2>4
<1> HIDE DEF t
<1>3. Len(s) = 4 /\ s[1] = CheckOrRevert /\ s[2] = Post /\ s[3] = SetId /\ s[4] = g
  <2> DEFINE a == <<CheckOrRevert>>
  <2>1. CheckOrRevert \in Steps
    BY StepFacts
  <2>2. a \in Seq(Steps) /\ Len(a) = 1 /\ a[1] = CheckOrRevert
    BY <2>1, OneStep
  <2>3. s = a \o t
    OBVIOUS
  <2> HIDE DEF a, s
  <2>4. /\ Len(s) = Len(a) + Len(t)
        /\ \A i \in 1 .. Len(a) : s[i] = a[i]
        /\ \A i \in 1 .. Len(t) : s[Len(a) + i] = t[i]
    BY <1>2, <2>2, <2>3, Joined
  <2> QED BY <1>2, <2>2, <2>4
<1>4. 1 .. 4 = {1, 2, 3, 4} /\ 1 .. (2 - 1) = {1}
  OBVIOUS
<1> HIDE DEF s
<1>5. Asks(k, s) /\ Hard(s) /\ AtOnce(s) /\ Reposts(s)
  <2>1. Asks(k, s) /\ Hard(s) /\ AtOnce(s)
    BY <1>1, <1>3, <1>4, StepFacts DEF Asks, Hard, AtOnce
  <2>2. \A i \in 1 .. 4 : s[i].do = "setId" => i = 3
    BY <1>1, <1>3, <1>4, StepFacts
  <2>3. s[2].do = "post" /\ s[2].how # "ifSecond"
    BY <1>3, StepFacts
  <2>4. 2 \in 1 .. (3 - 1)
    OBVIOUS
  <2> QED BY <1>3, <2>1, <2>2, <2>3, <2>4 DEF Reposts
<1>6. \A h, p, changed : h.naming # "once" => SendsAt(h, s, 2, p, changed)
  <2>1. \A j \in 1 .. Len(s) : s[j].how # "ifSecond" /\ s[j].do # "disturb"
    BY <1>1, <1>3, <1>4, StepFacts
  <2>2. \A j \in (2 + 1) .. Len(s) : j \in 1 .. Len(s)
    BY <1>3
  <2> QED BY <1>3, <1>4, <2>1, <2>2, StepFacts DEF SendsAt
<1>7. Sends(s, Both)
  BY <1>3, <1>6 DEF Sends
<1> QED BY <1>1, <1>5, <1>7 DEF FineUpdate, s, t

\* The update of a schema exporter pauses it while its configuration changes.
LEMMA Pauses ==
    ASSUME NEW k, NEW naming, NEW read, IsGet(k, read)
    PROVE  FineUpdate(k, <<Patch(First), DisturbIfSecond(First), Patch(Second),
                           PatchIfSecond(First), WaitReady>> \o read, Both, naming)
<1> DEFINE s == <<Patch(First), DisturbIfSecond(First), Patch(Second), PatchIfSecond(First), WaitReady>>
<1>1. First \in SUBSET PartNames /\ Second \in SUBSET PartNames
  BY DEF First, Second, PartNames
<1>2. /\ Patch(First) \in Steps /\ Patch(Second) \in Steps /\ DisturbIfSecond(First) \in Steps
      /\ PatchIfSecond(First) \in Steps
      /\ Patch(First).do = "patch" /\ Patch(First).how = ""
      /\ Patch(Second).do = "patch" /\ Patch(Second).how = ""
      /\ DisturbIfSecond(First).do = "disturb" /\ DisturbIfSecond(First).how = "ifSecond"
      /\ PatchIfSecond(First).do = "patch" /\ PatchIfSecond(First).how = "ifSecond"
  BY <1>1, MoreStepFacts
<1>3. /\ "first" \in Patch(First).parts /\ "second" \in Patch(Second).parts
      /\ "first" \in PatchIfSecond(First).parts
      /\ \A p \in Both : p = "first" \/ p = "second"
  BY DEF First, Second, Both, PartNames, Patch, PatchIfSecond, Step
<1>4. /\ s \in Seq(Steps) /\ Len(s) = 5 /\ s[1] = Patch(First) /\ s[2] = DisturbIfSecond(First)
      /\ s[3] = Patch(Second) /\ s[4] = PatchIfSecond(First) /\ s[5] = WaitReady
  BY <1>2, StepFacts, ShortSeqs
<1>5. 1 .. 5 = {1, 2, 3, 4, 5}
  OBVIOUS
<1> HIDE DEF s
<1>6. Unread(s) /\ Hard(s) /\ AtOnce(s) /\ Quiet(s)
  BY <1>2, <1>4, <1>5, StepFacts DEF Unread, Hard, AtOnce, Quiet
<1>7. Sends(s, Both)
  <2> SUFFICES ASSUME NEW h, h.naming # "once", NEW changed \in SUBSET Both, NEW p \in changed
               PROVE  \E i \in 1 .. 5 : SendsAt(h, s, i, p, changed)
    BY <1>4 DEF Sends
  <2>1. /\ \A j \in 1 .. 5 : s[j].do # "get"
        /\ \A j \in (1 .. (1 - 1)) \cup (1 .. (3 - 1)) \cup (1 .. (4 - 1)) :
               s[j].do = "get" => p \notin s[j].parts
        /\ \A j, l \in 1 .. Len(s) : s[j].how = "ifSecond" /\ s[l].do = "get" => j < l
    <3>1. \A j \in 1 .. 5 : s[j].do # "get"
      BY <1>2, <1>4, <1>5, StepFacts
    <3> QED BY <1>4, <3>1
  <2>2. /\ \A j \in (3 + 1) .. Len(s) : s[j].do # "disturb"
        /\ \A j \in (4 + 1) .. Len(s) : s[j].do # "disturb"
        /\ \A j \in (1 + 1) .. Len(s) : s[j].do = "disturb" => s[j].how = "ifSecond"
    <3>1. /\ (4 + 1) .. Len(s) = {5} /\ (3 + 1) .. Len(s) = {4, 5}
          /\ (1 + 1) .. Len(s) = {2, 3, 4, 5}
      BY <1>4
    <3> QED BY <1>2, <1>4, <3>1, StepFacts
  <2>3. CASE p = "second"
    <3>1. /\ p \in s[3].parts /\ s[3].do = "patch" /\ s[3].how # "tolerant"
          /\ s[3].how = "ifSecond" => "second" \in changed
      BY <1>2, <1>3, <1>4, <2>3
    <3>2. SendsAt(h, s, 3, p, changed)
      BY <2>1, <2>2, <2>3, <3>1 DEF SendsAt
    <3> QED BY <3>2
  <2>4. CASE p = "first" /\ "second" \in changed
    <3>1. /\ p \in s[4].parts /\ s[4].do = "patch" /\ s[4].how # "tolerant"
          /\ s[4].how = "ifSecond" => "second" \in changed
      BY <1>2, <1>3, <1>4, <2>4
    <3>2. SendsAt(h, s, 4, p, changed)
      BY <2>1, <2>2, <2>4, <3>1 DEF SendsAt
    <3> QED BY <3>2
  <2>5. CASE p = "first" /\ "second" \notin changed
    <3>1. /\ p \in s[1].parts /\ s[1].do = "patch" /\ s[1].how # "tolerant"
          /\ s[1].how = "ifSecond" => "second" \in changed
      BY <1>2, <1>3, <1>4, <2>5
    <3>2. SendsAt(h, s, 1, p, changed)
      BY <2>1, <2>2, <2>5, <3>1 DEF SendsAt
    <3> QED BY <3>2
  <2> QED BY <1>3, <2>3, <2>4, <2>5
<1>8. FineUpdate(k, s \o read, Both, naming)
  BY <1>4, <1>6, <1>7, ThenReads DEF FineUpdate
<1> QED BY <1>8 DEF s

\* The forms of a delete handler.
LEMMA DeleteForms ==
    ASSUME NEW k
    PROVE  /\ k \in SettingKinds /\ k \notin WaitingKinds => FineDelete(k, << >>)
           /\ k \notin WaitingKinds =>
                  /\ FineDelete(k, <<Delete>>) /\ FineDelete(k, <<DeleteTolerant>>)
                  /\ FineDelete(k, <<SoftDelete>>) /\ FineDelete(k, <<SoftDelete, HardDelete>>)
                  /\ FineDelete(k, <<Disturb(First), Delete>>)
                  /\ FineDelete(k, <<Delete, WaitGone("blind")>>)
           /\ \A how \in Manners \ {"blind", "ifSecond"} :
                  /\ FineDelete(k, <<Delete, WaitGone(how)>>)
                  /\ FineDelete(k, <<DeleteRetries, WaitGone(how)>>)
<1>1. ASSUME NEW a \in Steps, a.do \in {"delete", "softDelete"}, a.how # "ifSecond",
             k \notin WaitingKinds
      PROVE  FineDelete(k, <<a>>)
  <2> DEFINE s == <<a>>
  <2>1. Len(s) = 1 /\ s[1] = a /\ 1 .. 1 = {1}
    OBVIOUS
  <2> HIDE DEF s
  <2>2. FineDelete(k, s)
    BY <1>1, <2>1 DEF FineDelete, Quiet, Deletes
  <2> QED BY <2>2 DEF s
<1>2. ASSUME NEW a \in Steps, NEW b \in Steps,
             \/ a.do \in {"delete", "softDelete"} /\ a.how # "ifSecond"
             \/ b.do \in {"delete", "softDelete"} /\ b.how # "ifSecond",
             {a.do, b.do} \cap {"get", "post", "setId"} = {},
             k \in WaitingKinds => /\ a.do = "delete"
                                   /\ b.do = "waitGone" /\ b.how \notin {"blind", "ifSecond"}
      PROVE  FineDelete(k, <<a, b>>)
  <2> DEFINE s == <<a, b>>
  <2>1. Len(s) = 2 /\ s[1] = a /\ s[2] = b /\ s # << >>
    OBVIOUS
  <2>2. 1 .. 2 = {1, 2}
    OBVIOUS
  <2> HIDE DEF s
  <2>3. FineDelete(k, s)
    BY <1>2, <2>1, <2>2 DEF FineDelete, Quiet, Deletes, Hard
  <2> QED BY <2>3 DEF s
<1>3. k \in SettingKinds /\ k \notin WaitingKinds => FineDelete(k, << >>)
  BY DEF FineDelete, Quiet
<1>4. ASSUME k \notin WaitingKinds
      PROVE  /\ FineDelete(k, <<Delete>>) /\ FineDelete(k, <<DeleteTolerant>>)
             /\ FineDelete(k, <<SoftDelete>>)
  BY <1>1, <1>4, MoreStepFacts
<1>5. ASSUME k \notin WaitingKinds
      PROVE  /\ FineDelete(k, <<SoftDelete, HardDelete>>)
             /\ FineDelete(k, <<Disturb(First), Delete>>)
             /\ FineDelete(k, <<Delete, WaitGone("blind")>>)
  <2>1. First \in SUBSET PartNames /\ "blind" \in Manners
    BY DEF First, PartNames, Manners
  <2>2. Disturb(First) \in Steps /\ Disturb(First).do = "disturb"
    BY <2>1, MoreStepFacts
  <2>3. WaitGone("blind") \in Steps /\ WaitGone("blind").do = "waitGone"
    BY <2>1, MoreStepFacts
  <2>4. /\ {Delete, SoftDelete, HardDelete} \subseteq Steps
        /\ Delete.do = "delete" /\ Delete.how = ""
        /\ SoftDelete.do = "softDelete" /\ SoftDelete.how = "" /\ HardDelete.do = "hardDelete"
    BY MoreStepFacts
  <2>5. FineDelete(k, <<SoftDelete, HardDelete>>)
    BY <1>2, <1>5, <2>4
  <2>6. FineDelete(k, <<Disturb(First), Delete>>)
    BY <1>2, <1>5, <2>2, <2>4
  <2>7. FineDelete(k, <<Delete, WaitGone("blind")>>)
    BY <1>2, <1>5, <2>3, <2>4
  <2> QED BY <2>5, <2>6, <2>7
<1>6. ASSUME NEW how \in Manners \ {"blind", "ifSecond"}
      PROVE  /\ FineDelete(k, <<Delete, WaitGone(how)>>)
             /\ FineDelete(k, <<DeleteRetries, WaitGone(how)>>)
  <2>1. WaitGone(how) \in Steps /\ WaitGone(how).do = "waitGone" /\ WaitGone(how).how = how
    BY MoreStepFacts
  <2>2. /\ {Delete, DeleteRetries} \subseteq Steps
        /\ Delete.do = "delete" /\ Delete.how = ""
        /\ DeleteRetries.do = "delete" /\ DeleteRetries.how = "retries"
    BY MoreStepFacts
  <2> QED BY <1>2, <2>1, <2>2
<1> QED BY <1>3, <1>4, <1>5, <1>6

-----------------------------------------------------------------------------
(* The kinds. *)

\* Every kind keeps the disciplines, but for the authorization of an integration,
\* which configures an object that another resource owns.
LEMMA EveryKind ==
    ASSUME NEW k \in KindNames \ {"provider_integration_authorization"}
    PROVE  KeepsDisciplines(k, Catalog[k])
<1>1. KeepsDisciplines("environment", Catalog["environment"])
  <2>1. IsGet("environment", environmentRead)
    BY Reads DEF environmentRead, DescribeFirstKinds
  <2>2. Catalog["environment"] = environmentResource
    BY DEF Catalog, KindNames
  <2> QED BY <2>1, <2>2, TheRead, Creates, Updates, DeleteForms, Assembled DEF
           environmentResource, environmentCreate, environmentUpdate, environmentDelete,
           environmentImport, WaitingKinds
<1>2. KeepsDisciplines("service_account", Catalog["service_account"])
  <2>1. IsGet("service_account", serviceAccountRead)
    BY Reads DEF serviceAccountRead
  <2>2. Catalog["service_account"] = serviceAccountResource
    BY DEF Catalog, KindNames
  <2> QED BY <2>1, <2>2, TheRead, Creates, Updates, DeleteForms, Assembled DEF
           serviceAccountResource, serviceAccountCreate, serviceAccountUpdate,
           serviceAccountDelete, serviceAccountImport, WaitingKinds
<1>3. KeepsDisciplines("identity_provider", Catalog["identity_provider"])
  <2>1. IsGet("identity_provider", identityProviderRead)
    BY Reads DEF identityProviderRead
  <2>2. Catalog["identity_provider"] = identityProviderResource
    BY DEF Catalog, KindNames
  <2> QED BY <2>1, <2>2, TheRead, Creates, Updates, DeleteForms, Assembled DEF
           identityProviderResource, identityProviderCreate, identityProviderUpdate,
           identityProviderDelete, identityProviderImport, WaitingKinds
<1>4. KeepsDisciplines("identity_pool", Catalog["identity_pool"])
  <2>1. IsGet("identity_pool", identityPoolRead)
    BY Reads DEF identityPoolRead
  <2>2. Catalog["identity_pool"] = identityPoolResource
    BY DEF Catalog, KindNames
  <2> QED BY <2>1, <2>2, TheRead, Creates, Updates, DeleteForms, Assembled DEF
           identityPoolResource, identityPoolCreate, identityPoolUpdate, identityPoolDelete,
           identityPoolImport, WaitingKinds
<1>5. KeepsDisciplines("group_mapping", Catalog["group_mapping"])
  <2>1. IsGet("group_mapping", groupMappingRead)
    BY Reads DEF groupMappingRead
  <2>2. Catalog["group_mapping"] = groupMappingResource
    BY DEF Catalog, KindNames
  <2> QED BY <2>1, <2>2, TheRead, Creates, Updates, DeleteForms, Assembled DEF
           groupMappingResource, groupMappingCreate, groupMappingUpdate, groupMappingDelete,
           groupMappingImport, WaitingKinds
<1>6. KeepsDisciplines("certificate_authority", Catalog["certificate_authority"])
  <2>1. IsGet("certificate_authority", certificateAuthorityRead)
    BY Reads DEF certificateAuthorityRead, DescribeFirstKinds
  <2>2. Catalog["certificate_authority"] = certificateAuthorityResource
    BY DEF Catalog, KindNames
  <2> QED BY <2>1, <2>2, TheRead, Creates, Updates, DeleteForms, Assembled DEF
           certificateAuthorityResource, certificateAuthorityCreate, certificateAuthorityUpdate,
           certificateAuthorityDelete, certificateAuthorityImport, WaitingKinds
<1>7. KeepsDisciplines("certificate_pool", Catalog["certificate_pool"])
  <2>1. IsGet("certificate_pool", certificatePoolRead)
    BY Reads DEF certificatePoolRead
  <2>2. Catalog["certificate_pool"] = certificatePoolResource
    BY DEF Catalog, KindNames
  <2> QED BY <2>1, <2>2, TheRead, Creates, Updates, DeleteForms, Assembled DEF
           certificatePoolResource, certificatePoolCreate, certificatePoolUpdate,
           certificatePoolDelete, certificatePoolImport, WaitingKinds
<1>8. KeepsDisciplines("ip_group", Catalog["ip_group"])
  <2>1. IsGet("ip_group", ipGroupRead)
    BY Reads DEF ipGroupRead
  <2>2. Catalog["ip_group"] = ipGroupResource
    BY DEF Catalog, KindNames
  <2> QED BY <2>1, <2>2, TheRead, Creates, Updates, DeleteForms, Assembled DEF ipGroupResource,
           ipGroupCreate, ipGroupUpdate, ipGroupDelete, ipGroupImport, WaitingKinds
<1>9. KeepsDisciplines("ip_filter", Catalog["ip_filter"])
  <2>1. IsGet("ip_filter", ipFilterRead)
    BY Reads DEF ipFilterRead, DescribeFirstKinds
  <2>2. Catalog["ip_filter"] = ipFilterResource
    BY DEF Catalog, KindNames
  <2> QED BY <2>1, <2>2, TheRead, Creates, Updates, DeleteForms, Assembled DEF ipFilterResource,
           ipFilterCreate, ipFilterUpdate, ipFilterDelete, ipFilterImport, WaitingKinds
<1>10. KeepsDisciplines("role_binding", Catalog["role_binding"])
  <2>1. IsGet("role_binding", roleBindingRead)
    BY Reads DEF roleBindingRead
  <2>2. Catalog["role_binding"] = roleBindingResource
    BY DEF Catalog, KindNames
  <2> QED BY <2>1, <2>2, TheRead, Creates, Updates, DeleteForms, Assembled DEF
           roleBindingResource, roleBindingCreate, roleBindingUpdate, roleBindingDelete,
           roleBindingImport, WaitingKinds
<1>11. KeepsDisciplines("invitation", Catalog["invitation"])
  <2>1. IsGet("invitation", invitationRead)
    BY Reads DEF invitationRead
  <2>2. Catalog["invitation"] = invitationResource(FALSE)
    BY DEF Catalog, KindNames
  <2> QED BY <2>1, <2>2, TheRead, Creates, Updates, DeleteForms, Assembled DEF
           invitationResource, invitationCreate, invitationUpdate, invitationDelete,
           invitationImport, WaitingKinds
<1>12. KeepsDisciplines("invitation_accepted", Catalog["invitation_accepted"])
  <2>1. IsGet("invitation_accepted", invitationRead)
    BY Reads DEF invitationRead
  <2>2. Catalog["invitation_accepted"] = invitationResource(TRUE)
    BY DEF Catalog, KindNames
  <2> QED BY <2>1, <2>2, TheRead, Creates, Updates, DeleteForms, Assembled DEF
           invitationResource, invitationCreate, invitationUpdate, invitationDelete,
           invitationImport, WaitingKinds, SettingKinds
<1>13. KeepsDisciplines("api_key", Catalog["api_key"])
  <2>1. IsGet("api_key", apiKeyRead)
    BY Reads DEF apiKeyRead, DescribeFirstKinds
  <2>2. Catalog["api_key"] = apiKeyResource
    BY DEF Catalog, KindNames
  <2> QED BY <2>1, <2>2, TheRead, Creates, Updates, DeleteForms, Assembled DEF apiKeyResource,
           apiKeyCreate, apiKeyUpdate, apiKeyDelete, apiKeyImport, WaitingKinds, LateIdKinds
<1>14. KeepsDisciplines("byok_key", Catalog["byok_key"])
  <2>1. IsGet("byok_key", byokKeyRead)
    BY Reads DEF byokKeyRead
  <2>2. Catalog["byok_key"] = byokKeyResource
    BY DEF Catalog, KindNames
  <2> QED BY <2>1, <2>2, TheRead, Creates, Updates, DeleteForms, Assembled DEF byokKeyResource,
           byokKeyCreate, byokKeyDelete, byokKeyImport, WaitingKinds
<1>15. KeepsDisciplines("provider_integration", Catalog["provider_integration"])
  <2>1. IsGet("provider_integration", providerIntegrationRead)
    BY Reads DEF providerIntegrationRead, DescribeFirstKinds
  <2>2. Catalog["provider_integration"] = providerIntegrationResource
    BY DEF Catalog, KindNames
  <2> QED BY <2>1, <2>2, TheRead, Creates, Updates, DeleteForms, Assembled DEF
           providerIntegrationResource, providerIntegrationCreate, providerIntegrationDelete,
           providerIntegrationImport, WaitingKinds
<1>16. KeepsDisciplines("provider_integration_setup", Catalog["provider_integration_setup"])
  <2>1. IsGet("provider_integration_setup", providerIntegrationSetupRead)
    BY Reads DEF providerIntegrationSetupRead
  <2>2. Catalog["provider_integration_setup"] = providerIntegrationSetupResource
    BY DEF Catalog, KindNames
  <2> QED BY <2>1, <2>2, TheRead, Creates, Updates, DeleteForms, Assembled DEF
           providerIntegrationSetupResource, providerIntegrationSetupCreate,
           providerIntegrationSetupDelete, providerIntegrationSetupImport, WaitingKinds
<1>17. KeepsDisciplines("network", Catalog["network"])
  <2>1. IsGet("network", networkRead)
    BY Reads DEF networkRead, DescribeFirstKinds
  <2>2. Catalog["network"] = networkResource
    BY DEF Catalog, KindNames
  <2> QED BY <2>1, <2>2, TheRead, Creates, Updates, DeleteForms, Assembled DEF networkResource,
           networkCreate, networkUpdate, networkDelete, networkImport, WaitingKinds
<1>18. KeepsDisciplines("peering", Catalog["peering"])
  <2>1. IsGet("peering", peeringRead)
    BY Reads DEF peeringRead, DescribeFirstKinds
  <2>2. Catalog["peering"] = peeringResource
    BY DEF Catalog, KindNames
  <2> QED BY <2>1, <2>2, TheRead, Creates, Updates, DeleteForms, Assembled DEF peeringResource,
           peeringCreate, peeringUpdate, peeringDelete, peeringImport, WaitingKinds, Manners
<1>19. KeepsDisciplines("private_link_access", Catalog["private_link_access"])
  <2>1. IsGet("private_link_access", privateLinkAccessRead)
    BY Reads DEF privateLinkAccessRead, DescribeFirstKinds
  <2>2. Catalog["private_link_access"] = privateLinkAccessResource
    BY DEF Catalog, KindNames
  <2> QED BY <2>1, <2>2, TheRead, Creates, Updates, DeleteForms, Assembled DEF
           privateLinkAccessResource, privateLinkAccessCreate, privateLinkAccessUpdate,
           privateLinkAccessDelete, privateLinkAccessImport, WaitingKinds, Manners
<1>20. KeepsDisciplines("private_link_attachment", Catalog["private_link_attachment"])
  <2>1. IsGet("private_link_attachment", privateLinkAttachmentRead)
    BY Reads DEF privateLinkAttachmentRead, DescribeFirstKinds
  <2>2. Catalog["private_link_attachment"] = privateLinkAttachmentResource
    BY DEF Catalog, KindNames
  <2> QED BY <2>1, <2>2, TheRead, Creates, Updates, DeleteForms, Assembled DEF
           privateLinkAttachmentResource, privateLinkAttachmentCreate,
           privateLinkAttachmentUpdate, privateLinkAttachmentDelete,
           privateLinkAttachmentImport, WaitingKinds
<1>21. KeepsDisciplines("private_link_attachment_connection", Catalog["private_link_attachment_connection"])
  <2>1. IsGet("private_link_attachment_connection", privateLinkAttachmentConnectionRead)
    BY Reads DEF privateLinkAttachmentConnectionRead, DescribeFirstKinds
  <2>2. Catalog["private_link_attachment_connection"] = privateLinkAttachmentConnectionResource
    BY DEF Catalog, KindNames
  <2> QED BY <2>1, <2>2, TheRead, Creates, Updates, DeleteForms, Assembled DEF
           privateLinkAttachmentConnectionResource, privateLinkAttachmentConnectionCreate,
           privateLinkAttachmentConnectionUpdate, privateLinkAttachmentConnectionDelete,
           privateLinkAttachmentConnectionImport, WaitingKinds, Manners
<1>22. KeepsDisciplines("transit_gateway_attachment", Catalog["transit_gateway_attachment"])
  <2>1. IsGet("transit_gateway_attachment", transitGatewayAttachmentRead)
    BY Reads DEF transitGatewayAttachmentRead, DescribeFirstKinds
  <2>2. Catalog["transit_gateway_attachment"] = transitGatewayAttachmentResource
    BY DEF Catalog, KindNames
  <2> QED BY <2>1, <2>2, TheRead, Creates, Updates, DeleteForms, Assembled DEF
           transitGatewayAttachmentResource, transitGatewayAttachmentCreate,
           transitGatewayAttachmentUpdate, transitGatewayAttachmentDelete,
           transitGatewayAttachmentImport, WaitingKinds, Manners
<1>23. KeepsDisciplines("dns_forwarder", Catalog["dns_forwarder"])
  <2>1. IsGet("dns_forwarder", dnsForwarderRead)
    BY Reads DEF dnsForwarderRead, DescribeFirstKinds
  <2>2. Catalog["dns_forwarder"] = dnsForwarderResource
    BY DEF Catalog, KindNames
  <2> QED BY <2>1, <2>2, TheRead, Creates, Updates, DeleteForms, Assembled DEF
           dnsForwarderResource, dnsForwarderCreate, dnsForwarderUpdate, dnsForwarderDelete,
           dnsForwarderImport, WaitingKinds
<1>24. KeepsDisciplines("dns_record", Catalog["dns_record"])
  <2>1. IsGet("dns_record", dnsRecordRead)
    BY Reads DEF dnsRecordRead
  <2>2. Catalog["dns_record"] = dnsRecordResource
    BY DEF Catalog, KindNames
  <2> QED BY <2>1, <2>2, TheRead, Creates, Updates, DeleteForms, Assembled DEF
           dnsRecordResource, dnsRecordCreate, dnsRecordUpdate, dnsRecordDelete,
           dnsRecordImport, WaitingKinds, Manners
<1>25. KeepsDisciplines("access_point", Catalog["access_point"])
  <2>1. IsGet("access_point", accessPointRead)
    BY Reads DEF accessPointRead
  <2>2. Catalog["access_point"] = accessPointResource
    BY DEF Catalog, KindNames
  <2> QED BY <2>1, <2>2, TheRead, Creates, Updates, DeleteForms, Assembled DEF
           accessPointResource, accessPointCreate, accessPointUpdate, accessPointDelete,
           accessPointImport, WaitingKinds, Manners
<1>26. KeepsDisciplines("gateway", Catalog["gateway"])
  <2>1. IsGet("gateway", gatewayRead)
    BY Reads DEF gatewayRead
  <2>2. Catalog["gateway"] = gatewayResource
    BY DEF Catalog, KindNames
  <2> QED BY <2>1, <2>2, TheRead, Creates, Updates, DeleteForms, Assembled DEF gatewayResource,
           gatewayCreate, gatewayUpdate, gatewayDelete, gatewayImport, WaitingKinds
<1>27. KeepsDisciplines("network_link_endpoint", Catalog["network_link_endpoint"])
  <2>1. IsGet("network_link_endpoint", networkLinkEndpointRead)
    BY Reads DEF networkLinkEndpointRead
  <2>2. Catalog["network_link_endpoint"] = networkLinkEndpointResource
    BY DEF Catalog, KindNames
  <2> QED BY <2>1, <2>2, TheRead, Creates, Updates, DeleteForms, Assembled DEF
           networkLinkEndpointResource, networkLinkEndpointCreate, networkLinkEndpointUpdate,
           networkLinkEndpointDelete, networkLinkEndpointImport, WaitingKinds, Manners
<1>28. KeepsDisciplines("network_link_service", Catalog["network_link_service"])
  <2>1. IsGet("network_link_service", networkLinkServiceRead)
    BY Reads DEF networkLinkServiceRead
  <2>2. Catalog["network_link_service"] = networkLinkServiceResource
    BY DEF Catalog, KindNames
  <2> QED BY <2>1, <2>2, TheRead, Creates, Updates, DeleteForms, Assembled DEF
           networkLinkServiceResource, networkLinkServiceCreate, networkLinkServiceUpdate,
           networkLinkServiceDelete, networkLinkServiceImport, WaitingKinds, Manners
<1>29. KeepsDisciplines("kafka_cluster", Catalog["kafka_cluster"])
  <2>1. IsGet("kafka_cluster", kafkaRead)
    BY Reads DEF kafkaRead, DescribeFirstKinds
  <2>2. Catalog["kafka_cluster"] = kafkaResource
    BY DEF Catalog, KindNames
  <2> QED BY <2>1, <2>2, TheRead, Creates, Updates, DeleteForms, Assembled DEF kafkaResource,
           kafkaCreate, kafkaUpdate, kafkaDelete, kafkaImport, WaitingKinds, Manners
<1>30. KeepsDisciplines("kafka_cluster_config", Catalog["kafka_cluster_config"])
  <2>1. IsGet("kafka_cluster_config", kafkaConfigRead)
    BY Reads DEF kafkaConfigRead
  <2>2. Catalog["kafka_cluster_config"] = kafkaConfigResource
    BY DEF Catalog, KindNames
  <2> QED BY <2>1, <2>2, TheRead, Creates, Updates, DeleteForms, Assembled DEF
           kafkaConfigResource, kafkaConfigCreate, kafkaConfigUpdate, kafkaConfigDelete,
           kafkaConfigImport, WaitingKinds, SettingKinds
<1>31. KeepsDisciplines("kafka_topic", Catalog["kafka_topic"])
  <2>1. IsGet("kafka_topic", kafkaTopicRead)
    BY Reads DEF kafkaTopicRead
  <2>2. Catalog["kafka_topic"] = kafkaTopicResource
    BY DEF Catalog, KindNames
  <2> QED BY <2>1, <2>2, TheRead, Creates, Updates, DeleteForms, Assembled DEF
           kafkaTopicResource, kafkaTopicCreate, kafkaTopicUpdate, kafkaTopicDelete,
           kafkaTopicImport, WaitingKinds, Manners
<1>32. KeepsDisciplines("kafka_acl", Catalog["kafka_acl"])
  <2>1. IsGet("kafka_acl", kafkaAclRead)
    BY Reads DEF kafkaAclRead
  <2>2. Catalog["kafka_acl"] = kafkaAclResource
    BY DEF Catalog, KindNames
  <2> QED BY <2>1, <2>2, TheRead, Creates, Updates, DeleteForms, Assembled DEF kafkaAclResource,
           kafkaAclCreate, kafkaAclUpdate, kafkaAclDelete, kafkaAclImport, WaitingKinds
<1>33. KeepsDisciplines("kafka_client_quota", Catalog["kafka_client_quota"])
  <2>1. IsGet("kafka_client_quota", kafkaClientQuotaRead)
    BY Reads DEF kafkaClientQuotaRead
  <2>2. Catalog["kafka_client_quota"] = kafkaClientQuotaResource
    BY DEF Catalog, KindNames
  <2> QED BY <2>1, <2>2, TheRead, Creates, Updates, DeleteForms, Assembled DEF
           kafkaClientQuotaResource, kafkaClientQuotaCreate, kafkaClientQuotaUpdate,
           kafkaClientQuotaDelete, kafkaClientQuotaImport, WaitingKinds
<1>34. KeepsDisciplines("kafka_mirror_topic", Catalog["kafka_mirror_topic"])
  <2>1. IsGet("kafka_mirror_topic", kafkaMirrorTopicRead)
    BY Reads DEF kafkaMirrorTopicRead
  <2>2. Catalog["kafka_mirror_topic"] = kafkaMirrorTopicResource
    BY DEF Catalog, KindNames
  <2> QED BY <2>1, <2>2, TheRead, Creates, Updates, DeleteForms, Assembled DEF
           kafkaMirrorTopicResource, kafkaMirrorTopicCreate, kafkaMirrorTopicUpdate,
           kafkaMirrorTopicDelete, kafkaMirrorTopicImport, WaitingKinds, Manners
<1>35. KeepsDisciplines("cluster_link", Catalog["cluster_link"])
  <2>1. IsGet("cluster_link", clusterLinkRead)
    BY Reads DEF clusterLinkRead, SecretKinds
  <2>2. Catalog["cluster_link"] = clusterLinkResource
    BY DEF Catalog, KindNames
  <2> QED BY <2>1, <2>2, TheRead, Creates, Updates, DeleteForms, Assembled DEF
           clusterLinkResource, clusterLinkCreate, clusterLinkUpdate, clusterLinkDelete,
           clusterLinkImport, WaitingKinds, Manners
<1>36. KeepsDisciplines("ksql_cluster", Catalog["ksql_cluster"])
  <2>1. IsGet("ksql_cluster", ksqlRead)
    BY Reads DEF ksqlRead, DescribeFirstKinds
  <2>2. Catalog["ksql_cluster"] = ksqlResource
    BY DEF Catalog, KindNames
  <2> QED BY <2>1, <2>2, TheRead, Creates, Updates, DeleteForms, Assembled DEF ksqlResource,
           ksqlCreate, ksqlDelete, ksqlImport, WaitingKinds
<1>37. KeepsDisciplines("connector", Catalog["connector"])
  <2>1. IsGet("connector", connectorRead)
    BY Reads DEF connectorRead, DescribeFirstKinds, SecretKinds
  <2>2. Catalog["connector"] = connectorResource
    BY DEF Catalog, KindNames
  <2> QED BY <2>1, <2>2, TheRead, Creates, Updates, DeleteForms, Assembled DEF
           connectorResource, connectorCreate, connectorUpdate, connectorDelete,
           connectorImport, WaitingKinds, LateIdKinds
<1>38. KeepsDisciplines("custom_connector_plugin", Catalog["custom_connector_plugin"])
  <2>1. IsGet("custom_connector_plugin", customConnectorPluginRead)
    BY Reads DEF customConnectorPluginRead, DescribeFirstKinds
  <2>2. Catalog["custom_connector_plugin"] = customConnectorPluginResource
    BY DEF Catalog, KindNames
  <2> QED BY <2>1, <2>2, TheRead, Creates, Updates, DeleteForms, Assembled DEF
           customConnectorPluginResource, customConnectorPluginCreate,
           customConnectorPluginUpdate, customConnectorPluginDelete,
           customConnectorPluginImport, WaitingKinds
<1>39. KeepsDisciplines("custom_connector_plugin_version", Catalog["custom_connector_plugin_version"])
  <2>1. IsGet("custom_connector_plugin_version", customConnectorPluginVersionRead)
    BY Reads DEF customConnectorPluginVersionRead, DescribeFirstKinds
  <2>2. Catalog["custom_connector_plugin_version"] = customConnectorPluginVersionResource
    BY DEF Catalog, KindNames
  <2> QED BY <2>1, <2>2, TheRead, Creates, Updates, DeleteForms, Assembled DEF
           customConnectorPluginVersionResource, customConnectorPluginVersionCreate,
           customConnectorPluginVersionDelete, customConnectorPluginVersionImport, WaitingKinds
<1>40. KeepsDisciplines("plugin", Catalog["plugin"])
  <2>1. IsGet("plugin", pluginRead)
    BY Reads DEF pluginRead, DescribeFirstKinds
  <2>2. Catalog["plugin"] = pluginResource
    BY DEF Catalog, KindNames
  <2> QED BY <2>1, <2>2, TheRead, Creates, Updates, DeleteForms, Assembled DEF pluginResource,
           pluginCreate, pluginUpdate, pluginDelete, pluginImport, WaitingKinds
<1>41. KeepsDisciplines("connect_artifact", Catalog["connect_artifact"])
  <2>1. IsGet("connect_artifact", connectArtifactRead)
    BY Reads DEF connectArtifactRead, DescribeFirstKinds
  <2>2. Catalog["connect_artifact"] = connectArtifactResource
    BY DEF Catalog, KindNames
  <2> QED BY <2>1, <2>2, TheRead, Creates, Updates, DeleteForms, Assembled DEF
           connectArtifactResource, connectArtifactCreate, connectArtifactDelete,
           connectArtifactImport, WaitingKinds
<1>42. KeepsDisciplines("flink_compute_pool", Catalog["flink_compute_pool"])
  <2>1. IsGet("flink_compute_pool", computePoolRead)
    BY Reads DEF computePoolRead
  <2>2. Catalog["flink_compute_pool"] = computePoolResource
    BY DEF Catalog, KindNames
  <2> QED BY <2>1, <2>2, TheRead, Creates, Updates, DeleteForms, Assembled DEF
           computePoolResource, computePoolCreate, computePoolUpdate, computePoolDelete,
           computePoolImport, WaitingKinds, Manners
<1>43. KeepsDisciplines("flink_compute_pool_config", Catalog["flink_compute_pool_config"])
  <2>1. IsGet("flink_compute_pool_config", flinkComputePoolConfigRead)
    BY Reads DEF flinkComputePoolConfigRead
  <2>2. Catalog["flink_compute_pool_config"] = flinkComputePoolConfigResource
    BY DEF Catalog, KindNames
  <2> QED BY <2>1, <2>2, TheRead, Creates, Updates, DeleteForms, Assembled DEF
           flinkComputePoolConfigResource, flinkComputePoolConfigCreate,
           flinkComputePoolConfigUpdate, flinkComputePoolConfigDelete,
           flinkComputePoolConfigImport, WaitingKinds, SettingKinds
<1>44. KeepsDisciplines("flink_artifact", Catalog["flink_artifact"])
  <2>1. IsGet("flink_artifact", artifactRead)
    BY Reads DEF artifactRead, DescribeFirstKinds
  <2>2. Catalog["flink_artifact"] = artifactResource
    BY DEF Catalog, KindNames
  <2> QED BY <2>1, <2>2, TheRead, Creates, Updates, DeleteForms, Assembled DEF artifactResource,
           artifactCreate, artifactDelete, artifactImport, WaitingKinds
<1>45. KeepsDisciplines("flink_connection", Catalog["flink_connection"])
  <2>1. IsGet("flink_connection", connectionRead)
    BY Reads DEF connectionRead, DescribeFirstKinds, SecretKinds
  <2>2. Catalog["flink_connection"] = flinkConnectionResource
    BY DEF Catalog, KindNames
  <2> QED BY <2>1, <2>2, TheRead, Creates, Updates, DeleteForms, Assembled DEF
           flinkConnectionResource, connectionCreate, connectionUpdate, connectionDelete,
           connectionImport, WaitingKinds
<1>46. KeepsDisciplines("flink_statement", Catalog["flink_statement"])
  <2>1. IsGet("flink_statement", flinkStatementRead)
    BY Reads DEF flinkStatementRead, DescribeFirstKinds
  <2>2. Catalog["flink_statement"] = flinkStatementResource
    BY DEF Catalog, KindNames
  <2> QED BY <2>1, <2>2, TheRead, Creates, Updates, DeleteForms, Assembled DEF
           flinkStatementResource, flinkStatementCreate, flinkStatementUpdate,
           flinkStatementDelete, flinkStatementImport, WaitingKinds, Manners
<1>47. KeepsDisciplines("flink_materialized_table", Catalog["flink_materialized_table"])
  <2>1. IsGet("flink_materialized_table", materializedTableRead)
    BY Reads DEF materializedTableRead, DescribeFirstKinds
  <2>2. Catalog["flink_materialized_table"] = flinkMaterializedTableResource
    BY DEF Catalog, KindNames
  <2> QED BY <2>1, <2>2, TheRead, Creates, Updates, DeleteForms, Assembled DEF
           flinkMaterializedTableResource, materializedTableCreate, materializedTableUpdate,
           materializedTableDelete, materializedTableImport, WaitingKinds, Manners
<1>48. KeepsDisciplines("tableflow_topic", Catalog["tableflow_topic"])
  <2>1. IsGet("tableflow_topic", tableflowTopicRead)
    BY Reads DEF tableflowTopicRead, DescribeFirstKinds
  <2>2. Catalog["tableflow_topic"] = tableflowTopicResource
    BY DEF Catalog, KindNames
  <2> QED BY <2>1, <2>2, TheRead, Creates, Updates, DeleteForms, Assembled DEF
           tableflowTopicResource, tableflowTopicCreate, tableflowTopicUpdate,
           tableflowTopicDelete, tableflowTopicImport, WaitingKinds
<1>49. KeepsDisciplines("catalog_integration", Catalog["catalog_integration"])
  <2>1. IsGet("catalog_integration", catalogIntegrationRead)
    BY Reads DEF catalogIntegrationRead, SecretKinds
  <2>2. Catalog["catalog_integration"] = catalogIntegrationResource
    BY DEF Catalog, KindNames
  <2> QED BY <2>1, <2>2, TheRead, Creates, Updates, DeleteForms, Assembled DEF
           catalogIntegrationResource, catalogIntegrationCreate, catalogIntegrationUpdate,
           catalogIntegrationDelete, catalogIntegrationImport, WaitingKinds
<1>50. KeepsDisciplines("rtce_topic", Catalog["rtce_topic"])
  <2>1. IsGet("rtce_topic", rtceTopicRead)
    BY Reads DEF rtceTopicRead, DescribeFirstKinds
  <2>2. Catalog["rtce_topic"] = rtceTopic
    BY DEF Catalog, KindNames
  <2> QED BY <2>1, <2>2, TheRead, Creates, Updates, DeleteForms, Assembled DEF rtceTopic,
           rtceTopicCreate, rtceTopicUpdate, rtceTopicDelete, rtceTopicImport, WaitingKinds,
           Manners
<1>51. KeepsDisciplines("schema", Catalog["schema"])
  <2>1. IsGet("schema", schemaRead)
    BY Reads DEF schemaRead
  <2>2. Catalog["schema"] = schemaResource(FALSE)
    BY DEF Catalog, KindNames
  <2> QED BY <2>1, <2>2, TheRead, Creates, Registers, DeleteForms, Assembled DEF schemaResource,
           schemaCreate, schemaUpdate, schemaDelete, schemaImport, WaitingKinds
<1>52. KeepsDisciplines("schema_hard", Catalog["schema_hard"])
  <2>1. IsGet("schema_hard", schemaRead)
    BY Reads DEF schemaRead
  <2>2. Catalog["schema_hard"] = schemaResource(TRUE)
    BY DEF Catalog, KindNames
  <2> QED BY <2>1, <2>2, TheRead, Creates, Registers, DeleteForms, Assembled DEF schemaResource,
           schemaCreate, schemaUpdate, schemaDelete, schemaImport, WaitingKinds
<1>53. KeepsDisciplines("schema_exporter", Catalog["schema_exporter"])
  <2>1. IsGet("schema_exporter", schemaExporterRead)
    BY Reads DEF schemaExporterRead, DescribeFirstKinds, SecretKinds
  <2>2. Catalog["schema_exporter"] = schemaExporterResource
    BY DEF Catalog, KindNames
  <2> QED BY <2>1, <2>2, TheRead, Creates, Pauses, DeleteForms, Assembled DEF
           schemaExporterResource, schemaExporterCreate, schemaExporterUpdate,
           schemaExporterDelete, schemaExporterImport, WaitingKinds, LateIdKinds
<1>54. KeepsDisciplines("schema_registry_cluster_config", Catalog["schema_registry_cluster_config"])
  <2>1. IsGet("schema_registry_cluster_config", schemaRegistryClusterConfigRead)
    BY Reads DEF schemaRegistryClusterConfigRead
  <2>2. Catalog["schema_registry_cluster_config"] = schemaRegistryClusterConfigResource
    BY DEF Catalog, KindNames
  <2> QED BY <2>1, <2>2, TheRead, Creates, Updates, DeleteForms, Assembled DEF
           schemaRegistryClusterConfigResource, schemaRegistryClusterConfigCreate,
           schemaRegistryClusterConfigUpdate, schemaRegistryClusterConfigDelete,
           schemaRegistryClusterConfigImport, WaitingKinds, SettingKinds
<1>55. KeepsDisciplines("schema_registry_cluster_mode", Catalog["schema_registry_cluster_mode"])
  <2>1. IsGet("schema_registry_cluster_mode", schemaRegistryClusterModeRead)
    BY Reads DEF schemaRegistryClusterModeRead
  <2>2. Catalog["schema_registry_cluster_mode"] = schemaRegistryClusterModeResource
    BY DEF Catalog, KindNames
  <2> QED BY <2>1, <2>2, TheRead, Creates, Updates, DeleteForms, Assembled DEF
           schemaRegistryClusterModeResource, schemaRegistryClusterModeCreate,
           schemaRegistryClusterModeUpdate, schemaRegistryClusterModeDelete,
           schemaRegistryClusterModeImport, WaitingKinds, SettingKinds
<1>56. KeepsDisciplines("subject_config", Catalog["subject_config"])
  <2>1. IsGet("subject_config", subjectConfigRead)
    BY Reads DEF subjectConfigRead
  <2>2. Catalog["subject_config"] = subjectConfigResource
    BY DEF Catalog, KindNames
  <2> QED BY <2>1, <2>2, TheRead, Creates, Updates, DeleteForms, Assembled DEF
           subjectConfigResource, subjectConfigCreate, subjectConfigUpdate, subjectConfigDelete,
           subjectConfigImport, WaitingKinds
<1>57. KeepsDisciplines("subject_mode", Catalog["subject_mode"])
  <2>1. IsGet("subject_mode", subjectModeRead)
    BY Reads DEF subjectModeRead
  <2>2. Catalog["subject_mode"] = subjectModeResource
    BY DEF Catalog, KindNames
  <2> QED BY <2>1, <2>2, TheRead, Creates, Updates, DeleteForms, Assembled DEF
           subjectModeResource, subjectModeCreate, subjectModeUpdate, subjectModeDelete,
           subjectModeImport, WaitingKinds
<1>58. KeepsDisciplines("schema_registry_kek", Catalog["schema_registry_kek"])
  <2>1. IsGet("schema_registry_kek", schemaRegistryKekRead)
    BY Reads DEF schemaRegistryKekRead
  <2>2. Catalog["schema_registry_kek"] = schemaRegistryKekResource(FALSE)
    BY DEF Catalog, KindNames
  <2> QED BY <2>1, <2>2, TheRead, Creates, Updates, DeleteForms, Assembled DEF
           schemaRegistryKekResource, schemaRegistryKekCreate, schemaRegistryKekUpdate,
           schemaRegistryKekDelete, schemaRegistryKekImport, WaitingKinds
<1>59. KeepsDisciplines("schema_registry_kek_hard", Catalog["schema_registry_kek_hard"])
  <2>1. IsGet("schema_registry_kek_hard", schemaRegistryKekRead)
    BY Reads DEF schemaRegistryKekRead
  <2>2. Catalog["schema_registry_kek_hard"] = schemaRegistryKekResource(TRUE)
    BY DEF Catalog, KindNames
  <2> QED BY <2>1, <2>2, TheRead, Creates, Updates, DeleteForms, Assembled DEF
           schemaRegistryKekResource, schemaRegistryKekCreate, schemaRegistryKekUpdate,
           schemaRegistryKekDelete, schemaRegistryKekImport, WaitingKinds
<1>60. KeepsDisciplines("schema_registry_dek", Catalog["schema_registry_dek"])
  <2>1. IsGet("schema_registry_dek", schemaRegistryDekRead)
    BY Reads DEF schemaRegistryDekRead, DescribeFirstKinds
  <2>2. Catalog["schema_registry_dek"] = schemaRegistryDekResource(FALSE)
    BY DEF Catalog, KindNames
  <2> QED BY <2>1, <2>2, TheRead, Creates, Updates, DeleteForms, Assembled DEF
           schemaRegistryDekResource, schemaRegistryDekCreate, schemaRegistryDekUpdate,
           schemaRegistryDekDelete, schemaRegistryDekImport, WaitingKinds
<1>61. KeepsDisciplines("schema_registry_dek_hard", Catalog["schema_registry_dek_hard"])
  <2>1. IsGet("schema_registry_dek_hard", schemaRegistryDekRead)
    BY Reads DEF schemaRegistryDekRead, DescribeFirstKinds
  <2>2. Catalog["schema_registry_dek_hard"] = schemaRegistryDekResource(TRUE)
    BY DEF Catalog, KindNames
  <2> QED BY <2>1, <2>2, TheRead, Creates, Updates, DeleteForms, Assembled DEF
           schemaRegistryDekResource, schemaRegistryDekCreate, schemaRegistryDekUpdate,
           schemaRegistryDekDelete, schemaRegistryDekImport, WaitingKinds
<1>62. KeepsDisciplines("tag", Catalog["tag"])
  <2>1. IsGet("tag", tagRead)
    BY Reads DEF tagRead, DescribeFirstKinds
  <2>2. Catalog["tag"] = tagResource
    BY DEF Catalog, KindNames
  <2> QED BY <2>1, <2>2, TheRead, Creates, Updates, DeleteForms, Assembled DEF tagResource,
           tagCreate, tagUpdate, tagDelete, tagImport, WaitingKinds
<1>63. KeepsDisciplines("tag_binding", Catalog["tag_binding"])
  <2>1. IsGet("tag_binding", tagBindingRead)
    BY Reads DEF tagBindingRead, DescribeFirstKinds
  <2>2. Catalog["tag_binding"] = tagBindingResource
    BY DEF Catalog, KindNames
  <2> QED BY <2>1, <2>2, TheRead, Creates, Updates, DeleteForms, Assembled DEF
           tagBindingResource, tagBindingCreate, tagBindingUpdate, tagBindingDelete,
           tagBindingImport, WaitingKinds
<1>64. KeepsDisciplines("business_metadata", Catalog["business_metadata"])
  <2>1. IsGet("business_metadata", businessMetadataRead)
    BY Reads DEF businessMetadataRead, DescribeFirstKinds
  <2>2. Catalog["business_metadata"] = businessMetadataResource
    BY DEF Catalog, KindNames
  <2> QED BY <2>1, <2>2, TheRead, Creates, Updates, DeleteForms, Assembled DEF
           businessMetadataResource, businessMetadataCreate, businessMetadataUpdate,
           businessMetadataDelete, businessMetadataImport, WaitingKinds
<1>65. KeepsDisciplines("business_metadata_binding", Catalog["business_metadata_binding"])
  <2>1. IsGet("business_metadata_binding", businessMetadataBindingRead)
    BY Reads DEF businessMetadataBindingRead, DescribeFirstKinds
  <2>2. Catalog["business_metadata_binding"] = businessMetadataBindingResource
    BY DEF Catalog, KindNames
  <2> QED BY <2>1, <2>2, TheRead, Creates, Updates, DeleteForms, Assembled DEF
           businessMetadataBindingResource, businessMetadataBindingCreate,
           businessMetadataBindingUpdate, businessMetadataBindingDelete,
           businessMetadataBindingImport, WaitingKinds
<1>66. KeepsDisciplines("catalog_entity_attributes", Catalog["catalog_entity_attributes"])
  <2>1. IsGet("catalog_entity_attributes", catalogEntityAttributesRead)
    BY Reads DEF catalogEntityAttributesRead, DescribeFirstKinds
  <2>2. Catalog["catalog_entity_attributes"] = catalogEntityAttributesResource
    BY DEF Catalog, KindNames
  <2> QED BY <2>1, <2>2, TheRead, Creates, Updates, DeleteForms, Assembled DEF
           catalogEntityAttributesResource, catalogEntityAttributesCreate,
           catalogEntityAttributesUpdate, catalogEntityAttributesDelete,
           catalogEntityAttributesImport, WaitingKinds
<1> QED BY <1>1, <1>2, <1>3, <1>4, <1>5, <1>6, <1>7, <1>8, <1>9, <1>10, <1>11, <1>12, <1>13,
         <1>14, <1>15, <1>16, <1>17, <1>18, <1>19, <1>20, <1>21, <1>22, <1>23, <1>24, <1>25,
         <1>26, <1>27, <1>28, <1>29, <1>30, <1>31, <1>32, <1>33, <1>34, <1>35, <1>36, <1>37,
         <1>38, <1>39, <1>40, <1>41, <1>42, <1>43, <1>44, <1>45, <1>46, <1>47, <1>48, <1>49,
         <1>50, <1>51, <1>52, <1>53, <1>54, <1>55, <1>56, <1>57, <1>58, <1>59, <1>60, <1>61,
         <1>62, <1>63, <1>64, <1>65, <1>66 DEF KindNames

-----------------------------------------------------------------------------
(* What the theorems above say of the provider. *)

\* Some of the provider's resources, with the handlers that resource_*.go registers;
\* the authorization of an integration is left out.
ProviderCatalog ==
    /\ Kinds \subseteq KindNames \ {"provider_integration_authorization"}
    /\ Handlers = Catalog
    /\ Describing = DescribeFirstKinds

\* They keep the disciplines.
LEMMA ProviderKinds ==
    ASSUME ProviderCatalog, NEW k \in Kinds
    PROVE  KeepsDisciplines(k, Handlers[k])
BY EveryKind DEF ProviderCatalog

\* The disciplines hold of the provider's handlers.
THEOREM ProviderIsDisciplined == ASSUME ProviderCatalog PROVE Spec => []Disciplined
<1>1. TypeOK => Disciplined
  BY ProviderKinds DEF TypeOK, WorldOK, ProviderOK, KeepsDisciplines, Disciplined
<1> QED BY <1>1, TypeCorrect, PTL

\* No resource of the provider reports that it was created while its object is still
\* being provisioned.
THEOREM ProviderCreatesUsableObjects == ASSUME ProviderCatalog PROVE Spec => []CreatedMeansReady
<1>1. \A k \in Kinds : ReadyOnReturn(Handlers[k])
  BY ProviderKinds DEF KeepsDisciplines
<1> QED BY <1>1, CreatedIsReady

\* What a handler of the provider leaves in the state is what the object has, but
\* for the secrets that no read brings back.
THEOREM ProviderStateIsTrue == ASSUME ProviderCatalog PROVE Spec => []StateIsTrue
<1>1. ASSUME NEW k \in Kinds PROVE ReadsBack(Handlers[k], Parts \ Secrets(k))
  BY ProviderKinds, PartsAssumption DEF KeepsDisciplines, ReadsBack, Both
<1> QED BY <1>1, StateOfTheObject

\* The delete handlers of the provider that wait report success only when the object
\* is gone.
THEOREM ProviderDestroys == ASSUME ProviderCatalog PROVE Spec => DestroyedMeansGone
<1>1. \A k \in Kinds : k \in WaitingKinds => WaitsForItsEnd(Handlers[k])
  BY ProviderKinds DEF KeepsDisciplines
<1> QED BY <1>1, DestroyedIsGone

\* The create and update handlers of the provider report success only when the
\* object has what was planned.
THEOREM ProviderApplies == ASSUME ProviderCatalog PROVE Spec => AppliedMeansApplied
<1>1. \A k \in Kinds : SendsThePlan(Handlers[k])
  BY ProviderKinds DEF KeepsDisciplines
<1> QED BY <1>1, ReportedIsApplied

\* An update of the provider that reports success has changed what it was to change:
\* what lifecycle_authorization shows is confined to that resource.
THEOREM ProviderUpdates == ASSUME ProviderCatalog PROVE Spec => UpdatedMeansApplied
<1>1. ASSUME [Succeeds({"create", "update"}) /\ tf'.id # 0 /\ drift # "since"
                  => \A p \in Changed : cloud[tf'.id].attr[p] = want[p]]_vars
      PROVE  [Succeeds({"update"}) /\ tf'.id # 0 /\ drift # "since"
                  => \A p \in Changed : cloud[tf'.id].attr[p] = want[p]]_vars
  BY <1>1 DEF Succeeds
<1> QED BY <1>1, ProviderApplies, PTL DEF AppliedMeansApplied, UpdatedMeansApplied

\* A refresh that finds nothing to do is right, for the resources whose reads bring
\* back every attribute: what lifecycle_secret shows of the catalog integration is
\* confined to the kinds with a secret.
THEOREM ProviderEmptyPlansAreTrue ==
    ASSUME ProviderCatalog, Kinds \cap SecretKinds = {}
    PROVE  Spec => []EmptyPlanIsTrue
<1>1. TypeOK /\ StateIsTrue => EmptyPlanIsTrue
  <2> SUFFICES ASSUME TypeOK, StateIsTrue, Succeeded({"read"}), tf.id # 0, drift = "none",
                      tf.attr = want
               PROVE  cloud[tf.id].attr = want
    BY DEF EmptyPlanIsTrue
  <2>1. \A p \in Parts : cloud[tf.id].attr[p] = want[p]
    BY DEF StateIsTrue, Succeeded, Secrets, TypeOK, WorldOK
  <2>2. cloud[tf.id].attr \in SavedAttrs /\ tf.attr \in SavedAttrs
    BY DEF TypeOK, WorldOK, ProviderOK, CloudStates, SavedStates
  <2> QED BY <2>1, <2>2 DEF SavedAttrs
<1> QED BY <1>1, TypeCorrect, ProviderStateIsTrue, PTL

\* The resources whose objects can be deleted and whose create handler sets the id
\* as soon as the POST is answered.
Tracked == Kinds \cap (SettingKinds \cup LateIdKinds) = {}

\* They keep track of their objects.
LEMMA ProviderTracks ==
    ASSUME ProviderCatalog, Tracked, NEW k \in Kinds
    PROVE  KeepsTrack(Handlers[k]) /\ (k \notin Describing => ClassifiesRefusals(Handlers[k]))
BY ProviderKinds DEF KeepsDisciplines, Tracked, ProviderCatalog

\* Whatever fails, and whenever the key is revoked, the provider's handlers lose no
\* object that Terraform was told of (with a read that describes a refusal first:
\* as long as the key is valid).
THEOREM ProviderLosesNothing == ASSUME ProviderCatalog, Tracked PROVE Spec => []NoOrphans
BY ProviderTracks, NothingIsLost

\* They drop no instance from the state whose object exists.
THEOREM ProviderForgetsNothing == ASSUME ProviderCatalog, Tracked PROVE Spec => ForgottenOnlyIfGone
BY ProviderTracks, NothingIsForgotten
=============================================================================
