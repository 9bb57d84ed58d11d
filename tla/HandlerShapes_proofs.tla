-------------------------- MODULE HandlerShapes_proofs --------------------------
(***************************************************************************)
(* For any catalogue of handlers: what the shape of the handlers of a kind *)
(* makes true of what they report.  A create that waits for its object     *)
(* returns a usable one, a handler that reads back leaves a true state, a  *)
(* deletion that waits leaves nothing, and a handler that sends the plan   *)
(* reports success only if the object has it.                              *)
(***************************************************************************)
EXTENDS MCResourceLifecycle, ResourceLifecycle_proofs

-----------------------------------------------------------------------------
(* Every step of the specification, seen from a handler. *)

\* Outside of the handler: the cloud, others, the user; or nothing happens.
Outside ==
    /\ UNCHANGED <<kind, tf, op, pc, d>>
    /\ op # "idle" => want' = want
    /\ valid' => valid
    /\ outcome' \in {outcome, NoOutcome}
    /\ \A q \in Objects :
           \/ cloud'[q].phase = cloud[q].phase
           \/ /\ cloud[q].phase \in {"provisioning", "ready", "deleting"}
              /\ cloud'[q].phase \in {"ready", "deleting", "absent"}
    /\ \/ drift' = "since"
       \/ drift' = drift /\ \A q \in Objects : cloud'[q].attr = cloud[q].attr

\* An operation starts.
Starting ==
    /\ op = "idle"
    /\ op' \in Ops
    /\ pc' = 1
    /\ outcome' = NoOutcome
    /\ UNCHANGED <<kind, cloud, valid, want, tf>>
    /\ op' = "create" => d'.id = 0 /\ d'.made = 0 /\ tf.id = 0
    /\ op' \in {"read", "update", "delete"} => d'.id = tf.id /\ tf.id # 0 /\ d'.made = 0
    /\ op' \in {"create", "update"} => d'.attr = want
    /\ op' = "update" => Changed \subseteq Handlers[kind].mutable
    /\ op' = "import" => /\ Handlers[kind].import # << >>
                         /\ Handlers[kind].naming # "minted" => d'.id = Name
                         /\ d'.made = 0

\* The handler goes on with its next step, in one of five ways.
GoingOn ==
    /\ Running
    /\ pc' = pc + 1
    /\ UNCHANGED <<kind, valid, want, tf, op, outcome, drift>>
SameData == d'.id = d.id /\ d'.made = d.made /\ d'.attr = d.attr
Passing ==
    /\ GoingOn
    /\ SameData
    /\ cloud' = cloud
    /\ Do.how # "ifSecond" => Do.do \notin {"post", "setId", "get"}
    /\ Do = WaitReady => Exists(Target) /\ cloud[Target].phase = "ready"
    /\ Do.do = "waitGone" /\ Do.how \notin {"blind", "ifSecond"} /\ valid => ~Visible(Target)
    /\ Do.do = "patch" /\ Do.how # "tolerant" => ~Due
Posting ==
    /\ GoingOn
    /\ At("post")
    /\ d'.id = d.id /\ d'.attr = d.attr
    /\ d'.made \in Postable
    /\ cloud' = AfterPost(d'.made)
Naming ==
    /\ GoingOn
    /\ At("setId")
    /\ d'.id = d.made /\ d'.made = d.made /\ d'.attr = d.attr
    /\ cloud' = cloud
Changing ==
    /\ GoingOn
    /\ SameData
    /\ Do.do \in {"patch", "disturb", "delete", "softDelete", "hardDelete"}
    /\ Do.how = "ifSecond" => Due
    /\ cloud' \in Effects
Getting ==
    /\ GoingOn
    /\ At("get")
    /\ Visible(Target)
    /\ cloud' = cloud
    /\ d'.id = d.id /\ d'.made = d.made
    /\ d'.attr = [p \in Parts |-> IF p \in Do.parts THEN cloud[Target].attr[p] ELSE d.attr[p]]

\* The handler ends: with an error, at its end, or forgetting its object.
Failing ==
    /\ Running
    /\ op' = "idle"
    /\ UNCHANGED kind
    /\ outcome'.verdict = "error"
    /\ d' = NoData
    /\ tf'.id \in {d.id, tf.id}
    /\ \/ cloud' = cloud
       \/ cloud' \in Effects
       \/ At("post") /\ \E o \in Postable : cloud' = AfterPost(o)
Ending(data) ==
    /\ op # "idle"
    /\ op' = "idle"
    /\ UNCHANGED <<kind, cloud, drift, valid, want>>
    /\ outcome' = [op |-> op, verdict |-> "ok"]
    /\ tf' = Saved("ok", data)
    /\ d' = NoData
Returning == Ending(d) /\ pc = Len(Handler) + 1
Forgetting == Ending([d EXCEPT !.id = 0]) /\ At("get")

\* Steps of Terraform start an operation,
LEMMA StartView ==
    ASSUME Apply \/ StartRead \/ \E o \in Objects : StartImport(o)
    PROVE  Starting
<1>1. CASE StartCreate
  BY <1>1 DEF StartCreate, Begin, Starting, Ops
<1>2. CASE StartRead
  BY <1>2 DEF StartRead, Begin, Starting, Ops
<1>3. CASE StartUpdate
  BY <1>3 DEF StartUpdate, Begin, Starting, Ops, Replaces
<1>4. CASE StartDelete
  BY <1>4 DEF StartDelete, Begin, Starting, Ops
<1>5. CASE \E o \in Objects : StartImport(o)
  BY <1>5 DEF StartImport, Begin, Starting, Ops
<1> QED BY <1>1, <1>2, <1>3, <1>4, <1>5 DEF Apply

\* those of the cloud, of others and of the user leave it alone,
LEMMA OutsideView ==
    ASSUME TypeOK, UserEdits \/ Cloud \/ KeyRevoked \/ UNCHANGED vars
    PROVE  Outside
<1>0. cloud \in CloudStates
  BY DEF TypeOK, WorldOK
<1>1. CASE UserEdits
  BY <1>1 DEF UserEdits, Outside
<1>2. CASE KeyRevoked
  BY <1>2 DEF KeyRevoked, OutsideVars, Outside
<1>3. CASE UNCHANGED vars
  BY <1>3 DEF vars, Outside
<1>4. CASE Cloud
  <2>1. PICK q \in Objects : \/ Provisioned(q) \/ DeletionCompletes(q) \/ OthersDelete(q)
                             \/ OthersChange(q)
    BY <1>4 DEF Cloud
  <2>2. UNCHANGED <<kind, want, tf, op, pc, d, outcome, valid>>
    BY <2>1 DEF Provisioned, DeletionCompletes, OthersDelete, OthersChange, OutsideVars
  <2>3. ASSUME NEW f, cloud' = [cloud EXCEPT ![q].phase = f]
        PROVE  /\ cloud'[q].phase = f
               /\ \A o \in Objects \ {q} : cloud'[o].phase = cloud[o].phase
               /\ \A o \in Objects : cloud'[o].attr = cloud[o].attr
    BY <1>0, <2>3 DEF CloudStates
  <2>4. CASE OthersChange(q)
    <3>1. \A o \in Objects : cloud'[o].phase = cloud[o].phase
      BY <1>0, <2>4 DEF OthersChange, CloudStates
    <3> QED BY <2>2, <2>4, <3>1 DEF OthersChange, Outside
  <2>5. CASE Provisioned(q)
    BY <2>2, <2>3, <2>5 DEF Provisioned, Outside
  <2>6. CASE DeletionCompletes(q)
    BY <2>2, <2>3, <2>6 DEF DeletionCompletes, Outside
  <2>7. CASE OthersDelete(q)
    BY <2>2, <2>3, <2>7 DEF OthersDelete, Exists, Outside
  <2> QED BY <2>1, <2>4, <2>5, <2>6, <2>7
<1> QED BY <1>1, <1>2, <1>3, <1>4

\* and those of the handler are the ones above.
LEMMA FailView ==
    ASSUME TypeOK, Running, Fail, UNCHANGED kind,
           \/ cloud' = cloud
           \/ cloud' \in Effects
           \/ At("post") /\ \E o \in Postable : cloud' = AfterPost(o)
    PROVE  Failing
<1>1. op # "idle" /\ op \in Ops
  BY RunningStep DEF Running
<1>2. Saved("error", Reverted).id \in {d.id, tf.id}
  BY <1>1, RevertedType, SavedId
<1> QED BY <1>2 DEF Fail, Finish, Failing

LEMMA PassView ==
    ASSUME TypeOK, UNCHANGED <<kind, valid, want, drift, cloud>>,
           Checked \/ MarkedNew \/ NothingToChange \/ Fetched \/ WaitReadyReturns
               \/ WaitGoneReturns \/ ChangeRefused
    PROVE  Passing \/ Failing
<1>1. d \in ResourceData
  BY DEF TypeOK, ProviderOK
<1>2. WaitReady.do = "waitReady" /\ WaitReady.how = ""
  BY DEF WaitReady, Step
<1>3. Running
  BY DEF Checked, MarkedNew, NothingToChange, Fetched, WaitReadyReturns, WaitGoneReturns,
         ChangeRefused, At
<1>4. CASE Fail
  BY <1>3, <1>4, FailView
<1>5. CASE ~Fail
  <2>1. GoingOn /\ SameData
    BY <1>1, <1>3, <1>5 DEF Checked, MarkedNew, NothingToChange, Fetched, WaitReadyReturns,
         WaitGoneReturns, ChangeRefused, Advance, GoingOn, SameData, ResourceData
  <2>2. Do.how # "ifSecond" => Do.do \notin {"post", "setId", "get"}
    BY DEF Checked, MarkedNew, NothingToChange, Fetched, WaitReadyReturns, WaitGoneReturns,
           ChangeRefused, Changes, Conditional, At
  <2>3. Do = WaitReady => Exists(Target) /\ cloud[Target].phase = "ready"
    BY <1>2, <1>5 DEF Checked, MarkedNew, NothingToChange, Fetched, WaitReadyReturns,
           WaitGoneReturns, ChangeRefused, Changes, Conditional, At
  <2>4. Do.do = "waitGone" /\ Do.how \notin {"blind", "ifSecond"} /\ valid => ~Visible(Target)
    <3> SUFFICES ASSUME Do.do = "waitGone", Do.how \notin {"blind", "ifSecond"}, valid,
                        Visible(Target)
                 PROVE  FALSE
      OBVIOUS
    <3>1. WaitGoneReturns
      BY DEF Checked, MarkedNew, NothingToChange, Fetched, WaitReadyReturns,
             ChangeRefused, Changes, Conditional, At
    <3>2. GetAnswers = {Found("EXISTS")}
      BY DEF GetAnswers
    <3> QED BY <3>1, <3>2 DEF WaitGoneReturns, Found
  <2>5. Do.do = "patch" /\ Do.how # "tolerant" => ~Due
    BY <1>5 DEF Checked, MarkedNew, NothingToChange, Fetched, WaitReadyReturns,
           WaitGoneReturns, ChangeRefused, At
  <2> QED BY <2>1, <2>2, <2>3, <2>4, <2>5 DEF Passing
<1> QED BY <1>4, <1>5

LEMMA HandlerView ==
    ASSUME TypeOK, HandlerStep
    PROVE  \/ Passing \/ Posting \/ Naming \/ Changing \/ Getting
           \/ Failing \/ Returning \/ Forgetting
<1>1. UNCHANGED <<kind, valid, want>>
  BY DEF HandlerStep
<1>2. d \in ResourceData
  BY DEF TypeOK, ProviderOK
<1>3. CASE \/ Checked \/ MarkedNew \/ NothingToChange \/ Fetched \/ WaitReadyReturns
           \/ WaitGoneReturns \/ ChangeRefused
  <2>1. UNCHANGED <<drift, cloud>>
    BY <1>3 DEF Checked, MarkedNew, NothingToChange, Fetched, WaitReadyReturns,
         WaitGoneReturns, ChangeRefused
  <2> QED BY <1>1, <1>3, <2>1, PassView
<1>4. CASE PostAnswered
  <2>1. PICK o \in Postable : cloud' = AfterPost(o) /\ Advance([d EXCEPT !.made = o])
    BY <1>4 DEF PostAnswered
  <2>2. d'.id = d.id /\ d'.attr = d.attr /\ d'.made = o
    BY <1>2, <2>1 DEF Advance, ResourceData
  <2> QED BY <1>1, <1>4, <2>1, <2>2 DEF PostAnswered, Posting, GoingOn, Advance, At
<1>5. CASE PostRefused \/ GetFails
  BY <1>1, <1>5, FailView DEF PostRefused, GetFails, At
<1>6. CASE IdSet
  BY <1>1, <1>2, <1>6 DEF IdSet, Advance, Naming, GoingOn, At, ResourceData
<1>7. CASE ChangeAnswered
  BY <1>1, <1>7 DEF ChangeAnswered, Changes, Conditional, Advance, Changing, GoingOn, SameData
<1>8. CASE GetFound
  <2>1. Visible(Target)
    <3>1. ~Visible(Target) => \A r \in GetAnswers : r.code # "200"
      BY DEF GetAnswers, Refusals, Refused
    <3> QED BY <1>8, <3>1 DEF GetFound
  <2> QED BY <1>1, <1>2, <1>8, <2>1 DEF GetFound, Advance, Getting, GoingOn, At, ResourceData
<1>9. CASE GetForgets
  BY <1>1, <1>9 DEF GetForgets, Finish, Forgetting, Ending, At, Running
<1>10. CASE HandlerReturns
  BY <1>1, <1>10 DEF HandlerReturns, Finish, Returning, Ending
<1> QED BY <1>3, <1>4, <1>5, <1>6, <1>7, <1>8, <1>9, <1>10 DEF HandlerStep

LEMMA StepView ==
    ASSUME TypeOK, [Next]_vars
    PROVE  \/ Outside \/ Starting
           \/ Passing \/ Posting \/ Naming \/ Changing \/ Getting
           \/ Failing \/ Returning \/ Forgetting
<1>1. CASE StepBreaks
  <2>1. /\ Running /\ Fail /\ UNCHANGED kind
        /\ \/ cloud' = cloud
           \/ cloud' \in Effects
           \/ At("post") /\ \E o \in Postable : cloud' = AfterPost(o)
    BY <1>1 DEF StepBreaks, At
  <2> QED BY <2>1, FailView
<1> QED BY <1>1, OutsideView, StartView, HandlerView DEF Next

\* What a call other than a POST may do to phases and attributes,
LEMMA EffectsView ==
    ASSUME TypeOK, cloud' \in Effects
    PROVE  /\ \A q \in Objects : \/ cloud'[q].phase = cloud[q].phase
                                 \/ cloud'[q].phase \in {"deleting", "absent"}
                                 \/ cloud'[q].phase = "soft" /\ Do.do = "softDelete"
           /\ Do.do \notin {"patch", "disturb"} =>
                  \A q \in Objects : cloud'[q].attr = cloud[q].attr
<1>1. cloud \in CloudStates
  BY DEF TypeOK, WorldOK
<1>2. CASE Do.do = "patch" /\ Exists(Target)
  <2>1. cloud' = [cloud EXCEPT ![Target].attr = Patched(cloud[Target].attr)]
    BY <1>2 DEF Effects
  <2> QED BY <1>1, <1>2, <2>1 DEF CloudStates
<1>3. CASE Do.do = "disturb" /\ Exists(Target)
  <2>1. PICK a \in Disturbed(cloud[Target].attr) : cloud' = [cloud EXCEPT ![Target].attr = a]
    BY <1>3 DEF Effects
  <2> QED BY <1>1, <1>3, <2>1 DEF CloudStates
<1>4. CASE Do.do \in {"delete", "softDelete", "hardDelete"}
  <2>1. PICK f \in {"deleting", "soft", "absent"} :
            /\ cloud' = [cloud EXCEPT ![Target].phase = f]
            /\ f = "soft" => Do.do = "softDelete"
    BY <1>4 DEF Effects
  <2> QED BY <1>1, <1>4, <2>1 DEF CloudStates
<1>5. CASE ~(Do.do \in {"patch", "disturb"} /\ Exists(Target))
           /\ Do.do \notin {"delete", "softDelete", "hardDelete"}
  BY <1>5 DEF Effects
<1> QED BY <1>2, <1>3, <1>4, <1>5

\* and what a POST may do to phases.
LEMMA PostView ==
    ASSUME TypeOK, NEW o \in Postable, cloud' = AfterPost(o)
    PROVE  /\ o \in Objects
           /\ \A q \in Objects : \/ cloud'[q].phase = cloud[q].phase
                                 \/ cloud'[q].phase = NewPhase
<1>1. cloud \in CloudStates /\ o \in Objects
  BY ObjectsAssumption DEF TypeOK, WorldOK, Postable, Name
<1>2. CASE ~Exists(o)
  BY <1>1, <1>2 DEF AfterPost, CloudStates
<1>3. CASE Exists(o)
  BY <1>1, <1>3 DEF AfterPost, CloudStates
<1> QED BY <1>1, <1>2, <1>3

\* The handler of the operation under way, and the step it is at.
LEMMA Here ==
    ASSUME TypeOK, op # "idle"
    PROVE  /\ op \in Ops /\ kind \in Kinds
           /\ Handler = Handlers[kind][op]
           /\ Len(Handler) \in Nat
           /\ pc \in 1 .. (Len(Handler) + 1)
           /\ Running => pc \in 1 .. Len(Handler) /\ Do = Handlers[kind][op][pc]
BY RunningStep DEF TypeOK, WorldOK, Handler, Do

\* A handler that goes on stays the same.
LEMMA GoesOn ==
    ASSUME TypeOK, GoingOn
    PROVE  /\ op # "idle" /\ op' = op /\ op \in Ops
           /\ kind \in Kinds /\ kind' = kind
           /\ Handler' = Handler
           /\ Handler = Handlers[kind][op]
           /\ Len(Handler) \in Nat
           /\ pc \in 1 .. Len(Handler)
           /\ pc' = pc + 1
           /\ 1 .. (pc' - 1) = (1 .. (pc - 1)) \cup {pc}
           /\ Do = Handler[pc]
<1>1. op # "idle" /\ op' = op /\ kind' = kind /\ pc' = pc + 1 /\ Running
  BY DEF GoingOn, Running
<1>2. pc \in 1 .. Len(Handler) /\ Len(Handler) \in Nat /\ op \in Ops /\ kind \in Kinds
  BY <1>1, Here
<1>3. 1 .. (pc' - 1) = (1 .. (pc - 1)) \cup {pc}
  BY <1>1, <1>2
<1> QED BY <1>1, <1>2, <1>3 DEF Handler, Do

-----------------------------------------------------------------------------
(* A create that reports success leaves a usable object. *)

\* What the lemmas of this part assume of every kind.
AllReady == \A k \in Kinds : ReadyOnReturn(Handlers[k])

WaitsAt(create, w) ==
    /\ create[w] = WaitReady
    /\ \A i, j \in 1 .. Len(create) :
           create[i].do = "post" => i < w /\ (create[j].do = "post" => j = i)

\* Kinds that provision nothing have nothing provisioned,
ProvisionInv ==
    NeverProvisions(Handlers[kind]) => \A q \in Objects : cloud[q].phase # "provisioning"
\* and a create handler past its wait has a usable object: the one of its only POST.
WaitedInv ==
    op = "create" =>
        \A w \in 1 .. Len(Handler) : WaitsAt(Handler, w) =>
            /\ d.id \in {0, d.made}
            /\ d.made # 0 => \E i \in 1 .. (pc - 1) : Handler[i].do = "post"
            /\ w < pc /\ Target # 0 => cloud[Target].phase # "provisioning"
ReadyInv == TypeOK /\ ProvisionInv /\ WaitedInv /\ CreatedMeansReady

LEMMA ProvisionKeeps ==
    ASSUME TypeOK, ProvisionInv, [Next]_vars
    PROVE  ProvisionInv'
<1>1. kind' = kind
  <2>1. \/ Outside \/ Starting \/ Passing \/ Posting \/ Naming \/ Changing \/ Getting
        \/ Failing \/ Returning \/ Forgetting
    BY StepView
  <2> QED BY <2>1 DEF Outside, Starting, Passing, Posting, Naming, Changing, Getting, GoingOn,
                      Failing, Returning, Forgetting, Ending
<1> SUFFICES ASSUME NeverProvisions(Handlers[kind]), NEW q \in Objects
             PROVE  cloud'[q].phase # "provisioning"
  BY <1>1 DEF ProvisionInv
<1>2. cloud[q].phase # "provisioning"
  BY DEF ProvisionInv
<1>3. At("post") => NewPhase = "ready"
  <2> SUFFICES ASSUME At("post") PROVE NewPhase = "ready"
    OBVIOUS
  <2>1. op \in Ops /\ pc \in 1 .. Len(Handlers[kind][op]) /\ Do = Handlers[kind][op][pc]
    BY Here DEF At, Running
  <2> QED BY <2>1 DEF NeverProvisions, NewPhase, At
<1>4. CASE cloud' = cloud
  BY <1>2, <1>4
<1>5. CASE cloud' \in Effects
  BY <1>2, <1>5, EffectsView
<1>6. CASE At("post") /\ \E o \in Postable : cloud' = AfterPost(o)
  BY <1>2, <1>3, <1>6, PostView
<1>7. CASE Outside
  BY <1>2, <1>7 DEF Outside
<1> QED BY <1>4, <1>5, <1>6, <1>7, StepView
        DEF Starting, Passing, Posting, Naming, Changing, Getting, Failing, Returning,
            Forgetting, Ending

LEMMA WaitedKeeps ==
    ASSUME TypeOK, WaitedInv, [Next]_vars
    PROVE  WaitedInv'
<1>0. cloud \in CloudStates /\ d \in ResourceData /\ 0 \notin Objects
  BY ObjectsAssumption DEF TypeOK, WorldOK, ProviderOK
<1>1. CASE Outside
  <2>1. Handler' = Handler /\ Target' = Target
    BY <1>1 DEF Outside, Handler, Target
  <2>2. Target # 0 => Target \in Objects
    BY <1>0 DEF Target, ResourceData
  <2>3. Target # 0 /\ cloud[Target].phase # "provisioning"
            => cloud'[Target].phase # "provisioning"
    BY <1>1, <2>2 DEF Outside
  <2> QED BY <1>1, <2>1, <2>3 DEF WaitedInv, Outside
<1>2. CASE Starting
  <2> SUFFICES ASSUME op' = "create", NEW w \in 1 .. Len(Handler')
               PROVE  /\ d'.id \in {0, d'.made}
                      /\ d'.made = 0
                      /\ ~(w < pc')
    BY DEF WaitedInv
  <2> QED BY <1>2 DEF Starting
<1>3. CASE GoingOn /\ op = "create"
  <2> SUFFICES ASSUME NEW w \in 1 .. Len(Handler), WaitsAt(Handler, w)
               PROVE  /\ d'.id \in {0, d'.made}
                      /\ d'.made # 0 => \E i \in 1 .. (pc' - 1) : Handler[i].do = "post"
                      /\ w < pc' /\ Target' # 0 => cloud'[Target'].phase # "provisioning"
    BY <1>3, GoesOn DEF WaitedInv
  <2>1. /\ Len(Handler) \in Nat /\ pc \in 1 .. Len(Handler) /\ pc' = pc + 1
        /\ 1 .. (pc' - 1) = (1 .. (pc - 1)) \cup {pc}
        /\ Do = Handler[pc]
    BY <1>3, GoesOn
  <2>2. /\ d.id \in {0, d.made}
        /\ d.made # 0 => \E i \in 1 .. (pc - 1) : Handler[i].do = "post"
        /\ w < pc /\ Target # 0 => cloud[Target].phase # "provisioning"
    BY <1>3 DEF WaitedInv
  <2>3. /\ Handler[w] = WaitReady
        /\ \A i, j \in 1 .. Len(Handler) :
               Handler[i].do = "post" => i < w /\ (Handler[j].do = "post" => j = i)
    BY DEF WaitsAt
  <2>4. /\ w < pc' => w < pc \/ w = pc
        /\ Handler[w].do = "waitReady"
    <3>1. WaitReady.do = "waitReady"
      BY DEF WaitReady, Step
    <3> QED BY <2>1, <2>3, <3>1
  <2>5. Target # 0 => Target \in Objects
    BY <1>0 DEF Target, ResourceData
  <2>6. CASE Passing
    <3>1. d'.id = d.id /\ d'.made = d.made /\ Target' = Target /\ cloud' = cloud
      BY <2>6 DEF Passing, SameData, Target
    <3>2. w = pc => cloud[Target].phase = "ready"
      BY <2>1, <2>3, <2>6 DEF Passing
    <3> QED BY <2>1, <2>2, <2>4, <3>1, <3>2
  <2>7. CASE Posting
    <3>1. Do.do = "post" /\ d'.made \in Postable /\ d'.id = d.id
      BY <2>7 DEF Posting, At
    <3>2. ~(w < pc')
      BY <2>1, <2>3, <3>1
    <3>3. d.made = 0
      BY <2>1, <2>2, <2>3, <3>1
    <3> QED BY <2>1, <2>2, <3>1, <3>2, <3>3
  <2>8. CASE Naming
    <3>1. d'.id = d.made /\ d'.made = d.made /\ cloud' = cloud /\ Do.do = "setId"
      BY <2>8 DEF Naming, At
    <3>2. Target' = Target
      BY <2>2, <3>1 DEF Target
    <3>3. w # pc
      BY <2>1, <2>4, <3>1
    <3> QED BY <2>1, <2>2, <2>4, <3>1, <3>2, <3>3
  <2>9. CASE Changing
    <3>1. d'.id = d.id /\ d'.made = d.made /\ Target' = Target /\ cloud' \in Effects
      BY <2>9 DEF Changing, SameData, Target
    <3>2. w # pc
      BY <2>1, <2>4, <2>9 DEF Changing
    <3>3. Target # 0 /\ cloud[Target].phase # "provisioning"
              => cloud'[Target].phase # "provisioning"
      BY <2>5, <3>1, EffectsView
    <3> QED BY <2>1, <2>2, <2>4, <3>1, <3>2, <3>3
  <2>10. CASE Getting
    <3>1. d'.id = d.id /\ d'.made = d.made /\ Target' = Target /\ cloud' = cloud
      BY <2>10 DEF Getting, Target
    <3>2. w # pc
      BY <2>1, <2>4, <2>10 DEF Getting, At
    <3> QED BY <2>1, <2>2, <2>4, <3>1, <3>2
  <2> QED BY <1>3, <2>6, <2>7, <2>8, <2>9, <2>10, StepView
          DEF Outside, Starting, Failing, Returning, Forgetting, Ending, GoingOn, Running
<1>4. CASE op' # "create"
  BY <1>4 DEF WaitedInv
<1> QED BY <1>1, <1>2, <1>3, <1>4, StepView
        DEF Passing, Posting, Naming, Changing, Getting, GoingOn, Failing, Returning,
            Forgetting, Ending

\* What the SDK saves when a handler succeeds and keeps its id, or drops it.
LEMMA SavedOk ==
    ASSUME TypeOK, op \in {"create", "read", "update", "import"}, NEW data \in ResourceData
    PROVE  /\ Saved("ok", data).id = data.id
           /\ data.id # 0 => Saved("ok", data).attr = data.attr
<1>1. op \in Ops /\ op # "delete"
  BY DEF Ops
<1>2. \E taint : Saved("ok", data) = Kept(data, taint)
  BY DEF Saved
<1>3. \A taint : data.id # 0 => Kept(data, taint).attr = data.attr
  BY DEF Kept
<1>4. Saved("ok", data).id = data.id
  BY <1>1, SavedId
<1> QED BY <1>2, <1>3, <1>4

LEMMA CreatedKeeps ==
    ASSUME ReadyInv, AllReady, [Next]_vars
    PROVE  CreatedMeansReady'
<1>0. TypeOK /\ ProvisionInv /\ WaitedInv /\ CreatedMeansReady
  BY DEF ReadyInv
<1>1. /\ kind \in Kinds /\ d \in ResourceData /\ tf.id \in Objects \cup {0} /\ 0 \notin Objects
  BY <1>0, ObjectsAssumption DEF TypeOK, WorldOK, ProviderOK, SavedStates
<1> SUFFICES ASSUME op' = "idle", outcome'.op = "create", outcome'.verdict = "ok", tf'.id # 0
             PROVE  cloud'[tf'.id].phase # "provisioning"
  BY DEF CreatedMeansReady, Succeeded
<1>2. CASE Outside
  <2>1. outcome' = outcome
    BY <1>2 DEF Outside, NoOutcome
  <2>2. cloud[tf.id].phase # "provisioning" /\ tf' = tf /\ tf.id \in Objects
    BY <1>0, <1>1, <1>2, <2>1 DEF Outside, CreatedMeansReady, Succeeded
  <2> QED BY <1>2, <2>2 DEF Outside
<1>3. CASE Returning
  <2>1. op = "create" /\ tf' = Saved("ok", d) /\ cloud' = cloud /\ pc = Len(Handler) + 1
    BY <1>3 DEF Returning, Ending
  <2>2. tf'.id = d.id /\ d.id \in Objects
    BY <1>0, <1>1, <2>1, SavedOk DEF ResourceData
  <2>3. CASE NeverProvisions(Handlers[kind])
    BY <1>0, <2>1, <2>2, <2>3 DEF ProvisionInv
  <2>4. CASE WaitsForItsPost(Handlers[kind].create)
    <3>1. Handler = Handlers[kind].create /\ Len(Handler) \in Nat
      BY <1>0, <2>1, Here
    <3>2. PICK w \in 1 .. Len(Handler) : WaitsAt(Handler, w)
      BY <2>4, <3>1 DEF WaitsForItsPost, WaitsAt
    <3>3. w < pc /\ Target = d.id /\ Target # 0
      BY <1>1, <2>1, <2>2, <3>1 DEF Target
    <3> QED BY <1>0, <2>1, <2>2, <3>2, <3>3 DEF WaitedInv
  <2> QED BY <1>1, <2>3, <2>4 DEF AllReady, ReadyOnReturn
<1>4. CASE Forgetting
  <2>1. op = "create" /\ tf' = Saved("ok", [d EXCEPT !.id = 0])
    BY <1>4 DEF Forgetting, Ending
  <2>2. [d EXCEPT !.id = 0] \in ResourceData /\ [d EXCEPT !.id = 0].id = 0
    BY <1>1 DEF ResourceData
  <2> QED BY <1>0, <2>1, <2>2, SavedOk
<1>5. ~(Starting \/ GoingOn \/ Failing)
  BY <1>0, GoesOn DEF Starting, Failing, Ops
<1> QED BY <1>0, <1>2, <1>3, <1>4, <1>5, StepView
        DEF Passing, Posting, Naming, Changing, Getting

\* A create that reports success leaves an object that is out of provisioning, for
\* handlers that wait for it (or have nothing provisioned in the background): the
\* last conjunct of WaitedInv carries what the wait saw to the handler's end.
THEOREM CreatedIsReady ==
    ASSUME \A k \in Kinds : ReadyOnReturn(Handlers[k])
    PROVE  Spec => []CreatedMeansReady
<1>1. AllReady
  BY DEF AllReady
<1>2. Init => ReadyInv
  BY InitType DEF Init, ReadyInv, ProvisionInv, WaitedInv, CreatedMeansReady, Succeeded, NoOutcome
<1>3. ReadyInv /\ [Next]_vars => ReadyInv'
  <2> SUFFICES ASSUME ReadyInv, [Next]_vars PROVE ReadyInv'
    OBVIOUS
  <2>1. TypeOK'
    BY HandlerStepType, StepBreaksType, StartType, OutsideType
    DEF ReadyInv, Next, vars, TypeOK, WorldOK, ProviderOK, Handler
  <2> QED BY <1>1, <2>1, ProvisionKeeps, WaitedKeeps, CreatedKeeps DEF ReadyInv
<1> QED BY <1>1, <1>2, <1>3, PTL DEF Spec, ReadyInv

-----------------------------------------------------------------------------
(* What a successful create, read or import leaves in the state is true. *)

\* What the lemmas of this part assume of every kind.
AllReadBack == \A k \in Kinds : ReadsBack(Handlers[k], Parts \ Secrets(k))

\* A handler that has read a part back for the last time has it as the object does,
\* unless somebody else has changed the object since the operation began.
ReadBackInv ==
    /\ op = "import" => Handlers[kind].import # << >>
    /\ op \in {"create", "read", "import"} /\ d.id # 0 /\ drift # "since" =>
           \A p \in Parts : \A i \in 1 .. (pc - 1) :
               ReadsBackAt(Handler, i, p) => d.attr[p] = cloud[d.id].attr[p]
TrueInv == TypeOK /\ ReadBackInv /\ StateIsTrue

LEMMA ReadBackKeeps ==
    ASSUME TypeOK, ReadBackInv, [Next]_vars
    PROVE  ReadBackInv'
<1>0. cloud \in CloudStates /\ d \in ResourceData /\ d.id \in Objects \cup {0}
  BY DEF TypeOK, WorldOK, ProviderOK, ResourceData
<1>1. CASE Outside
  <2>1. Handler' = Handler
    BY <1>1 DEF Outside, Handler
  <2>2. drift' # "since" /\ d.id # 0 => drift = drift' /\ cloud'[d.id].attr = cloud[d.id].attr
    BY <1>0, <1>1 DEF Outside
  <2> QED BY <1>1, <2>1, <2>2 DEF ReadBackInv, Outside
<1>2. CASE Starting
  BY <1>2 DEF ReadBackInv, Starting
<1>3. CASE GoingOn /\ op \in {"create", "read", "import"}
  <2>1. /\ Len(Handler) \in Nat /\ pc \in 1 .. Len(Handler) /\ pc' = pc + 1
        /\ 1 .. (pc' - 1) = (1 .. (pc - 1)) \cup {pc}
        /\ Do = Handler[pc] /\ Handler' = Handler /\ op' = op /\ kind' = kind
    BY <1>3, GoesOn
  <2>2. op' = "import" => Handlers[kind'].import # << >>
    BY <2>1 DEF ReadBackInv
  <2> SUFFICES ASSUME d'.id # 0, drift' # "since",
                      NEW p \in Parts, NEW i \in 1 .. pc, ReadsBackAt(Handler, i, p)
               PROVE  d'.attr[p] = cloud'[d'.id].attr[p]
    BY <1>3, <2>1, <2>2 DEF ReadBackInv
  <2>3. drift # "since"
    BY <1>3 DEF GoingOn
  <2>4. i # pc /\ d.id # 0 => d.attr[p] = cloud[d.id].attr[p]
    BY <1>3, <2>1, <2>3 DEF ReadBackInv
  <2>5. /\ Handler[i].do = "get" /\ Handler[i].how # "ifSecond"
        /\ p \in Handler[i].parts
        /\ i # pc => Do.do \notin {"post", "setId", "patch", "disturb"}
    BY <2>1 DEF ReadsBackAt
  <2>6. CASE Passing
    <3>1. i # pc
      BY <2>1, <2>5, <2>6 DEF Passing
    <3> QED BY <2>4, <2>6, <3>1 DEF Passing, SameData
  <2>7. CASE Posting \/ Naming
    BY <2>1, <2>5, <2>7 DEF Posting, Naming, At
  <2>8. CASE Changing
    <3>1. i # pc
      BY <2>1, <2>5, <2>8 DEF Changing
    <3>2. \A q \in Objects : cloud'[q].attr = cloud[q].attr
      BY <2>5, <2>8, <3>1, EffectsView DEF Changing
    <3> QED BY <1>0, <2>4, <2>8, <3>1, <3>2 DEF Changing, SameData
  <2>9. CASE Getting
    <3>1. Target = d.id /\ d'.id = d.id /\ cloud' = cloud
      BY <2>9 DEF Getting, Target
    <3>2. d'.attr[p] = IF p \in Do.parts THEN cloud[d.id].attr[p] ELSE d.attr[p]
      BY <2>9, <3>1 DEF Getting
    <3> QED BY <2>1, <2>4, <2>5, <3>1, <3>2
  <2> QED BY <1>3, <2>6, <2>7, <2>8, <2>9, StepView
          DEF Outside, Starting, Failing, Returning, Forgetting, Ending, GoingOn, Running
<1>4. CASE op' \notin {"create", "read", "import"}
  BY <1>4 DEF ReadBackInv
<1> QED BY <1>1, <1>2, <1>3, <1>4, StepView
        DEF Passing, Posting, Naming, Changing, Getting, GoingOn, Failing, Returning,
            Forgetting, Ending

LEMMA StateKeeps ==
    ASSUME TrueInv, AllReadBack, [Next]_vars
    PROVE  StateIsTrue'
<1>0. TypeOK /\ ReadBackInv /\ StateIsTrue
  BY DEF TrueInv
<1>1. /\ kind \in Kinds /\ d \in ResourceData /\ tf.id \in Objects \cup {0}
  BY <1>0 DEF TypeOK, WorldOK, ProviderOK, SavedStates
<1> SUFFICES ASSUME op' = "idle", outcome'.op \in {"create", "read", "import"},
                    outcome'.verdict = "ok", tf'.id # 0, drift' # "since",
                    NEW p \in Parts \ Secrets(kind')
             PROVE  tf'.attr[p] = cloud'[tf'.id].attr[p]
  BY DEF StateIsTrue, Succeeded
<1>2. CASE Outside
  <2>1. outcome' = outcome /\ drift' = drift /\ tf' = tf /\ kind' = kind /\ op' = op
    BY <1>2 DEF Outside, NoOutcome
  <2>2. tf.attr[p] = cloud[tf.id].attr[p] /\ tf.id \in Objects
    BY <1>0, <1>1, <2>1 DEF StateIsTrue, Succeeded
  <2>3. \A q \in Objects : cloud'[q].attr = cloud[q].attr
    BY <1>2 DEF Outside
  <2> QED BY <2>1, <2>2, <2>3
<1>3. CASE Returning
  <2>1. /\ op \in {"create", "read", "import"} /\ tf' = Saved("ok", d) /\ cloud' = cloud
        /\ drift' = drift /\ kind' = kind /\ pc = Len(Handler) + 1 /\ op # "idle"
    BY <1>3 DEF Returning, Ending
  <2>2. tf'.id = d.id /\ tf'.attr = d.attr
    BY <1>0, <1>1, <2>1, SavedOk
  <2>3. Handler = Handlers[kind][op] /\ Len(Handler) \in Nat
    BY <1>0, <2>1, Here
  <2>4. ReadsBack(Handlers[kind], Parts \ Secrets(kind))
    BY <1>1 DEF AllReadBack
  <2>5. PICK i \in 1 .. Len(Handler) : ReadsBackAt(Handler, i, p)
    BY <1>0, <2>1, <2>3, <2>4 DEF ReadsBack, ReadBackInv
  <2>6. i \in 1 .. (pc - 1)
    BY <2>1, <2>3
  <2> QED BY <1>0, <2>1, <2>2, <2>5, <2>6 DEF ReadBackInv
<1>4. CASE Forgetting
  <2>1. op \in {"create", "read", "import"} /\ tf' = Saved("ok", [d EXCEPT !.id = 0])
    BY <1>4 DEF Forgetting, Ending
  <2>2. [d EXCEPT !.id = 0] \in ResourceData /\ [d EXCEPT !.id = 0].id = 0
    BY <1>1 DEF ResourceData
  <2> QED BY <1>0, <2>1, <2>2, SavedOk
<1>5. ~(Starting \/ GoingOn \/ Failing)
  BY <1>0, GoesOn DEF Starting, Failing, Ops
<1> QED BY <1>0, <1>2, <1>3, <1>4, <1>5, StepView
        DEF Passing, Posting, Naming, Changing, Getting

\* What a successful create, read or import leaves in the state is what the object
\* has, for handlers that read back after their changes: nothing but others can
\* come between the last read and the end of such a handler.
THEOREM StateOfTheObject ==
    ASSUME \A k \in Kinds : ReadsBack(Handlers[k], Parts \ Secrets(k))
    PROVE  Spec => []StateIsTrue
<1>1. AllReadBack
  BY DEF AllReadBack
<1>2. Init => TrueInv
  BY InitType DEF Init, TrueInv, ReadBackInv, StateIsTrue, Succeeded, NoOutcome
<1>3. TrueInv /\ [Next]_vars => TrueInv'
  <2> SUFFICES ASSUME TrueInv, [Next]_vars PROVE TrueInv'
    OBVIOUS
  <2>1. TypeOK'
    BY HandlerStepType, StepBreaksType, StartType, OutsideType
    DEF TrueInv, Next, vars, TypeOK, WorldOK, ProviderOK, Handler
  <2> QED BY <1>1, <2>1, ReadBackKeeps, StateKeeps DEF TrueInv
<1> QED BY <1>1, <1>2, <1>3, PTL DEF Spec, TrueInv

-----------------------------------------------------------------------------
(* A deletion that waits leaves nothing. *)

\* What the lemmas of this part assume of the kinds whose deletion waits.
AllWaitForTheirEnd ==
    \A k \in Kinds : k \in WaitingKinds => WaitsForItsEnd(Handlers[k])

\* Nothing is deleted softly, and past its last step a delete handler has an object
\* that is gone, as long as the key is valid.
GoneInv ==
    kind \in WaitingKinds =>
        /\ \A q \in Objects : cloud[q].phase # "soft"
        /\ op = "delete" =>
               /\ d.id \in Objects
               /\ pc = Len(Handler) + 1 /\ valid => cloud[d.id].phase = "absent"

LEMMA GoneKeeps ==
    ASSUME TypeOK, GoneInv, AllWaitForTheirEnd, [Next]_vars
    PROVE  GoneInv'
<1>0. /\ cloud \in CloudStates /\ d \in ResourceData /\ 0 \notin Objects
      /\ tf.id \in Objects \cup {0}
  BY ObjectsAssumption DEF TypeOK, WorldOK, ProviderOK, SavedStates
<1>1. kind' = kind
  BY StepView DEF Outside, Starting, Passing, Posting, Naming, Changing, Getting, GoingOn,
                  Failing, Returning, Forgetting, Ending
<1> SUFFICES ASSUME kind \in WaitingKinds
             PROVE  /\ \A q \in Objects : cloud'[q].phase # "soft"
                    /\ op' = "delete" =>
                           /\ d'.id \in Objects
                           /\ pc' = Len(Handler') + 1 /\ valid' => cloud'[d'.id].phase = "absent"
  BY <1>1 DEF GoneInv
<1>2. WaitsForItsEnd(Handlers[kind]) /\ kind \in Kinds
  BY DEF AllWaitForTheirEnd, TypeOK, WorldOK
<1>3. \A q \in Objects : cloud[q].phase # "soft"
  BY DEF GoneInv
<1>4. \A q \in Objects : cloud'[q].phase # "soft"
  <2>1. Running => Do.do # "softDelete"
    BY <1>2, Here DEF WaitsForItsEnd, Running
  <2>2. CASE cloud' \in Effects /\ Running
    BY <1>3, <2>1, <2>2, EffectsView
  <2>3. CASE At("post") /\ \E o \in Postable : cloud' = AfterPost(o)
    BY <1>3, <2>3, PostView DEF NewPhase
  <2>4. CASE Outside
    BY <1>3, <2>4 DEF Outside
  <2>5. CASE cloud' = cloud
    BY <1>3, <2>5
  <2> QED BY <2>2, <2>3, <2>4, <2>5, StepView
          DEF Starting, Passing, Posting, Naming, Changing, Getting, Failing, Returning,
              Forgetting, Ending, GoingOn
<1>5. op' = "delete" => /\ d'.id \in Objects
                        /\ pc' = Len(Handler') + 1 /\ valid' => cloud'[d'.id].phase = "absent"
  <2> SUFFICES ASSUME op' = "delete"
               PROVE  /\ d'.id \in Objects
                      /\ pc' = Len(Handler') + 1 /\ valid' => cloud'[d'.id].phase = "absent"
    OBVIOUS
  <2>0. /\ Handlers[kind].delete # << >>
        /\ Len(Handlers[kind].delete) \in Nat \ {0}
    BY <1>2, HandlersAssumption DEF WaitsForItsEnd, Ops
  <2>1. CASE Outside
    <3>1. Handler' = Handler /\ op = "delete" /\ pc' = pc /\ d' = d /\ (valid' => valid)
      BY <2>1 DEF Outside, Handler
    <3> QED BY <2>1, <3>1 DEF GoneInv, Outside
  <2>2. CASE Starting
    <3>1. d'.id = tf.id /\ tf.id # 0 /\ pc' = 1 /\ Handler' = Handlers[kind].delete
      BY <2>2 DEF Starting, Handler
    <3> QED BY <1>0, <2>0, <3>1
  <2>3. CASE GoingOn
    <3>1. /\ op = "delete" /\ Handler' = Handler /\ Handler = Handlers[kind].delete
          /\ pc \in 1 .. Len(Handler) /\ pc' = pc + 1 /\ Do = Handler[pc] /\ Len(Handler) \in Nat
          /\ valid' = valid
      BY <2>3, GoesOn DEF GoingOn
    <3>2. Do.do \notin {"get", "post", "setId"}
      BY <1>2, <3>1 DEF WaitsForItsEnd
    <3>3. Passing \/ Changing
      BY <2>3, <3>2, StepView DEF Outside, Starting, Posting, Naming, Getting, Failing, Returning,
                                  Forgetting, Ending, At, GoingOn, Running
    <3>4. d'.id = d.id /\ d.id \in Objects /\ Target = d.id
      BY <1>0, <3>1, <3>3 DEF GoneInv, Passing, Changing, SameData, Target
    <3>5. ASSUME pc' = Len(Handler) + 1, valid PROVE cloud'[d.id].phase = "absent"
      <4>1. pc = Len(Handler) /\ Do.do = "waitGone" /\ Do.how \notin {"blind", "ifSecond"}
        BY <1>2, <3>1, <3>5 DEF WaitsForItsEnd
      <4>2. Passing
        BY <3>3, <4>1 DEF Changing
      <4>3. ~Visible(d.id) /\ cloud' = cloud
        BY <3>4, <3>5, <4>1, <4>2 DEF Passing
      <4>4. cloud[d.id].phase \in CloudPhases
        BY <1>0, <3>4 DEF CloudStates
      <4> QED BY <1>3, <3>4, <4>3, <4>4 DEF Visible, CloudPhases
    <3> QED BY <3>1, <3>4, <3>5
  <2>4. CASE op' = "idle"
    BY <2>4
  <2> QED BY <2>1, <2>2, <2>3, <2>4, StepView
          DEF Passing, Posting, Naming, Changing, Getting, Failing, Returning, Forgetting, Ending
<1> QED BY <1>4, <1>5

\* A deletion whose last step waits until the object is gone reports success only
\* when it is, as long as the key is valid.
THEOREM DestroyedIsGone ==
    ASSUME \A k \in Kinds : k \in WaitingKinds => WaitsForItsEnd(Handlers[k])
    PROVE  Spec => DestroyedMeansGone
<1>1. AllWaitForTheirEnd
  BY DEF AllWaitForTheirEnd
<1>2. Init => TypeOK /\ GoneInv
  BY InitType DEF Init, GoneInv
<1>3. TypeOK /\ GoneInv /\ [Next]_vars => TypeOK' /\ GoneInv'
  <2> SUFFICES ASSUME TypeOK, GoneInv, [Next]_vars PROVE TypeOK' /\ GoneInv'
    OBVIOUS
  <2>1. TypeOK'
    BY HandlerStepType, StepBreaksType, StartType, OutsideType
    DEF Next, vars, TypeOK, WorldOK, ProviderOK, Handler
  <2> QED BY <1>1, <2>1, GoneKeeps
<1>4. TypeOK /\ GoneInv /\ [Next]_vars =>
          [Succeeds({"delete"}) /\ kind \in WaitingKinds /\ valid
               => cloud[d.id].phase = "absent"]_vars
  <2> SUFFICES ASSUME TypeOK, GoneInv, [Next]_vars, op = "delete", op' = "idle",
                      outcome'.verdict = "ok", kind \in WaitingKinds, valid
               PROVE  cloud[d.id].phase = "absent"
    BY DEF Succeeds
  <2>1. ~Forgetting
    <3>1. WaitsForItsEnd(Handlers[kind])
      BY <1>1 DEF AllWaitForTheirEnd, TypeOK, WorldOK
    <3> QED BY <3>1, Here DEF WaitsForItsEnd, Forgetting, At, Running
  <2>2. Returning
    BY <2>1, StepView, GoesOn DEF Outside, Starting, Passing, Posting, Naming, Changing, Getting,
                                  Failing
  <2> QED BY <2>2 DEF GoneInv, Returning
<1> QED BY <1>2, <1>3, <1>4, PTL DEF Spec, DestroyedMeansGone

-----------------------------------------------------------------------------
(* A create or an update that reports success has been applied. *)

\* What the lemmas of this part assume of every kind.
AllSend == \A k \in Kinds : SendsThePlan(Handlers[k])

Minted == Handlers[kind].naming = "minted"

\* The object that the handler means: the one that has the name, or the one whose
\* identity it holds.
TheObject == IF Minted THEN Target ELSE Name

\* There is only one: every id is that of the name; or only the answer of the one
\* POST of a create handler brings an identity in.
ObjectInv ==
    /\ ~Minted => tf.id \in {0, Name} /\ d.id \in {0, Name} /\ d.made \in {0, Name}
    /\ Minted /\ op = "create" =>
           /\ d.id \in {0, d.made}
           /\ d.made # 0 => \E i \in 1 .. (pc - 1) : Handler[i].do = "post"

\* Until it reads something back, a handler holds the plan.
PlanInv ==
    op \in {"create", "update"} /\ (\A j \in 1 .. (pc - 1) : Handler[j].do # "get")
        => d.attr = want

\* A handler holds the planned value of a part that it is to change, and past the
\* step that sends it the object has it, unless somebody else interfered.
SentInv ==
    op \in {"create", "update"} =>
        /\ op = "update" => Changed \subseteq Handlers[kind].mutable
        /\ drift # "since" =>
               \A p \in Changed : \A i \in 1 .. Len(Handler) :
                   SendsAt(Handlers[kind], Handler, i, p, Changed) =>
                       /\ d.attr[p] = want[p]
                       /\ i < pc /\ TheObject # 0 => cloud[TheObject].attr[p] = want[p]
AppliedInv == TypeOK /\ ObjectInv /\ PlanInv /\ SentInv

\* What a POST does to attributes: it sends the ones of the handler to its object,
\* except where the API leaves an existing object alone.
LEMMA PostSends ==
    ASSUME TypeOK, NEW o \in Postable, cloud' = AfterPost(o)
    PROVE  /\ o \in Objects
           /\ ~Minted => o = Name
           /\ \A q \in Objects \ {o} : cloud'[q].attr = cloud[q].attr
           /\ \/ cloud'[o].attr = d.attr
              \/ Handlers[kind].naming = "once" /\ cloud'[o].attr = cloud[o].attr
<1>1. cloud \in CloudStates /\ o \in Objects
  BY ObjectsAssumption DEF TypeOK, WorldOK, Postable, Name
<1>2. ~Minted => o = Name
  BY DEF Minted, Postable
<1>3. CASE ~Exists(o)
  BY <1>1, <1>2, <1>3 DEF AfterPost, CloudStates
<1>4. CASE Exists(o)
  BY <1>1, <1>2, <1>4 DEF AfterPost, CloudStates
<1> QED BY <1>3, <1>4

\* What the other calls do to the attributes of an object.
LEMMA ChangeSends ==
    ASSUME TypeOK, cloud' \in Effects, NEW p \in Parts, NEW v,
           d.attr[p] = v, Do.do = "disturb" => p \notin Do.parts
    PROVE  /\ \A q \in Objects : cloud[q].attr[p] = v => cloud'[q].attr[p] = v
           /\ Do.do = "patch" /\ p \in Do.parts =>
                  Target \in Objects /\ \A q \in {Target} : cloud'[q].attr[p] = v
<1>1. cloud \in CloudStates
  BY DEF TypeOK, WorldOK
<1>2. CASE Do.do = "patch"
  <2>1. Exists(Target) /\ cloud' = [cloud EXCEPT ![Target].attr = Patched(cloud[Target].attr)]
    BY <1>2 DEF Effects
  <2>2. Target \in Objects
    BY <2>1 DEF Exists
  <2>3. /\ cloud'[Target].attr = Patched(cloud[Target].attr)
        /\ \A q \in Objects \ {Target} : cloud'[q].attr = cloud[q].attr
    BY <1>1, <2>1, <2>2 DEF CloudStates
  <2>4. Patched(cloud[Target].attr)[p] = IF p \in Do.parts THEN v ELSE cloud[Target].attr[p]
    BY DEF Patched
  <2> QED BY <2>2, <2>3, <2>4
<1>3. CASE Do.do = "disturb"
  <2>1. Exists(Target)
    BY <1>3 DEF Effects
  <2>2. PICK a \in Disturbed(cloud[Target].attr) : cloud' = [cloud EXCEPT ![Target].attr = a]
    BY <1>3, <2>1 DEF Effects
  <2>3. Target \in Objects /\ a[p] = cloud[Target].attr[p]
    BY <1>3, <2>1, <2>2 DEF Exists, Disturbed
  <2>4. /\ cloud'[Target].attr = a
        /\ \A q \in Objects \ {Target} : cloud'[q].attr = cloud[q].attr
    BY <1>1, <2>2, <2>3 DEF CloudStates
  <2> QED BY <1>3, <2>3, <2>4
<1>4. CASE Do.do \notin {"patch", "disturb"}
  BY <1>4, EffectsView
<1> QED BY <1>2, <1>3, <1>4

\* In a kind whose identities are minted only a create handler POSTs, once.
LEMMA OnePost ==
    ASSUME TypeOK, AllSend, Minted, Running, Do.do \in {"post", "setId"}
    PROVE  /\ op = "create"
           /\ Do.do = "post" => \A i \in 1 .. (pc - 1) : Handler[i].do # "post"
<1>1. /\ op \in Ops /\ kind \in Kinds /\ Handler = Handlers[kind][op] /\ Len(Handler) \in Nat
      /\ pc \in 1 .. Len(Handler) /\ Do = Handlers[kind][op][pc]
  BY Here DEF Running
<1>2. /\ CreatesNothing(Handlers[kind])
      /\ \A i, j \in 1 .. Len(Handlers[kind].create) :
             Handlers[kind].create[i].do = "post" /\ Handlers[kind].create[j].do = "post" => i = j
  BY <1>1 DEF AllSend, SendsThePlan, Minted
<1>3. op = "create"
  BY <1>1, <1>2 DEF CreatesNothing
<1> QED BY <1>1, <1>2, <1>3

LEMMA ObjectKeeps ==
    ASSUME TypeOK, ObjectInv, AllSend, [Next]_vars
    PROVE  ObjectInv'
<1>0. d \in ResourceData /\ Minted' = Minted
  BY StepView DEF TypeOK, ProviderOK, Outside, Starting, Passing, Posting, Naming, Changing,
                  Getting, GoingOn, Failing, Returning, Forgetting, Ending, Minted
<1>1. CASE Outside
  BY <1>0, <1>1 DEF Outside, ObjectInv, Handler
<1>2. CASE Starting
  <2>1. ~Minted => tf'.id \in {0, Name} /\ d'.id \in {0, Name} /\ d'.made \in {0, Name}
    BY <1>2 DEF Starting, ObjectInv, Minted, Ops
  <2> QED BY <1>0, <1>2, <2>1 DEF Starting, ObjectInv
<1>3. CASE GoingOn
  <2>1. /\ op' = op /\ tf' = tf /\ Handler' = Handler /\ Do = Handler[pc]
        /\ pc \in 1 .. Len(Handler) /\ Len(Handler) \in Nat /\ pc' = pc + 1
        /\ 1 .. (pc' - 1) = (1 .. (pc - 1)) \cup {pc}
    BY <1>3, GoesOn DEF GoingOn
  <2>2. CASE Passing \/ Changing \/ Getting
    <3>1. d'.id = d.id /\ d'.made = d.made
      BY <2>2 DEF Passing, Changing, Getting, SameData
    <3> QED BY <1>0, <2>1, <3>1 DEF ObjectInv
  <2>3. CASE Posting
    <3>1. d'.id = d.id /\ d'.made \in Postable /\ Do.do = "post" /\ Running
      BY <2>3 DEF Posting, At
    <3>2. ~Minted => d'.made = Name
      BY <3>1 DEF Minted, Postable
    <3>3. Minted => d.made = 0 /\ d.id = 0
      BY <2>1, <3>1, OnePost DEF ObjectInv
    <3>4. \E i \in 1 .. (pc' - 1) : Handler[i].do = "post"
      BY <2>1, <3>1
    <3> QED BY <1>0, <2>1, <3>1, <3>2, <3>3, <3>4 DEF ObjectInv
  <2>4. CASE Naming
    <3>1. d'.id = d.made /\ d'.made = d.made
      BY <2>4 DEF Naming
    <3> QED BY <1>0, <2>1, <3>1 DEF ObjectInv
  <2> QED BY <1>3, <2>2, <2>3, <2>4, StepView
          DEF Outside, Starting, Failing, Returning, Forgetting, Ending, GoingOn, Running
<1>4. CASE Failing
  BY <1>0, <1>4 DEF Failing, NoData, ObjectInv
<1>5. CASE Returning \/ Forgetting
  <2>1. PICK data \in ResourceData : data.id \in {0, d.id} /\ Ending(data)
    <3>1. [d EXCEPT !.id = 0] \in ResourceData /\ [d EXCEPT !.id = 0].id = 0
      BY <1>0 DEF ResourceData
    <3> QED BY <1>0, <1>5, <3>1 DEF Returning, Forgetting
  <2>2. op' = "idle" /\ d' = NoData /\ tf' = Saved("ok", data) /\ op # "idle"
    BY <2>1 DEF Ending
  <2>3. tf'.id \in {0, d.id}
    BY <2>1, <2>2, Here, SavedId
  <2> QED BY <1>0, <2>2, <2>3 DEF NoData, ObjectInv
<1> QED BY <1>1, <1>2, <1>3, <1>4, <1>5, StepView
        DEF Passing, Posting, Naming, Changing, Getting

\* The object stays the same while a handler goes on, but for the POST that brings
\* it in.
LEMMA SameObject ==
    ASSUME TypeOK, ObjectInv, AllSend, [Next]_vars, GoingOn
    PROVE  /\ ~Posting => TheObject' = TheObject
           /\ Posting => TheObject' = d'.made
           /\ TheObject # 0 => TheObject \in Objects
           /\ Target # 0 => Target = TheObject
<1>1. Minted' = Minted /\ d \in ResourceData
  BY DEF GoingOn, Minted, TypeOK, ProviderOK
<1>2. Name \in Objects
  BY ObjectsAssumption DEF Name
<1>3. Target \in Objects \cup {0}
  BY <1>1 DEF ResourceData, Target
<1>4. ~Minted => Target \in {0, Name}
  BY DEF ObjectInv, Target
<1>5. ASSUME Minted, Naming PROVE Target' = Target
  <2>1. op = "create"
    BY <1>5, OnePost DEF Naming, At
  <2> QED BY <1>5, <2>1 DEF ObjectInv, Naming, Target
<1>6. ASSUME Passing \/ Changing \/ Getting PROVE Target' = Target
  BY <1>6 DEF Passing, Changing, Getting, SameData, Target
<1>7. ASSUME Posting PROVE TheObject' = d'.made
  <2>1. d'.id = d.id /\ d'.made \in Postable /\ Running /\ Do.do = "post"
    BY <1>7 DEF Posting, At
  <2>2. ~Minted => d'.made = Name
    BY <2>1 DEF Minted, Postable
  <2>3. Minted => d.id = 0
    BY <2>1, OnePost DEF ObjectInv
  <2> QED BY <1>1, <2>1, <2>2, <2>3 DEF TheObject, Target
<1>8. Passing \/ Posting \/ Naming \/ Changing \/ Getting
  BY StepView, GoesOn DEF Outside, Starting, Failing, Returning, Forgetting, Ending, GoingOn,
                          Running
<1> QED BY <1>1, <1>2, <1>3, <1>4, <1>5, <1>6, <1>7, <1>8 DEF TheObject

LEMMA PlanKeeps ==
    ASSUME TypeOK, PlanInv, [Next]_vars
    PROVE  PlanInv'
<1>1. CASE Outside
  BY <1>1 DEF Outside, PlanInv, Handler
<1>2. CASE Starting
  BY <1>2 DEF Starting, PlanInv
<1>3. CASE GoingOn
  <2>1. /\ op' = op /\ want' = want /\ Handler' = Handler /\ Do = Handler[pc]
        /\ 1 .. (pc' - 1) = (1 .. (pc - 1)) \cup {pc}
    BY <1>3, GoesOn DEF GoingOn
  <2>2. CASE Getting
    BY <2>1, <2>2 DEF Getting, At, PlanInv
  <2>3. CASE ~Getting
    <3>1. d'.attr = d.attr
      BY <1>3, <2>3, StepView DEF Outside, Starting, Passing, Posting, Naming, Changing, SameData,
             Failing, Returning, Forgetting, Ending, GoingOn, Running
    <3> QED BY <2>1, <3>1 DEF PlanInv
  <2> QED BY <2>2, <2>3
<1>4. CASE op' = "idle"
  BY <1>4 DEF PlanInv
<1> QED BY <1>1, <1>2, <1>3, <1>4, StepView
        DEF Passing, Posting, Naming, Changing, Getting, Failing, Returning, Forgetting, Ending

LEMMA SentKeeps ==
    ASSUME AppliedInv, AllSend, [Next]_vars
    PROVE  SentInv'
<1>0. /\ TypeOK /\ ObjectInv /\ PlanInv /\ SentInv
      /\ cloud \in CloudStates /\ d \in ResourceData /\ 0 \notin Objects
  BY ObjectsAssumption DEF AppliedInv, TypeOK, WorldOK, ProviderOK
<1>1. CASE Outside /\ op \in {"create", "update"}
  <2>1. /\ Handler' = Handler /\ Changed' = Changed /\ kind' = kind /\ op' = op /\ pc' = pc
        /\ d' = d /\ want' = want /\ TheObject' = TheObject
    BY <1>1 DEF Outside, Handler, Changed, TheObject, Minted, Target
  <2>2. TheObject # 0 => TheObject \in Objects
    BY <1>0, ObjectsAssumption DEF TheObject, Target, ResourceData, Name
  <2>3. drift' # "since" => drift = drift' /\ \A q \in Objects : cloud'[q].attr = cloud[q].attr
    BY <1>1 DEF Outside
  <2> QED BY <1>0, <2>1, <2>2, <2>3 DEF SentInv
<1>2. CASE Starting
  <2> SUFFICES ASSUME op' \in {"create", "update"}
               PROVE  /\ op' = "update" => Changed' \subseteq Handlers[kind'].mutable
                      /\ \A p : d'.attr[p] = want'[p]
                      /\ \A i \in 1 .. Len(Handler') : ~(i < pc')
    BY DEF SentInv
  <2>1. Changed' = Changed /\ pc' = 1 /\ kind' = kind /\ want' = want
    BY <1>2 DEF Starting, Changed
  <2> QED BY <1>2, <2>1 DEF Starting
<1>3. CASE GoingOn /\ op \in {"create", "update"}
  <2>1. /\ op' = op /\ kind' = kind /\ tf' = tf /\ want' = want /\ drift' = drift
        /\ Handler' = Handler /\ Do = Handler[pc] /\ Changed' = Changed
        /\ pc \in 1 .. Len(Handler) /\ Len(Handler) \in Nat /\ pc' = pc + 1
    BY <1>0, <1>3, GoesOn DEF GoingOn, Changed
  <2>2. op = "update" => Changed \subseteq Handlers[kind].mutable
    BY <1>0, <1>3 DEF SentInv
  <2> SUFFICES ASSUME drift # "since", NEW p \in Changed, NEW i \in 1 .. Len(Handler),
                      SendsAt(Handlers[kind], Handler, i, p, Changed)
               PROVE  /\ d'.attr[p] = want[p]
                      /\ i < pc' /\ TheObject' # 0 => cloud'[TheObject'].attr[p] = want[p]
    BY <1>3, <2>1, <2>2 DEF SentInv
  <2>3. /\ d.attr[p] = want[p]
        /\ i < pc /\ TheObject # 0 => cloud[TheObject].attr[p] = want[p]
    BY <1>0, <1>3 DEF SentInv
  <2>4. p \in Parts /\ want[p] # tf.attr[p]
    BY DEF Changed
  <2>5. i < pc' <=> i < pc \/ i = pc
    BY <2>1
  <2>6. /\ ~Posting => TheObject' = TheObject
        /\ Posting => TheObject' = d'.made
        /\ TheObject # 0 => TheObject \in Objects
        /\ Target # 0 => Target = TheObject
    BY <1>0, <1>3, SameObject
  <2>7. /\ \/ /\ Handler[i].do = "post" /\ Handler[i].how # "ifSecond"
              /\ Handlers[kind].naming # "once"
           \/ /\ Handler[i].do = "patch" /\ Handler[i].how # "tolerant"
              /\ p \in Handler[i].parts
              /\ Handler[i].how = "ifSecond" => "second" \in Changed
        /\ \A j \in 1 .. (i - 1) : Handler[j].do = "get" => p \notin Handler[j].parts
        /\ \A j \in (i + 1) .. Len(Handler) :
               Handler[j].do = "disturb" /\ (Handler[j].how = "ifSecond" => "second" \in Changed)
                   => p \notin Handler[j].parts
        /\ \A j, g \in 1 .. Len(Handler) :
               Handler[j].how = "ifSecond" /\ Handler[g].do = "get" => j < g
    BY DEF SendsAt
  <2>13. Do.how = "ifSecond" => (Due <=> "second" \in Changed)
    <3> SUFFICES ASSUME Do.how = "ifSecond" PROVE Due <=> "second" \in Changed
      OBVIOUS
    <3>1. \A j \in 1 .. (pc - 1) : Handler[j].do # "get"
      BY <2>1, <2>7
    <3>2. d.attr = want
      BY <1>0, <1>3, <3>1 DEF PlanInv
    <3> QED BY <3>2 DEF Due, HasChanges, Second, Changed
  <2>8. CASE Passing /\ ~Posting
    <3>1. d'.attr = d.attr /\ cloud' = cloud /\ ~Posting
      BY <2>8 DEF Passing, SameData
    <3>2. i # pc
      <4> SUFFICES ASSUME i = pc PROVE FALSE
        OBVIOUS
      <4>1. Do.do = "patch" /\ Do.how # "tolerant" /\ p \in Do.parts
            /\ (Do.how = "ifSecond" => "second" \in Changed)
        BY <2>1, <2>7, <2>8 DEF Passing
      <4>2. ~Due
        BY <2>8, <4>1 DEF Passing
      <4> QED BY <2>3, <2>4, <2>13, <4>1, <4>2 DEF Due, HasChanges
    <3> QED BY <2>3, <2>5, <2>6, <3>1, <3>2
  <2>9. CASE Posting
    <3>1. d'.attr = d.attr /\ d'.made \in Postable /\ cloud' = AfterPost(d'.made)
      BY <2>9 DEF Posting
    <3>2. PICK o \in Postable : o = d'.made /\ cloud' = AfterPost(o)
      BY <3>1
    <3>3. /\ o \in Objects /\ (~Minted => o = Name)
          /\ \/ cloud'[o].attr = d.attr
             \/ Handlers[kind].naming = "once" /\ cloud'[o].attr = cloud[o].attr
      BY <1>0, <3>2, PostSends
    <3>4. CASE cloud'[o].attr = d.attr
      BY <2>3, <2>6, <2>9, <3>1, <3>2, <3>4
    <3>5. CASE Handlers[kind].naming = "once" /\ cloud'[o].attr = cloud[o].attr
      <4>1. ~Minted /\ TheObject = o
        BY <3>3, <3>5 DEF Minted, TheObject
      <4>2. i # pc
        BY <2>1, <2>7, <2>9, <3>5 DEF Posting, At
      <4> QED BY <2>3, <2>5, <2>6, <2>9, <3>1, <3>2, <3>5, <4>1, <4>2
    <3> QED BY <3>3, <3>4, <3>5
  <2>10. CASE Naming
    <3>1. d'.attr = d.attr /\ cloud' = cloud /\ Do.do = "setId"
      BY <2>10 DEF Naming, At
    <3>2. i # pc /\ ~Posting
      BY <2>1, <2>7, <3>1 DEF Posting, At
    <3> QED BY <2>3, <2>5, <2>6, <3>1, <3>2
  <2>11. CASE Changing
    <3>1. /\ d'.attr = d.attr /\ cloud' \in Effects /\ ~Posting
          /\ Do.how = "ifSecond" => Due
      BY <2>11 DEF Changing, SameData, Posting, At
    <3>2. CASE i < pc
      <4>1. Do.do = "disturb" => p \notin Do.parts
        BY <2>1, <2>7, <2>13, <3>1, <3>2
      <4>2. \A q \in Objects : cloud[q].attr[p] = want[p] => cloud'[q].attr[p] = want[p]
        BY <1>0, <2>3, <2>4, <3>1, <4>1, ChangeSends
      <4> QED BY <2>3, <2>6, <3>1, <3>2, <4>2
    <3>3. CASE i = pc
      <4>1. Do.do = "patch" /\ p \in Do.parts
        BY <2>1, <2>7, <2>11, <3>3 DEF Changing
      <4>2. Target \in Objects /\ \A q \in {Target} : cloud'[q].attr[p] = want[p]
        BY <1>0, <2>3, <2>4, <3>1, <4>1, ChangeSends
      <4> QED BY <1>0, <2>3, <2>6, <3>1, <4>2
    <3>4. CASE ~(i < pc) /\ i # pc
      BY <2>3, <2>5, <3>1, <3>4
    <3> QED BY <3>2, <3>3, <3>4
  <2>12. CASE Getting
    <3>1. /\ cloud' = cloud /\ Do.do = "get" /\ Visible(Target) /\ ~Posting
          /\ d'.attr[p] = IF p \in Do.parts THEN cloud[Target].attr[p] ELSE d.attr[p]
      BY <2>4, <2>12 DEF Getting, At, Posting
    <3>2. Target = TheObject /\ TheObject # 0
      BY <1>0, <2>6, <3>1 DEF Visible
    <3>3. i # pc /\ (p \in Do.parts => i < pc)
      BY <2>1, <2>7, <3>1
    <3> QED BY <2>3, <2>5, <2>6, <3>1, <3>2, <3>3
  <2> QED BY <1>0, <1>3, <2>8, <2>9, <2>10, <2>11, <2>12, StepView
          DEF Outside, Starting, Failing, Returning, Forgetting, Ending, GoingOn, Running
<1>4. CASE op' \notin {"create", "update"}
  BY <1>4 DEF SentInv
<1> QED BY <1>0, <1>1, <1>2, <1>3, <1>4, StepView
        DEF Outside, Passing, Posting, Naming, Changing, Getting, GoingOn, Failing, Returning,
            Forgetting, Ending

\* A create or an update reports success only when the object has all that the plan
\* was to change, for handlers that send the plan to one object before they read it
\* back.  A create has all attributes to change: the state has none of them.
THEOREM ReportedIsApplied ==
    ASSUME \A k \in Kinds : SendsThePlan(Handlers[k])
    PROVE  Spec => AppliedMeansApplied
<1>1. AllSend
  BY DEF AllSend
<1>2. Init => AppliedInv
  BY InitType DEF Init, AppliedInv, ObjectInv, PlanInv, SentInv, NoState, NoData
<1>3. AppliedInv /\ [Next]_vars => AppliedInv'
  <2> SUFFICES ASSUME AppliedInv, [Next]_vars PROVE AppliedInv'
    OBVIOUS
  <2>1. TypeOK'
    BY HandlerStepType, StepBreaksType, StartType, OutsideType
    DEF AppliedInv, Next, vars, TypeOK, WorldOK, ProviderOK, Handler
  <2> QED BY <1>1, <2>1, ObjectKeeps, PlanKeeps, SentKeeps DEF AppliedInv
<1>4. AppliedInv /\ [Next]_vars =>
          [Succeeds({"create", "update"}) /\ tf'.id # 0 /\ drift # "since"
               => \A p \in Changed : cloud[tf'.id].attr[p] = want[p]]_vars
  <2> SUFFICES ASSUME AppliedInv, [Next]_vars, op \in {"create", "update"}, op' = "idle",
                      outcome'.verdict = "ok", tf'.id # 0, drift # "since", NEW p \in Changed
               PROVE  cloud[tf'.id].attr[p] = want[p]
    BY DEF Succeeds
  <2>0. TypeOK /\ ObjectInv /\ SentInv /\ kind \in Kinds /\ d \in ResourceData
    BY DEF AppliedInv, TypeOK, WorldOK, ProviderOK
  <2>1. ~Forgetting
    <3>1. [d EXCEPT !.id = 0] \in ResourceData /\ [d EXCEPT !.id = 0].id = 0
      BY <2>0 DEF ResourceData
    <3> QED BY <2>0, <3>1, SavedOk DEF Forgetting, Ending
  <2>2. Returning
    BY <2>0, <2>1, StepView, GoesOn DEF Outside, Starting, Passing, Posting, Naming, Changing,
                                        Getting, Failing
  <2>3. tf'.id = d.id /\ pc = Len(Handler) + 1
    BY <2>0, <2>2, SavedOk DEF Returning, Ending
  <2>4. TheObject = d.id
    BY <2>0, <2>3 DEF TheObject, Target, ObjectInv
  <2>5. Handler = Handlers[kind][op] /\ Len(Handler) \in Nat
    BY <2>0, Here
  <2>6. p \in PartNames /\ (op = "update" => p \in Handlers[kind].mutable)
    BY <2>0, PartsAssumption DEF Changed, SentInv
  <2>7. SendsThePlan(Handlers[kind])
    BY <1>1, <2>0 DEF AllSend
  <2>8. PICK i \in 1 .. Len(Handler) : SendsAt(Handlers[kind], Handler, i, p, Changed)
    <3>1. Changed \in SUBSET PartNames /\ (op = "update" => Changed \in SUBSET Handlers[kind].mutable)
      BY <2>0, PartsAssumption DEF Changed, SentInv
    <3> QED BY <2>5, <2>7, <3>1 DEF SendsThePlan
  <2>9. i < pc
    BY <2>3, <2>5
  <2> QED BY <2>0, <2>3, <2>4, <2>8, <2>9 DEF SentInv
<1> QED BY <1>2, <1>3, <1>4, PTL DEF Spec, AppliedMeansApplied
=============================================================================
