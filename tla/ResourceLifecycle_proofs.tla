----------------------- MODULE ResourceLifecycle_proofs -----------------------
(***************************************************************************)
(* For any catalogue of handlers: the type invariant, and, when the        *)
(* handlers keep the discipline of KeepsTrack (and ClassifiesRefusals),    *)
(* that no object Terraform was told of gets lost.                         *)
(***************************************************************************)
EXTENDS ResourceLifecycle, TLAPS

-----------------------------------------------------------------------------
(* The type invariant. *)

\* The configuration, with or without the resource, is a value of attributes.
LEMMA AttrsAreSaved ==
    /\ Attrs \subseteq SavedAttrs
    /\ NullAttrs \in SavedAttrs
    /\ NoConfig \in SavedAttrs
BY DEF Attrs, SavedAttrs, NullAttrs, NoConfig

\* Init satisfies the type invariant.
LEMMA InitType == Init => TypeOK
<1> SUFFICES ASSUME Init PROVE TypeOK
  OBVIOUS
<1>1. WorldOK
  <2>1. cloud \in CloudStates
    BY AttrsAreSaved DEF Init, CloudStates, CloudPhases
  <2> QED BY <2>1, MaxFaultsAssumption DEF Init, WorldOK
<1>2. ProviderOK
  BY AttrsAreSaved DEF Init, ProviderOK, SavedStates, NoState, ResourceData, NoData, Outcomes,
                       NoOutcome
<1> QED BY <1>1, <1>2 DEF TypeOK

\* A handler under way is a sequence of steps, and the step it is at is one.
LEMMA RunningStep ==
    ASSUME TypeOK, op # "idle"
    PROVE  /\ op \in Ops
           /\ Handler \in Seq(Steps)
           /\ Len(Handler) \in Nat
           /\ pc \in 1 .. (Len(Handler) + 1)
           /\ Running => /\ pc \in 1 .. Len(Handler)
                         /\ pc + 1 \in 1 .. (Len(Handler) + 1)
                         /\ Do \in Steps
<1>1. op \in Ops /\ kind \in Kinds /\ pc \in 1 .. (Len(Handler) + 1)
  BY DEF TypeOK, WorldOK, ProviderOK
<1>2. Handler \in Seq(Steps)
  BY <1>1, HandlersAssumption DEF Handler
<1>3. Len(Handler) \in Nat
  BY <1>2
<1>4. ASSUME Running PROVE pc \in 1 .. Len(Handler) /\ pc + 1 \in 1 .. (Len(Handler) + 1) /\ Do \in Steps
  <2>1. pc \in 1 .. Len(Handler)
    BY <1>4 DEF Running
  <2> QED BY <2>1, <1>2, <1>3 DEF Do
<1> QED BY <1>1, <1>2, <1>3, <1>4

\* What the SDK saves of a ResourceData is well formed.
LEMMA SavedType ==
    ASSUME TypeOK, NEW verdict, NEW data \in ResourceData
    PROVE  /\ Saved(verdict, data) \in SavedStates
           /\ Saved(verdict, data).id = 0 => Saved(verdict, data) = NoState
<1>1. ASSUME NEW taint \in BOOLEAN
      PROVE  /\ Kept(data, taint) \in SavedStates
             /\ Kept(data, taint).id = 0 => Kept(data, taint) = NoState
  BY AttrsAreSaved DEF Kept, SavedStates, NoState, ResourceData
<1>2. tf \in SavedStates /\ (tf.id = 0 => tf = NoState) /\ tf.tainted \in BOOLEAN
  BY DEF TypeOK, ProviderOK, SavedStates
<1>3. NoState \in SavedStates
  BY AttrsAreSaved DEF SavedStates, NoState
<1>4. (verdict = "error") \in BOOLEAN
  OBVIOUS
<1>5. /\ Kept(data, verdict = "error") \in SavedStates
      /\ Kept(data, verdict = "error").id = 0 => Kept(data, verdict = "error") = NoState
  BY <1>1, <1>4
<1>6. /\ Kept(data, FALSE) \in SavedStates
      /\ Kept(data, FALSE).id = 0 => Kept(data, FALSE) = NoState
      /\ Kept(data, tf.tainted) \in SavedStates
      /\ Kept(data, tf.tainted).id = 0 => Kept(data, tf.tainted) = NoState
  BY <1>1, <1>2
<1> QED BY <1>2, <1>3, <1>5, <1>6 DEF Saved

\* A handler that returns leaves the provider's variables well formed,
LEMMA FinishType ==
    ASSUME TypeOK, op # "idle", NEW verdict \in {"ok", "error"}, NEW data \in ResourceData,
           Finish(verdict, data)
    PROVE  ProviderOK'
<1>1. tf' \in SavedStates /\ (tf'.id = 0 => tf' = NoState)
  BY SavedType DEF Finish
<1>2. outcome' \in Outcomes /\ op' = "idle" /\ pc' = 0
  BY RunningStep DEF Finish, Outcomes
<1>3. d' \in ResourceData
  BY AttrsAreSaved DEF Finish, NoData, ResourceData
<1> QED BY <1>1, <1>2, <1>3 DEF ProviderOK

\* and so does one that fails, whether or not it puts old values back,
LEMMA RevertedType ==
    ASSUME TypeOK
    PROVE  Reverted \in ResourceData /\ Reverted.id = d.id
<1>1. d \in ResourceData /\ tf \in SavedStates
  BY DEF TypeOK, ProviderOK
<1>2. [p \in Parts |-> IF p \in Do.parts THEN tf.attr[p] ELSE d.attr[p]] \in SavedAttrs
  BY <1>1 DEF ResourceData, SavedStates, SavedAttrs
<1> QED BY <1>1, <1>2 DEF Reverted, ResourceData

LEMMA FailType ==
    ASSUME TypeOK, op # "idle", Fail
    PROVE  ProviderOK'
BY RevertedType, FinishType DEF Fail

\* and one that goes on with its next step.
LEMMA AdvanceType ==
    ASSUME TypeOK, Running, UNCHANGED kind, NEW data \in ResourceData, Advance(data)
    PROVE  ProviderOK'
<1>1. op # "idle"
  BY DEF Running
<1>2. pc' \in 1 .. (Len(Handler) + 1) /\ op' = op /\ tf' = tf /\ outcome' = outcome /\ d' = data
  BY <1>1, RunningStep DEF Advance
<1>3. Handler' = Handler
  BY <1>2 DEF Handler
<1> QED BY <1>1, <1>2, <1>3 DEF TypeOK, ProviderOK

\* What a POST, and any other call, leaves in the cloud is well formed.
LEMMA AfterPostType ==
    ASSUME TypeOK, NEW o \in Objects
    PROVE  AfterPost(o) \in CloudStates
<1>1. cloud \in CloudStates /\ d.attr \in SavedAttrs
  BY DEF TypeOK, WorldOK, ProviderOK, ResourceData
<1>2. NewPhase \in CloudPhases
  BY DEF NewPhase, CloudPhases
<1>3. [cloud EXCEPT ![o] = [phase |-> NewPhase, attr |-> d.attr]] \in CloudStates
  BY <1>1, <1>2 DEF CloudStates
<1>4. [cloud EXCEPT ![o].attr = d.attr] \in CloudStates
  BY <1>1 DEF CloudStates
<1> QED BY <1>1, <1>3, <1>4 DEF AfterPost

LEMMA EffectsType ==
    ASSUME TypeOK, NEW c \in Effects
    PROVE  c \in CloudStates
<1>1. cloud \in CloudStates /\ d \in ResourceData /\ Target \in Objects \cup {0}
  BY DEF TypeOK, WorldOK, ProviderOK, ResourceData, Target
<1>2. ASSUME NEW a \in SavedAttrs PROVE [cloud EXCEPT ![Target].attr = a] \in CloudStates
  BY <1>1 DEF CloudStates
<1>3. ASSUME NEW f \in CloudPhases PROVE [cloud EXCEPT ![Target].phase = f] \in CloudStates
  BY <1>1 DEF CloudStates
<1>4. ASSUME Exists(Target) PROVE Patched(cloud[Target].attr) \in SavedAttrs
  <2>1. cloud[Target].attr \in SavedAttrs
    BY <1>1, <1>4 DEF Exists, CloudStates
  <2> QED BY <1>1, <2>1 DEF Patched, SavedAttrs, ResourceData
<1>5. ASSUME Exists(Target) PROVE Disturbed(cloud[Target].attr) \subseteq SavedAttrs
  BY AttrsAreSaved DEF Disturbed
<1>6. CASE Do.do = "patch" /\ Exists(Target)
  <2>1. c = [cloud EXCEPT ![Target].attr = Patched(cloud[Target].attr)]
    BY <1>6 DEF Effects
  <2> QED BY <2>1, <1>6, <1>2, <1>4
<1>7. CASE Do.do = "disturb" /\ Exists(Target)
  <2>1. PICK a \in Disturbed(cloud[Target].attr) : c = [cloud EXCEPT ![Target].attr = a]
    BY <1>7 DEF Effects
  <2> QED BY <2>1, <1>7, <1>2, <1>5
<1>8. CASE Do.do \in {"delete", "softDelete", "hardDelete"}
  <2>1. \E f \in {"deleting", "soft", "absent"} : c = [cloud EXCEPT ![Target].phase = f]
    BY <1>8 DEF Effects
  <2> QED BY <2>1, <1>3 DEF CloudPhases
<1>9. CASE ~(Do.do \in {"patch", "disturb"} /\ Exists(Target))
           /\ Do.do \notin {"delete", "softDelete", "hardDelete"}
  BY <1>9 DEF Effects
<1> QED BY <1>6, <1>7, <1>8, <1>9

\* Every step of a handler keeps the type invariant.
LEMMA HandlerStepType ==
    ASSUME TypeOK, HandlerStep
    PROVE  TypeOK'
<1>1. UNCHANGED <<kind, valid, want, faults>>
  BY DEF HandlerStep
<1>2. /\ op # "idle"
      /\ d \in ResourceData
      /\ cloud \in CloudStates
      /\ owned \subseteq Objects
  BY DEF TypeOK, WorldOK, ProviderOK, HandlerStep, Checked, PostAnswered, PostRefused, IdSet,
         MarkedNew, ChangeAnswered, ChangeRefused, NothingToChange, Fetched, WaitReadyReturns,
         WaitGoneReturns, GetFound, GetForgets, GetFails, HandlerReturns, At, Running
<1>3. SUFFICES ProviderOK' /\ cloud' \in CloudStates /\ owned' \subseteq Objects /\ drift' = drift
  BY <1>1 DEF TypeOK, WorldOK
<1>4. CASE Checked
  BY <1>1, <1>2, <1>4, AdvanceType DEF Checked, At
<1>5. CASE PostAnswered
  <2>1. PICK o \in Postable : /\ cloud' = AfterPost(o)
                              /\ owned' = owned \cup {o}
                              /\ Advance([d EXCEPT !.made = o])
    BY <1>5 DEF PostAnswered
  <2>2. o \in Objects
    <3>1. Name \in Objects
      BY ObjectsAssumption DEF Name
    <3> QED BY <2>1, <3>1 DEF Postable
  <2>3. [d EXCEPT !.made = o] \in ResourceData
    BY <1>2, <2>2 DEF ResourceData
  <2>4. ProviderOK'
    BY <1>1, <1>5, <2>1, <2>3, AdvanceType DEF PostAnswered, At
  <2> QED BY <1>2, <1>5, <2>1, <2>2, <2>4, AfterPostType DEF PostAnswered
<1>6. CASE PostRefused
  BY <1>2, <1>6, FailType DEF PostRefused
<1>7. CASE IdSet
  <2>1. [d EXCEPT !.id = d.made] \in ResourceData
    BY <1>2 DEF ResourceData
  <2> QED BY <1>1, <1>2, <1>7, <2>1, AdvanceType DEF IdSet, At
<1>8. CASE MarkedNew
  <2>1. [d EXCEPT !.isNew = TRUE] \in ResourceData
    BY <1>2 DEF ResourceData
  <2> QED BY <1>1, <1>2, <1>8, <2>1, AdvanceType DEF MarkedNew, At
<1>9. CASE ChangeAnswered
  BY <1>1, <1>2, <1>9, AdvanceType, EffectsType DEF ChangeAnswered
<1>10. CASE ChangeRefused
  BY <1>1, <1>2, <1>10, AdvanceType, FailType DEF ChangeRefused
<1>11. CASE NothingToChange
  BY <1>1, <1>2, <1>11, AdvanceType DEF NothingToChange
<1>12. CASE Fetched
  BY <1>1, <1>2, <1>12, AdvanceType, FailType DEF Fetched, At
<1>13. CASE WaitReadyReturns
  BY <1>1, <1>2, <1>13, AdvanceType, FailType DEF WaitReadyReturns, At
<1>14. CASE WaitGoneReturns
  BY <1>1, <1>2, <1>14, AdvanceType, FailType DEF WaitGoneReturns, At
<1>15. CASE GetFound
  <2>1. Visible(Target)
    <3>1. ~Visible(Target) => \A r \in GetAnswers : r.code # "200"
      BY DEF GetAnswers, Refusals, Refused
    <3>2. ~valid => \A r \in GetAnswers : r.code # "200"
      BY DEF GetAnswers, Refusals, Refused
    <3> QED BY <1>15, <3>1, <3>2 DEF GetFound
  <2>2. cloud[Target].attr \in SavedAttrs
    BY <1>2, <2>1 DEF Visible, CloudStates
  <2>3. [p \in Parts |-> IF p \in Do.parts THEN cloud[Target].attr[p] ELSE d.attr[p]]
            \in SavedAttrs
    BY <1>2, <2>2 DEF SavedAttrs, ResourceData
  <2>4. [d EXCEPT !.attr = [p \in Parts |-> IF p \in Do.parts THEN cloud[Target].attr[p]
                                                               ELSE d.attr[p]]] \in ResourceData
    BY <1>2, <2>3 DEF ResourceData
  <2> QED BY <1>1, <1>2, <1>15, <2>4, AdvanceType DEF GetFound, At
<1>16. CASE GetForgets
  <2>1. [d EXCEPT !.id = 0] \in ResourceData
    BY <1>2 DEF ResourceData
  <2> QED BY <1>2, <1>16, <2>1, FinishType DEF GetForgets
<1>17. CASE GetFails
  BY <1>2, <1>17, FailType DEF GetFails
<1>18. CASE HandlerReturns
  <2>1. ProviderOK' /\ cloud' = cloud /\ drift' = drift
    BY <1>2, <1>18, FinishType DEF HandlerReturns
  <2>2. d.id # 0 => d.id \in Objects
    BY <1>2 DEF ResourceData
  <2> QED BY <1>2, <1>18, <2>1, <2>2 DEF HandlerReturns
<1> QED BY <1>4, <1>5, <1>6, <1>7, <1>8, <1>9, <1>10, <1>11, <1>12, <1>13, <1>14, <1>15, <1>16,
           <1>17, <1>18 DEF HandlerStep

\* A call that breaks keeps it, whatever the server did about the call.
LEMMA StepBreaksType ==
    ASSUME TypeOK, StepBreaks
    PROVE  TypeOK'
<1>1. op # "idle" /\ UNCHANGED <<kind, valid, want, drift>>
  BY DEF StepBreaks, Running
<1>2. ProviderOK'
  BY <1>1, FailType DEF StepBreaks
<1>3. cloud \in CloudStates /\ owned \subseteq Objects
  BY DEF TypeOK, WorldOK
<1>4. cloud' \in CloudStates /\ owned' \subseteq Objects
  <2>1. CASE UNCHANGED <<cloud, owned>>
    BY <1>3, <2>1
  <2>2. CASE cloud' \in Effects /\ UNCHANGED owned
    BY <1>3, <2>2, EffectsType
  <2>3. CASE \E o \in Postable : /\ cloud' = AfterPost(o)
                                /\ owned' = IF Exists(o) THEN owned ELSE owned \ {o}
    <3>1. Postable \subseteq Objects
      BY ObjectsAssumption DEF Postable, Name
    <3> QED BY <1>3, <2>3, <3>1, AfterPostType
  <2> QED BY <2>1, <2>2, <2>3 DEF StepBreaks
<1>5. faults' \in 0 .. MaxFaults
  BY MaxFaultsAssumption DEF TypeOK, WorldOK, StepBreaks
<1> QED BY <1>1, <1>2, <1>4, <1>5 DEF TypeOK, WorldOK

\* An operation starts in a well-formed state.
LEMMA BeginType ==
    ASSUME TypeOK, op = "idle", NEW o \in Ops, NEW data \in ResourceData, Begin(o, data)
    PROVE  TypeOK'
<1>1. WorldOK'
  BY DEF TypeOK, WorldOK, Begin
<1>2. Handlers[kind][o] \in Seq(Steps)
  BY HandlersAssumption DEF TypeOK, WorldOK
<1>3. op' = o /\ pc' = 1 /\ Handler' = Handlers[kind][o]
  BY DEF Begin, Handler
<1>4. op' # "idle" => pc' \in 1 .. (Len(Handler') + 1)
  BY <1>2, <1>3
<1>5. op' # "idle"
  BY <1>3 DEF Ops
<1>6. outcome' \in Outcomes /\ tf' = tf /\ d' \in ResourceData
  BY DEF Begin, Outcomes, NoOutcome
<1>7. ProviderOK'
  BY <1>3, <1>4, <1>5, <1>6 DEF TypeOK, ProviderOK
<1> QED BY <1>1, <1>7 DEF TypeOK

LEMMA StartType ==
    ASSUME TypeOK, Apply \/ StartRead \/ \E o \in Objects : StartImport(o)
    PROVE  TypeOK'
<1>1. /\ tf.id \in Objects \cup {0}
      /\ tf.attr \in SavedAttrs
      /\ want \in SavedAttrs
  BY AttrsAreSaved DEF TypeOK, WorldOK, ProviderOK, SavedStates
<1>2. {"create", "read", "update", "delete", "import"} \subseteq Ops
  BY DEF Ops
<1>3. CASE StartCreate
  <2>1. [id |-> 0, made |-> 0, isNew |-> TRUE, attr |-> want] \in ResourceData
    BY <1>1 DEF ResourceData
  <2> QED BY <1>2, <1>3, <2>1, BeginType DEF StartCreate
<1>4. CASE StartRead \/ StartDelete
  <2>1. [id |-> tf.id, made |-> 0, isNew |-> FALSE, attr |-> tf.attr] \in ResourceData
    BY <1>1 DEF ResourceData
  <2> QED BY <1>2, <1>4, <2>1, BeginType DEF StartRead, StartDelete
<1>5. CASE StartUpdate
  <2>1. [id |-> tf.id, made |-> 0, isNew |-> FALSE, attr |-> want] \in ResourceData
    BY <1>1 DEF ResourceData
  <2> QED BY <1>2, <1>5, <2>1, BeginType DEF StartUpdate
<1>6. CASE \E o \in Objects : StartImport(o)
  <2>1. PICK o \in Objects : StartImport(o)
    BY <1>6
  <2>2. [id |-> o, made |-> 0, isNew |-> FALSE, attr |-> NullAttrs] \in ResourceData
    BY AttrsAreSaved DEF ResourceData
  <2> QED BY <1>2, <2>1, <2>2, BeginType DEF StartImport
<1> QED BY <1>3, <1>4, <1>5, <1>6 DEF Apply

\* What happens outside the provider keeps it.
LEMMA OutsideType ==
    ASSUME TypeOK, UserEdits \/ Cloud \/ KeyRevoked
    PROVE  TypeOK'
<1>1. Handler' = Handler
  BY DEF UserEdits, Cloud, KeyRevoked, Provisioned, DeletionCompletes, OthersDelete,
         OthersChange, OutsideVars, Handler
<1>2. CASE UserEdits
  BY <1>1, <1>2 DEF UserEdits, TypeOK, WorldOK, ProviderOK, Outcomes, NoOutcome
<1>3. CASE KeyRevoked
  <2>1. faults' \in 0 .. MaxFaults
    BY <1>3, MaxFaultsAssumption DEF KeyRevoked, TypeOK, WorldOK
  <2> QED BY <1>1, <1>3, <2>1 DEF KeyRevoked, OutsideVars, TypeOK, WorldOK, ProviderOK
<1>4. CASE Cloud
  <2>1. PICK o \in Objects : \/ Provisioned(o) \/ DeletionCompletes(o) \/ OthersDelete(o)
                             \/ OthersChange(o)
    BY <1>4 DEF Cloud
  <2>2. UNCHANGED <<kind, want, tf, op, pc, d, owned, outcome, valid>>
    BY <2>1 DEF Provisioned, DeletionCompletes, OthersDelete, OthersChange, OutsideVars
  <2>3. faults' \in 0 .. MaxFaults /\ drift' \in {"none", "before", "since"}
    BY <2>1, MaxFaultsAssumption DEF TypeOK, WorldOK, Provisioned, DeletionCompletes,
                                     OthersDelete, OthersChange
  <2>4. cloud' \in CloudStates
    <3>1. cloud \in CloudStates
      BY DEF TypeOK, WorldOK
    <3>2. CASE \E f \in {"ready", "absent", "deleting"} : cloud' = [cloud EXCEPT ![o].phase = f]
      BY <3>1, <3>2 DEF CloudStates, CloudPhases
    <3>3. CASE \E a \in Attrs : cloud' = [cloud EXCEPT ![o].attr = a]
      BY <3>1, <3>3, AttrsAreSaved DEF CloudStates
    <3> QED BY <2>1, <3>2, <3>3 DEF Provisioned, DeletionCompletes, OthersDelete, OthersChange
  <2> QED BY <1>1, <2>2, <2>3, <2>4 DEF TypeOK, WorldOK, ProviderOK
<1> QED BY <1>2, <1>3, <1>4

\* The type invariant holds of every instance, whatever its handlers.
THEOREM TypeCorrect == Spec => []TypeOK
<1>1. TypeOK /\ [Next]_vars => TypeOK'
  <2> SUFFICES ASSUME TypeOK, [Next]_vars PROVE TypeOK'
    OBVIOUS
  <2>1. CASE UNCHANGED vars
    BY <2>1 DEF vars, TypeOK, WorldOK, ProviderOK, Handler
  <2> QED BY <2>1, HandlerStepType, StepBreaksType, StartType, OutsideType DEF Next
<1> QED BY <1>1, InitType, PTL DEF Spec

-----------------------------------------------------------------------------
(* No object gets lost. *)

\* What the later lemmas assume of every kind.
AllKeepTrack ==
    \A k \in Kinds : /\ KeepsTrack(Handlers[k])
                     /\ k \notin Describing => ClassifiesRefusals(Handlers[k])

\* A read that takes its object for gone, when refusals can be trusted, is right.
LEMMA NotFoundMeansGone ==
    ASSUME TypeOK, AllKeepTrack, Trusted, At("get"), NEW r \in GetAnswers, r.code # "200",
           NotFound(r)
    PROVE  ~Exists(Target)
<1>0. op \in Ops /\ kind \in Kinds /\ pc \in 1 .. Len(Handlers[kind][op])
  BY RunningStep DEF At, Running, Handler, TypeOK, WorldOK
<1>1. CASE valid
  <2> SUFFICES ASSUME Exists(Target) PROVE FALSE
    OBVIOUS
  <2>1. Visible(Target)
    BY DEF Exists, Visible
  <2>2. Do.how # "blind"
    BY <1>0 DEF AllKeepTrack, KeepsTrack, AsksForItsObject, At, Do, Handler
  <2>3. r = Found("EXISTS")
    BY <1>1, <2>1, <2>2 DEF GetAnswers
  <2> QED BY <2>3 DEF Found
<1>2. CASE ~valid
  <2>1. ClassifiesRefusals(Handlers[kind])
    BY <1>0, <1>2 DEF Trusted, AllKeepTrack
  <2>2. Do.how \in {"ClassifyThenDescribe", "StatusIsNotFound"}
    BY <1>0, <2>1 DEF ClassifiesRefusals, At, Do, Handler
  <2>3. \/ r.code = "401"
        \/ r.code = "403" /\ r.invalidKey = TRUE /\ r.body = "unread"
    BY <1>2 DEF GetAnswers, Refusals, Refused
  <2>4. ~ClassifyThenDescribe(r) /\ ~StatusIsNotFound(r)
    BY <2>3 DEF ClassifyThenDescribe, StatusIsNotFound, isNonKafkaRestApiResourceNotFound,
                ResponseHasExpectedStatusCode, ResponseHasStatusForbiddenDueToInvalidAPIKey
  <2> QED BY <2>2, <2>4 DEF NotFound
<1> QED BY <1>1, <1>2 DEF TypeOK, WorldOK

\* A call other than a POST brings no object into existence, and a deletion takes
\* its object out of it.
LEMMA EffectsExist ==
    ASSUME TypeOK, cloud' \in Effects
    PROVE  /\ \A o \in Objects : Exists(o)' => Exists(o)
           /\ \A o \in {Target} : Do.do \in {"delete", "softDelete"} => ~Exists(o)'
<1>1. cloud \in CloudStates
  BY DEF TypeOK, WorldOK
<1>2. ASSUME NEW a, cloud' = [cloud EXCEPT ![Target].attr = a]
      PROVE  \A o \in Objects : cloud'[o].phase = cloud[o].phase
  BY <1>1, <1>2 DEF CloudStates
<1>3. ASSUME NEW f \in {"deleting", "soft", "absent"}, cloud' = [cloud EXCEPT ![Target].phase = f]
      PROVE  /\ \A o \in Objects \ {Target} : cloud'[o].phase = cloud[o].phase
             /\ Target \in Objects => cloud'[Target].phase = f
  BY <1>1, <1>3 DEF CloudStates
<1>4. CASE Do.do = "patch" /\ Exists(Target)
  <2>1. cloud' = [cloud EXCEPT ![Target].attr = Patched(cloud[Target].attr)]
    BY <1>4 DEF Effects
  <2> QED BY <1>2, <1>4, <2>1 DEF Exists
<1>5. CASE Do.do = "disturb" /\ Exists(Target)
  <2>1. PICK a \in Disturbed(cloud[Target].attr) : cloud' = [cloud EXCEPT ![Target].attr = a]
    BY <1>5 DEF Effects
  <2> QED BY <1>2, <1>5, <2>1 DEF Exists
<1>6. CASE Do.do \in {"delete", "softDelete", "hardDelete"}
  <2>1. PICK f \in {"deleting", "soft", "absent"} : cloud' = [cloud EXCEPT ![Target].phase = f]
    BY <1>6 DEF Effects
  <2>2. /\ \A o \in Objects \ {Target} : cloud'[o].phase = cloud[o].phase
        /\ Target \in Objects => cloud'[Target].phase = f
    BY <1>3, <2>1
  <2>3. \A o \in {Target} : ~Exists(o)'
    BY <2>2 DEF Exists
  <2> QED BY <2>2, <2>3 DEF Exists
<1>7. CASE ~(Do.do \in {"patch", "disturb"} /\ Exists(Target))
           /\ Do.do \notin {"delete", "softDelete", "hardDelete"}
  BY <1>7 DEF Effects
<1> QED BY <1>4, <1>5, <1>6, <1>7

\* A POST brings at most the object it is for into existence.
LEMMA AfterPostExists ==
    ASSUME TypeOK, NEW o \in Objects, cloud' = AfterPost(o)
    PROVE  /\ \A q \in Objects \ {o} : Exists(q)' => Exists(q)
<1>1. cloud \in CloudStates
  BY DEF TypeOK, WorldOK
<1>2. \A q \in Objects \ {o} : cloud'[q].phase = cloud[q].phase
  BY <1>1 DEF AfterPost, CloudStates
<1> QED BY <1>2 DEF Exists

\* The id that the SDK saves when a handler returns.
LEMMA SavedId ==
    ASSUME TypeOK, op \in Ops, NEW data \in ResourceData
    PROVE  /\ Saved("error", data).id = IF op \in {"create", "update"} THEN data.id ELSE tf.id
           /\ Saved("ok", data).id = IF op = "delete" THEN 0 ELSE data.id
<1>1. \A taint \in BOOLEAN : Kept(data, taint).id = data.id
  BY DEF Kept, NoState
<1>2. tf.tainted \in BOOLEAN
  BY DEF TypeOK, ProviderOK, SavedStates
<1>3. Kept(data, TRUE).id = data.id /\ Kept(data, FALSE).id = data.id
      /\ Kept(data, tf.tainted).id = data.id
  BY <1>1, <1>2
<1>4. /\ op = "create" => Saved("error", data) = Kept(data, TRUE)
      /\ op = "create" => Saved("ok", data) = Kept(data, FALSE)
      /\ op = "update" => Saved("error", data) = Kept(data, FALSE)
      /\ op = "update" => Saved("ok", data) = Kept(data, FALSE)
      /\ op = "read" => Saved("ok", data) = Kept(data, tf.tainted)
      /\ op = "import" => Saved("ok", data) = Kept(data, FALSE)
      /\ op = "delete" => Saved("ok", data) = NoState
      /\ op \in {"read", "import", "delete"} => Saved("error", data) = tf
  BY DEF Saved
<1>5. NoState.id = 0
  BY DEF NoState
<1>6. CASE op = "create"
  BY <1>3, <1>4, <1>6, Zenon
<1>7. CASE op = "update"
  BY <1>3, <1>4, <1>7, Zenon
<1>8. CASE op = "read"
  BY <1>3, <1>4, <1>8, Zenon
<1>9. CASE op = "import"
  BY <1>3, <1>4, <1>9, Zenon
<1>10. CASE op = "delete"
  BY <1>3, <1>4, <1>5, <1>10, Zenon
<1> QED BY <1>6, <1>7, <1>8, <1>9, <1>10 DEF Ops

\* A step after which the handler goes on keeps the invariant if it neither sets
\* an id nor brings an object into existence, and if a deletion really deletes.
LEMMA AdvanceKeeps ==
    ASSUME IInv, AllKeepTrack, Running, NEW data \in ResourceData, Advance(data),
           UNCHANGED <<kind, valid, owned>>,
           data.id = d.id, data.made = d.made, d.isNew => data.isNew,
           op = "create" => Do # SetId,
           \A o \in Objects : Exists(o)' => Exists(o),
           op = "delete" /\ Do.do \in {"delete", "softDelete"} /\ Do.how # "ifSecond"
               => \A o \in {d.id} : ~Exists(o)'
    PROVE  IdInv' /\ DeleteInv' /\ (Trusted' => OwnedInv')
<1>1. op # "idle" /\ op' = op /\ pc' = pc + 1 /\ tf' = tf /\ d' = data /\ Handler' = Handler
  BY DEF Running, Advance, Handler
<1>2. TypeOK /\ IdInv /\ DeleteInv /\ (Trusted => OwnedInv)
  BY DEF IInv
<1>3. op \in Ops /\ Len(Handler) \in Nat /\ pc \in 1 .. Len(Handler)
  BY <1>1, <1>2, RunningStep
<1>4. IdInv'
  <2>1. CASE op = "create"
    <3>1. d.made # 0 => d.id = d.made
      BY <1>2, <2>1 DEF IdInv
    <3>2. d.made # 0 => \E i \in 1 .. (pc' - 1) : Handler[i].do = "post"
      BY <1>1, <1>2, <1>3, <2>1 DEF IdInv
    <3> QED BY <1>1, <1>2, <2>1, <3>1, <3>2 DEF IdInv
  <2>2. CASE op # "create"
    BY <1>1, <1>2, <2>2 DEF IdInv
  <2> QED BY <2>1, <2>2
<1>5. DeleteInv'
  <2> SUFFICES ASSUME op = "delete", NEW i \in 1 .. pc,
                      Handler[i].do \in {"delete", "softDelete"}, Handler[i].how # "ifSecond"
               PROVE  ~Exists(d.id)'
    BY <1>1, <1>3 DEF DeleteInv
  <2>1. CASE i = pc
    <3>1. \A o \in {d.id} : ~Exists(o)'
      BY <2>1 DEF Do
    <3> QED BY <1>1, <3>1 DEF Exists
  <2>2. CASE i # pc
    <3>1. ~Exists(d.id)
      BY <1>2, <1>3, <2>2 DEF DeleteInv
    <3>2. \A o \in {d.id} : ~Exists(o)'
      BY <3>1 DEF Exists
    <3> QED BY <1>1, <3>2 DEF Exists
  <2> QED BY <2>1, <2>2
<1>6. Trusted' => OwnedInv'
  <2>1. Trusted' => Trusted
    BY DEF Trusted
  <2>2. owned \subseteq Objects
    BY <1>2 DEF TypeOK, WorldOK
  <2> QED BY <1>1, <1>2, <2>1, <2>2 DEF OwnedInv
<1> QED BY <1>4, <1>5, <1>6

\* A handler that fails keeps it: a created object has its id in the state.
LEMMA FailKeeps ==
    ASSUME IInv, AllKeepTrack, Running, Fail, UNCHANGED <<kind, valid>>,
           Do # SetId, owned' \subseteq owned,
           \A o \in owned' : Exists(o)' => Exists(o)
    PROVE  IdInv' /\ DeleteInv' /\ (Trusted' => OwnedInv')
<1>1. op # "idle" /\ op' = "idle" /\ tf' = Saved("error", Reverted)
  BY DEF Running, Fail, Finish
<1>2. TypeOK /\ IdInv /\ (Trusted => OwnedInv)
  BY DEF IInv
<1>3. op \in Ops
  BY <1>1, <1>2, RunningStep
<1>5. tf'.id = IF op \in {"create", "update"} THEN d.id ELSE tf.id
  BY <1>1, <1>2, <1>3, RevertedType, SavedId
<1>6. ASSUME Trusted', NEW o \in owned', Exists(o)' PROVE o = tf'.id
  <2>1. Trusted
    BY <1>6 DEF Trusted
  <2>2. o \in owned /\ Exists(o) /\ o # 0
    BY <1>2, <1>6, ObjectsAssumption DEF TypeOK, WorldOK
  <2>3. o = tf.id \/ (op = "create" /\ o = d.made)
    BY <1>2, <2>1, <2>2 DEF OwnedInv
  <2>4. CASE op = "create"
    BY <1>2, <1>5, <2>2, <2>3, <2>4 DEF IdInv
  <2>5. CASE op = "update"
    BY <1>2, <1>5, <2>3, <2>5 DEF IdInv
  <2>6. CASE op \notin {"create", "update"}
    BY <1>5, <2>3, <2>6
  <2> QED BY <2>4, <2>5, <2>6
<1>7. Trusted' => OwnedInv'
  BY <1>6 DEF OwnedInv
<1> QED BY <1>1, <1>7 DEF IdInv, DeleteInv

\* Which step of which operation can create an object or set an id: an update only
\* one that POSTs the name it has again.
LEMMA WhoPosts ==
    ASSUME TypeOK, AllKeepTrack, Running, Do.do \in {"post", "setId"}
    PROVE  \/ op = "create"
           \/ op = "update" /\ RegistersAgain(Handlers[kind])
<1>1. op \in Ops /\ kind \in Kinds /\ pc \in 1 .. Len(Handlers[kind][op])
  BY RunningStep DEF Running, Handler, TypeOK, WorldOK
<1>2. CreatesNothing(Handlers[kind]) \/ RegistersAgain(Handlers[kind])
  BY <1>1 DEF AllKeepTrack, KeepsTrack
<1> QED BY <1>1, <1>2 DEF CreatesNothing, RegistersAgain, Do, Handler

\* Before the POST of a create handler no object that Terraform was told of exists,
\* and after it comes the step that sets the id.
LEMMA BeforePost ==
    ASSUME IInv, AllKeepTrack, At("post"), op = "create"
    PROVE  /\ d.made = 0
           /\ d.id = 0
           /\ Trusted => \A o \in owned : ~Exists(o)
           /\ pc + 1 \in 1 .. Len(Handler)
           /\ Handler[pc + 1] = SetId
<1>1. TypeOK /\ IdInv /\ (Trusted => OwnedInv)
  BY DEF IInv
<1>2. op = "create" /\ op # "idle"
  OBVIOUS
<1>3. kind \in Kinds /\ Len(Handler) \in Nat /\ pc \in 1 .. Len(Handler)
  BY <1>1, <1>2, RunningStep DEF At, TypeOK, WorldOK
<1>4. SetsIdAtOnce(Handler)
  BY <1>2, <1>3 DEF AllKeepTrack, KeepsTrack, Handler
<1>5. /\ pc < Len(Handler)
      /\ Handler[pc + 1] = SetId
      /\ \A j \in 1 .. Len(Handler) : Handler[j].do = "post" => j = pc
  BY <1>3, <1>4 DEF SetsIdAtOnce, At, Do
<1>6. d.made = 0
  BY <1>1, <1>2, <1>3, <1>5 DEF IdInv
<1>7. d.id = 0 /\ tf.id = 0
  BY <1>1, <1>2, <1>6 DEF IdInv
<1>8. Trusted => \A o \in owned : ~Exists(o)
  BY <1>1, <1>6, <1>7, ObjectsAssumption DEF OwnedInv, TypeOK, WorldOK
<1> QED BY <1>3, <1>5, <1>6, <1>7, <1>8

\* A POST in an update names the object of the instance, and so does the id that is
\* set after it.
LEMMA SameName ==
    ASSUME IInv, AllKeepTrack, Running, op = "update", Do.do \in {"post", "setId"}
    PROVE  /\ tf.id = Name /\ d.id = Name
           /\ Postable \subseteq {Name}
           /\ Do.do = "setId" => d.made = Name
<1>1. TypeOK /\ IdInv /\ NameInv /\ op # "idle"
  BY DEF IInv, Running
<1>2. RegistersAgain(Handlers[kind])
  BY <1>1, WhoPosts
<1>3. tf.id = Name /\ d.id = Name
  BY <1>1, <1>2 DEF IdInv, NameInv, RegistersAgain
<1>4. Postable \subseteq {Name}
  BY <1>2 DEF Postable, RegistersAgain
<1>5. ASSUME Do.do = "setId" PROVE d.made = Name
  <2>1. pc \in 1 .. Len(Handlers[kind].update) /\ Handler = Handlers[kind].update
    BY DEF Running, Handler
  <2>2. \E j \in 1 .. (pc - 1) : Handler[j].do = "post" /\ Handler[j].how # "ifSecond"
    BY <1>2, <1>5, <2>1 DEF RegistersAgain, Do
  <2> QED BY <1>1, <1>2, <2>2 DEF NameInv, RegistersAgain
<1> QED BY <1>3, <1>4, <1>5

\* How the step that sets an id differs from others.
LEMMA IdStep == SetId.do = "setId" /\ SetId.how = ""
BY DEF SetId, Step

\* Every step of a handler keeps the inductive invariant.
LEMMA HandlerStepKeeps ==
    ASSUME IInv, AllKeepTrack, HandlerStep
    PROVE  IdInv' /\ DeleteInv' /\ (Trusted' => OwnedInv')
<1>1. UNCHANGED <<kind, valid>>
  BY DEF HandlerStep
<1>2. TypeOK /\ IdInv /\ DeleteInv /\ (Trusted => OwnedInv) /\ d \in ResourceData
  BY DEF IInv, TypeOK, ProviderOK
<1>3. Trusted' => Trusted
  BY <1>1 DEF Trusted
<1>4. cloud' = cloud => \A o \in Objects : Exists(o)' => Exists(o)
  BY DEF Exists
<1>5. owned \subseteq Objects /\ 0 \notin Objects
  BY <1>2, ObjectsAssumption DEF TypeOK, WorldOK
<1>6. CASE Checked
  <2>1. Running /\ Do # SetId /\ Do.do \notin {"delete", "softDelete"}
    BY <1>6, IdStep DEF Checked, At
  <2> QED BY <1>1, <1>2, <1>4, <1>6, <2>1, AdvanceKeeps DEF Checked
<1>7. CASE PostAnswered
  <2>1. PICK q \in Postable : /\ cloud' = AfterPost(q)
                              /\ owned' = owned \cup {q}
                              /\ Advance([d EXCEPT !.made = q])
    BY <1>7 DEF PostAnswered
  <2>2. q \in Objects
    BY ObjectsAssumption DEF Postable, Name
  <2>3. /\ Running /\ Do.do = "post" /\ op # "idle"
        /\ op' = op /\ pc' = pc + 1 /\ tf' = tf /\ Handler' = Handler
        /\ d'.made = q /\ d'.id = d.id /\ d'.isNew = d.isNew
    BY <1>1, <1>2, <1>7, <2>1 DEF PostAnswered, At, Running, Advance, Handler, ResourceData
  <2>4. \A o \in Objects \ {q} : Exists(o)' => Exists(o)
    BY <1>2, <2>1, <2>2, AfterPostExists
  <2>5. CASE op = "create"
    <3>1. /\ d.made = 0
          /\ d.id = 0
          /\ Trusted => \A o \in owned : ~Exists(o)
          /\ pc + 1 \in 1 .. Len(Handler)
          /\ Handler[pc + 1] = SetId
      BY <1>7, <2>5, BeforePost DEF PostAnswered
    <3>2. Running' /\ Do' = SetId
      BY <2>3, <3>1 DEF Running, Do
    <3>3. pc \in 1 .. (pc' - 1) /\ Handler[pc].do = "post"
      BY <1>2, <2>3, RunningStep DEF Do
    <3>4. IdInv'
      BY <1>2, <2>3, <2>5, <3>1, <3>2, <3>3 DEF IdInv
    <3>5. Trusted' => OwnedInv'
      BY <1>3, <1>5, <2>1, <2>3, <2>4, <2>5, <3>1 DEF OwnedInv
    <3> QED BY <2>3, <2>5, <3>4, <3>5 DEF DeleteInv
  <2>6. CASE op = "update"
    <3>1. tf.id = q
      BY <2>1, <2>3, <2>6, SameName
    <3>2. IdInv'
      BY <1>2, <2>3, <2>6 DEF IdInv
    <3>3. Trusted' => OwnedInv'
      BY <1>2, <1>3, <1>5, <2>1, <2>3, <2>4, <2>6, <3>1 DEF OwnedInv
    <3> QED BY <2>3, <2>6, <3>2, <3>3 DEF DeleteInv
  <2> QED BY <1>2, <2>3, <2>5, <2>6, WhoPosts
<1>8. CASE PostRefused
  <2>1. Running /\ Do # SetId
    BY <1>8, IdStep DEF PostRefused, At
  <2> QED BY <1>1, <1>4, <1>5, <1>8, <2>1, FailKeeps DEF PostRefused
<1>9. CASE IdSet
  <2>1. Running /\ Do.do = "setId" /\ op # "idle" /\ (op = "create" \/ op = "update")
    BY <1>2, <1>9, WhoPosts DEF IdSet, At, Running
  <2>2. /\ op' = op /\ pc' = pc + 1 /\ tf' = tf /\ Handler' = Handler
        /\ d'.made = d.made /\ d'.id = d.made /\ d'.isNew = d.isNew
    BY <1>1, <1>2, <1>9 DEF IdSet, Advance, Handler, ResourceData
  <2>3. pc \in Nat
    BY <1>2, <2>1, RunningStep
  <2>4. op = "update" => d'.id = tf.id
    BY <2>1, <2>2, SameName
  <2>5. IdInv'
    BY <1>2, <2>1, <2>2, <2>3, <2>4 DEF IdInv
  <2>6. DeleteInv'
    BY <2>1, <2>2 DEF DeleteInv
  <2>7. Trusted' => OwnedInv'
    BY <1>2, <1>3, <1>4, <1>5, <1>9, <2>1, <2>2 DEF OwnedInv, IdSet
  <2> QED BY <2>5, <2>6, <2>7
<1>10. CASE MarkedNew
  <2>1. Running /\ Do # SetId /\ Do.do \notin {"delete", "softDelete"}
    BY <1>10, IdStep DEF MarkedNew, At
  <2>2. /\ [d EXCEPT !.isNew = TRUE] \in ResourceData
        /\ [d EXCEPT !.isNew = TRUE].id = d.id
        /\ [d EXCEPT !.isNew = TRUE].made = d.made
        /\ [d EXCEPT !.isNew = TRUE].isNew
    BY <1>2 DEF ResourceData
  <2> QED BY <1>1, <1>2, <1>4, <1>10, <2>1, <2>2, AdvanceKeeps DEF MarkedNew
<1>11. CASE ChangeAnswered
  <2>1. Running /\ Do # SetId
    BY <1>11, IdStep DEF ChangeAnswered, Changes
  <2>2. /\ \A o \in Objects : Exists(o)' => Exists(o)
        /\ \A o \in {Target} : Do.do \in {"delete", "softDelete"} => ~Exists(o)'
    BY <1>2, <1>11, EffectsExist DEF ChangeAnswered
  <2>3. op = "delete" => Target = d.id
    BY <1>2 DEF IdInv, Target
  <2> QED BY <1>1, <1>2, <1>11, <2>1, <2>2, <2>3, AdvanceKeeps DEF ChangeAnswered
<1>12. CASE ChangeRefused
  <2>1. Running /\ Do # SetId
    BY <1>12, IdStep DEF ChangeRefused, Changes
  <2>2. CASE Do.how = "tolerant" /\ valid
    <3>1. Advance(d) /\ UNCHANGED <<cloud, owned>>
      BY <1>12, <2>2 DEF ChangeRefused
    <3>2. op = "delete" => Target = d.id
      BY <1>2 DEF IdInv, Target
    <3>3. ~Exists(Target)
      BY <1>12, <2>2 DEF ChangeRefused
    <3>4. op = "delete" => \A o \in {d.id} : ~Exists(o)'
      BY <3>1, <3>2, <3>3 DEF Exists
    <3> QED BY <1>1, <1>2, <1>4, <2>1, <3>1, <3>4, AdvanceKeeps
  <2>3. CASE ~(Do.how = "tolerant" /\ valid)
    BY <1>1, <1>4, <1>5, <1>12, <2>1, <2>3, FailKeeps DEF ChangeRefused
  <2> QED BY <2>2, <2>3
<1>13. CASE NothingToChange
  <2>1. Running /\ Do # SetId /\ (Do.do \in {"delete", "softDelete"} => Do.how = "ifSecond")
    BY <1>13, IdStep DEF NothingToChange, Conditional
  <2> QED BY <1>1, <1>2, <1>4, <1>13, <2>1, AdvanceKeeps DEF NothingToChange
<1>14. CASE Fetched \/ WaitReadyReturns \/ WaitGoneReturns
  <2>1. Running /\ Do # SetId /\ Do.do \notin {"delete", "softDelete"}
    BY <1>14, IdStep DEF Fetched, WaitReadyReturns, WaitGoneReturns, At
  <2>2. (Advance(d) \/ Fail) /\ UNCHANGED <<cloud, owned>>
    BY <1>14 DEF Fetched, WaitReadyReturns, WaitGoneReturns
  <2> QED BY <1>1, <1>2, <1>4, <1>5, <2>1, <2>2, AdvanceKeeps, FailKeeps
<1>15. CASE GetFound
  <2>1. Running /\ Do # SetId /\ Do.do \notin {"delete", "softDelete"}
    BY <1>15, IdStep DEF GetFound, At
  <2>2. Advance(d') /\ UNCHANGED <<cloud, owned>>
    BY <1>15 DEF GetFound, Advance
  <2>3. d'.id = d.id /\ d'.made = d.made /\ d'.isNew = d.isNew
    BY <1>2, <1>15 DEF GetFound, Advance, ResourceData
  <2>4. d' \in ResourceData
    BY <1>2, HandlerStepType DEF TypeOK, ProviderOK
  <2> QED BY <1>1, <1>2, <1>4, <2>1, <2>2, <2>3, <2>4, AdvanceKeeps
<1>16. CASE GetForgets
  <2>1. /\ At("get") /\ ~d.isNew /\ op # "idle"
        /\ Finish("ok", [d EXCEPT !.id = 0])
        /\ UNCHANGED <<cloud, owned>>
    BY <1>16 DEF GetForgets, At, Running
  <2>2. op \in Ops /\ op # "create"
    BY <1>2, <2>1, RunningStep DEF IdInv
  <2>3. tf' = Saved("ok", [d EXCEPT !.id = 0]) /\ op' = "idle"
    BY <2>1 DEF Finish
  <2>4. Trusted => ~Exists(Target)
    BY <1>2, <1>16, NotFoundMeansGone DEF GetForgets
  <2>5. Trusted => \A o \in owned : ~Exists(o)
    BY <1>2, <1>5, <2>2, <2>4 DEF OwnedInv, IdInv, Target, Ops
  <2>6. Trusted' => OwnedInv'
    BY <1>3, <1>4, <1>5, <2>1, <2>5 DEF OwnedInv
  <2> QED BY <2>3, <2>6 DEF IdInv, DeleteInv
<1>17. CASE GetFails
  <2>1. Running /\ Do # SetId
    BY <1>17, IdStep DEF GetFails, At
  <2> QED BY <1>1, <1>4, <1>5, <1>17, <2>1, FailKeeps DEF GetFails
<1>18. CASE HandlerReturns
  <2>1. /\ op # "idle" /\ pc = Len(Handler) + 1 /\ op' = "idle" /\ tf' = Saved("ok", d)
        /\ cloud' = cloud
        /\ owned' = IF op = "import" /\ d.id # 0 THEN owned \cup {d.id} ELSE owned
    BY <1>18 DEF HandlerReturns, Finish
  <2>2. op \in Ops /\ Len(Handler) \in Nat /\ ~Running /\ kind \in Kinds
    BY <1>2, <2>1, RunningStep DEF Running, TypeOK, WorldOK
  <2>3. tf'.id = IF op = "delete" THEN 0 ELSE d.id
    BY <1>2, <2>1, <2>2, SavedId
  <2>4. op = "delete" => ~Exists(d.id)
    <3> SUFFICES ASSUME op = "delete" PROVE ~Exists(d.id)
      OBVIOUS
    <3>1. Deletes(Handler)
      BY <2>2 DEF AllKeepTrack, KeepsTrack, Handler
    <3> QED BY <1>2, <2>1, <2>2, <3>1 DEF DeleteInv, Deletes
  <2>5. ASSUME Trusted, NEW o \in owned', Exists(o) PROVE o = tf'.id
    <3>1. CASE op = "create"
      BY <1>2, <1>5, <2>1, <2>2, <2>3, <2>5, <3>1 DEF OwnedInv, IdInv
    <3>2. CASE op = "import"
      BY <1>2, <1>5, <2>1, <2>2, <2>3, <2>5, <3>2 DEF OwnedInv, IdInv
    <3>3. CASE op \in {"read", "update", "delete"}
      BY <1>2, <1>5, <2>1, <2>2, <2>3, <2>4, <2>5, <3>3 DEF OwnedInv, IdInv
    <3> QED BY <2>2, <3>1, <3>2, <3>3 DEF Ops
  <2>6. Trusted' => OwnedInv'
    BY <1>3, <2>1, <2>5 DEF OwnedInv, Exists
  <2> QED BY <2>1, <2>6 DEF IdInv, DeleteInv
<1> QED BY <1>6, <1>7, <1>8, <1>9, <1>10, <1>11, <1>12, <1>13, <1>14, <1>15, <1>16, <1>17, <1>18
        DEF HandlerStep

\* A call that breaks keeps it: an object whose POST was not answered is not one
\* Terraform was told of.
LEMMA StepBreaksKeeps ==
    ASSUME IInv, AllKeepTrack, StepBreaks
    PROVE  IdInv' /\ DeleteInv' /\ (Trusted' => OwnedInv')
<1>1. Running /\ Fail /\ UNCHANGED <<kind, valid>> /\ Do # SetId
  BY IdStep DEF StepBreaks
<1>2. TypeOK /\ owned \subseteq Objects
  BY DEF IInv, TypeOK, WorldOK
<1>3. CASE UNCHANGED <<cloud, owned>>
  BY <1>1, <1>3, FailKeeps DEF Exists
<1>4. CASE cloud' \in Effects /\ UNCHANGED owned
  BY <1>1, <1>2, <1>4, EffectsExist, FailKeeps
<1>5. CASE /\ Do.do = "post"
           /\ \E o \in Postable : /\ cloud' = AfterPost(o)
                                  /\ owned' = IF Exists(o) THEN owned ELSE owned \ {o}
  <2>1. PICK q \in Postable : /\ cloud' = AfterPost(q)
                              /\ owned' = IF Exists(q) THEN owned ELSE owned \ {q}
    BY <1>5
  <2>2. q \in Objects
    BY ObjectsAssumption DEF Postable, Name
  <2>3. owned' \subseteq owned /\ \A o \in owned' : Exists(o)' => Exists(o)
    BY <1>2, <2>1, <2>2, AfterPostExists
  <2> QED BY <1>1, <2>3, FailKeeps
<1> QED BY <1>3, <1>4, <1>5 DEF StepBreaks

\* An operation starts with the id of the state, and a create without one.
LEMMA StartKeeps ==
    ASSUME IInv, Apply \/ StartRead \/ \E o \in Objects : StartImport(o)
    PROVE  IdInv' /\ DeleteInv' /\ (Trusted' => OwnedInv')
<1>1. /\ op = "idle" /\ pc' = 1
      /\ UNCHANGED <<kind, valid, cloud, tf, owned>>
      /\ \/ /\ op' = "create" /\ tf.id = 0
            /\ d' = [id |-> 0, made |-> 0, isNew |-> TRUE, attr |-> want]
         \/ op' \in {"read", "update", "delete"} /\ tf.id # 0 /\ d'.id = tf.id
         \/ op' = "import" /\ tf.id = 0
  BY DEF Apply, StartCreate, StartUpdate, StartDelete, StartRead, StartImport, Begin
<1>2. Trusted' => Trusted
  BY <1>1 DEF Trusted
<1>3. Trusted' => OwnedInv'
  BY <1>1, <1>2 DEF IInv, OwnedInv, Exists
<1>4. DeleteInv'
  BY <1>1 DEF DeleteInv
<1>5. IdInv'
  BY <1>1 DEF IdInv
<1> QED BY <1>3, <1>4, <1>5

\* What happens outside the provider brings no object into existence, and a
\* revoked key is never restored.
LEMMA OutsideKeeps ==
    ASSUME IInv, UserEdits \/ Cloud \/ KeyRevoked
    PROVE  IdInv' /\ DeleteInv' /\ (Trusted' => OwnedInv')
<1>1. UNCHANGED <<kind, tf, op, pc, d, owned>> /\ (valid' => valid)
  BY DEF UserEdits, Cloud, KeyRevoked, Provisioned, DeletionCompletes, OthersDelete,
         OthersChange, OutsideVars
<1>2. \A o \in Objects : Exists(o)' => Exists(o)
  <2>1. CASE UserEdits \/ KeyRevoked
    BY <2>1 DEF UserEdits, KeyRevoked, Exists
  <2>2. CASE Cloud
    <3>1. PICK q \in Objects : \/ Provisioned(q) \/ DeletionCompletes(q) \/ OthersDelete(q)
                               \/ OthersChange(q)
      BY <2>2 DEF Cloud
    <3>2. cloud \in CloudStates
      BY DEF IInv, TypeOK, WorldOK
    <3>3. CASE Provisioned(q)
      BY <3>2, <3>3 DEF Provisioned, Exists, CloudStates
    <3>4. CASE DeletionCompletes(q)
      BY <3>2, <3>4 DEF DeletionCompletes, Exists, CloudStates
    <3>5. CASE OthersDelete(q)
      BY <3>2, <3>5 DEF OthersDelete, Exists, CloudStates
    <3>6. CASE OthersChange(q)
      BY <3>2, <3>6 DEF OthersChange, Exists, CloudStates
    <3> QED BY <3>1, <3>3, <3>4, <3>5, <3>6
  <2> QED BY <2>1, <2>2
<1>3. Handler' = Handler /\ Running' = Running /\ Do' = Do
  BY <1>1 DEF Handler, Running, Do
<1>4. IdInv'
  BY <1>1, <1>3 DEF IInv, IdInv
<1>5. DeleteInv'
  <2>1. \A o : ~Exists(o) => ~Exists(o)'
    BY <1>2 DEF Exists
  <2> QED BY <1>1, <1>3, <2>1 DEF IInv, DeleteInv, Exists
<1>6. Trusted' => Trusted
  BY <1>1 DEF Trusted
<1>7. owned \subseteq Objects
  BY DEF IInv, TypeOK, WorldOK
<1>8. Trusted' => OwnedInv'
  BY <1>1, <1>2, <1>6, <1>7 DEF IInv, OwnedInv
<1> QED BY <1>4, <1>5, <1>8

\* The names of an instance: every step of a handler leaves the id of its object,
\* or takes the one that its POST was answered with.
LEMMA HandlerStepNames ==
    ASSUME IInv, AllKeepTrack, HandlerStep \/ StepBreaks
    PROVE  NameInv'
<1>1. TypeOK /\ IdInv /\ NameInv /\ d \in ResourceData /\ kind' = kind
  BY DEF IInv, TypeOK, ProviderOK, HandlerStep, StepBreaks
<1>2. ASSUME NEW verdict \in {"ok", "error"}, NEW data \in ResourceData, op # "idle",
             Finish(verdict, data), data.id \in {0, d.id}
      PROVE  NameInv'
  <2>1. op \in Ops /\ op' = "idle" /\ d'.id = 0 /\ d'.made = 0
    BY <1>1, <1>2, RunningStep DEF Finish, NoData
  <2>2. tf'.id \in {0, data.id, tf.id}
    BY <1>1, <1>2, <2>1, SavedId DEF Finish
  <2> QED BY <1>1, <1>2, <2>1, <2>2 DEF NameInv
<1>3. ASSUME NEW data \in ResourceData, Running, Advance(data), data.id = d.id, data.made = d.made,
             Do.do = "post" => Do.how = "ifSecond"
      PROVE  NameInv'
  <2>1. /\ op # "idle" /\ op' = op /\ pc' = pc + 1 /\ tf' = tf /\ d' = data /\ Handler' = Handler
    BY <1>1, <1>3 DEF Running, Advance, Handler
  <2>2. \A i \in 1 .. (pc' - 1) : i = pc \/ i \in 1 .. (pc - 1)
    BY <1>1, <1>3, <2>1, RunningStep
  <2> QED BY <1>1, <1>3, <2>1, <2>2 DEF NameInv, Do
<1>4. CASE StepBreaks
  BY <1>1, <1>2, <1>4, RevertedType DEF StepBreaks, Running, Fail
<1>5. CASE PostAnswered
  <2>1. PICK q \in Postable : Advance([d EXCEPT !.made = q])
    BY <1>5 DEF PostAnswered
  <2>2. /\ Running /\ q # 0 /\ (Handlers[kind].naming # "minted" => q = Name)
        /\ tf' = tf /\ d'.id = d.id /\ d'.made = q
    BY <1>1, <1>5, <2>1, ObjectsAssumption
    DEF PostAnswered, At, Advance, Postable, Name, ResourceData
  <2> QED BY <1>1, <2>2 DEF NameInv
<1>6. CASE IdSet
  <2>1. /\ Running /\ Do.do = "setId" /\ op' = op /\ pc' = pc + 1 /\ tf' = tf /\ Handler' = Handler
        /\ d'.id = d.made /\ d'.made = d.made
    BY <1>1, <1>6 DEF IdSet, At, Advance, Handler, ResourceData
  <2>2. \A i \in 1 .. (pc' - 1) : i = pc \/ i \in 1 .. (pc - 1)
    BY <1>1, <2>1, RunningStep DEF Running
  <2> QED BY <1>1, <2>1, <2>2 DEF NameInv, Do
<1>7. CASE HandlerStep /\ ~PostAnswered /\ ~IdSet
  <2>1. op # "idle" /\ op \in Ops
    BY <1>1, <1>7, RunningStep
    DEF HandlerStep, Checked, PostRefused, MarkedNew, ChangeAnswered, ChangeRefused,
        NothingToChange, Fetched, WaitReadyReturns, WaitGoneReturns, GetFound, GetForgets,
        GetFails, HandlerReturns, At, Running
  <2>2. CASE Fail
    BY <1>1, <1>2, <2>1, <2>2, RevertedType DEF Fail
  <2>3. CASE Checked \/ ChangeAnswered \/ ChangeRefused \/ NothingToChange \/ Fetched
             \/ WaitReadyReturns \/ WaitGoneReturns
    <3>1. (Advance(d) \/ Fail) /\ Running /\ (Do.do = "post" => Do.how = "ifSecond")
      BY <2>3 DEF Checked, ChangeAnswered, ChangeRefused, NothingToChange, Fetched,
                  WaitReadyReturns, WaitGoneReturns, At, Changes, Conditional
    <3> QED BY <1>1, <1>3, <2>2, <3>1
  <2>4. CASE MarkedNew \/ GetFound
    <3>1. Advance(d') /\ Running /\ Do.do # "post" /\ d'.id = d.id /\ d'.made = d.made
      BY <1>1, <2>4 DEF MarkedNew, GetFound, At, Advance, ResourceData
    <3>2. d' \in ResourceData
      BY <1>1, <1>7, HandlerStepType DEF TypeOK, ProviderOK
    <3> QED BY <1>3, <3>1, <3>2
  <2>5. CASE GetForgets
    <3>1. [d EXCEPT !.id = 0] \in ResourceData /\ [d EXCEPT !.id = 0].id = 0
      BY <1>1 DEF ResourceData
    <3> QED BY <1>2, <2>1, <2>5, <3>1 DEF GetForgets
  <2>6. CASE HandlerReturns
    BY <1>1, <1>2, <2>1, <2>6 DEF HandlerReturns
  <2> QED BY <1>7, <2>2, <2>3, <2>4, <2>5, <2>6 DEF HandlerStep, PostRefused, GetFails
<1> QED BY <1>4, <1>5, <1>6, <1>7

\* An operation starts with the id of the state; an import of an object that the
\* user names is one of that name.
LEMMA OthersName ==
    ASSUME IInv, [Next]_vars, ~(HandlerStep \/ StepBreaks)
    PROVE  NameInv'
<1>1. NameInv /\ d \in ResourceData
  BY DEF IInv, TypeOK, ProviderOK
<1>2. CASE Apply \/ StartRead \/ \E o \in Objects : StartImport(o)
  <2>1. /\ pc' = 1 /\ UNCHANGED <<kind, tf>> /\ d'.made = 0
        /\ d'.id \in {0, tf.id} \/ (Handlers[kind].naming # "minted" => d'.id = Name)
    BY <1>2 DEF Apply, StartCreate, StartUpdate, StartDelete, StartRead, StartImport, Begin
  <2> QED BY <1>1, <2>1 DEF NameInv
<1>3. CASE UserEdits \/ Cloud \/ KeyRevoked \/ UNCHANGED vars
  <2>1. UNCHANGED <<kind, tf, op, pc, d>>
    BY <1>3 DEF UserEdits, Cloud, KeyRevoked, Provisioned, DeletionCompletes, OthersDelete,
                OthersChange, OutsideVars, vars
  <2> QED BY <1>1, <2>1 DEF NameInv, Handler
<1> QED BY <1>2, <1>3 DEF Next

\* The inductive invariant, for any catalogue of handlers that keep track.
LEMMA Inductive == ASSUME AllKeepTrack PROVE Spec => []IInv
<1>1. Init => IInv
  <2> SUFFICES ASSUME Init PROVE IInv
    OBVIOUS
  <2>1. TypeOK
    BY InitType
  <2>2. NameInv
    BY DEF Init, NameInv, NoState, NoData
  <2> QED BY <2>1, <2>2 DEF Init, IInv, IdInv, DeleteInv, OwnedInv
<1>2. IInv /\ [Next]_vars => IInv'
  <2> SUFFICES ASSUME IInv, [Next]_vars PROVE IInv'
    OBVIOUS
  <2>1. TypeOK'
    BY HandlerStepType, StepBreaksType, StartType, OutsideType
    DEF IInv, Next, vars, TypeOK, WorldOK, ProviderOK, Handler
  <2>2. NameInv'
    BY HandlerStepNames, OthersName
  <2>3. CASE UNCHANGED vars
    BY <2>1, <2>2, <2>3
    DEF vars, IInv, IdInv, DeleteInv, OwnedInv, Trusted, Exists, Handler, Running, Do
  <2>4. CASE Next
    <3>1. IdInv' /\ DeleteInv' /\ (Trusted' => OwnedInv')
      BY <2>4, HandlerStepKeeps, StepBreaksKeeps, StartKeeps, OutsideKeeps DEF Next
    <3> QED BY <2>1, <2>2, <3>1 DEF IInv
  <2> QED BY <2>3, <2>4
<1> QED BY <1>1, <1>2, PTL DEF Spec

\* No object that Terraform was told of is lost by handlers that keep track,
\* whatever fails on the way; those that classify refusals before describing them
\* lose none with a revoked key either.
THEOREM NothingIsLost ==
    ASSUME \A k \in Kinds : /\ KeepsTrack(Handlers[k])
                            /\ k \notin Describing => ClassifiesRefusals(Handlers[k])
    PROVE  Spec => []NoOrphans
<1>1. AllKeepTrack
  BY DEF AllKeepTrack
<1>2. IInv => NoOrphans
  BY DEF IInv, OwnedInv, NoOrphans
<1> QED BY <1>1, <1>2, Inductive, PTL

-----------------------------------------------------------------------------
(* Nothing is forgotten that still exists. *)

\* Only a read that finds its object gone drops an instance from the state,
\* deletions aside.
LEMMA ForgetsOnlyGone ==
    ASSUME IInv, AllKeepTrack, [Next]_vars, Trusted, op # "delete", tf.id # 0, tf'.id # tf.id
    PROVE  ~Exists(tf.id)
<1>1. TypeOK /\ IdInv /\ d \in ResourceData
  BY DEF IInv, TypeOK, ProviderOK
<1>2. HandlerStep \/ StepBreaks
  BY DEF Next, vars, Apply, StartCreate, StartUpdate, StartDelete, StartRead, StartImport, Begin,
         UserEdits, Cloud, KeyRevoked, Provisioned, DeletionCompletes, OthersDelete,
         OthersChange, OutsideVars
<1>3. op # "idle"
  BY <1>2 DEF HandlerStep, StepBreaks, Checked, PostAnswered, PostRefused, IdSet, MarkedNew,
              ChangeAnswered, ChangeRefused, NothingToChange, Fetched, WaitReadyReturns,
              WaitGoneReturns, GetFound, GetForgets, GetFails, HandlerReturns, At, Running
<1>4. op \in {"read", "update"} /\ op \in Ops /\ d.id = tf.id
  BY <1>1, <1>3, RunningStep DEF IdInv, Ops
<1>5. ~Fail
  <2>1. Saved("error", Reverted).id = tf.id
    BY <1>1, <1>4, RevertedType, SavedId
  <2> QED BY <2>1 DEF Fail, Finish
<1>6. ~HandlerReturns
  <2>1. Saved("ok", d).id = tf.id
    BY <1>1, <1>4, SavedId
  <2> QED BY <2>1 DEF HandlerReturns, Finish
<1>7. GetForgets
  BY <1>2, <1>5, <1>6 DEF HandlerStep, StepBreaks, Checked, PostAnswered, PostRefused, IdSet,
              MarkedNew, ChangeAnswered, ChangeRefused, NothingToChange, Fetched,
              WaitReadyReturns, WaitGoneReturns, GetFound, GetFails, Advance
<1>8. ~Exists(Target)
  BY <1>1, <1>7, NotFoundMeansGone DEF GetForgets
<1> QED BY <1>4, <1>8 DEF Target

\* Handlers that keep track never forget an object that exists, even with a
\* revoked API key if they classify refusals first.
THEOREM NothingIsForgotten ==
    ASSUME \A k \in Kinds : /\ KeepsTrack(Handlers[k])
                            /\ k \notin Describing => ClassifiesRefusals(Handlers[k])
    PROVE  Spec => ForgottenOnlyIfGone
<1>1. AllKeepTrack
  BY DEF AllKeepTrack
<1>2. IInv /\ [Next]_vars
        => [op # "delete" /\ tf.id # 0 /\ tf'.id # tf.id /\ Trusted => ~Exists(tf.id)]_vars
  <2> SUFFICES ASSUME IInv, [Next]_vars, op # "delete", tf.id # 0, tf'.id # tf.id, Trusted
               PROVE  ~Exists(tf.id)
    OBVIOUS
  <2> QED BY <1>1, ForgetsOnlyGone
<1> QED BY <1>1, <1>2, Inductive, PTL DEF Spec, ForgottenOnlyIfGone
=============================================================================
