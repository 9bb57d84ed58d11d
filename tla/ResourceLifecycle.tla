-------------------------- MODULE ResourceLifecycle --------------------------
(***************************************************************************)
(* One resource instance between Terraform and Confluent Cloud.            *)
(*                                                                         *)
(* Terraform core and the plugin SDK (external, modelled from how the      *)
(* provider uses them) start the handlers of the instance's kind one at a  *)
(* time and save what a handler leaves in its ResourceData.  A handler     *)
(* runs step by step; between two steps the cloud moves on, other people   *)
(* delete or change the object, and the API key may be revoked.  A call    *)
(* may also fail on the way, before or after the server has acted on it.   *)
(***************************************************************************)
EXTENDS ApiResponse, HandlerSteps, Integers

CONSTANTS
    Kinds,      \* the kinds of resources
    Handlers,   \* kind -> its handlers, what can be updated in place, and how
                \* the API names its objects
    Describing, \* the kinds whose reads describe a refusal before classifying it
    Objects,    \* object identities (positive numbers)
    Foreign,    \* the objects that exist before Terraform does anything
    Parts,      \* the attribute parts told apart
    Values,     \* the values of a part
    MaxFaults   \* how many calls may break, or changes others may make

Ops == {"create", "read", "update", "delete", "import"}
\* Objects get a new identity from the API; or are named by the user, where a
\* POST of a taken name is refused, overwrites the object, or leaves it alone.
Namings == {"minted", "named", "upsert", "once"}

ASSUME ObjectsAssumption ==
    /\ Objects \subseteq Nat \ {0}
    /\ Objects # {}
    /\ Foreign \subseteq Objects

ASSUME PartsAssumption ==
    /\ Parts \subseteq PartNames
    /\ Parts # {}
    /\ Values # {}
    /\ "null" \notin Values

ASSUME MaxFaultsAssumption == MaxFaults \in Nat

ASSUME HandlersAssumption ==
    \A k \in Kinds :
        /\ \A o \in Ops : Handlers[k][o] \in Seq(Steps)
        /\ Handlers[k].mutable \subseteq PartNames
        /\ Handlers[k].naming \in Namings

\* The object that the name in a configuration denotes, for kinds whose objects
\* are named by the user.
Name == CHOOSE o \in Objects : TRUE

Attrs == [Parts -> Values]
NullAttrs == [p \in Parts |-> "null"]
SavedAttrs == [Parts -> Values \cup {"null"}]

\* The configuration no longer has the resource.
NoConfig == NullAttrs

CloudPhases == {"absent", "provisioning", "ready", "soft", "deleting"}
NoState == [id |-> 0, tainted |-> FALSE, attr |-> NullAttrs]
NoData == [id |-> 0, made |-> 0, isNew |-> FALSE, attr |-> NullAttrs]
NoOutcome == [op |-> "idle", verdict |-> "none"]

VARIABLES
    kind,     \* the kind of the instance
    cloud,    \* object -> its phase and its attributes
    valid,    \* is the provider's API key valid?
    want,     \* the configuration: attributes, or NoConfig
    tf,       \* the Terraform state: id (0 for none), tainted, attributes
    op, pc,   \* the handler under way and its next step
    d,        \* its ResourceData, and the object its POST was answered with
    owned,    \* history: objects Terraform was told it created or imported
    drift,    \* history: have others changed attributes since the last create, and
              \* was that before the last operation began or during or after it?
    outcome,  \* the last operation and how it ended
    faults    \* faults left

vars == <<kind, cloud, valid, want, tf, op, pc, d, owned, drift, outcome, faults>>

Exists(o) == o \in Objects /\ cloud[o].phase \in {"provisioning", "ready"}
Visible(o) == o \in Objects /\ cloud[o].phase \in {"provisioning", "ready", "deleting"}

Init ==
    /\ kind \in Kinds
    /\ cloud \in [Objects -> [phase : {"absent", "ready"}, attr : Attrs]]
    /\ \A o \in Objects : Exists(o) <=> o \in Foreign
    /\ \A o, p \in Objects : ~Exists(o) /\ ~Exists(p) => cloud[o] = cloud[p]
    /\ valid = TRUE
    /\ want = NoConfig
    /\ tf = NoState
    /\ op = "idle"
    /\ pc = 0
    /\ d = NoData
    /\ owned = {}
    /\ drift = "none"
    /\ outcome = NoOutcome
    /\ faults = MaxFaults

-----------------------------------------------------------------------------
(* Terraform core: what the plan does with the instance. *)

Begin(o, data) ==
    /\ op' = o
    /\ pc' = 1
    /\ d' = data
    /\ outcome' = NoOutcome
    /\ drift' = IF o = "create" \/ drift = "none" THEN "none" ELSE "before"
    /\ UNCHANGED <<kind, cloud, valid, want, tf, owned, faults>>

Changed == {p \in Parts : tf.attr[p] # want[p]}
Replaces == tf.tainted \/ ~(Changed \subseteq Handlers[kind].mutable)

UserEdits ==
    /\ op = "idle"
    /\ want' \in Attrs \cup {NoConfig}
    /\ want' # want
    /\ outcome' = NoOutcome
    /\ UNCHANGED <<kind, cloud, valid, tf, op, pc, d, owned, drift, faults>>

StartCreate ==
    /\ op = "idle"
    /\ tf.id = 0
    /\ want # NoConfig
    /\ Begin("create", [id |-> 0, made |-> 0, isNew |-> TRUE, attr |-> want])

StartRead ==
    /\ op = "idle"
    /\ tf.id # 0
    /\ Begin("read", [id |-> tf.id, made |-> 0, isNew |-> FALSE, attr |-> tf.attr])

StartUpdate ==
    /\ op = "idle"
    /\ tf.id # 0
    /\ want # NoConfig
    /\ Changed # {}
    /\ ~Replaces
    /\ Begin("update", [id |-> tf.id, made |-> 0, isNew |-> FALSE, attr |-> want])

StartDelete ==
    /\ op = "idle"
    /\ tf.id # 0
    /\ want = NoConfig \/ Replaces
    /\ Begin("delete", [id |-> tf.id, made |-> 0, isNew |-> FALSE, attr |-> tf.attr])

StartImport(o) ==
    /\ op = "idle"
    /\ tf.id = 0
    /\ want # NoConfig
    /\ Handlers[kind].import # << >>
    /\ Handlers[kind].naming # "minted" => o = Name
    /\ Begin("import", [id |-> o, made |-> 0, isNew |-> FALSE, attr |-> NullAttrs])

-----------------------------------------------------------------------------
(* The plugin SDK: what is saved when a handler returns. *)

\* Mutated form: attributes are saved without an id.
KeptWithoutId(data, taint) == [id |-> data.id, tainted |-> taint, attr |-> data.attr]

Kept(data, taint) ==
    IF data.id = 0 THEN NoState ELSE [id |-> data.id, tainted |-> taint, attr |-> data.attr]

\* A failed create is kept as tainted if it has an id; a failed update keeps the
\* values of its ResourceData, which started as the planned ones; any other
\* failed operation changes nothing.
Saved(verdict, data) ==
    CASE op = "create"                     -> Kept(data, verdict = "error")
      [] op = "update"                     -> Kept(data, FALSE)
      [] op = "read" /\ verdict = "ok"     -> Kept(data, tf.tainted)
      [] op = "import" /\ verdict = "ok"   -> Kept(data, FALSE)
      [] op = "delete" /\ verdict = "ok"   -> NoState
      [] OTHER                             -> tf

Finish(verdict, data) ==
    /\ tf' = Saved(verdict, data)
    /\ outcome' = [op |-> op, verdict |-> verdict]
    /\ op' = "idle"
    /\ pc' = 0
    /\ d' = NoData

-----------------------------------------------------------------------------
(* The steps of a handler. *)

Handler == Handlers[kind][op]
Running == op # "idle" /\ pc \in 1 .. Len(Handler)
Do == Handler[pc]
At(name) == Running /\ Do.do = name

Advance(data) ==
    /\ pc' = pc + 1
    /\ d' = data
    /\ UNCHANGED <<tf, op, outcome>>

\* The object that a call names.
Target == IF d.id # 0 THEN d.id ELSE d.made

\* A failing step may put the old values back first.
Reverted ==
    IF Do.how = "revert"
    THEN [d EXCEPT !.attr = [p \in Parts |-> IF p \in Do.parts THEN tf.attr[p] ELSE d.attr[p]]]
    ELSE d
Fail == Finish("error", Reverted)

HasChanges(parts) == \E p \in parts \cap Parts : d.attr[p] # tf.attr[p]

\* Where a POST can create its object: a name that is free (soft-deleted names
\* count as free), or any identity not in use.
Postable ==
    CASE Handlers[kind].naming = "minted" -> {o \in Objects : cloud[o].phase = "absent"}
      [] Handlers[kind].naming = "named"  -> {o \in {Name} : cloud[o].phase \in {"absent", "soft"}}
      [] OTHER                            -> {o \in {Name} : cloud[o].phase # "deleting"}

\* The effect of a POST that creates o, or that finds it there.
NewPhase == IF Do.how = "provisioning" THEN "provisioning" ELSE "ready"
AfterPost(o) ==
    IF ~Exists(o) THEN [cloud EXCEPT ![o] = [phase |-> NewPhase, attr |-> d.attr]]
    ELSE IF Handlers[kind].naming = "once" THEN cloud
    ELSE [cloud EXCEPT ![o].attr = d.attr]

Patched(a) == [p \in Parts |-> IF p \in Do.parts THEN d.attr[p] ELSE a[p]]
Disturbed(a) == {b \in Attrs : \A p \in Parts \ Do.parts : b[p] = a[p]}

\* What the server may do about any other call that changes something: nothing
\* in the set means that it refuses.
Effects ==
    CASE Do.do = "patch" /\ Exists(Target) -> {[cloud EXCEPT ![Target].attr = Patched(@)]}
      [] Do.do = "disturb" /\ Exists(Target) ->
             {[cloud EXCEPT ![Target].attr = a] : a \in Disturbed(cloud[Target].attr)}
      [] /\ Do.do = "delete"
         /\ Visible(Target)
         /\ Do.how = "retries" => cloud[Target].phase # "provisioning" ->
             {[cloud EXCEPT ![Target].phase = "deleting"]}
      [] Do.do = "softDelete" /\ Exists(Target) -> {[cloud EXCEPT ![Target].phase = "soft"]}
      [] Do.do = "hardDelete" /\ cloud[Target].phase = "soft" ->
             {[cloud EXCEPT ![Target].phase = "absent"]}
      [] OTHER -> {}

\* Is the step under way a call that changes something, and is it made at all?
Conditional == Do.do = "patch" \/ Do.how = "ifSecond"
Due == HasChanges(IF Do.how = "ifSecond" THEN Second ELSE Do.parts)
Changes == /\ Do.do \in {"patch", "disturb", "delete", "softDelete", "hardDelete"}
           /\ Conditional => Due

\* The answers to a GET of the object.  With a key that is no longer valid every
\* call is refused; the control plane says 404 or 403 of an object that is gone,
\* the Kafka and Schema Registry endpoints say 404.
GetAnswers ==
    IF ~valid THEN Refusals("401", FALSE) \cup Refusals("403", TRUE)
    ELSE IF Visible(Target) /\ Do.how # "blind" THEN {Found("EXISTS")}
    ELSE Refusals("404", FALSE)
             \cup (IF Do.how = "StatusIsNotFound" THEN {} ELSE Refusals("403", FALSE))

\* isResourceNotFound, in the three ways the code decides it.  A "blind" GET asks
\* for something that does not exist.
NotFound(r) ==
    CASE Do.how = "ClassifyThenDescribe" -> ClassifyThenDescribe(r)
      [] Do.how = "StatusIsNotFound"     -> StatusIsNotFound(r)
      [] OTHER                           -> DescribeThenClassify(r)

Checked ==
    /\ At("check")
    /\ Advance(d)
    /\ UNCHANGED <<cloud, owned, drift>>

PostAnswered ==
    /\ At("post")
    /\ valid
    /\ \E o \in Postable :
        /\ cloud' = AfterPost(o)
        /\ owned' = owned \cup {o}
        /\ Advance([d EXCEPT !.made = o])
    /\ UNCHANGED drift

PostRefused ==
    /\ At("post")
    /\ ~valid \/ Postable = {}
    /\ Fail
    /\ UNCHANGED <<cloud, owned, drift>>

IdSet ==
    /\ At("setId")
    /\ Advance([d EXCEPT !.id = d.made])
    /\ UNCHANGED <<cloud, owned, drift>>

MarkedNew ==
    /\ At("markNew")
    /\ Advance([d EXCEPT !.isNew = TRUE])
    /\ UNCHANGED <<cloud, owned, drift>>

ChangeAnswered ==
    /\ Running
    /\ Changes
    /\ valid
    /\ cloud' \in Effects
    /\ Advance(d)
    /\ UNCHANGED <<owned, drift>>

\* A second deletion of an object that is already being deleted may be refused.
ChangeRefused ==
    /\ Running
    /\ Changes
    /\ ~valid \/ (~Exists(Target) /\ ~(Do.do = "hardDelete" /\ Effects # {}))
    /\ IF Do.how = "tolerant" /\ valid
       THEN Advance(d)
       ELSE Fail
    /\ UNCHANGED <<cloud, owned, drift>>

NothingToChange ==
    /\ Running
    /\ Conditional
    /\ ~Due
    /\ Advance(d)
    /\ UNCHANGED <<cloud, owned, drift>>

Fetched ==
    /\ At("fetch")
    /\ IF valid /\ Visible(Target) THEN Advance(d) ELSE Fail
    /\ UNCHANGED <<cloud, owned, drift>>

\* The wait goes on while the object is being provisioned.
WaitReadyReturns ==
    /\ At("waitReady")
    /\ IF valid /\ Exists(Target)
       THEN cloud[Target].phase = "ready" /\ Advance(d)
       ELSE Fail
    /\ UNCHANGED <<cloud, owned, drift>>

\* The wait goes on while the object is found.
WaitGoneReturns ==
    /\ At("waitGone")
    /\ \E r \in GetAnswers :
        /\ r.code # "200"
        /\ IF NotFound(r) THEN Advance(d) ELSE Fail
    /\ UNCHANGED <<cloud, owned, drift>>

GetFound ==
    /\ At("get")
    /\ \E r \in GetAnswers : r.code = "200"
    /\ Advance([d EXCEPT !.attr = [p \in Parts |-> IF p \in Do.parts THEN cloud[Target].attr[p]
                                                                     ELSE d.attr[p]]])
    /\ UNCHANGED <<cloud, owned, drift>>

\* d.SetId("") and return without an error.
GetForgets ==
    /\ At("get")
    /\ ~d.isNew
    /\ \E r \in GetAnswers : r.code # "200" /\ NotFound(r)
    /\ Finish("ok", [d EXCEPT !.id = 0])
    /\ UNCHANGED <<cloud, owned, drift>>

GetFails ==
    /\ At("get")
    /\ \E r \in GetAnswers : r.code # "200" /\ (d.isNew \/ ~NotFound(r))
    /\ Fail
    /\ UNCHANGED <<cloud, owned, drift>>

HandlerReturns ==
    /\ op # "idle"
    /\ pc = Len(Handler) + 1
    /\ Finish("ok", d)
    /\ owned' = IF op = "import" /\ d.id # 0 THEN owned \cup {d.id} ELSE owned
    /\ UNCHANGED <<cloud, drift>>

HandlerStep ==
    /\ \/ Checked \/ PostAnswered \/ PostRefused \/ IdSet \/ MarkedNew
       \/ ChangeAnswered \/ ChangeRefused \/ NothingToChange \/ Fetched
       \/ WaitReadyReturns \/ WaitGoneReturns
       \/ GetFound \/ GetForgets \/ GetFails \/ HandlerReturns
    /\ UNCHANGED <<kind, valid, want, faults>>

\* A step ends in an error: a request that is not valid, a call that breaks on
\* the way, a wait that runs into its timeout or that the object's failure ends.
\* The server may have acted on the call whose answer is lost; an object created
\* in this way is not one that Terraform was told of.
StepBreaks ==
    /\ Running
    /\ Do.do \notin {"setId", "markNew"}
    /\ faults > 0
    /\ faults' = faults - 1
    /\ Fail
    /\ \/ UNCHANGED <<cloud, owned>>
       \/ valid /\ Changes /\ cloud' \in Effects /\ UNCHANGED owned
       \/ /\ valid
          /\ Do.do = "post"
          /\ \E o \in Postable : /\ cloud' = AfterPost(o)
                                 /\ owned' = IF Exists(o) THEN owned ELSE owned \ {o}
    /\ UNCHANGED <<kind, valid, want, drift>>

-----------------------------------------------------------------------------
(* The cloud. *)

\* What happens outside the provider leaves the provider alone.
OutsideVars == <<kind, want, tf, op, pc, d, owned, outcome>>

Provisioned(o) ==
    /\ cloud[o].phase = "provisioning"
    /\ cloud' = [cloud EXCEPT ![o].phase = "ready"]
    /\ UNCHANGED <<OutsideVars, valid, drift, faults>>

DeletionCompletes(o) ==
    /\ cloud[o].phase = "deleting"
    /\ cloud' = [cloud EXCEPT ![o].phase = "absent"]
    /\ UNCHANGED <<OutsideVars, valid, drift, faults>>

OthersDelete(o) ==
    /\ faults > 0
    /\ Exists(o)
    /\ cloud' = [cloud EXCEPT ![o].phase = "deleting"]
    /\ faults' = faults - 1
    /\ UNCHANGED <<OutsideVars, valid, drift>>

OthersChange(o) ==
    /\ faults > 0
    /\ Exists(o)
    /\ \E a \in Attrs \ {cloud[o].attr} : cloud' = [cloud EXCEPT ![o].attr = a]
    /\ drift' = "since"
    /\ faults' = faults - 1
    /\ UNCHANGED <<OutsideVars, valid>>

KeyRevoked ==
    /\ valid
    /\ faults > 0
    /\ valid' = FALSE
    /\ faults' = faults - 1
    /\ UNCHANGED <<OutsideVars, cloud, drift>>

Cloud == \E o \in Objects : Provisioned(o) \/ DeletionCompletes(o) \/ OthersDelete(o)
                                \/ OthersChange(o)
Apply == StartCreate \/ StartUpdate \/ StartDelete
Next == \/ UserEdits \/ Apply \/ StartRead \/ \E o \in Objects : StartImport(o)
        \/ HandlerStep \/ StepBreaks
        \/ Cloud \/ KeyRevoked
Spec == Init /\ [][Next]_vars

\* Handlers run, the cloud finishes what it started, and the user goes on
\* refreshing and applying.
FairSpec == /\ Spec
            /\ WF_vars(HandlerStep)
            /\ \A o \in Objects : WF_vars(Provisioned(o)) /\ WF_vars(DeletionCompletes(o))
            /\ SF_vars(StartRead)
            /\ SF_vars(Apply)

-----------------------------------------------------------------------------

CloudStates == [Objects -> [phase : CloudPhases, attr : SavedAttrs]]
SavedStates == [id : Objects \cup {0}, tainted : BOOLEAN, attr : SavedAttrs]
ResourceData == [id : Objects \cup {0}, made : Objects \cup {0}, isNew : BOOLEAN,
                 attr : SavedAttrs]
Outcomes == [op : Ops \cup {"idle"}, verdict : {"none", "ok", "error"}]

WorldOK ==
    /\ kind \in Kinds
    /\ cloud \in CloudStates
    /\ valid \in BOOLEAN
    /\ want \in Attrs \cup {NoConfig}
    /\ owned \subseteq Objects
    /\ drift \in {"none", "before", "since"}
    /\ faults \in 0 .. MaxFaults
ProviderOK ==
    /\ tf \in SavedStates
    /\ tf.id = 0 => tf = NoState
    /\ op \in Ops \cup {"idle"}
    /\ op = "idle" => pc = 0
    /\ op # "idle" => pc \in 1 .. (Len(Handler) + 1)
    /\ d \in ResourceData
    /\ outcome \in Outcomes

\* Type invariant: what Terraform saves and a handler holds are well formed, the
\* state of an instance without an id is empty, and a handler is somewhere in its
\* steps.
TypeOK == WorldOK /\ ProviderOK

(***************************************************************************)
(* What handlers have to do for no object to get lost: the create handler  *)
(* sets the id as soon as its only POST is answered, before anything else  *)
(* can fail; no other handler creates, unless it POSTs the name it has     *)
(* again; the delete handler really deletes; a read asks for the object of *)
(* the instance.                                                           *)
(* If besides every read classifies a refusal before describing it, that   *)
(* holds with a revoked API key as well.                                   *)
(***************************************************************************)
SetsIdAtOnce(create) ==
    \A i \in 1 .. Len(create) : create[i].do = "post" =>
        /\ i < Len(create)
        /\ create[i + 1] = SetId
        /\ \A j \in 1 .. Len(create) : create[j].do = "post" => j = i
CreatesNothing(h) ==
    \A o \in Ops \ {"create"} : \A i \in 1 .. Len(h[o]) : h[o][i].do \notin {"post", "setId"}
RegistersAgain(h) ==
    /\ h.naming # "minted"
    /\ \A o \in Ops \ {"create", "update"} : \A i \in 1 .. Len(h[o]) :
           h[o][i].do \notin {"post", "setId"}
    /\ \A i \in 1 .. Len(h.update) : h.update[i].do = "setId" =>
           \E j \in 1 .. (i - 1) : h.update[j].do = "post" /\ h.update[j].how # "ifSecond"
Deletes(delete) ==
    \E i \in 1 .. Len(delete) :
        delete[i].do \in {"delete", "softDelete"} /\ delete[i].how # "ifSecond"
AsksForItsObject(h) ==
    \A o \in Ops : \A i \in 1 .. Len(h[o]) : h[o][i].do = "get" => h[o][i].how # "blind"
KeepsTrack(h) == /\ SetsIdAtOnce(h.create)
                 /\ CreatesNothing(h) \/ RegistersAgain(h)
                 /\ Deletes(h.delete)
                 /\ AsksForItsObject(h)
ClassifiesRefusals(h) ==
    \A o \in Ops : \A i \in 1 .. Len(h[o]) :
        h[o][i].do = "get" => h[o][i].how \in {"ClassifyThenDescribe", "StatusIsNotFound"}

\* Refusals can be trusted: no read takes an existing object for one that is gone.
\* A read that describes first can be trusted only while the API key is valid.
Trusted == valid \/ kind \notin Describing

\* Safety: every object that Terraform was told it created, or imported, and that
\* still exists is in the state (nothing the user pays for is lost track of),
\* whichever step of a handler failed.
NoOrphans == Trusted /\ op = "idle" => \A o \in owned : Exists(o) => tf.id = o

(***************************************************************************)
(* The inductive strengthening of NoOrphans for handlers that KeepTrack.   *)
(***************************************************************************)

\* The id that a handler works with, by operation: between the answer of the POST
\* and the step that sets the id there is no way out of a create handler.
IdInv ==
    /\ op = "create" =>
        /\ tf.id = 0
        /\ d.isNew
        /\ d.id \in {0, d.made}
        /\ d.made # 0 => \E i \in 1 .. (pc - 1) : Handler[i].do = "post"
        /\ d.made # 0 /\ d.id = 0 => Running /\ Do = SetId
    /\ op \in {"read", "update", "delete"} => tf.id # 0 /\ d.id = tf.id
    /\ op = "import" => tf.id = 0

\* A delete handler that is past its deletion has deleted.
DeleteInv ==
    op = "delete" =>
        \A i \in 1 .. (pc - 1) :
            Handler[i].do \in {"delete", "softDelete"} /\ Handler[i].how # "ifSecond"
                => ~Exists(d.id)

\* An instance whose object the user names has the object of that name; an update
\* that is past its POST knows it.
NameInv ==
    /\ Handlers[kind].naming # "minted" => {tf.id, d.id, d.made} \subseteq {0, Name}
    /\ op = "update" =>
           \A i \in 1 .. (pc - 1) :
               Handler[i].do = "post" /\ Handler[i].how # "ifSecond" => d.made # 0

OwnedInv == \A o \in owned : Exists(o) => o = tf.id \/ (op = "create" /\ o = d.made)

IInv == TypeOK /\ IdInv /\ NameInv /\ DeleteInv /\ (Trusted => OwnedInv)

\* Action property: an operation other than a deletion drops an instance from the
\* state (d.SetId("") in a read) only if the object is gone.
ForgottenOnlyIfGone ==
    [][op # "delete" /\ tf.id # 0 /\ tf'.id # tf.id /\ Trusted => ~Exists(tf.id)]_vars

Succeeded(ops) == op = "idle" /\ outcome.op \in ops /\ outcome.verdict = "ok"

\* A create handler that POSTs at most once and then waits for the object; or no
\* handler has anything provisioned in the background.
WaitsForItsPost(create) ==
    \E w \in 1 .. Len(create) :
        /\ create[w] = WaitReady
        /\ \A i, j \in 1 .. Len(create) :
               create[i].do = "post" => i < w /\ (create[j].do = "post" => j = i)
NeverProvisions(h) ==
    \A o \in Ops : \A i \in 1 .. Len(h[o]) :
        h[o][i].do = "post" => h[o][i].how # "provisioning"
ReadyOnReturn(h) == NeverProvisions(h) \/ WaitsForItsPost(h.create)

\* Safety: a create that reports success leaves an object that has come out of
\* provisioning, so that resources depending on it can use it.
CreatedMeansReady ==
    Succeeded({"create"}) /\ tf.id # 0 => cloud[tf.id].phase # "provisioning"

\* A handler that reads a part of the object back when it has made its changes.
ReadsBackAt(handler, i, p) ==
    /\ handler[i].do = "get" /\ handler[i].how # "ifSecond"
    /\ p \in handler[i].parts
    /\ \A j \in (i + 1) .. Len(handler) :
           handler[j].do \notin {"post", "setId", "patch", "disturb"}
ReadsBack(h, parts) ==
    \A o \in {"create", "read", "import"} : \A p \in parts :
        \/ o = "import" /\ h.import = << >>
        \/ \E i \in 1 .. Len(h[o]) : ReadsBackAt(h[o], i, p)

\* A delete handler whose last step waits until the object is gone.
WaitsForItsEnd(h) ==
    /\ h.delete # << >>
    /\ h.delete[Len(h.delete)].do = "waitGone"
    /\ h.delete[Len(h.delete)].how \notin {"blind", "ifSecond"}
    /\ \A i \in 1 .. Len(h.delete) : h.delete[i].do \notin {"get", "post", "setId"}
    /\ \A o \in Ops : \A i \in 1 .. Len(h[o]) : h[o][i].do # "softDelete"

\* A handler that sends a part to the object when the plan changes the parts of
\* `changed`, before it reads that part back, and does not disturb it afterwards.
\* What depends on a change of the second part is decided before anything is read.
SendsAt(h, handler, i, p, changed) ==
    /\ \/ /\ handler[i].do = "post" /\ handler[i].how # "ifSecond"
          /\ h.naming # "once"
       \/ /\ handler[i].do = "patch" /\ handler[i].how # "tolerant"
          /\ p \in handler[i].parts
          /\ handler[i].how = "ifSecond" => "second" \in changed
    /\ \A j \in 1 .. (i - 1) : handler[j].do = "get" => p \notin handler[j].parts
    /\ \A j \in (i + 1) .. Len(handler) :
           handler[j].do = "disturb" /\ (handler[j].how = "ifSecond" => "second" \in changed)
               => p \notin handler[j].parts
    /\ \A j, g \in 1 .. Len(handler) : handler[j].how = "ifSecond" /\ handler[g].do = "get" => j < g
\* Handlers that do this for all that a plan may change, and mean one object.
SendsThePlan(h) ==
    /\ \A changed \in SUBSET PartNames : \A p \in changed :
           \E i \in 1 .. Len(h.create) : SendsAt(h, h.create, i, p, changed)
    /\ \A changed \in SUBSET h.mutable : \A p \in changed :
           \E i \in 1 .. Len(h.update) : SendsAt(h, h.update, i, p, changed)
    /\ h.naming = "minted" =>
           /\ CreatesNothing(h)
           /\ \A i, j \in 1 .. Len(h.create) :
                  h.create[i].do = "post" /\ h.create[j].do = "post" => i = j

\* The operation under way is one of ops and reports success with this step.
Succeeds(ops) == op \in ops /\ op' = "idle" /\ outcome'.verdict = "ok"

\* Action property: a create or an update reports success only when the object has
\* every attribute that the plan was to change, unless somebody else changed it
\* meanwhile.
AppliedMeansApplied ==
    [][Succeeds({"create", "update"}) /\ tf'.id # 0 /\ drift # "since"
           => \A p \in Changed : cloud[tf'.id].attr[p] = want[p]]_vars

\* Action property: the same of an update alone.
UpdatedMeansApplied ==
    [][Succeeds({"update"}) /\ tf'.id # 0 /\ drift # "since"
           => \A p \in Changed : cloud[tf'.id].attr[p] = want[p]]_vars

\* Safety: if a refresh finds nothing to do (the state has what the configuration
\* asks for), the object has it too, unless somebody else changed it.
EmptyPlanIsTrue ==
    Succeeded({"read"}) /\ tf.id # 0 /\ drift = "none" /\ tf.attr = want
        => cloud[tf.id].attr = want

\* Safety: an object whose deletion for good was asked for is not left behind
\* softly deleted once Terraform has forgotten it.
HardDeleted == op = "idle" /\ tf.id = 0 => \A o \in owned : cloud[o].phase # "soft"

InSync ==
    IF want = NoConfig THEN tf.id = 0
    ELSE /\ tf.id # 0
         /\ ~tf.tainted
         /\ tf.attr = want
         /\ cloud[tf.id] = [phase |-> "ready", attr |-> want]

\* The name asked for belongs to an object that Terraform does not know of: every
\* POST is refused until the user imports or removes it.
Taken == /\ Handlers[kind].naming = "named"
         /\ Exists(Name)
         /\ tf.id # Name
         /\ d.id # Name

\* Liveness: if the user leaves the configuration alone and goes on applying it,
\* the key stays valid and the name is free, the cloud and the state come to agree
\* with the configuration, whatever failed on the way.
Converges ==
    \A w \in Attrs \cup {NoConfig} : <>[](want = w) /\ []valid /\ []<>~Taken => <>[]InSync
=============================================================================
