---------------------------- MODULE HandlerSteps ----------------------------
(***************************************************************************)
(* The steps a CRUD handler of the provider is made of.  A handler is the  *)
(* sequence of its steps in source order; ResourceCatalog writes down the  *)
(* handlers of every resource and ResourceLifecycle gives the steps their  *)
(* meaning.                                                                *)
(*                                                                         *)
(* Any step may end its handler with an error before it has had an effect  *)
(* (ResourceLifecycle!StepBreaks).  That covers the validation, client     *)
(* construction and marshalling errors returned before the call of the     *)
(* step, so they are no steps of their own, unless they stand where an     *)
(* error means something else than the error of the next call.             *)
(*                                                                         *)
(* The attributes of a resource are abstracted to two parts.  "first" can  *)
(* be updated in place if anything can; "second" is what cannot (ForceNew) *)
(* or what another call of the same handler updates.  For some resources   *)
(* "second" is a secret that no read brings back.                          *)
(***************************************************************************)
EXTENDS Sequences

PartNames == {"first", "second"}
Both == PartNames
First == {"first"}
Second == {"second"}

StepNames == {"check", "post", "setId", "markNew", "waitReady", "waitGone", "fetch", "get",
              "patch", "disturb", "delete", "softDelete", "hardDelete"}
Manners == {"", "revert", "ifSecond", "ready", "provisioning", "tolerant", "retries",
            "ClassifyThenDescribe", "DescribeThenClassify", "StatusIsNotFound", "blind"}

Steps == [do : StepNames, how : Manners, parts : SUBSET PartNames]
Step(do, how, parts) == [do |-> do, how |-> how, parts |-> parts]

\* A validation that may return an error and changes nothing.
Check == Step("check", "", {})
\* The same, putting the planned values back to the old ones before the error.
CheckOrRevert == Step("check", "revert", Both)

\* The call that creates the object.  The API reports it usable at once, or
\* provisions it in the background.
Post == Step("post", "ready", Both)
PostProvisions == Step("post", "provisioning", Both)

SetId == Step("setId", "", {})
MarkNewResource == Step("markNew", "", {})

\* A wait of utils_wait.go until the object can be used.
WaitReady == Step("waitReady", "", {})
\* A wait of utils_wait.go until the object is gone, deciding that by `how`.
WaitGone(how) == Step("waitGone", how, {})

\* A GET any refusal of which is an error.
Fetch == Step("fetch", "", {})
\* The GET of a read handler and the attributes set from it: an object that is
\* not found (decided by `how`) is dropped from the state unless it is new.
Get(how, parts) == Step("get", how, parts)

\* A call that changes the parts, made if one of them has changes; `OrRevert`
\* puts the old value back when it fails; `IfSecond` makes it depend on changes
\* of the second part instead.
Patch(parts) == Step("patch", "", parts)
PatchOrRevert(parts) == Step("patch", "revert", parts)
PatchIfSecond(parts) == Step("patch", "ifSecond", parts)

\* A call that sets the parts to something else for the time being (a pause).
Disturb(parts) == Step("disturb", "", parts)
DisturbIfSecond(parts) == Step("disturb", "ifSecond", parts)

Delete == Step("delete", "", {})
\* A deletion that takes "not found" for success.
DeleteTolerant == Step("delete", "tolerant", {})
\* A deletion that is repeated while the API refuses it for a pending operation.
DeleteRetries == Step("delete", "retries", {})
SoftDelete == Step("softDelete", "", {})
HardDelete == Step("hardDelete", "", {})

\* The three ways in which a read decides that its object is gone.
DescribesFirst == <<Get("DescribeThenClassify", Both)>>
ClassifiesFirst == <<Get("ClassifyThenDescribe", Both)>>
ChecksStatus == <<Get("StatusIsNotFound", Both)>>
\* A read that leaves a secret in the state as it finds it there.
KeepsSecret(how) == <<Get(how, First)>>

\* What a schema.Resource registers, the parts its schema lets an update change
\* in place, and how the API names its objects.  An import handler that leaves
\* the reading to Terraform core, which reads every imported instance, has the
\* steps of that read.
Resource(create, read, update, delete, import, mutable, naming) ==
    [create |-> create, read |-> read, update |-> update, delete |-> delete,
     import |-> import, mutable |-> mutable, naming |-> naming]
=============================================================================
