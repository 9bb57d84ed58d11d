------------------------------ MODULE WaitStatus ------------------------------
(***************************************************************************)
(* The StateRefreshFuncs of the provider (utils_wait.go and the resources  *)
(* that keep their own).  Each is a function from the answer of the API    *)
(* call it makes to what it returns: a result ("nil" or "obj"), a state    *)
(* and whether an error comes with it.                                     *)
(***************************************************************************)
EXTENDS ApiResponse, Integers

Outcome(res, state, err) == [res |-> res, state |-> state, err |-> err]
Failure(state) == Outcome("nil", state, TRUE)
\* resp.StatusCode of a call that got no response: the dereference of nil ends the
\* plugin.
Panic == Outcome("nil", "PANIC", TRUE)

\* The common shape of a provision status: an error of the call ends the wait,
\* a phase of the allowed list is reported as it is, a phase that means failure
\* and any other phase come back as errors.
PhaseStatus(allowed, failures) == [a \in Answers |->
    CASE a.code # "200"          -> Failure("UNKNOWN")
      [] a.code = "200" /\ a.phase \in allowed  -> Outcome("obj", a.phase, FALSE)
      [] a.code = "200" /\ a.phase \in failures -> Failure("FAILED")
      [] OTHER                   -> Failure("UNEXPECTED")]

\* A status that reports whatever state the object is in.
RawStatus == [a \in Answers |->
    IF a.code = "200" THEN Outcome("obj", a.phase, FALSE) ELSE Failure("UNKNOWN")]

\* The common shape of a delete status; NotFound is the caller's way of
\* deciding that the object is gone.  The result is never nil.
DeleteStatus(NotFound(_), done, busy, failed) == [a \in Answers |->
    CASE a.code = "200" -> Outcome("obj", busy, FALSE)
      [] a.code # "200" /\ NotFound(a) -> Outcome("obj", done, FALSE)
      [] OTHER -> Failure(failed)]

\* The common shape of an API key's sync status: a call made with the new key.
SyncStatus(unsynced) == [a \in Answers |->
    CASE a.code = "200"      -> Outcome("obj", "DONE", FALSE)
      [] a.code \in unsynced -> Outcome("obj", "IN_PROGRESS", FALSE)
      [] OTHER               -> Failure("FAILED")]

\* The catalog statuses: 404 (or no such binding in the answer) is "not there
\* yet", reported with a nil result that the wait counts as a miss.
CatalogStatus == [a \in Answers |->
    CASE a.code = "none" -> Panic
      [] a.code = "404"  -> Outcome("nil", "PROVISIONING", FALSE)
      [] a.code = "200"  -> Outcome("obj", "READY", FALSE)
      [] OTHER           -> Failure("UNKNOWN")]

CatalogBindingStatus == [a \in Answers |->
    CASE a.code = "none" -> Panic
      [] a.code = "404"  -> Outcome("nil", "PROVISIONING", FALSE)
      [] a.code = "200" /\ a.phase = "EXISTS" -> Outcome("obj", "READY", FALSE)
      [] a.code = "200" /\ a.phase # "EXISTS" -> Outcome("nil", "PROVISIONING", FALSE)
      [] OTHER           -> Failure("UNKNOWN")]

-----------------------------------------------------------------------------
(* Provision statuses. *)

kafkaClusterProvisionStatus == PhaseStatus({"PROVISIONING", "PROVISIONED"}, {"FAILED"})
ksqlClusterProvisionStatus == PhaseStatus({"PROVISIONING", "PROVISIONED"}, {"FAILED"})
computePoolProvisionStatus == PhaseStatus({"PROVISIONING", "PROVISIONED"}, {"FAILED"})
privateLinkAccessProvisionStatus == PhaseStatus({"PROVISIONING", "READY"}, {"FAILED"})
connectorOffsetUpdateStatus == PhaseStatus({"PENDING", "APPLIED"}, {"FAILED"})
privateLinkAttachmentProvisionStatus ==
    PhaseStatus({"PROVISIONING", "READY", "WAITING_FOR_CONNECTIONS"}, {"FAILED"})
privateLinkAttachmentConnectionProvisionStatus == PhaseStatus({"PROVISIONING", "READY"}, {"FAILED"})
networkProvisionStatus == PhaseStatus({"PROVISIONING", "READY"}, {"FAILED"})
dnsRecordProvisionStatus == PhaseStatus({"PROVISIONING", "READY", "CREATED"}, {"FAILED"})
dnsForwarderProvisionStatus == PhaseStatus({"PROVISIONING", "READY", "CREATED"}, {"FAILED"})
accessPointProvisionStatus ==
    PhaseStatus({"PROVISIONING", "READY", "PENDING_ACCEPT", "CREATED"},
                {"FAILED", "ERROR", "DISCONNECTED"})
gatewayProvisionStatus ==
    PhaseStatus({"PROVISIONING", "READY", "CREATED"},
                {"FAILED", "EXPIRED", "ERROR", "DISCONNECTED"})
peeringProvisionStatus == PhaseStatus({"PROVISIONING", "READY", "PENDING_ACCEPT"}, {"FAILED"})
transitGatewayAttachmentProvisionStatus ==
    PhaseStatus({"PROVISIONING", "READY", "PENDING_ACCEPT"}, {"FAILED"})
networkLinkEndpointProvisionStatus ==
    PhaseStatus({"PROVISIONING", "PENDING_ACCEPT", "READY", "INACTIVE"},
                {"FAILED", "EXPIRED", "DISCONNECTED"})
networkLinkServiceProvisionStatus == PhaseStatus({"PROVISIONING", "READY"}, {"FAILED", "ERROR"})
rtceTopicProvisionStatus ==
    PhaseStatus({"PENDING", "PROVISIONING", "ACTIVE"}, {"FAILED", "UNAVAILABLE"})

flinkStatementProvisionStatus ==
    PhaseStatus({"PENDING", "RUNNING", "COMPLETED"}, {"FAILED", "FAILING"})
flinkStatementUpdatingStatus ==
    PhaseStatus({"PENDING", "RUNNING", "COMPLETED", "STOPPED", "STOPPING"}, {"FAILED", "FAILING"})

isFlinkMaterializedTableTransitionalPhase(p) == p \in {"CREATING", "PENDING", "STOPPING", "ALTERING"}
flinkMaterializedTableProvisionStatus ==
    PhaseStatus({p \in Phases : isFlinkMaterializedTableTransitionalPhase(p)} \cup {"RUNNING", "STOPPED"},
                {"FAILED", "FAILING"})
flinkMaterializedTableUpdatingStatus ==
    PhaseStatus({p \in Phases : isFlinkMaterializedTableTransitionalPhase(p)} \cup {"RUNNING", "STOPPED"},
                {"FAILED", "FAILING"})

\* Any state other than the three named ones is a failure, never "unexpected".
connectorProvisionStatus ==
    LET named == {"PROVISIONING", "DEGRADED", "RUNNING"}
    IN  PhaseStatus(named, Phases \ named)

\* An artifact without a status field counts as provisioned.
\* Mutated form: a failed artifact is reported as provisioned.
FailedArtifactIsProvisioned == [a \in Answers |->
    IF a.code = "200" /\ a.phase \in {"NO_STATUS", "FAILED"}
    THEN Outcome("obj", "PROVISIONED", FALSE)
    ELSE PhaseStatus({"PROCESSING", "WAITING_FOR_PROCESSING", "PROVISIONING",
                      "PROVISIONED", "READY"}, {"FAILED"})[a]]

connectArtifactProvisionStatus == [a \in Answers |->
    IF a.code = "200" /\ a.phase = "NO_STATUS"
    THEN Outcome("obj", "PROVISIONED", FALSE)
    ELSE PhaseStatus({"PROCESSING", "WAITING_FOR_PROCESSING", "PROVISIONING",
                      "PROVISIONED", "READY"}, {"FAILED"})[a]]

\* The first Schema Registry cluster of the environment: none yet is a 200
\* whose list is empty, a GovCloud environment (a 400 naming it) counts as
\* provisioned.
anySchemaRegistryClusterProvisionStatus == [a \in Answers |->
    CASE a.code = "400" /\ a.parsed -> Outcome("obj", "PROVISIONED", FALSE)
      [] a.code = "200" /\ a.phase = "NO_STATUS" -> Outcome("obj", "PROVISIONING", FALSE)
      [] OTHER -> PhaseStatus({"PROVISIONING", "PROVISIONED"}, {"FAILED"})[a]]

\* status.cku and spec.cku of a Dedicated cluster being resized from 1 to 2.
desiredCku == 2
CkuOf == [CKU_EXPANDING |-> [status |-> 1, spec |-> 2],
          CKU_STALE     |-> [status |-> 1, spec |-> 1],
          CKU_SETTLED   |-> [status |-> 2, spec |-> 2]]

\* Mutated form: a resize the server has not picked up yet counts as done.
CkuDoneWhenUnchanged == [a \in Answers |->
    CASE a.code # "200" -> Failure("UNKNOWN")
      [] /\ a.code = "200"
         /\ a.phase \in DOMAIN CkuOf
         /\ CkuOf[a.phase].status = CkuOf[a.phase].spec -> Outcome("obj", "DONE", FALSE)
      [] OTHER -> Outcome("obj", "IN_PROGRESS", FALSE)]

kafkaClusterCkuUpdateStatus == [a \in Answers |->
    CASE a.code # "200" -> Failure("UNKNOWN")
      [] /\ a.code = "200"
         /\ a.phase \in DOMAIN CkuOf
         /\ CkuOf[a.phase].status = CkuOf[a.phase].spec
         /\ CkuOf[a.phase].status = desiredCku -> Outcome("obj", "DONE", FALSE)
      [] OTHER -> Outcome("obj", "IN_PROGRESS", FALSE)]

connectorUpdateStatus == RawStatus
kafkaMirrorTopicUpdateStatus == RawStatus

tagProvisionStatus == CatalogStatus
businessMetadataProvisionStatus == CatalogStatus
tagBindingProvisionStatus == CatalogBindingStatus
businessMetadataBindingProvisionStatus == CatalogBindingStatus

\* A state that is neither starting, running nor paused comes back with a nil
\* result and no error, which the wait counts as a miss.
schemaExporterProvisionStatus == [a \in Answers |->
    CASE a.code = "none" -> Panic
      [] a.code = "404" -> Outcome("nil", "PROVISIONING", FALSE)
      [] a.code = "200" /\ a.phase = "STARTING" -> Outcome("obj", "PROVISIONING", FALSE)
      [] a.code = "200" /\ a.phase \in {"RUNNING", "PAUSED"} -> Outcome("obj", "READY", FALSE)
      [] a.code = "200" /\ a.phase \notin {"STARTING", "RUNNING", "PAUSED"} ->
            Outcome("nil", "UNKNOWN", FALSE)
      [] OTHER -> Failure("UNKNOWN")]

-----------------------------------------------------------------------------
(* Delete statuses.  Most describe the error for the log before they       *)
(* classify the response; access point describes it without the response.  *)

flinkStatementDeleteStatus == DeleteStatus(DescribeThenClassify, "DONE", "IN_PROGRESS", "FAILED")
kafkaTopicDeleteStatus == DeleteStatus(StatusIsNotFound, "DONE", "IN_PROGRESS", "FAILED")
kafkaMirrorTopicDeleteStatus == DeleteStatus(StatusIsNotFound, "DONE", "IN_PROGRESS", "FAILED")
plattcDeleteStatus == DeleteStatus(DescribeThenClassify, "DONE", "IN_PROGRESS", "FAILED")
clusterLinkDeleteStatus == DeleteStatus(StatusIsNotFound, "DONE", "IN_PROGRESS", "FAILED")
flinkMaterializedTableDeleteStatus == DeleteStatus(DescribeThenClassify, "DONE", "IN_PROGRESS", "FAILED")
dnsRecordDeleteStatus == DeleteStatus(DescribeThenClassify, "DONE", "IN_PROGRESS", "FAILED")
accessPointDeleteStatus == DeleteStatus(ClassifyThenDescribe, "DONE", "IN_PROGRESS", "FAILED")
privateLinkAccessDeleteStatus == DeleteStatus(DescribeThenClassify, "DONE", "IN_PROGRESS", "FAILED")
peeringDeleteStatus == DeleteStatus(DescribeThenClassify, "DONE", "IN_PROGRESS", "FAILED")
transitGatewayAttachmentDeleteStatus == DeleteStatus(DescribeThenClassify, "DONE", "IN_PROGRESS", "FAILED")
kafkaClusterDeleteStatus == DeleteStatus(DescribeThenClassify, "DONE", "IN_PROGRESS", "FAILED")
computePoolDeleteStatus == DeleteStatus(ClassifyThenDescribe, "DELETED", "DELETING", "UNKNOWN")
networkLinkEndpointDeleteStatus == DeleteStatus(ClassifyThenDescribe, "DELETED", "DELETING", "UNKNOWN")
networkLinkServiceDeleteStatus == DeleteStatus(ClassifyThenDescribe, "DELETED", "DELETING", "UNKNOWN")
rtceTopicDeleteStatus == DeleteStatus(ClassifyThenDescribe, "DELETED", "DELETING", "UNKNOWN")

-----------------------------------------------------------------------------
(* API key sync statuses. *)

\* Mutated form: the status code is read of a response that may be missing.
SyncStatusUnguarded == [a \in Answers |->
    IF a.code = "none" THEN Panic ELSE SyncStatus({"401", "403"})[a]]

kafkaApiKeySyncStatus == SyncStatus({"401", "403"})
cloudApiKeySyncStatus == SyncStatus({"401", "403"})
globalApiKeySyncStatus == SyncStatus({"401", "403"})
tableflowApiKeySyncStatus == SyncStatus({"401", "403"})
=============================================================================
