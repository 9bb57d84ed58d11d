----------------------------- MODULE WaitConfigs -----------------------------
(***************************************************************************)
(* The StateChangeConf of every wait of the provider, and the deadline of  *)
(* the context the calling handler hands it.  Durations are in minutes.    *)
(***************************************************************************)
EXTENDS WaitStatus

Hours(n) == 60 * n

\* The SDK puts this deadline on the context of a handler whose resource
\* declares no timeout of its own for the operation.
DefaultOperationTimeout == 20

getTimeoutFor(clusterType) == IF clusterType = "DEDICATED" THEN Hours(72) ELSE Hours(1)

connectAPICreateTimeout == Hours(24)
connectOffsetsAPIUpdateTimeout == Hours(1)
dataCatalogTimeout == 1
fcpmAPICreateTimeout == Hours(1)
fcpmAPIDeleteTimeout == Hours(1)
ksqlCreateTimeout == Hours(12)
networkingAPICreateTimeout == Hours(2)
networkingAPIDeleteTimeout == Hours(5)
rtceV1APICreateTimeout == Hours(1)
rtceV1APIDeleteTimeout == Hours(1)
schemaExporterAPICreateTimeout == Hours(12)
statementsAPICreateTimeout == Hours(6)
materializedTableAPICreateTimeout == Hours(6)
materializedTableAPIUpdateTimeout == 20
materializedTableAPIDeleteTimeout == 20

\* "asks" is the identifier the refresh function puts in its request.
StateChangeConf(pending, target, refresh, timeout, deadline) ==
    [Pending |-> pending, Target |-> target, Refresh |-> refresh, Timeout |-> timeout,
     ContinuousTargetOccurence |-> 1, deadline |-> deadline, asks |-> "object"]

Provision(target, refresh, timeout, deadline) ==
    StateChangeConf({"PROVISIONING"}, target, refresh, timeout, deadline)

Deletion(refresh, timeout, deadline) ==
    StateChangeConf({"IN_PROGRESS"}, {"DONE"}, refresh, timeout, deadline)

KeySync(refresh) ==
    StateChangeConf({"IN_PROGRESS"}, {"DONE"}, refresh, 20, DefaultOperationTimeout)

-----------------------------------------------------------------------------

\* Mutated form: the first synced answer ends the wait.
SyncedOnceIsEnough == KeySync(kafkaApiKeySyncStatus)

waitForCreatedKafkaApiKeyToSync ==
    [KeySync(kafkaApiKeySyncStatus) EXCEPT !.ContinuousTargetOccurence = 2]
waitForCreatedCloudApiKeyToSync == KeySync(cloudApiKeySyncStatus)
waitForCreatedTableflowApiKeyToSync == KeySync(tableflowApiKeySyncStatus)
waitForCreatedGlobalApiKeyToSync == KeySync(globalApiKeySyncStatus)

waitForKafkaClusterToProvision(clusterType) ==
    Provision({"PROVISIONED"}, kafkaClusterProvisionStatus,
              getTimeoutFor(clusterType), getTimeoutFor("DEDICATED"))
waitForKsqlClusterToProvision ==
    Provision({"PROVISIONED"}, ksqlClusterProvisionStatus, ksqlCreateTimeout, ksqlCreateTimeout)
\* Mutated form: a private link access that is still provisioning will do.
ProvisioningIsEnough ==
    StateChangeConf({}, {"PROVISIONING", "READY"}, privateLinkAccessProvisionStatus,
                    networkingAPICreateTimeout, networkingAPICreateTimeout)

waitForPrivateLinkAccessToProvision ==
    Provision({"READY"}, privateLinkAccessProvisionStatus,
              networkingAPICreateTimeout, networkingAPICreateTimeout)
waitForConnectorOffsetsUpdateToComplete ==
    StateChangeConf({"PENDING"}, {"APPLIED"}, connectorOffsetUpdateStatus,
                    connectOffsetsAPIUpdateTimeout, DefaultOperationTimeout)
waitForPrivateLinkAttachmentToProvision ==
    Provision({"READY", "WAITING_FOR_CONNECTIONS"}, privateLinkAttachmentProvisionStatus,
              networkingAPICreateTimeout, DefaultOperationTimeout)
waitForPrivateLinkAttachmentConnectionToProvision ==
    Provision({"READY"}, privateLinkAttachmentConnectionProvisionStatus,
              networkingAPICreateTimeout, DefaultOperationTimeout)
waitForNetworkToProvision ==
    Provision({"READY"}, networkProvisionStatus,
              networkingAPICreateTimeout, networkingAPICreateTimeout)
waitForFlinkStatementToProvision(carryOverOffsets) ==
    IF carryOverOffsets
    THEN StateChangeConf({}, {"PENDING", "RUNNING", "COMPLETED"}, flinkStatementProvisionStatus,
                         statementsAPICreateTimeout, statementsAPICreateTimeout)
    ELSE StateChangeConf({"PENDING"}, {"RUNNING", "COMPLETED"}, flinkStatementProvisionStatus,
                         statementsAPICreateTimeout, statementsAPICreateTimeout)
waitForDnsRecordToProvision ==
    Provision({"READY", "CREATED"}, dnsRecordProvisionStatus,
              networkingAPICreateTimeout, networkingAPICreateTimeout)
waitForDnsForwarderToProvision ==
    Provision({"READY", "CREATED"}, dnsForwarderProvisionStatus,
              networkingAPICreateTimeout, DefaultOperationTimeout)
waitForAccessPointToProvision ==
    Provision({"READY", "PENDING_ACCEPT", "CREATED"}, accessPointProvisionStatus,
              networkingAPICreateTimeout, networkingAPICreateTimeout)
waitForGatewayToProvision ==
    Provision({"READY", "CREATED"}, gatewayProvisionStatus,
              networkingAPICreateTimeout, DefaultOperationTimeout)
waitForComputePoolToProvision ==
    Provision({"PROVISIONED"}, computePoolProvisionStatus,
              fcpmAPICreateTimeout, fcpmAPICreateTimeout)
waitForAnySchemaRegistryClusterToProvision ==
    Provision({"PROVISIONED"}, anySchemaRegistryClusterProvisionStatus,
              10, getTimeoutFor("DEDICATED"))
waitForConnectorToProvision ==
    StateChangeConf({"PROVISIONING", "DEGRADED"}, {"RUNNING"}, connectorProvisionStatus,
                    connectAPICreateTimeout, connectAPICreateTimeout)
waitForConnectorToChangeStatus(currentStatus, targetStatus) ==
    StateChangeConf({currentStatus}, {targetStatus}, connectorUpdateStatus,
                    Hours(1), DefaultOperationTimeout)
waitForKafkaMirrorTopicToChangeStatus(currentStatus, targetStatus) ==
    StateChangeConf({currentStatus} \cup (IF targetStatus = "STOPPED" THEN {"PENDING_STOPPED"} ELSE {}),
                    {targetStatus}, kafkaMirrorTopicUpdateStatus, 5, DefaultOperationTimeout)
waitForPeeringToProvision ==
    Provision({"READY", "PENDING_ACCEPT"}, peeringProvisionStatus,
              networkingAPICreateTimeout, networkingAPICreateTimeout)
waitForTagToProvision ==
    Provision({"READY"}, tagProvisionStatus, dataCatalogTimeout, DefaultOperationTimeout)
waitForBusinessMetadataToProvision ==
    Provision({"READY"}, businessMetadataProvisionStatus, dataCatalogTimeout, DefaultOperationTimeout)
waitForTagBindingToProvision ==
    Provision({"READY"}, tagBindingProvisionStatus, dataCatalogTimeout, DefaultOperationTimeout)
waitForBusinessMetadataBindingToProvision ==
    Provision({"READY"}, businessMetadataBindingProvisionStatus,
              dataCatalogTimeout, DefaultOperationTimeout)
waitForSchemaExporterToProvision(deadline) ==
    Provision({"READY"}, schemaExporterProvisionStatus, schemaExporterAPICreateTimeout, deadline)
waitForTransitGatewayAttachmentToProvision ==
    Provision({"READY", "PENDING_ACCEPT"}, transitGatewayAttachmentProvisionStatus,
              networkingAPICreateTimeout, networkingAPICreateTimeout)
waitForKafkaClusterCkuUpdateToComplete ==
    StateChangeConf({"IN_PROGRESS"}, {"DONE"}, kafkaClusterCkuUpdateStatus,
                    getTimeoutFor("DEDICATED"), getTimeoutFor("DEDICATED"))
waitForNetworkLinkEndpointToProvision ==
    Provision({"PENDING_ACCEPT", "READY", "INACTIVE"}, networkLinkEndpointProvisionStatus,
              networkingAPICreateTimeout, networkingAPICreateTimeout)
waitForNetworkLinkServiceToProvision ==
    Provision({"READY"}, networkLinkServiceProvisionStatus,
              networkingAPICreateTimeout, networkingAPICreateTimeout)
waitForRtceTopicToProvision ==
    StateChangeConf({"PENDING", "PROVISIONING"}, {"ACTIVE"}, rtceTopicProvisionStatus,
                    rtceV1APICreateTimeout, rtceV1APICreateTimeout)
waitForConnectArtifactToProvision ==
    StateChangeConf({"PROVISIONING", "PROCESSING", "WAITING_FOR_PROCESSING"},
                    {"PROVISIONED", "READY"}, connectArtifactProvisionStatus,
                    Hours(1), DefaultOperationTimeout)

\* Stopping and resuming a Flink statement.
\* Mutated form: a statement that is stopping is not expected.
StoppingIsUnexpected(toStop) ==
    StateChangeConf({"PENDING"} \cup (IF toStop THEN {"RUNNING", "COMPLETED"} ELSE {"STOPPED"}),
                    IF toStop THEN {"STOPPED"} ELSE {"RUNNING", "COMPLETED"},
                    flinkStatementUpdatingStatus, 20, DefaultOperationTimeout)

waitForFlinkStatementToBeUpdated(toStop) ==
    IF toStop
    THEN StateChangeConf({"PENDING", "RUNNING", "COMPLETED", "STOPPING"}, {"STOPPED"},
                         flinkStatementUpdatingStatus, 20, DefaultOperationTimeout)
    ELSE StateChangeConf({"PENDING", "STOPPED"}, {"RUNNING", "COMPLETED"},
                         flinkStatementUpdatingStatus, 20, DefaultOperationTimeout)
waitForFlinkMaterializedTableToProvision(wantStopped) ==
    StateChangeConf({"CREATING", "PENDING", IF wantStopped THEN "RUNNING" ELSE "STOPPED",
                     "STOPPING", "ALTERING"},
                    {IF wantStopped THEN "STOPPED" ELSE "RUNNING"},
                    flinkMaterializedTableProvisionStatus,
                    materializedTableAPICreateTimeout, materializedTableAPICreateTimeout)
waitForFlinkMaterializedTableToBeUpdated(toStop) ==
    StateChangeConf({"CREATING", "PENDING", IF toStop THEN "RUNNING" ELSE "STOPPED",
                     "STOPPING", "ALTERING"},
                    {IF toStop THEN "STOPPED" ELSE "RUNNING"},
                    flinkMaterializedTableUpdatingStatus,
                    materializedTableAPIUpdateTimeout, materializedTableAPIUpdateTimeout)

-----------------------------------------------------------------------------

waitForDnsRecordToBeDeleted ==
    Deletion(dnsRecordDeleteStatus, networkingAPIDeleteTimeout, networkingAPIDeleteTimeout)
\* Mutated form: the resource declares no timeout for its deletion.
UndeclaredDeleteTimeout ==
    Deletion(accessPointDeleteStatus, networkingAPIDeleteTimeout, DefaultOperationTimeout)

waitForAccessPointToBeDeleted ==
    Deletion(accessPointDeleteStatus, networkingAPIDeleteTimeout, networkingAPIDeleteTimeout)
waitForPrivateLinkAccessToBeDeleted ==
    Deletion(privateLinkAccessDeleteStatus, networkingAPIDeleteTimeout, networkingAPIDeleteTimeout)
waitForPeeringToBeDeleted ==
    Deletion(peeringDeleteStatus, networkingAPIDeleteTimeout, networkingAPIDeleteTimeout)
waitForTransitGatewayAttachmentToBeDeleted ==
    Deletion(transitGatewayAttachmentDeleteStatus, networkingAPIDeleteTimeout, networkingAPIDeleteTimeout)
waitForKafkaTopicToBeDeleted == Deletion(kafkaTopicDeleteStatus, Hours(1), DefaultOperationTimeout)
waitForKafkaMirrorTopicToBeDeleted == Deletion(kafkaMirrorTopicDeleteStatus, Hours(1), DefaultOperationTimeout)
waitForClusterLinkToBeDeleted == Deletion(clusterLinkDeleteStatus, Hours(1), DefaultOperationTimeout)
waitForFlinkStatementToBeDeleted == Deletion(flinkStatementDeleteStatus, 20, DefaultOperationTimeout)
waitForFlinkMaterializedTableToBeDeleted ==
    Deletion(flinkMaterializedTableDeleteStatus,
             materializedTableAPIDeleteTimeout, materializedTableAPIDeleteTimeout)
waitForKafkaClusterToBeDeleted == Deletion(kafkaClusterDeleteStatus, 30, DefaultOperationTimeout)

\* The GET of a private link attachment connection names its first identifier.
executePlattcRead(plattcId, environmentId) == plattcId
waitForPrivateLinkAttachmentConnectionToBeDeleted ==
    [Deletion(plattcDeleteStatus, networkingAPIDeleteTimeout, DefaultOperationTimeout)
        EXCEPT !.asks = executePlattcRead("environment", "object")]

TwoWordDeletion(refresh, timeout) ==
    StateChangeConf({"DELETING"}, {"DELETED"}, refresh, timeout, timeout)
waitForComputePoolToBeDeleted == TwoWordDeletion(computePoolDeleteStatus, fcpmAPIDeleteTimeout)
waitForNetworkLinkEndpointToBeDeleted == TwoWordDeletion(networkLinkEndpointDeleteStatus, networkingAPIDeleteTimeout)
waitForNetworkLinkServiceToBeDeleted == TwoWordDeletion(networkLinkServiceDeleteStatus, networkingAPIDeleteTimeout)
waitForRtceTopicToBeDeleted == TwoWordDeletion(rtceTopicDeleteStatus, rtceV1APIDeleteTimeout)
=============================================================================
