---------------------------- MODULE MCStateChange ----------------------------
(***************************************************************************)
(* The waits of the provider as instances of StateChange: for each its     *)
(* StateChangeConf, the states it is meant to wait for and the states its  *)
(* object is driven through.                                               *)
(***************************************************************************)
EXTENDS StateChange, WaitConfigs

\* A wait whose refresh function reports the object's own phases: the object
\* goes through every phase the refresh function knows and one it does not.
\* The goal is what the handler that waits goes on to rely on.
ByPhase(c, goal) ==
    [conf |-> c, goal |-> goal,
     truths |-> {p \in Phases : c.Refresh[Found(p)].state # "UNEXPECTED"} \cup {"OTHER", "gone"}]
Special(c, goal, truths) == [conf |-> c, goal |-> goal, truths |-> truths]
UntilGone(c) == [conf |-> c, goal |-> {"gone"}, truths |-> {"READY", "gone"}]
UntilSynced(c) == [conf |-> c, goal |-> {"PARTLY_SYNCED", "SYNCED"},
                   truths |-> {"UNSYNCED", "PARTLY_SYNCED", "SYNCED"}]
UntilExists(c) == [conf |-> c, goal |-> {"EXISTS"}, truths |-> {"gone", "EXISTS"}]
UntilBound(c) == [conf |-> c, goal |-> {"EXISTS"}, truths |-> {"gone", "NO_STATUS", "EXISTS"}]

\* The phases in which an object can be used, or is left for its user to accept.
Usable == {"READY"}
UsableOrPassive == {"READY", "CREATED", "PENDING_ACCEPT"}
ConnectorStates == {"PROVISIONING", "RUNNING", "DEGRADED", "PAUSED", "FAILED", "gone"}
MirrorStates == {"ACTIVE", "PAUSED", "STOPPED", "PENDING_STOPPED", "FAILED", "gone"}

Table == [
    kafkaApiKey        |-> UntilSynced(waitForCreatedKafkaApiKeyToSync),
    cloudApiKey        |-> UntilSynced(waitForCreatedCloudApiKeyToSync),
    tableflowApiKey    |-> UntilSynced(waitForCreatedTableflowApiKeyToSync),
    globalApiKey       |-> UntilSynced(waitForCreatedGlobalApiKeyToSync),
    basicKafka         |-> ByPhase(waitForKafkaClusterToProvision("BASIC"), {"PROVISIONED"}),
    dedicatedKafka     |-> ByPhase(waitForKafkaClusterToProvision("DEDICATED"), {"PROVISIONED"}),
    ksql               |-> ByPhase(waitForKsqlClusterToProvision, {"PROVISIONED"}),
    pla                |-> ByPhase(waitForPrivateLinkAccessToProvision, Usable),
    connectorOffsets   |-> ByPhase(waitForConnectorOffsetsUpdateToComplete, {"APPLIED"}),
    platt              |-> ByPhase(waitForPrivateLinkAttachmentToProvision, {"READY", "WAITING_FOR_CONNECTIONS"}),
    plattc             |-> ByPhase(waitForPrivateLinkAttachmentConnectionToProvision, Usable),
    network            |-> ByPhase(waitForNetworkToProvision, Usable),
    statement          |-> ByPhase(waitForFlinkStatementToProvision(FALSE), {"RUNNING", "COMPLETED"}),
    carriedStatement   |-> ByPhase(waitForFlinkStatementToProvision(TRUE), {"PENDING", "RUNNING", "COMPLETED"}),
    dnsRecord          |-> ByPhase(waitForDnsRecordToProvision, UsableOrPassive),
    dnsForwarder       |-> ByPhase(waitForDnsForwarderToProvision, UsableOrPassive),
    accessPoint        |-> ByPhase(waitForAccessPointToProvision, UsableOrPassive),
    gateway            |-> ByPhase(waitForGatewayToProvision, UsableOrPassive),
    computePool        |-> ByPhase(waitForComputePoolToProvision, {"PROVISIONED"}),
    anySchemaRegistry  |-> Special(waitForAnySchemaRegistryClusterToProvision,
                                   {"PROVISIONED", "GOVCLOUD"},
                                   {"NO_STATUS", "PROVISIONING", "PROVISIONED", "FAILED", "GOVCLOUD"}),
    connector          |-> Special(waitForConnectorToProvision,
                                   {"RUNNING"}, ConnectorStates),
    connectorPause     |-> Special(waitForConnectorToChangeStatus("RUNNING", "PAUSED"),
                                   {"PAUSED"}, ConnectorStates),
    connectorResume    |-> Special(waitForConnectorToChangeStatus("PAUSED", "RUNNING"),
                                   {"RUNNING"}, ConnectorStates),
    mirrorPause        |-> Special(waitForKafkaMirrorTopicToChangeStatus("ACTIVE", "PAUSED"),
                                   {"PAUSED"}, MirrorStates),
    mirrorResume       |-> Special(waitForKafkaMirrorTopicToChangeStatus("PAUSED", "ACTIVE"),
                                   {"ACTIVE"}, MirrorStates),
    mirrorStop         |-> Special(waitForKafkaMirrorTopicToChangeStatus("ACTIVE", "STOPPED"),
                                   {"STOPPED"}, MirrorStates),
    peering            |-> ByPhase(waitForPeeringToProvision, UsableOrPassive),
    tag                |-> UntilExists(waitForTagToProvision),
    businessMetadata   |-> UntilExists(waitForBusinessMetadataToProvision),
    tagBinding         |-> UntilBound(waitForTagBindingToProvision),
    businessMetadataBinding |-> UntilBound(waitForBusinessMetadataBindingToProvision),
    exporterCreate     |-> Special(waitForSchemaExporterToProvision(schemaExporterAPICreateTimeout),
                                   {"RUNNING", "PAUSED"}, {"gone", "STARTING", "RUNNING", "PAUSED", "OTHER"}),
    exporterUpdate     |-> Special(waitForSchemaExporterToProvision(DefaultOperationTimeout),
                                   {"RUNNING", "PAUSED"}, {"gone", "STARTING", "RUNNING", "PAUSED", "OTHER"}),
    tgwAttachment      |-> ByPhase(waitForTransitGatewayAttachmentToProvision, UsableOrPassive),
    cku                |-> Special(waitForKafkaClusterCkuUpdateToComplete, {"CKU_SETTLED"},
                                   {"CKU_EXPANDING", "CKU_STALE", "CKU_SETTLED", "gone"}),
    linkEndpoint       |-> ByPhase(waitForNetworkLinkEndpointToProvision, {"READY", "PENDING_ACCEPT", "INACTIVE"}),
    linkService        |-> ByPhase(waitForNetworkLinkServiceToProvision, Usable),
    rtceTopic          |-> ByPhase(waitForRtceTopicToProvision, {"ACTIVE"}),
    connectArtifact    |-> Special(waitForConnectArtifactToProvision, {"PROVISIONED", "READY", "NO_STATUS"},
                                   {"PROCESSING", "WAITING_FOR_PROCESSING", "PROVISIONING", "PROVISIONED",
                                    "READY", "NO_STATUS", "FAILED", "OTHER"}),
    statementStop      |-> ByPhase(waitForFlinkStatementToBeUpdated(TRUE), {"STOPPED"}),
    statementResume    |-> ByPhase(waitForFlinkStatementToBeUpdated(FALSE), {"RUNNING", "COMPLETED"}),
    tableProvision     |-> ByPhase(waitForFlinkMaterializedTableToProvision(FALSE), {"RUNNING"}),
    tableProvisionStopped |-> ByPhase(waitForFlinkMaterializedTableToProvision(TRUE), {"STOPPED"}),
    tableStop          |-> ByPhase(waitForFlinkMaterializedTableToBeUpdated(TRUE), {"STOPPED"}),
    tableResume        |-> ByPhase(waitForFlinkMaterializedTableToBeUpdated(FALSE), {"RUNNING"}),
    dnsRecordGone      |-> UntilGone(waitForDnsRecordToBeDeleted),
    accessPointGone    |-> UntilGone(waitForAccessPointToBeDeleted),
    plaGone            |-> UntilGone(waitForPrivateLinkAccessToBeDeleted),
    plattcGone         |-> UntilGone(waitForPrivateLinkAttachmentConnectionToBeDeleted),
    peeringGone        |-> UntilGone(waitForPeeringToBeDeleted),
    tgwAttachmentGone  |-> UntilGone(waitForTransitGatewayAttachmentToBeDeleted),
    topicGone          |-> UntilGone(waitForKafkaTopicToBeDeleted),
    mirrorTopicGone    |-> UntilGone(waitForKafkaMirrorTopicToBeDeleted),
    clusterLinkGone    |-> UntilGone(waitForClusterLinkToBeDeleted),
    statementGone      |-> UntilGone(waitForFlinkStatementToBeDeleted),
    tableGone          |-> UntilGone(waitForFlinkMaterializedTableToBeDeleted),
    kafkaGone          |-> UntilGone(waitForKafkaClusterToBeDeleted),
    computePoolGone    |-> UntilGone(waitForComputePoolToBeDeleted),
    linkEndpointGone   |-> UntilGone(waitForNetworkLinkEndpointToBeDeleted),
    linkServiceGone    |-> UntilGone(waitForNetworkLinkServiceToBeDeleted),
    rtceTopicGone      |-> UntilGone(waitForRtceTopicToBeDeleted) ]

MCConf == [w \in DOMAIN Table |-> Table[w].conf]
MCGoal == [w \in DOMAIN Table |-> Table[w].goal]
MCTruths == [w \in DOMAIN Table |-> Table[w].truths]

\* The waits for deletion that log a described error before they classify it.
DescribeFirst == {"dnsRecordGone", "plaGone", "peeringGone", "tgwAttachmentGone",
                  "statementGone", "tableGone", "kafkaGone"}

\* The waits whose Timeout is longer than the deadline of the handler's context.
CutShort == {"connectorOffsets", "platt", "plattc", "plattcGone", "dnsForwarder", "gateway",
             "connectorPause", "connectorResume", "exporterUpdate", "connectArtifact",
             "topicGone", "mirrorTopicGone", "clusterLinkGone", "kafkaGone"}

\* The waits that name only some of the states their refresh function reports.
Brittle == {"statementResume", "connectorPause", "connectorResume",
            "mirrorPause", "mirrorResume", "mirrorStop"}

\* The waits whose refresh function reads the status code of a response that may
\* be missing.
Unguarded == {"tag", "businessMetadata", "tagBinding", "businessMetadataBinding",
              "exporterCreate", "exporterUpdate"}

\* The wait for the deletion of a private link attachment connection asks for
\* something else than the connection.
WaitsForTheObject == DOMAIN Table \ {"plattcGone"}
PlattcDeletion == {"plattcGone"}

\* Safety: the premise of the theorems of StateChange_proofs, for the wait that
\* starts: whatever its refresh function is told, about any state of the object
\* and with any credentials, it reports a state of the Target list only about an
\* object in a goal state (the bodies of the refresh functions of utils_wait.go).
StartsWithASoundRefresh == sighted = "none" => SoundRefresh(wait)

\* Safety: a wait never stops at a state its own refresh function reports as
\* normal: the Pending and Target lists of the conf cover the allowed phases of
\* the refresh function.
KnownStatesNeverEndAWait == result = "unexpectedState" => wait \in Brittle

\* Safety: a call that gets no response, at any poll, ends a wait with an error and
\* not the plugin with a panic, apart from the waits of Unguarded.
LostAnswerNeverPanics == result = "panicked" => wait \in Unguarded

\* Safety: apart from the waits of CutShort, the deadline of the handler's context
\* leaves every wait the Timeout of its StateChangeConf.
DeadlineLeavesTheTimeout ==
    wait \notin CutShort /\ result = "ctxDone" => now >= Conf[wait].Timeout

\* Safety: the wait for a Kafka API key ends well only after two answers in a
\* row that found the key synced (ContinuousTargetOccurence: 2).
KafkaKeySeenTwice ==
    result = "ok" /\ wait = "kafkaApiKey" => answer.code = "200" /\ foundBefore
=============================================================================
