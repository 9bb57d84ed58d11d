--------------------------- MODULE ResourceCatalog ---------------------------
(***************************************************************************)
(* The CRUD and import handlers of every resource of the provider that     *)
(* manages an object of Confluent Cloud (internal/provider/resource_*.go), *)
(* each as the sequence of its steps, under the name of its Go function.   *)
(* A handler that ends by calling another one is its own steps followed by *)
(* those of the other.                                                     *)
(***************************************************************************)
EXTENDS AccessCatalog, NetworkingCatalog, KafkaCatalog, StreamProcessingCatalog,
        GovernanceCatalog

\* The resources of the provider by name.  A deletion that depends on an argument
\* of the resource counts as two kinds.
KindNames ==
    {"environment", "service_account", "identity_provider", "identity_pool",
     "group_mapping", "certificate_authority", "certificate_pool", "ip_group",
     "ip_filter", "role_binding", "invitation", "invitation_accepted", "api_key",
     "byok_key", "provider_integration", "provider_integration_setup",
     "provider_integration_authorization", "network", "peering", "private_link_access",
     "private_link_attachment", "private_link_attachment_connection",
     "transit_gateway_attachment", "dns_forwarder", "dns_record", "access_point",
     "gateway", "network_link_endpoint", "network_link_service", "kafka_cluster",
     "kafka_cluster_config", "kafka_topic", "kafka_acl", "kafka_client_quota",
     "kafka_mirror_topic", "cluster_link", "ksql_cluster", "connector",
     "custom_connector_plugin", "custom_connector_plugin_version", "plugin",
     "connect_artifact", "flink_compute_pool", "flink_compute_pool_config",
     "flink_artifact", "flink_connection", "flink_statement",
     "flink_materialized_table", "tableflow_topic", "catalog_integration", "rtce_topic",
     "schema", "schema_hard", "schema_exporter", "schema_registry_cluster_config",
     "schema_registry_cluster_mode", "subject_config", "subject_mode",
     "schema_registry_kek", "schema_registry_kek_hard", "schema_registry_dek",
     "schema_registry_dek_hard", "tag", "tag_binding", "business_metadata",
     "business_metadata_binding", "catalog_entity_attributes"}

Catalog == [k \in KindNames |->
    CASE k = "environment"                           -> environmentResource
      [] k = "service_account"                       -> serviceAccountResource
      [] k = "identity_provider"                     -> identityProviderResource
      [] k = "identity_pool"                         -> identityPoolResource
      [] k = "group_mapping"                         -> groupMappingResource
      [] k = "certificate_authority"                 -> certificateAuthorityResource
      [] k = "certificate_pool"                      -> certificatePoolResource
      [] k = "ip_group"                              -> ipGroupResource
      [] k = "ip_filter"                             -> ipFilterResource
      [] k = "role_binding"                          -> roleBindingResource
      [] k = "invitation"                            -> invitationResource(FALSE)
      [] k = "invitation_accepted"                   -> invitationResource(TRUE)
      [] k = "api_key"                               -> apiKeyResource
      [] k = "byok_key"                              -> byokKeyResource
      [] k = "provider_integration"                  -> providerIntegrationResource
      [] k = "provider_integration_setup"            -> providerIntegrationSetupResource
      [] k = "provider_integration_authorization"    -> providerIntegrationAuthorizationResource
      [] k = "network"                               -> networkResource
      [] k = "peering"                               -> peeringResource
      [] k = "private_link_access"                   -> privateLinkAccessResource
      [] k = "private_link_attachment"               -> privateLinkAttachmentResource
      [] k = "private_link_attachment_connection"    -> privateLinkAttachmentConnectionResource
      [] k = "transit_gateway_attachment"            -> transitGatewayAttachmentResource
      [] k = "dns_forwarder"                         -> dnsForwarderResource
      [] k = "dns_record"                            -> dnsRecordResource
      [] k = "access_point"                          -> accessPointResource
      [] k = "gateway"                               -> gatewayResource
      [] k = "network_link_endpoint"                 -> networkLinkEndpointResource
      [] k = "network_link_service"                  -> networkLinkServiceResource
      [] k = "kafka_cluster"                         -> kafkaResource
      [] k = "kafka_cluster_config"                  -> kafkaConfigResource
      [] k = "kafka_topic"                           -> kafkaTopicResource
      [] k = "kafka_acl"                             -> kafkaAclResource
      [] k = "kafka_client_quota"                    -> kafkaClientQuotaResource
      [] k = "kafka_mirror_topic"                    -> kafkaMirrorTopicResource
      [] k = "cluster_link"                          -> clusterLinkResource
      [] k = "ksql_cluster"                          -> ksqlResource
      [] k = "connector"                             -> connectorResource
      [] k = "custom_connector_plugin"               -> customConnectorPluginResource
      [] k = "custom_connector_plugin_version"       -> customConnectorPluginVersionResource
      [] k = "plugin"                                -> pluginResource
      [] k = "connect_artifact"                      -> connectArtifactResource
      [] k = "flink_compute_pool"                    -> computePoolResource
      [] k = "flink_compute_pool_config"             -> flinkComputePoolConfigResource
      [] k = "flink_artifact"                        -> artifactResource
      [] k = "flink_connection"                      -> flinkConnectionResource
      [] k = "flink_statement"                       -> flinkStatementResource
      [] k = "flink_materialized_table"              -> flinkMaterializedTableResource
      [] k = "tableflow_topic"                       -> tableflowTopicResource
      [] k = "catalog_integration"                   -> catalogIntegrationResource
      [] k = "rtce_topic"                            -> rtceTopic
      [] k = "schema"                                -> schemaResource(FALSE)
      [] k = "schema_hard"                           -> schemaResource(TRUE)
      [] k = "schema_exporter"                       -> schemaExporterResource
      [] k = "schema_registry_cluster_config"        -> schemaRegistryClusterConfigResource
      [] k = "schema_registry_cluster_mode"          -> schemaRegistryClusterModeResource
      [] k = "subject_config"                        -> subjectConfigResource
      [] k = "subject_mode"                          -> subjectModeResource
      [] k = "schema_registry_kek"                   -> schemaRegistryKekResource(FALSE)
      [] k = "schema_registry_kek_hard"              -> schemaRegistryKekResource(TRUE)
      [] k = "schema_registry_dek"                   -> schemaRegistryDekResource(FALSE)
      [] k = "schema_registry_dek_hard"              -> schemaRegistryDekResource(TRUE)
      [] k = "tag"                                   -> tagResource
      [] k = "tag_binding"                           -> tagBindingResource
      [] k = "business_metadata"                     -> businessMetadataResource
      [] k = "business_metadata_binding"             -> businessMetadataBindingResource
      [] k = "catalog_entity_attributes"             -> catalogEntityAttributesResource]
=============================================================================
