---------------------------- MODULE ApiContexts ----------------------------
(***************************************************************************)
(* How a call to Confluent Cloud is authenticated.  providerConfigure      *)
(* accepts or refuses a provider block (its set of attributes and its      *)
(* oauth block), the extract functions of a resource find the endpoint and *)
(* the key pair of a cluster, and one ApiContext method per API puts a     *)
(* token or a key pair on the call.                                        *)
(***************************************************************************)
EXTENDS FiniteSets

---------------------------------------------------------------------------
(* The contexts: the token that is preferred, and the key pair used         *)
(* without one.                                                             *)

Families == {"kafka", "schema_registry", "catalog", "flink", "tableflow"}

\* Cloud APIs: the STS token of the Client, else its Cloud API key.
CloudApiContext == [token |-> "sts", keys |-> "cloud"]
\* Cluster APIs: the external token of the REST client, else the cluster's key.
RestApiContext(family) == [token |-> "external", keys |-> family]
KeyOnlyContext(family) == [token |-> "none", keys |-> family]

apiKeysV2ApiContext == CloudApiContext
byokV1ApiContext == CloudApiContext
connectCustomPluginV1ApiContext == CloudApiContext
ccpmV1ApiContext == CloudApiContext
cmkV2ApiContext == CloudApiContext
iamV2ApiContext == CloudApiContext
iamIpFilteringV2ApiContext == CloudApiContext
certificateAuthorityV2ApiContext == CloudApiContext
ssoV2ApiContext == CloudApiContext
providerIntegrationV1ApiContext == CloudApiContext
providerIntegrationV2ApiContext == CloudApiContext
iamV1ApiContext == CloudApiContext
mdsV2ApiContext == CloudApiContext
networkingV1ApiContext == CloudApiContext
flinkArtifactV1ApiContext == CloudApiContext
flinkV2ApiContext == CloudApiContext
networkingAccessPointV1ApiContext == CloudApiContext
networkingGatewayV1ApiContext == CloudApiContext
networkingIpV1ApiContext == CloudApiContext
networkingPrivatelinkV1ApiContext == CloudApiContext
networkingDnsforwarderV1ApiContext == CloudApiContext
endpointV1ApiContext == CloudApiContext
srcmV3ApiContext == CloudApiContext
connectV1ApiContext == CloudApiContext
orgV2ApiContext == CloudApiContext
ksqlV2ApiContext == CloudApiContext
identityProviderV2ApiContext == CloudApiContext
kafkaQuotasV1ApiContext == CloudApiContext
rtceV1ApiContext == CloudApiContext
\* No token, whatever the provider block says.
camV1ApiContext == KeyOnlyContext("cloud")

CloudContexts ==
    {apiKeysV2ApiContext, byokV1ApiContext, connectCustomPluginV1ApiContext, ccpmV1ApiContext,
     cmkV2ApiContext, iamV2ApiContext, iamIpFilteringV2ApiContext,
     certificateAuthorityV2ApiContext, ssoV2ApiContext, providerIntegrationV1ApiContext,
     providerIntegrationV2ApiContext, iamV1ApiContext, mdsV2ApiContext, networkingV1ApiContext,
     flinkArtifactV1ApiContext, flinkV2ApiContext, networkingAccessPointV1ApiContext,
     networkingGatewayV1ApiContext, networkingIpV1ApiContext, networkingPrivatelinkV1ApiContext,
     networkingDnsforwarderV1ApiContext, endpointV1ApiContext, srcmV3ApiContext,
     connectV1ApiContext, orgV2ApiContext, ksqlV2ApiContext, identityProviderV2ApiContext,
     kafkaQuotasV1ApiContext, rtceV1ApiContext, camV1ApiContext}

kafkaApiContext == RestApiContext("kafka")
schemaRegistryApiContext == RestApiContext("schema_registry")
\* A Schema Registry client that calls the catalog at its own endpoint.
schemaRegistryDataCatalogV1ApiContext == RestApiContext("schema_registry")
catalogDataCatalogV1ApiContext == RestApiContext("catalog")
flinkApiContext == RestApiContext("flink")
\* The tokens the factory gives a Tableflow client are not used.
tableflowApiContext == KeyOnlyContext("tableflow")

RestContexts ==
    {kafkaApiContext, schemaRegistryApiContext, schemaRegistryDataCatalogV1ApiContext,
     catalogDataCatalogV1ApiContext, flinkApiContext, tableflowApiContext}

---------------------------------------------------------------------------
(* The provider block: the attributes that are set, and the oauth block:    *)
(* "none", "idp" (a token URL) or "static" (a token).                       *)

CloudAttributes == {"cloud_api_key", "cloud_api_secret"}
KafkaAttributes == {"kafka_api_key", "kafka_api_secret", "kafka_rest_endpoint"}
SchemaRegistryAttributes ==
    {"schema_registry_api_key", "schema_registry_api_secret", "schema_registry_id"}
SchemaRegistryEndpoints == {"schema_registry_rest_endpoint", "catalog_rest_endpoint"}
FlinkOAuthAttributes ==
    {"flink_rest_endpoint", "organization_id", "environment_id", "flink_compute_pool_id",
     "flink_principal_id"}
FlinkAttributes == {"flink_api_key", "flink_api_secret"} \cup FlinkOAuthAttributes
TableflowAttributes == {"tableflow_api_key", "tableflow_api_secret"}
ApiKeyAttributes ==
    CloudAttributes \cup TableflowAttributes \cup
    {"kafka_api_key", "kafka_api_secret", "schema_registry_api_key",
     "schema_registry_api_secret", "flink_api_key", "flink_api_secret"}

ProviderAttributes ==
    {"kafka_id"} \cup CloudAttributes \cup KafkaAttributes \cup SchemaRegistryAttributes
    \cup SchemaRegistryEndpoints \cup FlinkAttributes \cup TableflowAttributes

All(wanted, attrs) == wanted \subseteq attrs
AllOrNone(wanted, attrs) == All(wanted, attrs) \/ wanted \cap attrs = {}
\* One endpoint is enough.
WithEndpoint(attrs) ==
    attrs \cup IF SchemaRegistryEndpoints \cap attrs = {} THEN {} ELSE {"endpoint"}

validateOAuthAndProviderAPIKeysCoexist(attrs) == ApiKeyAttributes \cap attrs = {}

validateAllOrNoneAttributesSetForResources(attrs) ==
    /\ AllOrNone(KafkaAttributes, attrs)
    /\ AllOrNone(SchemaRegistryAttributes \cup {"endpoint"}, WithEndpoint(attrs))
    /\ AllOrNone(FlinkAttributes, attrs)
    /\ AllOrNone(TableflowAttributes, attrs)

validateAllOrNoneAttributesSetForResourcesWithOAuth(attrs) ==
    /\ AllOrNone({"kafka_id", "kafka_rest_endpoint"}, attrs)
    /\ AllOrNone({"schema_registry_id", "endpoint"}, WithEndpoint(attrs))
    /\ AllOrNone(FlinkOAuthAttributes, attrs)

\* The checks of providerConfigure.
Accepted(cfg) ==
    IF cfg.oauth = "none"
    THEN validateAllOrNoneAttributesSetForResources(cfg.attrs)
    ELSE /\ validateOAuthAndProviderAPIKeysCoexist(cfg.attrs)
         /\ validateAllOrNoneAttributesSetForResourcesWithOAuth(cfg.attrs)

\* The flags of the Client that an accepted block leads to.
isOAuthEnabled(cfg) == cfg.oauth # "none"
isKafkaMetadataSet(cfg) ==
    All(IF isOAuthEnabled(cfg) THEN {"kafka_id", "kafka_rest_endpoint"} ELSE KafkaAttributes,
        cfg.attrs)
isSchemaRegistryMetadataSet(cfg) ==
    All(IF isOAuthEnabled(cfg) THEN {"schema_registry_id", "endpoint"}
        ELSE SchemaRegistryAttributes \cup {"endpoint"}, WithEndpoint(cfg.attrs))
isFlinkMetadataSet(cfg) ==
    All(IF isOAuthEnabled(cfg) THEN FlinkOAuthAttributes ELSE FlinkAttributes, cfg.attrs)
isTableflowMetadataSet(cfg) == ~isOAuthEnabled(cfg) /\ All(TableflowAttributes, cfg.attrs)

---------------------------------------------------------------------------
(* A resource names its endpoint and its key pair itself, or finds them in  *)
(* the provider block; an import reads environment variables.               *)

\* own: what the resource or, for an import, the environment sets; stored: a
\* credentials block is in the state already.
Resources ==
    {r \in [own : SUBSET {"endpoint", "ids", "keys"}, stored : BOOLEAN,
            as : {"resource", "import", "data source"}] :
        r.stored => r.as = "resource" /\ "keys" \in r.own}

\* A value that is found may still be the empty string.
Lookup(found, value, r, what) ==
    IF found THEN value ELSE IF what \in r.own THEN "set" ELSE "error"
Attribute(cfg, name) == IF name \in cfg.attrs THEN "set" ELSE "empty"

\* Mutated: the flag of the cluster id decides.
EndpointWhenIdIsSet(cfg, r) ==
    Lookup("kafka_id" \in cfg.attrs, Attribute(cfg, "kafka_rest_endpoint"), r, "endpoint")
extractRestEndpoint(cfg, r) ==
    Lookup(isKafkaMetadataSet(cfg), Attribute(cfg, "kafka_rest_endpoint"), r, "endpoint")
extractSchemaRegistryRestEndpoint(cfg, r) ==
    Lookup(isSchemaRegistryMetadataSet(cfg), Attribute(cfg, "schema_registry_rest_endpoint"),
           r, "endpoint")
extractCatalogRestEndpoint(cfg, r) ==
    Lookup(isSchemaRegistryMetadataSet(cfg) /\ SchemaRegistryEndpoints \cap cfg.attrs # {},
           "set", r, "endpoint")
extractFlinkRestEndpoint(cfg, r) ==
    Lookup(isFlinkMetadataSet(cfg), Attribute(cfg, "flink_rest_endpoint"), r, "endpoint")

extractKafkaClusterId(cfg, r) == Lookup("kafka_id" \in cfg.attrs, "set", r, "ids")
extractSchemaRegistryClusterId(cfg, r) ==
    Lookup(isSchemaRegistryMetadataSet(cfg), Attribute(cfg, "schema_registry_id"), r, "ids")
extractFlinkOrganizationId(cfg, r) ==
    Lookup(isFlinkMetadataSet(cfg), Attribute(cfg, "organization_id"), r, "ids")
extractFlinkEnvironmentId(cfg, r) ==
    Lookup(isFlinkMetadataSet(cfg), Attribute(cfg, "environment_id"), r, "ids")
extractFlinkPrincipalId(cfg, r) ==
    Lookup(isFlinkMetadataSet(cfg), Attribute(cfg, "flink_principal_id"), r, "ids")
\* Only an import insists on a compute pool.
extractFlinkComputePoolId(cfg, r) ==
    IF isFlinkMetadataSet(cfg) THEN Attribute(cfg, "flink_compute_pool_id")
    ELSE IF "ids" \in r.own THEN "set" ELSE IF r.as = "import" THEN "error" ELSE "empty"

\* With OAuth there is no key pair, and that is no error.
extractClusterApiKeyAndApiSecret(cfg, r) ==
    IF isOAuthEnabled(cfg) THEN "empty"
    ELSE Lookup(isKafkaMetadataSet(cfg), Attribute(cfg, "kafka_api_key"), r, "keys")
extractSchemaRegistryClusterApiKeyAndApiSecret(cfg, r) ==
    IF isOAuthEnabled(cfg) THEN "empty"
    ELSE Lookup(isSchemaRegistryMetadataSet(cfg), Attribute(cfg, "schema_registry_api_key"),
                r, "keys")
\* Mutated: no error at the end.
MissingKeysAreNoError(cfg, r) ==
    IF ~isOAuthEnabled(cfg) /\ isFlinkMetadataSet(cfg) THEN Attribute(cfg, "flink_api_key")
    ELSE IF ~isOAuthEnabled(cfg) /\ "keys" \in r.own THEN "set" ELSE "empty"
extractFlinkApiKeyAndApiSecret(cfg, r) ==
    IF isOAuthEnabled(cfg) THEN "empty"
    ELSE Lookup(isFlinkMetadataSet(cfg), Attribute(cfg, "flink_api_key"), r, "keys")
extractTableflowApiKeyAndApiSecret(cfg, r) ==
    Lookup(isTableflowMetadataSet(cfg), Attribute(cfg, "tableflow_api_key"), r, "keys")

Endpoint(family, cfg, r) ==
    CASE family = "kafka" -> extractRestEndpoint(cfg, r)
      [] family = "schema_registry" -> extractSchemaRegistryRestEndpoint(cfg, r)
      [] family = "catalog" -> extractCatalogRestEndpoint(cfg, r)
      [] family = "flink" -> extractFlinkRestEndpoint(cfg, r)
      [] family = "tableflow" -> "set"
Ids(family, cfg, r) ==
    CASE family = "kafka" -> {extractKafkaClusterId(cfg, r)}
      [] family \in {"schema_registry", "catalog"} -> {extractSchemaRegistryClusterId(cfg, r)}
      [] family = "flink" -> {extractFlinkOrganizationId(cfg, r), extractFlinkEnvironmentId(cfg, r),
                              extractFlinkPrincipalId(cfg, r), extractFlinkComputePoolId(cfg, r)}
      [] family = "tableflow" -> {}
Keys(family, cfg, r) ==
    CASE family = "kafka" -> extractClusterApiKeyAndApiSecret(cfg, r)
      [] family \in {"schema_registry", "catalog"} ->
             extractSchemaRegistryClusterApiKeyAndApiSecret(cfg, r)
      [] family = "flink" -> extractFlinkApiKeyAndApiSecret(cfg, r)
      [] family = "tableflow" -> extractTableflowApiKeyAndApiSecret(cfg, r)
\* Mutated: the handler drops the error of the endpoint.
EndpointErrorDropped(family, cfg, r) ==
    "error" \notin {Keys(family, cfg, r)} \cup Ids(family, cfg, r)
\* The handler goes on to its call.
Extracted(family, cfg, r) ==
    "error" \notin {Endpoint(family, cfg, r), Keys(family, cfg, r)} \cup Ids(family, cfg, r)

\* The key pair of the Client: nothing requires the two together.
CloudKeys(cfg) == IF All(CloudAttributes, cfg.attrs) THEN "set" ELSE "empty"

\* With OAuth a plan may not add a credentials block to a resource; one that is in
\* the state already, and unchanged, stays.
resourceCredentialBlockValidationWithOAuth(cfg, r) ==
    r.as = "resource" /\ isOAuthEnabled(cfg) /\ "keys" \in r.own => r.stored
dataSourceCredentialBlockValidationWithOAuth(cfg, r) ==
    r.as = "data source" /\ isOAuthEnabled(cfg) => "keys" \notin r.own

\* The calls that the handlers of cluster resources make under a provider block.
RestCall(context, cfg, r) ==
    [by |-> context.token, family |-> context.keys,
     endpoint |-> Endpoint(context.keys, cfg, r), keys |-> Keys(context.keys, cfg, r)]
RestCalls(cfg) ==
    UNION {{RestCall(context, cfg, r) : r \in {r \in Resources :
                /\ resourceCredentialBlockValidationWithOAuth(cfg, r)
                /\ dataSourceCredentialBlockValidationWithOAuth(cfg, r)
                /\ Extracted(context.keys, cfg, r)}} : context \in RestContexts}
=============================================================================
