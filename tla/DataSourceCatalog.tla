-------------------------- MODULE DataSourceCatalog --------------------------
(***************************************************************************)
(* How every data source finds what it reads.  A data source is the set of *)
(* its lookups (by id, by name, ...), a lookup a record:                   *)
(*   how       "get", one request for one object; "scan", page by page;    *)
(*             "everywhere", page by page in every environment; "once",    *)
(*             one request for a list                                      *)
(*   match     what is picked: "id", "name", "words" (any word of the      *)
(*             name), "any" or "all"                                       *)
(*   next      the last page's next: "nullable", tested before it is read, *)
(*             or "pointer", read first                                    *)
(*   distinct  more than one match is an error                             *)
(*   missing   no match: "notFound", an error, or "nothing", no error and  *)
(*             no attributes                                               *)
(*   again     "no", or the picked object is fetched again by "id" or by   *)
(*             "name"                                                      *)
(*   refused   what a refused request (403) counts as: "error", or the     *)
(*             "nothing" of an object that is gone                         *)
(***************************************************************************)

Get == [how |-> "get", match |-> "id", next |-> "nullable", distinct |-> FALSE,
        missing |-> "notFound", again |-> "no", refused |-> "error"]
\* Every page is loaded before the name is looked for.
Scan == [Get EXCEPT !.how = "scan", !.match = "name", !.distinct = TRUE]
List == [Scan EXCEPT !.match = "all", !.distinct = FALSE]
ListOnce == [List EXCEPT !.how = "once"]
Once == [Scan EXCEPT !.how = "once"]

---------------------------------------------------------------------------
(* By id or by name.                                                       *)

certificatePoolDataSourceRead == {Get, Scan}
computePoolDataSourceRead == {Get, Scan}
environmentDataSourceRead == {Get, Scan}
groupMappingDataSourceRead == {Get, Scan}
identityPoolDataSourceRead == {Get, Scan}
identityProviderDataSourceRead == {Get, Scan}
kafkaDataSourceRead == {Get, Scan}
ksqlDataSourceRead == {Get, Scan}
networkDataSourceRead == {Get, Scan}
networkLinkServiceDataSourceRead == {Get, Scan}
peeringDataSourceRead == {Get, Scan}
privateLinkAccessDataSourceRead == {Get, Scan}
transitGatewayAttachmentDataSourceRead == {Get, Scan}
userDataSourceRead == {Get, Scan}

\* The one cluster of the environment, when neither id nor name is given.
schemaRegistryClusterDataSourceRead ==
    {Get, Scan, [Scan EXCEPT !.match = "any", !.again = "id"]}
flinkArtifactDataSourceRead == {Get, [Scan EXCEPT !.missing = "nothing"]}
providerIntegrationDataSourceRead == {Get, [Scan EXCEPT !.missing = "nothing"]}
connectionDataSourceRead == {[Scan EXCEPT !.missing = "nothing", !.next = "pointer"]}
\* Mutated: fetched again as what it is by now.
materializedTableReadById ==
    {[Scan EXCEPT !.distinct = FALSE, !.next = "pointer", !.again = "id"]}
materializedTableDataSourceRead ==
    {[Scan EXCEPT !.distinct = FALSE, !.next = "pointer", !.again = "name"]}

\* The service filters by every word of the name.
serviceAccountDataSourceRead == {Get, [Once EXCEPT !.match = "words"]}
\* Mutated: the first region, if there is one or not.
flinkRegionReadUnchecked == {[Once EXCEPT !.missing = "panic"]}
flinkRegionDataSourceRead == {Once}
providerIntegrationSetupDataSourceRead == {Get, [Once EXCEPT !.distinct = FALSE]}
organizationDataSourceRead == {[Once EXCEPT !.distinct = FALSE, !.match = "any"]}
tagBindingDataSourceRead == {[Once EXCEPT !.distinct = FALSE]}
businessMetadataBindingDataSourceRead == {[Once EXCEPT !.distinct = FALSE]}

---------------------------------------------------------------------------
(* Lists.                                                                  *)

environmentsDataSourceRead == {List}
usersDataSourceRead == {List}
kafkaClustersDataSourceRead == {List}
gatewaysDataSourceRead == {List}
ipAddressesDataSourceRead == {List}
endpointDataSourceRead == {List}
\* In the environment that is given, or in every one.
schemaRegistryClustersDataSourceRead == {List, [List EXCEPT !.how = "everywhere"]}
schemasDataSourceRead == {ListOnce}

---------------------------------------------------------------------------
(* By id alone.                                                            *)

accessPointDataSourceRead == {Get}
businessMetadataDataSourceRead == {Get}
byokKeyDataSourceRead == {Get}
catalogIntegrationDataSourceRead == {Get}
certificateAuthorityDataSourceRead == {Get}
clusterLinkDataSourceRead == {Get}
dnsRecordDataSourceRead == {Get}
flinkComputePoolConfigDataSourceRead == {Get}
gatewayDataSourceRead == {Get}
invitationDataSourceRead == {Get}
ipFilterDataSourceRead == {Get}
ipGroupDataSourceRead == {Get}
kafkaClientQuotaDataSourceRead == {Get}
networkLinkEndpointDataSourceRead == {Get}
privateLinkAttachmentDataSourceRead == {Get}
privateLinkAttachmentConnectionDataSourceRead == {Get}
providerIntegrationAuthorizationDataSourceRead == {Get}
roleBindingDataSourceRead == {Get}
rtceTopicDataSourceRead == {Get}
schemaRegistryDekDataSourceRead == {Get}
schemaRegistryKekDataSourceRead == {Get}
tableflowTopicDataSourceRead == {Get}
tagDataSourceRead == {Get}

\* They read as the resource does, marked as new, so that a missing one is an error.
kafkaTopicDataSourceRead == {Get}
schemaDataSourceRead == {Get}
schemaRegistryClusterConfigDataSourceRead == {Get}
schemaRegistryClusterModeDataSourceRead == {Get}
subjectConfigDataSourceRead == {Get}
subjectModeDataSourceRead == {Get}
\* This one is not marked.
connectArtifactDataSourceRead ==
    {[Get EXCEPT !.missing = "nothing", !.refused = "nothing"]}

Lookups == UNION {
    certificatePoolDataSourceRead, computePoolDataSourceRead, environmentDataSourceRead,
    groupMappingDataSourceRead, identityPoolDataSourceRead, identityProviderDataSourceRead,
    kafkaDataSourceRead, ksqlDataSourceRead, networkDataSourceRead,
    networkLinkServiceDataSourceRead, peeringDataSourceRead, privateLinkAccessDataSourceRead,
    transitGatewayAttachmentDataSourceRead, userDataSourceRead,
    schemaRegistryClusterDataSourceRead, flinkArtifactDataSourceRead,
    providerIntegrationDataSourceRead, connectionDataSourceRead,
    materializedTableDataSourceRead, serviceAccountDataSourceRead, flinkRegionDataSourceRead,
    providerIntegrationSetupDataSourceRead, organizationDataSourceRead,
    tagBindingDataSourceRead, businessMetadataBindingDataSourceRead,
    environmentsDataSourceRead, usersDataSourceRead, kafkaClustersDataSourceRead,
    gatewaysDataSourceRead, ipAddressesDataSourceRead, endpointDataSourceRead,
    schemaRegistryClustersDataSourceRead, schemasDataSourceRead, accessPointDataSourceRead,
    businessMetadataDataSourceRead, byokKeyDataSourceRead, catalogIntegrationDataSourceRead,
    certificateAuthorityDataSourceRead, clusterLinkDataSourceRead, dnsRecordDataSourceRead,
    flinkComputePoolConfigDataSourceRead, gatewayDataSourceRead, invitationDataSourceRead,
    ipFilterDataSourceRead, ipGroupDataSourceRead, kafkaClientQuotaDataSourceRead,
    networkLinkEndpointDataSourceRead, privateLinkAttachmentDataSourceRead,
    privateLinkAttachmentConnectionDataSourceRead,
    providerIntegrationAuthorizationDataSourceRead, roleBindingDataSourceRead,
    rtceTopicDataSourceRead, schemaRegistryDekDataSourceRead, schemaRegistryKekDataSourceRead,
    tableflowTopicDataSourceRead, tagDataSourceRead, kafkaTopicDataSourceRead,
    schemaDataSourceRead, schemaRegistryClusterConfigDataSourceRead,
    schemaRegistryClusterModeDataSourceRead, subjectConfigDataSourceRead,
    subjectModeDataSourceRead, connectArtifactDataSourceRead}
=============================================================================
