---------------------- MODULE StreamProcessingCatalog -----------------------
(***************************************************************************)
(* The handlers of the resources of Flink, Tableflow and the real-time     *)
(* context engine, each as the sequence of its steps (see ResourceCatalog).*)
(***************************************************************************)
EXTENDS HandlerSteps

computePoolRead == ClassifiesFirst
computePoolCreate == <<PostProvisions, SetId, WaitReady>> \o computePoolRead
computePoolUpdate == <<Patch(First)>> \o computePoolRead
computePoolDelete == <<Delete, WaitGone("ClassifyThenDescribe")>>
computePoolImport == <<MarkNewResource>> \o computePoolRead
computePoolResource == Resource(computePoolCreate, computePoolRead, computePoolUpdate,
    computePoolDelete, computePoolImport, First, "minted")

flinkComputePoolConfigRead == ClassifiesFirst
flinkComputePoolConfigCreate == <<Post, SetId>> \o flinkComputePoolConfigRead
flinkComputePoolConfigUpdate == <<Patch(First)>> \o flinkComputePoolConfigRead
flinkComputePoolConfigDelete == << >>
flinkComputePoolConfigImport == <<MarkNewResource>> \o flinkComputePoolConfigRead
flinkComputePoolConfigResource == Resource(flinkComputePoolConfigCreate,
    flinkComputePoolConfigRead, flinkComputePoolConfigUpdate, flinkComputePoolConfigDelete,
    flinkComputePoolConfigImport, First, "upsert")

artifactRead == DescribesFirst
artifactCreate == <<Post, SetId>> \o artifactRead
artifactDelete == <<Delete>>
artifactImport == <<MarkNewResource>> \o artifactRead
artifactResource == Resource(artifactCreate, artifactRead, << >>, artifactDelete,
    artifactImport, {}, "minted")

connectionRead == KeepsSecret("DescribeThenClassify")
connectionCreate == <<Post, SetId>> \o connectionRead
connectionUpdate == <<Patch(Both)>> \o connectionRead
connectionDelete == <<Delete>>
connectionImport == <<MarkNewResource>> \o connectionRead
flinkConnectionResource == Resource(connectionCreate, connectionRead, connectionUpdate,
    connectionDelete, connectionImport, Both, "named")

flinkStatementRead == DescribesFirst
flinkStatementCreate == <<PostProvisions, SetId, WaitReady>> \o flinkStatementRead
flinkStatementUpdate == <<Fetch, Patch(First), WaitReady>> \o flinkStatementRead
flinkStatementDelete == <<Delete, WaitGone("DescribeThenClassify")>>
flinkStatementImport == <<MarkNewResource>> \o flinkStatementRead
flinkStatementResource == Resource(flinkStatementCreate, flinkStatementRead,
    flinkStatementUpdate, flinkStatementDelete, flinkStatementImport, First, "named")

materializedTableRead == DescribesFirst
materializedTableCreate == <<PostProvisions, SetId, WaitReady>> \o materializedTableRead
materializedTableUpdate == <<Fetch, Patch(First), WaitReady>> \o materializedTableRead
materializedTableDelete == <<DeleteRetries, WaitGone("DescribeThenClassify")>>
materializedTableImport == <<MarkNewResource>> \o materializedTableRead
flinkMaterializedTableResource == Resource(materializedTableCreate, materializedTableRead,
    materializedTableUpdate, materializedTableDelete, materializedTableImport, First, "named")

tableflowTopicRead == DescribesFirst
tableflowTopicCreate == <<Post, SetId>> \o tableflowTopicRead
tableflowTopicUpdate == <<Patch(First)>> \o tableflowTopicRead
tableflowTopicDelete == <<Delete>>
tableflowTopicImport == <<MarkNewResource>> \o tableflowTopicRead
tableflowTopicResource == Resource(tableflowTopicCreate, tableflowTopicRead,
    tableflowTopicUpdate, tableflowTopicDelete, tableflowTopicImport, First, "named")

catalogIntegrationRead == KeepsSecret("ClassifyThenDescribe")
catalogIntegrationCreate == <<Post, SetId>> \o catalogIntegrationRead
catalogIntegrationUpdate == <<Patch(Both)>> \o catalogIntegrationRead
catalogIntegrationDelete == <<Delete>>
catalogIntegrationImport == <<MarkNewResource>> \o catalogIntegrationRead
catalogIntegrationResource == Resource(catalogIntegrationCreate, catalogIntegrationRead,
    catalogIntegrationUpdate, catalogIntegrationDelete, catalogIntegrationImport, Both,
    "minted")

rtceTopicRead == DescribesFirst
rtceTopicCreate == <<PostProvisions, SetId, WaitReady>> \o rtceTopicRead
rtceTopicUpdate == <<Patch(First)>> \o rtceTopicRead
rtceTopicDelete == <<Delete, WaitGone("ClassifyThenDescribe")>>
rtceTopicImport == <<MarkNewResource>> \o rtceTopicRead
rtceTopic == Resource(rtceTopicCreate, rtceTopicRead, rtceTopicUpdate, rtceTopicDelete,
    rtceTopicImport, First, "named")
=============================================================================
