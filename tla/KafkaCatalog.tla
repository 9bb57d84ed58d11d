---------------------------- MODULE KafkaCatalog ----------------------------
(***************************************************************************)
(* The handlers of the Kafka, ksqlDB and Connect resources, each as the    *)
(* sequence of its steps (see ResourceCatalog).                            *)
(***************************************************************************)
EXTENDS HandlerSteps

\* The environment and its Schema Registry cluster are looked at after the wait.
kafkaRead == DescribesFirst
kafkaCreate == <<PostProvisions, SetId, WaitReady, Check>> \o kafkaRead
kafkaUpdate == <<Patch(First), Check, Patch(Second), WaitReady, Patch(Second)>> \o kafkaRead
kafkaDelete == <<Delete, WaitGone("DescribeThenClassify")>>
kafkaImport == <<MarkNewResource>> \o kafkaRead
kafkaResource == Resource(kafkaCreate, kafkaRead, kafkaUpdate, kafkaDelete, kafkaImport, Both,
    "minted")

kafkaConfigRead == ChecksStatus
kafkaConfigCreate == <<Post, SetId>> \o kafkaConfigRead
kafkaConfigUpdate == <<Patch(First)>> \o kafkaConfigRead
kafkaConfigDelete == << >>
kafkaConfigImport == <<MarkNewResource>> \o kafkaConfigRead
kafkaConfigResource == Resource(kafkaConfigCreate, kafkaConfigRead, kafkaConfigUpdate,
    kafkaConfigDelete, kafkaConfigImport, First, "upsert")

\* Mutated form: the topic's settings are not read back.
kafkaTopicReadPartly == <<Get("StatusIsNotFound", First)>>
\* The update ends without reading the topic back.
kafkaTopicRead == ChecksStatus
kafkaTopicCreate == <<Post, SetId>> \o kafkaTopicRead
\* Mutated form: changed settings of the topic are not sent.
kafkaTopicUpdatePartly == <<PatchOrRevert(First), Fetch>>
kafkaTopicUpdate == <<PatchOrRevert(First), Patch(Second), Fetch>>
kafkaTopicDelete == <<Delete, WaitGone("StatusIsNotFound")>>
kafkaTopicImport == <<MarkNewResource>> \o kafkaTopicRead
kafkaTopicResource == Resource(kafkaTopicCreate, kafkaTopicRead, kafkaTopicUpdate,
    kafkaTopicDelete, kafkaTopicImport, Both, "named")

kafkaAclRead == ChecksStatus
kafkaAclCreate == <<Post, SetId>> \o kafkaAclRead
kafkaAclUpdate == kafkaAclRead
kafkaAclDelete == <<Delete>>
kafkaAclImport == <<MarkNewResource>> \o kafkaAclRead
kafkaAclResource == Resource(kafkaAclCreate, kafkaAclRead, kafkaAclUpdate, kafkaAclDelete,
    kafkaAclImport, {}, "upsert")

kafkaClientQuotaRead == ClassifiesFirst
kafkaClientQuotaCreate == <<Post, SetId>> \o kafkaClientQuotaRead
kafkaClientQuotaUpdate == <<Patch(First)>> \o kafkaClientQuotaRead
kafkaClientQuotaDelete == <<Delete>>
kafkaClientQuotaImport == <<MarkNewResource>> \o kafkaClientQuotaRead
kafkaClientQuotaResource == Resource(kafkaClientQuotaCreate, kafkaClientQuotaRead,
    kafkaClientQuotaUpdate, kafkaClientQuotaDelete, kafkaClientQuotaImport, First, "minted")

kafkaMirrorTopicRead == ChecksStatus
kafkaMirrorTopicCreate == <<Post, SetId>> \o kafkaMirrorTopicRead
kafkaMirrorTopicUpdate == <<CheckOrRevert, Patch(First), WaitReady>> \o kafkaMirrorTopicRead
kafkaMirrorTopicDelete == <<Delete, WaitGone("StatusIsNotFound")>>
kafkaMirrorTopicImport == <<MarkNewResource>> \o kafkaMirrorTopicRead
kafkaMirrorTopicResource == Resource(kafkaMirrorTopicCreate, kafkaMirrorTopicRead,
    kafkaMirrorTopicUpdate, kafkaMirrorTopicDelete, kafkaMirrorTopicImport, First, "named")

clusterLinkRead == KeepsSecret("StatusIsNotFound")
clusterLinkCreate == <<Post, SetId>> \o clusterLinkRead
clusterLinkUpdate == <<Patch(Second), Patch(First)>> \o clusterLinkRead
clusterLinkDelete == <<Delete, WaitGone("StatusIsNotFound")>>
clusterLinkImport == <<MarkNewResource>> \o clusterLinkRead
clusterLinkResource == Resource(clusterLinkCreate, clusterLinkRead, clusterLinkUpdate,
    clusterLinkDelete, clusterLinkImport, Both, "named")

ksqlRead == DescribesFirst
ksqlCreate == <<PostProvisions, SetId, WaitReady>> \o ksqlRead
ksqlDelete == <<Delete>>
ksqlImport == <<MarkNewResource>> \o ksqlRead
ksqlResource == Resource(ksqlCreate, ksqlRead, << >>, ksqlDelete, ksqlImport, {}, "minted")

-----------------------------------------------------------------------------
(* Connect. *)

\* The answer to the POST has no id, so that a second request has to find it.
connectorRead == KeepsSecret("DescribeThenClassify")
connectorCreate == <<PostProvisions, Fetch, SetId, WaitReady>> \o connectorRead
\* A changed name is refused and put back, whatever else was planned stays.
connectorUpdate == <<Check, Patch(First), WaitReady, Patch(Second), WaitReady>> \o
    connectorRead
connectorDelete == <<Delete>>
connectorImport == <<MarkNewResource>> \o connectorRead
connectorResource == Resource(connectorCreate, connectorRead, connectorUpdate, connectorDelete,
    connectorImport, Both, "named")

customConnectorPluginRead == DescribesFirst
customConnectorPluginCreate == <<Post, SetId>> \o customConnectorPluginRead
customConnectorPluginUpdate == <<Patch(First)>> \o customConnectorPluginRead
customConnectorPluginDelete == <<Delete>>
customConnectorPluginImport == <<MarkNewResource>> \o customConnectorPluginRead
customConnectorPluginResource == Resource(customConnectorPluginCreate,
    customConnectorPluginRead, customConnectorPluginUpdate, customConnectorPluginDelete,
    customConnectorPluginImport, First, "minted")

customConnectorPluginVersionRead == DescribesFirst
customConnectorPluginVersionCreate == <<Post, SetId>> \o customConnectorPluginVersionRead
customConnectorPluginVersionDelete == <<Delete>>
customConnectorPluginVersionImport == <<MarkNewResource>> \o customConnectorPluginVersionRead
customConnectorPluginVersionResource == Resource(customConnectorPluginVersionCreate,
    customConnectorPluginVersionRead, << >>, customConnectorPluginVersionDelete,
    customConnectorPluginVersionImport, {}, "minted")

pluginRead == DescribesFirst
pluginCreate == <<Post, SetId>> \o pluginRead
pluginUpdate == <<Patch(First)>> \o pluginRead
pluginDelete == <<DeleteTolerant>>
pluginImport == <<MarkNewResource>> \o pluginRead
pluginResource == Resource(pluginCreate, pluginRead, pluginUpdate, pluginDelete, pluginImport,
    First, "minted")

connectArtifactRead == DescribesFirst
connectArtifactCreate == <<PostProvisions, SetId, WaitReady>> \o connectArtifactRead
connectArtifactDelete == <<Delete>>
connectArtifactImport == <<MarkNewResource>> \o connectArtifactRead
connectArtifactResource == Resource(connectArtifactCreate, connectArtifactRead, << >>,
    connectArtifactDelete, connectArtifactImport, {}, "minted")
=============================================================================
