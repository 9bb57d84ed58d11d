------------------------- MODULE GovernanceCatalog --------------------------
(***************************************************************************)
(* The handlers of the resources of Schema Registry and its catalog, each  *)
(* as the sequence of its steps (see ResourceCatalog).                     *)
(***************************************************************************)
EXTENDS HandlerSteps

\* A changed schema is registered as a new version by the create handler.
schemaRead == ChecksStatus
schemaCreate == <<Post, SetId>> \o schemaRead
schemaUpdate == <<CheckOrRevert>> \o schemaCreate
schemaDelete(hard) == IF hard THEN <<SoftDelete, HardDelete>> ELSE <<SoftDelete>>
schemaImport == <<MarkNewResource>> \o schemaRead
schemaResource(hard) == Resource(schemaCreate, schemaRead, schemaUpdate, schemaDelete(hard),
    schemaImport, Both, "upsert")

\* The id is set only when the exporter runs.  A changed configuration is applied
\* to a paused exporter, which is resumed afterwards; it is paused before deletion.
schemaExporterRead == KeepsSecret("DescribeThenClassify")
schemaExporterCreate == <<PostProvisions, WaitReady, SetId>> \o schemaExporterRead
schemaExporterUpdate == <<Patch(First), DisturbIfSecond(First), Patch(Second),
    PatchIfSecond(First), WaitReady>> \o schemaExporterRead
schemaExporterDelete == <<Disturb(First), Delete>>
schemaExporterImport == <<MarkNewResource>> \o schemaExporterRead
schemaExporterResource == Resource(schemaExporterCreate, schemaExporterRead,
    schemaExporterUpdate, schemaExporterDelete, schemaExporterImport, Both, "named")

schemaRegistryClusterConfigRead == ChecksStatus
schemaRegistryClusterConfigCreate == <<Post, SetId>> \o schemaRegistryClusterConfigRead
schemaRegistryClusterConfigUpdate == <<Patch(First)>> \o schemaRegistryClusterConfigRead
schemaRegistryClusterConfigDelete == << >>
schemaRegistryClusterConfigImport == <<MarkNewResource>> \o schemaRegistryClusterConfigRead
schemaRegistryClusterConfigResource == Resource(schemaRegistryClusterConfigCreate,
    schemaRegistryClusterConfigRead, schemaRegistryClusterConfigUpdate,
    schemaRegistryClusterConfigDelete, schemaRegistryClusterConfigImport, First, "upsert")

schemaRegistryClusterModeRead == ChecksStatus
schemaRegistryClusterModeCreate == <<Post, SetId>> \o schemaRegistryClusterModeRead
schemaRegistryClusterModeUpdate == <<Patch(First)>> \o schemaRegistryClusterModeRead
schemaRegistryClusterModeDelete == << >>
schemaRegistryClusterModeImport == <<MarkNewResource>> \o schemaRegistryClusterModeRead
schemaRegistryClusterModeResource == Resource(schemaRegistryClusterModeCreate,
    schemaRegistryClusterModeRead, schemaRegistryClusterModeUpdate,
    schemaRegistryClusterModeDelete, schemaRegistryClusterModeImport, First, "upsert")

subjectConfigRead == ChecksStatus
subjectConfigCreate == <<Post, SetId>> \o subjectConfigRead
subjectConfigUpdate == <<Patch(First)>> \o subjectConfigRead
subjectConfigDelete == <<Delete>>
subjectConfigImport == <<MarkNewResource>> \o subjectConfigRead
subjectConfigResource == Resource(subjectConfigCreate, subjectConfigRead, subjectConfigUpdate,
    subjectConfigDelete, subjectConfigImport, First, "upsert")

subjectModeRead == ChecksStatus
subjectModeCreate == <<Post, SetId>> \o subjectModeRead
subjectModeUpdate == <<Patch(First)>> \o subjectModeRead
subjectModeDelete == <<Delete>>
subjectModeImport == <<MarkNewResource>> \o subjectModeRead
subjectModeResource == Resource(subjectModeCreate, subjectModeRead, subjectModeUpdate,
    subjectModeDelete, subjectModeImport, First, "upsert")

schemaRegistryKekRead == ClassifiesFirst
schemaRegistryKekCreate == <<Post, SetId>> \o schemaRegistryKekRead
schemaRegistryKekUpdate == <<Patch(First)>> \o schemaRegistryKekRead
schemaRegistryKekDelete(hard) == IF hard THEN <<SoftDelete, HardDelete>> ELSE <<SoftDelete>>
schemaRegistryKekImport == <<MarkNewResource>> \o schemaRegistryKekRead
schemaRegistryKekResource(hard) == Resource(schemaRegistryKekCreate, schemaRegistryKekRead,
    schemaRegistryKekUpdate, schemaRegistryKekDelete(hard), schemaRegistryKekImport, First,
    "named")

schemaRegistryDekRead == DescribesFirst
schemaRegistryDekCreate == <<Post, SetId>> \o schemaRegistryDekRead
schemaRegistryDekUpdate == schemaRegistryDekRead
schemaRegistryDekDelete(hard) == IF hard THEN <<SoftDelete, HardDelete>> ELSE <<SoftDelete>>
schemaRegistryDekImport == <<MarkNewResource>> \o schemaRegistryDekRead
schemaRegistryDekResource(hard) == Resource(schemaRegistryDekCreate, schemaRegistryDekRead,
    schemaRegistryDekUpdate, schemaRegistryDekDelete(hard), schemaRegistryDekImport, {},
    "named")

tagRead == DescribesFirst
tagCreate == <<PostProvisions, SetId, WaitReady>> \o tagRead
tagUpdate == <<Patch(First)>> \o tagRead
tagDelete == <<Delete>>
tagImport == <<MarkNewResource>> \o tagRead
tagResource == Resource(tagCreate, tagRead, tagUpdate, tagDelete, tagImport, First, "named")

tagBindingRead == DescribesFirst
tagBindingCreate == <<PostProvisions, SetId, WaitReady>> \o tagBindingRead
tagBindingUpdate == tagBindingRead
tagBindingDelete == <<Delete>>
tagBindingImport == <<MarkNewResource>> \o tagBindingRead
tagBindingResource == Resource(tagBindingCreate, tagBindingRead, tagBindingUpdate,
    tagBindingDelete, tagBindingImport, {}, "named")

businessMetadataRead == DescribesFirst
businessMetadataCreate == <<PostProvisions, SetId, WaitReady>> \o businessMetadataRead
businessMetadataUpdate == <<Patch(First)>> \o businessMetadataRead
businessMetadataDelete == <<Delete>>
businessMetadataImport == <<MarkNewResource>> \o businessMetadataRead
businessMetadataResource == Resource(businessMetadataCreate, businessMetadataRead,
    businessMetadataUpdate, businessMetadataDelete, businessMetadataImport, First, "named")

businessMetadataBindingRead == DescribesFirst
businessMetadataBindingCreate == <<PostProvisions, SetId, WaitReady>> \o
    businessMetadataBindingRead
businessMetadataBindingUpdate == <<Patch(First)>> \o businessMetadataBindingRead
businessMetadataBindingDelete == <<Delete>>
businessMetadataBindingImport == <<MarkNewResource>> \o businessMetadataBindingRead
businessMetadataBindingResource == Resource(businessMetadataBindingCreate,
    businessMetadataBindingRead, businessMetadataBindingUpdate, businessMetadataBindingDelete,
    businessMetadataBindingImport, First, "named")

\* The deletion is a PUT of empty attributes.
catalogEntityAttributesRead == DescribesFirst
catalogEntityAttributesCreate == <<Post, SetId>> \o catalogEntityAttributesRead
catalogEntityAttributesUpdate == <<Patch(First)>> \o catalogEntityAttributesRead
catalogEntityAttributesDelete == <<Delete>>
catalogEntityAttributesImport == <<MarkNewResource>> \o catalogEntityAttributesRead
catalogEntityAttributesResource == Resource(catalogEntityAttributesCreate,
    catalogEntityAttributesRead, catalogEntityAttributesUpdate, catalogEntityAttributesDelete,
    catalogEntityAttributesImport, First, "upsert")
=============================================================================
