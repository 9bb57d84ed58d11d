------------------------- MODULE NetworkingCatalog --------------------------
(***************************************************************************)
(* The handlers of the networking resources, each as the sequence of its   *)
(* steps (see ResourceCatalog).                                            *)
(***************************************************************************)
EXTENDS HandlerSteps

networkRead == DescribesFirst
\* Mutated form: nothing waits for the network.
networkCreateHasty == <<PostProvisions, SetId>> \o networkRead
networkCreate == <<PostProvisions, SetId, WaitReady>> \o networkRead
networkUpdate == <<Patch(First)>> \o networkRead
networkDelete == <<Delete>>
networkImport == <<MarkNewResource>> \o networkRead
networkResource == Resource(networkCreate, networkRead, networkUpdate, networkDelete,
    networkImport, First, "minted")

peeringRead == DescribesFirst
peeringCreate == <<PostProvisions, SetId, WaitReady>> \o peeringRead
peeringUpdate == <<Patch(First)>> \o peeringRead
\* Mutated form: nothing waits for the peering to disappear.
peeringDeleteHasty == <<Delete>>
peeringDelete == <<Delete, WaitGone("DescribeThenClassify")>>
peeringImport == <<MarkNewResource>> \o peeringRead
peeringResource == Resource(peeringCreate, peeringRead, peeringUpdate, peeringDelete,
    peeringImport, First, "minted")

privateLinkAccessRead == DescribesFirst
privateLinkAccessCreate == <<PostProvisions, SetId, WaitReady>> \o privateLinkAccessRead
privateLinkAccessUpdate == <<Patch(First)>> \o privateLinkAccessRead
privateLinkAccessDelete == <<Delete, WaitGone("DescribeThenClassify")>>
privateLinkAccessImport == <<MarkNewResource>> \o privateLinkAccessRead
privateLinkAccessResource == Resource(privateLinkAccessCreate, privateLinkAccessRead,
    privateLinkAccessUpdate, privateLinkAccessDelete, privateLinkAccessImport, First, "minted")

privateLinkAttachmentRead == DescribesFirst
privateLinkAttachmentCreate == <<PostProvisions, SetId, WaitReady>> \o privateLinkAttachmentRead
privateLinkAttachmentUpdate == <<Patch(First)>> \o privateLinkAttachmentRead
privateLinkAttachmentDelete == <<Delete>>
privateLinkAttachmentImport == <<MarkNewResource>> \o privateLinkAttachmentRead
privateLinkAttachmentResource == Resource(privateLinkAttachmentCreate,
    privateLinkAttachmentRead, privateLinkAttachmentUpdate, privateLinkAttachmentDelete,
    privateLinkAttachmentImport, First, "minted")

\* plattcDeleteStatus swaps the two ids of its request and so asks for a
\* connection that does not exist.
privateLinkAttachmentConnectionRead == DescribesFirst
privateLinkAttachmentConnectionCreate == <<PostProvisions, SetId, WaitReady>> \o
    privateLinkAttachmentConnectionRead
privateLinkAttachmentConnectionUpdate == <<Patch(First)>> \o privateLinkAttachmentConnectionRead
privateLinkAttachmentConnectionDelete == <<Delete, WaitGone("blind")>>
privateLinkAttachmentConnectionImport == <<MarkNewResource>> \o
    privateLinkAttachmentConnectionRead
privateLinkAttachmentConnectionResource == Resource(privateLinkAttachmentConnectionCreate,
    privateLinkAttachmentConnectionRead, privateLinkAttachmentConnectionUpdate,
    privateLinkAttachmentConnectionDelete, privateLinkAttachmentConnectionImport, First,
    "minted")

transitGatewayAttachmentRead == DescribesFirst
transitGatewayAttachmentCreate == <<PostProvisions, SetId, WaitReady>> \o
    transitGatewayAttachmentRead
transitGatewayAttachmentUpdate == <<Patch(First)>> \o transitGatewayAttachmentRead
transitGatewayAttachmentDelete == <<Delete, WaitGone("DescribeThenClassify")>>
transitGatewayAttachmentImport == <<MarkNewResource>> \o transitGatewayAttachmentRead
transitGatewayAttachmentResource == Resource(transitGatewayAttachmentCreate,
    transitGatewayAttachmentRead, transitGatewayAttachmentUpdate,
    transitGatewayAttachmentDelete, transitGatewayAttachmentImport, First, "minted")

dnsForwarderRead == DescribesFirst
dnsForwarderCreate == <<PostProvisions, SetId, WaitReady>> \o dnsForwarderRead
dnsForwarderUpdate == <<Patch(First)>> \o dnsForwarderRead
dnsForwarderDelete == <<Delete>>
dnsForwarderImport == <<MarkNewResource>> \o dnsForwarderRead
dnsForwarderResource == Resource(dnsForwarderCreate, dnsForwarderRead, dnsForwarderUpdate,
    dnsForwarderDelete, dnsForwarderImport, First, "minted")

dnsRecordRead == ClassifiesFirst
dnsRecordCreate == <<PostProvisions, SetId, WaitReady>> \o dnsRecordRead
dnsRecordUpdate == <<Patch(First)>> \o dnsRecordRead
dnsRecordDelete == <<Delete, WaitGone("DescribeThenClassify")>>
dnsRecordImport == <<MarkNewResource>> \o dnsRecordRead
dnsRecordResource == Resource(dnsRecordCreate, dnsRecordRead, dnsRecordUpdate, dnsRecordDelete,
    dnsRecordImport, First, "minted")

accessPointRead == ClassifiesFirst
\* Mutated form: the id is set when the access point is ready.
accessPointCreateLateId == <<PostProvisions, WaitReady, SetId>> \o accessPointRead
accessPointCreate == <<PostProvisions, SetId, WaitReady>> \o accessPointRead
accessPointUpdate == <<Patch(First)>> \o accessPointRead
accessPointDelete == <<Delete, WaitGone("ClassifyThenDescribe")>>
accessPointImport == <<MarkNewResource>> \o accessPointRead
accessPointResource == Resource(accessPointCreate, accessPointRead, accessPointUpdate,
    accessPointDelete, accessPointImport, First, "minted")

gatewayRead == ClassifiesFirst
gatewayCreate == <<PostProvisions, SetId, WaitReady>> \o gatewayRead
gatewayUpdate == <<Patch(First)>> \o gatewayRead
gatewayDelete == <<Delete>>
gatewayImport == <<MarkNewResource>> \o gatewayRead
gatewayResource == Resource(gatewayCreate, gatewayRead, gatewayUpdate, gatewayDelete,
    gatewayImport, First, "minted")

networkLinkEndpointRead == ClassifiesFirst
networkLinkEndpointCreate == <<PostProvisions, SetId, WaitReady>> \o networkLinkEndpointRead
networkLinkEndpointUpdate == <<Patch(First)>> \o networkLinkEndpointRead
networkLinkEndpointDelete == <<Delete, WaitGone("ClassifyThenDescribe")>>
networkLinkEndpointImport == <<MarkNewResource>> \o networkLinkEndpointRead
networkLinkEndpointResource == Resource(networkLinkEndpointCreate, networkLinkEndpointRead,
    networkLinkEndpointUpdate, networkLinkEndpointDelete, networkLinkEndpointImport, First,
    "minted")

networkLinkServiceRead == ClassifiesFirst
networkLinkServiceCreate == <<PostProvisions, SetId, WaitReady>> \o networkLinkServiceRead
networkLinkServiceUpdate == <<Patch(First)>> \o networkLinkServiceRead
networkLinkServiceDelete == <<Delete, WaitGone("ClassifyThenDescribe")>>
networkLinkServiceImport == <<MarkNewResource>> \o networkLinkServiceRead
networkLinkServiceResource == Resource(networkLinkServiceCreate, networkLinkServiceRead,
    networkLinkServiceUpdate, networkLinkServiceDelete, networkLinkServiceImport, First,
    "minted")
=============================================================================
