--------------------------- MODULE AccessCatalog ----------------------------
(***************************************************************************)
(* The handlers of the resources of organisation, identity and access, each*)
(* as the sequence of its steps (see ResourceCatalog).                     *)
(***************************************************************************)
EXTENDS HandlerSteps

environmentRead == DescribesFirst
environmentCreate == <<Post, SetId>> \o environmentRead
environmentUpdate == <<Patch(First)>> \o environmentRead
environmentDelete == <<Delete>>
environmentImport == <<MarkNewResource>> \o environmentRead
environmentResource == Resource(environmentCreate, environmentRead, environmentUpdate,
    environmentDelete, environmentImport, First, "minted")

\* Mutated form: the refusal is described before it is classified.
serviceAccountReadDescribing == DescribesFirst
serviceAccountRead == ClassifiesFirst
serviceAccountCreate == <<Post, SetId>> \o serviceAccountRead
serviceAccountUpdate == <<Patch(First)>> \o serviceAccountRead
serviceAccountDelete == <<Delete>>
serviceAccountImport == <<MarkNewResource>> \o serviceAccountRead
serviceAccountResource == Resource(serviceAccountCreate, serviceAccountRead,
    serviceAccountUpdate, serviceAccountDelete, serviceAccountImport, First, "minted")

identityProviderRead == ClassifiesFirst
identityProviderCreate == <<Post, SetId>> \o identityProviderRead
identityProviderUpdate == <<Patch(First)>> \o identityProviderRead
identityProviderDelete == <<Delete>>
identityProviderImport == <<MarkNewResource>> \o identityProviderRead
identityProviderResource == Resource(identityProviderCreate, identityProviderRead,
    identityProviderUpdate, identityProviderDelete, identityProviderImport, First, "minted")

identityPoolRead == ClassifiesFirst
identityPoolCreate == <<Post, SetId>> \o identityPoolRead
identityPoolUpdate == <<Patch(First)>> \o identityPoolRead
identityPoolDelete == <<Delete>>
identityPoolImport == <<MarkNewResource>> \o identityPoolRead
identityPoolResource == Resource(identityPoolCreate, identityPoolRead, identityPoolUpdate,
    identityPoolDelete, identityPoolImport, First, "minted")

groupMappingRead == ClassifiesFirst
groupMappingCreate == <<Post, SetId>> \o groupMappingRead
groupMappingUpdate == <<Patch(First)>> \o groupMappingRead
groupMappingDelete == <<Delete>>
groupMappingImport == <<MarkNewResource>> \o groupMappingRead
groupMappingResource == Resource(groupMappingCreate, groupMappingRead, groupMappingUpdate,
    groupMappingDelete, groupMappingImport, First, "minted")

certificateAuthorityRead == DescribesFirst
certificateAuthorityCreate == <<Post, SetId>> \o certificateAuthorityRead
certificateAuthorityUpdate == <<Patch(First)>> \o certificateAuthorityRead
certificateAuthorityDelete == <<Delete>>
certificateAuthorityImport == <<MarkNewResource>> \o certificateAuthorityRead
certificateAuthorityResource == Resource(certificateAuthorityCreate, certificateAuthorityRead,
    certificateAuthorityUpdate, certificateAuthorityDelete, certificateAuthorityImport, First,
    "minted")

certificatePoolRead == ClassifiesFirst
certificatePoolCreate == <<Post, SetId>> \o certificatePoolRead
certificatePoolUpdate == <<Patch(First)>> \o certificatePoolRead
certificatePoolDelete == <<Delete>>
certificatePoolImport == <<MarkNewResource>> \o certificatePoolRead
certificatePoolResource == Resource(certificatePoolCreate, certificatePoolRead,
    certificatePoolUpdate, certificatePoolDelete, certificatePoolImport, First, "minted")

ipGroupRead == ClassifiesFirst
ipGroupCreate == <<Post, SetId>> \o ipGroupRead
ipGroupUpdate == <<Patch(First)>> \o ipGroupRead
ipGroupDelete == <<Delete>>
ipGroupImport == <<MarkNewResource>> \o ipGroupRead
ipGroupResource == Resource(ipGroupCreate, ipGroupRead, ipGroupUpdate, ipGroupDelete,
    ipGroupImport, First, "minted")

ipFilterRead == DescribesFirst
ipFilterCreate == <<Post, SetId>> \o ipFilterRead
ipFilterUpdate == <<Patch(First)>> \o ipFilterRead
ipFilterDelete == <<Delete>>
ipFilterImport == <<MarkNewResource>> \o ipFilterRead
ipFilterResource == Resource(ipFilterCreate, ipFilterRead, ipFilterUpdate, ipFilterDelete,
    ipFilterImport, First, "minted")

roleBindingRead == ClassifiesFirst
roleBindingCreate == <<Post, SetId>> \o roleBindingRead
roleBindingUpdate == roleBindingRead
roleBindingDelete == <<Delete>>
roleBindingImport == <<MarkNewResource>> \o roleBindingRead
roleBindingResource == Resource(roleBindingCreate, roleBindingRead, roleBindingUpdate,
    roleBindingDelete, roleBindingImport, {}, "minted")

invitationRead == ClassifiesFirst
invitationCreate == <<Post, SetId>> \o invitationRead
invitationUpdate == invitationRead
invitationDelete(accepted) == IF accepted THEN << >> ELSE <<Delete>>
invitationImport == <<MarkNewResource>> \o invitationRead
invitationResource(accepted) == Resource(invitationCreate, invitationRead, invitationUpdate,
    invitationDelete(accepted), invitationImport, {}, "minted")

\* The id is set only once the new key has been seen to work.
apiKeyRead == DescribesFirst
apiKeyCreate == <<PostProvisions, WaitReady, SetId>> \o apiKeyRead
apiKeyUpdate == <<Patch(First)>> \o apiKeyRead
apiKeyDelete == <<Delete>>
apiKeyImport == <<MarkNewResource>> \o apiKeyRead
apiKeyResource == Resource(apiKeyCreate, apiKeyRead, apiKeyUpdate, apiKeyDelete, apiKeyImport,
    First, "minted")

byokKeyRead == ClassifiesFirst
byokKeyCreate == <<Post, SetId>> \o byokKeyRead
byokKeyDelete == <<Delete>>
byokKeyImport == <<MarkNewResource>> \o byokKeyRead
byokKeyResource == Resource(byokKeyCreate, byokKeyRead, << >>, byokKeyDelete, byokKeyImport, {},
    "minted")

providerIntegrationRead == DescribesFirst
providerIntegrationCreate == <<Post, SetId>> \o providerIntegrationRead
providerIntegrationDelete == <<Delete>>
providerIntegrationImport == <<MarkNewResource>> \o providerIntegrationRead
providerIntegrationResource == Resource(providerIntegrationCreate, providerIntegrationRead,
    << >>, providerIntegrationDelete, providerIntegrationImport, {}, "minted")

providerIntegrationSetupRead == ClassifiesFirst
providerIntegrationSetupCreate == <<Post, SetId>> \o providerIntegrationSetupRead
providerIntegrationSetupDelete == <<Delete>>
providerIntegrationSetupImport == providerIntegrationSetupRead
providerIntegrationSetupResource == Resource(providerIntegrationSetupCreate,
    providerIntegrationSetupRead, << >>, providerIntegrationSetupDelete,
    providerIntegrationSetupImport, {}, "minted")

providerIntegrationAuthorizationRead == ClassifiesFirst
\* Only a DRAFT integration is configured; the id is set after the validation.
providerIntegrationAuthorizationCreate == <<Post, Check, SetId>> \o
    providerIntegrationAuthorizationRead
providerIntegrationAuthorizationUpdate == providerIntegrationAuthorizationCreate
providerIntegrationAuthorizationDelete == << >>
providerIntegrationAuthorizationImport == providerIntegrationAuthorizationRead
providerIntegrationAuthorizationResource == Resource(providerIntegrationAuthorizationCreate,
    providerIntegrationAuthorizationRead, providerIntegrationAuthorizationUpdate,
    providerIntegrationAuthorizationDelete, providerIntegrationAuthorizationImport, First,
    "once")
=============================================================================
