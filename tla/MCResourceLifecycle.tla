------------------------- MODULE MCResourceLifecycle -------------------------
(***************************************************************************)
(* The resources of ResourceCatalog for TLC.  Two kinds with the same      *)
(* handlers behave alike, so one of them stands for both.                  *)
(***************************************************************************)
EXTENDS ResourceLifecycle, ResourceCatalog

AllKinds == DOMAIN Catalog
\* Kinds whose objects cannot be deleted: settings of a cluster or an
\* environment, an integration another resource owns, an accepted invitation.
SettingKinds == {"kafka_cluster_config", "flink_compute_pool_config",
                 "schema_registry_cluster_config", "schema_registry_cluster_mode",
                 "provider_integration_authorization", "invitation_accepted"}

\* Kinds whose create handler sets the id after something else than the POST may
\* have failed.
LateIdKinds == {"api_key", "connector", "schema_exporter"}

\* Kinds whose read describes the refusal before it classifies it.
DescribeFirstKinds ==
    {"environment", "certificate_authority", "ip_filter", "api_key", "provider_integration",
     "network", "peering", "private_link_access", "private_link_attachment",
     "private_link_attachment_connection", "transit_gateway_attachment", "dns_forwarder",
     "kafka_cluster", "ksql_cluster", "connector", "custom_connector_plugin",
     "custom_connector_plugin_version", "plugin", "connect_artifact", "flink_artifact",
     "flink_connection", "flink_statement", "flink_materialized_table", "tableflow_topic",
     "rtce_topic", "schema_exporter", "schema_registry_dek", "schema_registry_dek_hard",
     "tag", "tag_binding", "business_metadata", "business_metadata_binding",
     "catalog_entity_attributes"}

\* Kinds with a secret that no read brings back.
SecretKinds == {"cluster_link", "connector", "flink_connection", "catalog_integration",
                "schema_exporter"}

Secrets(k) == IF k \in SecretKinds THEN Second ELSE {}

\* Kinds whose delete handler waits until the object is gone.
WaitingKinds ==
    {"peering", "private_link_access", "transit_gateway_attachment", "dns_record",
     "access_point", "network_link_endpoint", "network_link_service", "kafka_cluster",
     "kafka_topic", "kafka_mirror_topic", "cluster_link", "flink_compute_pool",
     "flink_statement", "flink_materialized_table", "rtce_topic"}

\* Kinds that the properties below tell apart do not stand for each other.
Looks(k) == <<Catalog[k], k \in SecretKinds, k \in WaitingKinds, k \in DescribeFirstKinds>>
StandIns(kinds) == {CHOOSE k \in kinds : Looks(k) = x : x \in {Looks(k) : k \in kinds}}

Deletable == StandIns(AllKinds \ (SettingKinds \cup LateIdKinds))
Updated == StandIns(AllKinds \ {"provider_integration_authorization"})
Converging ==
    StandIns(AllKinds \ {"provider_integration_authorization", "invitation_accepted"})

\* The values of the constants.  (TLC evaluates a definition once, but the value
\* that a configuration names at every use, so they only name definitions.)
MCHandlers == Catalog
MCDescribing == DescribeFirstKinds
DeletableKinds == Deletable
UpdatedKinds == Updated
ConvergingKinds == Converging
OnlyAuthorization == {"provider_integration_authorization"}
OnlyCatalogIntegration == {"catalog_integration"}
OnlySchemaHard == {"schema_hard"}
OnlyEnvironment == {"environment"}

\* Structural: the handlers of the kind keep the disciplines under which the
\* theorems of ResourceLifecycle_proofs and HandlerShapes_proofs hold, but for the
\* kinds named here.
Disciplined ==
    /\ kind \notin SettingKinds \cup LateIdKinds => KeepsTrack(Handlers[kind])
    /\ kind \notin DescribeFirstKinds => ClassifiesRefusals(Handlers[kind])
    /\ ReadyOnReturn(Handlers[kind])
    /\ ReadsBack(Handlers[kind], Both \ Secrets(kind))
    /\ kind \in WaitingKinds => WaitsForItsEnd(Handlers[kind])
    /\ SendsThePlan(Handlers[kind])

\* Safety: what a successful create, read or import leaves in the state is what the
\* object has, changes that others made before it included; the secrets that no
\* read brings back are left out.
StateIsTrue ==
    Succeeded({"create", "read", "import"}) /\ tf.id # 0 /\ drift # "since"
        => \A p \in Parts \ Secrets(kind) : tf.attr[p] = cloud[tf.id].attr[p]

\* Action property: a deletion that waits for the object to disappear reports
\* success only when it is gone, as long as the API key is valid.
DestroyedMeansGone ==
    [][Succeeds({"delete"}) /\ kind \in WaitingKinds /\ valid
           => cloud[d.id].phase = "absent"]_vars
=============================================================================
