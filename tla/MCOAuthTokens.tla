--------------------------- MODULE MCOAuthTokens ---------------------------
(***************************************************************************)
(* OAuthTokens for TLC: one family of attributes of the provider block is  *)
(* varied at a time.                                                       *)
(***************************************************************************)
EXTENDS OAuthTokens, TLC

AttributeFamilies ==
    {CloudAttributes, KafkaAttributes \cup {"kafka_id"},
     SchemaRegistryAttributes \cup SchemaRegistryEndpoints, FlinkAttributes, TableflowAttributes}

\* With OAuth, the attributes whose combinations are refused and, of the accepted
\* ones, those that tell the REST clients apart.
OAuthAttributes ==
    (SUBSET CloudAttributes) \cup (SUBSET TableflowAttributes)
    \cup SUBSET {"kafka_id", "kafka_rest_endpoint", "catalog_rest_endpoint", "schema_registry_id"}

\* Accepted blocks that lead to no other calls.
OAuthLikeOthers == {{"kafka_id", "kafka_rest_endpoint"}, {"catalog_rest_endpoint", "schema_registry_id"}}

Blocks == [oauth : {"none"}, attrs : UNION {SUBSET f : f \in AttributeFamilies}]
          \cup [oauth : {"idp"}, attrs : OAuthAttributes \ OAuthLikeOthers]
          \cup [oauth : {"static"}, attrs : {{}}]
\* As a table, which TLC computes once.
CallTable == [cfg \in Blocks |-> RestCalls(cfg)] @@ <<>>

MCConfigs == Blocks
MCRestCalls == CallTable

HandlerSymmetry == Permutations(Handlers)
=============================================================================
