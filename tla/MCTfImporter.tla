---------------------------- MODULE MCTfImporter ----------------------------
(* The importer, with up to three objects, two creates and one change.     *)
EXTENDS TfImporter

\* Names that become importer_2x and importer_2x_2.
MCDisplayNames == {<<"-", "2", "X">>, <<"2", "x", "-", "2">>}

Configuration(keySet, request) == [keys |-> keySet, resources |-> request]
\* Lists of one level with what may be skipped, of subjects, of two and three levels
\* under both headers, without credentials, and of two families.
MCConfigurations == {
    Configuration({"Kafka"}, {"kafka_acl"}),
    Configuration({"Cloud", "SchemaRegistry"}, {}),
    Configuration({"Cloud", "SchemaRegistry"}, {"kafka_cluster"}),
    Configuration({"Cloud"}, {"kafka_cluster", "connector"}),
    Configuration({"Kafka"}, {"kafka_cluster"}),
    Configuration({"Kafka"}, {"environment", "schema"})}
=============================================================================
