CONSTANTS
    Types = {"network", "dns", "http", "https", "kubernetes", "postgresql", "mysql",
             "mssql", "redis", "mongodb", "clickhouse", "elasticsearch", "opensearch",
             "minio", "kafka", "rabbitmq", "keycloak", "nginx", "internal_canary",
             "external_http", "node_egress", "node_to_node"}
    DefaultTimeout = 9
    Timeouts = {0, 1, 4, 8}
    IOTimeout = 3
    NTPTimeout = 2
    HTTPTimeout = 6
SPECIFICATION ExecutorSpec
INVARIANTS  SuccessIsServed OverrunBounded
