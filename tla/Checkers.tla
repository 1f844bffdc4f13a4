------------------------------ MODULE Checkers ------------------------------
(***************************************************************************)
(* The checkers of all target types: which layers each one has, when a     *)
(* layer is enabled, what a layer does on the network, and what it makes   *)
(* of the way that ends.                                                   *)
(*                                                                         *)
(* A layer is a record:                                                    *)
(*   name      L0 to L6                                                    *)
(*   always    the target types for which it is enabled without a flag     *)
(*   phases    its I/O, one operation after the other                      *)
(*   answers   what may come back, and the failure code it leads to, or    *)
(*             Passed                                                      *)
(*   early     the answers with which the layer is done before its last    *)
(*             phase                                                       *)
(*   timedOut  the code of a last phase whose error says "timeout"         *)
(*   failed    the code of any other error of the last phase               *)
(*   sound     the answers of a server in good order that asks for no      *)
(*             password; none if such a server stays silent                *)
(*   limit     where the timeout of its I/O comes from                     *)
(*                                                                         *)
(* What servers answer is known from their protocols, not from this        *)
(* repository; the requests are the bytes the layers send.  Addresses and  *)
(* URLs are left out (ValidateTarget sees to an endpoint), and certificates *)
(* are judged by the usual roots and demanded of no client.                *)
(***************************************************************************)
EXTENDS Naturals, Sequences

Passed == "passed"

(* lookup: a DNS query, bounded by the check's context.                    *)
(* dial, handshake, get: bounded by the context and by a timeout.          *)
(* resolve, ntp, read, bareGet: bounded by a timeout of their own only;    *)
(* resolve connects to the NTP server, ntp waits for its answer.           *)
(* secret: reads a Secret from the Kubernetes API, bounded by nothing.  It *)
(* ends at once if the target names none.                                  *)
Dial == <<"dial">>

DialErrors == {"refused", "unroutable", "nohost"}

(* What an error's text makes of the code a layer has for it.              *)
ExtractFailureCode(e, default) ==
    CASE e = "timeout"    -> "timeout"
      [] e = "refused"    -> "tcp_refused"
      [] e = "unroutable" -> "tcp_no_route"
      [] e = "badcert"    -> "tls_expired"
      [] OTHER            -> default

Layer(name, always, phases, answers, timedOut, failed, sound) ==
    [name |-> name, always |-> always, phases |-> phases, answers |-> answers,
     early |-> {}, timedOut |-> timedOut, failed |-> failed, sound |-> sound,
     limit |-> "io"]

(* A layer that takes the target's Schedule.Timeout for its own, or else   *)
(* 10 s (an HTTP client) or 5 s.                                           *)
Scheduled(limit, layer) == [layer EXCEPT !.limit = limit]

(* A layer that some answers end before its last phase.                    *)
Early(answers, layer) == [layer EXCEPT !.early = answers]

(* A layer that sends over a TCP connection of its own and reads once; the *)
(* few bytes go into the buffer of the new connection, so sending is taken *)
(* not to fail.                                                            *)
Socket(name, always, answers, failed, sound) ==
    Layer(name, always, <<"dial", "read">>, answers,
          IF failed = Passed THEN Passed ELSE "timeout", failed, sound)

(* A layer that only connects.                                             *)
Connection(name, always) ==
    Layer(name, always, Dial, [accepted |-> Passed], "protocol_timeout",
          "protocol_error", {"accepted"})

(* A layer that gets a page with a client of its own.                      *)
Page(name, always, request, answers) ==
    Layer(name, always, <<request>>, answers, "protocol_timeout", "protocol_error", {"good"})

-----------------------------------------------------------------------------
(* What /proc says, and an NTP server unless none is asked.  Ephemeral     *)
(* ports fail only when their range cannot be parsed.                      *)
NodeSanityChecker ==
    Early({"unasked", "descriptors", "conntrack", "unreadable", "wrongyear"},
        Layer("L0", {}, <<"resolve", "ntp">>,
              [unasked |-> Passed, descriptors |-> "fd_exhausted",
               conntrack |-> "conntrack_pressure", unreadable |-> "ephemeral_ports_low",
               wrongyear |-> "clock_skew", fine |-> Passed, skew |-> "clock_skew"],
              "timeout", "clock_skew", {"unasked", "fine"}))

DNSLayer ==
    Layer("L1", {}, <<"lookup">>,
          [found |-> Passed, nohost |-> "dns_nxdomain", servfail |-> "dns_servfail",
           refused |-> "dns_refused", timeout |-> "dns_timeout"],
          "dns_timeout", "dns_timeout", {"found"})

(* Mutant: a refused connection shows that the host is up.                 *)
TCPLayerRefusedPasses ==
    Layer("L2", {}, Dial, [accepted |-> Passed, refused |-> Passed], "tcp_timeout",
          "tcp_timeout", {"accepted"})

TCPLayer ==
    Layer("L2", {}, Dial, [accepted |-> Passed], "tcp_timeout", "tcp_timeout", {"accepted"})

(* The Secrets are those of roots and of a client certificate.  The library *)
(* has one text for certificates that are outdated and early.              *)
TLSLayer ==
    Layer("L3", {"https"}, <<"secret", "dial", "handshake">>,
          [trusted |-> Passed, outdated |-> "tls_expired", early |-> "tls_expired",
           untrusted |-> "tls_untrusted_issuer", misnamed |-> "tls_wrong_host",
           alert |-> "tls_handshake_failed"],
          "timeout", "tls_handshake_failed", {"trusted"})

(* good and wrong: a page with the status of L4Protocol.StatusCode, or 200 *)
(* if that is not set; other: any other of 200 to 399.  Only https targets *)
(* are asked over TLS; tlsonly: what a server that speaks nothing else     *)
(* answers a plain request with.                                           *)
HTTPProtocolLayer ==
    Scheduled("http", Layer("L4", {"http", "https"}, <<"get">>,
         [good |-> Passed, wrong |-> Passed,
          other |-> "protocol_unexpected_response",
          tlsonly |-> "protocol_unexpected_response",
          unauthorized |-> "protocol_unexpected_response",
          missing |-> "protocol_unexpected_response",
          broken |-> "protocol_unexpected_response"],
         "protocol_timeout", "protocol_error", {"good", "other", "tlsonly"}))

(* Redirects are followed here and in L6.                                  *)
HTTPAuthLayer ==
    Scheduled("http", Layer("L5", {}, <<"secret", "get">>,
          [good |-> Passed, unauthorized |-> "auth_failed", missing |-> Passed,
           broken |-> Passed],
          "auth_timeout", "auth_failed", {"good"}))

(* The status is not looked at; cut: the body breaks off.                  *)
HTTPSemanticLayer ==
    Scheduled("http", Layer("L6", {}, <<"get">>,
          [good |-> Passed, wrong |-> "semantic_unexpected", cut |-> "semantic_failed"],
          "semantic_timeout", "semantic_failed", {"good"}))

(* The packet asks for protocol version 1234.0, which a server answers     *)
(* with an error message ('E'); N and S answer an SSLRequest.              *)
PostgreSQLProtocolLayer ==
    Socket("L4", {"postgresql"},
           [N |-> Passed, S |-> Passed, E |-> "protocol_unexpected_response"], Passed, {"E"})

PostgreSQLAuthLayer ==
    Socket("L5", {}, [N |-> Passed, S |-> Passed, E |-> Passed], Passed, {"E"})

PostgreSQLSemanticLayer ==
    Socket("L6", {},
           [N |-> Passed, S |-> Passed, E |-> "semantic_unexpected"],
           "semantic_failed", {"E"})

(* named: a handshake of version 10 whose server version says mysql or     *)
(* mariadb; a stock MySQL says only a number.                              *)
MySQLProtocolLayer ==
    Socket("L4", {"mysql"},
           [named |-> Passed, unnamed |-> Passed, other |-> "protocol_unexpected_response"],
           "protocol_error", {"named", "unnamed"})

MySQLAuthLayer ==
    Socket("L5", {},
           [named |-> Passed, unnamed |-> Passed, other |-> "protocol_unexpected_response"],
           "auth_failed", {"named", "unnamed"})

MySQLSemanticLayer ==
    Socket("L6", {},
           [named |-> Passed, unnamed |-> "semantic_unexpected",
            other |-> "semantic_unexpected"],
           "semantic_failed", {"named", "unnamed"})

RedisProtocolLayer ==
    Scheduled("redis", Socket("L4", {"redis"},
           [pong |-> Passed, noauth |-> "protocol_unexpected_response"],
           "protocol_error", {"pong"}))

(* The connection's deadline is running while the Secret is read.          *)
(* unasked: no password is configured, and nothing is sent.  WRONGPASS is  *)
(* not taken as an error.                                                  *)
RedisAuthLayer ==
    Early({"unasked"}, Layer("L5", {}, <<"dial", "secret", "read">>,
           [unasked |-> Passed, ok |-> Passed, wrongpass |-> Passed, err |-> "auth_failed"],
           "timeout", "auth_failed", {"unasked", "ok"}))

RedisSemanticLayer ==
    Socket("L6", {}, [info |-> Passed, noauth |-> "semantic_unexpected"],
           "semantic_failed", {"info"})

MongoDBProtocolLayer == Connection("L4", {"mongodb"})
MongoDBAuthLayer     == Connection("L5", {})
MongoDBSemanticLayer == Connection("L6", {})

ElasticsearchProtocolLayer ==
    Page("L4", {"elasticsearch"}, "bareGet",
         [good |-> Passed, unauthorized |-> Passed, wrong |-> "protocol_unexpected_response"])

ElasticsearchAuthLayer ==
    Page("L5", {}, "get", [good |-> Passed, unauthorized |-> "auth_failed", wrong |-> Passed])

ElasticsearchSemanticLayer ==
    Page("L6", {}, "get", [good |-> Passed, red |-> "semantic_failed", wrong |-> "semantic_failed"])

(* The request announces 21 bytes and has 10: a broker waits for the rest. *)
KafkaProtocolLayer ==
    Socket("L4", {"kafka"}, [long |-> Passed, short |-> "protocol_unexpected_response"],
           "protocol_error", {})

(* A broker answers its header only to refuse a version; to one it takes,  *)
(* it answers the frame of Connection.Start.                               *)
RabbitMQProtocolLayer ==
    Socket("L4", {"rabbitmq"},
           [header |-> Passed, start |-> "protocol_unexpected_response"],
           "protocol_error", {"start"})

RabbitMQSemanticLayer ==
    Layer("L6", {}, <<"bareGet">>, [good |-> Passed, broken |-> "semantic_failed"],
          Passed, Passed, {"good"})

KeycloakProtocolLayer ==
    Page("L4", {"keycloak"}, "bareGet",
         [good |-> Passed, broken |-> "protocol_unexpected_response"])

NginxProtocolLayer ==
    Page("L4", {"nginx"}, "bareGet",
         [good |-> Passed, missing |-> Passed, broken |-> "protocol_unexpected_response"])

(* Mutant: a server that does not answer the request fails.                *)
MSSQLProtocolLayerStrict ==
    Socket("L4", {"mssql"}, [any |-> Passed], "protocol_error", {})

(* 7 bytes of an announced 25: a server waits for the rest.                *)
MSSQLProtocolLayer == Socket("L4", {"mssql"}, [any |-> Passed], Passed, {})

ClickHouseProtocolLayer == Connection("L4", {"clickhouse"})

MinIOProtocolLayer ==
    Page("L4", {"minio"}, "bareGet",
         [good |-> Passed, missing |-> Passed, broken |-> "protocol_unexpected_response"])

OpenSearchProtocolLayer ==
    Page("L4", {"opensearch"}, "bareGet",
         [good |-> Passed, unauthorized |-> "protocol_unexpected_response",
          broken |-> "protocol_unexpected_response"])

-----------------------------------------------------------------------------
(* The layers of each factory.                                             *)
NodeDNSTCP == <<NodeSanityChecker, DNSLayer, TCPLayer>>

NetworkLayers == NodeDNSTCP
HTTPLayers ==
    NodeDNSTCP \o <<TLSLayer, HTTPProtocolLayer, HTTPAuthLayer, HTTPSemanticLayer>>
KubernetesLayers == NodeDNSTCP \o <<TLSLayer, HTTPProtocolLayer>>
PostgreSQLLayers ==
    NodeDNSTCP \o <<PostgreSQLProtocolLayer, PostgreSQLAuthLayer, PostgreSQLSemanticLayer>>
MySQLLayers == NodeDNSTCP \o <<MySQLProtocolLayer, MySQLAuthLayer, MySQLSemanticLayer>>
RedisLayers == NodeDNSTCP \o <<RedisProtocolLayer, RedisAuthLayer, RedisSemanticLayer>>
MongoDBLayers ==
    NodeDNSTCP \o <<MongoDBProtocolLayer, MongoDBAuthLayer, MongoDBSemanticLayer>>
ElasticsearchLayers ==
    NodeDNSTCP \o <<TLSLayer, ElasticsearchProtocolLayer, ElasticsearchAuthLayer,
                    ElasticsearchSemanticLayer>>
KafkaLayers == Append(NodeDNSTCP, KafkaProtocolLayer)
RabbitMQLayers == NodeDNSTCP \o <<RabbitMQProtocolLayer, RabbitMQSemanticLayer>>
KeycloakLayers == NodeDNSTCP \o <<TLSLayer, KeycloakProtocolLayer>>
NginxLayers == Append(NodeDNSTCP, NginxProtocolLayer)
InternalCanaryLayers == Append(NodeDNSTCP, HTTPProtocolLayer)
ExternalHTTPLayers == <<DNSLayer, TCPLayer, TLSLayer, HTTPProtocolLayer>>
NodeEgressLayers == NodeDNSTCP
NodeToNodeLayers == <<NodeSanityChecker, TCPLayer>>
MSSQLLayers == Append(NodeDNSTCP, MSSQLProtocolLayer)
ClickHouseLayers == Append(NodeDNSTCP, ClickHouseProtocolLayer)
MinIOLayers == Append(NodeDNSTCP, MinIOProtocolLayer)
OpenSearchLayers == NodeDNSTCP \o <<TLSLayer, OpenSearchProtocolLayer>>

(* Registry.Create, with the factories of the default registry; the dashes *)
(* of four types are underscores here.  The agent as it is shipped has a   *)
(* registry of its own, in which every checker is a NodeSanityChecker.     *)
Registry ==
    [network |-> NetworkLayers, dns |-> NetworkLayers,
     http |-> HTTPLayers, https |-> HTTPLayers, kubernetes |-> KubernetesLayers,
     postgresql |-> PostgreSQLLayers, mysql |-> MySQLLayers, mssql |-> MSSQLLayers,
     redis |-> RedisLayers, mongodb |-> MongoDBLayers, clickhouse |-> ClickHouseLayers,
     elasticsearch |-> ElasticsearchLayers, opensearch |-> OpenSearchLayers,
     minio |-> MinIOLayers, kafka |-> KafkaLayers, rabbitmq |-> RabbitMQLayers,
     keycloak |-> KeycloakLayers, nginx |-> NginxLayers,
     internal_canary |-> InternalCanaryLayers, external_http |-> ExternalHTTPLayers,
     node_egress |-> NodeEgressLayers, node_to_node |-> NodeToNodeLayers]

Enabled(layer, t) == t.type \in layer.always \/ layer.name \in t.layers

(* The TLS layer only looks at https URLs.                                 *)
Phases(layer, t) ==
    IF layer.name = "L3" /\ t.type # "https" THEN << >> ELSE layer.phases

(* The code of a phase of a layer that ended with an answer or an error.   *)
Code(layer, kind, e) ==
    CASE kind = "secret" ->
             IF e \in layer.early THEN layer.answers[e]
             ELSE ExtractFailureCode(e, "config_error")
      [] kind = "dial" /\ Len(layer.phases) > 1 ->
             IF e = "timeout"
             THEN IF layer.name = "L3" THEN "tcp_timeout" ELSE "protocol_timeout"
             ELSE ExtractFailureCode(e, IF layer.name = "L3" THEN "tcp_timeout"
                                                             ELSE "protocol_error")
      [] OTHER ->
             IF e \in DOMAIN layer.answers THEN layer.answers[e]
             ELSE IF e = "timeout" \/ layer.failed = Passed THEN layer.timedOut
             ELSE ExtractFailureCode(e, layer.failed)
=============================================================================
