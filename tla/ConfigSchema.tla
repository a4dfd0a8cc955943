----------------------------- MODULE ConfigSchema -----------------------------
(***************************************************************************)
(* The configuration document of the config crate (crates/config/src/      *)
(* config/*.rs): its sections as nested records, their defaults, and the   *)
(* text helpers that both the validator and the lowering use.              *)
(*                                                                         *)
(* A text is a string taken from a small vocabulary; what trimming and     *)
(* case folding do to a member of it is tabulated.  None is an absent      *)
(* Option<String>, Unset an absent Option<number>; an optional value of    *)
(* any other type is a sequence of length 0 or 1.                          *)
(***************************************************************************)
EXTENDS Integers, Sequences, FiniteSets, TLC

None == "none"
Unset == -1

(* Texts with blanks around them, and what str::trim leaves of them. *)
Padded ==
    " " :> "" @@ " GET" :> "GET" @@ " rr" :> "rr" @@ " n1" :> "n1"
    @@ " 0.0.0.0" :> "0.0.0.0" @@ " /a" :> "/a" @@ "/a " :> "/a" @@ " h" :> "h"
    @@ " k" :> "k" @@ " cert" :> "cert"

(* Texts with letters in the other case, and their canonical spelling. *)
Folded ==
    "RR" :> "rr" @@ "INFO" :> "info" @@ "H" :> "h" @@ "post" :> "POST"
    @@ "connect" :> "CONNECT" @@ "LOCALHOST" :> "localhost" @@ "X-A" :> "x-a"

Trim(t) == IF t \in DOMAIN Padded THEN Padded[t] ELSE t
Fold(t) == IF t \in DOMAIN Folded THEN Folded[t] ELSE t
Given(t) == t # None
Blank(t) == Trim(t) = ""
Present(t) == Given(t) /\ ~Blank(t)
BlankWhenGiven(t) == Given(t) /\ Blank(t)
Texts(s) == {s[i] : i \in DOMAIN s}
NoBlank(s) == \A t \in Texts(s) : ~Blank(t)
DistinctBy(f(_), s) == \A i, j \in DOMAIN s : f(s[i]) = f(s[j]) => i = j
SomeOf(opt) == opt[1]

(* is_valid_http_token; a blank inside the text is not a token character. *)
HttpToken(t) == t \notin {"", "bad name"} /\ t \notin DOMAIN Padded

(* normalize_optional_string: a blank text counts as absent. *)
OptionalText(t) == IF Present(t) THEN Trim(t) ELSE None

(* The words before and after the first colon of a request-key text. *)
KeyParts ==
    "header:x" :> <<"header", "x">> @@ "cookie:x" :> <<"cookie", "x">>
    @@ "header :x" :> <<"header ", "x">> @@ "header:" :> <<"header", "">>
    @@ "body:x" :> <<"body", "x">>

PlainKeys == {"path", "authority", "method", "cid", "sticky-cid", "peer_ip",
              "client_ip", "bearer_token"}

Scheme(url) == CASE url = "https://x" -> "https"
                 [] url = "http://localhost" -> "loopback"
                 [] url = "http://x" -> "http"
                 [] OTHER -> "none"
HttpsUrl(t) == Scheme(Trim(t)) = "https"
HttpsOrLoopback(t) == Scheme(Trim(t)) \in {"https", "loopback"}

(* Route methods are trimmed and upper-cased, a blank one is no method. *)
RouteMethod(t) == IF Present(t) THEN Fold(Trim(t)) ELSE None

(* Route hosts: brackets, a numeric port and a final dot are dropped, the  *)
(* rest is folded; only a leading "*." may hold a star.                    *)
HostForms == "h:80" :> "h" @@ "h." :> "h" @@ "[h]" :> "h"
RouteHost(t) ==
    LET trimmed == Trim(t)
    IN  Fold(IF trimmed \in DOMAIN HostForms THEN HostForms[trimmed] ELSE trimmed)
RouteHostPattern(t) == RouteHost(t) \notin {"", "h/x", "a*b", "*."}

(* A static Host header may not be padded; SNI names are DNS names only. *)
StaticHost(t) == t \notin {None, "", "h/x"} /\ t \notin DOMAIN Padded
ServerName(t) == IF Trim(t) \in {"", "h:80", "*.h", "127.0.0.1"} THEN None
                 ELSE RouteHost(t)

Loopback(t) == Fold(Trim(t)) \in {"localhost", "127.0.0.1"}

(* An authority "host:port" a CONNECT may name, split at its last colon. *)
ConnectAuthority(a) == a.host \notin {"", "a:b"} /\ a.port \in 1..65535

(* Files by path: certificates or a key in PEM form, text without either,  *)
(* an empty file, one over the size limit, a directory with PEM            *)
(* certificates or without any, or nothing at all.                         *)
FileKinds == {"certs", "key", "junk", "empty", "large", "dir", "barren", "absent"}
ReadCerts(disk, path) == disk[Trim(path)] = "certs"
ReadKey(disk, path) == disk[Trim(path)] = "key"

LogLevels == {"whisper", "haunt", "impulse", "scream", "poltergeist", "silence",
              "trace", "debug", "info", "warn", "error", "off"}

Strategy(t) ==
    CASE t \in {"round-robin", "rr"} -> "round-robin"
      [] t \in {"consistent-hash", "ch"} -> "consistent-hash"
      [] t = "random" -> "random"
      [] t \in {"least-connections", "lc"} -> "least-connections"
      [] t \in {"latency-aware", "la"} -> "latency-aware"
      [] t = "sticky-cid" -> "sticky-cid"
      [] OTHER -> "other"

-----------------------------------------------------------------------------
PerformanceDefaults ==
    [worker_threads |-> 1, control_plane_threads |-> 2,
     packet_shards_per_worker |-> 1, packet_shard_queue_capacity |-> 2048,
     packet_shard_queue_max_bytes |-> 67108864, reuseport |-> TRUE,
     global_inflight_limit |-> 4096, per_upstream_inflight_limit |-> 1024,
     backend_timeout_ms |-> 2000, backend_connect_timeout_ms |-> 500,
     backend_body_idle_timeout_ms |-> 2000,
     backend_body_total_timeout_ms |-> 30000,
     backend_total_request_timeout_ms |-> 35000,
     shutdown_drain_timeout_ms |-> 5000, udp_recv_buffer_bytes |-> 8388608,
     udp_send_buffer_bytes |-> 8388608, h2_pool_max_idle_per_backend |-> 256,
     h2_pool_idle_timeout_ms |-> 90000, backend_dns_refresh_interval_ms |-> 30000,
     per_backend_inflight_limit |-> 64, new_connections_per_sec |-> 2000,
     new_connections_burst |-> 500, max_active_connections |-> 20000,
     quic_max_idle_timeout_ms |-> 5000, quic_initial_max_data |-> 10000000,
     quic_initial_max_stream_data |-> 1000000,
     quic_initial_max_streams_bidi |-> 100, quic_initial_max_streams_uni |-> 100,
     max_response_body_bytes |-> 104857600, max_request_body_bytes |-> 1000000,
     request_buffer_global_cap_bytes |-> 67108864,
     unknown_length_response_prebuffer_bytes |-> 2097152,
     client_body_idle_timeout_ms |-> 10000]

AdaptiveDefaults == [min_limit |-> 64, max_limit |-> Unset, decrease_step |-> 16,
                     increase_step |-> 16]
RouteQueueDefaults == [default_cap |-> 512, global_cap |-> 2048,
                       shed_retry_after |-> 1, caps |-> <<>>]
ScopedRateLimit(name, scope, key) ==
    [name |-> name, scope |-> scope, key |-> key, rps |-> 10, burst |-> 10,
     idle_ttl |-> 60, routes |-> <<>>]
ProtocolDefaults ==
    [max_headers_count |-> 128, max_headers_bytes |-> 16384, allow_0rtt |-> FALSE,
     early_data_safe_methods |-> <<"GET", "HEAD">>, allowed_methods |-> <<>>,
     denied_path_prefixes |-> <<>>, allow_connect |-> FALSE,
     connect_ports |-> {}, connect_authorities |-> {}]
BreakerDefaults == [failure_threshold |-> 3, open_ms |-> 30000, probes |-> 1]
HedgingDefaults == [enabled |-> FALSE, delay_ms |-> 100]
RetryDefaults == [ratio_percent |-> 10, per_route |-> <<>>]
BrownoutDefaults == [trigger |-> 90, recover |-> 60]
WatchdogDefaults ==
    [enabled |-> FALSE, check_interval |-> 1000, poll_stall |-> 5000,
     timeout_error_rate |-> 60, min_requests |-> 20, overload |-> 95,
     unhealthy_windows |-> 3, drain_grace |-> 8000, cooldown |-> 120000,
     restart_hook |-> None, restart_command |-> <<>>]

(* Distributed quotas: the counter backend, its local fallback, policies. *)
QuotaWindow(n, secs) == [requests |-> n, secs |-> secs]
QuotaPolicy(name, tenant) ==
    [name |-> name, routes |-> <<>>, route |-> FALSE, tenant |-> tenant,
     token |-> None, client |-> None, burst |-> <<QuotaWindow(5, 1)>>,
     sustained |-> <<QuotaWindow(50, 60)>>]
QuotaDefaults ==
    [enabled |-> FALSE, backend |-> "in_memory", url |-> "", prefix |-> "quota",
     connect_timeout |-> 100, command_timeout |-> 50, max_inflight |-> 64,
     fallback |-> <<>>, policies |-> <<>>]

HealthCheckDefaults == [interval |-> 5000, timeout |-> 1000, failures |-> 3,
                        successes |-> 2, cooldown |-> 5000, path |-> "/"]
Backend(id, address) ==
    [id |-> id, address |-> address, weight |-> 100,
     health |-> <<HealthCheckDefaults>>]
Address(scheme, host, port) ==
    [scheme |-> scheme, host |-> host, port |-> port, path |-> ""]

ApiKeyAuth == [header |-> "X-Api-Key", keys |-> <<"k">>]
ExternalAuth(kind) ==
    [kind |-> kind, endpoint |-> "https://x", discovery |-> "https://x",
     issuer |-> None, client_id |-> "c", secret |-> None, secret_ref |-> <<>>,
     audience |-> None, scopes |-> <<"openid">>, headers |-> <<>>,
     allowlist |-> <<>>, timeout |-> 1000]
JwtDefaults ==
    [algorithms |-> {"HS256"}, secret |-> "", secret_ref |-> <<>>,
     issuer |-> None, issuers |-> <<>>, audience |-> None, audiences |-> <<>>,
     jwks_url |-> None, static_keys |-> <<>>, refresh |-> 300, timeout |-> 2000,
     ttl |-> 900]
NoAuth == [api_key |-> <<>>, external |-> <<>>, jwt |-> <<>>,
           scopes |-> <<>>, roles |-> <<>>]
Upstream(route, backends) ==
    [lb |-> None, key |-> None, auth |-> NoAuth, host_mode |-> "pass",
     host |-> None, tls |-> <<>>, route |-> route, backends |-> backends]

UpstreamTlsDefaults == [ca_file |-> None, ca_dir |-> None, cert |-> None,
                        cert_ref |-> <<>>, key |-> None, key_ref |-> <<>>]
Listen(address, port) ==
    [protocol |-> "http3", address |-> address, port |-> port, cert |-> "cert",
     key |-> "key", certificates |-> <<>>,
     client_auth |-> [enabled |-> FALSE, required |-> FALSE, ca_file |-> None]]

MetricsDefaults ==
    [enabled |-> FALSE, address |-> "127.0.0.1", port |-> 9901, path |-> "/m",
     non_loopback |-> FALSE, max_connections |-> 512, timeout |-> 30000]
ControlAuthDefaults ==
    [token |-> None, token_ref |-> <<>>, bearer |-> <<>>, identity |-> None]
ControlApiDefaults ==
    [enabled |-> FALSE, address |-> "127.0.0.1", port |-> 9902,
     paths |-> <<"/h", "/r", "/s", "/t", "/u", "/v">>, max_connections |-> 256,
     timeout |-> 30000, mode |-> "disabled", ca_file |-> None, ca_dir |-> None,
     roles |-> <<1, 2, 3>>, cidrs |-> <<>>, trust_proxy |-> FALSE,
     trusted |-> <<>>, audit_sink |-> "log", audit_path |-> None,
     auth |-> ControlAuthDefaults]
TracingDefaults == [enabled |-> FALSE, service |-> "impulse", ratio |-> 10,
                    endpoint |-> None]
RoutingHeaderDefaults == [expose |-> FALSE, name |-> "x-route"]
SecurityDefaults == [enabled |-> TRUE, user |-> "nobody", group |-> "nogroup"]
SecretsDefaults == [default |-> None, providers |-> <<>>]

Config(upstreams) ==
    [version |-> 1, secrets |-> SecretsDefaults, listen |-> Listen("0.0.0.0", 9889),
     listeners |-> <<>>, log_level |-> "info", lb |-> None, lb_key |-> None,
     upstream_tls |-> UpstreamTlsDefaults, performance |-> PerformanceDefaults,
     adaptive |-> AdaptiveDefaults, route_queue |-> RouteQueueDefaults,
     protocol |-> ProtocolDefaults, breaker |-> BreakerDefaults,
     hedging |-> HedgingDefaults, retry |-> RetryDefaults,
     brownout |-> BrownoutDefaults, watchdog |-> WatchdogDefaults,
     scoped |-> <<>>, quota |-> QuotaDefaults, metrics |-> MetricsDefaults,
     control |-> ControlApiDefaults, tracing |-> TracingDefaults,
     routing |-> RoutingHeaderDefaults, security |-> SecurityDefaults,
     upstream |-> upstreams]

(* effective_listens: the legacy listen section counts only alone. *)
EffectiveListens(c) == IF c.listeners = <<>> THEN <<c.listen>> ELSE c.listeners
=============================================================================
