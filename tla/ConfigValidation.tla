--------------------------- MODULE ConfigValidation ---------------------------
(***************************************************************************)
(* The validator of the config crate (crates/config/src/validator.rs and   *)
(* validator/*.rs): which documents it accepts, given the files the paths  *)
(* in them name.  Every operator is one validation function or one group   *)
(* of its checks; the text of the messages is left out.                    *)
(***************************************************************************)
EXTENDS ConfigSchema

AllPositive(r, fields) == \A f \in fields : r[f] > 0
PercentOk(n) == n <= 100
StartsWithSlash(t) == t \in {"/", "/a", "/A", "/b", "/m", "/h", "/r", "/s", "/t",
                             "/u", "/v", "/a/", "/a "}

(* Secret references: literal:... and file://... with something after them. *)
SecretRefOk(ref) == ref.scheme \in {"literal", "file"} /\ ~Blank(ref.rest)

(* A secret comes from its literal or from a reference, never from both. *)
SecretSourceOk(hasLiteral, ref) ==
    ref # <<>> => ~hasLiteral /\ SecretRefOk(SomeOf(ref))

SecretsOk(s) ==
    /\ Given(s.default) => ~Blank(s.default)
                           /\ \E i \in DOMAIN s.providers : s.providers[i].name = s.default
    /\ \A i \in DOMAIN s.providers : /\ ~Blank(s.providers[i].name)
                                     /\ ~BlankWhenGiven(s.providers[i].base_dir)

-----------------------------------------------------------------------------
(* Listeners. *)

ClientAuthOk(disk, auth) ==
    /\ auth.required => auth.enabled
    /\ auth.enabled => Present(auth.ca_file) /\ ReadCerts(disk, auth.ca_file)

(* The legacy pair is optional next to SNI entries, but never half given. *)
LegacyPairOk(disk, l) ==
    LET complete == ~Blank(l.cert) /\ ~Blank(l.key)
    IN  /\ ~Blank(l.cert) \/ ~Blank(l.key) \/ l.certificates # <<>>
        /\ (~Blank(l.cert) \/ ~Blank(l.key)) =>
               complete /\ ReadCerts(disk, l.cert) /\ ReadKey(disk, l.key)

SniEntriesOk(disk, entries) ==
    /\ \A i \in DOMAIN entries :
          LET e == entries[i]
          IN  /\ ServerName(e.server_name) # None
              /\ ~Blank(e.cert) /\ ~Blank(e.key)
              /\ ReadCerts(disk, e.cert) /\ ReadKey(disk, e.key)
    /\ LET Name(e) == ServerName(e.server_name) IN DistinctBy(Name, entries)

ListenOk(disk, l) ==
    /\ l.protocol = "http3"
    /\ l.address # "" /\ l.port # 0
    /\ LegacyPairOk(disk, l)
    /\ SniEntriesOk(disk, l.certificates)
    /\ ClientAuthOk(disk, l.client_auth)

(* Duplicates are told by the exact address text and the port. *)
ListenersOk(disk, c) ==
    LET Binding(l) == <<l.address, l.port>>
    IN  /\ \A i \in DOMAIN EffectiveListens(c) : ListenOk(disk, EffectiveListens(c)[i])
        /\ DistinctBy(Binding, c.listeners)

-----------------------------------------------------------------------------
(* validate_performance: every size, limit and period is positive ...      *)
PerformancePositive(p) ==
    /\ AllPositive(p, DOMAIN p \ {"reuseport"})
    /\ p.worker_threads <= 1024 /\ p.control_plane_threads <= 1024
    /\ p.packet_shards_per_worker <= 256
    /\ p.worker_threads > 1 => p.reuseport

(* ... and the ones that bound each other are in order. *)
PerformanceOrdered(p, watchdog) ==
    /\ watchdog.enabled => watchdog.drain_grace >= p.shutdown_drain_timeout_ms
    /\ p.quic_initial_max_stream_data <= p.quic_initial_max_data
    /\ p.backend_connect_timeout_ms <= p.backend_timeout_ms
    /\ p.backend_timeout_ms <= p.backend_body_idle_timeout_ms
    /\ p.backend_body_idle_timeout_ms <= p.backend_body_total_timeout_ms
    /\ p.backend_body_total_timeout_ms <= p.backend_total_request_timeout_ms
    /\ p.max_request_body_bytes <= p.quic_initial_max_stream_data
    /\ p.max_request_body_bytes <= p.request_buffer_global_cap_bytes
    /\ p.unknown_length_response_prebuffer_bytes <= p.max_response_body_bytes

AdmissionOk(c) ==
    /\ AllPositive(c.adaptive, {"min_limit", "decrease_step", "increase_step"})
    /\ c.adaptive.max_limit # Unset =>
           /\ c.adaptive.max_limit > 0
           /\ c.adaptive.max_limit >= c.adaptive.min_limit
           /\ c.adaptive.max_limit <= c.performance.global_inflight_limit
    /\ AllPositive(c.route_queue, {"default_cap", "global_cap", "shed_retry_after"})
    /\ \A cap \in Texts(c.route_queue.caps) : cap > 0

ProtocolOk(p) ==
    /\ AllPositive(p, {"max_headers_count", "max_headers_bytes"})
    /\ \A t \in Texts(p.early_data_safe_methods) \cup Texts(p.allowed_methods) : HttpToken(t)
    /\ \A t \in Texts(p.denied_path_prefixes) : StartsWithSlash(t)
    /\ ~p.allow_connect => p.connect_ports = {} /\ p.connect_authorities = {}
    /\ 0 \notin p.connect_ports
    /\ \A a \in p.connect_authorities : ConnectAuthority(a)
    /\ p.allow_0rtt => /\ p.early_data_safe_methods # <<>>
                       /\ Texts(p.early_data_safe_methods) \subseteq {"GET", "HEAD"}

BreakerAndRetryOk(c) ==
    /\ AllPositive(c.breaker, DOMAIN c.breaker)
    /\ PercentOk(c.retry.ratio_percent)
    /\ \A p \in Texts(c.retry.per_route) : PercentOk(p)

(* is_valid_request_key_spec trims the word before the colon. *)
KeySpecOk(t) ==
    LET part == KeyParts[t]
    IN  \/ Trim(t) \in PlainKeys
        \/ /\ t \in DOMAIN KeyParts
           /\ part[2] # ""
           /\ part[1] \in {"header", "header ", "cookie", "query"}

ScopedKeyOk(limit) ==
    CASE limit.scope = "route" -> ~Present(limit.key)
      [] limit.scope = "tenant" -> Given(limit.key) /\ KeySpecOk(limit.key)
      [] OTHER -> Given(limit.key) => KeySpecOk(limit.key)

ScopedLimitsOk(limits) ==
    /\ \A i \in DOMAIN limits :
          LET limit == limits[i]
          IN  /\ ~Blank(limit.name)
              /\ AllPositive(limit, {"rps", "burst", "idle_ttl"})
              /\ NoBlank(limit.routes)
              /\ ScopedKeyOk(limit)
    /\ LET Name(limit) == Trim(limit.name) IN DistinctBy(Name, limits)

BrownoutOk(b) == PercentOk(b.trigger) /\ PercentOk(b.recover) /\ b.recover < b.trigger

WatchdogOk(w) ==
    /\ AllPositive(w, {"check_interval", "poll_stall", "min_requests",
                       "unhealthy_windows", "drain_grace", "cooldown"})
    /\ PercentOk(w.timeout_error_rate) /\ PercentOk(w.overload)
    /\ w.restart_command # <<>> => StartsWithSlash(Trim(w.restart_command[1]))
    /\ ~Given(w.restart_hook)

-----------------------------------------------------------------------------
(* Observability and the control API. *)

MetricsOk(c) ==
    c.metrics.enabled =>
        /\ c.metrics.address # "" /\ c.metrics.port # 0
        /\ StartsWithSlash(c.metrics.path)
        /\ AllPositive(c.metrics, {"max_connections", "timeout"})
        /\ ~Loopback(c.metrics.address) =>
               c.metrics.non_loopback /\ c.control.mode = "required"

ControlAuthenticationOk(api) ==
    LET a == api.auth
        hasToken == Present(a.token) \/ a.token_ref # <<>> \/ a.bearer # <<>>
    IN  /\ ~BlankWhenGiven(a.token) /\ a.token # "change-me"
        /\ SecretSourceOk(Present(a.token), a.token_ref)
        /\ \A i \in DOMAIN a.bearer :
              LET b == a.bearer[i]
              IN  /\ ~Blank(b.token) \/ b.ref # <<>>
                  /\ SecretSourceOk(~Blank(b.token), b.ref)
                  /\ ~BlankWhenGiven(b.actor)
        /\ Given(a.identity) => a.identity = "san" /\ api.mode # "disabled"
        /\ api.mode # "required" => hasToken

ControlSecurityOk(disk, api) ==
    /\ api.mode # "disabled" => Given(api.ca_file) \/ Given(api.ca_dir)
    /\ ~BlankWhenGiven(api.ca_file) /\ ~BlankWhenGiven(api.ca_dir)
    /\ Given(api.ca_dir) => disk[Trim(api.ca_dir)] = "dir"
    /\ api.roles[1] <= api.roles[2] /\ api.roles[2] <= api.roles[3]
    /\ \A t \in Texts(api.cidrs) \cup Texts(api.trusted) : t = "10.0.0.0/8"
    /\ api.trust_proxy => api.trusted # <<>>
    /\ ~BlankWhenGiven(api.audit_path)
    /\ Given(api.audit_path) <=> api.audit_sink = "file"
    /\ ControlAuthenticationOk(api)

ControlApiOk(disk, api) ==
    api.enabled =>
        /\ api.address # "" /\ api.port # 0
        /\ \A t \in Texts(api.paths) : StartsWithSlash(t)
        /\ AllPositive(api, {"max_connections", "timeout"})
        /\ ControlSecurityOk(disk, api)

(* The sampling ratio is in tenths: 0..10 stands for [0.0, 1.0]. *)
TracingOk(c) ==
    /\ c.routing.expose => ~Blank(c.routing.name)
    /\ c.tracing.enabled => /\ ~Blank(c.tracing.service)
                            /\ c.tracing.ratio \in 0..10
                            /\ ~BlankWhenGiven(c.tracing.endpoint)

PrivilegesOk(s) == s.enabled => ~Blank(s.user) /\ ~Blank(s.group)

-----------------------------------------------------------------------------
(* Authentication of an upstream's routes. *)

(* Header lists of an external authorizer; names are compared folded. *)
AuthHeadersOk(headers, allowlist) ==
    LET Name(h) == Fold(Trim(h.name))
        Allowed(t) == Fold(Trim(t))
    IN  /\ \A i \in DOMAIN headers : HttpToken(Trim(headers[i].name))
                                     /\ headers[i].value # "bad value"
        /\ DistinctBy(Name, headers)
        /\ \A t \in Texts(allowlist) : HttpToken(Trim(t))
        /\ DistinctBy(Allowed, allowlist)

ApiKeyOk(k) ==
    /\ HttpToken(Trim(k.header))
    /\ k.keys # <<>> /\ NoBlank(k.keys)
    /\ DistinctBy(Trim, k.keys)

HttpAuthorizerOk(x) ==
    HttpsOrLoopback(x.endpoint) /\ AuthHeadersOk(x.headers, x.allowlist) /\ x.timeout > 0

OidcOk(x) ==
    /\ Present(x.discovery) \/ Present(x.issuer)
    /\ Present(x.discovery) => HttpsOrLoopback(x.discovery)
    /\ Present(x.issuer) => HttpsOrLoopback(x.issuer)
    /\ ~Blank(x.client_id)
    /\ SecretSourceOk(Present(x.secret), x.secret_ref)
    /\ ~BlankWhenGiven(x.secret) /\ ~BlankWhenGiven(x.audience)
    /\ NoBlank(x.scopes)
    /\ AuthHeadersOk(x.headers, x.allowlist) /\ x.allowlist = <<>>
    /\ x.timeout > 0

ExternalAuthOk(a) ==
    /\ a.api_key = <<>> /\ a.jwt = <<>> /\ a.scopes = <<>> /\ a.roles = <<>>
    /\ IF SomeOf(a.external).kind = "http" THEN HttpAuthorizerOk(SomeOf(a.external))
       ELSE OidcOk(SomeOf(a.external))

ClaimListOk(one, many) ==
    /\ ~BlankWhenGiven(one)
    /\ many # <<>> => ~Given(one) /\ SomeOf(many) # <<>> /\ NoBlank(SomeOf(many))

Asymmetric(j) == j.algorithms \cap {"RS256", "ES256"} # {}

JwtOk(j) ==
    LET hasSecret == ~Blank(j.secret) \/ j.secret_ref # <<>>
    IN  /\ j.algorithms # {}
        /\ SecretSourceOk(~Blank(j.secret), j.secret_ref)
        /\ "HS256" \in j.algorithms <=> hasSecret
        /\ ClaimListOk(j.issuer, j.issuers) /\ ClaimListOk(j.audience, j.audiences)
        /\ Given(j.jwks_url) => HttpsUrl(j.jwks_url) /\ Asymmetric(j)
        /\ j.static_keys # <<>> => Asymmetric(j)
        /\ Given(j.jwks_url) => AllPositive(j, {"refresh", "timeout", "ttl"})

(* Two static keys may share a key id only when they are the same key. *)
StaticKeysOk(j) ==
    /\ \A i \in DOMAIN j.static_keys :
          ~BlankWhenGiven(j.static_keys[i].kid) /\ ~Blank(j.static_keys[i].key)
    /\ \A i, k \in DOMAIN j.static_keys :
          Present(j.static_keys[i].kid)
          /\ Trim(j.static_keys[i].kid) = Trim(j.static_keys[k].kid)
              => j.static_keys[i].key = j.static_keys[k].key
    /\ ~Blank(j.secret) \/ j.secret_ref # <<>> \/ j.static_keys # <<>> \/ Given(j.jwks_url)

ClaimsOk(a) ==
    /\ NoBlank(a.scopes) /\ NoBlank(a.roles)
    /\ a.scopes # <<>> \/ a.roles # <<>> => a.jwt # <<>>

AuthOk(a) ==
    /\ a.api_key # <<>> => ApiKeyOk(SomeOf(a.api_key))
    /\ a.external # <<>> => ExternalAuthOk(a)
    /\ a.jwt # <<>> => JwtOk(SomeOf(a.jwt)) /\ StaticKeysOk(SomeOf(a.jwt))
    /\ ClaimsOk(a)

-----------------------------------------------------------------------------
(* Upstreams and their backends. *)

(* BackendEndpoint::parse: no scheme means https, no port the scheme's. *)
BackendScheme(a) == IF a.scheme = "none" THEN "https" ELSE a.scheme
BackendPort(a) == IF a.port # Unset THEN a.port
                  ELSE IF BackendScheme(a) = "https" THEN 443 ELSE 80
EndpointOk(a) ==
    /\ BackendScheme(a) \in {"http", "https"}
    /\ a.host \notin {"", " ", "bad host", "-x"}
    /\ a.path = ""
    /\ BackendPort(a) \in 1..65535
Origin(a) == <<BackendScheme(a), a.host, BackendPort(a)>>
UsesHttps(u) == \E i \in DOMAIN u.backends : BackendScheme(u.backends[i].address) = "https"

(* A client certificate or key is a file or a reference; both come or none. *)
ClientMaterialOk(t) ==
    /\ SecretSourceOk(Present(t.cert), t.cert_ref)
    /\ SecretSourceOk(Present(t.key), t.key_ref)
    /\ (Present(t.cert) \/ t.cert_ref # <<>>) <=> (Present(t.key) \/ t.key_ref # <<>>)

UpstreamTlsOk(disk, t) ==
    /\ Given(t.ca_file) => ~Blank(t.ca_file) /\ ReadCerts(disk, t.ca_file)
    /\ Given(t.ca_dir) => ~Blank(t.ca_dir) /\ disk[Trim(t.ca_dir)] \in {"dir", "barren"}
    /\ ClientMaterialOk(t)

RouteOk(u) ==
    /\ Present(u.route.host) \/ Given(u.route.path)
    /\ Given(u.route.host) => RouteHostPattern(u.route.host)
    /\ Given(u.route.path) => StartsWithSlash(u.route.path)
    /\ IF u.host_mode = "rewrite" THEN StaticHost(u.host) ELSE ~Given(u.host)

(* Route keys are told apart by folded host, raw path and folded method. *)
RouteKey(u) == <<IF Present(u.route.host) THEN RouteHost(u.route.host) ELSE None,
                 u.route.path, RouteMethod(u.route.method)>>

(* Least-connections and latency-aware balancing take default weights only. *)
WeightOk(strategy, w) ==
    w \in 1..1000 /\ (strategy \in {"least-connections", "latency-aware"} => w = 100)

HealthCheckOk(h) == AllPositive(h, {"interval", "timeout", "failures", "successes", "cooldown"})

BackendOk(u, b) ==
    /\ b.id # "" /\ b.address.host # ""
    /\ EndpointOk(b.address)
    /\ WeightOk(Strategy(Fold(u.lb)), b.weight)
    /\ b.health # <<>> => HealthCheckOk(SomeOf(b.health))

UpstreamOk(disk, c, name) ==
    LET u == c.upstream[name]
    IN  /\ name # ""
        /\ Strategy(Fold(u.lb)) # "other"
        /\ AuthOk(u.auth)
        /\ u.backends # <<>>
        /\ \A i \in DOMAIN u.backends : BackendOk(u, u.backends[i])
        /\ UsesHttps(u) =>
               UpstreamTlsOk(disk, IF u.tls # <<>> THEN SomeOf(u.tls) ELSE c.upstream_tls)

BackendSlots(c) == UNION {{<<n, i>> : i \in DOMAIN c.upstream[n].backends} : n \in DOMAIN c.upstream}
OriginOf(c, slot) == Origin(c.upstream[slot[1]].backends[slot[2]].address)

UpstreamsOk(disk, c) ==
    /\ DOMAIN c.upstream # {}
    /\ \A m, n \in DOMAIN c.upstream : RouteKey(c.upstream[m]) = RouteKey(c.upstream[n]) => m = n
    /\ \A n \in DOMAIN c.upstream : RouteOk(c.upstream[n]) /\ UpstreamOk(disk, c, n)
    /\ \A s, t \in BackendSlots(c) : OriginOf(c, s) = OriginOf(c, t) => s = t

GlobalOk(disk, c) ==
    /\ ListenersOk(disk, c)
    /\ Fold(c.log_level) \in LogLevels
    /\ Given(c.lb) => Strategy(Fold(c.lb)) # "other"
    /\ PerformancePositive(c.performance) /\ PerformanceOrdered(c.performance, c.watchdog)
    /\ AdmissionOk(c) /\ ProtocolOk(c.protocol) /\ BreakerAndRetryOk(c)
    /\ ScopedLimitsOk(c.scoped) /\ BrownoutOk(c.brownout) /\ WatchdogOk(c.watchdog)
    /\ MetricsOk(c) /\ ControlApiOk(disk, c.control) /\ TracingOk(c)
    /\ PrivilegesOk(c.security)

(* validate: version, secrets, the global sections, routes and upstreams. *)
Validate(disk, c) ==
    c.version = 1 /\ SecretsOk(c.secrets) /\ GlobalOk(disk, c) /\ UpstreamsOk(disk, c)
=============================================================================
