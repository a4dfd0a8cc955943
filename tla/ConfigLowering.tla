---------------------------- MODULE ConfigLowering ----------------------------
(***************************************************************************)
(* RuntimeConfig::from_config of the config crate (runtime.rs and the      *)
(* runtime directory): the document is lowered to the policies the proxy   *)
(* runs with, or refused with the category of the first check that fails.  *)
(* The checks repeat the validator's in part, in their own words and       *)
(* order, and read the files again.                                        *)
(***************************************************************************)
EXTENDS ConfigValidation

Check(ok, category) == IF ok THEN "ok" ELSE category
Invalid(ok) == Check(ok, "config_invalid")
Unsupported(ok) == Check(ok, "unsupported_policy_combination")
BadTls(ok) == Check(ok, "tls_material_invalid")

(* The `?` operator over checks made one after the other. *)
FirstError(results) ==
    LET failed == {i \in DOMAIN results : results[i] # "ok"}
    IN  IF failed = {} THEN "ok"
        ELSE results[CHOOSE i \in failed : \A j \in failed : i <= j]

-----------------------------------------------------------------------------
(* Secrets. *)

(* The file provider: the default one, or the only one, or a bare one      *)
(* without a base directory.                                               *)
BaseDir(s) ==
    IF Given(s.default)
    THEN LET named == {i \in DOMAIN s.providers : s.providers[i].name = s.default}
         IN  IF named = {} THEN None ELSE s.providers[CHOOSE i \in named : TRUE].base_dir
    ELSE IF Len(s.providers) = 1 THEN s.providers[1].base_dir ELSE None

(* Mutant: the path is judged by its text, links are not followed. *)
PathInsideLexical(disk, base, path) ==
    Given(base) => disk[base] \in {"dir", "barren"} /\ path \notin {"/abs", "../up"}

(* resolve_path: below a base directory a path is relative, names no       *)
(* parent, and is still below it once its links are followed.              *)
PathInside(disk, base, path) ==
    Given(base) => /\ disk[base] \in {"dir", "barren"}
                   /\ path \notin {"/abs", "../up", "link-out"}

FileReadable(disk, path) == disk[path] \notin {"absent", "dir", "barren", "large", "empty"}

(* What a reference yields: the literal's text, or the file's content. *)
ResolveRef(disk, base, ref) ==
    CASE ref.scheme = "literal" /\ ref.rest # "" -> [err |-> "ok", from |-> "literal", value |-> ref.rest]
      [] /\ ref.scheme = "file" /\ ref.rest # ""
         /\ PathInside(disk, base, ref.rest)
         /\ FileReadable(disk, ref.rest) ->
            [err |-> "ok", from |-> ref.rest, value |-> disk[ref.rest]]
      [] OTHER -> [err |-> "secret_resolution_failed", from |-> None, value |-> ""]

(* resolve_from_sources: both sources at once is a conflict. *)
ResolveSources(disk, base, hasLiteral, ref) ==
    IF hasLiteral THEN [err |-> "secret_resolution_failed", from |-> None, value |-> ""]
    ELSE ResolveRef(disk, base, ref)

(* into_string: only UTF-8 content becomes a text secret. *)
TextSecret(disk, base, hasLiteral, opt) ==
    IF opt = <<>> THEN "ok"
    ELSE LET r == ResolveSources(disk, base, hasLiteral, SomeOf(opt))
         IN  IF r.err = "ok" /\ r.value = "binary" THEN "secret_resolution_failed" ELSE r.err

SecretValue(disk, base, literal, opt) ==
    IF opt = <<>> THEN literal ELSE ResolveRef(disk, base, SomeOf(opt)).value

(* resolve_config_secrets, its errors: every upstream's JWT and OIDC       *)
(* secret, the admin token, every bearer token.                            *)
SecretErrors(disk, c) ==
    LET base == BaseDir(c.secrets)
        Auth(n) == c.upstream[n].auth
        a == c.control.auth
    IN  {TextSecret(disk, base, ~Blank(SomeOf(Auth(n).jwt).secret), SomeOf(Auth(n).jwt).secret_ref) :
             n \in {m \in DOMAIN c.upstream : Auth(m).jwt # <<>>}}
        \cup
        {TextSecret(disk, base, Present(SomeOf(Auth(n).external).secret),
                    SomeOf(Auth(n).external).secret_ref) :
             n \in {m \in DOMAIN c.upstream : Auth(m).external # <<>>
                                              /\ SomeOf(Auth(m).external).kind = "oidc"}}
        \cup {TextSecret(disk, base, Present(a.token), a.token_ref)}
        \cup {TextSecret(disk, base, ~Blank(a.bearer[i].token), a.bearer[i].ref) :
                  i \in DOMAIN a.bearer}

(* ... and the document it returns, with the references replaced. *)
ResolvedAuth(disk, base, a) ==
    [a EXCEPT
        !.jwt = IF @ = <<>> THEN @ ELSE
                <<[SomeOf(@) EXCEPT !.secret = SecretValue(disk, base, @, SomeOf(a.jwt).secret_ref),
                                    !.secret_ref = <<>>]>>,
        !.external = IF @ = <<>> THEN @ ELSE
                <<[SomeOf(@) EXCEPT !.secret = SecretValue(disk, base, @, SomeOf(a.external).secret_ref),
                                    !.secret_ref = <<>>]>>]

ResolvedConfig(disk, c) ==
    LET base == BaseDir(c.secrets)
    IN  [c EXCEPT
          !.upstream = [n \in DOMAIN @ |-> [@[n] EXCEPT !.auth = ResolvedAuth(disk, base, @)]],
          !.control.auth.token = SecretValue(disk, base, @, c.control.auth.token_ref),
          !.control.auth.token_ref = <<>>,
          !.control.auth.bearer =
              [i \in DOMAIN @ |-> [@[i] EXCEPT !.token = SecretValue(disk, base, @, c.control.auth.bearer[i].ref),
                                               !.ref = <<>>]]]

-----------------------------------------------------------------------------
(* RuntimePolicySet::from_config: timeouts, transport, rates, admission.   *)

TimeoutFields ==
    {"backend_timeout_ms", "backend_connect_timeout_ms", "backend_body_idle_timeout_ms",
     "backend_body_total_timeout_ms", "backend_total_request_timeout_ms",
     "shutdown_drain_timeout_ms", "client_body_idle_timeout_ms",
     "backend_dns_refresh_interval_ms", "h2_pool_idle_timeout_ms",
     "quic_max_idle_timeout_ms"}

(* Mutant: the timeouts have to grow strictly. *)
LowerTimeoutsStrict(p) ==
    Invalid(/\ AllPositive(p, TimeoutFields)
            /\ p.backend_connect_timeout_ms < p.backend_timeout_ms
            /\ p.backend_timeout_ms <= p.backend_body_idle_timeout_ms
            /\ p.backend_body_idle_timeout_ms <= p.backend_body_total_timeout_ms
            /\ p.backend_body_total_timeout_ms <= p.backend_total_request_timeout_ms)

LowerTimeouts(p) ==
    Invalid(/\ AllPositive(p, TimeoutFields)
            /\ p.backend_connect_timeout_ms <= p.backend_timeout_ms
            /\ p.backend_timeout_ms <= p.backend_body_idle_timeout_ms
            /\ p.backend_body_idle_timeout_ms <= p.backend_body_total_timeout_ms
            /\ p.backend_body_total_timeout_ms <= p.backend_total_request_timeout_ms)

LowerTransport(p) ==
    Invalid(/\ AllPositive(p, DOMAIN p \ (TimeoutFields \cup {"reuseport"}))
            /\ p.worker_threads <= 1024 /\ p.control_plane_threads <= 1024
            /\ p.packet_shards_per_worker <= 256
            /\ p.worker_threads > 1 => p.reuseport
            /\ p.quic_initial_max_stream_data <= p.quic_initial_max_data
            /\ p.max_request_body_bytes <= p.quic_initial_max_stream_data
            /\ p.max_request_body_bytes <= p.request_buffer_global_cap_bytes
            /\ p.unknown_length_response_prebuffer_bytes <= p.max_response_body_bytes)

(* RuntimeScopedRateLimitPolicy: a blank key is no key here. *)
LowerScopedLimit(limit) ==
    LET key == OptionalText(limit.key)
    IN  Invalid(/\ ~Blank(limit.name)
                /\ AllPositive(limit, {"rps", "burst", "idle_ttl"})
                /\ NoBlank(limit.routes)
                /\ CASE limit.scope = "route" -> ~Given(key)
                     [] limit.scope = "tenant" -> Given(key) /\ KeySpecOk(key)
                     [] OTHER -> Given(key) => KeySpecOk(key))

(* Rule names are compared as written, not trimmed. *)
LowerScopedLimits(limits) ==
    LET Name(limit) == limit.name
    IN  FirstError(<<FirstError([i \in DOMAIN limits |-> LowerScopedLimit(limits[i])]),
                     Invalid(DistinctBy(Name, limits))>>)

(* RuntimeRequestKeySpec::normalize takes the word before the colon as is. *)
RuntimeKeySpec(t) ==
    \/ Trim(t) \in PlainKeys
    \/ t \in DOMAIN KeyParts /\ KeyParts[t][2] # "" /\ KeyParts[t][1] \in {"header", "cookie", "query"}

LowerQuotaBackend(q) ==
    /\ ~Blank(q.prefix)
    /\ q.backend = "redis" =>
           ~Blank(q.url) /\ AllPositive(q, {"connect_timeout", "command_timeout", "max_inflight"})
    /\ q.fallback # <<>> =>
           /\ ~Blank(SomeOf(q.fallback).prefix) /\ SomeOf(q.fallback).max_entries > 0
           /\ q.backend = "redis"

(* A selector names at least one dimension, by keys of the dimension's     *)
(* kind, and no key twice.                                                 *)
DimensionKeys(dim) ==
    {"header:x", "cookie:x"} \cup (IF dim = "client" THEN {"peer_ip", "client_ip"} ELSE {"bearer_token"})

LowerSelector(policy) ==
    LET dims == {d \in {"tenant", "token", "client"} : Given(policy[d])}
    IN  /\ policy.route \/ dims # {}
        /\ \A d \in dims : RuntimeKeySpec(policy[d]) /\ Trim(policy[d]) \in DimensionKeys(d)
        /\ \A d, e \in dims : Trim(policy[d]) = Trim(policy[e]) => d = e

LowerQuotaPolicy(policy) ==
    LET windows == policy.burst \o policy.sustained
    IN  /\ ~Blank(policy.name) /\ NoBlank(policy.routes)
        /\ LowerSelector(policy)
        /\ windows # <<>>
        /\ \A i \in DOMAIN windows : windows[i].requests > 0 /\ windows[i].secs > 0
        /\ Len(windows) = 2 => windows[1].secs < windows[2].secs

(* Policies differ in name and in what they select and count. *)
LowerQuota(q) ==
    LET Name(policy) == Trim(policy.name)
        Fingerprint(policy) == [policy EXCEPT !.name = "", !.routes = Texts(policy.routes)]
    IN  Invalid(/\ LowerQuotaBackend(q)
                /\ \A i \in DOMAIN q.policies : LowerQuotaPolicy(q.policies[i])
                /\ DistinctBy(Name, q.policies) /\ DistinctBy(Fingerprint, q.policies)
                /\ q.enabled => q.policies # <<>>)

LowerRateLimits(c) == FirstError(<<LowerScopedLimits(c.scoped), LowerQuota(c.quota)>>)

(* The lowering's own, weaker reading of a CONNECT authority. *)
LowerConnect(p) ==
    /\ ~p.allow_connect => p.connect_ports = {} /\ p.connect_authorities = {}
    /\ 0 \notin p.connect_ports
    /\ \A a \in p.connect_authorities : ~Blank(a.host) /\ a.port \in 1..65535

(* Method lists are trimmed before their tokens are checked. *)
LowerProtocol(p) ==
    LET methods(s) == {Trim(t) : t \in Texts(s)}
    IN  /\ NoBlank(p.early_data_safe_methods) /\ NoBlank(p.allowed_methods)
        /\ \A t \in methods(p.early_data_safe_methods) \cup methods(p.allowed_methods) : HttpToken(t)
        /\ \A t \in Texts(p.denied_path_prefixes) : StartsWithSlash(Trim(t))
        /\ AllPositive(p, {"max_headers_count", "max_headers_bytes"})
        /\ LowerConnect(p)
        /\ p.allow_0rtt => /\ p.early_data_safe_methods # <<>>
                           /\ methods(p.early_data_safe_methods) \subseteq {"GET", "HEAD"}

LowerBreaker(b) == AllPositive(b, DOMAIN b)
LowerHedging(h) == h.enabled => h.delay_ms > 0
LowerRetry(r) == PercentOk(r.ratio_percent) /\ \A p \in Texts(r.per_route) : PercentOk(p)
LowerWatchdog(w) ==
    /\ AllPositive(w, {"check_interval", "poll_stall", "min_requests", "unhealthy_windows",
                       "drain_grace", "cooldown"})
    /\ PercentOk(w.timeout_error_rate) /\ PercentOk(w.overload)
    /\ w.restart_command # <<>> => StartsWithSlash(Trim(w.restart_command[1]))
    /\ ~Given(w.restart_hook)

LowerAdmission(c) ==
    LET a == c.adaptive
    IN  Invalid(/\ AllPositive(a, {"min_limit", "decrease_step", "increase_step"})
                /\ a.max_limit # Unset => /\ a.max_limit > 0 /\ a.max_limit >= a.min_limit
                                          /\ a.max_limit <= c.performance.global_inflight_limit
                /\ AllPositive(c.route_queue, {"default_cap", "global_cap", "shed_retry_after"})
                /\ \A cap \in Texts(c.route_queue.caps) : cap > 0
                /\ LowerProtocol(c.protocol)
                /\ BrownoutOk(c.brownout)
                /\ LowerBreaker(c.breaker) /\ LowerHedging(c.hedging)
                /\ LowerRetry(c.retry) /\ LowerWatchdog(c.watchdog))

LowerPolicies(c) ==
    FirstError(<<LowerTimeouts(c.performance), LowerTransport(c.performance),
                 LowerRateLimits(c), LowerAdmission(c)>>)

-----------------------------------------------------------------------------
(* Listeners: identities by path only, the files are read when they bind.  *)

BindKey(l) == <<Fold(Trim(l.address)), l.port>>

LowerIdentities(l) ==
    LET Name(e) == ServerName(e.server_name)
    IN  BadTls(/\ Blank(l.cert) <=> Blank(l.key)
               /\ l.client_auth.enabled => Present(l.client_auth.ca_file)
               /\ \A i \in DOMAIN l.certificates :
                     LET e == l.certificates[i]
                     IN  Name(e) # None /\ ~Blank(e.cert) /\ ~Blank(e.key)
               /\ DistinctBy(Name, l.certificates)
               /\ ~Blank(l.cert) \/ l.certificates # <<>>)

LowerListener(l) ==
    FirstError(<<BadTls(Blank(l.cert) <=> Blank(l.key)),
                 Unsupported(l.client_auth.required => l.client_auth.enabled),
                 LowerIdentities(l)>>)

(* Mutant: each listener is checked, but not against the others. *)
LowerListenersApart(c) ==
    FirstError([i \in DOMAIN EffectiveListens(c) |-> LowerListener(EffectiveListens(c)[i])])

LowerListeners(c) ==
    LET listens == EffectiveListens(c)
    IN  FirstError(<<FirstError([i \in DOMAIN listens |-> LowerListener(listens[i])]),
                     Check(DistinctBy(BindKey, listens), "listener_bind_conflict")>>)

-----------------------------------------------------------------------------
(* Upstreams, in the order of their names. *)

LowerExternalHeaders(x) == AuthHeadersOk(x.headers, x.allowlist)

LowerExternal(a) ==
    LET x == SomeOf(a.external)
    IN  FirstError(<<
          Unsupported(a.api_key = <<>> /\ a.jwt = <<>>),
          Unsupported(a.scopes = <<>> /\ a.roles = <<>>),
          Invalid(IF x.kind = "http" THEN HttpsOrLoopback(x.endpoint)
                  ELSE /\ Present(x.discovery) \/ Present(x.issuer)
                       /\ Present(x.discovery) => HttpsOrLoopback(x.discovery)
                       /\ Present(x.issuer) => HttpsOrLoopback(x.issuer)
                       /\ ~Blank(x.client_id)
                       /\ ~BlankWhenGiven(x.secret) /\ ~BlankWhenGiven(x.audience)
                       /\ NoBlank(x.scopes)),
          Invalid(LowerExternalHeaders(x) /\ x.timeout > 0)>>)

LowerJwt(j) ==
    Invalid(/\ j.algorithms # {}
            /\ "HS256" \in j.algorithms <=> ~Blank(j.secret)
            /\ ClaimListOk(j.issuer, j.issuers) /\ ClaimListOk(j.audience, j.audiences)
            /\ Given(j.jwks_url) => HttpsUrl(j.jwks_url) /\ Asymmetric(j)
            /\ j.static_keys # <<>> => Asymmetric(j)
            /\ Given(j.jwks_url) => AllPositive(j, {"refresh", "timeout", "ttl"}))

LowerStaticKeys(j) ==
    Invalid(/\ \A i \in DOMAIN j.static_keys :
                  ~BlankWhenGiven(j.static_keys[i].kid) /\ ~Blank(j.static_keys[i].key)
            /\ ~Blank(j.secret) \/ j.static_keys # <<>> \/ Given(j.jwks_url))

(* RuntimeAuthPolicy::normalize: the key-id clash is found here. *)
LowerKeyIds(j) ==
    Invalid(\A i, k \in DOMAIN j.static_keys :
               Present(j.static_keys[i].kid)
               /\ OptionalText(j.static_keys[i].kid) = OptionalText(j.static_keys[k].kid)
                   => Trim(j.static_keys[i].key) = Trim(j.static_keys[k].key))

(* validate_upstream_policy: host policy, route shape, then authentication. *)
LowerHostPolicy(u) ==
    Unsupported(IF u.host_mode = "rewrite" THEN StaticHost(u.host) ELSE ~Given(u.host))

LowerUpstreamPolicy(c, u) ==
    FirstError(<<
        LowerHostPolicy(u),
        Invalid(Given(u.route.path) => StartsWithSlash(u.route.path)),
        Unsupported(RouteMethod(u.route.method) = "CONNECT" => c.protocol.allow_connect),
        Invalid(u.auth.api_key # <<>> => ApiKeyOk(SomeOf(u.auth.api_key))),
        IF u.auth.external # <<>> THEN LowerExternal(u.auth) ELSE "ok",
        IF u.auth.jwt # <<>> THEN LowerJwt(SomeOf(u.auth.jwt)) ELSE "ok",
        IF u.auth.jwt # <<>> THEN LowerStaticKeys(SomeOf(u.auth.jwt)) ELSE "ok",
        Invalid(ClaimsOk(u.auth))>>)

(* RuntimeRouteMatchPolicy: the path prefix is trimmed as well. *)
RoutePolicy(u) ==
    [host |-> IF Present(u.route.host) THEN RouteHost(u.route.host) ELSE None,
     path |-> OptionalText(u.route.path),
     method |-> RouteMethod(u.route.method)]

LowerRoute(u) ==
    LET r == RoutePolicy(u)
    IN  Invalid(/\ Given(r.path) => StartsWithSlash(r.path)
                /\ Given(r.host) => RouteHostPattern(r.host)
                /\ Given(r.host) \/ Given(r.path))

LowerHealth(h) == AllPositive(h, {"interval", "timeout", "failures", "successes"})

LowerBackend(b) ==
    FirstError(<<Invalid(~Blank(b.id) /\ ~Blank(b.address.host)),
                 Check(EndpointOk(b.address), "backend_address_invalid"),
                 Invalid(b.health # <<>> => LowerHealth(SomeOf(b.health)))>>)

(* Client certificate and key: from the path or from the reference, parsed. *)
Material(disk, base, path, ref) ==
    IF Present(path) /\ ref # <<>> THEN [err |-> "secret_resolution_failed", from |-> None, value |-> ""]
    ELSE IF Present(path)
    THEN IF FileReadable(disk, Trim(path))
         THEN [err |-> "ok", from |-> Trim(path), value |-> disk[Trim(path)]]
         ELSE [err |-> "secret_resolution_failed", from |-> None, value |-> ""]
    ELSE ResolveRef(disk, base, SomeOf(ref))

LowerMaterial(disk, base, path, ref, kind) ==
    IF ~Present(path) /\ ref = <<>> THEN "ok"
    ELSE LET m == Material(disk, base, path, ref)
         IN  FirstError(<<m.err, BadTls(m.value = kind)>>)

(* The trust anchors: the CA file's and every PEM file of the directory.   *)
LowerCaFile(disk, path) ==
    IF ~Present(path) THEN "ok"
    ELSE FirstError(<<Check(FileReadable(disk, Trim(path)), "secret_resolution_failed"),
                      BadTls(disk[Trim(path)] = "certs")>>)
LowerCaDir(disk, path) == BadTls(Present(path) => disk[Trim(path)] = "dir")

LowerTlsMaterial(disk, base, t) ==
    FirstError(<<LowerMaterial(disk, base, t.cert, t.cert_ref, "certs"),
                 LowerMaterial(disk, base, t.key, t.key_ref, "key"),
                 LowerCaFile(disk, t.ca_file), LowerCaDir(disk, t.ca_dir)>>)

EffectiveTls(c, u) == IF u.tls # <<>> THEN SomeOf(u.tls) ELSE c.upstream_tls

LowerMutualTls(u, t) ==
    LET cert == Present(t.cert) \/ t.cert_ref # <<>>
        key == Present(t.key) \/ t.key_ref # <<>>
    IN  FirstError(<<Unsupported(cert <=> key),
                     Unsupported(cert => UsesHttps(u)),
                     BadTls(UsesHttps(u) => /\ ~BlankWhenGiven(t.ca_file)
                                            /\ ~BlankWhenGiven(t.ca_dir))>>)

(* RuntimeUpstream::from_config; files are read for https backends only.   *)
LowerUpstream(disk, c, u) ==
    FirstError(<<
        Invalid(Strategy(Fold(Trim(u.lb))) # "other" /\ (Given(u.key) => RuntimeKeySpec(u.key))),
        LowerRoute(u),
        IF u.auth.jwt # <<>> THEN LowerKeyIds(SomeOf(u.auth.jwt)) ELSE "ok",
        FirstError([i \in DOMAIN u.backends |-> LowerBackend(u.backends[i])]),
        IF UsesHttps(u) THEN LowerTlsMaterial(disk, BaseDir(c.secrets), EffectiveTls(c, u)) ELSE "ok">>)

(* Upstreams are taken in the order of their names. *)
NameOrder == <<"u1", "u2", "u3">>
UpTo(c, n) == {NameOrder[i] : i \in 1..(CHOOSE k \in DOMAIN NameOrder : NameOrder[k] = n)}
              \cap DOMAIN c.upstream

(* normalize_upstreams, for one upstream. *)
LowerNamed(disk, c, n) ==
    LET u == c.upstream[n]
        seen == {slot \in BackendSlots(c) : slot[1] \in UpTo(c, n)}
    IN  FirstError(<<LowerUpstreamPolicy(c, u), LowerRoute(u),
                     Check(\A m \in UpTo(c, n) \ {n} : RoutePolicy(c.upstream[m]) # RoutePolicy(u),
                           "duplicate_route_ambiguity"),
                     LowerUpstream(disk, c, u),
                     Check(\A s, t \in seen : OriginOf(c, s) = OriginOf(c, t) => s = t,
                           "backend_address_invalid"),
                     LowerMutualTls(u, EffectiveTls(c, u))>>)

(* from_config: the category of the first failure, or "ok". *)
Lower(disk, c) ==
    LET secrets == SecretErrors(disk, c) \ {"ok"}
        r == ResolvedConfig(disk, c)
    IN  IF secrets # {} THEN "secret_resolution_failed"
        ELSE FirstError(<<LowerPolicies(r), LowerListeners(r)>>
                        \o (IF DOMAIN r.upstream = {} THEN <<"config_invalid">>
                            ELSE <<Invalid(LowerProtocol(r.protocol))>>)
                        \o [i \in DOMAIN NameOrder |->
                               IF NameOrder[i] \in DOMAIN r.upstream
                               THEN LowerNamed(disk, r, NameOrder[i]) ELSE "ok"])

(* The runtime configuration: what the proxy's components are built from.  *)
TrustAnchors(t) == {OptionalText(t.ca_file), OptionalText(t.ca_dir)} \ {None}
RuntimeConfig(disk, c) ==
    LET r == ResolvedConfig(disk, c)
    IN  [config |-> r,
         bindings |-> [i \in DOMAIN EffectiveListens(r) |-> BindKey(EffectiveListens(r)[i])],
         routes |-> [n \in DOMAIN r.upstream |-> RoutePolicy(r.upstream[n])],
         trust |-> [n \in DOMAIN r.upstream |->
                       {<<p, disk[p]>> : p \in IF UsesHttps(r.upstream[n])
                                               THEN TrustAnchors(EffectiveTls(r, r.upstream[n]))
                                               ELSE {}}],
         adaptive_max |-> LET m == IF r.adaptive.max_limit = Unset
                                   THEN r.performance.global_inflight_limit ELSE r.adaptive.max_limit
                          IN  IF m < r.adaptive.min_limit THEN r.adaptive.min_limit ELSE m,
         backend_inflight |-> r.performance.per_backend_inflight_limit * r.performance.worker_threads]
=============================================================================
