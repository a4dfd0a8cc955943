---------------------------- MODULE ConfigPipeline ----------------------------
(***************************************************************************)
(* From an edited document to a serving generation: the operator changes   *)
(* fields of the document and files on disk, the document is loaded,       *)
(* validated, lowered and, when both agree, served; requests are then      *)
(* routed by the index built from it.                                      *)
(*                                                                         *)
(* Scenario names the sections that are edited in a behaviour; the others  *)
(* keep the base document's values.  MaxEdits bounds the edits before the  *)
(* document is loaded, MaxTouches the changes of files after it has been   *)
(* validated.                                                              *)
(***************************************************************************)
EXTENDS ConfigLowering, RouteIndex

CONSTANTS Scenarios, MaxEdits, MaxTouches

ASSUME BoundsAssumption == MaxEdits \in Nat /\ MaxTouches \in Nat

VARIABLES scenario, doc, disk, stage, edits, touches, verdict, runtime, answer

vars == <<scenario, doc, disk, stage, edits, touches, verdict, runtime, answer>>

NotLowered == [config |-> None]
NoAnswer == [index |-> None]

-----------------------------------------------------------------------------
(* Deviations: for each section, the documents one edit away. *)

EditFields(d, section, fields, values) ==
    UNION {{[d EXCEPT ![section][f] = v] : v \in values} : f \in fields}

LimitEdits(d) ==
    EditFields(d, "performance", DOMAIN d.performance \ {"reuseport"}, {0, 1, 134217728})
    \cup {[d EXCEPT !.performance.reuseport = FALSE]}
    \cup EditFields(d, "adaptive", {"min_limit", "max_limit", "decrease_step", "increase_step"}, {0, 8192})
    \cup EditFields(d, "route_queue", {"default_cap", "global_cap", "shed_retry_after"}, {0})
    \cup {[d EXCEPT !.route_queue.caps = <<0>>]}
    \cup EditFields(d, "breaker", DOMAIN d.breaker, {0})
    \cup {[d EXCEPT !.retry.ratio_percent = 101], [d EXCEPT !.retry.per_route = <<101>>]}
    \cup EditFields(d, "brownout", {"trigger", "recover"}, {50, 101})
    \cup EditFields(d, "watchdog", {"check_interval", "poll_stall", "min_requests", "unhealthy_windows",
                                    "drain_grace", "cooldown", "timeout_error_rate", "overload"}, {0, 101})
    \cup {[d EXCEPT !.watchdog.enabled = TRUE], [d EXCEPT !.watchdog.restart_hook = "hook"],
          [d EXCEPT !.watchdog.restart_command = <<" ">>], [d EXCEPT !.watchdog.restart_command = <<"/a">>]}
    \cup {[d EXCEPT !.hedging = [enabled |-> TRUE, delay_ms |-> ms]] : ms \in {0, 10}}

ProtocolEdits(d) ==
    EditFields(d, "protocol", {"max_headers_count", "max_headers_bytes"}, {0})
    \cup EditFields(d, "protocol", {"early_data_safe_methods", "allowed_methods"},
                    {<<>>, <<" GET">>, <<"POST">>, <<"bad name">>, <<" ">>})
    \cup EditFields(d, "protocol", {"denied_path_prefixes"}, {<<"/a">>, <<"">>, <<"/a ">>})
    \cup EditFields(d, "protocol", {"allow_connect", "allow_0rtt"}, {TRUE})
    \cup EditFields(d, "protocol", {"connect_ports"}, {{443}, {0}})
    \cup {[d EXCEPT !.protocol.connect_authorities = {[host |-> h, port |-> p]}] :
              h \in {"h", "", "a:b"}, p \in {0, 443}}
    \cup {[d EXCEPT !.scoped = Append(@, ScopedRateLimit(n, s, k))] :
              n \in {"n1", " n1"}, s \in {"route", "tenant", "client"},
              k \in {None, " ", "header:x", "header :x"}}
    \cup {[d EXCEPT !.scoped = <<[ScopedRateLimit("n1", "route", None) EXCEPT ![f] = 0]>>] :
              f \in {"rps", "burst", "idle_ttl"}}
    \cup {[d EXCEPT !.scoped = <<[ScopedRateLimit("n1", "route", None) EXCEPT !.routes = <<" ">>]>>]}

QuotaEdits(d) ==
    {[d EXCEPT !.quota.enabled = TRUE]}
    \cup {[d EXCEPT !.quota.backend = "redis", !.quota.url = url] : url \in {"", "https://x"}}
    \cup EditFields(d, "quota", {"connect_timeout", "max_inflight"}, {0})
    \cup {[d EXCEPT !.quota.prefix = " "]}
    \cup {[d EXCEPT !.quota.fallback = <<[prefix |-> "p", max_entries |-> n]>>] : n \in {0, 9}}
    \cup {[d EXCEPT !.quota.policies = Append(@, QuotaPolicy(n, k))] :
              n \in {"n1", " n1", "n2", " "}, k \in {None, "header:x", "header :x", "peer_ip"}}
    \cup {[d EXCEPT !.quota.policies = <<[QuotaPolicy("n1", "header:x") EXCEPT !.burst = <<w>>]>>] :
              w \in {QuotaWindow(0, 1), QuotaWindow(5, 60)}}
    \cup {[d EXCEPT !.quota.policies = <<[QuotaPolicy("n1", "header:x") EXCEPT !.token = "header:x"]>>]}

ListenEdits(d) ==
    LET Entry(name, cert) == [server_name |-> name, cert |-> cert, key |-> "key"]
    IN  {[d EXCEPT !.listeners = Append(@, Listen(a, p))] :
             a \in {"0.0.0.0", " 0.0.0.0", "", "localhost", "LOCALHOST"}, p \in {0, 9889}}
        \cup EditFields(d, "listen", {"cert", "key"}, {"", "key", "ca", "gone"})
        \cup {[d EXCEPT !.listen.protocol = "http2"]}
        \cup {[d EXCEPT !.listen.certificates = Append(@, Entry(n, c))] :
                 n \in {"h", "h.", "127.0.0.1"}, c \in {"cert", " cert", "", "junk"}}
        \cup {[d EXCEPT !.listen.client_auth = [enabled |-> e, required |-> r, ca_file |-> f]] :
                 e, r \in BOOLEAN, f \in {None, " ", "ca", "junk"}}
        \cup {[d EXCEPT !.log_level = l] : l \in {"INFO", "loud"}}
        \cup {[d EXCEPT !.security[f] = " "] : f \in {"user", "group"}}
        \cup {[d EXCEPT !.version = 2]}

ObservabilityEdits(d) ==
    {[d EXCEPT !.metrics.enabled = TRUE]}
    \cup EditFields(d, "metrics", {"port", "max_connections", "timeout"}, {0})
    \cup {[d EXCEPT !.metrics.address = a, !.metrics.non_loopback = b] :
             a \in {"", "LOCALHOST", "0.0.0.0"}, b \in BOOLEAN}
    \cup {[d EXCEPT !.metrics.path = "m"], [d EXCEPT !.control.enabled = TRUE]}
    \cup EditFields(d, "control", {"port", "max_connections", "timeout"}, {0})
    \cup {[d EXCEPT !.control.mode = m, !.control.ca_file = f, !.control.ca_dir = g] :
             m \in {"optional", "required"}, f \in {None, "ca", " "}, g \in {None, "cadir", "junk"}}
    \cup {[d EXCEPT !.control.roles = <<2, 1, 3>>], [d EXCEPT !.control.paths = <<"h">>],
          [d EXCEPT !.control.cidrs = <<"10">>], [d EXCEPT !.control.trust_proxy = TRUE],
          [d EXCEPT !.control.trusted = <<"10.0.0.0/8">>],
          [d EXCEPT !.control.audit_path = "/a"], [d EXCEPT !.control.audit_sink = "file"]}
    \cup {[d EXCEPT !.tracing = [enabled |-> TRUE, service |-> s, ratio |-> r, endpoint |-> e]] :
             s \in {"impulse", " "}, r \in {0, 11}, e \in {None, " "}}
    \cup {[d EXCEPT !.routing = [expose |-> TRUE, name |-> n]] : n \in {" ", "x-route"}}

Ref(scheme, rest) == <<[scheme |-> scheme, rest |-> rest]>>
Refs == {Ref("literal", "s"), Ref("literal", ""), Ref("vault", "s"), Ref("file", "secret"),
         Ref("file", "/abs"), Ref("file", "link-out"), Ref("file", "junk"), Ref("file", "gone")}
Provider(name, dir) == [name |-> name, base_dir |-> dir]

SecretEdits(d) ==
    {[d EXCEPT !.upstream["u1"].auth.jwt = <<[JwtDefaults EXCEPT !.secret = s, !.secret_ref = r]>>] :
         s \in {"", "k", " "}, r \in {<<>>} \cup Refs}
    \cup {[d EXCEPT !.upstream["u2"].auth.external =
              <<[ExternalAuth("oidc") EXCEPT !.secret = s, !.secret_ref = r]>>] :
             s \in {None, "k", " "}, r \in {<<>>} \cup Refs}
    \cup {[d EXCEPT !.control.auth.token = t, !.control.auth.token_ref = r] :
             t \in {None, "k", "change-me"}, r \in {<<>>, Ref("file", "secret"), Ref("file", "blank")}}
    \cup {[d EXCEPT !.control.auth.bearer = <<[token |-> t, ref |-> r, actor |-> a]>>] :
             t \in {"", "k"}, r \in {<<>>, Ref("file", "secret")}, a \in {None, " "}}
    \cup {[d EXCEPT !.control.auth.identity = i] : i \in {"san", "spiffe"}}
    \cup {[d EXCEPT !.control.enabled = TRUE]}
    \cup {[d EXCEPT !.secrets = [default |-> n, providers |-> ps]] :
             n \in {None, "p1", "p9"},
             ps \in {<<Provider("p1", "base")>>, <<Provider("p1", "base"), Provider("p2", None)>>,
                     <<Provider("p1", "gone")>>, <<Provider(" ", None)>>}}

AuthEdits(d) ==
    LET U1(f, v) == [d EXCEPT !.upstream["u1"].auth[f] = v]
        Jwt(j) == U1("jwt", <<j>>)
        Hs == [JwtDefaults EXCEPT !.secret = "k"]
        Rs == [JwtDefaults EXCEPT !.algorithms = {"RS256"}]
        Header(n, v) == [name |-> n, value |-> v]
        StaticKey(kid, key) == [kid |-> kid, key |-> key]
    IN  {U1("api_key", <<[ApiKeyAuth EXCEPT !.header = h, !.keys = k]>>) :
             h \in {"X-A", "bad name", " "}, k \in {<<>>, <<"k">>, <<" k", "k">>, <<" ">>}}
        \cup {U1("external", <<[ExternalAuth("http") EXCEPT !.endpoint = e, !.timeout = t]>>) :
                 e \in {"https://x", "http://localhost", "http://x", " "}, t \in {0, 1000}}
        \cup {U1("external", <<[ExternalAuth("http") EXCEPT !.headers = <<Header("x-a", "v"), Header(n, v)>>,
                                                            !.allowlist = l]>>) :
                 n \in {"X-A", "x-b"}, v \in {"v", "bad value"}, l \in {<<>>, <<"x-a", "X-A">>}}
        \cup {U1("external", <<[ExternalAuth("oidc") EXCEPT !.discovery = u, !.issuer = i, !.client_id = c]>>) :
                 u \in {None, " ", "https://x", "http://x"}, i \in {None, "https://x"}, c \in {"c", " "}}
        \cup {Jwt([Hs EXCEPT !.algorithms = a]) : a \in {{}, {"HS256"}, {"RS256"}, {"HS256", "ES256"}}}
        \cup {Jwt([Hs EXCEPT !.issuer = i, !.issuers = l]) :
                 i \in {None, " ", "i"}, l \in {<<>>, <<<<>>>>, <<<<"i">>>>}}
        \cup {Jwt([Rs EXCEPT !.jwks_url = u, !.refresh = n]) :
                 u \in {None, " ", "https://x", "http://localhost"}, n \in {0, 300}}
        \cup {Jwt([Rs EXCEPT !.static_keys = <<StaticKey(a, "k1"), StaticKey(b, "k2")>>]) :
                 a, b \in {None, "n1", " n1", " "}}
        \cup {U1("scopes", <<s>>) : s \in {"s", " "}} \cup {U1("roles", <<"r">>)}

UpstreamEdits(d) ==
    LET Tls(t) == [d EXCEPT !.upstream_tls = t]
        Own(u, t) == [d EXCEPT !.upstream[u].tls = <<t>>]
        First(f, v) == [d EXCEPT !.upstream["u1"].backends[1][f] = v]
    IN  {Tls([d.upstream_tls EXCEPT !.cert = c, !.key = k]) :
             c \in {None, " cert", "junk"}, k \in {None, "key", "gone"}}
        \cup {Tls([d.upstream_tls EXCEPT !.cert_ref = Ref("file", "cert"), !.key_ref = k]) :
                 k \in {<<>>, Ref("file", "key"), Ref("literal", "s")}}
        \cup {Tls([d.upstream_tls EXCEPT !.ca_file = f, !.ca_dir = g]) :
                 f \in {None, "", "ca", "junk"}, g \in {None, "cadir", "baredir", "junk"}}
        \cup {Own(u, [UpstreamTlsDefaults EXCEPT !.ca_file = f]) : u \in {"u1", "u2"}, f \in {"ca", "gone"}}
        \cup {First("id", i) : i \in {"", " "}}
        \cup {First("address", a) : a \in {Address("http", "b", Unset), Address("none", "b", Unset),
                                           Address("https", "c", 443), Address("ftp", "b", 1),
                                           Address("http", "", 1), Address("http", "-x", 1),
                                           Address("http", "b", 0), Address("none", "b", 65536)}}
        \cup {[d EXCEPT !.upstream["u1"].backends[1].address.path = "/a"]}
        \cup {First("weight", w) : w \in {0, 1, 1000, 1001}}
        \cup {[d EXCEPT !.upstream["u1"].backends[1].health[1][f] = 0] :
                 f \in {"interval", "timeout", "failures", "successes", "cooldown"}}
        \cup {[d EXCEPT !.upstream["u1"].lb = t] : t \in {"RR", " rr", "lc", "la", "fifo"}}
        \cup {[d EXCEPT !.upstream["u1"].lb = "round-robin", !.upstream["u1"].key = k] : k \in {"path", "header:x", "header :x", "body:x"}}
        \cup {[d EXCEPT !.lb = t, !.lb_key = k] : t \in {"lc", "fifo"}, k \in {None, "header :x"}}
        \cup {[d EXCEPT !.upstream["u1"].backends = <<>>], [d EXCEPT !.upstream = <<>>]}
        \cup {[d EXCEPT !.upstream["u1"].host_mode = m, !.upstream["u1"].host = h] :
                 m \in {"pass", "rewrite"}, h \in {None, "h", " h"}}

RouteEdits(d) ==
    {[d EXCEPT !.upstream[u].route = [host |-> h, path |-> p, method |-> m]] :
        u \in {"u1", "u3"}, h \in {None, "h", "H", "h:80", "*.h", "*.", "b.h", "*.b.h"},
        p \in {None, "/", "/a", "/a ", "/a/"}, m \in {None, "POST", "post"}}
    \cup {[d EXCEPT !.upstream["u1"].route.method = "connect"], [d EXCEPT !.protocol.allow_connect = TRUE]}

Edits(d) ==
    CASE scenario = "limits" -> LimitEdits(d)
      [] scenario = "protocol" -> ProtocolEdits(d) \cup QuotaEdits(d)
      [] scenario = "listeners" -> ListenEdits(d) \cup ObservabilityEdits(d)
      [] scenario = "secrets" -> SecretEdits(d)
      [] scenario = "auth" -> AuthEdits(d)
      [] scenario = "upstreams" -> UpstreamEdits(d)
      [] OTHER -> RouteEdits(d)

-----------------------------------------------------------------------------
(* The document an installation starts from: three upstreams, u1 and u3    *)
(* over TLS, u2 in plain text, and the files they name.                    *)
BaseDocument ==
    Config([u \in {"u1", "u2", "u3"} |->
              CASE u = "u1" -> Upstream([host |-> "h", path |-> "/a", method |-> None],
                                        <<Backend("b1", Address("https", "a", 443))>>)
                [] u = "u2" -> Upstream([host |-> None, path |-> "/", method |-> None],
                                        <<Backend("b2", Address("http", "b", 80))>>)
                [] OTHER -> Upstream([host |-> "*.h", path |-> None, method |-> "POST"],
                                     <<Backend("b3", Address("none", "c", Unset))>>)])
Files ==
    [p \in {"cert", "key", "ca", "cadir", "baredir", "junk", "gone", "secret", "blank", "base", "/abs",
            "link-out", "binary"} |->
        CASE p \in {"cert", "ca"} -> "certs" [] p = "key" -> "key"
          [] p = "cadir" -> "dir" [] p \in {"baredir", "base"} -> "barren"
          [] p = "gone" -> "absent" [] p = "blank" -> " " [] p = "binary" -> "binary"
          [] OTHER -> "junk"]

Init ==
    /\ scenario \in Scenarios
    /\ doc = BaseDocument /\ disk = Files
    /\ stage = "draft" /\ edits = 0 /\ touches = 0
    /\ verdict = None /\ runtime = NotLowered /\ answer = NoAnswer

Edit ==
    /\ stage = "draft" /\ edits < MaxEdits /\ DOMAIN doc.upstream # {}
    /\ doc' \in Edits(doc) /\ doc' # doc
    /\ edits' = edits + 1
    /\ UNCHANGED <<scenario, disk, stage, touches, verdict, runtime, answer>>

(* apply_global_lb_fallback: an upstream without a balancing section takes *)
(* the global one, or the defaults when there is none.                     *)
GlobalLbFallback(d) ==
    LET Filled(u) == IF Given(u.lb) THEN u
                     ELSE IF Given(d.lb) THEN [u EXCEPT !.lb = d.lb, !.key = d.lb_key]
                     ELSE [u EXCEPT !.lb = "round-robin"]
    IN  [d EXCEPT !.upstream = [n \in DOMAIN @ |-> Filled(@[n])]]

(* read_config and parse_config_text. *)
Load ==
    /\ stage = "draft"
    /\ doc' = GlobalLbFallback(doc)
    /\ stage' = IF doc.version = 1 THEN "loaded" ELSE "refused"
    /\ UNCHANGED <<scenario, disk, edits, touches, verdict, runtime, answer>>

ValidateStep ==
    /\ stage = "loaded"
    /\ stage' = IF Validate(disk, doc) THEN "validated" ELSE "refused"
    /\ UNCHANGED <<scenario, doc, disk, edits, touches, verdict, runtime, answer>>

(* A certificate or secret file is replaced while the document is between  *)
(* its two checks.                                                         *)
Touch ==
    /\ stage = "validated" /\ touches < MaxTouches
    /\ scenario \in {"secrets", "upstreams"}
    /\ \E p \in {"ca", "secret", "cadir"} : \E k \in {"junk", "absent", "barren"} :
          disk[p] # k /\ disk' = [disk EXCEPT ![p] = k]
    /\ touches' = touches + 1
    /\ UNCHANGED <<scenario, doc, stage, edits, verdict, runtime, answer>>

LowerStep ==
    /\ stage = "validated"
    /\ verdict' = Lower(disk, doc)
    /\ IF verdict' = "ok"
       THEN stage' = "served" /\ runtime' = RuntimeConfig(disk, doc)
       ELSE stage' = "failed" /\ UNCHANGED runtime
    /\ UNCHANGED <<scenario, doc, disk, edits, touches, answer>>

-----------------------------------------------------------------------------
(* Routing by the served configuration. *)

PathChars(t) == CASE t = "/" -> <<"/">> [] t = "/a" -> <<"/", "a">>
                  [] t = "/a/" -> <<"/", "a", "/">> [] OTHER -> <<>>
HostPattern(t) ==
    CASE t = "h" -> [kind |-> "exact", labels |-> <<"h">>]
      [] t = "b.h" -> [kind |-> "exact", labels |-> <<"b", "h">>]
      [] t = "*.h" -> [kind |-> "wildcard", labels |-> <<"h">>]
      [] t = "*.b.h" -> [kind |-> "wildcard", labels |-> <<"b", "h">>]
      [] OTHER -> [kind |-> "none", labels |-> <<>>]

(* from_runtime_upstreams: the routes in the order of the upstream names. *)
IndexedRoutes(rt) ==
    [i \in DOMAIN NameOrder |->
        LET r == rt.routes[NameOrder[i]]
        IN  [order |-> i, path |-> PathChars(r.path), host |-> HostPattern(r.host), method |-> r.method]]

RequestPaths == {<<"/">>, <<"/", "a">>, <<"/", "a", "/">>, <<"/", "a", "/", "b">>, <<"/", "a", "b">>}
RequestHosts == {<<>>, <<"h">>, <<"b", "h">>, <<"c", "b", "h">>}

Route ==
    /\ stage = "served" /\ scenario = "routes"
    /\ \E path \in RequestPaths, host \in RequestHosts, method \in {"GET", "POST"} :
          LET routes == IndexedRoutes(runtime)
          IN  answer' = [index |-> Lookup(routes, path, host, method),
                         traced |-> LookupDecision(routes, path, host, method),
                         best |-> BestRoute(routes, path, host, method)]
    /\ stage' = "routed"
    /\ UNCHANGED <<scenario, doc, disk, edits, touches, verdict, runtime>>

Next == Edit \/ Load \/ ValidateStep \/ Touch \/ LowerStep \/ Route

Spec == Init /\ [][Next]_vars

-----------------------------------------------------------------------------
Serving == stage \in {"served", "routed"}
Runs(n) == runtime.config.upstream[n]

(* TrustSound: the trust anchors of an https upstream were certificates at *)
(* the moment they were lowered, and its client identity is complete.      *)
TrustSound ==
    \A n \in DOMAIN runtime.config.upstream :
        LET t == EffectiveTls(runtime.config, Runs(n))
        IN  /\ \A anchor \in runtime.trust[n] : anchor[2] \in {"certs", "dir"}
            /\ UsesHttps(Runs(n)) =>
                  /\ Cardinality(runtime.trust[n]) = Cardinality({f \in {"ca_file", "ca_dir"} : Given(t[f])})
                  /\ Present(t.cert) \/ t.cert_ref # <<>> <=> Present(t.key) \/ t.key_ref # <<>>

(* What a served configuration guarantees to the proxy built from it, in   *)
(* its normalised form: no two listeners bind the same address, no two     *)
(* upstreams the same route, no two backends the same origin; TLS trust is *)
(* sound; the timeouts nest, the watchdog waits out a drain, the admission *)
(* bounds are ordered; CONNECT is routed only where it is allowed; every   *)
(* upstream has backends, a known strategy and weights it honours; HS256   *)
(* has a key.  The validator and the lowering each ensure only a part.     *)
ServedConfigSound ==
    Serving =>
        LET c == runtime.config
            p == c.performance
            Same(x) == x
        IN  /\ DistinctBy(Same, runtime.bindings)
            /\ \A m, n \in DOMAIN runtime.routes : runtime.routes[m] = runtime.routes[n] => m = n
            /\ \A s, t \in BackendSlots(c) : OriginOf(c, s) = OriginOf(c, t) => s = t
            /\ TrustSound
            /\ p.backend_connect_timeout_ms <= p.backend_total_request_timeout_ms
            /\ c.watchdog.enabled => c.watchdog.drain_grace >= p.shutdown_drain_timeout_ms
            /\ runtime.adaptive_max >= c.adaptive.min_limit
            /\ \A n \in DOMAIN c.upstream :
                  /\ runtime.routes[n].method = "CONNECT" => c.protocol.allow_connect
                  /\ \E s \in BackendSlots(c) : s[1] = n
                  /\ \A s \in BackendSlots(c) : s[1] = n =>
                        WeightOk(Strategy(Fold(Trim(Runs(n).lb))), Runs(n).backends[s[2]].weight)
                  /\ Strategy(Fold(Trim(Runs(n).lb))) # "other"
                  /\ Runs(n).auth.jwt # <<>> =>
                        ("HS256" \in SomeOf(Runs(n).auth.jwt).algorithms <=> ~Blank(SomeOf(Runs(n).auth.jwt).secret))

-----------------------------------------------------------------------------
(* The documents the validator accepts although the lowering refuses them. *)

QuotaGap(d) == LowerQuota(d.quota) # "ok"
HedgingGap(d) == d.hedging.enabled /\ d.hedging.delay_ms = 0
BindGap(d) == ~DistinctBy(BindKey, EffectiveListens(d))
KeyGap(d) == \E n \in DOMAIN d.upstream : Given(d.upstream[n].key) /\ ~RuntimeKeySpec(d.upstream[n].key)
ConnectGap(d) == ~d.protocol.allow_connect
                 /\ \E n \in DOMAIN d.upstream : RouteMethod(d.upstream[n].route.method) = "CONNECT"
PathGap(d) == \E n \in DOMAIN d.upstream : d.upstream[n].route.path # Trim(d.upstream[n].route.path)
BackendIdGap(d) == \E s \in BackendSlots(d) : Blank(d.upstream[s[1]].backends[s[2]].id)
PlainTextGap(d) == \E n \in DOMAIN d.upstream :
                      ~UsesHttps(d.upstream[n]) /\ LowerMutualTls(d.upstream[n], EffectiveTls(d, d.upstream[n])) # "ok"
MaterialGap(d) == \E n \in DOMAIN d.upstream :
                      UsesHttps(d.upstream[n])
                      /\ LowerTlsMaterial(disk, BaseDir(d.secrets), EffectiveTls(d, d.upstream[n])) # "ok"
SecretGap(d) ==
    \/ SecretErrors(disk, d) # {"ok"}
    \/ \E n \in DOMAIN d.upstream :
          \E f \in {"jwt", "external"} : d.upstream[n].auth[f] # <<>>
                                         /\ SomeOf(d.upstream[n].auth[f]).secret_ref # <<>>
                                         /\ Blank(SomeOf(ResolvedConfig(disk, d).upstream[n].auth[f]).secret)

KnownGap(d) ==
    \/ QuotaGap(d) \/ HedgingGap(d) \/ BindGap(d) \/ KeyGap(d) \/ ConnectGap(d)
    \/ PathGap(d) \/ BackendIdGap(d) \/ PlainTextGap(d) \/ MaterialGap(d) \/ SecretGap(d)

(* A document the validator has accepted is refused by the lowering only   *)
(* for one of the gaps between the two listed above (a section the         *)
(* validator does not look at, a looser reading of a text, files it does   *)
(* not read) or because a file changed in between: on everything else the  *)
(* two separately written sets of checks agree.                            *)
OnlyKnownGaps == stage = "failed" => touches > 0 \/ KnownGap(doc)

(* No reference survives into what is served, and each secret is the one   *)
(* its document names: the literal where there is one, else the content of *)
(* the referenced file, below the provider's directory when it has one.    *)
SecretFrom(literal, ref, value) ==
    IF ref = <<>> THEN value = literal
    ELSE /\ ~Present(literal)
         /\ LET r == SomeOf(ref)
            IN  IF r.scheme = "literal" THEN value = r.rest
                ELSE /\ value = disk[r.rest]
                     /\ Given(BaseDir(doc.secrets)) => r.rest \notin {"/abs", "../up", "link-out"}
SecretsResolved ==
    Serving =>
        /\ \A n \in DOMAIN doc.upstream : \A f \in {"jwt", "external"} :
              doc.upstream[n].auth[f] # <<>> =>
                  LET had == SomeOf(doc.upstream[n].auth[f])
                      has == SomeOf(Runs(n).auth[f])
                  IN  has.secret_ref = <<>> /\ SecretFrom(had.secret, had.secret_ref, has.secret)
        /\ SecretFrom(doc.control.auth.token, doc.control.auth.token_ref, runtime.config.control.auth.token)
        /\ \A i \in DOMAIN doc.control.auth.bearer :
              SecretFrom(doc.control.auth.bearer[i].token, doc.control.auth.bearer[i].ref,
                         runtime.config.control.auth.bearer[i].token)

(* The index answers with the route a scan of all routes would rank first, *)
(* whichever of its two lookups is asked: the one that serves requests     *)
(* stops early when the host's own routes reach the longest default path,  *)
(* the one that traces decisions walks both sides.                         *)
RoutingMatchesReference ==
    answer # NoAnswer => answer.index = answer.best /\ answer.traced = answer.best
=============================================================================
