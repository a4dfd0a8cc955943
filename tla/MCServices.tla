----------------------------- MODULE MCServices -----------------------------
(* Instances of the services for TLC.  Each service gets a few setups, and *)
(* each setup makes a group of cases happen that its comment names.        *)
EXTENDS Services, TLC

CONSTANTS w1, w2, c1, c2, t1, t2

\* Workers, connections and TCP connections are interchangeable.  Each kind
\* belongs to services of its own, so exchanging all three at once is enough.
Actors == {w1, w2, c1, c2, t1, t2}
Twin == (w1 :> w2) @@ (w2 :> w1) @@ (c1 :> c2) @@ (c2 :> c1) @@ (t1 :> t2) @@ (t2 :> t1)
Symmetry == {[a \in Actors |-> IF swapped THEN Twin[a] ELSE a] : swapped \in BOOLEAN}

Header(name, value) == Added(name, value)

-----------------------------------------------------------------------------
(* Quota                                                                   *)

QuotaCtx(route, tenant) ==
    [route |-> route, path |-> "p", target |-> "p", authority |-> "h", method |-> "GET",
     cid |-> "absent", client_ip |-> "ip", bearer_token |-> "absent", header |-> tenant,
     cookie |-> "absent", query |-> "absent"]
Selector(dim, place, legacy) == [dim |-> dim, place |-> place, legacy |-> legacy]
QPolicy(selector, burst, sustained) ==
    [selector |-> <<selector>>, routes |-> {}, burst |-> burst, sustained |-> sustained,
     rate |-> 1, idle |-> 2]
ByTenant == Selector("tenant", "header", FALSE)

\* Two tenants over the in-memory store.
QMemory ==
    [store |-> "memory", fallback |-> FALSE, enforce |-> TRUE, failOpen |-> FALSE,
     capacity |-> 3, permits |-> 1, drops |-> FALSE, load |-> 3, horizon |-> 4,
     policies |-> <<QPolicy(ByTenant, 1, 2)>>,
     contexts |-> {QuotaCtx("r", "a"), QuotaCtx("r", "b")}]

\* Shadow mode, two policies, an identity too long to key.
QShadow == [QMemory EXCEPT
    !.enforce = FALSE, !.contexts = {QuotaCtx("r", "a"), QuotaCtx("s", "long")},
    !.policies = <<[QPolicy(Selector("route", "path", FALSE), 0, 1) EXCEPT !.routes = {"r"}],
                   QPolicy(ByTenant, 1, 0)>>]

\* Redis that loses its connection, with the fallback; without, failing open;
\* and one that cannot be reached at all.
QRedis == [QMemory EXCEPT
    !.store = "redis", !.horizon = 1, !.fallback = TRUE, !.drops = TRUE,
    !.contexts = {QuotaCtx("r", "a")}]
QRedisOpen == [QRedis EXCEPT
    !.horizon = 2, !.fallback = FALSE, !.drops = FALSE, !.failOpen = TRUE, !.permits = 2,
    !.policies = <<QPolicy(ByTenant, 0, 1)>>]
QBroken == [QMemory EXCEPT !.store = "broken", !.fallback = TRUE]

\* The token buckets of the scoped store, full and by client address.
QScoped == [QMemory EXCEPT
    !.store = "scoped", !.failOpen = TRUE, !.capacity = 1,
    !.policies = <<QPolicy(Selector("tenant", "header", TRUE), 2, 0)>>,
    !.contexts = {QuotaCtx("r", "absent"), QuotaCtx("r", "b")}]
QScopedClient == [QScoped EXCEPT
    !.capacity = 3, !.contexts = {QuotaCtx("r", "absent")},
    !.policies = <<QPolicy(Selector("client", "client_ip", FALSE), 2, 0)>>]

MCQuotaSetups == {QMemory, QShadow, QRedis, QRedisOpen, QBroken, QScoped, QScopedClient}

-----------------------------------------------------------------------------
(* Key sources                                                             *)

Jwk(id, kid) ==
    [form |-> "jwk", id |-> id, kid |-> None, alg |-> None, jwkKid |-> kid, jwkAlg |-> None,
     kty |-> "RSA", weak |-> FALSE, use |-> None]
Rs256(key) == [key EXCEPT !.jwkAlg = "RS256", !.use = "sig"]
KDoc(keys) == [served |-> "ok", keys |-> keys]
KDown == [served |-> "RequestFailed", keys |-> <<>>]
Token(kid, by) ==
    [shape |-> "ok", alg |-> "RS256", kid |-> kid, signedBy |-> by, exp |-> <<9>>, nbf |-> <<>>,
     iat |-> <<>>, iss |-> "i", aud |-> {"x"}, scopes |-> {}]
Source(stale, ready) == [algs |-> {"RS256"}, ttl |-> 1, stale |-> stale, ready |-> ready]
JwtPolicy ==
    [algs |-> {"RS256"}, secret |-> None, static |-> {}, remote |-> TRUE, requireKid |-> FALSE,
     skew |-> 0, issuers |-> {}, audiences |-> {}, scopes |-> {}]
KGen(source) == [remote |-> TRUE, source |-> source, jwt |-> JwtPolicy]

\* Two generations with different settings, a key that is replaced, an outage.
KRotation ==
    [gens |-> <<KGen(Source(1, TRUE)), KGen(Source(0, FALSE))>>,
     docs |-> <<KDoc(<<Jwk("k1", "a")>>), KDoc(<<Jwk("k2", "b")>>), KDown>>,
     tokens |-> {Token("a", "k1"), Token("b", "k2")}]

\* A generation that drops the source, and a kid taken over.
KDropped ==
    [gens |-> <<KGen(Source(1, FALSE)),
                [KGen(Source(1, FALSE)) EXCEPT !.remote = FALSE, !.jwt.remote = FALSE]>>,
     docs |-> <<KDoc(<<Jwk("k1", "a")>>), KDoc(<<Rs256(Jwk("k3", "a")), Jwk("k2", "b")>>)>>,
     tokens |-> {Token("a", "k1"), Token(None, "k3")}]

\* A shared secret and a static key beside the source, and every claim.
KClaims ==
    LET jwt == [JwtPolicy EXCEPT !.algs = {"RS256", "HS256"}, !.secret = "s", !.skew = 1,
                  !.static = {[Jwk("k9", "z") EXCEPT !.kid = "z", !.alg = "RS256"]},
                  !.issuers = {"i"}, !.audiences = {"x"}, !.scopes = {"read"}]
        tok == [Token("z", "k9") EXCEPT !.scopes = {"read"}]
    IN  [gens |-> <<[KGen(Source(1, FALSE)) EXCEPT !.jwt = jwt]>>,
         docs |-> <<KDoc(<<Jwk("k1", "z")>>), KDoc(<<>>)>>,
         tokens |-> {tok, [tok EXCEPT !.alg = "HS256", !.signedBy = "s"], [tok EXCEPT !.exp = <<1>>],
                     [tok EXCEPT !.nbf = <<2>>], [tok EXCEPT !.iat = <<3>>], [tok EXCEPT !.iss = "j"],
                     [tok EXCEPT !.aud = {}], [tok EXCEPT !.scopes = {}], [tok EXCEPT !.alg = "other"],
                     [tok EXCEPT !.shape = "bad-claims"], [tok EXCEPT !.signedBy = "k1"]}]

MCKeySetups == {KRotation, KDropped, KClaims}

-----------------------------------------------------------------------------
(* Control API                                                             *)

Ip(bits) == [family |-> "v4", bits |-> bits]
Cidr(bits, prefix) == [family |-> "v4", bits |-> bits, prefix |-> prefix]
APaths == [health |-> "h", ready |-> "y", runtime |-> "r", certs |-> "c", reload |-> "l", restart |-> "s"]
Authz == [protectHealth |-> TRUE, protectReady |-> FALSE, read |-> 1, mutate |-> 2, restart |-> 3]
Audit(enabled, sink) == [enabled |-> enabled, sink |-> sink]
APolicy ==
    [enabled |-> TRUE, bind |-> "b1", maxConns |-> 1, paths |-> APaths,
     security |-> [clientAuth |-> "disabled", legacyToken |-> <<>>, source |-> <<>>, authz |-> Authz,
                   tokens |-> <<[token |-> "op", role |-> 2, actor |-> <<"ann">>]>>,
                   allow |-> [trustHeaders |-> FALSE, cidrs |-> {}, trusted |-> {}],
                   audit |-> Audit(TRUE, "log")]]
AReq(method, path, auth, body) ==
    [method |-> method, path |-> path, auth |-> auth, body |-> body, forwarded |-> <<>>, xff |-> <<>>]
Peer(bits) == [ip |-> Ip(bits), certs |-> <<>>]
WithCert(unit) == [Peer(1) EXCEPT !.certs =
    <<[subject |-> "s", cn |-> <<"ann">>, dns |-> <<>>, uri |-> <<>>,
       attrs |-> {<<"2.5.4.11", unit>>, <<"2.5.4.3", "ann">>}]>>]

\* The endpoint moves, changes its tokens and is switched off under requests.
ARebind ==
    [policies |-> <<APolicy,
                    [APolicy EXCEPT !.bind = "b2",
                       !.security.tokens = <<[token |-> "adm", role |-> 3, actor |-> <<>>]>>],
                    [APolicy EXCEPT !.enabled = FALSE]>>,
     clients |-> {Peer(1)}, horizon |-> 0, load |-> [conns |-> 3, requests |-> 3],
     requests |-> {AReq("POST", <<"r", "activate">>, "op", "ok"), AReq("POST", <<"s">>, "adm", "none"),
                   AReq("POST", <<"c">>, "op", "none")}]

\* Wrong tokens from two addresses, more than the throttle remembers.
AThrottle ==
    [policies |-> <<[APolicy EXCEPT !.maxConns = 3]>>,
     clients |-> {Peer(1), Peer(2)}, horizon |-> 2, load |-> [conns |-> 2, requests |-> 4],
     requests |-> {AReq("GET", <<"r">>, "wrong", "none"), AReq("GET", <<"r">>, "op", "none"),
                   AReq("GET", <<"h">>, "absent", "none")}]

\* Client certificates, optional and then required.
AMtls ==
    [policies |-> <<[APolicy EXCEPT !.maxConns = 2, !.security.clientAuth = "optional",
                       !.security.source = <<[kind |-> "mtls_subject_cn", attr |-> <<"ou">>]>>],
                    [APolicy EXCEPT !.security.clientAuth = "required",
                       !.security.legacyToken = <<"op">>]>>,
     clients |-> {Peer(1), WithCert("viewer"), WithCert("admin")}, horizon |-> 0,
     load |-> [conns |-> 2, requests |-> 2],
     requests |-> {AReq("POST", <<"l">>, "op", "none"), AReq("POST", <<"s">>, "absent", "none"),
                   AReq("POST", <<"r", "rollback">>, "absent", "none")}]

\* The audit file under more events than its buffer holds, then switched off.
AAudit ==
    [policies |-> <<[APolicy EXCEPT !.security.audit = Audit(TRUE, "file")],
                    [APolicy EXCEPT !.security.audit = Audit(FALSE, "file")]>>,
     clients |-> {Peer(1)}, horizon |-> 0, load |-> [conns |-> 2, requests |-> 2],
     requests |-> {AReq("POST", <<"r", "activate">>, "op", "ok"), AReq("POST", <<"r", "preview">>, "op", "bad")}]

\* Source addresses through a trusted proxy, and no room for connections.
ASource ==
    [policies |-> <<[APolicy EXCEPT !.maxConns = 0,
                       !.security.allow = [trustHeaders |-> TRUE, cidrs |-> {Cidr(5, 2), Cidr(5, 9)},
                                           trusted |-> {Cidr(1, 3)}]]>>,
     clients |-> {Peer(1), Peer(4), Peer(2)}, horizon |-> 0, load |-> [conns |-> 2, requests |-> 2],
     requests |-> {[AReq("GET", <<"r", "history">>, "op", "none") EXCEPT !.forwarded = <<Ip(5), Ip(1)>>],
                   [AReq("GET", <<"y">>, "absent", "none") EXCEPT
                      !.forwarded = <<[family |-> "garbled", bits |-> 0]>>, !.xff = <<Ip(7), Ip(1)>>],
                   AReq("GET", <<"h">>, "op", "none"), AReq("PUT", <<"h">>, "op", "none"),
                   AReq("POST", <<"r", "rollback">>, "op", "ok"), AReq("POST", <<"r", "preview">>, "op", "ok")}]

MCApiSetups == {ARebind, AThrottle, AMtls, AAudit, ASource}

-----------------------------------------------------------------------------
(* QUIC listener                                                           *)

LCert(key, names, until, serial) ==
    [key |-> key, names |-> names, from |-> 0, until |-> until, serial |-> serial]
LFile(certs, keys) == [ok |-> TRUE, certs |-> certs, keys |-> keys]
NameA == <<"a", "ex">>
ClientAuth(on) == [enabled |-> on, required |-> on, ca |-> "ca"]

\* c0/k0 is the base pair, c1/k1 that of one server name (a wildcard that
\* expires at once); later the pair is torn between two writes, then whole.
Disk1 == ("c0" :> LFile(<<LCert("x", {<<"d", "ex">>}, 9, 1)>>, {})) @@ ("k0" :> LFile(<<>>, {"x"}))
         @@ ("c1" :> LFile(<<LCert("y", {<<"*", "ex">>}, 0, 2)>>, {})) @@ ("k1" :> LFile(<<>>, {"y"}))
         @@ ("ca" :> LFile(<<LCert("z", {}, 9, 3)>>, {}))
Disk2 == [Disk1 EXCEPT !["k1"] = LFile(<<>>, {"w"}), !["ca"] = LFile(<<>>, {})]

PlainTls == [base |-> [cert |-> "c0", key |-> "k0"], sni |-> <<>>, clientAuth |-> ClientAuth(FALSE)]
SniTls == [PlainTls EXCEPT !.sni = NameA :> [cert |-> "c1", key |-> "k1"]]
MutualTls == [PlainTls EXCEPT !.clientAuth = ClientAuth(TRUE)]
LConfig(tls, cap, burst, rate) == [tls |-> tls, cap |-> cap, burst |-> burst, rate |-> rate, drain |-> 1]
Packet(kind, id, peer) ==
    [kind |-> kind, id |-> id, short |-> kind = "other", peer |-> peer, sni |-> <<>>, size |-> 1]
P1 == <<"p", 1>>
P2 == <<"p", 2>>
Q1 == <<"q", 1>>
NoAdmin == [mode |-> "disabled", caFiles |-> {}]

\* Connections found by identifier, prefix and peer, until the drain ends.
LRouting ==
    [disks |-> <<Disk1>>, configs |-> <<LConfig(PlainTls, 2, 4, 2)>>, sharded |-> FALSE, load |-> 4,
     ids |-> 3, certs |-> {FALSE}, horizon |-> 0, reloads |-> 0, stops |-> TRUE, admin |-> NoAdmin,
     packets |-> {Packet("initial", 0, P1), Packet("initial", 0, P2)}
                 \cup {Packet("other", i, P1) : i \in 1..3}
                 \cup {[Packet("other", 1, P2) EXCEPT !.short = FALSE]}]

\* Reloads while certificates change on disk, for both TLS stacks.
LReload ==
    [disks |-> <<Disk1, Disk2>>, configs |-> <<LConfig(SniTls, 2, 4, 2), LConfig(MutualTls, 1, 2, 1)>>,
     sharded |-> FALSE, load |-> 2, ids |-> 1, certs |-> BOOLEAN, horizon |-> 1, reloads |-> 1,
     stops |-> FALSE, admin |-> [mode |-> "required", caFiles |-> {"ca"}],
     packets |-> {[Packet("initial", 0, P1) EXCEPT !.sni = <<NameA>>], Packet("other", 1, P1)}]

\* A sharded listener: the dispatcher's bounded queue, and packets of all kinds.
LSharded ==
    [disks |-> <<Disk1>>, configs |-> <<LConfig(PlainTls, 1, 4, 2)>>, sharded |-> TRUE, load |-> 3,
     ids |-> 1, certs |-> {FALSE}, horizon |-> 1, reloads |-> 0, stops |-> TRUE, admin |-> NoAdmin,
     packets |-> {Packet("initial", 0, P1), [Packet("initial", 0, Q1) EXCEPT !.size = 2],
                  Packet("bad", 0, P1), Packet("other", 1, P1)}]

\* The accept limits, changed by a reload.
LLimits == [LRouting EXCEPT
    !.configs = <<LConfig(PlainTls, 3, 2, 2), LConfig(PlainTls, 1, 1, 1)>>, !.load = 3, !.ids = 0,
    !.horizon = 1, !.reloads = 1, !.stops = FALSE,
    !.packets = {Packet("initial", 0, P1), Packet("initial", 0, Q1)}]

MCListenerSetups == {LRouting, LReload, LSharded, LLimits}

-----------------------------------------------------------------------------
(* External authorization                                                  *)

Url(key) == [scheme |-> "https", host |-> "idp", key |-> key]
PlainUrl(key) == [Url(key) EXCEPT !.scheme = "http"]
Metadata(key) == [ok |-> TRUE, endpoint |-> <<Url(key)>>]
Oidc(key, open) ==
    [kind |-> "oidc", failOpen |-> open, timeout |-> 1, allowlist |-> {}, configured |-> <<>>,
     discovery |-> <<Url(key)>>, issuer |-> <<>>, audience |-> <<>>, scopes |-> {}]
StrictOidc == [Oidc("d1", FALSE) EXCEPT !.issuer = <<Url("i")>>, !.audience = <<"edge">>, !.scopes = {"s"}]
HttpAuth ==
    [Oidc("d1", FALSE) EXCEPT !.kind = "http", !.allowlist = {"x-user", "host"}, !.discovery = <<>>,
       !.configured = Header("x-impulse-original-path", "fixed") \o Header("x-team", "t")]
Bearer == Header("authorization", [scheme |-> "bearer", token |-> "t"])
EReq(auth, headers) ==
    [auth |-> auth, method |-> "GET", path |-> <<"/">>, authority |-> <<"a">>, headers |-> headers,
     mutations |-> <<>>, upstream |-> "u", backend |-> "b"]
ProviderReply(code) ==
    [status |-> code, readable |-> TRUE, headers |-> <<>>, active |-> TRUE, issuer |-> "i",
     audience |-> {}, scope |-> <<>>]
With(code, headers) == [ProviderReply(code) EXCEPT !.headers = headers]

\* Two evaluations share a provider's metadata while it changes and ages.
EShared ==
    [requests |-> {EReq(Oidc("d1", FALSE), Bearer)}, answers |-> {<<ProviderReply(200)>>},
     documents |-> "d1" :> <<Metadata("e1"), Metadata("e2"), [ok |-> FALSE, endpoint |-> <<>>]>>,
     load |-> 3, changes |-> 2, horizon |-> 5]

\* Two providers, and room for the metadata of one.
EEvicted == [EShared EXCEPT
    !.requests = {EReq(Oidc("d1", FALSE), Bearer), EReq(Oidc("d2", TRUE), Bearer)},
    !.documents = ("d1" :> <<Metadata("e1"), Metadata("e2")>>) @@ ("d2" :> <<Metadata("e3")>>),
    !.load = 3, !.changes = 1, !.horizon = 4]

\* Every kind of request and of answer.
EAnswers ==
    [requests |-> {EReq(StrictOidc, Bearer), EReq(StrictOidc, <<>>),
                   EReq([StrictOidc EXCEPT !.discovery = <<PlainUrl("d1")>>], Bearer),
                   [EReq(StrictOidc, Bearer) EXCEPT
                      !.mutations = <<[name |-> "authorization", value |-> <<>>]>>],
                   EReq(HttpAuth, Header("x-impulse-original-path", "x")
                                  \o Header("x-impulse-original-method", "PUT")
                                  \o Header("host", "h") \o Header("x-user", "root"))},
     answers |-> {<<>>, <<[ProviderReply(403) EXCEPT !.readable = FALSE]>>, <<[ProviderReply(200) EXCEPT !.active = FALSE]>>,
                  <<With(200, Header("x-user", "u1") \o Header("x-user", "u2") \o Header("host", "z"))>>,
                  <<With(401, Header("www-authenticate", "b"))>>, <<With(302, Header("location", "l"))>>,
                  <<[ProviderReply(200) EXCEPT !.audience = {"edge"}, !.scope = <<{"s"}>>]>>,
                  <<[ProviderReply(200) EXCEPT !.audience = {"edge"}]>>, <<[ProviderReply(200) EXCEPT !.issuer = "j"]>>}
                 \cup {<<ProviderReply(code)>> : code \in {200, 302, 401, 403, 500}},
     documents |-> "d1" :> <<Metadata("e1"), [ok |-> TRUE, endpoint |-> <<PlainUrl("e1")>>]>>,
     load |-> 2, changes |-> 1, horizon |-> 1]

MCAuthSetups == {EShared, EEvicted, EAnswers}

-----------------------------------------------------------------------------
(* Bootstrap listener                                                      *)

Authority(host) == [host |-> host, port |-> <<>>, form |-> "plain", size |-> 1]
BPolicy ==
    [methods |-> {}, deniedPrefixes |-> {<<"/", "a">>}, allowConnect |-> FALSE, connectPorts |-> {},
     connectTargets |-> {}, enforceMatch |-> TRUE, maxHeaderBytes |-> 20, maxHeaders |-> 9]
BGen ==
    [maxConnections |-> 2, listed |-> TRUE, tls |-> TRUE, policy |-> BPolicy, endpointKnown |-> TRUE,
     maxRequest |-> 2, maxResponse |-> 2, auth |-> <<>>, scheme |-> "http",
     target |-> [hostPolicy |-> [mode |-> "pass_through", host |-> <<>>], endpoint |-> Authority("up"),
                 forwardedMode |-> "append"]]
Get(headers) ==
    [method |-> "GET", authority |-> <<Authority("h")>>, target |-> <<"/">>, lineSize |-> 1,
     headers |-> headers]
Targeting(target) == [Get(<<>>) EXCEPT !.target = target]
Method(method) == [Get(<<>>) EXCEPT !.method = method]
ConnectTo(port) ==
    [Method("CONNECT") EXCEPT !.target = <<>>, !.authority = <<[Authority("h") EXCEPT !.port = port]>>]
BResponse(code, headers) == [status |-> code, headers |-> headers, trailers |-> <<>>]
Upgrade == Header("connection", {"upgrade"}) \o Header("upgrade", "websocket")
Length(n) == Header("content-length", n)

\* Reloads change the connection limit, drop the listener and its TLS.
BReloads ==
    [generations |-> <<BGen, [BGen EXCEPT !.maxConnections = 0], [BGen EXCEPT !.tls = FALSE, !.listed = FALSE]>>,
     requests |-> {Get(<<>>)}, alpn |-> BOOLEAN, resolutions |-> {"ok"}, admissions |-> {"ready"},
     auths |-> {}, failures |-> {}, answers |-> {BResponse(200, <<>>)}, frames |-> {2},
     load |-> [connections |-> 4, requests |-> 1]]

\* Overlapping requests whose answers fail, end, are cut or are dropped.
BBodies == [BReloads EXCEPT
    !.generations = <<BGen>>, !.failures = {"timeout", "error"}, !.frames = {1, 2},
    !.answers = {BResponse(200, <<>>), BResponse(204, <<>>), BResponse(200, Length(<<3>>))},
    !.load = [connections |-> 2, requests |-> 2]]

\* Requests of every shape, one at a time.
BRequests ==
    {Get(headers) : headers \in
        {<<>>, Length(<<2>>), Length(<<3>>), Length(<<>>), Upgrade, Header("host", Authority("h")),
         Header("host", Authority("z")), Header("host", [Authority("h") EXCEPT !.form = "blank"]),
         Header("x-user", "root") \o Header("x-debug", "1") \o Header("x-forwarded-for", <<"p">>)
           \o Header("te", "gzip"),
         Header("connection", {"x-user", "x-other"}) \o Header("x-user", "root")
           \o Header("x-other", "o") \o Header("keep-alive", "5"),
         Header("traceparent", "t") \o Header("x-request-id", "r")}}
    \cup {Method(method) : method \in {"HEAD", "CONNECT", ""}}
    \cup {Targeting(target) : target \in
            {<<"/", ".", ".", "/">>, <<"/", "%.">>, <<"/", "a">>, <<"/", "?", "/", "/">>, <<"a">>, <<>>}}
    \cup {[Get(<<>>) EXCEPT !.lineSize = 30],
          [Get(Header("host", Authority("h"))) EXCEPT !.authority = <<>>]}

BShapes == [BBodies EXCEPT
    !.requests = BRequests, !.resolutions = {"ok", "no_route", "no_healthy"},
    !.admissions = {"ready", "unauthorized", "rate_limited", "overloaded"},
    !.generations = <<[BGen EXCEPT !.auth = <<[kind |-> "http", failOpen |-> FALSE, timeout |-> 1]>>]>>,
    !.auths = {AuthAllow(<<>>), AuthDeny(403), AuthChallenge, AuthError, AuthTimeout,
               AuthAllow(<<[name |-> "x-user", value |-> <<"u">>], [name |-> "x-debug", value |-> <<>>]>>)},
    !.answers = {BResponse(200, Header("connection", {"x-hop"}) \o Header("x-hop", "h") \o Header("alt-svc", "a")),
                 BResponse(204, <<>>), BResponse(101, Upgrade), BResponse(200, Length(<<0>>))},
    !.frames = {2}, !.load = [connections |-> 1, requests |-> 1]]

\* The same under each host, forwarding and request policy.
BTargets == [BReloads EXCEPT
    !.requests = BRequests \cup {ConnectTo(<<443>>), ConnectTo(<<80>>), Method("POST")},
    !.generations = <<
        [BGen EXCEPT !.policy.methods = {"GET", "CONNECT"}, !.policy.allowConnect = TRUE,
           !.policy.connectPorts = {443}, !.policy.connectTargets = {<<"h", 443>>}, !.scheme = "https",
           !.target.hostPolicy = [mode |-> "rewrite", host |-> <<Authority("r")>>],
           !.target.forwardedMode = "overwrite"],
        [BGen EXCEPT !.endpointKnown = FALSE, !.policy.enforceMatch = FALSE],
        [BGen EXCEPT !.scheme = "https", !.target.hostPolicy.mode = "upstream",
           !.target.forwardedMode = "preserve"],
        [BGen EXCEPT !.target.hostPolicy.mode = "rewrite"]>>,
    !.load = [connections |-> 1, requests |-> 1]]

MCBootSetups == {BReloads, BBodies, BShapes, BTargets}

-----------------------------------------------------------------------------
(* Backend transport                                                       *)

TBackend(host, kind) == [host |-> host, literal |-> {}, kind |-> kind,
     tls |-> [verify |-> TRUE, cas |-> {"ca"}, cert |-> <<>>, key |-> <<>>]]
TConfig(backends) == [refresh |-> TRUE, backends |-> backends]
SendTo(backend) == [backend |-> backend, op |-> "send"]

\* A backend whose answers change, fail and stop while requests use it.
TAnswers ==
    [configs |-> <<TConfig([b \in {"a"} |-> TBackend("h", "http1")])>>,
     answers |-> {<<"x">>, <<"y", "x">>, <<"x", "y">>, <<>>, <<"error">>}, addrs |-> {"x", "y", "s"},
     system |-> {"s"}, lookups |-> 2, limit |-> 1,
     plan |-> <<SendTo("a"), [backend |-> "a", op |-> "upgrade"]>>]

\* Two backends of different protocols share a host; one cannot be upgraded,
\* and a reload cannot be built.
TShared == [TAnswers EXCEPT
    !.configs = <<TConfig([b \in {"a", "b"} |-> TBackend("h", IF b = "a" THEN "h2" ELSE "http1")]),
                  TConfig([b \in {"a"} |-> [TBackend("h", "h2") EXCEPT !.tls.cas = {"bad"}]])>>,
    !.answers = {<<"x">>, <<"y">>}, !.lookups = 2, !.limit = 2,
    !.plan = <<[backend |-> "a", op |-> "upgrade"], SendTo("b")>>]

\* A reload replaces the pools while both refresh.
TReloads == [TAnswers EXCEPT
    !.configs = <<TConfig([b \in {"a"} |-> TBackend("h", "h2")]), TConfig([b \in {"a"} |-> TBackend("h", "h2")])>>,
    !.answers = {<<"x">>, <<"y">>}, !.lookups = 2, !.plan = <<SendTo("a"), SendTo("b")>>]

\* An address instead of a name, and nothing to refresh.
TAddress == [TReloads EXCEPT !.addrs = {"z"},
    !.configs = <<TConfig([b \in {"a"} |-> [TBackend("ip", "http1") EXCEPT !.literal = {"z"}]])>>]

MCTransportSetups == {TAnswers, TShared, TReloads, TAddress}
=============================================================================
