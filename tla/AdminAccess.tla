----------------------------- MODULE AdminAccess -----------------------------
(* Who may do what on the control API: the route of a request, its source  *)
(* address, the identity its token and client certificate establish, and   *)
(* the role the route asks for (edge/quic_listener/control_api:            *)
(* admin_auth.rs, admin_identity.rs, security.rs).  An optional value is a *)
(* sequence of length at most one; roles are 1 (viewer), 2 (operator) and  *)
(* 3 (admin), in the order the code gives them.                            *)
EXTENDS Naturals, Sequences, FiniteSets, FiniteSetsExt, SequencesExt

CONSTANT AddressBits        \* bits of an address; 32 and 128 in the code

-----------------------------------------------------------------------------
(* Routes.  A path is a base path of the configuration and its suffixes.   *)
RouteTable(paths) ==
    << <<"GET", <<paths.health>>, "Health">>,
       <<"GET", <<paths.ready>>, "Ready">>,
       <<"GET", <<paths.runtime>>, "Runtime">>,
       <<"GET", <<paths.runtime, "history">>, "RuntimeHistory">>,
       <<"GET", <<paths.runtime, "history", "7">>, "RuntimeHistoryGeneration">>,
       <<"POST", <<paths.certs>>, "ReloadCerts">>,
       <<"POST", <<paths.runtime, "validate">>, "RuntimeValidate">>,
       <<"POST", <<paths.runtime, "preview">>, "RuntimePreview">>,
       <<"POST", <<paths.runtime, "activate">>, "RuntimeActivate">>,
       <<"POST", <<paths.runtime, "rollback">>, "RuntimeRollback">>,
       <<"POST", <<paths.reload>>, "ReloadRuntime">>,
       <<"POST", <<paths.restart>>, "Restart">> >>

(* The first arm that matches; a path of two routes is the first one's.    *)
RequestRoute(req, paths) ==
    LET hits == SelectSeq(RouteTable(paths),
                          LAMBDA arm : arm[1] = req.method /\ arm[2] = req.path)
    IN  IF hits = <<>> THEN "NotFound" ELSE Head(hits)[3]

ReadRoutes == {"Runtime", "RuntimeHistory", "RuntimeHistoryGeneration"}
PlanRoutes == {"RuntimeValidate", "RuntimePreview"}
SwapRoutes == {"RuntimeActivate", "ReloadRuntime", "RuntimeRollback"}
MutatingRoutes == PlanRoutes \cup SwapRoutes \cup {"ReloadCerts"}

(* minimum_role: <<>> for an open route.                                   *)
MinimumRole(route, authz) ==
    CASE route = "Health" -> IF authz.protectHealth THEN <<authz.read>> ELSE <<>>
      [] route = "Ready" -> IF authz.protectReady THEN <<authz.read>> ELSE <<>>
      [] route \in ReadRoutes -> <<authz.read>>
      [] route \in MutatingRoutes -> <<authz.mutate>>
      [] route = "Restart" -> <<authz.restart>>

-----------------------------------------------------------------------------
(* Source addresses.                                                       *)
NetworkOf(cidr) ==
    IF cidr.prefix > AddressBits THEN <<>>
    ELSE <<[family |-> cidr.family, prefix |-> cidr.prefix,
            network |-> cidr.bits \div 2 ^ (AddressBits - cidr.prefix)]>>

NetworkContains(net, ip) ==
    /\ net.family = ip.family
    /\ ip.bits \div 2 ^ (AddressBits - net.prefix) = net.network

(* The networks that parse; the others are left out silently.              *)
Matcher(cidrs) == {Head(NetworkOf(c)) : c \in {d \in cidrs : NetworkOf(d) # <<>>}}

MatcherContains(matcher, ip) == \E net \in matcher : NetworkContains(net, ip)

(* The last address of a forwarding chain that is not a trusted proxy; an  *)
(* element that is no address spoils the chain.                            *)
ForwardedSource(chain, trusted) ==
    LET outer == SelectSeq(chain, LAMBDA ip : ~MatcherContains(trusted, ip))
    IN  IF outer = <<>> \/ \E i \in DOMAIN chain : chain[i].family = "garbled"
        THEN <<>> ELSE <<Last(outer)>>

SourceIp(req, peer, allow) ==
    LET trusted == Matcher(allow.trusted)
        named == ForwardedSource(req.forwarded, trusted) \o ForwardedSource(req.xff, trusted)
    IN  IF ~allow.trustHeaders \/ ~MatcherContains(trusted, peer) \/ named = <<>>
        THEN peer ELSE Head(named)

(* Without a usable network in the allowlist every source is allowed.      *)
SourceAllowed(req, peer, allow) ==
    LET matcher == Matcher(allow.cidrs)
    IN  matcher = {} \/ MatcherContains(matcher, SourceIp(req, peer, allow))

-----------------------------------------------------------------------------
(* Identities.                                                             *)

(* runtime_bearer_tokens: the legacy token is an administrator's.          *)
BearerTokens(policy) ==
    [i \in DOMAIN policy.legacyToken |->
        [token |-> policy.legacyToken[i], role |-> 3, actor |-> <<"legacy_auth_token">>]]
      \o policy.tokens

(* control_api_token_match: the last entry that matches.                   *)
TokenMatch(provided, tokens) ==
    LET hits == SelectSeq(tokens, LAMBDA t : t.token = provided)
    IN  IF hits = <<>> THEN <<>> ELSE <<Last(hits)>>

AttributeAlias(requested) ==
    CASE requested = "cn" -> "2.5.4.3" [] requested = "ou" -> "2.5.4.11" [] OTHER -> requested

ParseRole(value) ==
    CASE value = "viewer" -> {1} [] value = "operator" -> {2} [] value = "admin" -> {3} [] OTHER -> {}

(* parse_admin_mtls_identity; the roles are the ones the attribute of the  *)
(* given identity source carries.                                          *)
MtlsIdentity(cert, source) ==
    [subject |-> cert.subject, cn |-> cert.cn, dns |-> cert.dns, uri |-> cert.uri,
     roles |-> UNION {ParseRole(a[2]) : a \in {b \in cert.attrs :
                        source # <<>> /\ source[1].attr # <<>>
                          /\ b[1] = AttributeAlias(source[1].attr[1])}}]

(* build_control_api_request_context: once per connection.                 *)
RequestContext(certs, source) ==
    [i \in DOMAIN certs |-> MtlsIdentity(certs[i], source)]

MtlsActor(mtls, source) ==
    LET kind == IF source = <<>> THEN "default" ELSE source[1].kind
    IN  CASE kind = "mtls_subject_cn" -> mtls.cn
          [] kind = "mtls_san_dns" -> SubSeq(mtls.dns, 1, Min({1, Len(mtls.dns)}))
          [] kind = "mtls_san_uri" -> SubSeq(mtls.uri, 1, Min({1, Len(mtls.uri)}))
          [] kind = "mtls_subject" -> <<mtls.subject>>
          [] OTHER -> IF mtls.cn # <<>> THEN mtls.cn ELSE <<mtls.subject>>

Principals(mtls) ==
    {mtls.subject} \cup ToSet(mtls.cn) \cup ToSet(mtls.dns) \cup ToSet(mtls.uri)

(* reconcile_dual_auth_actor_id: a token whose actor is not the            *)
(* certificate's names nobody.                                             *)
ReconcileActor(tokenActor, mtlsActor, mtls) ==
    IF tokenActor = <<>> THEN mtlsActor
    ELSE IF mtls = <<>> \/ tokenActor = mtlsActor \/ tokenActor[1] \in Principals(mtls[1])
    THEN tokenActor ELSE <<>>

(* Mutation of IdentityRoles: with both mechanisms the roles are pooled.   *)
IdentityRolesPooled(token, mtls) ==
    {t.role : t \in ToSet(token)} \cup UNION {m.roles : m \in ToSet(mtls)}

(* With both mechanisms the single role is the lesser of the token's and   *)
(* of the best one of the certificate; a certificate that carries no role  *)
(* does not limit the token.                                               *)
IdentityRoles(token, mtls) ==
    LET tokenRoles == {t.role : t \in ToSet(token)}
        mtlsRoles == UNION {m.roles : m \in ToSet(mtls)}
    IN  IF token = <<>> \/ mtls = <<>> THEN tokenRoles \cup mtlsRoles
        ELSE IF mtlsRoles = {} THEN tokenRoles
        ELSE {Min(tokenRoles \cup {Max(mtlsRoles)})}

BuildIdentity(token, mtls, source) ==
    [roles |-> IdentityRoles(token, mtls),
     actor |-> IF mtls = <<>> THEN token[1].actor
               ELSE ReconcileActor(IF token = <<>> THEN <<>> ELSE token[1].actor,
                                   MtlsActor(mtls[1], source), mtls)]

(* authenticate_control_api_request: <<identity>>, or why there is none.   *)
(* An Authorization header that does not carry a known token fails the     *)
(* request whatever the certificate says.                                  *)
Authenticate(req, mtls, policy) ==
    LET token == TokenMatch(req.auth, BearerTokens(policy))
        failed(why) == [identity |-> <<>>, why |-> why]
        proved == [identity |-> <<BuildIdentity(token, mtls, policy.source)>>, why |-> "authenticated"]
    IN  CASE req.auth = "garbled" -> failed("invalid_authorization_header")
          [] req.auth \notin {"garbled", "absent"} /\ token = <<>> -> failed("invalid_bearer_token")
          [] req.auth = "absent" /\ mtls = <<>> -> failed("missing_authentication")
          [] OTHER -> proved

Sufficient(identity, required) == \E role \in identity.roles : role >= required
===============================================================================
