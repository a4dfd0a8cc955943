----------------------------- MODULE HttpBridge -----------------------------
(***************************************************************************)
(* The conversions of crates/bridge/src that both ingress planes share:    *)
(* the upstream request built from a validated one (request.rs, h3_to_h1,  *)
(* h3_to_h2, headers, forwarded, host), the downstream response made from  *)
(* the upstream's (response.rs), and the body guardrails of                *)
(* crates/edge/src/runtime/connection/guardrails.rs.  Headers are the      *)
(* records of HttpRequests; a header mutation of the external              *)
(* authorization is [name, value] with value <<>> for a removal.           *)
(***************************************************************************)
EXTENDS HttpRequests

-----------------------------------------------------------------------------
(* Upstream requests                                                       *)

HopByHop == {"connection", "proxy-authenticate", "proxy-authorization", "te", "trailer",
             "transfer-encoding", "upgrade", "keep-alive", "proxy-connection"}
ForwardedNames == {"forwarded", "x-forwarded-for", "x-forwarded-proto", "x-forwarded-host"}

ConnectionHeaderTokens(headers) ==
    UNION {h.value : h \in {x \in Range(headers) : x.name = "connection" /\ x.utf8}}

ShouldStripRequestHeader(name, tokens, preserveUpgrade) ==
    /\ ~(preserveUpgrade /\ name \in {"connection", "upgrade"})
    /\ name \in tokens \cup {"content-length"} \cup HopByHop \cup ForwardedNames

ShouldStripProxyHeader(name, preserveUpgrade) ==
    ShouldStripRequestHeader(name, {}, preserveUpgrade)

LegacyWebsocketUpgradeRequested(method, headers) ==
    /\ method = "GET"
    /\ "websocket" \in Values(SelectSeq(headers, LAMBDA h : h.utf8), "upgrade")
    /\ "upgrade" \in ConnectionHeaderTokens(headers)

\* resolve_upstream_host_value: <<>> is the refusal of a rewrite to nothing.
ResolveUpstreamHostValue(policy, endpoint, authority, host) ==
    LET asked == IF authority # <<>> THEN authority ELSE host
    IN  CASE policy.mode = "pass_through" -> IF asked = <<>> THEN <<endpoint>> ELSE asked
          [] policy.mode = "rewrite"      -> policy.host
          [] policy.mode = "upstream"     -> <<endpoint>>

\* merge_forwarded_chain, with join_header_chain: the hops in order.
MergeForwardedChain(mode, inbound, current) ==
    CASE mode = "preserve"  -> inbound
      [] mode = "append"    -> Append(inbound, current)
      [] mode = "overwrite" -> <<current>>

\* build_forwarded_header_values: one chain per forwarding header.
BuildForwardedHeaderValues(mode, headers, client, host) ==
    LET current == [name \in ForwardedNames |->
                      CASE name = "forwarded"         -> <<client, "https", host>>
                        [] name = "x-forwarded-for"   -> <<client>>
                        [] name = "x-forwarded-proto" -> <<"https">>
                        [] name = "x-forwarded-host"  -> <<host>>]
        inbound(name) == [i \in DOMAIN Named(headers, name) |-> Named(headers, name)[i].value]
    IN  [name \in ForwardedNames |-> MergeForwardedChain(mode, inbound(name), current[name])]

\* apply_request_header_policies.  The client's headers lose what a mutation
\* names, what forwarding rebuilds, what is hop by hop and Host; mutations are
\* not subject to the client's Connection tokens.  <<>> is InvalidHeader.
ApplyRequestHeaderPolicies(target, input, preserveUpgrade) ==
    LET tokens  == ConnectionHeaderTokens(input.headers)
        mutated == {m.name : m \in Range(input.mutations)}
        kept    == SelectSeq(input.headers, LAMBDA h :
                     /\ h.name \notin PseudoHeaders \cup mutated \cup ForwardedNames
                     /\ ~ShouldStripRequestHeader(h.name, tokens, preserveUpgrade))
        set     == SelectSeq(input.mutations, LAMBDA m :
                     /\ m.value # <<>> /\ m.name # "host"
                     /\ ~ShouldStripProxyHeader(m.name, preserveUpgrade))
        hosts   == Named(kept, "host")
        host    == ResolveUpstreamHostValue(target.hostPolicy, target.endpoint, input.authority,
                     IF hosts # <<>> /\ hosts[Len(hosts)].utf8
                     THEN <<hosts[Len(hosts)].value>> ELSE <<>>)
    IN  IF host = <<>> THEN <<>>
        ELSE <<[passthrough |-> SelectSeq(kept, LAMBDA h : h.name # "host")
                                \o [i \in DOMAIN set |-> [name |-> set[i].name, value |-> set[i].value[1],
                                                          size |-> 1, utf8 |-> TRUE]],
                host |-> host[1],
                forwarded |-> BuildForwardedHeaderValues(target.forwardedMode,
                                SelectSeq(input.headers, LAMBDA h : h.name \notin mutated),
                                input.client, host[1])]>>

Added(name, value) == <<[name |-> name, value |-> value, size |-> 1, utf8 |-> TRUE]>>
Unless(present, headers) == IF present THEN <<>> ELSE headers

\* RequestBodyMode: a body of known length announces it, others stream.
BodyModeLength(length) == IF length \in {<<>>, <<0>>} THEN <<>> ELSE length

\* apply_request_header_assembly.
ApplyRequestHeaderAssembly(resolved, input, withLength, withHost, addTe) ==
    LET through == resolved.passthrough
        has(name) == Named(through, name) # <<>>
        chain(name) == LET hops == resolved.forwarded[name]
                       IN  Unless(hops = <<>>, Added(name, hops))
        length  == BodyModeLength(input.length)
    IN  through
        \o Unless(~withHost, Added("host", resolved.host))
        \o Unless(~withLength \/ length = <<>>, Added("content-length", length))
        \o Unless(has("x-request-id"), Added("x-request-id", input.requestId))
        \o Unless(has("traceparent") \/ input.traceparent = <<>>, Added("traceparent", input.traceparent[1]))
        \o chain("forwarded") \o chain("x-forwarded-for")
        \o chain("x-forwarded-proto") \o chain("x-forwarded-host")
        \o Unless(~addTe, Added("te", "trailers"))

RootedPath(path) == IF path = <<>> THEN <<"/">> ELSE path

\* build_h1_request: to an http upstream; an upgrade keeps its two headers.
BuildH1Request(target, input) ==
    LET upgrade  == LegacyWebsocketUpgradeRequested(input.method, input.headers)
        resolved == ApplyRequestHeaderPolicies(target, input, upgrade)
    IN  IF resolved = <<>> \/ input.method \in {"", "G T"} THEN <<>>
        ELSE <<[method |-> input.method, uri |-> RootedPath(input.path), websocket |-> FALSE,
                headers |-> ApplyRequestHeaderAssembly(resolved[1], input, TRUE, TRUE, ~upgrade)]>>

\* build_h2_request_for_target: to an https upstream; a plain CONNECT is sent
\* to the host, an extended one keeps its path and carries the protocol.
BuildH2Request(target, input) ==
    LET extended == H3WebsocketTunnelRequested(input.method, input.headers)
        resolved == ApplyRequestHeaderPolicies(target, input, FALSE)
    IN  IF resolved = <<>> \/ input.method \in {"", "G T"} THEN <<>>
        ELSE <<[method |-> input.method, websocket |-> extended,
                uri |-> IF input.method = "CONNECT" /\ ~extended THEN <<resolved[1].host>>
                        ELSE RootedPath(input.path),
                headers |-> ApplyRequestHeaderAssembly(resolved[1], input, ~extended, ~extended, FALSE)]>>

-----------------------------------------------------------------------------
(* Body guardrails                                                         *)

\* evaluate_request_body_ingress: "size", "buffered", "prebuffer" reject.
RequestBodyIngress(config, input) ==
    FirstRefusal(<<
        <<~input.exempt /\ input.declared # <<>> /\ input.declared[1] > config.maxBody, "size">>,
        <<~input.exempt /\ input.received + input.chunk > config.maxBody, "size">>,
        <<input.buffered + input.chunk > config.maxBuffered,
          IF input.declared # <<>> THEN "buffered" ELSE "prebuffer">> >>, "continue")

\* resolve_progressive_emission_policy.
ProgressiveEmission(input) ==
    CASE ~input.forwarding -> "suppress"
      [] input.forwarding /\ (\/ ~input.progressive \/ input.headersEmitted
                              \/ input.declared # <<>> \/ input.exempt) -> "stream"
      [] OTHER -> "prebuffer"

ResponseProgressObserved(input) == input.received > 0 \/ input.chunk > 0

\* evaluate_response_body_guardrails: a timeout is reported before any limit.
ResponseBodyGuardrails(config, input) ==
    LET capped == input.forwarding /\ ~input.exempt
    IN  FirstRefusal(<<
          <<~ResponseProgressObserved(input) /\ input.elapsed >= config.totalTimeout, "total">>,
          <<input.idle >= config.idleTimeout, "idle">>,
          <<capped /\ input.declared # <<>> /\ input.declared[1] > config.maxBody, "size">>,
          <<capped /\ input.received + input.chunk > config.maxBody, "size">>,
          <<capped /\ ProgressiveEmission(input) = "prebuffer"
              /\ input.prebuffered + input.chunk > config.maxPrebuffer, "prebuffer">> >>, "continue")

\* checked_response_body_guardrails: the accounting after an accepted chunk.
ResponseBodyAfter(input) ==
    [received |-> input.received + input.chunk,
     prebuffered |-> IF ProgressiveEmission(input) = "prebuffer"
                     THEN input.prebuffered + input.chunk ELSE 0]

-----------------------------------------------------------------------------
(* Downstream responses                                                    *)

StatusForbidsResponseBody(status) == status \in {101, 204, 304}

ShouldStripResponseHeader(name, tokens, constraints) ==
    LET upgrade == constraints.preserveUpgrade /\ name \in {"connection", "upgrade"}
    IN  \/ constraints.stripConnection /\ ~upgrade /\ name \in tokens
        \/ ~upgrade /\ name \in HopByHop
        \/ constraints.protocol = "h3" /\ name = "content-length"
        \/ constraints.protocol = "h1" /\ name = "alt-svc"

\* normalize_response_trailers.
NormalizeResponseTrailers(trailers, constraints) ==
    IF ~constraints.allowTrailers THEN <<>>
    ELSE SelectSeq(trailers, LAMBDA h :
           ~ShouldStripResponseHeader(h.name, ConnectionHeaderTokens(trailers), constraints))

\* normalize_upstream_response.  bodyMode is "normal", "head", "bodyless" or
\* "tunnel".
NormalizeUpstreamResponse(response, bodyMode, constraints) ==
    LET tokens    == ConnectionHeaderTokens(response.headers)
        forbidden == StatusForbidsResponseBody(response.status)
        suppress  == bodyMode # "tunnel" /\ (bodyMode \in {"head", "bodyless"} \/ forbidden)
    IN  [status |-> response.status,
         headers |-> SelectSeq(response.headers, LAMBDA h :
                       ~ShouldStripResponseHeader(h.name, tokens, constraints)),
         trailers |-> NormalizeResponseTrailers(response.trailers, constraints),
         suppress |-> suppress,
         endOnHeaders |-> suppress \/ (bodyMode # "tunnel" /\ ContentLength(response.headers) = <<0>>)]
=============================================================================
