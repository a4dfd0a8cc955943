---------------------------- MODULE BootstrapTls ----------------------------
(***************************************************************************)
(* The bootstrap listener of crates/edge/src/quic_listener/bootstrap: the  *)
(* TCP+TLS plane that serves clients until Alt-Svc moves them to HTTP/3.   *)
(* One loop accepts connections; a task per connection takes the handshake *)
(* and serves HTTP/1.1 (one request at a time) or HTTP/2 (concurrently)    *)
(* under one timeout, with the runtime generation it was accepted in.  A   *)
(* request is validated, routed, admitted, authorized externally, built,   *)
(* dispatched and written back; a HTTP/1.1 request dies with its           *)
(* connection, a HTTP/2 request runs on in its own task.                   *)
(*                                                                         *)
(* External: clients and upstreams.  The route lookup (RouteIndex), the    *)
(* admission decisions (Resilience, Quota) and the per-source limiter      *)
(* (QuicListener) are modelled elsewhere and answer here in any way.       *)
(***************************************************************************)
EXTENDS ExternalAuth

CONSTANTS TcpConnections,  \* connection tasks alive at the same time
          BootRequests,    \* requests alive at the same time
          BootSetups       \* [generations, requests, alpn, resolutions, admissions, auths, failures,
                           \*  answers, frames, load]

VARIABLES
    bootSetup,       \* the setup of this behaviour
    bootGeneration,  \* index of the published generation
    acceptLoop,      \* "running" or "stopped", and whether shutdown was signalled
    tcpSlots,        \* active_connections
    tcp,             \* the connection tasks
    exchanges,       \* the requests
    backendActive,   \* active requests of the backend
    forgotten,       \* of these, begun by requests that are gone
    bootLoad         \* connections and requests left

bootVars == <<bootSetup, bootGeneration, acceptLoop, tcpSlots, tcp, exchanges, backendActive,
              forgotten, bootLoad>>

NoTcp == [pc |-> "free"]
NoExchange == [pc |-> "none", held |-> FALSE]
GenerationAt(n) == bootSetup.generations[n]

-----------------------------------------------------------------------------
(* Connections                                                             *)

\* bootstrap_connection_state clamps the limit.
ConnectionCap(generation) == IF generation.maxConnections = 0 THEN 1 ELSE generation.maxConnections

\* try_claim_runtime_connection_slot.
ClaimSlot(generation) == tcpSlots < ConnectionCap(generation)

\* The accept arm: the generation is read, then the limiter and the slot
\* decide; whoever fails is dropped and the loop goes on.
AcceptConnection(c, limited) ==
    /\ acceptLoop.pc = "running" /\ tcp[c].pc = "free" /\ bootLoad.connections > 0
    /\ bootLoad' = [bootLoad EXCEPT !.connections = @ - 1]
    /\ LET generation == GenerationAt(bootGeneration)
           taken == generation.listed /\ ~limited /\ ClaimSlot(generation)
       IN  /\ tcpSlots' = IF taken THEN tcpSlots + 1 ELSE tcpSlots
           /\ tcp' = IF taken THEN [tcp EXCEPT ![c] = [pc |-> "spawned", generation |-> bootGeneration]]
                     ELSE tcp
    /\ UNCHANGED <<bootSetup, bootGeneration, acceptLoop, exchanges, backendActive, forgotten>>

\* The sleep arm of the select is the only place where shutdown is noticed.
AcceptSleeps ==
    /\ acceptLoop = [pc |-> "running", signalled |-> TRUE]
    /\ acceptLoop' = [acceptLoop EXCEPT !.pc = "stopped"]
    /\ UNCHANGED <<bootSetup, bootGeneration, tcpSlots, tcp, exchanges, backendActive, forgotten, bootLoad>>

\* The task reads the TLS configuration live when it starts.
ConnectionTaskStarts(c) ==
    /\ tcp[c].pc = "spawned"
    /\ LET configured == GenerationAt(bootGeneration).tls
       IN  /\ tcp' = [tcp EXCEPT ![c] = IF configured THEN [@ EXCEPT !.pc = "handshake"] ELSE NoTcp]
           /\ tcpSlots' = IF configured THEN tcpSlots ELSE tcpSlots - 1
    /\ UNCHANGED <<bootSetup, bootGeneration, acceptLoop, exchanges, backendActive, forgotten, bootLoad>>

\* The handshake ends, after any time; the inventory is read live again.
HandshakeEnds(c, ok, h2) ==
    /\ tcp[c].pc = "handshake"
    /\ LET serves == ok /\ GenerationAt(bootGeneration).tls
       IN  /\ tcp' = [tcp EXCEPT ![c] = IF serves THEN [pc |-> "serving", generation |-> @.generation, h2 |-> h2]
                                        ELSE NoTcp]
           /\ tcpSlots' = IF serves THEN tcpSlots ELSE tcpSlots - 1
    /\ UNCHANGED <<bootSetup, bootGeneration, acceptLoop, exchanges, backendActive, forgotten, bootLoad>>

-----------------------------------------------------------------------------
(* The stages of a request                                                 *)

\* What the backend's counter is after a request that holds it has finished.
FinishAccounting(active) == IF active = 0 THEN 0 ELSE active - 1

\* A request ends with the answer of a stage: status sent, outcomes observed.
Terminal(x, stage, status, observed) ==
    [f \in DOMAIN x \cup {"stage", "status", "observed"} |->
        CASE f = "pc" -> "ended" [] f = "stage" -> stage [] f = "status" -> status
          [] f = "observed" -> observed [] OTHER -> x[f]]

\* bootstrap_route_resolution_error_response.
ResolutionStatus(resolution) ==
    IF resolution \in {"no_servers", "invalid_address", "no_healthy"} THEN 503 ELSE 502

\* The admission rejections of evaluate_bootstrap_request_policy.
AdmissionStatus(admission) ==
    CASE admission = "unauthorized" -> 401
      [] admission = "rate_limited" -> 429
      [] admission = "overloaded"   -> 503

\* checked_request_body_ingress on the declared length alone.
DeclaredTooLarge(generation, intake, websocket) ==
    "size" = RequestBodyIngress([maxBody |-> generation.maxRequest, maxBuffered |-> generation.maxRequest],
               [exempt |-> websocket, declared |-> intake.length, received |-> 0, buffered |-> 0, chunk |-> 0])

\* build_bootstrap_upstream_request: the mutations are applied to the headers,
\* the body streams whatever length was declared.
BuildInput(x, headers, mutations) ==
    [method |-> x.intake.method, path |-> x.intake.path, authority |-> x.intake.authority,
     headers |-> headers, mutations |-> mutations, length |-> <<>>,
     requestId |-> "id", traceparent |-> ExtractHeaderValue(x.request.headers, "traceparent"),
     client |-> "peer"]

BuildRequest(generation, websocket, input) ==
    IF websocket \/ generation.scheme = "http" THEN BuildH1Request(generation.target, input)
    ELSE BuildH2Request(generation.target, input)

BuildBootstrapUpstreamRequest(generation, x, mutations) ==
    BuildRequest(generation, x.websocket,
                 BuildInput(x, ApplyAuthMutations(x.request.headers, mutations), <<>>))

\* The request from the build on, up to the await of the dispatch.  The first
\* check of dispatch_bootstrap_websocket comes before any await.
WebsocketUnsupported(generation, x) == x.websocket /\ generation.scheme # "http"

Building(generation, x, mutations) ==
    LET built == BuildBootstrapUpstreamRequest(generation, x, mutations)
    IN  IF built = <<>> THEN Terminal(x, "build", 400, 1)
        ELSE IF WebsocketUnsupported(generation, x) THEN Terminal(x, "dispatch", 502, 0)
        ELSE [f \in DOMAIN x \cup {"upstream", "mutations"} |->
                CASE f = "pc" -> "dispatch" [] f = "upstream" -> built[1]
                  [] f = "mutations" -> mutations [] OTHER -> x[f]]

\* prepare_bootstrap_request_intake.
Intake(c, request) ==
    LET verdict == ValidateHttpRequest(request, GenerationAt(tcp[c].generation).policy)
        x == [pc |-> "auth", conn |-> <<c>>, generation |-> tcp[c].generation, request |-> request,
              intake |-> verdict, websocket |-> IsWebsocketUpgradeRequest(request, tcp[c].h2),
              held |-> FALSE]
    IN  IF verdict.ok THEN x ELSE Terminal(x, "validate", verdict.status, 1)

\* The rest of evaluate_bootstrap_request_policy: the endpoint of the backend.
EndpointResolved(generation, x) ==
    IF generation.endpointKnown THEN x ELSE Terminal(x, "resolve", 502, 1)

\* evaluate_bootstrap_request_policy: the resolution counts the request on its
\* backend before the request is admitted.
EvaluatePolicy(generation, x, resolution, admission) ==
    LET begun == [x EXCEPT !.held = TRUE]
    IN  IF resolution # "ok" THEN Terminal(x, "resolve", ResolutionStatus(resolution), 1)
        ELSE IF admission # "ready" THEN Terminal(begun, "admission", AdmissionStatus(admission), 1)
        ELSE EndpointResolved(generation, begun)

\* The service function up to its first await.
Served(c, request, resolution, admission) ==
    LET generation == GenerationAt(tcp[c].generation)
        x == Intake(c, request)
        routed == EvaluatePolicy(generation, x, resolution, admission)
    IN  IF x.pc = "ended" THEN x
        ELSE IF routed.pc = "ended" THEN routed
        ELSE IF DeclaredTooLarge(generation, x.intake, x.websocket) THEN Terminal(routed, "validate", 413, 1)
        ELSE IF generation.auth = <<>> THEN Building(generation, routed, <<>>)
        ELSE routed

\* External: over HTTP/2 the HTTP library refuses connection headers itself.
Deliverable(request, h2) ==
    h2 => \A h \in Range(request.headers) :
            h.name \notin {"connection", "keep-alive", "proxy-connection", "transfer-encoding", "upgrade", "te"}

\* A request arrives on a serving connection; HTTP/1.1 serves one at a time.
\* The slot of an earlier request is used again: what that one never returned
\* stays counted.
RequestArrives(c, r, request, resolution, admission) ==
    /\ tcp[c].pc = "serving" /\ exchanges[r].pc \in {"none", "ended"} /\ bootLoad.requests > 0
    /\ Deliverable(request, tcp[c].h2)
    /\ ~tcp[c].h2 => \A q \in BootRequests : exchanges[q].pc \notin {"none", "ended"} => exchanges[q].conn # <<c>>
    /\ LET x == Served(c, request, resolution, admission)
       IN  /\ exchanges' = [exchanges EXCEPT ![r] = x]
           /\ backendActive' = IF x.held THEN backendActive + 1 ELSE backendActive
    /\ forgotten' = IF exchanges[r].held THEN forgotten + 1 ELSE forgotten
    /\ bootLoad' = [bootLoad EXCEPT !.requests = @ - 1]
    /\ UNCHANGED <<bootSetup, bootGeneration, acceptLoop, tcpSlots, tcp>>

\* evaluate_bootstrap_external_auth returns; its refusals record no outcome.
AuthorizationEnds(r, result) ==
    /\ exchanges[r].pc = "auth"
    /\ LET x == exchanges[r]
           generation == GenerationAt(x.generation)
           next == AuthStateTransition(result, generation.auth[1].failOpen)
       IN  exchanges' = [exchanges EXCEPT ![r] =
               IF next.to = "admitted" THEN Building(generation, x, next.mutations)
               ELSE Terminal(x, "external_auth", next.status, 0)]
    /\ UNCHANGED <<bootSetup, bootGeneration, acceptLoop, tcpSlots, tcp, backendActive, forgotten, bootLoad>>

\* dispatch_bootstrap_http: the upstream fails or does not answer in time.
DispatchFails(r, failure) ==
    /\ exchanges[r].pc = "dispatch" /\ ~exchanges[r].websocket
    /\ exchanges' = [exchanges EXCEPT ![r] = Terminal(@, "dispatch", IF failure = "timeout" THEN 504 ELSE 502, 1)]
    /\ UNCHANGED <<bootSetup, bootGeneration, acceptLoop, tcpSlots, tcp, backendActive, forgotten, bootLoad>>

\* dispatch_bootstrap_websocket: the failure to connect records no outcome, the
\* failure to send does.
WebsocketDispatchFails(r, failure, connected) ==
    /\ exchanges[r].pc = "dispatch" /\ exchanges[r].websocket
    /\ exchanges' = [exchanges EXCEPT ![r] =
           Terminal(@, "dispatch", IF failure = "timeout" THEN 504 ELSE 502, IF connected THEN 1 ELSE 0)]
    /\ UNCHANGED <<bootSetup, bootGeneration, acceptLoop, tcpSlots, tcp, backendActive, forgotten, bootLoad>>

-----------------------------------------------------------------------------
(* Writeback                                                               *)

ResponseConstraints(upgrade) ==
    [protocol |-> "h1", stripConnection |-> TRUE, allowTrailers |-> FALSE, preserveUpgrade |-> upgrade]

\* The first check of write_bootstrap_response: idle for nothing, with an idle
\* timeout of nothing.
WritebackGuardrails(generation, response, normalized, upgrade) ==
    ResponseBodyGuardrails(
        [idleTimeout |-> 0, totalTimeout |-> 1, maxBody |-> generation.maxResponse,
         maxPrebuffer |-> generation.maxResponse],
        [elapsed |-> 0, idle |-> 0, received |-> 0, prebuffered |-> 0, chunk |-> 0,
         declared |-> ContentLength(response.headers), headersEmitted |-> FALSE,
         progressive |-> ~normalized.endOnHeaders, forwarding |-> ~normalized.suppress, exempt |-> upgrade])

\* write_bootstrap_response.  A refused length is the one answer that keeps
\* the backend counted; a switch of protocols and a body that is not sent
\* finish at once; a body that is sent finishes when it ends.
Written(x, response) ==
    LET generation == GenerationAt(x.generation)
        upgrade    == x.websocket /\ response.status = 101
        normalized == NormalizeUpstreamResponse(response,
                        IF x.intake.method = "HEAD" THEN "head" ELSE "normal", ResponseConstraints(upgrade))
        refused    == WritebackGuardrails(generation, response, normalized, upgrade) = "size"
        answered   == Terminal([x EXCEPT !.held = FALSE], "response", response.status, 1)
                      @@ [response |-> response, sent |-> normalized, delivered |-> 0]
    IN  IF refused THEN Terminal(x, "response", 503, 1)
        ELSE IF upgrade \/ normalized.suppress THEN answered
        ELSE [answered EXCEPT !.pc = "body", !.held = TRUE]

DispatchAnswered(r, response) ==
    /\ exchanges[r].pc = "dispatch"
    /\ response.status = 101 => exchanges[r].websocket
    /\ LET x == Written(exchanges[r], response)
           dropped == exchanges[r].conn = <<>> /\ x.pc = "body"
       IN  /\ exchanges' = [exchanges EXCEPT ![r] =
                              IF dropped THEN [x EXCEPT !.pc = "ended", !.held = FALSE] ELSE x]
           /\ backendActive' = IF x.held /\ ~dropped THEN backendActive ELSE FinishAccounting(backendActive)
    /\ UNCHANGED <<bootSetup, bootGeneration, acceptLoop, tcpSlots, tcp, forgotten, bootLoad>>

\* BootstrapStreamingBody::poll_frame with a frame of data: it is passed on,
\* or the body is cut.
BodyFrame(r, size) ==
    /\ exchanges[r].pc = "body"
    /\ LET x == exchanges[r]
           maxBody == GenerationAt(x.generation).maxResponse
           input == [elapsed |-> 0, idle |-> 0, received |-> x.delivered, prebuffered |-> 0, chunk |-> size,
                     declared |-> ContentLength(x.response.headers), headersEmitted |-> TRUE,
                     progressive |-> TRUE, forwarding |-> TRUE, exempt |-> FALSE]
           config == [idleTimeout |-> 1, totalTimeout |-> 1, maxBody |-> maxBody, maxPrebuffer |-> maxBody]
       IN  IF ResponseBodyGuardrails(config, input) = "continue"
           THEN /\ exchanges' = [exchanges EXCEPT ![r].delivered = ResponseBodyAfter(input).received]
                /\ UNCHANGED backendActive
           ELSE /\ exchanges' = [exchanges EXCEPT ![r].pc = "terminal", ![r].held = FALSE]
                /\ backendActive' = FinishAccounting(backendActive)
    /\ UNCHANGED <<bootSetup, bootGeneration, acceptLoop, tcpSlots, tcp, forgotten, bootLoad>>

\* The upstream's body ends or fails: the client sees the end of the body.
BodyEnds(r) ==
    /\ exchanges[r].pc = "body"
    /\ exchanges' = [exchanges EXCEPT ![r].pc = "terminal", ![r].held = FALSE]
    /\ backendActive' = FinishAccounting(backendActive)
    /\ UNCHANGED <<bootSetup, bootGeneration, acceptLoop, tcpSlots, tcp, forgotten, bootLoad>>

\* Drop for BootstrapStreamingBody, and the request that a closing HTTP/1.1
\* connection drops where it is: [exchange, active].
DropAlwaysFinishes(x, active) ==
    [exchange |-> [x EXCEPT !.pc = "ended", !.held = FALSE],
     active |-> IF x.pc \in {"body", "terminal"} THEN FinishAccounting(active) ELSE active]
DropExchange(x, active) ==
    IF x.pc \in {"body", "terminal"}
    THEN [exchange |-> [x EXCEPT !.pc = "ended", !.held = FALSE],
          active |-> IF x.pc = "body" THEN FinishAccounting(active) ELSE active]
    ELSE [exchange |-> Terminal(x, "dropped", 0, 0), active |-> active]

\* hyper is done with the body.
BodyDropped(r) ==
    /\ exchanges[r].pc = "terminal"
    /\ LET dropped == DropExchange(exchanges[r], backendActive)
       IN  /\ exchanges' = [exchanges EXCEPT ![r] = dropped.exchange]
           /\ backendActive' = dropped.active
    /\ UNCHANGED <<bootSetup, bootGeneration, acceptLoop, tcpSlots, tcp, forgotten, bootLoad>>

\* The connection ends: the client leaves, the protocol fails or the timeout
\* of the whole connection passes.  What it was sending is dropped; an
\* HTTP/1.1 request is dropped with it, an HTTP/2 request runs on alone.
ConnectionEnds(c) ==
    /\ tcp[c].pc = "serving"
    /\ tcp' = [tcp EXCEPT ![c] = NoTcp]
    /\ tcpSlots' = tcpSlots - 1
    /\ LET mine == {r \in BootRequests : exchanges[r].pc \notin {"none", "ended"} /\ exchanges[r].conn = <<c>>}
           gone == {r \in mine : ~tcp[c].h2 \/ exchanges[r].pc \in {"body", "terminal"}}
       IN  /\ exchanges' = [r \in BootRequests |->
                 IF r \in gone THEN DropExchange(exchanges[r], backendActive).exchange
                 ELSE IF r \in mine THEN [exchanges[r] EXCEPT !.conn = <<>>]
                 ELSE exchanges[r]]
           /\ backendActive' = FoldSet(LAMBDA r, active : DropExchange(exchanges[r], active).active,
                                       backendActive, gone)
    /\ UNCHANGED <<bootSetup, bootGeneration, acceptLoop, forgotten, bootLoad>>

-----------------------------------------------------------------------------
(* The surroundings                                                        *)

\* A reload publishes the next generation.
GenerationPublished ==
    /\ bootGeneration < Len(bootSetup.generations)
    /\ bootGeneration' = bootGeneration + 1
    /\ UNCHANGED <<bootSetup, acceptLoop, tcpSlots, tcp, exchanges, backendActive, forgotten, bootLoad>>

ShutdownSignalled ==
    /\ ~acceptLoop.signalled
    /\ acceptLoop' = [acceptLoop EXCEPT !.signalled = TRUE]
    /\ UNCHANGED <<bootSetup, bootGeneration, tcpSlots, tcp, exchanges, backendActive, forgotten, bootLoad>>

BootInit ==
    /\ bootSetup \in BootSetups
    /\ bootGeneration = 1
    /\ acceptLoop = [pc |-> "running", signalled |-> FALSE]
    /\ tcpSlots = 0
    /\ tcp = [c \in TcpConnections |-> NoTcp]
    /\ exchanges = [r \in BootRequests |-> NoExchange]
    /\ backendActive = 0
    /\ forgotten = 0
    /\ bootLoad = bootSetup.load

BootNext ==
    \/ \E c \in TcpConnections :
         \/ \E limited \in BOOLEAN : AcceptConnection(c, limited)
         \/ ConnectionTaskStarts(c)
         \/ \E ok \in BOOLEAN, h2 \in bootSetup.alpn : HandshakeEnds(c, ok, h2)
         \/ \E r \in BootRequests, request \in bootSetup.requests, resolution \in bootSetup.resolutions,
               admission \in bootSetup.admissions : RequestArrives(c, r, request, resolution, admission)
         \/ ConnectionEnds(c)
    \/ \E r \in BootRequests :
         \/ \E result \in bootSetup.auths : AuthorizationEnds(r, result)
         \/ \E failure \in bootSetup.failures : DispatchFails(r, failure)
         \/ \E failure \in bootSetup.failures, connected \in BOOLEAN :
              WebsocketDispatchFails(r, failure, connected)
         \/ \E response \in bootSetup.answers : DispatchAnswered(r, response)
         \/ \E size \in bootSetup.frames : BodyFrame(r, size)
         \/ BodyEnds(r)
         \/ BodyDropped(r)
    \/ AcceptSleeps
    \/ GenerationPublished
    \/ ShutdownSignalled

BootSpec == BootInit /\ [][BootNext]_bootVars

-----------------------------------------------------------------------------
(* Properties                                                              *)

\* The connection counter is the number of connection tasks, and never more
\* than the newest of them was allowed to make it, although reloads change the
\* limit under the connections that are open.
ConnectionsCapped ==
    LET live == {c \in TcpConnections : tcp[c].pc # "free"}
    IN  /\ tcpSlots = Cardinality(live)
        /\ live # {} => tcpSlots <= Max({ConnectionCap(GenerationAt(tcp[c].generation)) : c \in live})

\* The backend's counter is exactly the requests that began and have not
\* finished: an answered request returns its place once, when its body ends,
\* is cut or is dropped, whichever comes first.  (Requests that end before
\* they are answered never return theirs.)
BackendAccounted ==
    /\ backendActive = forgotten + Cardinality({r \in BootRequests : exchanges[r].held})
    /\ \A r \in BootRequests : exchanges[r].pc = "ended" /\ exchanges[r].stage = "response" => ~exchanges[r].held

\* A request that ends is observed once; only the refusals of the external
\* authorization, the failures to open a websocket and dropped requests leave
\* no outcome.
ObservedOnce ==
    \A r \in BootRequests : exchanges[r].pc = "ended" =>
        \/ exchanges[r].observed = 1
        \/ exchanges[r].observed = 0 /\ exchanges[r].stage \in {"external_auth", "dropped"}
        \/ exchanges[r].observed = 0 /\ exchanges[r].stage = "dispatch" /\ exchanges[r].websocket

\* The request as the HTTP/3 plane would receive it.
H3Form(request) ==
    LET connect == request.method = "CONNECT"
    IN  Added(":method", request.method)
        \o Unless(connect, Added(":scheme", "https"))
        \o Unless(connect, Added(":path", RootedPath(request.target)))
        \o Unless(request.authority = <<>>, Added(":authority", request.authority[1]))
        \o request.headers

\* Both planes judge a request alike: what TCP clients may ask is what HTTP/3
\* clients may ask, but for the limits on header sizes, for upgrades, which
\* HTTP/3 has none of, and for repeated or unreadable Host headers.
PlanesAgree ==
    \A r \in BootRequests : exchanges[r].pc # "none" =>
        LET request == exchanges[r].request
            policy  == GenerationAt(exchanges[r].generation).policy
            verdict == ValidateRequestHeaders(H3Form(request), policy)
            alike   == /\ \A h \in Range(request.headers) : h.name \notin {"connection", "upgrade"} /\ h.utf8
                       /\ Len(Named(request.headers, "host")) <= 1
        IN  (alike /\ 431 \notin {v.status : v \in {x \in {verdict, exchanges[r].intake} : ~x.ok}})
              => verdict = exchanges[r].intake

\* What is sent upstream is well formed: no hop-by-hop header of the client's
\* survives (an upgrade keeps the two it needs), one Host, each forwarding
\* header once, and every header the authorization set or removed is as it
\* said, unless the client's Connection header names it; and then it is
\* what the HTTP/3 plane would have sent.
UpstreamRequestClean ==
    \A r \in BootRequests : exchanges[r].pc \in {"dispatch", "body"} =>
        LET x          == exchanges[r]
            generation == GenerationAt(x.generation)
            headers    == x.upstream.headers
            tokens     == ConnectionHeaderTokens(x.request.headers)
            names      == {m.name : m \in Range(x.mutations)}
            kept       == IF x.websocket THEN {"connection", "upgrade"} ELSE {"te"}
            viaH3      == BuildRequest(generation, x.websocket, BuildInput(x, x.request.headers, x.mutations))
        IN  /\ {headers[i].name : i \in DOMAIN headers} \cap (HopByHop \cup PseudoHeaders) \subseteq kept
            /\ ~x.websocket => Values(headers, "te") \subseteq {"trailers"}
            /\ Len(Named(headers, "host")) = 1
            /\ \A name \in ForwardedNames : Len(Named(headers, name)) <= 1
            /\ names \cap tokens = {} =>
                 /\ \A m \in Range(x.mutations) : m.name \notin HopByHop =>
                      Named(headers, m.name) = Unless(m.value = <<>>, Added(m.name, m.value[1]))
                 /\ Range(viaH3[1].headers) = Range(headers)

\* No client receives more of a body than the limit of its generation, and
\* none at all where there must be no body.
DeliveryBounded ==
    \A r \in BootRequests : exchanges[r].pc \in {"body", "terminal", "ended"} /\ "sent" \in DOMAIN exchanges[r] =>
        /\ exchanges[r].delivered <= GenerationAt(exchanges[r].generation).maxResponse
        /\ exchanges[r].request.method = "HEAD" \/ StatusForbidsResponseBody(exchanges[r].status)
             => exchanges[r].delivered = 0
        /\ \A h \in Range(exchanges[r].sent.headers) :
             h.name \notin HopByHop \/ (exchanges[r].status = 101 /\ h.name \in {"connection", "upgrade"})

\* The bootstrap plane accounts for its connections and requests, judges and
\* forwards requests as the HTTP/3 plane does, and bounds what it returns.
BootstrapAccountable ==
    /\ ConnectionsCapped /\ BackendAccounted /\ ObservedOnce
    /\ PlanesAgree /\ UpstreamRequestClean /\ DeliveryBounded

=============================================================================
