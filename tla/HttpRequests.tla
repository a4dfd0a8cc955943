---------------------------- MODULE HttpRequests ----------------------------
(***************************************************************************)
(* What the proxy decides about a request from its head alone: whether it  *)
(* is well formed and allowed (crates/edge/src/quic_listener/validation.rs *)
(* with routing/util.rs and resilience/runtime.rs), and what is sent to    *)
(* the upstream for it (crates/bridge/src).  A header is a record          *)
(* [name, value, size, utf8]; names are lower case, sizes are the bytes of *)
(* name and value together, and the value is what the code reads from it:  *)
(* a set of tokens for "connection", <<n>> or <<>> (not a number) for      *)
(* "content-length", an authority record for "host" and ":authority".  A   *)
(* path is a sequence of tokens in which "%x" stands for the escape of the *)
(* octet x.  Letter case is folded throughout.                             *)
(***************************************************************************)
EXTENDS Integers, Sequences, FiniteSets, SequencesExt

-----------------------------------------------------------------------------
(* Paths                                                                   *)

\* split_once('?'): the part of the request target before the query.
BeforeQuery(target) ==
    LET queries == {i \in DOMAIN target : target[i] = "?"}
    IN  IF queries = {} THEN target
        ELSE SubSeq(target, 1, (CHOOSE i \in queries : \A j \in queries : i <= j) - 1)

Escapes == ("%/" :> "/") @@ ("%." :> ".") @@ ("%\\" :> "\\") @@ ("%a" :> "a")

\* Percent decoding of one token; "%!" is a malformed escape and "%ff" an
\* octet that is no UTF-8 by itself, which the callers refuse before.
DecodeOctet(token) == IF token \in DOMAIN Escapes THEN Escapes[token] ELSE token

DoubleSlash(path) ==
    \E i \in 1 .. Len(path) - 1 : path[i] = "/" /\ path[i + 1] = "/"

DotSegment(path) ==
    \E i \in 0 .. Len(path), n \in {1, 2} :
        /\ i + n <= Len(path)
        /\ i = 0 \/ path[i] = "/"
        /\ \A k \in 1 .. n : path[i + k] = "."
        /\ i + n = Len(path) \/ path[i + n + 1] = "/"

RequestPathIsAmbiguous(target) ==
    LET path    == BeforeQuery(target)
        decoded == [i \in DOMAIN path |-> DecodeOctet(path[i])]
    IN  \/ DoubleSlash(path) \/ Contains(path, "\\")
        \/ Contains(path, "%!") \/ Contains(path, "%ff")
        \/ DotSegment(decoded)
        \/ DoubleSlash(decoded) \/ Contains(decoded, "\\")

-----------------------------------------------------------------------------
(* Policy questions the resilience settings answer                         *)

MethodAllowed(policy, method) ==
    policy.methods = {} \/ method \in policy.methods

PathDenied(policy, path) == \E prefix \in policy.deniedPrefixes : IsPrefix(prefix, path)

\* connect_allowed: the target must name a port; ports and authorities are
\* restricted only when the configuration lists some.
ConnectAllowed(policy, target) ==
    /\ policy.allowConnect
    /\ target.port # <<>>
    /\ policy.connectPorts = {} \/ target.port[1] \in policy.connectPorts
    /\ policy.connectTargets = {} \/ <<target.host, target.port[1]>> \in policy.connectTargets

-----------------------------------------------------------------------------
(* Validation                                                              *)

Refusal(status, byPolicy) == [ok |-> FALSE, status |-> status, policy |-> byPolicy]
BadRequest == Refusal(400, FALSE)

\* The first check of the list that applies, or the given result.
FirstRefusal(checks, result) ==
    LET failed == {i \in DOMAIN checks : checks[i][1]}
    IN  IF failed = {} THEN result
        ELSE checks[CHOOSE i \in failed : \A j \in failed : i <= j][2]

\* An authority value is [host, port, form, size]: form "plain" parses, the
\* others hold blanks or user information, or do not parse.  host is what is
\* left once trailing dots are cut, so it may be empty.
ParseAuthorityValue(value) ==
    IF value.form = "plain" /\ value.host # "" THEN <<value>> ELSE <<>>

AuthoritiesMatch(authority, host) ==
    /\ authority.host = host.host
    /\ authority.port = <<>> \/ host.port = <<>> \/ authority.port = host.port

Named(headers, name) == SelectSeq(headers, LAMBDA h : h.name = name)
Values(headers, name) == {h.value : h \in Range(Named(headers, name))}

\* parse_*_content_length: <<>> none, <<n>> agreed; a value that is no number
\* or differs from an earlier one refuses the request.
BadContentLength(headers) ==
    LET lengths == Values(headers, "content-length")
    IN  <<>> \in lengths \/ Cardinality(lengths) > 1

ContentLength(headers) ==
    LET lengths == Named(headers, "content-length")
    IN  IF lengths = <<>> THEN <<>> ELSE lengths[1].value

\* extract_header_value: the first header of that name, if it is text.
ExtractHeaderValue(headers, name) ==
    LET found == Named(headers, name)
    IN  IF found # <<>> /\ found[1].utf8 THEN <<found[1].value>> ELSE <<>>

\* validate_request_parts, shared by both planes.  A part is [method, path,
\* authority, host, length, tunnel]; authority and host are options.
ValidateRequestParts(part, policy) ==
    LET connect   == part.method = "CONNECT"
        authority == IF part.authority = <<>> THEN <<>> ELSE ParseAuthorityValue(part.authority[1])
        host      == IF part.host = <<>> THEN <<>> ELSE ParseAuthorityValue(part.host[1])
        target    == IF authority # <<>> THEN authority ELSE host
        rooted    == part.path # <<>> /\ part.path[1] = "/"
    IN  FirstRefusal(<<
          <<part.method \in {"", "G T"}, BadRequest>>,
          <<RequestPathIsAmbiguous(part.path), BadRequest>>,
          <<connect /\ part.tunnel /\ ~rooted, BadRequest>>,
          <<connect /\ ~part.tunnel /\ part.path \notin {<<>>, <<"/">>}, BadRequest>>,
          <<~connect /\ ~rooted, BadRequest>>,
          <<part.authority # <<>> /\ authority = <<>>, BadRequest>>,
          <<part.host # <<>> /\ host = <<>>, BadRequest>>,
          <<policy.enforceMatch /\ authority # <<>> /\ host # <<>>
              /\ ~AuthoritiesMatch(authority[1], host[1]), BadRequest>>,
          <<~MethodAllowed(policy, part.method), Refusal(405, TRUE)>>,
          <<connect /\ target = <<>>, BadRequest>>,
          <<connect /\ target # <<>> /\ target[1].port = <<>>, BadRequest>>,
          <<connect /\ target # <<>> /\ ~ConnectAllowed(policy, target[1]), Refusal(403, TRUE)>>,
          <<(~connect \/ part.tunnel) /\ PathDenied(policy, part.path), Refusal(403, TRUE)>> >>,
        [ok |-> TRUE, method |-> part.method, path |-> part.path,
         authority |-> IF part.authority # <<>> THEN part.authority ELSE part.host,
         length |-> part.length, tunnel |-> part.tunnel])

PseudoHeaders == {":method", ":path", ":authority", ":scheme", ":protocol", ":status"}
ReadOnce == (PseudoHeaders \ {":status"}) \cup {"host"}

\* One turn of the header loop of validate_request_headers; `read` maps the
\* names that may appear once to their values.
ReadHeader(state, header, policy) ==
    LET bytes == state.bytes + header.size
        once  == header.name \in ReadOnce
    IN  IF state.refusal # <<>> THEN state
        ELSE FirstRefusal(<<
               <<bytes > policy.maxHeaderBytes, [state EXCEPT !.refusal = <<Refusal(431, FALSE)>>]>>,
               <<\/ once /\ state.read[header.name] # <<>>
                 \/ (once \/ header.name \in {"connection", "upgrade"}) /\ ~header.utf8
                 \/ header.name = ":scheme" /\ header.value \notin {"http", "https"}
                 \/ header.name = ":status",
                 [state EXCEPT !.refusal = <<BadRequest>>]>>,
               <<once, [state EXCEPT !.bytes = bytes,
                                     !.read = [n \in ReadOnce |->
                                         IF n = header.name THEN <<header.value>> ELSE @[n]]]>>,
               <<header.name = "upgrade" \/ (header.name = "connection" /\ "upgrade" \in header.value),
                 [state EXCEPT !.bytes = bytes, !.upgrade = TRUE]>> >>,
             [state EXCEPT !.bytes = bytes])

H3WebsocketTunnelRequested(method, headers) ==
    method = "CONNECT" /\ "websocket" \in Values(SelectSeq(headers, LAMBDA h : h.utf8), ":protocol")

\* validate_request_headers: the HTTP/3 plane.
ValidateRequestHeaders(headers, policy) ==
    LET start == [bytes |-> 0, upgrade |-> FALSE, refusal |-> <<>>,
                  read |-> [name \in ReadOnce |-> <<>>]]
        seen    == FoldLeft(LAMBDA s, h : ReadHeader(s, h, policy), start, headers)
        read    == seen.read
        method  == read[":method"]
        connect == method = <<"CONNECT">>
        tunnel  == method # <<>> /\ H3WebsocketTunnelRequested(method[1], headers)
    IN  IF Len(headers) > policy.maxHeaders THEN Refusal(431, FALSE)
        ELSE IF seen.refusal # <<>> THEN seen.refusal[1]
        ELSE IF \/ BadContentLength(headers)
                \/ method = <<>>
                \/ read[":protocol"] # <<>> /\ ~tunnel
                \/ seen.upgrade
                \/ (~connect \/ tunnel) /\ (read[":scheme"] = <<>> \/ read[":path"] = <<>>)
                \/ connect /\ ~tunnel /\ (read[":scheme"] # <<>> \/ read[":path"] # <<>>)
             THEN BadRequest
        ELSE ValidateRequestParts(
               [method |-> method[1], path |-> IF connect /\ ~tunnel THEN <<"/">> ELSE read[":path"][1],
                authority |-> read[":authority"], host |-> read["host"],
                length |-> ContentLength(headers), tunnel |-> tunnel], policy)

TotalSize(headers) == FoldLeft(LAMBDA n, h : n + h.size, 0, headers)

\* validate_http_request: the TCP plane, on a request hyper has parsed
\* [method, authority, target, lineSize, headers].  Only the first Host header
\* is read and it is counted twice; without headers no size is checked.
ValidateHttpRequest(request, policy) ==
    LET hosts == Named(request.headers, "host")
        bytes == request.lineSize + TotalSize(request.headers)
                 + (IF request.authority = <<>> THEN 0 ELSE request.authority[1].size)
                 + (IF hosts = <<>> THEN 0 ELSE hosts[1].size)
    IN  FirstRefusal(<<
          <<Len(request.headers) + 2 > policy.maxHeaders, Refusal(431, FALSE)>>,
          <<hosts # <<>> /\ ~hosts[1].utf8, BadRequest>>,
          <<request.headers # <<>> /\ bytes > policy.maxHeaderBytes, Refusal(431, FALSE)>>,
          <<BadContentLength(request.headers), BadRequest>> >>,
        ValidateRequestParts(
          [method |-> request.method,
           path |-> IF request.target = <<>> THEN <<"/">> ELSE request.target,
           authority |-> request.authority,
           host |-> IF hosts = <<>> THEN <<>> ELSE <<hosts[1].value>>,
           length |-> ContentLength(request.headers), tunnel |-> FALSE], policy))

\* is_websocket_upgrade_request: an HTTP/1.1 GET that asks to switch.
IsWebsocketUpgradeRequest(request, useH2) ==
    LET upgrade    == Named(request.headers, "upgrade")
        connection == Named(request.headers, "connection")
    IN  /\ ~useH2 /\ request.method = "GET"
        /\ upgrade # <<>> /\ upgrade[1].utf8 /\ upgrade[1].value = "websocket"
        /\ connection # <<>> /\ connection[1].utf8 /\ "upgrade" \in connection[1].value
=============================================================================
