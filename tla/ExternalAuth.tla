---------------------------- MODULE ExternalAuth ----------------------------
(***************************************************************************)
(* External authorization: the HTTP check and the OIDC check of            *)
(* crates/edge/src/quic_listener/forwarding/auth.rs with the decisions of  *)
(* crates/edge/src/runtime/connection/auth.rs.  Evaluations of concurrent  *)
(* requests share the process-wide cache of OIDC discovery documents: an   *)
(* entry is found or made under the cache's mutex (the least recently used *)
(* one makes room), young metadata is used at once, older metadata is used *)
(* while one background task refreshes it, and expired metadata is fetched *)
(* by whoever holds the entry's refresh lock.  An evicted entry lives on   *)
(* with those who hold it.  Every evaluation runs under one timeout, whose *)
(* expiry drops it wherever it waits and releases what it holds.           *)
(*                                                                         *)
(* The authorization service is external: its discovery document and its   *)
(* answers change at any time, and a call may fail or never be answered.   *)
(***************************************************************************)
EXTENDS HttpBridge, Functions, FiniteSetsExt

CONSTANTS AuthWorkers,       \* request tasks that evaluate at the same time
          AuthSetups,        \* [requests, answers, documents, load, changes, horizon]
          MetadataRefresh,   \* OIDC_METADATA_REFRESH_AFTER
          MetadataTtl,       \* OIDC_METADATA_CACHE_TTL
          MetadataCapacity   \* OIDC_METADATA_CACHE_MAX_ENTRIES

ASSUME AuthAssumption ==
    MetadataRefresh \in Nat /\ MetadataTtl \in Nat /\ MetadataCapacity \in Nat \ {0}

-----------------------------------------------------------------------------
(* Header mutations                                                        *)

ProtectedMutations ==
    {"host", "connection", "content-length", "transfer-encoding", "upgrade", "te", "trailer",
     "expect", "authorization", "location", "www-authenticate", "forwarded", "x-forwarded-for",
     "x-forwarded-host", "x-forwarded-port", "x-forwarded-proto", "keep-alive", "proxy-connection"}

\* canonicalize_auth_request_mutations: unprotected names, the last mutation of
\* each name.
CanonicalMutations(mutations) ==
    LET allowed == SelectSeq(mutations, LAMBDA m : m.name \notin ProtectedMutations)
        last(i) == \A j \in i + 1 .. Len(allowed) : allowed[j].name # allowed[i].name
    IN  FoldLeft(LAMBDA kept, i : IF last(i) THEN Append(kept, allowed[i]) ELSE kept,
                 <<>>, [i \in DOMAIN allowed |-> i])

\* apply_auth_request_mutations: the TCP plane edits the header list itself.
ApplyAuthMutations(headers, mutations) ==
    FoldLeft(LAMBDA list, m : SelectSeq(list, LAMBDA h : h.name # m.name)
                              \o Unless(m.value = <<>>, Added(m.name, m.value[1])),
             headers, CanonicalMutations(mutations))

AllowedAuthHeaders(headers, allowlist) ==
    SelectSeq(headers, LAMBDA h : h.name \in allowlist /\ h.utf8)

\* auth_allow_mutations: every allowed header of the answer sets one.
AuthAllowMutations(headers, allowlist) ==
    LET allowed == AllowedAuthHeaders(headers, allowlist)
    IN  CanonicalMutations([i \in DOMAIN allowed |->
            [name |-> allowed[i].name, value |-> <<allowed[i].value>>]])

-----------------------------------------------------------------------------
(* Decisions                                                               *)

AuthResult(kind, status, headers, mutations) ==
    [kind |-> kind, status |-> status, headers |-> headers, mutations |-> mutations]
AuthError == AuthResult("error", 0, <<>>, <<>>)
AuthTimeout == AuthResult("timeout", 0, <<>>, <<>>)
AuthDeny(status) == AuthResult("deny", status, <<>>, <<>>)
AuthChallenge == AuthResult("challenge", 401, <<>>, <<>>)
AuthAllow(mutations) == AuthResult("allow", 200, <<>>, mutations)

\* map_http_external_auth_response, after collect_auth_body has read the body
\* of an answer that is neither success nor redirection.
MapHttpAuthResponse(answer, allowlist) ==
    LET class   == answer.status \div 100
        allowed == AllowedAuthHeaders(answer.headers, allowlist)
        without(name) == SelectSeq(allowed, LAMBDA h : h.name # name)
        has(name) == ExtractHeaderValue(answer.headers, name) # <<>>
    IN  CASE class = 2 -> AuthAllow(AuthAllowMutations(answer.headers, allowlist))
          [] class = 3 -> IF has("location")
                          THEN AuthResult("redirect", answer.status, without("location"), <<>>)
                          ELSE AuthError
          [] class \notin {2, 3} /\ ~answer.readable -> AuthError
          [] class = 4 /\ answer.readable ->
                IF answer.status = 401 /\ has("www-authenticate")
                THEN AuthResult("challenge", 401, without("www-authenticate"), <<>>)
                ELSE AuthResult("deny", answer.status, allowed, <<>>)
          [] OTHER -> AuthError

\* authorization_header_from_pending_forward: a mutation decides before the
\* client's own header.
AuthorizationHeader(request) ==
    LET set == SelectSeq(request.mutations, LAMBDA m : m.name = "authorization")
    IN  IF set # <<>> THEN set[Len(set)].value
        ELSE ExtractHeaderValue(request.headers, "authorization")

\* An authorization value is [scheme, token].
OidcAuthorized(request) ==
    LET value == AuthorizationHeader(request)
    IN  value # <<>> /\ value[1].scheme = "bearer"

\* A URL is [scheme, host, key].
AuthUriSchemePermitted(url) ==
    url.scheme = "https" \/ (url.scheme = "http" /\ url.host \in {"localhost", "127.0.0.1", "[::1]"})

\* oidc_discovery_target: the configured document, else the issuer's.
OidcDiscoveryTarget(auth) ==
    LET url == IF auth.discovery # <<>> THEN auth.discovery ELSE auth.issuer
    IN  IF url # <<>> /\ AuthUriSchemePermitted(url[1]) THEN url ELSE <<>>

\* validate_oidc_provider_metadata on the document a fetch returned.
ValidMetadata(document) ==
    document.ok /\ document.endpoint # <<>> /\ AuthUriSchemePermitted(document.endpoint[1])

OidcScopeSatisfied(required, granted) == required \subseteq granted
OidcAudienceMatches(expected, audience) == expected = <<>> \/ expected[1] \in audience

\* run_oidc_external_auth from the introspection answer on.
OidcDecision(auth, answer) ==
    LET class == answer.status \div 100
    IN  FirstRefusal(<<
          <<class = 4, AuthDeny(403)>>,
          <<class # 2 \/ ~answer.readable, AuthError>>,
          <<~answer.active, AuthDeny(403)>>,
          <<auth.issuer # <<>> /\ answer.issuer # auth.issuer[1].key, AuthDeny(403)>>,
          <<~OidcAudienceMatches(auth.audience, answer.audience), AuthDeny(403)>>,
          <<auth.scopes # {} /\ (answer.scope = <<>> \/ ~OidcScopeSatisfied(auth.scopes, answer.scope[1])),
            AuthDeny(403)>> >>, AuthAllow(<<>>))

\* append_auth_request_headers: the client's headers join those of the call,
\* then the configured ones and the description of the request replace what
\* has their name.
UnsafeForAuth == {"host", "connection", "content-length", "transfer-encoding", "upgrade", "te",
                  "trailer", "expect", "keep-alive", "proxy-connection"}

DescribedRequest(request) ==
    Added("x-impulse-original-method", request.method)
    \o Added("x-impulse-original-path", request.path)
    \o Unless(request.authority = <<>>, Added("x-impulse-original-authority", request.authority[1]))
    \o Added("x-impulse-route-upstream", request.upstream)
    \o Added("x-impulse-backend-address", request.backend)

AuthRequestHeaders(call, request) ==
    LET replaced == request.auth.configured \o DescribedRequest(request)
        names    == {replaced[i].name : i \in DOMAIN replaced}
        kept     == SelectSeq(call \o request.headers, LAMBDA h :
                      h.name \notin PseudoHeaders \cup UnsafeForAuth \cup names)
        last     == SelectSeq([i \in DOMAIN replaced |-> <<i, replaced[i]>>], LAMBDA p :
                      \A j \in p[1] + 1 .. Len(replaced) : replaced[j].name # p[2].name)
    IN  kept \o [i \in DOMAIN last |-> last[i][2]]

\* resolve_external_auth_state_transition, with failure_resolution: what the
\* request does next.
AuthStateTransition(result, failOpen) ==
    CASE result.kind = "allow" -> [to |-> "admitted", status |-> 200, mutations |-> result.mutations]
      [] result.kind \in {"deny", "redirect", "challenge"} ->
            [to |-> "denied", status |-> result.status, mutations |-> <<>>]
      [] result.kind \in {"error", "timeout"} /\ failOpen ->
            [to |-> "admitted", status |-> 200, mutations |-> <<>>]
      [] result.kind = "timeout" /\ ~failOpen -> [to |-> "timed_out", status |-> 504, mutations |-> <<>>]
      [] result.kind = "error" /\ ~failOpen -> [to |-> "unavailable", status |-> 503, mutations |-> <<>>]
-----------------------------------------------------------------------------
(* The metadata cache                                                      *)

VARIABLES
    authSetup,    \* the setup of this behaviour
    authClock,    \* Instant::now()
    provider,     \* external: per discovery URL its document and when each endpoint was last named
    metaCache,    \* OidcMetadataCache: [recent, entry], the URLs by last access and their entries
    metaEntries,  \* the entries someone holds: [meta, lock]
    evals,        \* the evaluation of each worker
    authLoad      \* requests and document changes left

authVars == <<authSetup, authClock, provider, metaCache, metaEntries, evals, authLoad>>

\* External: a document is published; when each endpoint was last named.
Naming(named, document, time) ==
    [document |-> document,
     named |-> IF document.endpoint = <<>> THEN named
               ELSE (document.endpoint[1].key :> time) @@ named]

IdleEval == [pc |-> "idle"]
NewMetadataEntry(url) == [url |-> url, meta |-> <<>>, lock |-> "free"]

\* Entries that neither the cache nor an evaluation nor a task holds are gone.
Held(entries, cache, evaluations) ==
    Restrict(entries, {id \in DOMAIN entries :
        \/ entries[id].lock = "task"
        \/ id \in Range(cache.entry)
        \/ \E w \in AuthWorkers : evaluations[w].pc \in {"lock", "fetch"} /\ evaluations[w].entry = id})

\* OidcMetadataCache::entry: [id, cache, entries] after looking url up.
CacheEntry(cache, entries, url) ==
    LET known  == url \in DOMAIN cache.entry
        full   == Cardinality(DOMAIN cache.entry) >= MetadataCapacity
        others == SelectSeq(cache.recent, LAMBDA u : u # url)
        kept   == IF ~known /\ full THEN Tail(others) ELSE others
        fresh  == Min((1 .. Cardinality(DOMAIN entries) + 1) \ DOMAIN entries)
        id     == IF known THEN cache.entry[url] ELSE fresh
    IN  [id |-> id,
         cache |-> [recent |-> Append(kept, url),
                    entry |-> [u \in Range(kept) \cup {url} |-> IF u = url THEN id ELSE cache.entry[u]]],
         entries |-> IF known THEN entries ELSE (id :> NewMetadataEntry(url)) @@ entries]

MetadataAge(entry) == authClock - entry.meta[1].at
FreshIgnoringTtl(entry, limit) == entry.meta # <<>>
MetadataYounger(entry, limit) == entry.meta # <<>> /\ MetadataAge(entry) < limit

\* What is stored of the document the discovery endpoint answers with.
StoredMetadata(url) == [at |-> authClock, endpoint |-> provider[url].document.endpoint[1]]

-----------------------------------------------------------------------------
(* Evaluations                                                             *)

\* The introspection call of run_oidc_external_auth is under way.
Introspecting(request, since, url, endpoint) ==
    [pc |-> "introspect", request |-> request, since |-> since, url |-> url, endpoint |-> endpoint,
     sent |-> AuthRequestHeaders(Added("content-type", "form"), request)]

\* The evaluation has its result; resolve_external_auth_state_transition says
\* what becomes of the request.
Decided(w, request, result) ==
    [evals EXCEPT ![w] = [pc |-> "done", request |-> request, result |-> result,
                          next |-> AuthStateTransition(result, request.auth.failOpen)]]

\* run_external_auth of an HTTP policy up to the call of the service.
EvaluateHttp(w, request) ==
    /\ request.auth.kind = "http"
    /\ evals' = [evals EXCEPT ![w] = [pc |-> "http", request |-> request, since |-> authClock,
                                      sent |-> AuthRequestHeaders(<<>>, request)]]
    /\ UNCHANGED <<metaCache, metaEntries>>

\* An OIDC request without bearer token, or without usable discovery URL.
EvaluateRefused(w, request) ==
    /\ request.auth.kind = "oidc"
    /\ OidcAuthorized(request) => OidcDiscoveryTarget(request.auth) = <<>>
    /\ evals' = Decided(w, request, IF OidcAuthorized(request) THEN AuthError ELSE AuthChallenge)
    /\ UNCHANGED <<metaCache, metaEntries>>

\* oidc_provider_metadata up to its first await: metadata that may be used
\* leads on to the introspection call, with a background refresh when it is no
\* longer young and nobody refreshes it; otherwise the refresh lock is awaited.
EvaluateOidc(w, request) ==
    /\ request.auth.kind = "oidc" /\ OidcAuthorized(request)
    /\ OidcDiscoveryTarget(request.auth) # <<>>
    /\ LET url   == OidcDiscoveryTarget(request.auth)[1].key
           found == CacheEntry(metaCache, metaEntries, url)
           entry == found.entries[found.id]
           usable == MetadataYounger(entry, MetadataTtl)
           spawn == usable /\ ~MetadataYounger(entry, MetadataRefresh) /\ entry.lock = "free"
           entries == [found.entries EXCEPT ![found.id].lock = IF spawn THEN "task" ELSE @]
       IN  /\ metaCache' = found.cache
           /\ evals' = [evals EXCEPT ![w] =
                          IF usable THEN Introspecting(request, authClock, url, entry.meta[1].endpoint)
                          ELSE [pc |-> "lock", request |-> request, since |-> authClock,
                                url |-> url, entry |-> found.id]]
           /\ metaEntries' = Held(entries, found.cache, evals')

EvaluateStart(w, request) ==
    /\ evals[w].pc = "idle" /\ authLoad.requests > 0
    /\ authLoad' = [authLoad EXCEPT !.requests = @ - 1]
    /\ \/ EvaluateHttp(w, request)
       \/ EvaluateRefused(w, request)
       \/ EvaluateOidc(w, request)
    /\ UNCHANGED <<authSetup, authClock, provider>>

\* refresh_oidc_metadata once the lock is ours: metadata another evaluation
\* has stored meanwhile is used, else the document is fetched.
RefreshLocked(w) ==
    /\ evals[w].pc = "lock"
    /\ metaEntries[evals[w].entry].lock = "free"
    /\ LET id    == evals[w].entry
           entry == metaEntries[id]
           usable == MetadataYounger(entry, MetadataTtl)
       IN  /\ evals' = [evals EXCEPT ![w] =
                          IF usable THEN Introspecting(@.request, @.since, @.url, entry.meta[1].endpoint)
                          ELSE [@ EXCEPT !.pc = "fetch"]]
           /\ metaEntries' = Held(IF usable THEN metaEntries
                                  ELSE [metaEntries EXCEPT ![id].lock = w], metaCache, evals')
    /\ UNCHANGED <<authSetup, authClock, provider, metaCache, authLoad>>

\* The fetch of the holder of the lock ends; a failure ends the evaluation.
RefreshFetched(w, answered) ==
    /\ evals[w].pc = "fetch"
    /\ LET id  == evals[w].entry
           url == evals[w].url
           ok  == answered /\ ValidMetadata(provider[url].document)
       IN  /\ evals' = IF ok
                       THEN [evals EXCEPT ![w] = Introspecting(@.request, @.since, url,
                                                               StoredMetadata(url).endpoint)]
                       ELSE Decided(w, evals[w].request, AuthError)
           /\ metaEntries' = Held([metaEntries EXCEPT
                  ![id] = [@ EXCEPT !.meta = IF ok THEN <<StoredMetadata(url)>> ELSE @, !.lock = "free"]],
                  metaCache, evals')
    /\ UNCHANGED <<authSetup, authClock, provider, metaCache, authLoad>>

\* The task oidc_provider_metadata spawned: a failure keeps what is stored.
\* An evicted entry is refreshed all the same.
BackgroundFetched(id, answered) ==
    /\ metaEntries[id].lock = "task"
    /\ LET url == metaEntries[id].url
           ok  == answered /\ ValidMetadata(provider[url].document)
       IN  metaEntries' = Held([metaEntries EXCEPT
               ![id] = [@ EXCEPT !.meta = IF ok THEN <<StoredMetadata(url)>> ELSE @, !.lock = "free"]],
               metaCache, evals)
    /\ UNCHANGED <<authSetup, authClock, provider, metaCache, evals, authLoad>>

\* The service answers the HTTP check or the introspection; <<>> is a call
\* that failed.
AuthAnswered(w, answer) ==
    /\ evals[w].pc \in {"http", "introspect"}
    /\ LET request == evals[w].request
           result  == IF answer = <<>> THEN AuthError
                      ELSE IF evals[w].pc = "http"
                      THEN MapHttpAuthResponse(answer[1], request.auth.allowlist)
                      ELSE OidcDecision(request.auth, answer[1])
       IN  evals' = Decided(w, request, result)
    /\ UNCHANGED <<authSetup, authClock, provider, metaCache, metaEntries, authLoad>>

\* run_external_auth_with_timeout: the evaluation is dropped where it waits,
\* with the lock it may hold.
EvaluationTimedOut(w) ==
    /\ evals[w].pc \in {"http", "introspect", "lock", "fetch"}
    /\ authClock - evals[w].since >= evals[w].request.auth.timeout
    /\ evals' = Decided(w, evals[w].request, AuthTimeout)
    /\ metaEntries' = Held([id \in DOMAIN metaEntries |->
                              IF metaEntries[id].lock = w THEN [metaEntries[id] EXCEPT !.lock = "free"]
                              ELSE metaEntries[id]], metaCache, evals')
    /\ UNCHANGED <<authSetup, authClock, provider, metaCache, authLoad>>

\* The request goes on with the transition.
EvaluationEnds(w) ==
    /\ evals[w].pc = "done"
    /\ evals' = [evals EXCEPT ![w] = IdleEval]
    /\ UNCHANGED <<authSetup, authClock, provider, metaCache, metaEntries, authLoad>>

\* External: the provider publishes another document.
DocumentChanges(url, document) ==
    /\ authLoad.changes > 0 /\ document # provider[url].document
    /\ provider' = [provider EXCEPT ![url] = Naming(@.named, document, authClock)]
    /\ authLoad' = [authLoad EXCEPT !.changes = @ - 1]
    /\ UNCHANGED <<authSetup, authClock, metaCache, metaEntries, evals>>

\* Timers fire when they are due: time does not pass an evaluation's deadline.
AuthTick ==
    /\ authClock < authSetup.horizon
    /\ \A w \in AuthWorkers : evals[w].pc \notin {"idle", "done"} =>
           authClock - evals[w].since < evals[w].request.auth.timeout
    /\ authClock' = authClock + 1
    /\ provider' = [url \in DOMAIN provider |->
                      Naming(provider[url].named, provider[url].document, authClock + 1)]
    /\ UNCHANGED <<authSetup, metaCache, metaEntries, evals, authLoad>>

AuthInit ==
    /\ authSetup \in AuthSetups
    /\ authClock = 0
    /\ provider = [url \in DOMAIN authSetup.documents |->
                     Naming(<<>>, Head(authSetup.documents[url]), 0)]
    /\ metaCache = [recent |-> <<>>, entry |-> <<>>]
    /\ metaEntries = <<>>
    /\ evals = [w \in AuthWorkers |-> IdleEval]
    /\ authLoad = [requests |-> authSetup.load, changes |-> authSetup.changes]

AuthNext ==
    \/ \E w \in AuthWorkers :
         \/ \E request \in authSetup.requests : EvaluateStart(w, request)
         \/ RefreshLocked(w)
         \/ \E answered \in BOOLEAN : RefreshFetched(w, answered)
         \/ \E answer \in authSetup.answers : AuthAnswered(w, answer)
         \/ EvaluationTimedOut(w)
         \/ EvaluationEnds(w)
    \/ \E id \in DOMAIN metaEntries, answered \in BOOLEAN : BackgroundFetched(id, answered)
    \/ \E url \in DOMAIN authSetup.documents :
         \E document \in Range(authSetup.documents[url]) : DocumentChanges(url, document)
    \/ AuthTick

AuthSpec == AuthInit /\ [][AuthNext]_authVars

-----------------------------------------------------------------------------
(* Properties                                                              *)

\* A token is introspected only where the provider still sent clients a short
\* while ago: the endpoint in use was named by the discovery document at most
\* the metadata's lifetime and one evaluation ago, whatever evictions,
\* background refreshes and waits for the refresh lock lie in between.
MetadataCurrent ==
    \A w \in AuthWorkers : evals[w].pc = "introspect" =>
        LET named == provider[evals[w].url].named
        IN  /\ evals[w].endpoint.key \in DOMAIN named
            /\ authClock - named[evals[w].endpoint.key] < MetadataTtl + evals[w].request.auth.timeout

\* The refresh lock of an entry is held exactly by the one evaluation that
\* fetches its document or by its background task, so an evaluation that is
\* dropped at its timeout never leaves the entry locked, and one entry is
\* never fetched twice at a time.
RefreshSingleFlight ==
    /\ \A id \in DOMAIN metaEntries, w \in AuthWorkers :
         (metaEntries[id].lock = w) <=> (evals[w].pc = "fetch" /\ evals[w].entry = id)
    /\ \A w \in AuthWorkers : evals[w].pc \in {"lock", "fetch"} => evals[w].entry \in DOMAIN metaEntries
    /\ \A url \in DOMAIN metaCache.entry : metaEntries[metaCache.entry[url]].url = url
    /\ Cardinality(DOMAIN metaCache.entry) <= MetadataCapacity

\* What the service decides on is the request itself: the description headers
\* appear once each and with this request's values, whatever headers of those
\* names the client sent or the configuration adds.
DescriptionExact ==
    \A w \in AuthWorkers : evals[w].pc \in {"http", "introspect"} =>
        \A d \in Range(DescribedRequest(evals[w].request)) : Named(evals[w].sent, d.name) = <<d>>

\* A request is admitted without an allow decision only under fail_open; an
\* admission sets each header at most once and none that is protected.
DecisionSound ==
    \A w \in AuthWorkers : evals[w].pc = "done" =>
        LET next == evals[w].next
            result == evals[w].result
        IN  /\ next.to = "admitted" => result.kind = "allow" \/ evals[w].request.auth.failOpen
            /\ \A i \in DOMAIN next.mutations :
                 /\ next.mutations[i].name \in evals[w].request.auth.allowlist \ ProtectedMutations
                 /\ \A j \in DOMAIN next.mutations :
                      next.mutations[i].name = next.mutations[j].name => i = j

\* External authorization keeps its promises under concurrent evaluations: it
\* asks current endpoints, fetches once, describes the request exactly and
\* admits only what was allowed.
ExternalAuthSound == MetadataCurrent /\ RefreshSingleFlight /\ DescriptionExact /\ DecisionSound
=============================================================================
