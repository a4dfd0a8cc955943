------------------------------ MODULE Services ------------------------------
(***************************************************************************)
(* The services around the request path, side by side: quota admission,    *)
(* the key sources of JWT authentication, the control API, the QUIC        *)
(* listener, external authorization, the bootstrap TLS listener and the    *)
(* backend transport.  They own disjoint state (each is a static or a task *)
(* of its own in crates/edge/src), so what one of them can reach does not  *)
(* depend on where the others stand, and an invariant of one holds of      *)
(* their product if and only if it holds of that one alone.  A behaviour   *)
(* therefore runs one of them, `focus`; the variables of the others are    *)
(* Parked.                                                                 *)
(***************************************************************************)
EXTENDS Quota, KeySources, ControlApi, QuicListener, BootstrapTls, BackendTransport

VARIABLE focus

ServiceNames == {"quota", "keys", "control", "listener", "auth", "bootstrap", "transport"}

servicesVars == <<focus, quotaVars, keyVars, apiVars, listenerVars, authVars, bootVars, transportVars>>

Parked == 0

QuotaParked ==
    /\ setup = Parked /\ clock = Parked /\ memory = Parked /\ live = Parked
    /\ prune = Parked /\ scoped = Parked /\ redis = Parked /\ wire = Parked
    /\ link = Parked /\ work = Parked /\ status = Parked /\ requests = Parked
    /\ granted = Parked /\ lost = Parked /\ ideal = Parked

KeySourcesParked ==
    /\ keySetup = Parked /\ keyClock = Parked /\ endpoint = Parked
    /\ keyCache = Parked /\ refreshers = Parked /\ keyGen = Parked
    /\ history = Parked /\ orphaned = Parked

ControlApiParked ==
    /\ apiSetup = Parked /\ apiClock = Parked /\ generations = Parked
    /\ tlsStore = Parked /\ acceptor = Parked /\ slots = Parked
    /\ conns = Parked /\ throttle = Parked /\ sinks = Parked /\ audit = Parked
    /\ apiLoad = Parked

QuicListenerParked ==
    /\ listenerSetup = Parked /\ wallClock = Parked /\ disk = Parked
    /\ published = Parked /\ adminTls = Parked /\ stopping = Parked
    /\ lis = Parked /\ shard = Parked /\ ingress = Parked /\ traffic = Parked

ExternalAuthParked ==
    /\ authSetup = Parked /\ authClock = Parked /\ provider = Parked
    /\ metaCache = Parked /\ metaEntries = Parked /\ evals = Parked
    /\ authLoad = Parked

BootstrapTlsParked ==
    /\ bootSetup = Parked /\ bootGeneration = Parked /\ acceptLoop = Parked
    /\ tcpSlots = Parked /\ tcp = Parked /\ exchanges = Parked
    /\ backendActive = Parked /\ forgotten = Parked /\ bootLoad = Parked

BackendTransportParked ==
    /\ transportSetup = Parked /\ dnsCache = Parked /\ cachedBy = Parked
    /\ pools = Parked /\ dnsTasks = Parked /\ sends = Parked /\ lookups = Parked

Init ==
    /\ focus \in ServiceNames
    /\ IF focus = "quota" THEN QuotaInit ELSE QuotaParked
    /\ IF focus = "keys" THEN KeyInit ELSE KeySourcesParked
    /\ IF focus = "control" THEN ApiInit ELSE ControlApiParked
    /\ IF focus = "listener" THEN ListenerInit ELSE QuicListenerParked
    /\ IF focus = "auth" THEN AuthInit ELSE ExternalAuthParked
    /\ IF focus = "bootstrap" THEN BootInit ELSE BootstrapTlsParked
    /\ IF focus = "transport" THEN TransportInit ELSE BackendTransportParked

RunQuota ==
    /\ focus = "quota" /\ QuotaNext
    /\ UNCHANGED <<focus, keyVars, apiVars, listenerVars, authVars, bootVars, transportVars>>

RunKeySources ==
    /\ focus = "keys" /\ KeyNext
    /\ UNCHANGED <<focus, quotaVars, apiVars, listenerVars, authVars, bootVars, transportVars>>

RunControlApi ==
    /\ focus = "control" /\ ApiNext
    /\ UNCHANGED <<focus, quotaVars, keyVars, listenerVars, authVars, bootVars, transportVars>>

RunListener ==
    /\ focus = "listener" /\ ListenerNext
    /\ UNCHANGED <<focus, quotaVars, keyVars, apiVars, authVars, bootVars, transportVars>>

RunExternalAuth ==
    /\ focus = "auth" /\ AuthNext
    /\ UNCHANGED <<focus, quotaVars, keyVars, apiVars, listenerVars, bootVars, transportVars>>

RunBootstrap ==
    /\ focus = "bootstrap" /\ BootNext
    /\ UNCHANGED <<focus, quotaVars, keyVars, apiVars, listenerVars, authVars, transportVars>>

RunTransport ==
    /\ focus = "transport" /\ TransportNext
    /\ UNCHANGED <<focus, quotaVars, keyVars, apiVars, listenerVars, authVars, bootVars>>

Next ==
    \/ RunQuota \/ RunKeySources \/ RunControlApi
    \/ RunListener \/ RunExternalAuth \/ RunBootstrap \/ RunTransport

Spec == Init /\ [][Next]_servicesVars

-----------------------------------------------------------------------------
(* Properties                                                              *)

\* Quota decisions are accounted as the contract says (quota/mod.rs:184): limits
\* hold per caller and window, counters are exact, stores stay bounded, and
\* idle buckets may be forgotten.
QuotaHolds == focus = "quota" => QuotaAccounted

\* Tokens are accepted on justified keys only, however refreshes, activations
\* and outages interleave, and refreshes of one source exclude each other
\* (jwks_cache.rs: begin_refresh and its completions).
KeySourcesHold == focus = "keys" => KeySourcesSound

\* The control API performs only what is authorized, every performed or refused
\* operation is on the audit trail, and slots and throttle records stay exact
\* while activations replace the policy under it (control_api/service.rs).
ControlApiHolds == focus = "control" => ControlApiAccountable

\* The listener's registry, configuration, queue and limits stay sound through
\* packets, timeouts, reloads, file changes and shutdown (connection.rs,
\* tls_runtime.rs, workers.rs).
ListenerHolds == focus = "listener" => ListenerSound

\* External authorization asks current endpoints, fetches metadata once,
\* describes the request exactly and admits only what was allowed, under
\* concurrent evaluations (forwarding/auth.rs).
ExternalAuthHolds == focus = "auth" => ExternalAuthSound

\* The bootstrap plane accounts for its connections and requests, judges and
\* forwards requests as the HTTP/3 plane does and bounds what it returns
\* (quic_listener/bootstrap).
BootstrapHolds == focus = "bootstrap" => BootstrapAccountable

\* Backends are reached at the addresses last answered for them, clients are
\* replaced when those change, permits equal what is in flight and a rotation
\* never fails, through lookups, outages, reloads and aborted refresh tasks
\* (backend_resolution.rs, lifecycle/dns.rs, transport_pool.rs).
TransportHolds == focus = "transport" => TransportSound
=============================================================================
