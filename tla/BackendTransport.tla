-------------------------- MODULE BackendTransport --------------------------
(***************************************************************************)
(* How requests reach a backend's addresses: the pools of clients and      *)
(* in-flight permits (crates/transport/src/transport_pool.rs, h1_pool.rs,  *)
(* h2_pool.rs, h2_client.rs), the resolution store of a generation         *)
(* (crates/edge/src/runtime/backend/store.rs), the DNS cache that survives *)
(* reloads, and the background task that refreshes both and replaces the   *)
(* clients (quic_listener/backend_resolution.rs, lifecycle/dns.rs).  The   *)
(* task is asynchronous: it yields at its tick and at a lookup, which is   *)
(* where an abort takes effect; the three writes in between are separate   *)
(* steps, each under its own lock.  An address stands for an IP; a host    *)
(* name is its normalized form.                                            *)
(***************************************************************************)
EXTENDS Integers, Sequences, FiniteSets, SequencesExt

CONSTANTS
    TransportSetups,     \* the instances: configurations, answers, plans
    TransportRequests    \* requests, each planned by the setup

VARIABLES
    transportSetup,
    dnsCache,      \* host -> addresses, {} when the host is not cached
    cachedBy,      \* host -> <<generation, backend>> that wrote the cache last
    pools,         \* the generations built so far
    dnsTasks,      \* their refresh tasks
    sends,         \* requests
    lookups        \* answers given so far

transportVars == <<transportSetup, dnsCache, cachedBy, pools, dnsTasks, sends, lookups>>

HostsOf(config) == {config.backends[b].host : b \in DOMAIN config.backends}
Hosts == UNION {HostsOf(config) : config \in Range(transportSetup.configs)}

-----------------------------------------------------------------------------
(* Building a generation                                                   *)

\* load_client_identity: neither or both of certificate and key, each readable
\* and belonging together.  A file's content is "bad" or names its key pair.
IdentityLoads(tls) ==
    \/ tls.cert = <<>> /\ tls.key = <<>>
    \/ tls.cert # <<>> /\ tls.key = tls.cert /\ tls.cert # <<"bad">>

\* build_tls_config: CA material is read only when certificates are verified.
BuildTlsConfig(tls) == IdentityLoads(tls) /\ (tls.verify => "bad" \notin tls.cas)

\* The resolution a backend starts with: an IP literal is its own address.
SeedResolution(backend) == [addrs |-> backend.literal, generation |-> 0]

NewClient == [number |-> 0, generation |-> 0, pooled |-> <<{}>>, foreign |-> {}]

H2Backends(config) == {b \in DOMAIN config.backends : config.backends[b].kind = "h2"}

\* from_runtime_upstreams: one bad TLS policy refuses the whole generation.
Builds(config) == \A b \in H2Backends(config) : BuildTlsConfig(config.backends[b].tls)

HostnameBackends(config) == {b \in DOMAIN config.backends : config.backends[b].literal = {}}

NewPool(config, standing) ==
    [config |-> config, standing |-> standing,
     store |-> [b \in DOMAIN config.backends |-> SeedResolution(config.backends[b])],
     clients |-> [b \in DOMAIN config.backends |-> NewClient],
     inflight |-> [b \in DOMAIN config.backends |-> 0],
     rotationFailed |-> FALSE]

TaskAt(pc) == [pc |-> pc, aborted |-> FALSE, queue |-> <<>>, answer |-> <<>>, updated |-> FALSE]

\* spawn_backend_dns_refresh.
NewDnsTask(config) ==
    TaskAt(IF config.refresh /\ HostnameBackends(config) # {} THEN "tick" ELSE "off")

TransportInit ==
    /\ transportSetup \in TransportSetups
    /\ dnsCache = [h \in Hosts |-> {}] /\ cachedBy = [h \in Hosts |-> <<>>]
    /\ pools = <<NewPool(transportSetup.configs[1], "active")>>
    /\ dnsTasks = <<NewDnsTask(transportSetup.configs[1])>>
    /\ sends = [r \in TransportRequests |-> [pc |-> "idle"]]
    /\ lookups = 0

-----------------------------------------------------------------------------
(* Reloads, as far as pools and their tasks are concerned                  *)

\* The background tasks of a staged generation start before it is committed.
StagePool ==
    LET config == transportSetup.configs[Len(pools) + 1]
    IN  /\ Len(pools) < Len(transportSetup.configs)
        /\ \A g \in DOMAIN pools : pools[g].standing # "staged"
        /\ pools' = Append(pools, NewPool(config, IF Builds(config) THEN "staged" ELSE "gone"))
        /\ dnsTasks' = Append(dnsTasks, IF Builds(config) THEN NewDnsTask(config) ELSE TaskAt("off"))
        /\ UNCHANGED <<transportSetup, dnsCache, cachedBy, sends, lookups>>

CommitPool(g) ==
    /\ pools[g].standing = "staged"
    /\ pools' = [i \in DOMAIN pools |->
                   [pools[i] EXCEPT !.standing = CASE i = g -> "active"
                                                   [] pools[i].standing = "active" -> "retiring"
                                                   [] OTHER -> @]]
    /\ UNCHANGED <<transportSetup, dnsCache, cachedBy, dnsTasks, sends, lookups>>

\* A refused commit aborts the staged tasks, retirement the replaced ones.
AbortTasks(g) ==
    /\ pools[g].standing \in {"staged", "retiring"}
    /\ pools' = [pools EXCEPT ![g].standing = "gone"]
    /\ dnsTasks' = [dnsTasks EXCEPT ![g].aborted = TRUE]
    /\ UNCHANGED <<transportSetup, dnsCache, cachedBy, sends, lookups>>

-----------------------------------------------------------------------------
(* The refresh task of generation g                                        *)

TaskVars == <<transportSetup, sends>>

AbortLands(g) ==
    /\ dnsTasks[g].aborted /\ dnsTasks[g].pc \in {"tick", "lookup"}
    /\ dnsTasks' = [dnsTasks EXCEPT ![g] = TaskAt("off")]
    /\ UNCHANGED <<dnsCache, cachedBy, pools, lookups, TaskVars>>

\* The interval elapsed: hostname_backends, in the order of a hash map.
RefreshTick(g) ==
    /\ dnsTasks[g].pc = "tick" /\ ~dnsTasks[g].aborted
    /\ \E queue \in SetToSeqs(HostnameBackends(pools[g].config)) :
         dnsTasks' = [dnsTasks EXCEPT ![g].pc = "lookup", ![g].queue = queue]
    /\ lookups < transportSetup.lookups
    /\ UNCHANGED <<dnsCache, cachedBy, pools, lookups, TaskVars>>

Onward(task) ==
    [task EXCEPT !.pc = IF Len(task.queue) = 1 THEN "tick" ELSE "lookup",
                 !.queue = Tail(@), !.answer = <<>>, !.updated = FALSE]

\* A lookup that failed or answered nothing keeps the addresses.
AddressesRetained(answer) == answer \in {<<"error">>, <<>>}

LookupAnswers(g) ==
    /\ dnsTasks[g].pc = "lookup" /\ ~dnsTasks[g].aborted
    /\ lookups < transportSetup.lookups
    /\ \E answer \in transportSetup.answers :
         dnsTasks' = [dnsTasks EXCEPT ![g] =
             IF AddressesRetained(answer) THEN Onward(@)
             ELSE [@ EXCEPT !.pc = "store", !.answer = answer]]
    /\ lookups' = lookups + 1
    /\ UNCHANGED <<dnsCache, cachedBy, pools, TaskVars>>

\* canonicalize_socket_addrs: sorted and without duplicates.
Canonical(answer) == Range(answer)

Refreshing(g) == dnsTasks[g].queue[1]
HostOf(g, b) == pools[g].config.backends[b].host

\* apply_resolution_refresh: what differs from this backend's last answer is
\* an update.
ApplyToStore(g) ==
    LET b == Refreshing(g)
        addrs == Canonical(dnsTasks[g].answer)
    IN  /\ dnsTasks[g].pc = "store"
        /\ dnsTasks' = [dnsTasks EXCEPT ![g].pc = "cache",
                                        ![g].updated = addrs # pools[g].store[b].addrs]
        /\ pools' = [pools EXCEPT ![g].store[b] = [addrs |-> addrs, generation |-> @.generation + 1]]
        /\ UNCHANGED <<dnsCache, cachedBy, lookups, TaskVars>>

\* The addresses another backend or generation cached for the host: what a
\* client that lives on may connect to without its own refresh knowing.
Disturb(ps, writer, host, addrs) ==
    [g \in DOMAIN ps |-> [ps[g] EXCEPT !.clients =
        [b \in DOMAIN @ |-> IF <<g, b>> # writer /\ ps[g].config.backends[b].host = host
                            THEN [@[b] EXCEPT !.foreign = @ \cup addrs] ELSE @[b]]]]

\* replace_host_addrs.
ApplyToCache(g) ==
    LET b == Refreshing(g)
        host == HostOf(g, b)
        addrs == Canonical(dnsTasks[g].answer)
    IN  /\ dnsTasks[g].pc = "cache"
        /\ dnsCache' = [dnsCache EXCEPT ![host] = addrs]
        /\ cachedBy' = [cachedBy EXCEPT ![host] = <<g, b>>]
        /\ pools' = Disturb(pools, <<g, b>>, host, addrs)
        /\ dnsTasks' = [dnsTasks EXCEPT ![g] = IF @.updated THEN [@ EXCEPT !.pc = "rotate"] ELSE Onward(@)]
        /\ UNCHANGED <<lookups, TaskVars>>

\* A client replaced, HTTP/1 and HTTP/2: requests that hold the old one keep
\* it with its connections.
Recreated(client, foreign) ==
    [client EXCEPT !.number = @ + 1, !.pooled = Append(@, {}), !.foreign = foreign]
RotatedH2(client, foreign) == [Recreated(client, foreign) EXCEPT !.generation = @ + 1]

\* Mutant: an HTTP/1 client, which has no TLS policy, is not replaced.
RotateClientH2Only(g) ==
    LET b == Refreshing(g)
    IN  /\ dnsTasks[g].pc = "rotate"
        /\ pools' = IF b \in H2Backends(pools[g].config)
                    THEN [pools EXCEPT ![g].clients[b] = RotatedH2(@, {})] ELSE pools
        /\ dnsTasks' = [dnsTasks EXCEPT ![g] = Onward(@)]
        /\ UNCHANGED <<dnsCache, cachedBy, lookups, TaskVars>>

\* rotate_backend_client: an HTTP/2 client is built again from the TLS policy
\* of the handle, which may fail and then leaves the old one.
RotateClient(g) ==
    LET b == Refreshing(g)
        backend == pools[g].config.backends[b]
        host == HostOf(g, b)
        foreign == IF cachedBy[host] = <<g, b>> THEN {} ELSE dnsCache[host]
    IN  /\ dnsTasks[g].pc = "rotate"
        /\ pools' = IF backend.kind = "http1" THEN [pools EXCEPT ![g].clients[b] = Recreated(@, foreign)]
                    ELSE IF BuildTlsConfig(backend.tls) THEN [pools EXCEPT ![g].clients[b] = RotatedH2(@, foreign)]
                    ELSE [pools EXCEPT ![g].rotationFailed = TRUE]
        /\ dnsTasks' = [dnsTasks EXCEPT ![g] = Onward(@)]
        /\ UNCHANGED <<dnsCache, cachedBy, lookups, TaskVars>>

-----------------------------------------------------------------------------
(* Requests                                                                *)

RequestVars == <<transportSetup, dnsCache, cachedBy, dnsTasks, lookups>>
Plan(r) == transportSetup.plan[r]

Conclude(r, result) == [sends EXCEPT ![r] = [pc |-> "done", result |-> result]]

\* backend_entry: what is refused before any pool is asked.
EntryRefusal(config, plan) ==
    IF plan.backend \notin DOMAIN config.backends THEN <<"unknown">>
    ELSE IF plan.op = "upgrade" /\ plan.backend \in H2Backends(config) THEN <<"protocol">>
    ELSE <<>>

\* On the generation the caller's view names: the active one, or one being
\* replaced.
AcquireInflightPermit(r) ==
    \E g \in {i \in DOMAIN pools : pools[i].standing \in {"active", "retiring"}} :
        LET refusal == EntryRefusal(pools[g].config, Plan(r))
        IN  /\ sends[r].pc = "idle"
            /\ IF refusal # <<>> THEN sends' = Conclude(r, refusal[1]) /\ UNCHANGED pools
               ELSE IF pools[g].inflight[Plan(r).backend] = transportSetup.limit
               THEN sends' = Conclude(r, "overloaded") /\ UNCHANGED pools
               ELSE /\ sends' = [sends EXCEPT ![r] = [pc |-> "client", pool |-> g]]
                    /\ pools' = [pools EXCEPT ![g].inflight[Plan(r).backend] = @ + 1]
            /\ UNCHANGED RequestVars

\* current_client.
TakeClient(r) ==
    /\ sends[r].pc = "client"
    /\ sends' = [sends EXCEPT ![r] = [pc |-> "connect", pool |-> @.pool,
                    client |-> pools[@.pool].clients[Plan(r).backend].number]]
    /\ UNCHANGED <<pools, RequestVars>>

PooledBy(r) == pools[sends[r].pool].clients[Plan(r).backend].pooled[sends[r].client + 1]

\* The client reuses one of its connections or resolves the host: a literal
\* needs no lookup, the cache is asked next and the system resolver last.
Reuse(r) ==
    /\ sends[r].pc = "connect" /\ PooledBy(r) # {}
    /\ sends' = [sends EXCEPT ![r] = [pc |-> "sent", pool |-> @.pool, client |-> @.client]]
    /\ UNCHANGED <<pools, RequestVars>>

ResolveHost(r) ==
    LET backend == pools[sends[r].pool].config.backends[Plan(r).backend]
        cached == IF backend.literal # {} THEN backend.literal ELSE dnsCache[backend.host]
    IN  /\ sends[r].pc = "connect"
        /\ sends' = [sends EXCEPT ![r] = [pc |-> "open", pool |-> @.pool, client |-> @.client,
                        targets |-> IF cached # {} THEN cached ELSE transportSetup.system]]
        /\ UNCHANGED <<pools, RequestVars>>

OpenConnection(r) ==
    /\ sends[r].pc = "open"
    /\ \E addr \in sends[r].targets :
         pools' = [pools EXCEPT ![sends[r].pool].clients[Plan(r).backend].pooled[sends[r].client + 1] =
                     @ \cup {addr}]
    /\ sends' = [sends EXCEPT ![r] = [pc |-> "sent", pool |-> @.pool, client |-> @.client]]
    /\ UNCHANGED RequestVars

\* The permit goes back when the send is over, however it ended.
Released(r) == [pools EXCEPT ![sends[r].pool].inflight[Plan(r).backend] = @ - 1]

\* An upgrade keeps its permit as a lease of the tunnel.
ResponseArrives(r) ==
    /\ sends[r].pc = "sent"
    /\ IF Plan(r).op = "upgrade"
       THEN sends' = [sends EXCEPT ![r] = [pc |-> "tunnel", pool |-> @.pool]] /\ UNCHANGED pools
       ELSE sends' = Conclude(r, "response") /\ pools' = Released(r)
    /\ UNCHANGED RequestVars

\* execute_with_timeout_duration: a send error, or the timeout drops the send
\* wherever it waits.
SendFails(r, result) ==
    /\ sends[r].pc \in {"open", "sent"} \/ (sends[r].pc = "connect" /\ result = "timeout")
    /\ sends' = Conclude(r, result) /\ pools' = Released(r)
    /\ UNCHANGED RequestVars

TunnelEnds(r) ==
    /\ sends[r].pc = "tunnel"
    /\ sends' = Conclude(r, "response") /\ pools' = Released(r)
    /\ UNCHANGED RequestVars

\* The client closes a connection that was idle for too long.
IdleTimeout(g, b) ==
    /\ \E c \in DOMAIN pools[g].clients[b].pooled, addr \in transportSetup.addrs :
         /\ addr \in pools[g].clients[b].pooled[c]
         /\ pools' = [pools EXCEPT ![g].clients[b].pooled[c] = @ \ {addr}]
    /\ UNCHANGED <<sends, RequestVars>>

RefreshStep(g) ==
    \/ AbortLands(g) \/ RefreshTick(g) \/ LookupAnswers(g)
    \/ ApplyToStore(g) \/ ApplyToCache(g) \/ RotateClient(g)

SendStep(r) ==
    \/ AcquireInflightPermit(r) \/ TakeClient(r) \/ Reuse(r) \/ ResolveHost(r) \/ OpenConnection(r)
    \/ ResponseArrives(r) \/ TunnelEnds(r)
    \/ \E result \in {"error", "timeout"} : SendFails(r, result)

TransportNext ==
    \/ StagePool
    \/ \E g \in DOMAIN pools :
         CommitPool(g) \/ AbortTasks(g) \/ RefreshStep(g)
           \/ \E b \in DOMAIN pools[g].config.backends : IdleTimeout(g, b)
    \/ \E r \in TransportRequests : SendStep(r)

-----------------------------------------------------------------------------
(* Properties                                                              *)

\* The task is between its three writes for backend b.
Applying(g, b) == dnsTasks[g].pc \in {"store", "cache", "rotate"} /\ Refreshing(g) = b

\* A host whose answer changed is left behind: apart from what other backends
\* or generations cached for the same host, a client that new requests are
\* given holds connections to the current addresses of its backend only.
StaleConnectionsDropped ==
    \A g \in DOMAIN pools : \A b \in HostnameBackends(pools[g].config) :
        LET client == pools[g].clients[b]
        IN  pools[g].store[b].generation > 0 /\ ~Applying(g, b)
              => client.pooled[client.number + 1] \subseteq pools[g].store[b].addrs \cup client.foreign

\* The cache is filled exactly for the hosts that were answered and holds the
\* last answer written, which the store of its writer reports, whatever
\* lookups fail or come back empty and across reloads.
CacheCoherent ==
    \A host \in Hosts :
        /\ dnsCache[host] = {} <=> cachedBy[host] = <<>>
        /\ \A g \in DOMAIN pools : \A b \in DOMAIN pools[g].store :
             cachedBy[host] = <<g, b>> /\ ~(dnsTasks[g].pc = "cache" /\ Refreshing(g) = b)
               => dnsCache[host] = pools[g].store[b].addrs

\* Permits equal the sends and tunnels that hold one, per generation and
\* backend, and stay within the limit.
PermitsExact ==
    \A g \in DOMAIN pools : \A b \in DOMAIN pools[g].inflight :
        /\ pools[g].inflight[b] <= transportSetup.limit
        /\ pools[g].inflight[b] = Cardinality({r \in TransportRequests :
             sends[r].pc \notin {"idle", "done"} /\ sends[r].pool = g /\ Plan(r).backend = b})

\* A rotation cannot fail: the TLS policy it builds from built the generation.
RotationsSucceed == \A g \in DOMAIN pools : ~pools[g].rotationFailed

\* Backends are reached at their addresses, through clients replaced in time,
\* within the permits.
TransportSound == StaleConnectionsDropped /\ CacheCoherent /\ PermitsExact /\ RotationsSucceed
=============================================================================
