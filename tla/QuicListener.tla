----------------------------- MODULE QuicListener -----------------------------
(* A QUIC listener of the data plane: the dispatcher thread that reads the *)
(* socket and the shard thread it hands packets to (workers.rs), the       *)
(* registry of connections and its routes (connection.rs, cid_radix.rs),   *)
(* the packet and the timeout path (mod.rs), draining (shutdown.rs), the   *)
(* limits on new connections (token_bucket.rs), and the adoption of new    *)
(* configuration generations and TLS material (tls_runtime.rs).            *)
(*                                                                         *)
(* quiche is external: what a packet does to a connection is chosen from   *)
(* what quiche may answer.  A connection ID the server issued is a number, *)
(* 0 one it never issued.  A short header carries no length, so such a     *)
(* packet is looked up under 20 bytes, of which the ID is a prefix.        *)
EXTENDS TlsMaterial, FiniteSets, Functions, FiniteSetsExt, TLC

CONSTANTS
    ListenerSetups,   \* configurations, files, clients and bounds to consider
    SourceIdLimit,    \* connection IDs quiche keeps per connection
    SourceDivisor,    \* PER_SOURCE_RATE_DIVISOR
    MaxSources,       \* MAX_TRACKED_SOURCES
    SourceTtl,        \* SOURCE_IDLE_TTL
    QueueCapacity,    \* shard_queue_capacity
    QueueMaxBytes     \* shard_queue_max_bytes

ASSUME ListenerAssumption ==
    /\ {SourceIdLimit, SourceDivisor, MaxSources, SourceTtl} \subseteq Nat \ {0}
    /\ {QueueCapacity, QueueMaxBytes} \subseteq Nat

VARIABLES
    listenerSetup,
    wallClock,
    disk,        \* which of the setup's file systems is in place
    published,   \* the current runtime bundle, as the listener sees it
    adminTls,    \* TLS of the control API's acceptor, built for a generation
    stopping,    \* shutdown signal and watchdog restart request
    lis,         \* the listener, owned by the shard thread
    shard,       \* where the shard thread is, and the packet in its hands
    ingress,     \* the dispatcher, its queue and the bytes it counts
    traffic      \* packets still to come, connection IDs issued, connections made

listenerVars == <<listenerSetup, wallClock, disk, published, adminTls,
                  stopping, lis, shard, ingress, traffic>>

Files == listenerSetup.disks[disk]
ConfigOf(c) == listenerSetup.configs[c]
QuicOf(c) == QuicConfig(Files, ConfigOf(c).tls, wallClock)

NoPacket == [kind |-> "none"]
Drop(f, keys) == Restrict(f, DOMAIN f \ keys)

-------------------------------------------------------------------------------
(* Token buckets: whole tokens, refilled when they are asked for.          *)

NewBucket(burst) == [tokens |-> Max({burst, 1}), at |-> wallClock]
Rate(c) == Max({ConfigOf(c).rate, 1})
Burst(c) == Max({ConfigOf(c).burst, 1})
SourceRate(c) == Max({ConfigOf(c).rate \div SourceDivisor, 1})
SourceBurst(c) == Max({ConfigOf(c).burst \div SourceDivisor, 1})

(* TokenBucket::try_consume.                                               *)
Consume(bucket, rate, burst) ==
    LET tokens == Min({bucket.tokens + ((wallClock - bucket.at) * rate), burst})
    IN [ok |-> tokens >= 1,
        bucket |-> [tokens |-> IF tokens >= 1 THEN tokens - 1 ELSE tokens, at |-> wallClock]]

(* TokenBucket::reconfigure: what had built up since the last refill is    *)
(* forgotten.                                                              *)
Reconfigured(bucket, burst) ==
    [tokens |-> Min({bucket.tokens, burst}), at |-> wallClock]

(* PerSourceTokenBucket: idle sources are forgotten, and the one seen      *)
(* longest ago makes room for a new one.                                   *)
Tracked(sources, source) ==
    LET kept == Restrict(sources, {s \in DOMAIN sources : wallClock - sources[s].seen < SourceTtl})
        oldest == {s \in DOMAIN kept : \A t \in DOMAIN kept : kept[s].seen <= kept[t].seen}
    IN IF source \in DOMAIN kept \/ Cardinality(DOMAIN kept) < MaxSources THEN {kept}
       ELSE {Drop(kept, {s}) : s \in oldest}

-------------------------------------------------------------------------------
(* Adoption of the current generation.                                     *)

(* sync_runtime_bundle_if_needed.  A QUIC configuration that cannot be     *)
(* built leaves the listener with the new settings, the old configuration  *)
(* and the old generation numbers, so the next call tries again.           *)
SyncBundleEager(l) ==
    IF published.config = 0 THEN [ok |-> FALSE, lis |-> l]
    ELSE IF published.gen = l.gen /\ published.tls = l.tls THEN [ok |-> TRUE, lis |-> l]
    ELSE LET c == published.config
             settings == [l EXCEPT !.config = c, !.gen = published.gen, !.tls = published.tls,
                 !.global = Reconfigured(l.global, Burst(c)),
                 !.sources = [s \in DOMAIN l.sources |->
                     [l.sources[s] EXCEPT !.bucket = Reconfigured(@, SourceBurst(c))]]]
             quic == QuicOf(c)
         IN IF quic = <<>> THEN [ok |-> FALSE, lis |-> settings]
            ELSE [ok |-> TRUE,
                  lis |-> [settings EXCEPT !.quic = quic[1],
                           !.builtFor = <<published.gen, published.tls>>]]
SyncBundle(l) ==
    IF published.config = 0 THEN [ok |-> FALSE, lis |-> l]
    ELSE IF published.gen = l.gen /\ published.tls = l.tls THEN [ok |-> TRUE, lis |-> l]
    ELSE LET c == published.config
             settings == [l EXCEPT !.config = c, !.global = Reconfigured(l.global, Burst(c)),
                 !.sources = [s \in DOMAIN l.sources |->
                     [l.sources[s] EXCEPT !.bucket = Reconfigured(@, SourceBurst(c))]]]
             quic == QuicOf(c)
         IN IF quic = <<>> THEN [ok |-> FALSE, lis |-> settings]
            ELSE [ok |-> TRUE,
                  lis |-> [settings EXCEPT !.quic = quic[1], !.gen = published.gen,
                           !.tls = published.tls,
                           !.builtFor = <<published.gen, published.tls>>]]

-------------------------------------------------------------------------------
(* The registry: connections by primary ID, other IDs by alias, a prefix   *)
(* tree of all of them, and the connection last seen from each peer.       *)

Unregistered(l) ==
    [l EXCEPT !.conns = <<>>, !.aliases = <<>>, !.peers = <<>>, !.radix = {}]

(* purge_connection_routes.                                                *)
Purged(l, c) ==
    LET ids == {c.primary} \cup c.routing
    IN [l EXCEPT !.radix = @ \ ids, !.aliases = Drop(@, ids), !.peers = Drop(@, {c.peer})]

(* sync_connection_routes and store_connection.                            *)
Stored(l, c) ==
    LET active == IF c.ids = {} THEN {c.primary} ELSE c.ids
        primary == IF c.active \in active THEN c.active
                   ELSE IF c.primary \in active THEN c.primary ELSE Min(active)
        retired == c.routing \ active
        aliased == [id \in active \ {primary} |-> primary]
    IN [l EXCEPT !.radix = (@ \cup active) \ retired,
                 !.aliases = aliased @@ Drop(@, c.routing),
                 !.peers = (c.peer :> primary) @@ @,
                 !.conns = (primary :> [c EXCEPT !.primary = primary, !.routing = active]) @@ @]

(* Taking a connection out of the registry for a packet: it moves to the   *)
(* address the packet came from.                                           *)
Taken(l, primary, peer) ==
    [found |-> <<[l.conns[primary] EXCEPT !.peer = peer]>>,
     lis |-> [l EXCEPT !.conns = Drop(@, {primary}),
                       !.peers = Drop(@, {l.conns[primary].peer})]]

Missed(l) == [found |-> <<>>, lis |-> l]

(* take_connection_by_peer.                                                *)
ByPeer(l, p) ==
    IF p.peer \notin DOMAIN l.peers THEN Missed(l)
    ELSE IF l.peers[p.peer] \in DOMAIN l.conns THEN Taken(l, l.peers[p.peer], p.peer)
    ELSE Missed([l EXCEPT !.peers = Drop(@, {p.peer})])

(* longest_prefix_match: the IDs have one length, so the only prefix of a  *)
(* looked-up ID in the tree is the ID itself.                              *)
PrefixKnown(l, p) == p.id \in l.radix

(* resolve_primary_from_radix_prefix.                                      *)
ByPrefix(l, p) ==
    IF ~PrefixKnown(l, p) THEN ByPeer(l, p)
    ELSE IF p.id \in DOMAIN l.conns THEN Taken(l, p.id, p.peer)
    ELSE IF p.id \in DOMAIN l.aliases /\ l.aliases[p.id] \in DOMAIN l.conns
    THEN Taken(l, l.aliases[p.id], p.peer)
    ELSE ByPeer([l EXCEPT !.aliases = Drop(@, {p.id}), !.radix = @ \ {p.id}], p)

(* acquire_connection_for_packet, up to the creation of a connection.      *)
Lookup(l, p) ==
    IF p.short THEN ByPrefix(l, p)
    ELSE IF p.id \in DOMAIN l.conns THEN Taken(l, p.id, p.peer)
    ELSE IF p.id \notin DOMAIN l.aliases THEN ByPrefix(l, p)
    ELSE IF l.aliases[p.id] \in DOMAIN l.conns THEN Taken(l, l.aliases[p.id], p.peer)
    ELSE ByPeer([l EXCEPT !.aliases = Drop(@, {p.id})], p)

(* A QUIC connection as take_or_create_connection makes it; under and      *)
(* current remember the configuration it was accepted with and whether     *)
(* that was the published one.                                             *)
NewQuic(l, p) ==
    LET id == traffic.issued + 1
    IN [primary |-> id, routing |-> {id}, ids |-> {id}, active |-> id, peer |-> p.peer,
        est |-> FALSE, closing |-> FALSE, cert |-> FALSE, streams |-> FALSE, seen |-> "no",
        sni |-> p.sni, under |-> l.quic,
        current |-> l.builtFor = <<published.gen, published.tls>>]

(* The rest of take_or_create_connection once the global limiter agreed.   *)
(* quiche may refuse the connection.                                       *)
AcceptFrom(l, p, kept) ==
    LET source == p.peer[1]
        bucket == IF source \in DOMAIN kept THEN kept[source].bucket
                  ELSE NewBucket(SourceBurst(l.config))
        spent == Consume(bucket, SourceRate(l.config), SourceBurst(l.config))
        a == [l EXCEPT !.sources = (source :> [bucket |-> spent.bucket, seen |-> wallClock]) @@ kept]
        synced == SyncBundle(a)
    IN IF ~spent.ok \/ Cardinality(DOMAIN a.conns) >= Max({ConfigOf(a.config).cap, 1})
       THEN {Missed(a)}
       ELSE {Missed(synced.lis)} \cup
            (IF synced.ok THEN {[found |-> <<NewQuic(synced.lis, p)>>, lis |-> synced.lis]} ELSE {})

(* acquire_connection_for_packet.                                          *)
Acquire(l, p) ==
    LET known == Lookup(l, p)
        m == known.lis
        spent == Consume(m.global, Rate(m.config), Burst(m.config))
        a == [m EXCEPT !.global = spent.bucket]
    IN IF known.found # <<>> \/ m.draining \/ p.kind # "initial" THEN {known}
       ELSE IF ~spent.ok THEN {Missed(a)}
       ELSE UNION {AcceptFrom(a, p, kept) : kept \in Tracked(a.sources, p.peer[1])}

-------------------------------------------------------------------------------
(* The packet path.                                                        *)

(* What quiche may make of a packet it does not refuse: nothing, the end   *)
(* of the handshake, a connection ID retired, another one in use, or the   *)
(* connection closing.                                                     *)
Handshaken(c) ==
    IF c.est \/ c.closing THEN {}
    ELSE {[c EXCEPT !.est = TRUE, !.cert = k] :
              k \in {x \in listenerSetup.certs : c.under.verifier = "required" => x}}
Reissued(c) ==
    {[c EXCEPT !.ids = i, !.active = a] :
        i \in {x \in SUBSET c.ids : x # {} /\ Cardinality(c.ids \ x) <= 1}, a \in c.ids}
Received(c) == Handshaken(c) \cup {r \in Reissued(c) : r.active \in r.ids}
                   \cup {[c EXCEPT !.closing = TRUE]}

(* maybe_record_quic_tls_observation and ..._handshake_failure: each       *)
(* connection is counted once.                                             *)
Observed(l, c) ==
    IF c.seen = "no" /\ c.est
    THEN [c EXCEPT !.seen = Selection(ConfigOf(l.config).tls, c.sni)]
    ELSE IF c.seen = "no" /\ c.closing THEN [c EXCEPT !.seen = "failed"] ELSE c

(* A connection without the client certificate that the settings now ask   *)
(* for is closed; the others handle HTTP/3, which opens and ends streams,  *)
(* and closes the connection when it fails.                                *)
Handled(l, c) ==
    LET tls == ConfigOf(l.config).tls.clientAuth
    IN IF tls.required /\ c.est /\ ~c.cert THEN {[c EXCEPT !.closing = TRUE]}
       ELSE IF c.est /\ ~c.closing
       THEN {[c EXCEPT !.streams = s] : s \in BOOLEAN} \cup {[c EXCEPT !.closing = TRUE]}
       ELSE {c}

(* maybe_rotate_scid: due after some packets or some time.                 *)
Rotated(c, fresh) ==
    IF c.est /\ Cardinality(c.ids) < SourceIdLimit /\ fresh <= listenerSetup.ids
    THEN {c, [c EXCEPT !.ids = @ \cup {fresh}]} ELSE {c}

(* A closing connection may be closed for good when its timer fires.       *)
Ends(c) == IF c.closing THEN BOOLEAN ELSE {FALSE}

(* process_datagram_inner.                                                 *)
Processed(p) ==
    \/ p.kind \in {"bad", "version"} /\ UNCHANGED <<lis, traffic>>
    \/ /\ p.kind \notin {"bad", "version"}
       /\ \E r \in Acquire(lis, p) :
            \/ r.found = <<>> /\ lis' = r.lis /\ UNCHANGED traffic
            \/ /\ r.found # <<>>
               /\ LET c == r.found[1]
                      made == c.primary > traffic.issued
                      issued == IF made THEN c.primary ELSE traffic.issued
                      Counted(n) == [traffic EXCEPT !.issued = n, !.made = IF made THEN @ + 1 ELSE @]
                  IN \/ lis' = Purged(r.lis, c) /\ traffic' = Counted(issued)   \* recv failed
                     \/ \E q \in Received(c) : \E h \in Handled(r.lis, Observed(r.lis, q)) :
                            \E x \in Rotated(h, issued + 1) : \E over \in Ends(x) :
                                /\ lis' = IF over THEN Purged(r.lis, x) ELSE Stored(r.lis, x)
                                /\ traffic' = Counted(IF x.ids = h.ids THEN issued ELSE issued + 1)

(* handle_timeouts: a connection times out or is found closed and is swept *)
(* with its routes; the streams of the others advance.                     *)
TimedOut(l) ==
    \E gone \in SUBSET DOMAIN l.conns : \E quiet \in SUBSET (DOMAIN l.conns \ gone) :
        LET ids == UNION {l.conns[k].routing \cup {k} : k \in gone}
        IN lis' = [l EXCEPT
            !.conns = [k \in DOMAIN @ \ gone |->
                IF k \in quiet THEN [@[k] EXCEPT !.streams = FALSE] ELSE @[k]],
            !.aliases = Drop(@, ids), !.radix = @ \ ids,
            !.peers = Drop(@, {l.conns[k].peer : k \in gone})]

-------------------------------------------------------------------------------
(* Draining and the preamble of every poll.                                *)

StartDraining(l) == IF l.draining THEN l ELSE [l EXCEPT !.draining = TRUE, !.since = wallClock]

(* drain_complete of a draining listener.                                  *)
DrainComplete(l) ==
    \/ \A k \in DOMAIN l.conns : ~l.conns[k].streams
    \/ wallClock - l.since >= ConfigOf(l.config).drain

Entered(l) ==
    IF l.draining /\ DrainComplete(l) THEN [go |-> FALSE, lis |-> Unregistered(l)]
    ELSE [go |-> TRUE, lis |-> l]

(* poll_preamble.                                                          *)
Preamble(l) ==
    LET synced == SyncBundle(l).lis
    IN Entered(IF stopping.shutdown \/ stopping.restart THEN StartDraining(synced) ELSE synced)

PollIdle ==
    \E p \in {Preamble(lis)} : (~p.go /\ lis' = p.lis) \/ (p.go /\ TimedOut(p.lis))

-------------------------------------------------------------------------------
(* Start: new_with_socket_and_runtime_bundle_and_shutdown, which needs a   *)
(* QUIC configuration.                                                     *)
ListenerInit ==
    /\ listenerSetup \in ListenerSetups
    /\ wallClock = 0 /\ disk = 1
    /\ published = [gen |-> 0, config |-> 1, tls |-> 0,
                    tcp |-> ReloadState(Files, ConfigOf(1).tls, wallClock)[1]]
    /\ adminTls = [for |-> <<0, 0>>,
                   tls |-> AdminTlsConfig(Files, ConfigOf(1).tls, listenerSetup.admin, wallClock)]
    /\ stopping = [shutdown |-> FALSE, restart |-> FALSE]
    /\ lis = [gen |-> 0, tls |-> 0, config |-> 1, quic |-> QuicOf(1)[1], builtFor |-> <<0, 0>>,
              draining |-> FALSE, since |-> 0, conns |-> <<>>, aliases |-> <<>>, peers |-> <<>>,
              radix |-> {}, global |-> NewBucket(Burst(1)), sources |-> <<>>]
    /\ shard = [pc |-> "loop", packet |-> NoPacket]
    /\ ingress = [pc |-> IF listenerSetup.sharded THEN "recv" ELSE "off", packet |-> NoPacket,
                  queue |-> <<>>, bytes |-> 0]
    /\ traffic = [left |-> listenerSetup.load, issued |-> 0, made |-> 0]

Arriving == {p \in listenerSetup.packets : traffic.left > 0 /\ p.id <= traffic.issued}
Arrived == traffic' = [traffic EXCEPT !.left = @ - 1]
Environment == <<listenerSetup, wallClock, disk, published, adminTls, stopping>>

(* try_reserve_shard_queue_bytes.                                          *)
Fits(bytes, p) == bytes + p.size <= QueueMaxBytes

(* The dispatcher: a packet is counted in, and handed to the shard.        *)
Reserve(p) ==
    /\ ingress.pc = "recv" /\ ~stopping.shutdown /\ p \in Arriving /\ Arrived
    /\ ingress' = IF ~Fits(ingress.bytes, p) THEN ingress
                  ELSE [ingress EXCEPT !.pc = "send", !.packet = p, !.bytes = @ + p.size]
    /\ UNCHANGED <<Environment, lis, shard>>

Dispatched ==
    /\ ingress.pc = "send"
    /\ LET size == ingress.packet.size
           idle == [ingress EXCEPT !.packet = NoPacket]
       IN ingress' = IF shard.pc = "done" THEN [idle EXCEPT !.pc = "gone", !.bytes = @ - size]
                     ELSE IF Len(ingress.queue) >= QueueCapacity
                     THEN [idle EXCEPT !.pc = "recv", !.bytes = @ - size]
                     ELSE [idle EXCEPT !.pc = "recv", !.queue = Append(@, ingress.packet)]
    /\ UNCHANGED <<Environment, lis, shard, traffic>>

DispatcherStops ==
    /\ ingress.pc = "recv" /\ stopping.shutdown
    /\ ingress' = [ingress EXCEPT !.pc = "gone"]
    /\ UNCHANGED <<Environment, lis, shard, traffic>>

(* The shard's loop.  process_datagram: the preamble and then the packet,  *)
(* with the bundle read again when a connection is created.                *)
ShardReceive ==
    /\ shard.pc = "loop" /\ ~stopping.shutdown /\ ingress.queue # <<>>
    /\ \E p \in {Preamble(lis)} :
          /\ lis' = p.lis
          /\ shard' = [pc |-> IF p.go THEN "inner" ELSE "free", packet |-> Head(ingress.queue)]
    /\ ingress' = [ingress EXCEPT !.queue = Tail(@)]
    /\ UNCHANGED <<Environment, traffic>>

(* poll of an unsharded worker, also while it drains.                      *)
PollReceive(p) ==
    /\ ingress.pc = "off" /\ shard.pc \in {"loop", "drain"} /\ p \in Arriving
    /\ shard.pc = "loop" => ~stopping.shutdown
    /\ shard.pc = "drain" => ~DrainComplete(lis)
    /\ \E q \in {Preamble(lis)} :
          /\ lis' = q.lis
          /\ q.go /\ Arrived
          /\ shard' = [pc |-> IF shard.pc = "drain" THEN "drained" ELSE "inner", packet |-> p]
    /\ UNCHANGED <<Environment, ingress>>

ShardProcess ==
    /\ shard.pc \in {"inner", "drained"} /\ Processed(shard.packet)
    /\ shard' = IF ingress.pc # "off" THEN [shard EXCEPT !.pc = "free"]
                ELSE [pc |-> IF shard.pc = "drained" THEN "drain" ELSE "loop", packet |-> NoPacket]
    /\ UNCHANGED <<Environment, ingress>>

ShardFree ==
    /\ shard.pc = "free" /\ shard' = [pc |-> "loop", packet |-> NoPacket]
    /\ ingress' = [ingress EXCEPT !.bytes = @ - shard.packet.size]
    /\ UNCHANGED <<Environment, lis, traffic>>

ShardIdle ==
    /\ shard.pc = "loop" /\ ~stopping.shutdown
    /\ ingress.queue = <<>> /\ ingress.pc # "gone" /\ PollIdle
    /\ UNCHANGED <<Environment, shard, ingress, traffic>>

ShardLeaves ==
    /\ shard.pc = "loop"
    /\ stopping.shutdown \/ (ingress.pc = "gone" /\ ingress.queue = <<>>)
    /\ lis' = StartDraining(lis) /\ shard' = [shard EXCEPT !.pc = "drain"]
    /\ UNCHANGED <<Environment, ingress, traffic>>

ShardDrains ==
    /\ shard.pc = "drain"
    /\ \/ DrainComplete(lis) /\ lis' = Unregistered(lis) /\ shard' = [shard EXCEPT !.pc = "done"]
       \/ ~DrainComplete(lis) /\ PollIdle /\ UNCHANGED shard
    /\ UNCHANGED <<Environment, ingress, traffic>>

-------------------------------------------------------------------------------
(* What happens around the listener.                                       *)

(* build_listener_tls_reload_state for a listener, as an activation and as *)
(* reload_listener_certs do it; a failure publishes nothing.               *)
Republish(gen, c, tls) ==
    LET tcp == ReloadState(Files, ConfigOf(c).tls, wallClock)
    IN /\ tcp # <<>>
       /\ published' = [gen |-> gen, config |-> c, tls |-> tls, tcp |-> tcp[1]]
       /\ UNCHANGED <<listenerSetup, wallClock, disk, adminTls, stopping, lis, shard, ingress,
                      traffic>>

Published ==
    /\ published.gen < listenerSetup.reloads
    /\ \E c \in DOMAIN listenerSetup.configs : Republish(published.gen + 1, c, 0)

CertsReplaced ==
    /\ published.tls < listenerSetup.reloads
    /\ Republish(published.gen, published.config, published.tls + 1)

(* The control API keeps its acceptor when a new one cannot be built.      *)
AdminTlsRefreshed ==
    /\ adminTls.for # <<published.gen, published.tls>>
    /\ LET built == AdminTlsConfig(Files, ConfigOf(published.config).tls, listenerSetup.admin,
                                   wallClock)
       IN adminTls' = [for |-> <<published.gen, published.tls>>,
                       tls |-> IF built = <<>> THEN adminTls.tls ELSE built]
    /\ UNCHANGED <<listenerSetup, wallClock, disk, published, stopping, lis, shard, ingress,
                   traffic>>

DiskWritten ==
    /\ disk < Len(listenerSetup.disks) /\ disk' = disk + 1
    /\ UNCHANGED <<listenerSetup, wallClock, published, adminTls, stopping, lis, shard, ingress,
                   traffic>>

StopAsked ==
    /\ listenerSetup.stops
    /\ \/ ~stopping.shutdown /\ stopping' = [stopping EXCEPT !.shutdown = TRUE]
       \/ ~stopping.restart /\ stopping' = [stopping EXCEPT !.restart = TRUE]
    /\ UNCHANGED <<listenerSetup, wallClock, disk, published, adminTls, lis, shard, ingress,
                   traffic>>

ListenerTick ==
    /\ wallClock < listenerSetup.horizon /\ wallClock' = wallClock + 1
    /\ UNCHANGED <<listenerSetup, disk, published, adminTls, stopping, lis, shard, ingress,
                   traffic>>

ListenerNext ==
    \/ \E p \in listenerSetup.packets : Reserve(p) \/ PollReceive(p)
    \/ Dispatched \/ DispatcherStops
    \/ ShardReceive \/ ShardProcess \/ ShardFree \/ ShardIdle \/ ShardLeaves \/ ShardDrains
    \/ Published \/ CertsReplaced \/ AdminTlsRefreshed \/ DiskWritten \/ StopAsked \/ ListenerTick

-------------------------------------------------------------------------------
(* The route tables are exactly those of the registered connections, and   *)
(* every connection ID the server issued to one of them, under a long or a *)
(* short header and from any address, leads to it.                         *)
RoutesExact ==
    LET conns == lis.conns
        Owned == UNION {conns[k].routing : k \in DOMAIN conns}
    IN /\ \A k \in DOMAIN conns : conns[k].primary = k /\ conns[k].routing = conns[k].ids
       /\ \A j, k \in DOMAIN conns : j # k => conns[j].routing \cap conns[k].routing = {}
       /\ lis.radix = Owned /\ DOMAIN lis.aliases = Owned \ DOMAIN conns
       /\ \A a \in DOMAIN lis.peers : lis.peers[a] \in DOMAIN conns /\ conns[lis.peers[a]].peer = a
       /\ \A k \in DOMAIN conns : \A id \in conns[k].ids : \A short \in BOOLEAN :
            \A p \in listenerSetup.packets :
              LET found == Lookup(lis, [id |-> id, short |-> short, peer |-> p.peer]).found
              IN found # <<>> /\ found[1].primary = k

(* What a TLS context serves covers the server name it is selected for.    *)
ServesSoundly(config) ==
    \A n \in DOMAIN config.sni : CoversServerName(Selected(config, <<n>>), n)

(* A rustls context that demands client certificates has a CA for them.    *)
VerifiesClients(config) == config.verifier = "required" => config.roots # {}

(* A connection is accepted only under the published generation and TLS    *)
(* material, and every context in use, over QUIC, TCP or the control API,  *)
(* serves soundly.                                                         *)
AcceptedCurrent ==
    /\ \A k \in DOMAIN lis.conns : lis.conns[k].current /\ ServesSoundly(lis.conns[k].under)
    /\ ServesSoundly(published.tcp) /\ VerifiesClients(published.tcp)
    /\ adminTls.tls # <<>> => ServesSoundly(adminTls.tls[1]) /\ VerifiesClients(adminTls.tls[1])

(* The bytes counted against the shard's queue are those of the packets    *)
(* queued or in the hands of either thread, within the limit.              *)
QueueAccounted ==
    LET Size(p) == IF p = NoPacket THEN 0 ELSE p.size
        queued == FoldFunction(LAMBDA p, n : Size(p) + n, 0, ingress.queue)
    IN ingress.pc # "off" =>
        /\ ingress.bytes = queued + Size(ingress.packet) + Size(shard.packet)
        /\ ingress.bytes <= QueueMaxBytes

(* Connections made are within what the limiter grants over time, those    *)
(* held are within the largest limit in force, and a listener that stopped *)
(* holds none.                                                             *)
AcceptsBounded ==
    LET Configs == DOMAIN listenerSetup.configs
        Over(F(_)) == Max({F(c) : c \in Configs})
        Cap(c) == Max({ConfigOf(c).cap, 1})
    IN /\ traffic.made <= Over(Burst) + (wallClock * Over(Rate))
       /\ Cardinality(DOMAIN lis.conns) <= Over(Cap)
       /\ shard.pc = "done" => lis.conns = <<>> /\ lis.radix = {} /\ lis.peers = <<>>

(* The listener's registry, its configuration, its queue and its limits    *)
(* stay sound through every interleaving of packets, timeouts, reloads,    *)
(* file changes and shutdown.                                              *)
ListenerSound == RoutesExact /\ AcceptedCurrent /\ QueueAccounted /\ AcceptsBounded
===============================================================================
