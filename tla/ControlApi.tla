------------------------------ MODULE ControlApi ------------------------------
(* The control API endpoint: the task that binds, rebinds and accepts, its *)
(* connections and their requests, the throttle of failed authentications, *)
(* and the audit trail (edge/quic_listener/control_api: service.rs,        *)
(* context.rs, http.rs, reload.rs and reload/, audit.rs, security.rs).     *)
(* Requests run on several threads and an activation replaces the policy   *)
(* under them: every read of the current service state is a step.          *)
EXTENDS AdminAccess

CONSTANTS
    Connections,        \* connections the endpoint may serve at a time
    ApiSetups,          \* policies, clients, requests and bounds to consider
    AuthFailureLimit,   \* AUTH_FAILURE_LIMIT
    AuthWindow,         \* AUTH_FAILURE_WINDOW and AUTH_BLOCK_DURATION
    ThrottlePeers,      \* AUTH_THROTTLE_MAX_PEERS
    AuditCapacity       \* CONTROL_API_AUDIT_BUFFER_CAPACITY

ASSUME ApiAssumption ==
    /\ AuthFailureLimit \in Nat \ {0} /\ ThrottlePeers \in Nat \ {0}
    /\ AuditCapacity \in Nat /\ AuthWindow \in Nat \ {0}
    /\ \A s \in ApiSetups : s.policies # <<>>

VARIABLES
    apiSetup,      \* the policies activations may bring in, clients, bounds
    apiClock,
    generations,   \* the policy of each configuration generation, an index
    tlsStore,      \* generation of the primary listener's TLS material
    acceptor,      \* the endpoint task
    slots,         \* active_connections of each binding made so far
    conns,         \* the connections
    throttle,      \* ControlApiAuthThrottle.peers
    sinks,         \* the audit emitter of each generation
    audit,         \* events emitted, written and counted as dropped
    apiLoad        \* connections and requests still to come

apiVars == <<apiSetup, apiClock, generations, tlsStore, acceptor, slots, conns,
             throttle, sinks, audit, apiLoad>>

PolicyOf(g) == apiSetup.policies[generations[g]]
SecurityOf(g) == PolicyOf(g).security
Current == Len(generations)

Closed == [pc |-> "closed"]

(* for_target: a file sink is a writer thread, which may not start.        *)
Deliveries(policy) == IF policy.security.audit.sink = "file" THEN {"buffered", "unavailable"}
                      ELSE {"inline"}

NewSink(delivery) == [delivery |-> delivery, queued |-> 0]

(* spawn_control_api_endpoint with the endpoint enabled in the first       *)
(* generation; a required endpoint that cannot start stops the process.    *)
ApiInit ==
    /\ apiSetup \in ApiSetups
    /\ apiClock = 0 /\ generations = <<1>> /\ tlsStore = 0
    /\ acceptor = [pc |-> "top", gen |-> 1, tls |-> <<[gen |-> 1, material |-> 0]>>,
                   binding |-> <<[bind |-> apiSetup.policies[1].bind, id |-> 1]>>]
    /\ slots = <<0>>
    /\ conns = [c \in Connections |-> Closed]
    /\ throttle = <<>>
    /\ \E d \in Deliveries(apiSetup.policies[1]) : sinks = <<NewSink(d)>>
    /\ audit = [emitted |-> 0, written |-> 0, dropped |-> 0]
    /\ apiLoad = apiSetup.load

-----------------------------------------------------------------------------
(* The audit trail.  Emit(c, events, g) is the effect of n events of a     *)
(* request of connection c through the emitter of generation g.            *)
AuditEvent(kind, result) == [kind |-> kind, result |-> result]

Emitted(c, events, g) == IF SecurityOf(g).audit.enabled THEN conns[c].trail \o events
                         ELSE conns[c].trail

(* What emit does with n events: log at once, or try_send each, or drop.   *)
Emit(events, g) ==
    LET n == Len(events)
        room == Min({n, AuditCapacity - sinks[g].queued})
    IN  IF ~SecurityOf(g).audit.enabled THEN UNCHANGED <<audit, sinks>>
        ELSE CASE sinks[g].delivery = "inline" ->
                    /\ audit' = [audit EXCEPT !.emitted = @ + n, !.written = @ + n]
                    /\ UNCHANGED sinks
               [] sinks[g].delivery = "unavailable" ->
                    /\ audit' = [audit EXCEPT !.emitted = @ + n, !.dropped = @ + n]
                    /\ UNCHANGED sinks
               [] sinks[g].delivery = "buffered" ->
                    /\ audit' = [audit EXCEPT !.emitted = @ + n, !.dropped = @ + (n - room)]
                    /\ sinks' = [sinks EXCEPT ![g].queued = @ + room]

(* The writer thread takes an event; opening or writing the file may fail. *)
WriteAudit(g) ==
    /\ sinks[g].queued > 0
    /\ sinks' = [sinks EXCEPT ![g].queued = @ - 1]
    /\ \/ audit' = [audit EXCEPT !.written = @ + 1]
       \/ audit' = [audit EXCEPT !.dropped = @ + 1]
    /\ UNCHANGED <<apiSetup, apiClock, generations, tlsStore, acceptor, slots, conns, throttle, apiLoad>>

-----------------------------------------------------------------------------
(* The endpoint task.                                                      *)
Unbind == [acceptor EXCEPT !.binding = <<>>, !.tls = <<>>]

NeedsRebind == acceptor.binding = <<>> \/ acceptor.binding[1].bind # PolicyOf(Current).bind

(* refresh_control_api_tls_state: rebuilt when the listener's material or  *)
(* the security policy is another one.                                     *)
TlsCurrent ==
    /\ acceptor.tls # <<>>
    /\ acceptor.tls[1].material = tlsStore
    /\ SecurityOf(acceptor.tls[1].gen) = SecurityOf(Current)

(* One turn of the loop up to the accept: bind again if the address is     *)
(* another one (a failed bind changes nothing and is tried again 200 ms    *)
(* later), then refresh the TLS state, which may fail too.                 *)
LoopTurn ==
    /\ acceptor.pc = "top"
    /\ \/ /\ ~PolicyOf(Current).enabled
          /\ acceptor' = Unbind
          /\ UNCHANGED slots
       \/ /\ PolicyOf(Current).enabled
          /\ LET bound == [bind |-> PolicyOf(Current).bind, id |-> Len(slots) + 1]
                 binding == IF NeedsRebind THEN <<bound>> ELSE acceptor.binding
                 fresh == <<[gen |-> Current, material |-> tlsStore]>>
             IN  /\ slots' = IF NeedsRebind THEN Append(slots, 0) ELSE slots
                 /\ \/ acceptor' = [pc |-> "accept", gen |-> Current, binding |-> binding,
                                    tls |-> IF TlsCurrent THEN acceptor.tls ELSE fresh]
                    \/ ~TlsCurrent /\ acceptor' = [acceptor EXCEPT !.binding = binding]
    /\ UNCHANGED <<apiSetup, apiClock, generations, tlsStore, conns, throttle, sinks, audit, apiLoad>>

AcceptIdle ==
    /\ acceptor.pc = "accept" /\ acceptor' = [acceptor EXCEPT !.pc = "top"]
    /\ UNCHANGED <<apiSetup, apiClock, generations, tlsStore, slots, conns, throttle, sinks, audit, apiLoad>>

(* A connection arrives and takes a slot of the binding, or is dropped.    *)
MaxConnections(g) == Max({PolicyOf(g).maxConns, 1})

Accept(c, client) ==
    LET id == acceptor.binding[1].id
        free == slots[id] < MaxConnections(acceptor.gen)
    IN  /\ acceptor.pc = "accept" /\ acceptor' = [acceptor EXCEPT !.pc = "top"]
        /\ conns[c] = Closed /\ apiLoad.conns > 0
        /\ apiLoad' = [apiLoad EXCEPT !.conns = @ - 1]
        /\ slots' = IF free THEN [slots EXCEPT ![id] = @ + 1] ELSE slots
        /\ conns' = IF ~free THEN conns
                    ELSE [conns EXCEPT ![c] = [pc |-> "start", slot |-> id, client |-> client,
                                               tls |-> acceptor.tls[1].gen]]
        /\ UNCHANGED <<apiSetup, apiClock, generations, tlsStore, throttle, sinks, audit>>

(* serve_control_api_connection: the policy read here decides the timeout  *)
(* and what the certificate's attributes mean for all its requests.        *)
ServeStart(c) ==
    /\ conns[c].pc = "start"
    /\ conns' = [conns EXCEPT ![c] = [pc |-> "handshake", slot |-> @.slot, client |-> @.client,
                                      tls |-> @.tls, gen |-> Current]]
    /\ UNCHANGED <<apiSetup, apiClock, generations, tlsStore, acceptor, slots, throttle, sinks, audit, apiLoad>>

Handshake(c) ==
    LET mode == SecurityOf(conns[c].tls).clientAuth
        certs == IF mode = "disabled" THEN <<>> ELSE conns[c].client.certs
    IN  /\ conns[c].pc = "handshake"
        /\ mode = "required" => certs # <<>>
        /\ conns' = [conns EXCEPT ![c] =
              [pc |-> "open", slot |-> @.slot, client |-> @.client, gen |-> @.gen,
               mtls |-> RequestContext(certs, SecurityOf(@.gen).source),
               req |-> <<>>, route |-> "NotFound", status |-> 0, begun |-> 0, snap |-> 0,
               handler |-> 0, identity |-> <<>>, trail |-> <<>>, changed |-> FALSE, ok |-> FALSE]]
        /\ UNCHANGED <<apiSetup, apiClock, generations, tlsStore, acceptor, slots, throttle, sinks, audit, apiLoad>>

(* A failed handshake, the client's close, or the connection timeout,      *)
(* which cuts a handler off only while it waits for the body.  The guard's *)
(* drop frees the slot.                                                    *)
CloseConnection(c) ==
    /\ conns[c].pc \in {"handshake", "open", "body"}
    /\ conns' = [conns EXCEPT ![c] = Closed]
    /\ slots' = [slots EXCEPT ![conns[c].slot] = @ - 1]
    /\ UNCHANGED <<apiSetup, apiClock, generations, tlsStore, acceptor, throttle, sinks, audit, apiLoad>>

-----------------------------------------------------------------------------
(* The throttle: function of the peers with failures on record.            *)
Blocked(peer) == peer \in DOMAIN throttle /\ throttle[peer].until # <<>> /\ throttle[peer].until[1] > apiClock

Outdated(state) == apiClock - state.first >= AuthWindow

Without(peers, peer) == [p \in DOMAIN peers \ {peer} |-> peers[p]]

(* is_blocked, when it answers no: a record that is over is forgotten.     *)
Forgiven(peer) ==
    IF peer \in DOMAIN throttle /\ (throttle[peer].until # <<>> \/ Outdated(throttle[peer]))
    THEN Without(throttle, peer) ELSE throttle

OldestPeer == CHOOSE p \in DOMAIN throttle : \A q \in DOMAIN throttle : throttle[p].first <= throttle[q].first

(* record_failure: a new window for a new or outdated peer, at capacity in *)
(* the place of the peer with the oldest window; a block from the limit on *)
RecordFailure(peer) ==
    LET known == peer \in DOMAIN throttle /\ ~Outdated(throttle[peer])
        full == peer \notin DOMAIN throttle /\ Cardinality(DOMAIN throttle) >= ThrottlePeers
        kept == IF full THEN Without(throttle, OldestPeer) ELSE throttle
        failures == IF known THEN throttle[peer].failures + 1 ELSE 1
        state == [first |-> IF known THEN throttle[peer].first ELSE apiClock, failures |-> failures,
                  until |-> IF failures >= AuthFailureLimit THEN <<apiClock + AuthWindow>> ELSE <<>>]
    IN  [p \in DOMAIN kept \cup {peer} |-> IF p = peer THEN state ELSE kept[p]]

-----------------------------------------------------------------------------
(* Requests.                                                               *)
Advance(c, pc) == [conns[c] EXCEPT !.pc = pc]

Answer(c, status, trail) ==
    [conns[c] EXCEPT !.pc = "open", !.status = status, !.trail = trail]

(* gate_control_api_request_for: the route under the paths of this moment. *)
Receive(c, req) ==
    LET route == RequestRoute(req, PolicyOf(Current).paths)
    IN  /\ conns[c].pc = "open" /\ apiLoad.requests > 0
        /\ apiLoad' = [apiLoad EXCEPT !.requests = @ - 1]
        /\ conns' = [conns EXCEPT ![c] =
              [@ EXCEPT !.pc = IF route = "NotFound" THEN "open" ELSE "authorize",
                        !.status = IF route = "NotFound" THEN 404 ELSE 0,
                        !.req = <<req>>, !.route = route, !.begun = Current, !.snap = 0,
                        !.handler = 0, !.identity = <<>>, !.trail = <<>>, !.changed = FALSE,
                        !.ok = FALSE]]
        /\ UNCHANGED <<apiSetup, apiClock, generations, tlsStore, acceptor, slots, throttle, sinks, audit>>

(* A denial on a route is an event of its own, but not on the status ones. *)
RouteDenial(route) == IF route \in {"Health", "Ready"} THEN <<>> ELSE <<AuditEvent("route", "Denied")>>

(* authorize_control_api_request_for up to the throttle, under the policy  *)
(* of this moment.                                                         *)
Authorize(c) ==
    LET conn == conns[c]
        peer == conn.client.ip
        sec == SecurityOf(Current)
        required == MinimumRole(conn.route, sec.authz)
        denial == <<AuditEvent("auth", "Denied")>> \o RouteDenial(conn.route)
    IN  /\ conn.pc = "authorize"
        /\ \/ /\ ~SourceAllowed(conn.req[1], peer, sec.allow)
              /\ Emit(denial, Current)
              /\ conns' = [conns EXCEPT ![c] = Answer(c, 403, Emitted(c, denial, Current))]
              /\ UNCHANGED throttle
           \/ /\ SourceAllowed(conn.req[1], peer, sec.allow)
              /\ UNCHANGED <<audit, sinks>>
              /\ IF required = <<>>
                 THEN /\ conns' = [conns EXCEPT ![c] = [Advance(c, "dispatch") EXCEPT !.snap = Current]]
                      /\ UNCHANGED throttle
                 ELSE IF Blocked(peer)
                 THEN conns' = [conns EXCEPT ![c] = Answer(c, 429, conn.trail)] /\ UNCHANGED throttle
                 ELSE /\ throttle' = Forgiven(peer)
                      /\ conns' = [conns EXCEPT ![c] = [Advance(c, "authenticate") EXCEPT !.snap = Current]]
        /\ UNCHANGED <<apiSetup, apiClock, generations, tlsStore, acceptor, slots, apiLoad>>

(* The rest of it, under the same policy.                                  *)
AuthenticateRequest(c) ==
    LET conn == conns[c]
        peer == conn.client.ip
        sec == SecurityOf(conn.snap)
        outcome == Authenticate(conn.req[1], conn.mtls, sec)
        required == MinimumRole(conn.route, sec.authz)[1]
        Deny(status, events) ==
            /\ Emit(events, conn.snap)
            /\ conns' = [conns EXCEPT ![c] = Answer(c, status, Emitted(c, events, conn.snap))]
        welcome == <<AuditEvent("auth", "Success")>>
    IN  /\ conn.pc = "authenticate"
        /\ IF outcome.identity = <<>>
           THEN throttle' = RecordFailure(peer) /\ Deny(401, <<AuditEvent("auth", "Denied")>>)
           ELSE /\ throttle' = Without(throttle, peer)
                /\ IF Sufficient(outcome.identity[1], required)
                   THEN /\ Emit(welcome, conn.snap)
                        /\ conns' = [conns EXCEPT ![c] =
                              [Advance(c, "dispatch") EXCEPT !.identity = outcome.identity,
                                                             !.trail = Emitted(c, welcome, conn.snap)]]
                   ELSE Deny(403, welcome \o RouteDenial(conn.route))
        /\ UNCHANGED <<apiSetup, apiClock, generations, tlsStore, acceptor, slots, apiLoad>>

(* handle_control_api_request past the gate.  The handlers read the state  *)
(* again; those with a body wait for it.                                   *)
Dispatch(c) ==
    LET read == <<AuditEvent("read", "Success")>>
    IN  /\ conns[c].pc = "dispatch"
        /\ \/ /\ conns[c].route \in {"Health", "Ready"}
              /\ conns' = [conns EXCEPT ![c] = Answer(c, 200, @.trail)]
              /\ UNCHANGED <<audit, sinks>>
           \/ /\ conns[c].route \in ReadRoutes
              /\ Emit(read, Current)
              /\ conns' = [conns EXCEPT ![c] = Answer(c, 200, Emitted(c, read, Current))]
           \/ /\ conns[c].route \in PlanRoutes \cup SwapRoutes
              /\ conns' = [conns EXCEPT ![c] = [Advance(c, "body") EXCEPT !.handler = Current]]
              /\ UNCHANGED <<audit, sinks>>
           \/ /\ conns[c].route \in {"ReloadCerts", "Restart"}
              /\ conns' = [conns EXCEPT ![c] = [Advance(c, "attempt") EXCEPT !.handler = Current]]
              /\ UNCHANGED <<audit, sinks>>
        /\ UNCHANGED <<apiSetup, apiClock, generations, tlsStore, acceptor, slots, throttle, apiLoad>>

(* The body arrives; a rollback needs one.  An activation then reads the   *)
(* state once more, the other handlers keep what they read before.         *)
ReadBody(c) ==
    LET conn == conns[c]
        body == conn.req[1].body
        bad == body = "bad" \/ (body = "none" /\ conn.route = "RuntimeRollback")
        failed == <<AuditEvent("result", "Failed")>>
    IN  /\ conn.pc = "body"
        /\ IF bad
           THEN /\ Emit(failed, conn.handler)
                /\ conns' = [conns EXCEPT ![c] = Answer(c, 400, Emitted(c, failed, conn.handler))]
           ELSE /\ conns' = [conns EXCEPT ![c] =
                      [Advance(c, "attempt") EXCEPT
                          !.handler = IF conn.route \in {"RuntimeActivate", "ReloadRuntime"}
                                      THEN Current ELSE @]]
                /\ UNCHANGED <<audit, sinks>>
        /\ UNCHANGED <<apiSetup, apiClock, generations, tlsStore, acceptor, slots, throttle, apiLoad>>

AttemptAudited(c) ==
    LET attempt == <<AuditEvent("attempt", "Success")>>
    IN  /\ conns[c].pc = "attempt"
        /\ Emit(attempt, conns[c].handler)
        /\ conns' = [conns EXCEPT ![c] = [Advance(c, "perform") EXCEPT
                                            !.trail = Emitted(c, attempt, conns[c].handler)]]
        /\ UNCHANGED <<apiSetup, apiClock, generations, tlsStore, acceptor, slots, throttle, apiLoad>>

(* The operations.  What an activation, rollback or plan does inside is    *)
(* RuntimeGeneration's; here each succeeds or is refused, and a swap makes *)
(* a generation of some policy, if the generation the handler expects is   *)
(* still the active one.                                                   *)
Performing(c, routes) == conns[c].pc = "perform" /\ conns[c].route \in routes

Performed(c, ok, changed) ==
    /\ conns' = [conns EXCEPT ![c] = [Advance(c, "result") EXCEPT !.ok = ok, !.changed = changed]]
    /\ UNCHANGED <<apiSetup, apiClock, acceptor, slots, throttle, audit, apiLoad>>

Refused(c) ==
    /\ Performing(c, MutatingRoutes) /\ Performed(c, FALSE, FALSE)
    /\ UNCHANGED <<generations, sinks, tlsStore>>

Planned(c) ==
    /\ Performing(c, PlanRoutes) /\ Performed(c, TRUE, FALSE)
    /\ UNCHANGED <<generations, sinks, tlsStore>>

Swap(c) ==
    /\ conns[c].handler = Current
    /\ \E p \in DOMAIN apiSetup.policies :
          /\ generations' = Append(generations, p)
          /\ \E d \in Deliveries(apiSetup.policies[p]) : sinks' = Append(sinks, NewSink(d))
    /\ Performed(c, TRUE, TRUE)
    /\ UNCHANGED tlsStore

Activated(c) == Performing(c, {"RuntimeActivate", "ReloadRuntime"}) /\ Swap(c)

RolledBack(c) == Performing(c, {"RuntimeRollback"}) /\ Swap(c)

(* reload_listener_certs: all listeners' material or none.                 *)
CertsReloaded(c) ==
    /\ Performing(c, {"ReloadCerts"}) /\ Performed(c, TRUE, TRUE)
    /\ tlsStore' = tlsStore + 1
    /\ UNCHANGED <<generations, sinks>>

RestartAsked(c) ==
    /\ Performing(c, {"Restart"})
    /\ \E accepted \in BOOLEAN : Performed(c, accepted, accepted)
    /\ UNCHANGED <<generations, sinks, tlsStore>>

(* An activation that changed upstream TLS material, or failed on it,      *)
(* leaves one event more.                                                  *)
MaterialEvents(conn) ==
    {<<>>} \cup IF conn.route \in {"RuntimeActivate", "ReloadRuntime"}
                THEN {<<AuditEvent("material", IF conn.ok THEN "Success" ELSE "Failed")>>} ELSE {}

(* The result goes to the emitter the attempt went to, whatever generation *)
(* is active now.                                                          *)
ResultAudited(c) ==
    LET conn == conns[c]
        result == <<AuditEvent("result", IF conn.ok THEN "Success" ELSE "Failed")>>
        status == IF conn.route \in PlanRoutes THEN 200 ELSE IF conn.ok THEN 202 ELSE 409
    IN  /\ conn.pc = "result"
        /\ \E material \in MaterialEvents(conn) :
              /\ Emit(result \o material, conn.handler)
              /\ conns' = [conns EXCEPT ![c] =
                    Answer(c, status, Emitted(c, result \o material, conn.handler))]
        /\ UNCHANGED <<apiSetup, apiClock, generations, tlsStore, acceptor, slots, throttle, apiLoad>>

ApiTick ==
    /\ apiClock < apiSetup.horizon /\ apiClock' = apiClock + 1
    /\ UNCHANGED <<apiSetup, generations, tlsStore, acceptor, slots, conns, throttle, sinks, audit, apiLoad>>

ApiNext ==
    \/ LoopTurn \/ AcceptIdle \/ ApiTick
    \/ \E g \in DOMAIN sinks : WriteAudit(g)
    \/ \E c \in Connections :
         \/ \E client \in apiSetup.clients : Accept(c, client)
         \/ ServeStart(c) \/ Handshake(c) \/ CloseConnection(c)
         \/ \E req \in apiSetup.requests : Receive(c, req)
         \/ Authorize(c) \/ AuthenticateRequest(c) \/ Dispatch(c) \/ ReadBody(c)
         \/ AttemptAudited(c) \/ Refused(c) \/ Planned(c) \/ Activated(c) \/ RolledBack(c)
         \/ CertsReloaded(c) \/ RestartAsked(c) \/ ResultAudited(c)

-----------------------------------------------------------------------------
Live == {c \in Connections : conns[c] # Closed}
Admitted == {c \in Connections : conns[c].pc \in {"dispatch", "body", "attempt", "perform", "result"}}
Answered == {c \in Connections : conns[c].pc = "open" /\ conns[c].req # <<>>}

(* Every binding counts exactly its live connections and stays within the  *)
(* largest limit in use; a binding made anew starts from zero, so across   *)
(* bindings there may be more (service.rs:213, context.rs:80).             *)
SlotsAccounted ==
    \A b \in DOMAIN slots :
        /\ slots[b] = Cardinality({c \in Live : conns[c].slot = b})
        /\ slots[b] <= Max({MaxConnections(g) : g \in DOMAIN generations})

(* A peer on record with the limit's failures is blocked, and what slips   *)
(* past the check before that is at most one try per other connection.     *)
ThrottleHolds ==
    /\ Cardinality(DOMAIN throttle) <= ThrottlePeers
    /\ \A p \in DOMAIN throttle :
        /\ throttle[p].failures >= AuthFailureLimit <=> throttle[p].until # <<>>
        /\ throttle[p].failures <= (AuthFailureLimit - 1) + Cardinality(Connections)

(* No event is lost silently: each is written, waiting or counted.         *)
AuditConserved ==
    /\ audit.emitted = audit.written + audit.dropped
                         + MapThenSumSet(LAMBDA g : sinks[g].queued, DOMAIN sinks)
    /\ \A g \in DOMAIN sinks : sinks[g].queued <= AuditCapacity

(* The grounds for a role, stated without the identity the code builds: a  *)
(* token of the policy, a certificate, and with both of them both.         *)
TokenGives(req, sec, role) == \E t \in ToSet(BearerTokens(sec)) : t.token = req.auth /\ t.role >= role
CertGives(mtls, role) == \E m \in ToSet(mtls) : \E r \in m.roles : r >= role
CertSilent(mtls) == \A m \in ToSet(mtls) : m.roles = {}

Grounds(req, mtls, sec, role) ==
    IF req.auth = "absent" THEN CertGives(mtls, role)
    ELSE TokenGives(req, sec, role) /\ (CertSilent(mtls) \/ CertGives(mtls, role))

(* A request past the gate had the grounds for its route's role under a    *)
(* policy that was in force after it arrived, certificate attributes read  *)
(* as of the connection's start.                                           *)
OnlyAuthorized ==
    \A c \in Admitted :
        LET sec == SecurityOf(conns[c].snap)
            required == MinimumRole(conns[c].route, sec.authz)
        IN  /\ conns[c].snap >= conns[c].begun /\ conns[c].gen <= conns[c].begun
            /\ SourceAllowed(conns[c].req[1], conns[c].client.ip, sec.allow)
            /\ required # <<>> => Grounds(conns[c].req[1], conns[c].mtls, sec, required[1])

(* With auditing on throughout, a change was announced before it was made  *)
(* and reported after, with its outcome; a refusal was reported too, save  *)
(* the throttle's, which leaves no event, and a missing role on a status   *)
(* route, which leaves only the authentication.                            *)
Kinds(trail) == [i \in DOMAIN trail |-> trail[i].kind]

TrailComplete ==
    (\A p \in DOMAIN apiSetup.policies : apiSetup.policies[p].security.audit.enabled) =>
        /\ \A c \in Admitted : conns[c].changed => "attempt" \in ToSet(Kinds(conns[c].trail))
        /\ \A c \in Answered :
            LET trail == conns[c].trail
            IN  /\ conns[c].status \in {200, 202, 409} /\ conns[c].route \in MutatingRoutes \cup {"Restart"}
                     => /\ SubSeq(Kinds(trail), 1, 3) = <<"auth", "attempt", "result">>
                        /\ trail[3].result = "Success" <=> conns[c].ok
                        /\ conns[c].changed => conns[c].ok
                /\ conns[c].status = 401 => trail = <<AuditEvent("auth", "Denied")>>
                /\ conns[c].status = 403 /\ conns[c].route \notin {"Health", "Ready"}
                     => AuditEvent("route", "Denied") \in ToSet(trail)

(* The control API is accountable: only authorized requests are performed, *)
(* what is performed or refused is on the audit trail, no event disappears *)
(* uncounted, and connection slots and throttle records stay exact while   *)
(* activations replace the policy under running requests.                  *)
ControlApiAccountable ==
    SlotsAccounted /\ ThrottleHolds /\ AuditConserved /\ OnlyAuthorized /\ TrailComplete
===============================================================================
