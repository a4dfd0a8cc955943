----------------------------- MODULE KeySources -----------------------------
(* The process-wide cache of JWKS key sources and the tasks that refresh   *)
(* it (edge/quic_listener/admission: jwks_cache.rs, jwks_refresh.rs,       *)
(* startup.rs): the periodic task of each configuration generation, the    *)
(* preflight of a candidate configuration, and the refresh a token with an *)
(* unknown kid asks for.  There is one source; generations of the          *)
(* configuration may use it with different settings, or drop it.           *)
EXTENDS JwtTokens, FiniteSetsExt

CONSTANTS
    KeySetups,        \* configurations, documents and tokens to consider
    MaxKeyTime        \* bound on the clock, in units of the refresh interval

(* min(refresh_interval, 30 s) but at least 5 s, in those units.           *)
OnDemandCooldown == 1

ASSUME KeyAssumption ==
    /\ MaxKeyTime \in Nat
    /\ \A s \in KeySetups : s.gens # <<>> /\ s.docs # <<>>

VARIABLES
    keySetup,    \* the configuration generations, the documents, the tokens
    keyClock,
    endpoint,    \* the document the source serves now, an index of its docs
    keyCache,    \* <<>> or <<entry>>
    refreshers,  \* refresh tasks: one per generation, preflight, on-demand
    keyGen,      \* the active generation
    history,     \* the last document applied: when, its keys and kids, and
                 \* the keys of all documents so far
    orphaned     \* a refresh was aborted, or its entry removed, in flight

keyVars == <<keySetup, keyClock, endpoint, keyCache, refreshers, keyGen, history, orphaned>>

Refreshers == (1..2) \cup {3, 4}
PreflightTask == 3
OnDemandTask == 4

Off == [pc |-> "off", due |-> 0, algs |-> {}, got |-> <<>>]

KeyInit ==
    /\ keySetup \in KeySetups
    /\ keyClock = 0 /\ keyGen = 0
    /\ endpoint = 1
    /\ keyCache = <<>> /\ orphaned = FALSE
    /\ history = [at |-> 0, keys |-> {}, kids |-> {}, ever |-> {}]
    /\ refreshers = [r \in Refreshers |-> Off]

-----------------------------------------------------------------------------
(* The cache entry.                                                        *)
NewEntry(source) ==
    [source |-> source, state |-> "NeverFetched", keys |-> {}, inFlight |-> FALSE,
     success |-> <<>>, reason |-> None, nextOnDemand |-> 0]

(* merge_jwks_source_config: an entry's settings only ever move one way.   *)
MergeSource(old, new) ==
    [algs |-> old.algs \cup new.algs,
     ttl |-> Min({old.ttl, new.ttl}), stale |-> Max({old.stale, new.stale}),
     ready |-> old.ready \/ new.ready]

Registered(cache, source) ==
    IF cache = <<>> THEN <<NewEntry(source)>>
    ELSE <<[cache[1] EXCEPT !.source = MergeSource(@, source)]>>

(* active_keys: a key of the last document, or a withdrawn one that is     *)
(* still retained.                                                         *)
ActiveKeys(e, now) == {a \in e.keys : a.until = <<>> \/ now <= Head(a.until)}

(* rollover_keys: withdrawn keys stay for the overlap unless their kid is  *)
(* taken by a new key.                                                     *)
Kid(a) == KeyMetadata(a.key).kid

RolloverKeys(e, keys, now) ==
    LET fresh == {[key |-> k, until |-> <<>>] : k \in keys}
        Superseded(a) == \/ a.key \in keys
                         \/ Kid(a) # None /\ \E f \in fresh : Kid(f) = Kid(a)
        kept == {a \in ActiveKeys(e, now) : ~Superseded(a)}
    IN  fresh \cup {[a EXCEPT !.until = <<now + e.source.stale>>] : a \in kept}

EffectiveStateForever(e, now) ==
    LET age == now - e.success[1]
        retained == e.state \in {"RefreshFailedRetained", "QuarantinedRetained"}
    IN  IF ActiveKeys(e, now) = {}
        THEN IF e.state = "NeverFetched" THEN "NeverFetched" ELSE "EmptyUnusable"
        ELSE IF e.success = <<>> THEN e.state
        ELSE IF retained THEN e.state
        ELSE IF age <= e.source.ttl THEN "Fresh" ELSE "Stale"

EffectiveState(e, now) ==
    LET age == now - e.success[1]
        retained == e.state \in {"RefreshFailedRetained", "QuarantinedRetained"}
    IN  IF ActiveKeys(e, now) = {}
        THEN IF e.state = "NeverFetched" THEN "NeverFetched" ELSE "EmptyUnusable"
        ELSE IF e.success = <<>> THEN e.state
        ELSE IF age > e.source.ttl + e.source.stale THEN "EmptyUnusable"
        ELSE IF retained THEN e.state
        ELSE IF age <= e.source.ttl THEN "Fresh" ELSE "Stale"

Snapshot(cache, now) ==
    IF cache = <<>> THEN <<>>
    ELSE <<[state |-> EffectiveState(cache[1], now), reason |-> cache[1].reason,
            keys |-> {a.key : a \in ActiveKeys(cache[1], now)}]>>

UsableState(s) == s \in {"Fresh"} \cup StaleStates

(* complete_refresh_success: an empty key set is quarantined, the keys in  *)
(* use are kept.                                                           *)
CompleteSuccess(e, keys, now) ==
    LET done == [e EXCEPT !.inFlight = FALSE, !.reason = None]
    IN  IF keys # {}
        THEN [done EXCEPT !.keys = RolloverKeys(e, keys, now), !.success = <<now>>, !.state = "Fresh"]
        ELSE IF ActiveKeys(e, now) = {}
        THEN [done EXCEPT !.keys = {}, !.state = "EmptyUnusable"]
        ELSE [done EXCEPT !.keys = ActiveKeys(e, now), !.state = "QuarantinedRetained",
                          !.reason = "MalformedDocument"]

CompleteFailure(e, reason, now) ==
    [e EXCEPT !.inFlight = FALSE, !.reason = reason,
              !.state = IF ActiveKeys(e, now) = {} THEN "EmptyUnusable" ELSE "RefreshFailedRetained"]

-----------------------------------------------------------------------------
(* What the source publishes changes, or the source fails or comes back.   *)
Publish ==
    /\ endpoint < Len(keySetup.docs) /\ endpoint' = endpoint + 1
    /\ UNCHANGED <<keySetup, keyClock, keyCache, refreshers, keyGen, history, orphaned>>

(* spawn_jwks_refresh for the next generation: reconcile_sources, then its *)
(* task, which refreshes at once.                                          *)
Working(r) == refreshers[r].pc \in {"fetch", "apply"}

Activate ==
    LET g == keyGen + 1
        gen == keySetup.gens[g]
    IN  /\ keyGen < Len(keySetup.gens)
        /\ keyGen' = g
        /\ \/ /\ gen.remote
              /\ keyCache' = Registered(keyCache, gen.source)
              /\ refreshers' = [refreshers EXCEPT ![g] =
                                  [Off EXCEPT !.pc = "idle", !.due = keyClock, !.algs = gen.source.algs]]
              /\ UNCHANGED orphaned
           \/ /\ ~gen.remote
              /\ keyCache' = <<>>
              /\ orphaned' = (orphaned \/ \E r \in Refreshers : Working(r))
              /\ UNCHANGED refreshers
        /\ UNCHANGED <<keySetup, keyClock, endpoint, history>>

(* The retired generation's task is aborted wherever it stands.            *)
Retire ==
    /\ keyGen = 2 /\ refreshers[1].pc # "off"
    /\ refreshers' = [refreshers EXCEPT ![1] = Off]
    /\ orphaned' = (orphaned \/ Working(1))
    /\ UNCHANGED <<keySetup, keyClock, endpoint, keyCache, keyGen, history>>

(* preflight_require_ready_jwks of the next generation, as a candidate.    *)
Preflight ==
    /\ keyGen < Len(keySetup.gens) /\ keySetup.gens[keyGen + 1].remote
    /\ refreshers[PreflightTask].pc = "off"
    /\ keyCache' = Registered(keyCache, keySetup.gens[keyGen + 1].source)
    /\ refreshers' = IF keySetup.gens[keyGen + 1].source.ready
                     THEN [refreshers EXCEPT ![PreflightTask] =
                            [Off EXCEPT !.pc = "idle", !.due = keyClock,
                                        !.algs = keySetup.gens[keyGen + 1].source.algs]]
                     ELSE refreshers
    /\ UNCHANGED <<keySetup, keyClock, endpoint, keyGen, history, orphaned>>

(* begin_refresh, and what a task does when it may not: the periodic one   *)
(* waits for its next tick, the preflight goes by the state it finds.      *)
After(r) == IF r \in {PreflightTask, OnDemandTask} THEN Off
            ELSE [refreshers[r] EXCEPT !.pc = "idle", !.due = keyClock + 1, !.got = <<>>]

MayBegin == keyCache # <<>> /\ ~keyCache[1].inFlight

Begin(r) ==
    /\ refreshers[r].pc = "idle" /\ refreshers[r].due <= keyClock
    /\ \/ /\ MayBegin
          /\ keyCache' = <<[keyCache[1] EXCEPT !.inFlight = TRUE]>>
          /\ refreshers' = [refreshers EXCEPT ![r].pc = "fetch"]
       \/ /\ ~MayBegin
          /\ refreshers' = [refreshers EXCEPT ![r] = After(r)]
          /\ UNCHANGED keyCache
    /\ UNCHANGED <<keySetup, keyClock, endpoint, keyGen, history, orphaned>>

(* The source's answer of this moment.                                     *)
Fetch(r) ==
    /\ refreshers[r].pc = "fetch"
    /\ refreshers' = [refreshers EXCEPT ![r].pc = "apply",
                                        ![r].got = <<FetchOutcome(keySetup.docs[endpoint], refreshers[r].algs)>>]
    /\ UNCHANGED <<keySetup, keyClock, endpoint, keyCache, keyGen, history, orphaned>>

(* complete_refresh_*: nothing happens to an entry that is gone.           *)
Apply(r) ==
    LET got == refreshers[r].got[1]
    IN  /\ refreshers[r].pc = "apply"
        /\ refreshers' = [refreshers EXCEPT ![r] = After(r)]
        /\ keyCache' = IF keyCache = <<>> THEN keyCache
                       ELSE IF got.failure = None THEN <<CompleteSuccess(keyCache[1], got.keys, keyClock)>>
                       ELSE <<CompleteFailure(keyCache[1], got.failure, keyClock)>>
        /\ history' = IF keyCache # <<>> /\ got.keys # {}
                      THEN [at |-> keyClock, keys |-> {k.id : k \in got.keys},
                            kids |-> {KeyMetadata(k).kid : k \in got.keys},
                            ever |-> history.ever \cup {k.id : k \in got.keys}]
                      ELSE history
        /\ UNCHANGED <<keySetup, keyClock, endpoint, keyGen, orphaned>>

-----------------------------------------------------------------------------
(* jwt_is_authorized for a token under the active generation, or under the *)
(* previous one on a connection that is still draining: the decision, and  *)
(* what asking for it does to the cache.                                   *)
Decision(tok, g) ==
    LET gen == keySetup.gens[g]
        reason == ValidateToken(gen.jwt, tok, Snapshot(keyCache, keyClock), keyClock)
    IN  IF reason = "ok" /\ ~SatisfiesRbac(gen.jwt, tok) THEN "Forbidden" ELSE reason

(* (The model runs one on-demand refresh at a time; more than one takes an *)
(* entry removed and made again meanwhile.)                                *)
OnDemandDue(cache) ==
    /\ ~cache[1].inFlight /\ keyClock >= cache[1].nextOnDemand
    /\ refreshers[OnDemandTask].pc = "off"

Validate(tok, g) ==
    LET gen == keySetup.gens[g]
        cache == IF gen.remote /\ tok.alg \in gen.jwt.algs \ {"HS256"}
                 THEN Registered(keyCache, gen.source) ELSE keyCache
        snapshot == Snapshot(cache, keyClock)
        unknown == /\ gen.remote /\ tok.kid # None /\ cache # <<>>
                   /\ tok.alg \in gen.jwt.algs \ {"HS256"}
                   /\ UsableState(snapshot[1].state)
                   /\ ResolveRemote(snapshot, tok) = KeyNotFound
    IN  /\ keyCache # cache \/ unknown
        /\ IF unknown /\ OnDemandDue(cache)
           THEN /\ keyCache' = <<[cache[1] EXCEPT !.inFlight = TRUE,
                                                  !.nextOnDemand = keyClock + OnDemandCooldown]>>
                /\ refreshers' = [refreshers EXCEPT ![OnDemandTask] =
                                    [Off EXCEPT !.pc = "fetch", !.algs = cache[1].source.algs]]
           ELSE keyCache' = cache /\ UNCHANGED refreshers
        /\ UNCHANGED <<keySetup, keyClock, endpoint, keyGen, history, orphaned>>

KeyTick ==
    /\ keyClock < MaxKeyTime /\ keyClock' = keyClock + 1
    /\ UNCHANGED <<keySetup, endpoint, keyCache, refreshers, keyGen, history, orphaned>>

Serving == {keyGen, keyGen - 1} \cap (1..2)

KeyNext ==
    \/ Publish \/ Activate \/ Retire \/ Preflight \/ KeyTick
    \/ \E r \in Refreshers : Begin(r) \/ Fetch(r) \/ Apply(r)
    \/ \E tok \in keySetup.tokens, g \in Serving : Validate(tok, g)

-----------------------------------------------------------------------------
(* The widest settings any generation so far has asked for.                *)
Stale == Max({keySetup.gens[g].source.stale : g \in 1..Len(keySetup.gens)})
Ttl == Max({keySetup.gens[g].source.ttl : g \in 1..Len(keySetup.gens)})

(* A token accepted on a remote key was signed by a key of the last        *)
(* document applied, no older than its lifetime and the stale window, or   *)
(* by a withdrawn key whose kid no newer key took, within the overlap      *)
(* after the last document (CHANGELOG.md:118: "A refresh failure never     *)
(* widens access").  The withdrawn key is not bounded by the time it was   *)
(* withdrawn: each refresh renews the overlap.                             *)
TokensJustified ==
    \A tok \in keySetup.tokens, g \in Serving : Decision(tok, g) = "ok" =>
        LET jwt == keySetup.gens[g].jwt
        IN  /\ tok.alg \in jwt.algs /\ jwt.scopes \subseteq tok.scopes
            /\ \/ tok.signedBy \in {jwt.secret} \cup {k.id : k \in jwt.static}
               \/ /\ tok.signedBy \in history.keys
                  /\ keyClock <= history.at + Ttl + Stale
               \/ /\ tok.signedBy \in history.ever /\ tok.kid \notin history.kids
                  /\ keyClock <= history.at + Stale

(* An entry marked in flight has a task that will complete it, unless that *)
(* task was aborted or its entry replaced; and then there is never more    *)
(* than one task between a refresh's start and its completion.             *)
RefreshOwned ==
    ~orphaned =>
        /\ Cardinality({r \in Refreshers : Working(r)}) <= 1
        /\ keyCache # <<>> => (keyCache[1].inFlight <=> \E r \in Refreshers : Working(r))

(* The key sources of JWT authentication are sound: tokens are accepted on *)
(* justified keys only, and refreshes of one source exclude each other     *)
(* (begin_refresh, schedule_on_demand_refresh and their completions).      *)
KeySourcesSound == TokensJustified /\ RefreshOwned
===============================================================================
