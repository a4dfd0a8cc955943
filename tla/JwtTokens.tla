------------------------------ MODULE JwtTokens ------------------------------
(* What makes a bearer token acceptable (edge/quic_listener/admission:     *)
(* jwt.rs, key_resolution.rs) and which keys of a JWKS document are taken  *)
(* over (jwks_refresh.rs).  Signatures, encodings and key material are     *)
(* abstract: a token names the key that signed it.                         *)
EXTENDS Integers, Sequences, FiniteSets, Functions

None == "none"

(* A verification key: its identity, kid and alg as configured, kid and    *)
(* alg inside the JWK, type (RSA, EC, EC-other, oct, garbled), strength    *)
(* and intended use.                                                       *)
ParseAlg(alg) == IF alg \in {"HS256", "RS256", "ES256"} THEN alg ELSE "unsupported"

KeyMetadata(k) ==
    IF \/ k.jwkAlg # None /\ ParseAlg(k.jwkAlg) = "unsupported"
       \/ k.kid # None /\ k.jwkKid # None /\ k.kid # k.jwkKid
       \/ k.alg # None /\ k.jwkAlg # None /\ k.alg # k.jwkAlg
    THEN [ok |-> FALSE, kid |-> None, alg |-> None]
    ELSE [ok |-> TRUE, kid |-> IF k.kid # None THEN k.kid ELSE k.jwkKid,
          alg |-> IF k.alg # None THEN k.alg ELSE k.jwkAlg]

(* "ok", or why the key cannot verify the algorithm.                       *)
ParseMaterial(k, alg, garbled) ==
    CASE alg = "HS256" -> "InvalidKeyType"
      [] alg # "HS256" /\ k.kty = "garbled" -> garbled
      [] alg = "RS256" /\ k.kty = "RSA" -> IF k.weak THEN "KeyTooWeak" ELSE "ok"
      [] alg = "ES256" /\ k.kty = "EC" -> "ok"
      [] alg = "ES256" /\ k.kty = "EC-other" -> "UnsupportedCurve"
      [] OTHER -> "InvalidKeyType"

ParsePem(k, alg) == ParseMaterial(k, alg, "PemKeyParseFailed")
ParseJwk(k, alg) == ParseMaterial(k, alg, "JwkKeyParseFailed")

ParseKey(k, alg) == IF k.form = "pem" THEN ParsePem(k, alg) ELSE ParseJwk(k, alg)

-----------------------------------------------------------------------------
(* From a JWKS document to keys.                                           *)
InferAlg(k) ==
    CASE k.kty = "RSA" -> "RS256"
      [] k.kty = "EC" -> "ES256"
      [] OTHER -> "unsupported"

JwkAlg(k) == IF k.jwkAlg # None THEN ParseAlg(k.jwkAlg) ELSE InferAlg(k)

(* A key that is not for signatures, not asymmetric, not enabled or not    *)
(* parseable is left out, with no failure of the document.                 *)
KeyAccepted(k, algs) ==
    /\ k.use \in {None, "sig"}
    /\ JwkAlg(k) \in {"RS256", "ES256"} \cap algs
    /\ ParseJwk(k, JwkAlg(k)) = "ok"

NormalizeKey(k) == [k EXCEPT !.kid = k.jwkKid, !.alg = JwkAlg(k)]

Kids(keys) == SelectSeq([i \in 1..Len(keys) |-> KeyMetadata(keys[i]).kid], LAMBDA c : c # None)

NormalizeDocument(doc, algs) ==
    LET accepted == SelectSeq(doc.keys, LAMBDA k : KeyAccepted(k, algs))
        keys == [i \in 1..Len(accepted) |-> NormalizeKey(accepted[i])]
    IN  IF IsInjective(Kids(keys)) THEN [failure |-> None, keys |-> Range(keys)]
        ELSE [failure |-> "AmbiguousDuplicateKid", keys |-> {}]

(* fetch_and_normalize: a failure with its reason, or the keys.            *)
FetchOutcome(doc, algs) ==
    IF doc.served # "ok" THEN [failure |-> doc.served, keys |-> {}]
    ELSE NormalizeDocument(doc, algs)

-----------------------------------------------------------------------------
(* From a token to its verification key.                                   *)
Found(how, k) == [how |-> how, key |-> <<k>>, reason |-> "ok"]
NotFound(how, reason) == [how |-> how, key |-> <<>>, reason |-> reason]
KeyNotFound == NotFound("KeyNotFound", "MissingVerificationKey")
SourceUnavailable == NotFound("SourceUnavailable", "KeySourceUnavailable")
ConfigurationInvalid(reason) == NotFound("ConfigurationInvalid", reason)

StaleStates == {"Stale", "RefreshFailedRetained", "QuarantinedRetained"}

(* resolve_matching_asymmetric_key: a kid selects, without one the         *)
(* algorithm alone does, and only a single match will do.                  *)
ResolveMatching(keys, tok, state) ==
    LET Matches(k) ==
            /\ tok.kid # None => KeyMetadata(k).kid = tok.kid
            /\ KeyMetadata(k).alg # None => KeyMetadata(k).alg = tok.alg
        matching == {k \in keys : Matches(k)}
        only == CHOOSE k \in matching : TRUE
        broken == \E k \in keys : ~KeyMetadata(k).ok
    IN  IF broken THEN ConfigurationInvalid("JwkKeyParseFailed")
        ELSE IF matching = {} THEN KeyNotFound
        ELSE IF Cardinality(matching) > 1 THEN ConfigurationInvalid("AmbiguousVerificationKey")
        ELSE IF ParseKey(only, tok.alg) # "ok" THEN ConfigurationInvalid(ParseKey(only, tok.alg))
        ELSE Found(IF state \in StaleStates THEN "StaleButUsable" ELSE "Found", only)

(* A snapshot of the cache entry is <<>> or <<[state, keys, reason]>>.     *)
ResolveRemote(snapshot, tok) ==
    IF snapshot = <<>> \/ snapshot[1].state = "NeverFetched" THEN SourceUnavailable
    ELSE IF snapshot[1].state # "EmptyUnusable"
    THEN ResolveMatching(snapshot[1].keys, tok, snapshot[1].state)
    ELSE IF snapshot[1].reason \in {"MalformedDocument", "AmbiguousDuplicateKid"}
    THEN ConfigurationInvalid("JwkKeyParseFailed")
    ELSE SourceUnavailable

(* resolve_asymmetric_sources: the static keys, then the remote source; a  *)
(* configuration error ends the search, two answers are ambiguous, and an  *)
(* unavailable source outranks a key that was not found.                   *)
ResolveAsymmetric(jwt, tok, snapshot) ==
    LET static == IF jwt.static = {} THEN KeyNotFound ELSE ResolveMatching(jwt.static, tok, "Fresh")
        remote == IF jwt.remote THEN ResolveRemote(snapshot, tok) ELSE KeyNotFound
        found == SelectSeq(<<static, remote>>, LAMBDA r : r.key # <<>>)
        invalid == SelectSeq(<<static, remote>>, LAMBDA r : r.how = "ConfigurationInvalid")
    IN  CASE invalid # <<>> -> Head(invalid)
          [] invalid = <<>> /\ Len(found) = 2 -> ConfigurationInvalid("AmbiguousVerificationKey")
          [] invalid = <<>> /\ Len(found) = 1 -> Head(found)
          [] OTHER -> IF SourceUnavailable \in {static, remote} THEN SourceUnavailable
                      ELSE KeyNotFound

ResolveKey(jwt, tok, snapshot) ==
    IF jwt.requireKid /\ tok.kid = None THEN ConfigurationInvalid("MissingKid")
    ELSE IF tok.alg # "HS256" THEN ResolveAsymmetric(jwt, tok, snapshot)
    ELSE IF jwt.secret = None THEN KeyNotFound
    ELSE Found("Found", [id |-> jwt.secret])

-----------------------------------------------------------------------------
(* validate_jwt_token: the checks in the code's order; the first that      *)
(* fails is the reason.  A claim that is absent, or not of its type, is    *)
(* <<>>.                                                                   *)
FirstFailure(checks) ==
    LET failed == SelectSeq(checks, LAMBDA c : c[1])
    IN  IF failed = <<>> THEN "ok" ELSE Head(failed)[2]

Later(claim, now) == claim # <<>> /\ now < Head(claim)

CheckClaims(jwt, tok, now) == FirstFailure(<<
    <<tok.shape = "bad-claims", "MalformedClaims">>,
    <<tok.exp = <<>>, "MissingExpiration">>,
    <<tok.exp # <<>> /\ ~Later(tok.exp, now - jwt.skew - 1), "TokenExpired">>,
    <<Later(tok.nbf, now + jwt.skew), "TokenNotYetValid">>,
    <<Later(tok.iat, now + jwt.skew), "TokenIssuedInFuture">>,
    <<jwt.issuers # {} /\ tok.iss \notin jwt.issuers, "IssuerMismatch">>,
    <<jwt.audiences # {} /\ tok.aud \cap jwt.audiences = {}, "AudienceMismatch">> >>)

CheckHeader(jwt, tok) == FirstFailure(<<
    <<tok.shape = "garbled", "MalformedToken">>,
    <<tok.alg = None, "MissingAlgorithm">>,
    <<tok.alg = "other", "UnsupportedAlgorithm">>,
    <<tok.alg \notin jwt.algs, "AlgorithmNotAllowed">> >>)

SignatureValid(tok, k) == k.id = tok.signedBy

ValidateToken(jwt, tok, snapshot, now) ==
    LET resolved == ResolveKey(jwt, tok, snapshot)
    IN  IF CheckHeader(jwt, tok) # "ok" THEN CheckHeader(jwt, tok)
        ELSE IF resolved.key = <<>> THEN resolved.reason
        ELSE IF ~SignatureValid(tok, resolved.key[1]) THEN "SignatureInvalid"
        ELSE CheckClaims(jwt, tok, now)

(* jwt_claims_satisfy_rbac.                                                *)
SatisfiesRbac(jwt, tok) == jwt.scopes \subseteq tok.scopes
===============================================================================
