---------------------------- MODULE QuotaIdentity ----------------------------
(* How a quota policy turns a request into the key of its counters         *)
(* (edge/resilience/quota/identity.rs, policy.rs).  A request context      *)
(* gives, for every place a key may come from, the raw value found there:  *)
(* "absent", "blank" (only white space), "long" (above the identity        *)
(* limit), "other-scheme" (an Authorization header without a bearer        *)
(* token) or an ordinary value.                                            *)
EXTENDS Integers, Sequences

Missing == "SelectorIdentityMissing"
Invalid == "SelectorIdentityInvalid"

Bounded(raw) ==
    CASE raw \in {"absent", "blank"} -> Missing
      [] raw \in {"long", "other-scheme"} -> Invalid
      [] OTHER -> raw

ExtractBearer(raw) == IF raw = "blank" THEN Invalid ELSE Bounded(raw)

(* The places are path (without its query), target (with it), authority,   *)
(* method, cid, client_ip, bearer_token, header, cookie and query.         *)
ExtractPlace(place, ctx) ==
    IF place = "bearer_token" THEN ExtractBearer(ctx[place]) ELSE Bounded(ctx[place])

Present(raw) == raw \notin {"absent", "blank"}

ExtractLegacyDefault(ctx) ==
    CASE Present(ctx.authority) -> Bounded(ctx.authority)
      [] ~Present(ctx.authority) /\ Present(ctx.target) -> Bounded(ctx.target)
      [] OTHER -> Bounded(ctx.method)

(* A key spec: the place, and whether the scoped rate limits' default      *)
(* applies when nothing is found there.                                    *)
ExtractSelectorKey(spec, ctx) ==
    LET found == ExtractPlace(spec.place, ctx)
    IN  IF spec.legacy /\ found = Missing THEN ExtractLegacyDefault(ctx) ELSE found

(* Route identities are stored as they are; the others as their digest.    *)
(* Storing a digest again leaves it alone.                                 *)
CanonicalValue(dim, text) == [hashed |-> dim # "route", text |-> text]
CanonicalStored(dim, v) == IF v.hashed THEN v ELSE CanonicalValue(dim, v.text)

ExtractDimension(spec, ctx) ==
    IF spec.dim # "route" THEN ExtractSelectorKey(spec, ctx)
    ELSE IF Present(ctx.route) THEN ctx.route ELSE Missing

(* A policy's selector lists its dimensions in the order route, tenant,    *)
(* token, client; the first that yields no identity rejects the request.   *)
Extracted(policy, ctx) ==
    [i \in 1..Len(policy.selector) |-> ExtractDimension(policy.selector[i], ctx)]

Rejections(policy, ctx) == SelectSeq(Extracted(policy, ctx), LAMBDA v : v \in {Missing, Invalid})

(* composite_key: <<reason>> of the rejection, or <<>>, and the key.       *)
CompositeKey(policy, ctx) ==
    LET values == Extracted(policy, ctx)
        Label(i) == CanonicalValue(policy.selector[i].dim, values[i])
    IN  [rejected |-> IF Rejections(policy, ctx) = <<>> THEN <<>>
                      ELSE <<Head(Rejections(policy, ctx))>>,
         key |-> [i \in 1..Len(policy.selector) |->
                    <<policy.selector[i].dim,
                      CanonicalStored(policy.selector[i].dim, Label(i))>>]]

AppliesToRoute(policy, ctx) == policy.routes = {} \/ ctx.route \in policy.routes
===============================================================================
