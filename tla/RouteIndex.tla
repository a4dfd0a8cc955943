------------------------------ MODULE RouteIndex ------------------------------
(***************************************************************************)
(* Route lookup of the edge crate (crates/edge/src/routing): the index of  *)
(* tries a generation builds from its routes, the walk that finds a        *)
(* request's upstream in it, and, as the reference, what the documented    *)
(* precedence says of the same routes.                                     *)
(*                                                                         *)
(* A path is the sequence of its characters, a host the sequence of its    *)
(* labels.  A route is [order, path, host, method], its host pattern       *)
(* [kind |-> "none" | "exact" | "wildcard", labels], order its place among *)
(* the sorted upstream names.                                              *)
(***************************************************************************)
EXTENDS Integers, Sequences, SequencesExt

NoRoute == [order |-> 0]
AnyMethod == "none"

HostSpecific(r) == r.host.kind # "none"
MethodSpecific(r) == r.method # AnyMethod
PathLen(r) == Len(r.path)

(* from_ordered_routes: one trie per exact host, per wildcard suffix, and  *)
(* one for routes without a host; a trie is kept as its routes in order.   *)
TrieOf(routes, kind, labels) ==
    SelectSeq(routes, LAMBDA r : r.host.kind = kind /\ r.host.labels = labels)
DefaultTrie(routes) == TrieOf(routes, "none", <<>>)
(* Mutant: the longest default path is never recorded. *)
DefaultMaxPathLenUnset(routes) == 0
DefaultMaxPathLen(routes) ==
    FoldLeft(LAMBDA longest, r : IF PathLen(r) > longest THEN PathLen(r) ELSE longest,
             0, DefaultTrie(routes))

(* prefix_boundary_matches: a prefix ends where the path or a segment does. *)
BoundaryMatches(path, len) ==
    len <= 1 \/ Len(path) = len \/ (Len(path) > len /\ path[len + 1] = "/")

MethodMatches(r, method) == ~MethodSpecific(r) \/ r.method = method

(* compare_route: within one trie, does the candidate replace the current? *)
TakesOver(current, candidate) ==
    \/ PathLen(candidate) > PathLen(current)
    \/ /\ PathLen(candidate) = PathLen(current)
       /\ \/ HostSpecific(candidate) /\ ~HostSpecific(current)
          \/ /\ HostSpecific(candidate) = HostSpecific(current)
             /\ \/ MethodSpecific(candidate) /\ ~MethodSpecific(current)
                \/ /\ MethodSpecific(candidate) = MethodSpecific(current)
                   /\ candidate.order < current.order

(* best_matching_route: the routes stored at one node, tried in order. *)
BestAtNode(node, path, method, best) ==
    FoldLeft(LAMBDA current, r :
                IF ~BoundaryMatches(path, PathLen(r)) \/ ~MethodMatches(r, method) THEN current
                ELSE IF current = NoRoute \/ TakesOver(current, r) THEN r ELSE current,
             best, node)

(* longest_prefix: from the root along the characters of the path. *)
LongestPrefix(trie, path, method) ==
    FoldLeft(LAMBDA best, depth :
                BestAtNode(SelectSeq(trie, LAMBDA r : r.path = SubSeq(path, 1, depth)),
                           path, method, best),
             NoRoute, [i \in 1..(Len(path) + 1) |-> i - 1])

(* Candidates also carry how the host matched: default, wildcard, exact.   *)
Rank(r) == CASE r.host.kind = "exact" -> 2
             [] r.host.kind = "wildcard" -> 1
             [] OTHER -> 0
SuffixLen(r) == IF r.host.kind = "wildcard" THEN Len(r.host.labels) ELSE 0

(* compare_route_candidate, over candidates of different tries. *)
CandidateTakesOver(current, candidate) ==
    LET sameSuffix == Rank(candidate) # 1 \/ Rank(current) # 1
                      \/ SuffixLen(candidate) = SuffixLen(current)
    IN  \/ PathLen(candidate) > PathLen(current)
        \/ /\ PathLen(candidate) = PathLen(current)
           /\ \/ Rank(candidate) > Rank(current)
              \/ Rank(candidate) = 1 /\ Rank(current) = 1
                 /\ SuffixLen(candidate) > SuffixLen(current)
              \/ /\ Rank(candidate) = Rank(current) /\ sameSuffix
                 /\ \/ MethodSpecific(candidate) /\ ~MethodSpecific(current)
                    \/ /\ MethodSpecific(candidate) = MethodSpecific(current)
                       /\ candidate.order < current.order

(* prefer_route_candidate, prefer_host_lookup_result. *)
Prefer(current, candidate) ==
    IF candidate = NoRoute THEN current
    ELSE IF current = NoRoute \/ CandidateTakesOver(current, candidate) THEN candidate
    ELSE current

(* lookup_host_candidate: every suffix after a dot, then the host itself. *)
HostCandidate(routes, path, host, method) ==
    LET suffixes == [i \in 1..(Len(host) - 1) |-> SubSeq(host, i + 1, Len(host))]
        wildcard == FoldLeft(LAMBDA best, suffix :
                                Prefer(best, LongestPrefix(TrieOf(routes, "wildcard", suffix), path, method)),
                             NoRoute, suffixes)
    IN  Prefer(wildcard, LongestPrefix(TrieOf(routes, "exact", host), path, method))

(* lookup_for_method: a host route at least as long as every default one   *)
(* is taken without looking at the default trie.  <<>> is a request        *)
(* without a usable host.                                                  *)
Lookup(routes, path, host, method) ==
    LET byHost == IF host = <<>> THEN NoRoute ELSE HostCandidate(routes, path, host, method)
    IN  IF byHost # NoRoute /\ PathLen(byHost) >= DefaultMaxPathLen(routes) THEN byHost
        ELSE Prefer(LongestPrefix(DefaultTrie(routes), path, method), byHost)

(* lookup_with_decision_for_method walks both sides in any case; the label *)
(* it gives to the deciding tie-break is left out.                         *)
LookupDecision(routes, path, host, method) ==
    LET byHost == IF host = <<>> THEN NoRoute ELSE HostCandidate(routes, path, host, method)
        default == LongestPrefix(DefaultTrie(routes), path, method)
    IN  CASE byHost # NoRoute /\ PathLen(byHost) >= DefaultMaxPathLen(routes) -> byHost
          [] byHost = NoRoute -> default
          [] default = NoRoute -> byHost
          [] OTHER -> IF CandidateTakesOver(default, byHost) THEN byHost ELSE default

-----------------------------------------------------------------------------
(* The reference: every route that applies, and the precedence over them.  *)

HostApplies(pattern, host) ==
    CASE pattern.kind = "none" -> TRUE
      [] pattern.kind = "exact" -> host = pattern.labels
      [] OTHER -> Len(host) > Len(pattern.labels)
                  /\ SubSeq(host, Len(host) - Len(pattern.labels) + 1, Len(host)) = pattern.labels

Applies(r, path, host, method) ==
    /\ HostApplies(r.host, host)
    /\ PathLen(r) <= Len(path) /\ SubSeq(path, 1, PathLen(r)) = r.path
    /\ BoundaryMatches(path, PathLen(r))
    /\ MethodMatches(r, method)

(* Longer path, then more specific host, then a method, then the name.     *)
Precedence(r) == <<PathLen(r), Rank(r), SuffixLen(r), IF MethodSpecific(r) THEN 1 ELSE 0, -r.order>>
Above(p, q) == \E i \in DOMAIN p : p[i] > q[i] /\ \A j \in 1..(i - 1) : p[j] = q[j]

BestRoute(routes, path, host, method) ==
    LET fits == {i \in DOMAIN routes : Applies(routes[i], path, host, method)}
    IN  IF fits = {} THEN NoRoute
        ELSE routes[CHOOSE i \in fits :
                       \A j \in fits \ {i} : Above(Precedence(routes[i]), Precedence(routes[j]))]
=============================================================================
