---------------------------- MODULE MCRequestStream ----------------------------
(* Workloads of one connection: a single stream with room for every case   *)
(* of its path, or two small streams that compete for the permits, the     *)
(* buffer and the retry budget.                                            *)
EXTENDS RequestStream, TLC

CONSTANTS s1, s2, api, web

MCPolicy ==
    [ adaptive |-> TRUE, minLimit |-> 1, maxLimit |-> 2, increaseStep |-> 1,
      decreaseStep |-> 1, globalCap |-> 2, routeCap |-> [r \in Routes |-> 1],
      brownout |-> TRUE, trigger |-> 90, recover |-> 40, coreRoutes |-> {api},
      budget |-> TRUE, globalRatio |-> 50, routeRatio |-> [r \in Routes |-> 10] ]

Unused == [mode |-> "Unused"]
Upload(auth, body, reply) ==
    [mode |-> "StreamingBody", auth |-> auth, route |-> api, hedged |-> FALSE,
     body |-> body, reply |-> reply]
Fetch(route, hedged, reply) ==
    [mode |-> "Bodyless", auth |-> "none", route |-> route, hedged |-> hedged,
     body |-> 1, reply |-> reply]
Connect == [Upload("none", 2, 1) EXCEPT !.mode = "ConnectTunnel"]

Alone(r) == s1 :> r @@ s2 :> Unused
MCWorkloads ==
    { Alone(Upload("FailClosed", 3, 0)), Alone(Upload("FailOpen", 2, 0)),
      Alone(Connect), Alone(Fetch(web, FALSE, 2)),
      s1 :> Fetch(web, TRUE, 0) @@ s2 :> Fetch(web, FALSE, 0),
      s1 :> Upload("none", 1, 0) @@ s2 :> Upload("none", 1, 0) }
===============================================================================
