-------------------------- MODULE HttpRoutingTable --------------------------
(***************************************************************************)
(* HttpRoutingTable (root/http/routing.bs): the callbacks of a server.  A  *)
(* route matches a path of as many segments, each equal or a wildcard; the *)
(* first one that matches answers, and the default callback otherwise.     *)
(***************************************************************************)
EXTENDS Integers, Sequences, FiniteSetsExt

CONSTANTS
    Url,            \* the routes, sequences of segments
    Path,           \* the paths of requests, the same
    Wildcard,       \* the segment "*"
    Callback,       \* the functions a program registers
    NoCallback,     \* no default callback, or no answer
    MaxRoutes       \* bound: routes added

ASSUME RoutingAssumption ==
    /\ \A url \in Url \cup Path : Len(url) \in Nat
    /\ NoCallback \notin Callback
    /\ MaxRoutes \in Nat

VARIABLES
    rTable,         \* the route_callback_pairs, in the order they were added
    defautCallback  \* the default callback

routingVars == <<rTable, defautCallback>>

RoutingTypeOK ==
    /\ rTable \in Seq([route : Url, callback : Callback])
    /\ defautCallback \in Callback \cup {NoCallback}

RoutingInit ==
    /\ rTable = <<>>
    /\ defautCallback = NoCallback

----------------------------------------------------------------------------
\* The inner loop of getRouteResponse.
Matches(route, path) ==
    /\ Len(route) = Len(path)
    /\ \A i \in DOMAIN route : route[i] = Wildcard \/ path[i] = route[i]

\* Mutant of GetRouteResponse: a later route takes precedence.
GetRouteResponseLast(path) ==
    LET hits == {i \in DOMAIN rTable : Matches(rTable[i].route, path)}
    IN  IF hits # {} THEN rTable[Max(hits)].callback ELSE defautCallback

\* The callback that answers; NoCallback where the code throws.
GetRouteResponse(path) ==
    LET hits == {i \in DOMAIN rTable : Matches(rTable[i].route, path)}
    IN  IF hits # {} THEN rTable[Min(hits)].callback ELSE defautCallback

AddDefaultCallback(func) ==
    /\ defautCallback' = func
    /\ UNCHANGED rTable

AddCallbackUrl(url, func) ==
    /\ Len(rTable) < MaxRoutes
    /\ rTable' = Append(rTable, [route |-> url, callback |-> func])
    /\ UNCHANGED defautCallback

----------------------------------------------------------------------------
Routed(path) == \E i \in DOMAIN rTable : Matches(rTable[i].route, path)

(* Adding a route, or a default callback, while the server runs changes    *)
(* the answer to no path that a route answers already: getRouteResponse    *)
(* tries the routes in the order they were added.                          *)
RoutesStable ==
    [][\A path \in Path :
          Routed(path) => GetRouteResponse(path)' = GetRouteResponse(path)]_routingVars
=============================================================================
