------------------------------ MODULE Monitoring ------------------------------
(***************************************************************************)
(* The http metrics of metricService.ts, as the middleware of every route  *)
(* keeps them (monitoringMiddleware.ts).  A request adds to the gauge as   *)
(* it arrives, and takes itself off in a listener on the 'finish' event of *)
(* its response, which node emits once the answer has been handed to the   *)
(* connection.  A connection that the client closes before that gives its  *)
(* response a 'close' and no 'finish'.                                     *)
(***************************************************************************)
EXTENDS Naturals, FiniteSets

CONSTANTS
    Request,
    Route     \* the method and the path of each request, the labels

Routes == {Route[r] : r \in Request}

VARIABLES
    at,             \* where a request is: "new", "handled", "abandoned" (its
                    \* client has gone, the handler runs on) or "over"
    inFlight,       \* http_requests_in_flight of each route
    total           \* http_requests_total, the sum of a route's statuses

vars == <<at, inFlight, total>>

Init ==
    /\ at = [r \in Request |-> "new"]
    /\ inFlight = [route \in Routes |-> 0]
    /\ total = [route \in Routes |-> 0]

-----------------------------------------------------------------------------
(* use(), up to the handler of the route.                                  *)
Use(r) ==
    /\ at[r] = "new"
    /\ at' = [at EXCEPT ![r] = "handled"]
    /\ inFlight' = [inFlight EXCEPT ![Route[r]] = @ + 1]
    /\ UNCHANGED total

(* The handler answers, and the listener on 'finish' runs.                 *)
Finish(r) ==
    /\ at[r] = "handled"
    /\ at' = [at EXCEPT ![r] = "over"]
    /\ inFlight' = [inFlight EXCEPT ![Route[r]] = @ - 1]
    /\ total' = [total EXCEPT ![Route[r]] = @ + 1]

(* The client closes the connection; nothing stops the handler, ...        *)
ClientLeaves(r) ==
    /\ at[r] = "handled"
    /\ at' = [at EXCEPT ![r] = "abandoned"]
    /\ UNCHANGED <<inFlight, total>>

(* ... whose answer nobody takes: no 'finish'.                             *)
HandlerEnds(r) ==
    /\ at[r] = "abandoned"
    /\ at' = [at EXCEPT ![r] = "over"]
    /\ UNCHANGED <<inFlight, total>>

Next == \E r \in Request : Use(r) \/ Finish(r) \/ ClientLeaves(r) \/ HandlerEnds(r)

Spec == Init /\ [][Next]_vars

-----------------------------------------------------------------------------
Processed(route) == {r \in Request : Route[r] = route /\ at[r] \in {"handled", "abandoned"}}

(* metricService.ts: http_requests_in_flight is the "Number of HTTP        *)
(* requests currently being processed", whatever their clients do.         *)
GaugeCountsProcessed ==
    \A route \in Routes : inFlight[route] = Cardinality(Processed(route))

=============================================================================
