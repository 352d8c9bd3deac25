------------------------------- MODULE HttpServer -------------------------------
(***************************************************************************)
(* The life of one Server of http/server.go: Start with its options, the   *)
(* goroutine that each Start leaves to listen, and Stop.  Starts and stops *)
(* alternate, as one owner of the server calls them; each Start is known   *)
(* by its number, and so are the http.Server and the handlers it makes.    *)
(*                                                                         *)
(* External: Shutdown closes the listener, and a server that was shut down *)
(* does not listen any more; one server at a time can have the address.    *)
(* Requests are not steps: HandledBy says whose handler one is given.      *)
(***************************************************************************)
EXTENDS ServerBounds

CONSTANTS Paths, Methods        (* Methods without OPTIONS                  *)

VARIABLES phase,        (* down, options (Start is called) or up            *)
          starts,       (* the calls of Start                               *)
          routes,       (* s.Routes: whose handler each path and method has *)
          mux,          (* the routes whose path is a pattern of s.Mux      *)
          panicked,     (* HandleFunc was given a pattern that s.Mux has    *)
          server,       (* s.S: the Start that made it, 0 for nil           *)
          shut,         (* the http.Servers that were shut down             *)
          serving,      (* the goroutine of each Start                      *)
          on,           (* the server it listens for                        *)
          pools,        (* s.WorkerPools: their number                      *)
          running,      (* those that run                                   *)
          asked,        (* history: the routes this Start was given         *)
          earlier       (* history: the paths known when it was called      *)

vars == <<phase, starts, routes, mux, panicked, server, shut, serving, on, pools, running, asked, earlier>>
routeVars == <<routes, mux, panicked, asked, earlier>>
serveVars == <<server, shut, serving, on>>
poolVars == <<pools, running>>

Starts == 1..MaxStarts

(* The keys of s.Routes, and the patterns of s.Mux.                        *)
Known == {p \in Paths : \E m \in Methods : routes[p][m] # 0}
Patterns == {r[1] : r \in mux}

TypeOK ==
    /\ phase \in {"down", "options", "up"}
    /\ starts \in 0..MaxStarts
    /\ routes \in [Paths -> [Methods -> 0..MaxStarts]]
    /\ mux \subseteq Paths \X Methods
    /\ Patterns \subseteq Known
    /\ panicked \in BOOLEAN
    /\ server \in 0..starts
    /\ shut \subseteq 1..starts
    /\ serving \in [Starts -> {"none", "starting", "listening", "ended"}]
    /\ on \in [Starts -> 0..starts]
    /\ pools \in 0..MaxOptions
    /\ running \subseteq 1..pools
    /\ asked \subseteq Paths \X Methods
    /\ earlier \subseteq Paths

Init ==
    /\ phase = "down"
    /\ starts = 0
    /\ routes = [p \in Paths |-> [m \in Methods |-> 0]]
    /\ mux = {}
    /\ panicked = FALSE
    /\ server = 0
    /\ shut = {}
    /\ serving = [k \in Starts |-> "none"]
    /\ on = [k \in Starts |-> 0]
    /\ pools = 0
    /\ running = {}
    /\ asked = {}
    /\ earlier = {}

(* Start makes a new Mux and goes on to its options.                       *)
Start ==
    /\ phase = "down"
    /\ starts < MaxStarts
    /\ phase' = "options"
    /\ starts' = starts + 1
    /\ mux' = {}
    /\ asked' = {}
    /\ earlier' = Known
    /\ UNCHANGED <<routes, panicked, serveVars, poolVars>>

HandlerAlways(p, m) ==          \* mutant: BuildHandler returns a handler each time
    /\ phase = "options"
    /\ routes' = [routes EXCEPT ![p][m] = starts]
    /\ mux' = mux \cup {<<p, m>>}
    /\ panicked' = (panicked \/ p \in Patterns)
    /\ asked' = asked \cup {<<p, m>>}
    /\ UNCHANGED <<phase, starts, earlier, serveVars, poolVars>>

HandlerFirst(p, m) ==           \* mutant: a known path keeps its handlers
    /\ phase = "options"
    /\ routes' = IF p \in Known THEN routes ELSE [routes EXCEPT ![p][m] = starts]
    /\ mux' = IF p \in Known THEN mux ELSE mux \cup {<<p, m>>}
    /\ panicked' = (panicked \/ (p \notin Known /\ p \in Patterns))
    /\ asked' = asked \cup {<<p, m>>}
    /\ UNCHANGED <<phase, starts, earlier, serveVars, poolVars>>

(* SetHandlerOption on one route: BuildHandler enters it in s.Routes, and  *)
(* if the path was not there returns a handler for s.Mux, a closure over   *)
(* this route.                                                             *)
HandlerOption(p, m) ==
    /\ phase = "options"
    /\ routes' = [routes EXCEPT ![p][m] = starts]
    /\ mux' = IF p \in Known THEN mux ELSE mux \cup {<<p, m>>}
    /\ panicked' = (panicked \/ (p \notin Known /\ p \in Patterns))
    /\ asked' = asked \cup {<<p, m>>}
    /\ UNCHANGED <<phase, starts, earlier, serveVars, poolVars>>

(* SetMiddlewareWorkerPoolOption starts a pool of its own, and so does     *)
(* SetupWorkerPoolHandler, for a route that is to be given to Start.       *)
PoolOption ==
    /\ phase \in {"down", "options"}
    /\ pools < MaxOptions
    /\ pools' = pools + 1
    /\ running' = running \cup {pools + 1}
    /\ UNCHANGED <<phase, starts, routeVars, serveVars>>

(* An option returns an error, and so does Start.                          *)
OptionFails ==
    /\ phase = "options"
    /\ phase' = "down"
    /\ UNCHANGED <<starts, routeVars, serveVars, poolVars>>

(* Start makes the http.Server and the goroutine that is to listen, and    *)
(* returns before it does.                                                 *)
Launch ==
    /\ phase = "options"
    /\ server' = starts
    /\ serving' = [serving EXCEPT ![starts] = "starting"]
    /\ phase' = "up"
    /\ UNCHANGED <<starts, routeVars, shut, on, poolVars>>

(* The goroutine of Start k calls ListenAndServe on what s.S is by now.    *)
Listen(k) ==
    /\ serving[k] = "starting"
    /\ server \notin shut
    /\ \A j \in Starts : serving[j] # "listening"
    /\ serving' = [serving EXCEPT ![k] = "listening"]
    /\ on' = [on EXCEPT ![k] = server]
    /\ UNCHANGED <<phase, starts, routeVars, server, shut, poolVars>>

(* ListenAndServe fails: the server was shut down, or the address cannot   *)
(* be bound.                                                               *)
ListenFails(k) ==
    /\ serving[k] = "starting"
    /\ serving' = [serving EXCEPT ![k] = "ended"]
    /\ UNCHANGED <<phase, starts, routeVars, server, shut, on, poolVars>>

(* The goroutine of Start k listens for the current http.Server.           *)
Serves(k) == serving[k] = "listening" /\ on[k] = server

StopClosesListener ==           \* mutant: the listener is closed, the server not shut down
    /\ phase \in {"up", "down"}
    /\ phase' = "down"
    /\ serving' = [k \in Starts |-> IF Serves(k) THEN "ended" ELSE serving[k]]
    /\ UNCHANGED <<starts, routeVars, server, shut, on, poolVars>>

(* Stop shuts the http.Server down if there is one, and returns; else it   *)
(* stops the pools.                                                        *)
Stop ==
    /\ phase \in {"up", "down"}
    /\ phase' = "down"
    /\ IF server # 0
       THEN /\ shut' = shut \cup {server}
            /\ serving' = [k \in Starts |-> IF Serves(k) THEN "ended" ELSE serving[k]]
            /\ UNCHANGED running
       ELSE /\ running' = {}
            /\ UNCHANGED <<shut, serving>>
    /\ UNCHANGED <<starts, routeVars, server, on, pools>>

Next == \/ Start \/ PoolOption \/ OptionFails \/ Launch \/ Stop
        \/ \E p \in Paths, m \in Methods : HandlerOption(p, m)
        \/ \E k \in Starts : Listen(k) \/ ListenFails(k)

Spec == Init /\ [][Next]_vars

(* The routes whose handler a request is given, one or none.  The closure  *)
(* looks up the method of the route it was made for, and never looks at    *)
(* the request's method m (other than OPTIONS).                            *)
HandledBy(p, m) == {r \in mux : r[1] = p /\ routes[p][r[2]] # 0}
-------------------------------------------------------------------------------
(* HandleFunc is not given a pattern twice, which would panic, although    *)
(* many routes may share a path (server.go:221-223).                       *)
NoDuplicatePattern == ~panicked

(* Once the server is down, no goroutine of any Start accepts connections: *)
(* also one that was late and took the server of a later Start             *)
(* (server.go:128, 138, 155).                                              *)
DownIsDeaf == phase = "down" => \A k \in Starts : serving[k] # "listening"

(* A server that is up has the handler of this Start for every route that  *)
(* SetHandlerOption was given.  Where the path was known to an earlier     *)
(* Start, BuildHandler gives the new Mux no handler and requests are not   *)
(* found; where it was not, a request for the route is given the handler   *)
(* of one of this Start's routes of the path (server.go:164-166, 198-249): *)
(* its own where they are one method, another's where MethodsServed fails. *)
RoutesServed ==
    phase = "up" =>
        \A r \in asked :
            /\ routes[r[1]][r[2]] = starts
            /\ IF r[1] \in earlier
               THEN HandledBy(r[1], r[2]) = {}
               ELSE \E q \in asked : q[1] = r[1] /\ HandledBy(r[1], r[2]) = {q}

(* A request for a route that this Start was given, on a path new to it,   *)
(* is given the handler of that route (crudl/handler_test.go:392-404).     *)
MethodsServed ==
    phase = "up" =>
        \A r \in asked : r[1] \notin earlier => HandledBy(r[1], r[2]) = {r}
===============================================================================
