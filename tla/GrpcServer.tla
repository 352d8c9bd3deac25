------------------------------- MODULE GrpcServer -------------------------------
(***************************************************************************)
(* The life of one Server of grpc/server.go: Start with its options and    *)
(* services, the goroutine that each Start leaves to serve, and Stop.      *)
(* Starts and stops alternate, as one owner of the server calls them; each *)
(* Start is known by its number, and so are the grpc server and the        *)
(* listener it makes.                                                      *)
(*                                                                         *)
(* External: NewServer panics when it is given two unary interceptors.     *)
(* Stop of a grpc server closes the listeners it serves; Serve on a server *)
(* that was stopped closes the listener it is given, and on no listener it *)
(* panics.  An address has one open listener at a time.                    *)
(***************************************************************************)
EXTENDS ServerBounds

VARIABLES phase,        (* down, options, services or up                    *)
          starts,       (* the calls of Start                               *)
          unary,        (* the unary interceptors in s.ServerOptions        *)
          panicked,     (* the program has panicked                         *)
          server,       (* s.S: the Start that made it, 0 for nil           *)
          stopped,      (* the grpc servers that were stopped               *)
          conn,         (* s.Conn, likewise                                 *)
          open,         (* the listeners that are open                      *)
          goroutine,    (* where the goroutine of each Start is             *)
          taken,        (* the server it has read, and the listener         *)
          pools,        (* s.WorkerPools: their number                      *)
          running       (* those that run                                   *)

vars == <<phase, starts, unary, panicked, server, stopped, conn, open, goroutine, taken, pools, running>>
optionVars == <<unary, pools, running>>
serveVars == <<server, stopped, conn, open, goroutine, taken>>

Starts == 1..MaxStarts

Serving(k) == goroutine[k] = "serving"

TypeOK ==
    /\ phase \in {"down", "options", "services", "up"}
    /\ starts \in 0..MaxStarts
    /\ unary \in 0..MaxOptions
    /\ panicked \in BOOLEAN
    /\ server \in 0..starts
    /\ stopped \subseteq 1..starts
    /\ conn \in 0..starts
    /\ open \subseteq 1..starts
    /\ goroutine \in [Starts -> {"none", "starting", "read", "serving", "ended"}]
    /\ taken \in [Starts -> [server : 0..starts, conn : 0..starts]]
    /\ pools \in 0..unary
    /\ running \subseteq 1..pools
    /\ \A k \in Starts : Serving(k) => taken[k].server \notin stopped /\ taken[k].conn \in open

Init ==
    /\ phase = "down"
    /\ starts = 0
    /\ unary = 0
    /\ panicked = FALSE
    /\ server = 0
    /\ stopped = {}
    /\ conn = 0
    /\ open = {}
    /\ goroutine = [k \in Starts |-> "none"]
    /\ taken = [k \in Starts |-> [server |-> 0, conn |-> 0]]
    /\ pools = 0
    /\ running = {}

(* Start goes on to its options.                                           *)
Start ==
    /\ ~panicked
    /\ phase = "down"
    /\ starts < MaxStarts
    /\ phase' = "options"
    /\ starts' = starts + 1
    /\ UNCHANGED <<panicked, optionVars, serveVars>>

(* SetMiddlewareTracerOption, after SetTracerOption.                       *)
TracerOption ==
    /\ ~panicked
    /\ phase = "options"
    /\ unary < MaxOptions
    /\ unary' = unary + 1
    /\ UNCHANGED <<phase, starts, panicked, pools, running, serveVars>>

(* SetMiddlewarePoolWorkerOption starts a pool of its own.                 *)
PoolOption ==
    /\ ~panicked
    /\ phase = "options"
    /\ unary < MaxOptions
    /\ unary' = unary + 1
    /\ pools' = pools + 1
    /\ running' = running \cup {pools + 1}
    /\ UNCHANGED <<phase, starts, panicked, serveVars>>

(* An option returns an error, and so does Start.                          *)
OptionFails ==
    /\ ~panicked
    /\ phase = "options"
    /\ phase' = "down"
    /\ UNCHANGED <<starts, panicked, optionVars, serveVars>>

(* Start makes the grpc server of all options it has ever been given.      *)
NewServer ==
    /\ ~panicked
    /\ phase = "options"
    /\ panicked' = (unary > 1)
    /\ server' = IF unary > 1 THEN server ELSE starts
    /\ phase' = "services"
    /\ UNCHANGED <<starts, stopped, conn, open, goroutine, taken, optionVars>>

(* A service cannot be registered, and Start returns.                      *)
ServiceFails ==
    /\ ~panicked
    /\ phase = "services"
    /\ phase' = "down"
    /\ UNCHANGED <<starts, panicked, optionVars, serveVars>>

(* Start listens, makes the goroutine that is to serve, and waits for it   *)
(* to run, but not until it serves.                                        *)
Listen ==
    /\ ~panicked
    /\ phase = "services"
    /\ open = {}
    /\ conn' = starts
    /\ open' = {starts}
    /\ goroutine' = [goroutine EXCEPT ![starts] = "starting"]
    /\ phase' = "up"
    /\ UNCHANGED <<starts, panicked, server, stopped, taken, optionVars>>

(* The address cannot be listened at: s.Conn is nil, and Start returns.    *)
ListenFails ==
    /\ ~panicked
    /\ phase = "services"
    /\ conn' = 0
    /\ phase' = "down"
    /\ UNCHANGED <<starts, panicked, server, stopped, open, goroutine, taken, optionVars>>

(* The goroutine of Start k evaluates s.S and s.Conn, one after the other  *)
(* and without a lock.                                                     *)
ReadServer(k) ==
    /\ ~panicked
    /\ goroutine[k] = "starting"
    /\ goroutine' = [goroutine EXCEPT ![k] = "read"]
    /\ taken' = [taken EXCEPT ![k].server = server]
    /\ UNCHANGED <<phase, starts, panicked, server, stopped, conn, open, optionVars>>

Serve(k) ==
    LET serves == conn \in open /\ taken[k].server \notin stopped
    IN  /\ ~panicked
        /\ goroutine[k] = "read"
        /\ taken' = [taken EXCEPT ![k].conn = conn]
        /\ goroutine' = [j \in Starts |->
                           CASE j = k -> IF serves THEN "serving" ELSE "ended"
                             [] j # k -> IF Serving(j) /\ ~serves /\ taken[j].conn = conn
                                         THEN "ended" ELSE goroutine[j]]
        /\ open' = IF serves THEN open ELSE open \ {conn}
        /\ panicked' = (conn = 0)
        /\ UNCHANGED <<phase, starts, server, stopped, conn, optionVars>>

(* The listeners that stopping the server and closing s.Conn closes.       *)
ServedBy(s) == {taken[k].conn : k \in {j \in Starts : Serving(j) /\ taken[j].server = s}}

(* Goroutines stop to serve when their server or listener does.            *)
Stopped(servers, conns) ==
    /\ stopped' = stopped \cup servers
    /\ open' = open \ conns
    /\ goroutine' = [k \in Starts |->
                       IF Serving(k) /\ (taken[k].server \in servers \/ taken[k].conn \in conns)
                       THEN "ended" ELSE goroutine[k]]

StopServerOnly ==               \* mutant: s.Conn is left to the grpc server
    /\ ~panicked
    /\ phase \in {"up", "down"}
    /\ phase' = "down"
    /\ Stopped({server} \ {0}, ServedBy(server))
    /\ running' = IF conn # 0 THEN running ELSE {}
    /\ UNCHANGED <<starts, unary, panicked, server, conn, taken, pools>>

(* Stop stops the grpc server, closes s.Conn and returns; without s.Conn   *)
(* it stops the pools.                                                     *)
Stop ==
    /\ ~panicked
    /\ phase \in {"up", "down"}
    /\ phase' = "down"
    /\ Stopped({server} \ {0}, ServedBy(server) \cup {conn})
    /\ running' = IF conn # 0 THEN running ELSE {}
    /\ UNCHANGED <<starts, unary, panicked, server, conn, taken, pools>>

Next == \/ Start \/ TracerOption \/ PoolOption \/ OptionFails \/ NewServer
        \/ ServiceFails \/ Listen \/ ListenFails \/ Stop
        \/ \E k \in Starts : ReadServer(k) \/ Serve(k)

Spec == Init /\ [][Next]_vars
-------------------------------------------------------------------------------
(* Once the server is down nothing listens at its address any more,        *)
(* whichever goroutines are late and whatever they have read               *)
(* (server.go:100-105, 113-119).                                           *)
DownIsDeaf == phase = "down" /\ ~panicked => open = {}
===============================================================================
