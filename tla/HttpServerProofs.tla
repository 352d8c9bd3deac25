---------------------------- MODULE HttpServerProofs ----------------------------
(***************************************************************************)
(* What HttpServer keeps for any paths, methods and numbers of starts and  *)
(* pools: type correctness, no pattern given to the Mux twice, nobody who  *)
(* accepts connections while the server is down, and the routes a server   *)
(* that is up answers.                                                     *)
(***************************************************************************)
EXTENDS HttpServer, TLAPS

(* Who listens does so for s.S, which is not shut down; s.S is shut down   *)
(* whenever the server is not up, and the Start that goes through its      *)
(* options has not made its server yet.                                    *)
ServeInv ==
    /\ phase # "down" => starts # 0
    /\ phase = "options" => server < starts
    /\ phase # "up" => server = 0 \/ server \in shut
    /\ \A j \in shut : j <= server
    /\ \A k \in Starts : serving[k] # "none" => server # 0
    /\ \A k \in Starts : serving[k] = "listening" => on[k] = server /\ server \notin shut

ServerInv == TypeOK /\ ServeInv /\ NoDuplicatePattern

LEMMA InitServer == Init => ServerInv
<1> SUFFICES ASSUME Init PROVE ServerInv
  OBVIOUS
<1> USE ServerBoundsAssumption DEF ServerBoundsAssumption, Starts
<1>1. routes \in [Paths -> [Methods -> 0..MaxStarts]]
  BY SMT DEF Init
<1>2. /\ serving \in [Starts -> {"none", "starting", "listening", "ended"}]
      /\ on \in [Starts -> 0..starts]
  BY SMT DEF Init
<1>3. /\ starts \in 0..MaxStarts /\ pools \in 0..MaxOptions
      /\ server \in 0..starts /\ shut \subseteq 1..starts /\ running \subseteq 1..pools
  BY SMT DEF Init
<1> HIDE DEF ServerBoundsAssumption, Starts
<1>4. TypeOK
  BY <1>1, <1>2, <1>3 DEF Init, TypeOK, Starts, Patterns
<1>5. ServeInv
  BY SMT DEF Init, ServeInv
<1> QED
  BY <1>4, <1>5 DEF Init, ServerInv, NoDuplicatePattern

(* The steps that do not touch the routes keep the patterns of the Mux     *)
(* among the known paths.                                                  *)
LEMMA StepTyped ==
  ASSUME TypeOK, ServeInv, [Next]_vars
  PROVE  TypeOK'
<1> USE ServerBoundsAssumption DEF ServerBoundsAssumption, Starts
<1>0. UNCHANGED <<routes, mux>> => Known' = Known /\ Patterns' = Patterns
  BY DEF Known, Patterns
<1>1. CASE Start
  <2>1. Patterns' = {}
    BY <1>1 DEF Start, Patterns
  <2>2. Known \subseteq Paths
    BY DEF Known
  <2> QED
    BY <1>1, <2>1, <2>2, SMT DEF Start, TypeOK, serveVars, poolVars
<1>2. CASE PoolOption
  BY <1>0, <1>2, SMT DEF PoolOption, TypeOK, routeVars, serveVars
<1>3. CASE OptionFails
  BY <1>0, <1>3, SMT DEF OptionFails, TypeOK, routeVars, serveVars, poolVars
<1>4. CASE Launch
  <2> USE <1>4 DEF Launch
  <2>1. starts \in 1..MaxStarts
    BY SMT DEF TypeOK, ServeInv
  <2>2. server' \in 0..starts'
    BY <2>1, SMT
  <2>3. serving' \in [Starts -> {"none", "starting", "listening", "ended"}]
    BY <2>1, SMT DEF TypeOK
  <2> QED
    BY <1>0, <2>2, <2>3, SMT DEF TypeOK, routeVars, poolVars
<1>5. CASE Stop
  <2> USE <1>5 DEF Stop
  <2>1. shut' \subseteq 1..starts
    <3>1. CASE server = 0
      BY <3>1 DEF TypeOK
    <3>2. CASE server # 0
      <4>1. shut' = shut \cup {server}
        BY <3>2
      <4>2. server \in 1..starts
        <5> HIDE <1>5 DEF Stop
        <5> QED
          BY <3>2, SMT DEF TypeOK
      <4> QED
        BY <4>1, <4>2 DEF TypeOK
    <3> QED
      BY <3>1, <3>2
  <2>2. serving' \in [Starts -> {"none", "starting", "listening", "ended"}]
    <3>1. CASE server = 0
      BY <3>1 DEF TypeOK
    <3>2. CASE server # 0
      <4>1. serving' = [k \in Starts |-> IF Serves(k) THEN "ended" ELSE serving[k]]
        BY <3>2
      <4> QED
        BY <4>1 DEF TypeOK
    <3> QED
      BY <3>1, <3>2
  <2>3. running' \subseteq 1..pools
    BY DEF TypeOK
  <2> QED
    BY <1>0, <2>1, <2>2, <2>3 DEF TypeOK, routeVars
<1>6. ASSUME NEW p \in Paths, NEW m \in Methods, HandlerOption(p, m)
      PROVE  TypeOK'
  <2> USE <1>6 DEF HandlerOption, serveVars, poolVars
  <2>1. starts \in 1..MaxStarts
    BY SMT DEF TypeOK, ServeInv
  <2>2. routes' \in [Paths -> [Methods -> 0..MaxStarts]]
    BY <2>1, SMT DEF TypeOK
  <2>3. Known \subseteq Known' /\ p \in Known'
    BY <2>1, SMT DEF TypeOK, Known
  <2>4. mux' \subseteq Paths \X Methods /\ Patterns' \subseteq Known'
    <3>1. mux' \subseteq mux \cup {<<p, m>>}
      OBVIOUS
    <3>2. Patterns' \subseteq Patterns \cup {p}
      BY <3>1 DEF Patterns
    <3>3. Patterns \subseteq Known /\ mux \subseteq Paths \X Methods
      BY DEF TypeOK
    <3> QED
      BY <2>3, <3>1, <3>2, <3>3
  <2>5. panicked' \in BOOLEAN
    OBVIOUS
  <2> QED
    BY <2>2, <2>4, <2>5, SMT DEF TypeOK
<1>7. ASSUME NEW k \in Starts, Listen(k)
      PROVE  TypeOK'
  BY <1>0, <1>7, SMT DEF Listen, TypeOK, routeVars, poolVars
<1>8. ASSUME NEW k \in Starts, ListenFails(k)
      PROVE  TypeOK'
  BY <1>0, <1>8, SMT DEF ListenFails, TypeOK, routeVars, poolVars
<1>9. CASE UNCHANGED vars
  BY <1>0, <1>9, SMT DEF vars, TypeOK
<1> QED
  BY <1>1, <1>2, <1>3, <1>4, <1>5, <1>6, <1>7, <1>8, <1>9 DEF Next

LEMMA StepServes ==
  ASSUME TypeOK, ServeInv, [Next]_vars
  PROVE  ServeInv'
<1> USE ServerBoundsAssumption DEF ServerBoundsAssumption, Starts
<1>1. CASE Start
  BY <1>1, SMT DEF Start, TypeOK, ServeInv, serveVars
<1>2. CASE PoolOption
  BY <1>2, SMT DEF PoolOption, ServeInv, serveVars
<1>3. CASE OptionFails
  BY <1>3, SMT DEF OptionFails, ServeInv, serveVars
<1>4. CASE Launch
  <2> USE <1>4 DEF Launch
  <2>1. /\ starts \in Nat /\ starts # 0 /\ server \in Nat /\ server < starts
        /\ shut \subseteq Nat
    BY SMT DEF TypeOK, ServeInv
  <2>2. \A j \in shut' : j <= server'
    BY <2>1, SMT DEF TypeOK, ServeInv
  <2>3. \A k \in Starts : serving'[k] # "none" => server' # 0
    BY <2>1, SMT
  <2>4. ASSUME NEW k \in Starts, serving'[k] = "listening"
        PROVE  FALSE
    <3>1. serving[k] = "listening"
      BY <2>4, SMT DEF TypeOK
    <3> QED
      BY <2>1, <3>1, SMT DEF ServeInv
  <2> QED
    BY <2>1, <2>2, <2>3, <2>4, SMT DEF ServeInv
<1>5. CASE Stop
  <2> USE <1>5 DEF Stop
  <2>1. CASE server = 0
    <3>1. UNCHANGED <<shut, serving, starts, on, server>> /\ phase' = "down"
      BY <2>1
    <3>2. \A k \in Starts : serving'[k] # "listening"
      BY <2>1, <3>1 DEF TypeOK, ServeInv
    <3> QED
      BY <2>1, <3>1, <3>2 DEF ServeInv
  <2>2. CASE server # 0
    <3>1. server \in shut' /\ \A j \in shut' : j <= server
      <4>1. shut' = shut \cup {server}
        BY <2>2
      <4>2. \A j \in shut : j <= server
        BY DEF ServeInv
      <4>3. server <= server
        <5> HIDE <1>5 DEF Stop
        <5> QED
          BY SMT DEF TypeOK
      <4> QED
        BY <4>1, <4>2, <4>3
    <3>2. ASSUME NEW k \in Starts
          PROVE  serving'[k] # "listening"
      <4>1. serving' = [j \in Starts |-> IF Serves(j) THEN "ended" ELSE serving[j]]
        BY <2>2
      <4>2. serving[k] = "listening" => Serves(k)
        BY DEF ServeInv, Serves
      <4> QED
        BY <4>1, <4>2
    <3>3. \A k \in Starts : serving'[k] # "none" => server # 0
      BY <2>2
    <3> QED
      BY <3>1, <3>2, <3>3 DEF ServeInv
  <2> QED
    BY <2>1, <2>2
<1>6. ASSUME NEW p \in Paths, NEW m \in Methods, HandlerOption(p, m)
      PROVE  ServeInv'
  BY <1>6, SMT DEF HandlerOption, ServeInv, serveVars
<1>7. ASSUME NEW k \in Starts, Listen(k)
      PROVE  ServeInv'
  BY <1>7, SMT DEF Listen, TypeOK, ServeInv
<1>8. ASSUME NEW k \in Starts, ListenFails(k)
      PROVE  ServeInv'
  BY <1>8, SMT DEF ListenFails, TypeOK, ServeInv
<1>9. CASE UNCHANGED vars
  BY <1>9, SMT DEF vars, ServeInv
<1> QED
  BY <1>1, <1>2, <1>3, <1>4, <1>5, <1>6, <1>7, <1>8, <1>9 DEF Next

(* Only SetHandlerOption touches the flag, and it hands a path to the Mux  *)
(* only if s.Routes does not know it, so that the Mux cannot either.       *)
LEMMA StepPatterns ==
  ASSUME TypeOK, NoDuplicatePattern, [Next]_vars
  PROVE  NoDuplicatePattern'
<1>1. ASSUME NEW p \in Paths, NEW m \in Methods, HandlerOption(p, m)
      PROVE  NoDuplicatePattern'
  BY <1>1 DEF HandlerOption, TypeOK, NoDuplicatePattern
<1>2. CASE UNCHANGED panicked
  BY <1>2 DEF NoDuplicatePattern
<1>3. ASSUME Next PROVE (\E p \in Paths, m \in Methods : HandlerOption(p, m)) \/ UNCHANGED panicked
  BY <1>3, Zenon DEF Next, Start, PoolOption, OptionFails, Launch, Stop, Listen, ListenFails, routeVars
<1> QED
  BY <1>1, <1>2, <1>3 DEF vars

LEMMA StepServer == ServerInv /\ [Next]_vars => ServerInv'
  BY StepTyped, StepServes, StepPatterns DEF ServerInv

LEMMA ServerInvariant == Spec => []ServerInv
  BY InitServer, StepServer, PTL DEF Spec

(* The types of the server's fields, and that the patterns of the Mux are  *)
(* known paths, for every Start (server.go:50-61).                         *)
THEOREM ServerTypeCorrect == Spec => []TypeOK
<1>1. ServerInv => TypeOK
  BY DEF ServerInv
<1> QED
  BY <1>1, ServerInvariant, PTL

(* However many routes share a path, and in whatever Start, HandleFunc is  *)
(* not given a pattern its Mux has (server.go:221-223).                    *)
THEOREM PatternsAreGivenOnce == Spec => []NoDuplicatePattern
<1>1. ServerInv => NoDuplicatePattern
  BY DEF ServerInv
<1> QED
  BY <1>1, ServerInvariant, PTL

(* While the server is down no goroutine of any Start listens, however     *)
(* late it was (server.go:128, 138, 155).                                  *)
THEOREM DownServersAreDeaf == Spec => []DownIsDeaf
<1>1. ServerInv => DownIsDeaf
  BY SMT DEF ServerInv, ServeInv, DownIsDeaf
<1> QED
  BY <1>1, ServerInvariant, PTL

-------------------------------------------------------------------------------
(* While Start goes through its options and until Stop: what was asked for *)
(* is entered for this Start; a path is in its Mux exactly if it is known  *)
(* and was not known when Start was called; and then it is there once, for *)
(* a route that was asked for.                                             *)
RouteInv ==
    phase # "down" =>
        /\ \A r \in asked : routes[r[1]][r[2]] = starts
        /\ earlier \subseteq Known
        /\ Patterns = Known \ earlier
        /\ mux \subseteq asked
        /\ \A q, r \in mux : q[1] = r[1] => q = r

LEMMA StepRoutes ==
  ASSUME TypeOK, ServeInv, RouteInv, [Next]_vars
  PROVE  RouteInv'
<1>1. CASE Start
  BY <1>1 DEF Start, RouteInv, Known, Patterns
<1>2. ASSUME NEW p \in Paths, NEW m \in Methods, HandlerOption(p, m)
      PROVE  RouteInv'
  <2>1. starts # 0 /\ phase = "options"
    BY <1>2 DEF HandlerOption, ServeInv
  <2>2. /\ \A r \in asked : routes[r[1]][r[2]] = starts
        /\ earlier \subseteq Known
        /\ Patterns = Known \ earlier
        /\ mux \subseteq asked
        /\ \A q, r \in mux : q[1] = r[1] => q = r
    BY <2>1 DEF RouteInv
  <2>3. ASSUME NEW r \in asked'
        PROVE  routes'[r[1]][r[2]] = starts'
    <3>1. r[1] \in Paths /\ r[2] \in Methods /\ (r \in asked \/ (r[1] = p /\ r[2] = m))
      BY <1>2, <2>3 DEF HandlerOption, TypeOK
    <3>2. routes \in [Paths -> [Methods -> 0..MaxStarts]]
      BY DEF TypeOK
    <3>3. routes'[r[1]][r[2]] = IF r[1] = p /\ r[2] = m THEN starts ELSE routes[r[1]][r[2]]
      BY <1>2, <3>1, <3>2 DEF HandlerOption
    <3> QED
      BY <1>2, <2>2, <3>1, <3>3 DEF HandlerOption
  <2>4. Known' = Known \cup {p}
    BY <1>2, <2>1 DEF HandlerOption, Known, TypeOK
  <2>5. /\ mux' = IF p \in Known THEN mux ELSE mux \cup {<<p, m>>}
        /\ asked' = asked \cup {<<p, m>>} /\ earlier' = earlier
    BY <1>2 DEF HandlerOption
  <2>6. Patterns' = Patterns \cup ({p} \ Known)
    <3>1. CASE p \in Known
      BY <2>5, <3>1 DEF Patterns
    <3>2. CASE p \notin Known
      <4>1. mux' = mux \cup {<<p, m>>}
        BY <2>5, <3>2
      <4>2. Patterns' = {r[1] : r \in mux \cup {<<p, m>>}}
        BY <4>1 DEF Patterns
      <4>3. {r[1] : r \in mux \cup {<<p, m>>}} = {r[1] : r \in mux} \cup {<<p, m>>[1]}
        BY Zenon
      <4> QED
        BY <3>2, <4>2, <4>3, SMT DEF Patterns
    <3> QED
      BY <3>1, <3>2
  <2>7. \A q \in mux : q[1] \in Known
    BY DEF TypeOK, Patterns
  <2>8. \A q, r \in mux' : q[1] = r[1] => q = r
    BY <2>2, <2>5, <2>7
  <2> QED
    BY <2>2, <2>3, <2>4, <2>5, <2>6, <2>8 DEF RouteInv
<1>3. CASE phase' = "down"
  BY <1>3 DEF RouteInv
<1>4. ASSUME phase # "down", UNCHANGED <<routes, mux, asked, earlier, starts>>
      PROVE  RouteInv'
  BY <1>4 DEF RouteInv, Known, Patterns
<1>5. ASSUME Next
      PROVE  \/ Start \/ (\E p \in Paths, m \in Methods : HandlerOption(p, m))
             \/ phase' = "down" \/ (phase # "down" /\ UNCHANGED <<routes, mux, asked, earlier, starts>>)
             \/ UNCHANGED <<phase, routes, mux, asked, earlier, starts>>
  BY <1>5, Zenon DEF Next, PoolOption, OptionFails, Launch, Stop, Listen, ListenFails, routeVars
<1>6. ASSUME UNCHANGED <<phase, routes, mux, asked, earlier, starts>>
      PROVE  RouteInv'
  BY <1>6 DEF RouteInv, Known, Patterns
<1> QED
  BY <1>1, <1>2, <1>3, <1>4, <1>5, <1>6 DEF vars

(* For any paths and any number of Starts: a server that is up has this    *)
(* Start's handler for each route it was given, and requests for it are    *)
(* given the handler of one of this Start's routes of its path, exactly if *)
(* the path was new to it (server.go:164-166, 198-249).                    *)
THEOREM AskedPathsAreServed == Spec => []RoutesServed
<1>1. Init => RouteInv
  BY DEF Init, RouteInv
<1>2. ServerInv /\ RouteInv /\ [Next]_vars => RouteInv'
  BY StepRoutes DEF ServerInv
<1>3. ASSUME ServerInv, RouteInv
      PROVE  RoutesServed
  <2> SUFFICES ASSUME phase = "up", NEW r \in asked
               PROVE  /\ routes[r[1]][r[2]] = starts
                      /\ IF r[1] \in earlier
                         THEN HandledBy(r[1], r[2]) = {}
                         ELSE \E q \in asked : q[1] = r[1] /\ HandledBy(r[1], r[2]) = {q}
    BY DEF RoutesServed
  <2>1. r[1] \in Paths /\ r[2] \in Methods /\ starts # 0
    BY <1>3 DEF ServerInv, TypeOK, ServeInv
  <2>2. /\ \A q \in asked : routes[q[1]][q[2]] = starts
        /\ Patterns = Known \ earlier
        /\ mux \subseteq asked
        /\ \A q, t \in mux : q[1] = t[1] => q = t
    BY <1>3 DEF RouteInv
  <2>3. r[1] \in Known
    BY <2>1, <2>2 DEF Known
  <2>4. CASE r[1] \in earlier
    BY <2>2, <2>4 DEF HandledBy, Patterns
  <2>5. CASE r[1] \notin earlier
    <3>1. PICK q \in mux : q[1] = r[1]
      BY <2>2, <2>3, <2>5 DEF Patterns
    <3>2. q \in asked /\ routes[q[1]][q[2]] # 0
      BY <2>1, <2>2, <3>1
    <3>3. HandledBy(r[1], r[2]) = {q}
      BY <2>2, <3>1, <3>2 DEF HandledBy
    <3> QED
      BY <2>2, <2>5, <3>1, <3>2, <3>3
  <2> QED
    BY <2>2, <2>4, <2>5
<1> QED
  BY <1>1, <1>2, <1>3, ServerInvariant, PTL DEF Spec
================================================================================
