---------------------------- MODULE GrpcServerProofs ----------------------------
(***************************************************************************)
(* What GrpcServer keeps for any numbers of starts and options: type       *)
(* correctness, and that nothing listens while the server is down.  At the *)
(* end: the runs of both servers that TLC checks are runs of each.         *)
(***************************************************************************)
EXTENDS MCServers, TLAPS

(* The one listener there may be is s.Conn, so that a Stop that closes     *)
(* s.Conn leaves none; and it is made only by the last step of Start.      *)
ListenerInv ==
    /\ gPhase # "down" => gStarts # 0
    /\ gOpen \subseteq {gConn}
    /\ gPhase # "up" /\ ~gPanicked => gOpen = {}

ServerInv == Grpc!TypeOK /\ ListenerInv

LEMMA InitServer == Grpc!Init => ServerInv
<1> SUFFICES ASSUME Grpc!Init PROVE ServerInv
  OBVIOUS
<1> USE ServerBoundsAssumption DEF ServerBoundsAssumption, Grpc!Starts
<1>1. Grpc!TypeOK
  <2>1. gGoroutine \in [Grpc!Starts -> {"none", "starting", "read", "serving", "ended"}]
    BY SMT DEF Grpc!Init
  <2>2. gTaken \in [Grpc!Starts -> [server : 0..gStarts, conn : 0..gStarts]]
    BY SMT DEF Grpc!Init
  <2>3. \A k \in Grpc!Starts : ~Grpc!Serving(k)
    BY SMT DEF Grpc!Init, Grpc!Serving
  <2>4. /\ gStarts \in 0..MaxStarts /\ gUnary \in 0..MaxOptions
        /\ gServer \in 0..gStarts /\ gConn \in 0..gStarts /\ gPools \in 0..gUnary
    BY SMT DEF Grpc!Init
  <2> HIDE DEF ServerBoundsAssumption, Grpc!Starts
  <2> QED
    BY <2>1, <2>2, <2>3, <2>4 DEF Grpc!Init, Grpc!TypeOK
<1>2. ListenerInv
  BY SMT DEF Grpc!Init, ListenerInv
<1> QED
  BY <1>1, <1>2 DEF ServerInv

LEMMA StepTyped ==
  ASSUME ServerInv, [Grpc!Next]_(Grpc!vars)
  PROVE  Grpc!TypeOK'
<1> USE ServerBoundsAssumption DEF ServerBoundsAssumption, Grpc!Starts, ServerInv, Grpc!Serving
<1>1. CASE Grpc!Start
  BY <1>1, SMT DEF Grpc!Start, Grpc!TypeOK, Grpc!optionVars, Grpc!serveVars
<1>2. CASE Grpc!TracerOption
  BY <1>2, SMT DEF Grpc!TracerOption, Grpc!TypeOK, Grpc!serveVars
<1>3. CASE Grpc!PoolOption
  BY <1>3, SMT DEF Grpc!PoolOption, Grpc!TypeOK, Grpc!serveVars
<1>4. CASE Grpc!OptionFails
  BY <1>4, SMT DEF Grpc!OptionFails, Grpc!TypeOK, Grpc!optionVars, Grpc!serveVars
<1>5. CASE Grpc!NewServer
  BY <1>5, SMT DEF Grpc!NewServer, Grpc!TypeOK, Grpc!optionVars
<1>6. CASE Grpc!ServiceFails
  BY <1>6, SMT DEF Grpc!ServiceFails, Grpc!TypeOK, Grpc!optionVars, Grpc!serveVars
<1>7. CASE Grpc!Listen
  <2>1. gStarts \in 1..MaxStarts
    BY <1>7, SMT DEF Grpc!Listen, Grpc!TypeOK, ListenerInv
  <2> QED
    BY <1>7, <2>1, SMT DEF Grpc!Listen, Grpc!TypeOK, Grpc!optionVars
<1>8. CASE Grpc!ListenFails
  BY <1>8, SMT DEF Grpc!ListenFails, Grpc!TypeOK, Grpc!optionVars
<1>9. CASE Grpc!Stop
  <2> USE <1>9 DEF Grpc!Stop, Grpc!Stopped
  <2>1. /\ gStopped' \subseteq 1..gStarts'
        /\ gOpen' \subseteq gOpen
        /\ gRunning' \subseteq 1..gPools'
    BY SMTT(30) DEF Grpc!TypeOK
  <2>2. gGoroutine' \in [Grpc!Starts -> {"none", "starting", "read", "serving", "ended"}]
    BY SMT DEF Grpc!TypeOK
  <2>3. ASSUME NEW j \in Grpc!Starts, Grpc!Serving(j)'
        PROVE  gTaken'[j].server \notin gStopped' /\ gTaken'[j].conn \in gOpen'
    <3>1. /\ Grpc!Serving(j)
          /\ gTaken[j].server \notin {gServer} \ {0}
          /\ gTaken[j].conn \notin Grpc!ServedBy(gServer) \cup {gConn}
      BY <2>3, SMT DEF Grpc!TypeOK
    <3> QED
      BY <3>1, SMT DEF Grpc!TypeOK
  <2>4. /\ gPhase' = "down" /\ gRunning' \subseteq 1..gPools
        /\ UNCHANGED <<gStarts, gUnary, gPanicked, gServer, gConn, gTaken, gPools>>
    BY <2>1
  <2> HIDE DEF Grpc!Stop, Grpc!Stopped
  <2> QED
    BY <2>1, <2>2, <2>3, <2>4, SMT DEF Grpc!TypeOK
<1>10. ASSUME NEW k \in Grpc!Starts, Grpc!ReadServer(k)
       PROVE  Grpc!TypeOK'
  BY <1>10, SMT DEF Grpc!ReadServer, Grpc!TypeOK, Grpc!optionVars
<1>11. ASSUME NEW k \in Grpc!Starts, Grpc!Serve(k)
       PROVE  Grpc!TypeOK'
  <2> USE <1>11 DEF Grpc!Serve
  <2>1. gTaken' \in [Grpc!Starts -> [server : 0..gStarts', conn : 0..gStarts']]
    BY SMT DEF Grpc!TypeOK, Grpc!optionVars
  <2>2. gGoroutine' \in [Grpc!Starts -> {"none", "starting", "read", "serving", "ended"}]
    BY SMT DEF Grpc!TypeOK
  <2>3. ASSUME NEW j \in Grpc!Starts, Grpc!Serving(j)'
        PROVE  gTaken'[j].server \notin gStopped' /\ gTaken'[j].conn \in gOpen'
    <3>1. CASE j = k
      BY <2>3, <3>1, SMT DEF Grpc!TypeOK, Grpc!optionVars
    <3>2. CASE j # k
      BY <2>3, <3>2, SMT DEF Grpc!TypeOK, Grpc!optionVars
    <3> QED
      BY <3>1, <3>2
  <2> QED
    BY <2>1, <2>2, <2>3, SMT DEF Grpc!TypeOK, Grpc!optionVars
<1>12. CASE UNCHANGED Grpc!vars
  BY <1>12, SMT DEF Grpc!vars, Grpc!TypeOK
<1> QED
  BY <1>1, <1>2, <1>3, <1>4, <1>5, <1>6, <1>7, <1>8, <1>9, <1>10, <1>11, <1>12 DEF Grpc!Next

LEMMA StepListens ==
  ASSUME ServerInv, [Grpc!Next]_(Grpc!vars)
  PROVE  ListenerInv'
<1> USE DEF ServerInv, Grpc!TypeOK, ListenerInv
<1>1. CASE Grpc!Start
  BY <1>1, SMT DEF Grpc!Start, Grpc!serveVars
<1>2. CASE Grpc!TracerOption
  BY <1>2, SMT DEF Grpc!TracerOption, Grpc!serveVars
<1>3. CASE Grpc!PoolOption
  BY <1>3, SMT DEF Grpc!PoolOption, Grpc!serveVars
<1>4. CASE Grpc!OptionFails
  BY <1>4, SMT DEF Grpc!OptionFails, Grpc!serveVars
<1>5. CASE Grpc!NewServer
  BY <1>5, SMT DEF Grpc!NewServer
<1>6. CASE Grpc!ServiceFails
  BY <1>6, SMT DEF Grpc!ServiceFails, Grpc!serveVars
<1>7. CASE Grpc!Listen
  BY <1>7, SMT DEF Grpc!Listen, Grpc!optionVars
<1>8. CASE Grpc!ListenFails
  BY <1>8, SMT DEF Grpc!ListenFails
<1>9. CASE Grpc!Stop
  <2> HIDE DEF ServerInv, Grpc!TypeOK, ListenerInv
  <2>1. gOpen \subseteq {gConn}
    BY DEF ServerInv, ListenerInv
  <2>2. /\ gOpen' = gOpen \ (Grpc!ServedBy(gServer) \cup {gConn})
        /\ gPhase' = "down" /\ gConn' = gConn
    BY <1>9, Zenon DEF Grpc!Stop, Grpc!Stopped
  <2> QED
    BY <2>1, <2>2 DEF ListenerInv
<1>10. ASSUME NEW k \in Grpc!Starts, Grpc!ReadServer(k)
       PROVE  ListenerInv'
  BY <1>10, SMT DEF Grpc!ReadServer
<1>11. ASSUME NEW k \in Grpc!Starts, Grpc!Serve(k)
       PROVE  ListenerInv'
  BY <1>11, SMT DEF Grpc!Serve
<1>12. CASE UNCHANGED Grpc!vars
  BY <1>12, SMT DEF Grpc!vars
<1> QED
  BY <1>1, <1>2, <1>3, <1>4, <1>5, <1>6, <1>7, <1>8, <1>9, <1>10, <1>11, <1>12 DEF Grpc!Next

(* The invariant is inductive, and so it always holds.                     *)
LEMMA ServerInvariant == Grpc!Spec => []ServerInv
<1>1. ServerInv /\ [Grpc!Next]_(Grpc!vars) => ServerInv'
  BY StepTyped, StepListens DEF ServerInv
<1> QED
  BY InitServer, <1>1, PTL DEF Grpc!Spec

(* The variables of GrpcServer keep their types, and a goroutine that      *)
(* serves does so on a server and a listener that are not stopped          *)
(* (server.go:72-125).                                                     *)
THEOREM GrpcTypeCorrect == Grpc!Spec => []Grpc!TypeOK
<1>1. ServerInv => Grpc!TypeOK
  BY DEF ServerInv
<1> QED
  BY ServerInvariant, <1>1, PTL

(* However many starts and stops and late goroutines there are, a server   *)
(* that is down has no listener open (server.go:72-125).                   *)
THEOREM DownGrpcIsDeaf == Grpc!Spec => []GrpcDownIsDeaf
<1>1. ServerInv => GrpcDownIsDeaf
  BY DEF ServerInv, ListenerInv, GrpcDownIsDeaf, Grpc!DownIsDeaf
<1> QED
  BY ServerInvariant, <1>1, PTL
-------------------------------------------------------------------------------
(* Every behaviour that TLC checks at once is one of each server, so that  *)
(* what is proved of either holds in all of them.                          *)
THEOREM RunsAreOfServers == MCSpec => Spec /\ Grpc!Spec
<1> DEFINE Step == [HttpStep \/ GrpcStep]_<<kind, vars, grpcVars>>
<1>1. MCInit => Init /\ Grpc!Init
  BY DEF MCInit
<1>2. Step => [Next]_vars
  BY DEF HttpStep, GrpcStep
<1>3. Step => [Grpc!Next]_(Grpc!vars)
  BY DEF HttpStep, GrpcStep, grpcVars, Grpc!vars
<1> QED
  BY <1>1, <1>2, <1>3, PTL DEF MCSpec, Spec, Grpc!Spec
===============================================================================
