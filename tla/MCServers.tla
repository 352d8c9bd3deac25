------------------------------- MODULE MCServers -------------------------------
(***************************************************************************)
(* The lives of an http and of a grpc server, for TLC in one run: a        *)
(* behaviour is one of either.  They share nothing, and the variables of   *)
(* the other keep their first value.                                       *)
(***************************************************************************)
EXTENDS HttpServer

VARIABLES kind,
          gPhase, gStarts, gUnary, gPanicked, gServer, gStopped, gConn, gOpen,
          gGoroutine, gTaken, gPools, gRunning

grpcVars == <<gPhase, gStarts, gUnary, gPanicked, gServer, gStopped, gConn, gOpen,
              gGoroutine, gTaken, gPools, gRunning>>

Grpc == INSTANCE GrpcServer
        WITH phase <- gPhase, starts <- gStarts, unary <- gUnary, panicked <- gPanicked,
             server <- gServer, stopped <- gStopped, conn <- gConn, open <- gOpen,
             goroutine <- gGoroutine, taken <- gTaken, pools <- gPools, running <- gRunning

MCInit == kind \in {"http", "grpc"} /\ Init /\ Grpc!Init

HttpStep == kind = "http" /\ Next /\ UNCHANGED <<kind, grpcVars>>
GrpcStep == kind = "grpc" /\ Grpc!Next /\ UNCHANGED <<kind, vars>>

MCSpec == MCInit /\ [][HttpStep \/ GrpcStep]_<<kind, vars, grpcVars>>
-------------------------------------------------------------------------------
(* Once a grpc server is down nothing listens at its address any more      *)
(* (GrpcServer).                                                           *)
GrpcDownIsDeaf == Grpc!DownIsDeaf
===============================================================================
