---------------------------- MODULE PoolMiddleware ----------------------------
(***************************************************************************)
(* The three ways a server hands its requests to a worker pool:            *)
(*   "sync"   http.WorkerPoolMiddleware.ServeHTTP                          *)
(*   "async"  the handler http.Server.SetupWorkerPoolHandler returns       *)
(*   "unary"  the interceptor of grpc.Server.SetMiddlewarePoolWorkerOption *)
(* Each makes a pool of its own, so a behaviour has one of the Kinds.      *)
(* Every member of Calls is one request, served by a goroutine of its own  *)
(* that calls QueueJob and then deals with what came of it.  The pool is   *)
(* that of WorkerPool, and here the execution of a job has steps.          *)
(***************************************************************************)
EXTENDS WorkerPool

CONSTANT Kinds

ASSUME KindAssumption == Kinds \subseteq {"sync", "async", "unary"} /\ NilCalls = {}

VARIABLES kind,         (* which of them it is                              *)
          nilHandler,   (* the handler given to SetupWorkerPoolHandler is   *)
                        (* nil; those of the others never are               *)
          request,      (* request[c]: "open", "handling" (sync: on the     *)
                        (* request's goroutine), "answered", "refused"      *)
          exec,         (* exec[c]: where Execute of the job is             *)
          filled,       (* filled[c]: the channel job.c holds its value     *)
          ran           (* ran[c]: how often the handler has been called    *)

requestVars == <<kind, nilHandler, request, exec, filled, ran>>
vars == <<poolVars, requestVars>>

MTypeOK ==
    /\ TypeOK
    /\ kind \in Kinds
    /\ nilHandler \in BOOLEAN
    /\ nilHandler => kind = "async"
    /\ request \in [Calls -> {"open", "handling", "answered", "refused"}]
    /\ exec \in [Calls -> {"none", "handler", "send", "error"}]
    /\ filled \in [Calls -> BOOLEAN]
    /\ ran \in [Calls -> 0..2]

MInit ==
    /\ Init
    /\ kind \in Kinds
    /\ nilHandler \in BOOLEAN
    /\ nilHandler => kind = "async"
    /\ request = [c \in Calls |-> "open"]
    /\ exec = [c \in Calls |-> "none"]
    /\ filled = [c \in Calls |-> FALSE]
    /\ ran = [c \in Calls |-> 0]

(* The options and SetupWorkerPoolHandler start the pool before the server *)
(* serves: a request finds it started.                                     *)
Arrive(c) == started /\ QueueJob(c) /\ UNCHANGED requestVars

(* The steps of the pool that no request takes part in.                    *)
PoolStep ==
    /\ \/ StartServer \/ StopServer \/ StopperLock \/ StopperApply
       \/ \E w \in Workers : WorkerLock(w) \/ WorkerExit(w) \/ WorkerRegister(w) \/ WorkerQuit(w)
    /\ UNCHANGED requestVars

(* The select of QueueJob.                                                 *)
QueueStep(c) ==
    /\ QueueJobTake(c) \/ QueueJobTimeout(c) \/ QueueJobClosed(c)
    /\ UNCHANGED requestVars

AcceptJobSignals(c) ==          \* mutant: Execute signals on job.c before the handler too
    /\ Handoff(c)
    /\ exec' = [exec EXCEPT ![c] = "handler"]
    /\ filled' = [filled EXCEPT ![c] = TRUE]
    /\ ran' = [ran EXCEPT ![c] = @ + 1]
    /\ UNCHANGED <<kind, nilHandler, request>>

(* The worker receives the job and Execute calls the handler, if it is not *)
(* nil.                                                                    *)
AcceptJob(c) ==
    /\ Handoff(c)
    /\ exec' = [exec EXCEPT ![c] = IF nilHandler THEN "error" ELSE "handler"]
    /\ ran' = IF nilHandler THEN ran ELSE [ran EXCEPT ![c] = @ + 1]
    /\ UNCHANGED <<kind, nilHandler, request, filled>>

(* The handler returns to Execute.                                         *)
HandlerReturns(w) ==
    /\ wpc[w] = "running"
    /\ exec[cur[w]] = "handler"
    /\ exec' = [exec EXCEPT ![cur[w]] = "send"]
    /\ UNCHANGED <<poolVars, kind, nilHandler, request, filled, ran>>

(* For a nil handler it returns an error, which the worker logs; nothing   *)
(* is sent to job.c.                                                       *)
ReturnError(w) ==
    /\ WorkerFinish(w)
    /\ exec[cur[w]] = "error"
    /\ exec' = [exec EXCEPT ![cur[w]] = "none"]
    /\ UNCHANGED <<kind, nilHandler, request, filled, ran>>

SendResultNowhere(w) ==         \* mutant: ServeHTTP makes no job.c either
    /\ WorkerFinish(w)
    /\ exec[cur[w]] = "send"
    /\ kind = "unary"
    /\ ~filled[cur[w]]
    /\ exec' = [exec EXCEPT ![cur[w]] = "none"]
    /\ filled' = [filled EXCEPT ![cur[w]] = TRUE]
    /\ UNCHANGED <<kind, nilHandler, request, ran>>

(* Execute sends to job.c, which holds one value, and the worker is free.  *)
(* The job of an async request has a nil job.c, which http's Execute does  *)
(* not look at: the send waits for ever.  grpc's does (grpc/job.go:38-43), *)
(* but the interceptor gives every job a handler and a job.c.              *)
SendResult(w) ==
    /\ WorkerFinish(w)
    /\ exec[cur[w]] = "send"
    /\ kind # "async"
    /\ ~filled[cur[w]]
    /\ exec' = [exec EXCEPT ![cur[w]] = "none"]
    /\ filled' = [filled EXCEPT ![cur[w]] = TRUE]
    /\ UNCHANGED <<kind, nilHandler, request, ran>>

HandleAtOnce(c) ==              \* mutant: ServeHTTP does not wait for job.c
    /\ kind = "sync"
    /\ cpc[c] \in Returned
    /\ request[c] = "open"
    /\ request' = [request EXCEPT ![c] = "handling"]
    /\ ran' = [ran EXCEPT ![c] = @ + 1]
    /\ UNCHANGED <<poolVars, kind, nilHandler, exec, filled>>

(* ServeHTTP ignores what QueueJob returns, waits for job.c and calls the  *)
(* handler itself.                                                         *)
HandleAgain(c) ==
    /\ kind = "sync"
    /\ cpc[c] \in Returned
    /\ request[c] = "open"
    /\ filled[c]
    /\ filled' = [filled EXCEPT ![c] = FALSE]
    /\ request' = [request EXCEPT ![c] = "handling"]
    /\ ran' = [ran EXCEPT ![c] = @ + 1]
    /\ UNCHANGED <<poolVars, kind, nilHandler, exec>>

HandledAgain(c) ==
    /\ request[c] = "handling"
    /\ request' = [request EXCEPT ![c] = "answered"]
    /\ UNCHANGED <<poolVars, kind, nilHandler, exec, filled, ran>>

(* The interceptor replies with the result it receives from job.c.         *)
ReplyResult(c) ==
    /\ kind = "unary"
    /\ cpc[c] = "accepted"
    /\ request[c] = "open"
    /\ filled[c]
    /\ filled' = [filled EXCEPT ![c] = FALSE]
    /\ request' = [request EXCEPT ![c] = "answered"]
    /\ UNCHANGED <<poolVars, kind, nilHandler, exec, ran>>

(* The async handler replies "successfully queued job".                    *)
ReplyQueued(c) ==
    /\ kind = "async"
    /\ cpc[c] = "accepted"
    /\ request[c] = "open"
    /\ request' = [request EXCEPT ![c] = "answered"]
    /\ UNCHANGED <<poolVars, kind, nilHandler, exec, filled, ran>>

ReplyErrorImpatient(c) ==       \* mutant: a timeout of the wait for job.c as well
    /\ kind \in {"unary", "async"}
    /\ cpc[c] \in Returned
    /\ request[c] = "open"
    /\ request' = [request EXCEPT ![c] = "refused"]
    /\ UNCHANGED <<poolVars, kind, nilHandler, exec, filled, ran>>

ReplyErrorIfClosed(c) ==        \* mutant: the error of a timeout is ignored
    /\ kind \in {"unary", "async"}
    /\ cpc[c] = "closed"
    /\ request[c] = "open"
    /\ request' = [request EXCEPT ![c] = "refused"]
    /\ UNCHANGED <<poolVars, kind, nilHandler, exec, filled, ran>>

(* The interceptor and the async handler reply with QueueJob's error.      *)
ReplyError(c) ==
    /\ kind \in {"unary", "async"}
    /\ cpc[c] \in {"timeout", "closed"}
    /\ request[c] = "open"
    /\ request' = [request EXCEPT ![c] = "refused"]
    /\ UNCHANGED <<poolVars, kind, nilHandler, exec, filled, ran>>

ExecuteStep(w) == HandlerReturns(w) \/ SendResult(w) \/ ReturnError(w)

Reply(c) == HandleAgain(c) \/ HandledAgain(c) \/ ReplyResult(c) \/ ReplyQueued(c) \/ ReplyError(c)

MNext ==
    \/ PoolStep
    \/ \E w \in Workers : ExecuteStep(w)
    \/ \E c \in Calls : Arrive(c) \/ QueueStep(c) \/ AcceptJob(c) \/ Reply(c)

MSpec == MInit /\ [][MNext]_vars

(***************************************************************************)
(* As WorkerPool's fairness; a handler returns, the goroutine of a request *)
(* runs on, and a timer that has been started fires some day.              *)
(***************************************************************************)
MFairness ==
    /\ WF_vars(StopperLock /\ UNCHANGED requestVars)
    /\ WF_vars(StopperApply /\ UNCHANGED requestVars)
    /\ \A w \in Workers :
           /\ WF_vars(ExecuteStep(w))
           /\ WF_vars((WorkerLock(w) \/ WorkerExit(w) \/ WorkerRegister(w) \/ WorkerQuit(w))
                          /\ UNCHANGED requestVars)
    /\ \A c \in Calls :
           /\ SF_vars(QueueJobTake(c) /\ UNCHANGED requestVars)
           /\ WF_vars((QueueJobTimeout(c) \/ QueueJobClosed(c)) /\ UNCHANGED requestVars)
           /\ WF_vars(AcceptJob(c))
           /\ WF_vars(Reply(c))

MFairSpec == MSpec /\ MFairness
-------------------------------------------------------------------------------
(* The reply to a request and the runs of its handler agree: a result is   *)
(* that of the one run of the handler, a refused request is never handled, *)
(* not even later (grpc/server.go:174-180, http/server.go:305-313).  Where *)
(* the handler is nil, "successfully queued job" stands for no run.        *)
ReplyTellsTruth ==
    \A c \in Calls :
        /\ request[c] = "refused" => ran[c] = 0
        /\ request[c] = "answered" /\ kind # "sync" => ran[c] = IF nilHandler THEN 0 ELSE 1
        /\ request[c] = "answered" /\ kind = "unary" => exec[c] = "none"

(* job.c has room for the value Execute sends (http/job.go:35,             *)
(* grpc/job.go:45): a worker is not held up by a request that is gone.     *)
ResultNeverBlocks ==
    \A c \in Calls : exec[c] = "send" /\ kind # "async" => ~filled[c]

(* Requests, jobs and workers together: they are well typed, and a worker  *)
(* that sends its job's result finds room in job.c (http/job.go:35,        *)
(* grpc/job.go:45), whenever its request left.                             *)
ResultsInv == MTypeOK /\ ResultNeverBlocks

(* The two runs of the handler for one request never overlap               *)
(* (http/middleware_workerpool.go:27-29): they share a ResponseWriter.     *)
RunsDoNotOverlap ==
    \A c \in Calls : request[c] = "handling" => exec[c] = "none"

(* Requests that wait for ever: for a worker that StopServer made leave,   *)
(* for the result of a job that the pool refused, or without a timeout for *)
(* workers that none comes back of.                                        *)
Stranded(c) ==
    \/ cpc[c] = "sending" /\ wpc[got[c]] = "left"
    \/ kind = "sync" /\ cpc[c] \in {"timeout", "closed"}
    \/ kind = "async" /\ ~nilHandler /\ c \notin TimedCalls /\ \A w \in Workers : wpc[w] = "running"

(* A request that has arrived is answered or refused, whatever becomes of  *)
(* the others, unless it is one of those (http/server.go:299-315,          *)
(* http/middleware_workerpool.go:24-29, grpc/server.go:166-181).           *)
RequestEnds ==
    \A c \in Calls :
        cpc[c] # "new" ~> request[c] \in {"answered", "refused"} \/ Stranded(c)

(* A worker that has a job takes others some day, whatever its request has *)
(* become (http/job.go:29-37, grpc/job.go:36-47, pool/worker.go:84-93):    *)
(* Execute ends, with an error or with a result that job.c has room for.   *)
(* Only workers with jobs of async requests, whose job.c is nil, do not.   *)
WorkerIsFreed ==
    \A w \in Workers :
        wpc[w] = "running" /\ (kind = "async" => nilHandler) ~> wpc[w] # "running"
================================================================================
