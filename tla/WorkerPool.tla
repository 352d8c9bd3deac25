------------------------------ MODULE WorkerPool ------------------------------
(***************************************************************************)
(* The worker pool of pool/worker.go.  Its goroutines are                  *)
(*   - the workers StartServer spawns, each with a jobChannel of its own,  *)
(*   - the stopper StartServer spawns, which waits for quit,               *)
(*   - the callers of QueueJob.                                            *)
(* A worker registers its jobChannel in WorkerPool, a channel of           *)
(* jobChannels; a caller takes a jobChannel from it and sends its job.     *)
(* A jobChannel is identified with the worker that owns it.                *)
(*                                                                         *)
(* Every jobChannel is unbuffered, so the send of a job and its receipt    *)
(* are one step (Handoff).  A worker holds mux.RLock while it registers    *)
(* (wpc "registering"); a goroutine that panics ends the program.          *)
(*                                                                         *)
(* Assumed of the callers of this package, as all its uses in the          *)
(* repository do: StartServer succeeds once at most, and WorkerPool is     *)
(* replaced only by an option of StartServer.                              *)
(***************************************************************************)
EXTENDS Naturals, Sequences, FiniteSets

CONSTANTS Workers,      (* the goroutines StartServer spawns: MaxWorkers    *)
          Calls,        (* slots for calls of QueueJob, one call at a time  *)
          TimedCalls,   (* the calls with timeout > 0                       *)
          NilCalls,     (* the calls whose job is nil                       *)
          StopLimit,    (* bound: how often StopServer is called            *)
          NoCall,
          NoWorker

ASSUME WorkerPoolAssumption ==
    /\ IsFiniteSet(Workers)
    /\ TimedCalls \subseteq Calls
    /\ NilCalls \subseteq Calls
    /\ StopLimit \in Nat
    /\ NoCall \notin Calls
    /\ NoWorker \notin Workers

VARIABLES stops,        (* number of calls of StopServer                    *)
          isStopped,    (* Worker.isStopped                                 *)
          pool,         (* Worker.WorkerPool: a channel ("live") or "nil"   *)
          queue,        (* the jobChannels buffered in WorkerPool           *)
          started,      (* StartServer has spawned its goroutines           *)
          stopper,      (* where the stopper goroutine is                   *)
          wpc,          (* wpc[w]: where worker w is                        *)
          cur,          (* cur[w]: the call whose job w executes            *)
          cpc,          (* cpc[c]: where call c is                          *)
          sees,         (* sees[c]: the WorkerPool its select evaluated     *)
          got,          (* got[c]: the jobChannel it has taken              *)
          panicked      (* why the program died, or "no"                    *)

stopVars == <<stops, isStopped, pool, started, stopper>>
workerVars == <<queue, wpc, cur>>
callVars == <<cpc, sees, got>>
poolVars == <<stopVars, workerVars, callVars, panicked>>

WorkerStates == {"unborn", "top", "registering", "idle", "running", "closed", "left"}
CallStates == {"new", "select", "sending", "accepted", "timeout", "closed"}
Returned == {"accepted", "timeout", "closed"}
Panics == {"no", "nil job", "close of closed channel"}

MaxWorkers == Cardinality(Workers)

(* The quit channel is closed.                                             *)
Quit == stops > 0

(* The workers that hold mux.RLock.                                        *)
Readers == {w \in Workers : wpc[w] = "registering"}

(* A jobChannel that no goroutine will receive from again.                 *)
Gone(w) == wpc[w] \in {"closed", "left"}

TypeOK ==
    /\ stops \in 0..StopLimit
    /\ isStopped \in BOOLEAN
    /\ pool \in {"live", "nil"}
    /\ queue \in Seq(Workers)
    /\ started \in BOOLEAN
    /\ stopper \in {"unborn", "waiting", "locking", "done"}
    /\ wpc \in [Workers -> WorkerStates]
    /\ cur \in [Workers -> Calls \cup {NoCall}]
    /\ cpc \in [Calls -> CallStates]
    /\ sees \in [Calls -> {"live", "stale", "nil"}]
    /\ got \in [Calls -> Workers \cup {NoWorker}]
    /\ panicked \in Panics

(* CreateWorker: an empty WorkerPool channel, an open quit channel.        *)
Init ==
    /\ stops = 0
    /\ isStopped = FALSE
    /\ pool = "live"
    /\ queue = <<>>
    /\ started = FALSE
    /\ stopper = "unborn"
    /\ wpc = [w \in Workers |-> "unborn"]
    /\ cur = [w \in Workers |-> NoCall]
    /\ cpc = [c \in Calls |-> "new"]
    /\ sees = [c \in Calls |-> "live"]
    /\ got = [c \in Calls |-> NoWorker]
    /\ panicked = "no"

-------------------------------------------------------------------------------
(* StartServer and StopServer                                              *)

(* SetMaxWorkersOption makes a new WorkerPool channel: a select that has   *)
(* evaluated w.WorkerPool keeps waiting for the channel it saw.            *)
Resize == sees' = [c \in Calls |-> IF cpc[c] = "select" THEN "stale" ELSE sees[c]]

(* StartServer spawns the workers and the stopper, with or without         *)
(* SetMaxWorkersOption among its options.                                  *)
StartServer ==
    /\ panicked = "no"
    /\ ~started
    /\ started' = TRUE
    /\ Resize \/ UNCHANGED sees
    /\ wpc' = [w \in Workers |-> "top"]
    /\ stopper' = "waiting"
    /\ UNCHANGED <<stops, isStopped, pool, queue, cur, cpc, got, panicked>>

(* An option that follows SetMaxWorkersOption returns an error: StartServer *)
(* returns it and spawns nothing, but WorkerPool has been replaced.        *)
StartServerFails ==
    /\ panicked = "no"
    /\ ~started
    /\ Resize
    /\ UNCHANGED <<stopVars, workerVars, cpc, got, panicked>>

(* StopServer closes quit; closing it a second time panics.                *)
StopServer ==
    /\ panicked = "no"
    /\ stops < StopLimit
    /\ stops' = stops + 1
    /\ panicked' = IF Quit THEN "close of closed channel" ELSE "no"
    /\ UNCHANGED <<isStopped, pool, started, stopper, workerVars, callVars>>

(* The stopper has seen quit closed and calls mux.Lock: from here on no    *)
(* worker gets the read lock until the stopper has had the write lock.     *)
StopperLock ==
    /\ panicked = "no"
    /\ stopper = "waiting"
    /\ Quit
    /\ stopper' = "locking"
    /\ UNCHANGED <<stops, isStopped, pool, started, workerVars, callVars, panicked>>

StopperApplyUnlocked ==         \* mutant: isStopped and WorkerPool set without mux
    /\ panicked = "no"
    /\ stopper = "locking"
    /\ isStopped' = TRUE
    /\ pool' = "nil"
    /\ stopper' = "done"
    /\ UNCHANGED <<stops, started, workerVars, callVars, panicked>>

StopperApplyKeepsPool ==        \* mutant: line 110 is missing
    /\ panicked = "no"
    /\ stopper = "locking"
    /\ Readers = {}
    /\ isStopped' = TRUE
    /\ stopper' = "done"
    /\ UNCHANGED <<stops, pool, started, workerVars, callVars, panicked>>

StopperApplyKeepsRunning ==     \* mutant: line 109 is missing
    /\ panicked = "no"
    /\ stopper = "locking"
    /\ Readers = {}
    /\ pool' = "nil"
    /\ stopper' = "done"
    /\ UNCHANGED <<stops, isStopped, started, workerVars, callVars, panicked>>

(* The stopper gets mux.Lock once no worker holds the read lock.           *)
StopperApply ==
    /\ panicked = "no"
    /\ stopper = "locking"
    /\ Readers = {}
    /\ isStopped' = TRUE
    /\ pool' = "nil"
    /\ stopper' = "done"
    /\ UNCHANGED <<stops, started, workerVars, callVars, panicked>>

-------------------------------------------------------------------------------
(* The loop of a worker                                                    *)

(* mux.RLock succeeds and the pool is not stopped.                         *)
WorkerLock(w) ==
    /\ panicked = "no"
    /\ wpc[w] = "top"
    /\ stopper # "locking"
    /\ ~isStopped
    /\ wpc' = [wpc EXCEPT ![w] = "registering"]
    /\ UNCHANGED <<stopVars, queue, cur, callVars, panicked>>

(* mux.RLock succeeds and the pool is stopped: close jobChannel, return.   *)
WorkerExit(w) ==
    /\ panicked = "no"
    /\ wpc[w] = "top"
    /\ stopper # "locking"
    /\ isStopped
    /\ wpc' = [wpc EXCEPT ![w] = "closed"]
    /\ UNCHANGED <<stopVars, queue, cur, callVars, panicked>>

(* w.WorkerPool <- jobChannel goes through and the read lock is released.  *)
WorkerRegister(w) ==
    /\ panicked = "no"
    /\ wpc[w] = "registering"
    /\ pool = "live"
    /\ Len(queue) < MaxWorkers
    /\ queue' = Append(queue, w)
    /\ wpc' = [wpc EXCEPT ![w] = "idle"]
    /\ UNCHANGED <<stopVars, cur, callVars, panicked>>

WorkerFinishReturns(w) ==       \* mutant: an error of Execute ends the worker
    /\ panicked = "no"
    /\ wpc[w] = "running"
    /\ wpc' = [wpc EXCEPT ![w] = "left"]
    /\ cur' = [cur EXCEPT ![w] = NoCall]
    /\ UNCHANGED <<stopVars, queue, callVars, panicked>>

(* job.Execute returns, with an error that is logged or without.           *)
WorkerFinish(w) ==
    /\ panicked = "no"
    /\ wpc[w] = "running"
    /\ wpc' = [wpc EXCEPT ![w] = "top"]
    /\ cur' = [cur EXCEPT ![w] = NoCall]
    /\ UNCHANGED <<stopVars, queue, callVars, panicked>>

WorkerQuitCloses(w) ==          \* mutant: the worker closes jobChannel on quit
    /\ panicked = "no"
    /\ wpc[w] = "idle"
    /\ Quit
    /\ wpc' = [wpc EXCEPT ![w] = "closed"]
    /\ UNCHANGED <<stopVars, queue, cur, callVars, panicked>>

(* The worker's select takes quit: it returns and does not close its       *)
(* jobChannel, wherever that channel is.                                   *)
WorkerQuit(w) ==
    /\ panicked = "no"
    /\ wpc[w] = "idle"
    /\ Quit
    /\ wpc' = [wpc EXCEPT ![w] = "left"]
    /\ UNCHANGED <<stopVars, queue, cur, callVars, panicked>>

-------------------------------------------------------------------------------
(* QueueJob                                                                *)

(* ErrorLog calls job.GetContext(): with a nil job it panics.              *)
ErrorLog(c) == panicked' = IF c \in NilCalls THEN "nil job" ELSE panicked

(* QueueJob enters its select and evaluates w.WorkerPool.                  *)
QueueJob(c) ==
    /\ panicked = "no"
    /\ cpc[c] = "new"
    /\ cpc' = [cpc EXCEPT ![c] = "select"]
    /\ sees' = [sees EXCEPT ![c] = pool]
    /\ UNCHANGED <<stopVars, workerVars, got, panicked>>

QueueJobPeek(c) ==              \* mutant: the jobChannel stays in WorkerPool
    /\ panicked = "no"
    /\ cpc[c] = "select"
    /\ sees[c] = "live"
    /\ queue # <<>>
    /\ got' = [got EXCEPT ![c] = Head(queue)]
    /\ cpc' = [cpc EXCEPT ![c] = "sending"]
    /\ UNCHANGED <<stopVars, workerVars, sees, panicked>>

(* The select receives a jobChannel.                                       *)
QueueJobTake(c) ==
    /\ panicked = "no"
    /\ cpc[c] = "select"
    /\ sees[c] = "live"
    /\ queue # <<>>
    /\ queue' = Tail(queue)
    /\ got' = [got EXCEPT ![c] = Head(queue)]
    /\ cpc' = [cpc EXCEPT ![c] = "sending"]
    /\ UNCHANGED <<stopVars, wpc, cur, sees, panicked>>

(* jobChannel <- job meets the select of the worker: QueueJob returns nil  *)
(* and the worker executes the job, or calls ErrorLog if it is nil.        *)
Handoff(c) ==
    /\ panicked = "no"
    /\ cpc[c] = "sending"
    /\ wpc[got[c]] = "idle"
    /\ cpc' = [cpc EXCEPT ![c] = "accepted"]
    /\ got' = [got EXCEPT ![c] = NoWorker]
    /\ wpc' = [wpc EXCEPT ![got[c]] = "running"]
    /\ cur' = [cur EXCEPT ![got[c]] = c]
    /\ ErrorLog(c)
    /\ UNCHANGED <<stopVars, queue, sees>>

(* The select takes the timeout.                                           *)
QueueJobTimeout(c) ==
    /\ panicked = "no"
    /\ cpc[c] = "select"
    /\ c \in TimedCalls
    /\ cpc' = [cpc EXCEPT ![c] = "timeout"]
    /\ ErrorLog(c)
    /\ UNCHANGED <<stopVars, workerVars, sees, got>>

(* The select takes quit.                                                  *)
QueueJobClosed(c) ==
    /\ panicked = "no"
    /\ cpc[c] = "select"
    /\ Quit
    /\ cpc' = [cpc EXCEPT ![c] = "closed"]
    /\ ErrorLog(c)
    /\ UNCHANGED <<stopVars, workerVars, sees, got>>

(* The call is over and its job is not being executed: the slot is free.   *)
Recycle(c) ==
    /\ panicked = "no"
    /\ cpc[c] \in Returned
    /\ \A w \in Workers : cur[w] # c
    /\ cpc' = [cpc EXCEPT ![c] = "new"]
    /\ UNCHANGED <<stopVars, workerVars, sees, got, panicked>>
-------------------------------------------------------------------------------

Lifecycle == StartServer \/ StartServerFails \/ StopServer \/ StopperLock \/ StopperApply

WorkerStep(w) == \/ WorkerLock(w) \/ WorkerExit(w) \/ WorkerRegister(w)
                 \/ WorkerFinish(w) \/ WorkerQuit(w)

CallStep(c) == \/ QueueJob(c) \/ QueueJobTake(c) \/ Handoff(c)
               \/ QueueJobTimeout(c) \/ QueueJobClosed(c) \/ Recycle(c)

Next == \/ Lifecycle
        \/ \E w \in Workers : WorkerStep(w)
        \/ \E c \in Calls : CallStep(c)

Spec == Init /\ [][Next]_poolVars

(***************************************************************************)
(* The Go scheduler runs every goroutine that can run (weak fairness), and *)
(* execution of a job ends.  A channel serves the goroutines that wait on  *)
(* it in the order they came, so a call that finds jobChannels again and   *)
(* again takes one (strong fairness).  Nothing obliges anyone to call      *)
(* StartServer, StopServer or QueueJob, and a timer is free to be late, so *)
(* no fairness is assumed of QueueJobTimeout.                              *)
(***************************************************************************)
Fairness ==
    /\ WF_poolVars(StopperLock)
    /\ WF_poolVars(StopperApply)
    /\ \A w \in Workers : WF_poolVars(WorkerStep(w))
    /\ \A c \in Calls : /\ SF_poolVars(QueueJobTake(c))
                        /\ WF_poolVars(Handoff(c))
                        /\ WF_poolVars(QueueJobClosed(c))

FairSpec == Spec /\ Fairness

(* The same, and a timer that has been started fires some day.             *)
TimerSpec == FairSpec /\ \A c \in TimedCalls : WF_poolVars(QueueJobTimeout(c))
-------------------------------------------------------------------------------
(* Safety                                                                  *)

(* A worker that holds mux.RLock is never stuck in                         *)
(* w.WorkerPool <- jobChannel (worker.go:81): the channel has room and has *)
(* not been replaced by nil.  Were it stuck, mux.Lock of the stopper would *)
(* wait for ever.                                                          *)
RegisterNeverBlocks ==
    \A w \in Readers : pool = "live" /\ Len(queue) < MaxWorkers

Senders == {c \in Calls : cpc[c] = "sending"}

(* Every jobChannel is in one place at most: buffered once in WorkerPool   *)
(* or taken by one call (worker.go:81, 128), so two callers never send to  *)
(* the same worker, and a worker that executes a job, or is yet to         *)
(* register, is in no place.                                               *)
OneHolder ==
    /\ \A i, j \in 1..Len(queue) : queue[i] = queue[j] => i = j
    /\ \A c \in Senders : got[c] \notin {queue[i] : i \in 1..Len(queue)}
    /\ \A c, d \in Senders : got[c] = got[d] => c = d
    /\ \A w \in Workers : wpc[w] \in {"top", "registering", "running"} =>
           /\ \A i \in 1..Len(queue) : queue[i] # w
           /\ \A c \in Senders : got[c] # w

(* A call never sends to the jobChannel that its worker closes when it     *)
(* finds the pool stopped (worker.go:77, 130), which would be a panic:     *)
(* StopServer never ends a program whose callers are still in QueueJob.    *)
NoSendOnClosed == \A c \in Senders : wpc[got[c]] # "closed"
-------------------------------------------------------------------------------
(* Why the pool is safe: the inductive invariant                           *)

(* mux, isStopped and WorkerPool change together, when no worker reads.    *)
StopInv ==
    /\ isStopped <=> pool = "nil"
    /\ isStopped <=> stopper = "done"
    /\ stopper \in {"locking", "done"} => Quit
    /\ isStopped => Readers = {}
    /\ ~isStopped => \A c \in Calls : sees[c] # "nil"
    /\ ~started => /\ stopper = "unborn"
                   /\ queue = <<>>
                   /\ \A w \in Workers : wpc[w] = "unborn"

(* A jobChannel that is buffered or taken has a worker that is waiting for *)
(* a job or has been made to leave by quit.                                *)
Offered(w) == wpc[w] \in {"idle", "left"}

HolderInv ==
    /\ \A i, j \in 1..Len(queue) : queue[i] = queue[j] => i = j
    /\ \A i \in 1..Len(queue) : Offered(queue[i])
    /\ \A c \in Senders : got[c] \in Workers /\ Offered(got[c])
    /\ \A c \in Senders : \A i \in 1..Len(queue) : got[c] # queue[i]
    /\ \A c, d \in Senders : got[c] = got[d] => c = d

(* A worker executes one job, of an accepted call that no other executes.  *)
JobInv ==
    /\ \A w \in Workers : cur[w] # NoCall <=> wpc[w] = "running"
    /\ \A w \in Workers : cur[w] # NoCall => cpc[cur[w]] = "accepted"
    /\ \A v, w \in Workers : cur[v] = cur[w] /\ cur[v] # NoCall => v = w

(* The inductive invariant: locks, holders of jobChannels and jobs agree   *)
(* at every step of every goroutine (worker.go:74-82, 107-110, 128-130).   *)
PoolInv == StopInv /\ HolderInv /\ JobInv
-------------------------------------------------------------------------------
(* Refinement: a pool is a JobPool                                         *)

Executing(c) == \E w \in Workers : cur[w] = c

CallStatus(c) ==
    CASE cpc[c] = "new" -> "none"
      [] cpc[c] = "select" -> IF sees[c] = "nil" THEN "doomed" ELSE "pending"
      [] cpc[c] = "sending" -> "pending"
      [] cpc[c] = "accepted" -> IF Executing(c) THEN "running" ELSE "done"
      [] cpc[c] \in {"timeout", "closed"} -> "rejected"

Promise == INSTANCE JobPool
               WITH Limit <- MaxWorkers,
                    status <- [c \in Calls |-> CallStatus(c)],
                    closing <- Quit,
                    shut <- isStopped

(* The pool keeps the promise of JobPool: at most MaxWorkers jobs at a     *)
(* time, each accepted job executed once, calls refused only after their   *)
(* timeout or StopServer, and calls made after the shutdown always refused *)
(* (worker.go:109-110: WorkerPool is nil by then).                         *)
KeepsPromise == Promise!Spec
-------------------------------------------------------------------------------
(* Liveness                                                                *)

Panicked == panicked # "no"

(* After StopServer every goroutine of a started pool ends: the stopper    *)
(* gets the write lock and every worker leaves its loop (worker.go:75, 95),*)
(* unless the program panics.                                              *)
WorkersEnd ==
    (Quit /\ started) ~> (stopper = "done" /\ \A w \in Workers : Gone(w)) \/ Panicked

(* A call on a started pool, with a timeout or without, is answered, or    *)
(* else has taken the jobChannel of a worker that StopServer made leave    *)
(* (worker.go:95-97 abandons it).  In particular, without StopServer every *)
(* call is answered even if no timer ever fires, or the program panics.    *)
(* A call that saw the WorkerPool of before an option of StartServer       *)
(* replaced it (sees is "stale") waits at a channel that nobody serves.    *)
CallSettles ==
    \A c \in Calls :
        (started /\ cpc[c] \in {"select", "sending"} /\ sees[c] # "stale")
            ~> (\/ cpc[c] \in Returned \/ Panicked
                \/ Quit /\ cpc[c] = "sending" /\ wpc[got[c]] = "left")

(* "QueueJob queue a job with timeout" (worker.go:121): a call with a      *)
(* timeout returns.                                                        *)
TimedCallReturns ==
    \A c \in TimedCalls : cpc[c] \in {"select", "sending"} ~> cpc[c] \in Returned
================================================================================
