------------------------------ MODULE PoolProofs ------------------------------
(***************************************************************************)
(* Proofs about WorkerPool and about PoolMiddleware, which hands requests  *)
(* to one, for every set of workers, calls and requests.                   *)
(***************************************************************************)
EXTENDS PoolMiddleware, FiniteSetTheorems, TLAPS

(* One more call of StopServer stays within its bound.                     *)
LEMMA StopBound == stops \in 0..StopLimit /\ stops < StopLimit => stops + 1 \in 0..StopLimit
  BY WorkerPoolAssumption

LEMMA StopCount == TypeOK => stops \in Nat
<1>1. TypeOK => stops \in 0..StopLimit
  BY DEF TypeOK
<1> QED
  BY <1>1, WorkerPoolAssumption

(* Every variable stays in its range.                                      *)
THEOREM TypeCorrect == Spec => []TypeOK
<1>1. Init => TypeOK
  <2> SUFFICES ASSUME Init PROVE TypeOK
    OBVIOUS
  <2>0. stops \in 0..StopLimit
    BY WorkerPoolAssumption DEF Init
  <2>1. /\ isStopped \in BOOLEAN
        /\ pool \in {"live", "nil"}
        /\ started \in BOOLEAN
        /\ stopper \in {"unborn", "waiting", "locking", "done"}
        /\ panicked \in Panics
    BY DEF Init, Panics
  <2>2. /\ queue \in Seq(Workers)
        /\ wpc \in [Workers -> WorkerStates]
        /\ cur \in [Workers -> Calls \cup {NoCall}]
    BY DEF Init, WorkerStates
  <2>3. /\ cpc \in [Calls -> CallStates]
        /\ sees \in [Calls -> {"live", "stale", "nil"}]
        /\ got \in [Calls -> Workers \cup {NoWorker}]
    BY DEF Init, CallStates
  <2> QED
    BY <2>0, <2>1, <2>2, <2>3 DEF TypeOK
<1>2. TypeOK /\ [Next]_poolVars => TypeOK'
  <2> SUFFICES ASSUME TypeOK, [Next]_poolVars PROVE TypeOK'
    OBVIOUS
  <2> USE DEF TypeOK, WorkerStates, CallStates, Panics, stopVars, workerVars, callVars
  <2>1. CASE StartServer
    BY <2>1 DEF StartServer, Resize
  <2>2. CASE StartServerFails
    BY <2>2 DEF StartServerFails, Resize
  <2>3. CASE StopServer
    <3>1. stops' \in 0..StopLimit
      BY <2>3, StopBound DEF StopServer
    <3> QED
      BY <2>3, <3>1 DEF StopServer
  <2>4. CASE StopperLock
    BY <2>4 DEF StopperLock
  <2>5. CASE StopperApply
    BY <2>5 DEF StopperApply
  <2>6. ASSUME NEW w \in Workers, WorkerLock(w) PROVE TypeOK'
    BY <2>6 DEF WorkerLock
  <2>7. ASSUME NEW w \in Workers, WorkerExit(w) PROVE TypeOK'
    BY <2>7 DEF WorkerExit
  <2>8. ASSUME NEW w \in Workers, WorkerRegister(w) PROVE TypeOK'
    BY <2>8 DEF WorkerRegister
  <2>9. ASSUME NEW w \in Workers, WorkerFinish(w) PROVE TypeOK'
    BY <2>9 DEF WorkerFinish
  <2>10. ASSUME NEW w \in Workers, WorkerQuit(w) PROVE TypeOK'
    BY <2>10 DEF WorkerQuit
  <2>11. ASSUME NEW c \in Calls, QueueJob(c) PROVE TypeOK'
    BY <2>11 DEF QueueJob
  <2>12. ASSUME NEW c \in Calls, QueueJobTake(c) PROVE TypeOK'
    BY <2>12 DEF QueueJobTake
  <2>13. ASSUME NEW c \in Calls, Handoff(c) PROVE TypeOK'
    BY <2>13 DEF Handoff, ErrorLog
  <2>14. ASSUME NEW c \in Calls, QueueJobTimeout(c) PROVE TypeOK'
    BY <2>14 DEF QueueJobTimeout, ErrorLog
  <2>15. ASSUME NEW c \in Calls, QueueJobClosed(c) PROVE TypeOK'
    BY <2>15 DEF QueueJobClosed, ErrorLog
  <2>16. ASSUME NEW c \in Calls, Recycle(c) PROVE TypeOK'
    BY <2>16 DEF Recycle
  <2>17. CASE UNCHANGED poolVars
    BY <2>17 DEF poolVars
  <2> QED
    BY <2>1, <2>2, <2>3, <2>4, <2>5, <2>6, <2>7, <2>8, <2>9, <2>10, <2>11, <2>12,
       <2>13, <2>14, <2>15, <2>16, <2>17 DEF Next, Lifecycle, WorkerStep, CallStep
<1> QED
  BY <1>1, <1>2, PTL DEF Spec
-------------------------------------------------------------------------------
(* The three parts of PoolInv are preserved by every step.                 *)

LEMMA StopInductive == TypeOK /\ StopInv /\ [Next]_poolVars => StopInv'
<1> SUFFICES ASSUME TypeOK, StopInv, [Next]_poolVars PROVE StopInv'
  OBVIOUS
<1> USE DEF TypeOK, StopInv, Readers, Quit, stopVars, workerVars, callVars
<1>1. CASE StartServer
  BY <1>1 DEF StartServer, Resize
<1>2. CASE StartServerFails
  BY <1>2 DEF StartServerFails, Resize
<1>3. CASE StopServer
  <2>1. stops' = stops + 1
    BY <1>3 DEF StopServer
  <2>2. stops' > 0
    BY <2>1, StopCount
  <2> QED
    BY <1>3, <2>2 DEF StopServer
<1>4. CASE StopperLock
  BY <1>4 DEF StopperLock
<1>5. CASE StopperApply
  BY <1>5 DEF StopperApply
<1>6. ASSUME NEW w \in Workers, WorkerLock(w) PROVE StopInv'
  BY <1>6 DEF WorkerLock
<1>7. ASSUME NEW w \in Workers, WorkerExit(w) PROVE StopInv'
  BY <1>7 DEF WorkerExit
<1>8. ASSUME NEW w \in Workers, WorkerRegister(w) PROVE StopInv'
  BY <1>8 DEF WorkerRegister
<1>9. ASSUME NEW w \in Workers, WorkerFinish(w) PROVE StopInv'
  BY <1>9 DEF WorkerFinish
<1>10. ASSUME NEW w \in Workers, WorkerQuit(w) PROVE StopInv'
  BY <1>10 DEF WorkerQuit
<1>11. ASSUME NEW c \in Calls, QueueJob(c) PROVE StopInv'
  BY <1>11 DEF QueueJob
<1>12. ASSUME NEW c \in Calls, QueueJobTake(c) PROVE StopInv'
  BY <1>12 DEF QueueJobTake
<1>13. ASSUME NEW c \in Calls, Handoff(c) PROVE StopInv'
  BY <1>13 DEF Handoff
<1>14. ASSUME NEW c \in Calls, QueueJobTimeout(c) PROVE StopInv'
  BY <1>14 DEF QueueJobTimeout
<1>15. ASSUME NEW c \in Calls, QueueJobClosed(c) PROVE StopInv'
  BY <1>15 DEF QueueJobClosed
<1>16. ASSUME NEW c \in Calls, Recycle(c) PROVE StopInv'
  BY <1>16 DEF Recycle
<1>17. CASE UNCHANGED poolVars
  BY <1>17 DEF poolVars
<1> QED
  BY <1>1, <1>2, <1>3, <1>4, <1>5, <1>6, <1>7, <1>8, <1>9,
     <1>10, <1>11, <1>12, <1>13, <1>14, <1>15, <1>16, <1>17
     DEF Next, Lifecycle, WorkerStep, CallStep

LEMMA HolderInductive == TypeOK /\ StopInv /\ HolderInv /\ [Next]_poolVars => HolderInv'
<1> SUFFICES ASSUME TypeOK, StopInv, HolderInv, [Next]_poolVars PROVE HolderInv'
  OBVIOUS
<1> USE DEF TypeOK, StopInv, HolderInv, Offered, Senders, stopVars, workerVars, callVars
<1>1. CASE StartServer
  BY <1>1 DEF StartServer, Resize
<1>2. CASE StartServerFails
  BY <1>2 DEF StartServerFails, Resize
<1>3. CASE StopServer
  <2>1. UNCHANGED <<queue, wpc, got, cpc>>
    BY <1>3 DEF StopServer
  <2> QED
    BY <2>1
<1>4. CASE StopperLock
  BY <1>4 DEF StopperLock
<1>5. CASE StopperApply
  BY <1>5 DEF StopperApply
<1>6. ASSUME NEW w \in Workers, WorkerLock(w) PROVE HolderInv'
  BY <1>6 DEF WorkerLock
<1>7. ASSUME NEW w \in Workers, WorkerExit(w) PROVE HolderInv'
  BY <1>7 DEF WorkerExit
<1>8. ASSUME NEW w \in Workers, WorkerRegister(w) PROVE HolderInv'
  BY <1>8 DEF WorkerRegister
<1>9. ASSUME NEW w \in Workers, WorkerFinish(w) PROVE HolderInv'
  BY <1>9 DEF WorkerFinish
<1>10. ASSUME NEW w \in Workers, WorkerQuit(w) PROVE HolderInv'
  BY <1>10 DEF WorkerQuit
<1>11. ASSUME NEW c \in Calls, QueueJob(c) PROVE HolderInv'
  BY <1>11 DEF QueueJob
<1>12. ASSUME NEW c \in Calls, QueueJobTake(c) PROVE HolderInv'
  BY <1>12 DEF QueueJobTake
<1>13. ASSUME NEW c \in Calls, Handoff(c) PROVE HolderInv'
  BY <1>13 DEF Handoff
<1>14. ASSUME NEW c \in Calls, QueueJobTimeout(c) PROVE HolderInv'
  BY <1>14 DEF QueueJobTimeout
<1>15. ASSUME NEW c \in Calls, QueueJobClosed(c) PROVE HolderInv'
  BY <1>15 DEF QueueJobClosed
<1>16. ASSUME NEW c \in Calls, Recycle(c) PROVE HolderInv'
  BY <1>16 DEF Recycle
<1>17. CASE UNCHANGED poolVars
  BY <1>17 DEF poolVars
<1> QED
  BY <1>1, <1>2, <1>3, <1>4, <1>5, <1>6, <1>7, <1>8, <1>9,
     <1>10, <1>11, <1>12, <1>13, <1>14, <1>15, <1>16, <1>17
     DEF Next, Lifecycle, WorkerStep, CallStep

LEMMA JobInductive ==
    TypeOK /\ StopInv /\ HolderInv /\ JobInv /\ [Next]_poolVars => JobInv'
<1> SUFFICES ASSUME TypeOK, StopInv, HolderInv, JobInv, [Next]_poolVars PROVE JobInv'
  OBVIOUS
<1> USE DEF TypeOK, StopInv, JobInv, stopVars, workerVars, callVars
<1>1. CASE StartServer
  BY <1>1 DEF StartServer, Resize
<1>2. CASE StartServerFails
  BY <1>2 DEF StartServerFails, Resize
<1>3. CASE StopServer
  BY <1>3 DEF StopServer
<1>4. CASE StopperLock
  BY <1>4 DEF StopperLock
<1>5. CASE StopperApply
  BY <1>5 DEF StopperApply
<1>6. ASSUME NEW w \in Workers, WorkerLock(w) PROVE JobInv'
  BY <1>6 DEF WorkerLock
<1>7. ASSUME NEW w \in Workers, WorkerExit(w) PROVE JobInv'
  BY <1>7 DEF WorkerExit
<1>8. ASSUME NEW w \in Workers, WorkerRegister(w) PROVE JobInv'
  BY <1>8 DEF WorkerRegister
<1>9. ASSUME NEW w \in Workers, WorkerFinish(w) PROVE JobInv'
  BY <1>9 DEF WorkerFinish
<1>10. ASSUME NEW w \in Workers, WorkerQuit(w) PROVE JobInv'
  BY <1>10 DEF WorkerQuit
<1>11. ASSUME NEW c \in Calls, QueueJob(c) PROVE JobInv'
  BY <1>11 DEF QueueJob
<1>12. ASSUME NEW c \in Calls, QueueJobTake(c) PROVE JobInv'
  BY <1>12 DEF QueueJobTake
<1>13. ASSUME NEW c \in Calls, Handoff(c) PROVE JobInv'
  <2> DEFINE w == got[c]
  <2>1. /\ w \in Workers
        /\ wpc[w] = "idle"
        /\ cpc[c] = "sending"
    BY <1>13 DEF Handoff, HolderInv, Senders
  <2>2. /\ cpc' = [cpc EXCEPT ![c] = "accepted"]
        /\ wpc' = [wpc EXCEPT ![w] = "running"]
        /\ cur' = [cur EXCEPT ![w] = c]
    BY <1>13 DEF Handoff
  <2>3. c # NoCall
    BY WorkerPoolAssumption
  <2>4. \A v \in Workers : cur[v] # c
    BY <2>1, <2>3
  <2> HIDE DEF w
  <2> QED
    BY <2>1, <2>2, <2>3, <2>4
<1>14. ASSUME NEW c \in Calls, QueueJobTimeout(c) PROVE JobInv'
  BY <1>14 DEF QueueJobTimeout
<1>15. ASSUME NEW c \in Calls, QueueJobClosed(c) PROVE JobInv'
  BY <1>15 DEF QueueJobClosed
<1>16. ASSUME NEW c \in Calls, Recycle(c) PROVE JobInv'
  BY <1>16 DEF Recycle
<1>17. CASE UNCHANGED poolVars
  BY <1>17 DEF poolVars
<1> QED
  BY <1>1, <1>2, <1>3, <1>4, <1>5, <1>6, <1>7, <1>8, <1>9,
     <1>10, <1>11, <1>12, <1>13, <1>14, <1>15, <1>16, <1>17
     DEF Next, Lifecycle, WorkerStep, CallStep

(* PoolInv holds in every state.                                           *)
THEOREM PoolInvariant == Spec => [](TypeOK /\ PoolInv)
<1>1. Init => PoolInv
  <2> SUFFICES ASSUME Init PROVE PoolInv
    OBVIOUS
  <2>1. StopInv
    BY DEF Init, StopInv, Readers
  <2>2. HolderInv
    BY DEF Init, HolderInv, Senders
  <2>3. JobInv
    BY DEF Init, JobInv
  <2> QED
    BY <2>1, <2>2, <2>3 DEF PoolInv
<1>2. TypeOK /\ PoolInv /\ [Next]_poolVars => PoolInv'
  BY StopInductive, HolderInductive, JobInductive DEF PoolInv
<1> QED
  BY <1>1, <1>2, TypeCorrect, PTL DEF Spec

-------------------------------------------------------------------------------
(* What follows from it.                                                   *)

(* A jobChannel is buffered once or taken by one call, and then its worker *)
(* waits for a job or has left.                                            *)
THEOREM JobChannelsHaveOneHolder == Spec => []OneHolder
<1>1. TypeOK /\ PoolInv => OneHolder
  BY DEF TypeOK, PoolInv, HolderInv, OneHolder, Offered, Senders
<1> QED
  BY <1>1, PoolInvariant, PTL

(* No call sends to a jobChannel that has been closed.                     *)
THEOREM NeverSendsOnClosed == Spec => []NoSendOnClosed
<1>1. TypeOK /\ PoolInv => NoSendOnClosed
  BY DEF TypeOK, PoolInv, HolderInv, NoSendOnClosed, Offered
<1> QED
  BY <1>1, PoolInvariant, PTL

(* A duplicate-free sequence over a finite set is no longer than the set.  *)
LEMMA DistinctLength ==
    ASSUME NEW S, IsFiniteSet(S), NEW q \in Seq(S),
           \A i, j \in 1..Len(q) : q[i] = q[j] => i = j
    PROVE  Len(q) <= Cardinality(S)
<1>1. Len(q) \in Nat /\ q \in [1..Len(q) -> S]
  OBVIOUS
<1>2. q \in Injection(1..Len(q), S)
  BY <1>1 DEF Injection, IsInjective
<1>3. IsFiniteSet(1..Len(q)) /\ Cardinality(1..Len(q)) = Len(q)
  BY <1>1, FS_Interval
<1> QED
  BY <1>1, <1>2, <1>3, FS_Injection

(* Registration never blocks: WorkerPool has room for the jobChannel of    *)
(* each worker, and the registering worker's own is not among them.        *)
THEOREM RegistrationNeverBlocks == Spec => []RegisterNeverBlocks
<1>1. TypeOK /\ PoolInv => RegisterNeverBlocks
  <2> SUFFICES ASSUME TypeOK, PoolInv, NEW w \in Workers, wpc[w] = "registering"
               PROVE  pool = "live" /\ Len(queue) < MaxWorkers
    BY DEF RegisterNeverBlocks, Readers
  <2>1. pool = "live"
    BY DEF TypeOK, PoolInv, StopInv, Readers
  <2>2. queue \in Seq(Workers) /\ \A i \in 1..Len(queue) : queue[i] # w
    BY DEF TypeOK, PoolInv, HolderInv, Offered
  <2>3. queue \in Seq(Workers \ {w})
    BY <2>2
  <2>4. \A i, j \in 1..Len(queue) : queue[i] = queue[j] => i = j
    BY DEF PoolInv, HolderInv
  <2>5. IsFiniteSet(Workers)
    BY WorkerPoolAssumption
  <2>6. /\ IsFiniteSet(Workers \ {w})
        /\ Cardinality(Workers \ {w}) = Cardinality(Workers) - 1
    BY <2>5, FS_RemoveElement
  <2>7. Len(queue) <= Cardinality(Workers \ {w})
    BY <2>3, <2>4, <2>6, DistinctLength
  <2>8. Cardinality(Workers) \in Nat /\ Len(queue) \in Nat
    BY <2>2, <2>5, FS_CardinalityType
  <2>9. Len(queue) < MaxWorkers
    BY <2>6, <2>7, <2>8 DEF MaxWorkers
  <2> QED
    BY <2>1, <2>9
<1> QED
  BY <1>1, PoolInvariant, PTL
-------------------------------------------------------------------------------
(* The pool keeps the promise of JobPool.                                  *)

(* Spells out what the prover needs of a step that changes the status of   *)
(* one call and of a step that changes none.                               *)
LEMMA OneStatusChanges ==
    ASSUME NEW c \in Calls, NEW x, CallStatus(c)' = x,
           \A d \in Calls \ {c} : CallStatus(d)' = CallStatus(d)
    PROVE  [d \in Calls |-> CallStatus(d)]'
               = [[d \in Calls |-> CallStatus(d)] EXCEPT ![c] = x]
  OBVIOUS

LEMMA StatusesStay ==
    ASSUME \A d \in Calls : CallStatus(d)' = CallStatus(d), UNCHANGED <<stops, isStopped>>
    PROVE  UNCHANGED Promise!jobPoolVars
  BY DEF Promise!jobPoolVars, Quit

(* A free worker means that fewer than MaxWorkers jobs are running.        *)
LEMMA RoomToRun ==
    ASSUME TypeOK, PoolInv, NEW w \in Workers, wpc[w] = "idle"
    PROVE  Cardinality(Promise!RunningCalls) < MaxWorkers
<1> DEFINE R == Promise!RunningCalls
           f == [c \in R |-> CHOOSE v \in Workers : cur[v] = c]
<1>1. \A c \in R : c \in Calls /\ \E v \in Workers : cur[v] = c
  BY DEF Promise!RunningCalls, CallStatus, Executing, TypeOK, CallStates
<1>2. \A c \in R : f[c] \in Workers /\ cur[f[c]] = c
  BY <1>1
<1>3. \A c \in R : f[c] # w
  <2>1. cur[w] = NoCall
    BY DEF PoolInv, JobInv
  <2> QED
    BY <1>1, <1>2, <2>1, WorkerPoolAssumption
<1>4. f \in [R -> Workers \ {w}]
  BY <1>2, <1>3
<1>5. \A c, d \in R : f[c] = f[d] => c = d
  BY <1>2
<1>6. f \in Injection(R, Workers \ {w})
  BY <1>4, <1>5 DEF Injection, IsInjective
<1>7. IsFiniteSet(Workers) /\ Cardinality(Workers) \in Nat
  BY WorkerPoolAssumption, FS_CardinalityType
<1>8. /\ IsFiniteSet(Workers \ {w})
      /\ Cardinality(Workers \ {w}) = Cardinality(Workers) - 1
  BY <1>7, FS_RemoveElement
<1>9. IsFiniteSet(R) /\ Cardinality(R) <= Cardinality(Workers \ {w})
  BY <1>6, <1>8, FS_Injection
<1>10. Cardinality(R) \in Nat
  BY <1>9, FS_CardinalityType
<1> QED
  BY <1>7, <1>8, <1>9, <1>10 DEF MaxWorkers

(* The worker that takes a job executes nothing yet.                       *)
LEMMA HandoffExecutes ==
    ASSUME TypeOK, PoolInv, NEW c \in Calls, Handoff(c)
    PROVE  /\ cpc[c] = "sending" /\ cpc' = [cpc EXCEPT ![c] = "accepted"]
           /\ \E w \in Workers : wpc[w] = "idle"
           /\ \A d \in Calls : Executing(d)' <=> Executing(d) \/ d = c
<1>1. PICK w \in Workers : w = got[c]
  BY DEF Handoff, PoolInv, HolderInv, Senders
<1>2. /\ cpc[c] = "sending" /\ wpc[w] = "idle"
      /\ cpc' = [cpc EXCEPT ![c] = "accepted"]
      /\ cur' = [cur EXCEPT ![w] = c]
  BY <1>1 DEF Handoff
<1>3. cur[w] = NoCall
  BY <1>1, <1>2 DEF PoolInv, JobInv
<1>4. \A d \in Calls : Executing(d)' <=> Executing(d) \/ d = c
  BY <1>1, <1>2, <1>3, WorkerPoolAssumption DEF Executing, TypeOK
<1> QED
  BY <1>1, <1>2, <1>4

(* A job that has been executed is not being executed any more.            *)
LEMMA FinishExecutes ==
    ASSUME TypeOK, PoolInv, NEW w \in Workers, WorkerFinish(w)
    PROVE  /\ cur[w] \in Calls /\ cpc[cur[w]] = "accepted" /\ Executing(cur[w])
           /\ \A d \in Calls : Executing(d)' <=> Executing(d) /\ d # cur[w]
<1>0. PICK c \in Calls \cup {NoCall} : c = cur[w]
  BY DEF TypeOK
<1>1. wpc[w] = "running" /\ cur' = [cur EXCEPT ![w] = NoCall]
  BY DEF WorkerFinish
<1>2. c \in Calls /\ c # NoCall /\ cpc[c] = "accepted"
  BY <1>0, <1>1 DEF TypeOK, PoolInv, JobInv
<1>3. Executing(c) /\ ~Executing(c)'
  BY <1>0, <1>1, <1>2 DEF Executing, TypeOK, PoolInv, JobInv
<1>4. \A d \in Calls \ {c} : Executing(d)' <=> Executing(d)
  BY <1>0, <1>1, <1>2, WorkerPoolAssumption DEF Executing, TypeOK
<1> QED
  BY <1>0, <1>2, <1>3, <1>4

(* Every step of the pool is a step of JobPool or leaves it as it is.      *)
LEMMA StepsKeepPromise ==
    TypeOK /\ PoolInv /\ PoolInv' /\ [Next]_poolVars
        => [Promise!Next]_Promise!jobPoolVars
<1> SUFFICES ASSUME TypeOK, PoolInv, PoolInv', [Next]_poolVars
             PROVE  Promise!Next \/ UNCHANGED Promise!jobPoolVars
  OBVIOUS
<1> USE DEF stopVars, workerVars, callVars
<1>1. CASE StartServer \/ StartServerFails
  <2>1. \A d \in Calls : CallStatus(d)' = CallStatus(d)
    <3> SUFFICES ASSUME NEW d \in Calls PROVE CallStatus(d)' = CallStatus(d)
      OBVIOUS
    <3>1. sees[d] # "nil" /\ sees'[d] # "nil"
      BY <1>1 DEF StartServer, StartServerFails, Resize, TypeOK, PoolInv, StopInv
    <3>2. UNCHANGED <<cpc, cur>>
      BY <1>1 DEF StartServer, StartServerFails
    <3> QED
      BY <3>1, <3>2 DEF CallStatus, Executing
  <2> QED
    BY <1>1, <2>1, StatusesStay DEF StartServer, StartServerFails
<1>2. CASE StopServer
  <2>1. UNCHANGED <<cpc, sees, cur, isStopped>> /\ stops' = stops + 1
    BY <1>2 DEF StopServer
  <2>2. Quit'
    BY <2>1, StopCount DEF Quit
  <2>3. Promise!Close
    BY <2>1, <2>2 DEF Promise!Close, CallStatus, Executing
  <2> QED
    BY <2>3 DEF Promise!Next
<1>3. CASE StopperLock
  <2>1. UNCHANGED <<cpc, sees, cur, isStopped, stops>>
    BY <1>3 DEF StopperLock
  <2>2. \A d \in Calls : CallStatus(d)' = CallStatus(d)
    BY <2>1 DEF CallStatus, Executing
  <2> QED
    BY <2>1, <2>2, StatusesStay
<1>4. CASE StopperApply
  <2>1. UNCHANGED <<cpc, sees, cur, stops>> /\ isStopped'
    BY <1>4 DEF StopperApply
  <2>2. Quit
    BY <1>4 DEF StopperApply, PoolInv, StopInv
  <2>3. Promise!Shut
    BY <2>1, <2>2 DEF Promise!Shut, CallStatus, Executing, Quit
  <2> QED
    BY <2>3 DEF Promise!Next
<1>5. ASSUME NEW w \in Workers,
             WorkerLock(w) \/ WorkerExit(w) \/ WorkerRegister(w) \/ WorkerQuit(w)
      PROVE  UNCHANGED Promise!jobPoolVars
  <2>1. UNCHANGED <<cpc, sees, cur, isStopped, stops>>
    BY <1>5 DEF WorkerLock, WorkerExit, WorkerRegister, WorkerQuit
  <2>2. \A d \in Calls : CallStatus(d)' = CallStatus(d)
    BY <2>1 DEF CallStatus, Executing
  <2> QED
    BY <2>1, <2>2, StatusesStay
<1>6. ASSUME NEW w \in Workers, WorkerFinish(w) PROVE Promise!Next
  <2>0. PICK c \in Calls : c = cur[w]
    BY <1>6, FinishExecutes
  <2>1. /\ cpc[c] = "accepted" /\ Executing(c)
        /\ \A d \in Calls : Executing(d)' <=> Executing(d) /\ d # c
        /\ UNCHANGED <<cpc, sees, stops, isStopped>>
    BY <1>6, <2>0, FinishExecutes DEF WorkerFinish
  <2>2. CallStatus(c) = "running" /\ CallStatus(c)' = "done"
    BY <2>1 DEF CallStatus
  <2>3. \A d \in Calls \ {c} : CallStatus(d)' = CallStatus(d)
    BY <2>1 DEF CallStatus
  <2>4. Promise!Finish(c)
    BY <2>1, <2>2, <2>3, OneStatusChanges DEF Promise!Finish, Quit
  <2> QED
    BY <2>4 DEF Promise!Next
<1>7. ASSUME NEW c \in Calls, QueueJob(c) PROVE Promise!Next
  <2>1. /\ cpc[c] = "new"
        /\ cpc' = [cpc EXCEPT ![c] = "select"]
        /\ sees' = [sees EXCEPT ![c] = pool]
        /\ UNCHANGED <<cur, stops, isStopped>>
    BY <1>7 DEF QueueJob
  <2>2. /\ CallStatus(c) = "none"
        /\ CallStatus(c)' = IF isStopped THEN "doomed" ELSE "pending"
    BY <2>1 DEF CallStatus, TypeOK, PoolInv, StopInv
  <2>3. \A d \in Calls \ {c} : CallStatus(d)' = CallStatus(d)
    BY <2>1 DEF CallStatus, Executing, TypeOK
  <2>4. Promise!Submit(c)
    BY <2>1, <2>2, <2>3, OneStatusChanges DEF Promise!Submit, Quit
  <2> QED
    BY <2>4 DEF Promise!Next
<1>8. ASSUME NEW c \in Calls, QueueJobTake(c) PROVE UNCHANGED Promise!jobPoolVars
  <2>1. /\ cpc[c] = "select" /\ sees[c] = "live"
        /\ cpc' = [cpc EXCEPT ![c] = "sending"]
        /\ UNCHANGED <<sees, cur, stops, isStopped>>
    BY <1>8 DEF QueueJobTake
  <2>2. \A d \in Calls : CallStatus(d)' = CallStatus(d)
    BY <2>1 DEF CallStatus, Executing, TypeOK
  <2> QED
    BY <2>1, <2>2, StatusesStay
<1>9. ASSUME NEW c \in Calls, Handoff(c) PROVE Promise!Next
  <2>1. PICK w \in Workers : wpc[w] = "idle"
    BY <1>9, HandoffExecutes
  <2>2. /\ cpc[c] = "sending"
        /\ cpc' = [cpc EXCEPT ![c] = "accepted"]
        /\ \A d \in Calls : Executing(d)' <=> Executing(d) \/ d = c
        /\ UNCHANGED <<sees, stops, isStopped>>
    BY <1>9, HandoffExecutes DEF Handoff
  <2>3. CallStatus(c) = "pending" /\ CallStatus(c)' = "running"
    BY <2>2 DEF CallStatus, TypeOK
  <2>4. \A d \in Calls \ {c} : CallStatus(d)' = CallStatus(d)
    BY <2>2 DEF CallStatus, TypeOK
  <2>5. Cardinality(Promise!RunningCalls) < MaxWorkers
    BY <2>1, RoomToRun
  <2>6. Promise!Run(c)
    BY <2>2, <2>3, <2>4, <2>5, OneStatusChanges DEF Promise!Run, Quit, Promise!Cardinality, Cardinality
  <2> QED
    BY <2>6 DEF Promise!Next
<1>10. ASSUME NEW c \in Calls, QueueJobTimeout(c) \/ QueueJobClosed(c)
       PROVE  Promise!Next
  <2>1. /\ cpc[c] = "select"
        /\ cpc'[c] \in {"timeout", "closed"}
        /\ \A d \in Calls \ {c} : cpc'[d] = cpc[d]
        /\ UNCHANGED <<sees, cur, stops, isStopped>>
        /\ c \in TimedCalls \/ Quit
    BY <1>10 DEF QueueJobTimeout, QueueJobClosed, TypeOK
  <2>2. CallStatus(c) \in {"pending", "doomed"} /\ CallStatus(c)' = "rejected"
    BY <2>1 DEF CallStatus
  <2>3. \A d \in Calls \ {c} : CallStatus(d)' = CallStatus(d)
    BY <2>1 DEF CallStatus, Executing
  <2>4. Promise!Reject(c)
    BY <2>1, <2>2, <2>3, OneStatusChanges DEF Promise!Reject, Quit
  <2> QED
    BY <2>4 DEF Promise!Next
<1>11. ASSUME NEW c \in Calls, Recycle(c) PROVE Promise!Next
  <2>1. /\ cpc[c] \in Returned
        /\ ~Executing(c)
        /\ cpc' = [cpc EXCEPT ![c] = "new"]
        /\ UNCHANGED <<sees, cur, stops, isStopped>>
    BY <1>11 DEF Recycle, Executing
  <2>2. CallStatus(c) \in {"done", "rejected"} /\ CallStatus(c)' = "none"
    BY <2>1 DEF CallStatus, Returned, TypeOK
  <2>3. \A d \in Calls \ {c} : CallStatus(d)' = CallStatus(d)
    BY <2>1 DEF CallStatus, Executing, TypeOK
  <2>4. Promise!Recycle(c)
    BY <2>1, <2>2, <2>3, OneStatusChanges DEF Promise!Recycle, Quit
  <2> QED
    BY <2>4 DEF Promise!Next
<1>12. CASE UNCHANGED poolVars
  <2>1. UNCHANGED <<cpc, sees, cur, isStopped, stops>>
    BY <1>12 DEF poolVars
  <2>2. \A d \in Calls : CallStatus(d)' = CallStatus(d)
    BY <2>1 DEF CallStatus, Executing
  <2> QED
    BY <2>1, <2>2, StatusesStay
<1> QED
  BY <1>1, <1>2, <1>3, <1>4, <1>5, <1>6, <1>7, <1>8, <1>9, <1>10, <1>11, <1>12
     DEF Next, Lifecycle, WorkerStep, CallStep

(* The worker pool implements JobPool: at most MaxWorkers jobs run at a    *)
(* time, an accepted job is executed once, a call is refused only for its  *)
(* timeout or StopServer, and always once the pool has shut down.          *)
THEOREM PoolKeepsPromise == Spec => KeepsPromise
<1>1. Init => Promise!Init
  BY DEF Init, Promise!Init, CallStatus, Quit
<1> QED
  BY <1>1, StepsKeepPromise, PoolInvariant, PTL DEF Spec, KeepsPromise, Promise!Spec
-------------------------------------------------------------------------------
(* The requests of PoolMiddleware.                                         *)

(* Every step of the middlewares is one of their pool, or leaves it alone. *)
LEMMA RequestsStepPool == [MNext]_vars => [Next]_poolVars
<1>1. ASSUME PoolStep PROVE Next
  BY <1>1 DEF PoolStep, Next, Lifecycle, WorkerStep
<1>2. ASSUME NEW w \in Workers, ExecuteStep(w) PROVE Next \/ UNCHANGED poolVars
  BY <1>2 DEF ExecuteStep, HandlerReturns, SendResult, ReturnError, Next, WorkerStep
<1>3. ASSUME NEW c \in Calls, Arrive(c) \/ QueueStep(c) \/ AcceptJob(c)
      PROVE  Next
  BY <1>3 DEF Arrive, QueueStep, AcceptJob, Next, CallStep
<1>4. ASSUME NEW c \in Calls, Reply(c) PROVE UNCHANGED poolVars
  BY <1>4 DEF Reply, HandleAgain, HandledAgain, ReplyResult, ReplyQueued, ReplyError
<1> QED
  BY <1>1, <1>2, <1>3, <1>4 DEF MNext, vars

(* The middlewares use the pool as WorkerPool says it is used: what is     *)
(* proved of a pool holds of theirs (http/server.go:272-297, 305,          *)
(* http/middleware_workerpool.go:24, grpc/server.go:166).                  *)
THEOREM RequestsUsePool == MSpec => Spec
<1>1. MInit => Init
  BY DEF MInit
<1> QED
  BY <1>1, RequestsStepPool, PTL DEF MSpec, Spec

(* What a request, its job and its channel know of each other.  Execute is *)
(* at a step just while a worker has the job; until the pool accepts the   *)
(* job there is no run and no result; then there is one run (none of a nil *)
(* handler), and its                                                       *)
(* result is in job.c from the end of Execute until the request takes it.  *)
RequestOK(c) ==
    /\ exec[c] # "none" <=> Executing(c)
    /\ exec[c] # "none" => (nilHandler <=> exec[c] = "error")
    /\ request[c] = "refused" => cpc[c] \in {"timeout", "closed"}
    /\ request[c] = "handling" => kind = "sync"
    /\ cpc[c] # "accepted" => ran[c] = 0 /\ ~filled[c] /\ request[c] \in {"open", "refused"}
    /\ cpc[c] = "accepted" /\ kind = "async" =>
           ran[c] = (IF nilHandler THEN 0 ELSE 1) /\ ~filled[c]
    /\ cpc[c] = "accepted" /\ kind # "async" =>
           IF request[c] = "open"
           THEN ran[c] = 1 /\ (filled[c] <=> exec[c] = "none")
           ELSE /\ ran[c] = IF kind = "sync" THEN 2 ELSE 1
                /\ exec[c] = "none" /\ ~filled[c]

RequestInv == \A c \in Calls : RequestOK(c)

(* The part of MTypeOK that is not the pool's.                             *)
RequestTypeOK ==
    /\ kind \in Kinds
    /\ nilHandler \in BOOLEAN
    /\ nilHandler => kind = "async"
    /\ request \in [Calls -> {"open", "handling", "answered", "refused"}]
    /\ exec \in [Calls -> {"none", "handler", "send", "error"}]
    /\ filled \in [Calls -> BOOLEAN]
    /\ ran \in [Calls -> 0..2]

LEMMA StepRequests ==
  ASSUME TypeOK, PoolInv, RequestTypeOK, RequestInv, [MNext]_vars
  PROVE  RequestTypeOK' /\ RequestInv'
<1> USE DEF RequestTypeOK, RequestInv, RequestOK, requestVars
<1>0. cpc \in [Calls -> CallStates]
  BY DEF TypeOK
<1>1. ASSUME UNCHANGED <<requestVars, cpc, cur>>
      PROVE  RequestTypeOK' /\ RequestInv'
  BY <1>1 DEF Executing
<1>2. CASE PoolStep
  <2>1. ASSUME StartServer \/ StopServer \/ StopperLock \/ StopperApply
        PROVE  UNCHANGED <<cpc, cur>>
    BY <2>1 DEF StartServer, StopServer, StopperLock, StopperApply, callVars, workerVars
  <2>2. ASSUME NEW w \in Workers,
               WorkerLock(w) \/ WorkerExit(w) \/ WorkerRegister(w) \/ WorkerQuit(w)
        PROVE  UNCHANGED <<cpc, cur>>
    BY <2>2 DEF WorkerLock, WorkerExit, WorkerRegister, WorkerQuit, callVars
  <2> QED
    BY <1>1, <1>2, <2>1, <2>2 DEF PoolStep
<1>3. ASSUME NEW c \in Calls, Arrive(c) \/ QueueStep(c)
      PROVE  RequestTypeOK' /\ RequestInv'
  <2>1. /\ UNCHANGED <<requestVars, cur>>
        /\ cpc[c] \in {"new", "select"}
        /\ \E s \in CallStates \ {"accepted"} : cpc' = [cpc EXCEPT ![c] = s]
    BY <1>3 DEF Arrive, QueueStep, QueueJob, QueueJobTake, QueueJobTimeout, QueueJobClosed,
                CallStates, workerVars
  <2>2. request[c] # "refused"
    BY <2>1
  <2> QED
    BY <1>0, <2>1, <2>2 DEF Executing
<1>4. ASSUME NEW c \in Calls, AcceptJob(c)
      PROVE  RequestTypeOK' /\ RequestInv'
  <2>1. /\ cpc[c] = "sending" /\ cpc' = [cpc EXCEPT ![c] = "accepted"]
        /\ \A d \in Calls : Executing(d)' <=> Executing(d) \/ d = c
    BY <1>4, HandoffExecutes DEF AcceptJob
  <2>2. request[c] = "open" /\ ran[c] = 0 /\ ~filled[c]
    BY <2>1
  <2>3. /\ UNCHANGED <<kind, nilHandler, request, filled>>
        /\ exec' = [exec EXCEPT ![c] = IF nilHandler THEN "error" ELSE "handler"]
        /\ ran' = IF nilHandler THEN ran ELSE [ran EXCEPT ![c] = 1]
    BY <1>4, <2>2 DEF AcceptJob
  <2> HIDE DEF RequestOK
  <2>4. RequestOK(c)'
    BY <1>0, <2>1, <2>2, <2>3 DEF RequestOK
  <2>5. ASSUME NEW d \in Calls \ {c} PROVE RequestOK(d)'
    BY <1>0, <2>1, <2>3 DEF RequestOK
  <2> QED
    BY <2>3, <2>4, <2>5
<1>5. ASSUME NEW w \in Workers, HandlerReturns(w)
      PROVE  RequestTypeOK' /\ RequestInv'
  <2>1. cur[w] \in Calls
    BY <1>5 DEF HandlerReturns, TypeOK, PoolInv, JobInv
  <2>2. UNCHANGED <<cpc, cur>>
    BY <1>5 DEF HandlerReturns, poolVars, callVars, workerVars
  <2> QED
    BY <1>5, <2>1, <2>2 DEF HandlerReturns, Executing
<1>6. ASSUME NEW w \in Workers, SendResult(w)
      PROVE  RequestTypeOK' /\ RequestInv'
  <2>0. WorkerFinish(w)
    BY <1>6 DEF SendResult
  <2>1. PICK c \in Calls : c = cur[w]
    BY <2>0, FinishExecutes
  <2>2. /\ cpc[c] = "accepted" /\ UNCHANGED cpc
        /\ \A d \in Calls : Executing(d)' <=> Executing(d) /\ d # c
    BY <2>0, <2>1, FinishExecutes DEF WorkerFinish, callVars
  <2>3. /\ UNCHANGED <<kind, nilHandler, request, ran>> /\ kind # "async" /\ exec[c] = "send"
        /\ exec' = [exec EXCEPT ![c] = "none"]
        /\ filled' = [filled EXCEPT ![c] = TRUE]
    BY <1>6, <2>1 DEF SendResult
  <2> QED
    BY <2>2, <2>3
<1>9. ASSUME NEW w \in Workers, ReturnError(w)
      PROVE  RequestTypeOK' /\ RequestInv'
  <2>0. WorkerFinish(w)
    BY <1>9 DEF ReturnError
  <2>1. PICK c \in Calls : c = cur[w]
    BY <2>0, FinishExecutes
  <2>2. /\ cpc[c] = "accepted" /\ UNCHANGED cpc
        /\ \A d \in Calls : Executing(d)' <=> Executing(d) /\ d # c
    BY <2>0, <2>1, FinishExecutes DEF WorkerFinish, callVars
  <2>3. /\ UNCHANGED <<kind, nilHandler, request, filled, ran>> /\ exec[c] = "error"
        /\ exec' = [exec EXCEPT ![c] = "none"]
    BY <1>9, <2>1 DEF ReturnError
  <2> QED
    BY <2>2, <2>3
<1>7. ASSUME NEW c \in Calls, Reply(c)
      PROVE  RequestTypeOK' /\ RequestInv'
  <2>1. UNCHANGED <<cpc, cur, kind, nilHandler, exec>>
    BY <1>7 DEF Reply, HandleAgain, HandledAgain, ReplyResult, ReplyQueued, ReplyError,
                poolVars, callVars, workerVars
  <2>2. \A d \in Calls : Executing(d)' <=> Executing(d)
    BY <2>1 DEF Executing
  <2>3. CASE HandleAgain(c)
    <3>1. cpc[c] = "accepted" /\ ran[c] = 1 /\ exec[c] = "none"
      BY <2>3 DEF HandleAgain
    <3> QED
      BY <2>1, <2>2, <2>3, <3>1 DEF HandleAgain
  <2>4. CASE HandledAgain(c)
    BY <2>1, <2>2, <2>4 DEF HandledAgain
  <2>5. CASE ReplyResult(c)
    BY <2>1, <2>2, <2>5 DEF ReplyResult
  <2>6. CASE ReplyQueued(c)
    BY <2>1, <2>2, <2>6 DEF ReplyQueued
  <2>7. CASE ReplyError(c)
    BY <2>1, <2>2, <2>7 DEF ReplyError
  <2> QED
    BY <1>7, <2>3, <2>4, <2>5, <2>6, <2>7 DEF Reply
<1>8. CASE UNCHANGED vars
  BY <1>1, <1>8 DEF vars, poolVars, callVars, workerVars
<1> QED
  BY <1>2, <1>3, <1>4, <1>5, <1>6, <1>7, <1>8, <1>9 DEF MNext, ExecuteStep

LEMMA RequestInvariant == MSpec => [](TypeOK /\ PoolInv /\ RequestTypeOK /\ RequestInv)
<1>1. MInit => RequestTypeOK /\ RequestInv
  <2> SUFFICES ASSUME MInit PROVE RequestTypeOK /\ RequestInv
    OBVIOUS
  <2>1. \A c \in Calls : cpc[c] = "new" /\ ~Executing(c)
    BY WorkerPoolAssumption DEF MInit, Init, Executing
  <2>2. RequestTypeOK
    BY DEF MInit, RequestTypeOK
  <2>3. RequestInv
    BY <2>1 DEF MInit, RequestInv, RequestOK
  <2> QED
    BY <2>2, <2>3
<1> QED
  BY <1>1, StepRequests, RequestsUsePool, PoolInvariant, PTL DEF MSpec

(* A worker never waits to send the result of a job: job.c has room for    *)
(* it, whatever has become of the request (http/job.go:35,                 *)
(* grpc/job.go:45).                                                        *)
THEOREM ResultsFindRoom == MSpec => []ResultsInv
<1>1. TypeOK /\ PoolInv /\ RequestTypeOK /\ RequestInv => ResultsInv
  <2> SUFFICES ASSUME TypeOK, PoolInv, RequestTypeOK, RequestInv PROVE ResultsInv
    OBVIOUS
  <2>1. MTypeOK
    BY DEF MTypeOK, RequestTypeOK
  <2>2. ASSUME NEW c \in Calls, exec[c] = "send", kind # "async"
        PROVE  ~filled[c]
    BY <2>2 DEF RequestInv, RequestOK
  <2> QED
    BY <2>1, <2>2 DEF ResultsInv, ResultNeverBlocks
<1> QED
  BY <1>1, RequestInvariant, PTL

(* A reply with a result stands for one run of the handler, which is over, *)
(* and one with an error for none (grpc/server.go:174-180,                 *)
(* http/server.go:305-313).                                                *)
THEOREM RepliesTellTruth == MSpec => []ReplyTellsTruth
<1>1. RequestTypeOK /\ RequestInv => ReplyTellsTruth
  BY DEF RequestTypeOK, RequestInv, RequestOK, ReplyTellsTruth
<1> QED
  BY <1>1, RequestInvariant, PTL

(* The handler that ServeHTTP calls itself never runs together with the    *)
(* one its worker calls (http/middleware_workerpool.go:27-29).             *)
THEOREM HandlerRunsAlone == MSpec => []RunsDoNotOverlap
<1>1. RequestTypeOK /\ RequestInv => RunsDoNotOverlap
  BY DEF RequestTypeOK, RequestInv, RequestOK, RunsDoNotOverlap
<1> QED
  BY <1>1, RequestInvariant, PTL
================================================================================
