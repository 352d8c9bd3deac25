----------------------------- MODULE EventBusProofs -----------------------------
(***************************************************************************)
(* What EventBus keeps for any clients, events, listeners and limits:      *)
(* type correctness and mutual exclusion always; and for a listener that   *)
(* is alone on its client, the count of its calls against emissions, and   *)
(* that Off ends it after one call at most.                                *)
(***************************************************************************)
EXTENDS EventBus, TLAPS

LEMMA Pairs ==
  ASSUME NEW l \in Listeners
  PROVE  Client(l) \in Clients /\ EventOf(l) \in Events
  BY EventBusAssumption DEF EventBusAssumption, Client, EventOf

LEMMA InitTyped == Init => TypeOK
  BY EventBusAssumption, SMT DEF Init, TypeOK, PCs, EventBusAssumption

(* A listener that gives up event.L is the only one that had it: this is   *)
(* why the types, which say who holds the lock, need OneAtATime.           *)
LEMMA StepTyped ==
  ASSUME TypeOK, OneAtATime, [Next]_vars
  PROVE  TypeOK'
<1> USE Pairs DEF PCs, history
<1>1. ASSUME NEW l \in Listeners, On(l) PROVE TypeOK'
  BY <1>1, SMT DEF On, TypeOK
<1>2. ASSUME NEW l \in Listeners, CheckOff(l) PROVE TypeOK'
  BY <1>2, SMT DEF CheckOff, TypeOK
<1>3. ASSUME NEW l \in Listeners, Lock(l) PROVE TypeOK'
  BY <1>3, SMT DEF Lock, TypeOK
<1>4. ASSUME NEW l \in Listeners, Rewake(l) PROVE TypeOK'
  BY <1>4, SMT DEF Rewake, TypeOK
<1>5. ASSUME NEW l \in Listeners, Cond(l) PROVE TypeOK'
  BY <1>5, SMT DEF Cond, TypeOK
<1>6. ASSUME NEW l \in Listeners, Wait(l) PROVE TypeOK'
  BY <1>6, SMT DEF Wait, TypeOK, OneAtATime
<1>7. ASSUME NEW l \in Listeners, Handled(l) PROVE TypeOK'
  BY <1>7, SMT DEF Handled, TypeOK, OneAtATime
<1>8. ASSUME NEW l \in Listeners, Off(l) PROVE TypeOK'
  BY <1>8, SMT DEF Off, TypeOK
<1>9. ASSUME NEW e \in Events, Emit(e) PROVE TypeOK'
  BY <1>9, EventBusAssumption, SMT DEF Emit, TypeOK, EventBusAssumption
<1>10. CASE UNCHANGED vars
  BY <1>10, SMT DEF vars, TypeOK
<1> QED
  BY <1>1, <1>2, <1>3, <1>4, <1>5, <1>6, <1>7, <1>8, <1>9, <1>10 DEF Next

(* Who enters the condition finds event.L free, so nobody else is there.   *)
LEMMA StepExclusive ==
  ASSUME TypeOK, OneAtATime, [Next]_vars
  PROVE  OneAtATime'
<1> USE Pairs DEF PCs, history
<1>1. ASSUME NEW l \in Listeners, On(l) PROVE OneAtATime'
  BY <1>1, SMT DEF On, TypeOK, OneAtATime
<1>2. ASSUME NEW l \in Listeners, CheckOff(l) PROVE OneAtATime'
  BY <1>2, SMT DEF CheckOff, TypeOK, OneAtATime
<1>3. ASSUME NEW l \in Listeners, Lock(l) PROVE OneAtATime'
  BY <1>3, SMT DEF Lock, TypeOK, OneAtATime
<1>4. ASSUME NEW l \in Listeners, Rewake(l) PROVE OneAtATime'
  BY <1>4, SMT DEF Rewake, TypeOK, OneAtATime
<1>5. ASSUME NEW l \in Listeners, Cond(l) PROVE OneAtATime'
  BY <1>5, SMT DEF Cond, TypeOK, OneAtATime
<1>6. ASSUME NEW l \in Listeners, Wait(l) PROVE OneAtATime'
  BY <1>6, SMT DEF Wait, TypeOK, OneAtATime
<1>7. ASSUME NEW l \in Listeners, Handled(l) PROVE OneAtATime'
  BY <1>7, SMT DEF Handled, TypeOK, OneAtATime
<1>8. ASSUME NEW l \in Listeners, Off(l) PROVE OneAtATime'
  BY <1>8, SMT DEF Off, OneAtATime
<1>9. ASSUME NEW e \in Events, Emit(e) PROVE OneAtATime'
  BY <1>9, SMT DEF Emit, TypeOK, OneAtATime
<1>10. CASE UNCHANGED vars
  BY <1>10, SMT DEF vars, OneAtATime
<1> QED
  BY <1>1, <1>2, <1>3, <1>4, <1>5, <1>6, <1>7, <1>8, <1>9, <1>10 DEF Next

LEMMA BusInvariant == Spec => [](TypeOK /\ OneAtATime)
<1>1. Init => TypeOK /\ OneAtATime
  BY InitTyped DEF Init, OneAtATime
<1>2. TypeOK /\ OneAtATime /\ [Next]_vars => (TypeOK /\ OneAtATime)'
  BY StepTyped, StepExclusive
<1> QED
  BY <1>1, <1>2, PTL DEF Spec

(* The types of the bus, and that event.L is locked while a condition or a *)
(* handler of the event runs (client.go:39-50).                            *)
THEOREM BusTypeCorrect == Spec => []TypeOK
  BY BusInvariant, PTL

(* Conditions and handlers of one event exclude each other, for any number *)
(* of clients and emissions (client.go:25, 39-50).                         *)
THEOREM HandlersExclude == Spec => []OneAtATime
  BY BusInvariant, PTL
-------------------------------------------------------------------------------
(* What emitted promises to a listener that is alone on its client: it is  *)
(* reset when the loop begins, a waking that Cond has not counted yet      *)
(* stands for an emission that was not counted, and the handler is called  *)
(* from the Limit-th count on.                                             *)
CountOf(l) ==
    /\ pc[l] \in {"new", "top", "locking", "over"} => ~emitted[Client(l)]
    /\ counter[l] <= emits[EventOf(l)]
    /\ pc[l] = "woken" => counter[l] + 1 <= emits[EventOf(l)]
    /\ pc[l] = "cond" /\ emitted[Client(l)] => counter[l] + 1 <= emits[EventOf(l)]
    /\ calls[l] = 0 \/ calls[l] + Limit - 1 <= counter[l]

CountInv == \A l \in Listeners : Alone(l) => CountOf(l)

LEMMA InitCount == Init => CountInv
  BY Pairs, EventBusAssumption, SMT DEF Init, CountInv, CountOf, EventBusAssumption

LEMMA StepCount ==
  ASSUME TypeOK, CountInv, [Next]_vars
  PROVE  CountInv'
<1> USE Pairs, EventBusAssumption DEF PCs, history, EventBusAssumption, CountOf, Alone
<1>0. \A l \in Listeners : counter[l] \in Nat /\ calls[l] \in Nat /\ emits[EventOf(l)] \in Nat
  BY SMT DEF TypeOK
<1>1. ASSUME NEW l \in Listeners, On(l) PROVE CountInv'
  BY <1>1, SMT DEF On, TypeOK, CountInv
<1>2. ASSUME NEW l \in Listeners, CheckOff(l) PROVE CountInv'
  BY <1>2, SMT DEF CheckOff, TypeOK, CountInv
<1>3. ASSUME NEW l \in Listeners, Lock(l) PROVE CountInv'
  BY <1>3, SMT DEF Lock, TypeOK, CountInv
<1>4. ASSUME NEW l \in Listeners, Rewake(l) PROVE CountInv'
  BY <1>4, SMT DEF Rewake, TypeOK, CountInv
<1>5. ASSUME NEW l \in Listeners, Cond(l) PROVE CountInv'
  BY <1>0, <1>5, SMT DEF Cond, TypeOK, CountInv
<1>6. ASSUME NEW l \in Listeners, Wait(l) PROVE CountInv'
  BY <1>6, SMT DEF Wait, TypeOK, CountInv
<1>7. ASSUME NEW l \in Listeners, Handled(l) PROVE CountInv'
  BY <1>7, SMT DEF Handled, TypeOK, CountInv
<1>8. ASSUME NEW l \in Listeners, Off(l) PROVE CountInv'
  BY <1>8, SMT DEF Off, CountInv
<1>9. ASSUME NEW e \in Events, Emit(e) PROVE CountInv'
  BY <1>0, <1>9, SMT DEF Emit, TypeOK, CountInv
<1>10. CASE UNCHANGED vars
  BY <1>10, SMT DEF vars, CountInv
<1> QED
  BY <1>1, <1>2, <1>3, <1>4, <1>5, <1>6, <1>7, <1>8, <1>9, <1>10 DEF Next

(* Every call of the handler of a listener that is alone on its client     *)
(* stands for an emission of its own event (client.go:39-49).              *)
THEOREM CallsStandForEmissions == Spec => []HandledWasEmitted
<1>1. TypeOK /\ CountInv => HandledWasEmitted
  BY Pairs, EventBusAssumption, SMT
     DEF TypeOK, CountInv, CountOf, HandledWasEmitted, EventBusAssumption
<1>2. TypeOK /\ CountInv /\ [Next]_vars => CountInv'
  BY StepCount
<1> QED
  BY <1>1, <1>2, InitCount, BusTypeCorrect, PTL DEF Spec
-------------------------------------------------------------------------------
(* What off promises to a listener that is alone on its client: the value  *)
(* that Off left is there until the listener is over, and a handler called *)
(* since then has only the top of the loop before it.                      *)
OffOf(l) ==
    /\ off[Client(l)] => l \in offs
    /\ l \in offs => off[Client(l)] \/ pc[l] = "over"
    /\ l \notin offs => late[l] = 0
    /\ late[l] <= 1
    /\ late[l] = 1 => pc[l] \in {"handling", "top", "over"}

OffInv == \A l \in Listeners : Alone(l) => OffOf(l)

LEMMA InitOff == Init => OffInv
  BY Pairs, SMT DEF Init, OffInv, OffOf

LEMMA StepOff ==
  ASSUME TypeOK, OffInv, [Next]_vars
  PROVE  OffInv'
<1> USE Pairs DEF PCs, history, OffOf, Alone
<1>0. \A l \in Listeners : late[l] \in Nat
  BY SMT DEF TypeOK
<1>1. ASSUME NEW l \in Listeners, On(l) PROVE OffInv'
  BY <1>1, SMT DEF On, TypeOK, OffInv
<1>2. ASSUME NEW l \in Listeners, CheckOff(l) PROVE OffInv'
  BY <1>0, <1>2, SMT DEF CheckOff, TypeOK, OffInv
<1>3. ASSUME NEW l \in Listeners, Lock(l) PROVE OffInv'
  BY <1>3, SMT DEF Lock, TypeOK, OffInv
<1>4. ASSUME NEW l \in Listeners, Rewake(l) PROVE OffInv'
  BY <1>4, SMT DEF Rewake, TypeOK, OffInv
<1>5. ASSUME NEW l \in Listeners, Cond(l) PROVE OffInv'
  BY <1>0, <1>5, SMT DEF Cond, TypeOK, OffInv
<1>6. ASSUME NEW l \in Listeners, Wait(l) PROVE OffInv'
  BY <1>6, SMT DEF Wait, TypeOK, OffInv
<1>7. ASSUME NEW l \in Listeners, Handled(l) PROVE OffInv'
  BY <1>7, SMT DEF Handled, TypeOK, OffInv
<1>8. ASSUME NEW l \in Listeners, Off(l) PROVE OffInv'
  BY <1>0, <1>8, SMT DEF Off, TypeOK, OffInv
<1>9. ASSUME NEW e \in Events, Emit(e) PROVE OffInv'
  BY <1>0, <1>9, SMT DEF Emit, TypeOK, OffInv
<1>10. CASE UNCHANGED vars
  BY <1>10, SMT DEF vars, OffInv
<1> QED
  BY <1>1, <1>2, <1>3, <1>4, <1>5, <1>6, <1>7, <1>8, <1>9, <1>10 DEF Next

(* After Off, the handler of a listener that is alone on its client is     *)
(* called at most once more, wherever Off found it (client.go:33-37).      *)
THEOREM AtMostOneLateCall == Spec => []OneCallAfterOff
<1>1. OffInv => OneCallAfterOff
  BY DEF OffInv, OffOf, OneCallAfterOff
<1>2. TypeOK /\ OffInv /\ [Next]_vars => OffInv'
  BY StepOff
<1> QED
  BY <1>1, <1>2, InitOff, BusTypeCorrect, PTL DEF Spec
================================================================================
