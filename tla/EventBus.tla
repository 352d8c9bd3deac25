-------------------------------- MODULE EventBus --------------------------------
(***************************************************************************)
(* The event clients and the emitter of event/client.go and                *)
(* event/server.go.  A listener <<c, e>> is the goroutine that a call of   *)
(* On(e) on client c starts.  All listeners of an event share its          *)
(* sync.Cond and with it the mutex event.L; all listeners of a client      *)
(* share its flag emitted and its channel off, which has room for one.     *)
(*                                                                         *)
(* What an event's Cond() does is the application's choice: here it is the *)
(* one of event_test.go, which counts the evaluations that see emitted and *)
(* holds from the Limit-th on.  Handlers end, and do not use the bus.      *)
(***************************************************************************)
EXTENDS Naturals

CONSTANTS Clients, Events,
          Listeners,    (* the calls of On: pairs of a client and an event  *)
          Limit,        (* the limit of Cond                                *)
          MaxEmits      (* bound: Emit is called so often for each event    *)

ASSUME EventBusAssumption ==
    /\ Listeners \subseteq Clients \X Events
    /\ Limit \in Nat \ {0}
    /\ MaxEmits \in Nat

VARIABLES pc,           (* where each listener is                           *)
          locked,       (* locked[e]: somebody holds event.L                *)
          emitted,      (* emitted[c]: the flag of client c                 *)
          off,          (* off[c]: there is a value in the channel off      *)
          counter,      (* counter[l]: what Cond has counted for l          *)
          emits,        (* history: the calls of Emit for each event        *)
          calls,        (* history: the calls of each handler               *)
          offs,         (* history: the listeners that Off was called for   *)
          late          (* history: the calls of handlers since then        *)

vars == <<pc, locked, emitted, off, counter, emits, calls, offs, late>>
history == <<emits, calls, offs, late>>

PCs == {"new", "top", "locking", "cond", "deciding", "waiting", "woken", "handling", "over"}
Client(l) == l[1]
EventOf(l) == l[2]

TypeOK ==
    /\ pc \in [Listeners -> PCs]
    /\ locked \in [Events -> BOOLEAN]
    /\ emitted \in [Clients -> BOOLEAN]
    /\ off \in [Clients -> BOOLEAN]
    /\ counter \in [Listeners -> Nat]
    /\ emits \in [Events -> 0..MaxEmits]
    /\ calls \in [Listeners -> Nat]
    /\ late \in [Listeners -> Nat]
    /\ offs \subseteq Listeners
    /\ \A l \in Listeners : pc[l] \in {"cond", "deciding", "handling"} => locked[EventOf(l)]

Init ==
    /\ pc = [l \in Listeners |-> "new"]
    /\ locked = [e \in Events |-> FALSE]
    /\ emitted = [c \in Clients |-> FALSE]
    /\ off = [c \in Clients |-> FALSE]
    /\ counter = [l \in Listeners |-> 0]
    /\ emits = [e \in Events |-> 0]
    /\ calls = [l \in Listeners |-> 0]
    /\ late = [l \in Listeners |-> 0]
    /\ offs = {}

(* On(e) on client c starts the listener.                                  *)
On(l) ==
    /\ pc[l] = "new"
    /\ pc' = [pc EXCEPT ![l] = "top"]
    /\ UNCHANGED <<locked, emitted, off, counter, history>>

CheckOffNever(l) ==             \* mutant: the loop never looks at off
    /\ pc[l] = "top"
    /\ pc' = [pc EXCEPT ![l] = "locking"]
    /\ UNCHANGED <<locked, emitted, off, counter, history>>

(* The select of the loop: a value in off ends this listener.              *)
CheckOff(l) ==
    /\ pc[l] = "top"
    /\ pc' = [pc EXCEPT ![l] = IF off[Client(l)] THEN "over" ELSE "locking"]
    /\ off' = [off EXCEPT ![Client(l)] = FALSE]
    /\ UNCHANGED <<locked, emitted, counter, history>>

(* event.L.Lock() of the loop.                                             *)
Lock(l) ==
    /\ pc[l] = "locking"
    /\ ~locked[EventOf(l)]
    /\ locked' = [locked EXCEPT ![EventOf(l)] = TRUE]
    /\ pc' = [pc EXCEPT ![l] = "cond"]
    /\ UNCHANGED <<emitted, off, counter, history>>

RewakeUnlocked(l) ==            \* mutant: Wait returns without the lock
    /\ pc[l] = "woken"
    /\ locked' = [locked EXCEPT ![EventOf(l)] = TRUE]
    /\ emitted' = [emitted EXCEPT ![Client(l)] = TRUE]
    /\ pc' = [pc EXCEPT ![l] = "cond"]
    /\ UNCHANGED <<off, counter, history>>

(* Wait takes event.L again and returns; emitted is set.                   *)
Rewake(l) ==
    /\ pc[l] = "woken"
    /\ ~locked[EventOf(l)]
    /\ locked' = [locked EXCEPT ![EventOf(l)] = TRUE]
    /\ emitted' = [emitted EXCEPT ![Client(l)] = TRUE]
    /\ pc' = [pc EXCEPT ![l] = "cond"]
    /\ UNCHANGED <<off, counter, history>>

(* evt.Cond(), as the test has it: it counts when IsEmitted says so.  The  *)
(* handler is called when it holds.                                        *)
Cond(l) ==
    LET n == counter[l] + 1
        holds == emitted[Client(l)] /\ n >= Limit
    IN  /\ pc[l] = "cond"
        /\ pc' = [pc EXCEPT ![l] = IF holds THEN "handling" ELSE "deciding"]
        /\ counter' = IF emitted[Client(l)] THEN [counter EXCEPT ![l] = n] ELSE counter
        /\ calls' = IF holds THEN [calls EXCEPT ![l] = @ + 1] ELSE calls
        /\ late' = IF holds /\ l \in offs THEN [late EXCEPT ![l] = @ + 1] ELSE late
        /\ UNCHANGED <<locked, emitted, off, emits, offs>>

(* Wait joins the waiters of the event and releases event.L.               *)
Wait(l) ==
    /\ pc[l] = "deciding"
    /\ pc' = [pc EXCEPT ![l] = "waiting"]
    /\ locked' = [locked EXCEPT ![EventOf(l)] = FALSE]
    /\ UNCHANGED <<emitted, off, counter, history>>

HandledNoReset(l) ==            \* mutant: emitted is not reset
    /\ pc[l] = "handling"
    /\ pc' = [pc EXCEPT ![l] = "top"]
    /\ locked' = [locked EXCEPT ![EventOf(l)] = FALSE]
    /\ UNCHANGED <<emitted, off, counter, history>>

HandledKeepsLock(l) ==          \* mutant: event.L is not released
    /\ pc[l] = "handling"
    /\ pc' = [pc EXCEPT ![l] = "top"]
    /\ emitted' = [emitted EXCEPT ![Client(l)] = FALSE]
    /\ UNCHANGED <<locked, off, counter, history>>

(* The handler returns: emitted is reset and event.L released.             *)
Handled(l) ==
    /\ pc[l] = "handling"
    /\ pc' = [pc EXCEPT ![l] = "top"]
    /\ emitted' = [emitted EXCEPT ![Client(l)] = FALSE]
    /\ locked' = [locked EXCEPT ![EventOf(l)] = FALSE]
    /\ UNCHANGED <<off, counter, history>>

(* Emit(e): every listener that waits is woken; nobody else learns of it.  *)
Emit(e) ==
    /\ emits[e] < MaxEmits
    /\ emits' = [emits EXCEPT ![e] = @ + 1]
    /\ pc' = [l \in Listeners |->
                IF EventOf(l) = e /\ pc[l] = "waiting" THEN "woken" ELSE pc[l]]
    /\ UNCHANGED <<locked, emitted, off, counter, calls, offs, late>>

(* Off(e) on client c: it does not look at e, and waits while off is full. *)
(* It is called at most once for each listener.                            *)
Off(l) ==
    /\ l \notin offs
    /\ ~off[Client(l)]
    /\ off' = [off EXCEPT ![Client(l)] = TRUE]
    /\ offs' = offs \cup {l}
    /\ UNCHANGED <<pc, locked, emitted, counter, emits, calls, late>>

Next == \/ \E l \in Listeners :
              \/ On(l) \/ CheckOff(l) \/ Lock(l) \/ Rewake(l)
              \/ Cond(l) \/ Wait(l) \/ Handled(l) \/ Off(l)
        \/ \E e \in Events : Emit(e)

Spec == Init /\ [][Next]_vars

(* The listeners' goroutines go on when they can, and nobody waits for a   *)
(* mutex for ever that is released again and again: Go's mutexes are       *)
(* handed to their longest waiter.  Nothing need be emitted or turned off. *)
FairSpec ==
    /\ Spec
    /\ \A l \in Listeners :
           /\ WF_vars(CheckOff(l) \/ Cond(l) \/ Wait(l) \/ Handled(l))
           /\ SF_vars(Lock(l) \/ Rewake(l))
-------------------------------------------------------------------------------
(* Conditions and handlers of one event run one at a time, whatever client *)
(* they belong to: "an event with synchronous callback" (client.go:25).    *)
OneAtATime ==
    \A l, k \in Listeners :
        /\ EventOf(l) = EventOf(k)
        /\ pc[l] \in {"cond", "deciding", "handling"}
        /\ pc[k] \in {"cond", "deciding", "handling"}
        => l = k

(* No other listener shares the emitted and the off of l's client.         *)
Alone(l) == \A k \in Listeners : Client(k) = Client(l) => k = l

(* A handler runs for emissions of its own event only, one call for each   *)
(* from the Limit-th on (client.go:39-49): neither waiting again, nor a    *)
(* restarted loop, nor a listener of another client may repeat one.        *)
HandledWasEmitted ==
    \A l \in Listeners :
        Alone(l) => calls[l] = 0 \/ calls[l] + Limit - 1 <= emits[EventOf(l)]

(* After Off, the handler of the client's listener is called at most once  *)
(* more (client.go:35-37): the loop meets off before the next event.       *)
OneCallAfterOff == \A l \in Listeners : Alone(l) => late[l] <= 1

(* A listener that waits when its event is emitted has its handler called  *)
(* if the emission is the Limit-th or later (client.go:40-46).             *)
WakingCalls ==
    \A l \in Listeners : \A k \in 0..(MaxEmits - 1) :
        Alone(l) /\ pc[l] = "woken" /\ counter[l] + 1 >= Limit /\ calls[l] = k ~> calls[l] > k
===============================================================================
