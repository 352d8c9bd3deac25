------------------------------ MODULE Broadcaster ------------------------------
(***************************************************************************)
(* The linked channel of broadcast/broadcaster.go.  The values written     *)
(* form a chain of channels of capacity 1: the broadcast in a channel      *)
(* holds a value and the next channel.  A receiver takes the broadcast out *)
(* of its channel, puts it back for the others and moves on.               *)
(*                                                                         *)
(* Goroutines: the broadcaster's own, the writers, and one per receiver,   *)
(* which calls Listen once and then Read again and again.  listenc, sendc  *)
(* and the reply of Listen are unbuffered: a send and its receipt are one  *)
(* step.  Listen and Write hold mux.RLock until they return.               *)
(***************************************************************************)
EXTENDS Naturals, Sequences, FiniteSets

CONSTANTS Writers, Receivers, Values,
          Modifiers,    (* receivers whose handler returns another value    *)
          Failers,      (* receivers whose handler may return an error      *)
          MaxWrites,    (* bound: number of values written                  *)
          None

ASSUME BroadcasterAssumption ==
    /\ IsFiniteSet(Writers)
    /\ Modifiers \subseteq Receivers
    /\ Failers \subseteq Receivers
    /\ MaxWrites \in Nat
    /\ None \notin Values \cup Nat

VARIABLES buf,          (* buf[ch]: the broadcast in channel ch, or None    *)
          currc,        (* the channel of the next broadcast                *)
          bpc,          (* the broadcaster: "select", "locking", "done"     *)
          shutdown,     (* the channel shutdown is closed                   *)
          isClosed,
          wpc,          (* wpc[w]: "idle", "sending", "refused"             *)
          wval,         (* wval[w]: what w writes                           *)
          rpc,          (* rpc[r]: where r is                               *)
          rc,           (* rc[r]: Receiver.c                                *)
          hold,         (* hold[r]: the broadcast Read has taken            *)
          written,      (* history: the values written                      *)
          cut,          (* history: the channels whose broadcast was lost   *)
          start,        (* history: Len(written) when r began to listen     *)
          received      (* history: the values r has read                   *)

closeVars == <<bpc, shutdown, isClosed>>
writeVars == <<wpc, wval, written, currc>>
readVars == <<received, cut>>
vars == <<buf, closeVars, writeVars, start, rpc, rc, hold, readVars>>

(* Channels are numbered in the order they are made; there is one more     *)
(* than values written.                                                    *)
Chans == 1..(MaxWrites + 1)
NewChan == Len(written) + 2

Broadcasts == [c : Chans, v : Values, mods : SUBSET Modifiers]

(* Goroutines that hold mux.RLock.                                         *)
Sending == {w \in Writers : wpc[w] = "sending"}
Listening == {r \in Receivers : rpc[r] = "listening"}

(* Receivers Listen has returned, and that have not seen the shutdown.     *)
Attached == {r \in Receivers : rpc[r] \in {"ready", "holding"}}

TypeOK ==
    /\ buf \in [Chans -> Broadcasts \cup {None}]
    /\ currc \in Chans
    /\ bpc \in {"select", "locking", "done"}
    /\ shutdown \in BOOLEAN
    /\ isClosed \in BOOLEAN
    /\ wpc \in [Writers -> {"idle", "sending", "refused"}]
    /\ wval \in [Writers -> Values \cup {None}]
    /\ rpc \in [Receivers -> {"new", "listening", "ready", "holding", "ended", "refused"}]
    /\ cut \subseteq Chans
    /\ rc \in [Receivers -> Chans \cup {None}]
    /\ \A r \in Attached : rc[r] # None
    /\ hold \in [Receivers -> Broadcasts \cup {None}]
    /\ written \in Seq(Values) /\ Len(written) <= MaxWrites
    /\ start \in [Receivers -> 0..MaxWrites]
    /\ received \in [Receivers -> Seq(Values)]

Init ==
    /\ buf = [ch \in Chans |-> None]
    /\ currc = 1
    /\ bpc = "select"
    /\ shutdown = FALSE
    /\ isClosed = FALSE
    /\ wpc = [w \in Writers |-> "idle"]
    /\ wval = [w \in Writers |-> None]
    /\ rpc = [r \in Receivers |-> "new"]
    /\ cut = {}
    /\ rc = [r \in Receivers |-> None]
    /\ hold = [r \in Receivers |-> None]
    /\ written = <<>>
    /\ start = [r \in Receivers |-> 0]
    /\ received = [r \in Receivers |-> <<>>]
-------------------------------------------------------------------------------
(* Write                                                                   *)

(* mux.RLock succeeds and the broadcaster is not closed: Write is at       *)
(* b.sendc <- v.  The bound leaves room for every write that has begun.    *)
WriteStart(w, v) ==
    /\ wpc[w] = "idle"
    /\ Len(written) + Cardinality(Sending) < MaxWrites
    /\ bpc # "locking"
    /\ ~isClosed
    /\ wpc' = [wpc EXCEPT ![w] = "sending"]
    /\ wval' = [wval EXCEPT ![w] = v]
    /\ UNCHANGED <<buf, closeVars, written, currc, start, rpc, rc, hold, readVars>>

WriteRefused(w) ==
    /\ wpc[w] = "idle"
    /\ bpc # "locking"
    /\ isClosed
    /\ wpc' = [wpc EXCEPT ![w] = "refused"]
    /\ UNCHANGED <<buf, closeVars, wval, written, currc, start, rpc, rc, hold, readVars>>

(* The broadcaster receives v, sends a broadcast to currc and makes a new  *)
(* channel the current one; Write returns.                                 *)
WriteDone(w) ==
    /\ wpc[w] = "sending"
    /\ bpc = "select"
    /\ buf[currc] = None
    /\ buf' = [buf EXCEPT ![currc] = [c |-> NewChan, v |-> wval[w], mods |-> {}]]
    /\ currc' = NewChan
    /\ written' = Append(written, wval[w])
    /\ wpc' = [wpc EXCEPT ![w] = "idle"]
    /\ wval' = [wval EXCEPT ![w] = None]
    /\ UNCHANGED <<closeVars, start, rpc, rc, hold, readVars>>
-------------------------------------------------------------------------------
(* Listen                                                                  *)

(* mux.RLock succeeds, not closed: Listen is at b.listenc <- c.            *)
ListenStart(r) ==
    /\ rpc[r] = "new"
    /\ bpc # "locking"
    /\ ~isClosed
    /\ rpc' = [rpc EXCEPT ![r] = "listening"]
    /\ UNCHANGED <<buf, closeVars, writeVars, start, rc, hold, readVars>>

ListenRefused(r) ==
    /\ rpc[r] = "new"
    /\ bpc # "locking"
    /\ isClosed
    /\ rpc' = [rpc EXCEPT ![r] = "refused"]
    /\ UNCHANGED <<buf, closeVars, writeVars, start, rc, hold, readVars>>

(* The broadcaster receives c and replies with currc; Listen returns.      *)
ListenDone(r) ==
    /\ rpc[r] = "listening"
    /\ bpc = "select"
    /\ rpc' = [rpc EXCEPT ![r] = "ready"]
    /\ rc' = [rc EXCEPT ![r] = currc]
    /\ start' = [start EXCEPT ![r] = Len(written)]
    /\ UNCHANGED <<buf, closeVars, writeVars, hold, readVars>>
-------------------------------------------------------------------------------
(* Close                                                                   *)

Close ==
    /\ ~shutdown
    /\ shutdown' = TRUE
    /\ UNCHANGED <<buf, bpc, isClosed, writeVars, start, rpc, rc, hold, readVars>>

(* The broadcaster's select takes shutdown; it calls mux.Lock.             *)
ShutdownSeen ==
    /\ bpc = "select"
    /\ shutdown
    /\ bpc' = "locking"
    /\ UNCHANGED <<buf, shutdown, isClosed, writeVars, start, rpc, rc, hold, readVars>>

ShutdownUnlocked ==             \* mutant: the channels are closed without mux.Lock
    /\ bpc = "locking"
    /\ isClosed' = TRUE
    /\ bpc' = "done"
    /\ UNCHANGED <<buf, shutdown, writeVars, start, rpc, rc, hold, readVars>>

(* mux.Lock succeeds: isClosed is set, listenc and sendc are closed.       *)
ShutdownDone ==
    /\ bpc = "locking"
    /\ Sending = {} /\ Listening = {}
    /\ isClosed' = TRUE
    /\ bpc' = "done"
    /\ UNCHANGED <<buf, shutdown, writeVars, start, rpc, rc, hold, readVars>>
-------------------------------------------------------------------------------
(* Read                                                                    *)

ReadPeek(r) ==                  \* mutant: the broadcast stays in the channel
    /\ rpc[r] = "ready"
    /\ buf[rc[r]] # None
    /\ hold' = [hold EXCEPT ![r] = buf[rc[r]]]
    /\ rpc' = [rpc EXCEPT ![r] = "holding"]
    /\ UNCHANGED <<buf, closeVars, writeVars, start, rc, readVars>>

(* The select receives the broadcast; the handlers are called next.        *)
ReadTake(r) ==
    /\ rpc[r] = "ready"
    /\ buf[rc[r]] # None
    /\ hold' = [hold EXCEPT ![r] = buf[rc[r]]]
    /\ buf' = [buf EXCEPT ![rc[r]] = None]
    /\ rpc' = [rpc EXCEPT ![r] = "holding"]
    /\ UNCHANGED <<closeVars, writeVars, start, rc, readVars>>

HandledNotKept(r) == hold[r]    \* mutant: line 107 is missing

(* The broadcast with the value the handler of r has returned.             *)
Handled(r) == [hold[r] EXCEPT !.mods = @ \cup ({r} \cap Modifiers)]

PutNothingBack(r) ==            \* mutant: line 109 is missing
    /\ rpc[r] = "holding"
    /\ rc' = [rc EXCEPT ![r] = hold[r].c]
    /\ received' = [received EXCEPT ![r] = Append(@, hold[r].v)]
    /\ hold' = [hold EXCEPT ![r] = None]
    /\ rpc' = [rpc EXCEPT ![r] = "ready"]
    /\ UNCHANGED <<buf, closeVars, writeVars, start, cut>>

PutBackInNext(r) ==             \* mutant: lines 109 and 110 are swapped
    /\ rpc[r] = "holding"
    /\ buf[hold[r].c] = None
    /\ buf' = [buf EXCEPT ![hold[r].c] = Handled(r)]
    /\ rc' = [rc EXCEPT ![r] = hold[r].c]
    /\ received' = [received EXCEPT ![r] = Append(@, hold[r].v)]
    /\ hold' = [hold EXCEPT ![r] = None]
    /\ rpc' = [rpc EXCEPT ![r] = "ready"]
    /\ UNCHANGED <<closeVars, writeVars, start, cut>>

(* The handlers succeed: the broadcast goes back, Read moves on and        *)
(* returns the value it took.                                              *)
ReadDone(r) ==
    /\ rpc[r] = "holding"
    /\ buf[rc[r]] = None
    /\ buf' = [buf EXCEPT ![rc[r]] = Handled(r)]
    /\ rc' = [rc EXCEPT ![r] = hold[r].c]
    /\ received' = [received EXCEPT ![r] = Append(@, hold[r].v)]
    /\ hold' = [hold EXCEPT ![r] = None]
    /\ rpc' = [rpc EXCEPT ![r] = "ready"]
    /\ UNCHANGED <<closeVars, writeVars, start, cut>>

(* A handler returns an error: so does Read, and the broadcast is lost.    *)
ReadFails(r) ==
    /\ rpc[r] = "holding"
    /\ r \in Failers
    /\ hold' = [hold EXCEPT ![r] = None]
    /\ cut' = cut \cup {rc[r]}
    /\ rpc' = [rpc EXCEPT ![r] = "ready"]
    /\ UNCHANGED <<buf, closeVars, writeVars, start, rc, received>>

ReadClosedLate(r) ==            \* mutant: Read waits for isClosed
    /\ rpc[r] = "ready"
    /\ isClosed
    /\ rpc' = [rpc EXCEPT ![r] = "ended"]
    /\ rc' = [rc EXCEPT ![r] = None]
    /\ UNCHANGED <<buf, closeVars, writeVars, start, hold, readVars>>

(* The select takes shutdown: Read returns BroadcasterClosed.              *)
ReadClosed(r) ==
    /\ rpc[r] = "ready"
    /\ shutdown
    /\ rpc' = [rpc EXCEPT ![r] = "ended"]
    /\ rc' = [rc EXCEPT ![r] = None]
    /\ UNCHANGED <<buf, closeVars, writeVars, start, hold, readVars>>
-------------------------------------------------------------------------------

WriterStep(w) == WriteRefused(w) \/ WriteDone(w) \/ \E v \in Values : WriteStart(w, v)

ReceiverStep(r) == \/ ListenStart(r) \/ ListenRefused(r) \/ ListenDone(r)
                   \/ ReadTake(r) \/ ReadDone(r) \/ ReadFails(r) \/ ReadClosed(r)

Next == \/ Close \/ ShutdownSeen \/ ShutdownDone
        \/ \E w \in Writers : WriterStep(w)
        \/ \E r \in Receivers : ReceiverStep(r)

Spec == Init /\ [][Next]_vars

(***************************************************************************)
(* Every goroutine that can go on does, a handler returns, and a receiver  *)
(* calls Read again and again, as the goroutines of broadcaster_test.go    *)
(* do.  Nobody has to call Write, Listen or Close.                         *)
(***************************************************************************)
Fairness ==
    /\ WF_vars(ShutdownSeen)
    /\ WF_vars(ShutdownDone)
    /\ \A w \in Writers : WF_vars(WriteDone(w))
    /\ \A r \in Receivers : /\ WF_vars(ListenDone(r))
                            /\ WF_vars(ReadTake(r))
                            /\ WF_vars(ReadDone(r) \/ ReadFails(r))
                            /\ WF_vars(ReadClosed(r))

FairSpec == Spec /\ Fairness
-------------------------------------------------------------------------------
(* Safety                                                                  *)

(* The sends that hold no lock and have no alternative never block: the    *)
(* broadcaster's to currc (broadcaster.go:50), for which every goroutine   *)
(* waits, and that of Read, which puts a broadcast back (line 109).        *)
SendsNeverBlock ==
    /\ buf[currc] = None
    /\ \A r \in Receivers : rpc[r] = "holding" => buf[rc[r]] = None

(* Nobody sends to listenc or sendc when they are closed, a panic.         *)
NoSendOnClosed == isClosed => Sending = {} /\ Listening = {}

(* What each goroutine of broadcaster.go relies on: the variables are      *)
(* well typed, neither the broadcaster's send to currc (line 50) nor       *)
(* Read's (line 109) finds the place of its channel taken, and listenc and *)
(* sendc are not closed under Listen and Write (lines 59-60, 81, 92).      *)
ChainInv == TypeOK /\ SendsNeverBlock /\ NoSendOnClosed

(* A handler that replaces the value does so once for all the receivers    *)
(* that read the value afterwards (broadcaster.go:107-109): the broadcast  *)
(* of a channel carries the changes of exactly the modifiers that have     *)
(* read it.                                                                *)
ModificationsAccumulate ==
    \A ch \in Chans : buf[ch] # None =>
        buf[ch].mods = {r \in Modifiers : start[r] < ch /\ ch <= start[r] + Len(received[r])}

Promise == INSTANCE BroadcastLog
               WITH Outside <- None,
                    log <- written,
                    pos <- [r \in Receivers |->
                               IF rpc[r] \in {"new", "listening", "refused"} THEN None
                               ELSE start[r] + Len(received[r])],
                    last <- [r \in Receivers |->
                                IF received[r] = <<>> THEN None
                                ELSE received[r][Len(received[r])]],
                    closing <- shutdown,
                    closed <- isClosed

(* A broadcaster is a BroadcastLog: each receiver reads the values written *)
(* since it began to listen, all of them, each once and in order, however  *)
(* the receivers take turns with the broadcasts (broadcaster.go:47-53,     *)
(* 98-112).                                                                *)
KeepsLog == Promise!Spec
-------------------------------------------------------------------------------
(* Liveness                                                                *)

(* "Write broadcast a value to all listeners" (broadcaster.go:85): every   *)
(* value reaches every receiver that listens when it is written, unless    *)
(* the broadcaster is closed first or a handler's error has cut the chain  *)
(* (line 105) between the receiver and the value.                          *)
EveryReceiverReads ==
    \A r \in Receivers : \A n \in 1..MaxWrites :
        (r \in Attached /\ start[r] < n /\ n <= Len(written))
            ~> LET pos == start[r] + Len(received[r])
               IN  pos >= n \/ shutdown \/ \E ch \in cut : pos < ch /\ ch <= n

(* After Close the Read of every receiver returns BroadcasterClosed        *)
(* (broadcaster.go:112-114), whatever becomes of the broadcaster itself.   *)
ReceiversEnd == \A r \in Receivers : (shutdown /\ r \in Attached) ~> rpc[r] = "ended"

(* "after stop can't listen" (broadcaster_test.go:45): Listen returns, in  *)
(* the end with an error.                                                  *)
ListenReturns == \A r \in Receivers : rpc[r] = "listening" ~> rpc[r] # "listening"
================================================================================
