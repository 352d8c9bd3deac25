--------------------------- MODULE BroadcasterProofs ---------------------------
(***************************************************************************)
(* What Broadcaster keeps for any writers, receivers, values and handlers: *)
(* the sends that have no alternative find room, the changes of handlers   *)
(* reach exactly those who read later, and the whole is a BroadcastLog.    *)
(***************************************************************************)
EXTENDS Broadcaster, FiniteSetTheorems, TLAPS

(* How many values r has behind it, and the modifiers that have read the   *)
(* broadcast of channel ch.                                                *)
Pos(r) == start[r] + Len(received[r])
Passed(ch) == {r \in Modifiers : start[r] < ch /\ ch <= Pos(r)}

(* b is the broadcast of channel ch: it leads to the next channel.         *)
Carries(b, ch) == b = [c |-> ch + 1, v |-> written[ch], mods |-> Passed(ch)]

(* isClosed is set when the broadcaster ends, and then nobody sends to it. *)
CloseInv ==
    /\ isClosed <=> bpc = "done"
    /\ bpc # "select" => shutdown
    /\ NoSendOnClosed

(* currc is the channel after those written, and the bound leaves room for *)
(* every write that has begun.                                             *)
WriteInv ==
    /\ currc = Len(written) + 1
    /\ Len(written) + Cardinality(Sending) <= MaxWrites
    /\ \A w \in Sending : wval[w] \in Values

(* The channel of a receiver is the one after the values it has read.      *)
ReadInv ==
    \A r \in Receivers :
        /\ Pos(r) <= Len(written)
        /\ rpc[r] \in {"new", "listening", "refused"} => received[r] = <<>>
        /\ r \in Attached => rc[r] = Pos(r) + 1

(* The broadcast of a channel is in the channel or with one receiver.      *)
Holding(r) == rpc[r] = "holding"

ChannelInv ==
    /\ \A ch \in Chans : buf[ch] # None => ch <= Len(written) /\ Carries(buf[ch], ch)
    /\ \A r \in Receivers : Holding(r) =>
           /\ rc[r] <= Len(written)
           /\ Carries(hold[r], rc[r])
           /\ buf[rc[r]] = None
    /\ \A r, s \in Receivers : Holding(r) /\ Holding(s) /\ rc[r] = rc[s] => r = s

(* The inductive invariant.                                                *)
BroadcasterInv == TypeOK /\ CloseInv /\ WriteInv /\ ReadInv /\ ChannelInv

(* The numbers of the model.                                               *)
LEMMA Numbers ==
  ASSUME TypeOK
  PROVE  /\ MaxWrites \in Nat /\ Len(written) \in Nat /\ Len(written) <= MaxWrites
         /\ \A r \in Receivers : /\ start[r] \in Nat /\ start[r] <= MaxWrites
                                /\ Len(received[r]) \in Nat
                                /\ Pos(r) \in Nat
         /\ \A ch \in Chans : ch \in Nat
  BY BroadcasterAssumption, SMT DEF BroadcasterAssumption, TypeOK, Pos, Chans

(* Writers are finitely many, and so are those that send.                  *)
LEMMA SendingFinite == IsFiniteSet(Sending) /\ Cardinality(Sending) \in Nat
<1>1. Sending \subseteq Writers /\ IsFiniteSet(Writers)
  BY BroadcasterAssumption DEF BroadcasterAssumption, Sending
<1>2. IsFiniteSet(Sending)
  BY <1>1, FS_Subset
<1> QED
  BY <1>2, FS_CardinalityType

(* A write that is under way is within the bound.                          *)
LEMMA RoomToWrite ==
  ASSUME TypeOK, WriteInv, NEW w \in Sending
  PROVE  Len(written) < MaxWrites
<1>1. Cardinality(Sending) # 0
  BY SendingFinite, FS_EmptySet
<1> QED
  BY <1>1, SendingFinite, Numbers DEF WriteInv

(* The broadcast of a written channel is one, whatever it carries.         *)
LEMMA CarriedIsBroadcast ==
  ASSUME TypeOK, NEW ch \in Chans, ch <= Len(written), NEW b, Carries(b, ch)
  PROVE  /\ b \in Broadcasts
         /\ b.c = ch + 1 /\ b.v = written[ch] /\ b.v \in Values /\ b.mods = Passed(ch)
<1>1. ch \in 1..Len(written) /\ ch + 1 \in Chans
  BY Numbers, SMT DEF Chans
<1>2. written[ch] \in Values
  BY <1>1 DEF TypeOK
<1>3. Passed(ch) \in SUBSET Modifiers
  BY DEF Passed
<1> QED
  BY <1>1, <1>2, <1>3 DEF Carries, Broadcasts
-------------------------------------------------------------------------------
(* Each part of the invariant is preserved by every step.                  *)

LEMMA StepCloses ==
  ASSUME TypeOK, CloseInv, [Next]_vars
  PROVE  CloseInv'
<1> USE DEF CloseInv, NoSendOnClosed, Sending, Listening, closeVars, writeVars
<1>1. CASE Close
  BY <1>1 DEF Close
<1>2. CASE ShutdownSeen
  BY <1>2 DEF ShutdownSeen
<1>3. CASE ShutdownDone
  BY <1>3 DEF ShutdownDone, TypeOK
<1>4. ASSUME NEW w \in Writers, NEW v \in Values, WriteStart(w, v) PROVE CloseInv'
  BY <1>4 DEF WriteStart, TypeOK
<1>5. ASSUME NEW w \in Writers, WriteRefused(w) PROVE CloseInv'
  BY <1>5 DEF WriteRefused, TypeOK
<1>6. ASSUME NEW w \in Writers, WriteDone(w) PROVE CloseInv'
  BY <1>6 DEF WriteDone, TypeOK
<1>7. ASSUME NEW r \in Receivers, ListenStart(r) \/ ListenRefused(r) \/ ListenDone(r)
      PROVE  CloseInv'
  BY <1>7 DEF ListenStart, ListenRefused, ListenDone, TypeOK
<1>8. ASSUME NEW r \in Receivers, ReadTake(r) \/ ReadDone(r) \/ ReadFails(r) \/ ReadClosed(r)
      PROVE  CloseInv'
  BY <1>8 DEF ReadTake, ReadDone, ReadFails, ReadClosed, TypeOK
<1>9. CASE UNCHANGED vars
  BY <1>9 DEF vars
<1> QED
  BY <1>1, <1>2, <1>3, <1>4, <1>5, <1>6, <1>7, <1>8, <1>9 DEF Next, WriterStep, ReceiverStep

LEMMA StepTyped ==
  ASSUME TypeOK, WriteInv, ReadInv, ChannelInv, [Next]_vars
  PROVE  TypeOK'
<1> USE DEF Attached, closeVars, writeVars, readVars
<1>1. CASE Close \/ ShutdownSeen \/ ShutdownDone
  BY <1>1 DEF Close, ShutdownSeen, ShutdownDone, TypeOK
<1>2. ASSUME NEW w \in Writers, NEW v \in Values, WriteStart(w, v) PROVE TypeOK'
  BY <1>2 DEF WriteStart, TypeOK
<1>3. ASSUME NEW w \in Writers, WriteRefused(w) PROVE TypeOK'
  BY <1>3 DEF WriteRefused, TypeOK
<1>4. ASSUME NEW w \in Writers, WriteDone(w) PROVE TypeOK'
  <2> DEFINE b == [c |-> NewChan, v |-> wval[w], mods |-> {}]
  <2>1. w \in Sending /\ wval[w] \in Values
    BY <1>4 DEF WriteDone, WriteInv, Sending
  <2>2. Len(written) < MaxWrites
    BY <2>1, RoomToWrite
  <2>3. NewChan \in Chans
    BY <2>2, Numbers, SMT DEF NewChan, Chans
  <2>4. b \in Broadcasts
    BY <2>1, <2>3 DEF Broadcasts
  <2>5. written' \in Seq(Values) /\ Len(written') = Len(written) + 1
    BY <1>4, <2>1 DEF WriteDone, TypeOK
  <2>6. Len(written') <= MaxWrites
    BY <2>2, <2>5, Numbers
  <2>7. buf' \in [Chans -> Broadcasts \cup {None}] /\ currc' \in Chans
    BY <1>4, <2>3, <2>4 DEF WriteDone, TypeOK
  <2> HIDE DEF b
  <2> QED
    BY <1>4, <2>5, <2>6, <2>7 DEF WriteDone, TypeOK
<1>5. ASSUME NEW r \in Receivers, ListenStart(r) \/ ListenRefused(r) PROVE TypeOK'
  BY <1>5 DEF ListenStart, ListenRefused, TypeOK
<1>6. ASSUME NEW r \in Receivers, ListenDone(r) PROVE TypeOK'
  <2>1. start' \in [Receivers -> 0..MaxWrites]
    BY <1>6, Numbers, SMT DEF ListenDone, TypeOK
  <2>2. currc # None
    BY BroadcasterAssumption, Numbers DEF BroadcasterAssumption, TypeOK
  <2>3. rc' \in [Receivers -> Chans \cup {None}] /\ \A s \in Receivers : s \in Attached' => rc'[s] # None
    BY <1>6, <2>2 DEF ListenDone, TypeOK
  <2> QED
    BY <1>6, <2>1, <2>3 DEF ListenDone, TypeOK
<1>7. ASSUME NEW r \in Receivers, ReadTake(r) PROVE TypeOK'
  <2>1. rc[r] \in Chans
    BY <1>7 DEF ReadTake, TypeOK
  <2> QED
    BY <1>7, <2>1 DEF ReadTake, TypeOK
<1>8. ASSUME NEW r \in Receivers, ReadDone(r) PROVE TypeOK'
  <2>0. rc[r] \in Chans /\ rc[r] <= Len(written) /\ Carries(hold[r], rc[r])
    BY <1>8 DEF ReadDone, TypeOK, ChannelInv, Holding
  <2>1. hold[r] \in Broadcasts /\ hold[r].c \in Chans /\ hold[r].v \in Values
    BY <2>0, CarriedIsBroadcast DEF Broadcasts
  <2>2. Handled(r) \in Broadcasts
    BY <2>1 DEF Handled, Broadcasts
  <2>3. buf' \in [Chans -> Broadcasts \cup {None}]
    BY <1>8, <2>0, <2>2 DEF ReadDone, TypeOK
  <2>4. received' \in [Receivers -> Seq(Values)]
    BY <1>8, <2>1 DEF ReadDone, TypeOK
  <2>5. hold[r].c # None
    BY <2>1, BroadcasterAssumption, Numbers DEF BroadcasterAssumption
  <2>6. rc' \in [Receivers -> Chans \cup {None}] /\ \A s \in Receivers : s \in Attached' => rc'[s] # None
    BY <1>8, <2>1, <2>5 DEF ReadDone, TypeOK
  <2> QED
    BY <1>8, <2>3, <2>4, <2>6 DEF ReadDone, TypeOK
<1>9. ASSUME NEW r \in Receivers, ReadFails(r) PROVE TypeOK'
  BY <1>9 DEF ReadFails, TypeOK
<1>10. ASSUME NEW r \in Receivers, ReadClosed(r) PROVE TypeOK'
  BY <1>10 DEF ReadClosed, TypeOK
<1>11. CASE UNCHANGED vars
  BY <1>11 DEF vars, TypeOK
<1> QED
  BY <1>1, <1>2, <1>3, <1>4, <1>5, <1>6, <1>7, <1>8, <1>9, <1>10, <1>11
     DEF Next, WriterStep, ReceiverStep

LEMMA StepWrites ==
  ASSUME TypeOK, WriteInv, [Next]_vars
  PROVE  WriteInv'
<1> USE DEF closeVars, writeVars, readVars
<1>0. ASSUME UNCHANGED <<written, currc, wpc, wval>> PROVE WriteInv'
  BY <1>0 DEF WriteInv, Sending, Cardinality
<1>1. CASE Close \/ ShutdownSeen \/ ShutdownDone
  BY <1>0, <1>1 DEF Close, ShutdownSeen, ShutdownDone
<1>2. ASSUME NEW w \in Writers, NEW v \in Values, WriteStart(w, v) PROVE WriteInv'
  <2>1. Sending' = Sending \cup {w} /\ w \notin Sending
    BY <1>2 DEF WriteStart, Sending, TypeOK
  <2>2. Cardinality(Sending') = Cardinality(Sending) + 1
    BY <2>1, SendingFinite, FS_AddElement
  <2>3. UNCHANGED <<written, currc>> /\ Len(written) + Cardinality(Sending) < MaxWrites
    BY <1>2 DEF WriteStart
  <2>4. Len(written) + Cardinality(Sending)' <= MaxWrites
    BY <2>2, <2>3, SendingFinite, Numbers
  <2>5. \A u \in Sending' : wval'[u] \in Values
    BY <1>2, <2>1 DEF WriteStart, WriteInv, Sending, TypeOK
  <2> QED
    BY <2>3, <2>4, <2>5 DEF WriteInv
<1>3. ASSUME NEW w \in Writers, WriteRefused(w) PROVE WriteInv'
  <2>1. UNCHANGED <<written, currc, wval>> /\ Sending' = Sending
    BY <1>3 DEF WriteRefused, Sending, TypeOK
  <2> QED
    BY <2>1 DEF WriteInv, Cardinality
<1>4. ASSUME NEW w \in Writers, WriteDone(w) PROVE WriteInv'
  <2>1. Sending' = Sending \ {w} /\ w \in Sending
    BY <1>4 DEF WriteDone, Sending, TypeOK
  <2>2. Cardinality(Sending') = Cardinality(Sending) - 1
    BY <2>1, SendingFinite, FS_RemoveElement
  <2>3. wval[w] \in Values
    BY <2>1 DEF WriteInv
  <2>4. Len(written') = Len(written) + 1 /\ currc' = Len(written) + 2
    BY <1>4, <2>3 DEF WriteDone, NewChan, TypeOK
  <2>5. Len(written') + Cardinality(Sending)' <= MaxWrites /\ currc' = Len(written') + 1
    BY <2>2, <2>4, SendingFinite, Numbers DEF WriteInv
  <2>6. \A u \in Sending' : wval'[u] \in Values
    BY <1>4, <2>1 DEF WriteDone, WriteInv, Sending, TypeOK
  <2> QED
    BY <2>5, <2>6 DEF WriteInv
<1>5. ASSUME NEW r \in Receivers, ListenStart(r) \/ ListenRefused(r) \/ ListenDone(r)
      PROVE  WriteInv'
  BY <1>0, <1>5 DEF ListenStart, ListenRefused, ListenDone
<1>6. ASSUME NEW r \in Receivers, ReadTake(r) \/ ReadDone(r) \/ ReadFails(r) \/ ReadClosed(r)
      PROVE  WriteInv'
  BY <1>0, <1>6 DEF ReadTake, ReadDone, ReadFails, ReadClosed
<1>7. CASE UNCHANGED vars
  BY <1>0, <1>7 DEF vars
<1> QED
  BY <1>1, <1>2, <1>3, <1>4, <1>5, <1>6, <1>7 DEF Next, WriterStep, ReceiverStep

LEMMA StepReads ==
  ASSUME TypeOK, WriteInv, ReadInv, ChannelInv, [Next]_vars
  PROVE  ReadInv'
<1> USE DEF closeVars, writeVars, readVars
<1>0. ASSUME UNCHANGED <<start, received>>, Len(written) <= Len(written'),
             \A r \in Receivers :
                 /\ rpc'[r] \in {"new", "listening", "refused"} => rpc[r] \in {"new", "listening", "refused"}
                 /\ r \in Attached' => r \in Attached /\ rc'[r] = rc[r]
      PROVE  ReadInv'
  <2>1. Len(written') \in Nat /\ \A r \in Receivers : Pos(r)' = Pos(r)
    BY <1>0, Numbers, SMT DEF Pos
  <2> QED
    BY <1>0, <2>1, Numbers, SMT DEF ReadInv
<1>1. CASE Close \/ ShutdownSeen \/ ShutdownDone
  BY <1>0, <1>1, Numbers DEF Close, ShutdownSeen, ShutdownDone, Attached
<1>2. ASSUME NEW w \in Writers, WriteRefused(w) \/ \E v \in Values : WriteStart(w, v)
      PROVE  ReadInv'
  BY <1>0, <1>2, Numbers DEF WriteStart, WriteRefused, Attached
<1>3. ASSUME NEW w \in Writers, WriteDone(w) PROVE ReadInv'
  <2>1. Len(written') = Len(written) + 1
    BY <1>3 DEF WriteDone, TypeOK, WriteInv, Sending
  <2>2. Len(written) <= Len(written')
    BY <2>1, Numbers
  <2> QED
    BY <1>0, <1>3, <2>2 DEF WriteDone, Attached
<1>4. ASSUME NEW r \in Receivers, ListenStart(r) \/ ListenRefused(r) PROVE ReadInv'
  <2>1. rpc[r] = "new" /\ \E p \in {"listening", "refused"} : rpc' = [rpc EXCEPT ![r] = p]
    BY <1>4 DEF ListenStart, ListenRefused
  <2>2. UNCHANGED <<start, received, written, rc>>
    BY <1>4 DEF ListenStart, ListenRefused
  <2> QED
    BY <1>0, <2>1, <2>2, Numbers DEF Attached, TypeOK
<1>5. ASSUME NEW r \in Receivers, ListenDone(r) PROVE ReadInv'
  <2>1. received[r] = <<>>
    BY <1>5 DEF ListenDone, ReadInv
  <2>2. Pos(r)' = Len(written) /\ rc'[r] = Len(written) + 1 /\ rpc'[r] = "ready"
    BY <1>5, <2>1, Numbers DEF ListenDone, Pos, TypeOK, WriteInv
  <2>3. ASSUME NEW s \in Receivers \ {r}
        PROVE  Pos(s)' = Pos(s) /\ rc'[s] = rc[s] /\ rpc'[s] = rpc[s]
    BY <1>5, <2>3 DEF ListenDone, Pos, TypeOK
  <2>4. UNCHANGED <<written, received>>
    BY <1>5 DEF ListenDone
  <2> QED
    BY <2>2, <2>3, <2>4, Numbers DEF ReadInv, Attached
<1>6. ASSUME NEW r \in Receivers, ReadTake(r) \/ ReadFails(r) PROVE ReadInv'
  <2>1. r \in Attached /\ \E p \in {"holding", "ready"} : rpc' = [rpc EXCEPT ![r] = p]
    BY <1>6 DEF ReadTake, ReadFails, Attached
  <2>2. UNCHANGED <<start, received, written, rc>>
    BY <1>6 DEF ReadTake, ReadFails
  <2> QED
    BY <1>0, <2>1, <2>2, Numbers DEF Attached, TypeOK
<1>7. ASSUME NEW r \in Receivers, ReadDone(r) PROVE ReadInv'
  <2>1. rc[r] \in Chans /\ rc[r] <= Len(written) /\ rc[r] = Pos(r) + 1 /\ Carries(hold[r], rc[r])
    BY <1>7 DEF ReadDone, TypeOK, ReadInv, ChannelInv, Holding, Attached
  <2>2. hold[r].c = rc[r] + 1 /\ hold[r].v \in Values
    BY <2>1, CarriedIsBroadcast
  <2>3. Len(received'[r]) = Len(received[r]) + 1 /\ start' = start
    BY <1>7, <2>2 DEF ReadDone, TypeOK
  <2>4. Pos(r)' = Pos(r) + 1 /\ rc'[r] = Pos(r) + 2 /\ rpc'[r] = "ready"
    <3>1. Pos(r)' = Pos(r) + 1
      BY <2>3, Numbers DEF Pos
    <3>2. rc'[r] = hold[r].c /\ rpc'[r] = "ready"
      BY <1>7 DEF ReadDone, TypeOK
    <3> QED
      BY <2>1, <2>2, <3>1, <3>2, Numbers
  <2>5. ASSUME NEW s \in Receivers \ {r}
        PROVE  Pos(s)' = Pos(s) /\ received'[s] = received[s] /\ rc'[s] = rc[s] /\ rpc'[s] = rpc[s]
    BY <1>7, <2>5 DEF ReadDone, Pos, TypeOK
  <2>6. written' = written
    BY <1>7 DEF ReadDone
  <2> QED
    BY <2>1, <2>4, <2>5, <2>6, Numbers DEF ReadInv, Attached
<1>8. ASSUME NEW r \in Receivers, ReadClosed(r) PROVE ReadInv'
  <2>1. rpc' = [rpc EXCEPT ![r] = "ended"] /\ \A s \in Receivers \ {r} : rc'[s] = rc[s]
    BY <1>8 DEF ReadClosed, TypeOK
  <2>2. UNCHANGED <<start, received, written>>
    BY <1>8 DEF ReadClosed
  <2> QED
    BY <1>0, <2>1, <2>2, Numbers DEF Attached, TypeOK
<1>9. CASE UNCHANGED vars
  BY <1>0, <1>9, Numbers DEF vars, Attached
<1> QED
  BY <1>1, <1>2, <1>3, <1>4, <1>5, <1>6, <1>7, <1>8, <1>9 DEF Next, WriterStep, ReceiverStep

LEMMA StepChannels ==
  ASSUME TypeOK, WriteInv, ReadInv, ChannelInv, [Next]_vars
  PROVE  ChannelInv'
<1> USE DEF closeVars, writeVars, readVars, Holding
<1>0. ASSUME UNCHANGED <<buf, hold, written, start, received>>,
             \A r \in Receivers : Holding(r)' => Holding(r) /\ rc'[r] = rc[r]
      PROVE  ChannelInv'
  <2>2. \A ch : Passed(ch)' = Passed(ch)
    BY <1>0 DEF Passed, Pos
  <2>3. \A r \in Receivers : Holding(r)' => (Carries(hold[r], rc[r])' <=> Carries(hold[r], rc[r]))
    BY <1>0, <2>2 DEF Carries
  <2>4. \A ch \in Chans : Carries(buf[ch], ch)' <=> Carries(buf[ch], ch)
    BY <1>0, <2>2 DEF Carries
  <2> HIDE DEF Holding
  <2> QED
    BY <1>0, <2>3, <2>4 DEF ChannelInv
<1>1. CASE Close \/ ShutdownSeen \/ ShutdownDone
  BY <1>0, <1>1 DEF Close, ShutdownSeen, ShutdownDone
<1>2. ASSUME NEW w \in Writers, WriteRefused(w) \/ \E v \in Values : WriteStart(w, v)
      PROVE  ChannelInv'
  BY <1>0, <1>2 DEF WriteStart, WriteRefused
<1>3. ASSUME NEW w \in Writers, WriteDone(w) PROVE ChannelInv'
  <2>0. PICK k \in Chans : k = currc
    BY DEF TypeOK
  <2>1. wval[w] \in Values /\ k = Len(written) + 1 /\ NewChan = k + 1
    BY <1>3, <2>0, Numbers DEF WriteDone, WriteInv, Sending, NewChan
  <2>2. /\ buf' = [buf EXCEPT ![k] = [c |-> NewChan, v |-> wval[w], mods |-> {}]]
        /\ written' = Append(written, wval[w])
        /\ UNCHANGED <<rpc, rc, hold, start, received>>
    BY <1>3, <2>0 DEF WriteDone
  <2>3. /\ Len(written') = Len(written) + 1 /\ written'[k] = wval[w]
        /\ \A ch \in Chans : ch <= Len(written) => written'[ch] = written[ch]
    BY <2>1, <2>2, SMT DEF TypeOK, Chans
  <2>4. \A ch : Passed(ch)' = Passed(ch)
    BY <2>2 DEF Passed, Pos
  <2>5. Passed(k) = {}
    BY <2>1, Numbers, BroadcasterAssumption DEF Passed, ReadInv, BroadcasterAssumption
  <2>6. Carries(buf[k], k)'
    <3>1. buf'[k] = [c |-> k + 1, v |-> wval[w], mods |-> {}]
      BY <2>1, <2>2 DEF TypeOK
    <3> QED
      BY <2>3, <2>4, <2>5, <3>1 DEF Carries
  <2>7. ASSUME NEW ch \in Chans, ch <= Len(written), NEW b, Carries(b, ch)
        PROVE  Carries(b, ch)'
    BY <2>3, <2>4, <2>7 DEF Carries
  <2>8. \A ch \in Chans : buf'[ch] # None => ch <= Len(written') /\ Carries(buf[ch], ch)'
    <3> TAKE ch \in Chans
    <3>1. CASE ch = k
      BY <2>1, <2>3, <2>6, <3>1, Numbers
    <3>2. CASE ch # k
      <4>1. buf'[ch] = buf[ch]
        BY <2>2, <3>2 DEF TypeOK
      <4>2. buf[ch] # None => ch <= Len(written) /\ Carries(buf[ch], ch)
        BY DEF ChannelInv
      <4>3. Len(written) <= Len(written') /\ Len(written') \in Nat /\ ch \in Nat
        BY <2>3, Numbers
      <4> QED
        BY <2>3, <2>4, <4>1, <4>2, <4>3, Numbers DEF Carries
    <3> QED
      BY <3>1, <3>2
  <2>9. \A r \in Receivers : Holding(r)' =>
            /\ rc'[r] <= Len(written')
            /\ Carries(hold[r], rc[r])'
            /\ buf'[rc'[r]] = None
    <3> SUFFICES ASSUME NEW r \in Receivers, Holding(r)
                 PROVE  rc[r] <= Len(written') /\ Carries(hold[r], rc[r])' /\ buf'[rc[r]] = None
      BY <2>2
    <3>1. rc[r] \in Chans /\ rc[r] <= Len(written) /\ Carries(hold[r], rc[r]) /\ buf[rc[r]] = None
      BY DEF ChannelInv, TypeOK, Attached
    <3>2. rc[r] # k /\ rc[r] <= Len(written')
      BY <2>1, <2>3, <3>1, Numbers
    <3>3. Carries(hold[r], rc[r])'
      BY <2>2, <2>3, <2>4, <3>1 DEF Carries
    <3>4. buf'[rc[r]] = None
      BY <2>2, <3>1, <3>2 DEF TypeOK
    <3> QED
      BY <3>2, <3>3, <3>4
  <2> QED
    BY <2>2, <2>8, <2>9 DEF ChannelInv
<1>4. ASSUME NEW r \in Receivers, ListenStart(r) \/ ListenRefused(r) \/ ReadFails(r) \/ ReadClosed(r)
      PROVE  ChannelInv'
  <2>1. /\ UNCHANGED <<buf, written, start, received>>
        /\ \A s \in Receivers : Holding(s)' => s # r
        /\ \A s \in Receivers \ {r} : Holding(s)' => Holding(s) /\ rc'[s] = rc[s] /\ hold'[s] = hold[s]
    BY <1>4 DEF ListenStart, ListenRefused, ReadFails, ReadClosed, TypeOK
  <2>2. \A ch : Passed(ch)' = Passed(ch)
    BY <2>1 DEF Passed, Pos
  <2>3. \A s \in Receivers : Holding(s)' => (Carries(hold[s], rc[s])' <=> Carries(hold[s], rc[s]))
    BY <2>1, <2>2 DEF Carries
  <2>4. \A ch \in Chans : Carries(buf[ch], ch)' <=> Carries(buf[ch], ch)
    BY <2>1, <2>2 DEF Carries
  <2> HIDE DEF Holding
  <2> QED
    BY <2>1, <2>3, <2>4 DEF ChannelInv
<1>5. ASSUME NEW r \in Receivers, ListenDone(r) PROVE ChannelInv'
  <2>1. received[r] = <<>> /\ UNCHANGED <<buf, hold, written, received>>
    BY <1>5 DEF ListenDone, ReadInv
  <2>2. /\ ~Holding(r)'
        /\ \A s \in Receivers \ {r} : /\ rc'[s] = rc[s] /\ (Holding(s)' <=> Holding(s))
                                      /\ start'[s] = start[s]
    BY <1>5 DEF ListenDone, TypeOK
  <2>3. ASSUME NEW ch \in Chans PROVE Passed(ch)' = Passed(ch)
    <3>1. ~(start[r] < ch /\ ch <= Pos(r)) /\ ~(start'[r] < ch /\ ch <= Pos(r)')
      BY <1>5, <2>1, Numbers DEF ListenDone, Pos, TypeOK
    <3> QED
      BY <2>1, <2>2, <3>1, BroadcasterAssumption DEF Passed, Pos, BroadcasterAssumption
  <2>4. \A s \in Receivers : Holding(s) => rc[s] \in Chans
    BY DEF TypeOK, Attached
  <2>5. \A s \in Receivers : Holding(s)' => (Carries(hold[s], rc[s])' <=> Carries(hold[s], rc[s]))
    BY <2>1, <2>2, <2>3, <2>4 DEF Carries
  <2>6. \A ch \in Chans : Carries(buf[ch], ch)' <=> Carries(buf[ch], ch)
    BY <2>1, <2>3 DEF Carries
  <2> HIDE DEF Holding
  <2> QED
    BY <2>1, <2>2, <2>5, <2>6 DEF ChannelInv
<1>6. ASSUME NEW r \in Receivers, ReadTake(r) PROVE ChannelInv'
  <2>0. PICK ch \in Chans : ch = rc[r]
    BY <1>6 DEF ReadTake, TypeOK, Attached
  <2>1. /\ rc[r] = ch /\ buf[ch] # None /\ hold' = [hold EXCEPT ![r] = buf[ch]]
        /\ buf' = [buf EXCEPT ![ch] = None]
        /\ rpc' = [rpc EXCEPT ![r] = "holding"]
        /\ UNCHANGED <<rc, written, start, received>>
    BY <1>6, <2>0 DEF ReadTake
  <2>2. \A k : Passed(k)' = Passed(k)
    BY <2>1 DEF Passed, Pos
  <2>3. \A s \in Receivers \ {r} : Holding(s)' => Holding(s) /\ hold'[s] = hold[s] /\ rc[s] # ch
    BY <2>1 DEF ChannelInv, TypeOK
  <2>4. Carries(hold[r], ch)' /\ ch <= Len(written) /\ buf'[ch] = None
    BY <2>1, <2>2 DEF ChannelInv, Carries, TypeOK
  <2>5. \A k \in Chans \ {ch} : buf'[k] = buf[k]
    BY <2>1 DEF TypeOK
  <2>6. \A k \in Chans : buf'[k] # None => k <= Len(written) /\ Carries(buf[k], k)'
    BY <2>1, <2>2, <2>4, <2>5 DEF ChannelInv, Carries
  <2>7. \A s \in Receivers : Holding(s)' => rc[s] <= Len(written) /\ Carries(hold[s], rc[s])' /\ buf'[rc[s]] = None
    <3>1. \A s \in Receivers \ {r} : Holding(s)' =>
              /\ rc[s] \in Chans /\ rc[s] <= Len(written)
              /\ Carries(hold[s], rc[s])' /\ buf'[rc[s]] = None
      BY <2>1, <2>2, <2>3, <2>5 DEF ChannelInv, Carries, TypeOK, Attached
    <3> QED
      BY <2>1, <2>4, <3>1
  <2> QED
    BY <2>1, <2>3, <2>6, <2>7 DEF ChannelInv
<1>7. ASSUME NEW r \in Receivers, ReadDone(r) PROVE ChannelInv'
  <2>0. PICK ch \in Chans : ch = rc[r]
    BY <1>7 DEF ReadDone, TypeOK, Attached
  <2>1. /\ ch \in Chans /\ ch <= Len(written) /\ ch = Pos(r) + 1 /\ Carries(hold[r], ch)
    BY <1>7, <2>0 DEF ReadDone, TypeOK, ReadInv, ChannelInv, Attached
  <2>2. hold[r].c = ch + 1 /\ hold[r].v \in Values /\ hold[r].mods = Passed(ch) /\ hold[r].v = written[ch]
    BY <2>1, CarriedIsBroadcast
  <2>3. /\ buf' = [buf EXCEPT ![ch] = Handled(r)]
        /\ \A s \in Receivers : Holding(s)' <=> Holding(s) /\ s # r
        /\ \A s \in Receivers \ {r} : /\ rc'[s] = rc[s] /\ hold'[s] = hold[s]
                                      /\ received'[s] = received[s]
        /\ UNCHANGED <<written, start>>
    BY <1>7, <2>0 DEF ReadDone, TypeOK
  <2>4. Len(received'[r]) = Len(received[r]) + 1
    BY <1>7, <2>2 DEF ReadDone, TypeOK
  <2>5. Pos(r)' = Pos(r) + 1 /\ \A s \in Receivers \ {r} : Pos(s)' = Pos(s)
    BY <2>3, <2>4, Numbers DEF Pos
  <2>6. ASSUME NEW k \in Chans
        PROVE  Passed(k)' = IF k = ch THEN Passed(k) \cup ({r} \cap Modifiers) ELSE Passed(k)
    <3>1. k \in Nat /\ start[r] \in Nat /\ Pos(r) \in Nat /\ start[r] <= Pos(r)
      BY Numbers DEF Pos
    <3>2. (start'[r] < k /\ k <= Pos(r)') <=> (start[r] < k /\ k <= Pos(r)) \/ k = ch
      BY <2>1, <2>3, <2>5, <3>1
    <3>3. \A s \in Receivers \ {r} : (start'[s] < k /\ k <= Pos(s)') <=> (start[s] < k /\ k <= Pos(s))
      BY <2>3, <2>5
    <3>4. Modifiers \subseteq Receivers
      BY BroadcasterAssumption DEF BroadcasterAssumption
    <3> QED
      BY <3>2, <3>3, <3>4 DEF Passed
  <2>7. Carries(buf[ch], ch)'
    <3>1. Handled(r) = [c |-> ch + 1, v |-> written[ch], mods |-> Passed(ch) \cup ({r} \cap Modifiers)]
      <4>1. hold[r] = [c |-> ch + 1, v |-> written[ch], mods |-> Passed(ch)]
        BY <2>1 DEF Carries
      <4> QED
        BY <4>1 DEF Handled
    <3>2. buf'[ch] = Handled(r)
      BY <2>1, <2>3 DEF TypeOK
    <3>3. Passed(ch)' = Passed(ch) \cup ({r} \cap Modifiers)
      BY <2>1, <2>6
    <3> QED
      BY <1>7, <2>3, <3>1, <3>2, <3>3 DEF Carries
  <2>8. \A k \in Chans : buf'[k] # None => k <= Len(written) /\ (k = ch \/ Carries(buf[k], k)')
    BY <2>1, <2>3, <2>6 DEF ChannelInv, Carries, TypeOK
  <2>9. \A s \in Receivers : Holding(s)' =>
            /\ rc'[s] \in Chans /\ rc'[s] # ch /\ rc'[s] <= Len(written)
            /\ Carries(hold[s], rc[s])' /\ buf'[rc'[s]] = None
    <3> TAKE s \in Receivers
    <3> SUFFICES ASSUME Holding(s), s # r
                 PROVE  /\ rc[s] \in Chans /\ rc[s] # ch /\ rc[s] <= Len(written)
                        /\ Carries(hold[s], rc[s])' /\ buf'[rc[s]] = None
      BY <2>3
    <3>1. rc[s] \in Chans /\ rc[s] <= Len(written) /\ Carries(hold[s], rc[s]) /\ buf[rc[s]] = None
      BY DEF ChannelInv, TypeOK, Attached
    <3>2. rc[s] # ch
      BY <1>7, <2>0 DEF ChannelInv, ReadDone
    <3> QED
      BY <2>3, <2>6, <3>1, <3>2 DEF Carries, TypeOK
  <2> QED
    BY <2>3, <2>7, <2>8, <2>9 DEF ChannelInv
<1>8. CASE UNCHANGED vars
  BY <1>0, <1>8 DEF vars
<1> QED
  BY <1>1, <1>2, <1>3, <1>4, <1>5, <1>6, <1>7, <1>8 DEF Next, WriterStep, ReceiverStep

LEMMA BroadcasterInvariant == Spec => []BroadcasterInv
<1>1. Init => BroadcasterInv
  <2> SUFFICES ASSUME Init PROVE BroadcasterInv
    OBVIOUS
  <2>0. MaxWrites \in Nat /\ 1 \in Chans /\ 0 \in 0..MaxWrites
    BY BroadcasterAssumption DEF BroadcasterAssumption, Chans
  <2>1. Sending = {} /\ Attached = {} /\ Len(written) = 0
    BY DEF Init, Sending, Attached
  <2>2. TypeOK
    <3>1. /\ buf \in [Chans -> Broadcasts \cup {None}]
          /\ wpc \in [Writers -> {"idle", "sending", "refused"}]
          /\ wval \in [Writers -> Values \cup {None}]
      BY DEF Init
    <3>2. /\ rpc \in [Receivers -> {"new", "listening", "ready", "holding", "ended", "refused"}]
          /\ rc \in [Receivers -> Chans \cup {None}]
          /\ hold \in [Receivers -> Broadcasts \cup {None}]
      BY DEF Init
    <3>3. written \in Seq(Values) /\ Len(written) <= MaxWrites
      BY <2>0, <2>1 DEF Init
    <3>4. start \in [Receivers -> 0..MaxWrites]
      BY <2>0 DEF Init
    <3>5. received \in [Receivers -> Seq(Values)]
      BY DEF Init
    <3>6. /\ currc \in Chans /\ bpc \in {"select", "locking", "done"}
          /\ shutdown \in BOOLEAN /\ isClosed \in BOOLEAN /\ cut \subseteq Chans
      BY <2>0 DEF Init
    <3> QED
      BY <2>1, <3>1, <3>2, <3>3, <3>4, <3>5, <3>6 DEF TypeOK
  <2>3. CloseInv
    BY DEF Init, CloseInv, NoSendOnClosed
  <2>4. Cardinality(Sending) = 0
    BY <2>1, FS_EmptySet
  <2>5. WriteInv
    BY <2>0, <2>1, <2>4 DEF Init, WriteInv
  <2>6. ReadInv
    <3>1. \A r \in Receivers : start[r] = 0 /\ received[r] = <<>>
      BY DEF Init
    <3> QED
      BY <2>1, <3>1 DEF ReadInv, Pos
  <2>7. ChannelInv
    BY DEF Init, ChannelInv, Holding
  <2> QED
    BY <2>2, <2>3, <2>5, <2>6, <2>7 DEF BroadcasterInv
<1>2. BroadcasterInv /\ [Next]_vars => BroadcasterInv'
  BY StepTyped, StepCloses, StepWrites, StepReads, StepChannels DEF BroadcasterInv
<1> QED
  BY <1>1, <1>2, PTL DEF Spec
-------------------------------------------------------------------------------
(* What follows from it.                                                   *)

(* Neither the broadcaster's send to currc nor Read's into the channel it  *)
(* took a broadcast from ever waits, and nobody sends to a closed channel  *)
(* (broadcaster.go:50, 59-60, 109).                                        *)
THEOREM ChainHolds == Spec => []ChainInv
<1>1. ASSUME BroadcasterInv PROVE ChainInv
  <2> USE <1>1 DEF BroadcasterInv
  <2>1. buf[currc] = None
    BY Numbers DEF TypeOK, WriteInv, ChannelInv
  <2>2. \A r \in Receivers : rpc[r] = "holding" => buf[rc[r]] = None
    BY DEF ChannelInv, Holding
  <2> QED
    BY <2>1, <2>2 DEF ChainInv, SendsNeverBlock, CloseInv
<1> QED
  BY <1>1, BroadcasterInvariant, PTL

(* What a handler makes of a value reaches all the receivers that read it  *)
(* afterwards, once (broadcaster.go:107-109).                              *)
THEOREM ModificationsReachAll == Spec => []ModificationsAccumulate
<1>1. ASSUME BroadcasterInv PROVE ModificationsAccumulate
  <2> SUFFICES ASSUME NEW ch \in Chans, buf[ch] # None
               PROVE  buf[ch].mods = Passed(ch)
    BY DEF ModificationsAccumulate, Passed, Pos
  <2> QED
    BY <1>1, CarriedIsBroadcast DEF BroadcasterInv, ChannelInv
<1> QED
  BY <1>1, BroadcasterInvariant, PTL
-------------------------------------------------------------------------------
(* The broadcaster is a BroadcastLog.                                      *)

(* How BroadcastLog sees a receiver.                                       *)
PosOf(r) == IF rpc[r] \in {"new", "listening", "refused"} THEN None ELSE Pos(r)
LastOf(r) == IF received[r] = <<>> THEN None ELSE received[r][Len(received[r])]

(* A step that changes none of this leaves the log as it is.               *)
LEMMA LogStays ==
  ASSUME UNCHANGED <<written, start, received, shutdown, isClosed>>,
         \A r \in Receivers :
             rpc'[r] \in {"new", "listening", "refused"} <=> rpc[r] \in {"new", "listening", "refused"}
  PROVE  UNCHANGED Promise!logVars
  BY DEF Promise!logVars

LEMMA StepsKeepLog ==
  ASSUME BroadcasterInv, [Next]_vars
  PROVE  [Promise!Next]_Promise!logVars
<1> USE DEF BroadcasterInv, closeVars, writeVars, readVars
<1>1. CASE Close
  <2>1. Promise!Close
    BY <1>1 DEF Close, Promise!Close
  <2> QED
    BY <2>1 DEF Promise!Next
<1>2. CASE ShutdownSeen
  BY <1>2, LogStays DEF ShutdownSeen
<1>3. CASE ShutdownDone
  <2>1. Promise!Closed
    BY <1>3 DEF ShutdownDone, CloseInv, Promise!Closed
  <2> QED
    BY <2>1 DEF Promise!Next
<1>4. ASSUME NEW w \in Writers, WriteRefused(w) \/ \E v \in Values : WriteStart(w, v)
      PROVE  UNCHANGED Promise!logVars
  BY <1>4, LogStays DEF WriteRefused, WriteStart
<1>5. ASSUME NEW w \in Writers, WriteDone(w) PROVE Promise!Next
  <2>1. wval[w] \in Values /\ ~isClosed
    BY <1>5 DEF WriteDone, WriteInv, CloseInv, Sending
  <2>2. Promise!Write(wval[w])
    BY <1>5, <2>1 DEF WriteDone, Promise!Write
  <2> QED
    BY <2>1, <2>2 DEF Promise!Next
<1>6. ASSUME NEW r \in Receivers, ListenStart(r) \/ ListenRefused(r) \/ ReadTake(r) \/ ReadFails(r)
                                  \/ ReadClosed(r)
      PROVE  UNCHANGED Promise!logVars
  <2>1. UNCHANGED <<written, start, received, shutdown, isClosed>>
    BY <1>6 DEF ListenStart, ListenRefused, ReadTake, ReadFails, ReadClosed
  <2>2. \A s \in Receivers :
            rpc'[s] \in {"new", "listening", "refused"} <=> rpc[s] \in {"new", "listening", "refused"}
    BY <1>6 DEF ListenStart, ListenRefused, ReadTake, ReadFails, ReadClosed, TypeOK
  <2> QED
    BY <2>1, <2>2, LogStays
<1>7. ASSUME NEW r \in Receivers, ListenDone(r) PROVE Promise!Next
  <2>1. /\ rpc[r] = "listening" /\ received[r] = <<>> /\ ~isClosed
        /\ rpc' = [rpc EXCEPT ![r] = "ready"] /\ start' = [start EXCEPT ![r] = Len(written)]
        /\ UNCHANGED <<written, received, shutdown, isClosed>>
    BY <1>7 DEF ListenDone, ReadInv, CloseInv
  <2>2. \A s \in Receivers : PosOf(s)' = IF s = r THEN Len(written) ELSE PosOf(s)
    BY <2>1, Numbers DEF PosOf, Pos, TypeOK
  <2>3. Promise!Listen(r)
    BY <2>1, <2>2 DEF Promise!Listen, PosOf, Pos
  <2> QED
    BY <2>3 DEF Promise!Next
<1>8. ASSUME NEW r \in Receivers, ReadDone(r) PROVE Promise!Next
  <2>0. PICK ch \in Chans : ch = rc[r]
    BY <1>8 DEF ReadDone, TypeOK, Attached
  <2>1. ch <= Len(written) /\ ch = Pos(r) + 1 /\ Carries(hold[r], ch) /\ rpc[r] = "holding"
    BY <1>8, <2>0 DEF ReadDone, ReadInv, ChannelInv, Holding, Attached
  <2>2. hold[r].v = written[ch] /\ hold[r].v \in Values
    BY <2>1, CarriedIsBroadcast
  <2>3. /\ received' = [received EXCEPT ![r] = Append(@, hold[r].v)]
        /\ rpc' = [rpc EXCEPT ![r] = "ready"]
        /\ UNCHANGED <<written, start, shutdown, isClosed>>
    BY <1>8 DEF ReadDone
  <2>4. /\ Len(received'[r]) = Len(received[r]) + 1
        /\ received'[r] # <<>>
        /\ received'[r][Len(received'[r])] = written[ch]
        /\ \A s \in Receivers \ {r} : received'[s] = received[s]
    BY <2>2, <2>3, SMT DEF TypeOK
  <2>5. \A s \in Receivers : PosOf(s)' = IF s = r THEN Pos(r) + 1 ELSE PosOf(s)
    BY <2>1, <2>3, <2>4, Numbers DEF PosOf, Pos, TypeOK
  <2>6. \A s \in Receivers : LastOf(s)' = IF s = r THEN written[Pos(r) + 1] ELSE LastOf(s)
    BY <2>1, <2>4 DEF LastOf
  <2>7. PosOf(r) = Pos(r) /\ PosOf(r) # None /\ PosOf(r) < Len(written)
    BY <2>1, Numbers, BroadcasterAssumption DEF PosOf, BroadcasterAssumption
  <2>8. Promise!Read(r)
    BY <2>3, <2>5, <2>6, <2>7 DEF Promise!Read, PosOf, LastOf, Pos
  <2> QED
    BY <2>8 DEF Promise!Next
<1>9. CASE UNCHANGED vars
  BY <1>9, LogStays DEF vars
<1> QED
  BY <1>1, <1>2, <1>3, <1>4, <1>5, <1>6, <1>7, <1>8, <1>9 DEF Next, WriterStep, ReceiverStep

(* The broadcaster implements BroadcastLog: whatever the receivers do with *)
(* the broadcasts, each reads all the values written since it began to     *)
(* listen, each once and in order (broadcaster.go:47-53, 98-112).          *)
THEOREM BroadcasterKeepsLog == Spec => KeepsLog
<1>1. Init => Promise!Init
  BY DEF Init, Promise!Init
<1> QED
  BY <1>1, StepsKeepLog, BroadcasterInvariant, PTL DEF Spec, KeepsLog, Promise!Spec
================================================================================
