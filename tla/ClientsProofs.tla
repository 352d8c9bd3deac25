----------------------------- MODULE ClientsProofs -----------------------------
(***************************************************************************)
(* What the clients of other services keep, each for itself, whatever the  *)
(* bounds are and how many clients, calls and circuits there be: what a    *)
(* Connect leaves open and is connected with (ClientConnection), how far a *)
(* circuit is loaded and what Execute answers (CircuitClient), how often   *)
(* an operation is tried (RetryClient) and where spans go (TracedSend).    *)
(***************************************************************************)
EXTENDS MCClients, FiniteSetTheorems, TLAPS

-------------------------------------------------------------------------------
(* The connection of a client.                                             *)

(* While a Connect calls its options none is connected, and those that     *)
(* connect at its end have nothing open yet.                               *)
OptionsInv ==
    phase = "options" =>
        /\ ~connected
        /\ kind # "redis" /\ ~again => ~opened

(* What a setting that is not late has reached: the client that redis      *)
(* pings at the end of Connect, the broker of mqtt, the interceptor of     *)
(* grpc.                                                                   *)
ReachedInv ==
    /\ kind = "redis" /\ held # 0 /\ "auth" \notin late => made[held]["auth"] = config["auth"]
    /\ kind = "mqtt" /\ phase = "options" /\ "address" \notin late => broker = config["address"]
    /\ kind = "grpc" /\ "tracer" \notin late => dial \in {0, config["tracer"]}

(* The inductive invariant.                                                *)
ConnectionInv == TypeOK /\ OptionsInv /\ ReachedInv /\ NothingLeftOpen /\ ConnectedAsAsked

(* A connection is the last of those that were made, and changes none of   *)
(* the others.                                                             *)
LEMMA OpensLast ==
  ASSUME TypeOK, NEW settings \in [Settings -> Nat], made' = Append(made, settings)
  PROVE  /\ made' \in Seq([Settings -> Nat])
         /\ Len(made') = Len(made) + 1
         /\ made'[Len(made) + 1] = settings
         /\ Len(made) \in Nat
BY SMT DEF TypeOK

(* The part of TypeOK about what is true or false.                         *)
Flags == /\ connected \in BOOLEAN /\ panicked \in BOOLEAN
         /\ opened \in BOOLEAN /\ again \in BOOLEAN

LEMMA StepFlags ==
  ASSUME TypeOK, [Next]_vars
  PROVE  Flags'
<1> USE DEF TypeOK, Flags, configVars, connVars
<1>1. CASE Connect
  BY <1>1 DEF Connect
<1>2. ASSUME NEW s \in Settings, SetOption(s) PROVE Flags'
  BY <1>2 DEF SetOption
<1>3. CASE SetMiddlewareTracer
  BY <1>3 DEF SetMiddlewareTracer
<1>4. CASE OptionFails
  BY <1>4 DEF OptionFails
<1>5. CASE ConnectOption
  BY <1>5 DEF ConnectOption, Opens
<1>6. CASE Ping
  <2>1. connected' \in BOOLEAN
    BY <1>6 DEF Ping
  <2> QED
    BY <1>6, <2>1 DEF Ping
<1>7. CASE Establish
  BY <1>7 DEF Establish, Opens
<1>8. CASE ConnectFails
  BY <1>8 DEF ConnectFails
<1>9. CASE Disconnect
  BY <1>9 DEF Disconnect
<1>10. CASE UNCHANGED vars
  BY <1>10 DEF vars
<1> QED
  BY <1>1, <1>2, <1>3, <1>4, <1>5, <1>6, <1>7, <1>8, <1>9, <1>10 DEF Next

LEMMA StepTyped ==
  ASSUME TypeOK, [Next]_vars
  PROVE  TypeOK'
<1> DEFINE Set == /\ kind \in Kinds /\ phase \in {"idle", "options"} /\ connects \in Nat
                  /\ config \in [Settings -> Nat] /\ broker \in Nat /\ dial \in Nat
                  /\ late \subseteq Settings
<1> DEFINE Made == /\ made \in Seq([Settings -> Nat])
                   /\ held \in 0..Len(made) /\ open \subseteq 1..Len(made)
<1>0. SUFFICES Set' /\ Made'
  BY StepFlags DEF TypeOK, Flags
<1>r. Set /\ Made
  BY DEF TypeOK
<1>l. Len(made) \in Nat /\ "address" \in Settings /\ "tracer" \in Settings
  BY <1>r, SMT DEF Settings
<1> USE DEF configVars, connVars
<1>m. ASSUME NEW settings \in [Settings -> Nat], made' = Append(made, settings),
             held' = Len(made) + 1, open' \subseteq open \cup {Len(made) + 1}
      PROVE  Made'
  <2>1. made' \in Seq([Settings -> Nat]) /\ Len(made') = Len(made) + 1
    BY <1>m, OpensLast
  <2>2. held' \in 0..Len(made')
    BY <1>m, <1>l, <2>1
  <2>3. \A k \in open : k \in 1..Len(made)
    BY <1>r
  <2>4. open' \subseteq 1..Len(made')
    BY <1>m, <1>l, <2>1, <2>3
  <2> QED
    BY <2>1, <2>2, <2>4
<1>1. CASE Connect
  BY <1>1, <1>r, <1>l, SMT DEF Connect
<1>2. ASSUME NEW s \in Settings, SetOption(s) PROVE Set' /\ Made'
  BY <1>2, <1>r, SMT DEF SetOption
<1>3. CASE SetMiddlewareTracer
  BY <1>3, <1>r, <1>l, SMT DEF SetMiddlewareTracer
<1>4. CASE OptionFails
  BY <1>4, <1>r DEF OptionFails
<1>5. CASE ConnectOption
  BY <1>5, <1>r, <1>m DEF ConnectOption, Opens
<1>6. CASE Ping
  BY <1>6, <1>r DEF Ping
<1>7. CASE Establish
  <2> DEFINE settings == [config EXCEPT !["address"] = IF kind = "mqtt" THEN broker ELSE @,
                                        !["tracer"] = IF kind = "grpc" THEN dial ELSE @]
  <2>1. settings \in [Settings -> Nat]
    BY <1>r, <1>l, SMT
  <2>2. Made'
    <3> HIDE DEF Made
    <3> QED
      BY <1>7, <2>1, <1>m DEF Establish, Opens
  <2> QED
    BY <1>7, <1>r, <2>2 DEF Establish
<1>8. CASE ConnectFails
  <2> DEFINE settings == [config EXCEPT !["address"] = broker]
  <2>1. settings \in [Settings -> Nat]
    BY <1>r, <1>l, SMT
  <2>2. Set' /\ open' = open
    BY <1>8, <1>r DEF ConnectFails
  <2>3. CASE made' = Append(made, settings) /\ held' = Len(made) + 1
    BY <2>1, <2>2, <2>3, <1>m
  <2>4. CASE made' = made /\ held' \in {0, held}
    BY <1>r, <1>l, <2>2, <2>4, SMT
  <2> QED
    BY <1>8, <2>3, <2>4 DEF ConnectFails
<1>9. CASE Disconnect
  BY <1>9, <1>r, <1>l, SMT DEF Disconnect
<1>10. CASE UNCHANGED vars
  BY <1>10, <1>r DEF vars
<1> QED
  BY <1>1, <1>2, <1>3, <1>4, <1>5, <1>6, <1>7, <1>8, <1>9, <1>10 DEF Next

LEMMA StepOptions ==
  ASSUME TypeOK, OptionsInv, [Next]_vars
  PROVE  OptionsInv'
<1> USE DEF TypeOK, OptionsInv, configVars, connVars
<1>1. CASE Connect
  BY <1>1 DEF Connect
<1>2. ASSUME NEW s \in Settings, SetOption(s) PROVE OptionsInv'
  BY <1>2 DEF SetOption
<1>3. CASE SetMiddlewareTracer
  BY <1>3 DEF SetMiddlewareTracer
<1>4. CASE OptionFails \/ Ping \/ Establish \/ ConnectFails \/ Disconnect
  <2>1. phase' = "idle"
    BY <1>4 DEF OptionFails, Ping, Establish, ConnectFails, Disconnect
  <2> QED
    BY <2>1
<1>5. CASE ConnectOption
  BY <1>5 DEF ConnectOption
<1>6. CASE UNCHANGED vars
  BY <1>6 DEF vars
<1> QED
  BY <1>1, <1>2, <1>3, <1>4, <1>5, <1>6 DEF Next

(* Whoever opens a connection has none open, unless `again' says so.       *)
LEMMA StepOpen ==
  ASSUME TypeOK, OptionsInv, NothingLeftOpen, [Next]_vars
  PROVE  NothingLeftOpen'
<1> USE DEF TypeOK, NothingLeftOpen, configVars, connVars
<1>1. CASE Connect
  BY <1>1 DEF Connect
<1>2. ASSUME NEW s \in Settings, SetOption(s) PROVE NothingLeftOpen'
  BY <1>2 DEF SetOption
<1>3. CASE SetMiddlewareTracer
  BY <1>3 DEF SetMiddlewareTracer
<1>4. CASE OptionFails
  BY <1>4 DEF OptionFails
<1>5. CASE ConnectOption
  BY <1>5 DEF ConnectOption, Opens
<1>6. CASE Ping
  BY <1>6 DEF Ping
<1>7. CASE Establish
  BY <1>7 DEF Establish, Opens, OptionsInv
<1>8. CASE ConnectFails
  BY <1>8 DEF ConnectFails, OptionsInv
<1>9. CASE Disconnect
  BY <1>9 DEF Disconnect
<1>10. CASE UNCHANGED vars
  BY <1>10 DEF vars
<1> QED
  BY <1>1, <1>2, <1>3, <1>4, <1>5, <1>6, <1>7, <1>8, <1>9, <1>10 DEF Next

(* Every setting that is not late is where it is used.                     *)
LEMMA StepReached ==
  ASSUME TypeOK, OptionsInv, ReachedInv, [Next]_vars
  PROVE  ReachedInv'
<1>1. CASE Connect
  BY <1>1, SMT DEF Connect, ReachedInv, TypeOK
<1>2. ASSUME NEW s \in Settings, SetOption(s) PROVE ReachedInv'
  <2>1. \A u \in Settings : u \in UsedEarly /\ u \notin late' => u \notin late /\ config'[u] = config[u]
    BY <1>2, SMT DEF SetOption, TypeOK
  <2>2. /\ kind = "redis" => "auth" \in UsedEarly
        /\ kind = "mqtt" => "address" \in UsedEarly
        /\ kind = "grpc" => "tracer" \in UsedEarly
    BY DEF UsedEarly
  <2>3. UNCHANGED <<kind, phase, broker, dial, held, made>>
    BY <1>2 DEF SetOption, connVars
  <2> QED
    BY <2>1, <2>2, <2>3 DEF ReachedInv, Settings
<1>3. CASE SetMiddlewareTracer
  BY <1>3 DEF SetMiddlewareTracer, ReachedInv, connVars
<1>4. CASE OptionFails
  BY <1>4 DEF OptionFails, ReachedInv, configVars, connVars
<1>5. CASE ConnectOption
  BY <1>5, OpensLast DEF ConnectOption, Opens, ReachedInv, TypeOK
<1>6. CASE Ping
  BY <1>6 DEF Ping, ReachedInv, configVars, connVars
<1>7. CASE Establish
  BY <1>7 DEF Establish, ReachedInv, configVars
<1>8. CASE ConnectFails
  BY <1>8 DEF ConnectFails, ReachedInv, configVars
<1>9. CASE Disconnect
  BY <1>9 DEF Disconnect, ReachedInv, configVars
<1>10. CASE UNCHANGED vars
  BY <1>10 DEF vars, ReachedInv
<1> QED
  BY <1>1, <1>2, <1>3, <1>4, <1>5, <1>6, <1>7, <1>8, <1>9, <1>10 DEF Next

(* Whatever Connect returns nil for has the settings of its options.       *)
LEMMA StepConnected ==
  ASSUME TypeOK, TypeOK', OptionsInv, ReachedInv, ConnectedAsAsked, [Next]_vars
  PROVE  ConnectedAsAsked'
<1>1. CASE Connect
  BY <1>1 DEF Connect, ConnectedAsAsked
<1>2. ASSUME NEW s \in Settings, SetOption(s) PROVE ConnectedAsAsked'
  BY <1>2 DEF SetOption, ConnectedAsAsked, OptionsInv
<1>3. CASE SetMiddlewareTracer \/ OptionFails \/ ConnectOption \/ ConnectFails
  BY <1>3 DEF SetMiddlewareTracer, OptionFails, ConnectOption, ConnectFails, ConnectedAsAsked, OptionsInv
<1>4. CASE Ping
  <2>1. UNCHANGED <<kind, held, made, open, config, dial, late>> /\ kind = "redis"
    BY <1>4 DEF Ping, configVars, connVars
  <2>2. connected' => held \in open
    BY <1>4 DEF Ping
  <2>3. 0 \notin open
    BY DEF TypeOK
  <2>4. Options' = {"auth"}
    BY <2>1 DEF Options
  <2> QED
    BY <2>1, <2>2, <2>3, <2>4 DEF ConnectedAsAsked, ReachedInv
<1>5. CASE Establish
  <2> DEFINE settings == [config EXCEPT !["address"] = IF kind = "mqtt" THEN broker ELSE @,
                                        !["tracer"] = IF kind = "grpc" THEN dial ELSE @]
  <2>1. /\ UNCHANGED <<kind, config, broker, dial, late>>
        /\ phase = "options" /\ kind # "redis"
        /\ held' = Len(made) + 1 /\ held' \in open'
        /\ made' = Append(made, settings)
    BY <1>5 DEF Establish, Opens, configVars
  <2>2. settings \in [Settings -> Nat]
    <3>1. /\ config \in [Settings -> Nat] /\ broker \in Nat /\ dial \in Nat
          /\ "address" \in Settings /\ "tracer" \in Settings
      BY DEF TypeOK, Settings
    <3> HIDE DEF Settings
    <3> QED
      BY <3>1, SMT
  <2>3. made'[held'] = settings
    <3> HIDE DEF settings
    <3> QED
      BY <2>1, <2>2, OpensLast
  <2>4. /\ settings["tracer"] = IF kind = "grpc" THEN dial ELSE config["tracer"]
        /\ settings["auth"] = config["auth"]
        /\ settings["address"] = IF kind = "mqtt" THEN broker ELSE config["address"]
    BY SMT DEF TypeOK, Settings
  <2> HIDE DEF settings
  <2>5. ASSUME NEW s \in Options', s \notin late'
        PROVE  settings[s] = config[s] \/ (kind = "grpc" /\ s = "tracer" /\ dial = 0)
    <3>1. s \in Options
      BY <2>1, <2>5 DEF Options
    <3>2. CASE kind = "mqtt"
      BY <2>1, <2>4, <2>5, <3>1, <3>2 DEF Options, Settings, ReachedInv
    <3>3. CASE kind = "mysql"
      BY <2>4, <3>1, <3>3 DEF Options
    <3>4. CASE kind = "grpc"
      BY <2>1, <2>4, <2>5, <3>1, <3>4 DEF Options, ReachedInv
    <3> QED
      BY <2>1, <3>2, <3>3, <3>4 DEF TypeOK, Kinds
  <2> QED
    BY <2>1, <2>3, <2>5 DEF ConnectedAsAsked
<1>6. CASE Disconnect
  BY <1>6 DEF Disconnect, ConnectedAsAsked
<1>7. CASE UNCHANGED vars
  BY <1>7 DEF vars, ConnectedAsAsked, Options
<1> QED
  BY <1>1, <1>2, <1>3, <1>4, <1>5, <1>6, <1>7 DEF Next

LEMMA ConnectionInvariant == Spec => []ConnectionInv
<1>1. Init => ConnectionInv
  <2> SUFFICES ASSUME Init PROVE ConnectionInv
    OBVIOUS
  <2>1. made \in Seq([Settings -> Nat]) /\ Len(made) = 0
    BY SMT DEF Init
  <2>2. config \in [Settings -> Nat]
    BY DEF Init
  <2>3. TypeOK
    <3>1. held \in 0..Len(made) /\ open \subseteq 1..Len(made)
      BY <2>1, SMT DEF Init
    <3> QED
      BY <2>1, <2>2, <3>1 DEF Init, TypeOK
  <2> QED
    BY <2>3 DEF Init, ConnectionInv, OptionsInv, ReachedInv, NothingLeftOpen, ConnectedAsAsked
<1>2. ConnectionInv /\ [Next]_vars => ConnectionInv'
  BY StepTyped, StepOptions, StepOpen, StepReached, StepConnected DEF ConnectionInv
<1> QED
  BY <1>1, <1>2, PTL DEF Spec

(* The states of a client keep their types, for any numbers of Connects    *)
(* and of settings.                                                        *)
THEOREM ConnectionTypeCorrect == Spec => []TypeOK
<1>1. ConnectionInv => TypeOK
  BY DEF ConnectionInv
<1> QED
  BY <1>1, ConnectionInvariant, PTL

(* Whatever fails in a Connect of redis, mqtt, mysql or grpc, Disconnect   *)
(* closes what it has opened, as long as none is opened over another.      *)
THEOREM DisconnectClosesAll == Spec => []NothingLeftOpen
<1>1. ConnectionInv => NothingLeftOpen
  BY DEF ConnectionInv
<1> QED
  BY <1>1, ConnectionInvariant, PTL

(* A Connect that returns nil has connected with the settings of its       *)
(* options, those excepted that came too late.                             *)
THEOREM ConnectsAsAsked == Spec => []ConnectedAsAsked
<1>1. ConnectionInv => ConnectedAsAsked
  BY DEF ConnectionInv
<1> QED
  BY <1>1, ConnectionInvariant, PTL
-------------------------------------------------------------------------------
(* A circuit.                                                              *)

(* A circuit has what its first Start that returned nil was given, if      *)
(* there was one.                                                          *)
MadeInv ==
    \A n \in Circuits :
        circuits[n] = IF given[n] = Circuit!NoStart THEN Circuit!NoStart ELSE Circuit!Merged(given[n])

(* The calls that the circuit n has let through and that it still counts.  *)
Admitted(n) == {c \in Executes : name[c] = n /\ execPc[c] \in {"running", "returned"}}

(* It counts the calls that it has admitted or refused and that have not   *)
(* left it.                                                                *)
CountsInv ==
    /\ count \in [Circuits -> Nat]
    /\ \A n \in Circuits : count[n] = Cardinality(Circuit!Counted(n))

(* A circuit that has a limit has admitted no more calls than that, and    *)
(* only one that has a limit has refused any for their number.             *)
LoadInv ==
    /\ \A n \in Circuits :
           given[n] # Circuit!NoStart /\ circuits[n].limit # -1
               => Cardinality(Admitted(n)) <= circuits[n].limit
    /\ \A c \in throttled : given[name[c]] # Circuit!NoStart /\ circuits[name[c]].limit # -1

(* What has come of a call, by where it is.                                *)
CallInv ==
    \A c \in Executes :
        /\ execPc[c] = "new" => c \notin known
        /\ execPc[c] \notin {"new", "over"} => given[name[c]] # Circuit!NoStart
        /\ execPc[c] # "over" => answer[c] = "none" /\ fellBack[c] = "none"
        /\ execPc[c] \in {"new", "found", "refused", "running"} => ran[c] = "none"
        /\ execPc[c] = "returned" => ran[c] # "none"
        /\ execPc[c] \in {"failing", "fallback"} => ran[c] \in {"none", "failed"}
        /\ execPc[c] = "fallback" => ~circuits[name[c]].noFallback
        /\ execPc[c] = "over" => /\ answer[c] # "none"
                                /\ answer[c] = "nil" <=> ran[c] = "ok" \/ fellBack[c] = "ok"
        /\ fellBack[c] # "none" => /\ ran[c] \in {"none", "failed"}
                                  /\ given[name[c]] # Circuit!NoStart
                                  /\ ~circuits[name[c]].noFallback
        /\ answer[c] = "unknown" => c \notin known /\ ran[c] = "none" /\ fellBack[c] = "none"

(* The types of everything but the counts.                                 *)
CircuitTyped ==
    /\ default \in Circuit!Properties
    /\ starts \in 0..MaxStarts
    /\ circuits \in [Circuits -> [limit : Limits \cup {LibraryLimit}, noFallback : BOOLEAN] \cup {Circuit!NoStart}]
    /\ given \in [Circuits -> Circuit!Properties \cup {Circuit!NoStart}]
    /\ execPc \in [Executes -> {"new", "found", "refused", "running", "returned", "failing", "fallback", "over"}]
    /\ name \in [Executes -> Circuits]
    /\ ran \in [Executes -> {"none", "ok", "failed", "bad"}]
    /\ fellBack \in [Executes -> {"none", "ok", "failed"}]
    /\ answer \in [Executes -> {"none", "nil", "unknown", "error"}]
    /\ known \subseteq Executes
    /\ throttled \subseteq Executes

(* The inductive invariant.                                                *)
CircuitInv == CircuitTyped /\ MadeInv /\ CountsInv /\ LoadInv /\ CallInv

(* What a circuit makes of its options is never taken for no circuit, and  *)
(* no limit stays none.                                                    *)
LEMMA MergedOptions ==
  ASSUME default \in Circuit!Properties, NEW o \in Circuit!Properties
  PROVE  /\ Circuit!Merged(o) \in [limit : Limits \cup {LibraryLimit}, noFallback : BOOLEAN]
         /\ Circuit!Merged(o) # Circuit!NoStart
         /\ Circuit!Merged(o).limit \in Int
         /\ o.limit = -1 => Circuit!Merged(o).limit = -1
         /\ o # Circuit!NoStart
<1> DEFINE limit == CASE o.limit # 0 -> o.limit
                      [] o.limit = 0 /\ default.limit # 0 -> default.limit
                      [] OTHER -> LibraryLimit
           noFallback == o.noFallback \/ default.noFallback
<1>1. /\ o.limit \in Limits /\ default.limit \in Limits
      /\ o.noFallback \in BOOLEAN /\ default.noFallback \in BOOLEAN
  BY DEF Circuit!Properties
<1>2. Limits \subseteq Nat \cup {-1} /\ LibraryLimit \in Nat
  BY MCClientsAssumption DEF MCClientsAssumption
<1>3. limit \in Limits \cup {LibraryLimit} /\ limit \in Nat \cup {-1}
  BY <1>1, <1>2
<1>4. noFallback \in BOOLEAN
  BY <1>1
<1>5. o.limit = -1 => limit = -1
  BY <1>1, <1>2
<1>6. Circuit!Merged(o) = [limit |-> limit, noFallback |-> noFallback]
  BY DEF Circuit!Merged
<1>7. o.limit # -2
  BY <1>1, <1>2
<1> HIDE DEF limit, noFallback
<1>8. Circuit!Merged(o).limit = limit /\ limit # -2 /\ limit \in Int
  BY <1>3, <1>6
<1> QED
  BY <1>3, <1>4, <1>5, <1>6, <1>7, <1>8 DEF Circuit!NoStart

(* CircuitClient has its cardinalities from an instance of FiniteSets.     *)
LEMMA SameCardinality ==
  \A S : Circuit!Cardinality(S) = Cardinality(S)
BY Zenon DEF Circuit!Cardinality, Cardinality

(* The calls that are counted, and those let through, are finitely many.   *)
LEMMA CountedFinite ==
  ASSUME NEW n
  PROVE  /\ IsFiniteSet(Circuit!Counted(n)) /\ IsFiniteSet(Admitted(n))
         /\ Cardinality(Circuit!Counted(n)) \in Nat /\ Cardinality(Admitted(n)) \in Nat
         /\ Cardinality(Admitted(n)) <= Cardinality(Circuit!Counted(n))
<1>1. Circuit!Counted(n) \subseteq Executes /\ Admitted(n) \subseteq Circuit!Counted(n)
  BY DEF Circuit!Counted, Admitted
<1>2. IsFiniteSet(Executes)
  BY MCClientsAssumption DEF MCClientsAssumption
<1> QED
  BY <1>1, <1>2, FS_Subset, FS_CardinalityType

LEMMA StepCircuitTyped ==
  ASSUME CircuitTyped, CallInv, [Circuit!Next]_(Circuit!vars)
  PROVE  CircuitTyped'
<1> USE DEF CircuitTyped, Circuit!startVars, Circuit!Over
<1>1. ASSUME NEW n \in Circuits, NEW o \in Circuit!Properties, Circuit!Start(n, o)
      PROVE  CircuitTyped'
  <2>1. Circuit!Merged(o) \in [limit : Limits \cup {LibraryLimit}, noFallback : BOOLEAN]
    BY MergedOptions
  <2>2. circuits' \in [Circuits -> [limit : Limits \cup {LibraryLimit}, noFallback : BOOLEAN] \cup {Circuit!NoStart}]
    BY <1>1, <2>1 DEF Circuit!Start, Circuit!CreateCircuit
  <2>3. given' \in [Circuits -> Circuit!Properties \cup {Circuit!NoStart}]
    BY <1>1 DEF Circuit!Start, Circuit!Started
  <2>4. starts' \in 0..MaxStarts
    BY <1>1, MCClientsAssumption DEF Circuit!Start, MCClientsAssumption
  <2> QED
    BY <1>1, <2>2, <2>3, <2>4 DEF Circuit!Start
<1>2. CASE Circuit!StartFails
  <2>1. starts' \in 0..MaxStarts
    BY <1>2, MCClientsAssumption DEF Circuit!StartFails, MCClientsAssumption
  <2> QED
    BY <1>2, <2>1 DEF Circuit!StartFails
<1>3. ASSUME NEW c \in Executes, Circuit!Execute(c) PROVE CircuitTyped'
  BY <1>3 DEF Circuit!Execute
<1>4. ASSUME NEW c \in Executes, Circuit!Refuse(c) PROVE CircuitTyped'
  BY <1>4 DEF Circuit!Refuse
<1>5. ASSUME NEW c \in Executes, Circuit!Admit(c) PROVE CircuitTyped'
  BY <1>5 DEF Circuit!Admit
<1>6. ASSUME NEW c \in Executes, Circuit!Run(c) PROVE CircuitTyped'
  BY <1>6 DEF Circuit!Run
<1>7. ASSUME NEW c \in Executes, Circuit!Leave(c) PROVE CircuitTyped'
  BY <1>7 DEF Circuit!Leave
<1>8. ASSUME NEW c \in Executes, Circuit!Fail(c) PROVE CircuitTyped'
  BY <1>8 DEF Circuit!Fail
<1>9. ASSUME NEW c \in Executes, Circuit!FallBack(c) PROVE CircuitTyped'
  BY <1>9 DEF Circuit!FallBack, CallInv
<1>10. CASE UNCHANGED Circuit!vars
  BY <1>10 DEF Circuit!vars
<1> QED
  BY <1>1, <1>2, <1>3, <1>4, <1>5, <1>6, <1>7, <1>8, <1>9, <1>10 DEF Circuit!Next

(* A circuit stays what it was made.                                       *)
LEMMA StepMade ==
  ASSUME CircuitTyped, MadeInv, [Circuit!Next]_(Circuit!vars)
  PROVE  MadeInv' /\ default' = default
         /\ \A n \in Circuits : given[n] # Circuit!NoStart => given'[n] = given[n] /\ circuits'[n] = circuits[n]
<1>0. \A o : Circuit!Merged(o)' = IF default' = default THEN Circuit!Merged(o) ELSE Circuit!Merged(o)'
  BY DEF Circuit!Merged
<1>1. ASSUME NEW n \in Circuits, NEW o \in Circuit!Properties, Circuit!Start(n, o)
      PROVE  MadeInv' /\ default' = default
             /\ \A m \in Circuits : given[m] # Circuit!NoStart => given'[m] = given[m] /\ circuits'[m] = circuits[m]
  <2>1. /\ default' = default
        /\ circuits' = IF circuits[n] = Circuit!NoStart THEN [circuits EXCEPT ![n] = Circuit!Merged(o)] ELSE circuits
        /\ given' = IF given[n] = Circuit!NoStart THEN [given EXCEPT ![n] = o] ELSE given
    BY <1>1 DEF Circuit!Start, Circuit!CreateCircuit, Circuit!Started
  <2>2. \A m \in Circuits : circuits[m] = Circuit!NoStart <=> given[m] = Circuit!NoStart
    <3> TAKE m \in Circuits
    <3>1. CASE given[m] # Circuit!NoStart
      BY <3>1, MergedOptions DEF MadeInv, CircuitTyped
    <3> QED
      BY <3>1 DEF MadeInv
  <2>3. o # Circuit!NoStart
    BY MergedOptions DEF CircuitTyped
  <2>4. \A m \in Circuits : circuits'[m] = IF given'[m] = Circuit!NoStart THEN Circuit!NoStart
                                           ELSE Circuit!Merged(given'[m])
    BY <2>1, <2>2, <2>3 DEF MadeInv, CircuitTyped
  <2>5. MadeInv'
    BY <1>0, <2>1, <2>4 DEF MadeInv
  <2> QED
    BY <2>1, <2>2, <2>5 DEF CircuitTyped
<1>2. CASE UNCHANGED Circuit!startVars
  BY <1>2 DEF Circuit!startVars, MadeInv, Circuit!Merged
<1>3. CASE Circuit!StartFails
  BY <1>3 DEF Circuit!StartFails, MadeInv, Circuit!Merged
<1>4. ASSUME NEW c \in Executes,
             \/ Circuit!Execute(c) \/ Circuit!Refuse(c) \/ Circuit!Admit(c) \/ Circuit!Run(c)
             \/ Circuit!Leave(c) \/ Circuit!Fail(c) \/ Circuit!FallBack(c)
      PROVE  UNCHANGED Circuit!startVars
  BY <1>4 DEF Circuit!Execute, Circuit!Refuse, Circuit!Admit, Circuit!Run, Circuit!Leave,
              Circuit!Fail, Circuit!FallBack
<1>5. CASE UNCHANGED Circuit!vars
  BY <1>2, <1>5 DEF Circuit!vars, Circuit!startVars
<1> QED
  BY <1>1, <1>2, <1>3, <1>4, <1>5 DEF Circuit!Next

LEMMA StepCounts ==
  ASSUME CircuitTyped, CircuitTyped', CountsInv, [Circuit!Next]_(Circuit!vars)
  PROVE  CountsInv'
<1> USE DEF CircuitTyped
<1>a. ASSUME count' = count, \A n \in Circuits : Circuit!Counted(n)' = Circuit!Counted(n)
      PROVE  CountsInv'
  BY <1>a DEF CountsInv
<1>b. ASSUME UNCHANGED <<count, execPc, name>>
      PROVE  CountsInv'
  BY <1>a, <1>b DEF Circuit!Counted
<1>1. ASSUME NEW n \in Circuits, NEW o \in Circuit!Properties, Circuit!Start(n, o)
      PROVE  UNCHANGED <<count, execPc, name>>
  BY <1>1 DEF Circuit!Start
<1>2. CASE Circuit!StartFails
  BY <1>2, <1>b DEF Circuit!StartFails
<1>3. ASSUME NEW c \in Executes, Circuit!Execute(c) \/ Circuit!Refuse(c) \/ Circuit!Fail(c) \/ Circuit!FallBack(c)
      PROVE  CountsInv'
  <2>1. /\ count' = count /\ name' = name
        /\ execPc[c] \in {"new", "found", "failing", "fallback"}
        /\ \E p \in {"found", "failing", "fallback", "over"} : execPc' = [execPc EXCEPT ![c] = p]
    BY <1>3 DEF Circuit!Execute, Circuit!Refuse, Circuit!Fail, Circuit!FallBack, Circuit!Over
  <2>2. \A n \in Circuits : Circuit!Counted(n)' = Circuit!Counted(n)
    BY <2>1 DEF Circuit!Counted
  <2> QED
    BY <1>a, <2>1, <2>2
<1>4. ASSUME NEW c \in Executes, Circuit!Admit(c)
      PROVE  CountsInv'
  <2>1. /\ name' = name /\ execPc[c] = "found" /\ name[c] \in Circuits
        /\ count' = [count EXCEPT ![name[c]] = @ + 1]
        /\ \E p \in {"refused", "running"} : execPc' = [execPc EXCEPT ![c] = p]
    BY <1>4 DEF Circuit!Admit
  <2>2. \A n \in Circuits : Circuit!Counted(n)' = IF n = name[c] THEN Circuit!Counted(n) \cup {c}
                                                   ELSE Circuit!Counted(n)
    BY <2>1 DEF Circuit!Counted
  <2>3. c \notin Circuit!Counted(name[c])
    BY <2>1 DEF Circuit!Counted
  <2>4. Cardinality(Circuit!Counted(name[c]) \cup {c}) = Cardinality(Circuit!Counted(name[c])) + 1
    BY <2>3, CountedFinite, FS_AddElement
  <2>5. \A n \in Circuits : count'[n] = IF n = name[c] THEN count[n] + 1 ELSE count[n]
    BY <2>1 DEF CountsInv
  <2>6. \A n \in Circuits : count'[n] = Cardinality(Circuit!Counted(n)')
    BY <2>2, <2>4, <2>5 DEF CountsInv
  <2> QED
    BY <2>1, <2>6 DEF CountsInv
<1>5. ASSUME NEW c \in Executes, Circuit!Run(c)
      PROVE  CountsInv'
  <2>1. /\ count' = count /\ name' = name
        /\ execPc[c] = "running" /\ execPc' = [execPc EXCEPT ![c] = "returned"]
    BY <1>5 DEF Circuit!Run
  <2>2. \A n \in Circuits : Circuit!Counted(n)' = Circuit!Counted(n)
    BY <2>1 DEF Circuit!Counted
  <2> QED
    BY <1>a, <2>1, <2>2
<1>6. ASSUME NEW c \in Executes, Circuit!Leave(c)
      PROVE  CountsInv'
  <2>1. /\ name' = name /\ execPc[c] \in {"refused", "returned"} /\ name[c] \in Circuits
        /\ count' = [count EXCEPT ![name[c]] = @ - 1]
        /\ \E p \in {"over", "failing"} : execPc' = [execPc EXCEPT ![c] = p]
    BY <1>6 DEF Circuit!Leave, Circuit!Over
  <2>2. \A n \in Circuits : Circuit!Counted(n)' = IF n = name[c] THEN Circuit!Counted(n) \ {c}
                                                   ELSE Circuit!Counted(n)
    BY <2>1 DEF Circuit!Counted
  <2>3. c \in Circuit!Counted(name[c])
    BY <2>1 DEF Circuit!Counted
  <2>4. Cardinality(Circuit!Counted(name[c]) \ {c}) = Cardinality(Circuit!Counted(name[c])) - 1
    BY <2>3, CountedFinite, FS_RemoveElement
  <2>5. Cardinality(Circuit!Counted(name[c]) \ {c}) \in Nat
    BY CountedFinite, FS_RemoveElement, FS_CardinalityType
  <2>6. \A n \in Circuits : count'[n] = IF n = name[c] THEN count[n] - 1 ELSE count[n]
    BY <2>1 DEF CountsInv
  <2>7. \A n \in Circuits : count'[n] = Cardinality(Circuit!Counted(n)')
    BY <2>2, <2>4, <2>6 DEF CountsInv
  <2>8. count[name[c]] - 1 \in Nat
    BY <2>1, <2>4, <2>5 DEF CountsInv
  <2>9. count' \in [Circuits -> Nat]
    BY <2>1, <2>8 DEF CountsInv
  <2> QED
    BY <2>7, <2>9 DEF CountsInv
<1>7. CASE UNCHANGED Circuit!vars
  BY <1>7, <1>b DEF Circuit!vars
<1> QED
  BY <1>b, <1>1, <1>2, <1>3, <1>4, <1>5, <1>6, <1>7 DEF Circuit!Next

(* A call is admitted only below the limit, and the refused ones do not    *)
(* count as admitted.                                                      *)
LEMMA StepLoad ==
  ASSUME CircuitTyped, CircuitTyped', MadeInv, CountsInv, LoadInv, CallInv, [Circuit!Next]_(Circuit!vars)
  PROVE  LoadInv'
<1> DEFINE Limited(n) == given[n] # Circuit!NoStart /\ circuits[n].limit # -1
           Within(n) == Limited(n) => Cardinality(Admitted(n)) <= circuits[n].limit
           Refused == \A c \in throttled : Limited(name[c])
<1>0. SUFFICES (\A n \in Circuits : Within(n)') /\ Refused'
  BY DEF LoadInv
<1>h. (\A n \in Circuits : Within(n)) /\ Refused
  BY DEF LoadInv
<1>i. \A n \in Circuits : Cardinality(Admitted(n)) \in Nat
  BY CountedFinite
<1>j. \A n \in Circuits : given[n] # Circuit!NoStart => circuits[n].limit \in Int
  BY MergedOptions DEF MadeInv, CircuitTyped
<1>k. \A n \in Circuits : given[n] # Circuit!NoStart => given'[n] = given[n] /\ circuits'[n] = circuits[n]
  BY StepMade
<1>s. ASSUME UNCHANGED <<given, circuits, throttled, name>>, \A n \in Circuits : Admitted(n)' \subseteq Admitted(n)
      PROVE  (\A n \in Circuits : Within(n)') /\ Refused'
  <2>1. \A n \in Circuits : Cardinality(Admitted(n)') <= Cardinality(Admitted(n)) /\ Cardinality(Admitted(n)') \in Nat
    BY <1>s, CountedFinite, FS_Subset, FS_CardinalityType
  <2>2. Refused'
    BY <1>s, <1>h
  <2>3. ASSUME NEW n \in Circuits, Limited(n)' PROVE Cardinality(Admitted(n)') <= circuits'[n].limit
    <3>1. Limited(n) /\ circuits' = circuits
      BY <1>s, <2>3
    <3> HIDE DEF Limited
    <3> QED
      BY <1>h, <1>i, <1>j, <2>1, <3>1 DEF Limited
  <2> QED
    BY <2>2, <2>3
<1>1. ASSUME NEW n \in Circuits, NEW o \in Circuit!Properties, Circuit!Start(n, o)
      PROVE  (\A m \in Circuits : Within(m)') /\ Refused'
  <2>1. UNCHANGED <<throttled, name, execPc>>
    BY <1>1 DEF Circuit!Start
  <2>2. Refused'
    BY <1>h, <1>k, <2>1 DEF CircuitTyped
  <2>3. \A m \in Circuits : Admitted(m)' = Admitted(m)
    BY <2>1 DEF Admitted
  <2>4. \A m \in Circuits : given[m] = Circuit!NoStart => Admitted(m) = {}
    BY DEF Admitted, CallInv
  <2>5. ASSUME NEW m \in Circuits, Limited(m)' PROVE Cardinality(Admitted(m)') <= circuits'[m].limit
    <3>1. CASE given[m] # Circuit!NoStart
      BY <1>h, <1>k, <2>3, <2>5, <3>1
    <3>2. CASE given[m] = Circuit!NoStart
      <4>1. Cardinality(Admitted(m)') = 0
        BY <2>3, <2>4, <3>2, FS_EmptySet
      <4>2. circuits'[m].limit \in Nat
        <5>1. circuits'[m] \in [limit : Limits \cup {LibraryLimit}, noFallback : BOOLEAN]
          <6>1. circuits[m] = Circuit!NoStart
            BY <3>2 DEF MadeInv
          <6>2. m = n /\ circuits'[m] = Circuit!Merged(o)
            BY <1>1, <2>5, <3>2, <6>1 DEF Circuit!Start, Circuit!CreateCircuit, Circuit!Started, CircuitTyped
          <6> QED
            BY <6>2, MergedOptions DEF CircuitTyped
        <5> QED
          BY <2>5, <5>1, MCClientsAssumption DEF MCClientsAssumption
      <4> QED
        BY <4>1, <4>2
    <3> QED
      BY <3>1, <3>2
  <2> QED
    BY <2>2, <2>5
<1>2. CASE Circuit!StartFails
  BY <1>2, <1>s DEF Circuit!StartFails, Admitted
<1>3. ASSUME NEW c \in Executes,
             Circuit!Execute(c) \/ Circuit!Refuse(c) \/ Circuit!Leave(c) \/ Circuit!Fail(c) \/ Circuit!FallBack(c)
      PROVE  (\A n \in Circuits : Within(n)') /\ Refused'
  <2>1. /\ UNCHANGED <<given, circuits, throttled, name>>
        /\ \E p \in {"found", "failing", "fallback", "over"} : execPc' = [execPc EXCEPT ![c] = p]
    BY <1>3 DEF Circuit!Execute, Circuit!Refuse, Circuit!Leave, Circuit!Fail, Circuit!FallBack, Circuit!Over,
                Circuit!startVars
  <2>2. \A n \in Circuits : Admitted(n)' \subseteq Admitted(n)
    BY <2>1 DEF Admitted, CircuitTyped
  <2> QED
    BY <1>s, <2>1, <2>2
<1>4. ASSUME NEW c \in Executes, Circuit!Admit(c)
      PROVE  (\A n \in Circuits : Within(n)') /\ Refused'
  <2> DEFINE over == circuits[name[c]].limit # -1 /\ count[name[c]] >= circuits[name[c]].limit
  <2>1. /\ UNCHANGED <<given, circuits, name>>
        /\ execPc[c] = "found" /\ name[c] \in Circuits /\ given[name[c]] # Circuit!NoStart
        /\ execPc' = [execPc EXCEPT ![c] = IF over THEN "refused" ELSE "running"]
        /\ throttled' = IF over THEN throttled \cup {c} ELSE throttled
    BY <1>4 DEF Circuit!Admit, Circuit!startVars, CircuitTyped, CallInv
  <2>2. Refused'
    BY <1>h, <2>1
  <2>3. CASE over
    <3>1. \A n \in Circuits : Admitted(n)' = Admitted(n)
      BY <2>1, <2>3 DEF Admitted, CircuitTyped
    <3> QED
      BY <1>h, <2>1, <2>2, <3>1
  <2>4. CASE ~over
    <3>1. \A n \in Circuits : Admitted(n)' = IF n = name[c] THEN Admitted(n) \cup {c} ELSE Admitted(n)
      BY <2>1, <2>4 DEF Admitted, CircuitTyped
    <3>2. c \notin Admitted(name[c])
      BY <2>1 DEF Admitted
    <3>3. Cardinality(Admitted(name[c]) \cup {c}) = Cardinality(Admitted(name[c])) + 1
      BY <3>2, CountedFinite, FS_AddElement
    <3>4. Cardinality(Admitted(name[c])) <= count[name[c]] /\ count[name[c]] \in Nat
      BY <2>1, CountedFinite DEF CountsInv
    <3>5. circuits[name[c]].limit # -1 => Cardinality(Admitted(name[c])) + 1 <= circuits[name[c]].limit
      BY <1>i, <1>j, <2>1, <2>4, <3>4
    <3>6. ASSUME NEW n \in Circuits, Limited(n)' PROVE Cardinality(Admitted(n)') <= circuits'[n].limit
      <4>1. CASE n = name[c]
        BY <2>1, <3>1, <3>3, <3>5, <3>6, <4>1
      <4>2. CASE n # name[c]
        BY <1>h, <2>1, <3>1, <3>6, <4>2
      <4> QED
        BY <4>1, <4>2
    <3> QED
      BY <2>2, <3>6
  <2> QED
    BY <2>3, <2>4
<1>5. ASSUME NEW c \in Executes, Circuit!Run(c)
      PROVE  (\A n \in Circuits : Within(n)') /\ Refused'
  <2>1. /\ UNCHANGED <<given, circuits, throttled, name>>
        /\ execPc[c] = "running" /\ execPc' = [execPc EXCEPT ![c] = "returned"]
    BY <1>5 DEF Circuit!Run, Circuit!startVars
  <2>2. \A n \in Circuits : Admitted(n)' \subseteq Admitted(n)
    BY <2>1 DEF Admitted, CircuitTyped
  <2> QED
    BY <1>s, <2>1, <2>2
<1>6. CASE UNCHANGED Circuit!vars
  BY <1>6, <1>s DEF Circuit!vars, Admitted
<1> QED
  BY <1>1, <1>2, <1>3, <1>4, <1>5, <1>6 DEF Circuit!Next

(* A call goes on only through a circuit that a Start has made, and what   *)
(* it returns is what its function or else its fallback has come to.       *)
LEMMA StepCalls ==
  ASSUME CircuitTyped, MadeInv, CallInv, [Circuit!Next]_(Circuit!vars)
  PROVE  CallInv'
<1> DEFINE Call(c) ==
      /\ execPc[c] = "new" => c \notin known
      /\ execPc[c] \notin {"new", "over"} => given[name[c]] # Circuit!NoStart
      /\ execPc[c] # "over" => answer[c] = "none" /\ fellBack[c] = "none"
      /\ execPc[c] \in {"new", "found", "refused", "running"} => ran[c] = "none"
      /\ execPc[c] = "returned" => ran[c] # "none"
      /\ execPc[c] \in {"failing", "fallback"} => ran[c] \in {"none", "failed"}
      /\ execPc[c] = "fallback" => ~circuits[name[c]].noFallback
      /\ execPc[c] = "over" => /\ answer[c] # "none"
                              /\ answer[c] = "nil" <=> ran[c] = "ok" \/ fellBack[c] = "ok"
      /\ fellBack[c] # "none" => /\ ran[c] \in {"none", "failed"}
                                /\ given[name[c]] # Circuit!NoStart
                                /\ ~circuits[name[c]].noFallback
      /\ answer[c] = "unknown" => c \notin known /\ ran[c] = "none" /\ fellBack[c] = "none"
<1>0. SUFFICES \A c \in Executes : Call(c)'
  BY DEF CallInv
<1>h. \A c \in Executes : Call(c)
  BY DEF CallInv
<1>k. \A c \in Executes : given[name[c]] # Circuit!NoStart =>
          given'[name[c]] = given[name[c]] /\ circuits'[name[c]] = circuits[name[c]]
  BY StepMade DEF CircuitTyped
<1>s. ASSUME UNCHANGED <<execPc, name, ran, fellBack, answer, known>>
      PROVE  \A c \in Executes : Call(c)'
  BY <1>h, <1>k, <1>s
<1>1. ASSUME NEW n \in Circuits, NEW o \in Circuit!Properties, Circuit!Start(n, o)
      PROVE  \A c \in Executes : Call(c)'
  BY <1>1, <1>s DEF Circuit!Start
<1>2. CASE Circuit!StartFails
  BY <1>2, <1>s DEF Circuit!StartFails
<1>3. ASSUME NEW c \in Executes,
             \/ Circuit!Execute(c) \/ Circuit!Refuse(c) \/ Circuit!Admit(c) \/ Circuit!Run(c)
             \/ Circuit!Leave(c) \/ Circuit!Fail(c) \/ Circuit!FallBack(c)
      PROVE  \A d \in Executes : Call(d)'
  <2>1. UNCHANGED <<given, circuits, name>>
    BY <1>3 DEF Circuit!Execute, Circuit!Refuse, Circuit!Admit, Circuit!Run, Circuit!Leave,
                Circuit!Fail, Circuit!FallBack, Circuit!startVars
  <2>2. \A d \in Executes : d # c =>
            /\ execPc'[d] = execPc[d] /\ ran'[d] = ran[d] /\ fellBack'[d] = fellBack[d] /\ answer'[d] = answer[d]
            /\ d \in known' <=> d \in known
    <3> USE DEF CircuitTyped, Circuit!Over
    <3>1. CASE Circuit!Execute(c)
      BY <3>1 DEF Circuit!Execute
    <3>2. CASE Circuit!Refuse(c)
      BY <3>2 DEF Circuit!Refuse
    <3>3. CASE Circuit!Admit(c)
      BY <3>3 DEF Circuit!Admit
    <3>4. CASE Circuit!Run(c)
      BY <3>4 DEF Circuit!Run
    <3>5. CASE Circuit!Leave(c)
      BY <3>5 DEF Circuit!Leave
    <3>6. CASE Circuit!Fail(c)
      BY <3>6 DEF Circuit!Fail
    <3>7. CASE Circuit!FallBack(c)
      BY <3>7 DEF Circuit!FallBack
    <3> QED
      BY <1>3, <3>1, <3>2, <3>3, <3>4, <3>5, <3>6, <3>7
  <2>3. \A d \in Executes : d # c => Call(d)'
    BY <1>h, <2>1, <2>2
  <2>4. Call(c)'
    <3>a. Call(c)
      BY <1>h
    <3> USE DEF CircuitTyped, Circuit!Over
    <3>1. CASE Circuit!Execute(c)
      <4>1. given[name[c]] = Circuit!NoStart <=> circuits[name[c]] = Circuit!NoStart
        BY MergedOptions DEF MadeInv
      <4> QED
        BY <2>1, <3>1, <3>a, <4>1 DEF Circuit!Execute
    <3>2. CASE Circuit!Refuse(c)
      BY <2>1, <3>2, <3>a DEF Circuit!Refuse
    <3>3. CASE Circuit!Admit(c)
      BY <2>1, <3>3, <3>a DEF Circuit!Admit
    <3>4. CASE Circuit!Run(c)
      BY <2>1, <3>4, <3>a DEF Circuit!Run
    <3>5. CASE Circuit!Leave(c)
      BY <2>1, <3>5, <3>a DEF Circuit!Leave
    <3>6. CASE Circuit!Fail(c)
      BY <2>1, <3>6, <3>a DEF Circuit!Fail
    <3>7. CASE Circuit!FallBack(c)
      BY <2>1, <3>7, <3>a DEF Circuit!FallBack
    <3> QED
      BY <1>3, <3>1, <3>2, <3>3, <3>4, <3>5, <3>6, <3>7
  <2> QED
    BY <2>3, <2>4
<1>4. CASE UNCHANGED Circuit!vars
  BY <1>4, <1>s DEF Circuit!vars
<1> QED
  BY <1>1, <1>2, <1>3, <1>4 DEF Circuit!Next

LEMMA CircuitInvariant == Circuit!Spec => []CircuitInv
<1>1. Circuit!Init => CircuitInv
  <2> SUFFICES ASSUME Circuit!Init PROVE CircuitInv
    OBVIOUS
  <2> USE DEF Circuit!Init
  <2>1. CircuitTyped
    BY MCClientsAssumption DEF CircuitTyped, MCClientsAssumption
  <2>2. MadeInv /\ CallInv
    BY DEF MadeInv, CallInv
  <2>3. \A n \in Circuits : Circuit!Counted(n) = {}
    BY DEF Circuit!Counted
  <2>4. CountsInv
    BY <2>3, FS_EmptySet DEF CountsInv
  <2>5. LoadInv
    BY DEF LoadInv
  <2> QED
    BY <2>1, <2>2, <2>4, <2>5 DEF CircuitInv
<1>2. CircuitInv /\ [Circuit!Next]_(Circuit!vars) => CircuitInv'
  BY StepCircuitTyped, StepMade, StepCounts, StepLoad, StepCalls DEF CircuitInv
<1> QED
  BY <1>1, <1>2, PTL DEF Circuit!Spec

(* A circuit runs no more functions at a time than the first Start of its  *)
(* name allowed, and refuses none for their number if that was without     *)
(* limit (circuitbreaker/client.go:55-65, 77-81), whatever Starts and      *)
(* calls run at the same time.                                             *)
THEOREM CircuitKeepsLimit == Circuit!Spec => []LimitHolds
<1>1. ASSUME CircuitInv PROVE Circuit!TypeOK
  <2>1. \A n \in Circuits : count[n] = Circuit!Cardinality(Circuit!Counted(n))
    BY <1>1, SameCardinality DEF CircuitInv, CountsInv
  <2> QED
    BY <1>1, <2>1 DEF CircuitInv, CircuitTyped, Circuit!TypeOK
<1>2. ASSUME CircuitInv PROVE Circuit!LimitHolds
  <2> SUFFICES ASSUME NEW n \in Circuits, given[n] # Circuit!NoStart
               PROVE  LET calls == {c \in Executes : name[c] = n}
                          running == {c \in calls : execPc[c] = "running"}
                      IN  IF given[n].limit = -1
                          THEN calls \cap throttled = {}
                          ELSE Circuit!Merged(given[n]).limit # -1 =>
                                   Circuit!Cardinality(running) <= Circuit!Merged(given[n]).limit
    BY Zenon DEF Circuit!LimitHolds
  <2> DEFINE calls == {c \in Executes : name[c] = n}
             running == {c \in calls : execPc[c] = "running"}
  <2>1. circuits[n] = Circuit!Merged(given[n]) /\ given[n] \in Circuit!Properties /\ default \in Circuit!Properties
    BY <1>2 DEF CircuitInv, CircuitTyped, MadeInv
  <2>2. given[n].limit = -1 => circuits[n].limit = -1
    BY <2>1, MergedOptions
  <2>3. circuits[n].limit = -1 => calls \cap throttled = {}
    BY <1>2 DEF CircuitInv, LoadInv
  <2>4. running \subseteq Admitted(n)
    BY DEF Admitted
  <2>5. Cardinality(running) <= Cardinality(Admitted(n)) /\ Cardinality(running) \in Nat
    BY <2>4, CountedFinite, FS_Subset, FS_CardinalityType
  <2>6. circuits[n].limit # -1 => Cardinality(running) <= circuits[n].limit
    <3>1. circuits[n].limit \in Int /\ Cardinality(Admitted(n)) \in Nat
      BY <2>1, MergedOptions, CountedFinite
    <3>2. circuits[n].limit # -1 => Cardinality(Admitted(n)) <= circuits[n].limit
      BY <1>2 DEF CircuitInv, LoadInv
    <3> QED
      BY <2>5, <3>1, <3>2
  <2> QED
    BY <2>1, <2>2, <2>3, <2>6, SameCardinality
<1> QED
  BY <1>1, <1>2, CircuitInvariant, PTL DEF LimitHolds

(* Execute returns nil just if its function or else its fallback did, and  *)
(* calls neither of them if it finds no circuit                            *)
(* (circuitbreaker/client.go:183-191), however many run at a time.         *)
THEOREM ExecuteAnswersTruly == Circuit!Spec => []AnswerIsTrue
<1>1. ASSUME CircuitInv PROVE AnswerIsTrue
  <2> SUFFICES ASSUME NEW c \in Executes
               PROVE  /\ execPc[c] = "over" => (answer[c] = "nil" <=> (ran[c] = "ok" \/ fellBack[c] = "ok"))
                      /\ fellBack[c] # "none" => /\ ran[c] \in {"none", "failed"}
                                                 /\ ~Circuit!Merged(given[name[c]]).noFallback
                      /\ answer[c] = "unknown" => c \notin known /\ ran[c] = "none" /\ fellBack[c] = "none"
    BY DEF AnswerIsTrue, Circuit!AnswerIsTrue
  <2>1. given[name[c]] # Circuit!NoStart => circuits[name[c]] = Circuit!Merged(given[name[c]])
    BY <1>1 DEF CircuitInv, CircuitTyped, MadeInv
  <2> QED
    BY <1>1, <2>1 DEF CircuitInv, CallInv
<1> QED
  BY <1>1, CircuitInvariant, PTL
-------------------------------------------------------------------------------
(* A call that is retried.                                                 *)

(* The wrappers are those that were asked for.                             *)
WrapInv ==
    /\ \A w \in {"context", "retries"} : Retry!Wraps(w) <=> w \in asked
    /\ retryPhase = "options" => \A c \in Calls : pc[c] = "new"
    /\ \A c \in Calls : pc[c] = "new" => attempts[c] = 0 /\ after[c] = 0

(* An attempt that was made after the context was done is the last.        *)
CancelInv ==
    \A c \in Calls :
        /\ after[c] # 0 => cancelled
        /\ "context" \in asked /\ after[c] # 0 => after[c] = 1 /\ pc[c] \in {"next", "over"}

(* As long as no two calls of Do have overlapped, the one that runs has    *)
(* the count for itself: its attempts are ahead of it by the one that was  *)
(* made but is not counted.                                                *)
CountInv ==
    ~overlapped =>
        /\ \A c, d \in Retry!Running : c = d
        /\ "retries" \in asked =>
               \A c \in Calls :
                   /\ pc[c] \in {"operation", "timer"} => attempts[c] = tries
                   /\ pc[c] \in {"next", "counting"} => attempts[c] = tries + 1
                   /\ pc[c] = "counting" => read[c] = tries
                   /\ pc[c] = "over" =>
                          /\ attempts[c] <= MaxRetries + 1
                          /\ result[c] = "false" /\ ~cancelled /\ base = "constant"
                                 => attempts[c] = MaxRetries + 1

(* The inductive invariant.                                                *)
RetryingInv == Retry!TypeOK /\ WrapInv /\ CancelInv /\ CountInv

(* A wrapper that is put on is there, and so are those that were.          *)
LEMMA OneMoreWrapper ==
  ASSUME wraps \in Seq({"context", "retries"}), NEW w \in {"context", "retries"},
         wraps' = <<w>> \o wraps
  PROVE  /\ wraps' \in Seq({"context", "retries"})
         /\ \A v : Retry!Wraps(v)' <=> v = w \/ Retry!Wraps(v)
<1>1. /\ wraps' \in Seq({"context", "retries"})
      /\ Len(wraps') = Len(wraps) + 1 /\ Len(wraps) \in Nat
      /\ wraps'[1] = w
      /\ \A i \in 1..Len(wraps) : wraps'[i + 1] = wraps[i]
  OBVIOUS
<1>2. DOMAIN wraps = 1..Len(wraps) /\ DOMAIN wraps' = 1..(Len(wraps) + 1)
  BY <1>1
<1>3. ASSUME NEW v, Retry!Wraps(v)' PROVE v = w \/ Retry!Wraps(v)
  <2>1. PICK i \in 1..(Len(wraps) + 1) : wraps'[i] = v
    BY <1>2, <1>3 DEF Retry!Wraps
  <2>2. CASE i = 1
    BY <1>1, <2>1, <2>2
  <2>3. CASE i # 1
    <3>1. i - 1 \in 1..Len(wraps) /\ (i - 1) + 1 = i
      BY <1>1, <2>3
    <3>2. wraps[i - 1] = v
      BY <1>1, <2>1, <3>1
    <3> QED
      BY <1>2, <3>1, <3>2 DEF Retry!Wraps
  <2> QED
    BY <2>2, <2>3
<1>4. ASSUME NEW v, v = w \/ Retry!Wraps(v) PROVE Retry!Wraps(v)'
  <2>1. CASE v = w
    <3>1. 1 \in DOMAIN wraps' /\ wraps'[1] = v
      BY <1>1, <1>2, <2>1
    <3> QED
      BY <3>1 DEF Retry!Wraps
  <2>2. CASE Retry!Wraps(v)
    <3>1. PICK i \in 1..Len(wraps) : wraps[i] = v
      BY <1>2, <2>2 DEF Retry!Wraps
    <3>2. i + 1 \in DOMAIN wraps' /\ wraps'[i + 1] = v
      BY <1>1, <1>2, <3>1
    <3> QED
      BY <3>2 DEF Retry!Wraps
  <2> QED
    BY <1>4, <2>1, <2>2
<1> QED
  BY <1>1, <1>3, <1>4

LEMMA StepWraps ==
  ASSUME Retry!TypeOK, WrapInv, [Retry!Next]_(Retry!vars)
  PROVE  WrapInv'
<1> DEFINE Fresh == /\ retryPhase = "options" => \A c \in Calls : pc[c] = "new"
                    /\ \A c \in Calls : pc[c] = "new" => attempts[c] = 0 /\ after[c] = 0
           Put == \A w \in {"context", "retries"} : Retry!Wraps(w) <=> w \in asked
<1>0. SUFFICES Put' /\ Fresh'
  BY DEF WrapInv
<1>h. Put /\ Fresh
  BY DEF WrapInv
<1> USE DEF Retry!TypeOK, Retry!callVars, Retry!optionVars
<1>a. ASSUME NEW w \in {"context", "retries"}, wraps' = <<w>> \o wraps, asked' = asked \cup {w}
      PROVE  Put'
  BY <1>a, <1>h, OneMoreWrapper
<1>b. ASSUME UNCHANGED <<wraps, asked>> PROVE Put'
  BY <1>b, <1>h DEF Retry!Wraps
<1>1. CASE Retry!SetContext
  BY <1>1, <1>a, <1>h DEF Retry!SetContext
<1>2. CASE Retry!SetMaxRetries
  BY <1>2, <1>a, <1>h DEF Retry!SetMaxRetries
<1>3. CASE Retry!SetInterval \/ Retry!Ready
  BY <1>3, <1>b, <1>h DEF Retry!SetInterval, Retry!Ready
<1>4. CASE Retry!Cancel
  BY <1>4, <1>b, <1>h DEF Retry!Cancel
<1>5. ASSUME NEW c \in Calls, Retry!Do(c) PROVE Put' /\ Fresh'
  BY <1>5, <1>b, <1>h DEF Retry!Do
<1>6. ASSUME NEW c \in Calls, Retry!Goes(c) PROVE Put' /\ Fresh'
  <2>1. UNCHANGED <<wraps, asked, retryPhase>> /\ pc[c] # "new"
    BY <1>6 DEF Retry!Goes, Retry!Operation, Retry!NextBackOff, Retry!Stop, Retry!Count, Retry!Timer, Retry!Interrupt
  <2>2. \A d \in Calls : d # c => pc'[d] = pc[d] /\ attempts'[d] = attempts[d] /\ after'[d] = after[d]
    BY <1>6 DEF Retry!Goes, Retry!Operation, Retry!NextBackOff, Retry!Stop, Retry!Count, Retry!Timer,
                Retry!Interrupt, Retry!Over
  <2>3. pc'[c] # "new"
    BY <1>6 DEF Retry!Goes, Retry!Operation, Retry!NextBackOff, Retry!Stop, Retry!Count, Retry!Timer,
                Retry!Interrupt, Retry!Over
  <2> QED
    BY <1>b, <1>h, <2>1, <2>2, <2>3
<1>7. CASE UNCHANGED Retry!vars
  BY <1>7, <1>b, <1>h DEF Retry!vars
<1> QED
  BY <1>1, <1>2, <1>3, <1>4, <1>5, <1>6, <1>7 DEF Retry!Next

LEMMA StepRetryTyped ==
  ASSUME Retry!TypeOK, [Retry!Next]_(Retry!vars)
  PROVE  Retry!TypeOK'
<1>0. MaxRetries \in Nat \ {0} /\ Cap \in Nat
  BY MCClientsAssumption DEF MCClientsAssumption
<1> USE DEF Retry!TypeOK, Retry!callVars, Retry!optionVars, Retry!Over
<1>1. CASE Retry!SetContext
  BY <1>1, OneMoreWrapper DEF Retry!SetContext
<1>2. CASE Retry!SetMaxRetries
  BY <1>2, OneMoreWrapper DEF Retry!SetMaxRetries
<1>3. CASE Retry!SetInterval \/ Retry!Ready
  BY <1>3 DEF Retry!SetInterval, Retry!Ready
<1>4. CASE Retry!Cancel
  BY <1>4 DEF Retry!Cancel
<1>5. ASSUME NEW c \in Calls, Retry!Do(c) PROVE Retry!TypeOK'
  BY <1>0, <1>5 DEF Retry!Do
<1>c. \A n \in 0..Cap : Retry!Capped(n) \in 0..Cap
  BY <1>0 DEF Retry!Capped
<1>6. ASSUME NEW c \in Calls, Retry!Operation(c) PROVE Retry!TypeOK'
  <2>1. attempts' \in [Calls -> 0..Cap]
    BY <1>6, <1>c DEF Retry!Operation
  <2>2. after' \in [Calls -> 0..Cap]
    BY <1>6, <1>c DEF Retry!Operation
  <2> QED
    BY <1>6, <2>1, <2>2 DEF Retry!Operation
<1>7. ASSUME NEW c \in Calls, Retry!NextBackOff(c) PROVE Retry!TypeOK'
  <2>1. read' \in [Calls -> 0..(MaxRetries - 1)]
    BY <1>0, <1>7 DEF Retry!NextBackOff
  <2> QED
    BY <1>7, <2>1 DEF Retry!NextBackOff
<1>8. ASSUME NEW c \in Calls, Retry!Stop(c) \/ Retry!Interrupt(c) PROVE Retry!TypeOK'
  BY <1>8 DEF Retry!Stop, Retry!Interrupt
<1>9. ASSUME NEW c \in Calls, Retry!Count(c) PROVE Retry!TypeOK'
  <2>1. tries' \in 0..MaxRetries
    BY <1>0, <1>9 DEF Retry!Count
  <2> QED
    BY <1>9, <2>1 DEF Retry!Count
<1>10. ASSUME NEW c \in Calls, Retry!Timer(c) PROVE Retry!TypeOK'
  BY <1>10 DEF Retry!Timer
<1>11. CASE UNCHANGED Retry!vars
  BY <1>11 DEF Retry!vars
<1> QED
  BY <1>1, <1>2, <1>3, <1>4, <1>5, <1>6, <1>7, <1>8, <1>9, <1>10, <1>11 DEF Retry!Next, Retry!Goes

(* Where the context was asked for, nothing but its end follows an attempt *)
(* that was made when it was done.                                         *)
LEMMA StepCancel ==
  ASSUME Retry!TypeOK, WrapInv, CancelInv, [Retry!Next]_(Retry!vars)
  PROVE  CancelInv'
<1> DEFINE Ends(c) == /\ after[c] # 0 => cancelled
                      /\ "context" \in asked /\ after[c] # 0 => after[c] = 1 /\ pc[c] \in {"next", "over"}
<1>0. SUFFICES \A c \in Calls : Ends(c)'
  BY DEF CancelInv
<1>h. \A c \in Calls : Ends(c)
  BY DEF CancelInv
<1>i. Retry!Capped(0) = 1
  BY MCClientsAssumption DEF Retry!Capped, MCClientsAssumption
<1> USE DEF Retry!callVars, Retry!optionVars
<1>1. CASE Retry!SetContext \/ Retry!SetMaxRetries \/ Retry!SetInterval \/ Retry!Ready
  <2>1. retryPhase = "options" /\ UNCHANGED <<cancelled, pc, after>>
    BY <1>1 DEF Retry!SetContext, Retry!SetMaxRetries, Retry!SetInterval, Retry!Ready
  <2> QED
    BY <2>1 DEF WrapInv
<1>2. CASE Retry!Cancel
  BY <1>2, <1>h DEF Retry!Cancel
<1>3. ASSUME NEW c \in Calls, Retry!Do(c) PROVE \A d \in Calls : Ends(d)'
  BY <1>3, <1>h DEF Retry!Do, WrapInv, Retry!TypeOK
<1>4. ASSUME NEW c \in Calls, Retry!Operation(c) PROVE \A d \in Calls : Ends(d)'
  <2>1. /\ UNCHANGED <<asked, cancelled>>
        /\ pc[c] = "operation" /\ pc'[c] \in {"next", "over"}
        /\ after'[c] = IF cancelled THEN Retry!Capped(after[c]) ELSE after[c]
        /\ \A d \in Calls : d # c => pc'[d] = pc[d] /\ after'[d] = after[d]
    BY <1>4 DEF Retry!Operation, Retry!Over, Retry!TypeOK
  <2>2. Ends(c)'
    BY <1>h, <1>i, <2>1
  <2> QED
    BY <1>h, <2>1, <2>2
<1>5. ASSUME NEW c \in Calls,
             Retry!NextBackOff(c) \/ Retry!Stop(c) \/ Retry!Count(c) \/ Retry!Timer(c) \/ Retry!Interrupt(c)
      PROVE  \A d \in Calls : Ends(d)'
  <2>1. /\ UNCHANGED <<asked, cancelled, after>>
        /\ \A d \in Calls : d # c => pc'[d] = pc[d]
    BY <1>5 DEF Retry!NextBackOff, Retry!Stop, Retry!Count, Retry!Timer, Retry!Interrupt, Retry!Over,
                Retry!TypeOK
  <2>2. pc'[c] = "over" \/ ~("context" \in asked /\ after[c] # 0)
    <3>1. CASE Retry!NextBackOff(c)
      BY <1>h, <3>1 DEF Retry!NextBackOff, WrapInv
    <3>2. CASE Retry!Stop(c) \/ Retry!Interrupt(c)
      BY <3>2 DEF Retry!Stop, Retry!Interrupt, Retry!Over, Retry!TypeOK
    <3>3. CASE Retry!Count(c) \/ Retry!Timer(c)
      BY <1>h, <3>3 DEF Retry!Count, Retry!Timer
    <3> QED
      BY <1>5, <3>1, <3>2, <3>3
  <2>3. Ends(c)'
    BY <1>h, <2>1, <2>2
  <2> QED
    BY <1>h, <2>1, <2>3
<1>6. CASE UNCHANGED Retry!vars
  BY <1>6, <1>h DEF Retry!vars
<1> QED
  BY <1>1, <1>2, <1>3, <1>4, <1>5, <1>6 DEF Retry!Next, Retry!Goes

(* The count follows the one call that runs.                               *)
LEMMA StepTries ==
  ASSUME Retry!TypeOK, WrapInv, CountInv, [Retry!Next]_(Retry!vars)
  PROVE  CountInv'
<1> DEFINE Alone == \A c, d \in Retry!Running : c = d
           Counts(c) ==
               /\ pc[c] \in {"operation", "timer"} => attempts[c] = tries
               /\ pc[c] \in {"next", "counting"} => attempts[c] = tries + 1
               /\ pc[c] = "counting" => read[c] = tries
               /\ pc[c] = "over" =>
                      /\ attempts[c] <= MaxRetries + 1
                      /\ result[c] = "false" /\ ~cancelled /\ base = "constant"
                             => attempts[c] = MaxRetries + 1
<1>0. SUFFICES ASSUME ~overlapped'
               PROVE  Alone' /\ ("retries" \in asked' => \A c \in Calls : Counts(c)')
  BY DEF CountInv
<1>o. overlapped \in BOOLEAN /\ ~overlapped
  <2>1. overlapped => overlapped'
    BY DEF Retry!Next, Retry!SetContext, Retry!SetMaxRetries, Retry!SetInterval, Retry!Ready, Retry!Cancel,
           Retry!Do, Retry!Goes, Retry!Operation, Retry!NextBackOff, Retry!Stop, Retry!Count, Retry!Timer,
           Retry!Interrupt, Retry!vars, Retry!callVars
  <2> QED
    BY <1>0, <2>1 DEF Retry!TypeOK
<1>h. Alone /\ ("retries" \in asked => \A c \in Calls : Counts(c))
  BY <1>o DEF CountInv
<1>n. MaxRetries \in Nat \ {0} /\ Cap \in Nat /\ Cap > MaxRetries + 1
  BY MCClientsAssumption DEF MCClientsAssumption
<1> USE DEF Retry!callVars, Retry!optionVars
<1>s. ASSUME UNCHANGED pc PROVE Alone'
  BY <1>h, <1>s DEF Retry!Running
<1>1. CASE Retry!SetContext \/ Retry!SetMaxRetries \/ Retry!SetInterval \/ Retry!Ready
  <2>1. retryPhase = "options" /\ UNCHANGED pc
    BY <1>1 DEF Retry!SetContext, Retry!SetMaxRetries, Retry!SetInterval, Retry!Ready
  <2> QED
    BY <1>s, <2>1 DEF WrapInv
<1>2. CASE Retry!Cancel
  BY <1>2, <1>h, <1>s DEF Retry!Cancel
<1>3. ASSUME NEW c \in Calls, Retry!Do(c)
      PROVE  Alone' /\ ("retries" \in asked' => \A d \in Calls : Counts(d)')
  <2>1. /\ UNCHANGED <<asked, cancelled, read, attempts, result, base>>
        /\ pc[c] = "new" /\ Retry!Running = {} /\ tries' = 0
        /\ pc'[c] = "operation" /\ \A d \in Calls : d # c => pc'[d] = pc[d]
    BY <1>0, <1>3 DEF Retry!Do, Retry!TypeOK
  <2>2. \A d \in Calls : d # c => pc'[d] \in {"new", "over"}
    BY <2>1 DEF Retry!Running
  <2>3. Alone'
    BY <2>2 DEF Retry!Running
  <2>4. attempts[c] = 0
    BY <2>1 DEF WrapInv
  <2> QED
    BY <1>h, <2>1, <2>2, <2>3, <2>4
<1>g. ASSUME NEW c \in Calls, pc[c] \notin {"new", "over"}, \A d \in Calls : d # c => pc'[d] = pc[d]
      PROVE  /\ \A d \in Calls : d # c => pc[d] \in {"new", "over"}
             /\ Alone'
  BY <1>g, <1>h DEF Retry!Running
<1>4. ASSUME NEW c \in Calls, Retry!Goes(c)
      PROVE  Alone' /\ ("retries" \in asked' => \A d \in Calls : Counts(d)')
  <2>1. /\ UNCHANGED <<asked, cancelled, base>>
        /\ pc[c] \notin {"new", "over"}
    BY <1>4 DEF Retry!Goes, Retry!Operation, Retry!NextBackOff, Retry!Stop, Retry!Count, Retry!Timer, Retry!Interrupt
  <2>2. \A d \in Calls : d # c => pc'[d] = pc[d] /\ attempts'[d] = attempts[d] /\ result'[d] = result[d]
    BY <1>4 DEF Retry!Goes, Retry!Operation, Retry!NextBackOff, Retry!Stop, Retry!Count, Retry!Timer,
                Retry!Interrupt, Retry!Over, Retry!TypeOK
  <2>3. Alone' /\ \A d \in Calls : d # c => pc[d] \in {"new", "over"}
    BY <1>g, <2>1, <2>2
  <2>4. ASSUME "retries" \in asked PROVE Counts(c)'
    <3> USE DEF Retry!TypeOK, Retry!Over
    <3>a. Counts(c) /\ tries \in 0..MaxRetries /\ Retry!Wraps("retries")
      BY <1>h, <2>4 DEF WrapInv
    <3>1. CASE Retry!Operation(c)
      <4>1. attempts[c] = tries
        BY <3>1, <3>a DEF Retry!Operation
      <4>2. attempts'[c] = tries + 1
        BY <1>n, <3>1, <3>a, <4>1 DEF Retry!Operation, Retry!Capped
      <4> QED
        BY <1>n, <3>1, <3>a, <4>2 DEF Retry!Operation
    <3>2. CASE Retry!NextBackOff(c)
      BY <3>2, <3>a DEF Retry!NextBackOff
    <3>3. CASE Retry!Stop(c)
      <4>1. attempts'[c] = tries + 1 /\ pc'[c] = "over" /\ UNCHANGED <<cancelled, base>>
        BY <3>3, <3>a DEF Retry!Stop
      <4>2. ~cancelled /\ base = "constant" => tries = MaxRetries
        BY <1>n, <3>3, <3>a DEF Retry!Stop
      <4>3. tries + 1 <= MaxRetries + 1 /\ (tries = MaxRetries => tries + 1 = MaxRetries + 1)
        BY <1>n, <3>a
      <4> HIDE DEF Retry!TypeOK
      <4> QED
        BY <4>1, <4>2, <4>3
    <3>4. CASE Retry!Count(c)
      BY <3>4, <3>a DEF Retry!Count
    <3>5. CASE Retry!Timer(c)
      BY <3>5, <3>a DEF Retry!Timer
    <3>6. CASE Retry!Interrupt(c)
      <4>1. attempts'[c] = tries /\ pc'[c] = "over" /\ cancelled'
        BY <3>6, <3>a DEF Retry!Interrupt
      <4> QED
        BY <1>n, <3>a, <4>1
    <3> QED
      BY <1>4, <3>1, <3>2, <3>3, <3>4, <3>5, <3>6 DEF Retry!Goes
  <2> QED
    BY <1>h, <2>1, <2>2, <2>3, <2>4
<1>5. CASE UNCHANGED Retry!vars
  BY <1>5, <1>h, <1>s DEF Retry!vars
<1> QED
  BY <1>1, <1>2, <1>3, <1>4, <1>5 DEF Retry!Next

LEMMA RetryInvariant == Retry!Spec => []RetryingInv
<1>1. Retry!Init => RetryingInv
  <2> SUFFICES ASSUME Retry!Init PROVE RetryingInv
    OBVIOUS
  <2>0. MaxRetries \in Nat \ {0} /\ Cap \in Nat
    BY MCClientsAssumption DEF MCClientsAssumption
  <2>1. wraps \in Seq({"context", "retries"}) /\ DOMAIN wraps = {}
    BY DEF Retry!Init
  <2>2. Retry!TypeOK
    <3>1. /\ pc \in [Calls -> {"new", "operation", "next", "counting", "timer", "over"}]
          /\ result \in [Calls -> {"none", "true", "false"}]
          /\ \A c \in Calls : result[c] # "none" <=> pc[c] = "over"
      BY DEF Retry!Init
    <3>2. /\ read \in [Calls -> 0..(MaxRetries - 1)]
          /\ attempts \in [Calls -> 0..Cap] /\ after \in [Calls -> 0..Cap]
          /\ tries \in 0..MaxRetries
      BY <2>0 DEF Retry!Init
    <3> QED
      BY <2>1, <3>1, <3>2 DEF Retry!Init, Retry!TypeOK
  <2>3. WrapInv
    BY <2>1 DEF Retry!Init, WrapInv, Retry!Wraps
  <2>4. CancelInv /\ CountInv
    BY DEF Retry!Init, CancelInv, CountInv, Retry!Running
  <2> QED
    BY <2>2, <2>3, <2>4 DEF RetryingInv
<1>2. RetryingInv /\ [Retry!Next]_(Retry!vars) => RetryingInv'
  BY StepRetryTyped, StepWraps, StepCancel, StepTries DEF RetryingInv
<1> QED
  BY <1>1, <1>2, PTL DEF Retry!Spec

(* With SetMaxRetriesOption an operation that fails is called once and     *)
(* then retried so often, unless a Do was called while another ran; with   *)
(* SetContextOption at most one attempt follows the end of the context     *)
(* (retry/client.go:64-80, 143-151).                                       *)
THEOREM RetriesAreCounted == Retry!Spec => []RetriesCounted
<1>1. ASSUME RetryingInv PROVE RetriesCounted
  <2>1. Retry!RetryInv
    <3>1. \A c \in Calls : after[c] = 0 \/ after[c] = 1 \/ "context" \notin asked
      BY <1>1 DEF RetryingInv, CancelInv
    <3>2. Retry!CancelStops
      BY <3>1 DEF Retry!CancelStops
    <3> QED
      BY <1>1, <3>2 DEF RetryingInv, Retry!RetryInv
  <2>2. ASSUME NEW c \in Calls, "retries" \in asked, ~overlapped
        PROVE  /\ attempts[c] <= MaxRetries + 1
               /\ result[c] = "false" /\ ~cancelled /\ base = "constant" => attempts[c] = MaxRetries + 1
    <3>0. MaxRetries \in Nat
      BY MCClientsAssumption DEF MCClientsAssumption
    <3>1. /\ tries \in 0..MaxRetries /\ (result[c] = "false" => pc[c] = "over")
          /\ pc[c] \in {"new", "operation", "next", "counting", "timer", "over"}
      BY <2>1 DEF Retry!RetryInv, Retry!TypeOK
    <3>2. CASE pc[c] = "new"
      BY <1>1, <3>0, <3>1, <3>2 DEF RetryingInv, WrapInv
    <3>3. CASE pc[c] # "new"
      BY <1>1, <2>2, <3>0, <3>1, <3>3 DEF RetryingInv, CountInv
    <3> QED
      BY <3>2, <3>3
  <2> QED
    BY <2>1, <2>2 DEF RetriesCounted, Retry!RetriesCounted
<1> QED
  BY <1>1, RetryInvariant, PTL
-------------------------------------------------------------------------------
(* A call that is traced.                                                  *)

(* A trace client's collector is its own; so is, while it is up, the one   *)
(* its tracer reports to, which is open.  The global tracer is that of the *)
(* client that connected last.                                             *)
TracerInv ==
    /\ \A t \in Tracers : collector[t] # 0 => owner[collector[t]] = t
    /\ \A t \in up : tracer[t] \in Traced!Collectors /\ tracer[t] \in collecting /\ owner[tracer[t]] = t
    /\ last # None => global = tracer[last]

(* A span that is due can be reported to a collector of its call's client  *)
(* or, in the middleware, was.                                             *)
SpanInv ==
    /\ \A s \in Sends : call[s].via \in {"mqtt", "code"} => call[s].logs # "lost"
    /\ \A s \in due :
           /\ call[s].pc # "new" /\ call[s].by \in Tracers
           /\ call[s].via = "serve" =>
                  \E c \in Traced!Collectors : owner[c] = call[s].by /\ <<s, c, "none">> \in reported
           /\ call[s].via \notin {"none", "http"}
           /\ call[s].pc \in {"working", "returning"} /\ call[s].via # "serve" =>
                  /\ call[s].span \in Traced!Collectors
                  /\ call[s].span \in collecting
                  /\ owner[call[s].span] = call[s].by

(* The inductive invariant.                                                *)
TracingInv == Traced!TypeOK /\ Traced!SpansArrive /\ TracerInv /\ SpanInv

(* The fields of a call.                                                   *)
CallRecords ==
    [via : {"none", "mqtt", "http", "code", "serve"},
     by : Tracers \cup {None},
     pc : {"new", "working", "returning", "done", "panicked", "fatal"},
     limited : BOOLEAN, failed : BOOLEAN,
     span : (0..MaxCollectors) \cup {None},
     logs : {"none", "echoed", "lost"}]

(* What StartTracing and the middleware begin is a call, whatever the      *)
(* tracer is.                                                              *)
LEMMA StepTracedTyped ==
  ASSUME Traced!TypeOK, SpanInv, [Traced!Next]_(Traced!vars)
  PROVE  Traced!TypeOK'
<1> USE DEF Traced!TypeOK, Traced!clientVars
<1>0. MaxCollectors \in Nat /\ None \notin Tracers \cup Nat
  BY MCClientsAssumption DEF MCClientsAssumption
<1>c. call \in [Sends -> CallRecords]
  BY DEF CallRecords
<1>1. ASSUME NEW t \in Tracers, Traced!ClientNext(t) PROVE Traced!TypeOK'
  <2>1. CASE Traced!Connect(t)
    BY <2>1 DEF Traced!Connect
  <2>2. CASE Traced!CollectorOption(t)
    BY <2>2 DEF Traced!CollectorOption, Traced!Collectors
  <2>3. CASE Traced!OptionFails(t)
    <3>1. collector' \in [Tracers -> 0..MaxCollectors]
      BY <1>0, <2>3 DEF Traced!OptionFails
    <3> QED
      BY <2>3, <3>1 DEF Traced!OptionFails
  <2>4. CASE Traced!Connected(t)
    BY <2>4 DEF Traced!Connected
  <2>5. CASE Traced!Disconnect(t)
    BY <2>5 DEF Traced!Disconnect
  <2> QED
    BY <1>1, <2>1, <2>2, <2>3, <2>4, <2>5 DEF Traced!ClientNext
<1>b. ASSUME UNCHANGED Traced!clientVars, call' \in [Sends -> CallRecords], due' \subseteq Sends,
             reported' \subseteq Sends \X Traced!Collectors \X {"none", "echoed"}
      PROVE  Traced!TypeOK'
  BY <1>b DEF CallRecords
<1>2. ASSUME NEW s \in Sends, Traced!CallNext(s) PROVE Traced!TypeOK'
  <2>0. Traced!New \in CallRecords /\ \A t \in Tracers \cup {None} : Traced!StartTracing(t) \in (0..MaxCollectors) \cup {None}
    BY <1>0 DEF Traced!New, CallRecords, Traced!StartTracing
  <2> HIDE DEF Traced!TypeOK
  <2>1. ASSUME NEW via \in {"mqtt", "code"}, NEW t \in Tracers \cup {None}, Traced!Begin(s, via, t)
        PROVE  Traced!TypeOK'
    <3>1. call' \in [Sends -> CallRecords]
      BY <1>c, <2>0, <2>1 DEF Traced!Begin, CallRecords
    <3> QED
      BY <1>b, <2>1, <3>1 DEF Traced!Begin, Traced!TypeOK
  <2>2. ASSUME NEW t \in Tracers \cup {None}, NEW limited \in BOOLEAN, Traced!HttpSend(s, t, limited)
        PROVE  Traced!TypeOK'
    <3>1. call' \in [Sends -> CallRecords]
      BY <1>c, <2>0, <2>2 DEF Traced!HttpSend, CallRecords
    <3> QED
      BY <1>b, <2>2, <3>1 DEF Traced!HttpSend, Traced!TypeOK
  <2>3. ASSUME NEW t \in Tracers, Traced!ServeFails(s, t) PROVE Traced!TypeOK'
    <3>1. call' \in [Sends -> CallRecords]
      BY <1>c, <2>0, <2>3 DEF Traced!ServeFails, CallRecords
    <3> QED
      BY <1>b, <2>3, <3>1 DEF Traced!ServeFails, Traced!TypeOK
  <2>4. ASSUME NEW t \in Tracers, NEW carried \in BOOLEAN, Traced!Serve(s, t, carried) PROVE Traced!TypeOK'
    <3>1. (IF carried THEN tracer[t] ELSE None) \in (0..MaxCollectors) \cup {None}
      BY DEF Traced!TypeOK
    <3>2. call' \in [Sends -> CallRecords]
      BY <1>c, <2>0, <2>4, <3>1 DEF Traced!Serve, CallRecords
    <3>3. reported' \subseteq Sends \X Traced!Collectors \X {"none", "echoed"}
      BY <2>4 DEF Traced!Serve, Traced!TypeOK
    <3> QED
      BY <1>b, <2>4, <3>2, <3>3 DEF Traced!Serve, Traced!TypeOK
  <2>5. CASE Traced!Log(s)
    <3>1. call' \in [Sends -> CallRecords]
      BY <1>c, <2>5 DEF Traced!Log, CallRecords
    <3> QED
      BY <1>b, <2>5, <3>1 DEF Traced!Log, Traced!TypeOK
  <2>6. CASE Traced!Answer(s) \/ Traced!TimesOut(s)
    <3>1. call' \in [Sends -> CallRecords]
      BY <1>c, <2>6 DEF Traced!Answer, Traced!TimesOut, CallRecords
    <3> QED
      BY <1>b, <2>6, <3>1 DEF Traced!Answer, Traced!TimesOut, Traced!TypeOK
  <2>7. CASE Traced!Return(s)
    <3>1. call' \in [Sends -> CallRecords]
      BY <1>c, <2>7 DEF Traced!Return, Traced!StopTracing, CallRecords
    <3>2. call[s].via \in {"mqtt", "code"} => call[s].logs \in {"none", "echoed"}
      BY <1>c DEF SpanInv, CallRecords
    <3>3. reported' \subseteq Sends \X Traced!Collectors \X {"none", "echoed"}
      BY <2>7, <3>2 DEF Traced!Return, Traced!StopTracing, Traced!TypeOK
    <3> QED
      BY <1>b, <2>7, <3>1, <3>3 DEF Traced!Return, Traced!TypeOK
  <2> QED
    BY <1>2, <2>1, <2>2, <2>3, <2>4, <2>5, <2>6, <2>7 DEF Traced!CallNext
<1>3. CASE UNCHANGED Traced!vars
  BY <1>3 DEF Traced!vars
<1> QED
  BY <1>1, <1>2, <1>3 DEF Traced!Next

(* Connects and Disconnects, in any order, leave an open collector to the  *)
(* clients that are up and to nobody else.                                 *)
LEMMA StepTracers ==
  ASSUME Traced!TypeOK, TracerInv, [Traced!Next]_(Traced!vars)
  PROVE  TracerInv' /\ \A c \in Traced!Collectors : owner[c] # None => owner'[c] = owner[c]
<1> DEFINE Kept == \A c \in Traced!Collectors : owner[c] # None => owner'[c] = owner[c]
<1>0. MaxCollectors \in Nat /\ None \notin Tracers \cup Nat
  BY MCClientsAssumption DEF MCClientsAssumption
<1>t. /\ collector \in [Tracers -> 0..MaxCollectors] /\ tracer \in [Tracers -> (0..MaxCollectors) \cup {None}]
      /\ owner \in [Traced!Collectors -> Tracers \cup {None}] /\ collecting \subseteq Traced!Collectors
      /\ up \subseteq Tracers /\ last \in Tracers \cup {None}
  BY DEF Traced!TypeOK
<1>c. \A k \in 0..MaxCollectors : k # 0 => k \in Traced!Collectors
  BY <1>0 DEF Traced!Collectors
<1>s. ASSUME UNCHANGED <<collector, tracer, global, owner, collecting, last, up>> PROVE TracerInv' /\ Kept
  BY <1>s DEF TracerInv
<1>1. ASSUME NEW t \in Tracers, Traced!ClientNext(t) PROVE TracerInv' /\ Kept
  <2>1. CASE Traced!Connect(t)
    BY <1>s, <2>1 DEF Traced!Connect
  <2>2. CASE Traced!CollectorOption(t)
    <3>1. PICK c \in Traced!Collectors :
              /\ owner[c] = None
              /\ owner' = [owner EXCEPT ![c] = t]
              /\ collector' = [collector EXCEPT ![t] = c]
              /\ collecting' = collecting \cup {c}
      BY <2>2 DEF Traced!CollectorOption
    <3>2. UNCHANGED <<tracer, global, last, up>>
      BY <2>2 DEF Traced!CollectorOption
    <3>3. Kept
      BY <1>t, <3>1
    <3>4. \A b \in Tracers : collector'[b] # 0 => owner'[collector'[b]] = b
      BY <1>0, <1>t, <1>c, <3>1 DEF TracerInv
    <3> QED
      BY <1>0, <1>t, <3>1, <3>2, <3>3, <3>4 DEF TracerInv
  <2>3. CASE Traced!OptionFails(t)
    <3>1. /\ UNCHANGED <<tracer, global, owner, collecting, last, up>>
          /\ \A b \in Tracers : collector'[b] \in {0, collector[b]}
      BY <1>t, <2>3 DEF Traced!OptionFails
    <3> QED
      BY <3>1 DEF TracerInv
  <2>4. CASE Traced!Connected(t)
    <3>1. /\ UNCHANGED <<collector, owner, collecting>>
          /\ tracer' = [tracer EXCEPT ![t] = collector[t]]
          /\ global' = collector[t] /\ last' = t
          /\ up' = IF collector[t] \in collecting THEN up \cup {t} ELSE up \ {t}
      BY <2>4 DEF Traced!Connected
    <3>2. collector[t] \in collecting => collector[t] \in Traced!Collectors /\ owner[collector[t]] = t
      BY <1>0, <1>t DEF TracerInv, Traced!Collectors
    <3> QED
      BY <1>t, <3>1, <3>2 DEF TracerInv
  <2>5. CASE Traced!Disconnect(t)
    <3>1. /\ UNCHANGED <<collector, tracer, global, owner, last>>
          /\ collector[t] \in collecting
          /\ collecting' = collecting \ {collector[t]}
          /\ up' = up \ {t}
      BY <2>5 DEF Traced!Disconnect
    <3>2. collector[t] # 0
      BY <1>t, <3>1 DEF Traced!Collectors
    <3>3. owner[collector[t]] = t
      BY <3>2 DEF TracerInv
    <3>4. \A b \in up : b # t => tracer[b] # collector[t]
      BY <3>3 DEF TracerInv
    <3> QED
      BY <1>t, <3>1, <3>4 DEF TracerInv
  <2> QED
    BY <1>1, <2>1, <2>2, <2>3, <2>4, <2>5 DEF Traced!ClientNext
<1>2. ASSUME NEW s \in Sends, Traced!CallNext(s) PROVE TracerInv' /\ Kept
  <2>1. UNCHANGED Traced!clientVars
    BY <1>2 DEF Traced!CallNext, Traced!Begin, Traced!HttpSend, Traced!Serve, Traced!ServeFails, Traced!Log,
                Traced!Answer, Traced!TimesOut, Traced!Return
  <2> QED
    BY <1>s, <2>1 DEF Traced!clientVars
<1>3. CASE UNCHANGED Traced!vars
  BY <1>3, <1>s DEF Traced!vars
<1> QED
  BY <1>1, <1>2, <1>3 DEF Traced!Next

(* A span that is due keeps an open collector of its client until it ends. *)
LEMMA StepSpans ==
  ASSUME Traced!TypeOK, TracerInv, SpanInv, Traced!SpansArrive, [Traced!Next]_(Traced!vars)
  PROVE  SpanInv' /\ Traced!SpansArrive'
<1> DEFINE
      Plain(s) == call[s].via \in {"mqtt", "code"} => call[s].logs # "lost"
      Reported(s, logs) == \E c \in Traced!Collectors : owner[c] = call[s].by /\ <<s, c, logs>> \in reported
      Due(s) == /\ call[s].pc # "new" /\ call[s].by \in Tracers
                /\ call[s].via = "serve" => Reported(s, "none")
                /\ call[s].via \notin {"none", "http"}
                /\ call[s].pc \in {"working", "returning"} /\ call[s].via # "serve" =>
                       /\ call[s].span \in Traced!Collectors
                       /\ call[s].span \in collecting
                       /\ owner[call[s].span] = call[s].by
                /\ call[s].pc = "done" => Reported(s, IF call[s].via = "serve" THEN "none" ELSE call[s].logs)
<1>0. SUFFICES (\A s \in Sends : Plain(s)') /\ (\A s \in due' : Due(s)')
  BY DEF SpanInv, Traced!SpansArrive
<1>h. (\A s \in Sends : Plain(s)) /\ (\A s \in due : Due(s))
  BY DEF SpanInv, Traced!SpansArrive
<1>n. MaxCollectors \in Nat /\ None \notin Tracers \cup Nat
  BY MCClientsAssumption DEF MCClientsAssumption
<1>t. /\ call \in [Sends -> CallRecords] /\ due \subseteq Sends
      /\ collector \in [Tracers -> 0..MaxCollectors] /\ tracer \in [Tracers -> (0..MaxCollectors) \cup {None}]
      /\ collecting \subseteq Traced!Collectors /\ up \subseteq Tracers
  BY DEF Traced!TypeOK, CallRecords
<1>o. \A c \in Traced!Collectors : owner[c] # None => owner'[c] = owner[c]
  BY StepTracers
<1>r. reported \subseteq reported'
  BY DEF Traced!Next, Traced!ClientNext, Traced!CallNext, Traced!Connect, Traced!CollectorOption,
         Traced!OptionFails, Traced!Connected, Traced!Disconnect, Traced!Begin, Traced!HttpSend, Traced!Serve,
         Traced!ServeFails, Traced!Log, Traced!Answer, Traced!TimesOut, Traced!Return, Traced!StopTracing,
         Traced!vars, Traced!clientVars
<1>k. ASSUME NEW s \in due, call'[s] = call[s],
             call[s].pc \in {"working", "returning"} /\ call[s].via # "serve" => call[s].span \in collecting'
      PROVE  Due(s)'
  <2>1. \A logs : Reported(s, logs) => Reported(s, logs)'
    BY <1>h, <1>k, <1>n, <1>o, <1>r
  <2> QED
    BY <1>h, <1>k, <1>n, <1>o, <2>1
<1>1. ASSUME NEW t \in Tracers, Traced!ClientNext(t)
      PROVE  (\A s \in Sends : Plain(s)') /\ (\A s \in due' : Due(s)')
  <2>1. call' = call
    BY <1>1 DEF Traced!ClientNext, Traced!Connect, Traced!CollectorOption, Traced!OptionFails,
                Traced!Connected, Traced!Disconnect
  <2>2. CASE due' = due /\ collecting \subseteq collecting'
    BY <1>h, <1>k, <2>1, <2>2
  <2>3. CASE Traced!Disconnect(t)
    <3>1. /\ collector[t] \in collecting /\ collecting' = collecting \ {collector[t]}
          /\ due' = {s \in due : call[s].by = t => call[s].pc = "done"}
      BY <2>3 DEF Traced!Disconnect
    <3>2. owner[collector[t]] = t
      BY <1>n, <1>t, <3>1 DEF TracerInv, Traced!Collectors
    <3>3. ASSUME NEW s \in due'
          PROVE  /\ s \in due
                 /\ call[s].pc \in {"working", "returning"} /\ call[s].via # "serve" => call[s].span \in collecting'
      BY <1>h, <3>1, <3>2
    <3> QED
      BY <1>h, <1>k, <2>1, <3>3
  <2> QED
    BY <1>1, <2>2, <2>3 DEF Traced!ClientNext, Traced!Connect, Traced!CollectorOption, Traced!OptionFails,
                            Traced!Connected
<1>2. ASSUME NEW s \in Sends, Traced!CallNext(s)
      PROVE  (\A d \in Sends : Plain(d)') /\ (\A d \in due' : Due(d)')
  <2>1. /\ UNCHANGED Traced!clientVars
        /\ due' \subseteq due \cup {s}
    BY <1>2 DEF Traced!CallNext, Traced!Begin, Traced!HttpSend, Traced!Serve, Traced!ServeFails, Traced!Log,
                Traced!Answer, Traced!TimesOut, Traced!Return
  <2>2. \A d \in Sends : d # s => call'[d] = call[d]
    BY <1>2, <1>t DEF Traced!CallNext, Traced!Begin, Traced!HttpSend, Traced!Serve, Traced!ServeFails, Traced!Log,
                      Traced!Answer, Traced!TimesOut, Traced!Return, Traced!StopTracing
  <2>3. UNCHANGED <<collecting, owner, tracer, global, up, last, collector>>
    BY <2>1 DEF Traced!clientVars
  <2>4. \A d \in Sends : d # s => Plain(d)' /\ (d \in due' => Due(d)')
    <3> TAKE d \in Sends
    <3>1. SUFFICES ASSUME d # s PROVE Plain(d)' /\ (d \in due' => Due(d)')
      OBVIOUS
    <3>2. call'[d] = call[d] /\ (d \in due' => d \in due)
      BY <2>1, <2>2, <3>1
    <3>3. d \in due => (call[d].pc \in {"working", "returning"} /\ call[d].via # "serve" => call[d].span \in collecting')
      BY <1>h, <2>3
    <3> QED
      BY <1>h, <1>k, <3>2, <3>3
  <2>5. call[s].pc = "new" => s \notin due
    BY <1>h
  <2>6. \A logs : Reported(s, logs) /\ call'[s].by = call[s].by => Reported(s, logs)'
    BY <1>r, <2>3
  <2> SUFFICES Plain(s)' /\ (s \in due' => Due(s)')
    BY <1>t, <2>1, <2>4
  <2>a. ASSUME NEW via \in {"mqtt", "code"}, NEW t \in Tracers \cup {None}, Traced!Begin(s, via, t)
        PROVE  Plain(s)' /\ (s \in due' => Due(s)')
    <3>1. /\ call[s].pc = "new"
          /\ call'[s] = [Traced!New EXCEPT !.via = via, !.by = t, !.pc = "working", !.span = Traced!StartTracing(t)]
          /\ due' = IF t \in up /\ last = t THEN due \cup {s} ELSE due
      BY <1>t, <2>a DEF Traced!Begin
    <3>2. /\ call'[s].via = via /\ call'[s].by = t /\ call'[s].pc = "working" /\ call'[s].logs = "none"
          /\ call'[s].span = Traced!StartTracing(t)
      BY <3>1 DEF Traced!New
    <3>3. ASSUME s \in due' PROVE Due(s)'
      <4>1. t \in up /\ last = t /\ t \in Tracers /\ t # None
        BY <1>n, <1>t, <2>5, <3>1, <3>3
      <4>2. Traced!StartTracing(t) = tracer[t]
        BY <4>1 DEF Traced!StartTracing, TracerInv
      <4>3. tracer[t] \in Traced!Collectors /\ tracer[t] \in collecting /\ owner[tracer[t]] = t
        BY <4>1 DEF TracerInv
      <4> QED
        BY <2>3, <3>2, <4>1, <4>2, <4>3
    <3> QED
      BY <3>2, <3>3
  <2>b. ASSUME NEW t \in Tracers \cup {None}, NEW limited \in BOOLEAN, Traced!HttpSend(s, t, limited)
        PROVE  Plain(s)' /\ (s \in due' => Due(s)')
    <3>1. call[s].pc = "new" /\ due' = due /\ call'[s].via = "http"
      BY <1>t, <2>b DEF Traced!HttpSend, Traced!New
    <3> QED
      BY <2>5, <3>1
  <2>c. ASSUME NEW t \in Tracers, Traced!ServeFails(s, t)
        PROVE  Plain(s)' /\ (s \in due' => Due(s)')
    <3>1. call[s].pc = "new" /\ due' = due /\ call'[s].via = "serve"
      BY <1>t, <2>c DEF Traced!ServeFails, Traced!New
    <3> QED
      BY <2>5, <3>1
  <2>d. ASSUME NEW t \in Tracers, NEW carried \in BOOLEAN, Traced!Serve(s, t, carried)
        PROVE  Plain(s)' /\ (s \in due' => Due(s)')
    <3> DEFINE span == IF carried THEN tracer[t] ELSE None
    <3>1. /\ call[s].pc = "new"
          /\ call'[s] = [Traced!New EXCEPT !.via = "serve", !.by = t, !.span = span,
                                           !.pc = IF span = 0 THEN "panicked" ELSE "working"]
          /\ reported' = reported \cup ({<<s, span, "none">>} \cap (Sends \X collecting \X {"none"}))
          /\ due' = IF carried /\ t \in up THEN due \cup {s} ELSE due
      BY <1>t, <2>d DEF Traced!Serve
    <3> HIDE DEF span
    <3>2. /\ call'[s].via = "serve" /\ call'[s].by = t
          /\ call'[s].pc = IF span = 0 THEN "panicked" ELSE "working"
      BY <3>1 DEF Traced!New
    <3>3. ASSUME s \in due' PROVE Due(s)'
      <4>1. t \in up /\ span = tracer[t]
        BY <2>5, <3>1, <3>3 DEF span
      <4>2. span \in Traced!Collectors /\ span \in collecting /\ owner[span] = t
        BY <4>1 DEF TracerInv
      <4>3. <<s, span, "none">> \in reported'
        BY <3>1, <4>2
      <4> QED
        BY <2>3, <3>2, <4>2, <4>3
    <3> QED
      BY <3>2, <3>3
  <2>e. CASE Traced!Log(s)
    <3>1. /\ call[s].pc = "working" /\ due' = due
          /\ call'[s] = [call[s] EXCEPT !.logs = IF call[s].via = "code" THEN "echoed" ELSE "lost"]
          /\ call[s].via \in {"code", "serve"}
      BY <1>t, <2>e DEF Traced!Log
    <3>2. /\ call'[s].pc = "working" /\ call'[s].via = call[s].via /\ call'[s].by = call[s].by
          /\ call'[s].span = call[s].span
          /\ call'[s].logs = IF call[s].via = "code" THEN "echoed" ELSE "lost"
      BY <1>t, <3>1 DEF CallRecords
    <3> QED
      BY <1>h, <2>3, <2>6, <3>1, <3>2
  <2>f. CASE Traced!Answer(s) \/ Traced!TimesOut(s)
    <3>1. /\ call[s].pc = "working" /\ due' = due
          /\ \E failed \in BOOLEAN : call'[s] = [call[s] EXCEPT !.pc = "returning", !.failed = failed]
      BY <1>t, <2>f DEF Traced!Answer, Traced!TimesOut
    <3>2. /\ call'[s].pc = "returning" /\ call'[s].via = call[s].via /\ call'[s].by = call[s].by
          /\ call'[s].span = call[s].span /\ call'[s].logs = call[s].logs
      BY <1>t, <3>1 DEF CallRecords
    <3> QED
      BY <1>h, <2>3, <2>6, <3>1, <3>2
  <2>g. CASE Traced!Return(s)
    <3> DEFINE deferred == call[s].via \in {"mqtt", "code"}
    <3>1. /\ call[s].pc = "returning" /\ due' = due
          /\ call'[s] = [call[s] EXCEPT !.pc = IF deferred /\ call[s].span = 0 THEN "panicked" ELSE "done"]
          /\ reported' = IF deferred /\ call[s].span \in collecting
                         THEN reported \cup {<<s, call[s].span, call[s].logs>>}
                         ELSE reported
      BY <1>t, <2>g DEF Traced!Return, Traced!StopTracing
    <3>2. /\ call'[s].pc \in {"panicked", "done"} /\ call'[s].via = call[s].via /\ call'[s].by = call[s].by
          /\ call'[s].logs = call[s].logs
      BY <1>t, <3>1 DEF CallRecords
    <3>3. ASSUME s \in due PROVE Reported(s, IF call[s].via = "serve" THEN "none" ELSE call[s].logs)'
      <4>1. CASE call[s].via = "serve"
        BY <1>h, <2>6, <3>2, <3>3, <4>1
      <4>2. CASE call[s].via # "serve"
        <5>1. deferred /\ call[s].span \in Traced!Collectors /\ call[s].span \in collecting
              /\ owner[call[s].span] = call[s].by
          BY <1>h, <1>t, <3>1, <3>3, <4>2 DEF CallRecords
        <5> QED
          BY <2>3, <3>1, <3>2, <4>2, <5>1
      <4> QED
        BY <4>1, <4>2
    <3> QED
      BY <1>h, <2>6, <3>1, <3>2, <3>3
  <2> QED
    BY <1>2, <2>a, <2>b, <2>c, <2>d, <2>e, <2>f, <2>g DEF Traced!CallNext
<1>3. CASE UNCHANGED Traced!vars
  <2>1. due' = due /\ call' = call /\ collecting' = collecting
    BY <1>3 DEF Traced!vars
  <2> QED
    BY <1>h, <1>k, <2>1
<1> QED
  BY <1>1, <1>2, <1>3 DEF Traced!Next

LEMMA TracingInvariant == Traced!Spec => []TracingInv
<1>1. Traced!Init => TracingInv
  <2> SUFFICES ASSUME Traced!Init PROVE TracingInv
    OBVIOUS
  <2>0. MaxCollectors \in Nat /\ None \notin Tracers \cup Nat
    BY MCClientsAssumption DEF MCClientsAssumption
  <2>1. Traced!TypeOK
    BY <2>0 DEF Traced!Init, Traced!TypeOK, Traced!New
  <2> QED
    BY <2>1 DEF Traced!Init, Traced!New, TracingInv, TracerInv, SpanInv, Traced!SpansArrive
<1>2. TracingInv /\ [Traced!Next]_(Traced!vars) => TracingInv'
  BY StepTracedTyped, StepTracers, StepSpans DEF TracingInv
<1> QED
  BY <1>1, <1>2, PTL DEF Traced!Spec

(* The span of a call with the trace client that connected last reaches a  *)
(* collector of that client with what was logged to it, whoever connects   *)
(* or disconnects in the meantime, unless it is that client that           *)
(* disconnects (trace/tracer.go:97, 104, 182, 202).                        *)
THEOREM DueSpansArrive == Traced!Spec => []SpansArrive
<1>1. TracingInv => SpansArrive
  BY DEF TracingInv, SpansArrive
<1> QED
  BY <1>1, TracingInvariant, PTL
-------------------------------------------------------------------------------
(* Every behaviour that TLC checks at once is one of each of the clients,  *)
(* so that what is proved of each holds in all of them.                    *)
THEOREM RunsAreOfClients ==
  MCSpec => Spec /\ Circuit!Spec /\ Retry!Spec /\ Traced!Spec
<1> DEFINE Step == [MCNext]_<<what, vars, retryVars, tracedVars, circuitVars>>
<1>1. MCInit => Init /\ Circuit!Init /\ Retry!Init /\ Traced!Init
  BY DEF MCInit
<1>2. Step => [Next]_vars
  BY DEF MCNext
<1>3. Step => [Circuit!Next]_(Circuit!vars)
  BY DEF MCNext, circuitVars, Circuit!vars
<1>4. Step => [Retry!Next]_(Retry!vars)
  BY DEF MCNext, retryVars, Retry!vars
<1>5. Step => [Traced!Next]_(Traced!vars)
  BY DEF MCNext, tracedVars, Traced!vars
<1> QED
  BY <1>1, <1>2, <1>3, <1>4, <1>5, PTL DEF MCSpec, Spec, Circuit!Spec, Retry!Spec, Traced!Spec
================================================================================
