---------------------------- MODULE ClientConnection ----------------------------
(***************************************************************************)
(* The life of one client of redis/client.go, mqtt/client.go,              *)
(* mysql/client.go or grpc/client.go: Connect with its options, one after  *)
(* the other, and Disconnect, as one owner of the client calls them.  A    *)
(* setting of c.Config is known by how often it was changed; a connection  *)
(* is known by its number and by the settings it was made with.            *)
(*                                                                         *)
(* External: the options of mysql are functions of the caller's that       *)
(* change c.Config.  A redis client keeps connections from when it is made *)
(* until it is closed, and answers Ping only while it is open.  An mqtt    *)
(* client that fails to connect, a mysql source that does not answer and a *)
(* grpc address that cannot be dialled leave nothing open.                 *)
(***************************************************************************)
EXTENDS Naturals, Sequences

CONSTANTS MaxConnects,  (* bound: Connect is called so often                *)
          MaxSets       (* bound: a setting is changed so often             *)

VARIABLES kind,         (* the package                                      *)
          phase,        (* idle, or options: Connect is called              *)
          connects,     (* the calls of Connect                             *)
          config,       (* c.Config, and c.TraceClient                      *)
          broker,       (* mqtt: the address in this Connect's opts         *)
          dial,         (* grpc: the tracer in c.DialOptions, 0 for none    *)
          held,         (* c.C, 0 for nil                                   *)
          made,         (* the settings of every connection that was made   *)
          open,         (* the connections that are open                    *)
          connected,    (* the last call was a Connect that returned nil    *)
          panicked,     (* a method of a nil redis.Client was called        *)
          opened,       (* history: one was opened since the Disconnect     *)
          again,        (* history: Connect, or a connecting option of      *)
                        (* redis, when one was opened                       *)
          late          (* history: settings changed by an option that came *)
                        (* after what uses them                             *)

vars == <<kind, phase, connects, config, broker, dial, held, made, open, connected, panicked, opened, again, late>>
configVars == <<config, broker, dial, late>>
connVars == <<held, made, open, opened, again>>

Kinds == {"redis", "mqtt", "mysql", "grpc"}
Settings == {"address", "auth", "tracer"}

(* The settings that have an option.                                       *)
Options == CASE kind = "redis" -> {"auth"}
             [] kind = "mqtt" -> Settings
             [] kind = "mysql" -> {"address", "auth"}
             [] kind = "grpc" -> {"address", "tracer"}

(* Those that are used before all options have been called: by a redis     *)
(* option that connects, by mqtt's AddBroker, and by                       *)
(* SetMiddlewareTracerOption.                                              *)
UsedEarly == CASE kind = "redis" -> {"auth"}
               [] kind = "mqtt" -> {"address"}
               [] kind = "mysql" -> {}
               [] kind = "grpc" -> {"tracer"}

TypeOK ==
    /\ kind \in Kinds
    /\ phase \in {"idle", "options"}
    /\ connects \in Nat
    /\ config \in [Settings -> Nat]
    /\ broker \in Nat
    /\ dial \in Nat
    /\ made \in Seq([Settings -> Nat])
    /\ held \in 0..Len(made)
    /\ open \subseteq 1..Len(made)
    /\ connected \in BOOLEAN /\ panicked \in BOOLEAN /\ opened \in BOOLEAN /\ again \in BOOLEAN
    /\ late \subseteq Settings

Init ==
    /\ kind \in Kinds
    /\ phase = "idle"
    /\ connects = 0
    /\ config = [s \in Settings |-> 0]
    /\ broker = 0
    /\ dial = 0
    /\ held = 0
    /\ made = <<>>
    /\ open = {}
    /\ connected = FALSE
    /\ panicked = FALSE
    /\ opened = FALSE
    /\ again = FALSE
    /\ late = {}

(* Connect goes on to its options; that of mqtt has added the broker.      *)
Connect ==
    /\ ~panicked
    /\ phase = "idle"
    /\ connects < MaxConnects
    /\ phase' = "options"
    /\ connects' = connects + 1
    /\ connected' = FALSE
    /\ broker' = config["address"]
    /\ late' = IF kind = "mqtt" THEN {} ELSE late
    /\ again' = (again \/ opened)
    /\ UNCHANGED <<kind, config, dial, held, made, open, panicked, opened>>

(* An option changes a setting: SetAuthOption, SetDBOption,                *)
(* SetHostPortOption, SetTracerOption.                                     *)
SetOption(s) ==
    /\ phase = "options"
    /\ s \in Options
    /\ config[s] < MaxSets
    /\ config' = [config EXCEPT ![s] = @ + 1]
    /\ late' = late \cup ({s} \cap UsedEarly)
    /\ UNCHANGED <<kind, phase, connects, broker, dial, connected, panicked, connVars>>

(* SetMiddlewareTracerOption of grpc, once there is a tracer: dialling     *)
(* uses the last interceptor.                                              *)
SetMiddlewareTracer ==
    /\ phase = "options"
    /\ kind = "grpc"
    /\ config["tracer"] # 0
    /\ dial' = config["tracer"]
    /\ late' = late \ {"tracer"}
    /\ UNCHANGED <<kind, phase, connects, config, broker, connected, panicked, connVars>>

(* An option returns an error, and so does Connect.                        *)
OptionFails ==
    /\ phase = "options"
    /\ phase' = "idle"
    /\ UNCHANGED <<kind, connects, connected, panicked, configVars, connVars>>

(* c.C becomes a new connection with these settings.                       *)
Opens(settings) ==
    /\ made' = Append(made, settings)
    /\ held' = Len(made) + 1
    /\ open' = open \cup {Len(made) + 1}
    /\ opened' = TRUE

(* The options of redis that connect, with what the options before them    *)
(* have set: ConnectFailoverClientOption, ConnectStandaloneClientOption.   *)
ConnectOption ==
    /\ phase = "options"
    /\ kind = "redis"
    /\ Len(made) < MaxConnects + 1
    /\ Opens(config)
    /\ again' = (again \/ opened)
    /\ late' = {}
    /\ UNCHANGED <<kind, phase, connects, config, broker, dial, connected, panicked>>

(* Connect of redis pings c.C.                                             *)
Ping ==
    /\ phase = "options"
    /\ kind = "redis"
    /\ phase' = "idle"
    /\ panicked' = (held = 0)
    /\ connected' \in IF held \in open THEN BOOLEAN ELSE {FALSE}
    /\ UNCHANGED <<kind, connects, configVars, connVars>>

OpensEarly ==                   \* mutant: mqtt sets user and password before the options
    /\ phase = "options"
    /\ kind # "redis"
    /\ Opens([address |-> IF kind = "mqtt" THEN broker ELSE config["address"],
              auth |-> IF kind = "mqtt" THEN 0 ELSE config["auth"],
              tracer |-> IF kind = "grpc" THEN dial ELSE config["tracer"]])
    /\ phase' = "idle"
    /\ connected' = TRUE
    /\ UNCHANGED <<kind, connects, panicked, again, configVars>>

(* The others connect at the end of Connect; the tracer that an mqtt       *)
(* connection is used with is the one that Send then finds in the client.  *)
Establish ==
    /\ phase = "options"
    /\ kind # "redis"
    /\ Opens([config EXCEPT !["address"] = IF kind = "mqtt" THEN broker ELSE @,
                            !["tracer"] = IF kind = "grpc" THEN dial ELSE @])
    /\ phase' = "idle"
    /\ connected' = TRUE
    /\ UNCHANGED <<kind, connects, panicked, again, configVars>>

(* They cannot: c.C is the client that failed, as it was, or nil.          *)
ConnectFails ==
    /\ phase = "options"
    /\ kind # "redis"
    /\ phase' = "idle"
    /\ \/ /\ kind = "mqtt"
          /\ made' = Append(made, [config EXCEPT !["address"] = broker])
          /\ held' = Len(made) + 1
       \/ kind = "mysql" /\ UNCHANGED <<made, held>>
       \/ kind = "grpc" /\ held' = 0 /\ UNCHANGED made
    /\ UNCHANGED <<kind, connects, connected, panicked, open, opened, again, configVars>>

DisconnectConnected ==          \* mutant: only after a Connect that returned nil
    /\ ~panicked
    /\ phase = "idle"
    /\ open' = IF connected THEN open \ {held} ELSE open
    /\ connected' = FALSE
    /\ opened' = FALSE
    /\ panicked' = (kind = "redis" /\ held = 0)
    /\ UNCHANGED <<kind, phase, connects, held, made, again, configVars>>

(* Disconnect closes c.C and keeps it; that of redis does not look whether *)
(* it is nil.                                                              *)
Disconnect ==
    /\ ~panicked
    /\ phase = "idle"
    /\ open' = open \ {held}
    /\ connected' = FALSE
    /\ opened' = FALSE
    /\ panicked' = (kind = "redis" /\ held = 0)
    /\ UNCHANGED <<kind, phase, connects, held, made, again, configVars>>

Next == \/ Connect \/ (\E s \in Settings : SetOption(s)) \/ SetMiddlewareTracer
        \/ OptionFails \/ ConnectOption \/ Ping \/ Establish \/ ConnectFails
        \/ Disconnect

Spec == Init /\ [][Next]_vars
-------------------------------------------------------------------------------
(* Whatever fails in a Connect, the one connection that is open is c.C,    *)
(* and Disconnect closes it (redis/client.go:56-74, mqtt/client.go:55-83,  *)
(* mysql/client.go:66-95, grpc/client.go:53-74): as long as none is opened *)
(* over another, for Connect loses that of a Connect before it.            *)
NothingLeftOpen == ~again => open = IF opened THEN {held} ELSE {}

(* A client whose Connect returned nil is connected, with all settings     *)
(* that its options have asked for; save those whose option came after the *)
(* option that connects (redis/client.go:93-122), after                    *)
(* SetMiddlewareTracerOption (grpc/client.go:94-103), or, for mqtt's host, *)
(* in this Connect (mqtt/client.go:60-65).  A tracer of grpc that is given *)
(* to SetTracerOption without any SetMiddlewareTracerOption after it is    *)
(* not used at all (grpc/client.go:86-91, dial = 0).                       *)
ConnectedAsAsked ==
    connected =>
        /\ held \in open
        /\ \A s \in Options \ late :
               \/ made[held][s] = config[s]
               \/ kind = "grpc" /\ s = "tracer" /\ dial = 0

(* "SetHostPortOption set client host port" (mqtt/client.go:94): a client  *)
(* that is connected is so with the host and port that it was set.         *)
HostIsUsed == connected /\ kind = "mqtt" => made[held]["address"] = config["address"]
===============================================================================
