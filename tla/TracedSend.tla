------------------------------- MODULE TracedSend -------------------------------
(***************************************************************************)
(* The trace clients of trace/tracer.go, and the calls that make spans     *)
(* with them: Send of mqtt/client.go and http/client.go, requests in the   *)
(* middleware of http/middleware_tracer.go, and code that calls            *)
(* StartTracing, defers StopTracing and logs, as trace/tracer_test.go does *)
(* (log/factory.go, log/spanlogger.go).  Each call makes at most one span. *)
(*                                                                         *)
(* External: a span is reported when it ends, to the collector that its    *)
(* tracer was made with, if that is not closed; what is logged to it later *)
(* is not.  The end of a span panics if its tracer was made with a nil     *)
(* collector; the global tracer's does nothing before there is one.  A     *)
(* collector is closed once.                                               *)
(***************************************************************************)
EXTENDS Naturals

CONSTANTS Tracers,      (* trace clients                                    *)
          Calls,
          None,         (* no trace client, no tracer or no span            *)
          MaxCollectors (* bound: so many are made                          *)

VARIABLES connecting,   (* the trace clients whose Connect is at an option  *)
          collector,    (* t.Collector, 0 for nil                           *)
          tracer,       (* the collector that t.Tracer reports to, 0 or one *)
          global,       (* that of the global tracer                        *)
          owner,        (* who made each collector, None if it is not made  *)
          open,         (* the collectors that are open                     *)
          call,         (* what each call is and where                      *)
          reported,     (* the spans that collectors were given, with logs  *)
          last,         (* history: the trace client that connected last    *)
          up,           (* history: those that connected with an open       *)
                        (* collector and were not disconnected              *)
          due           (* history: the calls whose span is to be reported  *)

vars == <<connecting, collector, tracer, global, owner, open, call, reported, last, up, due>>
clientVars == <<connecting, collector, tracer, global, owner, open, last, up>>

Collectors == 1..MaxCollectors
New == [via |-> "none", by |-> None, pc |-> "new", limited |-> FALSE, failed |-> FALSE, span |-> None, logs |-> "none"]

(* The process has not ended: Fatal exits, and only net/http recovers from *)
(* panics, those of the requests that it serves.                           *)
Alive == \A s \in Calls : /\ call[s].pc # "fatal"
                         /\ call[s].pc = "panicked" => call[s].via = "serve"

TypeOK ==
    /\ {connecting, up} \subseteq SUBSET Tracers
    /\ collector \in [Tracers -> 0..MaxCollectors]
    /\ tracer \in [Tracers -> (0..MaxCollectors) \cup {None}]
    /\ global \in (0..MaxCollectors) \cup {None}
    /\ owner \in [Collectors -> Tracers \cup {None}]
    /\ open \subseteq Collectors
    /\ call \in [Calls -> [via : {"none", "mqtt", "http", "code", "serve"},
                           by : Tracers \cup {None},
                           pc : {"new", "working", "returning", "done", "panicked", "fatal"},
                           limited : BOOLEAN, failed : BOOLEAN,
                           span : (0..MaxCollectors) \cup {None},
                           logs : {"none", "echoed", "lost"}]]
    /\ reported \subseteq Calls \X Collectors \X {"none", "echoed"}
    /\ last \in Tracers \cup {None}
    /\ due \subseteq Calls

Init ==
    /\ connecting = {}
    /\ collector = [t \in Tracers |-> 0]
    /\ tracer = [t \in Tracers |-> None]
    /\ global = None
    /\ owner = [c \in Collectors |-> None]
    /\ open = {}
    /\ call = [s \in Calls |-> New]
    /\ reported = {}
    /\ last = None
    /\ up = {}
    /\ due = {}
-------------------------------------------------------------------------------
(* Connect of trace client t goes on to its options.                       *)
Connect(t) ==
    /\ Alive
    /\ t \notin connecting
    /\ connecting' = connecting \cup {t}
    /\ UNCHANGED <<collector, tracer, global, owner, open, call, reported, last, up, due>>

(* SetHTTPCollectorOption, SetKafkaCollectorOption.                        *)
CollectorOption(t) ==
    /\ Alive
    /\ t \in connecting
    /\ \E c \in Collectors :
           /\ owner[c] = None
           /\ \A b \in 1..(c - 1) : owner[b] # None
           /\ owner' = [owner EXCEPT ![c] = t]
           /\ collector' = [collector EXCEPT ![t] = c]
           /\ open' = open \cup {c}
    /\ UNCHANGED <<connecting, tracer, global, call, reported, last, up, due>>

(* An option fails, and so does Connect: the collector is nil then if it   *)
(* was what could not be made.                                             *)
OptionFails(t) ==
    /\ Alive
    /\ t \in connecting
    /\ connecting' = connecting \ {t}
    /\ collector' \in {collector, [collector EXCEPT ![t] = 0]}
    /\ UNCHANGED <<tracer, global, owner, open, call, reported, last, up, due>>

ConnectedOwn(t) ==              \* mutant: without InitGlobalTracer after the first
    /\ Alive
    /\ t \in connecting
    /\ connecting' = connecting \ {t}
    /\ tracer' = [tracer EXCEPT ![t] = collector[t]]
    /\ global' = IF last = None THEN collector[t] ELSE global
    /\ last' = t
    /\ up' = IF collector[t] \in open THEN up \cup {t} ELSE up \ {t}
    /\ UNCHANGED <<collector, owner, open, call, reported, due>>

(* Connect makes the tracer, and makes it the global one.                  *)
Connected(t) ==
    /\ Alive
    /\ t \in connecting
    /\ connecting' = connecting \ {t}
    /\ tracer' = [tracer EXCEPT ![t] = collector[t]]
    /\ global' = collector[t]
    /\ last' = t
    /\ up' = IF collector[t] \in open THEN up \cup {t} ELSE up \ {t}
    /\ UNCHANGED <<collector, owner, open, call, reported, due>>

(* Disconnect closes the collector; the tracer stays, also as global one.  *)
Disconnect(t) ==
    /\ Alive
    /\ t \notin connecting
    /\ collector[t] \in open
    /\ open' = open \ {collector[t]}
    /\ up' = up \ {t}
    /\ due' = {s \in due : call[s].by = t => call[s].pc = "done"}
    /\ UNCHANGED <<connecting, collector, tracer, global, owner, call, reported, last>>
-------------------------------------------------------------------------------
(* StartTracing of trace client t starts the span with the global tracer.  *)
StartTracing(t) == IF t = None THEN None ELSE global

(* Send of an mqtt client, or a function of a program, with trace client t *)
(* or, for None, without.                                                  *)
Begin(s, via, t) ==
    /\ Alive
    /\ call[s].pc = "new"
    /\ via = "code" => t # None
    /\ call' = [call EXCEPT ![s] = [New EXCEPT !.via = via, !.by = t, !.pc = "working", !.span = StartTracing(t)]]
    /\ due' = IF t \in up /\ last = t THEN due \cup {s} ELSE due
    /\ UNCHANGED <<clientVars, reported>>

(* Send of an http client.  It is limited if an option or else the         *)
(* configuration gives a positive timeout.  With a trace client it reads   *)
(* the Header of a request that it has not made.                           *)
HttpSend(s, t, limited) ==
    /\ Alive
    /\ call[s].pc = "new"
    /\ call' = [call EXCEPT ![s] = [New EXCEPT !.via = "http", !.by = t, !.span = StartTracing(t),
                                               !.pc = IF t = None THEN "working" ELSE "panicked",
                                               !.limited = limited]]
    /\ UNCHANGED <<clientVars, reported, due>>

(* A request in TracerMiddleWare, whose headers carry the context of a     *)
(* sampled span or none: the span it then makes ends before the handler is *)
(* called.                                                                 *)
Serve(s, t, carried) ==
    /\ Alive
    /\ call[s].pc = "new"
    /\ tracer[t] # None
    /\ LET span == IF carried THEN tracer[t] ELSE None
       IN  /\ call' = [call EXCEPT ![s] = [New EXCEPT !.via = "serve", !.by = t, !.span = span,
                                                      !.pc = IF span = 0 THEN "panicked" ELSE "working"]]
           /\ reported' = reported \cup ({<<s, span, "none">>} \cap (Calls \X open \X {"none"}))
           /\ due' = IF carried /\ t \in up THEN due \cup {s} ELSE due
    /\ UNCHANGED clientVars

(* The tracer is nil; or the context cannot be read, and Fatal exits.      *)
ServeFails(s, t) ==
    /\ Alive
    /\ call[s].pc = "new"
    /\ call' = [call EXCEPT ![s] = [New EXCEPT !.via = "serve", !.by = t,
                                               !.pc = IF tracer[t] = None THEN "panicked" ELSE "fatal"]]
    /\ UNCHANGED <<clientVars, reported, due>>

(* Info or Error of For(ctx): the message is echoed into the span, if the  *)
(* context has one, for the report at its end.                             *)
Log(s) ==
    /\ Alive
    /\ call[s].pc = "working"
    /\ call[s].via \in {"code", "serve"}
    /\ call[s].span # None
    /\ call' = [call EXCEPT ![s].logs = IF call[s].via = "code" THEN "echoed" ELSE "lost"]
    /\ UNCHANGED <<clientVars, reported, due>>

(* The message is published, the response there, the function done; or     *)
(* they fail.                                                              *)
Answer(s) ==
    /\ Alive
    /\ call[s].pc = "working"
    /\ \E failed \in BOOLEAN :
           call' = [call EXCEPT ![s].pc = "returning", ![s].failed = failed]
    /\ UNCHANGED <<clientVars, reported, due>>

TimesOut(s) ==
    /\ Alive
    /\ call[s].pc = "working"
    /\ call[s].limited
    /\ call' = [call EXCEPT ![s].pc = "returning", ![s].failed = TRUE]
    /\ UNCHANGED <<clientVars, reported, due>>

(* The deferred StopTracing ends the span, and the call is at p.           *)
StopTracing(s, p) ==
    LET deferred == call[s].via \in {"mqtt", "code"}
    IN  /\ call' = [call EXCEPT ![s].pc = IF deferred /\ call[s].span = 0 THEN "panicked" ELSE p]
        /\ reported' = IF deferred /\ call[s].span \in open
                       THEN reported \cup {<<s, call[s].span, call[s].logs>>}
                       ELSE reported

ReturnsError(s) ==              \* mutant: StopTracing is given the error of Send
    /\ Alive
    /\ call[s].pc = "returning"
    /\ StopTracing(s, IF call[s].failed /\ call[s].by # None THEN "fatal" ELSE "done")
    /\ UNCHANGED <<clientVars, due>>

(* The call returns.  The error that StopTracing was given is that of when *)
(* it was deferred, nil: otherwise Fatal would exit.                       *)
Return(s) ==
    /\ Alive
    /\ call[s].pc = "returning"
    /\ StopTracing(s, "done")
    /\ UNCHANGED <<clientVars, due>>

ClientNext(t) == Connect(t) \/ CollectorOption(t) \/ OptionFails(t) \/ Connected(t) \/ Disconnect(t)

CallNext(s) ==
    \/ \E via \in {"mqtt", "code"}, t \in Tracers \cup {None} : Begin(s, via, t)
    \/ \E t \in Tracers \cup {None}, limited \in BOOLEAN : HttpSend(s, t, limited)
    \/ \E t \in Tracers : ServeFails(s, t) \/ \E carried \in BOOLEAN : Serve(s, t, carried)
    \/ Log(s) \/ Answer(s) \/ TimesOut(s) \/ Return(s)

Next == \/ \E t \in Tracers : ClientNext(t)
        \/ \E s \in Calls : CallNext(s)

Spec == Init /\ [][Next]_vars

(* A Send goes on, timers expire, and mqtt, which asks for no              *)
(* acknowledgement, knows when the message has left.                       *)
Goes(s) == TimesOut(s) \/ Return(s) \/ (call[s].via = "mqtt" /\ Answer(s))

FairSpec == Spec /\ \A s \in Calls : WF_vars(Goes(s))
-------------------------------------------------------------------------------
(* A span of a trace client that has a collector and is the last one that  *)
(* connected is reported to a collector of that client, with what was      *)
(* logged to it (factory.go:44-46), unless the client is disconnected      *)
(* before the span ends (tracer.go:97, 104, 182, 202): also if others, or  *)
(* the same, connect in the meantime.  The middleware uses its own         *)
(* client's tracer, and has ended the span when the handler logs           *)
(* (middleware_tracer.go:34-43).                                           *)
SpansArrive ==
    \A s \in due : call[s].pc = "done" =>
        \E c \in Collectors :
            /\ owner[c] = call[s].by
            /\ <<s, c, IF call[s].via = "serve" THEN "none" ELSE call[s].logs>> \in reported

(* A Send returns, traced or not, whether it fails or not: the process     *)
(* goes on although StopTracing logs errors as fatal (tracer.go:189,       *)
(* mqtt/client.go:120), and a server that does not answer costs an http    *)
(* Send no more than its timeout (http/client.go:162-165, 173), if there   *)
(* is one.  What ends the process ends it too: a panic of a span that was  *)
(* begun when the last trace client to connect had no collector            *)
(* (tracer.go:84) or of an http Send with a trace client, which does not   *)
(* get to its request, and the middleware's Fatal over a context that it   *)
(* cannot read.                                                            *)
SendEnds ==
    \A s \in Calls :
        call[s].pc = "working" /\ (call[s].via = "mqtt" \/ call[s].limited)
            ~> \/ call[s].pc = "done"
               \/ \E r \in Calls :
                      \/ /\ call[r].pc = "panicked" /\ call[r].via # "serve"
                         /\ call[r].span = 0 \/ call[r].via = "http"
                      \/ call[r].pc = "fatal" /\ call[r].via = "serve"
===============================================================================
