---------------------------- MODULE ControlCall ----------------------------
(***************************************************************************)
(* Calls of the client library to the control socket, from the client's    *)
(* method to the server's handler and back. A method makes a connection of *)
(* its own, sends one request and closes the connection on its way out;    *)
(* WaitChan and Monitor hand their caller a channel and close in the       *)
(* goroutine that feeds it. The server runs a handler per request, which   *)
(* never looks at the request's context, so that it may run after its      *)
(* client is gone; a panic in it is recovered and answered with success.   *)
(* The process serves from before FFStream.Start until main returns.       *)
(***************************************************************************)
EXTENDS FiniteSets

CONSTANTS
    Calls,         \* calls made, in any order and overlapping
    CallMethods,   \* bound: the methods that are called
    Values,        \* values of settings
    NoValue,       \* of a setting that is not there, an empty reply
    Default,       \* what the process brings along for a setting, or a config
                   \* for the calculator
    NilConfig,     \* the value that, as a config, clears it
    NoMethod,      \* of a call not made yet
    BadFPS,        \* FPS fractions refused: a zero den or num % den # 0
    WithLibsrt,    \* build tag with_libsrt
    ListenAddrs,   \* values of -listen_control
    RemoteAddrs    \* values of Client.Target

-----------------------------------------------------------------------------
\* The service, by what its handlers need and how they can end.

\* FFStream_ServiceDesc: the server finds a handler under these names only.
ServiceMethods ==
    {"SetLoggingLevel", "RemoveOutput", "GetCurrentOutput",
     "SwitchOutputByProps", "GetStats", "GetOutputSRTStats", "GetSRTFlagInt",
     "SetSRTFlagInt", "End", "GetPipelines", "GetVideoAutoBitRateConfig",
     "SetVideoAutoBitRateConfig", "GetVideoAutoBitRateCalculator",
     "SetVideoAutoBitRateCalculator", "GetFPSFraction", "SetFPSFraction",
     "GetBitRates", "GetLatencies", "GetInputQuality", "GetOutputQuality",
     "GetInputsInfo", "SetInputCustomOption", "SetStopInput",
     "WaitChan", "Monitor"}

Streams == {"WaitChan", "Monitor"}

\* GRPCServer's handlers for these are named GetFlagInt and SetFlagInt, so that
\* the service never calls them.
SRTOptions == {"GetSRTFlagInt", "SetSRTFlagInt"}

\* GRPCServer does not override these.
Unimplemented ==
    {"RemoveOutput"} \cup SRTOptions
    \cup IF WithLibsrt THEN {} ELSE {"GetOutputSRTStats"}

\* SetLoggingLevel is not written yet; nothing ever sets what End calls.
AlwaysRefused == {"SetLoggingLevel", "End"}

\* These take s.locker and test s.StreamMux.
ChecksMux ==
    {"GetVideoAutoBitRateConfig", "SetVideoAutoBitRateConfig",
     "GetVideoAutoBitRateCalculator", "SetVideoAutoBitRateCalculator",
     "GetFPSFraction", "SetFPSFraction", "GetBitRates", "GetLatencies",
     "SwitchOutputByProps"}

\* These use s.StreamMux as it is.
DereferencesMux == {"GetCurrentOutput", "GetOutputSRTStats", "WaitChan"}

\* These index slices by what the request or another slice says.
Indexes == {"GetInputsInfo", "SetInputCustomOption", "SetStopInput"}

\* These look for the calculator of an auto-bit-rate handler.
ChecksHandler == {"GetVideoAutoBitRateCalculator", "SetVideoAutoBitRateCalculator"}

\* These have no other error return that is taken.
Infallible ==
    {"GetCurrentOutput", "GetStats", "GetPipelines", "GetInputsInfo",
     "GetFPSFraction", "SetFPSFraction"}

\* The settings of the mux, and what is put into an input. A config is what
\* there is of it apart from its calculator.
Writes == [SetFPSFraction |-> "fps", SetVideoAutoBitRateConfig |-> "config",
           SetVideoAutoBitRateCalculator |-> "calculator",
           SetInputCustomOption |-> "option", SetStopInput |-> "stop"]
Reads == [GetFPSFraction |-> "fps", GetVideoAutoBitRateConfig |-> "config",
          GetVideoAutoBitRateCalculator |-> "calculator"]
Items == {"fps", "config", "calculator", "option", "stop"}

ASSUME CallAssumption ==
    /\ CallMethods \subseteq ServiceMethods
    /\ NoMethod \notin ServiceMethods
    /\ NoValue \notin Values /\ Default \notin Values /\ Default # NoValue
    /\ BadFPS \subseteq Values
    /\ WithLibsrt \in BOOLEAN

VARIABLES
    addr,      \* what the server listens at and what the client was given
    client,    \* per call: where the client's method is
    method,    \* per call
    arg,       \* per call: the value it sets
    conn,      \* per call: its connection
    handler,   \* per call: where the server's handler is
    read,      \* per call: the value the handler read, and the client gets
    result,    \* per call: what its caller was told
    mux,       \* FFStream.StreamMux: "none", "built" while Start has yet to store
               \* its config, "running", "stopped"
    process,   \* the server's
    setting    \* per item: its value in the server

callVars == <<client, method, arg, conn, handler, read, result>>
vars == <<addr, client, method, arg, conn, handler, read, result, mux, process,
          setting>>

ClientSteps == {"idle", "begun", "dialed", "waiting", "streaming", "done"}
Answers == {"answered", "refused", "panicked"}
HandlerSteps == {"none", "queued", "blocked", "attached", "gone"} \cup Answers
Results == {"none", "ok", "refused", "eof", "gaveup"}
Settings == Values \cup {NoValue, Default}

\* Types, and what must agree whatever happens: a call has a result when its
\* method has returned, a handler when its request has left, and a connection
\* from Dial on.
TypeOK ==
    /\ client \in [Calls -> ClientSteps]
    /\ method \in [Calls -> CallMethods \cup {NoMethod}]
    /\ arg \in [Calls -> Values \cup {NoValue}]
    /\ conn \in [Calls -> {"none", "open", "closed"}]
    /\ handler \in [Calls -> HandlerSteps]
    /\ read \in [Calls -> Settings]
    /\ result \in [Calls -> Results]
    /\ mux \in {"none", "built", "running", "stopped"}
    /\ process \in {"up", "gone"}
    /\ setting \in [Items -> Settings]
    /\ setting["calculator"] = NoValue <=> setting["config"] = NoValue
    /\ setting["fps"] = NoValue <=> mux = "none"
    /\ \A k \in Calls :
          /\ result[k] # "none" <=> client[k] = "done"
          /\ method[k] = NoMethod <=> client[k] = "idle"
          /\ method[k] \in DOMAIN Writes => arg[k] \in Values
          /\ handler[k] # "none" => client[k] \in {"waiting", "streaming", "done"}
          /\ client[k] \in {"dialed", "waiting", "streaming"} => conn[k] = "open"
    /\ addr \in [listen : ListenAddrs, remote : RemoteAddrs]

-----------------------------------------------------------------------------
\* Addresses: [scheme, rest] is the text "scheme:rest"; scheme "host" stands
\* for a text without a known scheme, such as 127.0.0.1:3594, and "path" for a
\* text without a colon.

Nowhere == [net |-> "none", at |-> "none", tls |-> FALSE]

\* getListener; a certificate is made for whatever has no known scheme.
ListenerOf(a) ==
    CASE a.scheme = "path" -> [net |-> "unix", at |-> a.rest, tls |-> FALSE]
      [] a.scheme \in {"tcp", "tcp4", "tcp6"} ->
            [net |-> "tcp", at |-> a.rest, tls |-> FALSE]
      [] a.scheme \in {"unix", "unixpacket"} ->
            [net |-> a.scheme, at |-> a.rest, tls |-> FALSE]
      [] a.scheme = "host" -> [net |-> "tcp", at |-> a.rest, tls |-> TRUE]
      [] OTHER -> Nowhere    \* udp does not listen, tcp+ssl is not cut off

\* getGPRCDialParams cuts tcp+ssl off and asks for TLS; any other target goes
\* to gRPC whole and in clear text, and gRPC knows unix and host:port.
DialledBy(a) ==
    CASE a.scheme = "tcp+ssl" -> [net |-> "tcp", at |-> a.rest, tls |-> TRUE]
      [] a.scheme = "host" -> [net |-> "tcp", at |-> a.rest, tls |-> FALSE]
      [] a.scheme = "unix" -> [net |-> "unix", at |-> a.rest, tls |-> FALSE]
      [] OTHER -> Nowhere

Reaches(remote, listen) ==
    ListenerOf(listen) # Nowhere /\ DialledBy(remote) = ListenerOf(listen)

\* main ends at once when it cannot listen.
Init ==
    /\ client = [k \in Calls |-> "idle"]
    /\ method = [k \in Calls |-> NoMethod]
    /\ arg = [k \in Calls |-> NoValue]
    /\ conn = [k \in Calls |-> "none"]
    /\ handler = [k \in Calls |-> "none"]
    /\ read = [k \in Calls |-> NoValue]
    /\ result = [k \in Calls |-> "none"]
    /\ mux = "none"
    /\ setting = [i \in Items |-> NoValue]
    /\ addr \in [listen : ListenAddrs, remote : RemoteAddrs]
    /\ process = IF ListenerOf(addr.listen) = Nowhere THEN "gone" ELSE "up"

-----------------------------------------------------------------------------
\* The client's method

Undecodable ==
    {"GetVideoAutoBitRateConfig", "GetVideoAutoBitRateCalculator"}
Unencodable ==
    {"SetVideoAutoBitRateConfig", "SetVideoAutoBitRateCalculator",
     "GetSRTFlagInt", "SetSRTFlagInt"}

\* The caller enters a method of Client.
Begin(k) ==
    /\ client[k] = "idle"
    /\ client' = [client EXCEPT ![k] = "begun"]
    /\ \E m \in CallMethods :
          /\ method' = [method EXCEPT ![k] = m]
          /\ IF m \in DOMAIN Writes
             THEN \E v \in Values : arg' = [arg EXCEPT ![k] = v]
             ELSE UNCHANGED arg
    /\ UNCHANGED <<addr, conn, handler, read, result, mux, process, setting>>

\* The method returns; its deferred Close runs.
Return(k, res) ==
    /\ client' = [client EXCEPT ![k] = "done"]
    /\ result' = [result EXCEPT ![k] = res]
    /\ conn' = [conn EXCEPT ![k] = IF @ = "open" THEN "closed" ELSE @]

\* grpc.NewClient does not connect yet; a bad target fails here.
Dial(k) ==
    /\ client[k] = "begun"
    /\ \/ /\ client' = [client EXCEPT ![k] = "dialed"]
          /\ conn' = [conn EXCEPT ![k] = "open"]
          /\ UNCHANGED result
       \/ Return(k, "refused")
    /\ UNCHANGED <<addr, method, arg, handler, read, mux, process, setting>>

\* Mutant: the conversion's error returns before the deferred Close.
EncodeFailsEarly(k) ==
    /\ client[k] = "dialed" /\ method[k] \in Unencodable
    /\ client' = [client EXCEPT ![k] = "done"]
    /\ result' = [result EXCEPT ![k] = "refused"]
    /\ UNCHANGED <<addr, method, arg, conn, handler, read, mux, process, setting>>

\* The argument cannot be converted for the wire.
EncodeFails(k) ==
    /\ client[k] = "dialed" /\ method[k] \in Unencodable
    /\ Return(k, "refused")
    /\ UNCHANGED <<addr, method, arg, handler, read, mux, process, setting>>

CanSend == process = "up" /\ Reaches(addr.remote, addr.listen)

\* The request leaves; a stream's method returns its channel at once.
Send(k) ==
    /\ client[k] = "dialed" /\ CanSend
    /\ client' = [client EXCEPT
          ![k] = IF method[k] \in Streams THEN "streaming" ELSE "waiting"]
    /\ handler' = [handler EXCEPT ![k] = "queued"]
    /\ UNCHANGED <<addr, method, arg, conn, read, result, mux, process, setting>>

\* No connection, or a broken one. WaitChan returns this error without
\* closing: its deferred Close is in the goroutine it did not start.
SendFails(k) ==
    /\ client[k] = "dialed"
    /\ IF method[k] = "WaitChan"
       THEN /\ client' = [client EXCEPT ![k] = "done"]
            /\ result' = [result EXCEPT ![k] = "gaveup"]
            /\ UNCHANGED conn
       ELSE Return(k, "gaveup")
    /\ UNCHANGED <<addr, method, arg, handler, read, mux, process, setting>>

\* Mutant: a handler that panicked is not answered for.
ReceiveUnlessPanicked(k) ==
    /\ client[k] = "waiting" /\ handler[k] \in {"answered", "refused"}
    /\ Return(k, IF handler[k] = "answered" THEN "ok" ELSE "refused")
    /\ UNCHANGED <<addr, method, arg, handler, read, mux, process, setting>>

\* The answer to a unary call; converting its contents may fail as well.
Receive(k) ==
    /\ client[k] = "waiting" /\ handler[k] \in Answers
    /\ \/ Return(k, IF handler[k] = "refused" THEN "refused" ELSE "ok")
       \/ /\ method[k] \in Undecodable
          /\ Return(k, "refused")
    /\ UNCHANGED <<addr, method, arg, handler, read, mux, process, setting>>

\* The goroutine's Recv returns; whatever it returned, the channel is closed.
ReceiveStream(k) ==
    /\ client[k] = "streaming" /\ handler[k] \in Answers
    /\ Return(k, CASE handler[k] = "answered" -> "ok"
                   [] handler[k] = "refused" -> "refused"
                   [] handler[k] = "panicked" -> "eof")
    /\ UNCHANGED <<addr, method, arg, handler, read, mux, process, setting>>

\* Mutant: the goroutine of a stream tries again for ever.
GiveUpUnary(k) ==
    \/ /\ client[k] = "waiting" /\ Return(k, "gaveup")
       /\ UNCHANGED <<addr, method, arg, handler, read, mux, process, setting>>
    \/ client[k] = "streaming" /\ UNCHANGED vars

\* Mutant: the error is dropped on the way out.
GiveUpSilently(k) ==
    /\ client[k] \in {"waiting", "streaming"}
    /\ Return(k, "none")
    /\ UNCHANGED <<addr, method, arg, handler, read, mux, process, setting>>

\* The connection breaks, or the caller's context ends.
GiveUp(k) ==
    /\ client[k] \in {"waiting", "streaming"}
    /\ Return(k, "gaveup")
    /\ UNCHANGED <<addr, method, arg, handler, read, mux, process, setting>>

-----------------------------------------------------------------------------
\* The server's handlers

\* What is refused before anything else is done.
Refuses(m, v) ==
    \/ m \in Unimplemented \cup AlwaysRefused
    \/ m \in ChecksMux /\ mux = "none"
    \/ m \in ChecksHandler /\ setting["config"] = NoValue
    \/ m = "SetFPSFraction" /\ v \in BadFPS

\* How the handler of a unary method may end.
Outcomes(m, v) ==
    IF Refuses(m, v) THEN {"refused"}
    ELSE IF m \in DereferencesMux /\ mux = "none" THEN {"panicked"}
    ELSE {"answered"} \cup (IF m \in Infallible THEN {} ELSE {"refused"})
                      \cup (IF m \in Indexes THEN {"panicked"} ELSE {})

\* The calculator once a config is stored: a config has a handler, which takes
\* over the calculator there was, or the one the config brings along (external).
CalculatorWith(config, fresh) ==
    CASE config = NoValue -> NoValue
      [] config # NoValue /\ (fresh \/ setting["calculator"] = NoValue) -> Default
      [] OTHER -> setting["calculator"]

Store(i, v) ==
    IF i = "config"
    THEN \E fresh \in BOOLEAN :
            setting' = [setting EXCEPT !["config"] = v,
                                       !["calculator"] = CalculatorWith(v, fresh)]
    ELSE setting' = [setting EXCEPT ![i] = v]

\* What a write leaves in its item.
Written(m, v) == IF Writes[m] = "config" /\ v = NilConfig THEN NoValue ELSE v

\* Mutant: the setting is stored before the last check.
HandleStoresFirst(k) ==
    /\ process = "up" /\ handler[k] = "queued" /\ method[k] \notin Streams
    /\ \E o \in Outcomes(method[k], arg[k]) :
          handler' = [handler EXCEPT ![k] = o]
    /\ IF method[k] \in DOMAIN Writes /\ ~Refuses(method[k], arg[k])
       THEN Store(Writes[method[k]], Written(method[k], arg[k]))
       ELSE UNCHANGED setting
    /\ read' = IF method[k] \in DOMAIN Reads
               THEN [read EXCEPT ![k] = setting[Reads[method[k]]]] ELSE read
    /\ UNCHANGED <<addr, client, method, arg, conn, result, mux, process>>

\* A unary handler, in the one critical section it has.
Handle(k) ==
    /\ process = "up" /\ handler[k] = "queued" /\ method[k] \notin Streams
    /\ \E o \in Outcomes(method[k], arg[k]) :
          /\ handler' = [handler EXCEPT ![k] = o]
          /\ IF o = "answered" /\ method[k] \in DOMAIN Writes
             THEN Store(Writes[method[k]], Written(method[k], arg[k]))
             ELSE UNCHANGED setting
          /\ IF o = "answered" /\ method[k] \in DOMAIN Reads
             THEN read' = [read EXCEPT ![k] = setting[Reads[method[k]]]]
             ELSE UNCHANGED read
    /\ UNCHANGED <<addr, client, method, arg, conn, result, mux, process>>

ServerUnchanged == UNCHANGED <<addr, client, method, arg, conn, read, result,
                               mux, process, setting>>

\* WaitChan: FFStream.Wait of a stream multiplexer that may not exist.
HandleWait(k) ==
    /\ process = "up" /\ handler[k] = "queued" /\ method[k] = "WaitChan"
    /\ handler' = [handler EXCEPT
          ![k] = IF mux = "none" THEN "panicked" ELSE "blocked"]
    /\ ServerUnchanged

\* Mutant: it does not wait for the stop.
WaitReturnsAtOnce(k) ==
    /\ process = "up" /\ handler[k] = "blocked" /\ mux # "none"
    /\ handler' = [handler EXCEPT ![k] = "answered"]
    /\ ServerUnchanged

\* WaitForStop returns and WaitReply is sent.
WaitReturns(k) ==
    /\ process = "up" /\ handler[k] = "blocked" /\ mux = "stopped"
    /\ handler' = [handler EXCEPT ![k] = "answered"]
    /\ ServerUnchanged

\* Mutant: the wait ignores its context.
WaitCancelledOnStop(k) ==
    /\ process = "up" /\ handler[k] = "blocked" /\ client[k] = "done"
    /\ mux = "stopped"
    /\ handler' = [handler EXCEPT ![k] = "refused"]
    /\ ServerUnchanged

\* The client is gone: WaitForStop fails with its context.
WaitCancelled(k) ==
    /\ process = "up" /\ handler[k] = "blocked" /\ client[k] = "done"
    /\ handler' = [handler EXCEPT ![k] = "refused"]
    /\ ServerUnchanged

\* Monitor: no such node or no monitor for it, or one is attached.
HandleMonitor(k) ==
    /\ process = "up" /\ handler[k] = "queued" /\ method[k] = "Monitor"
    /\ \E o \in {"refused", "attached"} : handler' = [handler EXCEPT ![k] = o]
    /\ ServerUnchanged

\* Its events end, or its client is gone; the deferred Close detaches it.
MonitorEnds(k) ==
    /\ process = "up" /\ handler[k] = "attached"
    /\ handler' = [handler EXCEPT ![k] = "answered"]
    /\ ServerUnchanged

\* The request never arrives: its connection is gone.
Drop(k) ==
    /\ handler[k] = "queued" /\ client[k] = "done"
    /\ handler' = [handler EXCEPT ![k] = "gone"]
    /\ ServerUnchanged

\* FFStream.Start makes the mux, with an FPS fraction of its own, and stores
\* the config of the command line, if any, without s.locker: clients already
\* see the mux.
StartMux ==
    /\ mux = "none" /\ process = "up" /\ mux' = "built"
    /\ Store("fps", Default)
    /\ UNCHANGED <<addr, callVars, process>>
StoreConfig ==
    /\ mux = "built" /\ process = "up" /\ mux' = "running"
    /\ \E c \in {Default, NoValue} : Store("config", c)
    /\ UNCHANGED <<addr, callVars, process>>

\* The end of the stream multiplexer.
StopMux == mux = "running" /\ process = "up" /\ mux' = "stopped"
           /\ UNCHANGED <<addr, callVars, process, setting>>

\* main returns after Wait, or the process dies; handlers die with it.
Exit ==
    /\ process = "up" /\ process' = "gone"
    /\ handler' = [k \in Calls |->
          IF handler[k] \in {"queued", "blocked", "attached"} THEN "gone"
          ELSE handler[k]]
    /\ UNCHANGED <<addr, client, method, arg, conn, read, result, mux, setting>>

Terminated ==
    /\ process = "gone" /\ \A k \in Calls : client[k] = "done"
    /\ UNCHANGED vars

ClientStep(k) ==
    Begin(k) \/ Dial(k) \/ EncodeFails(k) \/ Send(k) \/ SendFails(k)
    \/ Receive(k) \/ ReceiveStream(k) \/ GiveUp(k)

ServerStep(k) ==
    Handle(k) \/ HandleWait(k) \/ WaitReturns(k) \/ WaitCancelled(k)
    \/ HandleMonitor(k) \/ MonitorEnds(k) \/ Drop(k)

Next == (\E k \in Calls : ClientStep(k) \/ ServerStep(k))
        \/ StartMux \/ StoreConfig \/ StopMux \/ Exit \/ Terminated

Spec == Init /\ [][Next]_vars

\* The client's goroutines run; the server runs a queued handler and notices
\* a stop or a lost client; a connection to a process that is gone breaks;
\* main returns once Wait does. Nothing makes a monitored node end.
Fairness ==
    /\ \A k \in Calls :
          /\ WF_vars(Dial(k)) /\ WF_vars(Send(k) \/ SendFails(k))
          /\ WF_vars(Receive(k) \/ ReceiveStream(k))
          /\ WF_vars(Handle(k) \/ HandleWait(k) \/ HandleMonitor(k))
          /\ WF_vars(WaitReturns(k)) /\ WF_vars(WaitCancelled(k))
          /\ WF_vars(client[k] = "done" /\ MonitorEnds(k))
          /\ WF_vars(process = "gone" /\ GiveUp(k))
    /\ WF_vars(mux = "stopped" /\ Exit)

FairSpec == Spec /\ Fairness

-----------------------------------------------------------------------------
\* Properties

\* Every way out of a client method closes its connection (conn.Close of the
\* client's methods), but for a WaitChan that could not send its request.
ConnectionReleased ==
    \A k \in Calls :
        /\ conn[k] = "closed" => client[k] = "done"
        /\ client[k] = "done" /\ conn[k] = "open" =>
              method[k] = "WaitChan" /\ result[k] = "gaveup"
              /\ handler[k] = "none"

\* A WaitReply on WaitChan's stream means that the stream multiplexer has
\* stopped, whoever asked and whenever.
MessageMeansStopped ==
    \A k \in Calls :
        method[k] = "WaitChan" /\ (result[k] = "ok" \/ handler[k] = "answered")
            => mux = "stopped"

\* A call the server is there for returns, whatever the handler does; a wait
\* or a monitor may hold its channel open for as long as the stream lasts.
CallReturns ==
    \A k \in Calls :
        client[k] \in {"begun", "dialed", "waiting"}
            ~> client[k] \in {"done", "streaming"}

\* Whoever waits for the end learns of it: by the reply, or by the connection
\* that the process takes down with it when main returns.
WaitersReleased ==
    \A k \in Calls :
        client[k] = "streaming" /\ method[k] = "WaitChan" /\ mux = "stopped"
            ~> client[k] = "done"

\* No handler outlives its client for good: a monitor is detached, a wait ends.
HandlersLeave ==
    \A k \in Calls :
        client[k] = "done" /\ handler[k] \in {"queued", "blocked", "attached"}
            ~> handler[k] \in Answers \cup {"gone"}

-----------------------------------------------------------------------------
\* The settings are the abstract register's.

RegisterMethods == DOMAIN Writes \cup DOMAIN Reads

NoOp == [method |-> NoMethod, value |-> NoValue]
OpOf(k) == IF method[k] \in RegisterMethods
           THEN [method |-> method[k], value |-> arg[k]] ELSE NoOp
ItemOf(o) == IF o.method \in DOMAIN Writes THEN Writes[o.method] ELSE Reads[o.method]
WritesOp(o) == o.method \in DOMAIN Writes
ValueOf(o) == Written(o.method, o.value)
BaseOf(i) == IF i = "calculator" THEN "config" ELSE i

StatusOf(k) ==
    CASE method[k] \notin RegisterMethods -> "none"
      [] method[k] \in RegisterMethods /\ client[k] # "done" ->
            (CASE handler[k] = "answered" -> "effective"
               [] handler[k] = "panicked" -> "void"
               [] OTHER -> "pending")
      [] method[k] \in RegisterMethods /\ client[k] = "done" ->
            (CASE result[k] = "ok" -> "ok"
               [] result[k] = "gaveup" ->
                     (IF handler[k] = "answered" THEN "late" ELSE "abandoned")
               [] OTHER -> "refused")

\* What Start has still to store.
ToProvide == CASE mux = "none" -> {"fps", "config"}
               [] mux = "built" -> {"config"}
               [] OTHER -> {}

Register == INSTANCE SettingRegister WITH
    Ops <- [method : RegisterMethods, value : Values \cup {NoValue}],
    NoOp <- NoOp, Item <- ItemOf, IsWrite <- WritesOp, Value <- ValueOf, Base <- BaseOf,
    Provided <- {"fps", "config"},
    op <- [k \in Calls |-> OpOf(k)],
    status <- [k \in Calls |-> StatusOf(k)],
    got <- [k \in Calls |-> IF method[k] \in RegisterMethods THEN read[k] ELSE NoValue],
    due <- ToProvide

\* The calls of the control socket read and write settings as the abstract
\* register promises: each takes effect at most once, at one moment, by the
\* time it is answered well, and never when it is refused; the process stores
\* an FPS fraction and a config once each, and nobody else stores anything.
RegisterSpec == Register!RegSpec
=============================================================================
