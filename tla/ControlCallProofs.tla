------------------------- MODULE ControlCallProofs -------------------------
(***************************************************************************)
(* Proofs about ControlCall for every set of calls, methods, values and    *)
(* addresses.                                                              *)
(***************************************************************************)
EXTENDS ControlCall, TLAPS

\* A handler waits or monitors only for the method that does.
HandlerOfMethod(k) ==
    /\ handler[k] = "blocked" => method[k] = "WaitChan"
    /\ handler[k] = "attached" => method[k] = "Monitor"

\* A method that waits for an answer is unary; one that streams is not.
ClientOfMethod(k) ==
    /\ client[k] = "waiting" => method[k] \notin Streams
    /\ client[k] = "streaming" => method[k] \in Streams

\* The connection is closed last, and there is none before Dial.
ConnOfClient(k) ==
    /\ client[k] \in {"idle", "begun"} => conn[k] = "none"
    /\ conn[k] = "closed" => client[k] = "done"
    /\ client[k] = "done" /\ conn[k] = "open" =>
          method[k] = "WaitChan" /\ result[k] = "gaveup" /\ handler[k] = "none"

\* Who was answered has a handler that ended, and did not refuse when all is
\* well; a refused call was refused on the way, or its reply was unreadable.
AnswerOfHandler(k) ==
    /\ result[k] \in {"refused", "eof"} => handler[k] \in Answers \cup {"none"}
    /\ result[k] = "ok" => handler[k] \in {"answered", "panicked"}
    /\ result[k] = "ok" /\ method[k] \in Streams => handler[k] = "answered"
    /\ result[k] = "refused" /\ handler[k] = "answered" => method[k] \in Undecodable

\* A wait ends well only after the stop.
WaitOfMux(k) == method[k] = "WaitChan" /\ handler[k] = "answered" => mux = "stopped"

\* Only a read that was handled has a value.
ReadOfHandler(k) == handler[k] # "answered" => read[k] = NoValue

CallInv(k) ==
    /\ HandlerOfMethod(k) /\ ClientOfMethod(k) /\ ConnOfClient(k)
    /\ AnswerOfHandler(k) /\ WaitOfMux(k) /\ ReadOfHandler(k)

IndInv == TypeOK /\ \A k \in Calls : CallInv(k)

-----------------------------------------------------------------------------
LEMMA WritesItems == \A m \in DOMAIN Writes : Writes[m] \in Items
BY DEF Writes, Items

LEMMA ReadsItems == \A m \in DOMAIN Reads : Reads[m] \in Items
BY DEF Reads, Items

LEMMA RegisterMethodsUnary ==
    \A m \in RegisterMethods : m \notin Streams /\ m # NoMethod
BY CallAssumption DEF RegisterMethods, Writes, Reads, Streams, ServiceMethods

LEMMA WritesDecodable ==
    \A m \in DOMAIN Writes : m \notin Undecodable /\ m \notin DOMAIN Reads
BY DEF Writes, Reads, Undecodable

LEMMA NoMethodUnwritten == NoMethod \notin DOMAIN Writes
BY CallAssumption DEF Writes, ServiceMethods

LEMMA NoMethodUnserved == NoMethod \notin ServiceMethods
BY CallAssumption

-----------------------------------------------------------------------------
\* Types

LEMMA InitType == Init => TypeOK
BY NoMethodUnwritten DEF Init, TypeOK, ClientSteps, HandlerSteps, Results, Settings, Items

LEMMA OutcomesAreAnswers ==
    ASSUME NEW m, NEW v PROVE Outcomes(m, v) \subseteq Answers
BY DEF Outcomes, Answers

\* A method that needs a handler of the config is answered well only if there
\* is one.
LEMMA AnsweredHasHandler ==
    ASSUME NEW m \in ChecksHandler, NEW v, "answered" \in Outcomes(m, v)
    PROVE  setting["config"] # NoValue
BY DEF Outcomes, Refuses

\* What is written is a setting, and nothing but a config is cleared.
LEMMA WrittenValue ==
    ASSUME NEW m \in DOMAIN Writes, NEW v \in Values
    PROVE  /\ Written(m, v) \in Values \cup {NoValue}
           /\ Writes[m] # "config" => Written(m, v) = v
BY DEF Written

\* Storing a setting keeps the types, and a calculator where there is a config.
LEMMA StoreType ==
    ASSUME TypeOK, NEW i \in Items, NEW v \in Settings, Store(i, v),
           i = "calculator" => v # NoValue /\ setting["config"] # NoValue
    PROVE  /\ setting' \in [Items -> Settings]
           /\ setting'["calculator"] = NoValue <=> setting'["config"] = NoValue
           /\ setting'["fps"] = IF i = "fps" THEN v ELSE setting["fps"]
<1>1. {"fps", "config", "calculator"} \subseteq Items
  BY DEF Items
<1>2. Default # NoValue
  BY CallAssumption
<1>3. CASE i = "config"
  <2>1. PICK fresh \in BOOLEAN :
           setting' = [setting EXCEPT !["config"] = v,
                                      !["calculator"] = CalculatorWith(v, fresh)]
    BY <1>3 DEF Store
  <2>2. /\ CalculatorWith(v, fresh) \in Settings
        /\ CalculatorWith(v, fresh) = NoValue <=> v = NoValue
    BY <1>1, <1>2 DEF CalculatorWith, Settings, TypeOK
  <2> QED BY <1>1, <1>3, <2>1, <2>2 DEF TypeOK
<1>4. CASE i # "config"
  <2>1. setting' = [setting EXCEPT ![i] = v]
    BY <1>4 DEF Store
  <2> QED BY <1>1, <1>4, <2>1 DEF TypeOK
<1> QED BY <1>3, <1>4

\* A client method that returns.
LEMMA ReturnType ==
    ASSUME TypeOK, NEW k \in Calls, NEW res \in Results \ {"none"},
           client[k] # "idle",
           Return(k, res),
           UNCHANGED <<addr, method, arg, handler, read, mux, process, setting>>
    PROVE  TypeOK'
BY DEF TypeOK, Return, ClientSteps

LEMMA ClientType ==
    ASSUME TypeOK, NEW k \in Calls, ClientStep(k) PROVE TypeOK'
<1>1. CASE Begin(k)
  BY <1>1, NoMethodUnserved, CallAssumption DEF Begin, TypeOK, ClientSteps
<1>2. CASE Dial(k)
  <2>1. CASE Return(k, "refused")
    BY <1>2, <2>1, ReturnType DEF Dial, Results
  <2>2. CASE ~Return(k, "refused")
    BY <1>2, <2>2 DEF Dial, TypeOK, ClientSteps
  <2> QED BY <2>1, <2>2
<1>3. CASE EncodeFails(k)
  BY <1>3, ReturnType DEF EncodeFails, Results
<1>4. CASE Send(k)
  BY <1>4 DEF Send, TypeOK, ClientSteps, HandlerSteps
<1>5. CASE SendFails(k)
  <2>1. CASE method[k] = "WaitChan"
    BY <1>5, <2>1 DEF SendFails, TypeOK, ClientSteps, Results
  <2>2. CASE method[k] # "WaitChan"
    BY <1>5, <2>2, ReturnType DEF SendFails, Results
  <2> QED BY <2>1, <2>2
<1>6. CASE Receive(k)
  BY <1>6, ReturnType DEF Receive, Results
<1>7. CASE ReceiveStream(k)
  BY <1>7, ReturnType DEF ReceiveStream, Results, Answers
<1>8. CASE GiveUp(k)
  BY <1>8, ReturnType DEF GiveUp, Results
<1> QED BY <1>1, <1>2, <1>3, <1>4, <1>5, <1>6, <1>7, <1>8 DEF ClientStep

\* A handler that writes needs what it writes into: the mux, or a config.
LEMMA HandleStoreType ==
    ASSUME TypeOK, NEW k \in Calls, NEW o \in Outcomes(method[k], arg[k]),
           IF o = "answered" /\ method[k] \in DOMAIN Writes
           THEN Store(Writes[method[k]], Written(method[k], arg[k]))
           ELSE UNCHANGED setting
    PROVE  /\ setting' \in [Items -> Settings]
           /\ setting'["calculator"] = NoValue <=> setting'["config"] = NoValue
           /\ setting'["fps"] = NoValue <=> mux = "none"
<1>1. CASE o = "answered" /\ method[k] \in DOMAIN Writes
  <2> DEFINE i == Writes[method[k]]
             v == Written(method[k], arg[k])
  <2>1. i \in Items /\ arg[k] \in Values /\ NoValue \notin Values
    BY <1>1, WritesItems, CallAssumption DEF TypeOK
  <2>2. v \in Settings /\ (i # "config" => v = arg[k])
    BY <1>1, <2>1, WrittenValue DEF Settings
  <2>3. i = "calculator" => setting["config"] # NoValue
    <3>1. i = "calculator" => method[k] \in ChecksHandler
      BY <1>1 DEF Writes, ChecksHandler
    <3> QED BY <1>1, <3>1, AnsweredHasHandler
  <2>4. i = "fps" => mux # "none"
    <3>1. i = "fps" => method[k] \in ChecksMux
      BY <1>1 DEF Writes, ChecksMux
    <3> QED BY <1>1, <3>1 DEF Outcomes, Refuses
  <2>5. Store(i, v)
    BY <1>1
  <2> HIDE DEF i, v
  <2>6. /\ setting' \in [Items -> Settings]
        /\ setting'["calculator"] = NoValue <=> setting'["config"] = NoValue
        /\ setting'["fps"] = IF i = "fps" THEN v ELSE setting["fps"]
    BY <2>1, <2>2, <2>3, <2>5, StoreType
  <2> QED BY <2>1, <2>2, <2>4, <2>6 DEF TypeOK
<1>2. CASE ~(o = "answered" /\ method[k] \in DOMAIN Writes)
  BY <1>2 DEF TypeOK
<1> QED BY <1>1, <1>2

LEMMA ServerType ==
    ASSUME TypeOK, NEW k \in Calls, ServerStep(k) PROVE TypeOK'
<1>1. CASE Handle(k)
  <2>1. PICK o \in Outcomes(method[k], arg[k]) :
           /\ handler' = [handler EXCEPT ![k] = o]
           /\ IF o = "answered" /\ method[k] \in DOMAIN Writes
              THEN Store(Writes[method[k]], Written(method[k], arg[k]))
              ELSE UNCHANGED setting
           /\ IF o = "answered" /\ method[k] \in DOMAIN Reads
              THEN read' = [read EXCEPT ![k] = setting[Reads[method[k]]]]
              ELSE UNCHANGED read
    BY <1>1 DEF Handle
  <2>2. o \in Answers
    BY OutcomesAreAnswers
  <2>3. /\ setting' \in [Items -> Settings]
        /\ setting'["calculator"] = NoValue <=> setting'["config"] = NoValue
        /\ setting'["fps"] = NoValue <=> mux = "none"
    BY <1>1, <2>1, HandleStoreType
  <2>4. read' \in [Calls -> Settings]
    BY <2>1, ReadsItems DEF TypeOK
  <2>5. handler' \in [Calls -> HandlerSteps]
    BY <2>1, <2>2 DEF TypeOK, HandlerSteps
  <2>6. \A j \in Calls : handler'[j] # "none" =>
           client[j] \in {"waiting", "streaming", "done"}
    BY <1>1, <2>1 DEF TypeOK, Handle
  <2> QED BY <1>1, <2>3, <2>4, <2>5, <2>6 DEF Handle, TypeOK
<1>2. CASE HandleWait(k)
  BY <1>2 DEF HandleWait, ServerUnchanged, TypeOK, HandlerSteps, Answers
<1>3. CASE WaitReturns(k)
  BY <1>3 DEF WaitReturns, ServerUnchanged, TypeOK, HandlerSteps, Answers
<1>4. CASE WaitCancelled(k)
  BY <1>4 DEF WaitCancelled, ServerUnchanged, TypeOK, HandlerSteps, Answers
<1>5. CASE HandleMonitor(k)
  BY <1>5 DEF HandleMonitor, ServerUnchanged, TypeOK, HandlerSteps, Answers
<1>6. CASE MonitorEnds(k)
  BY <1>6 DEF MonitorEnds, ServerUnchanged, TypeOK, HandlerSteps, Answers
<1>7. CASE Drop(k)
  BY <1>7 DEF Drop, ServerUnchanged, TypeOK, HandlerSteps
<1> QED BY <1>1, <1>2, <1>3, <1>4, <1>5, <1>6, <1>7 DEF ServerStep

LEMMA NextType == TypeOK /\ [Next]_vars => TypeOK'
<1> SUFFICES ASSUME TypeOK, [Next]_vars PROVE TypeOK'
  OBVIOUS
<1>1. ASSUME NEW k \in Calls, ClientStep(k) PROVE TypeOK'
  BY <1>1, ClientType
<1>2. ASSUME NEW k \in Calls, ServerStep(k) PROVE TypeOK'
  BY <1>2, ServerType
<1>3. CASE StartMux
  <2>1. "fps" \in Items /\ Default \in Settings /\ Default # NoValue
    BY CallAssumption DEF Items, Settings
  <2>2. /\ setting' \in [Items -> Settings]
        /\ setting'["calculator"] = NoValue <=> setting'["config"] = NoValue
        /\ setting'["fps"] # NoValue
    BY <1>3, <2>1, StoreType DEF StartMux
  <2> QED BY <1>3, <2>2 DEF StartMux, callVars, TypeOK
<1>8. CASE StoreConfig
  <2>1. "config" \in Items /\ {Default, NoValue} \subseteq Settings
    BY DEF Items, Settings
  <2>2. PICK c \in {Default, NoValue} : Store("config", c)
    BY <1>8 DEF StoreConfig
  <2>3. /\ setting' \in [Items -> Settings]
        /\ setting'["calculator"] = NoValue <=> setting'["config"] = NoValue
        /\ setting'["fps"] = setting["fps"]
    BY <2>1, <2>2, StoreType
  <2> QED BY <1>8, <2>3 DEF StoreConfig, callVars, TypeOK
<1>4. CASE StopMux
  BY <1>4 DEF StopMux, callVars, TypeOK
<1>5. CASE Exit
  BY <1>5 DEF Exit, TypeOK, HandlerSteps
<1>6. CASE Terminated
  BY <1>6 DEF Terminated, vars, TypeOK
<1>7. CASE UNCHANGED vars
  BY <1>7 DEF vars, TypeOK
<1> QED BY <1>1, <1>2, <1>3, <1>4, <1>5, <1>6, <1>7, <1>8 DEF Next

\* Every variable keeps its type, and a call's result, handler and connection
\* agree with where its client is.
THEOREM CallTypeCorrect == Spec => []TypeOK
BY InitType, NextType, PTL DEF Spec

-----------------------------------------------------------------------------
\* The invariant of a call

LEMMA InitInv == Init => \A k \in Calls : CallInv(k)
BY NoMethodUnserved DEF Init, CallInv, HandlerOfMethod, ClientOfMethod, ConnOfClient,
   AnswerOfHandler, WaitOfMux, ReadOfHandler

\* Nothing a call is made of changes for j, and mux does not go back.
Untouched(j) ==
    /\ client'[j] = client[j] /\ method'[j] = method[j] /\ conn'[j] = conn[j]
    /\ handler'[j] = handler[j] /\ read'[j] = read[j] /\ result'[j] = result[j]
    /\ arg'[j] = arg[j]
    /\ mux = "stopped" => mux' = "stopped"

LEMMA UntouchedInv ==
    ASSUME NEW j \in Calls, CallInv(j), Untouched(j) PROVE CallInv(j)'
BY DEF CallInv, Untouched, HandlerOfMethod, ClientOfMethod, ConnOfClient,
   AnswerOfHandler, WaitOfMux, ReadOfHandler

\* A step of one call touches no other.
LEMMA StepUntouched ==
    ASSUME TypeOK, NEW k \in Calls, NEW j \in Calls, j # k,
           ClientStep(k) \/ ServerStep(k)
    PROVE  Untouched(j)
<1> USE DEF Untouched, TypeOK
<1>1. CASE Begin(k)
  BY <1>1 DEF Begin
<1>2. CASE Dial(k)
  BY <1>2 DEF Dial, Return
<1>3. CASE EncodeFails(k) \/ SendFails(k)
  BY <1>3 DEF EncodeFails, SendFails, Return
<1>4. CASE Send(k)
  BY <1>4 DEF Send
<1>5. CASE Receive(k) \/ ReceiveStream(k) \/ GiveUp(k)
  BY <1>5 DEF Receive, ReceiveStream, GiveUp, Return
<1>6. CASE Handle(k)
  BY <1>6 DEF Handle
<1>7. CASE HandleWait(k) \/ WaitReturns(k) \/ WaitCancelled(k)
  BY <1>7 DEF HandleWait, WaitReturns, WaitCancelled, ServerUnchanged
<1>8. CASE HandleMonitor(k) \/ MonitorEnds(k) \/ Drop(k)
  BY <1>8 DEF HandleMonitor, MonitorEnds, Drop, ServerUnchanged
<1> QED BY <1>1, <1>2, <1>3, <1>4, <1>5, <1>6, <1>7, <1>8 DEF ClientStep, ServerStep

LEMMA ClientInv ==
    ASSUME TypeOK, NEW k \in Calls, CallInv(k), ClientStep(k) PROVE CallInv(k)'
<1> USE DEF TypeOK, CallInv, HandlerOfMethod, ClientOfMethod, ConnOfClient,
            AnswerOfHandler, WaitOfMux, ReadOfHandler, Answers
<1>1. CASE Begin(k)
  BY <1>1, NoMethodUnserved DEF Begin
<1>2. CASE Dial(k)
  BY <1>2 DEF Dial, Return
<1>3. CASE EncodeFails(k)
  BY <1>3 DEF EncodeFails, Return
<1>4. CASE Send(k)
  BY <1>4 DEF Send
<1>5. CASE SendFails(k)
  BY <1>5 DEF SendFails, Return
<1>6. CASE Receive(k)
  BY <1>6 DEF Receive, Return, Answers
<1>7. CASE ReceiveStream(k)
  BY <1>7 DEF ReceiveStream, Return, Answers
<1>8. CASE GiveUp(k)
  BY <1>8 DEF GiveUp, Return
<1> QED BY <1>1, <1>2, <1>3, <1>4, <1>5, <1>6, <1>7, <1>8 DEF ClientStep

LEMMA ServerInv ==
    ASSUME TypeOK, NEW k \in Calls, CallInv(k), ServerStep(k) PROVE CallInv(k)'
<1> USE DEF TypeOK, CallInv, HandlerOfMethod, ClientOfMethod, ConnOfClient,
            AnswerOfHandler, WaitOfMux, ReadOfHandler, Answers
<1>1. CASE Handle(k)
  <2>1. PICK o \in Answers :
           /\ handler' = [handler EXCEPT ![k] = o]
           /\ o # "answered" => read' = read
           /\ \A j \in Calls : j # k => read'[j] = read[j]
    BY <1>1, OutcomesAreAnswers DEF Handle
  <2>2. /\ handler[k] = "queued" /\ method[k] \notin Streams
        /\ UNCHANGED <<client, method, conn, result, mux>>
    BY <1>1 DEF Handle
  <2> QED BY <2>1, <2>2 DEF Answers, Streams
<1>2. CASE HandleWait(k)
  BY <1>2 DEF HandleWait, ServerUnchanged
<1>3. CASE WaitReturns(k)
  BY <1>3 DEF WaitReturns, ServerUnchanged
<1>4. CASE WaitCancelled(k)
  BY <1>4 DEF WaitCancelled, ServerUnchanged
<1>5. CASE HandleMonitor(k)
  BY <1>5 DEF HandleMonitor, ServerUnchanged
<1>6. CASE MonitorEnds(k)
  BY <1>6 DEF MonitorEnds, ServerUnchanged
<1>7. CASE Drop(k)
  BY <1>7 DEF Drop, ServerUnchanged
<1> QED BY <1>1, <1>2, <1>3, <1>4, <1>5, <1>6, <1>7 DEF ServerStep

THEOREM CallsInvariant == Spec => []IndInv
<1>1. Init => IndInv
  BY InitType, InitInv DEF IndInv
<1>2. IndInv /\ [Next]_vars => IndInv'
  <2> SUFFICES ASSUME IndInv, [Next]_vars, NEW j \in Calls PROVE CallInv(j)'
    BY NextType DEF IndInv
  <2>t. TypeOK /\ CallInv(j)
    BY DEF IndInv
  <2>1. ASSUME NEW k \in Calls, ClientStep(k) \/ ServerStep(k) PROVE CallInv(j)'
    <3>1. CASE j = k
      BY <2>t, <2>1, <3>1, ClientInv, ServerInv
    <3>2. CASE j # k
      BY <2>t, <2>1, <3>2, StepUntouched, UntouchedInv
    <3> QED BY <3>1, <3>2
  <2>2. CASE StartMux \/ StoreConfig \/ StopMux
    BY <2>t, <2>2, UntouchedInv DEF StartMux, StoreConfig, StopMux, callVars, Untouched
  <2>3. CASE Exit
    BY <2>t, <2>3 DEF Exit, TypeOK, CallInv, HandlerOfMethod, ClientOfMethod,
       ConnOfClient, AnswerOfHandler, WaitOfMux, ReadOfHandler, Answers
  <2>4. CASE Terminated \/ UNCHANGED vars
    BY <2>t, <2>4, UntouchedInv DEF Terminated, vars, Untouched
  <2> QED BY <2>1, <2>2, <2>3, <2>4 DEF Next
<1> QED BY <1>1, <1>2, PTL DEF Spec

\* Every way out of a client method closes its connection, but for a WaitChan
\* that could not send its request.
THEOREM ConnectionsReleased == Spec => []ConnectionReleased
<1>1. IndInv => ConnectionReleased
  BY DEF IndInv, CallInv, ConnOfClient, ConnectionReleased
<1> QED BY <1>1, CallsInvariant, PTL

\* A WaitReply means that the stream multiplexer has stopped.
THEOREM MessagesMeanStopped == Spec => []MessageMeansStopped
<1>1. IndInv => MessageMeansStopped
  BY DEF IndInv, CallInv, AnswerOfHandler, WaitOfMux, MessageMeansStopped, Streams
<1> QED BY <1>1, CallsInvariant, PTL

-----------------------------------------------------------------------------
\* The calls refine the abstract register.

GotOf(k) == IF method[k] \in RegisterMethods THEN read[k] ELSE NoValue
Op == [k \in Calls |-> OpOf(k)]
Status == [k \in Calls |-> StatusOf(k)]
Got == [k \in Calls |-> GotOf(k)]

RegisterUnchanged == UNCHANGED <<setting, Op, Status, Got, ToProvide>>

\* Storing a setting is what the register calls storing.
LEMMA StoreRefines ==
    ASSUME TypeOK, NEW i \in Items, NEW v, Store(i, v) PROVE Register!Store(i, v)
<1>1. "config" \in Items /\ "calculator" \in Items
  BY DEF Items
<1>2. CASE i = "config"
  <2>1. PICK fresh \in BOOLEAN :
           setting' = [setting EXCEPT !["config"] = v,
                                      !["calculator"] = CalculatorWith(v, fresh)]
    BY <1>2 DEF Store
  <2>2. setting' = [j \in Items |->
            IF j = i THEN v
            ELSE IF BaseOf(j) # i THEN setting[j]
            ELSE IF v = NoValue THEN NoValue
            ELSE IF fresh \/ setting[j] = NoValue THEN Default
            ELSE setting[j]]
    BY <1>1, <1>2, <2>1 DEF BaseOf, CalculatorWith, TypeOK
  <2> QED BY <2>2 DEF Register!Store
<1>3. CASE i # "config"
  <2>1. setting' = [setting EXCEPT ![i] = v]
    BY <1>3 DEF Store
  <2>2. \A j \in Items : BaseOf(j) = i => j = i
    BY <1>3 DEF BaseOf
  <2>3. setting' = [j \in Items |->
            IF j = i THEN v
            ELSE IF BaseOf(j) # i THEN setting[j]
            ELSE IF v = NoValue THEN NoValue
            ELSE IF TRUE \/ setting[j] = NoValue THEN Default
            ELSE setting[j]]
    BY <2>1, <2>2 DEF TypeOK
  <2> QED BY <2>3 DEF Register!Store
<1> QED BY <1>2, <1>3

LEMMA UntouchedRegister ==
    ASSUME NEW j \in Calls, Untouched(j)
    PROVE  UNCHANGED <<OpOf(j), StatusOf(j), GotOf(j)>>
BY DEF Untouched, OpOf, StatusOf, GotOf

\* A step of k changes the register's view of k only.
LEMMA StepFrame ==
    ASSUME TypeOK, NEW k \in Calls, ClientStep(k) \/ ServerStep(k)
    PROVE  /\ Op' = [Op EXCEPT ![k] = OpOf(k)']
           /\ Status' = [Status EXCEPT ![k] = StatusOf(k)']
           /\ Got' = [Got EXCEPT ![k] = GotOf(k)']
           /\ ToProvide' = ToProvide
<1>1. \A j \in Calls \ {k} : UNCHANGED <<OpOf(j), StatusOf(j), GotOf(j)>>
  BY StepUntouched, UntouchedRegister
<1>2. mux' = mux
  BY DEF ClientStep, ServerStep, Begin, Dial, EncodeFails, Send, SendFails, Receive,
     ReceiveStream, GiveUp, Handle, HandleWait, WaitReturns, WaitCancelled,
     HandleMonitor, MonitorEnds, Drop, ServerUnchanged
<1> QED BY <1>1, <1>2 DEF Op, Status, Got, ToProvide

LEMMA SameView ==
    ASSUME TypeOK, NEW k \in Calls, ClientStep(k) \/ ServerStep(k),
           UNCHANGED <<setting, OpOf(k), StatusOf(k), GotOf(k)>>
    PROVE  RegisterUnchanged
BY StepFrame DEF RegisterUnchanged, Op, Status, Got

\* What a method that returns does to the status of its call.
LEMMA ReturnStatus ==
    ASSUME TypeOK, NEW k \in Calls, method[k] \in RegisterMethods,
           client[k] # "done", NEW res \in {"ok", "refused", "gaveup"},
           Return(k, res), UNCHANGED <<method, handler>>
    PROVE  StatusOf(k)' = CASE res = "ok" -> "ok"
                            [] res = "refused" -> "refused"
                            [] res = "gaveup" /\ handler[k] = "answered" -> "late"
                            [] res = "gaveup" /\ handler[k] # "answered" -> "abandoned"
BY DEF Return, StatusOf, TypeOK

RegisterStep(k) ==
    \/ Register!Invoke(k) \/ Register!Effect(k) \/ Register!Void(k)
    \/ Register!Answer(k) \/ Register!Refuse(k) \/ Register!Abandon(k)

\* A method that returns answers, refuses or abandons its call.
LEMMA ReturnRefines ==
    ASSUME TypeOK, NEW k \in Calls, CallInv(k),
           ClientStep(k), client[k] # "done",
           NEW res \in {"ok", "refused", "gaveup"}, Return(k, res),
           UNCHANGED <<method, arg, handler, read, setting>>,
           res = "ok" => handler[k] \in {"answered", "panicked"},
           res = "refused" /\ handler[k] \in {"answered", "panicked"} =>
               method[k] \notin DOMAIN Writes
    PROVE  RegisterStep(k) \/ RegisterUnchanged
<1>1. CASE method[k] \notin RegisterMethods
  <2>1. UNCHANGED <<OpOf(k), StatusOf(k), GotOf(k)>>
    BY <1>1 DEF OpOf, StatusOf, GotOf
  <2> QED BY <2>1, SameView
<1>2. CASE method[k] \in RegisterMethods
  <2>1. /\ UNCHANGED <<Op, Got, ToProvide>>
        /\ Status' = [Status EXCEPT ![k] = StatusOf(k)']
    <3>1. UNCHANGED <<OpOf(k), GotOf(k)>>
      BY DEF OpOf, GotOf
    <3> QED BY <3>1, StepFrame DEF Op, Got
  <2>2. Status[k] = StatusOf(k) /\ Op[k] = OpOf(k)
    BY DEF Status, Op
  <2>3. StatusOf(k) = CASE handler[k] = "answered" -> "effective"
                        [] handler[k] = "panicked" -> "void"
                        [] OTHER -> "pending"
    BY <1>2 DEF StatusOf
  <2>4. CASE res = "ok"
    <3>1. StatusOf(k)' = "ok" /\ StatusOf(k) \in {"effective", "void"}
      BY <1>2, <2>3, <2>4, ReturnStatus
    <3>2. Register!Answer(k)
      BY <2>1, <2>2, <3>1 DEF Register!Answer, Register!Become, Op, Status, Got, GotOf
    <3> QED BY <3>2 DEF RegisterStep
  <2>5. CASE res = "refused"
    <3>1. StatusOf(k)' = "refused"
      BY <1>2, <2>5, ReturnStatus
    <3>2. \/ StatusOf(k) = "pending"
          \/ StatusOf(k) \in {"effective", "void"} /\ ~WritesOp(OpOf(k))
      <4>1. OpOf(k) = [method |-> method[k], value |-> arg[k]]
        BY <1>2 DEF OpOf
      <4>2. handler[k] \in {"answered", "panicked"} => ~WritesOp(OpOf(k))
        BY <2>5, <4>1 DEF WritesOp
      <4> QED BY <2>3, <4>2
    <3>3. Register!Refuse(k)
      BY <2>1, <2>2, <3>1, <3>2 DEF Register!Refuse, Register!Become, Op, Status, Got, GotOf
    <3> QED BY <3>3 DEF RegisterStep
  <2>6. CASE res = "gaveup"
    <3>1. \/ StatusOf(k) = "effective" /\ StatusOf(k)' = "late"
          \/ StatusOf(k) \in {"pending", "void"} /\ StatusOf(k)' = "abandoned"
      BY <1>2, <2>3, <2>6, ReturnStatus
    <3>2. Register!Abandon(k)
      BY <2>1, <2>2, <3>1 DEF Register!Abandon, Register!Become, Op, Status, Got, GotOf
    <3> QED BY <3>2 DEF RegisterStep
  <2> QED BY <2>4, <2>5, <2>6
<1> QED BY <1>1, <1>2

\* Entering a method invokes its operation.
LEMMA BeginRefines ==
    ASSUME TypeOK, NEW k \in Calls, CallInv(k), Begin(k)
    PROVE  RegisterStep(k) \/ RegisterUnchanged
<1>1. method[k] = NoMethod /\ NoMethod \notin RegisterMethods
  BY RegisterMethodsUnary DEF Begin, TypeOK
<1>2. handler[k] = "none" /\ read[k] = NoValue
  BY DEF Begin, TypeOK, CallInv, ReadOfHandler
<1>3. client' = [client EXCEPT ![k] = "begun"] /\ UNCHANGED <<handler, read, setting>>
      /\ method'[k] \in CallMethods /\ arg'[k] \in Values \cup {NoValue}
  BY DEF Begin, TypeOK
<1>4. OpOf(k) = NoOp /\ StatusOf(k) = "none" /\ GotOf(k) = NoValue
  BY <1>1 DEF OpOf, StatusOf, GotOf
<1>5. GotOf(k)' = NoValue
  BY <1>2, <1>3 DEF GotOf
<1>6. CASE method'[k] \notin RegisterMethods
  <2>1. OpOf(k)' = NoOp /\ StatusOf(k)' = "none"
    BY <1>6 DEF OpOf, StatusOf, NoOp
  <2> QED BY <1>3, <1>4, <1>5, <2>1, SameView DEF ClientStep
<1>7. CASE method'[k] \in RegisterMethods
  <2>1. StatusOf(k)' = "pending"
    BY <1>2, <1>3, <1>7 DEF StatusOf, TypeOK
  <2>2. OpOf(k)' \in [method : RegisterMethods, value : Values \cup {NoValue}]
    BY <1>3, <1>7 DEF OpOf
  <2>3. /\ Op' = [Op EXCEPT ![k] = OpOf(k)']
        /\ Status' = [Status EXCEPT ![k] = "pending"]
        /\ Got' = Got /\ ToProvide' = ToProvide
    BY <1>4, <1>5, <2>1, StepFrame DEF ClientStep, Got
  <2>4. Register!Invoke(k)
    BY <1>3, <1>4, <2>2, <2>3 DEF Register!Invoke, Register!Become, Op, Status, Got, GotOf
  <2> QED BY <2>4 DEF RegisterStep
<1> QED BY <1>6, <1>7

LEMMA ClientRefines ==
    ASSUME TypeOK, NEW k \in Calls, CallInv(k), ClientStep(k)
    PROVE  RegisterStep(k) \/ RegisterUnchanged
<1> USE DEF TypeOK
<1>1. CASE Begin(k)
  BY <1>1, BeginRefines
<1>2. CASE Dial(k)
  <2>0. handler[k] = "none" /\ client[k] = "begun"
        /\ UNCHANGED <<method, arg, handler, read, setting>>
    BY <1>2 DEF Dial
  <2>1. CASE Return(k, "refused")
    BY <2>0, <2>1, ReturnRefines
  <2>2. CASE client' = [client EXCEPT ![k] = "dialed"]
    <3>1. UNCHANGED <<OpOf(k), StatusOf(k), GotOf(k)>>
      BY <2>0, <2>2 DEF OpOf, StatusOf, GotOf
    <3> QED BY <2>0, <3>1, SameView
  <2> QED BY <1>2, <2>1, <2>2 DEF Dial
<1>3. CASE EncodeFails(k)
  BY <1>3, ReturnRefines DEF EncodeFails
<1>4. CASE Send(k)
  <2>1. client[k] = "dialed" /\ handler[k] = "none" /\ handler'[k] = "queued"
        /\ client'[k] \in {"waiting", "streaming"}
        /\ UNCHANGED <<method, arg, read, setting, result>>
    BY <1>4 DEF Send
  <2>2. UNCHANGED <<OpOf(k), StatusOf(k), GotOf(k)>>
    BY <2>1 DEF OpOf, StatusOf, GotOf
  <2> QED BY <2>1, <2>2, SameView
<1>5. CASE SendFails(k)
  <2>1. CASE method[k] = "WaitChan"
    <3>1. method[k] \notin RegisterMethods
      BY <2>1, RegisterMethodsUnary DEF Streams
    <3>2. UNCHANGED <<OpOf(k), StatusOf(k), GotOf(k), setting>>
      BY <1>5, <3>1 DEF SendFails, OpOf, StatusOf, GotOf
    <3> QED BY <3>2, SameView
  <2>2. CASE method[k] # "WaitChan"
    BY <1>5, <2>2, ReturnRefines DEF SendFails
  <2> QED BY <2>1, <2>2
<1>6. CASE Receive(k)
  <2>1. /\ client[k] = "waiting" /\ handler[k] \in Answers
        /\ UNCHANGED <<method, arg, handler, read, setting>>
    BY <1>6 DEF Receive
  <2>2. CASE Return(k, IF handler[k] = "refused" THEN "refused" ELSE "ok")
    BY <2>1, <2>2, ReturnRefines DEF Answers
  <2>3. CASE method[k] \in Undecodable /\ Return(k, "refused")
    BY <2>1, <2>3, ReturnRefines, WritesDecodable
  <2> QED BY <1>6, <2>2, <2>3 DEF Receive
<1>7. CASE ReceiveStream(k)
  <2>1. method[k] \notin RegisterMethods
    BY <1>7, RegisterMethodsUnary DEF ReceiveStream, CallInv, ClientOfMethod
  <2>2. UNCHANGED <<OpOf(k), StatusOf(k), GotOf(k), setting>>
    BY <1>7, <2>1 DEF ReceiveStream, OpOf, StatusOf, GotOf
  <2> QED BY <2>2, SameView
<1>8. CASE GiveUp(k)
  BY <1>8, ReturnRefines DEF GiveUp
<1> QED BY <1>1, <1>2, <1>3, <1>4, <1>5, <1>6, <1>7, <1>8 DEF ClientStep

\* A handler takes effect, is void, or leaves the register as it is.
LEMMA HandleRefines ==
    ASSUME TypeOK, NEW k \in Calls, CallInv(k), Handle(k)
    PROVE  RegisterStep(k) \/ RegisterUnchanged
<1> USE DEF TypeOK
<1>1. PICK o \in Outcomes(method[k], arg[k]) :
         /\ handler' = [handler EXCEPT ![k] = o]
         /\ IF o = "answered" /\ method[k] \in DOMAIN Writes
            THEN Store(Writes[method[k]], Written(method[k], arg[k]))
            ELSE UNCHANGED setting
         /\ IF o = "answered" /\ method[k] \in DOMAIN Reads
            THEN read' = [read EXCEPT ![k] = setting[Reads[method[k]]]]
            ELSE UNCHANGED read
  BY DEF Handle
<1>a. o \in Answers
  BY OutcomesAreAnswers
<1>2. handler[k] = "queued" /\ UNCHANGED <<client, method, arg, conn, result>>
  BY DEF Handle
<1>3. handler'[k] = o
  BY <1>1
<1>4. CASE method[k] \notin RegisterMethods
  <2>1. UNCHANGED <<OpOf(k), StatusOf(k), GotOf(k), setting>>
    BY <1>1, <1>2, <1>4 DEF OpOf, StatusOf, GotOf, RegisterMethods
  <2> QED BY <2>1, SameView DEF ServerStep
<1>5. CASE method[k] \in RegisterMethods
  <2>1. client[k] = "done" => result[k] = "gaveup"
    BY <1>2 DEF CallInv, AnswerOfHandler, Results, Answers
  <2>2. StatusOf(k) = IF client[k] = "done" THEN "abandoned" ELSE "pending"
    BY <1>2, <1>5, <2>1 DEF StatusOf
  <2>3. StatusOf(k)' = CASE o = "answered" /\ client[k] = "done" -> "late"
                         [] o = "answered" /\ client[k] # "done" -> "effective"
                         [] o = "panicked" /\ client[k] # "done" -> "void"
                         [] OTHER -> StatusOf(k)
    BY <1>2, <1>3, <1>a, <1>5, <2>1, <2>2 DEF StatusOf, Answers
  <2>4. /\ OpOf(k) = [method |-> method[k], value |-> arg[k]]
        /\ OpOf(k)' = OpOf(k)
    BY <1>2, <1>5 DEF OpOf
  <2>5. GotOf(k) = read[k] /\ GotOf(k)' = read'[k]
    BY <1>2, <1>5 DEF GotOf
  <2>6. /\ Op' = Op
        /\ Status' = [Status EXCEPT ![k] = StatusOf(k)']
        /\ Got' = [Got EXCEPT ![k] = read'[k]]
        /\ ToProvide' = ToProvide
    <3>1. /\ Op' = [Op EXCEPT ![k] = OpOf(k)']
          /\ Status' = [Status EXCEPT ![k] = StatusOf(k)']
          /\ Got' = [Got EXCEPT ![k] = GotOf(k)']
          /\ ToProvide' = ToProvide
      BY StepFrame DEF ServerStep
    <3>2. Op' = [Op EXCEPT ![k] = OpOf(k)]
      BY <2>4, <3>1
    <3>3. Op' = Op
      BY <3>2 DEF Op
    <3> QED BY <2>5, <3>1, <3>3
  <2>7. Status[k] = StatusOf(k) /\ Op[k] = OpOf(k) /\ Got[k] = read[k]
    BY <2>5 DEF Status, Op, Got
  <2>8. CASE o = "answered"
    <3>1. /\ Status[k] \in {"pending", "abandoned"}
          /\ Register!Become(k, IF Status[k] = "pending" THEN "effective" ELSE "late")
      BY <2>2, <2>3, <2>6, <2>7, <2>8 DEF Register!Become, Status
    <3>u. ItemOf(Op[k]) = "calculator" => setting["config"] # NoValue
      <4>1. ItemOf(Op[k]) = "calculator" => method[k] \in ChecksHandler
        BY <1>5, <2>4, <2>7 DEF ItemOf, Writes, Reads, ChecksHandler, RegisterMethods
      <4> QED BY <2>8, <4>1, AnsweredHasHandler
    <3>b. Register!Usable(ItemOf(Op[k]))
      BY <3>u DEF Register!Usable, BaseOf
    <3>2. CASE method[k] \in DOMAIN Writes
      <4>1. /\ WritesOp(Op[k]) /\ ItemOf(Op[k]) = Writes[method[k]]
            /\ ValueOf(Op[k]) = Written(method[k], arg[k])
        BY <2>4, <2>7, <3>2 DEF WritesOp, ItemOf, ValueOf
      <4>2. Store(Writes[method[k]], Written(method[k], arg[k])) /\ read' = read
        BY <1>1, <2>8, <3>2, WritesDecodable
      <4>3. Got' = Got
        BY <2>6, <2>7, <4>2 DEF Got
      <4>4. Register!Store(ItemOf(Op[k]), ValueOf(Op[k]))
        BY <3>2, <4>1, <4>2, WritesItems, StoreRefines
      <4>5. Register!Effect(k)
        BY <2>6, <3>1, <3>b, <4>1, <4>3, <4>4 DEF Register!Effect, Op, Status, Got, GotOf
      <4> QED BY <4>5 DEF RegisterStep
    <3>3. CASE method[k] \notin DOMAIN Writes
      <4>1. method[k] \in DOMAIN Reads
        BY <1>5, <3>3 DEF RegisterMethods
      <4>2. ~WritesOp(Op[k]) /\ ItemOf(Op[k]) = Reads[method[k]]
        BY <2>4, <2>7, <3>3 DEF WritesOp, ItemOf
      <4>3. setting' = setting /\ read'[k] = setting[Reads[method[k]]]
        BY <1>1, <2>8, <3>3, <4>1
      <4>4. Got' = [Got EXCEPT ![k] = setting[ItemOf(Op[k])]]
        BY <2>6, <4>2, <4>3
      <4>5. Register!Effect(k)
        BY <2>6, <3>1, <3>b, <4>2, <4>3, <4>4 DEF Register!Effect, Op, Status, Got, GotOf
      <4> QED BY <4>5 DEF RegisterStep
    <3> QED BY <3>2, <3>3
  <2>9. CASE o # "answered"
    <3>1. setting' = setting /\ Got' = Got
      <4>1. setting' = setting /\ read' = read
        BY <1>1, <2>9
      <4>2. Got' = [Got EXCEPT ![k] = Got[k]]
        BY <2>6, <2>7, <4>1
      <4> QED BY <4>1, <4>2 DEF Got
    <3>2. CASE o = "panicked" /\ client[k] # "done"
      <4>1. Status[k] = "pending" /\ Register!Become(k, "void")
        BY <2>2, <2>3, <2>6, <2>7, <3>2 DEF Register!Become, Status
      <4>2. Register!Void(k)
        BY <2>6, <3>1, <4>1 DEF Register!Void, Op, Status, Got, GotOf
      <4> QED BY <4>2 DEF RegisterStep
    <3>3. CASE ~(o = "panicked" /\ client[k] # "done")
      <4>1. StatusOf(k)' = StatusOf(k)
        BY <2>3, <2>9, <3>3
      <4>2. Status' = Status
        BY <2>6, <2>7, <4>1 DEF Status
      <4> QED BY <2>6, <3>1, <4>2 DEF RegisterUnchanged
    <3> QED BY <3>2, <3>3
  <2> QED BY <2>8, <2>9
<1> QED BY <1>4, <1>5

\* The handlers of the streams are none of the register's business, and a
\* request that is dropped leaves its call abandoned.
LEMMA ServerRefines ==
    ASSUME TypeOK, NEW k \in Calls, CallInv(k), ServerStep(k)
    PROVE  RegisterStep(k) \/ RegisterUnchanged
<1> USE DEF TypeOK, CallInv
<1>1. CASE Handle(k)
  BY <1>1, HandleRefines
<1>2. CASE HandleWait(k) \/ HandleMonitor(k) \/ WaitReturns(k) \/ WaitCancelled(k)
           \/ MonitorEnds(k)
  <2>1. method[k] \in Streams /\ ServerUnchanged
    BY <1>2 DEF HandleWait, HandleMonitor, WaitReturns, WaitCancelled, MonitorEnds,
       HandlerOfMethod, Streams
  <2>2. method[k] \notin RegisterMethods
    BY <2>1, RegisterMethodsUnary
  <2>3. UNCHANGED <<OpOf(k), StatusOf(k), GotOf(k), setting>>
    BY <2>1, <2>2 DEF ServerUnchanged, OpOf, StatusOf, GotOf
  <2> QED BY <2>3, SameView
<1>3. CASE Drop(k)
  <2>1. handler[k] = "queued" /\ handler'[k] = "gone" /\ client[k] = "done"
        /\ ServerUnchanged
    BY <1>3 DEF Drop
  <2>2. UNCHANGED <<OpOf(k), StatusOf(k), GotOf(k), setting>>
    BY <2>1 DEF ServerUnchanged, OpOf, StatusOf, GotOf
  <2> QED BY <2>2, SameView
<1> QED BY <1>1, <1>2, <1>3 DEF ServerStep

\* Handlers that die with the process leave the status of their calls.
LEMMA ExitRefines ==
    ASSUME TypeOK, Exit PROVE RegisterUnchanged
<1>1. ASSUME NEW k \in Calls
      PROVE  UNCHANGED <<OpOf(k), StatusOf(k), GotOf(k)>>
  <2>1. /\ handler'[k] = handler[k]
           \/ {handler[k], handler'[k]} \cap {"answered", "panicked"} = {}
        /\ UNCHANGED <<client, method, arg, read, result>>
    BY DEF Exit, TypeOK
  <2> QED BY <2>1 DEF OpOf, StatusOf, GotOf
<1>2. setting' = setting /\ ToProvide' = ToProvide
  BY DEF Exit, ToProvide
<1> QED BY <1>1, <1>2 DEF RegisterUnchanged, Op, Status, Got

\* The process stores a setting of its own.
LEMMA StartRefines ==
    ASSUME TypeOK, StartMux \/ StoreConfig
    PROVE  Register!Provide("fps") \/ Register!Provide("config")
<1>1. UNCHANGED <<Op, Status, Got>>
  BY DEF StartMux, StoreConfig, callVars, Op, Status, Got, OpOf, StatusOf, GotOf
<1>2. CASE StartMux
  <2>1. "fps" \in ToProvide /\ ToProvide' = ToProvide \ {"fps"}
    BY <1>2 DEF StartMux, ToProvide
  <2>2. Register!Store("fps", Default)
    BY <1>2, StoreRefines DEF StartMux, Items
  <2>3. Register!Provide("fps")
    BY <1>1, <2>1, <2>2 DEF Register!Provide, Op, Status, Got, GotOf
  <2> QED BY <2>3
<1>3. CASE StoreConfig
  <2>1. "config" \in ToProvide /\ ToProvide' = ToProvide \ {"config"}
    BY <1>3 DEF StoreConfig, ToProvide
  <2>2. \E v \in {Default, NoValue} : Register!Store("config", v)
    BY <1>3, StoreRefines DEF StoreConfig, Items
  <2>3. Register!Provide("config")
    BY <1>1, <2>1, <2>2 DEF Register!Provide, Op, Status, Got, GotOf
  <2> QED BY <2>3
<1> QED BY <1>2, <1>3

\* The control socket's settings are the abstract register's: a call takes
\* effect at most once, by the time it is answered well, never when refused;
\* the process stores its FPS fraction and its config once each; and with a
\* config, its calculator goes.
THEOREM CallsRefineRegister == Spec => RegisterSpec
<1> USE DEF Op, Status, Got, GotOf
<1>1. Init => Register!RegInit
  BY RegisterMethodsUnary DEF Init, Register!RegInit, OpOf, StatusOf, ToProvide
<1>2. IndInv /\ [Next]_vars => [Register!RegNext]_(Register!regVars)
  <2> SUFFICES ASSUME IndInv, [Next]_vars
               PROVE  \/ \E k \in Calls : RegisterStep(k)
                      \/ \E i \in Items : Register!Provide(i)
                      \/ RegisterUnchanged
    BY Zenon DEF RegisterStep, RegisterUnchanged, Register!RegNext, Register!regVars
  <2>t. TypeOK /\ \A k \in Calls : CallInv(k)
    BY DEF IndInv
  <2>1. ASSUME NEW k \in Calls, ClientStep(k) \/ ServerStep(k)
        PROVE  RegisterStep(k) \/ RegisterUnchanged
    BY <2>t, <2>1, ClientRefines, ServerRefines
  <2>2. CASE StartMux \/ StoreConfig
    <3>1. "fps" \in Items /\ "config" \in Items
      BY DEF Items
    <3> QED BY <2>t, <2>2, <3>1, StartRefines
  <2>3. CASE StopMux \/ Terminated \/ UNCHANGED vars
    BY <2>3 DEF StopMux, Terminated, vars, callVars, RegisterUnchanged,
       OpOf, StatusOf, ToProvide
  <2>4. CASE Exit
    BY <2>t, <2>4, ExitRefines
  <2> QED BY <2>1, <2>2, <2>3, <2>4 DEF Next
<1> QED BY <1>1, <1>2, CallsInvariant, PTL DEF Spec, RegisterSpec, Register!RegSpec
=============================================================================
