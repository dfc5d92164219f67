------------------------- MODULE FfstreamctlProofs -------------------------
(***************************************************************************)
(* Proofs about Ffstreamctl for every set of processes and of command      *)
(* lines: what its processes do to the server is what ControlCall allows,  *)
(* so that ControlCall's theorems hold of them, and what ends in success   *)
(* was done.                                                               *)
(***************************************************************************)
EXTENDS Ffstreamctl, ControlCallProofs

ctl == <<vars, ctlVars>>

\* A process that has not started has made no call, and one that sets
\* something sends what was typed.
ProcessInv(k) ==
    /\ exit[k] = "none" => client[k] = "idle"
    /\ method[k] \in DOMAIN Writes => arg[k] = line[k].args

\* Why a process that ended with success may.
DoneInv(k) ==
    exit[k] = "zero" =>
        \/ client[k] = "idle" /\ OnlyPrints(line[k])
        \/ handler[k] # "none" /\ method[k] = "Monitor"
        \/ handler[k] \in {"answered", "panicked"}

CtlInv ==
    /\ DOMAIN line = Calls /\ DOMAIN exit = Calls
    /\ \A k \in Calls : ProcessInv(k) /\ DoneInv(k)
    /\ TypedIsStored

-----------------------------------------------------------------------------
\* A line whose arguments are accepted is sent as it was typed: no number
\* loses its upper bits.
LEMMA SentAsTyped ==
    ASSUME NEW l \in CommandLines, Converts(l)
    PROVE  Request(l) = l.args
<1>1. l.args \in Seq(Int \cup {Text, Event}) /\ Len(l.args) \in Nat
  BY LinesAssumption
<1>2. ASSUME NEW i \in 1..Len(l.args)
      PROVE  Carried(CommandOf(l).args[i], l.args[i]) = l.args[i]
  <2>1. PICK kind : kind = CommandOf(l).args[i]
    OBVIOUS
  <2>2. PICK t : t = l.args[i]
    OBVIOUS
  <2>3. Accepts(kind, t)
    BY <2>1, <2>2 DEF Converts
  <2>4. CASE kind = "u32"
    <3>1. t \in 0..3
      BY <2>3, <2>4 DEF Accepts, Max32
    <3>2. t % 4 = t
      BY <3>1
    <3> QED
      BY <2>1, <2>2, <2>4, <3>2 DEF Carried, Max32
  <2>5. CASE kind # "u32"
    BY <2>1, <2>2, <2>5 DEF Carried
  <2> QED
    BY <2>4, <2>5
<1>3. Request(l) = [i \in 1..Len(l.args) |-> l.args[i]]
  BY <1>2, Zenon DEF Request
<1> QED
  BY <1>1, <1>3

\* Each step of the processes is one of the calls, or leaves them alone.
LEMMA CtlStepIsCall == [CtlNext]_ctl => [Next]_vars
<1> SUFFICES ASSUME [CtlNext]_ctl PROVE [Next]_vars
  OBVIOUS
<1>1. CASE \E k \in Calls : Run(k) \/ CallStep(k)
  BY <1>1 DEF Run, CallStep, Next, ClientStep
<1>2. CASE \E k \in Calls : Usage(k) \/ Help(k) \/ ConversionPanics(k) \/ Finish(k)
  BY <1>2 DEF Usage, Help, ConversionPanics, Finish
<1>3. CASE ServerProcess
  BY <1>3 DEF ServerProcess, Next
<1>4. CASE AllEnded \/ UNCHANGED ctl
  BY <1>4 DEF AllEnded, ctl
<1> QED
  BY <1>1, <1>2, <1>3, <1>4 DEF CtlNext

\* What the processes do through their calls is a behaviour of ControlCall,
\* whose theorems therefore hold of them (client.go, commands.go).
THEOREM ProcessesCall == CtlSpec => Spec
<1>1. CtlInit => Init
  BY DEF CtlInit
<1> QED
  BY <1>1, CtlStepIsCall, PTL DEF CtlSpec, Spec, ctl

-----------------------------------------------------------------------------
LEMMA CtlInitInv == CtlInit => CtlInv
BY NoMethodUnwritten
   DEF CtlInit, Init, CtlInv, ProcessInv, DoneInv, TypedIsStored

\* A process that starts now had no part in what is stored.
LEMMA StartedInv ==
    ASSUME IndInv, CtlInv, NEW k \in Calls, NEW l, Typed(k, l),
           UNCHANGED <<handler, setting>>,
           UNCHANGED <<client, method, arg>>
           \/ ( /\ client' = [client EXCEPT ![k] = "begun"]
                /\ \E m : method' = [method EXCEPT ![k] = m]
                /\ arg' = arg \/ \E v : arg' = [arg EXCEPT ![k] = v] ),
           NEW how, Ends(k, how), how # "none",
           method'[k] \in DOMAIN Writes => arg'[k] = l.args,
           how = "zero" => client'[k] = "idle" /\ OnlyPrints(l)
    PROVE  CtlInv'
<1>1. /\ DOMAIN line = Calls /\ DOMAIN exit = Calls
      /\ DOMAIN client = Calls /\ DOMAIN method = Calls /\ DOMAIN arg = Calls
  BY DEF CtlInv, IndInv, TypeOK
<1>2. method[k] = NoMethod
  BY DEF Typed, CtlInv, ProcessInv, IndInv, TypeOK
<1>3. line' = [line EXCEPT ![k] = l] /\ exit' = [exit EXCEPT ![k] = how]
  BY DEF Typed, Ends
<1>4. ASSUME NEW j \in Calls, j # k
      PROVE  /\ line'[j] = line[j] /\ exit'[j] = exit[j] /\ client'[j] = client[j]
             /\ method'[j] = method[j] /\ arg'[j] = arg[j]
  BY <1>1, <1>3, <1>4
<1>5. ASSUME NEW j \in Calls PROVE ProcessInv(j)' /\ DoneInv(j)'
  <2>1. CASE j = k
    BY <1>1, <1>3, <2>1 DEF ProcessInv, DoneInv, OnlyPrints
  <2>2. CASE j # k
    BY <1>4, <2>2 DEF CtlInv, ProcessInv, DoneInv, OnlyPrints
  <2> QED
    BY <2>1, <2>2
<1>6. TypedIsStored'
  <2> SUFFICES ASSUME NEW i \in Items, setting[i] \notin {NoValue, Default}
               PROVE  \E j \in Calls :
                         /\ method'[j] \in DOMAIN Writes /\ Writes[method'[j]] = i
                         /\ setting'[i] = line'[j].args
    BY DEF TypedIsStored
  <2>1. PICK j \in Calls : /\ method[j] \in DOMAIN Writes /\ Writes[method[j]] = i
                           /\ setting[i] = line[j].args
    BY DEF CtlInv, TypedIsStored
  <2>2. j # k
    BY <1>2, <2>1, NoMethodUnwritten
  <2> QED
    BY <1>4, <2>1, <2>2
<1> QED
  BY <1>1, <1>3, <1>5, <1>6 DEF CtlInv

LEMMA StartInv ==
    ASSUME IndInv, CtlInv, NEW k \in Calls,
           Usage(k) \/ Help(k) \/ ConversionPanics(k) \/ Run(k)
    PROVE  CtlInv'
<1>1. CASE Usage(k) \/ ConversionPanics(k)
  <2>1. PICK l \in CommandLines : Typed(k, l) /\ Ends(k, "panic") /\ UNCHANGED vars
    BY <1>1 DEF Usage, ConversionPanics
  <2>2. UNCHANGED <<handler, setting, client, method, arg>>
    BY <2>1 DEF vars, callVars
  <2>3. method'[k] \notin DOMAIN Writes
    BY <2>1, <2>2, NoMethodUnwritten DEF Typed, CtlInv, ProcessInv, IndInv, TypeOK
  <2> QED
    BY <2>1, <2>2, <2>3, StartedInv
<1>2. CASE Help(k)
  <2>1. PICK l \in CommandLines : Typed(k, l) /\ OnlyPrints(l) /\ Ends(k, "zero") /\ UNCHANGED vars
    BY <1>2 DEF Help
  <2>2. UNCHANGED <<handler, setting, client, method, arg>>
    BY <2>1 DEF vars, callVars
  <2>3. method'[k] \notin DOMAIN Writes /\ client'[k] = "idle"
    BY <2>1, <2>2, NoMethodUnwritten DEF Typed, CtlInv, ProcessInv, IndInv, TypeOK
  <2> QED
    BY <2>1, <2>2, <2>3, StartedInv
<1>3. CASE Run(k)
  <2>1. PICK l \in CommandLines :
            /\ Typed(k, l) /\ Converts(l) /\ Ends(k, "running") /\ Begin(k)
            /\ method'[k] \in DOMAIN Writes => arg'[k] = Request(l)
    BY <1>3 DEF Run
  <2>2. /\ client' = [client EXCEPT ![k] = "begun"]
        /\ \E m : method' = [method EXCEPT ![k] = m]
        /\ arg' = arg \/ \E v : arg' = [arg EXCEPT ![k] = v]
    BY <2>1 DEF Begin
  <2>3. UNCHANGED <<handler, setting>>
    BY <2>1 DEF Begin
  <2>4. method'[k] \in DOMAIN Writes => arg'[k] = l.args
    BY <2>1, SentAsTyped
  <2>5. "running" # "none" /\ "running" # "zero"
    OBVIOUS
  <2> QED
    BY <2>1, <2>2, <2>3, <2>4, <2>5, StartedInv, Zenon
<1> QED
  BY <1>1, <1>2, <1>3

\* Storing a setting may clear others, or put what is brought along in place.
LEMMA StoreChanges ==
    ASSUME TypeOK, NEW i \in Items, NEW v, Store(i, v), NEW j \in Items
    PROVE  \/ setting'[j] \in {setting[j], NoValue, Default}
           \/ j = i /\ setting'[j] = v
<1>1. CASE i = "config"
  <2>1. PICK fresh \in BOOLEAN :
           setting' = [setting EXCEPT !["config"] = v,
                                      !["calculator"] = CalculatorWith(v, fresh)]
    BY <1>1 DEF Store
  <2>2. CalculatorWith(v, fresh) \in {setting["calculator"], NoValue, Default}
    BY DEF CalculatorWith
  <2> QED
    BY <1>1, <2>1, <2>2 DEF TypeOK
<1>2. CASE i # "config"
  BY <1>2 DEF Store, TypeOK
<1> QED
  BY <1>1, <1>2

\* What a handler leaves in a setting: what was there, what is brought along,
\* or the argument of the call that writes it.
Leaves(k, i) ==
    \/ setting'[i] \in {setting[i], NoValue, Default}
    \/ /\ method[k] \in DOMAIN Writes /\ Writes[method[k]] = i
       /\ setting'[i] = arg[k]

\* What a call that goes on leaves of the others and of its own past.
LEMMA CallFrame ==
    ASSUME IndInv, NEW k \in Calls, client[k] # "idle", ClientStep(k) \/ ServerStep(k)
    PROVE  /\ UNCHANGED <<method, arg>>
           /\ \A j \in Calls :
                 /\ client[j] = "idle" => client'[j] = "idle"
                 /\ handler[j] # "none" => handler'[j] # "none"
                 /\ handler[j] \in {"answered", "panicked"} => handler'[j] = handler[j]
           /\ \A i \in Items : Leaves(k, i)
<1>0. setting' = setting => \A i \in Items : Leaves(k, i)
  BY DEF Leaves
<1>1. DOMAIN client = Calls /\ DOMAIN handler = Calls
  BY DEF IndInv, TypeOK
<1>2. ~Begin(k)
  BY DEF Begin
<1>3. CASE ClientStep(k) /\ ~Send(k)
  <2>1. UNCHANGED <<method, arg, handler, setting>>
    BY <1>2, <1>3 DEF ClientStep, Dial, EncodeFails, SendFails, Receive, ReceiveStream, GiveUp
  <2>2. \E s : client' = [client EXCEPT ![k] = s]
    BY <1>2, <1>3 DEF ClientStep, Dial, EncodeFails, SendFails, Receive, ReceiveStream, GiveUp,
       Return
  <2> QED
    BY <1>0, <1>1, <2>1, <2>2
<1>4. CASE Send(k)
  <2>1. handler[k] = "none"
    BY <1>4 DEF Send, IndInv, TypeOK
  <2> QED
    BY <1>0, <1>1, <1>4, <2>1 DEF Send
<1>5. CASE Handle(k)
  <2>1. PICK o \in Outcomes(method[k], arg[k]) :
           /\ handler' = [handler EXCEPT ![k] = o]
           /\ IF o = "answered" /\ method[k] \in DOMAIN Writes
              THEN Store(Writes[method[k]], Written(method[k], arg[k]))
              ELSE UNCHANGED setting
    BY <1>5 DEF Handle
  <2>2. o # "none"
    BY OutcomesAreAnswers DEF Answers
  <2>3. handler[k] = "queued" /\ UNCHANGED <<client, method, arg>>
    BY <1>5 DEF Handle
  <2>4. ASSUME NEW i \in Items PROVE Leaves(k, i)
    <3>1. CASE o = "answered" /\ method[k] \in DOMAIN Writes
      <4>1. Writes[method[k]] \in Items /\ Written(method[k], arg[k]) \in {arg[k], NoValue}
        BY <3>1, WritesItems DEF Written
      <4>2. \/ setting'[i] \in {setting[i], NoValue, Default}
            \/ i = Writes[method[k]] /\ setting'[i] = Written(method[k], arg[k])
        BY <2>1, <3>1, <4>1, StoreChanges DEF IndInv
      <4> QED
        BY <3>1, <4>1, <4>2 DEF Leaves
    <3>2. CASE ~(o = "answered" /\ method[k] \in DOMAIN Writes)
      BY <1>0, <2>1, <3>2
    <3> QED
      BY <3>1, <3>2
  <2> QED
    BY <1>1, <2>1, <2>2, <2>3, <2>4
<1>6. CASE ServerStep(k) /\ ~Handle(k)
  <2>1. UNCHANGED <<method, arg, client, setting>>
    BY <1>6 DEF ServerStep, HandleWait, WaitReturns, WaitCancelled, HandleMonitor, MonitorEnds,
       Drop, ServerUnchanged
  <2>2. /\ handler[k] \in {"queued", "blocked", "attached"}
        /\ \E s : handler' = [handler EXCEPT ![k] = s] /\ s # "none"
    BY <1>6 DEF ServerStep, HandleWait, WaitReturns, WaitCancelled, HandleMonitor, MonitorEnds,
       Drop
  <2> QED
    BY <1>0, <1>1, <2>1, <2>2
<1> QED
  BY <1>3, <1>4, <1>5, <1>6

LEMMA GoOnInv ==
    ASSUME IndInv, CtlInv, UNCHANGED ctlVars, UNCHANGED <<method, arg>>,
           \A j \in Calls :
              /\ client[j] = "idle" => client'[j] = "idle"
              /\ handler[j] # "none" => handler'[j] # "none"
              /\ handler[j] \in {"answered", "panicked"} => handler'[j] = handler[j],
           \A i \in Items :
              \/ setting'[i] \in {setting[i], NoValue, Default}
              \/ \E k \in Calls : Leaves(k, i)
    PROVE  CtlInv'
<1>1. UNCHANGED <<line, exit>>
  BY DEF ctlVars
<1>2. ASSUME NEW j \in Calls PROVE ProcessInv(j)' /\ DoneInv(j)'
  BY <1>1 DEF CtlInv, ProcessInv, DoneInv, OnlyPrints
<1>3. TypedIsStored'
  <2> SUFFICES ASSUME NEW i \in Items, setting'[i] \notin {NoValue, Default}
               PROVE  \E j \in Calls :
                         /\ method[j] \in DOMAIN Writes /\ Writes[method[j]] = i
                         /\ setting'[i] = line[j].args
    BY <1>1 DEF TypedIsStored
  <2>1. CASE setting'[i] = setting[i]
    BY <2>1 DEF CtlInv, TypedIsStored
  <2>2. CASE setting'[i] # setting[i]
    <3>1. PICK k \in Calls : Leaves(k, i)
      BY <2>2
    <3>2. /\ method[k] \in DOMAIN Writes /\ Writes[method[k]] = i
          /\ setting'[i] = arg[k]
      BY <2>2, <3>1 DEF Leaves
    <3> QED
      BY <3>2 DEF CtlInv, ProcessInv
  <2> QED
    BY <2>1, <2>2
<1> QED
  BY <1>1, <1>2, <1>3 DEF CtlInv

LEMMA FinishInv ==
    ASSUME IndInv, CtlInv, NEW k \in Calls, Finish(k) PROVE CtlInv'
<1>1. UNCHANGED <<line, client, method, arg, handler, setting>> /\ DOMAIN exit = Calls
  BY DEF Finish, vars, callVars, CtlInv
<1>2. exit[k] = "running" /\ \E how \in {"zero", "panic"} : exit' = [exit EXCEPT ![k] = how]
  BY DEF Finish, Ends
<1>3. ASSUME exit'[k] = "zero"
      PROVE  (handler[k] # "none" /\ method[k] = "Monitor")
             \/ handler[k] \in {"answered", "panicked"}
  <2>1. Answered(k)
    BY <1>1, <1>3 DEF Finish, Ends
  <2>2. result[k] = "ok" => handler[k] \in {"answered", "panicked"}
    BY DEF IndInv, CallInv, AnswerOfHandler
  <2> QED
    BY <2>1, <2>2 DEF Answered
<1>4. ASSUME NEW j \in Calls PROVE ProcessInv(j)' /\ DoneInv(j)'
  <2>1. CASE j = k
    BY <1>1, <1>2, <1>3, <2>1 DEF CtlInv, ProcessInv, DoneInv, OnlyPrints
  <2>2. CASE j # k
    BY <1>1, <1>2, <2>2 DEF CtlInv, ProcessInv, DoneInv, OnlyPrints
  <2> QED
    BY <2>1, <2>2
<1>5. TypedIsStored'
  BY <1>1 DEF CtlInv, TypedIsStored
<1> QED
  BY <1>1, <1>2, <1>4, <1>5 DEF CtlInv

LEMMA CtlStepInv == IndInv /\ CtlInv /\ [CtlNext]_ctl => CtlInv'
<1> SUFFICES ASSUME IndInv, CtlInv, [CtlNext]_ctl PROVE CtlInv'
  OBVIOUS
<1>1. CASE \E k \in Calls : Usage(k) \/ Help(k) \/ ConversionPanics(k) \/ Run(k)
  BY <1>1, StartInv
<1>2. CASE \E k \in Calls : Finish(k)
  BY <1>2, FinishInv
<1>3. CASE \E k \in Calls : CallStep(k)
  <2>1. PICK k \in Calls : CallStep(k)
    BY <1>3
  <2> QED
    BY <2>1, CallFrame, GoOnInv DEF CallStep
<1>4. CASE ServerProcess
  <2>1. UNCHANGED ctlVars /\ UNCHANGED <<method, arg, client>>
    BY <1>4 DEF ServerProcess, StartMux, StoreConfig, StopMux, Exit, callVars
  <2>2. ASSUME NEW j \in Calls
        PROVE  /\ handler[j] # "none" => handler'[j] # "none"
               /\ handler[j] \in {"answered", "panicked"} => handler'[j] = handler[j]
    BY <1>4 DEF ServerProcess, StartMux, StoreConfig, StopMux, Exit, callVars
  <2>3. ASSUME NEW i \in Items PROVE setting'[i] \in {setting[i], NoValue, Default}
    <3>1. "fps" \in Items /\ "config" \in Items
      BY DEF Items
    <3>2. CASE StartMux
      <4>1. Store("fps", Default)
        BY <3>2 DEF StartMux
      <4> QED
        BY <3>1, <4>1, StoreChanges DEF IndInv
    <3>3. CASE StoreConfig
      <4>1. PICK c \in {Default, NoValue} : Store("config", c)
        BY <3>3 DEF StoreConfig
      <4> QED
        BY <3>1, <4>1, StoreChanges DEF IndInv
    <3>4. CASE StopMux \/ Exit
      BY <3>4 DEF StopMux, Exit
    <3> QED
      BY <1>4, <3>2, <3>3, <3>4 DEF ServerProcess
  <2> QED
    BY <2>1, <2>2, <2>3, GoOnInv
<1>5. CASE AllEnded \/ UNCHANGED ctl
  <2>1. UNCHANGED <<line, exit, client, method, arg, handler, setting>>
    BY <1>5 DEF AllEnded, ctl, ctlVars, vars, callVars
  <2> QED
    BY <2>1 DEF CtlInv, ProcessInv, DoneInv, OnlyPrints, TypedIsStored
<1> QED
  BY <1>1, <1>2, <1>3, <1>4, <1>5 DEF CtlNext

\* The inductive invariant holds, on top of ControlCall's.
THEOREM CtlInvariance == CtlSpec => [](IndInv /\ CtlInv)
<1>1. CtlSpec => []IndInv
  BY ProcessesCall, CallsInvariant, PTL
<1>2. CtlInit => CtlInv
  BY CtlInitInv
<1>3. IndInv /\ CtlInv /\ [CtlNext]_ctl => CtlInv'
  BY CtlStepInv
<1> QED
  BY <1>1, <1>2, <1>3, PTL DEF CtlSpec, ctl

\* Every success of ffstreamctl is a printed text, a monitor whose request was
\* sent, or a call whose handler did what it was asked or panicked
\* (commands.go).
THEOREM SuccessMeansDone == CtlSpec => []ExitZeroMeansDone
<1>1. CtlInv => ExitZeroMeansDone
  BY DEF CtlInv, DoneInv, ExitZeroMeansDone
<1> QED
  BY <1>1, CtlInvariance, PTL

\* What the server holds and did not bring along was typed for it, and no
\* number of it was cut on the way, whoever else types at the same time and
\* whatever config takes a calculator's place (commands.go, client.go,
\* ffstream.go).
THEOREM StoredAsTyped == CtlSpec => []TypedIsStored
<1>1. CtlInv => TypedIsStored
  BY DEF CtlInv
<1> QED
  BY <1>1, CtlInvariance, PTL

\* The settings ffstreamctl reads and writes are the abstract register's: with
\* a config, its calculator goes.
THEOREM ProcessesRefineRegister == CtlSpec => RegisterSpec
BY ProcessesCall, CallsRefineRegister, PTL
=============================================================================
