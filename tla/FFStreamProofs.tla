--------------------------- MODULE FFStreamProofs ---------------------------
(***************************************************************************)
(* The safety invariants of FFStream for every set of clients, every set   *)
(* of command lines and auto-bit-rate configs, every ladder length and     *)
(* every capacity of the error channel.                                    *)
(***************************************************************************)
EXTENDS FFStream, TLAPS

\* Before Start evaluates the ladder, and after its goroutines were waited for.
BeforeLoop == {"new", "adding", "start", "newMux", "setABR", "switch", "range"}
AfterWait == {"serve", "waitForStart", "wait"}

\* A handler past its check of the auto-bit-rate handler is the calculator's.
CheckedIsSetCalculator ==
    \A c \in Clients :
        at[c] = "checked" => req[c].op = "SetVideoAutoBitRateCalculator"

\* From Start's own store on, a nil handler is a client's doing.
AbrOwner ==
    /\ pc \in {"range", "spawn"} => cfg.abr # NoABR
    /\ pc \in {"switch", "range"} /\ cfg.abr # NoABR /\ abr = NoABR
         => abrBy = "client"

\* Which goroutines exist, and what senderKey holds, at every iteration.
LoopProgress ==
    /\ next <= Len(ladder) + 1
    /\ pc \in BeforeLoop => next = 1 /\ ladder = <<>>
    /\ pc \in AfterWait \cup {"wgWait"} => next = Len(ladder) + 1
    /\ next > 1 => senderKey = ladder[next - 1]
    /\ \A i \in Rungs : rung[i] = "none" <=> i >= next
    /\ pc \in BeforeLoop \cup {"spawn"} => bypass = "none"

\* A goroutine copies senderKey only from iterations that have happened, and
\* copies all of it before it is done.
CopiesOfSenderKey ==
    \A i \in Rungs, f \in Fields :
        /\ key[i][f] # Unread =>
             \E j \in i..(next - 1) : key[i][f] = ladder[j][f]
        /\ rung[i] = "done" /\ CreatesOutputs => key[i][f] # Unread

\* The pipeline is served only after the goroutines were waited for.
ServedAfterWait ==
    /\ pc \in AfterWait => PreinitDone
    /\ serve # "off" => PreinitDone /\ pc \notin BeforeLoop \cup {"spawn", "wgWait"}

IndInv ==
    /\ TypeOK
    /\ LockerHeldByHandler
    /\ CheckedIsSetCalculator
    /\ CheckedHandlerStays
    /\ AbrOwner
    /\ CrashOnlyByClient
    /\ LoopProgress
    /\ CopiesOfSenderKey
    /\ ServedAfterWait

-----------------------------------------------------------------------------
\* What the three groups of actions leave alone.

\* A handler touches only the mux and the control socket's own state.
LEMMA ClientFrame ==
    ASSUME NEW c \in Clients,
           Call(c) \/ WaitChanCancelled(c) \/ Lock(c) \/ Handle(c)
    PROVE  UNCHANGED <<mainVars, loopVars, goVars, runVars>>
<1> USE DEF mainVars, loopVars, goVars, runVars, Answer
<1>1. CASE Call(c) \/ WaitChanCancelled(c) \/ Lock(c)
  BY <1>1 DEF Call, WaitChanCancelled, Lock
<1>2. CASE Handle(c)
  <2>1. CASE Read(c) \/ GetAutoBitRateCalculator(c)
    BY <2>1 DEF Read, GetAutoBitRateCalculator
  <2>2. CASE SetAutoBitRateVideoConfig(c)
    BY <2>2 DEF SetAutoBitRateVideoConfig
  <2>3. CASE CheckAutoBitRateHandler(c) \/ SetAutoBitRateCalculator(c)
    BY <2>3 DEF CheckAutoBitRateHandler, SetAutoBitRateCalculator
  <2>4. CASE SetFPSFraction(c) \/ SwitchOutputByProps(c)
    BY <2>4 DEF SetFPSFraction, SwitchOutputByProps
  <2>5. CASE GetCurrentOutput(c) \/ GetStats(c) \/ WaitChan(c) \/ WaitChanReturns(c)
    BY <2>5 DEF GetCurrentOutput, GetStats, WaitChan, WaitChanReturns
  <2>6. CASE End(c)
    BY <2>6 DEF End, stopTranscodingFunc
  <2> QED BY <1>2, <2>1, <2>2, <2>3, <2>4, <2>5, <2>6 DEF Handle
<1> QED BY <1>1, <1>2

\* Start's goroutines touch neither main's state nor the control socket's; of
\* the mux they only create outputs.
LEMMA BackgroundFrame ==
    ASSUME Background
    PROVE  UNCHANGED <<mainVars, loopVars, mux, abr, abrBy, calc, fps, current,
                       clientVars>>
<1> USE DEF mainVars, loopVars, muxVars, clientVars
<1>1. ASSUME NEW i \in Rungs,
             CreateOutput(i) \/ \E f \in Fields : ReadSenderKey(i, f)
      PROVE  UNCHANGED <<mainVars, loopVars, mux, abr, abrBy, calc, fps,
                         current, clientVars>>
  BY <1>1 DEF CreateOutput, ReadSenderKey
<1>2. CASE CreateBypass BY <1>2 DEF CreateBypass
<1>3. CASE ServeFail \/ ServeSend \/ ServeEnd
  BY <1>3 DEF ServeFail, ServeSend, ServeEnd
<1>4. CASE WatcherSelect \/ WatcherCancel
  BY <1>4 DEF WatcherSelect, WatcherCancel
<1>5. CASE MuxStarts \/ MuxStops BY <1>5 DEF MuxStarts, MuxStops
<1> QED BY <1>1, <1>2, <1>3, <1>4, <1>5 DEF Background

\* main never touches the control socket's state, and its flags never change.
LEMMA MainFrame ==
    ASSUME Main
    PROVE  UNCHANGED <<cfg, fps, key, clientVars>>
<1> USE DEF loopVars, muxVars, goVars, clientVars, mainVars, StartFails
<1>1. CASE Listen \/ AddInput \/ AddOutputTemplate \/ Configured
  BY <1>1 DEF Listen, AddInput, AddOutputTemplate, Configured
<1>2. CASE RefuseStart \/ DeriveContext \/ NewMux
  BY <1>2 DEF RefuseStart, DeriveContext, NewMux
<1>3. CASE StartSetABR \/ StartSwitch
  BY <1>3 DEF StartSetABR, StartSwitch
<1>4. CASE StartRange \/ SpawnRung \/ SpawnBypass
  BY <1>4 DEF StartRange, SpawnRung, SpawnBypass
<1>5. CASE WaitPreinit \/ StartServe \/ WaitForStart \/ Wait
  BY <1>5 DEF WaitPreinit, StartServe, WaitForStart, Wait
<1> QED BY <1>1, <1>2, <1>3, <1>4, <1>5 DEF Main

-----------------------------------------------------------------------------
\* The invariant holds initially.
LEMMA InitInv == Init => IndInv
<1> SUFFICES ASSUME Init PROVE IndInv
  OBVIOUS
<1> USE ConstantsAssumption DEF Init
<1>1. cfg \in Config
  BY DEF Config
<1>2. cfg.props \in Props
  BY <1>1 DEF Config
<1>3. senderKey \in Resolution
  BY <1>2 DEF Props
<1>4. TypeOK
  <2>1. key \in [Rungs -> [Fields -> Nat \cup {Unread}]]
    BY DEF Unread
  <2>2. ladder \in Seq(Resolution) /\ Len(ladder) = 0
    OBVIOUS
  <2>3. next \in 1..(MaxRungs + 1)
    OBVIOUS
  <2>4. mux \in BOOLEAN
    OBVIOUS
  <2>5. /\ rung \in [Rungs -> {"none", "run", "done"}]
        /\ at \in [Clients -> {"idle", "called", "locked", "checked", "waiting"}]
        /\ req \in [Clients -> Requests \cup {NoReq}]
        /\ reply \in [Clients -> {"none", "ok", "err", "panic"}]
    OBVIOUS
  <2>6. errCh \in 0..ErrCap /\ fps \in Nat \X Nat
    OBVIOUS
  <2> QED BY <1>3, <2>1, <2>2, <2>3, <2>4, <2>5, <2>6 DEF TypeOK, PCs
<1>5. LockerHeldByHandler /\ CheckedIsSetCalculator /\ CheckedHandlerStays
  BY DEF LockerHeldByHandler, CheckedIsSetCalculator, CheckedHandlerStays
<1>6. AbrOwner /\ CrashOnlyByClient
  BY DEF AbrOwner, CrashOnlyByClient
<1>7. LoopProgress
  BY DEF LoopProgress, AfterWait, Rungs
<1>8. CopiesOfSenderKey
  BY DEF CopiesOfSenderKey
<1>9. ServedAfterWait
  BY DEF ServedAfterWait, PreinitDone, AfterWait
<1> QED BY <1>4, <1>5, <1>6, <1>7, <1>8, <1>9 DEF IndInv

-----------------------------------------------------------------------------
\* Typing, action by action.

\* The payload of a request has the type its operation says.
LEMMA RequestPayload ==
    ASSUME NEW r \in Requests \cup {NoReq}
    PROVE  /\ r.op = "SetVideoAutoBitRateConfig" => r.config \in AbrCfgs \cup {NoABR}
           /\ r.op = "SetVideoAutoBitRateCalculator" => r.calc \in Calculators
           /\ r.op = "SetFPSFraction" => r.fraction \in Fractions
           /\ r.op = "SwitchOutputByProps" => r.props \in ReqProps
BY DEF Requests, AllRequests, NoReq, ReadOps

\* Switching to well-typed properties.
LEMMA SwitchToType ==
    ASSUME TypeOK, NEW p \in Props, SwitchTo(p)
    PROVE  /\ current' \in Props \cup {NoProps}
           /\ outputs' \subseteq [Fields -> Int] \cup {Bypass}
<1>1. p.resolution \in [Fields -> Int]
  BY DEF Props, Resolution
<1> QED BY <1>1 DEF SwitchTo, TypeOK

\* main's steps keep the types.
LEMMA TypeMain == TypeOK /\ LoopProgress /\ Main => TypeOK'
<1> SUFFICES ASSUME TypeOK, LoopProgress, Main PROVE TypeOK'
  OBVIOUS
<1> USE ConstantsAssumption
<1>0. UNCHANGED <<cfg, fps, key, clientVars>>
  BY MainFrame
<1>a. cfg \in Config /\ cfg.abr \in AbrCfgs \cup {NoABR}
  BY DEF TypeOK
<1>b. cfg.props \in Props
  BY <1>a DEF Config
<1> USE DEF TypeOK, PCs, loopVars, muxVars, goVars, runVars, clientVars, mainVars
<1>1. CASE Listen \/ Configured
  BY <1>0, <1>1 DEF Listen, Configured
<1>2. CASE AddInput \/ AddOutputTemplate
  <2>1. CASE AddInput
    BY <1>0, <2>1 DEF AddInput
  <2>2. CASE AddOutputTemplate
    BY <1>0, <2>2 DEF AddOutputTemplate
  <2> QED BY <1>2, <2>1, <2>2
<1>3. CASE RefuseStart
  BY <1>0, <1>3 DEF RefuseStart, StartFails
<1>4. CASE DeriveContext
  BY <1>0, <1>4 DEF DeriveContext
<1>5. CASE NewMux
  <2>1. CASE StartFails /\ UNCHANGED muxVars
    BY <1>0, <2>1 DEF StartFails
  <2>2. CASE /\ mux' = TRUE
             /\ pc' = "setABR"
             /\ UNCHANGED <<cfg, inputs, templates, loopVars, abr, abrBy, calc,
                            fps, current, outputs, goVars, runVars, clientVars>>
    <3>1. mux' \in BOOLEAN
      BY <2>2
    <3> QED BY <1>0, <2>2, <3>1
  <2> QED BY <1>5, <2>1, <2>2 DEF NewMux
<1>6. CASE StartSetABR
  BY <1>0, <1>a, <1>6 DEF StartSetABR, StartFails, StoreAbr
<1>7. CASE StartSwitch
  <2>1. CASE SwitchTo(cfg.props)
            /\ pc' = (IF cfg.abr = NoABR THEN "serve" ELSE "range")
            /\ UNCHANGED <<cfg, inputs, templates, loopVars, mux, abr, abrBy,
                           calc, fps, goVars, runVars, clientVars>>
    BY <1>0, <1>b, <2>1, SwitchToType
  <2>2. CASE StartFails /\ UNCHANGED muxVars
    BY <1>0, <2>2 DEF StartFails
  <2> QED BY <1>7, <2>1, <2>2 DEF StartSwitch
<1>8. CASE StartRange
  <2>1. CASE abr = NoABR
    BY <1>0, <1>8, <2>1 DEF StartRange
  <2>2. CASE abr # NoABR
    <3>1. abr \in AbrCfgs
      BY <2>2
    <3>2. abr.ladder \in Seq(Resolution) /\ Len(abr.ladder) <= MaxRungs
      BY <3>1 DEF AbrConfig
    <3> QED BY <1>0, <1>8, <2>2, <3>2 DEF StartRange
  <2> QED BY <2>1, <2>2
<1>9. CASE SpawnRung
  <2>1. next \in 1..Len(ladder) /\ next \in Rungs
    BY <1>9 DEF SpawnRung, Rungs
  <2>2. ladder[next] \in Resolution
    BY <2>1
  <2> QED BY <1>0, <1>9, <2>1, <2>2 DEF SpawnRung
<1>10. CASE SpawnBypass
  BY <1>0, <1>10 DEF SpawnBypass
<1>11. CASE WaitPreinit \/ StartServe
  BY <1>0, <1>11 DEF WaitPreinit, StartServe
<1>12. CASE WaitForStart \/ Wait
  BY <1>0, <1>12 DEF WaitForStart, Wait, StartFails
<1> QED BY <1>1, <1>2, <1>3, <1>4, <1>5, <1>6, <1>7, <1>8, <1>9, <1>10, <1>11,
           <1>12 DEF Main

\* So do the steps of Start's goroutines,
LEMMA TypeBackground == TypeOK /\ Background => TypeOK'
<1> SUFFICES ASSUME TypeOK, Background PROVE TypeOK'
  OBVIOUS
<1> USE ConstantsAssumption
<1>0. UNCHANGED <<mainVars, loopVars, mux, abr, abrBy, calc, fps, current,
                  clientVars>>
  BY BackgroundFrame
<1> USE DEF TypeOK, PCs, loopVars, muxVars, goVars, runVars, clientVars, mainVars
<1>1. ASSUME NEW i \in Rungs, CreateOutput(i) PROVE TypeOK'
  <2>1. key[i] \in [Fields -> Int]
    BY DEF Unread
  <2>2. outputs' \subseteq [Fields -> Int] \cup {Bypass}
    BY <1>1, <2>1 DEF CreateOutput
  <2> QED BY <1>0, <1>1, <2>2 DEF CreateOutput
<1>2. ASSUME NEW i \in Rungs, NEW f \in Fields, ReadSenderKey(i, f) PROVE TypeOK'
  <2>1. senderKey[f] \in Nat
    BY DEF Resolution
  <2>2. key' \in [Rungs -> [Fields -> Nat \cup {Unread}]]
    BY <1>2, <2>1 DEF ReadSenderKey
  <2> QED BY <1>0, <1>2, <2>2 DEF ReadSenderKey
<1>3. CASE CreateBypass
  BY <1>0, <1>3 DEF CreateBypass
<1>4. CASE ServeFail \/ ServeSend \/ ServeEnd
  BY <1>0, <1>4 DEF ServeFail, ServeSend, ServeEnd
<1>5. CASE WatcherSelect \/ WatcherCancel
  BY <1>0, <1>5 DEF WatcherSelect, WatcherCancel
<1>6. CASE MuxStarts \/ MuxStops
  BY <1>0, <1>6 DEF MuxStarts, MuxStops
<1> QED BY <1>1, <1>2, <1>3, <1>4, <1>5, <1>6 DEF Background

\* An answer keeps the types of the control socket's state.
LEMMA TypeAnswer ==
    ASSUME TypeOK, NEW c \in Clients, NEW r \in {"ok", "err", "panic"},
           Answer(c, r)
    PROVE  /\ locker' \in Clients \cup {Free}
           /\ at' \in [Clients -> {"idle", "called", "locked", "checked", "waiting"}]
           /\ req' \in [Clients -> Requests \cup {NoReq}]
           /\ reply' \in [Clients -> {"none", "ok", "err", "panic"}]
BY DEF TypeOK, Answer

\* and the handlers'.
LEMMA TypeClient ==
    ASSUME TypeOK, CheckedIsSetCalculator, NEW c \in Clients,
           Call(c) \/ WaitChanCancelled(c) \/ Lock(c) \/ Handle(c)
    PROVE  TypeOK'
<1> USE ConstantsAssumption
<1>0. UNCHANGED <<mainVars, loopVars, goVars, runVars>>
  BY ClientFrame
<1>r. req[c] \in Requests \cup {NoReq}
  BY DEF TypeOK
<1> USE DEF PCs, loopVars, goVars, runVars, mainVars
<1>1. SUFFICES
        /\ mux' \in BOOLEAN
        /\ abr' \in AbrCfgs \cup {NoABR}
        /\ abrBy' \in {"nobody", "start", "client"}
        /\ calc' \in Calculators \cup {DefaultCalc}
        /\ fps' \in Nat \X Nat
        /\ current' \in Props \cup {NoProps}
        /\ outputs' \subseteq [Fields -> Int] \cup {Bypass}
        /\ locker' \in Clients \cup {Free}
        /\ at' \in [Clients -> {"idle", "called", "locked", "checked", "waiting"}]
        /\ req' \in [Clients -> Requests \cup {NoReq}]
        /\ reply' \in [Clients -> {"none", "ok", "err", "panic"}]
  BY <1>0 DEF TypeOK
<1>2. CASE Call(c)
  BY <1>2 DEF Call, TypeOK, muxVars
<1>3. CASE Lock(c)
  BY <1>3 DEF Lock, TypeOK, muxVars
<1>4. CASE WaitChanCancelled(c) \/ WaitChanReturns(c) \/ GetStats(c)
  BY <1>4, TypeAnswer
     DEF WaitChanCancelled, WaitChanReturns, GetStats, TypeOK, muxVars
<1>5. CASE Read(c)
  <2>1. PICK r \in {"err"} \cup (IF mux THEN {"ok"} ELSE {}) : Answer(c, r)
    BY <1>5 DEF Read
  <2>2. r \in {"ok", "err", "panic"}
    OBVIOUS
  <2> QED BY <1>5, <2>1, <2>2, TypeAnswer DEF Read, TypeOK, muxVars
<1>6. CASE GetAutoBitRateCalculator(c) \/ GetCurrentOutput(c)
  BY <1>6, TypeAnswer DEF GetAutoBitRateCalculator, GetCurrentOutput, TypeOK,
                          muxVars
<1>7. CASE SetAutoBitRateVideoConfig(c)
  <2>1. req[c].config \in AbrCfgs \cup {NoABR}
    BY <1>7, <1>r, RequestPayload DEF SetAutoBitRateVideoConfig, Locked
  <2> QED BY <1>7, <2>1, TypeAnswer
          DEF SetAutoBitRateVideoConfig, StoreAbr, TypeOK, muxVars
<1>8. CASE CheckAutoBitRateHandler(c)
  <2>1. CASE /\ at' = [at EXCEPT ![c] = "checked"]
             /\ UNCHANGED <<muxVars, locker, req, reply>>
    BY <2>1 DEF TypeOK, muxVars
  <2>2. CASE Answer(c, "err") /\ UNCHANGED muxVars
    BY <2>2, TypeAnswer DEF TypeOK, muxVars
  <2> QED BY <1>8, <2>1, <2>2 DEF CheckAutoBitRateHandler
<1>9. CASE SetAutoBitRateCalculator(c)
  <2>1. req[c].calc \in Calculators
    BY <1>9, <1>r, RequestPayload
       DEF SetAutoBitRateCalculator, CheckedIsSetCalculator
  <2>2. CASE abr = NoABR
    BY <1>9, <2>2, TypeAnswer DEF SetAutoBitRateCalculator, TypeOK
  <2>3. CASE abr # NoABR
    BY <1>9, <2>1, <2>3, TypeAnswer DEF SetAutoBitRateCalculator, TypeOK
  <2> QED BY <2>2, <2>3
<1>10. CASE SetFPSFraction(c)
  <2>1. req[c].fraction \in Nat \X Nat
    BY <1>10, <1>r, RequestPayload DEF SetFPSFraction, Locked
  <2>2. fps' \in Nat \X Nat
    BY <1>10, <2>1 DEF SetFPSFraction, TypeOK
  <2>3. \E r \in {"ok", "err"} : Answer(c, r)
    BY <1>10 DEF SetFPSFraction
  <2> QED BY <1>10, <2>2, <2>3, TypeAnswer DEF SetFPSFraction, TypeOK
<1>11. CASE SwitchOutputByProps(c)
  <2>1. req[c].props \in Props
    BY <1>11, <1>r, RequestPayload DEF SwitchOutputByProps, Called
  <2>2. CASE SwitchTo(req[c].props) /\ Answer(c, "ok")
             /\ UNCHANGED <<mux, abr, abrBy, calc, fps>>
    BY <2>1, <2>2, TypeAnswer, SwitchToType DEF TypeOK
  <2>3. CASE Answer(c, "err") /\ UNCHANGED muxVars
    BY <2>3, TypeAnswer DEF TypeOK, muxVars
  <2> QED BY <1>11, <2>2, <2>3 DEF SwitchOutputByProps
<1>12. CASE WaitChan(c)
  <2>1. CASE /\ at' = [at EXCEPT ![c] = "waiting"]
             /\ UNCHANGED <<muxVars, locker, req, reply>>
    BY <2>1 DEF TypeOK, muxVars
  <2>2. CASE Answer(c, "panic") /\ UNCHANGED muxVars
    BY <2>2, TypeAnswer DEF TypeOK, muxVars
  <2> QED BY <1>12, <2>1, <2>2 DEF WaitChan
<1>13. CASE End(c)
  BY <1>13 DEF End, stopTranscodingFunc, TypeOK, muxVars
<1> QED BY <1>2, <1>3, <1>4, <1>5, <1>6, <1>7, <1>8, <1>9, <1>10, <1>11, <1>12,
           <1>13 DEF Handle

-----------------------------------------------------------------------------
\* s.locker and the two looks at the auto-bit-rate handler.

\* What an answer does to the lock's discipline.
LEMMA LockAnswer ==
    ASSUME TypeOK, LockerHeldByHandler, CheckedIsSetCalculator,
           NEW c \in Clients, NEW r, Answer(c, r)
    PROVE  /\ LockerHeldByHandler' /\ CheckedIsSetCalculator'
           /\ \A d \in Clients : at'[d] = "checked" => at[d] = "checked"
BY ConstantsAssumption
   DEF TypeOK, LockerHeldByHandler, CheckedIsSetCalculator, Answer

\* Every handler step keeps it, and keeps the handler that was checked.
LEMMA LockClient ==
    ASSUME TypeOK, LockerHeldByHandler, CheckedIsSetCalculator,
           CheckedHandlerStays, NEW c \in Clients,
           Call(c) \/ WaitChanCancelled(c) \/ Lock(c) \/ Handle(c)
    PROVE  LockerHeldByHandler' /\ CheckedIsSetCalculator' /\ CheckedHandlerStays'
<1> USE ConstantsAssumption
<1>0. cfg' = cfg
  BY ClientFrame DEF mainVars
<1>1. CASE Call(c) \/ Lock(c)
  BY <1>0, <1>1 DEF Call, Lock, LockedOps, TypeOK, LockerHeldByHandler,
     CheckedIsSetCalculator, CheckedHandlerStays, muxVars
<1>2. CASE WaitChanCancelled(c) \/ WaitChanReturns(c) \/ GetStats(c)
           \/ GetCurrentOutput(c) \/ GetAutoBitRateCalculator(c)
  BY <1>0, <1>2, LockAnswer DEF WaitChanCancelled, WaitChanReturns, GetStats,
     GetCurrentOutput, GetAutoBitRateCalculator, muxVars, CheckedHandlerStays
<1>3. CASE Read(c)
  BY <1>0, <1>3, LockAnswer DEF Read, muxVars, CheckedHandlerStays
<1>4. CASE SetAutoBitRateVideoConfig(c)
  <2>1. \E r : Answer(c, r)
    BY <1>4 DEF SetAutoBitRateVideoConfig
  <2>2. at[c] = "locked" /\ at'[c] = "idle"
    BY <1>4, <2>1 DEF SetAutoBitRateVideoConfig, Locked, Answer, TypeOK
  <2>3. \A d \in Clients : at'[d] # "checked"
    BY <2>1, <2>2, LockAnswer DEF LockerHeldByHandler
  <2> QED BY <2>1, <2>3, LockAnswer DEF CheckedHandlerStays
<1>5. CASE CheckAutoBitRateHandler(c)
  <2>1. CASE Answer(c, "err") /\ UNCHANGED muxVars
    BY <1>0, <2>1, LockAnswer DEF muxVars, CheckedHandlerStays
  <2>2. CASE /\ abr # NoABR
             /\ at' = [at EXCEPT ![c] = "checked"]
             /\ UNCHANGED <<muxVars, locker, req>>
    BY <1>0, <1>5, <2>2 DEF CheckAutoBitRateHandler, Locked, TypeOK, muxVars,
       LockerHeldByHandler, CheckedIsSetCalculator, CheckedHandlerStays
  <2> QED BY <1>5, <2>1, <2>2 DEF CheckAutoBitRateHandler
<1>6. CASE SetAutoBitRateCalculator(c)
  BY <1>0, <1>6, LockAnswer DEF SetAutoBitRateCalculator, CheckedHandlerStays
<1>7. CASE SetFPSFraction(c)
  BY <1>0, <1>7, LockAnswer DEF SetFPSFraction, CheckedHandlerStays
<1>8. CASE SwitchOutputByProps(c)
  BY <1>0, <1>8, LockAnswer DEF SwitchOutputByProps, muxVars, CheckedHandlerStays
<1>9. CASE WaitChan(c)
  <2>1. CASE Answer(c, "panic") /\ UNCHANGED muxVars
    BY <1>0, <2>1, LockAnswer DEF muxVars, CheckedHandlerStays
  <2>2. CASE /\ at' = [at EXCEPT ![c] = "waiting"]
             /\ UNCHANGED <<muxVars, locker, req>>
    BY <1>0, <1>9, <2>2 DEF WaitChan, Called, TypeOK, muxVars,
       LockerHeldByHandler, CheckedIsSetCalculator, CheckedHandlerStays
  <2> QED BY <1>9, <2>1, <2>2 DEF WaitChan
<1>10. CASE End(c)
  BY <1>0, <1>10 DEF End, Called, TypeOK, muxVars, LockerHeldByHandler,
     CheckedIsSetCalculator, CheckedHandlerStays
<1> QED BY <1>1, <1>2, <1>3, <1>4, <1>5, <1>6, <1>7, <1>8, <1>9, <1>10 DEF Handle

\* Of main's steps only StartSetABR writes the handler, and not with nil when
\* Start was given a config.
LEMMA LockMain ==
    ASSUME TypeOK, LockerHeldByHandler, CheckedIsSetCalculator,
           CheckedHandlerStays, Main
    PROVE  LockerHeldByHandler' /\ CheckedIsSetCalculator' /\ CheckedHandlerStays'
<1>0. UNCHANGED <<cfg, clientVars>>
  BY MainFrame
<1>1. abr' = abr \/ abr' = cfg.abr
  <2> USE DEF loopVars, muxVars, StartFails
  <2>1. CASE Listen \/ AddInput \/ AddOutputTemplate \/ Configured
    BY <2>1 DEF Listen, AddInput, AddOutputTemplate, Configured
  <2>2. CASE RefuseStart \/ DeriveContext \/ NewMux
    BY <2>2 DEF RefuseStart, DeriveContext, NewMux
  <2>3. CASE StartSetABR \/ StartSwitch
    BY <2>3 DEF StartSetABR, StartSwitch, StoreAbr
  <2>4. CASE StartRange \/ SpawnRung \/ SpawnBypass
    BY <2>4 DEF StartRange, SpawnRung, SpawnBypass
  <2>5. CASE WaitPreinit \/ StartServe \/ WaitForStart \/ Wait
    BY <2>5 DEF WaitPreinit, StartServe, WaitForStart, Wait
  <2> QED BY <2>1, <2>2, <2>3, <2>4, <2>5 DEF Main
<1> QED BY <1>0, <1>1 DEF clientVars, LockerHeldByHandler,
           CheckedIsSetCalculator, CheckedHandlerStays

-----------------------------------------------------------------------------
\* Whose fault a missing handler is.
LEMMA OwnerStep ==
    ASSUME TypeOK, AbrOwner, CrashOnlyByClient, ~Dead,
           Main \/ Background
           \/ \E c \in Clients : Call(c) \/ WaitChanCancelled(c) \/ Lock(c) \/ Handle(c)
    PROVE  AbrOwner' /\ CrashOnlyByClient'
<1> USE DEF AbrOwner, CrashOnlyByClient, Dead
<1>1. CASE Background
  BY <1>1, BackgroundFrame DEF mainVars
<1>2. ASSUME NEW c \in Clients,
             Call(c) \/ WaitChanCancelled(c) \/ Lock(c) \/ Handle(c)
      PROVE  AbrOwner' /\ CrashOnlyByClient'
  <2>1. UNCHANGED <<cfg, pc>>
    BY <1>2, ClientFrame DEF mainVars
  <2>2. UNCHANGED <<abr, abrBy>> \/ abrBy' = "client"
    <3> USE DEF muxVars
    <3>1. CASE Call(c) \/ WaitChanCancelled(c) \/ Lock(c)
      BY <3>1 DEF Call, WaitChanCancelled, Lock
    <3>2. CASE Read(c) \/ GetAutoBitRateCalculator(c)
               \/ SetAutoBitRateVideoConfig(c) \/ CheckAutoBitRateHandler(c)
      BY <3>2 DEF Read, GetAutoBitRateCalculator, SetAutoBitRateVideoConfig,
         StoreAbr, CheckAutoBitRateHandler
    <3>3. CASE SetAutoBitRateCalculator(c) \/ SetFPSFraction(c)
               \/ SwitchOutputByProps(c) \/ GetCurrentOutput(c)
      BY <3>3 DEF SetAutoBitRateCalculator, SetFPSFraction,
         SwitchOutputByProps, GetCurrentOutput
    <3>4. CASE GetStats(c) \/ WaitChan(c) \/ WaitChanReturns(c) \/ End(c)
      BY <3>4 DEF GetStats, WaitChan, WaitChanReturns, End
    <3> QED BY <1>2, <3>1, <3>2, <3>3, <3>4 DEF Handle
  <2> QED BY <2>1, <2>2
<1>3. CASE Main
  <2> USE DEF loopVars, muxVars, mainVars, StartFails
  <2>1. CASE Listen \/ AddInput \/ AddOutputTemplate \/ Configured
    BY <2>1 DEF Listen, AddInput, AddOutputTemplate, Configured
  <2>2. CASE RefuseStart \/ DeriveContext \/ NewMux
    BY <2>2 DEF RefuseStart, DeriveContext, NewMux
  <2>3. CASE StartSetABR \/ StartSwitch
    BY <2>3 DEF StartSetABR, StartSwitch, StoreAbr
  <2>4. CASE StartRange \/ SpawnRung \/ SpawnBypass
    BY <2>4 DEF StartRange, SpawnRung, SpawnBypass
  <2>5. CASE WaitPreinit \/ StartServe \/ WaitForStart \/ Wait
    BY <2>5 DEF WaitPreinit, StartServe, WaitForStart, Wait
  <2> QED BY <1>3, <2>1, <2>2, <2>3, <2>4, <2>5 DEF Main
<1> QED BY <1>1, <1>2, <1>3

-----------------------------------------------------------------------------
\* The ladder's loop, its goroutines and the start of serving.

LoopInv == LoopProgress /\ CopiesOfSenderKey /\ ServedAfterWait

\* main's steps: each iteration adds one goroutine behind one write.
LEMMA LoopMain ==
    ASSUME TypeOK, LoopInv, ~Dead, Main
    PROVE  LoopInv'
<1> USE ConstantsAssumption
<1>0. UNCHANGED <<cfg, key>>
  BY MainFrame
<1> USE DEF LoopInv, BeforeLoop, AfterWait
<1>1. CASE SpawnRung
  <2>1. next \in 1..Len(ladder) /\ next \in Rungs /\ next' = next + 1
    BY <1>1 DEF SpawnRung, Rungs, TypeOK
  <2>2. UNCHANGED <<cfg, pc, ladder, bypass, serve>> /\ senderKey' = ladder[next]
        /\ pc = "spawn"
    BY <1>1 DEF SpawnRung, mainVars, runVars
  <2>3. rung' = [rung EXCEPT ![next] = "run"] /\ rung \in [Rungs -> {"none", "run", "done"}]
    BY <1>1 DEF SpawnRung, TypeOK
  <2>4. LoopProgress'
    BY <2>1, <2>2, <2>3 DEF LoopProgress, Rungs, TypeOK
  <2>5. CopiesOfSenderKey'
    BY <1>0, <2>1, <2>2, <2>3 DEF CopiesOfSenderKey, CreatesOutputs, Rungs, TypeOK
  <2>6. ServedAfterWait'
    BY <2>2 DEF ServedAfterWait
  <2> QED BY <2>4, <2>5, <2>6
<1>2. CASE StartRange
  <2>1. pc = "range" /\ next = 1 /\ pc' \in {"crashed", "spawn"} /\ serve = "off"
    BY <1>2 DEF StartRange, LoopProgress, ServedAfterWait
  <2>2. UNCHANGED <<cfg, next, senderKey, rung, bypass, serve>>
    BY <1>2 DEF StartRange, goVars, runVars
  <2>3. Len(ladder') \in Nat
    <3>1. CASE abr = NoABR
      BY <1>2, <3>1 DEF StartRange, TypeOK
    <3>2. CASE abr # NoABR
      BY <1>2, <3>2 DEF StartRange, TypeOK, AbrConfig
    <3> QED BY <3>1, <3>2
  <2>4. LoopProgress'
    BY <2>1, <2>2, <2>3 DEF LoopProgress
  <2>5. CopiesOfSenderKey'
    BY <1>0, <2>1, <2>2 DEF CopiesOfSenderKey, CreatesOutputs, Rungs
  <2>6. ServedAfterWait'
    BY <2>1, <2>2 DEF ServedAfterWait
  <2> QED BY <2>4, <2>5, <2>6
<1>3. CASE SpawnBypass
  <2>1. next = Len(ladder) + 1
    BY <1>3 DEF SpawnBypass, LoopProgress, TypeOK
  <2>2. /\ pc = "spawn" /\ pc' = "wgWait"
        /\ UNCHANGED <<next, ladder, senderKey, rung, serve>>
    BY <1>3 DEF SpawnBypass, loopVars, runVars
  <2>3. LoopProgress'
    BY <2>1, <2>2 DEF LoopProgress
  <2>4. CopiesOfSenderKey' /\ ServedAfterWait'
    BY <1>0, <2>2 DEF CopiesOfSenderKey, CreatesOutputs, ServedAfterWait
  <2> QED BY <2>3, <2>4
<1>4. CASE StartSwitch
  <2>1. /\ pc = "switch" /\ pc' \in {"serve", "range", "fatal"}
        /\ UNCHANGED <<next, ladder, senderKey, rung, bypass, serve>>
    BY <1>4 DEF StartSwitch, StartFails, loopVars, goVars, runVars
  <2>2. pc' = "serve" => ladder = <<>>
    BY <1>4 DEF StartSwitch, StartFails, LoopProgress
  <2> QED BY <1>0, <2>1, <2>2 DEF LoopProgress, CopiesOfSenderKey,
             CreatesOutputs, ServedAfterWait, PreinitDone, Rungs
<1>5. CASE Listen \/ AddInput \/ AddOutputTemplate \/ Configured
           \/ RefuseStart \/ DeriveContext \/ NewMux \/ StartSetABR
  <2>1. /\ pc \in BeforeLoop
        /\ pc' \in (BeforeLoop \ {"range"}) \cup {"fatal"}
        /\ UNCHANGED <<next, ladder, senderKey, rung, bypass, serve>>
    BY <1>5 DEF Listen, AddInput, AddOutputTemplate, Configured, RefuseStart,
       DeriveContext, NewMux, StartSetABR, StartFails, loopVars, goVars, runVars
  <2> QED BY <1>0, <2>1 DEF LoopProgress, CopiesOfSenderKey, CreatesOutputs,
             ServedAfterWait
<1>6. CASE WaitPreinit \/ StartServe \/ WaitForStart \/ Wait
  <2>1. /\ \/ pc = "wgWait" /\ pc' = "serve" /\ PreinitDone /\ UNCHANGED serve
           \/ pc = "serve" /\ pc' = "waitForStart"
           \/ pc = "waitForStart" /\ pc' \in {"wait", "fatal"}
           \/ pc = "wait" /\ pc' = "exited"
        /\ UNCHANGED <<next, ladder, senderKey, rung, bypass>>
    BY <1>6 DEF WaitPreinit, StartServe, WaitForStart, Wait, StartFails,
       loopVars, goVars, runVars
  <2> QED BY <1>0, <2>1 DEF LoopProgress, CopiesOfSenderKey, CreatesOutputs,
             ServedAfterWait, PreinitDone
<1> QED BY <1>1, <1>2, <1>3, <1>4, <1>5, <1>6 DEF Main

\* The goroutines' steps: a copy of senderKey is of the latest iteration.
LEMMA LoopBackground ==
    ASSUME TypeOK, LoopInv, Background
    PROVE  LoopInv'
<1> USE ConstantsAssumption DEF LoopInv, BeforeLoop, AfterWait
<1>0. UNCHANGED <<cfg, pc, next, ladder, senderKey>>
  BY BackgroundFrame DEF mainVars, loopVars
<1>1. ASSUME NEW i \in Rungs, CreateOutput(i) PROVE LoopInv'
  <2>1. /\ rung[i] = "run" /\ rung' = [rung EXCEPT ![i] = "done"]
        /\ UNCHANGED <<key, bypass, serve>>
        /\ CreatesOutputs => \A f \in Fields : key[i][f] # Unread
    BY <1>1 DEF CreateOutput, runVars
  <2> QED BY <1>0, <2>1 DEF LoopProgress, CopiesOfSenderKey, CreatesOutputs,
             ServedAfterWait, PreinitDone, TypeOK
<1>2. ASSUME NEW i \in Rungs, NEW f \in Fields, ReadSenderKey(i, f) PROVE LoopInv'
  <2>1. /\ rung[i] = "run"
        /\ key' = [key EXCEPT ![i] = [@ EXCEPT ![f] = senderKey[f]]]
        /\ UNCHANGED <<rung, bypass, serve>>
    BY <1>2 DEF ReadSenderKey, runVars
  <2>2. i < next /\ next > 1 /\ senderKey = ladder[next - 1]
    BY <2>1 DEF LoopProgress, Rungs, TypeOK
  <2>3. senderKey[f] # Unread
    BY DEF TypeOK, Resolution, Unread
  <2>4. next - 1 \in i..(next - 1)
    BY <2>2 DEF Rungs, TypeOK
  <2>5. CopiesOfSenderKey'
    <3> SUFFICES ASSUME NEW m \in Rungs, NEW g \in Fields
        PROVE /\ key'[m][g] # Unread =>
                   \E j \in m..(next - 1) : key'[m][g] = ladder[j][g]
              /\ rung[m] = "done" /\ CreatesOutputs => key'[m][g] # Unread
      BY <1>0, <2>1 DEF CopiesOfSenderKey, CreatesOutputs
    <3>1. CASE m = i /\ g = f
      BY <2>1, <2>2, <2>3, <2>4, <3>1 DEF TypeOK
    <3>2. CASE ~(m = i /\ g = f)
      <4>1. key'[m][g] = key[m][g]
        BY <2>1, <3>2 DEF TypeOK
      <4> QED BY <4>1 DEF CopiesOfSenderKey
    <3> QED BY <3>1, <3>2
  <2> QED BY <1>0, <2>1, <2>5 DEF LoopProgress, ServedAfterWait, PreinitDone
<1>3. CASE CreateBypass
  <2>1. bypass = "run" /\ bypass' = "done" /\ UNCHANGED <<rung, key, serve>>
    BY <1>3 DEF CreateBypass, runVars
  <2> QED BY <1>0, <2>1 DEF LoopProgress, CopiesOfSenderKey, CreatesOutputs,
             ServedAfterWait, PreinitDone
<1>4. CASE ServeFail \/ ServeSend \/ ServeEnd \/ WatcherSelect \/ WatcherCancel
           \/ MuxStarts \/ MuxStops
  <2>1. UNCHANGED <<rung, key, bypass>> /\ (serve = "off" => serve' = "off")
    BY <1>4 DEF ServeFail, ServeSend, ServeEnd, WatcherSelect, WatcherCancel,
       MuxStarts, MuxStops, goVars
  <2> QED BY <1>0, <2>1 DEF LoopProgress, CopiesOfSenderKey, CreatesOutputs,
             ServedAfterWait, PreinitDone
<1> QED BY <1>1, <1>2, <1>3, <1>4 DEF Background

-----------------------------------------------------------------------------
\* The invariant is inductive.
LEMMA NextInv == IndInv /\ [Next]_vars => IndInv'
<1> SUFFICES ASSUME IndInv, [Next]_vars PROVE IndInv'
  OBVIOUS
<1> USE DEF IndInv, LoopInv
<1>1. CASE UNCHANGED vars
  BY <1>1 DEF vars, TypeOK, LockerHeldByHandler, CheckedIsSetCalculator,
     CheckedHandlerStays, AbrOwner, CrashOnlyByClient, LoopProgress,
     CopiesOfSenderKey, CreatesOutputs, ServedAfterWait, PreinitDone
<1>2. CASE ~Dead /\ Main
  BY <1>2, TypeMain, LockMain, OwnerStep, LoopMain
<1>3. CASE ~Dead /\ Background
  <2>1. TypeOK' /\ AbrOwner' /\ CrashOnlyByClient' /\ LoopInv'
    BY <1>3, TypeBackground, OwnerStep, LoopBackground
  <2>2. LockerHeldByHandler' /\ CheckedIsSetCalculator' /\ CheckedHandlerStays'
    BY <1>3, BackgroundFrame DEF mainVars, clientVars, LockerHeldByHandler,
       CheckedIsSetCalculator, CheckedHandlerStays
  <2> QED BY <2>1, <2>2
<1>4. ASSUME ~Dead, NEW c \in Clients,
             Call(c) \/ WaitChanCancelled(c) \/ Lock(c) \/ Handle(c)
      PROVE  IndInv'
  <2>1. TypeOK' /\ LockerHeldByHandler' /\ CheckedIsSetCalculator'
        /\ CheckedHandlerStays' /\ AbrOwner' /\ CrashOnlyByClient'
    BY <1>4, TypeClient, LockClient, OwnerStep
  <2>2. LoopInv'
    BY <1>4, ClientFrame DEF mainVars, loopVars, goVars, runVars, LoopProgress,
       CopiesOfSenderKey, CreatesOutputs, ServedAfterWait, PreinitDone
  <2> QED BY <2>1, <2>2
<1> QED BY <1>1, <1>2, <1>3, <1>4 DEF Next, Terminated

\* The invariant of every reachable state.
THEOREM Invariance == Spec => []IndInv
<1>1. Spec => Init /\ [][Next]_vars
  BY DEF Spec
<1> QED BY <1>1, InitInv, NextInv, PTL

\* Every variable keeps its type, for every instance.
THEOREM TypeCorrect == Spec => []TypeOK
<1>1. IndInv => TypeOK
  BY DEF IndInv
<1> QED BY <1>1, Invariance, PTL

\* s.locker is held by exactly the handler between Lock and its deferred
\* Unlock, panics included, for any number of clients.
THEOREM LockerDiscipline == Spec => []LockerHeldByHandler
<1>1. IndInv => LockerHeldByHandler
  BY DEF IndInv
<1> QED BY <1>1, Invariance, PTL

\* SetAutoBitRateCalculator's checked handler is still there when it is
\* written, if Start was given an auto-bit-rate config.
THEOREM CalculatorSafe == Spec => []CheckedHandlerStays
<1>1. IndInv => CheckedHandlerStays
  BY DEF IndInv
<1> QED BY <1>1, Invariance, PTL

\* Start's nil dereference needs a client that cleared the config meanwhile.
THEOREM CrashBlame == Spec => []CrashOnlyByClient
<1>1. IndInv => CrashOnlyByClient
  BY DEF IndInv
<1> QED BY <1>1, Invariance, PTL

\* Nothing is served while a pre-initialisation goroutine runs.
THEOREM ServeAfterPreinit == Spec => []PreinitBeforeServe
<1>1. IndInv => PreinitBeforeServe
  BY DEF IndInv, ServedAfterWait, PreinitBeforeServe
<1> QED BY <1>1, Invariance, PTL

\* The unsynchronised copies of senderKey: a goroutine never gets an earlier
\* rung's resolution, for ladders of any length.
THEOREM RungOrder == Spec => []RungReadsOwnOrLater
<1>1. IndInv => RungReadsOwnOrLater
  <2> SUFFICES ASSUME IndInv, NEW i \in Rungs, NEW f \in Fields,
                      key[i][f] # Unread
               PROVE  \E j \in i..Len(ladder) : key[i][f] = ladder[j][f]
    BY DEF RungReadsOwnOrLater
  <2>1. PICK j \in i..(next - 1) : key[i][f] = ladder[j][f]
    BY DEF IndInv, CopiesOfSenderKey
  <2>2. j \in i..Len(ladder)
    BY DEF IndInv, LoopProgress, TypeOK, Rungs
  <2> QED BY <2>1, <2>2
<1> QED BY <1>1, Invariance, PTL

\* The last rung's output is asked for, whatever the schedule.
THEOREM LastRung == Spec => []LastRungCovered
<1>1. IndInv => LastRungCovered
  <2> SUFFICES ASSUME IndInv, pc \in AfterWait, Len(ladder) > 0, CreatesOutputs
               PROVE  key[Len(ladder)] = ladder[Len(ladder)]
    BY DEF LastRungCovered, AfterWait
  <2> DEFINE n == Len(ladder)
  <2> USE ConstantsAssumption DEF IndInv
  <2>1. n \in Rungs /\ n \in 1..Len(ladder) /\ next = n + 1
    BY DEF LoopProgress, TypeOK, Rungs
  <2>2. rung[n] = "done"
    BY <2>1 DEF LoopProgress, ServedAfterWait, PreinitDone, TypeOK
  <2>3. \A f \in Fields : key[n][f] = ladder[n][f]
    <3> SUFFICES ASSUME NEW f \in Fields PROVE key[n][f] = ladder[n][f]
      OBVIOUS
    <3>1. key[n][f] # Unread
      BY <2>1, <2>2 DEF CopiesOfSenderKey
    <3>2. PICK j \in n..(next - 1) : key[n][f] = ladder[j][f]
      BY <2>1, <3>1 DEF CopiesOfSenderKey
    <3> QED BY <2>1, <3>2
  <2>4. key[n] \in [Fields -> Nat \cup {Unread}] /\ ladder[n] \in [Fields -> Nat]
    BY <2>1 DEF TypeOK, Resolution
  <2> QED BY <2>3, <2>4
<1> QED BY <1>1, Invariance, PTL

-----------------------------------------------------------------------------
\* FFStream implements StreamLife

BeforeMux == {"new", "adding", "start", "newMux"}
Serving == {"waitForStart", "wait"}

\* How far a living main has come, and what it knows by then.
MainKnows ==
    /\ mux <=> pc \notin BeforeMux
    /\ ~mux => abr = NoABR
    /\ serve # "off" <=> pc \in Serving
    /\ pc \notin {"new", "adding"} => inputs = cfg.inputs /\ templates = cfg.outputs
    /\ pc \notin {"new", "adding", "start"} => cfg.inputs > 0 /\ cfg.outputs = 1
    /\ pc \in {"range", "spawn", "wgWait"} \cup AfterWait => ValidProps(cfg.props)

\* Nothing fails before it is served, only the watcher cancels the context of a
\* living process, and only a cancelled mux stops.
FailureOrder ==
    /\ serve = "off" => errCh = 0 /\ watcher = "off" /\ muxSt = "new"
    /\ ctx = "cancelled" => watcher = "done"
    /\ muxSt = "stopped" => watcher = "done"

LifeInv == ~Dead => MainKnows /\ FailureOrder

-----------------------------------------------------------------------------
\* What a client can do to the stream: replace its config, once it sees it.
LEMMA ClientStream ==
    ASSUME NEW c \in Clients,
           Call(c) \/ WaitChanCancelled(c) \/ Lock(c) \/ Handle(c)
    PROVE  mux' = mux /\ (abr' = abr \/ mux)
<1> USE DEF muxVars
<1>1. CASE Call(c) \/ WaitChanCancelled(c) \/ Lock(c)
  BY <1>1 DEF Call, WaitChanCancelled, Lock
<1>2. CASE Read(c) \/ GetAutoBitRateCalculator(c)
           \/ SetAutoBitRateVideoConfig(c) \/ CheckAutoBitRateHandler(c)
  BY <1>2 DEF Read, GetAutoBitRateCalculator, SetAutoBitRateVideoConfig,
     CheckAutoBitRateHandler
<1>3. CASE SetAutoBitRateCalculator(c) \/ SetFPSFraction(c)
           \/ SwitchOutputByProps(c) \/ GetCurrentOutput(c)
  BY <1>3 DEF SetAutoBitRateCalculator, SetFPSFraction,
     SwitchOutputByProps, GetCurrentOutput
<1>4. CASE GetStats(c) \/ WaitChan(c) \/ WaitChanReturns(c) \/ End(c)
  BY <1>4 DEF GetStats, WaitChan, WaitChanReturns, End
<1> QED BY <1>1, <1>2, <1>3, <1>4 DEF Handle

LEMMA LifeInit == Init => LifeInv
BY DEF Init, LifeInv, MainKnows, FailureOrder, BeforeMux, Serving, AfterWait

LEMMA LifeMain ==
    ASSUME TypeOK, LifeInv, ~Dead, Main
    PROVE  LifeInv'
<1> USE DEF LifeInv, MainKnows, FailureOrder, BeforeMux, Serving, AfterWait, Dead,
            TypeOK, PCs, Config, loopVars, muxVars, goVars, runVars, mainVars, StartFails
<1>1. CASE Listen \/ AddInput \/ AddOutputTemplate
  BY <1>1 DEF Listen, AddInput, AddOutputTemplate
<1>2. CASE Configured
  BY <1>2 DEF Configured
<1>3. CASE RefuseStart
  BY <1>3 DEF RefuseStart
<1>4. CASE DeriveContext
  <2>1. cfg.inputs \in Nat /\ cfg.outputs \in Nat
    BY ConstantsAssumption
  <2> QED
    BY <1>4, <2>1 DEF DeriveContext, StartRefused
<1>5. CASE NewMux
  BY <1>5 DEF NewMux
<1>6. CASE StartSetABR
  BY <1>6 DEF StartSetABR, StoreAbr
<1>7. CASE StartSwitch
  BY <1>7 DEF StartSwitch, ValidProps
<1>8. CASE StartRange \/ SpawnRung \/ SpawnBypass
  BY <1>8 DEF StartRange, SpawnRung, SpawnBypass, ValidProps
<1>9. CASE WaitPreinit \/ StartServe
  BY <1>9 DEF WaitPreinit, StartServe, ValidProps
<1>10. CASE WaitForStart \/ Wait
  BY <1>10 DEF WaitForStart, Wait, ValidProps
<1> QED BY <1>1, <1>2, <1>3, <1>4, <1>5, <1>6, <1>7, <1>8, <1>9, <1>10 DEF Main

LEMMA LifeBackground ==
    ASSUME TypeOK, LifeInv, ~Dead, Background
    PROVE  LifeInv'
<1>1. UNCHANGED <<cfg, pc, inputs, templates, mux, abr>>
  BY BackgroundFrame DEF mainVars
<1>2. (serve' # "off" <=> serve # "off") /\ FailureOrder'
  <2> USE DEF LifeInv, FailureOrder, goVars, muxVars, TypeOK
  <2>1. ASSUME NEW i \in Rungs, CreateOutput(i) \/ \E f \in Fields : ReadSenderKey(i, f)
        PROVE  (serve' # "off" <=> serve # "off") /\ FailureOrder'
    BY <2>1 DEF CreateOutput, ReadSenderKey, runVars
  <2>2. CASE CreateBypass
    BY <2>2 DEF CreateBypass, runVars
  <2>3. CASE ServeFail \/ ServeSend \/ ServeEnd
    BY <2>3 DEF ServeFail, ServeSend, ServeEnd
  <2>4. CASE WatcherSelect
    BY <2>4 DEF WatcherSelect
  <2>5. CASE WatcherCancel
    BY <2>5 DEF WatcherCancel
  <2>6. CASE MuxStarts \/ MuxStops
    BY <2>6 DEF MuxStarts, MuxStops
  <2> QED BY <2>1, <2>2, <2>3, <2>4, <2>5, <2>6 DEF Background
<1> QED
  BY <1>1, <1>2 DEF LifeInv, MainKnows, ValidProps, Dead

LEMMA LifeStep == IndInv /\ LifeInv /\ [Next]_vars => LifeInv'
<1> SUFFICES ASSUME IndInv, LifeInv, [Next]_vars PROVE LifeInv'
  OBVIOUS
<1>1. TypeOK
  BY DEF IndInv
<1>2. CASE UNCHANGED vars
  BY <1>2 DEF vars, LifeInv, MainKnows, FailureOrder, ValidProps, Dead
<1>3. CASE ~Dead /\ Main
  BY <1>1, <1>3, LifeMain
<1>4. CASE ~Dead /\ Background
  BY <1>1, <1>4, LifeBackground
<1>5. ASSUME ~Dead, NEW c \in Clients,
             Call(c) \/ WaitChanCancelled(c) \/ Lock(c) \/ Handle(c)
      PROVE  LifeInv'
  BY <1>5, ClientFrame, ClientStream
     DEF mainVars, runVars, LifeInv, MainKnows, FailureOrder, ValidProps, Dead
<1> QED BY <1>2, <1>3, <1>4, <1>5 DEF Next, Terminated

-----------------------------------------------------------------------------
\* Each step is one of StreamLife's, or a stutter.

\* The phase of a process, without the order of CASE.
LEMMA PhaseOfPc ==
    ASSUME pc \in PCs
    PROVE  /\ pc \notin {"wait", "exited", "fatal", "crashed"} => lifePhase = "starting"
           /\ pc = "wait" => lifePhase = "running"
           /\ pc = "exited" => lifePhase = "over"
           /\ pc = "fatal" => lifePhase = "refused"
           /\ pc = "crashed" => lifePhase = "crashed"
BY DEF lifePhase

\* What is seen of a living stream, from main's place and the failures.
LEMMA StreamOfPc ==
    ASSUME ~Dead, MainKnows, FailureOrder, pc \in PCs
    PROVE  /\ pc \in BeforeMux => lifeStream = "none"
           /\ pc = "setABR" => lifeStream = "built"
           /\ pc \notin BeforeMux \cup Serving \cup {"setABR"} => lifeStream = "configured"
           /\ pc \in Serving =>
                lifeStream = IF muxSt = "stopped" THEN "stopped"
                             ELSE IF Failed THEN "failed" ELSE "served"
BY DEF lifeStream, MainKnows, FailureOrder, BeforeMux, Serving, Dead

\* An error of Start, or what it refuses, while nothing served is well.
LEMMA Refusal ==
    ASSUME ~Dead, pc \in PCs \ {"wait"}, lifeStream # "served", cfg' = cfg, pc' = "fatal"
    PROVE  Life!Refuse
<1>1. lifePhase = "starting"
  BY PhaseOfPc DEF Dead
<1>2. lifePhase' = "refused" /\ Dead'
  BY DEF lifePhase, Dead
<1>3. lifeStream' = "none" /\ lifeConfig' = NoABR
  BY <1>2 DEF lifeStream, lifeConfig
<1> QED BY <1>1, <1>2, <1>3 DEF Life!Refuse, Life!Leave

\* A step of main behind which others see the process as before.
LEMMA Unseen ==
    ASSUME IndInv, LifeInv, LifeInv', ~Dead, UNCHANGED <<cfg, abr>>,
           TypeOK', ~Dead', pc # "wait", pc' # "wait",
           \/ pc \in BeforeMux /\ pc' \in BeforeMux
           \/ /\ pc \notin BeforeMux \cup Serving \cup {"setABR"}
              /\ pc' \notin BeforeMux \cup Serving \cup {"setABR"}
    PROVE  UNCHANGED Life!lifeVars
<1>1. pc \in PCs /\ pc' \in PCs /\ MainKnows /\ FailureOrder /\ MainKnows' /\ FailureOrder'
  BY DEF IndInv, TypeOK, LifeInv
<1>2. lifePhase = "starting" /\ lifePhase' = "starting"
  BY <1>1 DEF lifePhase, Dead
<1>3. lifeStream' = lifeStream
  <2>1. CASE pc \in BeforeMux /\ pc' \in BeforeMux
    BY <1>1, <2>1 DEF lifeStream, MainKnows, BeforeMux
  <2>2. CASE pc \notin BeforeMux /\ pc' \notin BeforeMux
    BY <1>1, <2>2 DEF lifeStream, MainKnows, BeforeMux, Serving
  <2> QED BY <2>1, <2>2
<1>4. lifeConfig' = lifeConfig
  BY DEF lifeConfig
<1> QED BY <1>2, <1>3, <1>4 DEF Life!lifeVars

LEMMA MainLife ==
    ASSUME IndInv, LifeInv, LifeInv', TypeOK', ~Dead, Main
    PROVE  [Life!LifeNext]_(Life!lifeVars)
<1>1. /\ pc \in PCs /\ MainKnows /\ FailureOrder /\ cfg' = cfg
      /\ cfg \in Configs /\ cfg.abr \in AbrCfgs \cup {NoABR}
  BY ConstantsAssumption, MainFrame DEF IndInv, TypeOK, LifeInv
<1>2. ~Dead' => MainKnows' /\ FailureOrder'
  BY DEF LifeInv
<1> USE DEF muxVars, StartFails
<1>13. CASE Listen /\ pc' = "fatal"
  <2>1. pc = "new"
    BY <1>13 DEF Listen
  <2>2. lifeStream = "none"
    BY <1>1, <2>1, StreamOfPc DEF BeforeMux
  <2> QED BY <1>1, <1>13, <2>1, <2>2, Refusal DEF Life!LifeNext
<1>3. CASE \/ Listen /\ pc' # "fatal"
           \/ AddInput \/ AddOutputTemplate \/ Configured \/ DeriveContext
  <2>1. pc \in BeforeMux /\ pc' \in BeforeMux /\ abr' = abr
    BY <1>3 DEF Listen, AddInput, AddOutputTemplate, Configured, DeriveContext, BeforeMux
  <2>2. ~Dead' /\ pc # "wait" /\ pc' # "wait"
    BY <2>1 DEF BeforeMux, Dead
  <2> QED BY <1>1, <2>1, <2>2, Unseen
<1>4. CASE RefuseStart
  <2>1. pc = "start" /\ pc' = "fatal"
    BY <1>4 DEF RefuseStart
  <2>2. lifeStream = "none"
    BY <1>1, <2>1, StreamOfPc DEF BeforeMux
  <2> QED BY <1>1, <2>1, <2>2, Refusal DEF Life!LifeNext
<1>5. CASE NewMux
  <2>1. pc = "newMux" /\ lifePhase = "starting" /\ lifeStream = "none"
    BY <1>1, <1>5, StreamOfPc, PhaseOfPc DEF NewMux, BeforeMux
  <2>2. CASE pc' = "fatal"
    BY <1>1, <2>1, <2>2, Refusal DEF Life!LifeNext
  <2>3. CASE pc' = "setABR"
    <3>1. mux' /\ abr' = abr /\ ~Dead'
      BY <1>5, <2>3 DEF NewMux, Dead
    <3>2. lifeStream' = "built" /\ lifePhase' = "starting" /\ lifeConfig' = lifeConfig
      BY <2>3, <3>1 DEF lifeStream, lifePhase, lifeConfig
    <3> QED BY <1>1, <2>1, <3>2 DEF Life!LifeNext, Life!Build, Life!Move
  <2> QED BY <1>5, <2>2, <2>3 DEF NewMux
<1>6. CASE StartSetABR
  <2>1. pc = "setABR" /\ lifePhase = "starting" /\ lifeStream = "built"
    BY <1>1, <1>6, StreamOfPc, PhaseOfPc DEF StartSetABR
  <2>2. CASE pc' = "fatal"
    BY <1>1, <2>1, <2>2, Refusal DEF Life!LifeNext
  <2>3. CASE pc' = "switch"
    <3>1. abr' = cfg.abr /\ ~Dead' /\ pc' \in PCs
      BY <1>6, <2>3 DEF StartSetABR, StoreAbr, Dead, PCs
    <3>2. mux' /\ serve' = "off"
      BY <1>2, <2>3, <3>1 DEF MainKnows, BeforeMux, Serving
    <3>3. lifeStream' = "configured" /\ lifePhase' = "starting" /\ lifeConfig' = cfg.abr
      BY <2>3, <3>1, <3>2 DEF lifeStream, lifePhase, lifeConfig
    <3> QED BY <1>1, <2>1, <3>3 DEF Life!LifeNext, Life!Configure, Life!Move
  <2> QED BY <1>6, <2>2, <2>3 DEF StartSetABR
<1>7. CASE StartSwitch
  <2>1. pc = "switch" /\ lifeStream = "configured"
    BY <1>1, <1>7, StreamOfPc DEF StartSwitch, BeforeMux, Serving
  <2>2. CASE pc' = "fatal"
    BY <1>1, <2>1, <2>2, Refusal DEF Life!LifeNext
  <2>3. CASE pc' \in {"serve", "range"}
    <3>1. abr' = abr /\ ~Dead'
      BY <1>7, <2>3 DEF StartSwitch, Dead
    <3> QED BY <1>1, <2>1, <2>3, <3>1, Unseen DEF BeforeMux, Serving
  <2> QED BY <1>7, <2>2, <2>3 DEF StartSwitch
<1>8. CASE StartRange
  <2>1. pc = "range" /\ lifePhase = "starting" /\ lifeStream = "configured"
    BY <1>1, <1>8, StreamOfPc, PhaseOfPc DEF StartRange, BeforeMux, Serving
  <2>2. CASE abr = NoABR
    <3>1. pc' = "crashed" /\ cfg.abr # NoABR
      BY <1>8, <2>1, <2>2 DEF StartRange, IndInv, AbrOwner
    <3>2. lifePhase' = "crashed" /\ Dead'
      BY <3>1 DEF lifePhase, Dead
    <3>3. lifeStream' = "none" /\ lifeConfig' = NoABR /\ lifeConfig = NoABR
      BY <2>2, <3>2 DEF lifeStream, lifeConfig
    <3> QED BY <1>1, <2>1, <3>1, <3>2, <3>3 DEF Life!LifeNext, Life!Crash, Life!Leave
  <2>3. CASE abr # NoABR
    <3>1. pc' = "spawn" /\ abr' = abr /\ ~Dead'
      BY <1>8, <2>3 DEF StartRange, Dead
    <3> QED BY <1>1, <2>1, <3>1, Unseen DEF BeforeMux, Serving
  <2> QED BY <2>2, <2>3
<1>9. CASE SpawnRung \/ SpawnBypass \/ WaitPreinit
  <2>1. pc \in {"spawn", "wgWait"} /\ pc' \in {"spawn", "wgWait", "serve"} /\ abr' = abr
    BY <1>9 DEF SpawnRung, SpawnBypass, WaitPreinit, mainVars
  <2>2. ~Dead'
    BY <2>1 DEF Dead
  <2> QED BY <1>1, <2>1, <2>2, Unseen DEF BeforeMux, Serving
<1>10. CASE StartServe
  <2>1. pc = "serve" /\ lifePhase = "starting" /\ lifeStream = "configured"
    BY <1>1, <1>10, StreamOfPc, PhaseOfPc DEF StartServe, BeforeMux, Serving
  <2>2. /\ pc' = "waitForStart" /\ serve' = "run" /\ watcher' = "select" /\ abr' = abr
        /\ muxSt' = "new" /\ errCh' = 0 /\ mux' /\ ~Dead'
    BY <1>1, <1>10 DEF StartServe, MainKnows, FailureOrder, BeforeMux, Serving, Dead
  <2>3. lifeStream' = "served" /\ lifePhase' = "starting" /\ lifeConfig' = lifeConfig
    BY <2>2 DEF lifeStream, lifePhase, lifeConfig, Failed
  <2>4. cfg \in Startable
    BY <1>1, <2>1 DEF Startable, MainKnows, AfterWait
  <2> QED BY <1>1, <2>1, <2>3, <2>4 DEF Life!LifeNext, Life!Serve, Life!Move
<1>11. CASE WaitForStart
  <2>1. pc = "waitForStart" /\ lifePhase = "starting"
    BY <1>1, <1>11, PhaseOfPc DEF WaitForStart
  <2>2. lifeStream = IF muxSt = "stopped" THEN "stopped"
                     ELSE IF Failed THEN "failed" ELSE "served"
    BY <1>1, <2>1, StreamOfPc DEF Serving
  <2>3. CASE pc' = "fatal"
    <3>1. ctx = "cancelled"
      BY <1>11, <2>3 DEF WaitForStart
    <3>2. lifeStream # "served"
      BY <1>1, <2>2, <3>1 DEF FailureOrder, Failed
    <3> QED BY <1>1, <2>1, <2>3, <3>2, Refusal DEF Life!LifeNext
  <2>4. CASE pc' = "wait"
    <3>1. UNCHANGED <<mux, abr, serve, errCh, watcher, muxSt>> /\ ~Dead'
      BY <1>11, <2>4 DEF WaitForStart, runVars, Dead
    <3>2. lifeStream' = lifeStream /\ lifePhase' = "running" /\ lifeConfig' = lifeConfig
      BY <2>1, <2>4, <3>1 DEF lifeStream, lifePhase, lifeConfig, Failed, Dead
    <3>3. lifeStream \in {"served", "failed", "stopped"}
      BY <2>2
    <3> QED BY <1>1, <2>1, <3>2, <3>3 DEF Life!LifeNext, Life!Run
  <2> QED BY <1>11, <2>3, <2>4 DEF WaitForStart
<1>12. CASE Wait
  <2>1. pc = "wait" /\ muxSt = "stopped" /\ pc' = "exited"
    BY <1>12 DEF Wait
  <2>2. lifePhase = "running" /\ lifeStream = "stopped"
    BY <1>1, <2>1, StreamOfPc, PhaseOfPc DEF Serving
  <2>3. lifePhase' = "over" /\ Dead'
    BY <2>1 DEF lifePhase, Dead
  <2>4. lifeStream' = "none" /\ lifeConfig' = NoABR
    BY <2>3 DEF lifeStream, lifeConfig
  <2> QED BY <1>1, <2>2, <2>3, <2>4 DEF Life!LifeNext, Life!Exit, Life!Leave
<1> QED
  BY <1>3, <1>4, <1>5, <1>6, <1>7, <1>8, <1>9, <1>10, <1>11, <1>12, <1>13 DEF Main

\* Start's goroutines: the first failure, the cancelled mux's stop, and nothing
\* else that others see.
LEMMA BackgroundLife ==
    ASSUME IndInv, LifeInv, LifeInv', ~Dead, Background
    PROVE  [Life!LifeNext]_(Life!lifeVars)
<1>1. UNCHANGED <<cfg, pc, mux, abr>>
  BY BackgroundFrame DEF mainVars
<1>2. lifePhase' = lifePhase /\ lifeConfig' = lifeConfig /\ ~Dead'
  BY <1>1 DEF lifePhase, lifeConfig, Dead
<1>3. MainKnows /\ FailureOrder /\ errCh \in Nat
  BY ConstantsAssumption DEF LifeInv, IndInv, TypeOK
<1>4. ASSUME UNCHANGED <<serve, muxSt, Failed>>
      PROVE  [Life!LifeNext]_(Life!lifeVars)
  BY <1>1, <1>2, <1>4 DEF lifeStream, Life!lifeVars
<1>5. CASE UNCHANGED <<serve, muxSt, errCh, watcher>>
  BY <1>4, <1>5 DEF Failed
<1>6. ASSUME NEW i \in Rungs, CreateOutput(i) \/ \E f \in Fields : ReadSenderKey(i, f)
      PROVE  [Life!LifeNext]_(Life!lifeVars)
  BY <1>5, <1>6 DEF CreateOutput, ReadSenderKey, runVars
<1>7. CASE CreateBypass
  BY <1>5, <1>7 DEF CreateBypass, runVars
<1>8. CASE ServeFail
  <2>1. serve = "run" /\ serve' = "send" /\ UNCHANGED <<errCh, watcher, muxSt>>
    BY <1>8 DEF ServeFail
  <2>2. lifeStream' = lifeStream
    BY <1>1, <1>2, <2>1 DEF lifeStream, Failed
  <2> QED BY <1>1, <1>2, <2>2 DEF Life!lifeVars
<1>9. CASE ServeSend \/ ServeEnd
  <2>1. serve # "off" /\ serve' # "off" /\ Failed' /\ muxSt' = muxSt
    BY <1>3, <1>9 DEF ServeSend, ServeEnd, Failed
  <2>2. mux /\ pc # "setABR"
    BY <1>3, <2>1 DEF MainKnows, BeforeMux, Serving
  <2>3. CASE Failed \/ muxSt = "stopped"
    BY <1>1, <1>2, <2>1, <2>2, <2>3 DEF lifeStream, Life!lifeVars
  <2>4. CASE ~Failed /\ muxSt # "stopped"
    <3>1. lifeStream = "served" /\ lifeStream' = "failed"
      BY <1>1, <1>2, <2>1, <2>2, <2>4 DEF lifeStream
    <3> QED BY <1>1, <1>2, <3>1 DEF Life!LifeNext, Life!Fail, Life!Move
  <2> QED BY <2>3, <2>4
<1>10. CASE WatcherSelect
  <2>1. watcher = "select" /\ watcher' = "cancel" /\ UNCHANGED <<serve, muxSt>>
    BY <1>10 DEF WatcherSelect
  <2>2. Failed
    BY <1>3, <1>10, <2>1 DEF WatcherSelect, FailureOrder, Failed
  <2>3. Failed'
    BY <2>1 DEF Failed
  <2>4. lifeStream' = lifeStream
    BY <1>1, <1>2, <2>1, <2>2, <2>3 DEF lifeStream
  <2> QED BY <1>1, <1>2, <2>4 DEF Life!lifeVars
<1>11. CASE WatcherCancel
  <2>1. UNCHANGED <<serve, muxSt>> /\ Failed /\ Failed'
    BY <1>11 DEF WatcherCancel, Failed
  <2>2. lifeStream' = lifeStream
    BY <1>1, <1>2, <2>1 DEF lifeStream
  <2> QED BY <1>1, <1>2, <2>2 DEF Life!lifeVars
<1>12. CASE MuxStarts
  <2>1. muxSt # "stopped" /\ muxSt' # "stopped" /\ UNCHANGED <<serve, errCh, watcher>>
    BY <1>12 DEF MuxStarts
  <2>2. lifeStream' = lifeStream
    BY <1>1, <1>2, <2>1 DEF lifeStream, Failed
  <2> QED BY <1>1, <1>2, <2>2 DEF Life!lifeVars
<1>13. CASE MuxStops
  <2>1. /\ muxSt # "stopped" /\ muxSt' = "stopped" /\ watcher = "done"
        /\ UNCHANGED <<serve, errCh, watcher>>
    BY <1>3, <1>13 DEF MuxStops, FailureOrder
  <2>2. serve # "off" /\ mux /\ pc # "setABR"
    BY <1>3, <2>1 DEF FailureOrder, MainKnows, BeforeMux, Serving
  <2>3. lifeStream = "failed" /\ lifeStream' = "stopped"
    BY <1>1, <1>2, <2>1, <2>2 DEF lifeStream, Failed
  <2> QED BY <1>1, <1>2, <2>3 DEF Life!LifeNext, Life!Stop, Life!Move
<1> QED
  BY <1>6, <1>7, <1>8, <1>9, <1>10, <1>11, <1>12, <1>13 DEF Background

\* A handler: a client's config, in one step, and nothing else that others see.
LEMMA ClientLife ==
    ASSUME IndInv, LifeInv, TypeOK', ~Dead, NEW c \in Clients,
           Call(c) \/ WaitChanCancelled(c) \/ Lock(c) \/ Handle(c)
    PROVE  [Life!LifeNext]_(Life!lifeVars)
<1>1. UNCHANGED <<cfg, pc, serve, errCh, watcher, muxSt, mux>> /\ (abr' = abr \/ mux)
  BY ClientFrame, ClientStream DEF mainVars, runVars
<1>2. lifePhase' = lifePhase /\ lifeStream' = lifeStream /\ ~Dead'
  BY <1>1 DEF lifePhase, lifeStream, Failed, Dead
<1>3. lifeConfig = abr /\ lifeConfig' = abr'
  BY <1>2 DEF lifeConfig
<1>4. CASE abr' = abr
  BY <1>1, <1>2, <1>3, <1>4 DEF Life!lifeVars
<1>5. CASE mux
  <2>1. lifeStream # "none"
    BY <1>5 DEF lifeStream
  <2>2. lifeConfig' \in AbrCfgs \cup {NoABR}
    BY <1>3 DEF TypeOK
  <2> QED BY <1>1, <1>2, <2>1, <2>2 DEF Life!LifeNext, Life!SetConfig
<1> QED BY <1>1, <1>4, <1>5

LEMMA StepLife ==
    IndInv /\ LifeInv /\ IndInv' /\ LifeInv' /\ [Next]_vars
      => [Life!LifeNext]_(Life!lifeVars)
<1> SUFFICES ASSUME IndInv, LifeInv, IndInv', LifeInv', [Next]_vars
             PROVE  [Life!LifeNext]_(Life!lifeVars)
  OBVIOUS
<1>1. TypeOK'
  BY DEF IndInv
<1>2. CASE UNCHANGED vars
  <2>1. UNCHANGED <<cfg, lifePhase, lifeStream, lifeConfig>>
    BY <1>2 DEF vars, lifePhase, lifeStream, lifeConfig, Failed, Dead
  <2> QED BY <2>1 DEF Life!lifeVars
<1>3. CASE ~Dead /\ Main
  BY <1>1, <1>3, MainLife
<1>4. CASE ~Dead /\ Background
  BY <1>4, BackgroundLife
<1>5. ASSUME ~Dead, NEW c \in Clients,
             Call(c) \/ WaitChanCancelled(c) \/ Lock(c) \/ Handle(c)
      PROVE  [Life!LifeNext]_(Life!lifeVars)
  BY <1>1, <1>5, ClientLife
<1> QED BY <1>2, <1>3, <1>4, <1>5 DEF Next, Terminated

\* What is known of main's progress and of the order of failures is inductive.
THEOREM LifeInvariance == Spec => []LifeInv
<1>1. Spec => Init /\ [][Next]_vars
  BY DEF Spec
<1> QED BY <1>1, LifeInit, LifeStep, Invariance, PTL

\* The process lives the abstract life, whatever its clients do and whichever
\* way its pipeline fails (main.go, ffstream.go).
THEOREM LifeRefinement == Spec => LifeSpec
<1>1. Spec => Init /\ [][Next]_vars
  BY DEF Spec
<1>2. Init => Life!LifeInit
  BY DEF Init, Life!LifeInit, lifePhase, lifeStream, lifeConfig, Dead
<1> QED
  BY <1>1, <1>2, StepLife, Invariance, LifeInvariance, PTL DEF LifeSpec, Life!LifeSpec

=============================================================================
