------------------------------ MODULE FFStream ------------------------------
(***************************************************************************)
(* Life cycle and control plane of one ffstream process: the main          *)
(* goroutine (cmd/ffstream/main.go) that builds an FFStream, starts it and *)
(* waits for it; the goroutines FFStream.Start leaves behind (one per rung *)
(* of the auto-bit-rate ladder, the pipeline's Serve, the watcher of its   *)
(* error channel); and the gRPC handlers that clients of the control       *)
(* socket run against the same FFStream at the same time.                  *)
(*                                                                         *)
(* streammux.StreamMux, avpipeline.Serve and context.Context are external: *)
(* they appear through what the code in src/ asks of them.                 *)
(***************************************************************************)
EXTENDS Integers, Sequences, FiniteSets

CONSTANTS
    Clients,     \* clients of the control socket, one outstanding call each
    Free,        \* s.locker is not held (not a client)
    NoABR,       \* nil *AutoBitRateVideoConfig: no auto-bit-rate handler
    AbrCfgs,     \* the non-nil auto-bit-rate configs, [ladder, autoByPass]
    MaxRungs,    \* bound: longest ladder of an auto-bit-rate config
    Configs,     \* command lines: what parseFlags may hand to main
    ReqProps,    \* output properties a client may ask for
    Fractions,   \* FPS fractions <<num, den>> a client may ask for
    Calculators, \* auto-bit-rate calculators a client may set
    DefaultCalc, \* the calculator a fresh handler starts with
    NoProps,     \* the mux was not switched to an output yet
    Ops,         \* bound: the operations clients use in this instance
    Bypass,      \* sender key of the pass-through output
    ErrCap       \* capacity of errCh (100 in the code)

Fields == {"width", "height"}
Resolution == [Fields -> Nat]
ZeroRes == [f \in Fields |-> 0]
Unread == -1                       \* a field of senderKey not copied yet
Rungs == 1..MaxRungs

\* streammuxtypes.SenderProps as far as SwitchOutputByProps looks at it:
\* is each codec "copy", the video resolution, is the sample rate non-zero.
Props == [videoCopy : BOOLEAN, resolution : Resolution,
          audioCopy : BOOLEAN, sampleRate : Nat]

MuxModes == {"Forbid", "DifferentOutputsSameTracks",
             "DifferentOutputsSameTracksSplitAV"}

AbrConfig == [ladder : Seq(Resolution), autoByPass : BOOLEAN]

\* What main learns from the command line.
Config == [listen : BOOLEAN, inputs : Nat, outputs : Nat, props : Props,
           muxMode : MuxModes, abr : AbrConfig \cup {NoABR}]

ASSUME ConstantsAssumption ==
    /\ Free \notin Clients
    /\ NoABR \notin AbrConfig
    /\ AbrCfgs \subseteq AbrConfig
    /\ MaxRungs \in Nat
    /\ \A a \in AbrCfgs : Len(a.ladder) <= MaxRungs
    /\ Configs \subseteq Config
    /\ \A k \in Configs : k.abr \in AbrCfgs \cup {NoABR}
    /\ ReqProps \subseteq Props
    /\ Fractions \subseteq Nat \X Nat
    /\ NoProps \notin Props
    /\ Bypass \notin Resolution
    /\ ErrCap \in Nat \ {0}

VARIABLES
    \* --- the main goroutine -------------------------------------------
    cfg,        \* the flags of this process
    pc,         \* where main is
    inputs,     \* inputs added so far (AddInput)
    templates,  \* len(s.OutputTemplates)
    ladder,     \* the range expression of Start's loop, evaluated once
    next,       \* the loop's next iteration
    senderKey,  \* senderKey.VideoResolution, shared by the loop's goroutines
    \* --- s.StreamMux ---------------------------------------------------
    mux,        \* s.StreamMux # nil
    abr,        \* config of its AutoBitRateHandler; NoABR: handler is nil
    abrBy,      \* history: who stored abr last
    calc,       \* the handler's Calculator
    fps,        \* its FPS fraction
    current,    \* sender props it was last switched to (or none yet)
    outputs,    \* sender keys of the outputs it has created
    muxSt,      \* what WaitForStart and WaitForStop wait for
    \* --- goroutines started by Start -----------------------------------
    rung,       \* the ladder's goroutines
    key,        \* the copy of senderKey each of them passes on
    bypass,     \* the pass-through goroutine
    ctx,        \* Start's derived context
    serve,      \* avpipeline.Serve
    errCh,      \* number of errors in the channel
    watcher,    \* the goroutine reading the channel
    \* --- the control socket --------------------------------------------
    locker,     \* holder of s.locker
    at,         \* where each client's handler is
    req,        \* its request
    reply       \* the last reply each client got

mainVars == <<cfg, pc, inputs, templates>>
loopVars == <<ladder, next, senderKey>>
muxVars == <<mux, abr, abrBy, calc, fps, current, outputs>>
goVars == <<rung, key, bypass>>
runVars == <<ctx, serve, errCh, watcher, muxSt>>
clientVars == <<locker, at, req, reply>>
vars == <<cfg, pc, inputs, templates, ladder, next, senderKey, mux, abr, abrBy,
          calc, fps, current, outputs, muxSt, rung, key, bypass, ctx, serve,
          errCh, watcher, locker, at, req, reply>>

NoReq == [op |-> "none"]

\* Handlers that take s.locker and fail while s.StreamMux is nil: the plain
\* readers, GetAutoBitRateCalculator, which also needs a handler, and the
\* setters.
ReadOps == {"GetVideoAutoBitRateConfig", "GetFPSFraction", "GetBitRates",
            "GetLatencies"}
LockedOps == ReadOps \cup
    {"GetVideoAutoBitRateCalculator", "SetVideoAutoBitRateConfig",
     "SetVideoAutoBitRateCalculator", "SetFPSFraction"}

\* Requests without a payload, and the ones with one.
AllRequests ==
    [op : ReadOps \cup {"GetVideoAutoBitRateCalculator", "GetCurrentOutput",
                        "GetStats", "WaitChan", "End"}]
    \cup [op : {"SetVideoAutoBitRateConfig"}, config : AbrCfgs \cup {NoABR}]
    \cup [op : {"SetVideoAutoBitRateCalculator"}, calc : Calculators]
    \cup [op : {"SetFPSFraction"}, fraction : Fractions]
    \cup [op : {"SwitchOutputByProps"}, props : ReqProps]
Requests == {r \in AllRequests : r.op \in Ops}

Dead == pc \in {"exited", "fatal", "crashed"}

Init ==
    /\ cfg \in Configs
    /\ pc = "new"
    /\ inputs = 0 /\ templates = 0
    /\ ladder = <<>> /\ next = 1 /\ senderKey = cfg.props.resolution
    /\ mux = FALSE /\ abr = NoABR /\ abrBy = "nobody" /\ calc = DefaultCalc
    /\ fps = <<0, 1>> /\ current = NoProps /\ outputs = {} /\ muxSt = "new"
    /\ rung = [i \in Rungs |-> "none"]
    /\ key = [i \in Rungs |-> [f \in Fields |-> Unread]]
    /\ bypass = "none"
    /\ ctx = "none" /\ serve = "off" /\ errCh = 0 /\ watcher = "off"
    /\ locker = Free
    /\ at = [c \in Clients |-> "idle"]
    /\ req = [c \in Clients |-> NoReq]
    /\ reply = [c \in Clients |-> "none"]

-----------------------------------------------------------------------------
\* The main goroutine before Start

\* ffstream.New, then getListener and the control server's goroutine if one was
\* asked for: the control socket answers before any input, output or mux exists.
\* Main dies of an error of New or getListener.
Listen ==
    /\ pc = "new"
    /\ pc' \in {"adding", "fatal"}
    /\ UNCHANGED <<cfg, inputs, templates, loopVars, muxVars, goVars, runVars,
                   clientVars>>

\* s.AddInput, under s.locker.
AddInput ==
    /\ pc = "adding" /\ inputs < cfg.inputs /\ locker = Free
    /\ inputs' = inputs + 1
    /\ UNCHANGED <<cfg, pc, templates, loopVars, muxVars, goVars, runVars,
                   clientVars>>

\* s.AddOutputTemplate, under s.locker.
AddOutputTemplate ==
    /\ pc = "adding" /\ inputs = cfg.inputs /\ templates < cfg.outputs
    /\ locker = Free
    /\ templates' = templates + 1
    /\ UNCHANGED <<cfg, pc, inputs, loopVars, muxVars, goVars, runVars,
                   clientVars>>

Configured ==
    /\ pc = "adding" /\ inputs = cfg.inputs /\ templates = cfg.outputs
    /\ pc' = "start"
    /\ UNCHANGED <<cfg, inputs, templates, loopVars, muxVars, goVars, runVars,
                   clientVars>>

-----------------------------------------------------------------------------
\* FFStream.Start. It holds no lock.

\* Mutant: Start does not look at the inputs.
StartRefusedByOutputs == mux \/ templates # 1

StartRefused == mux \/ inputs = 0 \/ templates # 1

\* An error from Start cancels the context it derived; main then dies of it.
StartFails ==
    /\ pc' = "fatal"
    /\ ctx' = IF ctx = "live" THEN "cancelled" ELSE ctx
    /\ UNCHANGED <<cfg, inputs, templates, loopVars, goVars, serve, errCh,
                   watcher, muxSt, clientVars>>

RefuseStart ==
    /\ pc = "start" /\ StartRefused
    /\ StartFails
    /\ UNCHANGED muxVars

\* The derived context; addCancelFnLocked stores its cancel function.
DeriveContext ==
    /\ pc = "start" /\ ~StartRefused
    /\ ctx' = "live"
    /\ pc' = "newMux"
    /\ UNCHANGED <<cfg, inputs, templates, loopVars, muxVars, goVars, serve,
                   errCh, watcher, muxSt, clientVars>>

\* s.StreamMux = NewWithCustomData: from here on every handler sees it.
NewMux ==
    /\ pc = "newMux"
    /\ \/ /\ mux' = TRUE
          /\ pc' = "setABR"
          /\ UNCHANGED <<cfg, inputs, templates, loopVars, abr, abrBy, calc,
                         fps, current, outputs, goVars, runVars, clientVars>>
       \/ StartFails /\ UNCHANGED muxVars

\* A config stored in the mux: a handler is built for a non-nil one, with the
\* calculator of the handler it replaces or the default one (external).
StoreAbr(a, who) ==
    /\ abr' = a
    /\ abrBy' = who
    /\ calc' \in {calc, DefaultCalc}

\* StreamMux.SetAutoBitRateVideoConfig from Start, outside s.locker, and the
\* two AddPush calls that connect the inputs.
StartSetABR ==
    /\ pc = "setABR"
    /\ \/ /\ StoreAbr(cfg.abr, "start")
          /\ pc' = "switch"
          /\ UNCHANGED <<cfg, inputs, templates, loopVars, mux, fps, current,
                         outputs, goVars, runVars, clientVars>>
       \/ StartFails /\ UNCHANGED muxVars

\* What SwitchOutputByProps requires of the properties.
ValidProps(p) ==
    /\ p.audioCopy \/ p.sampleRate # 0
    /\ p.videoCopy \/ p.resolution # ZeroRes

\* StreamMux.SwitchToOutputByProps: creates the output if it must.
SwitchTo(p) ==
    /\ current' = p
    /\ outputs' = outputs \cup {IF p.videoCopy THEN Bypass ELSE p.resolution}

\* s.SwitchOutputByProps with the command line's properties, and the choice
\* whether there is a ladder to pre-initialise.
StartSwitch ==
    /\ pc = "switch"
    /\ \/ /\ ValidProps(cfg.props)
          /\ SwitchTo(cfg.props)
          /\ pc' = IF cfg.abr = NoABR THEN "serve" ELSE "range"
          /\ UNCHANGED <<cfg, inputs, templates, loopVars, mux, abr, abrBy,
                         calc, fps, goVars, runVars, clientVars>>
       \/ StartFails /\ UNCHANGED muxVars

\* "range s.StreamMux.AutoBitRateHandler.ResolutionsAndBitRates" reads the
\* handler of that moment; without one, main dereferences nil and the process
\* dies.
StartRange ==
    /\ pc = "range"
    /\ IF abr = NoABR
       THEN pc' = "crashed" /\ UNCHANGED ladder
       ELSE pc' = "spawn" /\ ladder' = abr.ladder
    /\ UNCHANGED <<cfg, inputs, templates, next, senderKey, muxVars, goVars,
                   runVars, clientVars>>

\* Mutant: the goroutine is started before senderKey is written.
SpawnRungFirst ==
    /\ pc = "spawn" /\ next <= Len(ladder)
    /\ senderKey' = IF next > 1 THEN ladder[next - 1] ELSE senderKey
    /\ rung' = [rung EXCEPT ![next] = "run"]
    /\ next' = next + 1
    /\ UNCHANGED <<mainVars, ladder, muxVars, key, bypass, runVars, clientVars>>

\* One iteration: senderKey is declared outside the loop and overwritten here;
\* the new goroutine reads it when it gets to run.
SpawnRung ==
    /\ pc = "spawn" /\ next <= Len(ladder)
    /\ senderKey' = ladder[next]
    /\ rung' = [rung EXCEPT ![next] = "run"]
    /\ next' = next + 1
    /\ UNCHANGED <<mainVars, ladder, muxVars, key, bypass, runVars, clientVars>>

\* After the loop: the pass-through goroutine, if Start's own config says so.
SpawnBypass ==
    /\ pc = "spawn" /\ next > Len(ladder)
    /\ bypass' = IF cfg.abr.autoByPass THEN "run" ELSE "none"
    /\ pc' = "wgWait"
    /\ UNCHANGED <<cfg, inputs, templates, loopVars, muxVars, rung, key,
                   runVars, clientVars>>

\* wg.Wait()
PreinitDone == (\A i \in Rungs : rung[i] # "run") /\ bypass # "run"

\* Mutants: no wg.Wait; no wg.Add for the pass-through goroutine.
SkipPreinitWait ==
    /\ pc = "wgWait"
    /\ pc' = "serve"
    /\ UNCHANGED <<cfg, inputs, templates, loopVars, muxVars, goVars, runVars,
                   clientVars>>

WaitPreinitRungs ==
    /\ pc = "wgWait" /\ \A i \in Rungs : rung[i] # "run"
    /\ pc' = "serve"
    /\ UNCHANGED <<cfg, inputs, templates, loopVars, muxVars, goVars, runVars,
                   clientVars>>

WaitPreinit ==
    /\ pc = "wgWait" /\ PreinitDone
    /\ pc' = "serve"
    /\ UNCHANGED <<cfg, inputs, templates, loopVars, muxVars, goVars, runVars,
                   clientVars>>

\* errCh, the goroutine of avpipeline.Serve and the watcher.
StartServe ==
    /\ pc = "serve"
    /\ serve' = "run" /\ watcher' = "select"
    /\ pc' = "waitForStart"
    /\ UNCHANGED <<cfg, inputs, templates, loopVars, muxVars, goVars, ctx,
                   errCh, muxSt, clientVars>>

\* StreamMux.WaitForStart(ctx): started, or ctx was cancelled first.
WaitForStart ==
    /\ pc = "waitForStart"
    /\ \/ /\ muxSt # "new"
          /\ pc' = "wait"
          /\ UNCHANGED <<cfg, inputs, templates, loopVars, muxVars, goVars,
                         runVars, clientVars>>
       \/ ctx = "cancelled" /\ StartFails /\ UNCHANGED muxVars

\* s.Wait in main, with main's own context: returns once the mux stopped.
Wait ==
    /\ pc = "wait" /\ muxSt = "stopped"
    /\ pc' = "exited"
    /\ UNCHANGED <<cfg, inputs, templates, loopVars, muxVars, goVars, runVars,
                   clientVars>>

Main ==
    \/ Listen \/ AddInput \/ AddOutputTemplate \/ Configured
    \/ RefuseStart \/ DeriveContext \/ NewMux \/ StartSetABR \/ StartSwitch
    \/ StartRange \/ SpawnRung \/ SpawnBypass \/ WaitPreinit \/ StartServe
    \/ WaitForStart \/ Wait

-----------------------------------------------------------------------------
\* The pre-initialisation goroutines

\* Do they do anything in this mux mode?
CreatesOutputs == cfg.muxMode \in {"DifferentOutputsSameTracks",
                                   "DifferentOutputsSameTracksSplitAV"}

\* Goroutine i copies one word of the shared senderKey. Nothing orders the
\* copy with the loop's writes, and the two words may come from two writes.
ReadSenderKey(i, f) ==
    /\ rung[i] = "run" /\ CreatesOutputs /\ key[i][f] = Unread
    /\ key' = [key EXCEPT ![i] = [@ EXCEPT ![f] = senderKey[f]]]
    /\ UNCHANGED <<mainVars, loopVars, muxVars, rung, bypass, runVars,
                   clientVars>>

\* GetOrCreateOutput, whose error is only logged, and wg.Done.
CreateOutput(i) ==
    /\ rung[i] = "run"
    /\ CreatesOutputs => \A f \in Fields : key[i][f] # Unread
    /\ outputs' \in {outputs} \cup
         IF CreatesOutputs THEN {outputs \cup {key[i]}} ELSE {}
    /\ rung' = [rung EXCEPT ![i] = "done"]
    /\ UNCHANGED <<mainVars, loopVars, mux, abr, abrBy, calc, fps, current,
                   key, bypass, runVars, clientVars>>

CreateBypass ==
    /\ bypass = "run"
    /\ outputs' \in {outputs} \cup
         IF CreatesOutputs THEN {outputs \cup {Bypass}} ELSE {}
    /\ bypass' = "done"
    /\ UNCHANGED <<mainVars, loopVars, mux, abr, abrBy, calc, fps, current,
                   rung, key, runVars, clientVars>>

-----------------------------------------------------------------------------
\* Serving: avpipeline.Serve (external), the watcher, the mux's life

\* A node fails (or ends, or is cancelled) and Serve is about to report it ...
ServeFail ==
    /\ serve = "run"
    /\ serve' = "send"
    /\ UNCHANGED <<mainVars, loopVars, muxVars, goVars, ctx, errCh, watcher,
                   muxSt, clientVars>>

\* ... and does, unless errCh is full.
ServeSend ==
    /\ serve = "send" /\ errCh < ErrCap
    /\ serve' = "run" /\ errCh' = errCh + 1
    /\ UNCHANGED <<mainVars, loopVars, muxVars, goVars, ctx, watcher, muxSt,
                   clientVars>>

\* Serve returns and errCh is closed.
ServeEnd ==
    /\ serve = "run"
    /\ serve' = "ended"
    /\ UNCHANGED <<mainVars, loopVars, muxVars, goVars, ctx, errCh, watcher,
                   muxSt, clientVars>>

\* Mutant: the watcher takes an error that is not there.
WatcherSelectEmpty ==
    /\ watcher = "select"
    /\ errCh' = errCh - 1
    /\ watcher' = "cancel"
    /\ UNCHANGED <<mainVars, loopVars, muxVars, goVars, ctx, serve, muxSt,
                   clientVars>>

\* The watcher's select: cancelled, one error, or a closed channel. Whatever
\* it was, the watcher leaves and never reads again.
WatcherSelect ==
    /\ watcher = "select"
    /\ \/ /\ errCh > 0
          /\ errCh' = errCh - 1
       \/ /\ ctx = "cancelled" \/ (serve = "ended" /\ errCh = 0)
          /\ UNCHANGED errCh
    /\ watcher' = "cancel"
    /\ UNCHANGED <<mainVars, loopVars, muxVars, goVars, ctx, serve, muxSt,
                   clientVars>>

\* Mutant: the watcher leaves without cancelling.
WatcherLeaves ==
    /\ watcher = "cancel"
    /\ watcher' = "done"
    /\ UNCHANGED <<mainVars, loopVars, muxVars, goVars, ctx, serve, errCh,
                   muxSt, clientVars>>

\* Its deferred s.cancelFunc().
WatcherCancel ==
    /\ watcher = "cancel"
    /\ ctx' = "cancelled"
    /\ watcher' = "done"
    /\ UNCHANGED <<mainVars, loopVars, muxVars, goVars, serve, errCh, muxSt,
                   clientVars>>

\* External: the mux starts once the pipeline is served, and stops once the
\* context it was built with is cancelled.
MuxStarts ==
    /\ muxSt = "new" /\ serve # "off"
    /\ muxSt' = "started"
    /\ UNCHANGED <<mainVars, loopVars, muxVars, goVars, ctx, serve, errCh,
                   watcher, clientVars>>

MuxStops ==
    /\ muxSt # "stopped" /\ ctx = "cancelled"
    /\ muxSt' = "stopped"
    /\ UNCHANGED <<mainVars, loopVars, muxVars, goVars, ctx, serve, errCh,
                   watcher, clientVars>>

-----------------------------------------------------------------------------
\* gRPC handlers. A panic in one is recovered by the server's interceptor,
\* whose recovery handler returns nil: the client gets OK and an empty reply.
\* Deferred unlocks have run by then.

\* A client calls; GRPCServer runs the handler in a goroutine of its own.
Call(c) ==
    /\ at[c] = "idle" /\ cfg.listen /\ pc # "new"
    /\ \E r \in Requests : req' = [req EXCEPT ![c] = r]
    /\ at' = [at EXCEPT ![c] = "called"]
    /\ reply' = [reply EXCEPT ![c] = "none"]
    /\ UNCHANGED <<mainVars, loopVars, muxVars, goVars, runVars, locker>>

\* Mutant: the unlock is not deferred, and only the successful path has one.
AnswerKeepsLock(c, r) ==
    /\ reply' = [reply EXCEPT ![c] = r]
    /\ at' = [at EXCEPT ![c] = "idle"]
    /\ req' = [req EXCEPT ![c] = NoReq]
    /\ locker' = IF locker = c /\ r = "ok" THEN Free ELSE locker
    /\ UNCHANGED <<mainVars, loopVars, goVars, runVars>>

\* The handler returns; a lock it holds is released.
Answer(c, r) ==
    /\ reply' = [reply EXCEPT ![c] = r]
    /\ at' = [at EXCEPT ![c] = "idle"]
    /\ req' = [req EXCEPT ![c] = NoReq]
    /\ locker' = IF locker = c THEN Free ELSE locker
    /\ UNCHANGED <<mainVars, loopVars, goVars, runVars>>

\* s.locker.Lock()
Lock(c) ==
    /\ at[c] = "called" /\ req[c].op \in LockedOps /\ locker = Free
    /\ locker' = c
    /\ at' = [at EXCEPT ![c] = "locked"]
    /\ UNCHANGED <<mainVars, loopVars, muxVars, goVars, runVars, req, reply>>

Locked(c, op) == at[c] = "locked" /\ req[c].op = op
Called(c, op) == at[c] = "called" /\ req[c].op = op

\* Readers; the mux itself may fail them.
Read(c) ==
    /\ at[c] = "locked" /\ req[c].op \in ReadOps
    /\ \E r \in {"err"} \cup (IF mux THEN {"ok"} ELSE {}) : Answer(c, r)
    /\ UNCHANGED muxVars

GetAutoBitRateCalculator(c) ==
    /\ Locked(c, "GetVideoAutoBitRateCalculator")
    /\ Answer(c, IF mux /\ abr # NoABR THEN "ok" ELSE "err")
    /\ UNCHANGED muxVars

\* Mutant: SetAutoBitRateVideoConfig does not take s.locker.
SetAutoBitRateVideoConfigUnlocked(c) ==
    /\ Called(c, "SetVideoAutoBitRateConfig")
    /\ \/ /\ mux
          /\ StoreAbr(req[c].config, "client")
          /\ Answer(c, "ok")
          /\ UNCHANGED <<mux, fps, current, outputs>>
       \/ Answer(c, "err") /\ UNCHANGED muxVars

SetAutoBitRateVideoConfig(c) ==
    /\ Locked(c, "SetVideoAutoBitRateConfig")
    /\ \/ /\ mux
          /\ StoreAbr(req[c].config, "client")
          /\ Answer(c, "ok")
          /\ UNCHANGED <<mux, fps, current, outputs>>
       \/ Answer(c, "err") /\ UNCHANGED muxVars

\* SetAutoBitRateCalculator looks at the handler twice: to check it is there,
CheckAutoBitRateHandler(c) ==
    /\ Locked(c, "SetVideoAutoBitRateCalculator")
    /\ \/ /\ mux /\ abr # NoABR
          /\ at' = [at EXCEPT ![c] = "checked"]
          /\ UNCHANGED <<mainVars, loopVars, muxVars, goVars, runVars, locker,
                         req, reply>>
       \/ /\ ~mux \/ abr = NoABR
          /\ Answer(c, "err") /\ UNCHANGED muxVars

\* and to write to it. A nil handler panics here.
SetAutoBitRateCalculator(c) ==
    /\ at[c] = "checked"
    /\ IF abr = NoABR
       THEN Answer(c, "panic") /\ UNCHANGED calc
       ELSE Answer(c, "ok") /\ calc' = req[c].calc
    /\ UNCHANGED <<mux, abr, abrBy, fps, current, outputs>>

SetFPSFraction(c) ==
    /\ Locked(c, "SetFPSFraction")
    /\ LET num == req[c].fraction[1]
           den == req[c].fraction[2]
           accepted == mux /\ den # 0 /\ num % den = 0
       IN  /\ Answer(c, IF accepted THEN "ok" ELSE "err")
           /\ fps' = IF accepted THEN req[c].fraction ELSE fps
    /\ UNCHANGED <<mux, abr, abrBy, calc, current, outputs>>

\* SwitchOutputByProps takes no lock.
SwitchOutputByProps(c) ==
    /\ Called(c, "SwitchOutputByProps")
    /\ \/ /\ mux /\ ValidProps(req[c].props)
          /\ SwitchTo(req[c].props)
          /\ Answer(c, "ok")
          /\ UNCHANGED <<mux, abr, abrBy, calc, fps>>
       \/ Answer(c, "err") /\ UNCHANGED muxVars

\* GetTranscoderConfig does not check s.StreamMux.
GetCurrentOutput(c) ==
    /\ Called(c, "GetCurrentOutput")
    /\ Answer(c, IF mux THEN "ok" ELSE "panic")
    /\ UNCHANGED muxVars

GetStats(c) ==
    /\ Called(c, "GetStats")
    /\ Answer(c, "ok")
    /\ UNCHANGED muxVars

\* WaitChan blocks in FFStream.Wait, which does not check s.StreamMux either.
WaitChan(c) ==
    /\ Called(c, "WaitChan")
    /\ \/ /\ mux
          /\ at' = [at EXCEPT ![c] = "waiting"]
          /\ UNCHANGED <<mainVars, loopVars, muxVars, goVars, runVars, locker,
                         req, reply>>
       \/ ~mux /\ Answer(c, "panic") /\ UNCHANGED muxVars

\* It returns when the mux stopped,
WaitChanReturns(c) ==
    /\ at[c] = "waiting" /\ muxSt = "stopped"
    /\ Answer(c, "ok")
    /\ UNCHANGED muxVars

\* or when the client's context ends.
WaitChanCancelled(c) ==
    /\ at[c] = "waiting"
    /\ Answer(c, "err")
    /\ UNCHANGED muxVars

\* GRPCServer.stopTranscodingFunc: NewGRPCServer leaves it nil and no code
\* assigns it, so End has nothing to call.
stopTranscodingFunc == FALSE

End(c) ==
    /\ Called(c, "End")
    /\ reply' = [reply EXCEPT ![c] = IF stopTranscodingFunc THEN "ok" ELSE "err"]
    /\ ctx' = IF stopTranscodingFunc THEN "cancelled" ELSE ctx
    /\ at' = [at EXCEPT ![c] = "idle"]
    /\ req' = [req EXCEPT ![c] = NoReq]
    /\ UNCHANGED <<mainVars, loopVars, muxVars, goVars, serve, errCh, watcher,
                   muxSt, locker>>

Handle(c) ==
    \/ Read(c) \/ GetAutoBitRateCalculator(c) \/ SetAutoBitRateVideoConfig(c)
    \/ CheckAutoBitRateHandler(c) \/ SetAutoBitRateCalculator(c)
    \/ SetFPSFraction(c) \/ SwitchOutputByProps(c) \/ GetCurrentOutput(c)
    \/ GetStats(c) \/ WaitChan(c) \/ WaitChanReturns(c) \/ End(c)

-----------------------------------------------------------------------------

\* A dead process takes no step.
Terminated == Dead /\ UNCHANGED vars

Background ==
    \/ \E i \in Rungs : CreateOutput(i) \/ \E f \in Fields : ReadSenderKey(i, f)
    \/ CreateBypass
    \/ ServeFail \/ ServeSend \/ ServeEnd \/ WatcherSelect \/ WatcherCancel
    \/ MuxStarts \/ MuxStops

Next ==
    \/ /\ ~Dead
       /\ \/ Main
          \/ Background
          \/ \E c \in Clients : Call(c) \/ WaitChanCancelled(c) \/ Lock(c) \/ Handle(c)
    \/ Terminated

\* Goroutines run when they can; external calls of Start and of its goroutines
\* return; the pipeline stops on cancellation. sync.Mutex hands the lock to a
\* waiter that starves, hence strong fairness for Lock. Nothing is assumed of
\* the clients, of the pipeline failing, or of it ending by itself.
Fairness ==
    /\ WF_vars(~Dead /\ Main)
    /\ SF_vars(~Dead /\ (AddInput \/ AddOutputTemplate))
    /\ \A i \in Rungs :
         WF_vars(~Dead /\ (CreateOutput(i) \/ \E f \in Fields : ReadSenderKey(i, f)))
    /\ WF_vars(~Dead /\ CreateBypass)
    /\ WF_vars(~Dead /\ WatcherSelect)
    /\ WF_vars(~Dead /\ WatcherCancel)
    /\ WF_vars(~Dead /\ MuxStarts)
    /\ WF_vars(~Dead /\ MuxStops)
    /\ \A c \in Clients : /\ WF_vars(~Dead /\ Handle(c))
                          /\ SF_vars(~Dead /\ Lock(c))

Spec == Init /\ [][Next]_vars /\ Fairness

-----------------------------------------------------------------------------
\* Properties

PCs == {"new", "adding", "start", "newMux", "setABR", "switch", "range",
        "spawn", "wgWait", "serve", "waitForStart", "wait",
        "exited", "fatal", "crashed"}

\* Every variable has its type.
TypeOK ==
    /\ cfg \in Configs
    /\ pc \in PCs
    /\ inputs \in Nat /\ templates \in Nat
    /\ ladder \in Seq(Resolution) /\ Len(ladder) <= MaxRungs
    /\ next \in 1..(MaxRungs + 1)
    /\ senderKey \in Resolution
    /\ mux \in BOOLEAN
    /\ abr \in AbrCfgs \cup {NoABR}
    /\ abrBy \in {"nobody", "start", "client"}
    /\ calc \in Calculators \cup {DefaultCalc}
    /\ fps \in Nat \X Nat
    /\ current \in Props \cup {NoProps}
    /\ outputs \subseteq [Fields -> Int] \cup {Bypass}
    /\ muxSt \in {"new", "started", "stopped"}
    /\ rung \in [Rungs -> {"none", "run", "done"}]
    /\ key \in [Rungs -> [Fields -> Nat \cup {Unread}]]
    /\ bypass \in {"none", "run", "done"}
    /\ ctx \in {"none", "live", "cancelled"}
    /\ serve \in {"off", "run", "send", "ended"}
    /\ errCh \in 0..ErrCap
    /\ watcher \in {"off", "select", "cancel", "done"}
    /\ locker \in Clients \cup {Free}
    /\ at \in [Clients -> {"idle", "called", "locked", "checked", "waiting"}]
    /\ req \in [Clients -> Requests \cup {NoReq}]
    /\ reply \in [Clients -> {"none", "ok", "err", "panic"}]

\* s.locker is held by exactly the handlers that are between Lock and their
\* deferred Unlock, so by at most one; a handler that fails, or panics on a nil
\* handler, does not keep it.
LockerHeldByHandler ==
    \A c \in Clients : at[c] \in {"locked", "checked"} <=> locker = c

\* When Start was given an auto-bit-rate config, SetAutoBitRateCalculator never
\* panics on its second look at the handler: s.locker keeps other clients from
\* clearing it, and Start's own unlocked store never stores nil.
CheckedHandlerStays ==
    \A c \in Clients :
        at[c] = "checked" /\ cfg.abr # NoABR => abr # NoABR

\* Start crashes on the handler's ladder only if a client's request replaced
\* the config Start had stored two steps before.
CrashOnlyByClient == pc = "crashed" => abrBy = "client" /\ abr = NoABR

\* No node is served before every pre-initialisation goroutine is done
\* (wg.Wait), so none of them competes with the running pipeline.
PreinitBeforeServe == serve # "off" => PreinitDone

\* The goroutine of rung i never uses the resolution of an earlier rung, nor
\* the one senderKey was initialised with: each word it copied was written by
\* its own iteration or by a later one.
RungReadsOwnOrLater ==
    \A i \in Rungs, f \in Fields :
        key[i][f] # Unread =>
            \E j \in i..Len(ladder) : key[i][f] = ladder[j][f]

\* Whatever the goroutines' schedule, once Start is past wg.Wait an output was
\* asked for with exactly the last rung's resolution.
LastRungCovered ==
    LET n == Len(ladder) IN
    /\ pc \in {"serve", "waitForStart", "wait"}
    /\ n > 0 /\ CreatesOutputs
    => key[n] = ladder[n]

\* The life of the process as others see it. A process that is gone has no
\* stream.
lifePhase ==
    CASE pc = "wait" -> "running" [] pc = "exited" -> "over"
      [] pc = "fatal" -> "refused" [] pc = "crashed" -> "crashed"
      [] OTHER -> "starting"

Failed == errCh > 0 \/ serve = "ended" \/ watcher \in {"cancel", "done"}

lifeStream ==
    IF Dead \/ ~mux THEN "none"
    ELSE IF pc = "setABR" THEN "built"
    ELSE IF serve = "off" THEN "configured"
    ELSE IF muxSt = "stopped" THEN "stopped"
    ELSE IF Failed THEN "failed" ELSE "served"

lifeConfig == IF Dead THEN NoABR ELSE abr

Startable ==
    {k \in Configs : k.inputs > 0 /\ k.outputs = 1 /\ ValidProps(k.props)}

Life == INSTANCE StreamLife WITH
    command <- cfg, phase <- lifePhase, stream <- lifeStream,
    config <- lifeConfig

\* The process implements StreamLife: Start refuses rather than serving what it
\* was not asked for, main leaves by the watcher's cancel alone, and a client
\* changes the config only of a stream it can see, in one step under s.locker.
LifeSpec == Life!LifeSpec

\* A failure reported by the pipeline, or its end, ends the process: the
\* watcher cancels, the mux stops, Wait (or WaitForStart) returns in main.
FailureEndsProcess == (errCh > 0 \/ serve = "ended") ~> Dead

\* main gets through its set-up: it waits for the stream or it died, whatever
\* clients do to s.locker and to the mux meanwhile.
SetUpTerminates == (pc = "adding") ~> (pc = "wait" \/ Dead)

\* Every handler answers, except WaitChan while the stream runs; whichever
\* way the others end, they do not block the next one.
CallsAnswered ==
    \A c \in Clients :
        (at[c] = "called") ~> (at[c] \in {"idle", "waiting"} \/ Dead)

\* What the error log of a ladder goroutine says it did: it asked for the
\* output of its own rung (it does not: finding).
RungCreatesItsResolution ==
    \A i \in Rungs :
        rung[i] = "done" /\ CreatesOutputs => key[i] = ladder[i]

\* What End's error message says: "transcoding is not started" is not the
\* answer while main waits for a running stream (it is: finding).
EndRefusedOnlyIfNotStarted ==
    [][\A c \in Clients :
         Called(c, "End") /\ at'[c] = "idle" /\ pc = "wait" => reply'[c] = "ok"]_vars

=============================================================================
