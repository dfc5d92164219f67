# Formal model of ffstream

`ffstream` is a streaming process with an ffmpeg-like command line: it reads
inputs with fallbacks, transcodes or copies them through a stream mux
(`avpipeline/preset/streammux`), sends them to one output per resolution, and
is controlled over gRPC while it runs. This directory models the code in
`src/` in TLA+, checks small instances with TLC, and proves the main safety
results for every instance with TLAPS.

## 1. Inventory

| component | state | operations | hard part |
|---|---|---|---|
| process life cycle: `cmd/ffstream/main.go`, `FFStream.Start`/`Wait` | `StreamMux`, `OutputTemplates`, `cancelFunc`, Start's goroutines, `errCh` | New, AddInput, AddOutputTemplate, Start, Wait | the control socket answers from the first step on; a goroutine per rung shares `senderKey`; a failure has to end the process |
| control plane: `pkg/ffstreamserver` | none of its own but `stopTranscodingFunc` | one handler per RPC, each in a goroutine | handlers meet a half-built `FFStream`; some take `s.locker`, some none; a panic is answered OK |
| input registry: `AddInput`, `resource.go`, three handlers | `Inputs.InputChains`, `InputsInfo` (slices of slices) | AddInput, GetInputsInfo, SetInputCustomOption, SetStopInput | two lists under two locks; slices aliased across `append` |
| input factory: `input_factory.go` | `streamIndexNext`, `streamIndexMap`, `sourceIndex`, open sources | NewInput, StreamIndexAssign | partial failure while opening; reset of the index space under running workers; late packets |
| output senders: `sender_factory.go`, `set_drop_on_close.go` | `errorsStartedAt`, the retryable kernel | NewSender, open (with fallback), error handler, SetDropOnClose | time, retries, a setter racing a reopening |
| command line: `pkg/ffflag`, `flag.go`, `unknown_options.go`, the options in `main.go` | parser's collectors, encoders, ladder | Parse, parseFlags, the set-up of main | an argument's meaning depends on all before it |
| gRPC client library: `pkg/ffstreamserver/client` | a connection per call | one method per RPC, WaitChan, Monitor | a call given up may still run; a channel closed on end and on error alike; who closes the connection |
| Monitor stream: `grpc_server_monitor.go` | a monitor attached to a node | open, forward, close | the handler outlives its client until it notices |
| `ffstreamctl`: `cmd/ffstreamctl` | a process per command line | find, check, convert, call, print | exit codes against what happened; widths of numbers |
| conversions: `goconv` | none | to and from protobuf | fields lost in a round trip |
| SRT options, statistics, decoder factory, runtime, certificates, generated code | none, or external | | I/O and formatting |

How they interact: `main` owns the `FFStream` and calls it sequentially; the
gRPC server runs handlers against the same object at any time after `New`;
`Start` hands the mux a sender factory (`NewSender`) and connects the input
chains, whose factories call `NewInput`; the pipeline pushes packets through
`StreamIndexAssign` from its own goroutines; the mux calls `SetDropOnClose`;
`avpipeline.Serve` reports errors on `errCh`, whose reader cancels the context
that everything was built with. `ffstreamctl` is a process of its own per
command; it reaches the server through the client library, whose every method
opens a connection, makes one call and closes the connection.

`avpipeline` (`StreamMux`, `Serve`, `Retryable`, `InputWithFallback`) and the Go
runtime are not part of the repository. They appear in the models as far as
the code in `src/` uses them and are marked external in their comments.

What makes each component correct is stated by the properties of section 3;
the hazards they answer, with lines, are in `PROJECT.json`.

## 2. Modules

| module | models | extended by |
|---|---|---|
| `FFStream` | main, `Start`, its goroutines, `Wait`, the handlers on the mux | `MCFFStream` (instances), `FFStreamProofs` |
| `StreamLife` | abstract: the life of a process and of its stream, whatever clients do | instantiated by `FFStream` |
| `InputFactory` | one `InputFactory` | `MCInputFactory`, `InputFactoryProofs` |
| `StreamIndexSpace` | abstract: a collision-free index space per input | instantiated by `InputFactory` |
| `InputControl` | the input registry and the handlers on inputs | `MCInputControl`, `InputControlProofs` |
| `OutputRetry` | one output sender | `MCOutputRetry`, `OutputRetryProofs` |
| `CommandLine` | `Parser.Parse`, the left-over split of `parseFlags` | `EncoderFlags`, `CommandLineProofs` |
| `EncoderFlags` | the rest of `parseFlags`, the options `main` reads, `Start`'s check | `MCEncoderFlags`, `EncoderFlagsProofs` |
| `ControlCall` | a call from the client library to the handler and back, the streams, the addresses | `Ffstreamctl`, `MCControlCall`, `ControlCallProofs` |
| `SettingRegister` | abstract: settings that calls read and write, each at one moment | instantiated by `ControlCall` |
| `Ffstreamctl` | the processes of `ffstreamctl`, on top of `ControlCall` | `MCFfstreamctl`, `FfstreamctlProofs` |

Correspondence of state and actions to the code:

* **FFStream.** `pc` is the point main has reached. `Listen` is `New` and
  `getListener`, of whose errors main dies before it serves anything; every step
  of `Start` that others can observe is an action (`NewMux`, `StartSetABR`, `StartSwitch`,
  `StartRange`, `SpawnRung`, `SpawnBypass`, `WaitPreinit`, `StartServe`,
  `WaitForStart`). `mux`, `abr`, `calc`, `fps`, `current`, `outputs` are what
  the handlers read and write in `s.StreamMux`. A rung's goroutine copies
  `senderKey` one word at a time (`ReadSenderKey`), since nothing orders it
  with the loop's writes. A handler is `Call`, `Lock` if its method takes
  `s.locker`, its body, and `Answer`, which runs the deferred unlock.
  `SetAutoBitRateCalculator` is two actions because it looks at the handler
  twice. A nil dereference in main is the state `crashed`; in a handler it is
  the reply `panic`, which the client sees as OK.
* **InputFactory.** `NewInput` is a loop of `OpenResource` or `FailResource`
  and ends in `ReturnInput`, the reset under `f.Locker`. A worker takes a packet
  of the running input (`Push`) and calls `StreamIndexAssign` later, when the
  input may already be replaced. `log` remembers the answers since the last
  reset.
* **InputControl.** A Go slice is `[arr, len]`, its array lives on `heap` with a
  capacity; `AppendResource` writes in place or moves, as `append` does, for
  every capacity the runtime may choose up to `MaxRoom`. `AddInput` holds
  `s.locker` and the handlers `InputChainsLocker`, so the model lets them
  interleave except where `AddFactory` needs the latter.
  `int(priority)` wraps (`ToInt`): a priority beyond an int skips the loop that
  makes groups and panics at the index expression (`AppendPanics`). The
  handlers convert priorities and numbers in the same way, so that a huge one
  passes their range checks (`OutOfRange`, `GetResources`); what panics then is
  the handler, and it is answered OK.
* **OutputRetry.** `failing` is the time since `errorsStartedAt`; durations
  count ticks of the handler's sleep and saturate just above the timeout, so
  time may pass forever in a finite model. `held` is the kernel pointer a
  SetDropOnClose is using.
* **CommandLine.** One action per argument of `Parse` and per left-over
  argument of `parseFlags`; variables hold positions so that equal arguments
  are told apart.
* **EncoderFlags.** `step` goes on where `CommandLine` ends: the encoders, the
  ladder between its bounds, the options main parses sizes and sample rates
  from, the output templates, and `Start`, which refuses what cannot be
  encoded. Mappings, filters and unknown mux modes are fatal before that. A word
  that is a number or a size is a member of a small set. The bounds of the
  ladder have 64 bits when they are typed and are cut to 32 when they are used
  (`Uint32`, `Rungs`); `W32` is 2^32 or, in the instances, a smaller number
  above every height, since nothing but the remainder is computed with it.
* **ControlCall.** The methods of the client share one pattern, and so do the
  handlers; they are told apart by what they need and how they can end
  (`ChecksMux`, `DereferencesMux`, `Indexes`, `Infallible`, `Unimplemented`,
  `Undecodable`, `Unencodable`). `Begin`, `Dial`, `EncodeFails`, `Send`,
  `Receive` and `GiveUp` are the steps of a method, `Return` its deferred
  Close; `Handle` is a unary handler in the one critical section it has;
  `HandleWait`, `WaitReturns`, `WaitCancelled`, `HandleMonitor` and
  `MonitorEnds` are the two streaming ones. A request may be dropped, a
  connection may break or a context end at any moment, and the handler runs on.
  A panic is recovered and answered with success, as the recovery handler does.
  The five things that clients change (`Items`) are values; the rest of a reply
  is not modelled. The mux has an FPS fraction from the moment it is built
  (`StartMux`), and `Start` stores the config of the command line, or none, when
  clients already see the mux (`StoreConfig`). A config is what there is of it
  apart from its calculator: storing one (`Store`) either keeps the calculator
  there was or replaces it by one the config brings along (`Default`), as the
  external mux decides, and a nil config (`NilConfig`) takes the calculator away.
  Getters return what is there, be it `Default`, and the calculator's methods
  are refused while there is no handler (`ChecksHandler`). That the mux changes
  none of these settings by itself is an assumption about it.
* **SettingRegister.** An operation reads or writes one item, at one moment
  (`Effect`). The process has items of its own to store (`due`, `Provide`), once
  each. An item may have a base, which it is there with, goes with, and may be
  reset by (`Base`, `Usable`): the calculator has the config.
* **Ffstreamctl.** `CtlInit` starts no process; `Usage`, `Help`,
  `ConversionPanics` and `Run` are the four ways a command line is taken, and
  `Run` is the `Begin` of its call with the converted arguments. Numbers have
  two and three bits where the code has 32 and 64. What cobra does by itself is
  in it as far as it decides how the process ends: groups, `help`, `--help` and
  `completion` print a text and succeed (`OnlyPrints`), an unknown word is an
  error at the root and an argument elsewhere, and a negative number is taken
  for a flag unless it stands behind `--` (`TakenForFlag`). A good answer may
  still end in a panic when it is printed through an encoder or, in `monitor`,
  taken apart event by event (`Encoded`, `Finish`).

## 3. Runs

| run | question | bounds |
|---|---|---|
| `race` | what do two clients changing the auto bit rate do to a starting process? | 2 clients, ladders of 2 and 1 rungs; command lines with and without a ladder, one refused early (no inputs) and one late (no size) |
| `life` | does set-up end, is each call answered, does a failure end the process? | 1 client with all other operations, 6 command lines, an error channel of 1 |
| `factory` | leaks, nil map, index space, and the refinement | 2 workers, 2 resources of 2 streams, 4 openings (two whole inputs, or failures half-way) |
| `inputs` | registry against listing and setting | 4 inputs: two of one priority above a gap (one option does not parse), one of priority 0, one whose priority is no int; requests name priorities 0 and 1 and input numbers 0, 1 and one that is no int (priorities that are no int are requested in `range`); one client that lists and one that sets two option values (symmetric: they are only compared), spare capacity 0 or 1 |
| `output` | the retry clock and SetDropOnClose | timeouts -1, 0, 1, 3; 2 closers |
| `args` | what happens to each argument, and which lines start | all command lines of up to 5 arguments of 8 kinds; up to 4 groups of encoder flags, of sizes and flags apart from each other, of output options and `-map`, and of ladder bounds (within, outside and beyond 32 bits), in every order |
| `calls` | what a client and a server can rely on when calls overlap | 2 calls of 9 methods (every way to end, both streams), 2 values (as an FPS fraction one is refused, as a config one is nil), a listener in clear text and one with TLS, of which the target reaches one |
| `ctl` | what an exit code and a stored setting mean | 2 processes; with good arguments, one command of each kind (those of `Alike` end like another one); 17 variations and misuses |

Why the bounds are enough: two clients are needed for a handler to meet
another one, and a third only repeats a role; a ladder of two rungs is the
shortest in which a goroutine can read another rung's key; the error channel
is full with one error in it, which is the case the watcher's early exit
makes dangerous; two inputs in sequence are needed for a late packet; the
second resource of a group is appended in place or moves the group, by the
capacity the first one left; a timeout of three ticks lets a series of errors
be interrupted at each stage; four groups of flags let an option stand before,
between and after two occurrences of its flag; two calls overlap in every way
two calls can, and the settings are independent of each other, but for the
calculator of a config, which one call sets and another one or Start itself
replaces; a size that is
cut off from its `-s`, loses its dash or stands behind another collecting flag
needs three groups and the flag that closes them. No safety result rests on
these bounds: each is proved without them (section 4).

What the properties say, by run:

* `race`: `CheckedHandlerStays` (the second look at the handler finds it),
  `PreinitBeforeServe`, `RungReadsOwnOrLater` and `LastRungCovered` (what is
  left of "one output per rung" under the shared variable), and `LifeSpec`, the
  refinement of `StreamLife`. It contains that Start serves only a command line
  it can stream; that a stream which is served and well is neither refused nor
  ended, and main leaves only after its stream stopped; that the auto-bit-rate
  config is stored once by Start and afterwards only by a client that sees the
  stream; and that Start's nil dereference has one cause, such a client.
* `life`: `FailureEndsProcess`, `SetUpTerminates`, `CallsAnswered`.
* `factory`: `NoLeakedSource`, `MapReady`, `ZeroIsFirstStream`, and
  `IndexSpaceSpec`, the refinement, which contains that no two streams share an
  index.
* `inputs`: `NoInternalError` (the two lists agree whenever AddInput looks),
  `CrashOnlyByHugePriority` (every other input finds its group),
  `GroupsAgree` (incremental grouping equals `ByFallbackPriority`),
  `ListingFaithful` (a listing names each registered resource once, by the
  address the setters use), `AckedOptionVisible` (an acknowledged option is
  lost only if `append` moved the group in between).
* `output`: `GivesUpOnlyAfterTimeout`, `FailureResolved`,
  `NoLingerOnClosedKernel`.
* `args`: `EveryArgumentOnce`, `OptionsOfNextCollector`, `IndexSafe`,
  `OutputsPartition`; `RunsAtTypedResolution` (a process that encodes runs at
  the size typed before its codec, and there is no other way to start one);
  `LadderWithinBounds` (no rung is above the typed maximum or below a typed
  minimum that 32 bits hold, and the process crashes only if nothing lies
  between the bounds or 32 bits do not hold the maximum: this is all the cut of
  `flag.go:226-227` leaves of it).
* `calls`: `ConnectionReleased` (no way out of a method keeps its connection,
  but for a WaitChan that could not send), `MessageMeansStopped` (a wait's
  message is never early), `RegisterSpec` (the settings are the abstract
  register's: a call takes effect at most once, by the time it is answered well
  and never when refused, one that was given up possibly later; besides calls
  the process stores an FPS fraction and a config, once each; a calculator is
  what a call stored or what the config at hand brought along), `CallReturns`,
  `WaitersReleased` (a waiter learns of the end, by the message or by the
  connection that goes down with the process), `HandlersLeave` (no handler
  outlives its client for good).
* `ctl`: `ExitZeroMeansDone` (success means that the call was answered, that only
  a text was printed, or that the request of a monitor was sent),
  `TypedIsStored` (what clients put into the server was typed so, to the full
  width of each number; all else is what the process, or a config for its
  calculator, brings along).

`TypeOK` is checked in each component's safety run. Deadlock is checked
everywhere but in `args`, whose every behaviour ends. A process that ended
stutters in `FFStream`, `InputControl`, `ControlCall` and `Ffstreamctl`, and
only then; `Tick` is always possible in `OutputRetry`, so its deadlock check
says nothing and `FailureResolved` does.

### Disagreements with the code's own texts

Four runs exhibit a disagreement between what the code does and what the
repository says of it:

* `rungs` (`RungCreatesItsResolution`): the goroutines of the ladder use the
  loop's `senderKey` instead of their parameter (`ffstream.go:250`), while the
  log names the parameter's resolution.
* `end` (`EndRefusedOnlyIfNotStarted`): `End` says "transcoding is not started"
  while it runs, since `stopTranscodingFunc` is never assigned
  (`grpc_server.go:99`).
* `range` (`OutOfRangeRefused`): the priority just past the last chain is not
  "out of range" for `SetStopInput` and `SetInputCustomOption`
  (`grpc_server.go:345`, `:383`); it panics and is answered OK.
* `readme_line` (`ReadmeLineStarts`): the README's `ffmpeg` line with
  `-c:v libx264` and no size is refused by `Start` (`ffstream.go:141`).

Others were met while modelling and have no run of their own:

* the check for "at least one output" (`flag.go:109`) counts left-over
  arguments, so that a line with options only passes it and builds no output;
* a bare `host:port` is served with TLS by `getListener` (`listener.go:34`) and
  dialled in clear text by the client;
* `WaitChan` before `Start` dereferences a nil mux: the handler panics, the
  stream ends without a message and the client's channel is closed as if the
  stream were over;
* two comments of `commands.go` (`:445`, `:497`) name a command without its
  `video` word; typed like that it prints a help and exits with success;
* a comment of an end-to-end test (`e2e/full_e2e_test.go:40`) wants `-s` after
  `-c:v`; options there belong to the next collecting flag, or to the output;
* the format of an output is looked up under a key only `--f` can have
  (`main.go:111`).

### Fairness

* `FFStream`: weak fairness of main, of each goroutine and handler (the Go
  scheduler runs what can run), of the external calls Start makes returning,
  and of the mux starting once served and stopping once cancelled; strong
  fairness of taking `s.locker` (a starving waiter of a `sync.Mutex` is handed
  the lock). Nothing is assumed of clients, of the pipeline failing, or of its
  ending.
* `OutputRetry`: time passes, openings end in one way or another, the error
  handler runs, and `KernelLocker` starves nobody. Connections need never
  succeed and never break.
* `ControlCall`: weak fairness of each step of a method that has begun (its
  goroutine runs), of a queued handler, of a handler that waits for a stop or
  for its client's end, of a monitor's end once its client is gone (the send to
  a cancelled stream fails), of the connections to a process that is gone
  breaking, and of main returning once the mux stopped. Nobody has to begin a
  call or give one up, the mux need neither start nor stop, and a monitored
  node need never end.

## 4. Proofs

All theorems are checked by TLAPS and hold for every value of the constants
under the `ConstantsAssumption` of their module.

* **FFStreamProofs**: all the invariants of `race`. The inductive invariant adds
  to them which goroutines exist at each iteration and what `senderKey` holds
  (`LoopProgress`), where each copied word comes from (`CopiesOfSenderKey`),
  who may have cleared the handler (`AbrOwner`), which operation is past its
  check (`CheckedIsSetCalculator`), and that serving follows `wg.Wait`
  (`ServedAfterWait`). They are needed because the properties speak of the
  ladder as a whole or of the present handler, and a step only sees the shared
  variable and the present iteration.
  `Spec => LifeSpec` maps `pc` to a phase and reads the abstract stream off
  `mux`, `pc`, `serve`, the mux's state and `Failed` (an error in the channel,
  the end of the pipeline, or a watcher that has noticed). `NewMux` is `Build`,
  `StartSetABR` is `Configure`, `StartServe` is `Serve`, the first report of
  the pipeline is `Fail`, the mux's stop is `Stop`; main's remaining steps
  stutter but for its ways out. It needs `LifeInv`: what main knows by the point
  it has reached (`MainKnows`: which checks its command line has passed, and
  that clients see no mux before there is one), and that nothing fails before
  it is served, only the watcher cancels, and only a cancelled mux stops
  (`FailureOrder`).
* **InputFactoryProofs**: all the invariants of `factory`, and
  `Spec => IndexSpaceSpec`. The invariant relates the answers in `log` to the
  map and to the counter, which bounds every index in the map; the refinement
  maps an answer about a new stream to `Assign`, a reset to `Forget`, and
  everything else to a stutter.
* **OutputRetryProofs**: all the invariants of `output`. The retry clock is never
  ahead of the time the output has been down (`SeriesWithinDown`), and an
  output that ended had a clock past the timeout (`EndedLate`).
* **InputControlProofs**: all the invariants of `inputs`. `AckedOptionVisible`
  needs most of the invariant: a group fills its array and shares it with no other group
  (`HeapInv`), no input stands at two places (`Unique`), so that one write
  changes one resource; a slice taken by a handler stays within its array
  (`SliceInv`), whatever `append` does after; and what is shown agrees with what
  was acknowledged unless it is lost (`OptionInv`). `MainInv` relates the lengths
  of the two lists to the step of `AddInput` in between. `ListingFaithful` rests
  on what a registration keeps: a resource once shown is shown at the same
  address ever after, whichever array it is in (`PlacesKept`). With `GroupInv`
  (each group shows inputs of its own priority, in order, and no input is
  missing; a theorem of its own, `GroupContents`) a walk that stands at chain n
  has collected every input below it that was there when the walk began
  (`ListInv`, `WalkedTo`). `GroupsAgree` follows from `GroupInv` once the
  reference definition is understood: a finite set of numbers has exactly one
  ascending order (`Lined`, `OneLine`), which `Ascending` denotes
  (`AscendingIs`); each group is that of the inputs of its priority
  (`GroupAscends`), and the groups that are not empty are that of the priorities
  in use (`PrioritiesAscend`).
* **CommandLineProofs**: all the invariants of `args` that are about the parser,
  for every set of flags and command lines. What waits for the next collector
  stands behind everything collectors have taken (`Passed`), and each collector
  has one entry per occurrence (`Parallel`). `OrderInv` adds that each list grows
  and has only flags between its members. For `EveryArgumentOnce` the places an
  argument can be in are made one family of lists, and `Exact` says that these
  hold each argument passed so far once, but for the names of flags and `--`
  (`PlaceInv`); each action is then an instance of one lemma, by which a list is
  renamed or grows and nothing else changes (`Relabelled` from `Moved`).
  `OutputsPartition` holds up to the position of the split (`Cut`): the URLs
  cut the left-over arguments, which are in order, into one piece per output.
* **EncoderFlagsProofs**: `EncoderSpec => Spec` (the set-up implements the
  parser, whose theorems carry over), `RunsAtTypedResolution` and
  `LadderWithinBounds`. `FormatInv` says that the parser recorded a value of a
  flag only if it has the flag's format, so that a typed bound is a number
  (`BoundsAreNumbers`), and `CutNumber` relates it to what 32 bits leave of it.
  `EncoderInv` says that the encoder is what its flags
  collected and that the resolution is one of the values given under the key
  `s`; where such a value was typed follows from where the parser put it
  (`OrderInv`, `Passed`). `LadderInv` is about the rungs as a set; the best of
  them exists because a finite set of numbers has a greatest one (`Greatest`).
  `EncoderAssumption` says of the words that only `-s` becomes `s` without its
  dash, that the empty word is no option, size or number, and that the ladder is
  a finite, non-empty set of positive heights.
* **ControlCallProofs**: the invariants of `calls`, and `Spec => RegisterSpec`.
  `CallInv` says, call by call, which handler and which connection go with which
  step of the client, and that a good answer has a handler behind it that did
  the work; it is what makes the mapped status of a call follow the abstract
  one. The effect of a call is its `Handle`, before or after its client gave up;
  an answer maps to `Answer` or `Refuse`, giving up to `Abandon`, `StartMux` and
  `StoreConfig` to `Provide`, and the rest to stuttering steps. That a store
  treats the calculator as the register treats an item with a base is a lemma of
  its own (`StoreRefines`); a calculator's call that was answered finds its base
  there because the handler has checked it (`AnsweredHasHandler`). The exit of
  the process refines by changing no status.
* **FfstreamctlProofs**: the invariants of `ctl`. A step of a process is one of
  the calls or leaves them alone, so that `CtlSpec` implements `Spec` and
  everything above holds of the processes, the register included
  (`ProcessesRefineRegister`). `ExitZeroMeansDone` follows from `CallInv`, by
  which a good answer has a handler behind it, and from what a process may do
  before its call begins (`ProcessInv`, `DoneInv`). `TypedIsStored` needs that a
  request carries what was typed (`SentAsTyped`: a number that passed its check
  loses no bits), and that whatever else stores a setting stores `Default` or
  nothing (`StoreChanges`). `LinesAssumption` gives
  the arguments of the command lines their type.

Theorems state some invariants that no run repeats, since a checked property
contains them or they are steps on the way: `LockerHeldByHandler`,
`LockerHeldByCloser`, `NoCollision`, and `CrashOnlyByClient`, which the guard of
`StreamLife`'s `Crash` contains.

Where the code sorts, takes a maximum (the best rung of a ladder) or takes the
first option that parses (a priority), the definition is a choice of the one
value with a property, and what a proof uses of it is proved from that.

Only model-checked:

* the liveness properties (`FailureEndsProcess`, `SetUpTerminates`,
  `CallsAnswered`, `FailureResolved`, `CallReturns`, `WaitersReleased`,
  `HandlersLeave`), which need fairness and ENABLED;
* what the four runs with a disagreement show, which is a counterexample each.

## 5. Not modelled

* What packets and frames contain, codecs, bit rates and latencies as numbers:
  no property depends on them.
* What `GetPipelines`, the quality and the statistics readers return: they are
  read-only calls in `ControlCall`, their contents are counters of external
  objects.
* The conversions of `goconv`: stateless copies from field to field. What the
  models need of them is whether they may fail.
* SRT options: their calls are in `ControlCall`; libsrt is external and behind a
  build tag.
* Logging and its rotation, profiling, certificates, the decoder factory:
  I/O, or a single stateless call. Of the generated code only the service's
  method table and its streams matter, not the messages.
* What `ffstreamctl` prints, and the output formats of `monitor`.
* A data race on Go maps or slice headers as torn memory: the model interleaves
  whole reads and writes, except for `senderKey`, whose two words are apart.
  `GetInputsInfo` and the setters read `InputsInfo` without `s.locker`; only
  whole steps of `AddInput` are visible to them here.

## 6. Plan

Done: life cycle with its abstract specification and control plane, input
factory with its abstract specification, input registry, output sender, command
line up to `Start`, client library and streams with the abstract register,
`ffstreamctl`, and the proofs of all their safety invariants and of the three
refinements.

Next: the linger setting across a reopening of a retried output, which no text
of the repository says anything about.
