---------------------------- MODULE Ffstreamctl ----------------------------
(***************************************************************************)
(* ffstreamctl: a process per command line. cobra finds the command the    *)
(* words name, checks its flags and the number of its arguments; the       *)
(* command converts them, makes one call of the client library and prints  *)
(* the answer. Whatever goes wrong ends in logger.Panic; a line that names *)
(* a group of commands, or asks for help, only has a text printed, and     *)
(* that is a success.                                                      *)
(*                                                                         *)
(* A call of ControlCall is the call of one process. A command line is     *)
(* [path, args, flags]: words, argument tokens and flags. A token is a     *)
(* number, or Text; "--" among the flags means that one stands before the  *)
(* tokens. Numbers have 2 and 3 bits instead of 32 and 64.                 *)
(***************************************************************************)
EXTENDS ControlCall, Integers, SequencesExt

CONSTANTS
    CommandLines,   \* bound: the lines that are typed
    Text,           \* a token that is no number
    Event           \* the name of an event type of monitor

ASSUME TextAssumption == {Text, Event} \cap Int = {}
ASSUME LinesAssumption == \A l \in CommandLines : l.args \in Seq(Int \cup {Text, Event})

Max32 == 3
Max64 == 7

VARIABLES
    line,     \* per process: its command line
    exit,     \* per process: "none" before it starts, "running", how it ended
    request   \* per process: the converted arguments it calls with

ctlVars == <<line, exit, request>>

NoLine == [path |-> <<>>, args |-> <<>>, flags |-> {}]
NoRequest == <<>>

-----------------------------------------------------------------------------
\* The commands: the method each calls and the kinds of its arguments. "json"
\* is what it reads from its standard input, a natural number here.

StatsCommands ==
    {[path |-> <<"stats", "encoder">>, method |-> "GetStats", args |-> <<>>],
     [path |-> <<"stats", "bitrates">>, method |-> "GetBitRates", args |-> <<>>],
     [path |-> <<"stats", "latencies">>, method |-> "GetLatencies", args |-> <<>>],
     [path |-> <<"stats", "input_quality">>, method |-> "GetInputQuality", args |-> <<>>],
     [path |-> <<"stats", "output_quality">>, method |-> "GetOutputQuality", args |-> <<>>]}

EncoderCommands ==
    LET Auto(name, op) == <<"encoder", "auto_bitrate", "video", name, op>>
        Fps(op) == <<"encoder", "fps_fraction", op>>
    IN
    {[path |-> Auto("calculator", "get"), method |-> "GetVideoAutoBitRateCalculator",
      args |-> <<>>],
     [path |-> Auto("calculator", "set"), method |-> "SetVideoAutoBitRateCalculator",
      args |-> <<"json">>],
     [path |-> Auto("config", "get"), method |-> "GetVideoAutoBitRateConfig",
      args |-> <<>>],
     [path |-> Auto("config", "set"), method |-> "SetVideoAutoBitRateConfig",
      args |-> <<"json">>],
     [path |-> Fps("get"), method |-> "GetFPSFraction", args |-> <<>>],
     [path |-> Fps("set"), method |-> "SetFPSFraction", args |-> <<"u32", "u32">>]}

PipelineCommands ==
    {[path |-> <<"pipelines", "get">>, method |-> "GetPipelines", args |-> <<>>],
     [path |-> <<"monitor">>, method |-> "Monitor", args |-> <<"u64", "event">>]}

InputCommands ==
    {[path |-> <<"inputs", "info">>, method |-> "GetInputsInfo", args |-> <<>>],
     [path |-> <<"inputs", "set_custom_option">>, method |-> "SetInputCustomOption",
      args |-> <<"u32", "u32", "text", "text">>],
     [path |-> <<"inputs", "set_stop">>, method |-> "SetStopInput",
      args |-> <<"u32", "bool">>]}

OutputCommands ==
    {[path |-> <<"output", "switch">>, method |-> "SwitchOutputByProps",
      args |-> <<"text", "u32", "u32", "u64", "text", "u32", "u64", "u64">>]}

SRTCommands ==
    IF ~WithLibsrt THEN {}
    ELSE {[path |-> <<"stats", "output_srt">>, method |-> "GetOutputSRTStats",
           args |-> <<>>],
          [path |-> <<"srt", "flag", "int", "get">>, method |-> "GetSRTFlagInt",
           args |-> <<"flag">>],
          [path |-> <<"srt", "flag", "int", "set">>, method |-> "SetSRTFlagInt",
           args |-> <<"flag", "i64">>]}

Commands == StatsCommands \cup EncoderCommands \cup PipelineCommands
            \cup InputCommands \cup OutputCommands \cup SRTCommands
Paths == {c.path : c \in Commands}

\* Commands without a Run: the prefixes of the others, and three that nothing
\* was put under.
Groups ==
    UNION {{SubSeq(c.path, 1, n) : n \in 0..(Len(c.path) - 1)} : c \in Commands}
    \cup {<<"encoder", "config">>, <<"buffer">>, <<"buffer", "output">>}

\* What cobra adds: they print, too, and the scripts take no argument.
Scripts == {<<"completion", shell>> : shell \in {"bash", "fish", "powershell", "zsh"}}
Printers == Groups \cup {<<"help">>, <<"completion">>} \cup Scripts

KnownFlags == {"log-level", "remote-addr", "go-net-pprof-addr"}
FlagsOf(path) ==
    KnownFlags \cup {"help", "--"}
    \cup CASE path = <<"stats", "encoder">> -> {"title", "description", "profile"}
           [] path = <<"stats", "output_srt">> -> {"json"}
           [] path = <<"monitor">> ->
                {"include-packet-payload", "include-frame-payload", "do-decode",
                 "format", "unknown format"}
           [] path \in Scripts -> {"no-descriptions"}
           [] OTHER -> {}

-----------------------------------------------------------------------------
\* From a command line to a call

\* The command cobra finds: the longest known prefix of the words.
Known == Printers \cup Paths
Found ==
    [l \in CommandLines |->
       LET n == CHOOSE m \in 0..Len(l.path) :
                  /\ SubSeq(l.path, 1, m) \in Known
                  /\ \A j \in (m + 1)..Len(l.path) : SubSeq(l.path, 1, j) \notin Known
       IN  SubSeq(l.path, 1, n)]

\* The words and tokens that are left to the command.
Given(l) == Len(l.path) - Len(Found[l]) + Len(l.args)

\* A negative number is taken for a flag, unless it stands behind a "--".
TakenForFlag(l) ==
    "--" \notin l.flags /\ \E t \in ToSet(l.args) : t \in Int /\ t < 0

\* An unknown word is an error at the root; elsewhere it is an argument.
BadUsage(l) ==
    \/ Found[l] = <<>> /\ Given(l) > 0
    \/ l.flags \ FlagsOf(Found[l]) # {} \/ TakenForFlag(l)
    \/ Found[l] \in Scripts /\ "help" \notin l.flags /\ Given(l) > 0

\* A text is printed, and no command is run.
OnlyPrints(l) == Found[l] \in Printers \/ "help" \in l.flags
CommandOf(l) == CHOOSE c \in Commands : c.path = Found[l]

\* ExactArgs; monitor's event type may be left out.
WrongCount(l) ==
    LET c == CommandOf(l)
    IN  Given(l) # Len(c.args) /\ ~(c.method = "Monitor" /\ Given(l) = 1)

\* Mutant: numbers are parsed with 64 bits and cut to 32 later.
AcceptsWider(kind, t) ==
    CASE kind \in {"u32", "u64"} -> t \in 0..Max64
      [] kind = "i64" -> t \in -(Max64 + 1)..Max64
      [] kind = "bool" -> t \in {0, 1}
      [] kind = "event" -> t = Event
      [] kind \in {"json", "flag"} -> t # Text
      [] kind = "text" -> TRUE

\* ParseUint of either width, ParseBool and the other conversions.
Accepts(kind, t) ==
    CASE kind = "u32" -> t \in 0..Max32
      [] kind = "u64" -> t \in 0..Max64
      [] kind = "i64" -> t \in -(Max64 + 1)..Max64
      [] kind = "bool" -> t \in {0, 1}
      [] kind = "event" -> t = Event
      [] kind \in {"json", "flag"} -> t # Text
      [] kind = "text" -> TRUE

\* What the message carries: uint32(v) of a u32.
Carried(kind, t) == IF kind = "u32" /\ t \in Nat THEN t % (Max32 + 1) ELSE t

Converts(l) ==
    /\ "unknown format" \notin l.flags
    /\ \A i \in 1..Len(l.args) : Accepts(CommandOf(l).args[i], l.args[i])

Request(l) ==
    [i \in 1..Len(l.args) |-> Carried(CommandOf(l).args[i], l.args[i])]

-----------------------------------------------------------------------------
CtlInit ==
    /\ Init
    /\ line = [k \in Calls |-> NoLine]
    /\ exit = [k \in Calls |-> "none"]
    /\ request = [k \in Calls |-> NoRequest]

Typed(k, l) == exit[k] = "none" /\ line' = [line EXCEPT ![k] = l]
Ends(k, how) == exit' = [exit EXCEPT ![k] = how]

\* cobra returns an error, and main panics with it.
Usage(k) ==
    \E l \in CommandLines :
        /\ Typed(k, l)
        /\ BadUsage(l) \/ (~OnlyPrints(l) /\ WrongCount(l))
        /\ Ends(k, "panic")
        /\ UNCHANGED <<request, vars>>

\* cobra prints the help of a group or a command, or a script.
Help(k) ==
    \E l \in CommandLines :
        /\ Typed(k, l) /\ ~BadUsage(l) /\ OnlyPrints(l)
        /\ Ends(k, "zero")
        /\ UNCHANGED <<request, vars>>

\* assertNoError of a conversion.
ConversionPanics(k) ==
    \E l \in CommandLines :
        /\ Typed(k, l) /\ ~BadUsage(l) /\ ~OnlyPrints(l) /\ ~WrongCount(l)
        /\ ~Converts(l)
        /\ Ends(k, "panic")
        /\ UNCHANGED <<request, vars>>

\* The command enters its method of the client library.
Run(k) ==
    \E l \in CommandLines :
        /\ Typed(k, l) /\ ~BadUsage(l) /\ ~OnlyPrints(l) /\ ~WrongCount(l)
        /\ Converts(l)
        /\ Ends(k, "running")
        /\ request' = [request EXCEPT ![k] = Request(l)]
        /\ Begin(k)
        /\ method'[k] = CommandOf(l).method
        /\ method'[k] \in DOMAIN Writes => arg'[k] = Request(l)

\* The method returned no error. Monitor's only one is of its request; its
\* channel is read to the end, whatever ended it.
Answered(k) ==
    IF method[k] = "Monitor" THEN handler[k] # "none" ELSE result[k] = "ok"

\* Mutant: the error of the call is printed only.
FinishAnyway(k) ==
    /\ exit[k] = "running" /\ client[k] = "done"
    /\ Ends(k, "zero")
    /\ UNCHANGED <<line, request, vars>>

\* The answers that are printed through an encoder, which may refuse them, or
\* event by event, which takes each event's stream for granted.
Encoded ==
    {"GetStats", "GetBitRates", "GetLatencies", "GetInputQuality", "GetOutputQuality",
     "GetPipelines", "GetInputsInfo", "GetOutputSRTStats", "Monitor"} \cup Undecodable

\* The method has returned, or monitor's channel was closed: the answer is
\* printed.
Finish(k) ==
    /\ exit[k] = "running" /\ client[k] = "done"
    /\ \/ Answered(k) /\ Ends(k, "zero")
       \/ (~Answered(k) \/ method[k] \in Encoded) /\ Ends(k, "panic")
    /\ UNCHANGED <<line, request, vars>>

\* The library, the server and its process go on.
CallStep(k) ==
    /\ client[k] # "idle"
    /\ ClientStep(k) \/ ServerStep(k)
    /\ UNCHANGED ctlVars

ServerProcess ==
    /\ StartMux \/ StoreConfig \/ StopMux \/ Exit
    /\ UNCHANGED ctlVars

AllEnded ==
    /\ process = "gone" /\ \A k \in Calls : exit[k] \in {"zero", "panic"}
    /\ UNCHANGED <<vars, ctlVars>>

CtlNext ==
    \/ \E k \in Calls :
          Usage(k) \/ Help(k) \/ ConversionPanics(k) \/ Run(k) \/ Finish(k) \/ CallStep(k)
    \/ ServerProcess \/ AllEnded

CtlSpec == CtlInit /\ [][CtlNext]_<<vars, ctlVars>>

-----------------------------------------------------------------------------
\* Properties

\* A process that exits with success printed a text only, had its request for
\* a monitor sent, or had its call answered by a handler that did what it was
\* asked or panicked.
ExitZeroMeansDone ==
    \A k \in Calls :
        exit[k] = "zero" =>
            \/ client[k] = "idle" /\ OnlyPrints(line[k])
            \/ handler[k] # "none" /\ method[k] = "Monitor"
            \/ handler[k] \in {"answered", "panicked"}

\* Whatever a client put into the server was typed like that, number by number,
\* by the user of the command for it, and to the full width of the argument;
\* all else is what the process or a config brings along.
TypedIsStored ==
    \A i \in Items :
        setting[i] \notin {NoValue, Default} =>
            \E k \in Calls :
                /\ method[k] \in DOMAIN Writes /\ Writes[method[k]] = i
                /\ setting[i] = line[k].args
=============================================================================
