---------------------------- MODULE CommandLine ----------------------------
(***************************************************************************)
(* How the command line becomes inputs, outputs and encoder options:       *)
(* ffflag.Parser.Parse walks the arguments and hands those it does not     *)
(* know to the next flag that collects them (pkg/ffflag/parser.go);        *)
(* parseFlags splits what is left over into outputs                        *)
(* (cmd/ffstream/flag.go) and pairs options with values                    *)
(* (cmd/ffstream/unknown_options.go).                                      *)
(*                                                                         *)
(* The variables hold positions in the command line, so that two equal     *)
(* arguments stay apart.                                                   *)
(***************************************************************************)
EXTENDS Integers, Sequences, FiniteSets, SequencesExt

CONSTANTS
    CommandLines,  \* bound: the command lines that are typed
    Collectors,    \* flags with an argument that collect unknown options
    Parameters,    \* flags with an argument that do not
    Switches,      \* flags without an argument
    Format,        \* per flag with a format of its own, the words that have it
    Options,       \* words with a dash that are no flag
    Words          \* words without a dash

WithArgument == Collectors \cup Parameters
Flags == WithArgument \cup Switches
Arguments == Flags \cup Options \cup Words \cup {"--", "-"}

ASSUME ConstantsAssumption ==
    /\ CommandLines \subseteq Seq(Arguments)
    /\ {"-i", "-version"} \subseteq Flags
    /\ "-i" \in Collectors /\ "-version" \in Switches
    /\ Collectors \cap Parameters = {} /\ WithArgument \cap Switches = {}
    /\ Flags \cap (Options \cup Words) = {} /\ Options \cap Words = {}
    /\ {"--", "-"} \cap (Flags \cup Options \cup Words) = {}
    /\ DOMAIN Format \subseteq WithArgument

VARIABLES
    args,       \* the command line, after the program's name
    status,     \* "parse", "check", "split", "build", or how the process ends
    idx,        \* the next argument, in Parse and then in the split
    next,       \* p.nextCollectorOfUnknownOptions
    values,     \* per flag, the arguments it was given
    collected,  \* per collecting flag, the options it collected each time
    unknown,    \* p.CollectedUnknownOptions
    nonFlags,   \* p.CollectedNonFlags
    nextOptions,  \* options of the output to come
    nextIsOption, \* the split has just seen an option
    outputs     \* <<position of the URL, positions of its options>>

parseVars == <<next, values, collected, unknown, nonFlags>>
splitVars == <<nextOptions, nextIsOption, outputs>>
vars == <<args, status, idx, next, values, collected, unknown, nonFlags,
          nextOptions, nextIsOption, outputs>>

Positions == 1..Len(args)

Init ==
    /\ args \in CommandLines
    /\ status = "parse" /\ idx = 1
    /\ next = <<>> /\ unknown = <<>> /\ nonFlags = <<>>
    /\ values = [f \in Flags |-> <<>>]
    /\ collected = [f \in Collectors |-> <<>>]
    /\ nextOptions = <<>> /\ nextIsOption = FALSE /\ outputs = <<>>

-----------------------------------------------------------------------------
\* Parser.Parse

AtArg(S) == status = "parse" /\ idx <= Len(args) /\ args[idx] \in S

\* A word, "-", or an option no flag has the name of.
CollectUnknown ==
    /\ AtArg(Words \cup Options \cup {"-"})
    /\ next' = Append(next, idx)
    /\ idx' = idx + 1
    /\ UNCHANGED <<args, status, values, collected, unknown, nonFlags, splitVars>>

\* Mutant: one more argument is set aside than there is.
DoubleDashOneMore ==
    /\ AtArg({"--"})
    /\ nonFlags' = [n \in 1..(Len(args) - idx + 1) |-> idx + n]
    /\ unknown' = next
    /\ status' = "check"
    /\ UNCHANGED <<args, idx, next, values, collected, splitVars>>

\* Everything after "--" is set aside.
DoubleDash ==
    /\ AtArg({"--"})
    /\ nonFlags' = [n \in 1..(Len(args) - idx) |-> idx + n]
    /\ unknown' = next
    /\ status' = "check"
    /\ UNCHANGED <<args, idx, next, values, collected, splitVars>>

ParseFlag ==
    /\ AtArg(Switches)
    /\ values' = [values EXCEPT ![args[idx]] = Append(@, idx)]
    /\ idx' = idx + 1
    /\ UNCHANGED <<args, status, next, collected, unknown, nonFlags, splitVars>>

\* Any string will do for a flag without a format.
Parses(flag, value) == flag \in DOMAIN Format => value \in Format[flag]

HasArgument == idx + 1 <= Len(args)

\* Mutants: the collector is not emptied; the argument is not skipped.
ParseParameterKeepsNext ==
    LET f == args[idx] IN
    /\ AtArg(WithArgument) /\ HasArgument /\ Parses(f, args[idx + 1])
    /\ values' = [values EXCEPT ![f] = Append(@, idx + 1)]
    /\ IF f \in Collectors
       THEN /\ collected' = [collected EXCEPT ![f] = Append(@, next)]
            /\ UNCHANGED next
       ELSE UNCHANGED <<next, collected>>
    /\ idx' = idx + 2
    /\ UNCHANGED <<args, status, unknown, nonFlags, splitVars>>

ParseParameterStays ==
    LET f == args[idx] IN
    /\ AtArg(WithArgument) /\ HasArgument /\ Parses(f, args[idx + 1])
    /\ values' = [values EXCEPT ![f] = Append(@, idx + 1)]
    /\ IF f \in Collectors
       THEN /\ collected' = [collected EXCEPT ![f] = Append(@, next)]
            /\ next' = <<>>
       ELSE UNCHANGED <<next, collected>>
    /\ idx' = idx + 1
    /\ UNCHANGED <<args, status, unknown, nonFlags, splitVars>>

\* Mutant: nothing is recorded when there was nothing to collect.
ParseParameterSkipsEmpty ==
    LET f == args[idx] IN
    /\ AtArg(WithArgument) /\ HasArgument /\ Parses(f, args[idx + 1])
    /\ values' = [values EXCEPT ![f] = Append(@, idx + 1)]
    /\ IF f \in Collectors /\ next # <<>>
       THEN /\ collected' = [collected EXCEPT ![f] = Append(@, next)]
            /\ next' = <<>>
       ELSE UNCHANGED <<next, collected>>
    /\ idx' = idx + 2
    /\ UNCHANGED <<args, status, unknown, nonFlags, splitVars>>

\* A flag and its argument; a collecting flag takes what was collected.
ParseParameter ==
    LET f == args[idx] IN
    /\ AtArg(WithArgument) /\ HasArgument /\ Parses(f, args[idx + 1])
    /\ values' = [values EXCEPT ![f] = Append(@, idx + 1)]
    /\ IF f \in Collectors
       THEN /\ collected' = [collected EXCEPT ![f] = Append(@, next)]
            /\ next' = <<>>
       ELSE UNCHANGED <<next, collected>>
    /\ idx' = idx + 2
    /\ UNCHANGED <<args, status, unknown, nonFlags, splitVars>>

\* No argument, or one that does not parse: parseFlags dies of it.
ParseError ==
    /\ AtArg(WithArgument)
    /\ HasArgument => ~Parses(args[idx], args[idx + 1])
    /\ status' = "fatal"
    /\ UNCHANGED <<args, idx, parseVars, splitVars>>

EndOfArgs ==
    /\ status = "parse" /\ idx > Len(args)
    /\ unknown' = next
    /\ status' = "check"
    /\ UNCHANGED <<args, idx, next, values, collected, nonFlags, splitVars>>

-----------------------------------------------------------------------------
\* parseFlags

\* -version and its like print and exit; then at least one output is required.
Check ==
    /\ status = "check"
    /\ status' = IF values["-version"] # <<>> THEN "exit"
                 ELSE IF unknown = <<>> /\ nonFlags = <<>> THEN "fatal"
                 ELSE "split"
    /\ idx' = 1
    /\ UNCHANGED <<args, parseVars, splitVars>>

IsOption(arg) == arg \in Options

\* Mutant: the options of one output are offered to the next one, too.
SplitOutputKeepsOptions ==
    LET p == unknown[idx] IN
    /\ status = "split" /\ idx <= Len(unknown)
    /\ ~IsOption(args[p]) /\ ~nextIsOption
    /\ outputs' = Append(outputs, <<p, nextOptions>>)
    /\ idx' = idx + 1
    /\ UNCHANGED <<args, status, parseVars, nextOptions, nextIsOption>>

\* An option, or the argument that follows one.
SplitOption ==
    LET p == unknown[idx] IN
    /\ status = "split" /\ idx <= Len(unknown)
    /\ IsOption(args[p]) \/ nextIsOption
    /\ nextOptions' = Append(nextOptions, p)
    /\ nextIsOption' = IsOption(args[p])
    /\ idx' = idx + 1
    /\ UNCHANGED <<args, status, parseVars, outputs>>

\* Anything else is the URL of an output and takes the options before it.
SplitOutput ==
    LET p == unknown[idx] IN
    /\ status = "split" /\ idx <= Len(unknown)
    /\ ~IsOption(args[p]) /\ ~nextIsOption
    /\ outputs' = Append(outputs, <<p, nextOptions>>)
    /\ nextOptions' = <<>>
    /\ idx' = idx + 1
    /\ UNCHANGED <<args, status, parseVars, nextIsOption>>

\* Options after the last output are left behind in nextOptions.
EndSplit ==
    /\ status = "split" /\ idx > Len(unknown)
    /\ status' = "build"
    /\ UNCHANGED <<args, idx, parseVars, splitVars>>

Next ==
    \/ CollectUnknown \/ DoubleDash \/ ParseFlag \/ ParseParameter \/ ParseError
    \/ EndOfArgs \/ Check \/ SplitOption \/ SplitOutput \/ EndSplit

Spec == Init /\ [][Next]_vars

-----------------------------------------------------------------------------
\* What parseFlags builds in the end

\* Options and values in pairs; the last one of an odd number is dropped.
convertUnknownOptions(s) == [n \in 1..(Len(s) \div 2) |-> <<s[2 * n - 1], s[2 * n]>>]

\* flags.Inputs and flags.Outputs.
Inputs ==
    [n \in 1..Len(values["-i"]) |->
       [url |-> values["-i"][n], options |-> convertUnknownOptions(collected["-i"][n])]]
Outputs ==
    [n \in 1..Len(outputs) |->
       [url |-> outputs[n][1], options |-> convertUnknownOptions(outputs[n][2])]]

-----------------------------------------------------------------------------
\* Properties

\* Every variable has its type.
TypeOK ==
    /\ args \in CommandLines
    /\ status \in {"parse", "check", "split", "build", "fatal", "exit"}
    /\ idx \in 1..(Len(args) + 1)
    /\ \A s \in {next, unknown, nonFlags, nextOptions} : ToSet(s) \subseteq Positions
    /\ \A f \in Flags : ToSet(values[f]) \subseteq Positions
    /\ \A f \in Collectors : \A s \in ToSet(collected[f]) : ToSet(s) \subseteq Positions
    /\ nextIsOption \in BOOLEAN

\* The lists Parse puts arguments in, by their names; "rest" is what no flag
\* has collected yet.
Lists ==
    {<<"values", f>> : f \in Flags} \cup {<<"rest">>, <<"nonFlags">>}
    \cup UNION {{<<"collected", f, n>> : n \in DOMAIN collected[f]} : f \in Collectors}
Held(list) ==
    IF list[1] = "values" THEN values[list[2]]
    ELSE IF list[1] = "collected" THEN collected[list[2]][list[3]]
    ELSE IF list[1] = "nonFlags" THEN nonFlags
    ELSE IF status = "parse" THEN next ELSE unknown
Places == UNION {{<<list, m>> : m \in DOMAIN Held(list)} : list \in Lists}
Placed(place) == Held(place[1])[place[2]]

\* Flags that have an argument, and the "--" Parse stopped at.
Names == {p - 1 : p \in UNION {ToSet(values[f]) : f \in WithArgument}}
Dashes == IF status = "check" /\ idx <= Len(args) THEN {idx} ELSE {}

\* Parse loses no argument and uses none twice: at every step, what it has
\* passed is in exactly one place, or is the name of a flag that has it there.
EveryArgumentOnce ==
    status \in {"parse", "check"} =>
        LET passed == IF status = "parse" THEN 1..(idx - 1) ELSE Positions
            arguments == {Placed(s) : s \in Places}
        IN  /\ \A s, t \in Places : Placed(s) = Placed(t) => s = t
            /\ arguments \cup Names \cup Dashes = passed
            /\ arguments \cap (Names \cup Dashes) = {}

\* Where Parse goes on from one unknown argument to the next: past flags, and
\* past their arguments.
OnlyFlagsBetween(p, q) ==
    \A r \in (p + 1)..(q - 1) :
        args[r] \in Flags \/ \E f \in WithArgument : r \in ToSet(values[f])
InOrder(s) ==
    \A i \in 1..(Len(s) - 1) : s[i] < s[i + 1] /\ OnlyFlagsBetween(s[i], s[i + 1])

\* An option belongs to the first collecting flag after it: it precedes that
\* flag and no other collecting flag stands between. What a flag collects it
\* collects in the order it was typed, and without a gap.
OptionsOfNextCollector ==
    LET taken == UNION {ToSet(values[f]) : f \in Collectors} IN
    \A f \in Collectors : \A n \in DOMAIN collected[f] :
        /\ InOrder(collected[f][n])
        /\ n \in DOMAIN values[f] =>
            \A p \in ToSet(collected[f][n]) :
                /\ p < values[f][n]
                /\ \A q \in taken : q > p => q >= values[f][n]

\* parseFlags indexes CollectedUnknownOptions by the number of an input, and
\* by 0 for an encoder that was given: neither is ever out of range.
IndexSafe ==
    status = "build" =>
        /\ Len(collected["-i"]) = Len(values["-i"])
        /\ \A f \in Collectors : values[f] # <<>> => collected[f] # <<>>

\* Where in the left-over arguments the URL of an output stands.
URLAt(n) ==
    IF n = 0 THEN 0 ELSE CHOOSE i \in DOMAIN unknown : unknown[i] = outputs[n][1]

\* The outputs partition the left-over arguments in their order: each takes
\* what stands between the output before it and its own URL; only options
\* after the last URL go to no output.
OutputsPartition ==
    status = "build" =>
        /\ \A n \in DOMAIN outputs :
              /\ URLAt(n - 1) < URLAt(n)
              /\ outputs[n] = <<unknown[URLAt(n)],
                                SubSeq(unknown, URLAt(n - 1) + 1, URLAt(n) - 1)>>
        /\ nextOptions = SubSeq(unknown, URLAt(Len(outputs)) + 1, Len(unknown))
=============================================================================
