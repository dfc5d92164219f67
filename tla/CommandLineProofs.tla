------------------------- MODULE CommandLineProofs -------------------------
(***************************************************************************)
(* Proofs about CommandLine for every set of flags, words and command      *)
(* lines: what parseFlags may index, where an option goes, that each       *)
(* argument is used once, and what each output takes.                      *)
(***************************************************************************)
EXTENDS CommandLine, TLAPS, SequenceTheorems

\* The variables as sequences of positions.
Shapes ==
    /\ args \in CommandLines /\ args \in Seq(Arguments)
    /\ status \in {"parse", "check", "split", "build", "fatal", "exit"}
    /\ next \in Seq(Positions) /\ unknown \in Seq(Positions)
    /\ nonFlags \in Seq(Positions) /\ nextOptions \in Seq(Positions)
    /\ values \in [Flags -> Seq(Positions)]
    /\ collected \in [Collectors -> Seq(Seq(Positions))]
    /\ nextIsOption \in BOOLEAN

\* Parse sets aside no more than it has passed.
Progress ==
    /\ idx \in Nat /\ 1 <= idx /\ idx <= Len(args) + 1
    /\ Len(next) <= Len(args) /\ Len(unknown) <= Len(args)
    /\ status = "parse" => Len(next) < idx

\* A collecting flag has collected as often as it was given.
Parallel == \A f \in Collectors : Len(collected[f]) = Len(values[f])

\* While Parse runs: what it has taken it has passed, and what waits for the
\* next collecting flag stands behind all that such flags have taken.
Passed ==
    status = "parse" =>
        /\ \A n \in 1..Len(next) : next[n] < idx
        /\ \A f \in Collectors : \A m \in 1..Len(values[f]) :
              /\ values[f][m] < idx
              /\ \A n \in 1..Len(next) : values[f][m] < next[n]

\* OptionsOfNextCollector, position by position.
Between(f, n, p) ==
    /\ p < values[f][n]
    /\ \A g \in Collectors : \A m \in 1..Len(values[g]) :
          values[g][m] > p => values[g][m] >= values[f][n]
Collected ==
    \A f \in Collectors : \A n \in 1..Len(collected[f]) :
        \A i \in 1..Len(collected[f][n]) : Between(f, n, collected[f][n][i])

ParseInv == Parallel /\ Passed /\ Collected
IndInv == Shapes /\ Progress /\ ParseInv

-----------------------------------------------------------------------------
LEMMA FlagSets ==
    /\ Collectors \subseteq WithArgument /\ WithArgument \subseteq Flags
    /\ Switches \subseteq Flags /\ Collectors \subseteq Flags
    /\ Collectors \cap Switches = {}
    /\ "-i" \in Collectors /\ "-version" \in Flags
BY ConstantsAssumption DEF WithArgument, Flags

LEMMA InitInv == Init => IndInv
<1> SUFFICES ASSUME Init PROVE IndInv
  OBVIOUS
<1>1. args \in CommandLines /\ args \in Seq(Arguments) /\ Len(args) \in Nat
  BY ConstantsAssumption DEF Init
<1>2. Shapes
  <2>1. \A S : <<>> \in Seq(S)
    OBVIOUS
  <2>2. values \in [Flags -> Seq(Positions)] /\ collected \in [Collectors -> Seq(Seq(Positions))]
    BY <2>1 DEF Init
  <2> QED
    BY <1>1, <2>1, <2>2 DEF Init, Shapes
<1>3. Progress
  BY <1>1 DEF Init, Progress
<1>4. ParseInv
  <2>1. \A f \in Collectors : values[f] = <<>> /\ collected[f] = <<>>
    BY FlagSets DEF Init
  <2>2. Collected
    BY <2>1 DEF Collected
  <2> QED
    BY <2>1, <2>2 DEF Init, ParseInv, Parallel, Passed
<1> QED
  BY <1>2, <1>3, <1>4 DEF IndInv

-----------------------------------------------------------------------------
\* The argument Parse stands at, and the one after it, are positions.
LEMMA AtPosition ==
    ASSUME IndInv, NEW S, AtArg(S)
    PROVE  /\ idx \in Positions /\ args[idx] \in S /\ status = "parse"
           /\ HasArgument => idx + 1 \in Positions
<1>1. Len(args) \in Nat
  BY DEF IndInv, Shapes
<1> QED
  BY <1>1 DEF IndInv, Progress, AtArg, HasArgument, Positions

\* Collected speaks of nothing but the collecting flags.
LEMMA SameCollected ==
    ASSUME Collected, collected' = collected,
           \A f \in Collectors : values'[f] = values[f]
    PROVE  Collected'
<1> SUFFICES ASSUME NEW f \in Collectors, NEW n \in 1..Len(collected'[f]),
                    NEW i \in 1..Len(collected'[f][n])
             PROVE  Between(f, n, collected[f][n][i])'
  BY DEF Collected
<1>1. Between(f, n, collected[f][n][i]) /\ collected'[f][n][i] = collected[f][n][i]
  BY DEF Collected
<1>2. values'[f][n] = values[f][n]
  OBVIOUS
<1>3. collected'[f][n][i] < values'[f][n]
  BY <1>1, <1>2 DEF Between
<1>4. ASSUME NEW g \in Collectors, NEW m \in 1..Len(values'[g]),
             values'[g][m] > collected'[f][n][i]
      PROVE  values'[g][m] >= values'[f][n]
  <2>1. values'[g] = values[g]
    OBVIOUS
  <2>2. m \in 1..Len(values[g]) /\ values[g][m] > collected[f][n][i]
    BY <1>1, <1>4, <2>1
  <2> QED
    BY <1>1, <1>2, <2>1, <2>2 DEF Between
<1> QED
  BY <1>3, <1>4 DEF Between

\* A step that leaves what Parse has built alone, and its status, too.
LEMMA SameParse ==
    ASSUME ParseInv, UNCHANGED <<values, collected>>,
           \/ status' # "parse"
           \/ UNCHANGED <<idx, next, status>>
    PROVE  ParseInv'
<1>1. Parallel'
  BY DEF ParseInv, Parallel
<1>2. Passed'
  <2>1. CASE status' # "parse"
    BY <2>1 DEF Passed
  <2>2. CASE UNCHANGED <<idx, next, status>>
    BY <2>2 DEF ParseInv, Passed
  <2> QED
    BY <2>1, <2>2
<1>3. Collected'
  BY SameCollected DEF ParseInv
<1> QED
  BY <1>1, <1>2, <1>3 DEF ParseInv

LEMMA CollectStep == IndInv /\ CollectUnknown => IndInv'
<1> SUFFICES ASSUME IndInv, CollectUnknown PROVE IndInv'
  OBVIOUS
<1>1. idx \in Positions /\ status = "parse"
  BY AtPosition DEF CollectUnknown
<1>2. /\ next' = Append(next, idx) /\ idx' = idx + 1
      /\ UNCHANGED <<args, status, values, collected, unknown, nonFlags,
                     nextOptions, nextIsOption, outputs>>
  BY DEF CollectUnknown, splitVars
<1>3. Positions' = Positions /\ next \in Seq(Positions) /\ Len(args) \in Nat
  BY <1>2 DEF Positions, IndInv, Shapes
<1>4. /\ next' \in Seq(Positions) /\ Len(next') = Len(next) + 1
      /\ \A n \in 1..Len(next') : (next'[n] = next[n] /\ n \in 1..Len(next)) \/ next'[n] = idx
  BY <1>1, <1>2, <1>3
<1>5. Shapes'
  BY <1>2, <1>3, <1>4 DEF IndInv, Shapes
<1>6. Progress'
  BY <1>1, <1>2, <1>3, <1>4 DEF IndInv, Progress, Positions
<1>7. Parallel' /\ Collected'
  BY <1>2, SameCollected DEF IndInv, ParseInv, Parallel
<1>8. Passed'
  <2>1. \A f \in Collectors : \A m \in 1..Len(values[f]) : values[f][m] \in Positions
    BY FlagSets DEF IndInv, Shapes
  <2>2. \A n \in 1..Len(next) : next[n] \in Positions
    BY <1>3
  <2> QED
    BY <1>1, <1>2, <1>3, <1>4, <2>1, <2>2 DEF IndInv, ParseInv, Passed, Positions
<1> QED
  BY <1>5, <1>6, <1>7, <1>8 DEF IndInv, ParseInv

LEMMA DashStep == IndInv /\ DoubleDash => IndInv'
<1> SUFFICES ASSUME IndInv, DoubleDash PROVE IndInv'
  OBVIOUS
<1>1. idx \in Positions /\ status = "parse"
  BY AtPosition DEF DoubleDash
<1>2. /\ nonFlags' = [n \in 1..(Len(args) - idx) |-> idx + n]
      /\ unknown' = next /\ status' = "check"
      /\ UNCHANGED <<args, idx, next, values, collected,
                     nextOptions, nextIsOption, outputs>>
  BY DEF DoubleDash, splitVars
<1>3. Positions' = Positions /\ Len(args) \in Nat
  BY <1>2 DEF Positions, IndInv, Shapes
<1>4. nonFlags' \in Seq(Positions)
  <2>1. Len(args) - idx \in Nat
    BY <1>1, <1>3 DEF Positions
  <2>2. \A n \in 1..(Len(args) - idx) : idx + n \in Positions
    BY <1>1, <1>3, <2>1 DEF Positions
  <2> QED
    BY <1>2, <2>1, <2>2
<1>5. Shapes'
  BY <1>2, <1>3, <1>4 DEF IndInv, Shapes
<1>6. Progress'
  BY <1>2 DEF IndInv, Progress
<1>7. ParseInv'
  BY <1>2, SameParse DEF IndInv
<1> QED
  BY <1>5, <1>6, <1>7 DEF IndInv

LEMMA FlagStep == IndInv /\ ParseFlag => IndInv'
<1> SUFFICES ASSUME IndInv, ParseFlag PROVE IndInv'
  OBVIOUS
<1>1. idx \in Positions /\ status = "parse" /\ args[idx] \in Switches
  BY AtPosition DEF ParseFlag
<1>2. /\ values' = [values EXCEPT ![args[idx]] = Append(@, idx)] /\ idx' = idx + 1
      /\ UNCHANGED <<args, status, next, collected, unknown, nonFlags,
                     nextOptions, nextIsOption, outputs>>
  BY DEF ParseFlag, splitVars
<1>3. Positions' = Positions /\ Len(args) \in Nat
  BY <1>2 DEF Positions, IndInv, Shapes
<1>4. values' \in [Flags -> Seq(Positions)]
  BY <1>1, <1>2, FlagSets DEF IndInv, Shapes
<1>5. \A f \in Collectors : values'[f] = values[f]
  BY <1>1, <1>2, FlagSets DEF IndInv, Shapes
<1>6. Shapes'
  BY <1>2, <1>3, <1>4 DEF IndInv, Shapes
<1>7. Progress'
  BY <1>1, <1>2, <1>3 DEF IndInv, Progress, Positions
<1>8. Parallel'
  BY <1>2, <1>5 DEF IndInv, ParseInv, Parallel
<1>9. Collected'
  BY <1>2, <1>5, SameCollected DEF IndInv, ParseInv
<1>10. Passed'
  <2>1. \A f \in Collectors : \A m \in 1..Len(values[f]) : values[f][m] \in Positions
    BY FlagSets DEF IndInv, Shapes
  <2>2. \A n \in 1..Len(next) : next[n] \in Positions
    BY DEF IndInv, Shapes
  <2>3. idx \in Nat /\ idx' \in Nat /\ idx < idx'
    BY <1>1, <1>2, <1>3 DEF Positions
  <2>4. \A f \in Collectors : \A m \in 1..Len(values[f]) : values[f][m] < idx'
    BY <1>1, <1>3, <2>1, <2>3 DEF IndInv, ParseInv, Passed, Positions
  <2>5. \A n \in 1..Len(next) : next[n] < idx'
    BY <1>1, <1>3, <2>2, <2>3 DEF IndInv, ParseInv, Passed, Positions
  <2> QED
    BY <1>1, <1>2, <1>5, <2>4, <2>5 DEF IndInv, ParseInv, Passed
<1> QED
  BY <1>6, <1>7, <1>8, <1>9, <1>10 DEF IndInv, ParseInv

\* A parameter that collects nothing.
LEMMA PlainStep ==
    ASSUME IndInv, ParseParameter, args[idx] \notin Collectors
    PROVE  IndInv'
<1>1. /\ idx \in Positions /\ idx + 1 \in Positions /\ status = "parse"
      /\ args[idx] \in Flags
  BY AtPosition, FlagSets DEF ParseParameter
<1>2. /\ values' = [values EXCEPT ![args[idx]] = Append(@, idx + 1)] /\ idx' = idx + 2
      /\ UNCHANGED <<args, status, next, collected, unknown, nonFlags,
                     nextOptions, nextIsOption, outputs>>
  BY DEF ParseParameter, splitVars
<1>3. Positions' = Positions /\ Len(args) \in Nat
  BY <1>2 DEF Positions, IndInv, Shapes
<1>4. values' \in [Flags -> Seq(Positions)]
  BY <1>1, <1>2 DEF IndInv, Shapes
<1>5. \A f \in Collectors : values'[f] = values[f]
  BY <1>2, FlagSets DEF IndInv, Shapes
<1>6. Shapes'
  BY <1>2, <1>3, <1>4 DEF IndInv, Shapes
<1>7. Progress'
  <2>1. idx + 1 <= Len(args)
    BY <1>1, <1>3 DEF Positions
  <2> QED
    BY <1>1, <1>2, <1>3, <2>1 DEF IndInv, Progress, Positions
<1>8. Parallel'
  BY <1>2, <1>5 DEF IndInv, ParseInv, Parallel
<1>9. Collected'
  BY <1>2, <1>5, SameCollected DEF IndInv, ParseInv
<1>10. Passed'
  <2>1. \A f \in Collectors : \A m \in 1..Len(values[f]) : values[f][m] \in Positions
    BY FlagSets DEF IndInv, Shapes
  <2>2. \A n \in 1..Len(next) : next[n] \in Positions
    BY DEF IndInv, Shapes
  <2>3. idx \in Nat /\ idx' \in Nat /\ idx < idx'
    BY <1>1, <1>2, <1>3 DEF Positions
  <2>4. \A f \in Collectors : \A m \in 1..Len(values[f]) : values[f][m] < idx'
    BY <1>1, <1>3, <2>1, <2>3 DEF IndInv, ParseInv, Passed, Positions
  <2>5. \A n \in 1..Len(next) : next[n] < idx'
    BY <1>1, <1>3, <2>2, <2>3 DEF IndInv, ParseInv, Passed, Positions
  <2> QED
    BY <1>1, <1>2, <1>5, <2>4, <2>5 DEF IndInv, ParseInv, Passed
<1> QED
  BY <1>6, <1>7, <1>8, <1>9, <1>10 DEF IndInv, ParseInv

\* A collecting flag takes what was collected: all of it stands behind what
\* such flags took before, and before the flag's own argument.
LEMMA CollectingStep ==
    ASSUME IndInv, ParseParameter, args[idx] \in Collectors
    PROVE  IndInv'
<1> DEFINE f == args[idx]
<1>1. idx \in Positions /\ idx + 1 \in Positions /\ status = "parse" /\ f \in Collectors
  BY AtPosition, FlagSets DEF ParseParameter
<1>2. /\ values' = [values EXCEPT ![f] = Append(@, idx + 1)] /\ idx' = idx + 2
      /\ collected' = [collected EXCEPT ![f] = Append(@, next)] /\ next' = <<>>
      /\ UNCHANGED <<args, status, unknown, nonFlags, nextOptions, nextIsOption, outputs>>
  BY DEF ParseParameter, splitVars
<1> HIDE DEF f
<1>3. Positions' = Positions /\ Len(args) \in Nat
  BY <1>2 DEF Positions, IndInv, Shapes
<1>4. /\ values \in [Flags -> Seq(Positions)] /\ next \in Seq(Positions)
      /\ collected \in [Collectors -> Seq(Seq(Positions))] /\ f \in Flags
  BY <1>1, FlagSets DEF IndInv, Shapes
<1>5. /\ values' \in [Flags -> Seq(Positions)]
      /\ collected' \in [Collectors -> Seq(Seq(Positions))]
  BY <1>1, <1>2, <1>4
<1>6. Shapes'
  BY <1>2, <1>3, <1>5 DEF IndInv, Shapes
<1>7. Progress'
  <2>1. idx + 1 <= Len(args)
    BY <1>1, <1>3 DEF Positions
  <2> QED
    BY <1>1, <1>2, <1>3, <2>1 DEF IndInv, Progress, Positions
<1>8. /\ Len(values'[f]) = Len(values[f]) + 1
      /\ values'[f][Len(values[f]) + 1] = idx + 1
      /\ \A m \in 1..Len(values[f]) : values'[f][m] = values[f][m]
      /\ \A g \in Collectors \ {f} : values'[g] = values[g]
  BY <1>1, <1>2, <1>4, FlagSets
<1>9. /\ Len(collected'[f]) = Len(collected[f]) + 1
      /\ collected'[f][Len(collected[f]) + 1] = next
      /\ \A m \in 1..Len(collected[f]) : collected'[f][m] = collected[f][m]
      /\ \A g \in Collectors \ {f} : collected'[g] = collected[g]
  BY <1>1, <1>2, <1>4
<1>10. Parallel'
  BY <1>8, <1>9 DEF IndInv, ParseInv, Parallel
<1>11. \A g \in Collectors : \A m \in 1..Len(values'[g]) :
          \/ values'[g][m] = idx + 1
          \/ m \in 1..Len(values[g]) /\ values'[g][m] = values[g][m]
  <2> SUFFICES ASSUME NEW g \in Collectors, NEW m \in 1..Len(values'[g])
               PROVE  \/ values'[g][m] = idx + 1
                      \/ m \in 1..Len(values[g]) /\ values'[g][m] = values[g][m]
    OBVIOUS
  <2>1. Len(values[f]) \in Nat
    BY <1>4
  <2>2. CASE g = f
    BY <1>8, <2>1, <2>2
  <2>3. CASE g # f
    BY <1>8, <2>3
  <2> QED
    BY <2>2, <2>3
<1>12. \A g \in Collectors : \A m \in 1..Len(values[g]) :
          values[g][m] \in Nat /\ values[g][m] < idx
  <2>1. \A g \in Collectors : \A m \in 1..Len(values[g]) : values[g][m] \in Positions
    BY <1>4, FlagSets
  <2>2. \A g \in Collectors : \A m \in 1..Len(values[g]) : values[g][m] < idx
    BY <1>1 DEF IndInv, ParseInv, Passed
  <2> QED
    BY <2>1, <2>2 DEF Positions
<1>13. Passed'
  BY <1>1, <1>2, <1>11, <1>12 DEF Passed, Positions
<1>14. \A n \in 1..Len(next) : next[n] \in Nat /\ next[n] < idx
  BY <1>1, <1>4 DEF IndInv, ParseInv, Passed, Positions
<1>15. Collected'
  <2> SUFFICES ASSUME NEW g \in Collectors, NEW n \in 1..Len(collected'[g]),
                      NEW i \in 1..Len(collected'[g][n])
               PROVE  Between(g, n, collected[g][n][i])'
    BY DEF Collected
  <2>1. Len(collected[f]) \in Nat /\ Len(collected[f]) = Len(values[f])
    BY <1>1, <1>4 DEF IndInv, ParseInv, Parallel
  <2>2. CASE g = f /\ n = Len(collected[f]) + 1
    <3>1. /\ collected'[g][n] = next /\ values'[g][n] = idx + 1
          /\ i \in 1..Len(next)
      BY <1>8, <1>9, <2>1, <2>2
    <3>2. /\ next[i] \in Nat /\ next[i] < idx + 1
      BY <1>1, <1>14, <3>1 DEF Positions
    <3>3. \A h \in Collectors : \A m \in 1..Len(values[h]) : values[h][m] < next[i]
      BY <1>1, <3>1 DEF IndInv, ParseInv, Passed
    <3>4. \A h \in Collectors : \A m \in 1..Len(values'[h]) :
             values'[h][m] > next[i] => values'[h][m] >= idx + 1
      <4> SUFFICES ASSUME NEW h \in Collectors, NEW m \in 1..Len(values'[h]),
                          values'[h][m] > next[i]
                   PROVE  values'[h][m] >= idx + 1
        OBVIOUS
      <4>1. CASE values'[h][m] = idx + 1
        BY <1>1, <4>1 DEF Positions
      <4>2. CASE m \in 1..Len(values[h]) /\ values'[h][m] = values[h][m]
        BY <1>12, <3>2, <3>3, <4>2
      <4> QED
        BY <1>11, <4>1, <4>2
    <3> QED
      BY <3>1, <3>2, <3>4 DEF Between
  <2>3. CASE ~(g = f /\ n = Len(collected[f]) + 1)
    <3>1. n \in 1..Len(collected[g]) /\ collected'[g][n] = collected[g][n]
      BY <1>9, <2>1, <2>3
    <3>2. n \in 1..Len(values[g]) /\ values'[g][n] = values[g][n]
      BY <1>8, <3>1 DEF IndInv, ParseInv, Parallel
    <3>3. Between(g, n, collected[g][n][i])
      BY <3>1 DEF IndInv, ParseInv, Collected
    <3>4. values[g][n] \in Nat /\ values[g][n] < idx
      BY <1>12, <3>2
    <3>5. \A h \in Collectors : \A m \in 1..Len(values'[h]) :
             values'[h][m] > collected[g][n][i] => values'[h][m] >= values[g][n]
      <4> SUFFICES ASSUME NEW h \in Collectors, NEW m \in 1..Len(values'[h]),
                          values'[h][m] > collected[g][n][i]
                   PROVE  values'[h][m] >= values[g][n]
        OBVIOUS
      <4>1. CASE values'[h][m] = idx + 1
        BY <1>1, <3>4, <4>1 DEF Positions
      <4>2. CASE m \in 1..Len(values[h]) /\ values'[h][m] = values[h][m]
        BY <3>3, <4>2 DEF Between
      <4> QED
        BY <1>11, <4>1, <4>2
    <3> QED
      BY <3>1, <3>2, <3>3, <3>5 DEF Between
  <2> QED
    BY <2>2, <2>3
<1> QED
  BY <1>6, <1>7, <1>10, <1>13, <1>15 DEF IndInv, ParseInv

-----------------------------------------------------------------------------
LEMMA EndParseStep == IndInv /\ (ParseError \/ EndOfArgs) => IndInv'
<1> SUFFICES ASSUME IndInv, ParseError \/ EndOfArgs PROVE IndInv'
  OBVIOUS
<1>1. /\ unknown' \in {unknown, next} /\ status' \in {"check", "fatal"}
      /\ UNCHANGED <<args, idx, next, values, collected, nonFlags,
                     nextOptions, nextIsOption, outputs>>
  BY DEF ParseError, EndOfArgs, parseVars, splitVars
<1>2. Shapes'
  BY <1>1 DEF IndInv, Shapes, Positions
<1>3. Progress'
  BY <1>1 DEF IndInv, Progress
<1>4. ParseInv'
  BY <1>1, SameParse DEF IndInv
<1> QED
  BY <1>2, <1>3, <1>4 DEF IndInv

\* parseFlags walks what Parse has left, and changes none of it.
LEMMA BuildStep == IndInv /\ (Check \/ SplitOption \/ SplitOutput \/ EndSplit) => IndInv'
<1> SUFFICES ASSUME IndInv, Check \/ SplitOption \/ SplitOutput \/ EndSplit PROVE IndInv'
  OBVIOUS
<1>1. /\ status' \in {"split", "build", "fatal", "exit"}
      /\ UNCHANGED <<args, next, values, collected, unknown, nonFlags>>
  BY DEF Check, SplitOption, SplitOutput, EndSplit, parseVars, splitVars
<1>2. Positions' = Positions /\ Len(args) \in Nat /\ Len(unknown) \in Nat
  BY <1>1 DEF Positions, IndInv, Shapes
<1>3. /\ nextOptions' \in Seq(Positions) /\ nextIsOption' \in BOOLEAN
  <2>1. CASE Check \/ EndSplit
    BY <2>1 DEF Check, EndSplit, splitVars, IndInv, Shapes
  <2>2. CASE SplitOption
    <3>1. unknown[idx] \in Positions
      BY <1>2, <2>2 DEF SplitOption, IndInv, Shapes, Progress
    <3> QED
      BY <2>2, <3>1 DEF SplitOption, IsOption, IndInv, Shapes
  <2>3. CASE SplitOutput
    BY <2>3 DEF SplitOutput, IndInv, Shapes
  <2> QED
    BY <2>1, <2>2, <2>3
<1>4. Shapes'
  BY <1>1, <1>2, <1>3 DEF IndInv, Shapes
<1>5. Progress'
  BY <1>1, <1>2 DEF Check, SplitOption, SplitOutput, EndSplit, IndInv, Progress
<1>6. ParseInv'
  BY <1>1, SameParse DEF IndInv
<1> QED
  BY <1>4, <1>5, <1>6 DEF IndInv

LEMMA StutterStep == IndInv /\ UNCHANGED vars => IndInv'
<1> SUFFICES ASSUME IndInv, UNCHANGED vars PROVE IndInv'
  OBVIOUS
<1>1. Shapes' /\ Progress'
  BY DEF IndInv, Shapes, Progress, Positions, vars
<1>2. ParseInv'
  BY SameParse DEF IndInv, vars
<1> QED
  BY <1>1, <1>2 DEF IndInv

\* The inductive invariant: what has been collected stands between what was
\* taken before and the flag that took it, and no count is off.
THEOREM Invariance == Spec => []IndInv
<1>1. IndInv /\ [Next]_vars => IndInv'
  BY CollectStep, DashStep, FlagStep, PlainStep, CollectingStep, EndParseStep,
     BuildStep, StutterStep DEF Next
<1> QED
  BY <1>1, InitInv, PTL DEF Spec

-----------------------------------------------------------------------------
\* Every reachable state of the parser has its type.
THEOREM TypeCorrect == Spec => []TypeOK
<1>1. IndInv => TypeOK
  <2> SUFFICES ASSUME IndInv PROVE TypeOK
    OBVIOUS
  <2>1. Len(args) \in Nat
    BY DEF IndInv, Shapes
  <2>2. \A s \in Seq(Positions) : ToSet(s) \subseteq Positions
    BY DEF ToSet
  <2>3. \A f \in Collectors : \A s \in ToSet(collected[f]) : s \in Seq(Positions)
    BY DEF ToSet, IndInv, Shapes
  <2> QED
    BY <2>1, <2>2, <2>3 DEF TypeOK, IndInv, Shapes, Progress
<1> QED
  BY <1>1, Invariance, PTL

\* parseFlags never indexes the collected options out of their range.
THEOREM IndexesSafe == Spec => []IndexSafe
<1>1. IndInv => IndexSafe
  <2> SUFFICES ASSUME IndInv PROVE IndexSafe
    OBVIOUS
  <2>1. \A f \in Collectors : /\ Len(collected[f]) = Len(values[f])
                              /\ values[f] \in Seq(Positions)
                              /\ collected[f] \in Seq(Seq(Positions))
    BY FlagSets DEF IndInv, ParseInv, Parallel, Shapes
  <2>2. \A f \in Collectors : values[f] # <<>> => collected[f] # <<>>
    BY <2>1
  <2> QED
    BY <2>1, <2>2, FlagSets DEF IndexSafe
<1> QED
  BY <1>1, Invariance, PTL

-----------------------------------------------------------------------------
\* Unknown arguments keep their order, and there is nothing but flags between
\* one and the next: in each list, and up to where Parse stands.
Increasing(s) == \A i, j \in 1..Len(s) : i < j => s[i] < s[j]
OrderInv ==
    /\ \A f \in Collectors : \A n \in 1..Len(collected[f]) : InOrder(collected[f][n])
    /\ Increasing(unknown)
    /\ status = "parse" =>
          /\ InOrder(next) /\ Increasing(next)
          /\ next # <<>> => OnlyFlagsBetween(next[Len(next)], idx)

\* The values of the flags grow, and so does what may stand between.
ValuesGrow ==
    args' = args /\ \A f \in WithArgument : ToSet(values[f]) \subseteq ToSet(values'[f])

LEMMA StillBetween ==
    ASSUME ValuesGrow, NEW p, NEW q, OnlyFlagsBetween(p, q)
    PROVE  OnlyFlagsBetween(p, q)'
BY DEF ValuesGrow, OnlyFlagsBetween

LEMMA StillInOrder ==
    ASSUME ValuesGrow, NEW s, InOrder(s)
    PROVE  InOrder(s)'
BY StillBetween DEF InOrder

LEMMA Longer ==
    ASSUME NEW S, NEW s \in Seq(S), NEW x \in S, NEW t, t = Append(s, x)
    PROVE  /\ t \in Seq(S) /\ Len(t) = Len(s) + 1 /\ t[Len(s) + 1] = x
           /\ \A j \in 1..Len(s) : t[j] = s[j]
OBVIOUS

LEMMA GrownValues ==
    ASSUME IndInv, NEW f \in Flags, NEW x \in Positions, args' = args,
           values' = [values EXCEPT ![f] = Append(@, x)]
    PROVE  ValuesGrow /\ x \in ToSet(values'[f])
<1>1. \A g \in Flags : values[g] \in Seq(Positions)
  BY DEF IndInv, Shapes
<1>2. values'[f] = Append(values[f], x) /\ \A g \in Flags \ {f} : values'[g] = values[g]
  BY DEF IndInv, Shapes
<1>3. x \in ToSet(values'[f]) /\ ToSet(values[f]) \subseteq ToSet(values'[f])
  <2>1. PICK s \in Seq(Positions) : s = values[f]
    BY <1>1
  <2>2. Append(s, x) \in Seq(Positions) /\ Len(Append(s, x)) = Len(s) + 1
    OBVIOUS
  <2>3. x \in ToSet(Append(s, x)) /\ ToSet(s) \subseteq ToSet(Append(s, x))
    <3>1. DOMAIN s = 1..Len(s) /\ DOMAIN Append(s, x) = 1..(Len(s) + 1) /\ Len(s) \in Nat
      BY <2>2
    <3>2. Append(s, x)[Len(s) + 1] = x /\ \A i \in 1..Len(s) : Append(s, x)[i] = s[i]
      OBVIOUS
    <3> QED
      BY <3>1, <3>2 DEF ToSet
  <2> QED
    BY <1>2, <2>1, <2>3
<1>4. \A g \in WithArgument : ToSet(values[g]) \subseteq ToSet(values'[g])
  BY <1>2, <1>3, FlagSets
<1> QED
  BY <1>3, <1>4 DEF ValuesGrow

\* Going on by one argument that is a flag, or the argument of one.
LEMMA GoOn ==
    ASSUME NEW p \in Positions, NEW m \in Nat, NEW n \in Nat, n <= m + 2,
           OnlyFlagsBetween(p, m)',
           \A r \in m..(n - 1) :
              args'[r] \in Flags \/ \E f \in WithArgument : r \in ToSet(values'[f])
    PROVE  OnlyFlagsBetween(p, n)'
<1>1. p \in Int
  BY DEF Positions
<1>2. \A r \in (p + 1)..(n - 1) : r \in (p + 1)..(m - 1) \/ r \in m..(n - 1)
  BY <1>1
<1> QED
  BY <1>2 DEF OnlyFlagsBetween

\* What Parse waits with does not change when it passes a flag.
LEMMA PassFlag ==
    ASSUME IndInv, OrderInv, status = "parse", UNCHANGED <<status, next, collected, unknown>>,
           ValuesGrow, NEW n \in Nat, idx' = n, n <= idx + 2,
           \A r \in idx..(n - 1) :
              args'[r] \in Flags \/ \E f \in WithArgument : r \in ToSet(values'[f])
    PROVE  OrderInv'
<1>1. PICK s \in Seq(Positions) : s = next
  BY DEF IndInv, Shapes
<1>2. PICK m \in Nat : m = idx
  BY DEF IndInv, Progress
<1>3. ASSUME s # <<>> PROVE OnlyFlagsBetween(s[Len(s)], n)'
  <2>1. OnlyFlagsBetween(s[Len(s)], m)
    BY <1>1, <1>2, <1>3 DEF OrderInv
  <2>2. PICK p \in Positions : p = s[Len(s)]
    BY <1>3
  <2>3. OnlyFlagsBetween(p, m)'
    BY <2>1, <2>2, StillBetween
  <2>4. OnlyFlagsBetween(p, n)'
    BY <1>2, <2>3, GoOn
  <2> QED
    BY <2>2, <2>4
<1>4. InOrder(s)'
  BY <1>1, StillInOrder DEF OrderInv
<1>5. ASSUME NEW f \in Collectors, NEW k \in 1..Len(collected[f])
      PROVE  InOrder(collected[f][k])'
  <2>1. PICK t : t = collected[f][k]
    OBVIOUS
  <2>2. InOrder(t)'
    BY <2>1, StillInOrder DEF OrderInv
  <2>3. collected'[f][k] = t
    BY <2>1
  <2> QED
    BY <2>2, <2>3 DEF InOrder, OnlyFlagsBetween
<1>6. next' = s /\ idx' = n
  BY <1>1
<1>7. InOrder(next)' /\ (next' # <<>> => OnlyFlagsBetween(next[Len(next)], idx)')
  BY <1>3, <1>4, <1>6 DEF InOrder, OnlyFlagsBetween
<1> QED
  BY <1>5, <1>7 DEF OrderInv, Increasing

LEMMA CollectOrder == ASSUME IndInv, OrderInv, CollectUnknown PROVE OrderInv'
<1>1. idx \in Positions /\ status = "parse"
  BY AtPosition DEF CollectUnknown
<1>2. /\ next' = Append(next, idx) /\ idx' = idx + 1
      /\ UNCHANGED <<args, status, values, collected, unknown>>
  BY DEF CollectUnknown, splitVars
<1>3. ValuesGrow
  BY <1>2 DEF ValuesGrow
<1>4. PICK s \in Seq(Positions) : s = next
  BY DEF IndInv, Shapes
<1>5. PICK m \in Positions : m = idx
  BY <1>1
<1>6. PICK t : t = Append(s, m)
  OBVIOUS
<1>7. /\ t \in Seq(Positions) /\ Len(t) = Len(s) + 1 /\ Len(s) \in Nat /\ m \in Nat
      /\ t[Len(s) + 1] = m /\ \A i \in 1..Len(s) : t[i] = s[i]
  BY <1>6, Longer DEF Positions
<1>8. \A i \in 1..Len(s) : s[i] < m /\ s[i] \in Nat
  BY <1>1, <1>4, <1>5 DEF IndInv, ParseInv, Passed, Positions
<1>9. Increasing(t)
  <2> SUFFICES ASSUME NEW i \in 1..Len(t), NEW j \in 1..Len(t), i < j PROVE t[i] < t[j]
    BY DEF Increasing
  <2>1. i \in 1..Len(s) /\ t[i] = s[i]
    BY <1>7
  <2>2. CASE j \in 1..Len(s)
    BY <1>1, <1>4, <1>7, <2>1, <2>2 DEF OrderInv, Increasing
  <2>3. CASE j = Len(s) + 1
    BY <1>7, <1>8, <2>1, <2>3
  <2> QED
    BY <1>7, <2>2, <2>3
<1>10. InOrder(t)'
  <2> SUFFICES ASSUME NEW i \in 1..(Len(t) - 1)
               PROVE  t[i] < t[i + 1] /\ OnlyFlagsBetween(t[i], t[i + 1])'
    BY DEF InOrder, OnlyFlagsBetween
  <2>1. CASE i \in 1..(Len(s) - 1)
    <3>1. t[i] = s[i] /\ t[i + 1] = s[i + 1]
      BY <1>7, <2>1
    <3>2. s[i] < s[i + 1] /\ OnlyFlagsBetween(s[i], s[i + 1])
      BY <1>1, <1>4, <2>1 DEF OrderInv, InOrder
    <3> QED
      BY <1>2, <3>1, <3>2 DEF OnlyFlagsBetween
  <2>2. CASE i = Len(s)
    <3>1. s # <<>> /\ t[i] = s[Len(s)] /\ t[i + 1] = m /\ s[Len(s)] < m
      BY <1>7, <1>8, <2>2
    <3>2. OnlyFlagsBetween(s[Len(s)], m)
      BY <1>1, <1>4, <1>5, <3>1 DEF OrderInv
    <3> QED
      BY <1>2, <3>1, <3>2 DEF OnlyFlagsBetween
  <2> QED
    BY <1>7, <2>1, <2>2
<1>11. OnlyFlagsBetween(t[Len(t)], m + 1)'
  BY <1>7 DEF OnlyFlagsBetween
<1>12. next' = t /\ idx' = m + 1
  BY <1>2, <1>4, <1>5, <1>6
<1>13. \A f \in Collectors : \A n \in 1..Len(collected'[f]) : InOrder(collected[f][n])'
  BY <1>2 DEF OrderInv, InOrder, OnlyFlagsBetween
<1>14. Increasing(unknown')
  BY <1>2 DEF OrderInv
<1> QED
  BY <1>9, <1>10, <1>11, <1>12, <1>13, <1>14, Zenon
     DEF OrderInv, InOrder, Increasing, OnlyFlagsBetween

LEMMA FlagOrder == ASSUME IndInv, OrderInv, ParseFlag PROVE OrderInv'
<1>1. idx \in Positions /\ status = "parse" /\ args[idx] \in Switches /\ idx \in Nat
  BY AtPosition DEF ParseFlag, Positions
<1>2. /\ values' = [values EXCEPT ![args[idx]] = Append(@, idx)] /\ idx' = idx + 1
      /\ UNCHANGED <<args, status, next, collected, unknown>>
  BY DEF ParseFlag, splitVars
<1>3. ValuesGrow /\ args[idx] \in Flags
  BY <1>1, <1>2, FlagSets, GrownValues
<1>4. \A r \in idx..(idx' - 1) : args'[r] \in Flags
  BY <1>1, <1>2, <1>3
<1> QED
  BY <1>1, <1>2, <1>3, <1>4, PassFlag

LEMMA ParameterOrder == ASSUME IndInv, OrderInv, ParseParameter PROVE OrderInv'
<1> DEFINE f == args[idx]
<1>1. /\ idx \in Positions /\ idx + 1 \in Positions /\ status = "parse" /\ idx \in Nat
      /\ f \in WithArgument /\ f \in Flags
  BY AtPosition, FlagSets DEF ParseParameter, Positions
<1>2. /\ values' = [values EXCEPT ![f] = Append(@, idx + 1)] /\ idx' = idx + 2
      /\ UNCHANGED <<args, status, unknown>>
      /\ \/ UNCHANGED <<next, collected>>
         \/ /\ f \in Collectors /\ next' = <<>>
            /\ collected' = [collected EXCEPT ![f] = Append(@, next)]
  BY DEF ParseParameter, splitVars
<1> HIDE DEF f
<1>3. ValuesGrow /\ idx + 1 \in ToSet(values'[f])
  BY <1>1, <1>2, GrownValues
<1>4. CASE UNCHANGED <<next, collected>>
  <2>1. \A r \in idx..(idx' - 1) : r = idx \/ r = idx + 1
    BY <1>1, <1>2
  <2>2. \A r \in idx..(idx' - 1) :
           args'[r] \in Flags \/ \E g \in WithArgument : r \in ToSet(values'[g])
    BY <1>1, <1>2, <1>3, <2>1 DEF f
  <2>3. idx' \in Nat /\ idx' <= idx + 2
    BY <1>1, <1>2
  <2> QED
    BY <1>1, <1>2, <1>3, <1>4, <2>2, <2>3, PassFlag
<1>5. CASE /\ f \in Collectors /\ next' = <<>>
           /\ collected' = [collected EXCEPT ![f] = Append(@, next)]
  <2>1. collected \in [Collectors -> Seq(Seq(Positions))] /\ next \in Seq(Positions)
    BY DEF IndInv, Shapes
  <2>2. ASSUME NEW g \in Collectors, NEW n \in 1..Len(collected'[g])
        PROVE  InOrder(collected[g][n])'
    <3>1. PICK t : t = collected'[g][n]
      OBVIOUS
    <3>2. InOrder(t)
      <4>1. CASE g = f
        <5>1. collected'[g] = Append(collected[g], next) /\ collected[g] \in Seq(Seq(Positions))
          BY <1>5, <2>1, <4>1
        <5>2. t = next \/ (n \in 1..Len(collected[g]) /\ t = collected[g][n])
          BY <2>1, <3>1, <5>1
        <5> QED
          BY <1>1, <5>2 DEF OrderInv
      <4>2. CASE g # f
        BY <1>5, <2>1, <3>1, <4>2 DEF OrderInv
      <4> QED
        BY <4>1, <4>2
    <3>3. InOrder(t)'
      BY <1>3, <3>2, StillInOrder
    <3> QED
      BY <3>1, <3>3, Zenon DEF InOrder, OnlyFlagsBetween
  <2>3. InOrder(next)' /\ Increasing(next')
    BY <1>5 DEF InOrder, Increasing
  <2> QED
    BY <1>2, <1>5, <2>2, <2>3, Zenon DEF OrderInv, Increasing
<1> QED
  BY <1>2, <1>4, <1>5

LEMMA OtherOrder ==
    ASSUME OrderInv, UNCHANGED <<args, values, collected>>,
           \/ UNCHANGED <<status, next, idx, unknown>>
           \/ status' # "parse" /\ (unknown' = unknown \/ (status = "parse" /\ unknown' = next))
    PROVE  OrderInv'
<1>1. \A f \in Collectors : \A n \in 1..Len(collected'[f]) : InOrder(collected[f][n])'
  BY DEF OrderInv, InOrder, OnlyFlagsBetween
<1>2. CASE UNCHANGED <<status, next, idx, unknown>>
  BY <1>1, <1>2 DEF OrderInv, InOrder, OnlyFlagsBetween, Increasing
<1>3. CASE status' # "parse" /\ (unknown' = unknown \/ (status = "parse" /\ unknown' = next))
  BY <1>1, <1>3 DEF OrderInv, Increasing
<1> QED
  BY <1>2, <1>3

LEMMA OrderStep == IndInv /\ OrderInv /\ [Next]_vars => OrderInv'
<1> SUFFICES ASSUME IndInv, OrderInv, [Next]_vars PROVE OrderInv'
  OBVIOUS
<1>1. CASE DoubleDash \/ ParseError \/ EndOfArgs
  <2>1. /\ UNCHANGED <<args, values, collected>> /\ status' # "parse" /\ status = "parse"
        /\ unknown' = unknown \/ unknown' = next
    BY <1>1 DEF DoubleDash, ParseError, EndOfArgs, parseVars, splitVars, AtArg
  <2> QED
    BY <2>1, OtherOrder
<1>2. CASE Check \/ SplitOption \/ SplitOutput \/ EndSplit
  <2>1. UNCHANGED <<args, values, collected, unknown>> /\ status' # "parse"
    BY <1>2 DEF Check, SplitOption, SplitOutput, EndSplit, parseVars, splitVars
  <2> QED
    BY <2>1, OtherOrder
<1>3. CASE UNCHANGED vars
  BY <1>3, OtherOrder DEF vars
<1> QED
  BY <1>1, <1>2, <1>3, CollectOrder, FlagOrder, ParameterOrder DEF Next

LEMMA InitOrder == Init => OrderInv
BY FlagSets DEF Init, OrderInv, InOrder, Increasing

\* The inductive invariant of the order in which Parse collects.
THEOREM OrderInvariant == Spec => []OrderInv
<1>1. IndInv /\ OrderInv /\ [Next]_vars => OrderInv'
  BY OrderStep
<1> QED
  BY <1>1, InitOrder, Invariance, PTL DEF Spec

\* An option goes to the first collecting flag behind it, and to no other; a
\* flag has its options in the order they were typed, without a gap.
THEOREM OptionsGoToNext == Spec => []OptionsOfNextCollector
<1>1. IndInv /\ OrderInv => OptionsOfNextCollector
  <2> SUFFICES ASSUME IndInv, OrderInv, NEW f \in Collectors, NEW n \in DOMAIN collected[f]
               PROVE  /\ InOrder(collected[f][n])
                      /\ n \in DOMAIN values[f] =>
                            \A p \in ToSet(collected[f][n]) :
                              /\ p < values[f][n]
                              /\ \A q \in UNION {ToSet(values[g]) : g \in Collectors} :
                                    q > p => q >= values[f][n]
    BY Zenon DEF OptionsOfNextCollector
  <2>1. /\ collected[f] \in Seq(Seq(Positions))
        /\ \A g \in Collectors : values[g] \in Seq(Positions)
    BY FlagSets DEF IndInv, Shapes
  <2>2. n \in 1..Len(collected[f]) /\ collected[f][n] \in Seq(Positions)
    BY <2>1
  <2>3. InOrder(collected[f][n])
    BY <2>2 DEF OrderInv
  <2>4. ASSUME n \in DOMAIN values[f], NEW p \in ToSet(collected[f][n])
        PROVE  /\ p < values[f][n]
               /\ \A q \in UNION {ToSet(values[g]) : g \in Collectors} :
                     q > p => q >= values[f][n]
    <3>1. PICK i \in 1..Len(collected[f][n]) : p = collected[f][n][i]
      BY <2>2, <2>4 DEF ToSet
    <3>2. Between(f, n, p)
      BY <2>2, <3>1 DEF IndInv, ParseInv, Collected
    <3>3. ASSUME NEW q \in UNION {ToSet(values[g]) : g \in Collectors}, q > p
          PROVE  q >= values[f][n]
      <4>1. PICK g \in Collectors : q \in ToSet(values[g])
        OBVIOUS
      <4>2. PICK m \in DOMAIN values[g] : q = values[g][m]
        BY <4>1 DEF ToSet
      <4>3. m \in 1..Len(values[g])
        BY <2>1, <4>1, <4>2
      <4> QED
        BY <3>2, <3>3, <4>2, <4>3 DEF Between
    <3> QED
      BY <3>2, <3>3 DEF Between
  <2> QED
    BY <2>3, <2>4
<1> QED
  BY <1>1, Invariance, OrderInvariant, PTL

-----------------------------------------------------------------------------
\* Lists with the names X and the contents A hold each element of S that is
\* not in O once, and nothing else.
Exact(X, A, S, O) ==
    /\ \A k, l \in X : \A m \in 1..Len(A[k]), n \in 1..Len(A[l]) :
          A[k][m] = A[l][n] => k = l /\ m = n
    /\ \A k \in X : \A m \in 1..Len(A[k]) : A[k][m] \in S \ O
    /\ \A p \in S : p \in O \/ \E k \in X : \E m \in 1..Len(A[k]) : A[k][m] = p
    /\ O \subseteq S

LEMMA Joined ==
    ASSUME NEW S, NEW s \in Seq(S), NEW t \in Seq(S)
    PROVE  /\ s \o t \in Seq(S) /\ Len(s \o t) = Len(s) + Len(t)
           /\ \A k \in 1..Len(s) : k \in 1..Len(s \o t) /\ (s \o t)[k] = s[k]
           /\ \A k \in 1..Len(t) :
                Len(s) + k \in 1..Len(s \o t) /\ (s \o t)[Len(s) + k] = t[k]
           /\ \A k \in 1..Len(s \o t) :
                k \in 1..Len(s) \/ \E j \in 1..Len(t) : k = Len(s) + j
<1>1. /\ s \o t \in Seq(S) /\ Len(s \o t) = Len(s) + Len(t)
      /\ Len(s) \in Nat /\ Len(t) \in Nat
  OBVIOUS
<1>2. \A k \in 1..Len(s) : k \in 1..Len(s \o t) /\ (s \o t)[k] = s[k]
  BY <1>1
<1>3. \A k \in 1..Len(t) :
                Len(s) + k \in 1..Len(s \o t) /\ (s \o t)[Len(s) + k] = t[k]
  BY <1>1
<1>4. ASSUME NEW k \in 1..Len(s \o t), ~(k \in 1..Len(s))
      PROVE  k - Len(s) \in 1..Len(t) /\ k = Len(s) + (k - Len(s))
  BY <1>1, <1>4
<1> QED
  BY <1>1, <1>2, <1>3, <1>4

\* From the lists A to the lists B: a list may get another name, an empty one
\* may come, and the list L grows by new elements F, while N joins what is left
\* out.
Moved(X, Y, T, A, B, from, L, F, S, N) ==
    /\ A \in [X -> Seq(T)] /\ B \in [Y -> Seq(T)] /\ from \in [Y -> X]
    /\ L \in Y /\ F \in Seq(T)
    /\ \A l \in Y : l # L => B[l] = <<>> \/ B[l] = A[from[l]]
    /\ B[L] = A[from[L]] \o F
    /\ \A k, l \in Y : from[k] = from[l] => k = l \/ B[k] = <<>> \/ B[l] = <<>>
    /\ \A k \in X : A[k] = <<>> \/ \E l \in Y : from[l] = k /\ (l = L \/ B[l] # <<>>)
    /\ \A i, j \in 1..Len(F) : F[i] = F[j] => i = j
    /\ \A i \in 1..Len(F) : F[i] \notin S \cup N
    /\ N \cap S = {}

LEMMA Relabelled ==
    ASSUME NEW X, NEW Y, NEW T, NEW A, NEW B, NEW from, NEW L, NEW F, NEW S, NEW O, NEW N,
           Exact(X, A, S, O), Moved(X, Y, T, A, B, from, L, F, S, N)
    PROVE  Exact(Y, B, S \cup N \cup ToSet(F), O \cup N)
<1> USE DEF Moved
<1>0. \A p : p \in ToSet(F) <=> \E j \in 1..Len(F) : p = F[j]
  BY DEF ToSet
<1>1. PICK K \in X : K = from[L]
  OBVIOUS
<1>2. /\ A[K] \in Seq(T) /\ Len(A[K]) \in Nat /\ Len(B[L]) = Len(A[K]) + Len(F)
      /\ \A m \in 1..Len(A[K]) : m \in 1..Len(B[L]) /\ B[L][m] = A[K][m]
      /\ \A m \in 1..Len(F) : Len(A[K]) + m \in 1..Len(B[L]) /\ B[L][Len(A[K]) + m] = F[m]
      /\ \A m \in 1..Len(B[L]) : m \in 1..Len(A[K]) \/ \E j \in 1..Len(F) : m = Len(A[K]) + j
  <2>1. A[K] \in Seq(T) /\ B[L] = A[K] \o F
    BY <1>1
  <2> QED
    BY <2>1, Joined
\* a place is an old one or a new one
<1> DEFINE Old(l, m) == m \in 1..Len(A[from[l]]) /\ B[l][m] = A[from[l]][m]
           New(l, m) == l = L /\ \E j \in 1..Len(F) : m = Len(A[K]) + j /\ B[l][m] = F[j]
<1>3. \A l \in Y : \A m \in 1..Len(B[l]) : Old(l, m) \/ New(l, m)
  <2> SUFFICES ASSUME NEW l \in Y, NEW m \in 1..Len(B[l]) PROVE Old(l, m) \/ New(l, m)
    BY Zenon
  <2>1. CASE l = L
    BY <1>1, <1>2, <2>1
  <2>2. CASE l # L
    <3>1. B[l] # <<>>
      OBVIOUS
    <3> QED
      BY <2>2, <3>1
  <2> QED
    BY <2>1, <2>2
<1> HIDE DEF Old, New
<1>4. ASSUME NEW k \in Y, NEW l \in Y, NEW m \in 1..Len(B[k]), NEW n \in 1..Len(B[l]),
             B[k][m] = B[l][n]
      PROVE  k = l /\ m = n
  <2>1. CASE Old(k, m) /\ Old(l, n)
    <3>1. PICK a \in X, b \in X : a = from[k] /\ b = from[l]
      OBVIOUS
    <3>2. m \in 1..Len(A[a]) /\ n \in 1..Len(A[b]) /\ A[a][m] = A[b][n]
      BY <1>4, <2>1, <3>1 DEF Old
    <3>3. a = b /\ m = n
      BY <3>2 DEF Exact
    <3>4. B[k] # <<>> /\ B[l] # <<>>
      OBVIOUS
    <3>5. from[k] = from[l]
      BY <3>1, <3>3
    <3>6. k = l
      BY <3>4, <3>5, Zenon
    <3> QED
      BY <3>3, <3>6
  <2>2. ASSUME NEW i \in Y, NEW j \in 1..Len(A[from[i]])
        PROVE  A[from[i]][j] \in S
    BY DEF Exact
  <2>3. CASE New(k, m) /\ New(l, n)
    BY <1>4, <2>3 DEF New
  <2>4. CASE Old(k, m) /\ New(l, n)
    BY <1>4, <2>2, <2>4 DEF Old, New
  <2>5. CASE New(k, m) /\ Old(l, n)
    BY <1>4, <2>2, <2>5 DEF Old, New
  <2>6. (Old(k, m) \/ New(k, m)) /\ (Old(l, n) \/ New(l, n))
    BY <1>3, Zenon
  <2> QED
    BY <2>1, <2>3, <2>4, <2>5, <2>6, Zenon
<1>5. ASSUME NEW k \in Y, NEW m \in 1..Len(B[k])
      PROVE  B[k][m] \in (S \cup N \cup ToSet(F)) \ (O \cup N)
  <2>1. CASE Old(k, m)
    <3>1. A[from[k]][m] \in S \ O
      BY <2>1 DEF Exact, Old
    <3> QED
      BY <2>1, <3>1 DEF Old
  <2>2. ASSUME NEW j \in 1..Len(F), B[k][m] = F[j]
        PROVE  B[k][m] \in (S \cup N \cup ToSet(F)) \ (O \cup N)
    BY <1>0, <2>2 DEF Exact
  <2>3. Old(k, m) \/ New(k, m)
    BY <1>3, Zenon
  <2> QED
    BY <2>1, <2>2, <2>3 DEF New
<1>6. ASSUME NEW p \in S \cup N \cup ToSet(F)
      PROVE  p \in O \cup N \/ \E k \in Y : \E m \in 1..Len(B[k]) : B[k][m] = p
  <2>1. CASE p \in S /\ p \notin O
    <3>1. PICK k \in X : \E m \in 1..Len(A[k]) : A[k][m] = p
      BY <2>1 DEF Exact
    <3>2. PICK m \in 1..Len(A[k]) : A[k][m] = p
      BY <3>1
    <3>3. PICK l \in Y : from[l] = k /\ (l = L \/ B[l] # <<>>)
      <4>1. A[k] # <<>>
        BY <3>2
      <4> QED
        BY <4>1
    <3>4. m \in 1..Len(B[l]) /\ B[l][m] = p
      <4>1. CASE l = L
        BY <1>1, <1>2, <3>2, <3>3, <4>1
      <4>2. CASE l # L
        BY <3>2, <3>3, <4>2
      <4> QED
        BY <4>1, <4>2
    <3> QED
      BY <3>4
  <2>2. ASSUME NEW j \in 1..Len(F), p = F[j]
        PROVE  \E k \in Y : \E m \in 1..Len(B[k]) : B[k][m] = p
    <3>1. L \in Y /\ Len(A[K]) + j \in 1..Len(B[L]) /\ B[L][Len(A[K]) + j] = p
      BY <1>2, <2>2
    <3> QED
      BY <3>1, Zenon
  <2>3. p \in O \/ p \in N \/ (p \in S /\ p \notin O) \/ \E j \in 1..Len(F) : p = F[j]
    BY <1>0
  <2> QED
    BY <2>1, <2>2, <2>3
<1> QED
  BY <1>4, <1>5, <1>6 DEF Exact

\* The same for lists that keep their names.
Grows(X, T, A, B, L, F, S, N) ==
    /\ A \in [X -> Seq(T)] /\ B \in [X -> Seq(T)] /\ L \in X /\ F \in Seq(T)
    /\ \A l \in X : l # L => B[l] = A[l]
    /\ B[L] = A[L] \o F
    /\ \A i, j \in 1..Len(F) : F[i] = F[j] => i = j
    /\ \A i \in 1..Len(F) : F[i] \notin S \cup N
    /\ N \cap S = {}

LEMMA Grown ==
    ASSUME NEW X, NEW T, NEW A, NEW B, NEW L, NEW F, NEW S, NEW O, NEW N,
           Exact(X, A, S, O), Grows(X, T, A, B, L, F, S, N)
    PROVE  Exact(X, B, S \cup N \cup ToSet(F), O \cup N)
<1> USE DEF Grows
<1>1. PICK from \in [X -> X] : \A l \in X : from[l] = l
  <2>1. [l \in X |-> l] \in [X -> X] /\ \A l \in X : [k \in X |-> k][l] = l
    OBVIOUS
  <2> QED
    BY <2>1
<1>2. \A k \in X : A[k] = <<>> \/ \E l \in X : from[l] = k /\ (l = L \/ B[l] # <<>>)
  BY <1>1
<1>3. \A k, l \in X : from[k] = from[l] => k = l
  BY <1>1
<1>4. B[L] = A[from[L]] \o F /\ \A l \in X : l # L => B[l] = A[from[l]]
  BY <1>1
<1>5. Moved(X, X, T, A, B, from, L, F, S, N)
  BY <1>2, <1>3, <1>4, Zenon DEF Moved
<1> QED
  BY <1>5, Relabelled, Zenon

-----------------------------------------------------------------------------
\* The lists of EveryArgumentOnce by their names.
Contents == [l \in Lists |-> Held(l)]
PassedArgs == IF status = "parse" THEN 1..(idx - 1) ELSE Positions
Rest == IF status = "parse" THEN next ELSE unknown
ListFacts ==
    /\ Contents \in [Lists -> Seq(Positions)]
    /\ \A f \in Flags : <<"values", f>> \in Lists /\ Contents[<<"values", f>>] = values[f]
    /\ <<"nonFlags">> \in Lists /\ Contents[<<"nonFlags">>] = nonFlags
    /\ <<"rest">> \in Lists /\ Contents[<<"rest">>] = Rest
    /\ \A f \in Collectors : \A n \in 1..Len(collected[f]) :
          <<"collected", f, n>> \in Lists /\ Contents[<<"collected", f, n>>] = collected[f][n]
    /\ \A l \in Lists :
          \/ \E f \in Flags : l = <<"values", f>>
          \/ l = <<"nonFlags">>
          \/ l = <<"rest">>
          \/ \E f \in Collectors : \E n \in 1..Len(collected[f]) : l = <<"collected", f, n>>

LEMMA ListsAre == Shapes => ListFacts
<1> SUFFICES ASSUME Shapes PROVE ListFacts
  OBVIOUS
<1>1. \A f \in Collectors : collected[f] \in Seq(Seq(Positions))
  BY DEF Shapes
<1>2. \A f \in Collectors : DOMAIN collected[f] = 1..Len(collected[f])
  BY <1>1
<1>3. \A f \in Flags : <<"values", f>> \in Lists
  BY DEF Lists
<1>4. <<"nonFlags">> \in Lists /\ <<"rest">> \in Lists
  BY DEF Lists
<1>5. \A f \in Collectors : \A n \in 1..Len(collected[f]) : <<"collected", f, n>> \in Lists
  BY <1>2 DEF Lists
<1>6. ASSUME NEW l \in Lists
      PROVE  \/ \E f \in Flags : l = <<"values", f>>
             \/ l = <<"nonFlags">>
             \/ l = <<"rest">>
             \/ \E f \in Collectors : \E n \in 1..Len(collected[f]) : l = <<"collected", f, n>>
  BY <1>2 DEF Lists
<1>7. \A f \in Flags : Held(<<"values", f>>) = values[f]
  BY DEF Held
<1>8. Held(<<"nonFlags">>) = nonFlags /\ Held(<<"rest">>) = Rest
  BY DEF Held, Rest
<1>9. \A f \in Collectors : \A n \in 1..Len(collected[f]) :
         Held(<<"collected", f, n>>) = collected[f][n]
  BY DEF Held
<1>10. ASSUME NEW l \in Lists PROVE Held(l) \in Seq(Positions)
  <2>1. \A f \in Flags : values[f] \in Seq(Positions)
    BY DEF Shapes
  <2>2. nonFlags \in Seq(Positions) /\ Rest \in Seq(Positions)
    BY DEF Shapes, Rest
  <2>3. \A f \in Collectors : \A n \in 1..Len(collected[f]) : collected[f][n] \in Seq(Positions)
    BY <1>1
  <2> QED
    BY <1>6, <1>7, <1>8, <1>9, <2>1, <2>2, <2>3
<1>11. \A l \in Lists : Contents[l] = Held(l)
  BY DEF Contents
<1>12. Contents \in [Lists -> Seq(Positions)]
  BY <1>10 DEF Contents
<1> QED
  BY <1>3, <1>4, <1>5, <1>6, <1>7, <1>8, <1>9, <1>11, <1>12, Zenon DEF ListFacts

LEMMA ListsStay ==
    ASSUME IndInv, IndInv'
    PROVE  ListFacts /\ ListFacts'
<1>1. Shapes => ListFacts
  BY ListsAre
<1>2. Shapes' => ListFacts'
  BY ListsAre, PTL
<1> QED
  BY <1>1, <1>2 DEF IndInv

\* Each argument Parse has passed is in one place, or is a flag's name or "--".
PlaceInv ==
    /\ status = "parse" => nonFlags = <<>>
    /\ status \in {"parse", "check"} => Exact(Lists, Contents, PassedArgs, Names \cup Dashes)

\* The name of a flag with an argument is known by the argument.
NameFacts ==
    \A p : p \in Names <=>
        \E f \in WithArgument : \E m \in 1..Len(values[f]) : p = values[f][m] - 1

LEMMA NamesAre == Shapes => NameFacts
<1> SUFFICES ASSUME Shapes PROVE NameFacts
  OBVIOUS
<1>1. \A f \in WithArgument : values[f] \in Seq(Positions) /\ DOMAIN values[f] = 1..Len(values[f])
  BY FlagSets DEF Shapes
<1>2. \A f \in WithArgument : \A x :
         x \in ToSet(values[f]) <=> \E m \in 1..Len(values[f]) : x = values[f][m]
  BY <1>1 DEF ToSet
<1>3. ASSUME NEW p \in Names
      PROVE  \E f \in WithArgument : \E m \in 1..Len(values[f]) : p = values[f][m] - 1
  <2>1. PICK x \in UNION {ToSet(values[f]) : f \in WithArgument} : p = x - 1
    BY DEF Names
  <2>2. PICK f \in WithArgument : x \in ToSet(values[f])
    OBVIOUS
  <2> QED
    BY <1>2, <2>1, <2>2
<1>4. ASSUME NEW f \in WithArgument, NEW m \in 1..Len(values[f])
      PROVE  values[f][m] - 1 \in Names
  <2>1. values[f][m] \in UNION {ToSet(values[g]) : g \in WithArgument}
    BY <1>2
  <2> QED
    BY <2>1 DEF Names
<1> QED
  BY <1>3, <1>4 DEF NameFacts

\* A step that changes one list, L.
LEMMA OtherLists ==
    ASSUME ListFacts, ListFacts', UNCHANGED collected, NEW L,
           Rest' = Rest \/ L = <<"rest">>,
           nonFlags' = nonFlags \/ L = <<"nonFlags">>,
           \A f \in Flags : values'[f] = values[f] \/ L = <<"values", f>>
    PROVE  Lists' = Lists /\ \A l \in Lists : l # L => Contents'[l] = Contents[l]
<1>1. Lists' = Lists
  BY DEF Lists
<1>2. ASSUME NEW l \in Lists, l # L PROVE Contents'[l] = Contents[l]
  <2>1. ASSUME NEW f \in Flags, l = <<"values", f>> PROVE Contents'[l] = Contents[l]
    <3>1. values'[f] = values[f]
      BY <1>2, <2>1
    <3> QED
      BY <2>1, <3>1, Zenon DEF ListFacts
  <2>2. CASE l = <<"nonFlags">>
    BY <1>2, <2>2, Zenon DEF ListFacts
  <2>3. CASE l = <<"rest">>
    BY <1>2, <2>3, Zenon DEF ListFacts
  <2>4. ASSUME NEW f \in Collectors, NEW n \in 1..Len(collected[f]), l = <<"collected", f, n>>
        PROVE  Contents'[l] = Contents[l]
    <3>1. n \in 1..Len(collected'[f]) /\ collected'[f][n] = collected[f][n]
      OBVIOUS
    <3> QED
      BY <2>4, <3>1, Zenon DEF ListFacts
  <2> QED
    BY <2>1, <2>2, <2>3, <2>4, Zenon DEF ListFacts
<1> QED
  BY <1>1, <1>2

LEMMA InitPlace == Init => PlaceInv
<1> SUFFICES ASSUME Init PROVE PlaceInv
  OBVIOUS
<1>1. Shapes /\ ListFacts /\ status = "parse" /\ nonFlags = <<>> /\ idx = 1
  BY InitInv, ListsAre DEF IndInv, Init
<1>2. \A l \in Lists : Contents[l] = <<>>
  <2>1. /\ \A f \in Flags : values[f] = <<>>
        /\ \A f \in Collectors : Len(collected[f]) = 0
        /\ nonFlags = <<>> /\ Rest = <<>>
    BY DEF Init, Rest
  <2>2. \A f \in Collectors : 1..Len(collected[f]) = {}
    BY <2>1
  <2> QED
    BY <1>1, <2>1, <2>2, Zenon DEF ListFacts
<1>3. Names = {} /\ Dashes = {}
  <2>1. \A f \in WithArgument : 1..Len(values[f]) = {}
    BY FlagSets DEF Init
  <2> QED
    BY <1>1, <2>1, NamesAre DEF Dashes, NameFacts
<1>4. PassedArgs = {}
  BY <1>1 DEF PassedArgs
<1>5. \A l \in Lists : 1..Len(Contents[l]) = {}
  BY <1>2
<1>6. Exact(Lists, Contents, PassedArgs, Names \cup Dashes)
  BY <1>3, <1>4, <1>5, Zenon DEF Exact
<1> QED
  BY <1>1, <1>6 DEF PlaceInv

\* What Parse takes in a step that changes one list, L, and nothing else: the
\* new elements F of the list and the positions N of names.
Takes(L, F, N) ==
    /\ L \in Lists /\ F \in Seq(Positions)
    /\ Contents'[L] = Contents[L] \o F
    /\ Rest' = Rest \/ L = <<"rest">>
    /\ nonFlags' = nonFlags \/ L = <<"nonFlags">>
    /\ \A f \in Flags : values'[f] = values[f] \/ L = <<"values", f>>
    /\ \A i, j \in 1..Len(F) : F[i] = F[j] => i = j
    /\ \A i \in 1..Len(F) : F[i] >= idx /\ F[i] \notin N
    /\ \A p \in N : p >= idx
    /\ PassedArgs' = (1..(idx - 1)) \cup N \cup ToSet(F)
    /\ (Names \cup Dashes)' = Names \cup N

LEMMA Taken ==
    ASSUME IndInv, IndInv', PlaceInv, status = "parse", UNCHANGED <<args, collected>>,
           NEW L, NEW F, NEW N, Takes(L, F, N)
    PROVE  Exact(Lists, Contents, PassedArgs, Names \cup Dashes)'
<1>1. ListFacts /\ ListFacts' /\ Positions' = Positions /\ idx \in Nat
  BY ListsStay DEF Positions, IndInv, Progress
<1>2. Lists' = Lists /\ \A l \in Lists : l # L => Contents'[l] = Contents[l]
  BY <1>1, OtherLists DEF Takes
<1>3. Contents \in [Lists -> Seq(Positions)] /\ Contents' \in [Lists -> Seq(Positions)]
  BY <1>1, <1>2 DEF ListFacts
<1>4. Exact(Lists, Contents, 1..(idx - 1), Names)
  <2>1. PassedArgs = 1..(idx - 1) /\ Names \cup Dashes = Names
    BY DEF PassedArgs, Dashes
  <2> QED
    BY <2>1 DEF PlaceInv
<1>5. Grows(Lists, Positions, Contents, Contents', L, F, 1..(idx - 1), N)
  <2>1. \A p \in 1..(idx - 1) : ~(p >= idx)
    BY <1>1
  <2>2. (\A i \in 1..Len(F) : F[i] \notin (1..(idx - 1)) \cup N) /\ N \cap (1..(idx - 1)) = {}
    BY <2>1 DEF Takes
  <2> QED
    BY <1>2, <1>3, <2>2, Zenon DEF Grows, Takes
<1>6. Exact(Lists, Contents', (1..(idx - 1)) \cup N \cup ToSet(F), Names \cup N)
  BY <1>4, <1>5, Grown
<1>7. Exact(Lists', Contents', PassedArgs', (Names \cup Dashes)')
  <2>1. PassedArgs' = (1..(idx - 1)) \cup N \cup ToSet(F) /\ (Names \cup Dashes)' = Names \cup N
    BY DEF Takes
  <2> QED
    BY <1>2, <1>6, <2>1
<1> QED
  BY <1>7 DEF Exact

LEMMA CollectPlace == ASSUME IndInv, IndInv', PlaceInv, CollectUnknown PROVE PlaceInv'
<1>1. idx \in Positions /\ status = "parse" /\ idx \in Nat /\ 1 <= idx
  BY AtPosition DEF CollectUnknown, Positions
<1>2. /\ next' = Append(next, idx) /\ idx' = idx + 1
      /\ UNCHANGED <<args, status, values, collected, nonFlags>>
  BY DEF CollectUnknown, splitVars
<1>3. PICK F : F = <<idx>>
  OBVIOUS
<1>4. F \in Seq(Positions) /\ Len(F) = 1 /\ F[1] = idx /\ ToSet(F) = {idx}
  BY <1>1, <1>3 DEF ToSet
<1>5. <<"rest">> \in Lists /\ Contents'[<<"rest">>] = Contents[<<"rest">>] \o F
  <2>1. Contents[<<"rest">>] = next /\ Contents'[<<"rest">>] = next' /\ <<"rest">> \in Lists
    BY <1>1, <1>2, ListsStay DEF ListFacts, Rest
  <2>2. next \in Seq(Positions)
    BY DEF IndInv, Shapes
  <2>3. Append(next, idx) = next \o F
    BY <1>3, <2>2
  <2> QED
    BY <1>2, <2>1, <2>3
<1>6. PassedArgs' = (1..(idx - 1)) \cup {} \cup ToSet(F)
  BY <1>1, <1>2, <1>4 DEF PassedArgs
<1>7. (Names \cup Dashes)' = Names \cup {}
  BY <1>1, <1>2 DEF Names, Dashes
<1>8. Takes(<<"rest">>, F, {})
  BY <1>1, <1>2, <1>4, <1>5, <1>6, <1>7 DEF Takes
<1> QED
  BY <1>1, <1>2, <1>8, Taken DEF PlaceInv

LEMMA FlagPlace == ASSUME IndInv, IndInv', PlaceInv, ParseFlag PROVE PlaceInv'
<1> DEFINE f == args[idx]
<1>1. idx \in Positions /\ status = "parse" /\ idx \in Nat /\ 1 <= idx /\ f \in Switches
      /\ f \in Flags /\ f \notin WithArgument
  BY AtPosition, FlagSets, ConstantsAssumption DEF ParseFlag, Positions
<1>2. /\ values' = [values EXCEPT ![f] = Append(@, idx)] /\ idx' = idx + 1
      /\ UNCHANGED <<args, status, next, collected, unknown, nonFlags>>
  BY DEF ParseFlag, splitVars
<1> HIDE DEF f
<1>3. PICK F, L : F = <<idx>> /\ L = <<"values", f>>
  OBVIOUS
<1>4. F \in Seq(Positions) /\ Len(F) = 1 /\ F[1] = idx /\ ToSet(F) = {idx}
  BY <1>1, <1>3 DEF ToSet
<1>5. /\ values'[f] = Append(values[f], idx) /\ values[f] \in Seq(Positions)
      /\ \A g \in Flags \ {f} : values'[g] = values[g]
  BY <1>1, <1>2 DEF IndInv, Shapes
<1>6. L \in Lists /\ Contents'[L] = Contents[L] \o F
  <2>1. L \in Lists /\ Contents[L] = values[f] /\ Contents'[L] = values'[f]
    BY <1>1, <1>3, ListsStay DEF ListFacts
  <2>2. Append(values[f], idx) = values[f] \o F
    BY <1>3, <1>5
  <2> QED
    BY <1>5, <2>1, <2>2
<1>7. PassedArgs' = (1..(idx - 1)) \cup {} \cup ToSet(F)
  BY <1>1, <1>2, <1>4 DEF PassedArgs
<1>8. (Names \cup Dashes)' = Names \cup {}
  <2>1. \A g \in WithArgument : values'[g] = values[g]
    BY <1>1, <1>5, FlagSets
  <2>2. Shapes /\ Shapes'
    BY DEF IndInv
  <2>3. \A p : p \in Names <=> p \in Names'
    BY <2>1 DEF Names
  <2> QED
    BY <1>1, <1>2, <2>3 DEF Dashes
<1>9. Rest' = Rest
  BY <1>2 DEF Rest
<1>10. Takes(L, F, {})
  BY <1>1, <1>2, <1>3, <1>4, <1>5, <1>6, <1>7, <1>8, <1>9 DEF Takes
<1> QED
  BY <1>1, <1>2, <1>10, Taken DEF PlaceInv

\* The value of a flag with an argument makes the flag a name.
LEMMA OneMoreName ==
    ASSUME IndInv, IndInv', NEW f \in WithArgument, idx \in Nat,
           values' = [values EXCEPT ![f] = Append(@, idx + 1)]
    PROVE  Names' = Names \cup {idx}
<1>1. Shapes /\ Shapes' /\ f \in Flags
  BY FlagSets DEF IndInv
<1>2. NameFacts /\ NameFacts'
  <2>1. Shapes => NameFacts
    BY NamesAre
  <2>2. Shapes' => NameFacts'
    BY NamesAre, PTL
  <2> QED
    BY <1>1, <2>1, <2>2
<1>3. /\ \A p : p \in Names <=>
            \E g \in WithArgument : \E m \in 1..Len(values[g]) : p = values[g][m] - 1
      /\ \A p : p \in Names' <=>
            \E g \in WithArgument : \E m \in 1..Len(values'[g]) : p = values'[g][m] - 1
  BY <1>2, Zenon DEF NameFacts
<1>4. /\ values[f] \in Seq(Positions) /\ values'[f] = Append(values[f], idx + 1)
      /\ \A g \in WithArgument \ {f} : values'[g] = values[g]
  BY <1>1, FlagSets DEF Shapes
<1>5. /\ Len(values'[f]) = Len(values[f]) + 1 /\ values'[f][Len(values[f]) + 1] = idx + 1
      /\ \A m \in 1..Len(values[f]) : values'[f][m] = values[f][m]
      /\ Len(values[f]) \in Nat
  BY <1>4
<1>6. ASSUME NEW p \in Names PROVE p \in Names'
  <2>1. PICK g \in WithArgument : \E m \in 1..Len(values[g]) : p = values[g][m] - 1
    BY <1>3
  <2>2. PICK m \in 1..Len(values[g]) : p = values[g][m] - 1
    BY <2>1
  <2>3. m \in 1..Len(values'[g]) /\ values'[g][m] = values[g][m]
    BY <1>4, <1>5
  <2> QED
    BY <1>3, <2>2, <2>3
<1>7. idx \in Names'
  <2>1. Len(values[f]) + 1 \in 1..Len(values'[f]) /\ idx = values'[f][Len(values[f]) + 1] - 1
    BY <1>5
  <2> QED
    BY <1>3, <2>1
<1>8. ASSUME NEW p \in Names' PROVE p \in Names \/ p = idx
  <2>1. PICK g \in WithArgument : \E m \in 1..Len(values'[g]) : p = values'[g][m] - 1
    BY <1>3
  <2>2. PICK m \in 1..Len(values'[g]) : p = values'[g][m] - 1
    BY <2>1
  <2>3. CASE g = f /\ m = Len(values[f]) + 1
    BY <1>5, <2>2, <2>3
  <2>4. CASE ~(g = f /\ m = Len(values[f]) + 1)
    <3>1. m \in 1..Len(values[g]) /\ values'[g][m] = values[g][m]
      BY <1>4, <1>5, <2>4
    <3> QED
      BY <1>3, <2>2, <3>1
  <2> QED
    BY <2>3, <2>4
<1> QED
  BY <1>6, <1>7, <1>8

LEMMA PlainPlace ==
    ASSUME IndInv, IndInv', PlaceInv, ParseParameter, args[idx] \notin Collectors
    PROVE  PlaceInv'
<1> DEFINE f == args[idx]
<1>1. /\ idx \in Positions /\ idx + 1 \in Positions /\ status = "parse" /\ idx \in Nat /\ 1 <= idx
      /\ f \in Flags /\ f \in WithArgument
  BY AtPosition, FlagSets DEF ParseParameter, Positions
<1>2. /\ values' = [values EXCEPT ![f] = Append(@, idx + 1)] /\ idx' = idx + 2
      /\ UNCHANGED <<args, status, next, collected, unknown, nonFlags>>
  BY DEF ParseParameter, splitVars
<1> HIDE DEF f
<1>3. PICK F, L, N : F = <<idx + 1>> /\ L = <<"values", f>> /\ N = {idx}
  OBVIOUS
<1>4. F \in Seq(Positions) /\ Len(F) = 1 /\ F[1] = idx + 1 /\ ToSet(F) = {idx + 1}
  BY <1>1, <1>3 DEF ToSet
<1>5. /\ values'[f] = Append(values[f], idx + 1) /\ values[f] \in Seq(Positions)
      /\ \A g \in Flags \ {f} : values'[g] = values[g]
  BY <1>1, <1>2 DEF IndInv, Shapes
<1>6. L \in Lists /\ Contents'[L] = Contents[L] \o F
  <2>1. L \in Lists /\ Contents[L] = values[f] /\ Contents'[L] = values'[f]
    BY <1>1, <1>3, ListsStay DEF ListFacts
  <2>2. Append(values[f], idx + 1) = values[f] \o F
    BY <1>3, <1>5
  <2> QED
    BY <1>5, <2>1, <2>2
<1>7. PassedArgs' = (1..(idx - 1)) \cup N \cup ToSet(F)
  BY <1>1, <1>2, <1>3, <1>4 DEF PassedArgs
<1>8. (Names \cup Dashes)' = Names \cup N
  <2>1. Names' = Names \cup {idx} /\ Dashes' = {}
    BY <1>1, <1>2, OneMoreName DEF Dashes
  <2> QED
    BY <1>3, <2>1
<1>9. Rest' = Rest
  BY <1>2 DEF Rest
<1>10. Takes(L, F, N)
  BY <1>1, <1>2, <1>3, <1>4, <1>5, <1>6, <1>7, <1>8, <1>9 DEF Takes
<1> QED
  BY <1>1, <1>2, <1>10, Taken DEF PlaceInv

LEMMA DashPlace == ASSUME IndInv, IndInv', PlaceInv, DoubleDash PROVE PlaceInv'
<1>1. /\ idx \in Positions /\ status = "parse" /\ idx \in Nat /\ 1 <= idx
      /\ Len(args) \in Nat /\ idx <= Len(args)
  BY AtPosition DEF DoubleDash, Positions, IndInv, Shapes
<1>2. /\ nonFlags' = [n \in 1..(Len(args) - idx) |-> idx + n]
      /\ unknown' = next /\ status' = "check"
      /\ UNCHANGED <<args, idx, next, values, collected>>
  BY DEF DoubleDash, splitVars
<1>3. PICK F, L, N, k : /\ F = [n \in 1..(Len(args) - idx) |-> idx + n] /\ L = <<"nonFlags">>
                        /\ N = {idx} /\ k = Len(args) - idx
  OBVIOUS
<1>4. /\ F \in Seq(Positions) /\ Len(F) = k /\ DOMAIN F = 1..k
      /\ \A n \in 1..k : F[n] = idx + n /\ idx + n \in Positions
  BY <1>1, <1>3 DEF Positions
<1>5. L \in Lists /\ Contents'[L] = Contents[L] \o F
  <2>1. L \in Lists /\ Contents[L] = <<>> /\ Contents'[L] = F
    BY <1>1, <1>2, <1>3, ListsStay DEF ListFacts, PlaceInv
  <2> QED
    BY <1>4, <2>1
<1>6. PassedArgs' = (1..(idx - 1)) \cup N \cup ToSet(F)
  <2>1. PassedArgs' = 1..Len(args)
    BY <1>2 DEF PassedArgs, Positions
  <2>2. \A p \in (idx + 1)..Len(args) : p - idx \in 1..k /\ F[p - idx] = p
    BY <1>1, <1>3, <1>4
  <2>3. (idx + 1)..Len(args) \subseteq ToSet(F)
    <3> SUFFICES ASSUME NEW p \in (idx + 1)..Len(args) PROVE p \in ToSet(F)
      OBVIOUS
    <3>1. p - idx \in DOMAIN F /\ F[p - idx] = p
      BY <1>4, <2>2
    <3> QED
      BY <3>1 DEF ToSet
  <2>4. ToSet(F) \subseteq (idx + 1)..Len(args)
    BY <1>1, <1>3, <1>4 DEF ToSet, Positions
  <2>5. 1..Len(args) = (1..(idx - 1)) \cup {idx} \cup ((idx + 1)..Len(args))
    BY <1>1
  <2> QED
    BY <1>3, <2>1, <2>3, <2>4, <2>5
<1>7. (Names \cup Dashes)' = Names \cup N
  BY <1>1, <1>2, <1>3 DEF Names, Dashes
<1>8. Rest' = Rest
  BY <1>1, <1>2 DEF Rest
<1>9. Takes(L, F, N)
  <2>1. /\ \A i, j \in 1..Len(F) : F[i] = F[j] => i = j
        /\ \A i \in 1..Len(F) : F[i] >= idx /\ F[i] \notin N
        /\ \A p \in N : p >= idx
    BY <1>1, <1>3, <1>4
  <2> QED
    BY <1>2, <1>3, <1>4, <1>5, <1>6, <1>7, <1>8, <2>1, Zenon DEF Takes
<1> QED
  BY <1>1, <1>2, <1>9, Taken DEF PlaceInv

LEMMA OtherPlace ==
    ASSUME IndInv, IndInv', PlaceInv,
           \/ status' \notin {"parse", "check"}
           \/ EndOfArgs
           \/ UNCHANGED vars
    PROVE  PlaceInv'
<1>1. CASE status' \notin {"parse", "check"}
  BY <1>1 DEF PlaceInv
<1>2. CASE EndOfArgs
  <2>1. /\ status = "parse" /\ idx > Len(args) /\ unknown' = next /\ status' = "check"
        /\ UNCHANGED <<args, idx, next, values, collected, nonFlags>>
    BY <1>2 DEF EndOfArgs, splitVars
  <2>2. Rest' = Rest /\ Names' = Names /\ Dashes' = {} /\ Dashes = {}
    BY <2>1 DEF Rest, Names, Dashes, IndInv, Shapes, Progress
  <2>3. PassedArgs = PassedArgs'
    BY <2>1 DEF PassedArgs, Positions, IndInv, Shapes, Progress
  <2>4. Lists' = Lists /\ Contents' = Contents
    <3>1. ListFacts /\ ListFacts' /\ Positions' = Positions
      BY <2>1, ListsStay DEF Positions
    <3>2. Lists' = Lists /\ \A l \in Lists : l # <<"rest">> => Contents'[l] = Contents[l]
      BY <2>1, <2>2, <3>1, OtherLists
    <3>3. \A l \in Lists : l # <<"nonFlags">> => Contents'[l] = Contents[l]
      BY <2>1, <2>2, <3>1, OtherLists
    <3>4. PICK X, A, B : X = Lists /\ A = Contents /\ B = Contents'
      OBVIOUS
    <3>5. A \in [X -> Seq(Positions)] /\ B \in [X -> Seq(Positions)]
      BY <3>1, <3>2, <3>4 DEF ListFacts
    <3>6. \A l \in X : A[l] = B[l]
      BY <3>2, <3>3, <3>4
    <3>7. A = B
      BY <3>5, <3>6
    <3> QED
      BY <3>2, <3>4, <3>7
  <2> QED
    BY <2>1, <2>2, <2>3, <2>4 DEF PlaceInv
<1>3. CASE UNCHANGED vars
  <2>1. /\ Lists' = Lists /\ PassedArgs' = PassedArgs /\ Names' = Names /\ Dashes' = Dashes
        /\ status' = status /\ nonFlags' = nonFlags
    BY <1>3 DEF vars, Lists, PassedArgs, Positions, Names, Dashes
  <2>2. Contents' = Contents
    BY <1>3, <2>1 DEF vars, Contents, Held
  <2> QED
    BY <2>1, <2>2 DEF PlaceInv
<1> QED
  BY <1>1, <1>2, <1>3

\* What waited under the name "rest" gets a name of its own, C.
LEMMA CollectingPlace ==
    ASSUME IndInv, IndInv', PlaceInv, ParseParameter, args[idx] \in Collectors
    PROVE  PlaceInv'
<1> DEFINE f == args[idx]
<1>1. /\ idx \in Positions /\ idx + 1 \in Positions /\ status = "parse" /\ idx \in Nat /\ 1 <= idx
      /\ f \in Flags /\ f \in WithArgument /\ f \in Collectors
  BY AtPosition, FlagSets DEF ParseParameter, Positions
<1>2. /\ values' = [values EXCEPT ![f] = Append(@, idx + 1)] /\ idx' = idx + 2
      /\ collected' = [collected EXCEPT ![f] = Append(@, next)] /\ next' = <<>>
      /\ UNCHANGED <<args, status, unknown, nonFlags>>
  BY DEF ParseParameter, splitVars
<1> HIDE DEF f
<1>3. /\ ListFacts /\ ListFacts' /\ Positions' = Positions
      /\ collected \in [Collectors -> Seq(Seq(Positions))] /\ next \in Seq(Positions)
      /\ values \in [Flags -> Seq(Positions)]
  BY <1>2, ListsStay DEF Positions, IndInv, Shapes
<1>4. PICK F, L, N, R, C : /\ F = <<idx + 1>> /\ L = <<"values", f>> /\ N = {idx}
                           /\ R = <<"rest">> /\ C = <<"collected", f, Len(collected[f]) + 1>>
  OBVIOUS
<1>5. F \in Seq(Positions) /\ Len(F) = 1 /\ F[1] = idx + 1 /\ ToSet(F) = {idx + 1}
  BY <1>1, <1>4 DEF ToSet
<1>6. /\ values'[f] = Append(values[f], idx + 1) /\ values[f] \in Seq(Positions)
      /\ \A g \in Flags \ {f} : values'[g] = values[g]
  BY <1>1, <1>2, <1>3
<1>7. /\ Len(collected'[f]) = Len(collected[f]) + 1 /\ Len(collected[f]) \in Nat
      /\ collected'[f][Len(collected[f]) + 1] = next
      /\ \A n \in 1..Len(collected[f]) : collected'[f][n] = collected[f][n]
      /\ \A g \in Collectors \ {f} : collected'[g] = collected[g]
  BY <1>1, <1>2, <1>3
<1>8. PICK X, Y, A, B, S : /\ X = Lists /\ Y = Lists' /\ A = Contents /\ B = Contents'
                           /\ S = 1..(idx - 1)
  OBVIOUS
<1>9. L \in X /\ L \in Y /\ R \in X /\ R \in Y /\ L # R /\ C # L /\ C # R
  BY <1>1, <1>3, <1>4, <1>8 DEF ListFacts
<1>10. B[L] = A[L] \o F
  <2>1. A[L] = values[f] /\ B[L] = values'[f]
    BY <1>1, <1>3, <1>4, <1>8 DEF ListFacts
  <2> QED
    BY <1>4, <1>6, <2>1
<1>11. A[R] = next /\ B[R] = <<>> /\ C \in Y /\ B[C] = next
  <2>1. A[R] = next /\ B[R] = next'
    BY <1>1, <1>2, <1>3, <1>4, <1>8 DEF ListFacts, Rest
  <2>2. Len(collected[f]) + 1 \in 1..Len(collected'[f])
    BY <1>7
  <2>3. C \in Y /\ B[C] = collected'[f][Len(collected[f]) + 1]
    BY <1>1, <1>3, <1>4, <1>8, <2>2 DEF ListFacts
  <2> QED
    BY <1>2, <1>7, <2>1, <2>3
<1>12. C \notin X
  <2>1. \A n \in 1..Len(collected[f]) : n # Len(collected[f]) + 1
    BY <1>7
  <2> QED
    BY <1>3, <1>4, <1>8, <2>1 DEF ListFacts
<1>13. ASSUME NEW l \in X, l # L, l # R PROVE l \in Y /\ B[l] = A[l]
  <2>1. ASSUME NEW g \in Flags, l = <<"values", g>> PROVE l \in Y /\ B[l] = A[l]
    <3>1. values'[g] = values[g]
      BY <1>4, <1>6, <1>13, <2>1
    <3> QED
      BY <1>3, <1>8, <2>1, <3>1 DEF ListFacts
  <2>2. CASE l = <<"nonFlags">>
    BY <1>2, <1>3, <1>8, <2>2 DEF ListFacts
  <2>3. ASSUME NEW g \in Collectors, NEW n \in 1..Len(collected[g]), l = <<"collected", g, n>>
        PROVE  l \in Y /\ B[l] = A[l]
    <3>1. n \in 1..Len(collected'[g]) /\ collected'[g][n] = collected[g][n]
      BY <1>7
    <3> QED
      BY <1>3, <1>8, <2>3, <3>1 DEF ListFacts
  <2> QED
    BY <1>3, <1>4, <1>8, <1>13, <2>1, <2>2, <2>3 DEF ListFacts
<1>14. ASSUME NEW l \in Y, l # C PROVE l \in X
  <2>1. ASSUME NEW g \in Collectors, NEW n \in 1..Len(collected'[g]), l = <<"collected", g, n>>
        PROVE  n \in 1..Len(collected[g])
    <3>1. CASE g = f
      <4>1. n # Len(collected[f]) + 1
        BY <1>4, <1>14, <2>1, <3>1
      <4> QED
        BY <1>7, <3>1, <4>1
    <3>2. CASE g # f
      BY <1>7, <3>2
    <3> QED
      BY <3>1, <3>2
  <2>2. \/ \E g \in Flags : l = <<"values", g>>
        \/ l = <<"nonFlags">> \/ l = <<"rest">>
        \/ \E g \in Collectors : \E n \in 1..Len(collected'[g]) : l = <<"collected", g, n>>
    BY <1>3, <1>8 DEF ListFacts
  <2> QED
    BY <1>3, <1>8, <2>1, <2>2 DEF ListFacts
<1>15. PICK from \in [Y -> X] : from[C] = R /\ \A l \in Y \ {C} : from[l] = l
  <2> DEFINE g == [l \in Y |-> IF l = C THEN R ELSE l]
  <2>1. g \in [Y -> X] /\ g[C] = R /\ \A l \in Y \ {C} : g[l] = l
    BY <1>9, <1>11, <1>14
  <2> QED
    BY <2>1
<1>16. A \in [X -> Seq(Positions)] /\ B \in [Y -> Seq(Positions)]
  BY <1>3, <1>8 DEF ListFacts
<1>17. \A l \in Y : l # L => B[l] = <<>> \/ B[l] = A[from[l]]
  <2> SUFFICES ASSUME NEW l \in Y, l # L PROVE B[l] = <<>> \/ B[l] = A[from[l]]
    OBVIOUS
  <2>1. CASE l = C
    BY <1>11, <1>15, <2>1
  <2>2. CASE l # C
    BY <1>11, <1>13, <1>14, <1>15, <2>2
  <2> QED
    BY <2>1, <2>2
<1>18. \A k, l \in Y : from[k] = from[l] => k = l \/ B[k] = <<>> \/ B[l] = <<>>
  BY <1>11, <1>15
<1>19. \A k \in X : A[k] = <<>> \/ \E l \in Y : from[l] = k /\ (l = L \/ B[l] # <<>>)
  <2> SUFFICES ASSUME NEW k \in X, A[k] # <<>>
               PROVE  \E l \in Y : from[l] = k /\ (l = L \/ B[l] # <<>>)
    OBVIOUS
  <2>1. CASE k = R
    BY <1>11, <1>15, <2>1
  <2>2. CASE k = L
    BY <1>9, <1>15, <2>2
  <2>3. CASE k # R /\ k # L
    <3>1. k \in Y /\ B[k] = A[k] /\ from[k] = k
      BY <1>12, <1>13, <1>15, <2>3
    <3> QED
      BY <3>1
  <2> QED
    BY <2>1, <2>2, <2>3
<1>20. Moved(X, Y, Positions, A, B, from, L, F, S, N)
  <2>1. B[L] = A[from[L]] \o F
    BY <1>9, <1>10, <1>15
  <2>2. /\ \A i, j \in 1..Len(F) : F[i] = F[j] => i = j
        /\ \A i \in 1..Len(F) : F[i] \notin S \cup N
        /\ N \cap S = {}
    BY <1>1, <1>4, <1>5, <1>8
  <2> QED
    BY <1>5, <1>9, <1>15, <1>16, <1>17, <1>18, <1>19, <2>1, <2>2, Zenon DEF Moved
<1>21. Exact(X, A, S, Names)
  <2>1. PassedArgs = S /\ Names \cup Dashes = Names
    BY <1>1, <1>8 DEF PassedArgs, Dashes
  <2> QED
    BY <1>1, <1>8, <2>1 DEF PlaceInv
<1>22. Exact(Y, B, S \cup N \cup ToSet(F), Names \cup N)
  BY <1>20, <1>21, Relabelled
<1>23. PassedArgs' = S \cup N \cup ToSet(F)
  BY <1>1, <1>2, <1>4, <1>5, <1>8 DEF PassedArgs
<1>24. (Names \cup Dashes)' = Names \cup N
  <2>1. Names' = Names \cup {idx} /\ Dashes' = {}
    BY <1>1, <1>2, OneMoreName DEF Dashes
  <2> QED
    BY <1>4, <2>1
<1>25. Exact(Lists', Contents', PassedArgs', (Names \cup Dashes)')
  BY <1>8, <1>22, <1>23, <1>24
<1>26. Exact(Lists, Contents, PassedArgs, Names \cup Dashes)'
  BY <1>25 DEF Exact
<1> QED
  BY <1>1, <1>2, <1>26 DEF PlaceInv

LEMMA PlaceStep == IndInv /\ IndInv' /\ PlaceInv /\ [Next]_vars => PlaceInv'
<1> SUFFICES ASSUME IndInv, IndInv', PlaceInv, [Next]_vars PROVE PlaceInv'
  OBVIOUS
<1>1. CASE ParseParameter
  BY <1>1, PlainPlace, CollectingPlace
<1>2. CASE ParseError \/ Check \/ SplitOption \/ SplitOutput \/ EndSplit
  <2>1. status' \notin {"parse", "check"}
    BY <1>2 DEF ParseError, Check, SplitOption, SplitOutput, EndSplit
  <2> QED
    BY <2>1, OtherPlace
<1> QED
  BY <1>1, <1>2, CollectPlace, FlagPlace, DashPlace, OtherPlace DEF Next

\* The inductive invariant of where the arguments are: see PlaceInv.
THEOREM PlacesInvariant == Spec => []PlaceInv
<1>1. IndInv /\ IndInv' /\ PlaceInv /\ [Next]_vars => PlaceInv'
  BY PlaceStep
<1> QED
  BY <1>1, InitPlace, Invariance, PTL DEF Spec

\* Parse loses no argument and uses none twice.
THEOREM ArgumentsPlacedOnce == Spec => []EveryArgumentOnce
<1>1. IndInv /\ PlaceInv => EveryArgumentOnce
  <2> SUFFICES ASSUME IndInv, PlaceInv, status \in {"parse", "check"} PROVE EveryArgumentOnce
    BY DEF EveryArgumentOnce
  <2>1. ListFacts /\ Exact(Lists, Contents, PassedArgs, Names \cup Dashes)
    BY ListsAre DEF IndInv, PlaceInv
  <2>2. \A l \in Lists : Contents[l] = Held(l) /\ DOMAIN Held(l) = 1..Len(Contents[l])
    BY <2>1 DEF ListFacts, Contents
  <2>3. \A s \in Places : \E l \in Lists : \E m \in 1..Len(Contents[l]) :
           s = <<l, m>> /\ Placed(s) = Contents[l][m]
    <3> SUFFICES ASSUME NEW s \in Places
                 PROVE  \E l \in Lists : \E m \in 1..Len(Contents[l]) :
                           s = <<l, m>> /\ Placed(s) = Contents[l][m]
      OBVIOUS
    <3>1. PICK l \in Lists : s \in {<<l, m>> : m \in DOMAIN Held(l)}
      BY DEF Places
    <3>2. PICK m \in DOMAIN Held(l) : s = <<l, m>>
      BY <3>1
    <3>3. m \in 1..Len(Contents[l]) /\ Placed(s) = Contents[l][m]
      BY <2>2, <3>2 DEF Placed
    <3> QED
      BY <3>2, <3>3
  <2>4. \A l \in Lists : \A m \in 1..Len(Contents[l]) :
           <<l, m>> \in Places /\ Placed(<<l, m>>) = Contents[l][m]
    BY <2>2 DEF Places, Placed
  <2>5. \A s, t \in Places : Placed(s) = Placed(t) => s = t
    <3> SUFFICES ASSUME NEW s \in Places, NEW t \in Places, Placed(s) = Placed(t) PROVE s = t
      OBVIOUS
    <3>1. PICK k \in Lists :
             \E m \in 1..Len(Contents[k]) : s = <<k, m>> /\ Placed(s) = Contents[k][m]
      BY <2>3
    <3>2. PICK m \in 1..Len(Contents[k]) : s = <<k, m>> /\ Placed(s) = Contents[k][m]
      BY <3>1
    <3>3. PICK l \in Lists :
             \E n \in 1..Len(Contents[l]) : t = <<l, n>> /\ Placed(t) = Contents[l][n]
      BY <2>3
    <3>4. PICK n \in 1..Len(Contents[l]) : t = <<l, n>> /\ Placed(t) = Contents[l][n]
      BY <3>3
    <3>5. k = l /\ m = n
      BY <2>1, <3>2, <3>4 DEF Exact
    <3> QED
      BY <3>2, <3>4, <3>5
  <2>6. \A p : p \in {Placed(s) : s \in Places} =>
           p \in PassedArgs /\ p \notin Names \cup Dashes
    BY <2>1, <2>3 DEF Exact
  <2>7. ASSUME NEW p \in PassedArgs, p \notin Names \cup Dashes
        PROVE  p \in {Placed(s) : s \in Places}
    <3>1. PICK k \in Lists : \E m \in 1..Len(Contents[k]) : Contents[k][m] = p
      BY <2>1, <2>7 DEF Exact
    <3>2. PICK m \in 1..Len(Contents[k]) : Contents[k][m] = p
      BY <3>1
    <3>3. PICK s \in Places : Placed(s) = p
      BY <2>4, <3>2
    <3> QED
      BY <3>3
  <2>8. Names \cup Dashes \subseteq PassedArgs
    BY <2>1 DEF Exact
  <2> QED
    BY <2>5, <2>6, <2>7, <2>8 DEF EveryArgumentOnce, PassedArgs
<1> QED
  BY <1>1, Invariance, PlacesInvariant, PTL

-----------------------------------------------------------------------------
LEMMA SubSeqGrows ==
    ASSUME NEW S, NEW s \in Seq(S), NEW u \in Nat, NEW i \in Nat, u < i, i <= Len(s)
    PROVE  SubSeq(s, u + 1, i) = Append(SubSeq(s, u + 1, i - 1), s[i])
<1>1. u + 1 \in 1..Len(s) /\ i \in (u + 1)..Len(s)
  OBVIOUS
<1>2. SubSeq(s, u + 1, i) = SubSeq(s, u + 1, i - 1) \o <<s[i]>>
  BY <1>1, SubSeqRecursiveSecond
<1>3. SubSeq(s, u + 1, i - 1) \in Seq(S) /\ s[i] \in S
  <2>1. \A k \in (u + 1)..(i - 1) : s[k] \in S
    OBVIOUS
  <2> QED
    BY <2>1, SubSeqProperties
<1> QED
  BY <1>2, <1>3

\* What the split has passed of the left-over arguments is cut at the URLs:
\* OutputsPartition up to idx.
Cut ==
    /\ outputs \in Seq(Positions \X Seq(Positions)) /\ idx <= Len(unknown) + 1
    /\ \A n \in 1..Len(outputs) :
          /\ URLAt(n) \in 1..Len(unknown) /\ URLAt(n - 1) < URLAt(n)
          /\ outputs[n] = <<unknown[URLAt(n)], SubSeq(unknown, URLAt(n - 1) + 1, URLAt(n) - 1)>>
    /\ \A k \in Nat : k = Len(outputs) =>
          /\ URLAt(k) \in Nat /\ URLAt(k) < idx
          /\ nextOptions = SubSeq(unknown, URLAt(k) + 1, idx - 1)
SplitInv ==
    /\ status \in {"parse", "check"} => outputs = <<>> /\ nextOptions = <<>>
    /\ status \in {"split", "build"} => Cut
    /\ status = "build" => idx = Len(unknown) + 1

LEMMA CheckSplit == ASSUME IndInv, IndInv', SplitInv, Check PROVE SplitInv'
<1>1. /\ status = "check" /\ idx' = 1 /\ UNCHANGED <<args, unknown, outputs, nextOptions>>
      /\ status' \in {"exit", "fatal", "split"} /\ outputs = <<>> /\ nextOptions = <<>>
  BY DEF Check, parseVars, splitVars, SplitInv
<1>2. PICK s \in Seq(Positions) : s = unknown
  BY DEF IndInv, Shapes
<1>3. URLAt(0)' = 0 /\ Len(outputs') = 0 /\ SubSeq(s, 1, 0) = <<>>
  BY <1>1 DEF URLAt
<1>4. Cut'
  BY <1>1, <1>2, <1>3 DEF Cut
<1> QED
  BY <1>1, <1>4 DEF SplitInv

LEMMA OptionSplit ==
    ASSUME IndInv, IndInv', OrderInv, SplitInv, SplitOption
    PROVE  SplitInv'
<1>1. /\ status = "split" /\ idx \in Nat /\ idx <= Len(unknown) /\ idx' = idx + 1 /\ 1 <= idx
      /\ nextOptions' = Append(nextOptions, unknown[idx])
      /\ UNCHANGED <<args, status, unknown, outputs>> /\ Cut
  BY DEF SplitOption, parseVars, SplitInv, IndInv, Progress
<1>2. PICK s \in Seq(Positions), i \in Nat : s = unknown /\ i = idx
  BY <1>1 DEF IndInv, Shapes
<1>3. \A n : URLAt(n)' = URLAt(n)
  BY <1>1 DEF URLAt
<1>4. PICK k \in Nat : k = Len(outputs)
  BY <1>1 DEF Cut
<1>5. PICK u \in Nat : u = URLAt(k) /\ u < i
  BY <1>1, <1>2, <1>4 DEF Cut
<1>6. SubSeq(s, u + 1, i) = Append(SubSeq(s, u + 1, i - 1), s[i])
  BY <1>1, <1>2, <1>5, SubSeqGrows
<1>7. nextOptions' = SubSeq(unknown', URLAt(k)' + 1, idx' - 1)
  <2>1. nextOptions = SubSeq(s, u + 1, i - 1)
    BY <1>1, <1>2, <1>4, <1>5 DEF Cut
  <2>2. nextOptions' = SubSeq(s, u + 1, i)
    BY <1>1, <1>2, <1>6, <2>1
  <2>3. unknown' = s /\ URLAt(k)' = u /\ idx' - 1 = i
    BY <1>1, <1>2, <1>3, <1>5
  <2> QED
    BY <2>2, <2>3
<1>8. ASSUME NEW n \in 1..k
      PROVE  /\ URLAt(n)' \in 1..Len(unknown') /\ URLAt(n - 1)' < URLAt(n)'
             /\ outputs'[n] = <<unknown'[URLAt(n)'],
                                SubSeq(unknown', URLAt(n - 1)' + 1, URLAt(n)' - 1)>>
  <2>1. /\ URLAt(n) \in 1..Len(unknown) /\ URLAt(n - 1) < URLAt(n)
        /\ outputs[n] = <<unknown[URLAt(n)], SubSeq(unknown, URLAt(n - 1) + 1, URLAt(n) - 1)>>
    BY <1>1, <1>4 DEF Cut
  <2>2. URLAt(n)' = URLAt(n) /\ URLAt(n - 1)' = URLAt(n - 1)
    BY <1>3
  <2> QED
    BY <1>1, <2>1, <2>2
<1>9. /\ (outputs \in Seq(Positions \X Seq(Positions)))' /\ idx' <= Len(unknown') + 1
       /\ URLAt(k)' \in Nat /\ URLAt(k)' < idx'
  <2>1. Positions' = Positions /\ outputs \in Seq(Positions \X Seq(Positions))
    BY <1>1 DEF Cut, Positions
  <2> QED
    BY <1>1, <1>2, <1>3, <1>5, <2>1
<1>10. Cut'
  <2>1. \A j \in Nat : j = Len(outputs') => j = k
    BY <1>1, <1>4
  <2>2. 1..Len(outputs') = 1..k
    BY <1>1, <1>4
  <2> QED
    BY <1>7, <1>8, <1>9, <2>1, <2>2, Zenon DEF Cut
<1> QED
  BY <1>1, <1>10 DEF SplitInv

LEMMA URLSplit ==
    ASSUME IndInv, IndInv', OrderInv, SplitInv, SplitOutput
    PROVE  SplitInv'
<1>1. /\ status = "split" /\ idx \in Nat /\ idx <= Len(unknown) /\ idx' = idx + 1 /\ 1 <= idx
      /\ outputs' = Append(outputs, <<unknown[idx], nextOptions>>) /\ nextOptions' = <<>>
      /\ UNCHANGED <<args, status, unknown>> /\ Cut
  BY DEF SplitOutput, parseVars, SplitInv, IndInv, Progress
<1>2. PICK s \in Seq(Positions) : s = unknown
  BY DEF IndInv, Shapes
<1>3. PICK i \in 1..Len(s) : i = idx
  BY <1>1, <1>2
<1>4. PICK k \in Nat : k = Len(outputs)
  <2>1. outputs \in Seq(Positions \X Seq(Positions))
    BY <1>1 DEF Cut
  <2> QED
    BY <2>1
<1>5. PICK u \in Nat : u = URLAt(k) /\ u < i
  BY <1>1, <1>2, <1>3, <1>4 DEF Cut
<1>6. /\ nextOptions = SubSeq(s, u + 1, i - 1) /\ nextOptions \in Seq(Positions)
      /\ outputs \in Seq(Positions \X Seq(Positions)) /\ s[i] \in Positions
  <2>1. nextOptions = SubSeq(unknown, URLAt(k) + 1, idx - 1)
    BY <1>1, <1>4 DEF Cut
  <2>2. outputs \in Seq(Positions \X Seq(Positions)) /\ nextOptions \in Seq(Positions)
    BY <1>1 DEF Cut, IndInv, Shapes
  <2> QED
    BY <1>2, <1>3, <1>5, <2>1, <2>2
<1>7. PICK o \in Positions \X Seq(Positions) : o = <<s[i], nextOptions>>
  BY <1>6
<1>8. PICK t : t = Append(outputs, o)
  OBVIOUS
<1>9. /\ t \in Seq(Positions \X Seq(Positions)) /\ Len(t) = k + 1 /\ t[k + 1] = o
      /\ \A n \in 1..k : t[n] = outputs[n]
  BY <1>4, <1>6, <1>8, Longer
<1>10. outputs' = t /\ unknown' = s /\ idx' = i + 1
  BY <1>1, <1>2, <1>3, <1>7, <1>8
<1>11. \A n \in 0..k : URLAt(n)' = URLAt(n)
  <2> SUFFICES ASSUME NEW n \in 0..k PROVE URLAt(n)' = URLAt(n)
    OBVIOUS
  <2>1. n = 0 \/ outputs'[n] = outputs[n]
    BY <1>9, <1>10
  <2>2. CASE n = 0
    BY <2>2 DEF URLAt
  <2>3. CASE n # 0
    <3>1. PICK x : x = outputs[n][1]
      OBVIOUS
    <3>2. URLAt(n) = CHOOSE j \in DOMAIN s : s[j] = x
      BY <1>2, <2>3, <3>1 DEF URLAt
    <3>3. URLAt(n)' = CHOOSE j \in DOMAIN s : s[j] = x
      BY <1>10, <2>1, <2>3, <3>1 DEF URLAt
    <3> QED
      BY <3>2, <3>3
  <2> QED
    BY <2>2, <2>3
<1>12. URLAt(k + 1)' = i
  <2>1. URLAt(k + 1)' = CHOOSE j \in DOMAIN s : s[j] = t[k + 1][1]
    BY <1>10 DEF URLAt
  <2>2. t[k + 1][1] = s[i] /\ DOMAIN s = 1..Len(s)
    BY <1>7, <1>9
  <2>3. \A j \in 1..Len(s) : s[j] = s[i] => j = i
    <3>1. Increasing(s)
      BY <1>2, <1>3 DEF OrderInv
    <3>2. \A j \in 1..Len(s) : s[j] \in Nat
      BY DEF Positions
    <3>3. \A j \in 1..Len(s) : j < i \/ j = i \/ i < j
      OBVIOUS
    <3> QED
      BY <3>1, <3>2, <3>3 DEF Increasing
  <2> QED
    BY <2>1, <2>2, <2>3
<1>13. ASSUME NEW n \in 1..(k + 1)
       PROVE  /\ URLAt(n)' \in 1..Len(s) /\ URLAt(n - 1)' < URLAt(n)'
              /\ t[n] = <<s[URLAt(n)'], SubSeq(s, URLAt(n - 1)' + 1, URLAt(n)' - 1)>>
  <2>1. CASE n \in 1..k
    <3>1. /\ URLAt(n) \in 1..Len(s) /\ URLAt(n - 1) < URLAt(n)
          /\ outputs[n] = <<s[URLAt(n)], SubSeq(s, URLAt(n - 1) + 1, URLAt(n) - 1)>>
      BY <1>1, <1>2, <1>3, <1>4, <2>1 DEF Cut
    <3>2. URLAt(n)' = URLAt(n) /\ URLAt(n - 1)' = URLAt(n - 1) /\ t[n] = outputs[n]
      BY <1>9, <1>11, <2>1
    <3> QED
      BY <3>1, <3>2
  <2>2. CASE n = k + 1
    <3>1. URLAt(n)' = i /\ URLAt(n - 1)' = u
      <4>1. n - 1 = k /\ URLAt(n - 1)' = URLAt(k)'
        BY <2>2
      <4> QED
        BY <1>5, <1>11, <1>12, <2>2, <4>1
    <3> QED
      BY <1>5, <1>6, <1>7, <1>9, <2>2, <3>1
  <2> QED
    BY <2>1, <2>2
<1>14. nextOptions' = SubSeq(unknown', URLAt(k + 1)' + 1, idx' - 1)
  <2>1. SubSeq(s, i + 1, i) = <<>>
    BY SubSeqEmpty
  <2> QED
    BY <1>1, <1>10, <1>12, <2>1
<1>15. Cut'
  <2>1. Positions' = Positions /\ Len(outputs') = k + 1
    BY <1>1, <1>9, <1>10 DEF Positions
  <2>2. (outputs \in Seq(Positions \X Seq(Positions)))' /\ idx' <= Len(unknown') + 1
    BY <1>9, <1>10, <2>1
  <2>3. URLAt(k + 1)' \in Nat /\ URLAt(k + 1)' < idx'
    BY <1>10, <1>12
  <2>4. \A n \in 1..Len(outputs') :
           /\ URLAt(n)' \in 1..Len(unknown') /\ URLAt(n - 1)' < URLAt(n)'
           /\ outputs'[n] = <<unknown'[URLAt(n)'],
                              SubSeq(unknown', URLAt(n - 1)' + 1, URLAt(n)' - 1)>>
    BY <1>10, <1>13, <2>1
  <2>5. \A j \in Nat : j = Len(outputs') => j = k + 1
    BY <2>1
  <2> QED
    BY <1>14, <2>2, <2>3, <2>4, <2>5, Zenon DEF Cut
<1> QED
  BY <1>1, <1>15 DEF SplitInv

LEMMA OtherSplit ==
    ASSUME IndInv, SplitInv,
           \/ UNCHANGED vars
           \/ EndSplit
           \/ /\ status = "parse" /\ UNCHANGED <<outputs, nextOptions>>
              /\ status' \notin {"split", "build"}
    PROVE  SplitInv'
<1>1. CASE UNCHANGED vars \/ EndSplit
  <2>1. UNCHANGED <<args, idx, unknown, outputs, nextOptions>>
    BY <1>1 DEF vars, EndSplit, parseVars, splitVars
  <2>2. \A n : URLAt(n)' = URLAt(n)
    BY <2>1 DEF URLAt
  <2>4. Cut => Cut'
    BY <2>1, <2>2 DEF Cut, Positions
  <2>5. \/ status' = status
        \/ status = "split" /\ status' = "build" /\ idx > Len(unknown)
    BY <1>1 DEF vars, EndSplit
  <2>6. Cut /\ idx > Len(unknown) => idx = Len(unknown) + 1
    <3>1. idx \in Nat /\ Len(unknown) \in Nat
      BY DEF IndInv, Shapes, Progress
    <3>2. Cut => idx <= Len(unknown) + 1
      BY DEF Cut
    <3> QED
      BY <3>1, <3>2
  <2> QED
    BY <2>1, <2>4, <2>5, <2>6 DEF SplitInv
<1>2. CASE /\ status = "parse" /\ UNCHANGED <<outputs, nextOptions>>
           /\ status' \notin {"split", "build"}
  BY <1>2 DEF SplitInv
<1> QED
  BY <1>1, <1>2

LEMMA SplitStep ==
    IndInv /\ IndInv' /\ OrderInv /\ SplitInv /\ [Next]_vars => SplitInv'
<1> SUFFICES ASSUME IndInv, IndInv', OrderInv, SplitInv, [Next]_vars PROVE SplitInv'
  OBVIOUS
<1>1. CASE CollectUnknown \/ DoubleDash \/ ParseFlag \/ ParseParameter \/ ParseError \/ EndOfArgs
  <2>1. /\ status = "parse" /\ UNCHANGED <<outputs, nextOptions>>
        /\ status' \notin {"split", "build"}
    BY <1>1 DEF CollectUnknown, DoubleDash, ParseFlag, ParseParameter, ParseError, EndOfArgs,
                AtArg, splitVars
  <2> QED
    BY <2>1, OtherSplit
<1> QED
  BY <1>1, CheckSplit, OptionSplit, URLSplit, OtherSplit DEF Next

\* Each output has the arguments between the output before it and its own URL.
THEOREM OutputsPartitioned == Spec => []OutputsPartition
<1>1. Init => SplitInv
  BY DEF Init, SplitInv
<1>2. IndInv /\ IndInv' /\ OrderInv /\ SplitInv /\ [Next]_vars => SplitInv'
  BY SplitStep
<1>3. IndInv /\ SplitInv => OutputsPartition
  <2> SUFFICES ASSUME IndInv, SplitInv, status = "build" PROVE OutputsPartition
    BY DEF OutputsPartition
  <2>1. Cut /\ idx - 1 = Len(unknown)
    BY DEF SplitInv, IndInv, Shapes
  <2>2. DOMAIN outputs = 1..Len(outputs) /\ Len(outputs) \in Nat
    BY <2>1 DEF Cut
  <2> QED
    BY <2>1, <2>2 DEF OutputsPartition, Cut
<1> QED
  BY <1>1, <1>2, <1>3, Invariance, OrderInvariant, PTL DEF Spec
=============================================================================
