------------------------- MODULE EncoderFlagsProofs -------------------------
(***************************************************************************)
(* Proofs about EncoderFlags for every command line, ladder and set of     *)
(* words: which resolution a process runs at, and what is left of the      *)
(* ladder. A step of EncoderFlags is a step of CommandLine or leaves it    *)
(* alone, so that what CommandLineProofs shows holds here, too.            *)
(***************************************************************************)
EXTENDS EncoderFlags, CommandLineProofs, FiniteSetTheorems

\* parseFlags and main build on the parser: EncoderFlags implements CommandLine.
THEOREM BuildsOnCommandLine == EncoderSpec => Spec
<1>1. EncoderInit => Init
  BY DEF EncoderInit
<1>2. [EncoderNext]_<<vars, step, buildVars>> => [Next]_vars
  BY DEF EncoderNext, BuildEncoders, NoLadder, UnknownCodec, BuildLadder, MainOptions,
         AddOutputTemplates, Start
<1> QED
  BY <1>1, <1>2, PTL DEF EncoderSpec, Spec

-----------------------------------------------------------------------------
\* A finite set of heights has a greatest one: from any other one fewer are
\* left above.
LEMMA Greatest ==
    ASSUME NEW S, IsFiniteSet(S), S \subseteq Nat, S # {}
    PROVE  Max(S) \in S
<1> DEFINE Above(x) == {y \in S : y > x}
           T == {Above(x) : x \in S}
<1>1. T \subseteq FiniteSubsetsOf(S) /\ T # {}
  <2>1. \A x \in S : Above(x) \in SUBSET S /\ IsFiniteSet(Above(x))
    BY FS_Subset
  <2> QED
    BY <2>1 DEF FiniteSubsetsOf
<1>2. PICK U \in T : \A V \in T : ~(<<V, U>> \in StrictSubsetOrdering(S))
  <2> HIDE DEF T
  <2>1. IsWellFoundedOn(StrictSubsetOrdering(S), FiniteSubsetsOf(S))
    BY FS_StrictSubsetOrderingWellFounded
  <2> QED
    BY <1>1, <2>1, WFMin
<1>3. PICK x \in S : U = Above(x)
  OBVIOUS
<1>4. ASSUME NEW y \in S, y > x PROVE FALSE
  <2>1. Above(y) \in T /\ Above(y) \subseteq U /\ y \in U /\ y \notin Above(y)
    <3>1. \A z \in S : z \in Nat
      OBVIOUS
    <3>2. Above(y) \subseteq Above(x)
      <4> SUFFICES ASSUME NEW z \in S, z > y PROVE z > x
        OBVIOUS
      <4> QED
        BY <1>4, <3>1
    <3>3. y \in Above(x) /\ y \notin Above(y)
      BY <1>4, <3>1
    <3> QED
      BY <1>3, <3>2, <3>3
  <2>2. <<Above(y), U>> \in StrictSubsetOrdering(S)
    BY <1>1, <1>3, <2>1 DEF StrictSubsetOrdering
  <2> QED
    BY <1>2, <2>1, <2>2
<1>5. \A y \in S : x >= y
  BY <1>4
<1> QED
  BY <1>5 DEF Max

-----------------------------------------------------------------------------
\* What parseFlags and main have decided so far, and from what.
Steps == {"flags", "ladder", "main", "start", "started", "fatal", "crashed"}
EncoderInv ==
    /\ step \in Steps
    /\ step # "flags" => status = "build"
    /\ step \in {"ladder", "main", "start", "started"} => video = Encoder("-c:v", "-b:v")
    /\ step \in {"start", "started"} /\ resolution # "" => resolution \in Given("s", video.options)
    /\ step = "started" /\ video.codec # "copy" => resolution # ""
LadderInv ==
    /\ step \in {"flags", "ladder"} => ladder = {}
    /\ ladder \subseteq Rungs
    /\ Value("-mux_mode") = "forbid" => ladder = {} \/ \E h : ladder = {h}
    /\ step = "crashed" => Rungs = {}

\* Once the splitting is done the parser stands still.
LEMMA ParserDone == status = "build" => ~Next
BY DEF Next, CollectUnknown, DoubleDash, ParseFlag, ParseParameter, ParseError, EndOfArgs,
       Check, SplitOption, SplitOutput, EndSplit, AtArg

LEMMA SameDerived ==
    ASSUME UNCHANGED vars
    PROVE  /\ \A f : Value(f)' = Value(f)
           /\ Encoder("-c:v", "-b:v")' = Encoder("-c:v", "-b:v")
           /\ \A positions : Given("s", positions)' = Given("s", positions)
           /\ Rungs' = Rungs /\ status' = status
<1>1. UNCHANGED <<args, values, collected, status>>
  BY DEF vars
<1>2. \A f : Value(f)' = Value(f)
  BY <1>1 DEF Value
<1>3. \A f : FirstCollected(f)' = FirstCollected(f)
  BY <1>1 DEF FirstCollected
<1>4. Encoder("-c:v", "-b:v")' = Encoder("-c:v", "-b:v")
  BY <1>2, <1>3 DEF Encoder
<1>5. \A positions : Items(positions)' = Items(positions)
  BY <1>1 DEF Items
<1>6. \A positions : Given("s", positions)' = Given("s", positions)
  BY <1>5 DEF Given, ValuesOf
<1>7. Rungs' = Rungs
  BY <1>2 DEF Rungs, TypedMax, TypedMin
<1> QED
  BY <1>1, <1>2, <1>4, <1>6, <1>7

LEMMA EncoderStep ==
    EncoderInv /\ [EncoderNext]_<<vars, step, buildVars>> => EncoderInv'
<1> SUFFICES ASSUME EncoderInv, [EncoderNext]_<<vars, step, buildVars>> PROVE EncoderInv'
  OBVIOUS
<1>1. CASE UNCHANGED vars
  <2>1. /\ Encoder("-c:v", "-b:v")' = Encoder("-c:v", "-b:v") /\ status' = status
        /\ \A positions : Given("s", positions)' = Given("s", positions)
    BY <1>1, SameDerived
  <2>2. CASE BuildEncoders
    BY <2>1, <2>2 DEF EncoderInv, BuildEncoders, Steps
  <2>3. ASSUME UNCHANGED video
        PROVE  /\ video' = Encoder("-c:v", "-b:v")' <=> video = Encoder("-c:v", "-b:v")
               /\ Given("s", video.options)' = Given("s", video.options)
    <3>1. PICK o : o = video.options
      OBVIOUS
    <3>2. video'.options = o
      BY <2>3, <3>1
    <3>3. Given("s", video.options)' = Given("s", o)'
      BY <3>2, Zenon DEF Given, ValuesOf, Items
    <3> QED
      BY <2>1, <2>3, <3>1, <3>3
  <2>4. CASE NoLadder \/ UnknownCodec \/ BuildLadder
    BY <2>1, <2>3, <2>4 DEF EncoderInv, NoLadder, UnknownCodec, BuildLadder, buildVars, Steps
  <2>5. CASE MainOptions
    BY <2>1, <2>3, <2>5 DEF EncoderInv, MainOptions, OptionOf, Steps
  <2>6. CASE AddOutputTemplates
    BY <2>1, <2>3, <2>6 DEF EncoderInv, AddOutputTemplates, Steps
  <2>7. CASE Start
    BY <2>1, <2>3, <2>7 DEF EncoderInv, Start, buildVars, Steps
  <2>8. CASE UNCHANGED <<step, buildVars>>
    BY <2>1, <2>3, <2>8 DEF EncoderInv, buildVars, Steps
  <2> QED
    BY <2>2, <2>4, <2>5, <2>6, <2>7, <2>8 DEF EncoderNext
<1>2. CASE Next /\ UNCHANGED <<step, buildVars>>
  <2>1. step = "flags" /\ step' = "flags"
    BY <1>2, ParserDone DEF EncoderInv
  <2> QED
    BY <2>1 DEF EncoderInv, Steps
<1> QED
  BY <1>1, <1>2 DEF EncoderNext, BuildEncoders, NoLadder, UnknownCodec, BuildLadder, MainOptions,
         AddOutputTemplates, Start

\* The inductive invariant: the encoders hold what their flags collected, and
\* what main and Start decided agrees with it, from step to step.
THEOREM EncoderInvariance == EncoderSpec => []EncoderInv
<1>1. EncoderInit => EncoderInv
  BY DEF EncoderInit, EncoderInv, Steps
<1> QED
  BY <1>1, EncoderStep, PTL DEF EncoderSpec

-----------------------------------------------------------------------------
LEMMA EncoderFacts ==
    /\ IsFiniteSet(Ladder) /\ Ladder \subseteq Nat /\ W32 \in Nat \ {0}
    /\ \A o \in Options : Key[o] = "s" => o = "-s"
    /\ "-c" \in Collectors /\ "-c:v" \in Collectors
<1>1. /\ IsFiniteSet(Ladder) /\ Ladder \subseteq Nat \ {0}
      /\ \A o \in Options : Key[o] = "s" => o = "-s"
      /\ EncoderCollectors = Collectors /\ W32 \in Nat \ {0}
  BY EncoderAssumption, Zenon
<1>2. "-c" \in EncoderCollectors /\ "-c:v" \in EncoderCollectors
  BY DEF EncoderCollectors
<1> QED
  BY <1>1, <1>2

LEMMA LadderStep ==
    EncoderInv /\ LadderInv /\ [EncoderNext]_<<vars, step, buildVars>> => LadderInv'
<1> SUFFICES ASSUME EncoderInv, LadderInv, [EncoderNext]_<<vars, step, buildVars>>
             PROVE  LadderInv'
  OBVIOUS
<1>1. CASE UNCHANGED vars
  <2>1. Rungs' = Rungs /\ Value("-mux_mode")' = Value("-mux_mode")
    BY <1>1, SameDerived
  <2>2. CASE BuildLadder
    <3>1. CASE Rungs = {}
      BY <2>1, <2>2, <3>1 DEF LadderInv, BuildLadder
    <3>2. CASE Rungs # {}
      <4>1. Rungs \subseteq Nat /\ IsFiniteSet(Rungs)
        <5>1. Rungs \in SUBSET Ladder
          BY DEF Rungs
        <5>2. IsFiniteSet(Rungs)
          BY <5>1, EncoderFacts, FS_Subset
        <5> QED
          BY <5>1, <5>2, EncoderFacts
      <4>2. Max(Rungs) \in Rungs
        BY <3>2, <4>1, Greatest
      <4> QED
        BY <2>1, <2>2, <3>2, <4>2 DEF LadderInv, BuildLadder
    <3> QED
      BY <3>1, <3>2
  <2>3. CASE UNCHANGED ladder /\ (step' = "crashed" => step = "crashed")
             /\ (step' \in {"flags", "ladder"} => step \in {"flags", "ladder"})
    BY <2>1, <2>3 DEF LadderInv
  <2> QED
    BY <2>2, <2>3 DEF EncoderNext, BuildEncoders, NoLadder, UnknownCodec, MainOptions,
                      AddOutputTemplates, Start, buildVars
<1>2. CASE Next /\ UNCHANGED <<step, buildVars>>
  <2>1. step = "flags" /\ step' = "flags" /\ ladder = {} /\ ladder' = {}
    BY <1>2, ParserDone DEF EncoderInv, LadderInv, buildVars
  <2> QED
    BY <2>1 DEF LadderInv
<1> QED
  BY <1>1, <1>2 DEF EncoderNext, BuildEncoders, NoLadder, UnknownCodec, BuildLadder, MainOptions,
         AddOutputTemplates, Start

\* What a flag with a format was given has that format.
FormatInv ==
    \A f \in DOMAIN Format : \A i \in 1..Len(values[f]) : args[values[f][i]] \in Format[f]

LEMMA FormatStep == IndInv /\ FormatInv /\ [Next]_vars => FormatInv'
<1> SUFFICES ASSUME IndInv, FormatInv, [Next]_vars,
                    NEW f \in DOMAIN Format, NEW i \in 1..Len(values'[f])
             PROVE  args'[values'[f][i]] \in Format[f]
  BY DEF FormatInv
<1>1. /\ f \in WithArgument /\ f \in Flags /\ f \notin Switches
      /\ values \in [Flags -> Seq(Positions)] /\ values[f] \in Seq(Positions)
  BY ConstantsAssumption DEF IndInv, Shapes, Flags
<1>2. CASE ParseFlag
  <2>1. args' = args /\ args[idx] \in Switches
        /\ values' = [values EXCEPT ![args[idx]] = Append(@, idx)]
    BY <1>2 DEF ParseFlag, AtArg
  <2>2. values'[f] = values[f]
    BY <1>1, <2>1
  <2> QED
    BY <2>1, <2>2 DEF FormatInv
<1>3. CASE ParseParameter
  <2>1. args' = args /\ Parses(args[idx], args[idx + 1])
        /\ values' = [values EXCEPT ![args[idx]] = Append(@, idx + 1)]
    BY <1>3 DEF ParseParameter
  <2>2. CASE f = args[idx]
    <3>1. values'[f] = Append(values[f], idx + 1) /\ args[idx + 1] \in Format[f]
      BY <1>1, <2>1, <2>2 DEF Parses
    <3>2. CASE i \in 1..Len(values[f])
      BY <1>1, <2>1, <3>1, <3>2 DEF FormatInv
    <3>3. CASE i \notin 1..Len(values[f])
      <4>1. values'[f][i] = idx + 1
        BY <1>1, <3>1, <3>3
      <4> QED
        BY <2>1, <3>1, <4>1
    <3> QED
      BY <3>2, <3>3
  <2>3. CASE f # args[idx]
    <3>1. values'[f] = values[f]
      BY <1>1, <2>1, <2>3
    <3> QED
      BY <2>1, <3>1 DEF FormatInv
  <2> QED
    BY <2>2, <2>3
<1>4. CASE UNCHANGED <<args, values>>
  BY <1>4 DEF FormatInv
<1> QED
  BY <1>2, <1>3, <1>4 DEF Next, vars, parseVars, CollectUnknown, DoubleDash, ParseError,
     EndOfArgs, Check, SplitOption, SplitOutput, EndSplit

\* So that a bound is a number, typed or not.
LEMMA BoundsAreNumbers == IndInv /\ FormatInv => TypedMax \in Nat /\ TypedMin \in Nat
<1> SUFFICES ASSUME IndInv, FormatInv, NEW f \in Bounds PROVE Height[Value(f)] \in Nat
  BY DEF TypedMax, TypedMin, Bounds
<1>1. /\ Height \in [DOMAIN Height -> Nat] /\ {"480", "1080"} \subseteq DOMAIN Height
      /\ f \in DOMAIN Format /\ Format[f] \subseteq DOMAIN Height
  <2>1. /\ Height \in [DOMAIN Height -> Nat] /\ {"480", "1080"} \subseteq DOMAIN Height
        /\ \A g \in Bounds : g \in DOMAIN Format /\ Format[g] \subseteq DOMAIN Height
    BY EncoderAssumption, Zenon
  <2> QED
    BY <2>1
<1>2. values[f] \in Seq(Positions)
  BY <1>1, ConstantsAssumption DEF IndInv, Shapes, Flags
<1>3. CASE values[f] = <<>>
  <2>1. Value(f) \in {"480", "1080"}
    BY <1>3 DEF Value, Default, Bounds, EncoderParameters, Unsupported
  <2> QED
    BY <1>1, <2>1
<1>4. CASE values[f] # <<>>
  <2>1. Last(values[f]) = values[f][Len(values[f])] /\ Len(values[f]) \in 1..Len(values[f])
    BY <1>2, <1>4 DEF Last
  <2>2. Value(f) \in Format[f]
    BY <1>1, <1>4, <2>1 DEF FormatInv, Value
  <2> QED
    BY <1>1, <2>2
<1> QED
  BY <1>3, <1>4

\* Cutting a number does not make it greater, and keeps it if it fits.
LEMMA CutNumber ==
    ASSUME NEW n \in Nat PROVE Uint32(n) \in Nat /\ Uint32(n) <= n /\ (n < W32 => Uint32(n) = n)
<1>1. W32 \in Nat \ {0}
  BY EncoderAssumption, Zenon
<1> QED
  BY <1>1 DEF Uint32

\* No rung of the auto bit rate is above the typed maximum, and none below a
\* typed minimum that 32 bits hold; parseFlags crashes only if no rung is left
\* between the bounds, or the maximum is beyond 32 bits.
THEOREM LadderBounded == EncoderSpec => []LadderWithinBounds
<1>1. EncoderInit => LadderInv
  BY DEF EncoderInit, LadderInv
<1>2. IndInv /\ FormatInv /\ LadderInv => LadderWithinBounds
  <2> SUFFICES ASSUME IndInv, FormatInv, LadderInv PROVE LadderWithinBounds
    OBVIOUS
  <2>1. Cardinality({}) = 0 /\ \A h : Cardinality({h}) = 1
    BY FS_EmptySet, FS_Singleton
  <2>2. Value("-mux_mode") = "forbid" => Cardinality(ladder) <= 1
    <3>1. CASE ladder = {}
      BY <2>1, <3>1
    <3>2. ASSUME NEW h, ladder = {h} PROVE Cardinality(ladder) <= 1
      <4>1. Cardinality(ladder) = 1
        BY <2>1, <3>2
      <4> QED
        BY <4>1
    <3> QED
      BY <3>1, <3>2 DEF LadderInv
  <2>3. /\ TypedMax \in Nat /\ Uint32(TypedMax) <= TypedMax /\ Uint32(TypedMax) \in Nat
        /\ TypedMin \in Nat /\ Uint32(TypedMin) <= TypedMin /\ Uint32(TypedMin) \in Nat
        /\ TypedMax < W32 => Uint32(TypedMax) = TypedMax
        /\ TypedMin < W32 => Uint32(TypedMin) = TypedMin
        /\ W32 \in Nat /\ \A h \in Ladder : h \in Nat
    BY BoundsAreNumbers, CutNumber, EncoderFacts
  <2>4. ASSUME NEW h \in ladder PROVE h <= TypedMax /\ (h >= TypedMin \/ TypedMin >= W32)
    <3>1. h \in Ladder /\ h <= Uint32(TypedMax) /\ h >= Uint32(TypedMin)
      BY DEF LadderInv, Rungs
    <3> QED
      BY <2>3, <3>1
  <2>5. ASSUME step = "crashed", ~(TypedMax >= W32), NEW h \in Ladder
        PROVE  h < TypedMin \/ h > TypedMax
    <3>1. ~(h <= Uint32(TypedMax) /\ h >= Uint32(TypedMin))
      BY <2>5 DEF LadderInv, Rungs
    <3> QED
      BY <2>3, <2>5, <3>1
  <2> QED
    BY <2>2, <2>4, <2>5 DEF LadderWithinBounds
<1>3. EncoderInit => FormatInv
  <2> SUFFICES ASSUME EncoderInit, NEW f \in DOMAIN Format PROVE 1..Len(values[f]) = {}
    BY DEF FormatInv
  <2>1. f \in Flags
    BY ConstantsAssumption DEF Flags
  <2>2. values[f] = <<>>
    BY <2>1 DEF EncoderInit, Init
  <2>3. Len(<<>>) = 0
    OBVIOUS
  <2> QED
    BY <2>2, <2>3
<1>4. EncoderSpec => []IndInv
  BY BuildsOnCommandLine, Invariance, PTL
<1>5. [EncoderNext]_<<vars, step, buildVars>> => [Next]_vars
  BY DEF EncoderNext, BuildEncoders, NoLadder, UnknownCodec, BuildLadder, MainOptions,
         AddOutputTemplates, Start
<1>6. EncoderSpec => []FormatInv
  BY <1>3, <1>4, <1>5, FormatStep, PTL DEF EncoderSpec
<1> QED
  BY <1>1, <1>2, <1>4, <1>6, EncoderInvariance, LadderStep, PTL DEF EncoderSpec

-----------------------------------------------------------------------------
\* A value found under the key "s" was typed behind an "-s" or an "s": the two
\* stand side by side in the options.
LEMMA TypedSize ==
    ASSUME NEW S, NEW options \in Seq(S), NEW w, w \in Given("s", options)
    PROVE  \E i \in 1..(Len(options) - 1) :
              args[options[i]] \in {"-s", "s"} /\ args[options[i + 1]] = w
<1>1. PICK k \in Nat : k = Len(options) \div 2 /\ 2 * k <= Len(options)
  OBVIOUS
<1>2. /\ DOMAIN convertUnknownOptions(options) = 1..k
      /\ \A n \in 1..k : convertUnknownOptions(options)[n]
                          = <<options[2 * n - 1], options[2 * n]>>
  BY <1>1 DEF convertUnknownOptions
<1>3. /\ DOMAIN Items(options) = 1..k
      /\ \A n \in 1..k : Items(options)[n]
                          = <<Trimmed(args[options[2 * n - 1]]), args[options[2 * n]]>>
  BY <1>2 DEF Items
<1>4. PICK n \in 1..k : Items(options)[n][1] = "s" /\ Items(options)[n][2] = w
  <2>1. PICK i \in ToSet(Items(options)) : i[1] = "s" /\ i[2] = w
    BY DEF Given, ValuesOf
  <2> QED
    BY <1>3, <2>1 DEF ToSet
<1>5. Trimmed(args[options[2 * n - 1]]) = "s" /\ args[options[2 * n]] = w
  BY <1>3, <1>4
<1>6. \A x : Trimmed(x) = "s" => x \in {"-s", "s"}
  <2> SUFFICES ASSUME NEW x, Trimmed(x) = "s" PROVE x \in {"-s", "s"}
    OBVIOUS
  <2>1. CASE x \in Options
    BY <2>1, EncoderFacts DEF Trimmed
  <2>2. CASE x \notin Options
    BY <2>2 DEF Trimmed
  <2> QED
    BY <2>1, <2>2
<1>7. 2 * n - 1 \in 1..(Len(options) - 1) /\ (2 * n - 1) + 1 = 2 * n
  BY <1>1
<1> QED
  BY <1>5, <1>6, <1>7

\* The options an encoder gets were collected by the first flag of its codec:
\* they stand before that flag and after every other collecting flag.
LEMMA FirstCollects ==
    ASSUME IndInv, OrderInv, NEW f \in Collectors, NEW i \in 1..(Len(FirstCollected(f)) - 1)
    PROVE  LET options == FirstCollected(f) IN
           /\ options[i] \in Positions /\ options[i + 1] \in Positions
           /\ options[i] < options[i + 1] /\ OnlyFlagsBetween(options[i], options[i + 1])
           /\ options[i + 1] < Head(values[f])
           /\ \A t \in UNION {ToSet(values[g]) : g \in Collectors} :
                 t > options[i] => t >= Head(values[f])
<1>1. collected[f] \in Seq(Seq(Positions)) /\ Len(collected[f]) = Len(values[f])
  BY DEF IndInv, Shapes, ParseInv, Parallel
<1>2. collected[f] # <<>>
  BY DEF FirstCollected
<1>3. PICK options \in Seq(Positions) : options = collected[f][1] /\ options = FirstCollected(f)
  BY <1>1, <1>2 DEF FirstCollected
<1>4. 1 \in 1..Len(collected[f]) /\ Head(values[f]) = values[f][1]
  <2>1. values[f] \in Seq(Positions)
    BY FlagSets DEF IndInv, Shapes
  <2> QED
    BY <1>1, <1>2, <2>1
<1>5. i \in 1..Len(options) /\ i + 1 \in 1..Len(options) /\ i \in 1..(Len(options) - 1)
  BY <1>3
<1>6. options[i] < options[i + 1] /\ OnlyFlagsBetween(options[i], options[i + 1])
  BY <1>3, <1>4, <1>5 DEF OrderInv, InOrder
<1>7. Between(f, 1, options[i]) /\ Between(f, 1, options[i + 1])
  BY <1>3, <1>4, <1>5 DEF IndInv, ParseInv, Collected
<1>8. ASSUME NEW t \in UNION {ToSet(values[g]) : g \in Collectors}, t > options[i]
      PROVE  t >= Head(values[f])
  <2>1. PICK g \in Collectors : t \in ToSet(values[g])
    OBVIOUS
  <2>2. values[g] \in Seq(Positions)
    BY FlagSets DEF IndInv, Shapes
  <2>3. PICK m \in 1..Len(values[g]) : t = values[g][m]
    BY <2>1, <2>2 DEF ToSet
  <2> QED
    BY <1>4, <1>7, <1>8, <2>3 DEF Between
<1> QED
  BY <1>3, <1>4, <1>5, <1>6, <1>7, <1>8 DEF Between

\* Whoever encodes video has typed the resolution, in the one place it counts.
THEOREM TypedResolution == EncoderSpec => []RunsAtTypedResolution
<1>1. IndInv /\ OrderInv /\ EncoderInv => RunsAtTypedResolution
  <2> DEFINE codecFlag == IF Value("-c:v") # "" THEN "-c:v" ELSE "-c"
             taken == UNION {ToSet(values[f]) : f \in Collectors}
  <2> SUFFICES ASSUME IndInv, OrderInv, EncoderInv, step = "started", video.codec # "copy"
               PROVE  \E p, q \in Positions :
                         /\ args[p] \in {"-s", "s"} /\ args[q] = resolution
                         /\ p < q /\ OnlyFlagsBetween(p, q)
                         /\ q < Head(values[codecFlag])
                         /\ \A t \in taken : t > p => t >= Head(values[codecFlag])
    BY DEF RunsAtTypedResolution
  <2> HIDE DEF codecFlag
  <2>1. /\ video = Encoder("-c:v", "-b:v")
        /\ resolution \in Given("s", video.options)
    BY DEF EncoderInv
  <2>2. video.options = <<>> \/ video.options = FirstCollected(codecFlag)
    BY <2>1 DEF Encoder, NoEncoder, codecFlag
  <2>3. video.options \in Seq(Positions) /\ codecFlag \in Collectors
    <3>1. codecFlag \in Collectors
      BY EncoderFacts DEF codecFlag
    <3>2. \A f \in Collectors : FirstCollected(f) \in Seq(Positions)
      BY DEF IndInv, Shapes, FirstCollected
    <3>3. FirstCollected(codecFlag) \in Seq(Positions) /\ <<>> \in Seq(Positions)
      BY <3>1, <3>2
    <3> QED
      BY <2>2, <3>1, <3>3
  <2>4. PICK i \in 1..(Len(video.options) - 1) :
           args[video.options[i]] \in {"-s", "s"} /\ args[video.options[i + 1]] = resolution
    <3>1. PICK o \in Seq(Positions) : o = video.options
      BY <2>3
    <3>2. resolution \in Given("s", o)
      BY <2>1, <3>1
    <3> QED
      BY <3>1, <3>2, TypedSize
  <2>5. video.options = FirstCollected(codecFlag)
    <3>1. 1..(Len(<<>>) - 1) = {}
      OBVIOUS
    <3> QED
      BY <2>2, <2>4, <3>1
  <2>6. PICK p, q : p = video.options[i] /\ q = video.options[i + 1]
    OBVIOUS
  <2>7. /\ p \in Positions /\ q \in Positions /\ p < q /\ OnlyFlagsBetween(p, q)
        /\ q < Head(values[codecFlag])
        /\ \A t \in taken : t > p => t >= Head(values[codecFlag])
    BY <2>3, <2>4, <2>5, <2>6, FirstCollects
  <2> QED
    BY <2>4, <2>6, <2>7
<1>2. EncoderSpec => [](IndInv /\ OrderInv)
  BY BuildsOnCommandLine, Invariance, OrderInvariant, PTL
<1> QED
  BY <1>1, <1>2, EncoderInvariance, PTL
=============================================================================
