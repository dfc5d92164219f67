---------------------------- MODULE EncoderFlags ----------------------------
(***************************************************************************)
(* From the parsed command line to a running stream mux: parseFlags makes  *)
(* the encoders and the auto-bit-rate ladder (cmd/ffstream/flag.go), main  *)
(* reads the resolution and the sample rate out of the encoders' options,  *)
(* makes the output templates and calls FFStream.Start                     *)
(* (cmd/ffstream/main.go), which refuses what cannot be encoded.           *)
(*                                                                         *)
(* Extends CommandLine by what happens after status = "build".             *)
(***************************************************************************)
EXTENDS CommandLine

CONSTANTS
    Key,          \* per option word, the key it becomes: one dash less
    Resolutions,  \* words that "-s" is parsed from, to a size that is not 0x0
    Numbers,      \* words that "-ar" is parsed from, to a rate that is not 0
    Height,       \* per number word, the height it means
    Codecs,       \* codecs libav has an encoder of
    Ladder,       \* heights of the default ladder of every codec
    W32           \* 2^32, or a smaller number that stands for it

EncoderCollectors == {"-i", "-c", "-c:v", "-c:a", "-b:v", "-b:a"}
Bounds == {"-auto_bitrate_max_height", "-auto_bitrate_min_height"}
Unsupported == {"-map", "-filter", "-filter_complex"}
EncoderParameters == {"-mux_mode", "-auto_bitrate"} \cup Bounds \cup Unsupported

ASSUME EncoderAssumption ==
    /\ EncoderCollectors = Collectors /\ EncoderParameters \subseteq Parameters
    /\ DOMAIN Key = Options /\ \A o \in Options : Key[o] = "s" => o = "-s"
    /\ "" \notin Options \cup Resolutions \cup Numbers
    /\ Ladder \subseteq Nat \ {0} /\ Ladder # {} /\ IsFiniteSet(Ladder)
    /\ Height \in [DOMAIN Height -> Nat] /\ {"480", "1080"} \subseteq DOMAIN Height
    /\ Height["480"] = 480 /\ Height["1080"] = 1080
    /\ \A f \in Bounds : f \in DOMAIN Format /\ Format[f] \subseteq DOMAIN Height
    /\ W32 \in Nat \ {0} /\ \A h \in Ladder : h < W32

VARIABLES
    step,        \* "flags", "ladder", "main", "start" or how it goes on
    video,       \* flags.VideoEncoder: codec, bit rate, positions of options
    audio,       \* flags.AudioEncoder
    ladder,      \* flags.AutoBitRate: its heights; {}: nil
    resolution,  \* word the video resolution is parsed from, "" for 0x0
    sampleRate,  \* the same of the audio sample rate
    templates    \* s.OutputTemplates: the options of each, <<key, value>>

buildVars == <<video, audio, ladder, resolution, sampleRate, templates>>

NoEncoder == [codec |-> "", bitRate |-> "0", options |-> <<>>]

EncoderInit ==
    /\ Init
    /\ step = "flags"
    /\ video = NoEncoder /\ audio = NoEncoder /\ ladder = {}
    /\ resolution = "" /\ sampleRate = "" /\ templates = <<>>

-----------------------------------------------------------------------------
Default ==
    [f \in (EncoderCollectors \ {"-i"}) \cup (EncoderParameters \ Unsupported) |->
        CASE f = "-c" -> "copy"
          [] f \in {"-c:v", "-c:a"} -> ""
          [] f \in {"-b:v", "-b:a"} -> "0"
          [] f = "-mux_mode" -> "forbid"
          [] f = "-auto_bitrate" -> "false"
          [] f = "-auto_bitrate_max_height" -> "1080"
          [] f = "-auto_bitrate_min_height" -> "480"]

\* A flag that is given again replaces its value.
Value(f) == IF values[f] = <<>> THEN Default[f] ELSE args[Last(values[f])]

\* Only what its first occurrence collected is looked at.
FirstCollected(f) == IF collected[f] = <<>> THEN <<>> ELSE Head(collected[f])

\* "-c" first, then the flag of the kind; a bit rate counts with the latter.
Encoder(codecFlag, bitRateFlag) ==
    IF Value(codecFlag) # ""
    THEN [codec |-> Value(codecFlag), bitRate |-> Value(bitRateFlag),
          options |-> FirstCollected(codecFlag)]
    ELSE IF Value("-c") # ""
    THEN [codec |-> Value("-c"), bitRate |-> "0", options |-> FirstCollected("-c")]
    ELSE NoEncoder

\* The splitting is done; mappings, filters and unknown mux modes are fatal.
BuildEncoders ==
    /\ status = "build" /\ step = "flags"
    /\ IF /\ \A f \in Unsupported : values[f] = <<>>
          /\ Value("-mux_mode") \in {"forbid", "different_outputs_same_tracks"}
       THEN /\ step' = "ladder"
            /\ video' = Encoder("-c:v", "-b:v")
            /\ audio' = Encoder("-c:a", "-b:a")
       ELSE step' = "fatal" /\ UNCHANGED <<video, audio>>
    /\ UNCHANGED <<vars, ladder, resolution, sampleRate, templates>>

NoLadder ==
    /\ step = "ladder" /\ Value("-auto_bitrate") # "true"
    /\ step' = "main"
    /\ UNCHANGED <<vars, buildVars>>

UnknownCodec ==
    /\ step = "ladder" /\ Value("-auto_bitrate") = "true"
    /\ video.codec \notin Codecs
    /\ step' = "fatal"
    /\ UNCHANGED <<vars, buildVars>>

\* The bounds have 64 bits when they are typed, and are cut to 32.
TypedMax == Height[Value("-auto_bitrate_max_height")]
TypedMin == Height[Value("-auto_bitrate_min_height")]
Uint32(n) == n % W32

Rungs == {h \in Ladder : h <= Uint32(TypedMax) /\ h >= Uint32(TypedMin)}

\* Mutant: a stream that is not to be muxed keeps the whole ladder.
BuildLadderKeepsAll ==
    /\ step = "ladder" /\ Value("-auto_bitrate") = "true" /\ video.codec \in Codecs
    /\ IF Rungs = {} THEN step' = "crashed" /\ UNCHANGED ladder
       ELSE step' = "main" /\ ladder' = Rungs
    /\ UNCHANGED <<vars, video, audio, resolution, sampleRate, templates>>

\* The default ladder between the bounds; its best rung only if outputs may
\* not be muxed. Best and Worst of no rungs are nil, and dereferenced.
BuildLadder ==
    /\ step = "ladder" /\ Value("-auto_bitrate") = "true" /\ video.codec \in Codecs
    /\ IF Rungs = {} THEN step' = "crashed" /\ UNCHANGED ladder
       ELSE /\ step' = "main"
            /\ ladder' = IF Value("-mux_mode") = "forbid" THEN {Max(Rungs)} ELSE Rungs
    /\ UNCHANGED <<vars, video, audio, resolution, sampleRate, templates>>

-----------------------------------------------------------------------------
\* main

\* strings.TrimPrefix(arg, "-"): a word without a dash stays what it is.
Trimmed(w) == IF w \in Options THEN Key[w] ELSE IF w = "-" THEN "" ELSE w

\* Positions as pairs of a key and a value; odd ones have lost a word.
Items(positions) ==
    LET pairs == convertUnknownOptions(positions)
    IN  [n \in DOMAIN pairs |-> <<Trimmed(args[pairs[n][1]]), args[pairs[n][2]]>>]

ValuesOf(key, items) == {i[2] : i \in {j \in ToSet(items) : j[1] = key}}

\* What is kept of a key given twice is left to libav's Deduplicate.
Given(key, positions) == ValuesOf(key, Items(positions))
OptionOf(key, positions) ==
    IF Given(key, positions) = {} THEN {""} ELSE Given(key, positions)

EmptyKey == "" \in {i[1] : i \in ToSet(Items(video.options) \o Items(audio.options))}

\* -s of the video encoder and -ar of the audio encoder.
MainOptions ==
    /\ step = "main"
    /\ \E s \in OptionOf("s", video.options), ar \in OptionOf("ar", audio.options) :
          IF /\ Given("s", video.options) # {} => s \in Resolutions
             /\ Given("ar", audio.options) # {} => ar \in Numbers
             /\ ~EmptyKey
          THEN step' = "start" /\ resolution' = s /\ sampleRate' = ar
          ELSE step' = "fatal" /\ UNCHANGED <<resolution, sampleRate>>
    /\ UNCHANGED <<vars, video, audio, ladder, templates>>

Fragments == "frag_keyframe+empty_moov+separate_moof"

\* The loop over the options of one output. The dash of an option is gone by
\* now, so that only "--f" has this key; the last one counts.
ForOutput(items) ==
    LET formats == SelectSeq(items, LAMBDA i : i[1] = "-f")
        at == {n \in DOMAIN items : items[n][1] = "movflags"}
    IN
    IF formats = <<>> \/ Last(formats)[2] # "mpegts" THEN items
    ELSE IF at = {} THEN Append(items, <<"movflags", Fragments>>)
    ELSE LET n == Min(at) IN
         [items EXCEPT ![n][2] = IF @ = "" THEN Fragments ELSE @ \o "+" \o Fragments]

AddOutputTemplates ==
    /\ step = "start" /\ templates = <<>> /\ outputs # <<>>
    /\ templates' = [n \in DOMAIN outputs |-> ForOutput(Items(outputs[n][2]))]
    /\ UNCHANGED <<vars, step, video, audio, ladder, resolution, sampleRate>>

\* Mutant: Start trusts its configuration.
StartUnchecked ==
    /\ step = "start" /\ Len(templates) = Len(outputs)
    /\ step' = IF values["-i"] = <<>> \/ Len(templates) # 1
               THEN "fatal" ELSE "started"
    /\ UNCHANGED <<vars, buildVars>>

\* FFStream.Start: an input, one output, and what SwitchOutputByProps checks.
Start ==
    /\ step = "start" /\ Len(templates) = Len(outputs)
    /\ step' = IF \/ values["-i"] = <<>> \/ Len(templates) # 1
                  \/ audio.codec # "copy" /\ sampleRate = ""
                  \/ video.codec # "copy" /\ resolution = ""
               THEN "fatal" ELSE "started"
    /\ UNCHANGED <<vars, buildVars>>

EncoderNext ==
    \/ Next /\ UNCHANGED <<step, buildVars>>
    \/ BuildEncoders \/ NoLadder \/ UnknownCodec \/ BuildLadder
    \/ MainOptions \/ AddOutputTemplates \/ Start

EncoderSpec == EncoderInit /\ [][EncoderNext]_<<vars, step, buildVars>>

-----------------------------------------------------------------------------
\* Properties

\* A process that encodes video runs with the resolution its user typed: the
\* next free word after an "-s" (or an "s"), both before the first "-c:v", or
\* before the first "-c" when no "-c:v" names a codec, and after every other
\* collecting flag; there is no other way.
RunsAtTypedResolution ==
    LET codecFlag == IF Value("-c:v") # "" THEN "-c:v" ELSE "-c"
        taken == UNION {ToSet(values[f]) : f \in Collectors}
    IN  step = "started" /\ video.codec # "copy" =>
            \E p, q \in Positions :
                /\ args[p] \in {"-s", "s"} /\ args[q] = resolution
                /\ p < q /\ OnlyFlagsBetween(p, q)
                /\ q < Head(values[codecFlag])
                /\ \A t \in taken : t > p => t >= Head(values[codecFlag])

\* No rung of the ladder is above the typed maximum, and none is below the
\* typed minimum but for a minimum that 32 bits cannot hold; there is one rung
\* if outputs may not be muxed. The process crashes only if no rung lies
\* between the bounds, or 32 bits cannot hold the maximum.
LadderWithinBounds ==
    /\ \A h \in ladder : h <= TypedMax /\ (h >= TypedMin \/ TypedMin >= W32)
    /\ step = "crashed" =>
          TypedMax >= W32 \/ \A h \in Ladder : h < TypedMin \/ h > TypedMax
    /\ Value("-mux_mode") = "forbid" => Cardinality(ladder) <= 1

\* README.md:17-19 says that one should be able to just replace ffmpeg with
\* ffstream in "-i ... -c:v libx264 -f flv ...": the process starts.
ReadmeLineStarts ==
    args = <<"-i", "in", "-c:v", "libx264", "-f", "flv", "out">> => step # "fatal"
=============================================================================
