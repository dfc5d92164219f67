--------------------------- MODULE MCEncoderFlags ---------------------------
(* Instances of EncoderFlags for TLC. *)
EXTENDS EncoderFlags

CONSTANTS
    MaxChunks,   \* bound: chunks between the input and the output
    MaxArgs      \* bound: arguments of the lines that only the parser is shown

MCParameters == EncoderParameters \cup {"-v"}
MCFormat ==
    [f \in {"-v"} |-> {"word"}]
    @@ [f \in {"-b:v", "-b:a"} |-> {"1M", "500K"}]
    @@ [f \in {"-auto_bitrate"} |-> {"true"}]
    @@ [f \in Bounds |-> {"480", "720", "1080", "2160", "4294967296", "4294967776"}]
MCKey == [o \in {"-s"} |-> "s"] @@ [o \in {"-ar"} |-> "ar"] @@ [o \in {"-f"} |-> "f"]
         @@ [o \in {"--f"} |-> "-f"] @@ [o \in {"-movflags"} |-> "movflags"]
MCHeight == [h \in {"480"} |-> 480] @@ [h \in {"720"} |-> 720]
            @@ [h \in {"1080"} |-> 1080] @@ [h \in {"2160"} |-> 2160]
            @@ [h \in {"4294967296"} |-> W32] @@ [h \in {"4294967776"} |-> W32 + 480]

Upto(S, n) == {FlattenSeq(c) : c \in UNION {[1..m -> S] : m \in 0..n}}

\* Encoder flags and their options in every order.
EncoderChunks ==
    {<<"-c:v", "libx264">>, <<"-c:v", "copy">>, <<"-c", "libx264">>, <<"-c:a", "aac">>,
     <<"-b:v", "1M">>, <<"-s", "640x480">>, <<"-s", "wide">>, <<"-ar", "48000">>,
     <<"-">>, <<"word">>}
EncoderLines ==
    {<<"-i", "in">> \o c \o <<"out">> : c \in Upto(EncoderChunks, MaxChunks)}

\* A size and its "-s" apart from each other, behind other flags, with no dash.
SizeChunks ==
    {<<"-s">>, <<"s">>, <<"640x480">>, <<"-v", "word">>, <<"-c:v", "libx264">>, <<"-c:v", "">>,
     <<"-c", "libx264">>}
SizeLines ==
    {<<"-i", "in", "-c:a", "copy">> \o c \o <<"out">> : c \in Upto(SizeChunks, MaxChunks)}

\* Options of outputs, with an input or without.
OutputChunks ==
    {<<"-f", "mpegts">>, <<"--f", "mpegts">>, <<"--f", "flv">>, <<"-movflags", "faststart">>,
     <<"-map", "word">>, <<"out">>}
OutputLines ==
    {i \o c : i \in {<<>>, <<"-i", "in">>}, c \in Upto(OutputChunks, MaxChunks)}

\* Ladders, with bounds between their rungs, beyond them and beyond 32 bits.
LadderChunks ==
    {<<"-auto_bitrate_max_height", "720">>, <<"-auto_bitrate_min_height", "1080">>,
     <<"-auto_bitrate_min_height", "2160">>, <<"-auto_bitrate_max_height", "4294967776">>,
     <<"-auto_bitrate_min_height", "4294967296">>,
     <<"-mux_mode", "different_outputs_same_tracks">>, <<"-mux_mode", "word">>}
LadderLines ==
    {<<"-i", "in", "-s", "640x480">> \o v \o <<"-auto_bitrate", "true">> \o c \o <<"out">> :
        v \in {<<"-c:v", "libx264">>, <<"-c:v", "copy">>}, c \in Upto(LadderChunks, MaxChunks)}

\* Every line of a few arguments, of one argument of each kind.
ParserKinds == {"-i", "-c:v", "-v", "-version", "-movflags", "word", "--", "-"}
ParserLines == UNION {[1..n -> ParserKinds] : n \in 0..MaxArgs}

MCLines == ParserLines \cup EncoderLines \cup SizeLines \cup OutputLines \cup LadderLines
ReadmeLines == {<<"-i", "in", "-c:v", "libx264", "-f", "flv", "out">>}
=============================================================================
