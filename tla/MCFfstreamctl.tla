--------------------------- MODULE MCFfstreamctl ---------------------------
(* Instances of Ffstreamctl for TLC. *)
EXTENDS Ffstreamctl, TLC

CONSTANTS here

Plain == {[scheme |-> "tcp", rest |-> here]}
Target == {[scheme |-> "host", rest |-> here]}

AllMethods == ServiceMethods \ {"GetCurrentOutput", "WaitChan"}

Line(p, a) == [path |-> p, args |-> a, flags |-> {}]

\* A good token for each kind of argument.
Good == [u32 |-> Max32, u64 |-> Max64, i64 |-> Max64, bool |-> 1, event |-> Event, flag |-> 1,
         json |-> 1, text |-> Text]
GoodLine(c) == Line(c.path, [i \in 1..Len(c.args) |-> Good[c.args[i]]])

NoConfig == <<0>>   \* what a JSON null is read as
ConfigSet == <<"encoder", "auto_bitrate", "video", "config", "set">>
SRTSet == <<"srt", "flag", "int", "set">>

\* The commands that are typed: those whose calls end like another one's are
\* left out.
Alike == {"GetBitRates", "GetLatencies", "GetInputQuality", "GetOutputQuality", "GetPipelines",
          "GetInputsInfo", "GetOutputSRTStats", "GetSRTFlagInt", "SetSRTFlagInt",
          "SetInputCustomOption"}

\* These commands with good arguments; settings with values that differ by
\* width, or are refused; no config; and every way to misuse a command.
MCLines ==
    {GoodLine(c) : c \in {d \in Commands : d.method \notin Alike}}
    \cup {Line(<<"encoder", "fps_fraction", "set">>, a) :
            a \in {<<3, 2>>, <<Max32 + 3, 1>>, <<2, Max32 + 3>>, <<2>>}}
    \cup {Line(<<"inputs", "set_stop">>, <<0, 2>>), Line(<<"monitor">>, <<1, Text>>),
          Line(<<"monitor">>, <<Max64>>), Line(<<"encoder", "auto_bitrate">>, <<>>),
          Line(<<"get-stats">>, <<>>),
          Line(ConfigSet, NoConfig), Line(SRTSet, <<1, -1>>),
          [Line(SRTSet, <<1, -1>>) EXCEPT !.flags = {"--"}],
          [Line(<<"monitor">>, <<1>>) EXCEPT !.flags = {"unknown format"}],
          [Line(<<"inputs", "set_stop">>, <<>>) EXCEPT !.flags = {"help"}],
          Line(<<"help", "stats">>, <<>>), Line(<<"completion", "zsh", "more">>, <<>>),
          [Line(<<"stats", "encoder">>, <<>>) EXCEPT !.flags = {"remote"}]}

Symmetry == Permutations(Calls)

MCValues ==
    UNION {{Request(l)} : l \in {m \in CommandLines :
               ~BadUsage(m) /\ ~OnlyPrints(m) /\ ~WrongCount(m) /\ Converts(m)}}
    \ {<<>>}
MCBadFPS == {<<3, 2>>}
=============================================================================
