CONSTANTS
    MaxChunks = 4
    MaxArgs = 5
    CommandLines <- MCLines
    Collectors <- EncoderCollectors
    Parameters <- MCParameters
    Switches = {"-version"}
    Format <- MCFormat
    Options = {"-s", "-ar", "-f", "--f", "-movflags"}
    Words = {"", "s", "in", "out", "libx264", "h264", "copy", "aac", "1M", "500K", "640x480", "320x240",
             "wide", "48000", "mpegts", "flv", "faststart", "true", "480", "720", "1080", "2160",
             "4294967296", "4294967776",
             "different_outputs_same_tracks", "word"}
    Key <- MCKey
    Resolutions = {"640x480", "320x240"}
    Numbers = {"48000", "480", "720", "1080", "2160", "4294967296", "4294967776"}
    Height <- MCHeight
    Codecs = {"libx264", "h264"}
    Ladder = {480, 720, 1080}
    W32 = 4096
SPECIFICATION EncoderSpec
INVARIANTS
    TypeOK
    EveryArgumentOnce
    OptionsOfNextCollector
    IndexSafe
    OutputsPartition
    RunsAtTypedResolution
    LadderWithinBounds
CHECK_DEADLOCK FALSE
