SPECIFICATION FairSpec
CONSTANTS
    Frames = 3
    ReadBuffers = 2
    TextureSets = 2
    AudioBuffers = 3
    Audio = {TRUE, FALSE}
    Fails = {"dvd", "short", "decode"}
    MaxRaces = 1
INVARIANTS BuffersSound InStep
PROPERTIES PlayerSettles
CHECK_DEADLOCK FALSE
