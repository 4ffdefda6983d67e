SPECIFICATION FairSpec
CONSTANTS
    s1 = s1
    s2 = s2
    room = room
    f1 = f1
    f2 = f2
    r1 = r1
    r2 = r2
    play = play
    opening = opening
    Stages = {s1, s2}
    Rooms = {room}
    Fades = {f1, f2}
    Requests = {r1, r2}
    Names = {play, opening}
    MayFail = {"scene", "fade"}
    Peek = 1
    FadeFrames = 1
    None = None
INVARIANTS OverlapSound ClosedWhileReplacing HeldBehindFade NoneLeftPaused OverlapReturns RetargetHonoured
PROPERTIES SceneSettles
