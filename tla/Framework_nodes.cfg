SPECIFICATION Spec
CONSTANTS
    scene = scene
    a = a
    b = b
    room = room
    r1 = r1
    r2 = r2
    Proc = {scene, room, a}
    Node = {scene, room}
    Refuser = {}
    Fast = {}
    Overlap = {}
    List0 = {}
    NodeReq = {r1, r2}
    Root = Root
    None = None
INVARIANTS LayersAlive DyingLayerEmpty LinedTogether VictimAlive MovesSucceed
SYMMETRY RequestSymmetry
