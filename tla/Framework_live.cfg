SPECIFICATION FairSpec
CONSTANTS
    scene = scene
    a = a
    b = b
    room = room
    r1 = r1
    r2 = r2
    Proc = {scene, room, a}
    Node = {scene, room}
    Refuser = {a}
    Fast = {a}
    Overlap = {}
    List0 = {}
    NodeReq = {r1}
    Root = Root
    None = None
PROPERTIES DyingIsFreed LeafRequestEnds ImplementsTree
