SPECIFICATION Spec
CONSTANTS
    scene = scene
    a = a
    b = b
    room = room
    r1 = r1
    r2 = r2
    Proc = {scene, a, b}
    Node = {scene}
    Refuser = {a}
    Fast = {a}
    Overlap = {b}
    List0 = {a}
    NodeReq = {r1}
    Root = Root
    None = None
INVARIANTS TypeOK CountsExact IteratorSafe
PROPERTIES DeletionIsFinal FailedStaysOut
