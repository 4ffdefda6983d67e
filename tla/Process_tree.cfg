SPECIFICATION Spec
CONSTANTS
    scene = scene
    room = room
    a = a
    b = b
    Proc = {scene, room, a, b}
    Node = {scene, room}
    Root = Root
    None = None
INVARIANTS TreeOK Rooted
SYMMETRY Symmetry
CHECK_DEADLOCK FALSE
