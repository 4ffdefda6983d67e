SPECIFICATION Spec
CONSTANTS
    t1 = t1
    t2 = t2
    t3 = t3
    Threads = {t1, t2, t3}
    MaxDepth = 3
    None = None
SYMMETRY ThreadSymmetry
INVARIANT FieldsAgree
PROPERTIES ImplementsMonitor
