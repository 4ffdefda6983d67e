SPECIFICATION FairResourceSpec
CONSTANTS
    a1 = a1
    a2 = a2
    Slots = {1, 2, 3}
    Names = {"A", "missing", "Kmdl", "Zmdl"}
    Missing = {"missing"}
    Actors = {a1, a2}
    Wants = {"A", "missing"}
    Gears = {"clothes"}
    Wardrobe <- Clothes
    Fails = {"mount", "heap", "load", "gearLoad"}
    Impatient = FALSE
    MaxCount = 2
INVARIANTS SlotsAgree OnlyFailedIsFreed
PROPERTIES HeldStays WaitsEnd
CHECK_DEADLOCK FALSE
