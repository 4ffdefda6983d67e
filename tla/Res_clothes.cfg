SPECIFICATION ResourceSpec
CONSTANTS
    a1 = a1
    a2 = a2
    Slots = {1, 2}
    Names = {"A", "Kmdl", "Zmdl"}
    Missing = {}
    Actors = {a1}
    Wants = {"A"}
    Gears = {"clothes"}
    Wardrobe <- Clothes
    Fails = {}
    Impatient = TRUE
    MaxCount = 2
INVARIANTS NeverDestroyedEarly
