SPECIFICATION FairSpec
CONSTANTS
    Users = {"auto", "menu", "reset"}
    CardFails = {"IOERROR", "BROKEN", "OTHER"}
INVARIANT NoSaveWhenAllWell
PROPERTIES SavedIsOnCard BufferNotShared WaitsEnd
