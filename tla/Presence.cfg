SPECIFICATION KindSpec
CONSTANTS
    Parsers = {"parser"}
    Callbacks = {"callback"}
    MaxTurns = 1
    MaxUpsets = 1
PROPERTIES
    SilentGoesOffline
    HealthyComesOnline
    FaultIsShown
    StaysInSet
    
CHECK_DEADLOCK FALSE
