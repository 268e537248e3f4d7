CONSTANTS
    c1 = c1
    c2 = c2
    Contexts = {c1, c2}
    NoContext = NoContext
    Timeout = 3
    Steps <- Clock
    HealthFlips = 2
    LargestDrawable = 3
    Declarations <- Declared
    Drivers <- EveryDriver
    Sizes <- EverySize
SPECIFICATION MeasuredSpec
INVARIANTS NeverMisused OneReceipt ContractHonoured DocumentAgrees NothingLeft
PROPERTIES Concluded
CHECK_DEADLOCK FALSE
