CONSTANTS
    Sends <- ShortAndLong
    Joins <- BeyondShort
    Lists <- OneOrTwoDigits
    Junk <- CleanOrNot
    MaxTyped = 3
    Near = 1
SPECIFICATION Spec
INVARIANTS
    RequestDecoded
    ReplyDecoded
    RelayFits
    CreateListDecoded
CHECK_DEADLOCK FALSE
