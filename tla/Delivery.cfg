CONSTANTS
    Order <- MCOrder
    KeyBacked <- MCKeyBacked
    HatBacked <- MCHatBacked
    NativeKey <- MCNativeKey
    Decide <- MCDecide
    NoKey = "kNone"
    StartKey = "kStart"
    BackKey = "kBack"
    RingSize = 16
    Shown <- MCShown
    MaxMoves = 2
    Builds <- MCBuilds
    Period = 2
    Warm = 2
    MaxAttempts = 2
SPECIFICATION InputSpec
INVARIANTS Accounted GuestAgrees Healed AnsweredOnce StartFlips FocusObeyed
\* A game that was left polls no more.
CHECK_DEADLOCK FALSE
