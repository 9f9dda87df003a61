SPECIFICATION Spec
CONSTANTS
    NotSet = unset
    Unusable <- MCUnusable
    Keys <- ShippedKeys
    Order <- ShippedOrder
    SectionOf <- ShippedSection
    Default <- ShippedDefault
    Control <- Pages
    Tried <- MCTried
    Again <- MCAgain
    MaxMoves = 2
    MaxFails = 1
INVARIANTS AppTypeOK ControlsTell LiveIsLogin
PROPERTIES StoreSpec ContrastAtLogin
CHECK_DEADLOCK FALSE
