SPECIFICATION Spec
CONSTANTS
    Width = 2
    Height = 3
    MaxCmd = 6
    MaxWire = 0
    MaxSlips = 1
    Keys <- EditKeys
    Make <- EditMake
    Break <- EditBreak
    Blank = " "
    Newline = "nl"
    Return = "cr"
    Backspace = "bs"
    NoChar = "none"
    Glyphs <- MCGlyphs
    Letters <- MCLetters
    LowerOf <- MCLower
    UpperOf <- MCUpper
    Normal <- MCNormal
    Shifted <- MCShifted
    Prompt <- MCPrompt
    Splash <- MCSplash
    MagicNote <- MCNote
    Reports <- MCReports
    ClearCmd <- MCClear
    RebootCmd <- MCReboot
    HaltCmd <- MCHalt
    RebootText <- MCText
    HaltText <- MCText
    UnknownHead <- MCText
    UnknownTail <- MCText
INVARIANTS TypeOK SeenIsRun AheadIsBlank NoStuckShift
PROPERTY HistoryKept
CHECK_DEADLOCK FALSE
