SPECIFICATION Spec
CONSTANTS
    Rules <- TheRules
    Voiced <- TheVoiced
    Keyboards <- TheKeyboards
    TimeoutKeyboards <- TheTimeoutKeyboards
    InputModes = {"HIRAGANA"}
    OutputModes = {"HALF_KATAKANA"}
    MaxRounds = 8
    MaxPreeditLength = 3
    MaxKeys = 3
    ShiftKeyModeSwitch = "ASCII_INPUT_MODE"
    UpdateInputModeFromSurroundingText = TRUE
    SwitchingRules <- TheSwitching
    Stop = "!"
INVARIANTS CursorInText LengthCacheFresh PositionsMonotone ModesAgree TextAfterCursorKept DeletesOneCharacter 
CHECK_DEADLOCK FALSE
