CONSTANTS
    Period = 2
    MaxWarnings = 2
    MaxDay = 5
    MaxBank = 1
SPECIFICATION RentSpec
PROPERTY LetterKeepsItsWord
CHECK_DEADLOCK FALSE
