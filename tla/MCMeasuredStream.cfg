SPECIFICATION MeasuredSpec
CONSTANTS
    a = a
    b = b
    sp = sp
    Characters <- MCCharacters
    Vocab <- MCVocab
    Space <- MCSpace
    Stops <- MCStops
    MaxTokens = 4
    Timeout = 2
    LastTick = 4
INVARIANTS
    StopsHonoured
    FiguresAddUp
    PercentilesHold
CHECK_DEADLOCK FALSE
