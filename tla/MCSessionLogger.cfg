SPECIFICATION Spec
CONSTANTS
    MaxOut = 3
    MaxKeys = 2
    OutRoom = 3
    InRoom = 1
    ReadSize = 2
    Sizes = {small, large}
    Footer = Footer
INVARIANTS TypeOK TranscriptIsWhatWasShown LossBounded ResizeNotForgotten
PROPERTIES SessionEnds OutputIsShown
CHECK_DEADLOCK FALSE
