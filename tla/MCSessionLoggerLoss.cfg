SPECIFICATION Spec
CONSTANTS
    MaxOut = 3
    MaxKeys = 0
    OutRoom = 3
    InRoom = 1
    ReadSize = 2
    Sizes = {small, large}
    Footer = Footer
INVARIANT RelaysEverything
CHECK_DEADLOCK FALSE
