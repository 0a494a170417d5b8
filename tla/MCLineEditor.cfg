SPECIFICATION Spec
CONSTANTS
    a = a
    e2 = e2
    sp = sp
    Chars = {a, e2, sp}
    Width <- OneTwoBlank
    Blanks = {sp}
    MaxLine = 3
    MaxHistory = 3
INVARIANTS
    CursorInLine
    Recallable
PROPERTIES
    ActsAsLine
    DraftComesBack
CHECK_DEADLOCK FALSE
