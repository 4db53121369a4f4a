\* Two authors, views out of date, a journal that overflows, lost answers, a Ghidra that dies.
SPECIFICATION Spec
CONSTANTS
    A = A
    B = B
    Programs = {A, B}
    MaxUndo = 2
    Settings <- AllSettings
INVARIANTS IndexCurrent
PROPERTIES UndoRestores
CHECK_DEADLOCK FALSE
