\* Texts with the digits a to f.
SPECIFICATION Spec
CONSTANT Count = 2
INVARIANT HexConverts
CHECK_DEADLOCK FALSE
