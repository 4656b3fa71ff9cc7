\* Every text of two characters.
SPECIFICATION Spec
CONSTANT Count = 2
INVARIANT AcceptsAndConverts
CHECK_DEADLOCK FALSE
