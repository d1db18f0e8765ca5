CONSTANT MaxItems = 3
SPECIFICATION Spec
INVARIANT AcceptsHead
