CONSTANT MaxItems = 8
SPECIFICATION Spec
INVARIANTS
  GrantHasItem
  NothingLost
PROPERTY StableWhilePending
