CONSTANTS
  KeySlots = 2
  Keys = {4, 5, 6}
  Modifiers = {0, 4}
  Motions = {1, 128, 255}
  MaxReports = 3
SPECIFICATION Spec
INVARIANTS HeldNotRepeated PushNotLost CursorFollows PreviousKept
CHECK_DEADLOCK FALSE
