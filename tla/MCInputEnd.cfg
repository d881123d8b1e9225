CONSTANTS
  k = k  enter = enter  back = back  ctrlD = ctrlD  prompt = prompt
  Keys <- MCKeys
  Enter = enter  Back = back  End = ctrlD
  Prompt = prompt
  Slots = 3
  LineCap = 2
  MaxTyped = 5
SPECIFICATION InputSpec
INVARIANT EndRunsAll
CHECK_DEADLOCK FALSE
