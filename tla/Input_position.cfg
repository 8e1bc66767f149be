SPECIFICATION MCSpec
CONSTANTS
  left = left
  right = right
  letter = letter
  word = word
  Keys <- AllKeys
  Buttons <- TwoButtons
  Hooked <- Letters
  Typing <- TypedKeys
  Arrows <- TwoArrows
  ArrowTypes = FALSE
  KEY_BUFFER_SIZE = 3
  MaxEvents = 2
  MaxUpdates = 2
INVARIANT
  PositionInBuffer
