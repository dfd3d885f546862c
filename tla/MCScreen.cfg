SPECIFICATION Spec
CONSTANTS
  Width = 5
  Height = 5
  PixelsPerScanline = 6
  fontWidth = 2
  fontHeight = 2
  Chars = {"a"}
  Glyph <- SomeGlyphs
  MousePointer <- SmallPointer
  StartColumn = 1
  FrontColors = {"white", "cursor"}
  CURSOR_COLOR = "cursor"
  ClearColor = "clear"
  Bytes = 8
  Packets <- SomePackets
INVARIANTS
  CursorsInBounds
  PointerLeavesNoTrace
PROPERTIES
  PointerFollowsMouse
\* The model stops when the pixels under the pointer are lost.
CHECK_DEADLOCK FALSE
