------------------------------- MODULE Screen -------------------------------
(***************************************************************************)
(* The renderer (renderer/basic_renderer_*.cpp): characters written into   *)
(* the frame buffer, and the mouse pointer laid over them by               *)
(* ProcessMousePacket (userinput/mouse.cpp).                               *)
(***************************************************************************)
EXTENDS Integers

CONSTANTS
  Width, Height,      \* The visible pixels.
  PixelsPerScanline,  \* The pixels of a line in memory.
  fontWidth, fontHeight,
  Chars, Glyph,       \* Glyph[c]: the pixels of c in the font's cell.
  MousePointer,       \* The pixels of the pointer, from its position.
  StartColumn,        \* The column of the first cursor (4).
  FrontColors,        \* Arguments of SetColor.
  CURSOR_COLOR, ClearColor,
  Bytes,              \* The values of a byte (256).
  Packets             \* The packets of the mouse.

xGridMax == Width \div fontWidth
yGridMax == Height \div fontHeight

ASSUME ScreenAssumption ==
  /\ fontWidth \in Nat \ {0} /\ fontHeight \in Nat \ {0}
  /\ Width \in Nat /\ Height \in Nat /\ fontWidth <= Width /\ fontHeight <= Height
  /\ PixelsPerScanline \in Nat /\ Width <= PixelsPerScanline
  /\ Bytes \in Nat \ {0} /\ StartColumn \in Nat
  /\ MousePointer \subseteq Nat \X Nat
  /\ Packets \subseteq [x : 0 .. Bytes - 1, y : 0 .. Bytes - 1,
                        xNegative : BOOLEAN, yNegative : BOOLEAN,
                        xOverflow : BOOLEAN, yOverflow : BOOLEAN]
  /\ ClearColor \notin {CURSOR_COLOR} \cup FrontColors

VARIABLES
  frame,              \* The frame buffer's memory.
  textCursorPos,      \* The next character's place, [X, Y].
  baseXOff,           \* Where a new line begins.
  color,
  MousePosition, MousePositionOld,
  MouseDrawn,
  mouseCursorBuffer,  \* The pixels under the pointer, by their place in it.
  text,               \* History: the character and colour printed last in each cell.
  smeared             \* History: the pointer was scrolled, or its own colour was
                      \* printed over it: the pixels under it are lost.

textVars == <<textCursorPos, baseXOff, color, text>>
pointerVars == <<MousePosition, MousePositionOld, MouseDrawn, mouseCursorBuffer>>
vars == <<frame, textVars, pointerVars, smeared>>

-----------------------------------------------------------------------------

Memory == 0 .. PixelsPerScanline * Height - 1

Index(x, y) == x + y * PixelsPerScanline

\* SetPix for each pixel of picture, a function from places to colours.
Drawn(f, picture) ==
  [i \in Memory |->
     LET p == <<i % PixelsPerScanline, i \div PixelsPerScanline>>
     IN  IF p[1] < Width /\ p \in DOMAIN picture THEN picture[p] ELSE f[i]]

CellPixels(X, Y) ==
  {<<X * fontWidth + dx, Y * fontHeight + dy>> :
     dx \in 0 .. fontWidth - 1, dy \in 0 .. fontHeight - 1}

Cells == (0 .. xGridMax - 1) \X (0 .. yGridMax - 1)

Blank == [chr |-> "none", color |-> ClearColor]

\* The colour of a place in a cell that shows a character.
CellColor(cell, p) ==
  IF cell # Blank /\ <<p[1] % fontWidth, p[2] % fontHeight>> \in Glyph[cell.chr]
  THEN cell.color ELSE ClearColor

\* The pointer is cut off at the right and the lower edge.
PointerPixels(position) ==
  {p \in {<<position.X + m[1], position.Y + m[2]>> : m \in MousePointer} :
     p[1] < Width /\ p[2] < Height}

Covered == IF MouseDrawn THEN PointerPixels(MousePositionOld) ELSE {}

Under(p) == mouseCursorBuffer[<<p[1] - MousePositionOld.X, p[2] - MousePositionOld.Y>>]

-----------------------------------------------------------------------------
(* Text.                                                                   *)

\* The picture printed into a cell; the pointer's colour over itself is lost.
Printed(X, Y, cell) == [p \in CellPixels(X, Y) |-> CellColor(cell, p)]

PrintedOver(picture) == \E p \in Covered \cap DOMAIN picture : picture[p] = CURSOR_COLOR

\* Scroll copies line over line, and clears one row of text behind the last one
\* copied.  What is below the last row of text stays.
ScrolledFrame(f) ==
  LET rowSize == PixelsPerScanline * fontHeight
      screenSize == rowSize * yGridMax
  IN  [i \in Memory |-> IF i < screenSize - rowSize THEN f[i + rowSize]
                        ELSE IF i < screenSize THEN ClearColor ELSE f[i]]

ScrolledText(t) ==
  [c \in Cells |-> IF c[2] < yGridMax - 1 THEN t[<<c[1], c[2] + 1>>] ELSE Blank]

\* The text cursor at X, Y, scrolled into the grid, with the frame f and the text t.
Settle(f, t, X, Y, over) ==
  IF Y >= yGridMax
  THEN /\ frame' = ScrolledFrame(f) /\ text' = ScrolledText(t)
       /\ textCursorPos' = [X |-> X, Y |-> Y - 1]
       /\ smeared' = (over \/ MouseDrawn)
  ELSE /\ frame' = f /\ text' = t
       /\ textCursorPos' = [X |-> X, Y |-> Y]
       /\ smeared' = over

\* PutChar of a character other than the line feed.
PutChar(chr) ==
  LET X == textCursorPos.X
      Y == textCursorPos.Y
      cell == [chr |-> chr, color |-> color]
      picture == Printed(X, Y, cell)
  IN  /\ ~smeared
      /\ LET f == Drawn(frame, picture)
             t == [text EXCEPT ![<<X, Y>>] = cell]
         IN  IF X + 2 > xGridMax
             THEN Settle(f, t, baseXOff, Y + 1, PrintedOver(picture))
             ELSE Settle(f, t, X + 1, Y, PrintedOver(picture))
      /\ UNCHANGED <<baseXOff, color, pointerVars>>

NewLine ==
  /\ ~smeared
  /\ Settle(frame, text, baseXOff, textCursorPos.Y + 1, FALSE)
  /\ UNCHANGED <<baseXOff, color, pointerVars>>

\* ClearChar without the test for the start of a line.
ClearCharOnLine ==
  LET X == textCursorPos.X
      Y == textCursorPos.Y
  IN  /\ ~smeared
      /\ frame' = Drawn(frame, Printed(X - 1, Y, Blank))
      /\ text' = [text EXCEPT ![<<X - 1, Y>>] = Blank]
      /\ textCursorPos' = [X |-> X - 1, Y |-> Y]
      /\ UNCHANGED <<baseXOff, color, pointerVars, smeared>>

\* At the start of a line the last character of the line above is erased, and at
\* the start of the first line its own last one.
ClearChar ==
  LET back == textCursorPos.X <= baseXOff
      X == IF back THEN xGridMax ELSE textCursorPos.X
      Y == IF back /\ textCursorPos.Y > 0 THEN textCursorPos.Y - 1 ELSE textCursorPos.Y
  IN  /\ ~smeared
      /\ frame' = Drawn(frame, Printed(X - 1, Y, Blank))
      /\ text' = [text EXCEPT ![<<X - 1, Y>>] = Blank]
      /\ textCursorPos' = [X |-> X - 1, Y |-> Y]
      /\ UNCHANGED <<baseXOff, color, pointerVars, smeared>>

\* A place outside the grid is ignored.
SetCursor(x, y) ==
  /\ ~smeared /\ x < xGridMax /\ y < yGridMax
  /\ textCursorPos' = [X |-> x, Y |-> y] /\ baseXOff' = x
  /\ UNCHANGED <<frame, color, text, pointerVars, smeared>>

SetColor(c) ==
  /\ ~smeared
  /\ color' = c
  /\ UNCHANGED <<frame, textCursorPos, baseXOff, text, pointerVars, smeared>>

ClearScreen ==
  /\ ~smeared
  /\ frame' = Drawn(frame, [p \in (0 .. Width - 1) \X (0 .. Height - 1) |-> ClearColor])
  /\ text' = [c \in Cells |-> Blank]
  /\ UNCHANGED <<textCursorPos, baseXOff, color, pointerVars, smeared>>

-----------------------------------------------------------------------------
(* The pointer.                                                            *)

\* A negative byte counted as it is.
PlainMovement(byte, negative, overflow) ==
  (IF negative THEN 0 - byte ELSE byte)
    + (IF ~overflow THEN 0 ELSE IF negative THEN 1 - Bytes ELSE Bytes - 1)

\* What a packet adds to a coordinate.  256 - byte is stored in a byte again.
Movement(byte, negative, overflow) ==
  (IF negative THEN 0 - ((Bytes - byte) % Bytes) ELSE byte)
    + (IF ~overflow THEN 0 ELSE IF negative THEN 1 - Bytes ELSE Bytes - 1)

OnScreen(n, size) == IF n > size - 1 THEN size - 1 ELSE IF n < 0 THEN 0 ELSE n

\* ClearMouseCursor putting back every pixel.
RestoreAll(f) ==
  Drawn(f, [p \in Covered |-> Under(p)])

\* What was printed over the pointer stays.
ClearMouseCursor(f) ==
  Drawn(f, [p \in {q \in Covered : f[Index(q[1], q[2])] = CURSOR_COLOR} |-> Under(p)])

\* DrawOverlayMouseCursor keeps the pixels of the places it draws.
KeptPixels(f, position) ==
  [m \in MousePointer |->
     LET p == <<position.X + m[1], position.Y + m[2]>>
     IN  IF p \in PointerPixels(position) THEN f[Index(p[1], p[2])] ELSE mouseCursorBuffer[m]]

\* The vertical axis of the mouse points up.
ProcessMousePacket(packet) ==
  LET position ==
        [X |-> OnScreen(MousePosition.X + Movement(packet.x, packet.xNegative, packet.xOverflow), Width),
         Y |-> OnScreen(MousePosition.Y - Movement(packet.y, packet.yNegative, packet.yOverflow), Height)]
      f == ClearMouseCursor(frame)
  IN  /\ ~smeared
      /\ MousePosition' = position /\ MousePositionOld' = position
      /\ frame' = Drawn(f, [p \in PointerPixels(position) |-> CURSOR_COLOR])
      /\ mouseCursorBuffer' = KeptPixels(f, position)
      /\ MouseDrawn' = TRUE
      /\ UNCHANGED <<textVars, smeared>>

-----------------------------------------------------------------------------

Origin == [X |-> 0, Y |-> 0]

\* A first cursor outside the grid is ignored, like any other.
FirstColumn == IF StartColumn < xGridMax THEN StartColumn ELSE 0

\* After InitGlobalBasicRenderer and ClearScreen.
Init ==
  /\ frame = [i \in Memory |-> ClearColor]
  /\ textCursorPos = [Origin EXCEPT !.X = FirstColumn] /\ baseXOff = FirstColumn
  /\ color \in FrontColors
  /\ MousePosition = Origin /\ MousePositionOld = Origin /\ MouseDrawn = FALSE
  /\ mouseCursorBuffer = [m \in MousePointer |-> ClearColor]
  /\ text = [c \in Cells |-> Blank]
  /\ smeared = FALSE

Next ==
  \/ \E chr \in Chars : PutChar(chr)
  \/ NewLine \/ ClearChar \/ ClearScreen
  \/ \E c \in Cells : SetCursor(c[1], c[2])
  \/ \E c \in FrontColors : SetColor(c)
  \/ \E packet \in Packets : ProcessMousePacket(packet)

Spec == Init /\ [][Next]_vars

-----------------------------------------------------------------------------
(* Properties.                                                             *)

\* The text cursor never leaves the grid nor goes left of where its lines begin,
\* and the pointer never leaves the screen: what is printed and drawn next has its
\* place in the frame buffer.
CursorsInBounds ==
  /\ baseXOff \in 0 .. xGridMax - 1
  /\ textCursorPos.X \in baseXOff .. xGridMax - 1 /\ textCursorPos.Y \in 0 .. yGridMax - 1
  /\ MousePosition.X \in 0 .. Width - 1 /\ MousePosition.Y \in 0 .. Height - 1
  /\ MousePositionOld = MousePosition

\* What the screen should show without the pointer.
TextAt(p) ==
  LET c == <<p[1] \div fontWidth, p[2] \div fontHeight>>
  IN  IF c \in Cells THEN CellColor(text[c], p) ELSE ClearColor

\* Every visible pixel shows the text, or the pointer over a kept pixel of the text
\* that will be put back: however printing, erasing, scrolling and moving alternate,
\* the pointer leaves no trace in the text.  Until it is scrolled itself, or its own
\* colour is printed over it: then it does, and the model stops.
PointerLeavesNoTrace ==
  ~smeared => \A x \in 0 .. Width - 1, y \in 0 .. Height - 1 :
    LET p == <<x, y>>
    IN  \/ frame[Index(x, y)] = TextAt(p)
        \/ p \in Covered /\ frame[Index(x, y)] = CURSOR_COLOR /\ Under(p) = TextAt(p)

\* Two's complement of a movement of 9 bits.
Signed(byte, negative) == IF negative THEN byte - Bytes ELSE byte

\* Each packet moves the pointer by the two 9-bit movements it carries, the vertical
\* one upwards, as far as the screen goes.  (But the most negative movement, byte 0,
\* moves nothing; and an overflow adds one byte's worth.)
PointerFollowsMouse ==
  [][\A packet \in Packets :
       ProcessMousePacket(packet) /\ ~packet.xOverflow /\ ~packet.yOverflow =>
         LET dx == IF packet.x = 0 THEN 0 ELSE Signed(packet.x, packet.xNegative)
             dy == IF packet.y = 0 THEN 0 ELSE Signed(packet.y, packet.yNegative)
         IN  /\ MousePosition'.X = OnScreen(MousePosition.X + dx, Width)
             /\ MousePosition'.Y = OnScreen(MousePosition.Y - dy, Height)]_vars
=============================================================================
