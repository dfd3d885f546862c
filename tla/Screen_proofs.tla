---------------------------- MODULE Screen_proofs ----------------------------
(* That neither cursor leaves the screen, that the pointer leaves no trace in the *)
(* text and follows the mouse, for every size of screen, font and pointer, every   *)
(* text and every movement of the mouse.                                           *)
EXTENDS Screen, TLAPS

\* A whole character fits into the screen.
LEMMA Division ==
  ASSUME NEW n \in Nat, NEW d \in Nat \ {0}, d <= n
  PROVE  n \div d \in Nat \ {0}
  <1>. DEFINE q == n \div d
              r == n % d
  <1>1. q \in Int /\ r \in 0 .. d - 1 /\ n = d * q + r
    OBVIOUS
  <1>. HIDE DEF q, r
  <1>2. CASE q <= 0
    <2>1. d * q <= 0
      BY <1>1, <1>2
    <2>. QED  BY <1>1, <2>1
  <1>. QED  BY <1>1, <1>2 DEF q

LEMMA GridSize == xGridMax \in Nat \ {0} /\ yGridMax \in Nat \ {0}
  BY Division, ScreenAssumption DEF xGridMax, yGridMax

LEMMA ScreenSize == Width \in Nat \ {0} /\ Height \in Nat \ {0}
  BY ScreenAssumption

\* A movement is a whole number of pixels, of either sign.
LEMMA MovementType ==
  ASSUME NEW byte \in 0 .. Bytes - 1, NEW negative \in BOOLEAN, NEW overflow \in BOOLEAN
  PROVE  Movement(byte, negative, overflow) \in Int
  <1>1. (Bytes - byte) % Bytes \in Int
    BY ScreenAssumption
  <1>. QED  BY <1>1, ScreenAssumption DEF Movement

LEMMA OnScreenBounds ==
  ASSUME NEW n \in Int, NEW size \in Nat \ {0}
  PROVE  OnScreen(n, size) \in 0 .. size - 1
  BY DEF OnScreen

\* A text cursor in the grid, or one row below it, is scrolled into the grid.
LEMMA SettleInGrid ==
  ASSUME NEW f, NEW t, NEW X \in 0 .. xGridMax - 1, NEW Y \in 0 .. yGridMax, NEW over,
         Settle(f, t, X, Y, over)
  PROVE  textCursorPos'.X = X /\ textCursorPos'.Y \in 0 .. yGridMax - 1
  BY GridSize DEF Settle

\* The pointer's part of the invariant, and the text cursor's.
LEMMA PacketInBounds ==
  ASSUME CursorsInBounds, NEW packet \in Packets, ProcessMousePacket(packet)
  PROVE  CursorsInBounds'
  <1>1. /\ packet.x \in 0 .. Bytes - 1 /\ packet.y \in 0 .. Bytes - 1
        /\ packet.xNegative \in BOOLEAN /\ packet.xOverflow \in BOOLEAN
        /\ packet.yNegative \in BOOLEAN /\ packet.yOverflow \in BOOLEAN
    BY ScreenAssumption
  <1>. DEFINE dx == Movement(packet.x, packet.xNegative, packet.xOverflow)
              dy == Movement(packet.y, packet.yNegative, packet.yOverflow)
  <1>2. dx \in Int /\ dy \in Int
    BY <1>1, MovementType
  <1>3. /\ MousePosition' = [X |-> OnScreen(MousePosition.X + dx, Width),
                             Y |-> OnScreen(MousePosition.Y - dy, Height)]
        /\ MousePositionOld' = MousePosition'
        /\ UNCHANGED <<textCursorPos, baseXOff>>
    BY DEF ProcessMousePacket, textVars
  <1>. HIDE DEF dx, dy
  <1>4. MousePosition.X + dx \in Int /\ MousePosition.Y - dy \in Int
    BY <1>2 DEF CursorsInBounds
  <1>5. /\ OnScreen(MousePosition.X + dx, Width) \in 0 .. Width - 1
        /\ OnScreen(MousePosition.Y - dy, Height) \in 0 .. Height - 1
    BY <1>4, ScreenSize, OnScreenBounds
  <1>. QED  BY <1>3, <1>5 DEF CursorsInBounds

LEMMA TextInBounds ==
  ASSUME CursorsInBounds, NEW chr, PutChar(chr) \/ NewLine \/ ClearChar
  PROVE  CursorsInBounds'
  <1>1. UNCHANGED <<MousePosition, MousePositionOld, baseXOff>>
    BY DEF PutChar, NewLine, ClearChar, pointerVars
  <1>2. /\ textCursorPos'.X \in baseXOff .. xGridMax - 1
        /\ textCursorPos'.Y \in 0 .. yGridMax - 1
    <2>1. CASE PutChar(chr)
      <3>1. PICK f, t, over :
              IF textCursorPos.X + 2 > xGridMax
              THEN Settle(f, t, baseXOff, textCursorPos.Y + 1, over)
              ELSE Settle(f, t, textCursorPos.X + 1, textCursorPos.Y, over)
        BY <2>1 DEF PutChar
      <3>2. CASE textCursorPos.X + 2 > xGridMax
        <4>1. textCursorPos.Y + 1 \in 0 .. yGridMax /\ baseXOff \in 0 .. xGridMax - 1
          BY GridSize DEF CursorsInBounds
        <4>. QED  BY <3>1, <3>2, <4>1, SettleInGrid, GridSize
      <3>3. CASE ~(textCursorPos.X + 2 > xGridMax)
        <4>1. /\ textCursorPos.X + 1 \in baseXOff .. xGridMax - 1 /\ baseXOff \in Nat
              /\ textCursorPos.X + 1 \in 0 .. xGridMax - 1
              /\ textCursorPos.Y \in 0 .. yGridMax
          BY <3>3, GridSize DEF CursorsInBounds
        <4>. QED  BY <3>1, <3>3, <4>1, SettleInGrid
      <3>. QED  BY <3>2, <3>3
    <2>2. CASE NewLine
      <3>1. /\ textCursorPos.Y + 1 \in 0 .. yGridMax
            /\ baseXOff \in 0 .. xGridMax - 1 /\ baseXOff \in baseXOff .. xGridMax - 1
        BY GridSize DEF CursorsInBounds
      <3>2. Settle(frame, text, baseXOff, textCursorPos.Y + 1, FALSE)
        BY <2>2 DEF NewLine
      <3>. QED  BY <3>1, <3>2, SettleInGrid, GridSize
    <2>3. CASE ClearChar
      BY <2>3, GridSize DEF ClearChar, CursorsInBounds
    <2>. QED  BY <2>1, <2>2, <2>3
  <1>. QED  BY <1>1, <1>2 DEF CursorsInBounds

\* Neither cursor leaves the screen initially, nor by a step.
LEMMA InBoundsInductive ==
  /\ Init => CursorsInBounds
  /\ CursorsInBounds /\ [Next]_vars => CursorsInBounds'
  <1>1. Init => CursorsInBounds
    BY GridSize, ScreenSize, ScreenAssumption DEF Init, Origin, FirstColumn, CursorsInBounds
  <1>2. ASSUME CursorsInBounds, [Next]_vars
        PROVE  CursorsInBounds'
    <2>1. CASE \E chr \in Chars : PutChar(chr) \/ NewLine \/ ClearChar
      BY <1>2, <2>1, TextInBounds
    <2>2. CASE NewLine \/ ClearChar
      BY <1>2, <2>2, TextInBounds
    <2>3. CASE \E c \in Cells : SetCursor(c[1], c[2])
      BY <1>2, <2>3, GridSize DEF Cells, SetCursor, pointerVars, CursorsInBounds
    <2>4. CASE ClearScreen \/ UNCHANGED vars \/ \E c \in FrontColors : SetColor(c)
      BY <1>2, <2>4 DEF ClearScreen, SetColor, vars, textVars, pointerVars, CursorsInBounds
    <2>5. CASE \E packet \in Packets : ProcessMousePacket(packet)
      BY <1>2, <2>5, PacketInBounds
    <2>. QED  BY <1>2, <2>1, <2>2, <2>3, <2>4, <2>5 DEF Next
  <1>. QED  BY <1>1, <1>2

\* For every screen, text and movement of the mouse, what is printed and drawn next has
\* its place in the frame buffer.
THEOREM CursorsCorrect == Spec => []CursorsInBounds
  BY InBoundsInductive, PTL DEF Spec

-----------------------------------------------------------------------------
(* The pointer over the text.                                              *)

Quot(n, d) == n \div d
Rem(n, d) == n % d

\* Division by a whole number of pixels.
LEMMA DivMod ==
  ASSUME NEW n \in Nat, NEW d \in Nat \ {0}
  PROVE  /\ Quot(n, d) \in Nat /\ Rem(n, d) \in 0 .. d - 1
         /\ n = Quot(n, d) * d + Rem(n, d)
  <1>. DEFINE q == n \div d
              r == n % d
  <1>1. q \in Int /\ r \in 0 .. d - 1 /\ n = d * q + r
    OBVIOUS
  <1>. HIDE DEF q, r
  <1>2. q >= 0
    <2>1. CASE q <= 0 - 1
      <3>1. d * q <= d * (0 - 1)
        BY <1>1, <2>1
      <3>. QED  BY <1>1, <3>1
    <2>. QED  BY <1>1, <2>1
  <1>. QED  BY <1>1, <1>2 DEF q, r, Quot, Rem

\* A quotient and a remainder that fit are the quotient and the remainder.
LEMMA DivUnique ==
  ASSUME NEW d \in Nat \ {0}, NEW q \in Nat, NEW r \in 0 .. d - 1
  PROVE  Quot(q * d + r, d) = q /\ Rem(q * d + r, d) = r
  <1>1. q * d + r \in Nat
    OBVIOUS
  <1>. DEFINE a == Quot(q * d + r, d)
              b == Rem(q * d + r, d)
  <1>2. a \in Nat /\ b \in 0 .. d - 1 /\ q * d + r = a * d + b
    BY <1>1, DivMod
  <1>. HIDE DEF a, b
  <1>3. (q - a) * d = b - r /\ b - r < d /\ r - b < d
    BY <1>2
  <1>4. q - a < 1
    <2>1. CASE q - a >= 1
      <3>1. (q - a) * d >= d
        BY <1>2, <2>1
      <3>. QED  BY <1>2, <1>3, <3>1
    <2>. QED  BY <1>2, <2>1
  <1>5. a - q < 1
    <2>1. CASE a - q >= 1
      <3>1. (a - q) * d >= d /\ (a - q) * d = 0 - ((q - a) * d)
        BY <1>2, <2>1
      <3>. QED  BY <1>2, <1>3, <3>1
    <2>. QED  BY <1>2, <2>1
  <1>6. q = a
    BY <1>2, <1>4, <1>5
  <1>. QED  BY <1>2, <1>6 DEF a, b

Columns == 0 .. Width - 1
Rows == 0 .. Height - 1

\* Each visible pixel has a place of its own in the frame buffer.
LEMMA Place ==
  ASSUME NEW x \in Columns, NEW y \in Rows
  PROVE  /\ Index(x, y) \in Memory
         /\ Rem(Index(x, y), PixelsPerScanline) = x
         /\ Quot(Index(x, y), PixelsPerScanline) = y
  <1>1. PICK d \in Nat \ {0} : d = PixelsPerScanline /\ x \in 0 .. d - 1
    BY ScreenAssumption DEF Columns
  <1>2. y \in Nat /\ x \in Nat /\ Height \in Nat /\ y <= Height - 1
    BY ScreenAssumption DEF Rows, Columns
  <1>3. Index(x, y) = y * d + x
    BY <1>1, <1>2 DEF Index
  <1>4. y * d + x \in 0 .. d * Height - 1
    <2>1. y * d <= (Height - 1) * d
      BY <1>1, <1>2
    <2>2. (Height - 1) * d = d * Height - d
      BY <1>1, <1>2
    <2>. QED  BY <1>1, <1>2, <2>1, <2>2
  <1>. QED  BY <1>1, <1>2, <1>3, <1>4, DivUnique DEF Memory

\* What a picture leaves in a visible pixel.
LEMMA DrawnAt ==
  ASSUME NEW f, NEW picture, NEW x \in Columns, NEW y \in Rows
  PROVE  Drawn(f, picture)[Index(x, y)]
           = IF <<x, y>> \in DOMAIN picture THEN picture[<<x, y>>] ELSE f[Index(x, y)]
  <1>1. PICK i \in Memory : i = Index(x, y) /\ Rem(i, PixelsPerScanline) = x
                              /\ Quot(i, PixelsPerScanline) = y
    BY Place
  <1>2. Drawn(f, picture)[i]
          = LET p == <<Rem(i, PixelsPerScanline), Quot(i, PixelsPerScanline)>>
            IN  IF p[1] < Width /\ p \in DOMAIN picture THEN picture[p] ELSE f[i]
    BY DEF Drawn, Rem, Quot
  <1>3. x < Width
    BY ScreenAssumption DEF Columns
  <1>. QED  BY <1>1, <1>2, <1>3

\* The pixels of a cell are those whose places, divided by the font, are the cell's.
LEMMA CellOf ==
  ASSUME NEW x \in Columns, NEW y \in Rows, NEW X \in Nat, NEW Y \in Nat
  PROVE  <<x, y>> \in CellPixels(X, Y) <=> Quot(x, fontWidth) = X /\ Quot(y, fontHeight) = Y
  <1>1. x \in Nat /\ y \in Nat /\ fontWidth \in Nat \ {0} /\ fontHeight \in Nat \ {0}
    BY ScreenAssumption DEF Columns, Rows
  <1>2. ASSUME <<x, y>> \in CellPixels(X, Y)
        PROVE  Quot(x, fontWidth) = X /\ Quot(y, fontHeight) = Y
    <2>1. PICK dx \in 0 .. fontWidth - 1, dy \in 0 .. fontHeight - 1 :
            x = X * fontWidth + dx /\ y = Y * fontHeight + dy
      BY <1>2 DEF CellPixels
    <2>. QED  BY <1>1, <2>1, DivUnique
  <1>3. ASSUME Quot(x, fontWidth) = X, Quot(y, fontHeight) = Y
        PROVE  <<x, y>> \in CellPixels(X, Y)
    <2>1. /\ x = X * fontWidth + Rem(x, fontWidth) /\ Rem(x, fontWidth) \in 0 .. fontWidth - 1
          /\ y = Y * fontHeight + Rem(y, fontHeight) /\ Rem(y, fontHeight) \in 0 .. fontHeight - 1
      BY <1>1, <1>3, DivMod
    <2>. QED  BY <2>1 DEF CellPixels
  <1>. QED  BY <1>2, <1>3

\* The text's colour in a pixel, for a text t.
TextIn(t, x, y) ==
  IF <<Quot(x, fontWidth), Quot(y, fontHeight)>> \in Cells
  THEN CellColor(t[<<Quot(x, fontWidth), Quot(y, fontHeight)>>], <<x, y>>) ELSE ClearColor

LEMMA TextIs == ASSUME NEW x, NEW y PROVE TextAt(<<x, y>>) = TextIn(text, x, y)
  BY DEF TextAt, TextIn, Quot

\* The frame f shows the text t, but for the pointer, under which t is kept.
Clean(f, t) ==
  \A x \in Columns, y \in Rows :
    IF <<x, y>> \in Covered /\ f[Index(x, y)] = CURSOR_COLOR
    THEN Under(<<x, y>>) = TextIn(t, x, y)
    ELSE f[Index(x, y)] = TextIn(t, x, y)

ScreenInv ==
  /\ CursorsInBounds
  /\ DOMAIN text = Cells /\ MouseDrawn \in BOOLEAN
  /\ ~smeared => Clean(frame, text)

LEMMA CellBounds ==
  ASSUME NEW X, NEW Y
  PROVE  <<X, Y>> \in Cells <=> X \in 0 .. xGridMax - 1 /\ Y \in 0 .. yGridMax - 1
  BY DEF Cells

\* Printing a character into a cell, not in the pointer's colour over the pointer.
LEMMA PrintedClean ==
  ASSUME NEW X, NEW Y, <<X, Y>> \in Cells, NEW cell, DOMAIN text = Cells, Clean(frame, text),
         ~PrintedOver(Printed(X, Y, cell))
  PROVE  Clean(Drawn(frame, Printed(X, Y, cell)), [text EXCEPT ![<<X, Y>>] = cell])
  <1>. DEFINE f == Drawn(frame, Printed(X, Y, cell))
              t == [text EXCEPT ![<<X, Y>>] = cell]
  <1>1. X \in Nat /\ Y \in Nat
    BY GridSize, CellBounds
  <1>2. SUFFICES ASSUME NEW x \in Columns, NEW y \in Rows
        PROVE  IF <<x, y>> \in Covered /\ f[Index(x, y)] = CURSOR_COLOR
               THEN Under(<<x, y>>) = TextIn(t, x, y)
               ELSE f[Index(x, y)] = TextIn(t, x, y)
    BY DEF Clean
  <1>3. CASE <<x, y>> \in CellPixels(X, Y)
    <2>1. f[Index(x, y)] = CellColor(cell, <<x, y>>)
      BY <1>3, DrawnAt DEF Printed
    <2>2. TextIn(t, x, y) = CellColor(cell, <<x, y>>)
      BY <1>1, <1>3, CellOf DEF TextIn
    <2>3. ~(<<x, y>> \in Covered /\ CellColor(cell, <<x, y>>) = CURSOR_COLOR)
      BY <1>3 DEF PrintedOver, Printed
    <2>. HIDE DEF f, t
    <2>. QED  BY <2>1, <2>2, <2>3
  <1>4. CASE <<x, y>> \notin CellPixels(X, Y)
    <2>1. f[Index(x, y)] = frame[Index(x, y)]
      BY <1>4, DrawnAt DEF Printed
    <2>2. TextIn(t, x, y) = TextIn(text, x, y)
      <3>1. <<Quot(x, fontWidth), Quot(y, fontHeight)>> # <<X, Y>>
        BY <1>1, <1>4, CellOf
      <3>. QED  BY <3>1 DEF TextIn
    <2>. HIDE DEF f, t
    <2>. QED  BY <2>1, <2>2 DEF Clean
  <1>. QED  BY <1>3, <1>4

\* The rows of text fit into the screen.
LEMMA RowsOfText ==
  /\ yGridMax * fontHeight \in Nat /\ yGridMax * fontHeight <= Height
  /\ fontHeight \in Nat \ {0} /\ Height \in Nat /\ PixelsPerScanline \in Nat \ {0}
  <1>1. /\ fontHeight \in Nat \ {0} /\ Height \in Nat /\ PixelsPerScanline \in Nat \ {0}
        /\ yGridMax = Quot(Height, fontHeight)
    BY ScreenAssumption DEF yGridMax, Quot
  <1>. QED  BY <1>1, DivMod

rowSize == PixelsPerScanline * fontHeight
screenSize == rowSize * yGridMax

\* Where the three parts of a scrolled frame begin.
LEMMA ScrolledPlaces ==
  ASSUME NEW x \in Columns, NEW y \in Rows
  PROVE  LET q == Quot(y, fontHeight)
         IN  /\ q < yGridMax - 1 => Index(x, y) < screenSize - rowSize
             /\ q = yGridMax - 1 =>
                  ~(Index(x, y) < screenSize - rowSize) /\ Index(x, y) < screenSize
             /\ q >= yGridMax =>
                  ~(Index(x, y) < screenSize - rowSize) /\ ~(Index(x, y) < screenSize)
             /\ Index(x, y) + rowSize = Index(x, y + fontHeight)
  <1>0. PICK h \in Nat \ {0}, g \in Nat \ {0}, d \in Nat \ {0} :
          h = fontHeight /\ g = yGridMax /\ d = PixelsPerScanline
    BY RowsOfText, GridSize
  <1>a. PICK q \in Nat, r \in 0 .. h - 1 : q = Quot(y, h) /\ y = q * h + r
    <2>1. y \in Nat
      BY ScreenAssumption DEF Rows
    <2>. QED  BY <2>1, DivMod
  <1>b. rowSize = d * h /\ screenSize = d * h * g
    BY <1>0 DEF rowSize, screenSize
  <1>1. /\ x \in 0 .. d - 1 /\ y \in Nat
    BY <1>0, ScreenAssumption DEF Columns, Rows
  <1>2. Index(x, y) = x + y * d /\ Index(x, y + h) = x + (y + h) * d
    BY <1>0 DEF Index
  <1>3. ASSUME NEW n \in Nat
        PROVE  /\ y < n * h => x + y * d < d * h * n
               /\ y >= n * h => x + y * d >= d * h * n
    <2>1. n * h \in Nat /\ (n * h) * d = d * h * n
      OBVIOUS
    <2>2. CASE y < n * h
      <3>1. (y + 1) * d <= (n * h) * d
        BY <1>1, <2>1, <2>2
      <3>2. (y + 1) * d = y * d + d
        BY <1>1
      <3>. QED  BY <1>1, <2>1, <2>2, <3>1, <3>2
    <2>3. CASE y >= n * h
      <3>1. y * d >= (n * h) * d
        BY <1>1, <2>1, <2>3
      <3>. QED  BY <1>1, <2>1, <2>3, <3>1
    <2>. QED  BY <1>1, <2>1, <2>2, <2>3
  <1>4. d * h * g - d * h = d * h * (g - 1) /\ g - 1 \in Nat
    OBVIOUS
  <1>5. /\ q < g - 1 => y < (g - 1) * h
        /\ q < g => y < g * h
        /\ q >= g - 1 => y >= (g - 1) * h
        /\ q >= g => y >= g * h
    <2>1. ASSUME NEW n \in Nat, q < n PROVE y < n * h
      <3>1. (q + 1) * h <= n * h
        BY <2>1
      <3>. QED  BY <1>a, <2>1, <3>1
    <2>2. ASSUME NEW n \in Nat, q >= n PROVE y >= n * h
      <3>1. q * h >= n * h
        BY <2>2
      <3>. QED  BY <1>a, <2>2, <3>1
    <2>. QED  BY <1>a, <1>4, <2>1, <2>2
  <1>6. /\ y < (g - 1) * h => x + y * d < d * h * (g - 1)
        /\ y < g * h => x + y * d < d * h * g
        /\ y >= (g - 1) * h => x + y * d >= d * h * (g - 1)
        /\ y >= g * h => x + y * d >= d * h * g
    BY <1>3, <1>4
  <1>7. x + y * d + d * h = x + (y + h) * d
    BY <1>1
  <1>8. x + y * d \in Int /\ d * h * (g - 1) \in Int /\ d * h * g \in Int
    BY <1>1
  <1>9. /\ q < g - 1 => Index(x, y) < d * h * g - d * h
        /\ q = g - 1 => ~(Index(x, y) < d * h * g - d * h) /\ Index(x, y) < d * h * g
        /\ q >= g => ~(Index(x, y) < d * h * g - d * h) /\ ~(Index(x, y) < d * h * g)
        /\ Index(x, y) + d * h = Index(x, y + h)
    BY <1>2, <1>4, <1>5, <1>6, <1>7, <1>8
  <1>. QED  BY <1>0, <1>a, <1>b, <1>9

\* Scrolling moves the frame as the text, while there is no pointer.
LEMMA ScrolledClean ==
  ASSUME NEW f, NEW t, Clean(f, t), Covered = {},
         NEW x \in Columns, NEW y \in Rows
  PROVE  ScrolledFrame(f)[Index(x, y)] = TextIn(ScrolledText(t), x, y)
  <1>1. PICK h \in Nat \ {0}, g \in Nat \ {0}, d \in Nat \ {0} :
          h = fontHeight /\ g = yGridMax /\ d = PixelsPerScanline /\ g * h <= Height
    BY RowsOfText, GridSize
  <1>2. y \in Nat /\ Height \in Nat
    BY RowsOfText DEF Rows
  <1>3. PICK q \in Nat, r \in 0 .. h - 1 :
          q = Quot(y, h) /\ r = Rem(y, h) /\ y = q * h + r
    BY <1>2, DivMod
  <1>4. Index(x, y) \in Memory
    BY Place
  <1>5. ScrolledFrame(f)[Index(x, y)]
          = IF Index(x, y) < screenSize - rowSize THEN f[Index(x, y) + rowSize]
            ELSE IF Index(x, y) < screenSize THEN ClearColor ELSE f[Index(x, y)]
    BY <1>4 DEF ScrolledFrame, rowSize, screenSize
  <1>6. /\ q < g - 1 => Index(x, y) < screenSize - rowSize
        /\ q = g - 1 =>
             ~(Index(x, y) < screenSize - rowSize) /\ Index(x, y) < screenSize
        /\ q >= g => ~(Index(x, y) < screenSize - rowSize) /\ ~(Index(x, y) < screenSize)
        /\ Index(x, y) + rowSize = Index(x, y + h)
    BY <1>1, <1>3, ScrolledPlaces
  <1>. DEFINE X == Quot(x, fontWidth)
  <1>7. CASE q < g - 1
    <2>1. y + h \in Rows /\ Quot(y + h, h) = q + 1 /\ Rem(y + h, h) = r
      <3>0. (q + 1) * h = q * h + h /\ q + 1 \in Nat /\ q * h \in Nat
        OBVIOUS
      <3>1. y + h = (q + 1) * h + r
        BY <1>3, <3>0
      <3>2. (q + 2) * h <= g * h
        BY <1>7
      <3>3. y + h < (q + 2) * h
        BY <1>2, <1>3
      <3>4. y + h < Height
        BY <1>1, <1>2, <3>2, <3>3
      <3>5. y + h \in Rows
        BY <1>2, <3>4 DEF Rows
      <3>6. Quot((q + 1) * h + r, h) = q + 1 /\ Rem((q + 1) * h + r, h) = r
        BY <3>0, DivUnique
      <3>. QED  BY <1>3, <3>1, <3>5, <3>6
    <2>2. ScrolledFrame(f)[Index(x, y)] = TextIn(t, x, y + h)
      BY <1>5, <1>6, <1>7, <2>1 DEF Clean
    <2>3. <<X, q>> \in Cells <=> <<X, q + 1>> \in Cells
      BY <1>1, <1>7, CellBounds
    <2>4. <<X, q>> \in Cells => ScrolledText(t)[<<X, q>>] = t[<<X, q + 1>>]
      BY <1>1, <1>7 DEF ScrolledText
    <2>5. ASSUME NEW cell PROVE CellColor(cell, <<x, y + h>>) = CellColor(cell, <<x, y>>)
      BY <1>1, <1>3, <2>1 DEF CellColor, Rem
    <2>. QED  BY <1>1, <1>3, <2>1, <2>2, <2>3, <2>4, <2>5 DEF TextIn
  <1>8. CASE q = g - 1
    <2>1. <<X, q>> \in Cells => ScrolledText(t)[<<X, q>>] = Blank
      BY <1>1, <1>8 DEF ScrolledText
    <2>. QED  BY <1>1, <1>3, <1>5, <1>6, <1>8, <2>1 DEF TextIn, CellColor
  <1>9. CASE q >= g
    <2>1. <<X, q>> \notin Cells
      BY <1>1, <1>9, CellBounds
    <2>. QED  BY <1>1, <1>3, <1>5, <1>6, <1>9, <2>1 DEF TextIn, Clean
  <1>. QED  BY <1>7, <1>8, <1>9

\* A step that leaves the pointer alone keeps what it covers.
LEMMA SameCover ==
  ASSUME UNCHANGED pointerVars
  PROVE  Covered' = Covered /\ MouseDrawn' = MouseDrawn /\ \A p : Under(p)' = Under(p)
  BY DEF pointerVars, Covered, PointerPixels, Under

LEMMA SettleClean ==
  ASSUME NEW f, NEW t, NEW X, NEW Y, NEW over, Settle(f, t, X, Y, over),
         UNCHANGED pointerVars, MouseDrawn \in BOOLEAN, DOMAIN t = Cells,
         ~over => Clean(f, t)
  PROVE  /\ DOMAIN text' = Cells
         /\ ~smeared' => Clean(frame, text)'
  <1>1. CASE Y >= yGridMax
    <2>1. /\ frame' = ScrolledFrame(f) /\ text' = ScrolledText(t)
          /\ smeared' = (over \/ MouseDrawn)
      BY <1>1 DEF Settle
    <2>2. DOMAIN text' = Cells
      BY <2>1 DEF ScrolledText
    <2>3. ASSUME ~smeared' PROVE Clean(frame, text)'
      <3>1. ~over /\ ~MouseDrawn
        BY <2>1, <2>3
      <3>2. Covered = {} /\ Covered' = {}
        BY <3>1, SameCover DEF Covered
      <3>3. ASSUME NEW x \in Columns, NEW y \in Rows
            PROVE  frame'[Index(x, y)] = TextIn(text', x, y)
        BY <2>1, <3>1, <3>2, ScrolledClean
      <3>. QED  BY <3>2, <3>3 DEF Clean, Columns, Rows, Index, TextIn
    <2>. QED  BY <2>2, <2>3
  <1>2. CASE ~(Y >= yGridMax)
    <2>1. frame' = f /\ text' = t /\ smeared' = over
      BY <1>2 DEF Settle
    <2>. QED  BY <2>1, SameCover DEF Clean, TextIn
  <1>. QED  BY <1>1, <1>2

\* What text does to the screen, its pointer left alone.
LEMMA TextClean ==
  ASSUME ScreenInv, NEW chr, PutChar(chr) \/ NewLine \/ ClearChar \/ ClearScreen
  PROVE  DOMAIN text' = Cells /\ (~smeared' => Clean(frame, text)')
  <1>1. ~smeared /\ UNCHANGED pointerVars
    BY DEF PutChar, NewLine, ClearChar, ClearScreen
  <1>2. Clean(frame, text) /\ DOMAIN text = Cells /\ MouseDrawn \in BOOLEAN
    BY <1>1 DEF ScreenInv
  <1>3. <<textCursorPos.X, textCursorPos.Y>> \in Cells
    BY CellBounds DEF ScreenInv, CursorsInBounds
  <1>4. CASE PutChar(chr)
    <2>. DEFINE X == textCursorPos.X
                Y == textCursorPos.Y
                cell == [chr |-> chr, color |-> color]
                picture == Printed(X, Y, cell)
                f == Drawn(frame, picture)
                t == [text EXCEPT ![<<X, Y>>] = cell]
    <2>1. PICK nextX, nextY : Settle(f, t, nextX, nextY, PrintedOver(picture))
      BY <1>4 DEF PutChar
    <2>2. ~PrintedOver(picture) => Clean(f, t)
      BY <1>2, <1>3, PrintedClean
    <2>3. DOMAIN t = Cells
      BY <1>2
    <2>. HIDE DEF X, Y, cell, picture, f, t
    <2>. QED  BY <1>1, <1>2, <2>1, <2>2, <2>3, SettleClean
  <1>5. CASE NewLine
    <2>1. Settle(frame, text, baseXOff, textCursorPos.Y + 1, FALSE)
      BY <1>5 DEF NewLine
    <2>. QED  BY <1>1, <1>2, <2>1, SettleClean
  <1>6. CASE ClearChar
    <2>1. PICK X, Y :
            /\ <<X, Y>> \in Cells /\ frame' = Drawn(frame, Printed(X, Y, Blank))
            /\ text' = [text EXCEPT ![<<X, Y>>] = Blank]
      <3>. DEFINE back == textCursorPos.X <= baseXOff
                  X == (IF back THEN xGridMax ELSE textCursorPos.X) - 1
                  Y == IF back /\ textCursorPos.Y > 0 THEN textCursorPos.Y - 1
                       ELSE textCursorPos.Y
      <3>1. X \in 0 .. xGridMax - 1 /\ Y \in 0 .. yGridMax - 1
        BY GridSize DEF ScreenInv, CursorsInBounds
      <3>2. /\ frame' = Drawn(frame, Printed(X, Y, Blank))
            /\ text' = [text EXCEPT ![<<X, Y>>] = Blank]
        BY <1>6 DEF ClearChar
      <3>. HIDE DEF X, Y
      <3>. QED  BY <3>1, <3>2, CellBounds
    <2>2. ~PrintedOver(Printed(X, Y, Blank))
      BY ScreenAssumption DEF PrintedOver, Printed, CellColor
    <2>3. Clean(Drawn(frame, Printed(X, Y, Blank)), [text EXCEPT ![<<X, Y>>] = Blank])
      BY <1>2, <2>1, <2>2, PrintedClean
    <2>4. Clean(frame', text')
      BY <2>1, <2>3
    <2>. QED  BY <1>1, <1>2, <2>1, <2>4, SameCover DEF Clean, TextIn
  <1>7. CASE ClearScreen
    <2>. DEFINE picture == [p \in (0 .. Width - 1) \X (0 .. Height - 1) |-> ClearColor]
    <2>1. frame' = Drawn(frame, picture) /\ text' = [c \in Cells |-> Blank]
      BY <1>7 DEF ClearScreen
    <2>2. ASSUME NEW x \in Columns, NEW y \in Rows
          PROVE  frame'[Index(x, y)] = ClearColor /\ TextIn(text', x, y) = ClearColor
      <3>1. <<x, y>> \in DOMAIN picture /\ picture[<<x, y>>] = ClearColor
        BY DEF Columns, Rows
      <3>. HIDE DEF picture
      <3>2. frame'[Index(x, y)] = ClearColor
        BY <2>1, <3>1, DrawnAt
      <3>. QED  BY <2>1, <3>2 DEF TextIn, CellColor
    <2>3. ClearColor # CURSOR_COLOR
      BY ScreenAssumption
    <2>. QED  BY <2>1, <2>2, <2>3 DEF Clean, TextIn, Columns, Rows, Index
  <1>. QED  BY <1>4, <1>5, <1>6, <1>7

\* What the pointer covers is put back: the frame is the text's alone.
LEMMA ClearedClean ==
  ASSUME Clean(frame, text), NEW x \in Columns, NEW y \in Rows
  PROVE  ClearMouseCursor(frame)[Index(x, y)] = TextIn(text, x, y)
  <1>. DEFINE picture == [p \in {q \in Covered : frame[Index(q[1], q[2])] = CURSOR_COLOR} |-> Under(p)]
  <1>1. ClearMouseCursor(frame)[Index(x, y)]
          = IF <<x, y>> \in DOMAIN picture THEN picture[<<x, y>>] ELSE frame[Index(x, y)]
    BY DrawnAt DEF ClearMouseCursor
  <1>2. <<x, y>> \in DOMAIN picture
          <=> <<x, y>> \in Covered /\ frame[Index(x, y)] = CURSOR_COLOR
    OBVIOUS
  <1>3. <<x, y>> \in DOMAIN picture => picture[<<x, y>>] = Under(<<x, y>>)
    OBVIOUS
  <1>. HIDE DEF picture
  <1>. QED  BY <1>1, <1>2, <1>3 DEF Clean

\* The pointer drawn over a frame f that shows the text alone keeps what it covers.
LEMMA MovedClean ==
  ASSUME NEW packet, ProcessMousePacket(packet), Clean(frame, text),
         CursorsInBounds'
  PROVE  Clean(frame, text)'
  <1>. DEFINE f == ClearMouseCursor(frame)
              position == MousePosition'
  <1>1. /\ MousePositionOld' = position /\ MouseDrawn' /\ text' = text
        /\ frame' = Drawn(f, [p \in PointerPixels(position) |-> CURSOR_COLOR])
        /\ mouseCursorBuffer' = KeptPixels(f, position)
    BY DEF ProcessMousePacket, textVars
  <1>2. position.X \in Nat /\ position.Y \in Nat
    BY ScreenAssumption DEF CursorsInBounds
  <1>3. Covered' = PointerPixels(position)
    BY <1>1 DEF Covered, PointerPixels
  <1>4. SUFFICES ASSUME NEW x \in Columns, NEW y \in Rows
        PROVE  IF <<x, y>> \in Covered' /\ frame'[Index(x, y)] = CURSOR_COLOR
               THEN Under(<<x, y>>)' = TextIn(text, x, y)
               ELSE frame'[Index(x, y)] = TextIn(text, x, y)
    BY <1>1 DEF Clean, TextIn, Columns, Rows, Index
  <1>5. f[Index(x, y)] = TextIn(text, x, y)
    BY ClearedClean
  <1>. HIDE DEF f, position
  <1>6. frame'[Index(x, y)] = IF <<x, y>> \in PointerPixels(position) THEN CURSOR_COLOR
                              ELSE f[Index(x, y)]
    BY <1>1, DrawnAt
  <1>7. CASE <<x, y>> \in PointerPixels(position)
    <2>1. PICK m \in MousePointer : x = position.X + m[1] /\ y = position.Y + m[2]
      BY <1>7 DEF PointerPixels
    <2>2. m = <<x - position.X, y - position.Y>> /\ x \in Nat /\ y \in Nat
      <3>1. m[1] \in Nat /\ m[2] \in Nat /\ m = <<m[1], m[2]>>
        BY ScreenAssumption
      <3>2. m[1] = x - position.X /\ m[2] = y - position.Y /\ x \in Nat /\ y \in Nat
        BY <1>2, <2>1, <3>1
      <3>. QED  BY <3>1, <3>2
    <2>3. KeptPixels(f, position)[m] = f[Index(x, y)]
      BY <1>7, <2>1 DEF KeptPixels
    <2>4. Under(<<x, y>>)' = KeptPixels(f, position)[m]
      BY <1>1, <2>2 DEF Under
    <2>. QED  BY <1>3, <1>5, <1>6, <1>7, <2>3, <2>4
  <1>8. CASE <<x, y>> \notin PointerPixels(position)
    BY <1>3, <1>5, <1>6, <1>8
  <1>. QED  BY <1>7, <1>8

\* Other steps leave the frame, the text and the pointer.
LEMMA OthersClean ==
  ASSUME ScreenInv, ~smeared' , UNCHANGED <<frame, text, pointerVars, smeared>>
  PROVE  Clean(frame, text)'
  BY SameCover DEF ScreenInv, Clean, TextIn

LEMMA ScreenInvInductive ==
  /\ Init => ScreenInv
  /\ ScreenInv /\ [Next]_vars => ScreenInv'
  <1>1. ASSUME Init PROVE ScreenInv
    <2>1. /\ frame = [i \in Memory |-> ClearColor] /\ text = [c \in Cells |-> Blank]
          /\ MouseDrawn = FALSE
      BY <1>1 DEF Init
    <2>2. ASSUME NEW x \in Columns, NEW y \in Rows
          PROVE  frame[Index(x, y)] = ClearColor /\ TextIn(text, x, y) = ClearColor
      BY <2>1, Place DEF TextIn, CellColor
    <2>3. Covered = {}
      BY <2>1 DEF Covered
    <2>. QED  BY <1>1, <2>1, <2>2, <2>3, InBoundsInductive DEF ScreenInv, Clean
  <1>2. ASSUME ScreenInv, [Next]_vars PROVE ScreenInv'
    <2>1. CursorsInBounds'
      BY <1>2, InBoundsInductive DEF ScreenInv
    <2>2. CASE (\E chr \in Chars : PutChar(chr)) \/ NewLine \/ ClearChar \/ ClearScreen
      <3>1. UNCHANGED pointerVars
        BY <2>2 DEF PutChar, NewLine, ClearChar, ClearScreen
      <3>2. MouseDrawn' \in BOOLEAN
        BY <1>2, <3>1 DEF ScreenInv, pointerVars
      <3>. QED  BY <1>2, <2>1, <2>2, <3>2, TextClean DEF ScreenInv
    <2>3. CASE \/ \E c \in Cells : SetCursor(c[1], c[2])
               \/ \E c \in FrontColors : SetColor(c)
               \/ UNCHANGED vars
      <3>1. UNCHANGED <<frame, text, pointerVars, smeared>>
        BY <2>3 DEF SetCursor, SetColor, vars, textVars
      <3>2. DOMAIN text' = Cells /\ MouseDrawn' \in BOOLEAN
        BY <1>2, <3>1 DEF ScreenInv, pointerVars
      <3>. QED  BY <1>2, <2>1, <3>1, <3>2, OthersClean DEF ScreenInv
    <2>4. CASE \E packet \in Packets : ProcessMousePacket(packet)
      <3>1. PICK packet \in Packets : ProcessMousePacket(packet)
        BY <2>4
      <3>2. ~smeared /\ text' = text /\ MouseDrawn' = TRUE
        BY <3>1 DEF ProcessMousePacket, textVars
      <3>3. Clean(frame, text)'
        BY <1>2, <2>1, <3>1, <3>2, MovedClean DEF ScreenInv
      <3>. QED  BY <1>2, <2>1, <3>2, <3>3 DEF ScreenInv
    <2>. QED  BY <1>2, <2>2, <2>3, <2>4 DEF Next
  <1>. QED  BY <1>1, <1>2

\* However printing, erasing, scrolling and moving alternate, every visible pixel shows
\* the text, or the pointer over a kept pixel of it, unless the pointer was scrolled
\* itself or printed over in its own colour.
THEOREM PointerTraceless == Spec => []PointerLeavesNoTrace
  <1>1. ASSUME ScreenInv PROVE PointerLeavesNoTrace
    <2>1. SUFFICES ASSUME ~smeared, NEW x \in Columns, NEW y \in Rows
          PROVE  \/ frame[Index(x, y)] = TextAt(<<x, y>>)
                 \/ /\ <<x, y>> \in Covered /\ frame[Index(x, y)] = CURSOR_COLOR
                    /\ Under(<<x, y>>) = TextAt(<<x, y>>)
      BY DEF PointerLeavesNoTrace, Columns, Rows
    <2>. QED  BY <1>1, <2>1, TextIs DEF ScreenInv, Clean
  <1>. QED  BY <1>1, ScreenInvInductive, PTL DEF Spec

\* 256 - byte, stored in a byte again, is the movement's size, but for the byte 0.
LEMMA MovementIs ==
  ASSUME NEW byte \in 0 .. Bytes - 1, NEW negative \in BOOLEAN, NEW overflow \in BOOLEAN,
         ~overflow
  PROVE  Movement(byte, negative, overflow) = IF byte = 0 THEN 0 ELSE Signed(byte, negative)
  <1>1. PICK d \in Nat \ {0} : d = Bytes
    BY ScreenAssumption
  <1>2. Movement(byte, negative, overflow) = IF negative THEN 0 - Rem(d - byte, d) ELSE byte
    <2>1. Rem(d - byte, d) \in Int
      BY <1>1 DEF Rem
    <2>. QED  BY <1>1, <2>1 DEF Movement, Rem
  <1>3. CASE byte = 0
    <2>1. Rem(1 * d + 0, d) = 0
      BY DivUnique
    <2>2. 1 * d + 0 = d - byte
      BY <1>3
    <2>3. Rem(d - byte, d) = 0
      BY <2>1, <2>2
    <2>. QED  BY <1>2, <1>3, <2>3
  <1>4. CASE byte # 0
    <2>1. d - byte \in 0 .. d - 1 /\ byte \in Int
      BY <1>1, <1>4
    <2>2. Rem(0 * d + (d - byte), d) = d - byte
      BY <2>1, DivUnique
    <2>3. 0 * d + (d - byte) = d - byte
      BY <2>1
    <2>4. Rem(d - byte, d) = d - byte
      BY <2>2, <2>3
    <2>. QED  BY <1>1, <1>2, <1>4, <2>1, <2>4 DEF Signed
  <1>. QED  BY <1>3, <1>4

\* For every width of a byte and every packet without overflow, the pointer moves by
\* the two signed movements of ProcessMousePacket as far as the screen goes, but for the
\* most negative one.
THEOREM PointerMoves == Spec => PointerFollowsMouse
  <1>. DEFINE Follows(packet) ==
         LET dx == IF packet.x = 0 THEN 0 ELSE Signed(packet.x, packet.xNegative)
             dy == IF packet.y = 0 THEN 0 ELSE Signed(packet.y, packet.yNegative)
         IN  /\ MousePosition'.X = OnScreen(MousePosition.X + dx, Width)
             /\ MousePosition'.Y = OnScreen(MousePosition.Y - dy, Height)
  <1>1. ASSUME NEW packet \in Packets, ProcessMousePacket(packet),
               ~packet.xOverflow, ~packet.yOverflow
        PROVE  Follows(packet)
    <2>1. /\ packet.x \in 0 .. Bytes - 1 /\ packet.y \in 0 .. Bytes - 1
          /\ packet.xNegative \in BOOLEAN /\ packet.yNegative \in BOOLEAN
          /\ packet.xOverflow \in BOOLEAN /\ packet.yOverflow \in BOOLEAN
          /\ ~packet.xOverflow /\ ~packet.yOverflow
      BY <1>1, ScreenAssumption
    <2>2. /\ Movement(packet.x, packet.xNegative, packet.xOverflow)
               = IF packet.x = 0 THEN 0 ELSE Signed(packet.x, packet.xNegative)
          /\ Movement(packet.y, packet.yNegative, packet.yOverflow)
               = IF packet.y = 0 THEN 0 ELSE Signed(packet.y, packet.yNegative)
      BY <2>1, MovementIs
    <2>. QED  BY <1>1, <2>2 DEF ProcessMousePacket
  <1>2. Next => \A packet \in Packets :
          ProcessMousePacket(packet) /\ ~packet.xOverflow /\ ~packet.yOverflow => Follows(packet)
    BY <1>1
  <1>3. [Next]_vars =>
          [\A packet \in Packets :
             ProcessMousePacket(packet) /\ ~packet.xOverflow /\ ~packet.yOverflow =>
               LET dx == IF packet.x = 0 THEN 0 ELSE Signed(packet.x, packet.xNegative)
                   dy == IF packet.y = 0 THEN 0 ELSE Signed(packet.y, packet.yNegative)
               IN  /\ MousePosition'.X = OnScreen(MousePosition.X + dx, Width)
                   /\ MousePosition'.Y = OnScreen(MousePosition.Y - dy, Height)]_vars
    BY <1>2
  <1>. QED  BY <1>3, PTL DEF Spec, PointerFollowsMouse
=============================================================================
