--------------------------- MODULE PS2Input_proofs ---------------------------
(* That no request of the PS/2 devices is lost, that settled handlers stay    *)
(* settled, and that packets and keys arrive whole and in order, for any      *)
(* number of movements and of keys pressed, and every interleaving of boot,   *)
(* controller and interrupts.                                                 *)
EXTENDS PS2Input, SequenceTheorems, TLAPS

-----------------------------------------------------------------------------
(* The program: 34 instructions.                                           *)

\* The program, with what its instructions without a value have there.
ProgramWith(none) ==
  LET wait == <<[op |-> "MouseWait", value |-> none]>>
      waitInput == <<[op |-> "MouseWaitInput", value |-> none]>>
      write(value) == wait \o Outb("0x64", "D4") \o wait \o Outb("0x60", value)
      read == waitInput \o Inb(none)
  IN  (Outb("0x64", "A8") \o wait
       \o Outb("0x64", "20") \o waitInput \o Inb("status")
       \o wait \o Outb("0x64", "60") \o wait \o Outb("0x60", "status")
       \o write("F6") \o read \o write("F3") \o read \o write("C8") \o read
       \o write("F4") \o read)
      \o <<[op |-> "sti", value |-> none]>>

\* The program, its instructions without a value written with that operator's argument.
LEMMA ProgramIsWith == Program = ProgramWith("")
  BY Zenon DEF Program, ProgramWith, InitPS2Mouse, MouseWrite, MouseRead, Sti, MouseWait,
               MouseWaitInput, Inb

\* What each instruction is, and where each operation stands.
Instructions(program) ==
  /\ Len(program) = 34
  /\ program[1] = [op |-> "0x64", value |-> "A8"]
  /\ program[3] = [op |-> "0x64", value |-> "20"]
  /\ program[5] = [op |-> "inb", value |-> "status"]
  /\ program[7] = [op |-> "0x64", value |-> "60"]
  /\ program[9] = [op |-> "0x60", value |-> "status"]
  /\ program[13] = [op |-> "0x60", value |-> "F6"]
  /\ program[19] = [op |-> "0x60", value |-> "F3"]
  /\ program[25] = [op |-> "0x60", value |-> "C8"]
  /\ program[31] = [op |-> "0x60", value |-> "F4"]
  /\ \A i \in {11, 17, 23, 29} : program[i] = [op |-> "0x64", value |-> "D4"]
  /\ \A i \in {15, 21, 27, 33} : program[i].op = "inb"
  /\ \A i \in {2, 6, 8, 10, 12, 16, 18, 22, 24, 28, 30} : program[i].op = "MouseWait"
  /\ \A i \in {4, 14, 20, 26, 32} : program[i].op = "MouseWaitInput"
  /\ program[34].op = "sti"

\* What the 34 instructions are, whatever stands for no value.
LEMMA ProgramWithIs ==
  ASSUME NEW none
  PROVE  Instructions(ProgramWith(none))
  <1>. DEFINE program == ProgramWith(none)
  <1>. USE DEF ProgramWith, Inb, Outb
  <1>1. Len(program) = 34
    OBVIOUS
  <1>2. /\ program[1] = [op |-> "0x64", value |-> "A8"]
        /\ program[3] = [op |-> "0x64", value |-> "20"]
        /\ program[5] = [op |-> "inb", value |-> "status"]
        /\ program[7] = [op |-> "0x64", value |-> "60"]
        /\ program[9] = [op |-> "0x60", value |-> "status"]
    OBVIOUS
  <1>3. /\ program[13] = [op |-> "0x60", value |-> "F6"]
        /\ program[19] = [op |-> "0x60", value |-> "F3"]
        /\ program[25] = [op |-> "0x60", value |-> "C8"]
        /\ program[31] = [op |-> "0x60", value |-> "F4"]
    OBVIOUS
  <1>4. /\ program[11] = [op |-> "0x64", value |-> "D4"]
        /\ program[17] = [op |-> "0x64", value |-> "D4"]
        /\ program[23] = [op |-> "0x64", value |-> "D4"]
        /\ program[29] = [op |-> "0x64", value |-> "D4"]
    OBVIOUS
  <1>5. /\ program[15].op = "inb" /\ program[21].op = "inb"
        /\ program[27].op = "inb" /\ program[33].op = "inb"
        /\ program[34].op = "sti"
    OBVIOUS
  <1>6. /\ program[2].op = "MouseWait" /\ program[6].op = "MouseWait"
        /\ program[8].op = "MouseWait" /\ program[10].op = "MouseWait"
        /\ program[12].op = "MouseWait" /\ program[16].op = "MouseWait"
        /\ program[18].op = "MouseWait" /\ program[22].op = "MouseWait"
        /\ program[24].op = "MouseWait" /\ program[28].op = "MouseWait"
        /\ program[30].op = "MouseWait"
    OBVIOUS
  <1>7. /\ program[4].op = "MouseWaitInput" /\ program[14].op = "MouseWaitInput"
        /\ program[20].op = "MouseWaitInput" /\ program[26].op = "MouseWaitInput"
        /\ program[32].op = "MouseWaitInput"
    OBVIOUS
  <1>. HIDE DEF program, ProgramWith, Inb, Outb
  <1>. QED  BY <1>1, <1>2, <1>3, <1>4, <1>5, <1>6, <1>7 DEF Instructions, program

\* The same of the program of kernel.cpp.
LEMMA ProgramIs == Instructions(Program)
  <1>1. \A none : Instructions(ProgramWith(none))
    BY ProgramWithIs
  <1>. QED  BY <1>1, ProgramIsWith, Zenon

\* At which positions each operation is reached.
LEMMA Places ==
  ASSUME NEW i \in 1 .. 34
  PROVE  /\ Program[i].op = "MouseWait" => i \in {2, 6, 8, 10, 12, 16, 18, 22, 24, 28, 30}
         /\ Program[i].op = "MouseWaitInput" => i \in {4, 14, 20, 26, 32}
         /\ Program[i].op = "0x64" => i \in {1, 3, 7, 11, 17, 23, 29}
         /\ Program[i].op = "0x60" => i \in {9, 13, 19, 25, 31}
         /\ Program[i].op = "inb" => i \in {5, 15, 21, 27, 33}
         /\ Program[i].op = "sti" => i = 34
  BY ProgramIs DEF Instructions
-----------------------------------------------------------------------------
(* Types.                                                                  *)

Nothing == ""
Whats == {Nothing, "status", "ack", "head", "dx", "dy", "LeftShift", "RightShift", "Escape"}
AnyByte == [what : Whats, flag : BOOLEAN]

Orders ==
  [op : {"0x64"}, value : {"A8", "20", "60", "D4"}]
    \cup [op : {"0x60"}, value : {"status", "F6", "F3", "C8", "F4"}]

Controllers ==
  [in : {<<>>} \cup {<<order>> : order \in Orders},
   next : {"keyboard", "status", "mouse"},
   irqs : SUBSET {1, 12}, on : SUBSET {"keyboard", "mouse"},
   reply : BOOLEAN, full : BOOLEAN, out : AnyByte]

Kernels ==
  [ip : 1 .. 35, status : AnyByte, skip : BOOLEAN, mouseCycle : 0 .. 2,
   mousePacket : [1 .. 3 -> Whats], mousePacketReady : BOOLEAN, shown : Nat,
   shift : SUBSET Shifts, off : BOOLEAN]

PicType == pic \in [irr : SUBSET {1, 12}, isr : SUBSET {1, 2, 12}]
MouseType == mouse \in [queue : Seq(AnyByte), reporting : BOOLEAN, count : Nat]
KeyboardType == keyboard \in [queue : Seq(AnyByte), down : SUBSET Keys, count : Nat]
HandlerType ==
  handler \in [irq : {0, 1, 12}, data : {<<>>} \cup {<<byte>> : byte \in AnyByte}]

Typed ==
  /\ controller \in Controllers /\ kernel \in Kernels /\ disturbed \in BOOLEAN
  /\ PicType /\ MouseType /\ KeyboardType /\ HandlerType

-----------------------------------------------------------------------------
(* The requests.                                                           *)

\* While the program runs nothing is handled; then nothing but the last command for
\* the mouse can still wait for the controller.
Phases ==
  /\ kernel.ip <= 34 => handler = NoHandler /\ ~kernel.off
  /\ kernel.ip >= 32 /\ Written => controller.in = <<Program[31]>>
  /\ kernel.off => handler.irq = 1 /\ handler.data # <<>>
  /\ handler.irq = 0 => handler.data = <<>>

\* From the first byte that is read on.
Requested == kernel.ip > 5 => Lines(controller) \subseteq Requests

-----------------------------------------------------------------------------
(* The undisturbed kernel.                                                 *)

StatusByte == Byte("status", FALSE)
AckByte == Byte("ack", TRUE)

\* No device was used.
Untouched ==
  /\ keyboard.queue = <<>> /\ keyboard.down = {} /\ mouse.count = 0
  /\ kernel.shift = {} /\ kernel.mouseCycle = 0 /\ ~kernel.mousePacketReady
  /\ kernel.shown = 0 /\ ~kernel.off

Empty == ~controller.full /\ ~controller.reply /\ mouse.queue = <<>>

\* The status was asked for: the command, the reply the controller owes, or the
\* byte in the buffer.
StatusComes ==
  /\ mouse.queue = <<>>
  /\ \/ Written /\ ~controller.reply /\ ~controller.full
     \/ ~Written /\ controller.reply /\ ~controller.full
     \/ ~Written /\ ~controller.reply /\ controller.full /\ controller.out = StatusByte

\* The mouse was told something: the command, its answer, or the byte in the buffer.
AckComes ==
  /\ ~controller.reply
  /\ \/ Written /\ controller.next = "mouse" /\ ~controller.full /\ mouse.queue = <<>>
     \/ ~Written /\ ~controller.full /\ mouse.queue = <<AckByte>>
     \/ ~Written /\ controller.full /\ controller.out = AckByte /\ mouse.queue = <<>>

\* Where in the program each of these holds.
WaitsForStatus == {4, 5}
WaitsForAck == {14, 15, 20, 21, 26, 27, 32, 33}
Prefixed == {12, 13, 18, 19, 24, 25, 30, 31}

\* The last instruction that wrote is the one before, if the controller did not take
\* it; after a wait it did.
Ordered ==
  /\ Written => kernel.ip > 1 /\ controller.in = <<Program[kernel.ip - 1]>>
  /\ Written => kernel.ip \in {2, 4, 8, 10, 12, 14, 18, 20, 24, 26, 30, 32}

\* The mouse is switched on, and the status read is the one the controller gave.
Configured ==
  /\ "mouse" \in controller.on \/ kernel.ip = 1 \/ (kernel.ip = 2 /\ Written)
  /\ kernel.ip \in 6 .. 10 => kernel.status = StatusByte

\* What each answer is, and that it came when it is read.
Answered ==
  /\ kernel.ip \in {5, 15, 21, 27, 33} => controller.full
  /\ kernel.ip = 34 => controller.out = AckByte
  /\ kernel.ip \in WaitsForStatus => StatusComes
  /\ kernel.ip \in WaitsForAck => AckComes
  /\ kernel.ip \notin WaitsForStatus \cup WaitsForAck => Empty

\* For whom the next byte is.
Directed ==
  /\ kernel.ip \in {8, 9} => Written \/ controller.next = "status"
  /\ kernel.ip = 10 /\ Written => controller.next = "status"
  /\ kernel.ip \in Prefixed => Written \/ controller.next = "mouse"

Boot ==
  /\ kernel.ip <= 34 /\ handler = NoHandler /\ kernel.skip /\ Untouched
  /\ Ordered /\ Configured /\ Answered /\ Directed

\* The boot's requests, whose bytes were polled, are served: their handlers read the
\* last acknowledgement once more.
Stale ==
  /\ kernel.ip = 35 /\ kernel.skip /\ Untouched /\ Empty /\ ~Written
  /\ controller.out = AckByte
  /\ handler.data = <<>> \/ handler.data = <<AckByte>>
  /\ handler.irq = 12 => pic.irr = {}

\* The place in a packet of the byte after place n.
After(n) == IF n = 2 THEN 0 ELSE n + 1

Holds(irq) == handler.irq = irq /\ handler.data # <<>>
Offers(irq) == controller.full /\ IRQ(controller.out) = irq

\* The place of the next byte for the output buffer and for the handler.
LoadPlace == IF Holds(12) THEN After(kernel.mouseCycle) ELSE kernel.mouseCycle
SendPlace == IF Offers(12) THEN After(LoadPlace) ELSE LoadPlace

\* Byte b is the one at place n.
Fits(b, n) == b.what = Packet[n + 1] /\ (n = 0 => b.flag)

\* What the mouse still has to send goes on where the byte before ended.
QueueFits ==
  \/ SendPlace = 0 /\ mouse.queue = <<>>
  \/ \E bit3 \in BOOLEAN :
       \/ SendPlace = 0 /\ mouse.queue = <<Byte("head", TRUE), Byte("dx", bit3), Byte("dy", bit3)>>
       \/ SendPlace = 1 /\ mouse.queue = <<Byte("dx", bit3), Byte("dy", bit3)>>
       \/ SendPlace = 2 /\ mouse.queue = <<Byte("dy", bit3)>>

One(condition) == IF condition THEN 1 ELSE 0

\* Every packet is shown, or its last byte is on its way.
MouseFlow ==
  /\ Holds(12) => Fits(handler.data[1], kernel.mouseCycle)
  /\ Offers(12) => Fits(controller.out, LoadPlace)
  /\ QueueFits
  /\ \A i \in 1 .. kernel.mouseCycle : kernel.mousePacket[i] = Packet[i]
  /\ kernel.mousePacketReady => kernel.mouseCycle = 0 /\ kernel.mousePacket = Packet
  /\ kernel.mouseCycle = 0 /\ ~kernel.mousePacketReady => kernel.shown = 0
  /\ mouse.count = kernel.shown + One(kernel.mousePacketReady)
                    + One(Holds(12) /\ kernel.mouseCycle = 2)
                    + One(Offers(12) /\ LoadPlace = 2) + One(mouse.queue # <<>>)

KeyByte(b) == b.what \in Keys

\* What the kernel will know of the shift keys.
Known(shift, b) ==
  IF b.what \notin Shifts THEN shift
  ELSE IF b.flag THEN shift \cup {b.what} ELSE shift \ {b.what}

KnownByHandler == IF Holds(1) THEN Known(kernel.shift, handler.data[1]) ELSE kernel.shift
KnownByBuffer == IF Offers(1) THEN Known(KnownByHandler, controller.out) ELSE KnownByHandler

\* The last byte of queue about key tells whether it is down; with none, known does.
Told(queue, known, key) ==
  /\ \A i \in 1 .. Len(queue) :
       queue[i].what = key /\ (\A j \in 1 .. Len(queue) : j > i => queue[j].what # key)
         => (queue[i].flag <=> key \in keyboard.down)
  /\ (\A i \in 1 .. Len(queue) : queue[i].what # key) => (key \in known <=> key \in keyboard.down)

KeyFlow ==
  /\ Holds(1) => KeyByte(handler.data[1])
  /\ Offers(1) => KeyByte(controller.out)
  /\ \A i \in 1 .. Len(keyboard.queue) : KeyByte(keyboard.queue[i])
  /\ \A key \in Shifts : Told(keyboard.queue, KnownByBuffer, key)

Flow == Settled /\ ~Written /\ ~controller.reply /\ MouseFlow /\ KeyFlow

Off == kernel.off /\ (kernel.mousePacketReady => kernel.mousePacket = Packet)

Undisturbed == ~disturbed => Boot \/ Stale \/ Flow \/ Off

\* The byte that stands for none is a byte.
LEMMA NoByteType == NoByte \in AnyByte /\ Nothing \in Whats
  <1>1. \A none : Byte(none, FALSE) \in [what : {none}, flag : BOOLEAN]
    BY DEF Byte
  <1>2. NoByte \in [what : {Nothing}, flag : BOOLEAN]
    BY <1>1, Zenon DEF NoByte, Nothing
  <1>3. Nothing \in Whats
    BY DEF Whats
  <1>. QED  BY <1>2, <1>3 DEF AnyByte

\* Bytes are bytes.
LEMMA ByteType ==
  ASSUME NEW what \in Whats, NEW flag \in BOOLEAN
  PROVE  Byte(what, flag) \in AnyByte /\ Byte(what, flag).what = what /\ Byte(what, flag).flag = flag
  BY DEF Byte, AnyByte

\* Every byte raises one of the two requests.
LEMMA IRQType == ASSUME NEW b PROVE IRQ(b) \in {1, 12}
  BY DEF IRQ

\* The keys the model presses are among the kinds of byte.
LEMMA KeysType == Keys \subseteq Whats /\ \A key \in Keys : key \in {"LeftShift", "RightShift", "Escape"}
  BY InputAssumption DEF Whats

\* What the kernel writes is an order.
LEMMA OrdersWritten ==
  ASSUME NEW i \in 1 .. 34, Program[i].op \in {"0x64", "0x60"}
  PROVE  Program[i] \in Orders
  BY Places, ProgramIs DEF Instructions, Orders

\* The initial state, whose texts without letters the SMT solver does not read.
Initial(packet) ==
  /\ \E byte \in {Byte("status", FALSE)} \cup {Byte(key, FALSE) : key \in Keys} :
       /\ disturbed = (byte.what # "status")
       /\ controller = [in |-> <<>>, next |-> "keyboard", irqs |-> {1}, on |-> {"keyboard"},
                        reply |-> FALSE, full |-> disturbed, out |-> byte]
  /\ pic = [irr |-> {}, isr |-> {}]
  /\ mouse = [queue |-> <<>>, reporting |-> FALSE, count |-> 0]
  /\ keyboard = [queue |-> <<>>, down |-> {}, count |-> 0]
  /\ kernel = [ip |-> 1, status |-> NoByte, skip |-> TRUE, mouseCycle |-> 0,
               mousePacket |-> packet, mousePacketReady |-> FALSE, shown |-> 0,
               shift |-> {}, off |-> FALSE]
  /\ handler = NoHandler

\* The initial states, the packet the kernel starts with named.
LEMMA InitIs ==
  ASSUME Init
  PROVE  \E packet \in [1 .. 3 -> Whats] : Initial(packet)
  <1>1. \A none : <<none, none, none>> \in [1 .. 3 -> {none}]
    OBVIOUS
  <1>2. <<"", "", "">> \in [1 .. 3 -> {Nothing}]
    BY <1>1, Zenon DEF Nothing
  <1>3. [1 .. 3 -> {Nothing}] \subseteq [1 .. 3 -> Whats]
    BY NoByteType
  <1>4. Initial(<<"", "", "">>)
    BY Zenon DEF Init, Initial
  <1>5. <<"", "", "">> \in [1 .. 3 -> Whats]
    BY <1>2, <1>3, Zenon
  <1>. QED  BY <1>4, <1>5, Zenon

\* The initial states are well typed.
LEMMA InitTyped == ASSUME Init PROVE Typed
  <1>1. PICK packet \in [1 .. 3 -> Whats] : Initial(packet)
    BY InitIs
  <1>2. PICK byte \in {Byte("status", FALSE)} \cup {Byte(key, FALSE) : key \in Keys} :
          /\ disturbed = (byte.what # "status")
          /\ controller = [in |-> <<>>, next |-> "keyboard", irqs |-> {1}, on |-> {"keyboard"},
                           reply |-> FALSE, full |-> disturbed, out |-> byte]
    BY <1>1 DEF Initial
  <1>3. byte \in AnyByte
    <2>1. "status" \in Whats /\ FALSE \in BOOLEAN
      BY DEF Whats
    <2>2. CASE byte = Byte("status", FALSE)
      BY <2>1, <2>2, ByteType
    <2>3. ASSUME NEW key \in Keys, byte = Byte(key, FALSE) PROVE byte \in AnyByte
      <3>1. key \in Whats
        BY KeysType
      <3>. QED  BY <2>1, <2>3, <3>1, ByteType
    <2>. QED  BY <2>2, <2>3
  <1>4. disturbed \in BOOLEAN
    BY <1>2
  <1>5. controller \in Controllers
    BY <1>2, <1>3, <1>4 DEF Controllers
  <1>6. kernel \in Kernels
    BY <1>1, NoByteType DEF Initial, Kernels
  <1>. QED  BY <1>1, <1>4, <1>5, <1>6
            DEF Initial, Typed, PicType, MouseType, KeyboardType, HandlerType, NoHandler

\* What a step may do to the controller: its requests stay in their set.
LEMMA BecomesTyped ==
  ASSUME Typed, NEW c \in Controllers, ControllerBecomes(c)
  PROVE  /\ controller' = c /\ controller' \in Controllers
         /\ PicType' /\ pic'.isr = pic.isr
         /\ pic'.irr = pic.irr \cup (Lines(c) \ Lines(controller))
  <1>1. Lines(c) \subseteq {1, 12}
    BY IRQType DEF Lines
  <1>. QED  BY <1>1 DEF Typed, PicType, ControllerBecomes

\* An order that was written and is pending is the one order of the input buffer.
LEMMA Pending ==
  ASSUME Typed, Written
  PROVE  \E order \in Orders : controller.in = <<order>> /\ controller.in[1] = order
  BY DEF Typed, Controllers, Written

\* The controller takes a command.
LEMMA CommandEffect ==
  ASSUME Typed, AcceptCommand
  PROVE  \E order \in Orders, c \in Controllers :
           /\ controller.in = <<order>> /\ order.op = "0x64"
           /\ ControllerBecomes(c) /\ c.in = <<>>
           /\ c.irqs = controller.irqs /\ c.full = controller.full /\ c.out = controller.out
           /\ c.on = IF order.value = "A8" THEN controller.on \cup {"mouse"} ELSE controller.on
           /\ c.reply <=> controller.reply \/ order.value = "20"
           /\ order.value = "60" => c.next = "status"
           /\ order.value = "D4" => c.next = "mouse"
  <1>1. PICK order \in Orders : controller.in = <<order>> /\ controller.in[1] = order
    BY Pending DEF AcceptCommand
  <1>2. order.op = "0x64" /\ order.value \in {"A8", "20", "60", "D4"}
    BY <1>1 DEF AcceptCommand, Orders
  <1>. DEFINE c == CASE order.value = "A8" -> [Consumed("keyboard") EXCEPT !.on = @ \cup {"mouse"}]
                     [] order.value = "20" -> [Consumed("keyboard") EXCEPT !.reply = TRUE]
                     [] order.value = "60" -> Consumed("status")
                     [] order.value = "D4" -> Consumed("mouse")
  <1>3. ControllerBecomes(c)
    BY <1>1 DEF AcceptCommand
  <1>4. controller \in Controllers
    BY DEF Typed
  <1>5. /\ c \in Controllers /\ c.in = <<>>
        /\ c.irqs = controller.irqs /\ c.full = controller.full /\ c.out = controller.out
        /\ c.on = IF order.value = "A8" THEN controller.on \cup {"mouse"} ELSE controller.on
        /\ c.reply <=> controller.reply \/ order.value = "20"
        /\ order.value = "60" => c.next = "status"
        /\ order.value = "D4" => c.next = "mouse"
    <2>1. CASE order.value = "A8"
      BY <2>1, <1>4 DEF Controllers, Consumed
    <2>2. CASE order.value = "20"
      BY <2>2, <1>4 DEF Controllers, Consumed
    <2>3. CASE order.value = "60"
      BY <2>3, <1>4 DEF Controllers, Consumed
    <2>4. CASE order.value = "D4"
      BY <2>4, <1>4 DEF Controllers, Consumed
    <2>. QED  BY <1>2, <2>1, <2>2, <2>3, <2>4
  <1>. HIDE DEF c
  <1>. QED  BY <1>1, <1>2, <1>3, <1>5

\* An acknowledgement comes from the mouse.
LEMMA AckIs == AckByte \in AnyByte /\ AckByte.what = "ack" /\ IRQ(AckByte) = 12
  BY ByteType DEF AckByte, Whats, IRQ

\* The controller's status comes with the keyboard's request.
LEMMA StatusIs == StatusByte \in AnyByte /\ StatusByte.what = "status" /\ IRQ(StatusByte) = 1
  BY ByteType DEF StatusByte, Whats, IRQ

\* The controller takes a byte.
LEMMA DataEffect ==
  ASSUME Typed, AcceptData
  PROVE  \E order \in Orders, c \in Controllers :
           /\ controller.in = <<order>> /\ order.op = "0x60"
           /\ ControllerBecomes(c) /\ c.in = <<>>
           /\ c.full = controller.full /\ c.out = controller.out /\ c.reply = controller.reply
           /\ order.value # "status" => c.irqs = controller.irqs
           /\ order.value # "status" \/ kernel.status = StatusByte => c.on = controller.on
           /\ mouse'.count = mouse.count
           /\ mouse' = mouse \/ mouse'.queue = Append(mouse.queue, AckByte)
           /\ controller.next # "mouse" => mouse' = mouse
           /\ controller.next = "mouse" /\ "mouse" \in controller.on
                => mouse'.queue = Append(mouse.queue, AckByte)
           /\ MouseType'
  <1>1. PICK order \in Orders : controller.in = <<order>> /\ controller.in[1] = order
    BY Pending DEF AcceptData
  <1>. DEFINE status == controller.next = "status" /\ order.value = "status"
              command == controller.next = "mouse" /\ "mouse" \in controller.on
              d == Consumed("keyboard")
              c == IF status THEN [d EXCEPT !.irqs = IRQsOf(kernel.status, d) \cup {12},
                                            !.on = DevicesOf(kernel.status, d)]
                             ELSE d
  <1>2. /\ order.op = "0x60" /\ ControllerBecomes(c)
        /\ mouse' = IF command
                    THEN [mouse EXCEPT !.queue = Append(@, AckByte),
                                       !.reporting = @ \/ order.value = "F4"]
                    ELSE mouse
    BY <1>1 DEF AcceptData, AckByte
  <1>3. /\ controller \in Controllers /\ kernel.status \in AnyByte
        /\ mouse \in [queue : Seq(AnyByte), reporting : BOOLEAN, count : Nat]
    BY DEF Typed, Kernels, MouseType
  <1>4. /\ d \in Controllers /\ d.in = <<>> /\ d.irqs = controller.irqs /\ d.on = controller.on
        /\ d.full = controller.full /\ d.out = controller.out /\ d.reply = controller.reply
    BY <1>3 DEF Controllers, Consumed
  <1>5. IRQsOf(kernel.status, d) \subseteq {1, 12}
    BY <1>4 DEF IRQsOf, Controllers
  <1>6. /\ DevicesOf(kernel.status, d) \subseteq {"keyboard", "mouse"}
        /\ kernel.status = StatusByte => DevicesOf(kernel.status, d) = d.on
    BY <1>4, StatusIs DEF DevicesOf, Controllers
  <1>. HIDE DEF d
  <1>7. /\ c \in Controllers /\ c.in = <<>>
        /\ c.full = controller.full /\ c.out = controller.out /\ c.reply = controller.reply
        /\ order.value # "status" => c.irqs = controller.irqs
        /\ order.value # "status" \/ kernel.status = StatusByte => c.on = controller.on
    <2>1. CASE status
      BY <2>1, <1>4, <1>5, <1>6 DEF Controllers
    <2>2. CASE ~status
      BY <2>2, <1>4
    <2>. QED  BY <2>1, <2>2
  <1>8. /\ MouseType' /\ mouse'.count = mouse.count
        /\ IF command THEN mouse'.queue = Append(mouse.queue, AckByte) ELSE mouse' = mouse
    <2>1. CASE command
      BY <2>1, <1>2, <1>3, AckIs, AppendProperties DEF MouseType
    <2>2. CASE ~command
      BY <2>2, <1>2, <1>3 DEF MouseType
    <2>. QED  BY <2>1, <2>2
  <1>. HIDE DEF c
  <1>. QED  BY <1>1, <1>2, <1>7, <1>8

\* The output buffer is filled.
LEMMA FilledIs ==
  ASSUME Typed, NEW byte \in AnyByte
  PROVE  LET c == Filled(byte)
         IN  /\ c \in Controllers /\ c.full /\ c.out = byte
             /\ c.in = controller.in /\ c.next = controller.next
             /\ c.irqs = controller.irqs /\ c.on = controller.on
             /\ c.reply = controller.reply
  BY DEF Typed, Controllers, Filled

\* What the first byte of a queue and the rest of it are.
LEMMA HeadOfQueue ==
  ASSUME NEW queue \in Seq(AnyByte), queue # <<>>
  PROVE  /\ Head(queue) \in AnyByte /\ Tail(queue) \in Seq(AnyByte)
         /\ Head(queue) = queue[1] /\ Len(queue) \in Nat \ {0}
         /\ Len(Tail(queue)) = Len(queue) - 1
         /\ \A i \in 1 .. Len(queue) - 1 : Tail(queue)[i] = queue[i + 1]
  BY HeadTailProperties, EmptySeq

\* The status the controller owes appears in the buffer.
LEMMA ReplyEffect ==
  ASSUME Typed, LoadReply
  PROVE  \E c \in Controllers :
           /\ ControllerBecomes(c) /\ c.full /\ c.out = StatusByte /\ ~c.reply
           /\ c.in = controller.in /\ c.next = controller.next
           /\ c.irqs = controller.irqs /\ c.on = controller.on
  <1>. DEFINE d == Filled(StatusByte)
              c == [d EXCEPT !.reply = FALSE]
  <1>1. ControllerBecomes(c)
    BY DEF LoadReply, StatusByte
  <1>2. /\ c \in Controllers /\ c.full /\ c.out = StatusByte /\ ~c.reply
        /\ c.in = controller.in /\ c.next = controller.next
        /\ c.irqs = controller.irqs /\ c.on = controller.on
    <2>1. /\ d \in Controllers /\ d.full /\ d.out = StatusByte
          /\ d.in = controller.in /\ d.next = controller.next
          /\ d.irqs = controller.irqs /\ d.on = controller.on
      BY FilledIs, StatusIs
    <2>. HIDE DEF d
    <2>. QED  BY <2>1 DEF Controllers
  <1>. HIDE DEF c
  <1>. QED  BY <1>1, <1>2

\* A byte of a device moves into the buffer.
LEMMA LoadEffect ==
  ASSUME Typed, NEW queue \in Seq(AnyByte), queue # <<>>,
         ControllerBecomes(Filled(Head(queue)))
  PROVE  /\ controller' \in Controllers /\ controller'.full /\ controller'.out = queue[1]
         /\ controller'.in = controller.in /\ controller'.next = controller.next
         /\ controller'.irqs = controller.irqs /\ controller'.on = controller.on
         /\ controller'.reply = controller.reply
         /\ PicType' /\ pic'.isr = pic.isr
         /\ pic'.irr = pic.irr \cup (Lines(controller') \ Lines(controller))
  <1>1. Head(queue) \in AnyByte /\ Head(queue) = queue[1]
    BY HeadOfQueue
  <1>. DEFINE c == Filled(Head(queue))
  <1>2. /\ c \in Controllers /\ c.full /\ c.out = queue[1]
        /\ c.in = controller.in /\ c.next = controller.next
        /\ c.irqs = controller.irqs /\ c.on = controller.on
        /\ c.reply = controller.reply
    BY <1>1, FilledIs
  <1>. HIDE DEF c
  <1>. QED  BY <1>2, BecomesTyped DEF c

\* The buffer is read.
Emptied == [controller EXCEPT !.full = FALSE]

\* The controller when its output buffer was read.
LEMMA EmptiedIs ==
  ASSUME Typed, ControllerBecomes(Emptied)
  PROVE  /\ controller' \in Controllers /\ ~controller'.full /\ Lines(controller') = {}
         /\ controller'.in = controller.in /\ controller'.next = controller.next
         /\ controller'.irqs = controller.irqs /\ controller'.on = controller.on
         /\ controller'.reply = controller.reply /\ controller'.out = controller.out
         /\ PicType' /\ pic'.isr = pic.isr /\ pic'.irr = pic.irr
  <1>1. /\ Emptied \in Controllers /\ ~Emptied.full
        /\ Emptied.in = controller.in /\ Emptied.next = controller.next
        /\ Emptied.irqs = controller.irqs /\ Emptied.on = controller.on
        /\ Emptied.reply = controller.reply /\ Emptied.out = controller.out
    BY DEF Typed, Controllers, Emptied
  <1>2. Lines(Emptied) = {}
    BY <1>1 DEF Lines
  <1>. QED  BY <1>1, <1>2, BecomesTyped DEF Typed, PicType

\* A packet that is complete is shown.
LEMMA ShownIs ==
  ASSUME NEW k \in Kernels
  PROVE  LET p == ProcessMousePacket(k)
         IN  /\ p \in Kernels /\ p.ip = k.ip /\ p.status = k.status /\ p.skip = k.skip
             /\ p.mouseCycle = k.mouseCycle /\ p.mousePacket = k.mousePacket
             /\ p.shift = k.shift /\ p.off = k.off
             /\ ~p.mousePacketReady
             /\ p.shown = k.shown + One(k.mousePacketReady)
  <1>1. CASE k.mousePacketReady
    <2>1. ProcessMousePacket(k) = [k EXCEPT !.mousePacketReady = FALSE, !.shown = k.shown + 1]
      BY <1>1 DEF ProcessMousePacket
    <2>2. k.shown + 1 \in Nat /\ One(k.mousePacketReady) = 1
      BY <1>1 DEF Kernels, One
    <2>. QED  BY <2>1, <2>2 DEF Kernels
  <1>2. CASE ~k.mousePacketReady
    BY <1>2 DEF Kernels, ProcessMousePacket, One
  <1>. QED  BY <1>1, <1>2

\* What a byte of the mouse does.
LEMMA MouseByteEffect ==
  ASSUME NEW k \in Kernels, NEW b \in AnyByte
  PROVE  LET n == HandlePS2Mouse(k, b)
         IN  /\ n \in Kernels /\ n.ip = k.ip /\ n.status = k.status
             /\ n.shift = k.shift /\ n.off = k.off /\ ~n.skip
             /\ n.shown = k.shown + One(k.mousePacketReady)
             /\ k.skip \/ (k.mouseCycle = 0 /\ ~Bit3(b)) =>
                  /\ n.mouseCycle = k.mouseCycle /\ n.mousePacket = k.mousePacket
                  /\ ~n.mousePacketReady
             /\ ~k.skip /\ (k.mouseCycle = 0 => Bit3(b)) =>
                  /\ n.mouseCycle = After(k.mouseCycle)
                  /\ n.mousePacketReady <=> k.mouseCycle = 2
                  /\ n.mousePacket = [k.mousePacket EXCEPT ![k.mouseCycle + 1] = b.what]
  <1>. DEFINE p == ProcessMousePacket(k)
              q == [p EXCEPT !.mousePacket[p.mouseCycle + 1] = b.what]
              n == HandlePS2Mouse(k, b)
  <1>1. /\ p \in Kernels /\ p.ip = k.ip /\ p.status = k.status /\ p.skip = k.skip
        /\ p.mouseCycle = k.mouseCycle /\ p.mousePacket = k.mousePacket
        /\ p.shift = k.shift /\ p.off = k.off
        /\ ~p.mousePacketReady
        /\ p.shown = k.shown + One(k.mousePacketReady)
    BY ShownIs
  <1>2. n = CASE p.skip -> [p EXCEPT !.skip = FALSE]
              [] ~p.skip /\ p.mouseCycle = 0 -> IF Bit3(b) THEN [q EXCEPT !.mouseCycle = 1] ELSE p
              [] ~p.skip /\ p.mouseCycle = 1 -> [q EXCEPT !.mouseCycle = 2]
              [] ~p.skip /\ p.mouseCycle = 2 -> [q EXCEPT !.mouseCycle = 0, !.mousePacketReady = TRUE]
    BY DEF HandlePS2Mouse
  <1>. HIDE DEF p, n
  <1>3. /\ q \in Kernels /\ q.ip = k.ip /\ q.status = k.status /\ q.skip = k.skip
        /\ q.mouseCycle = k.mouseCycle
        /\ q.mousePacket = [k.mousePacket EXCEPT ![k.mouseCycle + 1] = b.what]
        /\ q.shift = k.shift /\ q.off = k.off
        /\ ~q.mousePacketReady
        /\ q.shown = k.shown + One(k.mousePacketReady)
    BY <1>1 DEF Kernels, AnyByte
  <1>4. k.mouseCycle \in {0, 1, 2} /\ k.skip \in BOOLEAN
    BY DEF Kernels
  <1>. HIDE DEF q
  <1>5. CASE k.skip
    <2>1. n = [p EXCEPT !.skip = FALSE]
      BY <1>1, <1>2, <1>5
    <2>. QED  BY <2>1, <1>1, <1>5 DEF Kernels, n
  <1>6. CASE ~k.skip /\ k.mouseCycle = 0 /\ ~Bit3(b)
    <2>1. n = p
      BY <1>1, <1>2, <1>6
    <2>. QED  BY <2>1, <1>1, <1>6 DEF n
  <1>7. CASE ~k.skip /\ k.mouseCycle = 0 /\ Bit3(b)
    <2>1. n = [q EXCEPT !.mouseCycle = 1]
      BY <1>1, <1>2, <1>7
    <2>. QED  BY <2>1, <1>3, <1>7 DEF Kernels, After, n
  <1>8. CASE ~k.skip /\ k.mouseCycle = 1
    <2>1. n = [q EXCEPT !.mouseCycle = 2]
      BY <1>1, <1>2, <1>8
    <2>. QED  BY <2>1, <1>3, <1>8 DEF Kernels, After, n
  <1>9. CASE ~k.skip /\ k.mouseCycle = 2
    <2>1. n = [q EXCEPT !.mouseCycle = 0, !.mousePacketReady = TRUE]
      BY <1>1, <1>2, <1>9
    <2>2. n \in Kernels /\ n.mouseCycle = 0 /\ n.mousePacketReady
      <3>1. q \in Kernels
        BY <1>3
      <3>. DEFINE r == [q EXCEPT !.mouseCycle = 0]
      <3>2. r \in Kernels /\ r.mouseCycle = 0
        BY <3>1 DEF Kernels
      <3>3. n = [r EXCEPT !.mousePacketReady = TRUE]
        BY <2>1, <3>1 DEF Kernels
      <3>. HIDE DEF r
      <3>. QED  BY <3>2, <3>3 DEF Kernels
    <2>3. /\ n.ip = q.ip /\ n.status = q.status /\ n.shift = q.shift /\ n.off = q.off
          /\ n.skip = q.skip /\ n.shown = q.shown /\ n.mousePacket = q.mousePacket
      BY <2>1, <1>3 DEF Kernels
    <2>. HIDE DEF n
    <2>4. n = HandlePS2Mouse(k, b)
      BY DEF n
    <2>. QED  BY <2>2, <2>3, <2>4, <1>3, <1>9 DEF After
  <1>. QED  BY <1>4, <1>5, <1>6, <1>7, <1>8, <1>9

\* What a byte of the keyboard does.
LEMMA KeyByteEffect ==
  ASSUME NEW k \in Kernels, NEW b \in AnyByte
  PROVE  LET n == HandleKeyboard(k, b)
         IN  /\ n \in Kernels /\ n.ip = k.ip /\ n.status = k.status /\ n.skip = k.skip
             /\ n.mouseCycle = k.mouseCycle /\ n.mousePacket = k.mousePacket
             /\ n.mousePacketReady = k.mousePacketReady /\ n.shown = k.shown
             /\ n.shift = Known(k.shift, b)
             /\ n.off <=> k.off \/ b = Byte("Escape", TRUE)
  <1>1. CASE b.what \in Shifts
    <2>1. b # Byte("Escape", TRUE)
      BY <1>1 DEF Byte, Shifts
    <2>. QED  BY <1>1, <2>1 DEF Kernels, HandleKeyboard, Known, AnyByte, Shifts
  <1>2. CASE b.what \notin Shifts /\ b = Byte("Escape", TRUE)
    BY <1>2 DEF Kernels, HandleKeyboard, Known
  <1>3. CASE b.what \notin Shifts /\ b # Byte("Escape", TRUE)
    BY <1>3 DEF Kernels, HandleKeyboard, Known
  <1>. QED  BY <1>1, <1>2, <1>3

-----------------------------------------------------------------------------
(* What every step keeps, whatever the devices did before.                 *)

Basic == Typed /\ Phases /\ Requested

SettledKept == Settled => Settled' \/ kernel'.off

\* The kernel runs the program, or its interrupts are on.
LEMMA RunningIs ==
  ASSUME Typed
  PROVE  /\ Running <=> kernel.ip = 35 /\ ~kernel.off
         /\ kernel.ip \in 1 .. 34 \/ kernel.ip = 35
  BY ProgramIs DEF Typed, Kernels, Running, Instructions

\* An instruction is only executed before the interrupts are enabled.
LEMMA AtIs ==
  ASSUME Typed, NEW op, At(op)
  PROVE  kernel.ip \in 1 .. 34 /\ Program[kernel.ip].op = op
  BY ProgramIs DEF Typed, Kernels, At, Instructions

\* The requests after a step of the controller.
LEMMA RequestedStays ==
  ASSUME Basic, NEW c \in Controllers, ControllerBecomes(c),
         UNCHANGED <<kernel, handler>>
  PROVE  Requested'
  BY DEF Basic, Requested, ControllerBecomes, Requests, Unread

\* A step of the controller, after which its buffer requests what it requested before,
\* or which filled the empty buffer.
LEMMA SettledStays ==
  ASSUME Basic, NEW c \in Controllers, ControllerBecomes(c),
         UNCHANGED <<kernel, handler>>,
         Running => Lines(c) = Lines(controller) \/ ~controller.full
  PROVE  SettledKept
  <1>1. SUFFICES ASSUME Settled PROVE Settled'
    BY DEF SettledKept
  <1>2. /\ Running /\ ~kernel.skip
        /\ Requests = Lines(controller) /\ pic.irr \cap Unread = {}
    BY <1>1 DEF Settled
  <1>3. Running' /\ ~kernel'.skip /\ Unread' = Unread
    BY <1>2 DEF Running, Unread
  <1>4. controller' = c /\ pic'.irr = pic.irr \cup (Lines(c) \ Lines(controller))
    BY BecomesTyped DEF Basic
  <1>5. CASE Lines(c) = Lines(controller)
    BY <1>2, <1>3, <1>4, <1>5 DEF Settled, Requests
  <1>6. CASE ~controller.full
    <2>1. Lines(controller) = {}
      BY <1>6 DEF Lines
    <2>2. pic.irr = {} /\ Unread = {}
      BY <1>2, <2>1 DEF Requests
    <2>. QED  BY <1>2, <1>3, <1>4, <2>1, <2>2 DEF Settled, Requests
  <1>. QED  BY <1>2, <1>5, <1>6

\* The lines depend on the output buffer and on the requests switched on.
LEMMA SameLines ==
  ASSUME NEW c, NEW d, c.full = d.full, c.out = d.out, c.irqs = d.irqs
  PROVE  Lines(c) = Lines(d)
  BY DEF Lines

\* A command for the controller keeps the types, the phases and the requests.
LEMMA CommandBasic == ASSUME Basic, AcceptCommand PROVE Basic' /\ SettledKept
  <1>1. PICK order \in Orders, c \in Controllers :
          /\ controller.in = <<order>> /\ order.op = "0x64"
          /\ ControllerBecomes(c) /\ c.in = <<>>
          /\ c.irqs = controller.irqs /\ c.full = controller.full /\ c.out = controller.out
    BY CommandEffect DEF Basic
  <1>2. UNCHANGED <<mouse, keyboard, kernel, handler, disturbed>>
    BY DEF AcceptCommand
  <1>3. Typed'
    BY <1>1, <1>2, BecomesTyped
       DEF Basic, Typed, MouseType, KeyboardType, HandlerType
  <1>4. controller'.in = <<>>
    BY <1>1, BecomesTyped DEF Basic
  <1>5. Phases'
    BY <1>2, <1>4 DEF Basic, Phases, Written
  <1>6. Requested' /\ SettledKept
    BY <1>1, <1>2, RequestedStays, SettledStays, SameLines
  <1>. QED  BY <1>3, <1>5, <1>6 DEF Basic

\* A byte for a device or for the controller keeps them.
LEMMA DataBasic == ASSUME Basic, AcceptData PROVE Basic' /\ SettledKept
  <1>1. PICK order \in Orders, c \in Controllers :
          /\ controller.in = <<order>> /\ order.op = "0x60"
          /\ ControllerBecomes(c) /\ c.in = <<>>
          /\ c.full = controller.full /\ c.out = controller.out
          /\ order.value # "status" => c.irqs = controller.irqs
          /\ MouseType'
    BY DataEffect DEF Basic
  <1>2. UNCHANGED <<keyboard, kernel, handler, disturbed>>
    BY DEF AcceptData
  <1>3. Typed'
    BY <1>1, <1>2, BecomesTyped
       DEF Basic, Typed, KeyboardType, HandlerType
  <1>4. controller'.in = <<>>
    BY <1>1, BecomesTyped DEF Basic
  <1>5. Phases'
    BY <1>2, <1>4 DEF Basic, Phases, Written
  <1>6. Running => order.value # "status"
    <2>1. ASSUME Running PROVE order = Program[31]
      BY <1>1, <2>1, RunningIs DEF Basic, Phases, Written
    <2>. QED  BY <2>1, ProgramIs DEF Instructions
  <1>7. Requested' /\ SettledKept
    BY <1>1, <1>2, <1>6, RequestedStays, SettledStays, SameLines
  <1>. QED  BY <1>3, <1>5, <1>7 DEF Basic

\* The controller's own reply keeps them.
LEMMA ReplyBasic == ASSUME Basic, LoadReply PROVE Basic' /\ SettledKept
  <1>1. PICK c \in Controllers : ControllerBecomes(c) /\ c.in = controller.in
    BY ReplyEffect DEF Basic
  <1>2. UNCHANGED <<mouse, keyboard, kernel, handler, disturbed>> /\ ~controller.full
    BY DEF LoadReply
  <1>3. Typed'
    BY <1>1, <1>2, BecomesTyped
       DEF Basic, Typed, MouseType, KeyboardType, HandlerType
  <1>4. controller'.in = controller.in
    BY <1>1, BecomesTyped DEF Basic
  <1>5. Phases'
    BY <1>2, <1>4 DEF Basic, Phases, Written
  <1>6. Requested' /\ SettledKept
    BY <1>1, <1>2, RequestedStays, SettledStays
  <1>. QED  BY <1>3, <1>5, <1>6 DEF Basic

\* A byte of a device moves into the buffer.
LEMMA LoadBasic == ASSUME Basic, LoadKey \/ LoadMouse PROVE Basic' /\ SettledKept
  <1>1. /\ UNCHANGED <<kernel, handler, disturbed>> /\ ~controller.full
        /\ keyboard.queue \in Seq(AnyByte) /\ mouse.queue \in Seq(AnyByte)
    BY DEF LoadKey, LoadMouse, Basic, Typed, MouseType, KeyboardType
  <1>2. PICK queue \in Seq(AnyByte) :
          queue # <<>> /\ ControllerBecomes(Filled(Head(queue)))
    BY <1>1 DEF LoadKey, LoadMouse
  <1>3. Filled(Head(queue)) \in Controllers /\ controller'.in = controller.in
    BY <1>2, HeadOfQueue, FilledIs, LoadEffect DEF Basic
  <1>4. MouseType' /\ KeyboardType'
    <2>1. CASE LoadKey
      BY <2>1, <1>1, HeadOfQueue DEF LoadKey, Basic, Typed, MouseType, KeyboardType
    <2>2. CASE LoadMouse
      BY <2>2, <1>1, HeadOfQueue DEF LoadMouse, Basic, Typed, MouseType, KeyboardType
    <2>. QED  BY <2>1, <2>2
  <1>5. Typed'
    BY <1>1, <1>2, <1>3, <1>4, BecomesTyped DEF Basic, Typed, HandlerType
  <1>6. Phases'
    BY <1>1, <1>3 DEF Basic, Phases, Written
  <1>7. Requested' /\ SettledKept
    BY <1>1, <1>2, <1>3, RequestedStays, SettledStays
  <1>. QED  BY <1>5, <1>6, <1>7 DEF Basic

\* The devices are used.
LEMMA PressBasic ==
  ASSUME Basic, NEW key \in Keys, Press(key)
  PROVE  Basic' /\ SettledKept
  <1>1. UNCHANGED <<controller, pic, mouse, kernel, handler>> /\ disturbed' \in BOOLEAN
    BY DEF Press, Basic, Typed
  <1>2. KeyboardType'
    <2>1. /\ keyboard.queue \in Seq(AnyByte) /\ keyboard.down \in SUBSET Keys
          /\ keyboard.count \in Nat
      BY DEF Basic, Typed, KeyboardType
    <2>2. Byte(key, key \notin keyboard.down) \in AnyByte
      BY KeysType, ByteType
    <2>. QED  BY <2>1, <2>2, AppendProperties DEF Press, KeyboardType
  <1>3. Typed'
    BY <1>1, <1>2 DEF Basic, Typed, PicType, MouseType, HandlerType
  <1>4. Phases' /\ Requested'
    BY <1>1 DEF Basic, Phases, Written, Requested, Requests, Unread
  <1>5. SettledKept
    BY <1>1 DEF SettledKept, Settled, Running, Requests, Unread
  <1>. QED  BY <1>3, <1>4, <1>5 DEF Basic

\* What the mouse sends of a movement.
MovementBytes(bit3) == <<Byte("head", TRUE), Byte("dx", bit3), Byte("dy", bit3)>>

\* What a movement sends are bytes.
LEMMA MovementType ==
  ASSUME NEW bit3 \in BOOLEAN
  PROVE  MovementBytes(bit3) \in Seq(AnyByte) /\ MovementBytes(bit3) # <<>>
  <1>1. /\ Byte("head", TRUE) \in AnyByte /\ Byte("dx", bit3) \in AnyByte
        /\ Byte("dy", bit3) \in AnyByte
    BY ByteType DEF Whats
  <1>. DEFINE head == Byte("head", TRUE)
              dx == Byte("dx", bit3)
              dy == Byte("dy", bit3)
  <1>2. <<head, dx, dy>> \in Seq(AnyByte) /\ Len(<<head, dx, dy>>) = 3
    <2>. HIDE DEF head, dx, dy
    <2>1. head \in AnyByte /\ dx \in AnyByte /\ dy \in AnyByte
      BY <1>1 DEF head, dx, dy
    <2>. QED  BY <2>1
  <1>. HIDE DEF head, dx, dy
  <1>3. MovementBytes(bit3) = <<head, dx, dy>>
    BY DEF MovementBytes, head, dx, dy
  <1>. QED  BY <1>2, <1>3, EmptySeq

\* A movement keeps them.
LEMMA MoveBasic == ASSUME Basic, Move PROVE Basic' /\ SettledKept
  <1>1. UNCHANGED <<controller, pic, keyboard, kernel, handler>> /\ disturbed' \in BOOLEAN
    BY DEF Move, Basic, Typed
  <1>2. MouseType'
    <2>1. PICK bit3 \in BOOLEAN :
            mouse' = [mouse EXCEPT !.queue = MovementBytes(bit3), !.count = @ + 1]
      BY DEF Move, MovementBytes
    <2>. DEFINE queue == MovementBytes(bit3)
    <2>2. queue \in Seq(AnyByte)
      BY MovementType
    <2>3. mouse \in [queue : Seq(AnyByte), reporting : BOOLEAN, count : Nat]
      BY DEF Basic, Typed, MouseType
    <2>4. mouse' = [mouse EXCEPT !.queue = queue, !.count = mouse.count + 1]
      BY <2>1
    <2>5. mouse.count + 1 \in Nat
      BY <2>3
    <2>. HIDE DEF queue
    <2>. QED  BY <2>2, <2>3, <2>4, <2>5 DEF MouseType
  <1>3. Typed'
    BY <1>1, <1>2 DEF Basic, Typed, PicType, KeyboardType, HandlerType
  <1>4. Phases' /\ Requested'
    BY <1>1 DEF Basic, Phases, Written, Requested, Requests, Unread
  <1>5. SettledKept
    BY <1>1 DEF SettledKept, Settled, Running, Requests, Unread
  <1>. QED  BY <1>3, <1>4, <1>5 DEF Basic

\* What the boot's steps do.
LEMMA GotoIs ==
  ASSUME Typed, kernel.ip \in 1 .. 34, Goto(kernel.ip + 1)
  PROVE  /\ kernel' \in Kernels /\ kernel'.ip = kernel.ip + 1
         /\ kernel'.status = kernel.status /\ kernel'.skip = kernel.skip
         /\ kernel'.mouseCycle = kernel.mouseCycle /\ kernel'.mousePacket = kernel.mousePacket
         /\ kernel'.mousePacketReady = kernel.mousePacketReady
         /\ kernel'.shown = kernel.shown /\ kernel'.shift = kernel.shift
         /\ kernel'.off = kernel.off
  <1>1. kernel.ip + 1 \in 1 .. 35
    OBVIOUS
  <1>. QED  BY <1>1 DEF Typed, Kernels, Goto

\* Before the interrupts are enabled nothing is settled.
LEMMA NothingSettled ==
  ASSUME Basic, kernel.ip \in 1 .. 34
  PROVE  SettledKept
  BY RunningIs DEF Basic, SettledKept, Settled

\* An instruction that goes on to the next keeps the phases.
LEMMA BootPhases ==
  ASSUME Basic, kernel.ip \in 1 .. 33, kernel'.ip = kernel.ip + 1,
         kernel'.off = kernel.off, handler' = handler,
         \/ controller'.in = controller.in /\ kernel.ip # 31
         \/ controller'.in = <<Program[kernel.ip]>> /\ kernel.ip \notin {32, 33}
  PROVE  Phases'
  <1>1. /\ kernel.ip <= 34
        /\ kernel'.ip >= 32 => kernel.ip \in {31, 32, 33}
        /\ kernel.ip \in {32, 33} => kernel.ip >= 32
    OBVIOUS
  <1>2. handler = NoHandler /\ ~kernel.off /\ (handler.irq = 0 => handler.data = <<>>)
    BY <1>1 DEF Basic, Phases
  <1>3. kernel'.ip >= 32 /\ Written' => controller'.in = <<Program[31]>>
    <2>1. CASE controller'.in = controller.in /\ kernel.ip # 31
      BY <1>1, <2>1 DEF Basic, Phases, Written
    <2>2. CASE controller'.in = <<Program[kernel.ip]>> /\ kernel.ip \notin {32, 33}
      BY <1>1, <2>2
    <2>. QED  BY <2>1, <2>2
  <1>. QED  BY <1>1, <1>2, <1>3 DEF Phases

\* Waiting keeps the types, the phases and the requests.
LEMMA WaitBasic == ASSUME Basic, Wait PROVE Basic' /\ SettledKept
  <1>1. /\ kernel.ip \in 1 .. 34
        /\ Program[kernel.ip].op \in {"MouseWait", "MouseWaitInput"}
    BY AtIs DEF Wait, Basic
  <1>2. UNCHANGED <<controller, pic, mouse, keyboard, handler>> /\ disturbed' \in BOOLEAN
    BY DEF Wait, Basic, Typed
  <1>3. kernel' \in Kernels /\ kernel'.ip = kernel.ip + 1 /\ kernel'.off = kernel.off
    BY <1>1, GotoIs DEF Wait, Basic
  <1>4. Typed'
    BY <1>2, <1>3 DEF Basic, Typed, PicType, MouseType, KeyboardType, HandlerType
  <1>5. kernel.ip \notin {5, 31, 34}
    BY <1>1, ProgramIs DEF Instructions
  <1>6. Phases'
    BY <1>1, <1>2, <1>3, <1>5, BootPhases
  <1>7. Requested'
    <2>1. Requests' = Requests /\ Lines(controller)' = Lines(controller)
      BY <1>2 DEF Requests, Unread
    <2>2. kernel'.ip > 5 => kernel.ip > 5
      BY <1>1, <1>3, <1>5
    <2>. QED  BY <2>1, <2>2 DEF Basic, Requested
  <1>. QED  BY <1>1, <1>4, <1>6, <1>7, NothingSettled DEF Basic

\* What a write changes.
LEMMA OutIs ==
  ASSUME Typed, Out
  PROVE  /\ kernel.ip \in 1 .. 34 /\ Program[kernel.ip].op \in {"0x64", "0x60"}
         /\ controller' \in Controllers /\ controller'.in = <<Program[kernel.ip]>>
         /\ controller'.next = controller.next /\ controller'.irqs = controller.irqs
         /\ controller'.on = controller.on /\ controller'.reply = controller.reply
         /\ controller'.full = controller.full /\ controller'.out = controller.out
  <1>1. kernel.ip \in 1 .. 34 /\ Program[kernel.ip].op \in {"0x64", "0x60"}
    BY AtIs DEF Out
  <1>. DEFINE order == Program[kernel.ip]
  <1>2. order \in Orders
    BY <1>1, OrdersWritten
  <1>3. controller' = [controller EXCEPT !.in = <<order>>]
    BY DEF Out
  <1>. HIDE DEF order
  <1>4. /\ controller' \in Controllers /\ controller'.in = <<order>>
        /\ controller'.next = controller.next /\ controller'.irqs = controller.irqs
        /\ controller'.on = controller.on /\ controller'.reply = controller.reply
        /\ controller'.full = controller.full /\ controller'.out = controller.out
    BY <1>2, <1>3 DEF Typed, Controllers
  <1>. QED  BY <1>1, <1>4 DEF order

\* Writing keeps them.
LEMMA OutBasic == ASSUME Basic, Out PROVE Basic' /\ SettledKept
  <1>1. /\ kernel.ip \in 1 .. 34 /\ Program[kernel.ip].op \in {"0x64", "0x60"}
        /\ controller' \in Controllers /\ controller'.in = <<Program[kernel.ip]>>
        /\ controller'.irqs = controller.irqs
        /\ controller'.full = controller.full /\ controller'.out = controller.out
    BY OutIs DEF Basic
  <1>2. UNCHANGED <<pic, mouse, keyboard, handler, disturbed>>
    BY DEF Out
  <1>3. kernel' \in Kernels /\ kernel'.ip = kernel.ip + 1 /\ kernel'.off = kernel.off
    BY <1>1, GotoIs DEF Out, Basic
  <1>4. Typed'
    BY <1>1, <1>2, <1>3 DEF Basic, Typed, PicType, MouseType, KeyboardType, HandlerType
  <1>5. kernel.ip \notin {5, 32, 33, 34}
    BY <1>1, ProgramIs DEF Instructions
  <1>6. Phases'
    BY <1>1, <1>2, <1>3, <1>5, BootPhases
  <1>7. Requested'
    <2>1. Lines(controller') = Lines(controller)
      BY <1>1, SameLines
    <2>2. Requests' = Requests
      BY <1>2 DEF Requests, Unread
    <2>3. kernel'.ip > 5 => kernel.ip > 5
      BY <1>1, <1>3, <1>5
    <2>. QED  BY <2>1, <2>2, <2>3 DEF Basic, Requested
  <1>. QED  BY <1>1, <1>4, <1>6, <1>7, NothingSettled DEF Basic

\* What a read by polling changes.
LEMMA InIs ==
  ASSUME Typed, In
  PROVE  /\ kernel.ip \in 1 .. 34 /\ Program[kernel.ip].op = "inb"
         /\ ControllerBecomes(Emptied)
         /\ kernel' \in Kernels /\ kernel'.ip = kernel.ip + 1
         /\ kernel'.skip = kernel.skip
         /\ kernel'.mouseCycle = kernel.mouseCycle
         /\ kernel'.mousePacketReady = kernel.mousePacketReady
         /\ kernel'.shown = kernel.shown /\ kernel'.shift = kernel.shift
         /\ kernel'.off = kernel.off
         /\ kernel.ip = 5 => kernel'.status = controller.out
  <1>1. kernel.ip \in 1 .. 34 /\ Program[kernel.ip].op = "inb"
    BY AtIs DEF In
  <1>2. kernel.ip + 1 \in 1 .. 35
    BY <1>1
  <1>3. controller.out \in AnyByte
    BY DEF Typed, Controllers
  <1>4. kernel.ip = 5 => Value = "status"
    BY ProgramIs DEF Instructions, Value
  <1>. DEFINE status == IF Value = "status" THEN controller.out ELSE kernel.status
  <1>5. kernel' = [kernel EXCEPT !.ip = kernel.ip + 1, !.status = status]
    BY DEF In
  <1>6. status \in AnyByte /\ (kernel.ip = 5 => status = controller.out)
    BY <1>3, <1>4 DEF Typed, Kernels
  <1>7. ControllerBecomes(Emptied)
    BY DEF In, Emptied
  <1>. HIDE DEF status
  <1>8. kernel \in Kernels
    BY DEF Typed
  <1>. QED  BY <1>1, <1>2, <1>5, <1>6, <1>7, <1>8 DEF Kernels

\* A read by polling requests what its byte asks for, and keeps them.
LEMMA InBasic == ASSUME Basic, In PROVE Basic' /\ SettledKept
  <1>1. /\ kernel.ip \in 1 .. 34 /\ Program[kernel.ip].op = "inb"
        /\ ControllerBecomes(Emptied)
        /\ kernel' \in Kernels /\ kernel'.ip = kernel.ip + 1
        /\ kernel'.off = kernel.off
    BY InIs DEF Basic
  <1>2. UNCHANGED <<mouse, keyboard, handler, disturbed>>
    BY DEF In
  <1>3. /\ controller' \in Controllers /\ controller'.in = controller.in
        /\ Lines(controller') = {} /\ PicType'
    BY <1>1, EmptiedIs DEF Basic
  <1>4. Typed'
    BY <1>1, <1>2, <1>3 DEF Basic, Typed, PicType, MouseType, KeyboardType, HandlerType
  <1>5. kernel.ip \notin {31, 34}
    BY <1>1, ProgramIs DEF Instructions
  <1>6. Phases'
    BY <1>1, <1>2, <1>3, <1>5, BootPhases
  <1>7. Requested'
    BY <1>3 DEF Requested
  <1>. QED  BY <1>1, <1>4, <1>6, <1>7, NothingSettled DEF Basic

\* What enabling the interrupts changes.
LEMMA EnableIs ==
  ASSUME Typed, EnableInterrupts
  PROVE  /\ kernel.ip = 34
         /\ kernel' \in Kernels /\ kernel'.ip = 35
         /\ kernel'.skip = kernel.skip
         /\ kernel'.mouseCycle = kernel.mouseCycle
         /\ kernel'.mousePacketReady = kernel.mousePacketReady
         /\ kernel'.shown = kernel.shown /\ kernel'.shift = kernel.shift
         /\ kernel'.off = kernel.off
         /\ UNCHANGED <<controller, pic, mouse, keyboard, handler, disturbed>>
  <1>1. kernel.ip = 34
    BY AtIs, Places DEF EnableInterrupts
  <1>2. NoByte \in AnyByte
    BY NoByteType
  <1>3. kernel \in Kernels
    BY DEF Typed
  <1>. DEFINE none == NoByte
  <1>4. none \in AnyByte /\ kernel' = [kernel EXCEPT !.ip = 35, !.status = none]
    BY <1>1, <1>2 DEF EnableInterrupts
  <1>5. UNCHANGED <<controller, pic, mouse, keyboard, handler, disturbed>>
    BY DEF EnableInterrupts
  <1>. HIDE DEF none
  <1>6. /\ kernel' \in Kernels /\ kernel'.ip = 35
        /\ kernel'.skip = kernel.skip
        /\ kernel'.mouseCycle = kernel.mouseCycle
        /\ kernel'.mousePacketReady = kernel.mousePacketReady
        /\ kernel'.shown = kernel.shown /\ kernel'.shift = kernel.shift
        /\ kernel'.off = kernel.off
    <2>1. 35 \in 1 .. 35
      OBVIOUS
    <2>. QED  BY <2>1, <1>3, <1>4 DEF Kernels
  <1>. QED  BY <1>1, <1>5, <1>6

\* Enabling the interrupts keeps them.
LEMMA EnableBasic == ASSUME Basic, EnableInterrupts PROVE Basic' /\ SettledKept
  <1>1. /\ kernel.ip = 34 /\ kernel' \in Kernels /\ kernel'.ip = 35
        /\ kernel'.off = kernel.off
        /\ UNCHANGED <<controller, pic, mouse, keyboard, handler, disturbed>>
    BY EnableIs DEF Basic
  <1>2. Typed'
    BY <1>1 DEF Basic, Typed, PicType, MouseType, KeyboardType, HandlerType
  <1>3. handler = NoHandler /\ ~kernel.off /\ (handler.irq = 0 => handler.data = <<>>)
    BY <1>1 DEF Basic, Phases
  <1>4. Written => controller.in = <<Program[31]>>
    BY <1>1 DEF Basic, Phases
  <1>5. Phases'
    BY <1>1, <1>3, <1>4 DEF Phases, Written
  <1>6. Requested'
    BY <1>1 DEF Basic, Requested, Requests, Unread
  <1>. QED  BY <1>1, <1>2, <1>5, <1>6, NothingSettled DEF Basic

\* An interrupt begins.
LEMMA InterruptIs ==
  ASSUME Typed, NEW irq \in {1, 12}, Interrupt(irq)
  PROVE  /\ kernel.ip = 35 /\ ~kernel.off /\ handler = NoHandler
         /\ irq \in pic.irr /\ (irq = 1 \/ 1 \notin pic.irr)
         /\ HandlerType' /\ handler'.irq = irq /\ handler'.data = <<>>
         /\ PicType' /\ pic'.irr = pic.irr \ {irq}
         /\ UNCHANGED <<controller, mouse, keyboard, kernel, disturbed>>
  <1>1. Level(irq) \in {1, 2}
    BY DEF Level
  <1>. DEFINE level == Level(irq)
  <1>. HIDE DEF level
  <1>2. /\ pic' = [irr |-> pic.irr \ {irq}, isr |-> pic.isr \cup {irq, level}]
        /\ handler' = [irq |-> irq, data |-> <<>>]
        /\ Running /\ handler = NoHandler
        /\ irq \in pic.irr /\ (irq = 1 \/ 1 \notin pic.irr)
        /\ UNCHANGED <<controller, mouse, keyboard, kernel, disturbed>>
    BY DEF Interrupt, level
  <1>3. kernel.ip = 35 /\ ~kernel.off
    BY <1>2, RunningIs
  <1>4. PicType' /\ pic'.irr = pic.irr \ {irq}
    BY <1>1, <1>2 DEF Typed, PicType, level
  <1>5. HandlerType' /\ handler'.irq = irq /\ handler'.data = <<>>
    BY <1>2 DEF HandlerType
  <1>. QED  BY <1>2, <1>3, <1>4, <1>5

\* What no handler is.
LEMMA NoHandlerIs == NoHandler.irq = 0 /\ NoHandler.data = <<>>
  BY DEF NoHandler

\* Delivering a request keeps the types, the phases and the requests.
LEMMA InterruptBasic ==
  ASSUME Basic, NEW irq \in {1, 12}, Interrupt(irq)
  PROVE  Basic' /\ SettledKept
  <1>1. /\ kernel.ip = 35 /\ ~kernel.off /\ handler = NoHandler /\ irq \in pic.irr
        /\ HandlerType' /\ handler'.irq = irq /\ handler'.data = <<>>
        /\ PicType' /\ pic'.irr = pic.irr \ {irq}
        /\ UNCHANGED <<controller, mouse, keyboard, kernel, disturbed>>
    BY InterruptIs DEF Basic
  <1>2. Typed'
    BY <1>1 DEF Basic, Typed, MouseType, KeyboardType
  <1>3. Phases'
    BY <1>1 DEF Basic, Phases, Written
  <1>4. /\ Unread = {} /\ Unread' = {irq}
        /\ Requests' = Requests /\ pic'.irr \cap Unread' = {}
    BY <1>1, NoHandlerIs DEF Unread, Requests
  <1>5. Requested' /\ SettledKept
    BY <1>1, <1>4 DEF Basic, Requested, SettledKept, Settled, Running
  <1>. QED  BY <1>2, <1>3, <1>5 DEF Basic

\* The handler reads the buffer.
LEMMA ReadIs ==
  ASSUME Typed, ReadData
  PROVE  /\ handler.irq \in {1, 12} /\ handler.data = <<>>
         /\ ControllerBecomes(Emptied)
         /\ HandlerType' /\ handler'.irq = handler.irq
         /\ handler'.data = <<controller.out>>
         /\ UNCHANGED <<mouse, keyboard, kernel, disturbed>>
  <1>1. controller.out \in AnyByte
    BY DEF Typed, Controllers
  <1>. DEFINE byte == controller.out
  <1>2. /\ handler.irq # 0 /\ handler.data = <<>> /\ ControllerBecomes(Emptied)
        /\ handler' = [handler EXCEPT !.data = <<byte>>]
        /\ UNCHANGED <<mouse, keyboard, kernel, disturbed>>
    BY DEF ReadData, Emptied
  <1>. HIDE DEF byte
  <1>3. HandlerType' /\ handler'.irq = handler.irq /\ handler'.data = <<byte>>
    BY <1>1, <1>2 DEF Typed, HandlerType, byte
  <1>4. handler.irq \in {1, 12}
    BY <1>2 DEF Typed, HandlerType
  <1>. QED  BY <1>2, <1>3, <1>4 DEF byte

\* A handler is only entered once the program is over.
LEMMA HandlingIs == ASSUME Basic, handler.irq # 0 PROVE kernel.ip = 35
  <1>1. handler # NoHandler
    BY NoHandlerIs
  <1>2. ~(kernel.ip <= 34)
    BY <1>1 DEF Basic, Phases
  <1>. QED  BY <1>2, RunningIs DEF Basic

\* The handler's read of the output buffer keeps them.
LEMMA ReadBasic == ASSUME Basic, ReadData PROVE Basic' /\ SettledKept
  <1>1. /\ handler.irq \in {1, 12} /\ handler.data = <<>>
        /\ ControllerBecomes(Emptied)
        /\ HandlerType' /\ handler'.irq = handler.irq
        /\ handler'.data = <<controller.out>>
        /\ UNCHANGED <<mouse, keyboard, kernel, disturbed>>
    BY ReadIs DEF Basic
  <1>2. /\ controller' \in Controllers /\ controller'.in = controller.in
        /\ Lines(controller') = {} /\ PicType' /\ pic'.irr = pic.irr
    BY <1>1, EmptiedIs DEF Basic
  <1>3. Typed'
    BY <1>1, <1>2 DEF Basic, Typed, MouseType, KeyboardType
  <1>4. handler'.data # <<>>
    BY <1>1
  <1>5. kernel.ip = 35 /\ ~kernel.off
    BY <1>1, HandlingIs, RunningIs DEF Basic, Phases
  <1>6. Phases'
    BY <1>1, <1>2, <1>4, <1>5 DEF Basic, Phases, Written
  <1>7. Requested'
    BY <1>2 DEF Requested
  <1>8. SettledKept
    <2>1. SUFFICES ASSUME Settled PROVE Settled'
      BY DEF SettledKept
    <2>2. Unread = {handler.irq} /\ Unread' = {}
      BY <1>1, <1>4 DEF Unread
    <2>3. Lines(controller) \subseteq {IRQ(controller.out)}
      BY DEF Lines
    <2>4. pic.irr = {}
      BY <2>1, <2>2, <2>3 DEF Settled, Requests
    <2>. QED  BY <1>1, <1>2, <2>1, <2>2, <2>4 DEF Settled, Requests, Running
  <1>. QED  BY <1>3, <1>6, <1>7, <1>8 DEF Basic

\* A handler's end.
LEMMA EndType ==
  ASSUME NEW isr \in SUBSET {1, 2, 12}
  PROVE  EndMaster(isr) \in SUBSET {1, 2, 12} /\ EndSlave(isr) \in SUBSET {1, 2, 12}
  BY DEF EndMaster, EndSlave

\* The byte a handler read is a byte.
LEMMA ReadBytes ==
  ASSUME Typed, handler.data # <<>>
  PROVE  handler.data[1] \in AnyByte /\ handler.data = <<handler.data[1]>>
  BY DEF Typed, HandlerType

\* What the keyboard's handler changes.
LEMMA KeyboardIs ==
  ASSUME Typed, KeyboardInt_Handler
  PROVE  /\ handler.irq = 1 /\ handler.data # <<>> /\ ~kernel.off
         /\ kernel' = HandleKeyboard(kernel, handler.data[1])
         /\ PicType' /\ pic'.irr = pic.irr
         /\ kernel'.off => handler' = handler
         /\ ~kernel'.off => handler' = NoHandler
         /\ UNCHANGED <<controller, mouse, keyboard, disturbed>>
  <1>1. /\ handler.irq = 1 /\ handler.data # <<>> /\ ~kernel.off
        /\ kernel' = HandleKeyboard(kernel, handler.data[1])
        /\ kernel'.off => handler' = handler /\ pic' = pic
        /\ ~kernel'.off => handler' = NoHandler /\ pic' = [pic EXCEPT !.isr = EndMaster(@)]
        /\ UNCHANGED <<controller, mouse, keyboard, disturbed>>
    BY DEF KeyboardInt_Handler
  <1>2. EndMaster(pic.isr) \in SUBSET {1, 2, 12}
    BY EndType DEF Typed, PicType
  <1>3. PicType' /\ pic'.irr = pic.irr
    BY <1>1, <1>2 DEF Typed, PicType
  <1>. QED  BY <1>1, <1>3

\* What the mouse's handler changes.
LEMMA MouseIs ==
  ASSUME Typed, MouseInt_Handler
  PROVE  /\ handler.irq = 12 /\ handler.data # <<>>
         /\ kernel' = HandlePS2Mouse(kernel, handler.data[1])
         /\ PicType' /\ pic'.irr = pic.irr
         /\ handler' = NoHandler
         /\ UNCHANGED <<controller, mouse, keyboard, disturbed>>
  <1>1. EndSlave(pic.isr) \in SUBSET {1, 2, 12}
    BY EndType DEF Typed, PicType
  <1>2. pic' = [pic EXCEPT !.isr = EndSlave(pic.isr)]
    BY DEF MouseInt_Handler
  <1>3. PicType' /\ pic'.irr = pic.irr
    BY <1>1, <1>2 DEF Typed, PicType
  <1>. QED  BY <1>3 DEF MouseInt_Handler

\* What the end of a handler leaves as it was.
LEMMA HandledBasic ==
  ASSUME Basic, handler.irq \in {1, 12}, handler.data # <<>>,
         kernel' \in Kernels, kernel'.ip = kernel.ip, kernel.skip \/ kernel'.skip = kernel.skip,
         PicType', pic'.irr = pic.irr, UNCHANGED <<controller, mouse, keyboard, disturbed>>,
         \/ handler' = NoHandler /\ ~kernel'.off
         \/ handler' = handler /\ kernel'.off /\ handler.irq = 1
  PROVE  Basic' /\ SettledKept
  <1>1. HandlerType'
    <2>1. NoHandler \in [irq : {0, 1, 12}, data : {<<>>} \cup {<<byte>> : byte \in AnyByte}]
      BY DEF NoHandler
    <2>. QED  BY <2>1 DEF Basic, Typed, HandlerType
  <1>2. Typed'
    BY <1>1 DEF Basic, Typed, MouseType, KeyboardType
  <1>3. kernel.ip = 35
    BY HandlingIs
  <1>4. Phases'
    BY <1>3, NoHandlerIs DEF Basic, Phases, Written
  <1>5. Unread = {} /\ Unread' = {}
    BY NoHandlerIs DEF Unread
  <1>6. Requested'
    BY <1>3, <1>5 DEF Basic, Requested, Requests
  <1>7. SettledKept
    BY <1>3, <1>5 DEF SettledKept, Settled, Running, Requests
  <1>. QED  BY <1>2, <1>4, <1>6, <1>7 DEF Basic

\* The handlers keep the types, the phases and the requests.
LEMMA HandlersBasic ==
  ASSUME Basic, KeyboardInt_Handler \/ MouseInt_Handler
  PROVE  Basic' /\ SettledKept
  <1>1. kernel \in Kernels
    BY DEF Basic, Typed
  <1>2. CASE KeyboardInt_Handler
    <2>1. /\ handler.irq = 1 /\ handler.data # <<>> /\ ~kernel.off
          /\ kernel' = HandleKeyboard(kernel, handler.data[1])
          /\ PicType' /\ pic'.irr = pic.irr
          /\ kernel'.off => handler' = handler
          /\ ~kernel'.off => handler' = NoHandler
          /\ UNCHANGED <<controller, mouse, keyboard, disturbed>>
      BY <1>2, KeyboardIs DEF Basic
    <2>2. kernel' \in Kernels /\ kernel'.ip = kernel.ip /\ kernel'.skip = kernel.skip
      BY <1>1, <2>1, ReadBytes, KeyByteEffect DEF Basic
    <2>. QED  BY <2>1, <2>2, HandledBasic
  <1>3. CASE MouseInt_Handler
    <2>1. /\ handler.irq = 12 /\ handler.data # <<>>
          /\ kernel' = HandlePS2Mouse(kernel, handler.data[1])
          /\ PicType' /\ pic'.irr = pic.irr
          /\ handler' = NoHandler
          /\ UNCHANGED <<controller, mouse, keyboard, disturbed>>
      BY <1>3, MouseIs DEF Basic
    <2>2. /\ kernel' \in Kernels /\ kernel'.ip = kernel.ip /\ ~kernel'.skip
          /\ kernel'.off = kernel.off
      BY <1>1, <2>1, ReadBytes, MouseByteEffect DEF Basic
    <2>3. ~kernel.off
      BY <2>1 DEF Basic, Phases
    <2>4. kernel.skip \/ kernel'.skip = kernel.skip
      BY <1>1, <2>2 DEF Kernels
    <2>. QED  BY <2>1, <2>2, <2>3, <2>4, HandledBasic
  <1>. QED  BY <1>2, <1>3

\* They hold initially.
LEMMA InitBasic == ASSUME Init PROVE Basic
  <1>1. PICK packet \in [1 .. 3 -> Whats] : Initial(packet)
    BY InitIs
  <1>2. kernel.ip = 1 /\ ~kernel.off /\ handler = NoHandler
    BY <1>1 DEF Initial
  <1>3. Phases /\ Requested
    BY <1>2, NoHandlerIs DEF Phases, Requested
  <1>. QED  BY <1>3, InitTyped DEF Basic

\* Every step keeps them, and a settled kernel stays settled unless it switches off.
LEMMA BasicStep == ASSUME Basic, [Next]_vars PROVE Basic' /\ SettledKept
  <1>1. CASE Wait
    BY <1>1, WaitBasic
  <1>2. CASE Out
    BY <1>2, OutBasic
  <1>3. CASE In
    BY <1>3, InBasic
  <1>4. CASE EnableInterrupts
    BY <1>4, EnableBasic
  <1>5. CASE \E irq \in {1, 12} : Interrupt(irq)
    BY <1>5, InterruptBasic
  <1>6. CASE ReadData
    BY <1>6, ReadBasic
  <1>7. CASE KeyboardInt_Handler \/ MouseInt_Handler
    BY <1>7, HandlersBasic
  <1>8. CASE AcceptCommand
    BY <1>8, CommandBasic
  <1>9. CASE AcceptData
    BY <1>9, DataBasic
  <1>10. CASE LoadReply
    BY <1>10, ReplyBasic
  <1>11. CASE LoadKey \/ LoadMouse
    BY <1>11, LoadBasic
  <1>12. CASE \E key \in Keys : Press(key)
    BY <1>12, PressBasic
  <1>13. CASE Move
    BY <1>13, MoveBasic
  <1>14. CASE UNCHANGED vars
    <2>1. Basic'
      BY <1>14 DEF vars, Basic, Typed, PicType, MouseType, KeyboardType, HandlerType, Phases,
                   Written, Requested, Requests, Unread
    <2>2. SettledKept
      BY <1>14 DEF vars, SettledKept, Settled, Running, Requests, Unread
    <2>. QED  BY <2>1, <2>2
  <1>. QED  BY <1>1, <1>2, <1>3, <1>4, <1>5, <1>6, <1>7, <1>8, <1>9, <1>10, <1>11, <1>12,
               <1>13, <1>14
            DEF Next, KernelStep, ControllerStep

\* Once the interrupts are on, a byte the controller interrupts for has its request
\* pending or being served: no polling, stale request or acknowledgement of another
\* interrupt loses an edge of its line and so blocks both devices.
THEOREM InputRequests == Spec => []NoLostRequest
  <1>1. Init => Basic
    BY InitBasic
  <1>2. Basic /\ [Next]_vars => Basic'
    BY BasicStep
  <1>3. Basic => NoLostRequest
    <2>1. Basic /\ Running => kernel.ip > 5
      BY RunningIs DEF Basic
    <2>. QED  BY <2>1 DEF Basic, Requested, NoLostRequest
  <1>. QED  BY <1>1, <1>2, <1>3, PTL DEF Spec

\* Once the handlers took the boot's requests the kernel stays settled, unless the
\* keyboard's handler switches the machine off.
THEOREM InputSettles == Spec => SettledForGood
  <1>1. Init => Basic
    BY InitBasic
  <1>2. Basic /\ [Next]_vars => Basic' /\ [Settled => Settled' \/ kernel'.off]_vars
    BY BasicStep DEF SettledKept
  <1>. QED  BY <1>1, <1>2, PTL DEF Spec, SettledForGood

-----------------------------------------------------------------------------
(* The boot, if the devices are left alone and the controller answers.     *)

\* The boot starts with nothing on its way, if it is not disturbed from the start.
LEMMA InitBoot == ASSUME Init, ~disturbed PROVE Boot
  <1>1. PICK packet \in [1 .. 3 -> Whats] : Initial(packet)
    BY InitIs
  <1>2. /\ kernel.ip = 1 /\ ~kernel.off /\ handler = NoHandler /\ kernel.skip
        /\ controller.in = <<>> /\ ~controller.reply /\ ~controller.full
    <2>1. PICK byte : controller = [in |-> <<>>, next |-> "keyboard", irqs |-> {1}, on |-> {"keyboard"},
                                    reply |-> FALSE, full |-> disturbed, out |-> byte]
      BY <1>1 DEF Initial
    <2>. QED  BY <1>1, <2>1 DEF Initial
  <1>3. Untouched /\ mouse.queue = <<>>
    BY <1>1 DEF Initial, Untouched
  <1>4. ~Written
    BY <1>2 DEF Written
  <1>. QED  BY <1>2, <1>3, <1>4
            DEF Boot, Ordered, Configured, Answered, Directed, Empty, WaitsForStatus, WaitsForAck,
                Prefixed

\* Waiting goes on where the answer, or the room for the next byte, came.
LEMMA WaitBoot == ASSUME Basic, Boot, Wait, ~disturbed' PROVE Boot'
  <1>1. kernel.ip \in 1 .. 34 /\ (At("MouseWait") \/ At("MouseWaitInput"))
    BY AtIs DEF Wait, Basic
  <1>2. /\ kernel' \in Kernels /\ kernel'.ip = kernel.ip + 1
        /\ kernel'.status = kernel.status /\ kernel'.skip = kernel.skip
        /\ kernel'.mouseCycle = kernel.mouseCycle
        /\ kernel'.mousePacketReady = kernel.mousePacketReady
        /\ kernel'.shown = kernel.shown /\ kernel'.shift = kernel.shift
        /\ kernel'.off = kernel.off
    BY <1>1, GotoIs DEF Wait, Basic
  <1>3. UNCHANGED <<controller, pic, mouse, keyboard, handler>>
    BY DEF Wait
  <1>4. Written' = Written
    BY <1>3 DEF Written
  <1>5. CASE At("MouseWait")
    <2>1. ~Written
      BY <1>5 DEF Wait
    <2>2. kernel.ip \in {2, 6, 8, 10, 12, 16, 18, 22, 24, 28, 30}
      BY <1>1, <1>5, AtIs, Places DEF Basic
    <2>3. kernel'.ip \in {3, 7, 9, 11, 13, 17, 19, 23, 25, 29, 31}
      BY <1>2, <2>2
    <2>4. Untouched' /\ Empty' = Empty
      BY <1>2, <1>3 DEF Boot, Untouched, Empty
    <2>5. Empty
      BY <2>2 DEF Boot, Answered, WaitsForStatus, WaitsForAck
    <2>6. Ordered' /\ Configured' /\ Directed'
      BY <1>2, <1>3, <1>4, <2>1, <2>2, <2>3 DEF Boot, Ordered, Configured, Directed, Prefixed
    <2>7. Answered'
      BY <2>3, <2>4, <2>5 DEF Answered, WaitsForStatus, WaitsForAck
    <2>8. kernel'.ip <= 34
      BY <2>3
    <2>. QED  BY <1>2, <1>3, <2>4, <2>6, <2>7, <2>8 DEF Boot
  <1>6. CASE At("MouseWaitInput")
    <2>1. controller.full
      BY <1>6 DEF Wait
    <2>2. kernel.ip \in {4, 14, 20, 26, 32}
      BY <1>1, <1>6, AtIs, Places DEF Basic
    <2>3. kernel'.ip \in {5, 15, 21, 27, 33} /\ (kernel'.ip = 5 <=> kernel.ip = 4)
      BY <1>2, <2>2
    <2>4. Untouched' /\ (StatusComes' <=> StatusComes) /\ (AckComes' <=> AckComes)
      BY <1>2, <1>3, <1>4 DEF Boot, Untouched, StatusComes, AckComes
    <2>5. ~Written
      BY <2>1, <2>2 DEF Boot, Answered, StatusComes, AckComes, WaitsForStatus, WaitsForAck
    <2>6. Ordered' /\ Configured' /\ Directed'
      BY <1>2, <1>3, <1>4, <2>5, <2>2, <2>3 DEF Boot, Ordered, Configured, Directed, Prefixed
    <2>7. Answered'
      BY <1>3, <2>1, <2>2, <2>3, <2>4 DEF Boot, Answered, WaitsForStatus, WaitsForAck
    <2>8. kernel'.ip <= 34
      BY <2>3
    <2>. QED  BY <1>2, <1>3, <2>4, <2>6, <2>7, <2>8 DEF Boot
  <1>. QED  BY <1>1, <1>5, <1>6

\* Writing starts the command that the next instructions wait for.
LEMMA OutBoot == ASSUME Basic, Boot, Out PROVE Boot'
  <1>1. /\ kernel.ip \in 1 .. 34 /\ Program[kernel.ip].op \in {"0x64", "0x60"}
        /\ controller' \in Controllers /\ controller'.in = <<Program[kernel.ip]>>
        /\ controller'.next = controller.next
        /\ controller'.on = controller.on /\ controller'.reply = controller.reply
        /\ controller'.full = controller.full
    BY OutIs DEF Basic
  <1>2. /\ kernel'.ip = kernel.ip + 1 /\ kernel' \in Kernels
        /\ kernel'.status = kernel.status /\ kernel'.skip = kernel.skip
        /\ kernel'.mouseCycle = kernel.mouseCycle
        /\ kernel'.mousePacketReady = kernel.mousePacketReady
        /\ kernel'.shown = kernel.shown /\ kernel'.shift = kernel.shift
        /\ kernel'.off = kernel.off
    BY <1>1, GotoIs DEF Out, Basic
  <1>3. UNCHANGED <<pic, mouse, keyboard, handler>>
    BY DEF Out
  <1>4. kernel.ip \in {1, 3, 7, 9, 11, 13, 17, 19, 23, 25, 29, 31}
    BY <1>1, Places
  <1>5. /\ kernel'.ip \in {2, 4, 8, 10, 12, 14, 18, 20, 24, 26, 30, 32}
        /\ kernel'.ip - 1 = kernel.ip
    BY <1>2, <1>4
  <1>6. Written' /\ ~Written
    <2>1. ~Written
      BY <1>4 DEF Boot, Ordered
    <2>2. \A order : <<order>> # <<>>
      OBVIOUS
    <2>. QED  BY <1>1, <2>1, <2>2 DEF Written
  <1>7. Empty /\ Untouched'
    <2>1. kernel.ip \notin WaitsForStatus \cup WaitsForAck
      BY <1>4 DEF WaitsForStatus, WaitsForAck
    <2>. QED  BY <1>2, <1>3, <2>1 DEF Boot, Answered, Untouched
  <1>8. Ordered'
    BY <1>1, <1>5 DEF Ordered
  <1>9. Configured' /\ Directed'
    BY <1>1, <1>2, <1>4, <1>6 DEF Boot, Configured, Directed, Prefixed
  <1>10. kernel.ip \in {13, 19, 25, 31} => controller.next = "mouse"
    BY <1>6 DEF Boot, Directed, Prefixed
  <1>11. kernel'.ip \in WaitsForAck => kernel.ip \in {13, 19, 25, 31}
    BY <1>2, <1>4 DEF WaitsForAck
  <1>12. Empty' /\ (kernel'.ip \in WaitsForStatus => StatusComes')
         /\ (kernel'.ip \in WaitsForAck => AckComes')
    BY <1>1, <1>3, <1>6, <1>7, <1>10, <1>11 DEF Empty, StatusComes, AckComes
  <1>13. Answered'
    BY <1>5, <1>12 DEF Answered
  <1>14. kernel'.ip <= 34
    BY <1>5
  <1>. QED  BY <1>2, <1>3, <1>7, <1>8, <1>9, <1>13, <1>14 DEF Boot

\* Reading takes the answer, and leaves nothing on its way.
LEMMA InBoot == ASSUME Basic, Boot, In PROVE Boot'
  <1>1. /\ kernel.ip \in 1 .. 34 /\ Program[kernel.ip].op = "inb"
        /\ ControllerBecomes(Emptied)
        /\ kernel' \in Kernels /\ kernel'.ip = kernel.ip + 1
        /\ kernel'.skip = kernel.skip
        /\ kernel'.mouseCycle = kernel.mouseCycle
        /\ kernel'.mousePacketReady = kernel.mousePacketReady
        /\ kernel'.shown = kernel.shown /\ kernel'.shift = kernel.shift
        /\ kernel'.off = kernel.off
        /\ kernel.ip = 5 => kernel'.status = controller.out
    BY InIs DEF Basic
  <1>2. UNCHANGED <<mouse, keyboard, handler>>
    BY DEF In
  <1>3. /\ ~controller'.full /\ controller'.in = controller.in /\ controller'.on = controller.on
        /\ controller'.reply = controller.reply /\ controller'.out = controller.out
    BY <1>1, EmptiedIs DEF Basic
  <1>4. kernel.ip \in {5, 15, 21, 27, 33}
    BY <1>1, Places
  <1>5. /\ kernel'.ip \in {6, 16, 22, 28, 34}
        /\ kernel'.ip = 6 <=> kernel.ip = 5
        /\ kernel'.ip = 34 <=> kernel.ip = 33
    BY <1>1, <1>4
  <1>6. /\ controller.full
        /\ kernel.ip = 5 => StatusComes
        /\ kernel.ip # 5 => AckComes
    BY <1>4 DEF Boot, Answered, WaitsForStatus, WaitsForAck
  <1>7. /\ ~Written /\ ~controller.reply /\ mouse.queue = <<>>
        /\ kernel.ip = 5 => controller.out = StatusByte
        /\ kernel.ip # 5 => controller.out = AckByte
    BY <1>6 DEF StatusComes, AckComes
  <1>8. Untouched' /\ ~Written'
    BY <1>1, <1>2, <1>3, <1>7 DEF Boot, Untouched, Written
  <1>9. Empty'
    BY <1>2, <1>3, <1>7 DEF Empty
  <1>10. Ordered' /\ Directed'
    BY <1>5, <1>8 DEF Ordered, Directed, Prefixed
  <1>11. Configured'
    BY <1>1, <1>3, <1>4, <1>5, <1>7 DEF Boot, Configured
  <1>12. Answered'
    BY <1>3, <1>5, <1>7, <1>9 DEF Answered, WaitsForStatus, WaitsForAck
  <1>13. kernel'.ip <= 34
    BY <1>5
  <1>. QED  BY <1>1, <1>2, <1>8, <1>10, <1>11, <1>12, <1>13 DEF Boot

\* When the interrupts are enabled the last acknowledgement was read.
LEMMA EnableBoot == ASSUME Basic, Boot, EnableInterrupts PROVE Stale'
  <1>1. /\ kernel.ip = 34
        /\ kernel' \in Kernels /\ kernel'.ip = 35
        /\ kernel'.skip = kernel.skip
        /\ kernel'.mouseCycle = kernel.mouseCycle
        /\ kernel'.mousePacketReady = kernel.mousePacketReady
        /\ kernel'.shown = kernel.shown /\ kernel'.shift = kernel.shift
        /\ kernel'.off = kernel.off
        /\ UNCHANGED <<controller, pic, mouse, keyboard, handler, disturbed>>
    BY EnableIs DEF Basic
  <1>2. Untouched' /\ handler' = NoHandler /\ kernel'.skip
    BY <1>1 DEF Boot, Untouched
  <1>3. ~Written' /\ Empty' /\ controller'.out = AckByte
    BY <1>1 DEF Boot, Ordered, Answered, Written, Empty, WaitsForStatus, WaitsForAck
  <1>. QED  BY <1>1, <1>2, <1>3, NoHandlerIs DEF Stale

\* What the boot tells the controller and the mouse.
LEMMA OrderValues ==
  /\ Program[1].value = "A8" /\ Program[3].value = "20" /\ Program[7].value = "60"
  /\ \A i \in {11, 17, 23, 29} : Program[i].value = "D4"
  /\ \A i \in {13, 19, 25, 31} : Program[i].value # "status"
  /\ \A i \in {1, 3, 7, 11, 17, 23, 29} : Program[i].op = "0x64"
  /\ \A i \in {9, 13, 19, 25, 31} : Program[i].op = "0x60"
  BY ProgramIs DEF Instructions

\* The controller takes what the boot wrote, and answers.
LEMMA CommandBoot == ASSUME Basic, Boot, AcceptCommand PROVE Boot'
  <1>1. PICK order \in Orders, c \in Controllers :
          /\ controller.in = <<order>> /\ order.op = "0x64"
          /\ ControllerBecomes(c) /\ c.in = <<>>
          /\ c.full = controller.full /\ c.out = controller.out
          /\ c.on = IF order.value = "A8" THEN controller.on \cup {"mouse"} ELSE controller.on
          /\ c.reply <=> controller.reply \/ order.value = "20"
          /\ order.value = "60" => c.next = "status"
          /\ order.value = "D4" => c.next = "mouse"
    BY CommandEffect DEF Basic
  <1>2. UNCHANGED <<mouse, keyboard, kernel, handler>>
    BY DEF AcceptCommand
  <1>3. controller' = c
    BY <1>1 DEF ControllerBecomes
  <1>4. Written /\ ~Written'
    BY <1>1, <1>3 DEF AcceptCommand, Written
  <1>5. kernel.ip \in {2, 4, 8, 10, 12, 14, 18, 20, 24, 26, 30, 32}
    BY <1>4 DEF Boot, Ordered
  <1>6. order = Program[kernel.ip - 1]
    BY <1>1, <1>4 DEF Boot, Ordered
  <1>7. PICK i \in 1 .. 31 : i = kernel.ip - 1 /\ order = Program[i]
    BY <1>5, <1>6
  <1>8. /\ kernel.ip = 2 => order.value = "A8"
        /\ kernel.ip = 4 => order.value = "20"
        /\ kernel.ip = 8 => order.value = "60"
        /\ kernel.ip \in {12, 18, 24, 30} => order.value = "D4"
        /\ kernel.ip \notin {10, 14, 20, 26, 32}
    <2>1. /\ kernel.ip = 2 => i = 1
          /\ kernel.ip = 4 => i = 3
          /\ kernel.ip = 8 => i = 7
          /\ kernel.ip \in {12, 18, 24, 30} => i \in {11, 17, 23, 29}
          /\ kernel.ip \in {10, 14, 20, 26, 32} => i \in {9, 13, 19, 25, 31}
      BY <1>7
    <2>2. order = Program[i] /\ Program[i].op = "0x64"
      BY <1>1, <1>7
    <2>3. i \in {9, 13, 19, 25, 31} => Program[i].op # "0x64"
      BY OrderValues
    <2>4. /\ i = 1 => Program[i].value = "A8"
          /\ i = 3 => Program[i].value = "20"
          /\ i = 7 => Program[i].value = "60"
          /\ i \in {11, 17, 23, 29} => Program[i].value = "D4"
      BY OrderValues
    <2>. QED  BY <2>1, <2>2, <2>3, <2>4
  <1>9. kernel.ip \in {2, 4, 8, 12, 18, 24, 30}
    BY <1>5, <1>8
  <1>10. Untouched'
    BY <1>2 DEF Boot, Untouched
  <1>11. Ordered' /\ Configured'
    BY <1>1, <1>2, <1>3, <1>4, <1>8 DEF Boot, Ordered, Configured
  <1>12. Directed'
    BY <1>1, <1>2, <1>3, <1>8, <1>9 DEF Directed, Prefixed
  <1>13. Answered'
    <2>1. CASE kernel.ip = 4
      <3>1. ~controller.full /\ mouse.queue = <<>>
        BY <1>4, <2>1 DEF Boot, Answered, StatusComes, WaitsForStatus
      <3>2. StatusComes'
        BY <1>1, <1>2, <1>3, <1>4, <1>8, <2>1, <3>1 DEF StatusComes
      <3>. QED  BY <1>2, <2>1, <3>2 DEF Answered, WaitsForStatus, WaitsForAck
    <2>2. CASE kernel.ip # 4
      <3>1. order.value # "20"
        BY <1>8, <1>9, <2>2
      <3>2. kernel.ip \notin WaitsForStatus \cup WaitsForAck
        BY <1>9, <2>2 DEF WaitsForStatus, WaitsForAck
      <3>3. Empty'
        BY <1>1, <1>2, <1>3, <3>1, <3>2 DEF Boot, Answered, Empty
      <3>. QED  BY <1>2, <1>9, <3>2, <3>3 DEF Answered
    <2>. QED  BY <2>1, <2>2
  <1>. QED  BY <1>2, <1>10, <1>11, <1>12, <1>13 DEF Boot

\* The byte the controller takes goes where the command before it directed it.
LEMMA DataBoot == ASSUME Basic, Boot, AcceptData PROVE Boot'
  <1>1. PICK order \in Orders, c \in Controllers :
          /\ controller.in = <<order>> /\ order.op = "0x60"
          /\ ControllerBecomes(c) /\ c.in = <<>>
          /\ c.full = controller.full /\ c.out = controller.out /\ c.reply = controller.reply
          /\ order.value # "status" \/ kernel.status = StatusByte => c.on = controller.on
          /\ mouse'.count = mouse.count
          /\ controller.next # "mouse" => mouse' = mouse
          /\ controller.next = "mouse" /\ "mouse" \in controller.on
               => mouse'.queue = Append(mouse.queue, AckByte)
    BY DataEffect DEF Basic
  <1>2. UNCHANGED <<keyboard, kernel, handler>>
    BY DEF AcceptData
  <1>3. controller' = c
    BY <1>1 DEF ControllerBecomes
  <1>4. Written /\ ~Written'
    BY <1>1, <1>3 DEF AcceptData, Written
  <1>5. kernel.ip \in {2, 4, 8, 10, 12, 14, 18, 20, 24, 26, 30, 32}
    BY <1>4 DEF Boot, Ordered
  <1>6. order = Program[kernel.ip - 1]
    BY <1>1, <1>4 DEF Boot, Ordered
  <1>7. PICK i \in 1 .. 31 : i = kernel.ip - 1 /\ order = Program[i]
    BY <1>5, <1>6
  <1>8. /\ kernel.ip \notin {2, 4, 8, 12, 18, 24, 30}
        /\ kernel.ip \in {14, 20, 26, 32} => order.value # "status"
    <2>1. /\ kernel.ip \in {2, 4, 8, 12, 18, 24, 30} => i \in {1, 3, 7, 11, 17, 23, 29}
          /\ kernel.ip \in {14, 20, 26, 32} => i \in {13, 19, 25, 31}
      BY <1>7
    <2>2. order = Program[i] /\ Program[i].op = "0x60"
      BY <1>1, <1>7
    <2>3. i \in {1, 3, 7, 11, 17, 23, 29} => Program[i].op # "0x60"
      BY OrderValues
    <2>4. i \in {13, 19, 25, 31} => Program[i].value # "status"
      BY OrderValues
    <2>. QED  BY <2>1, <2>2, <2>3, <2>4
  <1>9. kernel.ip \in {10, 14, 20, 26, 32}
    BY <1>5, <1>8
  <1>10. c.on = controller.on
    <2>1. kernel.ip = 10 => kernel.status = StatusByte
      BY DEF Boot, Configured
    <2>. QED  BY <1>1, <1>8, <1>9, <2>1
  <1>11. Untouched'
    BY <1>1, <1>2 DEF Boot, Untouched
  <1>12. Ordered' /\ Configured'
    <2>1. "mouse" \in controller.on
      BY <1>9 DEF Boot, Configured
    <2>. QED  BY <1>2, <1>3, <1>4, <1>10, <2>1 DEF Boot, Ordered, Configured
  <1>13. Directed'
    BY <1>2, <1>4, <1>9 DEF Directed, Prefixed
  <1>14. Answered'
    <2>1. CASE kernel.ip = 10
      <3>1. controller.next = "status"
        BY <1>4, <2>1 DEF Boot, Directed
      <3>2. mouse' = mouse
        BY <1>1, <3>1
      <3>3. Empty'
        BY <1>1, <1>3, <2>1, <3>2 DEF Boot, Answered, Empty, WaitsForStatus, WaitsForAck
      <3>. QED  BY <1>2, <2>1, <3>3 DEF Answered, WaitsForStatus, WaitsForAck
    <2>2. CASE kernel.ip \in {14, 20, 26, 32}
      <3>1. /\ controller.next = "mouse" /\ ~controller.full /\ ~controller.reply
            /\ mouse.queue = <<>>
        BY <1>4, <2>2 DEF Boot, Answered, AckComes, WaitsForStatus, WaitsForAck
      <3>2. "mouse" \in controller.on
        BY <2>2 DEF Boot, Configured
      <3>3. mouse'.queue = <<AckByte>>
        <4>1. \A byte : Append(<<>>, byte) = <<byte>>
          OBVIOUS
        <4>. QED  BY <1>1, <3>1, <3>2, <4>1
      <3>4. AckComes'
        BY <1>1, <1>3, <1>4, <3>1, <3>3 DEF AckComes
      <3>. QED  BY <1>2, <2>2, <3>4 DEF Answered, WaitsForStatus, WaitsForAck
    <2>. QED  BY <1>9, <2>1, <2>2
  <1>. QED  BY <1>2, <1>11, <1>12, <1>13, <1>14 DEF Boot

\* The reply is the status that was asked for.
LEMMA ReplyBoot == ASSUME Basic, Boot, LoadReply PROVE Boot'
  <1>1. PICK c \in Controllers :
           /\ ControllerBecomes(c) /\ c.full /\ c.out = StatusByte /\ ~c.reply
           /\ c.in = controller.in /\ c.next = controller.next
           /\ c.on = controller.on
    BY ReplyEffect DEF Basic
  <1>2. /\ UNCHANGED <<mouse, keyboard, kernel, handler>>
        /\ controller.reply /\ ~controller.full
    BY DEF LoadReply
  <1>3. controller' = c
    BY <1>1 DEF ControllerBecomes
  <1>4. kernel.ip = 4
    BY <1>2 DEF Boot, Answered, Empty, AckComes, WaitsForStatus
  <1>5. ~Written /\ mouse.queue = <<>>
    BY <1>2, <1>4 DEF Boot, Answered, StatusComes, WaitsForStatus
  <1>6. ~Written'
    BY <1>1, <1>3, <1>5 DEF Written
  <1>7. StatusComes'
    BY <1>1, <1>2, <1>3, <1>5, <1>6 DEF StatusComes
  <1>8. Answered'
    BY <1>2, <1>4, <1>7 DEF Answered, WaitsForStatus, WaitsForAck
  <1>9. Untouched'
    BY <1>2 DEF Boot, Untouched
  <1>10. Ordered' /\ Configured' /\ Directed'
    BY <1>1, <1>2, <1>3, <1>4, <1>6 DEF Boot, Ordered, Configured, Directed, Prefixed
  <1>. QED  BY <1>2, <1>8, <1>9, <1>10 DEF Boot

\* What is loaded during boot is the mouse's acknowledgement.
LEMMA LoadBoot == ASSUME Basic, Boot, LoadKey \/ LoadMouse PROVE Boot'
  <1>1. keyboard.queue = <<>>
    BY DEF Boot, Untouched
  <1>2. LoadMouse
    BY <1>1 DEF LoadKey
  <1>3. /\ UNCHANGED <<keyboard, kernel, handler>> /\ ~controller.full
        /\ mouse.queue # <<>> /\ mouse.queue \in Seq(AnyByte)
        /\ ControllerBecomes(Filled(Head(mouse.queue)))
        /\ mouse' = [mouse EXCEPT !.queue = Tail(@)]
    BY <1>2 DEF LoadMouse, Basic, Typed, MouseType
  <1>4. /\ controller'.full /\ controller'.out = mouse.queue[1]
        /\ controller'.in = controller.in /\ controller'.next = controller.next
        /\ controller'.on = controller.on /\ controller'.reply = controller.reply
    BY <1>3, LoadEffect DEF Basic
  <1>5. kernel.ip \in WaitsForAck
    BY <1>3 DEF Boot, Answered, Empty, StatusComes
  <1>6. ~controller.reply /\ ~Written /\ mouse.queue = <<AckByte>>
    BY <1>3, <1>5 DEF Boot, Answered, AckComes
  <1>7. controller'.out = AckByte /\ mouse'.queue = <<>> /\ mouse'.count = mouse.count
    <2>1. \A byte : <<byte>>[1] = byte /\ Tail(<<byte>>) = <<>>
      OBVIOUS
    <2>. QED  BY <1>3, <1>4, <1>6, <2>1 DEF Basic, Typed, MouseType
  <1>8. ~Written'
    BY <1>4, <1>6 DEF Written
  <1>9. AckComes'
    BY <1>4, <1>6, <1>7, <1>8 DEF AckComes
  <1>10. Answered'
    BY <1>3, <1>4, <1>5, <1>9 DEF Answered, WaitsForStatus, WaitsForAck
  <1>11. Untouched'
    BY <1>3, <1>7 DEF Boot, Untouched
  <1>12. Ordered' /\ Configured' /\ Directed'
    BY <1>3, <1>4, <1>5, <1>6, <1>8
       DEF Boot, Ordered, Configured, Directed, Prefixed, WaitsForAck
  <1>. QED  BY <1>3, <1>10, <1>11, <1>12 DEF Boot

-----------------------------------------------------------------------------
(* The requests the boot left behind.                                      *)

\* No instruction is left when the interrupts are on.
LEMMA RunningOnly ==
  ASSUME Basic, kernel.ip = 35
  PROVE  ~Wait /\ ~Out /\ ~In /\ ~EnableInterrupts
  <1>1. \A op : ~At(op)
    BY AtIs DEF Basic
  <1>. QED  BY <1>1 DEF Wait, Out, In, EnableInterrupts

\* The devices are used while the kernel has not settled.
LEMMA UsedTooEarly ==
  ASSUME ~Settled, Move \/ \E key \in Keys : Press(key)
  PROVE  disturbed'
  BY DEF Press, Move

\* Before the first byte was skipped the kernel has not settled.
LEMMA SkippedNotSettled == ASSUME kernel.skip PROVE ~Settled
  BY DEF Settled

\* Delivering a request of the boot.
LEMMA StaleInterrupt ==
  ASSUME Basic, Stale, NEW irq \in {1, 12}, Interrupt(irq)
  PROVE  Stale'
  <1>1. /\ irq \in pic.irr /\ (irq = 1 \/ 1 \notin pic.irr)
        /\ handler'.irq = irq /\ handler'.data = <<>>
        /\ pic'.irr = pic.irr \ {irq}
        /\ UNCHANGED <<controller, mouse, keyboard, kernel, disturbed>>
    BY InterruptIs DEF Basic
  <1>2. irq = 12 => pic'.irr = {}
    BY <1>1 DEF Basic, Typed, PicType
  <1>. QED  BY <1>1, <1>2 DEF Stale, Untouched, Empty, Written

\* Its handler reads the last acknowledgement again.
LEMMA StaleRead == ASSUME Basic, Stale, ReadData PROVE Stale'
  <1>1. /\ ControllerBecomes(Emptied) /\ handler'.irq = handler.irq
        /\ handler'.data = <<controller.out>>
        /\ UNCHANGED <<mouse, keyboard, kernel, disturbed>>
    BY ReadIs DEF Basic
  <1>2. /\ ~controller'.full /\ controller'.in = controller.in
        /\ controller'.reply = controller.reply /\ controller'.out = controller.out
        /\ pic'.irr = pic.irr
    BY <1>1, EmptiedIs DEF Basic
  <1>. QED  BY <1>1, <1>2 DEF Stale, Untouched, Empty, Written

\* The keyboard's handler ignores it.
LEMMA StaleKeyboard == ASSUME Basic, Stale, KeyboardInt_Handler PROVE Stale'
  <1>1. /\ handler.data # <<>> /\ ~kernel.off
        /\ kernel' = HandleKeyboard(kernel, handler.data[1])
        /\ ~kernel'.off => handler' = NoHandler
        /\ UNCHANGED <<controller, mouse, keyboard, disturbed>>
    BY KeyboardIs DEF Basic
  <1>2. handler.data[1] = AckByte
    BY <1>1 DEF Stale
  <1>3. /\ kernel'.ip = kernel.ip /\ kernel'.skip = kernel.skip
        /\ kernel'.mouseCycle = kernel.mouseCycle
        /\ kernel'.mousePacketReady = kernel.mousePacketReady /\ kernel'.shown = kernel.shown
        /\ kernel'.shift = Known(kernel.shift, AckByte)
        /\ kernel'.off <=> kernel.off \/ AckByte = Byte("Escape", TRUE)
    BY <1>1, <1>2, AckIs, KeyByteEffect DEF Basic, Typed
  <1>4. Known(kernel.shift, AckByte) = kernel.shift
    BY AckIs DEF Known, Shifts
  <1>5. AckByte # Byte("Escape", TRUE)
    BY DEF AckByte, Byte
  <1>6. Untouched' /\ handler' = NoHandler
    BY <1>1, <1>3, <1>4, <1>5 DEF Stale, Untouched
  <1>7. Empty' /\ ~Written' /\ controller'.out = AckByte
    BY <1>1 DEF Stale, Empty, Written
  <1>. QED  BY <1>3, <1>6, <1>7, NoHandlerIs DEF Stale

\* The first byte is dropped: it is the last request of the boot.
LEMMA StaleMouse == ASSUME Basic, Stale, MouseInt_Handler PROVE Flow'
  <1>1. /\ handler.irq = 12 /\ handler.data # <<>>
        /\ kernel' = HandlePS2Mouse(kernel, handler.data[1])
        /\ pic'.irr = pic.irr /\ handler' = NoHandler
        /\ UNCHANGED <<controller, mouse, keyboard, disturbed>>
    BY MouseIs DEF Basic
  <1>2. handler.data[1] \in AnyByte /\ kernel \in Kernels /\ kernel.skip
    BY <1>1, ReadBytes DEF Basic, Typed, Stale
  <1>3. /\ kernel'.ip = kernel.ip /\ kernel'.shift = kernel.shift /\ kernel'.off = kernel.off
        /\ ~kernel'.skip
        /\ kernel'.shown = kernel.shown + One(kernel.mousePacketReady)
        /\ kernel'.mouseCycle = kernel.mouseCycle /\ ~kernel'.mousePacketReady
    BY <1>1, <1>2, MouseByteEffect
  <1>4. /\ kernel'.ip = 35 /\ ~kernel'.off /\ kernel'.shift = {}
        /\ kernel'.mouseCycle = 0 /\ kernel'.shown = 0 /\ mouse'.count = 0
        /\ keyboard'.queue = <<>> /\ keyboard'.down = {} /\ mouse'.queue = <<>>
        /\ ~controller'.full /\ ~controller'.reply /\ ~Written' /\ pic'.irr = {}
    BY <1>1, <1>3 DEF Stale, Untouched, Empty, One, Written
  <1>5. Running'
    BY <1>4, ProgramIs DEF Running, Instructions
  <1>6. Unread' = {} /\ Lines(controller') = {}
    BY <1>1, <1>4, NoHandlerIs DEF Unread, Lines
  <1>7. Settled'
    BY <1>3, <1>4, <1>5, <1>6 DEF Settled, Requests
  <1>8. /\ ~Holds(12)' /\ ~Offers(12)' /\ ~Holds(1)' /\ ~Offers(1)'
    BY <1>1, <1>4, NoHandlerIs DEF Holds, Offers
  <1>9. MouseFlow'
    <2>1. SendPlace' = 0
      BY <1>4, <1>8 DEF SendPlace, LoadPlace
    <2>2. QueueFits'
      BY <1>4, <2>1 DEF QueueFits
    <2>. QED  BY <1>3, <1>4, <1>8, <2>2 DEF MouseFlow, One
  <1>10. KeyFlow'
    <2>1. \A key : Told(keyboard.queue, KnownByBuffer, key)'
      BY <1>4, <1>8 DEF Told, KnownByBuffer, KnownByHandler
    <2>. QED  BY <1>4, <1>8, <2>1 DEF KeyFlow
  <1>. QED  BY <1>4, <1>7, <1>9, <1>10 DEF Flow

-----------------------------------------------------------------------------
(* The settled kernel.                                                     *)

\* One byte of the queue about the keys goes on its way.
LEMMA ToldTail ==
  ASSUME NEW queue \in Seq(AnyByte), queue # <<>>, NEW known, NEW key \in Shifts,
         Told(queue, known, key)
  PROVE  Told(Tail(queue), Known(known, queue[1]), key)
  <1>. DEFINE rest == Tail(queue)
              n == Len(queue)
  <1>1. /\ n \in Nat \ {0} /\ Len(rest) = n - 1
        /\ \A i \in 1 .. n - 1 : rest[i] = queue[i + 1]
        /\ queue[1] \in AnyByte
    BY HeadOfQueue
  <1>. HIDE DEF rest, n
  <1>2. /\ \A i \in 1 .. n :
             queue[i].what = key /\ (\A j \in 1 .. n : j > i => queue[j].what # key)
               => (queue[i].flag <=> key \in keyboard.down)
        /\ (\A i \in 1 .. n : queue[i].what # key) => (key \in known <=> key \in keyboard.down)
    BY DEF Told, n
  <1>3. ASSUME NEW i \in 1 .. n - 1, rest[i].what = key,
               \A j \in 1 .. n - 1 : j > i => rest[j].what # key
        PROVE  rest[i].flag <=> key \in keyboard.down
    <2>1. i + 1 \in 1 .. n /\ rest[i] = queue[i + 1]
      BY <1>1
    <2>2. ASSUME NEW j \in 1 .. n, j > i + 1 PROVE queue[j].what # key
      <3>1. j - 1 \in 1 .. n - 1 /\ j - 1 > i /\ (j - 1) + 1 = j
        BY <1>1, <2>2
      <3>. QED  BY <1>1, <1>3, <3>1
    <2>. QED  BY <1>2, <1>3, <2>1, <2>2
  <1>4. ASSUME \A i \in 1 .. n - 1 : rest[i].what # key
        PROVE  key \in Known(known, queue[1]) <=> key \in keyboard.down
    <2>1. ASSUME NEW j \in 1 .. n, j > 1 PROVE queue[j].what # key
      <3>1. j - 1 \in 1 .. n - 1 /\ (j - 1) + 1 = j
        BY <1>1, <2>1
      <3>. QED  BY <1>1, <1>4, <3>1
    <2>2. 1 \in 1 .. n
      BY <1>1
    <2>3. CASE queue[1].what = key
      <3>1. queue[1].flag <=> key \in keyboard.down
        BY <1>2, <2>1, <2>2, <2>3
      <3>. QED  BY <1>1, <2>3, <3>1 DEF Known
    <2>4. CASE queue[1].what # key
      <3>1. \A i \in 1 .. n : queue[i].what # key
        <4>1. \A i \in 1 .. n : i = 1 \/ i > 1
          BY <1>1
        <4>. QED  BY <2>1, <2>4, <4>1
      <3>. QED  BY <1>2, <2>4, <3>1 DEF Known
    <2>. QED  BY <2>3, <2>4
  <1>. QED  BY <1>1, <1>3, <1>4 DEF Told, rest

\* A key is pressed or released.
LEMMA ToldAppend ==
  ASSUME NEW queue \in Seq(AnyByte), NEW known, NEW key \in Shifts, NEW byte \in AnyByte,
         Told(queue, known, key),
         byte.what = key => (byte.flag <=> key \in keyboard'.down),
         byte.what # key => (key \in keyboard'.down <=> key \in keyboard.down)
  PROVE  LET longer == Append(queue, byte)
         IN  /\ \A i \in 1 .. Len(longer) :
                  longer[i].what = key /\ (\A j \in 1 .. Len(longer) : j > i => longer[j].what # key)
                    => (longer[i].flag <=> key \in keyboard'.down)
             /\ (\A i \in 1 .. Len(longer) : longer[i].what # key)
                  => (key \in known <=> key \in keyboard'.down)
  <1>. DEFINE longer == Append(queue, byte)
              n == Len(queue)
  <1>1. /\ n \in Nat /\ Len(longer) = n + 1
        /\ \A i \in 1 .. n : longer[i] = queue[i]
        /\ longer[n + 1] = byte
    BY AppendProperties, LenProperties
  <1>. HIDE DEF longer, n
  <1>2. /\ \A i \in 1 .. n :
             queue[i].what = key /\ (\A j \in 1 .. n : j > i => queue[j].what # key)
               => (queue[i].flag <=> key \in keyboard.down)
        /\ (\A i \in 1 .. n : queue[i].what # key) => (key \in known <=> key \in keyboard.down)
    BY DEF Told, n
  <1>3. n + 1 \in 1 .. n + 1 /\ \A i \in 1 .. n : i \in 1 .. n + 1 /\ i < n + 1
    BY <1>1
  <1>4. ASSUME NEW i \in 1 .. n + 1, longer[i].what = key,
               \A j \in 1 .. n + 1 : j > i => longer[j].what # key
        PROVE  longer[i].flag <=> key \in keyboard'.down
    <2>1. CASE i = n + 1
      BY <1>1, <1>4, <2>1
    <2>2. CASE i # n + 1
      <3>1. i \in 1 .. n /\ n + 1 > i
        BY <1>1, <2>2
      <3>2. byte.what # key
        BY <1>1, <1>3, <1>4, <3>1
      <3>3. \A j \in 1 .. n : j > i => queue[j].what # key
        BY <1>1, <1>3, <1>4
      <3>. QED  BY <1>1, <1>2, <1>4, <3>1, <3>2, <3>3
    <2>. QED  BY <2>1, <2>2
  <1>5. ASSUME \A i \in 1 .. n + 1 : longer[i].what # key
        PROVE  key \in known <=> key \in keyboard'.down
    <2>1. byte.what # key
      BY <1>1, <1>3, <1>5
    <2>2. \A i \in 1 .. n : queue[i].what # key
      BY <1>1, <1>3, <1>5
    <2>. QED  BY <1>2, <2>1, <2>2
  <1>. QED  BY <1>1, <1>4, <1>5 DEF longer

\* The bytes of the mouse, and those of the keys, come with their own interrupts.
LEMMA KeyRequests ==
  ASSUME NEW b \in AnyByte, KeyByte(b)
  PROVE  IRQ(b) = 1
  BY KeysType DEF KeyByte, IRQ

\* A byte of a packet comes with the mouse's request, the first one with bit 3.
LEMMA PacketRequests ==
  ASSUME NEW b \in AnyByte, NEW n \in {0, 1, 2}, Fits(b, n)
  PROVE  IRQ(b) = 12 /\ (n = 0 => Bit3(b))
  BY DEF Fits, Packet, IRQ, Bit3

\* What the mouse still sends, by the place of its first byte.
LEMMA QueueIs ==
  ASSUME QueueFits, mouse.queue # <<>>
  PROVE  /\ SendPlace \in {0, 1, 2}
         /\ Fits(mouse.queue[1], SendPlace)
         /\ SendPlace = 2 <=> Tail(mouse.queue) = <<>>
         /\ \/ After(SendPlace) = 0 /\ Tail(mouse.queue) = <<>>
            \/ \E bit3 \in BOOLEAN :
                 \/ After(SendPlace) = 1 /\ Tail(mouse.queue) = <<Byte("dx", bit3), Byte("dy", bit3)>>
                 \/ After(SendPlace) = 2 /\ Tail(mouse.queue) = <<Byte("dy", bit3)>>
  <1>1. \A a, b, c : /\ Tail(<<a, b, c>>) = <<b, c>> /\ <<b, c>> # <<>> /\ <<a, b, c>>[1] = a
                     /\ Tail(<<b, c>>) = <<c>> /\ <<c>> # <<>> /\ <<b, c>>[1] = b
                     /\ Tail(<<c>>) = <<>> /\ <<c>>[1] = c
    OBVIOUS
  <1>2. /\ Fits(Byte("head", TRUE), 0)
        /\ \A bit3 : Fits(Byte("dx", bit3), 1) /\ Fits(Byte("dy", bit3), 2)
    BY DEF Fits, Byte, Packet
  <1>3. PICK bit3 \in BOOLEAN :
          \/ SendPlace = 0 /\ mouse.queue = <<Byte("head", TRUE), Byte("dx", bit3), Byte("dy", bit3)>>
          \/ SendPlace = 1 /\ mouse.queue = <<Byte("dx", bit3), Byte("dy", bit3)>>
          \/ SendPlace = 2 /\ mouse.queue = <<Byte("dy", bit3)>>
    BY DEF QueueFits
  <1>. DEFINE head == Byte("head", TRUE)
              dx == Byte("dx", bit3)
              dy == Byte("dy", bit3)
  <1>. HIDE DEF head, dx, dy
  <1>4. CASE SendPlace = 0 /\ mouse.queue = <<head, dx, dy>>
    <2>1. Tail(mouse.queue) = <<dx, dy>> /\ mouse.queue[1] = head /\ <<dx, dy>> # <<>>
      BY <1>1, <1>4
    <2>2. After(SendPlace) = 1 /\ SendPlace # 2
      BY <1>4 DEF After
    <2>3. Fits(head, SendPlace) /\ Tail(mouse.queue) # <<>>
      BY <1>2, <1>4, <2>1 DEF head
    <2>4. Tail(mouse.queue) = <<Byte("dx", bit3), Byte("dy", bit3)>>
      BY <2>1 DEF dx, dy
    <2>. QED  BY <1>4, <2>1, <2>2, <2>3, <2>4
  <1>5. CASE SendPlace = 1 /\ mouse.queue = <<dx, dy>>
    <2>1. Tail(mouse.queue) = <<dy>> /\ mouse.queue[1] = dx /\ <<dy>> # <<>>
      BY <1>1, <1>5
    <2>. QED  BY <1>2, <1>5, <2>1 DEF After, dx, dy
  <1>6. CASE SendPlace = 2 /\ mouse.queue = <<dy>>
    <2>1. Tail(mouse.queue) = <<>> /\ mouse.queue[1] = dy
      BY <1>1, <1>6
    <2>. QED  BY <1>2, <1>6, <2>1 DEF After, dy
  <1>. QED  BY <1>3, <1>4, <1>5, <1>6 DEF head, dx, dy

\* Places.
LEMMA PlacesIn ==
  ASSUME Typed
  PROVE  /\ kernel.mouseCycle \in {0, 1, 2} /\ LoadPlace \in {0, 1, 2} /\ SendPlace \in {0, 1, 2}
  BY DEF Typed, Kernels, LoadPlace, SendPlace, After

\* Loading a key's byte moves it from its queue to the output buffer.
LEMMA FlowLoadKey ==
  ASSUME Basic, Flow, LoadKey
  PROVE  ~controller'.reply /\ ~Written' /\ MouseFlow' /\ KeyFlow'
  <1>. DEFINE queue == keyboard.queue
  <1>1. /\ UNCHANGED <<mouse, kernel, handler, disturbed>> /\ ~controller.full
        /\ queue # <<>> /\ queue \in Seq(AnyByte)
        /\ ControllerBecomes(Filled(Head(queue)))
        /\ keyboard' = [keyboard EXCEPT !.queue = Tail(queue)]
    BY DEF LoadKey, Basic, Typed, KeyboardType
  <1>2. keyboard'.queue = Tail(queue) /\ keyboard'.down = keyboard.down
    BY <1>1 DEF Basic, Typed, KeyboardType
  <1>. HIDE DEF queue
  <1>3. /\ controller'.full /\ controller'.out = queue[1]
        /\ controller'.in = controller.in /\ controller'.reply = controller.reply
    BY <1>1, LoadEffect DEF Basic
  <1>4. ~controller'.reply /\ ~Written'
    BY <1>3 DEF Flow, Written
  <1>5. /\ queue[1] \in AnyByte /\ Len(queue) \in Nat \ {0}
        /\ Len(Tail(queue)) = Len(queue) - 1
        /\ \A i \in 1 .. Len(queue) - 1 : Tail(queue)[i] = queue[i + 1]
    BY <1>1, HeadOfQueue
  <1>6. \A i \in 1 .. Len(queue) : KeyByte(queue[i])
    BY DEF Flow, KeyFlow, queue
  <1>7. KeyByte(queue[1]) /\ IRQ(queue[1]) = 1
    BY <1>5, <1>6, KeyRequests
  <1>8. /\ ~Offers(1) /\ ~Offers(12) /\ Offers(1)' /\ ~Offers(12)'
        /\ Holds(1)' = Holds(1) /\ Holds(12)' = Holds(12)
    BY <1>1, <1>3, <1>7 DEF Offers, Holds
  <1>9. MouseFlow'
    <2>1. LoadPlace' = LoadPlace /\ SendPlace' = SendPlace
      BY <1>1, <1>8 DEF LoadPlace, SendPlace
    <2>2. QueueFits'
      BY <1>1, <2>1 DEF Flow, MouseFlow, QueueFits
    <2>. QED  BY <1>1, <1>8, <2>1, <2>2 DEF Flow, MouseFlow
  <1>10. KeyFlow'
    <2>1. KnownByHandler' = KnownByHandler
      BY <1>1, <1>8 DEF KnownByHandler
    <2>2. KnownByBuffer = KnownByHandler /\ KnownByBuffer' = Known(KnownByHandler, queue[1])
      BY <1>3, <1>8, <2>1 DEF KnownByBuffer
    <2>3. ASSUME NEW key \in Shifts
          PROVE  Told(keyboard.queue, KnownByBuffer, key)'
      <3>. DEFINE known == KnownByBuffer
      <3>1. Told(queue, known, key)
        BY DEF Flow, KeyFlow, queue
      <3>. HIDE DEF known
      <3>2. Told(Tail(queue), Known(known, queue[1]), key)
        BY <1>1, <3>1, ToldTail
      <3>. QED  BY <1>2, <2>2, <3>2 DEF Told, known
    <2>4. \A i \in 1 .. Len(keyboard'.queue) : KeyByte(keyboard'.queue[i])
      <3>1. \A i \in 1 .. Len(queue) - 1 : i + 1 \in 1 .. Len(queue)
        BY <1>5
      <3>. QED  BY <1>2, <1>5, <1>6, <3>1
    <2>. QED  BY <1>1, <1>3, <1>7, <1>8, <2>3, <2>4 DEF Flow, KeyFlow
  <1>. QED  BY <1>4, <1>9, <1>10

\* Loading the mouse's next byte moves it on, at its place.
LEMMA FlowLoadMouse ==
  ASSUME Basic, Flow, LoadMouse
  PROVE  ~controller'.reply /\ ~Written' /\ MouseFlow' /\ KeyFlow'
  <1>. DEFINE queue == mouse.queue
  <1>1. /\ UNCHANGED <<keyboard, kernel, handler, disturbed>> /\ ~controller.full
        /\ queue # <<>> /\ queue \in Seq(AnyByte)
        /\ ControllerBecomes(Filled(Head(queue)))
        /\ mouse' = [mouse EXCEPT !.queue = Tail(queue)]
    BY DEF LoadMouse, Basic, Typed, MouseType
  <1>2. mouse'.queue = Tail(queue) /\ mouse'.count = mouse.count
    BY <1>1 DEF Basic, Typed, MouseType
  <1>3. QueueFits /\ mouse.queue # <<>>
    BY <1>1 DEF Flow, MouseFlow
  <1>4. /\ SendPlace \in {0, 1, 2}
        /\ Fits(queue[1], SendPlace)
        /\ SendPlace = 2 <=> Tail(queue) = <<>>
        /\ \/ After(SendPlace) = 0 /\ Tail(queue) = <<>>
           \/ \E bit3 \in BOOLEAN :
                \/ After(SendPlace) = 1 /\ Tail(queue) = <<Byte("dx", bit3), Byte("dy", bit3)>>
                \/ After(SendPlace) = 2 /\ Tail(queue) = <<Byte("dy", bit3)>>
    BY <1>3, QueueIs
  <1>. HIDE DEF queue
  <1>5. /\ controller'.full /\ controller'.out = queue[1]
        /\ controller'.in = controller.in /\ controller'.reply = controller.reply
    BY <1>1, LoadEffect DEF Basic
  <1>6. ~controller'.reply /\ ~Written'
    BY <1>5 DEF Flow, Written
  <1>7. queue[1] \in AnyByte
    BY <1>1, HeadOfQueue
  <1>8. IRQ(queue[1]) = 12
    BY <1>4, <1>7, PacketRequests
  <1>9. /\ ~Offers(1) /\ ~Offers(12) /\ ~Offers(1)' /\ Offers(12)'
        /\ Holds(1)' = Holds(1) /\ Holds(12)' = Holds(12)
    BY <1>1, <1>5, <1>8 DEF Offers, Holds
  <1>10. LoadPlace' = LoadPlace /\ SendPlace = LoadPlace /\ SendPlace' = After(LoadPlace)
    BY <1>1, <1>9 DEF LoadPlace, SendPlace
  <1>11. MouseFlow'
    <2>1. QueueFits'
      BY <1>2, <1>4, <1>10 DEF QueueFits
    <2>2. Fits(controller'.out, LoadPlace')
      BY <1>4, <1>5, <1>10
    <2>3. One(Offers(12) /\ LoadPlace = 2) = 0 /\ One(mouse.queue # <<>>) = 1
      BY <1>3, <1>9 DEF One
    <2>4. One(Offers(12) /\ LoadPlace = 2)' + One(mouse.queue # <<>>)' = 1
      BY <1>2, <1>4, <1>9, <1>10 DEF One
    <2>5. One(Holds(12) /\ kernel.mouseCycle = 2)' = One(Holds(12) /\ kernel.mouseCycle = 2)
      BY <1>1, <1>9
    <2>. DEFINE total == kernel.shown + One(kernel.mousePacketReady)
                           + One(Holds(12) /\ kernel.mouseCycle = 2)
    <2>6. /\ mouse.count = total + One(Offers(12) /\ LoadPlace = 2) + One(mouse.queue # <<>>)
          /\ total' = total /\ total \in Nat
      BY <1>1, <2>5 DEF Flow, MouseFlow, Basic, Typed, Kernels, One
    <2>7. /\ One(Offers(12) /\ LoadPlace = 2)' \in Nat /\ One(mouse.queue # <<>>)' \in Nat
      BY DEF One
    <2>. HIDE DEF total
    <2>8. mouse'.count = total' + One(Offers(12) /\ LoadPlace = 2)' + One(mouse.queue # <<>>)'
      BY <1>2, <2>3, <2>4, <2>6, <2>7
    <2>. QED  BY <1>1, <1>9, <2>1, <2>2, <2>8 DEF Flow, MouseFlow, total
  <1>12. KeyFlow'
    <2>1. KnownByHandler' = KnownByHandler
      BY <1>1, <1>9 DEF KnownByHandler
    <2>2. KnownByBuffer' = KnownByBuffer
      BY <1>9, <2>1 DEF KnownByBuffer
    <2>. QED  BY <1>1, <1>9, <2>2 DEF Flow, KeyFlow, Told
  <1>. QED  BY <1>6, <1>11, <1>12

\* A key's byte joins the others of its queue.
LEMMA FlowPress ==
  ASSUME Basic, Flow, NEW pressed \in Keys, Press(pressed)
  PROVE  ~controller'.reply /\ ~Written' /\ MouseFlow' /\ KeyFlow'
  <1>. DEFINE queue == keyboard.queue
              byte == Byte(pressed, pressed \notin keyboard.down)
  <1>1. /\ UNCHANGED <<controller, pic, mouse, kernel, handler>>
        /\ keyboard'.queue = Append(queue, byte)
        /\ keyboard'.down = IF pressed \in keyboard.down THEN keyboard.down \ {pressed}
                            ELSE keyboard.down \cup {pressed}
    BY DEF Press
  <1>2. queue \in Seq(AnyByte)
    BY DEF Basic, Typed, KeyboardType
  <1>3. byte \in AnyByte /\ byte.what = pressed /\ (byte.flag <=> pressed \notin keyboard.down)
    BY KeysType, ByteType
  <1>. HIDE DEF queue, byte
  <1>4. ~controller'.reply /\ ~Written'
    BY <1>1 DEF Flow, Written
  <1>5. MouseFlow'
    BY <1>1 DEF Flow, MouseFlow, QueueFits, SendPlace, LoadPlace, Holds, Offers
  <1>6. KnownByBuffer' = KnownByBuffer
    BY <1>1 DEF KnownByBuffer, KnownByHandler, Holds, Offers
  <1>7. ASSUME NEW key \in Shifts
        PROVE  Told(keyboard.queue, KnownByBuffer, key)'
    <2>. DEFINE known == KnownByBuffer
    <2>1. Told(queue, known, key)
      BY DEF Flow, KeyFlow, queue
    <2>2. /\ byte.what = key => (byte.flag <=> key \in keyboard'.down)
          /\ byte.what # key => (key \in keyboard'.down <=> key \in keyboard.down)
      BY <1>1, <1>3
    <2>. HIDE DEF known
    <2>. DEFINE longer == Append(queue, byte)
    <2>3. /\ \A i \in 1 .. Len(longer) :
               longer[i].what = key /\ (\A j \in 1 .. Len(longer) : j > i => longer[j].what # key)
                 => (longer[i].flag <=> key \in keyboard'.down)
          /\ (\A i \in 1 .. Len(longer) : longer[i].what # key)
               => (key \in known <=> key \in keyboard'.down)
      BY <1>2, <1>3, <2>1, <2>2, ToldAppend
    <2>. HIDE DEF longer
    <2>4. keyboard'.queue = longer /\ KnownByBuffer' = known
      BY <1>1, <1>6 DEF longer, known
    <2>. QED  BY <2>3, <2>4 DEF Told
  <1>8. \A i \in 1 .. Len(keyboard'.queue) : KeyByte(keyboard'.queue[i])
    <2>1. \A i \in 1 .. Len(queue) : KeyByte(queue[i])
      BY DEF Flow, KeyFlow, queue
    <2>2. KeyByte(byte)
      BY <1>3 DEF KeyByte
    <2>3. /\ Len(queue) \in Nat /\ Len(Append(queue, byte)) = Len(queue) + 1
          /\ \A i \in 1 .. Len(queue) : Append(queue, byte)[i] = queue[i]
          /\ Append(queue, byte)[Len(queue) + 1] = byte
      BY <1>2, <1>3, AppendProperties, LenProperties
    <2>4. \A i \in 1 .. Len(queue) + 1 : i \in 1 .. Len(queue) \/ i = Len(queue) + 1
      BY <2>3
    <2>. QED  BY <1>1, <2>1, <2>2, <2>3, <2>4
  <1>9. KeyFlow'
    BY <1>1, <1>7, <1>8 DEF Flow, KeyFlow, Holds, Offers
  <1>. QED  BY <1>4, <1>5, <1>9

\* A movement sends a packet where the one before ended.
LEMMA FlowMove ==
  ASSUME Basic, Flow, Move
  PROVE  ~controller'.reply /\ ~Written' /\ MouseFlow' /\ KeyFlow'
  <1>1. PICK bit3 \in BOOLEAN :
          mouse' = [mouse EXCEPT !.queue = MovementBytes(bit3), !.count = @ + 1]
    BY DEF Move, MovementBytes
  <1>2. UNCHANGED <<controller, pic, keyboard, kernel, handler>> /\ mouse.queue = <<>>
    BY DEF Move
  <1>3. /\ mouse'.queue = MovementBytes(bit3) /\ mouse'.count = mouse.count + 1
        /\ mouse'.queue # <<>> /\ mouse.count \in Nat
    <2>. DEFINE queue == MovementBytes(bit3)
    <2>1. queue # <<>>
      BY MovementType
    <2>. HIDE DEF queue
    <2>2. mouse' = [mouse EXCEPT !.queue = queue, !.count = mouse.count + 1]
      BY <1>1 DEF queue
    <2>3. mouse'.queue = queue /\ mouse'.count = mouse.count + 1 /\ mouse.count \in Nat
      BY <2>2 DEF Basic, Typed, MouseType
    <2>. QED  BY <2>1, <2>3 DEF queue
  <1>4. ~controller'.reply /\ ~Written'
    BY <1>2 DEF Flow, Written
  <1>5. SendPlace' = SendPlace /\ LoadPlace' = LoadPlace /\ SendPlace = 0
    <2>1. \A a, b, c : <<a, b, c>> # <<>> /\ <<b, c>> # <<>> /\ <<c>> # <<>>
      OBVIOUS
    <2>2. SendPlace = 0
      BY <1>2, <2>1 DEF Flow, MouseFlow, QueueFits
    <2>. QED  BY <1>2, <2>2 DEF SendPlace, LoadPlace, Holds, Offers
  <1>6. QueueFits'
    BY <1>3, <1>5 DEF QueueFits, MovementBytes
  <1>7. MouseFlow'
    <2>1. One(mouse.queue # <<>>) = 0 /\ One(mouse.queue # <<>>)' = 1
      BY <1>2, <1>3 DEF One
    <2>. DEFINE total == kernel.shown + One(kernel.mousePacketReady)
                           + One(Holds(12) /\ kernel.mouseCycle = 2)
                           + One(Offers(12) /\ LoadPlace = 2)
    <2>2. total' = total /\ total \in Nat /\ mouse.count = total + One(mouse.queue # <<>>)
      BY <1>2, <1>5 DEF Flow, MouseFlow, Basic, Typed, Kernels, One, Holds, Offers
    <2>. HIDE DEF total
    <2>3. mouse'.count = total' + One(mouse.queue # <<>>)'
      BY <1>3, <2>1, <2>2
    <2>. QED  BY <1>2, <1>5, <1>6, <2>3 DEF Flow, MouseFlow, Holds, Offers, total
  <1>8. KeyFlow'
    BY <1>2 DEF Flow, KeyFlow, Told, KnownByBuffer, KnownByHandler, Holds, Offers
  <1>. QED  BY <1>4, <1>7, <1>8

\* Delivering a request moves no byte.
LEMMA FlowInterrupt ==
  ASSUME Basic, Flow, NEW irq \in {1, 12}, Interrupt(irq)
  PROVE  ~controller'.reply /\ ~Written' /\ MouseFlow' /\ KeyFlow'
  <1>1. /\ handler = NoHandler /\ handler'.data = <<>>
        /\ UNCHANGED <<controller, mouse, keyboard, kernel, disturbed>>
    BY InterruptIs DEF Basic
  <1>2. \A i \in {1, 12} : ~Holds(i) /\ ~Holds(i)' /\ Offers(i)' = Offers(i)
    BY <1>1, NoHandlerIs DEF Holds, Offers
  <1>3. ~controller'.reply /\ ~Written'
    BY <1>1 DEF Flow, Written
  <1>4. LoadPlace' = LoadPlace /\ SendPlace' = SendPlace
    BY <1>1, <1>2 DEF LoadPlace, SendPlace
  <1>5. MouseFlow'
    <2>1. One(Holds(12) /\ kernel.mouseCycle = 2) = 0 /\ One(Holds(12) /\ kernel.mouseCycle = 2)' = 0
      BY <1>2 DEF One
    <2>2. QueueFits'
      BY <1>1, <1>4 DEF Flow, MouseFlow, QueueFits
    <2>. QED  BY <1>1, <1>2, <1>4, <2>1, <2>2 DEF Flow, MouseFlow
  <1>6. KnownByBuffer' = KnownByBuffer
    BY <1>1, <1>2 DEF KnownByBuffer, KnownByHandler
  <1>7. KeyFlow'
    BY <1>1, <1>2, <1>6 DEF Flow, KeyFlow, Told
  <1>. QED  BY <1>3, <1>5, <1>7

\* A settled handler reads the byte it was requested for.
LEMMA FlowRead ==
  ASSUME Basic, Flow, ReadData
  PROVE  ~controller'.reply /\ ~Written' /\ MouseFlow' /\ KeyFlow'
  <1>1. /\ handler.irq \in {1, 12} /\ handler.data = <<>>
        /\ ControllerBecomes(Emptied) /\ handler'.irq = handler.irq
        /\ handler'.data = <<controller.out>>
        /\ UNCHANGED <<mouse, keyboard, kernel, disturbed>>
    BY ReadIs DEF Basic
  <1>2. /\ ~controller'.full /\ controller'.in = controller.in
        /\ controller'.reply = controller.reply
    BY <1>1, EmptiedIs DEF Basic
  <1>3. ~controller'.reply /\ ~Written'
    BY <1>2 DEF Flow, Written
  <1>4. controller.full /\ IRQ(controller.out) = handler.irq
    <2>1. Unread = {handler.irq}
      BY <1>1 DEF Unread
    <2>2. handler.irq \in Lines(controller)
      BY <2>1 DEF Flow, Settled, Requests
    <2>. QED  BY <2>2 DEF Lines
  <1>5. handler'.data # <<>> /\ handler'.data[1] = controller.out
    <2>1. \A byte : <<byte>> # <<>> /\ <<byte>>[1] = byte
      OBVIOUS
    <2>. QED  BY <1>1, <2>1
  <1>6. \A i \in {1, 12} : /\ ~Holds(i) /\ ~Offers(i)'
                           /\ Offers(i) <=> i = handler.irq
                           /\ Holds(i)' <=> i = handler.irq
    BY <1>1, <1>2, <1>4, <1>5 DEF Holds, Offers
  <1>7. LoadPlace = kernel.mouseCycle /\ LoadPlace' = SendPlace /\ SendPlace' = SendPlace
    BY <1>1, <1>6 DEF LoadPlace, SendPlace
  <1>8. MouseFlow'
    <2>1. QueueFits'
      BY <1>1, <1>7 DEF Flow, MouseFlow, QueueFits
    <2>2. Holds(12)' => Fits(handler'.data[1], kernel'.mouseCycle)
      BY <1>1, <1>5, <1>6, <1>7 DEF Flow, MouseFlow
    <2>3. /\ One(Holds(12) /\ kernel.mouseCycle = 2) = 0
          /\ One(Offers(12) /\ LoadPlace = 2)' = 0
          /\ One(Holds(12) /\ kernel.mouseCycle = 2)' = One(Offers(12) /\ LoadPlace = 2)
      BY <1>1, <1>6, <1>7 DEF One
    <2>4. /\ kernel.shown \in Nat /\ One(kernel.mousePacketReady) \in Nat
          /\ One(Offers(12) /\ LoadPlace = 2) \in Nat /\ One(mouse.queue # <<>>) \in Nat
      BY DEF Basic, Typed, Kernels, One
    <2>5. mouse'.count = kernel'.shown + One(kernel'.mousePacketReady)
                          + One(Holds(12) /\ kernel.mouseCycle = 2)'
                          + One(Offers(12) /\ LoadPlace = 2)' + One(mouse'.queue # <<>>)
      BY <1>1, <2>3, <2>4 DEF Flow, MouseFlow
    <2>. QED  BY <1>1, <1>6, <2>1, <2>2, <2>5 DEF Flow, MouseFlow
  <1>9. KnownByBuffer' = KnownByBuffer
    BY <1>1, <1>5, <1>6 DEF KnownByBuffer, KnownByHandler
  <1>10. Holds(1)' => KeyByte(handler'.data[1])
    BY <1>5, <1>6 DEF Flow, KeyFlow
  <1>11. KeyFlow'
    BY <1>1, <1>6, <1>9, <1>10 DEF Flow, KeyFlow, Told
  <1>. QED  BY <1>3, <1>8, <1>11

\* The keyboard's handler takes the key as it was sent.
LEMMA FlowKeyboard ==
  ASSUME Basic, Flow, KeyboardInt_Handler
  PROVE  \/ ~controller'.reply /\ ~Written' /\ MouseFlow' /\ KeyFlow'
         \/ Off'
  <1>1. /\ handler.irq = 1 /\ handler.data # <<>> /\ ~kernel.off
        /\ kernel' = HandleKeyboard(kernel, handler.data[1])
        /\ ~kernel'.off => handler' = NoHandler
        /\ UNCHANGED <<controller, mouse, keyboard, disturbed>>
    BY KeyboardIs DEF Basic
  <1>2. handler.data[1] \in AnyByte /\ kernel \in Kernels
    BY <1>1, ReadBytes DEF Basic, Typed
  <1>3. /\ kernel'.mouseCycle = kernel.mouseCycle /\ kernel'.mousePacket = kernel.mousePacket
        /\ kernel'.mousePacketReady = kernel.mousePacketReady /\ kernel'.shown = kernel.shown
        /\ kernel'.shift = Known(kernel.shift, handler.data[1])
    BY <1>1, <1>2, KeyByteEffect
  <1>4. CASE kernel'.off
    <2>1. kernel'.mousePacketReady => kernel'.mousePacket = Packet
      BY <1>3 DEF Flow, MouseFlow
    <2>. QED  BY <1>4, <2>1 DEF Off
  <1>5. CASE ~kernel'.off
    <2>1. ~controller'.reply /\ ~Written'
      BY <1>1 DEF Flow, Written
    <2>2. \A i \in {1, 12} : /\ ~Holds(i)' /\ Offers(i)' = Offers(i)
                             /\ Holds(i) <=> i = 1
      BY <1>1, <1>5, NoHandlerIs DEF Holds, Offers
    <2>3. LoadPlace' = LoadPlace /\ SendPlace' = SendPlace
      BY <1>1, <1>3, <2>2 DEF LoadPlace, SendPlace
    <2>4. MouseFlow'
      <3>1. QueueFits'
        BY <1>1, <2>3 DEF Flow, MouseFlow, QueueFits
      <3>2. One(Holds(12) /\ kernel.mouseCycle = 2)' = One(Holds(12) /\ kernel.mouseCycle = 2)
        BY <2>2 DEF One
      <3>. QED  BY <1>1, <1>3, <2>2, <2>3, <3>1, <3>2 DEF Flow, MouseFlow
    <2>5. KnownByBuffer' = KnownByBuffer
      BY <1>1, <1>3, <2>2 DEF KnownByBuffer, KnownByHandler
    <2>6. KeyFlow'
      BY <1>1, <2>2, <2>5 DEF Flow, KeyFlow, Told
    <2>. QED  BY <2>1, <2>4, <2>6
  <1>. QED  BY <1>4, <1>5

\* The mouse's handler takes the byte at its place.
LEMMA FlowMouse ==
  ASSUME Basic, Flow, MouseInt_Handler
  PROVE  ~controller'.reply /\ ~Written' /\ MouseFlow' /\ KeyFlow'
  <1>. DEFINE byte == handler.data[1]
  <1>1. /\ handler.irq = 12 /\ handler.data # <<>>
        /\ kernel' = HandlePS2Mouse(kernel, byte)
        /\ handler' = NoHandler
        /\ UNCHANGED <<controller, mouse, keyboard, disturbed>>
    BY MouseIs DEF Basic
  <1>2. byte \in AnyByte /\ kernel \in Kernels /\ ~kernel.skip /\ kernel.mouseCycle \in {0, 1, 2}
    BY <1>1, ReadBytes, PlacesIn DEF Basic, Typed, Flow, Settled
  <1>3. \A i \in {1, 12} : /\ ~Holds(i)' /\ Offers(i)' = Offers(i)
                           /\ Holds(i) <=> i = 12
    BY <1>1, NoHandlerIs DEF Holds, Offers
  <1>4. Fits(byte, kernel.mouseCycle)
    BY <1>3 DEF Flow, MouseFlow
  <1>. HIDE DEF byte
  <1>5. kernel.mouseCycle = 0 => Bit3(byte)
    BY <1>2, <1>4, PacketRequests
  <1>6. /\ kernel'.shift = kernel.shift
        /\ kernel'.shown = kernel.shown + One(kernel.mousePacketReady)
        /\ kernel'.mouseCycle = After(kernel.mouseCycle)
        /\ kernel'.mousePacketReady <=> kernel.mouseCycle = 2
        /\ kernel'.mousePacket = [kernel.mousePacket EXCEPT ![kernel.mouseCycle + 1] = byte.what]
    BY <1>1, <1>2, <1>5, MouseByteEffect
  <1>7. ~controller'.reply /\ ~Written'
    BY <1>1 DEF Flow, Written
  <1>8. LoadPlace = After(kernel.mouseCycle) /\ LoadPlace' = LoadPlace /\ SendPlace' = SendPlace
    BY <1>1, <1>3, <1>6 DEF LoadPlace, SendPlace
  <1>9. MouseFlow'
    <2>1. QueueFits'
      BY <1>1, <1>8 DEF Flow, MouseFlow, QueueFits
    <2>2. byte.what = Packet[kernel.mouseCycle + 1]
      BY <1>4 DEF Fits
    <2>3. /\ kernel.mousePacket \in [1 .. 3 -> Whats]
          /\ \A i \in 1 .. kernel.mouseCycle : kernel.mousePacket[i] = Packet[i]
      BY <1>2 DEF Kernels, Flow, MouseFlow
    <2>4. \A i \in 1 .. kernel.mouseCycle + 1 : kernel'.mousePacket[i] = Packet[i]
      BY <1>2, <1>6, <2>2, <2>3
    <2>5. \A i \in 1 .. kernel'.mouseCycle : kernel'.mousePacket[i] = Packet[i]
      BY <1>2, <1>6, <2>4 DEF After
    <2>6. kernel'.mousePacketReady => kernel'.mouseCycle = 0 /\ kernel'.mousePacket = Packet
      <3>1. SUFFICES ASSUME kernel.mouseCycle = 2
                     PROVE  kernel'.mouseCycle = 0 /\ kernel'.mousePacket = Packet
        BY <1>6
      <3>2. \A i \in 1 .. 3 : kernel'.mousePacket[i] = Packet[i]
        BY <2>4, <3>1
      <3>3. DOMAIN kernel'.mousePacket = 1 .. 3
        BY <1>6, <2>3
      <3>4. Packet \in [1 .. 3 -> {"head", "dx", "dy"}]
        BY DEF Packet
      <3>5. kernel'.mousePacket = [i \in 1 .. 3 |-> kernel'.mousePacket[i]]
        BY <1>6, <2>3
      <3>6. Packet = [i \in 1 .. 3 |-> Packet[i]]
        BY <3>4
      <3>. QED  BY <1>6, <3>1, <3>2, <3>5, <3>6 DEF After
    <2>7. kernel'.mouseCycle = 0 /\ ~kernel'.mousePacketReady => kernel'.shown = 0
      BY <1>2, <1>6 DEF After
    <2>8. /\ One(Holds(12) /\ kernel.mouseCycle = 2) = One(kernel'.mousePacketReady)
          /\ One(Holds(12) /\ kernel.mouseCycle = 2)' = 0
          /\ One(Offers(12) /\ LoadPlace = 2)' = One(Offers(12) /\ LoadPlace = 2)
      BY <1>3, <1>6, <1>8 DEF One
    <2>9. /\ kernel.shown \in Nat /\ One(kernel.mousePacketReady) \in Nat
          /\ One(kernel'.mousePacketReady) \in Nat
          /\ One(Offers(12) /\ LoadPlace = 2) \in Nat /\ One(mouse.queue # <<>>) \in Nat
      BY <1>2 DEF Kernels, One
    <2>10. mouse'.count = kernel'.shown + One(kernel'.mousePacketReady)
                          + One(Holds(12) /\ kernel.mouseCycle = 2)'
                          + One(Offers(12) /\ LoadPlace = 2)' + One(mouse'.queue # <<>>)
      BY <1>1, <1>6, <2>8, <2>9 DEF Flow, MouseFlow
    <2>11. Offers(12)' => Fits(controller'.out, LoadPlace')
      BY <1>1, <1>3, <1>8 DEF Flow, MouseFlow
    <2>. QED  BY <1>1, <1>3, <2>1, <2>5, <2>6, <2>7, <2>10, <2>11 DEF MouseFlow
  <1>10. KnownByBuffer' = KnownByBuffer
    BY <1>1, <1>3, <1>6 DEF KnownByBuffer, KnownByHandler
  <1>11. KeyFlow'
    BY <1>1, <1>3, <1>10 DEF Flow, KeyFlow, Told
  <1>. QED  BY <1>7, <1>9, <1>11

-----------------------------------------------------------------------------
(* The whole.                                                              *)

\* A step of the undisturbed boot is one, or ends it.
LEMMA BootStep ==
  ASSUME Basic, Boot, [Next]_vars, ~disturbed'
  PROVE  Boot' \/ Stale'
  <1>1. kernel.ip # 35 /\ ~Running
    BY RunningIs DEF Basic, Boot
  <1>2. ~Settled
    BY <1>1 DEF Settled
  <1>3. ~Move /\ ~\E key \in Keys : Press(key)
    BY <1>2, UsedTooEarly
  <1>4. ~ReadData /\ ~KeyboardInt_Handler /\ ~MouseInt_Handler
    BY <1>1, HandlingIs DEF ReadData, KeyboardInt_Handler, MouseInt_Handler
  <1>5. ~\E irq \in {1, 12} : Interrupt(irq)
    BY <1>1 DEF Interrupt
  <1>6. CASE UNCHANGED vars
    BY <1>6 DEF vars, Boot, Ordered, Configured, Answered, Directed, Untouched, Written,
                StatusComes, AckComes, Empty
  <1>7. CASE Wait \/ Out \/ In \/ EnableInterrupts
    BY <1>7, WaitBoot, OutBoot, InBoot, EnableBoot
  <1>8. CASE ControllerStep
    BY <1>8, CommandBoot, DataBoot, ReplyBoot, LoadBoot DEF ControllerStep
  <1>. QED  BY <1>3, <1>4, <1>5, <1>6, <1>7, <1>8 DEF Next, KernelStep

\* A step while the boot's requests are served is one more of these, or the last.
LEMMA StaleStep ==
  ASSUME Basic, Stale, [Next]_vars, ~disturbed'
  PROVE  Stale' \/ Flow'
  <1>1. ~Move /\ ~\E key \in Keys : Press(key)
    BY UsedTooEarly, SkippedNotSettled DEF Stale
  <1>2. ~Wait /\ ~Out /\ ~In /\ ~EnableInterrupts
    BY RunningOnly DEF Stale
  <1>3. ~ControllerStep
    BY DEF Stale, Untouched, Empty, ControllerStep, AcceptCommand, AcceptData, LoadReply,
           LoadKey, LoadMouse
  <1>4. CASE UNCHANGED vars
    BY <1>4 DEF vars, Stale, Untouched, Empty, Written
  <1>5. CASE \E irq \in {1, 12} : Interrupt(irq)
    BY <1>5, StaleInterrupt
  <1>6. CASE ReadData \/ KeyboardInt_Handler \/ MouseInt_Handler
    BY <1>6, StaleRead, StaleKeyboard, StaleMouse
  <1>. QED  BY <1>1, <1>2, <1>3, <1>4, <1>5, <1>6 DEF Next, KernelStep

\* A step of the settled kernel is one, or switches the machine off.
LEMMA FlowStep ==
  ASSUME Basic, Flow, [Next]_vars
  PROVE  Flow' \/ Off'
  <1>1. Settled' \/ kernel'.off
    BY BasicStep DEF SettledKept, Flow
  <1>2. kernel.ip = 35 /\ ~kernel.off
    BY RunningIs DEF Basic, Flow, Settled, Running
  <1>3. ~Wait /\ ~Out /\ ~In /\ ~EnableInterrupts
    BY <1>2, RunningOnly
  <1>4. ~AcceptCommand /\ ~AcceptData /\ ~LoadReply
    BY DEF Flow, AcceptCommand, AcceptData, LoadReply
  <1>5. CASE UNCHANGED vars
    <2>1. UNCHANGED <<controller, pic, mouse, keyboard, kernel, handler>>
      BY <1>5 DEF vars
    <2>2. Settled' = Settled /\ Written' = Written
      BY <2>1 DEF Settled, Running, Requests, Unread, Written
    <2>3. MouseFlow' = MouseFlow
      <3>1. LoadPlace' = LoadPlace
        BY <2>1 DEF LoadPlace, Holds
      <3>2. SendPlace' = SendPlace
        BY <2>1, <3>1 DEF SendPlace, Offers
      <3>3. QueueFits' = QueueFits
        BY <2>1, <3>2 DEF QueueFits
      <3>. QED  BY <2>1, <3>1, <3>3 DEF MouseFlow, Holds, Offers
    <2>4. KeyFlow' = KeyFlow
      <3>1. KnownByHandler' = KnownByHandler
        BY <2>1 DEF KnownByHandler, Holds
      <3>2. KnownByBuffer' = KnownByBuffer
        BY <2>1, <3>1 DEF KnownByBuffer, Offers
      <3>. QED  BY <2>1, <3>2 DEF KeyFlow, Holds, Offers, Told
    <2>. QED  BY <2>1, <2>2, <2>3, <2>4 DEF Flow
  <1>6. CASE KeyboardInt_Handler
    <2>1. CASE kernel'.off
      <3>1. (kernel.mousePacketReady => kernel.mousePacket = Packet)
        BY DEF Flow, MouseFlow
      <3>2. kernel' = HandleKeyboard(kernel, handler.data[1]) /\ handler.data # <<>>
        BY <1>6 DEF KeyboardInt_Handler
      <3>3. kernel \in Kernels /\ handler.data[1] \in AnyByte
        BY <3>2, ReadBytes DEF Basic, Typed
      <3>4. /\ kernel'.mousePacket = kernel.mousePacket
            /\ kernel'.mousePacketReady = kernel.mousePacketReady
        BY <3>2, <3>3, KeyByteEffect
      <3>. QED  BY <2>1, <3>1, <3>4 DEF Off
    <2>2. CASE ~kernel'.off
      BY <1>1, <1>6, <2>2, FlowKeyboard DEF Flow, Off
    <2>. QED  BY <2>1, <2>2
  <1>7. CASE ReadData \/ MouseInt_Handler \/ LoadKey \/ LoadMouse \/ Move
    <2>1. ~controller'.reply /\ ~Written' /\ MouseFlow' /\ KeyFlow'
      BY <1>7, FlowRead, FlowMouse, FlowLoadKey, FlowLoadMouse, FlowMove
    <2>2. ~kernel'.off
      <3>1. CASE MouseInt_Handler
        <4>1. /\ handler.data # <<>>
              /\ kernel' = HandlePS2Mouse(kernel, handler.data[1])
          BY <3>1, MouseIs DEF Basic
        <4>2. kernel \in Kernels /\ handler.data[1] \in AnyByte
          BY <4>1, ReadBytes DEF Basic, Typed
        <4>3. kernel'.off = kernel.off
          BY <4>1, <4>2, MouseByteEffect
        <4>. QED  BY <1>2, <4>3
      <3>2. CASE ReadData \/ LoadKey \/ LoadMouse \/ Move
        BY <1>2, <3>2 DEF ReadData, LoadKey, LoadMouse, Move
      <3>. QED  BY <1>7, <3>1, <3>2
    <2>. QED  BY <1>1, <2>1, <2>2 DEF Flow
  <1>8. CASE \E irq \in {1, 12} : Interrupt(irq)
    <2>1. ~controller'.reply /\ ~Written' /\ MouseFlow' /\ KeyFlow'
      BY <1>8, FlowInterrupt
    <2>2. ~kernel'.off
      BY <1>2, <1>8 DEF Interrupt
    <2>. QED  BY <1>1, <2>1, <2>2 DEF Flow
  <1>9. CASE \E key \in Keys : Press(key)
    <2>1. ~controller'.reply /\ ~Written' /\ MouseFlow' /\ KeyFlow'
      BY <1>9, FlowPress
    <2>2. ~kernel'.off
      BY <1>2, <1>9 DEF Press
    <2>. QED  BY <1>1, <2>1, <2>2 DEF Flow
  <1>. QED  BY <1>3, <1>4, <1>5, <1>6, <1>7, <1>8, <1>9 DEF Next, KernelStep, ControllerStep

\* FACP::Shutdown does not return.
LEMMA OffStep ==
  ASSUME Basic, Off, [Next]_vars
  PROVE  Off'
  <1>0. kernel.off
    BY DEF Off
  <1>1. handler.irq = 1 /\ handler.data # <<>>
    BY <1>0 DEF Basic, Phases
  <1>2. kernel.ip = 35 /\ ~Running
    BY <1>0, <1>1, HandlingIs, RunningIs DEF Basic
  <1>3. ~Wait /\ ~Out /\ ~In /\ ~EnableInterrupts
    BY <1>2, RunningOnly
  <1>4. ~ReadData /\ ~KeyboardInt_Handler /\ ~MouseInt_Handler
    BY <1>0, <1>1 DEF ReadData, KeyboardInt_Handler, MouseInt_Handler
  <1>5. ~\E irq \in {1, 12} : Interrupt(irq)
    BY <1>2 DEF Interrupt
  <1>6. UNCHANGED kernel
    BY <1>3, <1>4, <1>5
       DEF Next, KernelStep, ControllerStep, AcceptCommand, AcceptData, LoadReply, LoadKey,
           LoadMouse, Press, Move, vars
  <1>. QED  BY <1>6 DEF Off

\* The inductive invariant.
InputInv == Basic /\ Undisturbed

\* The invariant holds initially, and every step keeps it.
LEMMA InputInvInductive ==
  /\ Init => InputInv
  /\ InputInv /\ [Next]_vars => InputInv'
  <1>1. ASSUME Init PROVE InputInv
    BY <1>1, InitBasic, InitBoot DEF InputInv, Undisturbed
  <1>2. ASSUME InputInv, [Next]_vars PROVE InputInv'
    <2>1. Basic'
      BY <1>2, BasicStep DEF InputInv
    <2>2. ASSUME ~disturbed' PROVE (Boot \/ Stale \/ Flow \/ Off)'
      <3>1. ~disturbed
        <4>1. disturbed \in BOOLEAN
          BY <1>2 DEF InputInv, Basic, Typed
        <4>. QED  BY <1>2, <2>2, <4>1
                  DEF Next, KernelStep, ControllerStep, Wait, Out, In, EnableInterrupts, Interrupt,
                      ReadData, KeyboardInt_Handler, MouseInt_Handler, AcceptCommand, AcceptData,
                      LoadReply, LoadKey, LoadMouse, Press, Move, vars
      <3>2. Boot \/ Stale \/ Flow \/ Off
        BY <1>2, <3>1 DEF InputInv, Undisturbed
      <3>. QED  BY <1>2, <2>2, <3>2, BootStep, StaleStep, FlowStep, OffStep DEF InputInv
    <2>. QED  BY <2>1, <2>2 DEF InputInv, Undisturbed
  <1>. QED  BY <1>1, <1>2

\* A packet is only shown whole, its three bytes those of one movement in their order
\* (PS2mouse.cpp's mouse_cycle never takes a byte for another), if no device was used
\* before the handlers settled.
THEOREM InputPacketsWhole == Spec => []PacketsWhole
  <1>1. InputInv => PacketsWhole
    <2>1. Boot \/ Stale => ~kernel.mousePacketReady
      BY DEF Boot, Stale, Untouched
    <2>2. Flow \/ Off => (kernel.mousePacketReady => kernel.mousePacket = Packet)
      BY DEF Flow, MouseFlow, Off
    <2>. QED  BY <2>1, <2>2 DEF InputInv, Undisturbed, PacketsWhole
  <1>. QED  BY <1>1, InputInvInductive, PTL DEF Spec

\* What the invariant says when nothing is on its way.
LEMMA CaughtUp == ASSUME InputInv PROVE KernelCatchesUp
  <1>1. SUFFICES ASSUME ~disturbed, Quiet
        PROVE  /\ kernel.shift = keyboard.down \cap Shifts
               /\ mouse.count > 0 => kernel.shown = mouse.count - 1 /\ kernel.mousePacketReady
    BY DEF KernelCatchesUp
  <1>2. kernel.ip = 35 /\ ~kernel.off /\ handler = NoHandler
    BY <1>1, RunningIs DEF Quiet, InputInv, Basic
  <1>3. Stale \/ Flow
    BY <1>1, <1>2 DEF InputInv, Undisturbed, Boot, Off
  <1>4. CASE Stale
    BY <1>4 DEF Stale, Untouched
  <1>5. CASE Flow
    <2>1. \A i \in {1, 12} : ~Holds(i) /\ ~Offers(i)
      BY <1>1, <1>2, NoHandlerIs DEF Quiet, Holds, Offers
    <2>2. SendPlace = kernel.mouseCycle /\ KnownByBuffer = kernel.shift
      BY <2>1 DEF SendPlace, LoadPlace, KnownByBuffer, KnownByHandler
    <2>3. \A a, b, c : <<a, b, c>> # <<>> /\ <<b, c>> # <<>> /\ <<c>> # <<>>
      OBVIOUS
    <2>4. kernel.mouseCycle = 0
      BY <1>1, <1>5, <2>2, <2>3 DEF Quiet, Flow, MouseFlow, QueueFits
    <2>5. mouse.count = kernel.shown + One(kernel.mousePacketReady) /\ kernel.shown \in Nat
      BY <1>1, <1>5, <2>1 DEF Quiet, Flow, MouseFlow, One, InputInv, Basic, Typed, Kernels
    <2>6. mouse.count > 0 => kernel.shown = mouse.count - 1 /\ kernel.mousePacketReady
      <3>1. CASE kernel.mousePacketReady
        BY <2>5, <3>1 DEF One
      <3>2. CASE ~kernel.mousePacketReady
        <4>1. kernel.shown = 0
          BY <1>5, <2>4, <3>2 DEF Flow, MouseFlow
        <4>. QED  BY <2>5, <3>2, <4>1 DEF One
      <3>. QED  BY <3>1, <3>2
    <2>7. \A key \in Shifts : key \in kernel.shift <=> key \in keyboard.down
      <3>1. \A key \in Shifts : Told(<<>>, kernel.shift, key)
        BY <1>1, <1>5, <2>2 DEF Quiet, Flow, KeyFlow
      <3>. QED  BY <3>1 DEF Told
    <2>8. kernel.shift \subseteq Shifts
      BY DEF InputInv, Basic, Typed, Kernels
    <2>. QED  BY <2>6, <2>7, <2>8
  <1>. QED  BY <1>3, <1>4, <1>5

\* When every byte was handled the kernel knows the shift keys that are down, and every
\* movement was shown but the last, which is ready: no byte was lost, doubled or taken
\* for another on the way.
THEOREM InputCatchesUp == Spec => []KernelCatchesUp
  <1>1. InputInv => KernelCatchesUp
    BY CaughtUp
  <1>. QED  BY <1>1, InputInvInductive, PTL DEF Spec
=============================================================================
