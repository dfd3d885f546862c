------------------------------ MODULE PS2Input ------------------------------
(***************************************************************************)
(* The PS/2 mouse and keyboard: InitPS2Mouse polls the controller while    *)
(* interrupts are off, the interrupt handlers take over after "sti".  Both *)
(* devices send through one output buffer; an interrupt request is latched *)
(* when a byte appears there and stays latched when the byte is read by    *)
(* polling.  Of a mouse packet only the places of its bytes and their      *)
(* bit 3 are kept.  The controller (8042), the interrupt controllers (8259)*)
(* and the devices are external: modelled from how the code uses them.     *)
(***************************************************************************)
EXTENDS Integers, Sequences

CONSTANTS
  Keys,          \* The keys in use, of LeftShift, RightShift and Escape.
  MaxKeys,       \* Bound of the model: how often a key is pressed or released.
  MaxPackets     \* Bound of the model: how often the mouse moves.

ASSUME InputAssumption ==
  /\ Keys \subseteq {"LeftShift", "RightShift", "Escape"}
  /\ MaxKeys \in Nat /\ MaxPackets \in Nat

VARIABLES
  controller,    \* Its buffers, configuration and the reply it owes.
  pic,           \* Interrupts requested (irr) and in service (isr).
  mouse,         \* Bytes to send, whether it reports movements, how many so far.
  keyboard,      \* Bytes to send, keys held down, how often they changed.
  kernel,        \* Program counter of the boot and the variables of the handlers.
  handler,       \* The interrupt being handled (0: none) and what it read.
  disturbed      \* History: a device was used before the kernel had settled, or
                 \* the kernel gave up waiting for an answer.

vars == <<controller, pic, mouse, keyboard, kernel, handler, disturbed>>

-----------------------------------------------------------------------------
(* Bytes: a key (flag: pressed), an acknowledgement of the mouse, the      *)
(* controller's status (its bit 3 is 0), or the head (whose bit 3 is set), *)
(* dx or dy of a packet (flag: bit 3).                                     *)

Byte(what, flag) == [what |-> what, flag |-> flag]

NoByte == Byte("", FALSE)

Shifts == {"LeftShift", "RightShift"}
Packet == <<"head", "dx", "dy">>

\* LeftShift is 0x2A, RightShift 0x36, Escape 0x01, an acknowledgement 0xFA;
\* a key that is released has bit 7 set.
Bit3(b) ==
  \/ b.what \in {"LeftShift", "ack"}
  \/ b.what \in {"head", "dx", "dy"} /\ b.flag

\* What byte b switches on when it is written back as the configuration.
IRQsOf(b, c) ==
  CASE b.what = "status" -> c.irqs [] b.what = "Escape" -> {1} [] OTHER -> {}

DevicesOf(b, c) ==
  CASE b.what = "status"    -> c.on
    [] b.what = "Escape"    -> {"keyboard", "mouse"}
    [] b.what = "LeftShift" -> {"keyboard"}
    [] OTHER                -> {}

-----------------------------------------------------------------------------
(* The boot: the instructions of InitPS2Mouse, up to "sti".                *)

Outb(port, value) == <<[op |-> port, value |-> value]>>
Inb(to) == <<[op |-> "inb", value |-> to]>>
MouseWait == <<[op |-> "MouseWait", value |-> ""]>>
MouseWaitInput == <<[op |-> "MouseWaitInput", value |-> ""]>>
Sti == <<[op |-> "sti", value |-> ""]>>

MouseWrite(value) == MouseWait \o Outb("0x64", "D4") \o MouseWait \o Outb("0x60", value)
MouseRead == MouseWaitInput \o Inb("")

InitPS2Mouse ==
  Outb("0x64", "A8") \o MouseWait
  \o Outb("0x64", "20") \o MouseWaitInput \o Inb("status")
  \o MouseWait \o Outb("0x64", "60") \o MouseWait \o Outb("0x60", "status")
  \o MouseWrite("F6") \o MouseRead
  \o MouseWrite("F3") \o MouseRead \o MouseWrite("C8") \o MouseRead
  \o MouseWrite("F4") \o MouseRead

Program == InitPS2Mouse \o Sti

Running == kernel.ip > Len(Program) /\ ~kernel.off

-----------------------------------------------------------------------------
(* The hardware.  A request is latched when its line rises.                *)

IRQ(b) == IF b.what \in {"ack", "head", "dx", "dy"} THEN 12 ELSE 1

Lines(c) == IF c.full THEN {IRQ(c.out)} \cap c.irqs ELSE {}

ControllerBecomes(c) ==
  /\ controller' = c
  /\ pic' = [pic EXCEPT !.irr = @ \cup (Lines(c) \ Lines(controller))]

Written == controller.in # <<>>
Consumed(next) == [controller EXCEPT !.in = <<>>, !.next = next]

\* The controller takes a command the kernel wrote to port 0x64.
AcceptCommand ==
  /\ Written /\ controller.in[1].op = "0x64"
  /\ ControllerBecomes(
       CASE controller.in[1].value = "A8" -> [Consumed("keyboard") EXCEPT !.on = @ \cup {"mouse"}]
         [] controller.in[1].value = "20" -> [Consumed("keyboard") EXCEPT !.reply = TRUE]
         [] controller.in[1].value = "60" -> Consumed("status")
         [] controller.in[1].value = "D4" -> Consumed("mouse"))
  /\ UNCHANGED <<mouse, keyboard, kernel, handler, disturbed>>

\* The controller takes a byte the kernel wrote to port 0x60: its new status
\* or a command for the mouse, which acknowledges it (F4: report movements);
\* anything else gets lost.
AcceptData ==
  /\ Written /\ controller.in[1].op = "0x60"
  /\ LET value == controller.in[1].value
         status == controller.next = "status" /\ value = "status"
         command == controller.next = "mouse" /\ "mouse" \in controller.on
         c == Consumed("keyboard")
     IN  /\ ControllerBecomes(
              IF status THEN [c EXCEPT !.irqs = IRQsOf(kernel.status, c) \cup {12},
                                       !.on = DevicesOf(kernel.status, c)]
                        ELSE c)
         /\ mouse' = IF command
                     THEN [mouse EXCEPT !.queue = Append(@, Byte("ack", TRUE)),
                                        !.reporting = @ \/ value = "F4"]
                     ELSE mouse
  /\ UNCHANGED <<keyboard, kernel, handler, disturbed>>

Filled(byte) == [controller EXCEPT !.full = TRUE, !.out = byte]

\* The next byte moves to the empty output buffer.
LoadReply ==
  /\ ~controller.full /\ controller.reply
  /\ ControllerBecomes([Filled(Byte("status", FALSE)) EXCEPT !.reply = FALSE])
  /\ UNCHANGED <<mouse, keyboard, kernel, handler, disturbed>>

LoadKey ==
  /\ ~controller.full /\ "keyboard" \in controller.on /\ keyboard.queue # <<>>
  /\ ControllerBecomes(Filled(Head(keyboard.queue)))
  /\ keyboard' = [keyboard EXCEPT !.queue = Tail(@)]
  /\ UNCHANGED <<mouse, kernel, handler, disturbed>>

LoadMouse ==
  /\ ~controller.full /\ "mouse" \in controller.on /\ mouse.queue # <<>>
  /\ ControllerBecomes(Filled(Head(mouse.queue)))
  /\ mouse' = [mouse EXCEPT !.queue = Tail(@)]
  /\ UNCHANGED <<keyboard, kernel, handler, disturbed>>

ControllerStep == AcceptCommand \/ AcceptData \/ LoadReply \/ LoadKey \/ LoadMouse

\* Requests whose byte is in the output buffer, or that nobody answers yet.
Unread == IF handler.irq # 0 /\ handler.data = <<>> THEN {handler.irq} ELSE {}
Requests == pic.irr \cup Unread

\* The stale requests of the boot were served and the first byte was skipped.
Settled ==
  /\ Running /\ ~kernel.skip
  /\ Requests = Lines(controller) /\ pic.irr \cap Unread = {}

\* A key is pressed or released.
Press(key) ==
  /\ keyboard.count < MaxKeys
  /\ keyboard' = [queue |-> Append(keyboard.queue, Byte(key, key \notin keyboard.down)),
                  down |-> IF key \in keyboard.down THEN keyboard.down \ {key}
                                                    ELSE keyboard.down \cup {key},
                  count |-> keyboard.count + 1]
  /\ disturbed' = (disturbed \/ ~Settled)
  /\ UNCHANGED <<controller, pic, mouse, kernel, handler>>

\* The mouse reports a movement, when it has sent the previous one; bit 3 of its
\* distances is set or is not.
Move ==
  /\ mouse.reporting /\ mouse.queue = <<>> /\ mouse.count < MaxPackets
  /\ \E bit3 \in BOOLEAN :
       mouse' = [mouse EXCEPT
         !.queue = <<Byte("head", TRUE), Byte("dx", bit3), Byte("dy", bit3)>>,
         !.count = @ + 1]
  /\ disturbed' = (disturbed \/ ~Settled)
  /\ UNCHANGED <<controller, pic, keyboard, kernel, handler>>

-----------------------------------------------------------------------------
(* The boot's steps.                                                       *)

At(op) == kernel.ip <= Len(Program) /\ Program[kernel.ip].op = op
Value == Program[kernel.ip].value

Goto(ip) == kernel' = [kernel EXCEPT !.ip = ip]

\* Both loops go on as if they had seen what they waited for when they time out.
Wait ==
  /\ At("MouseWait") \/ At("MouseWaitInput")
  /\ Goto(kernel.ip + 1)
  /\ disturbed' = (\/ disturbed
                   \/ At("MouseWait") /\ Written
                   \/ At("MouseWaitInput") /\ ~controller.full)
  /\ UNCHANGED <<controller, pic, mouse, keyboard, handler>>

\* A byte the controller has not taken yet is overwritten.
Out ==
  /\ At("0x64") \/ At("0x60")
  /\ controller' = [controller EXCEPT !.in = <<Program[kernel.ip]>>]
  /\ Goto(kernel.ip + 1)
  /\ UNCHANGED <<pic, mouse, keyboard, handler, disturbed>>

\* An empty buffer gives the last byte once more.
In ==
  /\ At("inb")
  /\ ControllerBecomes([controller EXCEPT !.full = FALSE])
  /\ kernel' = [kernel EXCEPT
       !.ip = @ + 1,
       !.status = IF Value = "status" THEN controller.out ELSE @]
  /\ UNCHANGED <<mouse, keyboard, handler, disturbed>>

\* The interrupt controllers set up here (which drops their requests) instead of
\* before InitPS2Mouse.
RemapLate ==
  /\ At("sti")
  /\ kernel' = [kernel EXCEPT !.ip = @ + 1, !.status = NoByte]
  /\ pic' = [irr |-> {}, isr |-> {}]
  /\ UNCHANGED <<controller, mouse, keyboard, handler, disturbed>>

\* InitPS2Mouse returned (its local "status" is gone), the requests are unmasked
\* and interrupts enabled.
EnableInterrupts ==
  /\ At("sti")
  /\ kernel' = [kernel EXCEPT !.ip = @ + 1, !.status = NoByte]
  /\ UNCHANGED <<controller, pic, mouse, keyboard, handler, disturbed>>

-----------------------------------------------------------------------------
(* The interrupt handlers: interrupt gates, so that none interrupts another.*)

NoHandler == [irq |-> 0, data |-> <<>>]

\* IRQ 12 comes through input 2 of the first controller, after IRQ 1.
Level(irq) == IF irq = 12 THEN 2 ELSE irq

Interrupt(irq) ==
  /\ Running /\ handler = NoHandler /\ irq \in pic.irr
  /\ irq = 1 \/ 1 \notin pic.irr
  /\ irq \notin pic.isr /\ \A level \in pic.isr \cap {1, 2} : Level(irq) < level
  /\ pic' = [irr |-> pic.irr \ {irq}, isr |-> pic.isr \cup {irq, Level(irq)}]
  /\ handler' = [irq |-> irq, data |-> <<>>]
  /\ UNCHANGED <<controller, mouse, keyboard, kernel, disturbed>>

\* The handlers not reading the port.
ReadForgotten ==
  /\ handler.irq # 0 /\ handler.data = <<>>
  /\ handler' = [handler EXCEPT !.data = <<controller.out>>]
  /\ UNCHANGED <<controller, pic, mouse, keyboard, kernel, disturbed>>

ReadData ==
  /\ handler.irq # 0 /\ handler.data = <<>>
  /\ ControllerBecomes([controller EXCEPT !.full = FALSE])
  /\ handler' = [handler EXCEPT !.data = <<controller.out>>]
  /\ UNCHANGED <<mouse, keyboard, kernel, disturbed>>

\* PIC_EndMaster ends the interrupt of the highest priority in service.
EndMaster(isr) ==
  IF 1 \in isr THEN isr \ {1} ELSE isr \ {2}

\* PIC_EndSlave without the end of interrupt for the first controller.
EndSlaveOnly(isr) == isr \ {12}

EndSlave(isr) == EndMaster(isr \ {12})

\* HandleKeyboard without the cases of the keys released.
HandlePressed(k, b) ==
  CASE b.what \in Shifts -> [k EXCEPT !.shift = @ \cup {b.what}]
    [] b = Byte("Escape", TRUE) -> [k EXCEPT !.off = TRUE]
    [] OTHER -> k

\* FACP::Shutdown does not return.
HandleKeyboard(k, b) ==
  CASE b.what \in Shifts ->
         [k EXCEPT !.shift = IF b.flag THEN @ \cup {b.what} ELSE @ \ {b.what}]
    [] b = Byte("Escape", TRUE) -> [k EXCEPT !.off = TRUE]
    [] OTHER -> k

ProcessMousePacket(k) ==
  IF k.mousePacketReady THEN [k EXCEPT !.mousePacketReady = FALSE, !.shown = @ + 1] ELSE k

\* HandlePS2Mouse taking the first byte for one of a packet.
HandleUnskipped(k, b) ==
  LET p == ProcessMousePacket(k)
      q == [p EXCEPT !.mousePacket[p.mouseCycle + 1] = b.what, !.skip = FALSE]
  IN  CASE p.mouseCycle = 0 -> IF Bit3(b) THEN [q EXCEPT !.mouseCycle = 1] ELSE [p EXCEPT !.skip = FALSE]
        [] p.mouseCycle = 1 -> [q EXCEPT !.mouseCycle = 2]
        [] p.mouseCycle = 2 -> [q EXCEPT !.mouseCycle = 0, !.mousePacketReady = TRUE]

\* A packet that is complete is processed when the next byte comes.
HandlePS2Mouse(k, b) ==
  LET p == ProcessMousePacket(k)
      q == [p EXCEPT !.mousePacket[p.mouseCycle + 1] = b.what]
  IN  CASE p.skip -> [p EXCEPT !.skip = FALSE]
        [] ~p.skip /\ p.mouseCycle = 0 -> IF Bit3(b) THEN [q EXCEPT !.mouseCycle = 1] ELSE p
        [] ~p.skip /\ p.mouseCycle = 1 -> [q EXCEPT !.mouseCycle = 2]
        [] ~p.skip /\ p.mouseCycle = 2 -> [q EXCEPT !.mouseCycle = 0, !.mousePacketReady = TRUE]

KeyboardInt_Handler ==
  /\ handler.irq = 1 /\ handler.data # <<>> /\ ~kernel.off
  /\ kernel' = HandleKeyboard(kernel, handler.data[1])
  /\ IF kernel'.off THEN UNCHANGED <<pic, handler>>
     ELSE pic' = [pic EXCEPT !.isr = EndMaster(@)] /\ handler' = NoHandler
  /\ UNCHANGED <<controller, mouse, keyboard, disturbed>>

MouseInt_Handler ==
  /\ handler.irq = 12 /\ handler.data # <<>>
  /\ kernel' = HandlePS2Mouse(kernel, handler.data[1])
  /\ pic' = [pic EXCEPT !.isr = EndSlave(@)]
  /\ handler' = NoHandler
  /\ UNCHANGED <<controller, mouse, keyboard, disturbed>>

KernelStep ==
  \/ Wait \/ Out \/ In \/ EnableInterrupts
  \/ \E irq \in {1, 12} : Interrupt(irq)
  \/ ReadData \/ KeyboardInt_Handler \/ MouseInt_Handler

\* The firmware used the controller: the buffer is empty, or still holds a key
\* whose request is gone (RemapPIC).
Init ==
  /\ \E byte \in {Byte("status", FALSE)} \cup {Byte(key, FALSE) : key \in Keys} :
       /\ disturbed = (byte.what # "status")
       /\ controller = [in |-> <<>>, next |-> "keyboard", irqs |-> {1}, on |-> {"keyboard"},
                        reply |-> FALSE, full |-> disturbed, out |-> byte]
  /\ pic = [irr |-> {}, isr |-> {}]
  /\ mouse = [queue |-> <<>>, reporting |-> FALSE, count |-> 0]
  /\ keyboard = [queue |-> <<>>, down |-> {}, count |-> 0]
  /\ kernel = [ip |-> 1, status |-> NoByte, skip |-> TRUE, mouseCycle |-> 0,
               mousePacket |-> <<"", "", "">>, mousePacketReady |-> FALSE, shown |-> 0,
               shift |-> {}, off |-> FALSE]
  /\ handler = NoHandler

Next ==
  \/ KernelStep \/ ControllerStep
  \/ \E key \in Keys : Press(key)
  \/ Move

\* The kernel executes on and the controller moves its bytes; nobody has to
\* press a key or to move the mouse.
Spec == Init /\ [][Next]_vars /\ WF_vars(KernelStep) /\ WF_vars(ControllerStep)

-----------------------------------------------------------------------------
(* Properties.                                                             *)

\* A byte the controller interrupts for never lies in the buffer without a
\* request: the edge of its line is not lost to polling, to a stale request of
\* the boot or to the acknowledgement of another interrupt, which would block
\* both devices for good.
NoLostRequest == Running => Lines(controller) \subseteq Requests

\* Requests of the boot whose byte was polled make handlers read empty buffers
\* or the other device's bytes.  Once they are gone each handler only ever
\* reads a byte of its own device: no later interleaving brings them back.
SettledForGood == [][Settled => Settled' \/ kernel'.off]_vars

\* Each packet is made of three bytes of one movement, in their order, if the
\* devices were left alone until the kernel had settled: "skip" drops exactly
\* the byte the first, stale, interrupt of the mouse reads.
PacketsWhole ==
  ~disturbed /\ kernel.mousePacketReady => kernel.mousePacket = Packet

Quiet ==
  /\ keyboard.queue = <<>> /\ mouse.queue = <<>>
  /\ ~controller.full /\ handler = NoHandler /\ Running

\* When everything sent has arrived, the kernel knows the shift keys that are down,
\* and has shown all movements but the last one, which is complete and waits until
\* the mouse sends again.
KernelCatchesUp ==
  ~disturbed /\ Quiet =>
    /\ kernel.shift = keyboard.down \cap Shifts
    /\ mouse.count > 0 => kernel.shown = mouse.count - 1 /\ kernel.mousePacketReady

\* A byte the controller interrupts for leaves the buffer, however boot and
\* devices interleaved, unless the kernel shuts the machine down.
BufferDrains ==
  (Running /\ Lines(controller) # {}) ~> (Lines(controller) = {} \/ kernel.off)

\* All that the devices send arrives, if they were left alone until the kernel
\* had settled.
InputArrives ==
  (Running /\ ~disturbed) ~> (Quiet \/ disturbed \/ kernel.off)
=============================================================================
