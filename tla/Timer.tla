------------------------------- MODULE Timer -------------------------------
(***************************************************************************)
(* The timer (scheduling/pit/pit.cpp) with its interrupt handler, next to  *)
(* the interval timer and the interrupt controller it programs, and the    *)
(* handlers of keyboard and mouse, which delay it (external).              *)
(*                                                                         *)
(* The interval timer counts clocks, BaseFrequency of them in a second.    *)
(* What a tick adds to the time is a fraction of a second that is no whole *)
(* number of clocks: the kernel's time is counted in units, Unit of them   *)
(* in a clock.  The processor makes at least one step from one clock to    *)
(* the next, unless it halts.                                              *)
(***************************************************************************)
EXTENDS Integers

CONSTANTS
  BaseFrequency,   \* Clocks in a second (1193182).
  MaxDivisor,      \* The largest divisor SetDivisor lets through (100).
  InitialDivisor,  \* Divisor before SetDivisor is called (65535).
  Word,            \* Values of a uint16_t (65536); as a reload value 0 stands for it.
  Byte,            \* Values of a byte (256).
  FirmwareReloads, \* What the firmware may have programmed.
  Divisors,        \* Arguments of SetDivisor.
  Frequencies,     \* Arguments of SetFrequency.
  Sleeps,          \* Arguments of Sleepd, in units.
  Unit,            \* Units in a clock: enough that each tick is a number of units.
  Rounding,        \* Units by which the doubles of a sleep may be wrong together.
  InputSteps,      \* Steps the handlers of the inputs take in a period, at most.
  MaxTime          \* Bound of the model: clocks are not counted further in a sleep.

MaxUnits == MaxTime * Unit

GetFrequencyOf(divisor) == BaseFrequency \div divisor

\* SetFrequency's division.
DivisorFor(frequency) ==
  BaseFrequency \div (IF frequency > BaseFrequency THEN BaseFrequency ELSE frequency)

\* One unit that fits every divisor there is: the least common multiple of the
\* frequencies.  The last part is a fact about the numbers above: the divisors too large for a
\* uint16_t (of frequencies up to 18) leave 751 or more when they are cut off.
ASSUME TimerAssumption ==
  /\ BaseFrequency \in Nat /\ MaxDivisor \in Nat \ {0} /\ InitialDivisor \in Nat \ {0}
  /\ MaxDivisor <= BaseFrequency /\ InitialDivisor <= BaseFrequency
  /\ Byte \in Nat /\ MaxDivisor < Byte /\ Word \in Nat \ {0}
  /\ FirmwareReloads \subseteq 1 .. Word
  /\ Divisors \subseteq 0 .. Word - 1 /\ Frequencies \subseteq Nat
  /\ Unit \in Nat \ {0} /\ Rounding \in Nat /\ InputSteps \in Nat
  /\ MaxTime \in Nat /\ Sleeps \subseteq 0 .. MaxUnits - Rounding
  /\ \A d \in 1 .. MaxDivisor \cup {InitialDivisor} :
       (BaseFrequency * Unit) % GetFrequencyOf(d) = 0
  /\ \A f \in Frequencies \ {0} :
       DivisorFor(f) >= Word => DivisorFor(f) % Word >= MaxDivisor

VARIABLES
  Divisor,         \* The divisor the software counts with.
  TimeSinceBoot,   \* In units, since the start of the sleep, 0 outside: only
                   \* differences matter.
  cpu,             \* The step the kernel is at (pc), the step an interrupt returns
                   \* to (back), and the argument of the call (arg).
  pit,             \* Clocks left (count) of the period in progress (period), the
                   \* period after it (reload), the byte that waits for a second one
                   \* (low); History: how far the last SetDivisor got (program).
  pic,             \* The timer interrupt requested (irr) and in service (isr).
  input,           \* Steps left to the handlers of the inputs in this period.
  ran,             \* The processor made a step since the last clock.
  elapsed,         \* History: clocks since the start of the sleep.
  settled,         \* History: the sleep began after the programmed period had begun.
  asked            \* History: the frequency of the last SetFrequency, 0 after others.

timerVars == <<Divisor, TimeSinceBoot, cpu, pit, pic, input, ran, elapsed, settled, asked>>

-----------------------------------------------------------------------------

GetFrequency == GetFrequencyOf(Divisor)

\* What a tick adds to the time: 1 / (double)GetFrequency() seconds, in units.  The
\* frequency is rounded down, so that it is as long as a period or longer.
Weight(divisor) == (BaseFrequency * Unit) \div GetFrequencyOf(divisor)

\* The argument is a uint16_t, which cuts off what SetFrequency computes.
Clamp(divisor) ==
  LET d == divisor % Word
  IN  IF d > MaxDivisor THEN MaxDivisor ELSE IF d < 1 THEN 1 ELSE d

\* Interrupts are off in the handlers, whose gates are interrupt gates, and in a panic.
InterruptsOn == cpu.pc \notin {"Tick", "EndMaster", "Iret", "Input", "Panic"}

Deliverable == pic.irr /\ ~pic.isr /\ InterruptsOn

Sleeping == cpu.pc \in {"Test", "Halt", "Halted"} \/ cpu.back \in {"Test", "Halt"}

NoCall == "Idle"

\* Clocks, and units.
UpToMaxTime(t) == IF t > MaxTime THEN MaxTime ELSE t
UpToMaxUnits(t) == IF t > MaxUnits THEN MaxUnits ELSE t

\* A halted processor goes on behind the halt.
Return == IF cpu.pc = "Halted" THEN "Test" ELSE cpu.pc

-----------------------------------------------------------------------------
(* The calls.  An interrupt that can be delivered goes first.              *)

Undisturbed(pc) == cpu.pc = pc /\ ~Deliverable

Goto(pc) == cpu' = [cpu EXCEPT !.pc = pc] /\ ran' = TRUE

Hardware == <<pit, pic, input>>
Histories == <<elapsed, settled, asked>>

\* The divisor compared, and stored, as it was passed.
ProgramUnclamped(divisor, frequency) ==
  /\ Divisor' = IF divisor % Word < 1 THEN 1 ELSE divisor % Word
  /\ cpu' = [cpu EXCEPT !.pc = "LowByte", !.arg = Clamp(divisor)]
  /\ asked' = frequency /\ ran' = TRUE
  /\ UNCHANGED <<TimeSinceBoot, Hardware, elapsed, settled>>

\* SetDivisor up to the first byte: Divisor counts for the next tick already.
Program(divisor, frequency) ==
  /\ Divisor' = Clamp(divisor)
  /\ cpu' = [cpu EXCEPT !.pc = "LowByte", !.arg = Clamp(divisor)]
  /\ asked' = frequency /\ ran' = TRUE
  /\ UNCHANGED <<TimeSinceBoot, Hardware, elapsed, settled>>

SetDivisor == Undisturbed(NoCall) /\ \E d \in Divisors : Program(d, 0)

\* Frequency 0 divides by zero, an exception without a gate of its own.
SetFrequency ==
  /\ Undisturbed(NoCall)
  /\ \E f \in Frequencies :
       IF f = 0 THEN Goto("Panic") /\ UNCHANGED <<Divisor, TimeSinceBoot, Hardware, Histories>>
                ELSE Program(DivisorFor(f), f)

OutLowByte ==
  /\ Undisturbed("LowByte")
  /\ pit' = [pit EXCEPT !.low = cpu.arg % Byte]
  /\ Goto("HighByte")
  /\ UNCHANGED <<Divisor, TimeSinceBoot, pic, input, Histories>>

\* The new period begins when the one in progress is over.
OutHighByte ==
  /\ Undisturbed("HighByte")
  /\ LET r == pit.low + Byte * (cpu.arg \div Byte)
     IN  pit' = [pit EXCEPT !.reload = IF r = 0 THEN Word ELSE r, !.low = 0,
                   !.program = "written"]
  /\ cpu' = [cpu EXCEPT !.pc = NoCall, !.arg = 0] /\ ran' = TRUE
  /\ UNCHANGED <<Divisor, TimeSinceBoot, pic, input, Histories>>

Sleepd ==
  /\ Undisturbed(NoCall)
  /\ \E seconds \in Sleeps : cpu' = [cpu EXCEPT !.pc = "Test", !.arg = seconds]
  /\ UNCHANGED <<TimeSinceBoot, elapsed>> /\ settled' = (pit.program = "running") /\ ran' = TRUE
  /\ UNCHANGED <<Divisor, Hardware, asked>>

SleepOn == Goto("Halt") /\ UNCHANGED <<TimeSinceBoot, elapsed, settled>>

SleepOver ==
  /\ cpu' = [cpu EXCEPT !.pc = NoCall, !.arg = 0] /\ ran' = TRUE
  /\ TimeSinceBoot' = 0 /\ elapsed' = 0 /\ settled' = FALSE

\* The test of the loop, TimeSinceBoot < startTime + seconds, with doubles.
MayBeLess == TimeSinceBoot < cpu.arg + Rounding
MayNotBeLess == TimeSinceBoot + Rounding >= cpu.arg

\* The test of the loop with one tick too many.
SleepTestLate ==
  /\ Undisturbed("Test")
  /\ IF TimeSinceBoot <= cpu.arg + Rounding THEN SleepOn ELSE SleepOver
  /\ UNCHANGED <<Divisor, Hardware, asked>>

SleepTest ==
  /\ Undisturbed("Test")
  /\ (MayBeLess /\ SleepOn) \/ (MayNotBeLess /\ SleepOver)
  /\ UNCHANGED <<Divisor, Hardware, asked>>

\* A tick between the test and the halt is noticed after the next one only.
Hlt ==
  /\ Undisturbed("Halt")
  /\ Goto("Halted")
  /\ UNCHANGED <<Divisor, TimeSinceBoot, Hardware, Histories>>

-----------------------------------------------------------------------------
(* PITInt_Handler.  Interrupts are off until it returns.                   *)

PITInt_Handler ==
  /\ Deliverable
  /\ pic' = [irr |-> FALSE, isr |-> TRUE]
  /\ cpu' = [cpu EXCEPT !.pc = "Tick", !.back = Return] /\ ran' = TRUE
  /\ UNCHANGED <<Divisor, TimeSinceBoot, pit, input, Histories>>

Tick ==
  /\ cpu.pc = "Tick"
  /\ TimeSinceBoot' = IF Sleeping THEN UpToMaxUnits(TimeSinceBoot + Weight(Divisor))
                       ELSE TimeSinceBoot
  /\ Goto("EndMaster")
  /\ UNCHANGED <<Divisor, Hardware, Histories>>

\* The handler returning without the end of interrupt.
NoEndMaster ==
  /\ cpu.pc = "EndMaster"
  /\ Goto("Iret")
  /\ UNCHANGED <<Divisor, TimeSinceBoot, Hardware, Histories>>

PIC_EndMaster ==
  /\ cpu.pc = "EndMaster"
  /\ pic' = [pic EXCEPT !.isr = FALSE]
  /\ Goto("Iret")
  /\ UNCHANGED <<Divisor, TimeSinceBoot, pit, input, Histories>>

Iret ==
  /\ cpu.pc = "Iret"
  /\ cpu' = [cpu EXCEPT !.pc = cpu.back, !.back = NoCall] /\ ran' = TRUE
  /\ UNCHANGED <<Divisor, TimeSinceBoot, Hardware, Histories>>

-----------------------------------------------------------------------------
(* The handlers of keyboard and mouse, the only other interrupts the       *)
(* kernel unmasks.  What they do is left out; they take steps, with        *)
(* interrupts off, and wake a processor that halts.                        *)

\* The timer's request goes first.
InputInterrupt ==
  /\ InterruptsOn /\ ~pic.irr /\ ~pic.isr /\ input >= 2
  /\ cpu' = [cpu EXCEPT !.pc = "Input", !.back = Return] /\ ran' = TRUE
  /\ input' = input - 1
  /\ UNCHANGED <<Divisor, TimeSinceBoot, pit, pic, Histories>>

InputRuns ==
  /\ cpu.pc = "Input" /\ input >= 2
  /\ input' = input - 1 /\ ran' = TRUE
  /\ UNCHANGED <<Divisor, TimeSinceBoot, cpu, pit, pic, Histories>>

InputReturns ==
  /\ cpu.pc = "Input"
  /\ cpu' = [cpu EXCEPT !.pc = cpu.back, !.back = NoCall] /\ ran' = TRUE
  /\ input' = input - 1
  /\ UNCHANGED <<Divisor, TimeSinceBoot, pit, pic, Histories>>

-----------------------------------------------------------------------------
(* The interval timer (external).  A request made while one is pending is  *)
(* lost.                                                                   *)

Waits == cpu.pc \in {NoCall, "Halted", "Panic"} /\ ~Deliverable

Clock ==
  /\ ran \/ Waits
  /\ ran' = FALSE
  /\ IF pit.count > 1
     THEN pit' = [pit EXCEPT !.count = @ - 1] /\ UNCHANGED <<pic, input>>
     ELSE /\ pit' = [pit EXCEPT !.count = pit.reload, !.period = pit.reload,
                       !.program = IF @ = "written" THEN "running" ELSE @]
          /\ pic' = [pic EXCEPT !.irr = TRUE] /\ input' = InputSteps
  /\ elapsed' = IF Sleeping THEN UpToMaxTime(elapsed + 1) ELSE elapsed
  /\ UNCHANGED <<Divisor, TimeSinceBoot, cpu, settled, asked>>

-----------------------------------------------------------------------------

TimerInit ==
  /\ Divisor = InitialDivisor /\ TimeSinceBoot = 0
  /\ cpu = [pc |-> NoCall, back |-> NoCall, arg |-> 0]
  /\ \E r \in FirmwareReloads :
       pit = [count |-> r, period |-> r, reload |-> r, low |-> 0, program |-> "none"]
  /\ pic = [irr |-> FALSE, isr |-> FALSE]
  /\ input = InputSteps /\ ran = FALSE /\ elapsed = 0 /\ settled = FALSE /\ asked = 0

Handler == PITInt_Handler \/ Tick \/ PIC_EndMaster \/ Iret

InputStep == InputRuns \/ InputReturns

SleepStep == SleepTest \/ Hlt

SetStep == OutLowByte \/ OutHighByte

TimerNext ==
  \/ SetDivisor \/ SetFrequency \/ Sleepd
  \/ SetStep \/ SleepStep \/ Handler \/ InputInterrupt \/ InputStep \/ Clock

\* The processor runs on and so does the clock; nobody has to call or to type.
TimerFairness ==
  WF_timerVars(SetStep \/ SleepStep \/ Handler \/ InputStep) /\ WF_timerVars(Clock)

TimerSpec == TimerInit /\ [][TimerNext]_timerVars /\ TimerFairness

-----------------------------------------------------------------------------
(* Properties.                                                             *)

\* After SetDivisor or SetFrequency has returned, the interval timer runs with the
\* divisor the software counts with, in range for one byte; a frequency asked for is
\* reached or exceeded, with the largest divisor that does so.
ProgrammedAsAsked ==
  /\ GetFrequency > 0
  /\ pit.program # "none" /\ {cpu.pc, cpu.back} \cap {"LowByte", "HighByte"} = {} =>
       pit.reload = Divisor
  /\ asked > 0 =>
       /\ GetFrequency >= IF asked > BaseFrequency THEN BaseFrequency ELSE asked
       /\ Divisor = MaxDivisor \/ GetFrequencyOf(Divisor + 1) < asked

\* Steps from a tick to the test of Sleepd that sees it.
Latency == 5 + InputSteps

\* The ticks that make up so many units.
TicksFor(units, divisor) ==
  IF units <= 0 THEN 0 ELSE (units + Weight(divisor) - 1) \div Weight(divisor)

\* A sleep on a timer that already runs with the programmed period takes all its
\* ticks, the first of which may come at once, and no more than one tick longer
\* than they need: the tick missed between the test and the halt.  A tick counts as
\* much as pit.cpp:47 says, whatever its period is.  (The upper bound needs a period
\* that leaves time for the handlers: else ticks are lost.)
SleepLength ==
  [][settled /\ cpu.pc = "Test" /\ cpu'.pc = NoCall =>
       /\ (TicksFor(cpu.arg - Rounding, pit.period) - 1) * pit.period < elapsed
       /\ pit.period > Latency =>
            elapsed <= (TicksFor(cpu.arg + Rounding, pit.period) + 1) * pit.period
                         + Latency]_timerVars

\* Every sleep ends, however long, also one interrupted between its test and its
\* halt, one an input wakes, or one begun while the period is being changed.  (Divisors
\* down to 1 are let through: a period as short as the handlers leaves the kernel no
\* step of its own.)
SleepReturns ==
  Sleeping ~> cpu.pc = NoCall \/ pit.period < Latency
=============================================================================
