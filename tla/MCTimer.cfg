SPECIFICATION TimerSpec
CONSTANTS
  BaseFrequency = 20
  MaxDivisor = 9
  InitialDivisor = 10
  Word = 11
  Byte = 10
  FirmwareReloads <- SomeReloads
  Divisors <- AllDivisors
  Frequencies <- AllFrequencies
  Sleeps <- SomeSleeps
  Unit = 3
  Rounding = 1
  InputSteps = 2
  MaxTime = 40
INVARIANTS
  ProgrammedAsAsked
PROPERTIES
  SleepLength
  SleepReturns
