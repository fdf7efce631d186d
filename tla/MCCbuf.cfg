SPECIFICATION CbufRunSpec
CONSTANTS
  Readers = {r1}
  Writers = {w1, w2}
  Pollers = {r1}
  Values = {0, 1}
  Size = 3
  MaxLen = 3
  IrqWorkers = 2
  IrqLines = {1, 2}
  IRQQ_SIZE = 3
  SerialReaders = {1, 2}
  SerialBytes = {65, 127}
  SERIAL_SIZE = 3
  SERIAL_CAP = 2
  SerialAsked = {1, 4}
  Buttons <- MCButtons
  sends <- MCSends
  translation <- MCTranslation
  KB_SIZE = 6
  REPEAT_AFTER = 1
  MaxStrokes = 4
  TTY_AMOUNT = 2
  TtyFiles = {f1, f2}
  NoFile = NoFile
CONSTRAINT NotLapped
INVARIANTS
  InterruptsInOrder
  SleepsOnlyInWindow
  SerialInOrder
  SerialSleepsForBytes
  KeysInOrder
  KeysFollowKeyboard
PROPERTIES
  ImplementsFifo
  TransferEnds
