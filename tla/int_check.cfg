CONSTANTS
  BLKSIZE = 4
  KEYSIZE = 2
  CRC_SIZE = 2
  Bytes <- MCBytes
  Crc <- MCCrc
  Fields = {"A", "B"}
  Values <- MCValues
  NewRecords <- MCNewRecords
  Starts <- MCStarts
  Passwords <- MCPasswords
  IntMax = 3
  SizeMax = 15
  MaxRecords = 2
  MaxCommands = 2
SPECIFICATION Spec
CHECK_DEADLOCK FALSE
INVARIANTS
  CheckExact
  CheckRestores
  EncryptReversible
PROPERTIES
  DescriptorKept
  AutoFresh
