SPECIFICATION Spec
CONSTANTS
  Byte <- MCByte
  Key <- MCKey
  Xor <- XorByte
  CrcStep <- crc8_step
  Rc5Encrypt <- FeistelEncrypt
  Rc5Decrypt <- FeistelDecrypt
  th = th
  water = water
  click = click
  picTh = picTh
  picWater = picWater
  Device = {th, water, click, picTh, picWater}
  Installation <- MCInstallation
  Program <- MCProgram
  Uuid <- MCUuid
  DeviceKey <- MCDeviceKey
  RadioDevice = {th, picTh, picWater}
  Config <- MCConfig
  Rand = {165}
  Reading <- MCReading
  Adc = {100, 140}
  Voltage <- MCVoltage
  Text <- MCText
  MaxSent <- MCSent
  MaxMetered = 100
INVARIANTS
  TypeOK
  Authentic
  Readable
CHECK_DEADLOCK FALSE
