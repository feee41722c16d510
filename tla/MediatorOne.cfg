SPECIFICATION Spec
CONSTANTS
  lwm2m = lwm2m
  mqtt = mqtt
  Ids <- Lwm2mOnly
  Owner = lwm2m
  Started <- Lwm2mOnly
  TxCallers <- Lwm2mOnly
  SelectTask = SelectTask
  Nobody = Nobody
  Sds = {0, 1}
  NoSd = NoSd
  Timeouts = {0}
  MaxResponse = 2
  Parts = 2
  MaxTime = 3
  MaxClockSets = 1
INVARIANTS
  NoSleepOverRegistration
  NoUnaskedWake
  OnlyDrainOrExpiryLoses
  NoEarlyExpiry
