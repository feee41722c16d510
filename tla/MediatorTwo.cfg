SPECIFICATION FairSpec
CONSTANTS
  lwm2m = lwm2m
  mqtt = mqtt
  Ids <- Lwm2mAndMqtt
  Owner = lwm2m
  Started <- Lwm2mAndMqtt
  TxCallers <- NoTask
  SelectTask = SelectTask
  Nobody = Nobody
  Sds = {1}
  NoSd = NoSd
  Timeouts = {0}
  MaxResponse = 2
  Parts = 1
  MaxTime = 2
  MaxClockSets = 0
INVARIANTS
  TypeOK
  WakeUsesUpRegistration
PROPERTIES
  ImplementsWait
  EveryCallReturns
  RegistrationIsScanned
