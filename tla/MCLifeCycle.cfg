CONSTANT
  Majors = {1, 2}
SPECIFICATION Spec
INVARIANTS
  TypeOK
  LoadedNodeIsDevice
  DeviceOutlivesStreams
 
CHECK_DEADLOCK FALSE
