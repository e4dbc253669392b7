SPECIFICATION Spec
CONSTANTS
  Null = Null
  Creatable = {"cuda", "vaapi"}
  DecConfigs <- MCDecConfigs
  EncConfigs <- MCEncConfigs
  HwAccels <- MCHwAccels
  NumOutputs = 3
  Dest = {"a", "b"}
  DestOf <- MCDestOf
  Kind <- MCKind
  Delay <- MCDelay
  MaxQueue = 3
  NumGraphs = 2
  Inputs <- MCInputs
  GraphOf <- MCGraphOf
  Lag <- MCLag
  NoFormat = NoFormat
  Declared <- MCDeclared
  Supported <- MCSupported
  Shape <- MCShape
  Sample <- MCSample
  NumFiles = 2
  Streams <- MCStreams
  Media <- MCMedia
  Options <- MCOptions
  MaxWaits = 2
INVARIANTS TypeOK PacketsAccounted FramesAccounted Complete DeviceFits EncoderFormat
PROPERTIES Ends
CHECK_DEADLOCK FALSE
