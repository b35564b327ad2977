SPECIFICATION Spec
CONSTANTS
  Base = 24
  AppNames <- MCAppNames
  StreamNames <- MCStreamNames
  UrlPrefix = 20
  LocalChunkSize = 4096
  WinAckSize = 5000
  PeerBandwidth = 5000
  PropertyNames <- MCPropertyNames
  PropertyValues <- MCPropertyValues
  MaxProperties = 3
INVARIANTS Framed Understood OnlyLongRefused MetaDataKept
