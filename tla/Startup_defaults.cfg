\* A certificate and its key are given, no address; bindv6only is 0, as on Linux.
SPECIFICATION Spec
CONSTANTS
  Texts <- MCTexts
  Lines <- MCLines
  MaxPort = 8
  MinLine = 5
  DEFAULT_TLS_PORT = 2
  DefaultWorkers = 1
  V6Only = FALSE
  OptionBound = 2
  LineBound = 1
INVARIANTS DefaultAddressesBind
