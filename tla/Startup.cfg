\* Up to three options, as many as a TLS listener needs; bindv6only is 0.
SPECIFICATION Spec
CONSTANTS
  Texts <- MCTexts
  Lines <- MCLines
  MaxPort = 8
  MinLine = 5
  DEFAULT_TLS_PORT = 2
  DefaultWorkers = 1
  V6Only = FALSE
  OptionBound = 3
  LineBound = 2
INVARIANTS TypeOK ConfigAsAsked KeysProtect ListensAsAsked StartupEventIsTrue FailuresAreReported
