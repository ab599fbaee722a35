SPECIFICATION Spec
CONSTANTS
  Situations <- MCSituations
INVARIANTS
  DocumentedValuesTakeEffect
  NoScanOnWrongSettings
  SwitchesAgree
