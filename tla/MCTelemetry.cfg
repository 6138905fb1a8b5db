CONSTANTS
  Windows <- MCWindows
  Alpha <- MCAlpha
  Ambient <- MCAmbient
  Irradiance <- MCIrradiance
  Noises <- MCNoises
  Rolls <- MCRolls
  None = None
SPECIFICATION GeneratorSpec
INVARIANTS
  UtilitySuppliesAll
  BusWithinBankPremises
  TemperaturesStayWithinTargets
PROPERTIES
  CountersNeverDecrease
  GenerationEnds
