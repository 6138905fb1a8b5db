CONSTANTS
  Profile = {"standard", "one_way_diode"}
  BadProfile = "bidirectional"
  NoConfig = NoConfig
  NoAnswer = NoAnswer
SPECIFICATION ServiceSpec
INVARIANT
  OnlyAssertedConfigsServe
PROPERTY
  AnswersAreOfTheStart
