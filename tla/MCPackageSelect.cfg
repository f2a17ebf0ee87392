CONSTANTS
  N = 3
  MaxVersion = 2
  Weights <- WeightValues
  NoOffer = NoOffer
  MaxUrls = 3
SPECIFICATION UrlSpec
INVARIANTS SelectTypeOK MetaExFindsBest UpgradeAgreesWithInstall UrlAnswers
CHECK_DEADLOCK FALSE
