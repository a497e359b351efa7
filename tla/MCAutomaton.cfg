SPECIFICATION CAFairSpec
CONSTANTS
  Width = 3
  Height = 3
  Rules <- MCRules
  LineSpan = 4
  NumWords = 10
INVARIANTS
  CATypeOK
  CAShape
  PictureShown
PROPERTIES
  ContinuesPicture
  PictureEnds
