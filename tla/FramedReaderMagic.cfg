SPECIFICATION FairSpec
CONSTANTS
  Texts <- SomeTexts
  Frames <- MagicFrames
  MaxFrame = 5
  MaxSent = 3
PROPERTY DeliversInOrder
