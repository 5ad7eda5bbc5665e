SPECIFICATION FairSpec
CONSTANTS
  Texts <- SomeTexts
  Frames <- SomeFrames
  MaxFrame = 5
  MaxSent = 3
PROPERTIES DeliversInOrder PipeDrains
