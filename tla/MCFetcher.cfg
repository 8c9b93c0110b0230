\* Lines of 18 pixels with two sprites and the window, and every register
\* written at any tick.
CONSTANTS
  Width = 18
  MapWidth = 4
  Sprites = 2
  LineSprites = 2
  Solid <- Left
  Settings <- MCSettings
  Inputs <- MCInputs
  MaxWindowLines = 1
  MaxChanges = 1
  Spent = 1

SPECIFICATION Spec

INVARIANTS
  FetcherTypeOK
  BackgroundInOrder
  FirstSpriteWins
  SpritesOnTime
  LineFits

PROPERTIES
  LineEnds
