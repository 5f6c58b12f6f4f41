SPECIFICATION PagesSpec
CONSTANTS
  DefaultSize = 2
  Sizes = {1, 2}
  MaxItems = 4
  MaxHalves = 4
INVARIANT EverySizeWalks
