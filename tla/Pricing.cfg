SPECIFICATION PricingSpec
CONSTANTS
  LastNight = 1
  MaxPrice = 2
  Rules <- MCRules
  Bundles <- MCBundles
  PeriodIds = {1, 2}
  Campaigns = {1}
  Editors = {e1, e2}
  Extras = {}
  MaxRooms = 1
  MaxEdits = 3
SYMMETRY PricingSymmetry
INVARIANTS
  OnePeriodANight
  OffersHonoured
PROPERTIES
  SyncRestoresPrices
  NightsKeepTheirPrice
CHECK_DEADLOCK FALSE
