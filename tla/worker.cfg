CONSTANTS
  Done = Done
  Modes <- MCModes
  Results <- MCOneResult
  ChargerTypes <- MCChargerTypes
  CounterRange = 2
SPECIFICATION BlockFairSpec
INVARIANTS
  TypeOK
  OverrideNeverLeaks
  OnlyWindowStoresAreLost
  CollectorSeesConfiguredMode
  CountersBracketCall
  OneCollector
  OnlyRunStoresAreUndone
  BlockHoldsTheState
PROPERTY
  StopHonoured
