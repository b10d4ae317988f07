SPECIFICATION FairSpec
CONSTANTS
  N = 3
  Nobody = Nobody
INVARIANTS SectionsHeld NeighboursDoNotEat BothForks NoHoldAndWait
PROPERTIES StateGuarded ForksPutBack
