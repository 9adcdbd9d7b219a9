\* Two tasks whose handlers each perform one nested action.
CONSTANTS
  t1 = t1  t2 = t2  n1 = n1  n2 = n2
  Calls <- NestedCalls
  Holders <- NestedHolders
  Keys = {k1, k2}
  NoHolder = NoHolder
  NoCall = NoCall
  HolderOf <- NestedHolderOf
  Outer <- NestedOuter
SPECIFICATION LeasesSpec
INVARIANT Exclusion
