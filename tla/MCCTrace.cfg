CONSTANTS
  c1 = c1
  c2 = c2
  c3 = c3
  Clients <- MCClients2
  NumCats = 1
  kMaxCategories = 4
  MaxEvents = 2
  Instances = {0, 1}
SPECIFICATION Spec
INVARIANTS
  TypeOK
  RegisteredRangesOwned
  EventIndexRegistered
  StateMatchesEnabled

