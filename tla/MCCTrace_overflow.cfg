CONSTANTS
  c1 = c1
  c2 = c2
  c3 = c3
  Clients <- MCClients3
  NumCats = 2
  kMaxCategories = 5
  MaxEvents = 0
  Instances = {0}
SPECIFICATION Spec
INVARIANT RegistryInBounds
