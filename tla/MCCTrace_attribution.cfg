CONSTANTS
  c1 = c1
  c2 = c2
  c3 = c3
  Clients <- MCClients2
  NumCats = 2
  kMaxCategories = 4
  MaxEvents = 1
  Instances = {0}
SPECIFICATION Spec
INVARIANT EventsAttributedToOwnCategory
