SPECIFICATION Spec
CONSTANTS
  dosa = dosa
  pizza = pizza
  udupi = udupi
  napoli = napoli
  Items = {dosa, pizza}
  RestaurantOf <- TwoRestaurants
  Rows = {1, 2}
  Sessions = {s1, s2}
  Crashes = TRUE
  NoRestaurant = NoRestaurant
  NoItem = NoItem
  NoRow = NoRow
INVARIANTS TypeOK RowOrderedOnce OnlyRemovalDeadlocks
PROPERTIES CheckoutTakesWholeCart
SYMMETRY Symmetric
