SPECIFICATION Spec
CONSTANTS
  StoreOrders <- EitherOrder
  Clicked = {"optimizer", "autostart"}
  MaxClicks = 4
INVARIANTS
  ChangesAreClicks
PROPERTIES
  NothingUnasked
  LastClickWins
  IconTellsTruth
