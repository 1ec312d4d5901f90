CONSTANTS
  Rows = 4
  Columns = 5
  Layouts <- Rooms
  Payloads <- BothOrders
  Picks <- SomePicks
  Preferences <- SomePreferences
  Parties = {2, 3}
SPECIFICATION RoomSpec
INVARIANTS GateSeatsTheParty LinkHoldsUsersSeats PicksFollowTheRoom ZonesAreSymmetric
