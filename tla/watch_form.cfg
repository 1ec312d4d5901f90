CONSTANTS
  amc = amc  club = club  theater = theater  house = house
  matinee = matinee  evening = evening  film = film
  large = large  small = small  today1 = today1  tomorrow = tomorrow  A1 = A1  A2 = A2
  Providers <- TheProviders
  Offers <- TheOffers
  Venues = {theater, house}
  OwnerOf <- TheOwners
  Shows <- TheShows
  VenueOf <- TheVenues
  DateOf <- TheDates
  FilmOf <- TheFilms
  RoomOf <- TheRooms
  Rooms = {large, small}
  SeatsOf <- TheSeats
  Dates = {today1, tomorrow}
  Films = {film}
  Seats = {A1}
  Box <- TheBoxes
  Points <- ThePoints
  Today = today1
  Default = club
  Edited <- TheWatch
  Prefs0 <- ThePrefs0
  MaxCalls = 2
SPECIFICATION Spec
INVARIANTS TypeOK 
PROPERTY SaveIsAsked
CHECK_DEADLOCK FALSE
