CONSTANTS
  Workers = {w1}
  Kinds = {"render", "search"}
  MaxRevision = 2
  MaxContext = 1
  MaxAttempts = 1
  Legacy = FALSE
  Listings = {TRUE}
  Windowed = TRUE
  Protectable = TRUE
  Faulty = TRUE
  NoToken = NoToken
  Lost = Lost
  NoRender = NoRender
  NoVector = NoVector
  Idle = Idle
SPECIFICATION MCLiveSpec
PROPERTIES Converges
CHECK_DEADLOCK FALSE
