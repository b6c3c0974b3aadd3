CONSTANTS
  Workers = {w1, w2}
  Kinds = {"render", "search"}
  MaxRevision = 1
  MaxContext = 0
  MaxAttempts = 2
  Legacy = TRUE
  Listings = {TRUE, FALSE}
  Windowed = TRUE
  Protectable = FALSE
  Faulty = TRUE
  NoToken = NoToken
  Lost = Lost
  NoRender = NoRender
  NoVector = NoVector
  Idle = Idle
SYMMETRY MCSymmetry
SPECIFICATION Spec
INVARIANTS OpenedPageIsIndexed
CHECK_DEADLOCK FALSE
