CONSTANTS
  Workers = {w1, w2}
  Kinds = {"render", "links"}
  MaxRevision = 3
  MaxContext = 0
  MaxAttempts = 1
  Legacy = FALSE
  Listings = {TRUE}
  Windowed = FALSE
  Protectable = FALSE
  Faulty = FALSE
  NoToken = NoToken
  Lost = Lost
  NoRender = NoRender
  NoVector = NoVector
  Idle = Idle
SYMMETRY MCSymmetry
SPECIFICATION Spec
INVARIANTS LinksReceiptIsTrue
CHECK_DEADLOCK FALSE
