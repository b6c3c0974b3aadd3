CONSTANTS
  Workers = {w1, w2}
  Kinds = {"render", "links", "search"}
  MaxRevision = 3
  MaxContext = 1
  MaxAttempts = 2
  Legacy = TRUE
  Listings = {TRUE, FALSE}
  Windowed = FALSE
  Protectable = TRUE
  Faulty = TRUE
  NoToken = NoToken
  Lost = Lost
  NoRender = NoRender
  NoVector = NoVector
  Idle = Idle
SYMMETRY MCSymmetry
SPECIFICATION MCSpec
INVARIANTS TypeOK LinksReceiptIsTrue SearchReceiptIsTrue BodyIsCertified NoRaceFailsAReceipt CertifiedHtmlIsCurrent
