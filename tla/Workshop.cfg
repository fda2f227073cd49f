SPECIFICATION Spec
CONSTANTS
  m1 = m1  m2 = m2  own = own  other = other
  j1 = j1  j2 = j2  n1 = n1  n2 = n2
  Mods = {m1, m2}
  Own = own
  Other = other
  NewIds = {n1, n2}
  Jobs = {j1, j2}
  Candidates <- MCCandidates
  HiddenSets <- MCHiddenSets
  Workshops <- MCWorkshops
  MAX_COLLECTION_DEPTH = 2
  DEFAULT_RETRY_ATTEMPTS = 2
  MAX_CHILDREN = 2
  MaxEdits = 1
  MaxFaults = 1
SYMMETRY Symmetry
INVARIANTS ResolutionFaithful NoStrayCollection TitleNeverAhead
CHECK_DEADLOCK FALSE
