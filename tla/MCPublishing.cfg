SPECIFICATION Spec
CONSTANTS
  Actors = {a1, a2}
  Dates <- MCDates
  Slug = slug
  Objects <- MCObjects
SYMMETRY Symmetry
INVARIANTS
  TypeOK
  CommandIsOfOneVersionAndDate
  ReplaysAreIdentical
