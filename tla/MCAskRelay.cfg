SPECIFICATION Spec
CONSTANTS
  p1 = p1
  p2 = p2
  Phones <- TwoPhones
  MaxAsks = 2
  MaxMishaps = 1
SYMMETRY Alike
CONSTRAINT Shapes
INVARIANTS TypeOK AnswersCount CardsFollow
CHECK_DEADLOCK FALSE
