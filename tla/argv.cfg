SPECIFICATION Spec
CONSTANTS
  Denied <- McDenied
  Dotted <- McDotted
  Vocabulary <- McWords
  Sextet <- McSextets
  MaxWords = 3
  MaxNest = 2
  MaxCode = 6
INVARIANTS NothingHides DecodesTheBits
CHECK_DEADLOCK FALSE
