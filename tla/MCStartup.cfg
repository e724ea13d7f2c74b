\* Every pair of twenty-four services and ten triples, in every order, with both
\* mergers.
SPECIFICATION Spec
CONSTANTS
  World <- MCWorld
INVARIANTS
  IInv
  AskedWhereDeclared
  NothingLost
  ConflictsRefused
