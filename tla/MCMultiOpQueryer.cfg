\* Batches and chunks of every shape; services answer too few, or one too many.
SPECIFICATION Spec
CONSTANTS
  Call <- MCCall
  Surplus = 1
INVARIANTS
  IInv
  AnswersInPlace
  SentOnce
