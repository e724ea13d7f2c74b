\* Forty-four posts: batches, uploads of every shape, and maps that are wrong; and
\* fifty-two with all small texts between them.
SPECIFICATION Spec
CONSTANTS
  Service = {"a", "b"}
  f1 = f1
  f2 = f2
  File = {f1, f2}
  Absent = Absent
  NegativeIndex = {"-1", "-2"}
  Post <- MCPost
INVARIANTS
  IInv
  ResultsInPlace
  FilesPlaced
  FilesArrive
  VariablesOfTheText
