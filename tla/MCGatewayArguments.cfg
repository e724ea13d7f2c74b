\* A variable named id, below the root, and one that is used in a directive only.
SPECIFICATION Spec
CONSTANTS
  Service = {"a", "b"}
  f1 = f1
  f2 = f2
  File = {f1, f2}
  Absent = Absent
  NegativeIndex = {"-1", "-2"}
  Post <- MCArgumentPost
INVARIANTS
  ArgumentsArrive
