\* Seven steps over three depths, three services, seven possible worlds.
SPECIFICATION Spec
CONSTANTS
  Step <- MCStep
  Then <- MCThen
  Url = {"a", "b", "c"}
  UrlOf <- MCUrlOf
  Query <- MCQuery
  RootParent = {"users", "version"}
  ParentType <- MCParentType
  WithVariables = {"price"}
  Id = {"", "x", "y", "z", "bad"}
  NoId = ""
  TypeOf <- MCTypeOf
  World <- MCWorld
INVARIANTS
  IInv
  NoWastedQuery
  FailsAsOne
PROPERTIES
  Terminates
  ImplementsPlanExecution
