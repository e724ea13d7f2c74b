SPECIFICATION Spec
CONSTANTS
  Url <- MCUrl
  Declares <- MCDeclares
  NodeType <- MCNodeType
  PossibleTypes <- MCPossibleTypes
  InterfaceType <- MCInterfaceType
  Definition <- MCDefinition
  Case <- MCNestedCase
INVARIANTS
  PointsComplete
