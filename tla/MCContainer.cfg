\* All lists of four declarations, groups nested in any way, and of three providers.
CONSTANTS
  Keys <- MCKeys
  Priorities <- MCPriorities
  MaxDeclarations = 4
  MaxProviders = 3
  None = None
  Scale = 3
  MaxInt = 7
SPECIFICATION Declarations
INVARIANT TypeOK BindingsExist MeaningIsKept GroupIsOrdered
\* A list is complete when it has as many declarations as the bounds allow.
CHECK_DEADLOCK FALSE
