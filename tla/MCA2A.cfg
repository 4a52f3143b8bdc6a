CONSTANTS
  Calls = {1, 2, 3}
  Tasks = {1, 2}
  None = None
  Setups <- All
SPECIFICATION Spec
CHECK_DEADLOCK FALSE
INVARIANTS A2AInv
PROPERTIES FinalUnlessOvertaken StreamsEnd
