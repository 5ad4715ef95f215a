\* Everything may fail.
SPECIFICATION Spec
CONSTANTS
  Calls = {"c1", "c2", "c3", "c4", "c5"}
  Requests = {"r1", "r2", "r3"}
  Products <- Items
  Args <- Repeats
  InitialStock <- FewItems
CHECK_DEADLOCK FALSE
INVARIANTS Inv AnswerIsTrue AcceptedStaysReserved
