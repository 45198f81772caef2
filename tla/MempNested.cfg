SPECIFICATION Spec
CONSTANTS
  Num = 3
  Protect = FALSE
  Contexts = {"main", "isr"}
INVARIANTS GivenOnce
