\* Every line fits: the last lines of stderr race with cmd.Wait.
CONSTANTS
  Lines = {"text"}
  Capacity = 2
  MaxLines = 2
SPECIFICATION Spec
CHECK_DEADLOCK FALSE
INVARIANTS
  StderrIsLogged
