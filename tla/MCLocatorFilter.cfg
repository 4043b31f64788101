CONSTANTS
  h1 = h1
  h2 = h2
  Nil = Nil
  Callers = {c1, c2}
  Hashes <- MCHashes
  Locators <- MCLocators
  Stops <- MCStops
  MaxLocators = 1
  MaxCalls = 3
SPECIFICATION Spec
\* the callers stop after MaxCalls calls
CHECK_DEADLOCK FALSE
INVARIANT BackToBackSuppressed
