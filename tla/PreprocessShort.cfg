CONSTANTS
  Char <- MCChar
  Numeral <- MCNumeral
  Arguments <- MCArguments
  Bodies <- AllBodies
SPECIFICATION Spec
INVARIANT Substituted

\* The trap returns: the run ends.
CHECK_DEADLOCK FALSE
