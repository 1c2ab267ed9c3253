SPECIFICATION Spec
CONSTANTS
  None = None
  Files <- MCFiles
INVARIANTS
  ServesSeeded
