SPECIFICATION Spec
CONSTANTS
  Requests = {r1, r2}
  Django = Django
  Rust = Rust
  Own = Own
SYMMETRY Symmetry
CHECK_DEADLOCK FALSE
INVARIANTS
  ParsedAsChosen
  OthersAreLeftAlone
