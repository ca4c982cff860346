SPECIFICATION Spec
CONSTANTS
  Char <- All
  MaxLength = 6
INVARIANTS
  TypeOK
  StackIsPath
  
  RoundTrip
