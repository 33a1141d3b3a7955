SPECIFICATION Spec
CONSTANTS
  IntMax = 6159
  LowerOf <- MCLowerOf
  Atoms = {"ack"}
  StartLines <- MCStartLines
  Pieces <- MCPieces
  MaxPieces = 3
INVARIANTS UnfoldsLines ParsesEveryLine
