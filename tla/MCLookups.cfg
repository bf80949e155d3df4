SPECIFICATION FairSpec
CONSTANTS
  IntBits = 4
  Declarations <- MCDeclarations
  Numbers <- MCNumbers
  Names <- MCNames
INVARIANTS InTable
PROPERTIES NumberFound NameFound SearchEnds
