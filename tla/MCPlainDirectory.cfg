SPECIFICATION Spec
CONSTANTS
  a = a
  b = b
  c = c
  model = model
  Package = Package
  Elsewhere = Elsewhere
  TooShort = TooShort
  Names <- MCNames
  Cut <- MCCut
  Empty <- MCNone
  Items <- MCPlain
  Added <- MCNone
INVARIANTS
  PlainDirectoriesServed
