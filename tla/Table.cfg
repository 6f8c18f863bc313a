SPECIFICATION Spec
CONSTANTS
  a = a
  b = b
  c = c
  d = d
  x = x
  y = y
  Key <- MCKey
  Value <- MCValue
  Hash <- MCHash
  Compared <- MCCompared
  InitialCapacity = 2
  MaxCapacity = 8
  Null = Null
  PseudoNull = PseudoNull
  Nothing = Nothing
INVARIANT TypeOK
INVARIANT ProbesComplete
INVARIANT CountIsExact
INVARIANT RebuildFits
PROPERTY ImplementsMap
