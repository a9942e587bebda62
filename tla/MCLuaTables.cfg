SPECIFICATION LTSpec
CONSTANTS
  two = two
  name = name
  cdata = cdata
  flag = flag
  Nil = Nil
  Indices = {1, 2, 3}
  Numerals = {two}
  Names = {name}
  Truncated <- MCTruncated
  Values = {cdata, flag}
  Pointers = {cdata}
  Plain = {flag}
  Sources <- MCSources
  MaxPack = 3
  MaxChanges = 1
INVARIANTS KeysExact AppendFresh SequentialIff KeyofTrue PackRoundTrip
