CONSTANTS
  Keys = {k1, k2, k3}
  NoKey = NoKey
  MapSize = 2
  Words = {word}
  StrEmpty = StrEmpty
  StrTrue = StrTrue
  StrFalse = StrFalse
  BadStrings = {bad}
  Addrs = {ip}
  Dotted <- MCDotted
  Garbage = Garbage
  None = None
  Threads = {t1}
  Order <- TextOnly
  MaxStorages = 2
  MaxSignals = 0
  Cached = FALSE
  Inputs <- TextSafe
  word = word
  bad = bad
  ip = ip
  dotted = dotted
SPECIFICATION Spec
INVARIANT SaveAtomic
INVARIANT GetReturnsSet
