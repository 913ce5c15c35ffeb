CONSTANTS
  Keys = {k1, k2}
  NoKey = NoKey
  MapSize = 2
  Words = {word}
  StrEmpty = StrEmpty
  StrTrue = StrTrue
  StrFalse = StrFalse
  BadStrings = {bad}
  Addrs = {ip}
  Dotted <- MCDotted
  Garbage = Garbage
  None = None
  Threads = {t1}
  Order <- TextBin
  MaxStorages = 2
  MaxSignals = 0
  Cached = TRUE
  Inputs <- TwoInts
  word = word
  bad = bad
  ip = ip
  dotted = dotted
SPECIFICATION Spec
INVARIANT TypeOK
INVARIANT TextKept
INVARIANT RebootKeeps
INVARIANT CrashAtomic
