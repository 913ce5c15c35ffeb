CONSTANTS
  Keys = {k1}
  NoKey = NoKey
  MapSize = 1
  Words = {word}
  StrEmpty = StrEmpty
  StrTrue = StrTrue
  StrFalse = StrFalse
  BadStrings = {bad}
  Addrs = {ip}
  Dotted <- MCDotted
  Garbage = Garbage
  None = None
  Threads = {t1, t2}
  Order <- TextBin
  MaxStorages = 2
  MaxSignals = 2
  Cached = TRUE
  Inputs <- TwoInts
  word = word
  bad = bad
  ip = ip
  dotted = dotted
SPECIFICATION FairSpec
INVARIANT NoForgottenSave
PROPERTY NotifiedOnChange
PROPERTY EventuallySaved
