CONSTANTS
  Ann = Ann
  Bob = Bob
  CatF = CatF
  CatFG = CatFG
  Refused = Refused
  F = F
  G = G
  MaxVersion = 1
  Agents = {Ann, Bob}
  Paths <- OneFile
  Contents <- Versions
  Blank = 0
  Commands <- OneOrRefused
  Reads <- ReadsOneOrRefused
  Rewrites <- Forward
  Width <- Growing
  MaxEntries = 1
  MaxBytes = 2
  Expiring = TRUE
  NoEntry = NoEntry
  Nobody = Nobody
SPECIFICATION Spec
PROPERTY CallReturns
