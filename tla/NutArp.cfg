SPECIFICATION Spec
CONSTANTS
  Thread = {t1, t2, t3}
  Ip = {i1, i2}
  Ha = {h1}
  NoHa = NoHa
  Entry = {e1, e2}
  NoEntry = NoEntry
  MAX_ARPAGE = 1
  MAX_ARPREQUESTS = 1
INVARIANTS EntryAlive NoOrphan
PROPERTIES AnswerNotMissed QueryEnds
