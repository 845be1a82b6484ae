CONSTANTS
  DICT = DICT
  LOCA = LOCA
  XMON = XMON
  declare = declare
  key = key
  r1 = r1
  r2 = r2
  reader = reader
  Standard <- MCStandard
  Custom <- MCCustom
  Rows <- MCRows
  Declares <- MCDeclares
  KeyFor <- MCKeyFor
  Missing = Missing
  MaxFileBytes = 7
  NoCert = NoCert
  NoDefines = NoDefines
  Follows = Follows
  NoDict = NoDict
  None = None
  Worlds <- CertifiedWorld
  NoRead = NoRead
  Caller = Caller
  Others <- MCOthers
  MaxEdits = 1
SPECIFICATION Spec
INVARIANTS AdmitIsFree
