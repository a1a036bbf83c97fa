\* Requests that overlap or come in turn, and any typed number.
CONSTANTS
  r1 = r1 r2 = r2 r3 = r3
  Requests <- ThreeRequests
  FirstValues <- MCFirstValues
  Paddings <- MCPaddings
  TypedNumbers <- MCTypedNumbers
  MaxEvents = 4
SPECIFICATION CNSpec
SYMMETRY MCSymmetry
INVARIANTS
  IssuedOnceInTurn
  NothingIssuedAfterRetirementInTurn
  NextIsFree
  OneCertificatePerValue
  RetiredOnce
