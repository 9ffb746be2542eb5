SPECIFICATION Spec
CONSTANTS
  p1 = p1
  p2 = p2
  p3 = p3
  t1 = t1
  t2 = t2
  ann = ann
  bob = bob
  n1 = n1
  Nobody = Nobody
  Thread <- MCThread
  Phone <- MCPhone
  Owner <- MCOwner
  Person <- MCPerson
  Number <- MCNumber
  OwnFields <- MCOwnFields
  CardFields <- MCCardFields
  MessageBytes <- MCBytes
  Menu <- MCMenu
  Cuts <- MCCuts
  Groups <- MCGroups
  MaxClicks = 1
INVARIANTS
  TypeOK
  AccountsWhole
  BytesCounted
  OneConversation
  FiledAmongItsPeople
  ConferenceAgrees
SYMMETRY ServicesSymmetry
CHECK_DEADLOCK FALSE
