SPECIFICATION Spec
CONSTANTS
  n0 = n0
  n1 = n1
  yes = yes
  no = no
  info = info
  debug = debug
  system = system
  custom = custom
  Garbled = Garbled
  Section <- MCSection
  Key <- MCKey
  SectionOf <- MCSectionOf
  KindOf <- MCKindOf
  Default <- MCDefault
  Scalar <- MCScalar
  Item <- MCItem
  UserLine <- MCUserLine
  Layout <- MCLayout
  MaxLines = 3
INVARIANTS
  ReadAsMeant
  
