SPECIFICATION Spec
CONSTANTS
  m1 = m1
  m2 = m2
  m3 = m3
  Values <- ThreeMessages
  N = 4
  Zero = zero
  Torn = torn
INVARIANTS
  TypeOK
  NoRace
PROPERTIES
  ImplementsFifo
