SPECIFICATION Spec
CONSTANTS
  count = 4
  Nil = Nil
  Data = Data
INVARIANTS
  TypeOK
  ChainIsExact
PROPERTIES
  NoDoubleGrant
  ImplementsObjectPool
