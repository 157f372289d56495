SPECIFICATION Spec
CONSTANTS
  capacity_ = 32
  Sizes <- MCSizes
  Modulus = 128
  Nil = Nil
INVARIANTS
  TypeOK
  BlocksApart
  BlocksAligned
  NoGaps
