SPECIFICATION Spec
CONSTANTS
  Ids = {u}
  Procs = {p, q}
  Objects = {o1, o2, o3}
  Nil = Nil
  MaxKeys = 2
SYMMETRY Alike
INVARIANTS
  TypeOK
  DisabledRefused
  CurrentKeyWorks
