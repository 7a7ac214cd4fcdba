SPECIFICATION Spec
CONSTANTS
  Objects = {o1, o2, o3}
  Packs = {p1, p2}
  None = None
  MaxEvents = 3
SYMMETRY Symmetric
INVARIANTS TypeOK Covered
PROPERTIES ImplementsPublish
