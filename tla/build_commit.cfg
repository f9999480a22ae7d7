SPECIFICATION Spec
CONSTANTS
  NSteps = 2
  Kinds <- MCKinds
  TaskErrors = {"processing", "notFound"}
  Images = {i1, i2}
  Elsewhere = {x}
  NoImage = NoImage
  RegistryImage = RegistryImage
INVARIANTS
  CommitStaysLocal
SYMMETRY MCSymmetry
