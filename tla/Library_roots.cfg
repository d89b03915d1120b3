CONSTANTS
  EngineSets <- SeparateRoots
  Originals <- Collection
  Filetypes <- Allowed
  MaxDepth = 3
SPECIFICATION Spec
INVARIANTS TypeOK ItemsResolve Recreated
PROPERTIES RerunQuiet
