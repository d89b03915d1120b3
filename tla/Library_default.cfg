CONSTANTS
  EngineSets <- DefaultRoots
  Originals <- OneVideo
  Filetypes <- Allowed
  MaxDepth = 3
SPECIFICATION Spec
PROPERTIES RerunQuiet
