\* Bodies of up to three pieces: one that goes on after its final boundary.
SPECIFICATION Spec
CONSTANTS
    MaxPieces = 3
PROPERTIES
    Undisturbed
