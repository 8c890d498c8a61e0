SPECIFICATION Spec

CONSTANTS
    Width = 3
    FileLimit = 6
    Letters = {1, 2}
    MaxTyped = 3

INVARIANTS
    TypeOK
    WithinMapping
    ReadsBack
    HeadAtCylinder

PROPERTIES
    KeepsAllButOne
