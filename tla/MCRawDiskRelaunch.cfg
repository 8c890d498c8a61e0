SPECIFICATION Spec

CONSTANTS
    Width = 3
    FileLimit = 4
    Letters = {1}
    MaxTyped = 1

PROPERTY KeepsEverything
