SPECIFICATION Spec
CONSTANTS
    Config <- MCConfig
    BaseSeeds = {0, 1}
    Draw <- MCDraw
    BatchSize = 2
    MaxAir = 1
    Presets <- MCPresets
    Elsewhere <- MCElsewhere
INVARIANTS
    TypeOK
    NobodyLeftOver
    NoDrift
    SameSeedSameScene
