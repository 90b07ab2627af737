CONSTANTS
    Version = {"v1", "v2", "v3"}
    Sound = {"v1", "v2"}
    Firsts = {"v1", "nothing"}
    Nothing = "nothing"
    Loop = "loop"
    MaxRuns = 3
    Recipes <- MCRecipes
    Server = {"s1", "s2"}
    Update = {"r1", "r2"}
    Targets <- MCTargets
    Packaged = {"r1"}
    Drift = TRUE
    NoUpdate = "none"
SPECIFICATION MCSpec
PROPERTIES ReleaseIsSound BlueGreenIsSound
CHECK_DEADLOCK FALSE
