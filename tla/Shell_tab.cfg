SPECIFICATION Spec
CONSTANTS
    Plugins <- BothPlugins
    MaxFaults = 2
INVARIANTS FallbackOrigin BlankMeansLoading ChoiceSurvives
PROPERTIES NoFlash
