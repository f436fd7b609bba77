SPECIFICATION PartsSpec
CONSTANTS
    NumLayers = 3
    Settings <- MCSettings
    Checked <- MCChecked
    Windows = {"mix", "other"}
    WindowsOf <- MCWindowsOf
    Named <- MCNamed
    Nothing = Nothing
    TearsTokens = TRUE
    CrashBound = 3
    None = None
    Absent = Absent
    Bad = Bad
    Blank = Blank
    Scenes = {"corpus", "prompts", "holdout", "stage A", "scoring", "publication",
              "blocks", "copying", "rows", "agreement", "admission", "metrics",
              "recurrent", "rotating", "configuring", "restarting", "loading", "talk",
              "selecting"}
INVARIANTS
    ListedLayersAreWhole
PROPERTIES
    ImplementsCalibrationRun
    ProvenanceIsSound
    EngineStaysSound
CHECK_DEADLOCK FALSE
