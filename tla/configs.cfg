CONSTANTS
    MaxSensors = 2
    Keys <- MCKeys
    LoadKeys <- MCLoadKeys
    Params = {"port", "address"}
    Configs <- MCConfigs
    Default <- MCDefault
    MaxEdits = 4
SPECIFICATION Spec
INVARIANTS FilesAreList LoadedWereSaved IconsOfList
