CONSTANTS
    Types = {1, 4, 5, 18, 19, 21}
    Lons <- MCLons
    Lats <- MCLats
    Sogs = {1022, 1023}
    Hdgs = {359, 511}
    Turns = {0}
    Cargoes = {70}
    Latitudes = {10, 91}
    Longitudes = {20, 180}
    Angles = {90, 270}
    Amounts = {0, 5, 100}
    Winds = {5}
    Devices <- MCDevices
SPECIFICATION SensorSpec
INVARIANTS ReportTruthful PositionReportReadOut HeldIsSpoken DoubtTold
