SPECIFICATION Spec
CONSTANTS
    SimulationRates = {10000000, 100000000}
    DeviceRates = {10000000, 300000000}
    Requests = {0, 900, 2500, 4600}
    MaxDrawn = 60
    None = None
INVARIANTS
    TypeOK
    ReaderInMode
    ScriptDecodes
    AcceptedSettingsDraw
PROPERTIES
    RequestsReturn
