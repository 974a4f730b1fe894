CONSTANTS
    DowngradeHold = 2
    UpgradeHold = 3
    None = None
    Clients = {laptop, tablet}
    Streams <- OneStream
    Rates = {5, 10, 20}
    DefaultRate <- Default
    MaxRate <- Carried
    OnChange = {"plan"}
SPECIFICATION Spec
INVARIANTS
    NothingIsForgotten
PROPERTIES
    ChangeIsEarned
    Converges
