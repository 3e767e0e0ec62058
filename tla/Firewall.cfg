SPECIFICATION MCSpec
CONSTANTS
    public = public
    internal = internal
    ssh22 = ssh22
    ssh022 = ssh022
    fromLan = fromLan
    ssh = ssh
    Zone = {public, internal}
    NoZone = NoZone
    Port = {ssh22}
    RichRule = {fromLan}
    Service = {ssh}
    Variant = {ssh022}
    Canonical <- MCCanonical
    Provides <- MCProvides
    Lists <- MCLists
    MaxFaults = 1
    MaxMeddling = 2
INVARIANTS Enforced NeverCutOff OpenBeforeClose SteadyIsLeftAlone PermanentSurvivesReload
