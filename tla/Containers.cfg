SPECIFICATION Spec
CONSTANTS
    web = web
    db = db
    stray = stray
    app = app
    base = base
    Name = {web, db, stray}
    Image = {app, base}
    HostPort = {1, 2}
    Setting = {1, 2}
    Foreign = Foreign
    Lists <- MCLists
    MaxFaults = 1
    MaxMeddling = 1
INVARIANTS FailuresAreContained UnmanagedIsDown SecondApplyConverges
PROPERTIES NeverRestartsCurrent RemovedOnlyWithImage RequestsAreBounded
