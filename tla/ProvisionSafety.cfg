SPECIFICATION Spec
CONSTANTS
    data = data
    conf = conf
    motd = motd
    root = root
    app = app
    node1 = node1
    node2 = node2
    text = text
    old = old
    Path = {data, conf, motd}
    Root = Root
    Parent <- MCParent
    Content = {text, old}
    Id = {root, app}
    Hostname = {node1, node2}
    DefaultOwner <- RootOwner
    Undeclared = Undeclared
    Configs <- MCConfigs
    InitialFS <- MCInitialFS
    MaxFaults = 2
INVARIANTS ProvidedSoFar
PROPERTIES KeepsTheUndeclared
