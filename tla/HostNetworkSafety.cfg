SPECIFICATION Spec
CONSTANTS
    lan = lan
    wan = wan
    eth0 = eth0
    eth1 = eth1
    Doc = {lan, wan}
    Iface = {eth0, eth1}
    TxLen = {short, long}
    short = short
    long = long
    Unset = Unset
    Default = Default
    Configs <- MCConfigs
    MaxFaults = 2
    MaxBoots = 2
INVARIANTS OnlyAcceptedAtBoot RebootKeepsNetwork
