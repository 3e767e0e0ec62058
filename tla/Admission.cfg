SPECIFICATION MCSpec
CONSTANTS
    Unset = Unset
    MaxU32 = 9
    Numeric = {"0"}
    Offers <- MCOffers
    Names = {"app", "web"}
    MaxChanges = 2
CHECK_DEADLOCK FALSE
INVARIANTS RefusalsComeFirst DocumentMeansConfig AddressesKeepFamily MappedPortsAreDeclared
