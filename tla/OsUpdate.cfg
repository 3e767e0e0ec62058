SPECIFICATION UpdateSpec
CONSTANTS
    Uploader = {u1, u2}
    Upgrader = {g1, g2}
    Image = {img1, img2}
    Path = {p1, p2}
    BootImage = BootImage
    MaxUploads = 2
    MaxUpgrades = 2
    MaxReboots = 1
    MaxConfigs = 1
CHECK_DEADLOCK FALSE
INVARIANTS PartialIsNeverApplied RebootFollowsSuccess
