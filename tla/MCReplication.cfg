SPECIFICATION LiveSpec
CONSTANTS
    v1 = v1
    v2 = v2
    v3 = v3
    Id = {1, 2, 3, 4, 5}
    Volume = {v1, v2, v3}
    NotVolume = NotVolume
    VolumeOf <- SessionVolumes
    PageSize = 2
    Limit = 2
CHECK_DEADLOCK FALSE
INVARIANTS
    TypeOK
    StableSessionsReported
    OneTransferPerVolume
PROPERTY
    Returns
