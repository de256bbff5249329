SPECIFICATION Spec
CONSTANTS
    pool1 = pool1
    pool2 = pool2
    vol1 = vol1
    vol2 = vol2
    disk1 = disk1
    ign1 = ign1
    default = default
    other = other
    image = image
    iso = iso
    disk = disk
    None = None
    Foreign = Foreign
    Pool = {default}
    Key = {image, disk, iso}
    Uuid = {u1, u2, u3}
    Resource = {pool1, pool2, vol1, vol2, ign1}
    PoolRes = {pool1, pool2}
    VolumeRes = {vol1, vol2}
    CloudinitRes = {}
    IgnitionRes = {ign1}
    HasSource = {vol1}
    KeyPool <- MCKeyPool
    PoolName <- MCPoolName
    KeyOf <- OwnNames
    BaseKey <- OnImage
    Faults = FALSE
    Outside = {"stop"}
    ByHand = {iso}
INVARIANTS
    PoolsAreNotShared
    FreshPoolHandle
    StateIsBacked
PROPERTIES
    DestroyToleratesDeleted
