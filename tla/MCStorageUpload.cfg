SPECIFICATION Spec
CONSTANTS
    pool1 = pool1
    pool2 = pool2
    vol1 = vol1
    vol2 = vol2
    disk1 = disk1
    ign1 = ign1
    default = default
    other = other
    image = image
    iso = iso
    disk = disk
    None = None
    Foreign = Foreign
    Pool = {default}
    Key = {image}
    Uuid = {u1, u2, u3}
    Resource = {vol1}
    PoolRes = {}
    VolumeRes = {vol1}
    CloudinitRes = {}
    IgnitionRes = {}
    HasSource = {vol1}
    KeyPool <- MCKeyPool
    PoolName <- MCPoolName
    KeyOf <- OwnNames
    BaseKey <- NoBase
    Faults = TRUE
    Outside = {}
    ByHand = {}
PROPERTY
    FailedUploadDropsId
