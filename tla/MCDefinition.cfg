SPECIFICATION Spec
CONSTANTS
    v1 = v1
    v2 = v2
    lost = lost
    cd1 = cd1
    cd2 = cd2
    image = image
    plain = plain
    ign = ign
    iso = iso
    remote = remote
    portless = portless
    dev = dev
    a1 = a1
    a2 = a2
    b1 = b1
    b2 = b2
    quiet = quiet
    rw = rw
    pc1 = pc1
    pc2 = pc2
    pcAlias = pcAlias
    q35 = q35
    old = old
    None = None
    Config <- MCConfig
    VolumeFormat <- MCVolumeFormat
    VolumeAt <- MCVolumeAt
    Suffix <- MCSuffix
    Reassembled <- MCReassembled
    Key <- MCKey
    Rank <- MCRank
    Machines <- MCMachines
    DomainMachines <- MCDomainMachines
INVARIANTS
    AddressesFit
    TargetsDistinct
PROPERTIES
    ReadsBack
CHECK_DEADLOCK FALSE
