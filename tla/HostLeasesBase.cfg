\* ensure_cid_base against a generation that still holds a CID below the base.
CONSTANTS
    Vms = {v1, v2, v3}
    Names = {n1, n2}
    NoName = NoName
    Hosts = {h1, h2}
    NoIdentity = NoIdentity
    Bases = {3, 4}
    MaxCid = 6
    MaxBoot = 1
SYMMETRY Symmetry
SPECIFICATION LeaseSpec
PROPERTY LeasedAboveBase
