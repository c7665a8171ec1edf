SPECIFICATION Spec
CONSTANTS
    ann = ann
    bob = bob
    cal = cal
    r1 = r1
    r2 = r2
    Users <- UsersThree
    Creator = ann
    SiteAdmins <- AdminBob
    Requests <- RequestsTwo
    Ops <- AllOps
SYMMETRY Overlap
CONSTRAINT Bounded
INVARIANTS
    OneOwner
    OwnerIsRecorded
CHECK_DEADLOCK FALSE
