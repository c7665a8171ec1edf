SPECIFICATION Spec
CONSTANTS
    ann = ann
    phone = phone
    desktop = desktop
    m1 = m1
    m2 = m2
    Conns <- ConnsTwo
    User <- UserAnn
    Messages <- MessagesTwo
    Author <- AuthorAnn
    Attached <- AttachedOne
SYMMETRY Devices
INVARIANTS
    AttachmentOnDisk
    FilesAccounted
PROPERTY TombstoneStays
