\* An owner and one other device; one edit after the creation.
SPECIFICATION Spec
CONSTANTS
    Owner = owner
    Devices = {owner, viewer}
    Talkers = {owner, viewer}
    MaxEdits = 2
    MaxDeletions = 1
    None = None
INVARIANTS
    OwnerIndexFollows
PROPERTIES
    VersionsNeverFall
    MetadataIsRepaired
    StubsAreNamed
