\* A member who joined before the edit chats after it; programs restart.
SPECIFICATION Spec
CONSTANTS
    Owner = owner
    Devices = {owner, viewer}
    Talkers = {viewer}
    MaxEdits = 2
    MaxDeletions = 0
    None = None
PROPERTY OldMetadataStaysOut
