SPECIFICATION RepublishSpec
CONSTANTS
    Sns = {1}
    Owners = {"o1", "o2"}
    Jobs = {1}
    Receiver <- NoReceiver
    Settings <- OnlyPublishing
    MaxSequence = 1
    MaxLinks = 1
    MaxEvents = 1
PROPERTY OwnerComesBack
