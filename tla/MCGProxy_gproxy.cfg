CONSTANTS
    MaxPackets = 1
    MaxClientPackets = 1
    MaxConns = 3
    MaxAcks = 1
    MaxNotices = 1
SPECIFICATION FairSpec
CHECK_DEADLOCK FALSE
INVARIANTS CountsAgree ExactlyOnce
PROPERTIES DownResumes UpReliable StableDelivery
