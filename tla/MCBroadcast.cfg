SPECIFICATION FairSpec
CONSTANTS
    blocks = blocks
    g1 = g1
    g2 = g2
    Topics = {blocks}
    DefaultChannel = DefaultChannel
    NoMessage = NoMessage
    Senders = {g1, g2}
    TopicOf <- MCTopicOf
    ChannelOf <- MCChannelOf
    Unsendable = {}
    ThrottlerMax = 1
    Removable = {blocks}
    MaxChannels = 3
INVARIANTS
    ChannelsConsistent
    MessageConservation
    ThrottlerAccounting
    PanicsOnlyIfRemoved
PROPERTIES
    BroadcastIsSettled
    CloseEndsConsumer
CHECK_DEADLOCK FALSE
