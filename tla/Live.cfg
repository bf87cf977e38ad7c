SPECIFICATION FairLiveSpec
CONSTANTS
    activity = activity
    waitingForYou = waitingForYou
    run = run
    review = review
    Parts = {activity, waitingForYou}
    TopicOf <- MCTopicOf
    Rendered = {activity, waitingForYou}
    Heard = {run}
    Sockets = {c1, c2}
    NoSocket = nosocket
    NoTopic = notopic
    MaxPulls = 2
    MaxTroubles = 2
PROPERTIES RegionsCatchUp SocketsAreReaped SignedOutPagesLeave
