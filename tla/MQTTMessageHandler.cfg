SPECIFICATION FairSpec
CONSTANTS
    m1 = m1
    m2 = m2
    t1 = t1
    t2 = t2
    Topics = {t1, t2}
    TopicList <- MCTopicList
    Messages = {m1, m2}
    MaxTokens = 2
    MaxLost = 2
INVARIANTS FunctionFindsConnection PublishedIsConfirmed
PROPERTIES RestorationCoversList PublishReturns MessagesAreHandled ExitIsFollowed
CHECK_DEADLOCK FALSE
