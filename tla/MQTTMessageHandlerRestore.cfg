SPECIFICATION Spec
CONSTANTS
    m1 = m1
    t1 = t1
    t2 = t2
    Topics = {t1, t2}
    TopicList <- MCTopicList
    Messages = {m1}
    MaxTokens = 0
    MaxLost = 1
INVARIANT RestorationIsComplete
CHECK_DEADLOCK FALSE
