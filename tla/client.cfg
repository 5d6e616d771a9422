\* One message of any quality of service, a topic, one lost link or refused connection,
\* one pass on which something expires, one stop.
CONSTANTS
    m0 = m0
    m1 = m1
    m2 = m2
    t1 = t1
    t2 = t2
    None = None
    Msg = {m0, m1, m2}
    QosOf <- MCQosOf
    Topic = {t1}
    MsgId = {1, 2, 3, 4, 5, 6, 7, 8}
    Reuse = FALSE
    Onward = "PUBREL"
    MaxPublished = 1
    MaxFailures = 1
    MaxExpiries = 1
    MaxOther = 1
    MaxWire = 2
SPECIFICATION FairSpec
INVARIANTS TypeOK AtMostOnce FlagSound
PROPERTIES KeptUntilDelivered OutboxDrains DeadLinkNoticed Resubscribes
