\* A campaign in batches of two, a chat with a history of one message, and
\* bus queues of two places with one or two events more than they hold.
SPECIFICATION MCSpec
CONSTANTS
    Relay = Relay
    Streams = {page}
    Sockets = {visitor, panel}
    Admins = {panel}
    Capacity = 2
    MaxEvents = 4
    Subscribers = {ada, bob, cyd}
    Callers = {w1, w2}
    Batch = 2
    MaxList = 1
    Tabs = {phone}
    Desks = {desk}
    HistoryLimit = 1
    MaxMessages = 2
    MaxSessions = 2
    MaxRestarts = 1
INVARIANTS MailedOnce Accounted NoneMissed OnlyOverflowMissed
PROPERTIES ImplementsFeed SendingEnds
CHECK_DEADLOCK FALSE
