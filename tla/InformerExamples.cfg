SPECIFICATION AllSpec
CONSTANTS
    Foreign <- ForeignObjects
    Early <- EarlyObjects
    MaxWrites <- OtherWrites
    MaxRelists = 1
    MaxResyncs = 1
    MaxPolls = 2
CHECK_DEADLOCK FALSE
INVARIANT ExpectedFound
INVARIANT PanicsExplained
PROPERTY EventOrder
PROPERTY NeverBack
PROPERTY Converges
PROPERTY SignalsEnd
