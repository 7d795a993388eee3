\* Two subscribers over two days, with stops and starts of the process.
SPECIFICATION Spec
CONSTANTS
    Chats = {c1, c2}
    Times <- MCTimes
    Durations = {d1}
    NoSub = NoSub
    NoJob = NoJob
    MaxTime = 3
INVARIANTS
    TypeOK
    NothingUnasked
    SubscribersAreServed
PROPERTIES
    ImplementsOnceOnly
