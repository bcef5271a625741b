CONSTANTS
    Messages <- MCMessages
    Fed <- MCFed
    Observers <- MCObservers
    MaxMessages = 3
    MaxFed = 2
SPECIFICATION Spec
CHECK_DEADLOCK FALSE
INVARIANTS TypeOK NobodyLeftBehind ModelIsReplay MessagesInOrder UndefinedOnlyIfFed
