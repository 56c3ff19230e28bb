SPECIFICATION FairSpec
INVARIANTS QueueInvariant
PROPERTIES ImplementsQueue EveryItemTaken
CONSTANTS
    k1 = k1
    k2 = k2
    k3 = k3
    Consumers <- MCConsumers
    MaxItems = 4
