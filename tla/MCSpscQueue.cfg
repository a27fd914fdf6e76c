CONSTANTS
  QueueCapacity = 2
  Items <- MCItems
  Zero = 0
  MaxPushes = 7
SPECIFICATION FairSpec
INVARIANTS TypeOK NoDataRace
PROPERTIES ImplementsChannel AllDelivered
