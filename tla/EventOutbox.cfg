SPECIFICATION Spec
CONSTANTS
  Event = {1, 2}
  Drain = {d1, d2}
  Handlers = 2
  Rejected = {1}
  MaxFault = 3
INVARIANTS TypeOK DeliveredToAll RepeatsAreRetries AnnouncedOnce
PROPERTIES Delivered
