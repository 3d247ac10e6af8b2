CONSTANTS
  Readers = {r1, r2}
  Writers = {w1, w2}
  Lens = {1, 2}
  MaxBytes = 3
  Free = Free
SPECIFICATION FairSpec
INVARIANTS TypeOK UnreadIsAnnounced NoLostWakeup DeliveredOnce
PROPERTY EverythingRead
