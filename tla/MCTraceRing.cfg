\* Two producers, a ring that fills and wraps, an archive that overflows.
CONSTANTS
  Producers = {"vmm", "uartrx"}
  RingCapacity = 2
  ArchiveCapacity = 3
  MaxEmits = 2
SPECIFICATION FairSpec
INVARIANTS TypeOK NoSlotRace GaplessPrefix NothingDropped NoLostWakeup
PROPERTIES ImplementsTraceLog EverythingDrained LockReleased
\* Once both producers have made their calls and the ring is drained, everyone waits.
CHECK_DEADLOCK FALSE
