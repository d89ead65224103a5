SPECIFICATION FairSpec
CONSTANTS
  blocking = blocking
  timed = timed
  roomless = roomless
  done = done
  failed = failed
  wakeup = wakeup
  NoPacket = NoPacket
  Threads <- MCThreads
  Packets <- MCPackets
  Room <- MCRoom
  Timed = {timed, roomless}
  Failed = {failed}
  Wakeups = {wakeup}
INVARIANTS
  PacketsAccounted
PROPERTIES
  ImplementsEx
  EveryPacketArrives
