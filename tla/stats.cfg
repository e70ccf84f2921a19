\* Two statistics, a name that is none, counters up to 3: a program that calls
\* the statistics in any order, and the stats example.
SPECIFICATION ESpec
CONSTANTS
  rx = rx
  tx = tx
  bogus = bogus
  Offered = {rx, tx}
  Names = {rx, tx, bogus}
  rx_packets = rx
  Wrap = 16
  MaxCount = 3
  ReadErrors = FALSE
  IoErrors = TRUE
  Packets <- ShortPackets
  Sends = 2
INVARIANTS TypeOK NoWrap SendsCounted NotCountedTwice CrcIsStandard
PROPERTIES Counts
CHECK_DEADLOCK FALSE
