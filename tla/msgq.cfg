\* Part "lap": one slot, so that a restarted reader has to evict; sizes of one and two
\* words, so that a size tag and a word of a message may meet; four messages make two laps.
\* A reader that died of its assert stays dead: the system may stop.
SPECIFICATION MCSpec
CONSTANTS
  r1 = r1
  r2 = r2
  Readers = {r1}
  NoReader = none
  NUM_READERS = 1
  Size = 9
  MsgSizes = {1, 2}
  Conflate = {TRUE, FALSE}
  MaxMsgs = 4
  MaxRestarts = 1
INVARIANTS TypeOK SizeIsSize
PROPERTIES ImplementsBus SharedImplementBus CatchesUp
CHECK_DEADLOCK FALSE
