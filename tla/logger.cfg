\* Two cameras that start a frame apart, segments of one frame: the stages of a
\* rotation do not depend on its length. A handle reopened too soon and the end
\* of the route stop the model.
SPECIFICATION LoggerSpec
CONSTANTS
  road = road
  wide = wide
  Cams = {road, wide}
  PerSegment = 1
  Steps = {1}
  MaxFrame = 5
  LastSegment = 2
  Pool = 4
INVARIANTS SentinelIsLast CamerasInStep
PROPERTY WaitEnds
CHECK_DEADLOCK FALSE
