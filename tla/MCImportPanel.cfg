\* Two imports one after the other, two polls and a frame on their way, a
\* fault.
SPECIFICATION FairPanelSpec
CONSTANTS
  MaxJobs = 2
  MaxFrames = 1
  MaxPolls = 2
  MaxMishaps = 1
CHECK_DEADLOCK FALSE
INVARIANTS
  ShownEndIsReal
  OneReloadAfterTheEnd
PROPERTY
  BarEndsUnlessMasked
