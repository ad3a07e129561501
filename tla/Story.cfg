CONSTANTS
  Kinds = {"solo", "company", "showcase"}
  Figures = {0, 2}
  MaxBatches = 2
  MaxLosses = 1
SPECIFICATION StorySpec
INVARIANTS WaitIsOfThisStory IdleGraphIsComplete
PROPERTIES GaugeOnlyRises WaitEnds
CHECK_DEADLOCK FALSE
