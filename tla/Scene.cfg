CONSTANTS
  Limit = 2
  MaxVisits = 2
  MaxFails = 4
SPECIFICATION SceneSpec
INVARIANTS NoSceneIsNobodys RunKeepsItsStore
PROPERTIES PictureComesBack
CHECK_DEADLOCK FALSE
