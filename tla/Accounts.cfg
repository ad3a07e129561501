\* Two tabs of a browser, two runs of three moves (the panel may write the last move of
\* one of them), two page loads.
CONSTANTS
  Tabs = {t1, t2}
  Panel = {2}
  PanelAt = {3}
  MaxRuns = 2
  EndsAt = 3
  MaxOpens = 2
  MaxWaiting = 0
SPECIFICATION Spec
SYMMETRY Renamings
INVARIANTS AwardedOnce
PROPERTIES CloudNeverLoses SyncedCoversLocal
CHECK_DEADLOCK FALSE
