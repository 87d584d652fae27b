SPECIFICATION MCSpec
CONSTANTS
  YearDays = 6
  Types = {"adult", "child", "student"}
  Amounts = {1, 2}
  Tabs = {1, 2}
  Outings = {"d1", "d2", "d3"}
  DayOf <- Days
  StartsAt <- Hours
  MonthDays = 2
  Capacity <- Places
  Cutoff = 1
  DefaultCutoff = 0
  Sales <- AllSales
  MaxEdits = 1
  MaxHour = 2
  Modes <- AllModes
  Cap = 2
  MaxTries = 2
INVARIANTS BookedAsShown TokenIsFresh NoDayOutOfReach
CHECK_DEADLOCK FALSE
