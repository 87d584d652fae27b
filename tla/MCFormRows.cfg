SPECIFICATION CatalogSpec
CONSTANTS
  YearDays = 4
  Types = {"adult"}
  Amounts = {1, 2}
  NumDays = 2
  Week = 2
  Lookahead = 2
  Schedules = {"s1", "s2"}
  Admins = {"a1", "a2"}
  Customers = {"c1"}
  Cart = {"adult"}
  Tables <- Cleared
PROPERTIES FormRowsStay
CHECK_DEADLOCK FALSE
