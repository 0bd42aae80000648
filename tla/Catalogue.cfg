SPECIFICATION CatalogueSpec
CONSTANTS
  MaxSeats = 6
  MaxSections = 3
  MaxRows = 2
  MaxRowSeats = 4
  MaxPrice = 20
  Text = {1, 2, 3}
  MaxQuantity = 3
  SearchLimit = 3
  MinBookings = 2
  RecentWindow = 4
  NoFilters = NoFilters
  NoForecast = NoForecast
  NoAnswer = NoAnswer
  PriceCalls <- MCPriceCalls
  LayoutCalls <- MCLayoutCalls
  TierCalls <- MCTierCalls
  SearchCalls <- MCSearchCalls
  ForecastCalls <- MCForecastCalls
  LimitCalls <- MCLimitCalls
  GuessCalls <- MCGuessCalls
INVARIANTS
  PriceFollowsDemand
  SeatsAreAsPlanned
  SearchIsExact
  ForecastFollowsPace
  BucketKeepsItsRate
  GuessesAreBounded
CHECK_DEADLOCK FALSE
