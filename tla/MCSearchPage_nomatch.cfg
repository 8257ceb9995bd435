\* The answer to a search without hits is null, and reading its length throws.
SPECIFICATION Spec
CONSTANTS
  Queries <- MCQueries
  Total <- MCTotal
  ResultsPerPage = 8
  MaxSearches = 2
  MaxInFlight = 2
  NoQuery = NoQuery
  Null = Null
INVARIANT NoMatchTold
CHECK_DEADLOCK FALSE
