SPECIFICATION FairSpec
CONSTANTS
  Queries <- MCQueries
  Total <- MCTotal
  ResultsPerPage = 8
  MaxSearches = 2
  MaxInFlight = 2
  NoQuery = NoQuery
  Null = Null
INVARIANTS
  TypeOK
  ScreenSound
  HistorySound
  ShowsTheLast
PROPERTY LoaderEnds
