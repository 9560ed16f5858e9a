CONSTANTS
  host = host
  rival = rival
  bus = bus
  pax = pax
  ore = ore
  none = none
  cheap = cheap
  dear = dear
  north = north
  south = south
  Companies = {host, rival}
  CompanyRank <- MCOrder
  HostCompany = host
  Lines = {pax, ore}
  LineRank <- MCLineOrder
  Owner <- MCOwner
  Cargo = {ore}
  Markets = {north, south}
  Fares = {cheap, dear}
  Vehicles = {bus}
  Refunds = {60}
  Overhauls <- MCOverhauls
  Keeper <- MCKeeper
  Price <- MCPrice
  Upkeep <- MCUpkeep
  Works <- MCWorks
  Takings = {601}
  Period = 1800
  Year = 10800
  Scale = 1000
  Multiplier = 750
  Limit = 1000
  Day = 700000
  StartBalance = 1000
  StartTime = 0
  BaseLimit = 30
  Multiple = 1
  Permille = 100
  Grace = 1
  ValuationTarget = TRUE
  EpochLimit = 3
  None = none
  MaxEdits = 2
  MaxDepartures = 1
  MaxWorks = 2
  MaxEpochs = 3
SYMMETRY Alike
SPECIFICATION Spec
CHECK_DEADLOCK FALSE
INVARIANT CashConserved
INVARIANT PaidAsEarned
INVARIANT UpkeepExact
INVARIANT BankruptcyIsDue
INVARIANT RefusedOnlyByRace
