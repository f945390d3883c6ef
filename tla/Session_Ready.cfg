SPECIFICATION SessionSpec
CONSTANTS
    settle1 = settle1
    settle2 = settle2
    account = account
    instrument = instrument
    Worker = worker
    Spi = Spi
    NoQuery = NoQuery
    Logins = {1}
    Users = {worker, 1}
    Queries = {settle1, account, instrument}
    Instrument = {instrument}
    Script <- OneLogin
    MaxConnects = 1
    MaxStarts = 1
INVARIANT ReadyMeansLoaded
