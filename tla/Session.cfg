SPECIFICATION FairSession
CONSTANTS
    settle1 = settle1
    settle2 = settle2
    account = account
    instrument = instrument
    Worker = worker
    Spi = Spi
    NoQuery = NoQuery
    Logins = {1, 2}
    Users = {worker, 1, 2}
    Queries = {settle1, settle2, instrument}
    Instrument = {instrument}
    Script <- SessionScript
    MaxConnects = 2
    MaxStarts = 1
INVARIANTS
    SessionTypeOK
    OneInFlight
    SentOnce
    ReadyAfterQueries
PROPERTIES
    WaitingIsServed
    LoginBecomesReady
    FailureIsReported
    StopReturns
