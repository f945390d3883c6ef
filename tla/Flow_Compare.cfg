SPECIFICATION FairSpec
CONSTANTS
    strategy = strategy
    account = account
    position = position
    Spi = Spi
    NoQuery = NoQuery
    Users = {strategy}
    Queries = {account, position}
    Script <- CompareScript
PROPERTY SubmittedIsServed
