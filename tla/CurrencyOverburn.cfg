SPECIFICATION LedgerSpec
CONSTANTS
    alice = alice
    bob = bob
    charlie = charlie
    Users <- MCUsers
    MaxBalance = 3
    Amounts <- MCAmounts
    MaxMinted = 3
PROPERTY OverburnRemovesAccount
