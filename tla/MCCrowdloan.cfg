SPECIFICATION MCSpec
CONSTANTS
    Accounts = {1, 2, 3}
    Outsider = 3
    MinimumDeposit = 2
    AbsoluteMinimumContribution = 2
    MinimumBlockDuration = 1
    MaximumBlockDuration = 2
    RefundContributorsLimit = 1
    MaxContributors = 3
    ExistentialDeposit = 2
    NoAccount = NoAccount
    Calls = {"none", "other", "withdraw", "refund", "dissolve"}
    CrowdloanIds = {0, 1}
    Amounts = {2, 4, 6}
    MaxBlock = 2
    InitialBalance = 5
INVARIANTS BooksAgree RaisedIsContributed
PROPERTIES RefundCompletes FinalizedForever OnlyFinalizeMovesWealth
CHECK_DEADLOCK FALSE
