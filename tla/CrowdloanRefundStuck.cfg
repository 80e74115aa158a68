SPECIFICATION MCSpec
CONSTANTS
    Accounts = {1, 2, 3}
    Outsider = 3
    MinimumDeposit = 2
    AbsoluteMinimumContribution = 1
    MinimumBlockDuration = 1
    MaximumBlockDuration = 2
    RefundContributorsLimit = 1
    MaxContributors = 3
    ExistentialDeposit = 2
    NoAccount = NoAccount
    Calls = {"none", "other", "withdraw", "refund", "dissolve"}
    CrowdloanIds = {0}
    Amounts = {2, 3}
    MaxBlock = 2
    InitialBalance = 2
PROPERTY RefundCompletes
CHECK_DEADLOCK FALSE
