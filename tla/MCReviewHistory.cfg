SPECIFICATION Spec
CONSTANTS
    Receipts <- MCReceipts
    Policies <- MCPolicies
    Exports = {"x1", "x2"}
    Models = {"m1", "m2"}
    Forms = {1, 2}
    Ids = {i1}
    Publics = {"p1", "p2", "p3"}
    Audiences = {"ops"}
    Times = {0, 1, 2, 3}
    MAX_REVIEWS = 2
    MAX_DECISIONS = 4
    None = None
    MaxHistories = 3
    MaxEnrollments = 2
    MaxApprovals = 1
INVARIANTS
    HistoriesStayValid
    SelectionsFollowOneLineage
    ApprovalNamesOneHistory
    ApprovalHoldsInItsWindow
CHECK_DEADLOCK FALSE
