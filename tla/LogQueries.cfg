CONSTANTS
    acme = acme
    globex = globex
    Null = Null
    Tenants <- MCTenants
    Logs <- MCLogs
    Users <- MCUsers
    Filters <- MCFilters
    Limits = {1, 2}
    Top = 1
    MaxPage = 3

SPECIFICATION Spec

INVARIANT PagesMissNothing
INVARIANT RowsWithinTotal
INVARIANT StatsInWindow
INVARIANT DashboardAgrees
