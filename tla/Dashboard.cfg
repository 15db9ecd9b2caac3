CONSTANTS
    w1 = w1
    w2 = w2
    Windows <- MCWindows
    FirstPage = w1
    Fields = {clientIp}
    Texts = {text}
    Blank = Blank
    Unset = Unset
    Tests = {sql}
    Seed = Seed
    Unfetched = Unfetched
    MaxFetches = 2
    MaxStats = 2
    MaxRuns = 2
    MaxClicks = 3
    MaxFailures = 1

SPECIFICATION FairPageSpec

INVARIANT SpinnersAreHonest
INVARIANT QuietIsCurrent
PROPERTY AppliedIsInForce
PROPERTY EventuallyQuiet

\* The user may stop, and then the page comes to rest.
CHECK_DEADLOCK FALSE
