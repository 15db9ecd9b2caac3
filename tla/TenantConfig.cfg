CONSTANTS
    p1 = p1
    p2 = p2
    r1 = r1
    Panels <- MCPanels
    Rules <- MCRules
    Limits = {1, 2}
    Levels = {1, 4}
    SentLevels = {5}
    SentRules <- MCSentRules
    SentVersions = {0}
    Stored <- MCStored
    None = None
    MaxRules = 2
    MaxEdits = 1
    MaxSaves = 2
    MaxTroubles = 1

SYMMETRY MCSymmetry

SPECIFICATION Spec

PROPERTY RulesWithinPlan
PROPERTY NoRulesUnread
PROPERTY SavesOnlyEdits

\* Users may stop.
CHECK_DEADLOCK FALSE
