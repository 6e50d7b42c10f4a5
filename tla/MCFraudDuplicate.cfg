SPECIFICATION Spec
CONSTANTS
    uma = uma
    vic = vic
    People = {uma, vic}
    Reports <- MCReports
    Facts <- MCFacts
    CodeOwner <- MCCodeOwner
    Velocity = 1
    MaxFailures = 0
    Screeners = {h1, h2}
    None = None
CHECK_DEADLOCK FALSE
INVARIANTS
    FirstReportIsNew
