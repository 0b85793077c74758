CONSTANTS
    MaxTime = 1
    CheckFailures = 1
    Budget = 2
SPECIFICATION FairSpec
PROPERTIES
    ReportConverges
    RestsUnlessReadsStayStale
