SPECIFICATION FairSpec
CONSTANTS
    timer = timer
    web = web
    e1 = e1
    e2 = e2
    None = None
    Run = {timer, web}
    Timer = timer
    Message = {e1, e2}
    MaxSend = 2
INVARIANTS TypeOK NoGoroutineLeft
PROPERTIES RunReportSpec RunEnds ReportArrives
