SPECIFICATION FairSpec
CONSTANTS
    h1 = h1
    h2 = h2
    h3 = h3
    Harts = {h1, h2}
    Boot = h1
    Device = device
    Main = main
    Scenarios <- LiveScenarios
PROPERTIES IpiDelivered FenceCompletes StopReturns
CHECK_DEADLOCK FALSE
