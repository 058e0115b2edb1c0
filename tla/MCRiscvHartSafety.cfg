SPECIFICATION Spec
CONSTANTS
    h1 = h1
    h2 = h2
    h3 = h3
    Harts = {h1, h2, h3}
    Boot = h1
    Device = device
    Main = main
    Scenarios <- SafetyScenarios
INVARIANTS TypeOK InboxNotLost StartClaimed StoppedRunsNothing SfenceComplete

CHECK_DEADLOCK FALSE
