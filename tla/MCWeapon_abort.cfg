SPECIFICATION Spec
CONSTANTS
    console = console
    processing = processing
    NoCaller = NoCaller
    Callers <- MCCallers
    LaunchSteps = 2
PROPERTIES
    EmergencyStopInterruptsLaunch
