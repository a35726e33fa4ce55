SPECIFICATION Spec
CONSTANTS
    a = a
    b = b
    Models = {a}
    NoModel = none
    Requests = {1, 2}
    MaxModels = 1
    Asks <- TwoUsers
    MaxFaults = 1
    Startups = {{}}
PROPERTIES
    WaitersServed
CHECK_DEADLOCK FALSE
