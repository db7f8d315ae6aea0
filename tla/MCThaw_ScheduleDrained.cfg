CONSTANTS
    a1 = a1
    a2 = a2
    Addresses <- MCAddresses
    MaxHeight = 4
    Delay = 1
    MaxFailures = 0

SPECIFICATION Spec

INVARIANT ScheduleDrained
