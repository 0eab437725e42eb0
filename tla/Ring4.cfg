SPECIFICATION Spec
CONSTANTS
    N = 4
    Flits = {1, 2}
    MaxMessages = 3
PROPERTIES
    ImplementsChannels
    EverythingArrives
