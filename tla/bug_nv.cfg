SPECIFICATION Spec
INVARIANT
    ObserversSurviveRestart
CONSTANTS
    Application <- MCApplication
    Clients <- MCClients
    Uris <- MCUris
    MaxObservers = 2
    PageSize = 60
    MaxSaves = 3
    Behind <- MCBehind
