SPECIFICATION Spec
CONSTANTS
    Environments <- MCEnvironments
    Bodies <- MCBodies
    MaxTextChars = 2
    MaxImages = 2
    MaxImageBytes = 2
    MaxURLLength = 2
    Addresses <- MCAddresses
    Target <- MCTarget
    NoAddress = NoAddress
INVARIANTS
    TypeOK
    SidesApart
    KeysOpen
    InputAsDeclared
    ServerErrorsExplained
    AnswerTellsEffects
    DeliveredToPublic
    GoroutinesEnd
PROPERTIES
    Exits
