SPECIFICATION Spec
CONSTANTS
    q1 = q1
    q2 = q2
    Request = {q1, q2}
    Debounce = 2
    PollEvery = 3
    MaxEvents = 1
PROPERTIES
    EventuallyFresh
    RevokedDisconnects
    RoomsFollow
