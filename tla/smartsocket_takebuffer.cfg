SPECIFICATION Spec
CONSTANTS
    Sizes = {1, 2, 3, 4}
    TakeModes = {TRUE, FALSE}
    MaxBytes = 8
    MaxConns = 3
    ClosesAtEnd = TRUE
PROPERTY IsByteStream
