SPECIFICATION Spec

CONSTANTS
    MAXATTEMPTS_CONFIGURE = 2
    MAXATTEMPTS_POST = 2
    Replies = {"some"}
    MaxLines = 3
    MaxExchanges = 2

INVARIANT SendOkMeansPosted

CHECK_DEADLOCK FALSE
