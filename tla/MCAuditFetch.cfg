\* Two redirects, one chunk: the limits are reached and exceeded.
SPECIFICATION FairFetchSpec
CONSTANTS
    Names = {shop}
    Public = {outside}
    Private = {inside}
    MaxRedirects = 2
    MaxBytes = 1
INVARIANTS
    FetchTypeOK
    OnlyPublicAsked
    HandlerEndsClean
PROPERTIES
    NothingAfterAbort
    SettlesUnlessCut
CHECK_DEADLOCK FALSE
