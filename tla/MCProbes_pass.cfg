SPECIFICATION Spec
CONSTANTS
    Canonical <- MCCanonical
    Documents <- MCDocuments
    Calls <- MCCalls
    Services <- MCServices
    Base <- MCBase
    Defaults <- MCDefaults
    UrlLike <- MCUrlLike
    RedirectLike <- MCRedirectLike
    IdLike <- MCIdLike
    Credentials <- MCCredentials
    Privileged <- MCPrivileged
    Lower <- MCLower
    Within <- MCWithin
    NumPayloads = 2
    MaxFaults = 1
INVARIANTS
    TypeOK
    PayloadHitsItsPlace
    CallerHeadersWin
    
    NoMiss
PROPERTIES
    TestAdvances
CHECK_DEADLOCK FALSE
