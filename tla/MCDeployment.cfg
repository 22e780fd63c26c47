SPECIFICATION FairSpec
CONSTANTS
    Absent = Absent
    Empty = Empty
    Secrets <- MCSecrets
    Addresses <- MCAddresses
    Passwords <- MCPasswords
    Environments <- MCEnvironments
    MaxFaults = 2
INVARIANTS StartedAfterInit GatewayStartsLast EndpointsAgree
PROPERTIES EventuallyHealthy OutageReported
CHECK_DEADLOCK FALSE
