SPECIFICATION HostsSpec
CONSTANTS
    Profiles = {"p"}
    Requests = {"x", "y"}
INVARIANTS VerifiedIsValidated
CHECK_DEADLOCK FALSE
