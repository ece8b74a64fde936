\* Three requests for two permits and a bucket of two and a half requests.
SPECIFICATION GateFairSpec
CONSTANTS
    Requests = {r1, r2, r3}
    Limit = 2
    One = 2
    Burst = 5
    Rate = 1
    MaxInFlight = 4
    MaxBudget = 9
    SampleCap = 3
    Word = 16
INVARIANTS GateTypeOK WindowBounded PermitsConserved GaugeNotBelow
PROPERTY CapacityReturns
