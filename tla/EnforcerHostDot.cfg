\* Scenario 1's domain map and a request for a.example.com written with a
\* trailing dot and a port.
CONSTANTS
    DefaultPolicy = "PD"
    Policies <- MCPolicies
    Hosts <- MCHosts
    Requests <- MCRequestsDotPort
    Digits = {"8080", "443"}
    Lower <- MCLower
    WafDecision <- MCWafDecision
    NoValue = NoValue
    NoBlock = NoBlock
    NoEntry = NoEntry
    DomainFiles <- MCFilesScenario1
    MaxTime = 1
    MaxReqs = 1
SPECIFICATION Spec
INVARIANT HostPolicyAsSpecified
