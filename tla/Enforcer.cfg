\* Every subset of five domain map entries, in every HashMap order, and every
\* sequence of up to three requests over three seconds.
CONSTANTS
    DefaultPolicy = "PD"
    Policies <- MCPolicies
    Hosts <- MCHosts
    Requests <- MCRequests
    Digits = {"8080", "443"}
    Lower <- MCLower
    WafDecision <- MCWafDecision
    NoValue = NoValue
    NoBlock = NoBlock
    NoEntry = NoEntry
    DomainFiles <- MCFiles
    MaxTime = 2
    MaxReqs = 3
SPECIFICATION Spec
INVARIANT DomainSpecificity
INVARIANT DecisionMatchesReference
