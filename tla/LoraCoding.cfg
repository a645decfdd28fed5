SPECIFICATION Spec
CONSTANTS
    SfApps = {5, 6}
    Patterns <- MCPatterns
    Payloads <- MCPayloads
INVARIANTS OneBadSymbol RepairsVerify
