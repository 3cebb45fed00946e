SPECIFICATION MCSpec
CONSTANTS
  MemoryRules <- MCMemoryRules
  PIIRules <- MCPIIRules
  PolicyLists <- MCPolicyLists
  Requests <- MCRequests
  PIITypes <- MCPIITypes
INVARIANTS FirstMatchWins
