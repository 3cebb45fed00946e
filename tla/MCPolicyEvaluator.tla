------------------------- MODULE MCPolicyEvaluator -------------------------
(* Every list of at most two policies with at most two rules of each kind. *)
EXTENDS PolicyEvaluator, TLC

MemoryRuleFor(action, type, effect) ==
  [action |-> action, types |-> {type}, namespaces |-> {Wildcard}, effect |-> effect]

\* Rules that match the request exactly, by wildcard and not at all, with the
\* two effects and one the evaluator does not know, and one without types.
MCMemoryRules ==
  {MemoryRuleFor("read", "memory", "allow"), MemoryRuleFor(Wildcard, "memory", "deny"),
   MemoryRuleFor("read", Wildcard, "permit"), MemoryRuleFor("read", "trust", "deny"),
   [action |-> "read", types |-> {}, namespaces |-> {Wildcard}, effect |-> "deny"]}

MCPIIRules ==
  {[types |-> {t}, action |-> a] : t \in {"email"}, a \in {"allow", "redact", "block"}}
  \cup {[types |-> {Wildcard}, action |-> "redact"], [types |-> {Wildcard}, action |-> "mask"]}

MCRequests == {[action |-> a, type |-> "memory", namespace |-> "default"] : a \in {"read", "delete"}}
MCPIITypes == {"email", "ssn"}

UpTo(S, n) == UNION {[1..k -> S] : k \in 0..n}

MCPolicyLists ==
  UpTo([memory : UpTo(MCMemoryRules, 2), pii : {<<>>}]
       \cup [memory : {<<>>}, pii : UpTo(MCPIIRules, 2)], 2)

\* The call has returned: nothing is left to do.
Finished == answer # "none" /\ UNCHANGED vars

MCSpec == Init /\ [][Next \/ Finished]_vars
=============================================================================
