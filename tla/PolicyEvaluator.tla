-------------------------- MODULE PolicyEvaluator --------------------------
(***************************************************************************)
(* The two loops of the policy engine (internal/policy/evaluator.go):      *)
(* Evaluate decides a request, CheckPII decides what becomes of a kind of  *)
(* personal data.  Both walk the agent's policies in the order the store   *)
(* returned them - the query has no ORDER BY - and the rules of a policy   *)
(* in the order they were written.                                         *)
(*                                                                         *)
(* The lists may hold whatever CreatePolicy was sent: it stores a policy    *)
(* without the validation that the parser (parser.go) puts it through.     *)
(*                                                                         *)
(* Names are compared with strings.EqualFold, so an action, a memory type, *)
(* a namespace or a PII kind is a value that stands for all its spellings. *)
(***************************************************************************)
EXTENDS Integers, Sequences

CONSTANTS
  MemoryRules,  \* the memory rules policies are made of
  PIIRules,     \* the PII rules
  PolicyLists,  \* the lists of policies the store may return
  Requests,     \* [action, type, namespace]
  PIITypes      \* the kinds of personal data asked about

Wildcard == "*"
Missing == ""   \* what a field is decoded to that was not there

ASSUME PolicyAssumption ==
  /\ \A rule \in MemoryRules : {"action", "types", "namespaces", "effect"} \subseteq DOMAIN rule
  /\ \A rule \in PIIRules : {"types", "action"} \subseteq DOMAIN rule
  /\ PolicyLists \subseteq Seq([memory : Seq(MemoryRules), pii : Seq(PIIRules)])
  /\ <<>> \in PolicyLists

VARIABLES
  loaded,    \* whether getPolicies returned without an error
  policies,  \* what it returned: nil with an error
  question,  \* the request, or the PII kind
  p, r,      \* the policy and the rule the loop is at
  verdict,   \* the local the loop accumulates: allowed, or the PII action
  answer     \* what the call returned, or "none"

vars == <<loaded, policies, question, p, r, verdict, answer>>

ActionMatches(ruleAction, action) == ruleAction = Wildcard \/ ruleAction = action

NameMatches(names, item) == Wildcard \in names \/ item \in names

Applies(rule, q) ==
  /\ ActionMatches(rule.action, q.action)
  /\ NameMatches(rule.types, q.type)
  /\ NameMatches(rule.namespaces, q.namespace)

Covers(rule, piiType) == NameMatches(rule.types, piiType)

Evaluation == [call : {"evaluate"}, request : Requests]
PIICheck == [call : {"pii"}, request : PIITypes]

Init ==
  /\ loaded \in BOOLEAN
  /\ policies \in PolicyLists
  /\ ~loaded => policies = <<>>
  /\ question \in Evaluation \cup PIICheck
  /\ p = 1 /\ r = 1
  /\ verdict = IF question.call = "evaluate" THEN "deny" ELSE "allow"
  /\ answer = "none"

Rules == IF question.call = "evaluate" THEN policies[p].memory ELSE policies[p].pii

AtRule(call) ==
  /\ answer = "none" /\ question.call = call
  /\ p \in 1..Len(policies) /\ r \in 1..Len(Rules)

Return(a) == answer' = a /\ UNCHANGED <<loaded, policies, question, p, r, verdict>>

Continue(v) ==
  /\ r' = r + 1
  /\ verdict' = v
  /\ UNCHANGED <<loaded, policies, question, p, answer>>

\* Faulty variant: a deny is remembered like an allow, so the last match wins.
MemoryRuleLastWins ==
  /\ AtRule("evaluate")
  /\ LET rule == Rules[r] IN
       IF Applies(rule, question.request) /\ rule.effect \in {"allow", "deny"}
       THEN Continue(rule.effect)
       ELSE Continue(verdict)

\* One round of Evaluate's inner loop: a matching deny returns at once, a
\* matching allow is remembered, an unknown effect is passed over.
MemoryRule ==
  /\ AtRule("evaluate")
  /\ LET rule == Rules[r] IN
       IF Applies(rule, question.request)
       THEN \/ rule.effect = "deny" /\ Return("deny")
            \/ rule.effect = "allow" /\ Continue("allow")
            \/ rule.effect \notin {"allow", "deny"} /\ Continue(verdict)
       ELSE Continue(verdict)

\* Faulty variant: an "allow" undoes an earlier "redact".
PIIRuleLastWins ==
  /\ AtRule("pii")
  /\ LET rule == Rules[r] IN
       IF Covers(rule, question.request)
       THEN IF rule.action = "block" THEN Return("block") ELSE Continue(rule.action)
       ELSE Continue(verdict)

\* One round of CheckPII's: a matching block returns, a matching redact is
\* remembered, "allow" never undoes a redact.
PIIRule ==
  /\ AtRule("pii")
  /\ LET rule == Rules[r] IN
       IF Covers(rule, question.request)
       THEN \/ rule.action = "block" /\ Return("block")
            \/ rule.action = "redact" /\ Continue("redact")
            \/ rule.action \notin {"block", "redact"} /\ Continue(verdict)
       ELSE Continue(verdict)

NextPolicy ==
  /\ answer = "none"
  /\ p \in 1..Len(policies) /\ r = Len(Rules) + 1
  /\ p' = p + 1 /\ r' = 1
  /\ UNCHANGED <<loaded, policies, question, verdict, answer>>

\* The error of getPolicies comes with the safe answer.
LoadFails ==
  /\ ~loaded /\ answer = "none"
  /\ Return(IF question.call = "evaluate" THEN "deny" ELSE "block")

\* After the loop.  An empty list returned earlier in the code with the same
\* answer: the default.
Finish ==
  /\ loaded /\ answer = "none"
  /\ p = Len(policies) + 1
  /\ Return(verdict)

Next == LoadFails \/ MemoryRule \/ PIIRule \/ NextPolicy \/ Finish

Spec == Init /\ [][Next]_vars

-----------------------------------------------------------------------------
(* The parser: what validateContent lets pass.  Its rules on delegation and *)
(* audit rules are left out, as nothing ever looks at those.               *)

\* Faulty variant: a field that is there is as good as any.
ValidMemoryRuleAnyEffect(rule) ==
  /\ rule.action # Missing /\ rule.types # {} /\ rule.namespaces # {}
  /\ rule.effect # Missing

ValidMemoryRule(rule) ==
  /\ rule.action # Missing /\ rule.types # {} /\ rule.namespaces # {}
  /\ rule.effect \in {"allow", "deny"}

ValidPIIRule(rule) == rule.action \in {"redact", "block", "allow"}

-----------------------------------------------------------------------------
(* Reference definitions: what the answer is, without any order.           *)

MemoryRulesOf(ps) ==
  UNION {{ps[i].memory[j] : j \in 1..Len(ps[i].memory)} : i \in 1..Len(ps)}

PIIRulesOf(ps) ==
  UNION {{ps[i].pii[j] : j \in 1..Len(ps[i].pii)} : i \in 1..Len(ps)}

DenyOverrides(rules, q) ==
  LET effects == {rule.effect : rule \in {x \in rules : Applies(x, q)}} IN
  IF "deny" \notin effects /\ "allow" \in effects THEN "allow" ELSE "deny"

StrictestAction(rules, t) ==
  LET actions == {rule.action : rule \in {x \in rules : Covers(x, t)}} IN
  CASE "block" \in actions -> "block"
    [] "block" \notin actions /\ "redact" \in actions -> "redact"
    [] OTHER -> "allow"

Matching == {rule \in MemoryRulesOf(policies) : Applies(rule, question.request)}
Covering == {rule \in PIIRulesOf(policies) : Covers(rule, question.request)}

-----------------------------------------------------------------------------
(* Properties.                                                             *)

\* Evaluate's answer (evaluator.go:58-81) depends on the set of rules alone: it
\* allows exactly when some matching rule allows and none denies, so neither the
\* order in which PostgreSQL returns the policies nor the early return matters.
\* When they could not be loaded it denies.
EvaluateIsDenyOverrides ==
  answer # "none" /\ question.call = "evaluate" =>
    answer = IF loaded THEN DenyOverrides(MemoryRulesOf(policies), question.request)
                       ELSE "deny"

\* CheckPII's answer (evaluator.go:85-106) is the strictest matching action,
\* whatever the order: block over redact over allow.  When the policies could not
\* be loaded it is "block", though the default for an empty list is "allow".
CheckPIIIsStrictest ==
  answer # "none" /\ question.call = "pii" =>
    answer = IF loaded THEN StrictestAction(PIIRulesOf(policies), question.request)
                       ELSE "block"

\* The parser and the evaluator know the same words (parser.go:65-89,
\* evaluator.go:69-76, 97-103): in a policy the parser accepts, no rule that
\* matches is passed over.  Evaluate allows only if there is such a rule and all
\* of them allow; CheckPII allows only if all of them do.
WhatParsesIsHeeded ==
  /\ answer = "allow" /\ question.call = "evaluate"
       /\ (\A rule \in MemoryRulesOf(policies) : ValidMemoryRule(rule)) =>
     Matching # {} /\ \A rule \in Matching : rule.effect = "allow"
  /\ answer = "allow" /\ question.call = "pii"
       /\ (\A rule \in PIIRulesOf(policies) : ValidPIIRule(rule)) =>
     \A rule \in Covering : rule.action = "allow"

\* docs/policy_spec.md:99-100: "Evaluate rules top-down", "First matching rule wins".
FirstMatchWins ==
  answer # "none" /\ question.call = "evaluate" =>
    \A i \in 1..Len(policies) : \A j \in 1..Len(policies[i].memory) :
      LET rule == policies[i].memory[j]
          first == \A k \in 1..i : \A l \in 1..Len(policies[k].memory) :
                     Applies(policies[k].memory[l], question.request) => k = i /\ l >= j
      IN Applies(rule, question.request) /\ first /\ ValidMemoryRule(rule) =>
           answer = rule.effect
=============================================================================
