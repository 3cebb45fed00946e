----------------------- MODULE PolicyEvaluatorProofs ------------------------
(***************************************************************************)
(* The answers of the policy engine, for all lists of policies, however    *)
(* long, and whatever the rules in them say.                               *)
(*                                                                         *)
(* The loop invariant: the local variable the loop accumulates is the      *)
(* answer to the rules seen so far, and none of them was one that ends the *)
(* loop.                                                                   *)
(***************************************************************************)
EXTENDS PolicyEvaluator, TLAPS

AnyRule == MemoryRules \cup PIIRules

RulesIn(ps, call, i) == IF call = "evaluate" THEN ps[i].memory ELSE ps[i].pii

Before(i, j, a, b) == i < a \/ (i = a /\ j < b)

\* The rules before rule b of policy a.
Seen(ps, call, a, b) ==
  {x \in AnyRule : \E i \in 1..Len(ps) : \E j \in 1..Len(RulesIn(ps, call, i)) :
                     x = RulesIn(ps, call, i)[j] /\ Before(i, j, a, b)}

AllRules(ps, call) == IF call = "evaluate" THEN MemoryRulesOf(ps) ELSE PIIRulesOf(ps)

Position ==
  /\ policies \in PolicyLists
  /\ ~loaded => policies = <<>>
  /\ question \in Evaluation \cup PIICheck
  /\ p \in 1..(Len(policies) + 1) /\ r \in Nat
  /\ p =< Len(policies) => r \in 1..(Len(Rules) + 1)

SoFar == Seen(policies, question.call, p, r)

Accumulated ==
  /\ answer = "none" /\ question.call = "evaluate" =>
       /\ verdict = DenyOverrides(SoFar, question.request)
       /\ \A x \in SoFar : Applies(x, question.request) => x.effect # "deny"
  /\ answer = "none" /\ question.call = "pii" =>
       /\ verdict = StrictestAction(SoFar, question.request)
       /\ \A x \in SoFar : Covers(x, question.request) => x.action # "block"

LoopInvariant ==
  Position /\ Accumulated /\ EvaluateIsDenyOverrides /\ CheckPIIIsStrictest

-----------------------------------------------------------------------------
(* The rules seen.                                                         *)

LEMMA Positions ==
  ASSUME NEW i \in Nat, NEW j \in Nat, NEW a \in Nat, NEW b \in Nat, i >= 1, j >= 1
  PROVE  /\ ~Before(i, j, 1, 1)
         /\ Before(i, j, a, b + 1) <=> (Before(i, j, a, b) \/ (i = a /\ j = b))
         /\ i =< a => Before(i, j, a + 1, b)
         /\ (i = a => j =< b) => (Before(i, j, a + 1, 1) <=> Before(i, j, a, b + 1))
  BY DEF Before

LEMMA ListsOfRules ==
  ASSUME NEW ps \in PolicyLists
  PROVE  /\ Len(ps) \in Nat
         /\ \A i \in 1..Len(ps) :
              /\ ps[i].memory \in Seq(MemoryRules)
              /\ ps[i].pii \in Seq(PIIRules)
<1> DEFINE S == [memory : Seq(MemoryRules), pii : Seq(PIIRules)]
<1>1. ps \in Seq(S)
  BY PolicyAssumption
<1>2. \A x \in S : x.memory \in Seq(MemoryRules) /\ x.pii \in Seq(PIIRules)
  OBVIOUS
<1> HIDE DEF S
<1>3. Len(ps) \in Nat /\ \A i \in 1..Len(ps) : ps[i] \in S
  BY <1>1
<1> QED
  BY <1>2, <1>3

LEMMA RulesAreRules ==
  ASSUME NEW ps \in PolicyLists, NEW call, NEW i \in 1..Len(ps)
  PROVE  /\ Len(RulesIn(ps, call, i)) \in Nat
         /\ \A j \in 1..Len(RulesIn(ps, call, i)) : RulesIn(ps, call, i)[j] \in AnyRule
<1>1. ps[i].memory \in Seq(MemoryRules) /\ ps[i].pii \in Seq(PIIRules)
  BY ListsOfRules
<1>2. CASE call = "evaluate"
  <2> DEFINE s == ps[i].memory
  <2>1. RulesIn(ps, call, i) = s
    BY <1>2 DEF RulesIn
  <2>2. s \in Seq(MemoryRules)
    BY <1>1
  <2> HIDE DEF s
  <2>3. Len(s) \in Nat /\ \A j \in 1..Len(s) : s[j] \in MemoryRules
    BY <2>2
  <2> QED
    BY <2>1, <2>3 DEF AnyRule
<1>3. CASE call # "evaluate"
  <2> DEFINE s == ps[i].pii
  <2>1. RulesIn(ps, call, i) = s
    BY <1>3 DEF RulesIn
  <2>2. s \in Seq(PIIRules)
    BY <1>1
  <2> HIDE DEF s
  <2>3. Len(s) \in Nat /\ \A j \in 1..Len(s) : s[j] \in PIIRules
    BY <2>2
  <2> QED
    BY <2>1, <2>3 DEF AnyRule
<1> QED
  BY <1>2, <1>3

\* Where a rule can be.
LEMMA RulePositions ==
  ASSUME NEW ps \in PolicyLists, NEW call, NEW i \in 1..Len(ps),
         NEW j \in 1..Len(RulesIn(ps, call, i))
  PROVE  /\ i \in Nat /\ i >= 1 /\ i =< Len(ps) /\ Len(ps) \in Nat
         /\ j \in Nat /\ j >= 1 /\ j =< Len(RulesIn(ps, call, i))
         /\ Len(RulesIn(ps, call, i)) \in Nat
<1>1. Len(ps) \in Nat
  BY ListsOfRules
<1>2. Len(RulesIn(ps, call, i)) \in Nat
  BY RulesAreRules
<1> QED
  BY <1>1, <1>2

LEMMA NothingSeen ==
  ASSUME NEW ps \in PolicyLists, NEW call
  PROVE  Seen(ps, call, 1, 1) = {}
<1>1. ASSUME NEW i \in 1..Len(ps), NEW j \in 1..Len(RulesIn(ps, call, i))
      PROVE  ~Before(i, j, 1, 1)
  BY RulePositions, Positions
<1> QED
  BY <1>1 DEF Seen

LEMMA OneMoreSeen ==
  ASSUME NEW ps \in PolicyLists, NEW call, NEW a \in 1..Len(ps),
         NEW b \in 1..Len(RulesIn(ps, call, a))
  PROVE  Seen(ps, call, a, b + 1) = Seen(ps, call, a, b) \cup {RulesIn(ps, call, a)[b]}
<1>0. a \in Nat /\ b \in Nat
  BY RulePositions
<1>1. RulesIn(ps, call, a)[b] \in AnyRule
  BY RulesAreRules
<1>2. ASSUME NEW i \in 1..Len(ps), NEW j \in 1..Len(RulesIn(ps, call, i))
      PROVE  Before(i, j, a, b + 1) <=> (Before(i, j, a, b) \/ (i = a /\ j = b))
  BY <1>0, RulePositions, Positions
<1>3. Seen(ps, call, a, b + 1) \subseteq Seen(ps, call, a, b) \cup {RulesIn(ps, call, a)[b]}
  BY <1>2 DEF Seen
<1>4. Seen(ps, call, a, b) \subseteq Seen(ps, call, a, b + 1)
  BY <1>2 DEF Seen
<1>5. RulesIn(ps, call, a)[b] \in Seen(ps, call, a, b + 1)
  <2>1. Before(a, b, a, b + 1)
    BY <1>2
  <2> QED
    BY <1>1, <2>1 DEF Seen
<1> QED
  BY <1>3, <1>4, <1>5

LEMMA PolicySeen ==
  ASSUME NEW ps \in PolicyLists, NEW call, NEW a \in 1..Len(ps)
  PROVE  Seen(ps, call, a + 1, 1) = Seen(ps, call, a, Len(RulesIn(ps, call, a)) + 1)
<1> DEFINE b == Len(RulesIn(ps, call, a))
<1>0. a \in Nat /\ b \in Nat
  BY ListsOfRules, RulesAreRules
<1>1. ASSUME NEW i \in 1..Len(ps), NEW j \in 1..Len(RulesIn(ps, call, i))
      PROVE  Before(i, j, a + 1, 1) <=> Before(i, j, a, b + 1)
  <2>1. i = a => j =< b
    BY RulePositions
  <2> HIDE DEF b
  <2> QED
    BY <1>0, <2>1, RulePositions, Positions
<1> HIDE DEF b
<1>2. Seen(ps, call, a + 1, 1) = Seen(ps, call, a, b + 1)
  BY <1>1 DEF Seen
<1> QED
  BY <1>2 DEF b

LEMMA AllSeen ==
  ASSUME NEW ps \in PolicyLists, NEW call \in {"evaluate", "pii"}, NEW b \in Nat
  PROVE  Seen(ps, call, Len(ps) + 1, b) = AllRules(ps, call)
<1>1. ASSUME NEW i \in 1..Len(ps), NEW j \in 1..Len(RulesIn(ps, call, i))
      PROVE  Before(i, j, Len(ps) + 1, b)
  BY RulePositions, Positions
<1>2. ASSUME NEW x
      PROVE  x \in Seen(ps, call, Len(ps) + 1, b)
               <=> \E i \in 1..Len(ps) : \E j \in 1..Len(RulesIn(ps, call, i)) :
                     x = RulesIn(ps, call, i)[j]
  BY <1>1, RulesAreRules DEF Seen
<1>3. ASSUME NEW x
      PROVE  x \in AllRules(ps, call)
               <=> \E i \in 1..Len(ps) : \E j \in 1..Len(RulesIn(ps, call, i)) :
                     x = RulesIn(ps, call, i)[j]
  <2>1. CASE call = "evaluate"
    BY <2>1 DEF AllRules, MemoryRulesOf, RulesIn
  <2>2. CASE call = "pii"
    BY <2>2 DEF AllRules, PIIRulesOf, RulesIn
  <2> QED
    BY <2>1, <2>2
<1> QED
  BY <1>2, <1>3

LEMMA SeenIsInAll ==
  ASSUME NEW ps \in PolicyLists, NEW call \in {"evaluate", "pii"}, NEW a \in 1..Len(ps),
         NEW b \in 1..Len(RulesIn(ps, call, a))
  PROVE  RulesIn(ps, call, a)[b] \in AllRules(ps, call)
<1>1. CASE call = "evaluate"
  BY <1>1 DEF AllRules, MemoryRulesOf, RulesIn
<1>2. CASE call = "pii"
  BY <1>2 DEF AllRules, PIIRulesOf, RulesIn
<1> QED
  BY <1>1, <1>2

-----------------------------------------------------------------------------
(* The loop.                                                               *)

LEMMA Calls == \A q \in Evaluation \cup PIICheck : q.call \in {"evaluate", "pii"}
  BY DEF Evaluation, PIICheck

LEMMA InitSatisfiesLoop == Init => LoopInvariant
<1> SUFFICES ASSUME Init PROVE LoopInvariant
  OBVIOUS
<1>1. /\ policies \in PolicyLists /\ (~loaded => policies = <<>>)
      /\ question \in Evaluation \cup PIICheck /\ p = 1 /\ r = 1 /\ answer = "none"
  BY DEF Init
<1>2. Position
  <2>1. Len(policies) \in Nat
    BY <1>1, ListsOfRules
  <2>2. 1 =< Len(policies) => Len(Rules) \in Nat
    <3>1. 1 =< Len(policies) => 1 \in 1..Len(policies)
      BY <2>1
    <3>2. 1 =< Len(policies) => Len(RulesIn(policies, question.call, 1)) \in Nat
      BY <1>1, <3>1, RulesAreRules
    <3> QED
      BY <1>1, <3>2 DEF Rules, RulesIn
  <2> QED
    BY <1>1, <2>1, <2>2 DEF Position
<1>3. SoFar = {}
  BY <1>1, NothingSeen DEF SoFar
<1>4. Accumulated
  BY <1>3 DEF Init, Accumulated, DenyOverrides, StrictestAction
<1> QED
  BY <1>1, <1>2, <1>4 DEF LoopInvariant, EvaluateIsDenyOverrides, CheckPIIIsStrictest

\* Where the loop is at a rule.
LEMMA AtARule ==
  ASSUME LoopInvariant, NEW call \in {"evaluate", "pii"}, AtRule(call)
  PROVE  /\ p \in 1..Len(policies) /\ r \in 1..Len(Rules) /\ r \in Nat /\ Len(Rules) \in Nat
         /\ question.call = call
         /\ Rules[r] \in AllRules(policies, call)
         /\ Seen(policies, call, p, r + 1) = SoFar \cup {Rules[r]}
<1>1. p \in 1..Len(policies) /\ r \in 1..Len(Rules) /\ question.call = call /\ policies \in PolicyLists
  BY DEF AtRule, LoopInvariant, Position
<1>2. Rules = RulesIn(policies, call, p)
  BY <1>1 DEF Rules, RulesIn
<1>3. r \in 1..Len(RulesIn(policies, call, p))
  BY <1>1, <1>2
<1>4. r \in Nat /\ Len(Rules) \in Nat
  BY <1>1, <1>2, <1>3, RulePositions
<1>5. RulesIn(policies, call, p)[r] \in AllRules(policies, call)
  BY <1>1, <1>3, SeenIsInAll
<1>6. Seen(policies, call, p, r + 1) = Seen(policies, call, p, r) \cup {RulesIn(policies, call, p)[r]}
  BY <1>1, <1>3, OneMoreSeen
<1> QED
  BY <1>1, <1>2, <1>4, <1>5, <1>6 DEF SoFar

\* A round that goes on with verdict v.
LEMMA RoundGoesOn ==
  ASSUME LoopInvariant, NEW call \in {"evaluate", "pii"}, AtRule(call), NEW v, Continue(v),
         call = "evaluate" =>
           /\ v = DenyOverrides(SoFar \cup {Rules[r]}, question.request)
           /\ Applies(Rules[r], question.request) => Rules[r].effect # "deny",
         call = "pii" =>
           /\ v = StrictestAction(SoFar \cup {Rules[r]}, question.request)
           /\ Covers(Rules[r], question.request) => Rules[r].action # "block"
  PROVE  LoopInvariant'
<1>1. /\ UNCHANGED <<loaded, policies, question, p, answer>> /\ r' = r + 1 /\ verdict' = v
      /\ answer = "none"
  BY DEF Continue, AtRule
<1>2. /\ p \in 1..Len(policies) /\ r \in 1..Len(Rules) /\ r \in Nat /\ Len(Rules) \in Nat
      /\ question.call = call
      /\ Seen(policies, call, p, r + 1) = SoFar \cup {Rules[r]}
  BY AtARule
<1>3. Rules' = Rules
  BY <1>1 DEF Rules
<1>4. Position'
  <2>1. r + 1 \in 1..(Len(Rules) + 1)
    BY <1>2
  <2> QED
    BY <1>1, <1>2, <1>3, <2>1 DEF LoopInvariant, Position
<1>5. SoFar' = SoFar \cup {Rules[r]}
  BY <1>1, <1>2 DEF SoFar
<1>6. Accumulated'
  BY <1>1, <1>2, <1>5 DEF LoopInvariant, Accumulated
<1> QED
  BY <1>1, <1>4, <1>6 DEF LoopInvariant, EvaluateIsDenyOverrides, CheckPIIIsStrictest

\* What one rule more does to the answer.
LEMMA OneRuleMore ==
  ASSUME NEW S, NEW x, NEW q
  PROVE  /\ (\A y \in S : Applies(y, q) => y.effect # "deny")
              /\ (Applies(x, q) => x.effect \notin {"allow", "deny"}) =>
            DenyOverrides(S \cup {x}, q) = DenyOverrides(S, q)
         /\ (\A y \in S : Applies(y, q) => y.effect # "deny") /\ Applies(x, q) /\ x.effect = "allow" =>
            DenyOverrides(S \cup {x}, q) = "allow"
         /\ x \in S /\ Applies(x, q) /\ x.effect = "deny" => DenyOverrides(S, q) = "deny"
         /\ (\A y \in S : Covers(y, q) => y.action # "block")
              /\ (Covers(x, q) => x.action \notin {"block", "redact"}) =>
            StrictestAction(S \cup {x}, q) = StrictestAction(S, q)
         /\ (\A y \in S : Covers(y, q) => y.action # "block") /\ Covers(x, q) /\ x.action = "redact" =>
            StrictestAction(S \cup {x}, q) = "redact"
         /\ x \in S /\ Covers(x, q) /\ x.action = "block" => StrictestAction(S, q) = "block"
<1>1. ASSUME \A y \in S : Applies(y, q) => y.effect # "deny",
             Applies(x, q) => x.effect \notin {"allow", "deny"}
      PROVE  DenyOverrides(S \cup {x}, q) = DenyOverrides(S, q)
  BY <1>1 DEF DenyOverrides
<1>2. ASSUME \A y \in S : Applies(y, q) => y.effect # "deny", Applies(x, q), x.effect = "allow"
      PROVE  DenyOverrides(S \cup {x}, q) = "allow"
  BY <1>2 DEF DenyOverrides
<1>3. ASSUME x \in S, Applies(x, q), x.effect = "deny"
      PROVE  DenyOverrides(S, q) = "deny"
  BY <1>3 DEF DenyOverrides
<1>4. ASSUME \A y \in S : Covers(y, q) => y.action # "block",
             Covers(x, q) => x.action \notin {"block", "redact"}
      PROVE  StrictestAction(S \cup {x}, q) = StrictestAction(S, q)
  BY <1>4 DEF StrictestAction
<1>5. ASSUME \A y \in S : Covers(y, q) => y.action # "block", Covers(x, q), x.action = "redact"
      PROVE  StrictestAction(S \cup {x}, q) = "redact"
  BY <1>5 DEF StrictestAction
<1>6. ASSUME x \in S, Covers(x, q), x.action = "block"
      PROVE  StrictestAction(S, q) = "block"
  BY <1>6 DEF StrictestAction
<1> QED
  BY <1>1, <1>2, <1>3, <1>4, <1>5, <1>6

LEMMA MemoryRuleKeepsLoop == LoopInvariant /\ MemoryRule => LoopInvariant'
<1> SUFFICES ASSUME LoopInvariant, MemoryRule PROVE LoopInvariant'
  OBVIOUS
<1> DEFINE x == Rules[r]
           q == question.request
<1>1. AtRule("evaluate") /\ answer = "none" /\ question.call = "evaluate"
  BY DEF MemoryRule, AtRule
<1>2. /\ verdict = DenyOverrides(SoFar, q)
      /\ \A y \in SoFar : Applies(y, q) => y.effect # "deny"
  BY <1>1 DEF LoopInvariant, Accumulated
<1>3. x \in MemoryRulesOf(policies)
  BY <1>1, AtARule DEF AllRules
<1>4. CASE Applies(x, q) /\ x.effect = "deny" /\ Return("deny")
  <2>1. DenyOverrides(MemoryRulesOf(policies), q) = "deny"
    BY <1>3, <1>4, OneRuleMore
  <2>2. answer' = "deny" /\ UNCHANGED <<loaded, policies, question, p, r, verdict>>
    BY <1>4 DEF Return
  <2>3. Position' /\ Accumulated'
    BY <2>2 DEF LoopInvariant, Position, Accumulated, Rules
  <2> QED
    BY <1>1, <2>1, <2>2, <2>3 DEF LoopInvariant, EvaluateIsDenyOverrides, CheckPIIIsStrictest
<1>5. CASE Applies(x, q) /\ x.effect = "allow" /\ Continue("allow")
  <2>1. DenyOverrides(SoFar \cup {x}, q) = "allow"
    BY <1>2, <1>5, OneRuleMore
  <2> QED
    BY <1>1, <1>5, <2>1, RoundGoesOn
<1>6. CASE (Applies(x, q) => x.effect \notin {"allow", "deny"}) /\ Continue(verdict)
  <2>1. DenyOverrides(SoFar \cup {x}, q) = verdict
    <3>1. Applies(x, q) => x.effect \notin {"allow", "deny"}
      BY <1>6
    <3> HIDE DEF x, q
    <3>2. DenyOverrides(SoFar \cup {x}, q) = DenyOverrides(SoFar, q)
      BY <1>2, <3>1, OneRuleMore
    <3> QED
      BY <1>2, <3>2
  <2> QED
    BY <1>1, <1>6, <2>1, RoundGoesOn
<1> QED
  BY <1>4, <1>5, <1>6 DEF MemoryRule

LEMMA PIIRuleKeepsLoop == LoopInvariant /\ PIIRule => LoopInvariant'
<1> SUFFICES ASSUME LoopInvariant, PIIRule PROVE LoopInvariant'
  OBVIOUS
<1> DEFINE x == Rules[r]
           q == question.request
<1>1. AtRule("pii") /\ answer = "none" /\ question.call = "pii"
  BY DEF PIIRule, AtRule
<1>2. /\ verdict = StrictestAction(SoFar, q)
      /\ \A y \in SoFar : Covers(y, q) => y.action # "block"
  BY <1>1 DEF LoopInvariant, Accumulated
<1>3. x \in PIIRulesOf(policies)
  BY <1>1, AtARule DEF AllRules
<1>4. CASE Covers(x, q) /\ x.action = "block" /\ Return("block")
  <2>1. StrictestAction(PIIRulesOf(policies), q) = "block"
    BY <1>3, <1>4, OneRuleMore
  <2>2. answer' = "block" /\ UNCHANGED <<loaded, policies, question, p, r, verdict>>
    BY <1>4 DEF Return
  <2>3. Position' /\ Accumulated'
    BY <2>2 DEF LoopInvariant, Position, Accumulated, Rules
  <2> QED
    BY <1>1, <2>1, <2>2, <2>3 DEF LoopInvariant, EvaluateIsDenyOverrides, CheckPIIIsStrictest
<1>5. CASE Covers(x, q) /\ x.action = "redact" /\ Continue("redact")
  <2>1. StrictestAction(SoFar \cup {x}, q) = "redact"
    BY <1>2, <1>5, OneRuleMore
  <2> QED
    BY <1>1, <1>5, <2>1, RoundGoesOn
<1>6. CASE (Covers(x, q) => x.action \notin {"block", "redact"}) /\ Continue(verdict)
  <2>1. StrictestAction(SoFar \cup {x}, q) = verdict
    <3>1. Covers(x, q) => x.action \notin {"block", "redact"}
      BY <1>6
    <3> HIDE DEF x, q
    <3>2. StrictestAction(SoFar \cup {x}, q) = StrictestAction(SoFar, q)
      BY <1>2, <3>1, OneRuleMore
    <3> QED
      BY <1>2, <3>2
  <2> QED
    BY <1>1, <1>6, <2>1, RoundGoesOn
<1> QED
  BY <1>4, <1>5, <1>6 DEF PIIRule

LEMMA NextPolicyKeepsLoop == LoopInvariant /\ NextPolicy => LoopInvariant'
<1> SUFFICES ASSUME LoopInvariant, NextPolicy PROVE LoopInvariant'
  OBVIOUS
<1>1. /\ p \in 1..Len(policies) /\ r = Len(Rules) + 1 /\ p' = p + 1 /\ r' = 1
      /\ UNCHANGED <<loaded, policies, question, verdict, answer>>
      /\ policies \in PolicyLists /\ question.call \in {"evaluate", "pii"}
  BY Calls DEF NextPolicy, LoopInvariant, Position
<1>2. Len(policies) \in Nat /\ p \in Nat
  BY <1>1, ListsOfRules
<1>3. Position'
  <2>1. p + 1 \in 1..(Len(policies) + 1)
    BY <1>1, <1>2
  <2>2. ASSUME p + 1 =< Len(policies)
        PROVE  Len(RulesIn(policies, question.call, p + 1)) \in Nat
    <3>1. p + 1 \in 1..Len(policies)
      BY <1>2, <2>1, <2>2
    <3> QED
      BY <1>1, <3>1, RulesAreRules
  <2>3. Rules' = RulesIn(policies, question.call, p + 1)
    BY <1>1 DEF Rules, RulesIn
  <2>4. p + 1 =< Len(policies) => 1 \in 1..(Len(Rules') + 1)
    BY <2>2, <2>3
  <2> QED
    BY <1>1, <2>1, <2>4 DEF LoopInvariant, Position
<1>4. SoFar' = SoFar
  <2>1. Rules = RulesIn(policies, question.call, p)
    BY <1>1 DEF Rules, RulesIn
  <2>2. Seen(policies, question.call, p + 1, 1) = Seen(policies, question.call, p, r)
    BY <1>1, <2>1, PolicySeen
  <2> QED
    BY <1>1, <2>2 DEF SoFar
<1>5. Accumulated'
  BY <1>1, <1>4 DEF LoopInvariant, Accumulated
<1> QED
  BY <1>1, <1>3, <1>5 DEF LoopInvariant, EvaluateIsDenyOverrides, CheckPIIIsStrictest

LEMMA LoadFailsKeepsLoop == LoopInvariant /\ LoadFails => LoopInvariant'
<1> SUFFICES ASSUME LoopInvariant, LoadFails PROVE LoopInvariant'
  OBVIOUS
<1>1. /\ ~loaded /\ answer = "none"
      /\ answer' = IF question.call = "evaluate" THEN "deny" ELSE "block"
      /\ UNCHANGED <<loaded, policies, question, p, r, verdict>>
  BY DEF LoadFails, Return
<1>2. Position' /\ Accumulated'
  BY <1>1 DEF LoopInvariant, Position, Accumulated, Rules
<1> QED
  BY <1>1, <1>2 DEF LoopInvariant, EvaluateIsDenyOverrides, CheckPIIIsStrictest

LEMMA FinishKeepsLoop == LoopInvariant /\ Finish => LoopInvariant'
<1> SUFFICES ASSUME LoopInvariant, Finish PROVE LoopInvariant'
  OBVIOUS
<1>1. /\ loaded /\ answer = "none" /\ p = Len(policies) + 1 /\ answer' = verdict
      /\ UNCHANGED <<loaded, policies, question, p, r, verdict>>
      /\ policies \in PolicyLists /\ question.call \in {"evaluate", "pii"} /\ r \in Nat
  BY Calls DEF Finish, Return, LoopInvariant, Position
<1>2. SoFar = AllRules(policies, question.call)
  BY <1>1, AllSeen DEF SoFar
<1>3. /\ question.call = "evaluate" =>
           verdict = DenyOverrides(MemoryRulesOf(policies), question.request)
      /\ question.call = "pii" =>
           verdict = StrictestAction(PIIRulesOf(policies), question.request)
  BY <1>1, <1>2 DEF LoopInvariant, Accumulated, AllRules
<1>4. verdict # "none"
  BY <1>1, <1>3 DEF DenyOverrides, StrictestAction
<1>5. Position' /\ Accumulated'
  BY <1>1, <1>4 DEF LoopInvariant, Position, Accumulated, Rules
<1> QED
  BY <1>1, <1>3, <1>5 DEF LoopInvariant, EvaluateIsDenyOverrides, CheckPIIIsStrictest

LEMMA LoopInvariantHolds == Spec => []LoopInvariant
<1>1. LoopInvariant /\ UNCHANGED vars => LoopInvariant'
  BY DEF LoopInvariant, Position, Accumulated, EvaluateIsDenyOverrides, CheckPIIIsStrictest, SoFar,
         Rules, vars
<1>2. LoopInvariant /\ [Next]_vars => LoopInvariant'
  BY <1>1, LoadFailsKeepsLoop, MemoryRuleKeepsLoop, PIIRuleKeepsLoop, NextPolicyKeepsLoop,
     FinishKeepsLoop DEF Next
<1> QED
  BY <1>2, InitSatisfiesLoop, PTL DEF Spec

-----------------------------------------------------------------------------
(* What follows.                                                           *)

\* Evaluate (evaluator.go:58-81) allows exactly when some rule that matches allows
\* and none denies: neither the order in which PostgreSQL returns the policies nor
\* the early return matters.
THEOREM EvaluateDecides == Spec => []EvaluateIsDenyOverrides
<1>1. LoopInvariant => EvaluateIsDenyOverrides
  BY DEF LoopInvariant
<1> QED
  BY <1>1, LoopInvariantHolds, PTL

\* CheckPII (evaluator.go:93-106) answers with the strictest action of the rules
\* that match, whatever their order.
THEOREM CheckPIIDecides == Spec => []CheckPIIIsStrictest
<1>1. LoopInvariant => CheckPIIIsStrictest
  BY DEF LoopInvariant
<1> QED
  BY <1>1, LoopInvariantHolds, PTL

\* Parser and evaluator know the same words (parser.go:65-89, evaluator.go:69-76 and
\* 97-103): of rules the parser accepts none that matches is passed over.
THEOREM ParsedRulesAreHeeded == Spec => []WhatParsesIsHeeded
<1>1. ASSUME LoopInvariant PROVE WhatParsesIsHeeded
  <2>1. ASSUME answer = "allow", question.call = "evaluate",
               \A rule \in MemoryRulesOf(policies) : ValidMemoryRule(rule)
        PROVE  Matching # {} /\ \A rule \in Matching : rule.effect = "allow"
    <3>1. DenyOverrides(MemoryRulesOf(policies), question.request) = "allow"
      BY <1>1, <2>1 DEF LoopInvariant, EvaluateIsDenyOverrides
    <3>2. "deny" \notin {rule.effect : rule \in Matching} /\ "allow" \in {rule.effect : rule \in Matching}
      BY <3>1 DEF DenyOverrides, Matching
    <3> QED
      BY <2>1, <3>2 DEF Matching, ValidMemoryRule
  <2>2. ASSUME answer = "allow", question.call = "pii",
               \A rule \in PIIRulesOf(policies) : ValidPIIRule(rule)
        PROVE  \A rule \in Covering : rule.action = "allow"
    <3>1. StrictestAction(PIIRulesOf(policies), question.request) = "allow"
      BY <1>1, <2>2 DEF LoopInvariant, CheckPIIIsStrictest
    <3>2. "block" \notin {rule.action : rule \in Covering} /\ "redact" \notin {rule.action : rule \in Covering}
      BY <3>1 DEF StrictestAction, Covering
    <3> QED
      BY <2>2, <3>2 DEF Covering, ValidPIIRule
  <2> QED
    BY <2>1, <2>2 DEF WhatParsesIsHeeded
<1> QED
  BY <1>1, LoopInvariantHolds, PTL
=============================================================================
