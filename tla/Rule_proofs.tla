----------------------------- MODULE Rule_proofs -----------------------------
(***************************************************************************)
(* Proofs about Rule, for any rules, criteria, values and indexes.         *)
(***************************************************************************)
EXTENDS Rule, SequenceTheorems, WellFoundedInduction, TLAPS

-----------------------------------------------------------------------------
(* The list after DL_DELETE and after the insertions.                      *)

\* Taking out the rule at index i leaves the others, those behind one earlier.
LEMMA WithoutSeq ==
    ASSUME NEW S, NEW s \in Seq(S), NEW i \in Nat, i < Len(s)
    PROVE  /\ Without(s, i) \in Seq(S)
           /\ Len(Without(s, i)) = Len(s) - 1
           /\ DOMAIN Without(s, i) = 1..(Len(s) - 1)
           /\ \A k \in 1..(Len(s) - 1) :
                Without(s, i)[k] = IF k <= i THEN s[k] ELSE s[k + 1]
<1>1. Len(s) \in Nat /\ Len(s) - 1 \in Nat /\ DOMAIN s = 1..Len(s)
  OBVIOUS
<1>2. \A k \in 1..Len(s) : s[k] \in S
  OBVIOUS
<1>3. \A k \in 1..(Len(s) - 1) : k \in 1..Len(s) /\ k + 1 \in 1..Len(s)
  BY <1>1
<1>4. \A k \in 1..(Len(s) - 1) : (IF k <= i THEN s[k] ELSE s[k + 1]) \in S
  BY <1>2, <1>3
<1> QED
  BY <1>1, <1>4 DEF Without

\* Putting a rule at index i leaves the others in place, those behind one later.
LEMMA WithSeq ==
    ASSUME NEW S, NEW s \in Seq(S), NEW r \in S, NEW i \in Nat, i <= Len(s)
    PROVE  /\ With(s, i, r) \in Seq(S)
           /\ Len(With(s, i, r)) = Len(s) + 1
           /\ DOMAIN With(s, i, r) = 1..(Len(s) + 1)
           /\ \A k \in 1..(Len(s) + 1) :
                With(s, i, r)[k] =
                    IF k <= i THEN s[k] ELSE IF k = i + 1 THEN r ELSE s[k - 1]
<1>1. Len(s) \in Nat /\ Len(s) + 1 \in Nat /\ DOMAIN s = 1..Len(s)
  OBVIOUS
<1>2. \A k \in 1..Len(s) : s[k] \in S
  OBVIOUS
<1>3. \A k \in 1..(Len(s) + 1) :
        (IF k <= i THEN s[k] ELSE IF k = i + 1 THEN r ELSE s[k - 1]) \in S
  BY <1>1, <1>2
<1> QED
  BY <1>1, <1>3 DEF With

\* irc_bot_rule_move always finds a place inside the list.
LEMMA LandsInside ==
    ASSUME NEW from \in Nat, NEW to \in Nat, NEW n \in Nat, from < n
    PROVE  LandsAt(from, to, n) \in Nat /\ LandsAt(from, to, n) <= n - 1
BY DEF LandsAt

\* What irc_bot_rule_move makes of the list.
LEMMA MovedSeq ==
    ASSUME NEW S, NEW s \in Seq(S), NEW from \in Nat, from < Len(s),
           NEW at \in Nat, at <= Len(s) - 1
    PROVE  /\ Moved(s, from, at) \in Seq(S)
           /\ Len(Moved(s, from, at)) = Len(s)
           /\ DOMAIN Moved(s, from, at) = 1..Len(s)
           /\ \A k \in 1..Len(s) :
                Moved(s, from, at)[k] =
                    IF k = at + 1 THEN s[from + 1]
                    ELSE LET m == IF k <= at THEN k ELSE k - 1
                         IN  IF m <= from THEN s[m] ELSE s[m + 1]
<1> DEFINE w == Without(s, from)
<1>1. /\ w \in Seq(S) /\ Len(w) = Len(s) - 1
      /\ \A k \in 1..(Len(s) - 1) : w[k] = IF k <= from THEN s[k] ELSE s[k + 1]
  BY WithoutSeq
<1>2. s[from + 1] \in S /\ Len(s) \in Nat
  OBVIOUS
<1>3. /\ With(w, at, s[from + 1]) \in Seq(S)
      /\ Len(With(w, at, s[from + 1])) = Len(w) + 1
      /\ DOMAIN With(w, at, s[from + 1]) = 1..(Len(w) + 1)
      /\ \A k \in 1..(Len(w) + 1) :
           With(w, at, s[from + 1])[k] =
              IF k <= at THEN w[k] ELSE IF k = at + 1 THEN s[from + 1] ELSE w[k - 1]
  <2> DEFINE r == s[from + 1]
  <2>1. w \in Seq(S) /\ at <= Len(w) /\ r \in S
    BY <1>1, <1>2
  <2> HIDE DEF w, r
  <2>2. /\ With(w, at, r) \in Seq(S)
        /\ Len(With(w, at, r)) = Len(w) + 1
        /\ DOMAIN With(w, at, r) = 1..(Len(w) + 1)
        /\ \A k \in 1..(Len(w) + 1) :
             With(w, at, r)[k] =
                IF k <= at THEN w[k] ELSE IF k = at + 1 THEN r ELSE w[k - 1]
    <3>1. at \in Nat
      OBVIOUS
    <3>2. With(w, at, r) \in Seq(S)
      BY <2>1, <3>1, WithSeq
    <3>3. Len(With(w, at, r)) = Len(w) + 1
      BY <2>1, <3>1, WithSeq
    <3>4. DOMAIN With(w, at, r) = 1..(Len(w) + 1)
      BY <2>1, <3>1, WithSeq
    <3>5. ASSUME NEW k \in 1..(Len(w) + 1)
          PROVE  With(w, at, r)[k] =
                    IF k <= at THEN w[k] ELSE IF k = at + 1 THEN r ELSE w[k - 1]
      BY DEF With
    <3> QED
      BY <3>2, <3>3, <3>4, <3>5
  <2> QED
    BY <2>2 DEF r
<1>4. Moved(s, from, at) = With(w, at, s[from + 1])
  BY DEF Moved
<1>5. \A k \in 1..Len(s) : k # at + 1 =>
        (IF k <= at THEN k ELSE k - 1) \in 1..(Len(s) - 1)
  BY <1>2
<1> HIDE DEF w
<1> QED
  BY <1>1, <1>2, <1>3, <1>4, <1>5

-----------------------------------------------------------------------------
(* Types.                                                                  *)

\* Editing one rule leaves a list of rules.
LEMMA EditedRule ==
    ASSUME rules \in Seq(Rules), NEW i \in DOMAIN rules, NEW f \in Names,
           NEW list \in SUBSET Values, NEW a \in Actions
    PROVE  /\ [rules[i] EXCEPT !.crit[f] = list] \in Rules
           /\ [rules[i] EXCEPT !.action = a] \in Rules
           /\ [rules[i] EXCEPT !.crit[f] = list].id = rules[i].id
           /\ [rules[i] EXCEPT !.action = a].id = rules[i].id
<1>1. rules[i] \in Rules
  OBVIOUS
<1>2. rules[i].crit \in [Names -> SUBSET Values]
  BY <1>1 DEF Rules
<1>3. [rules[i].crit EXCEPT ![f] = list] \in [Names -> SUBSET Values]
  BY <1>2
<1> QED
  BY <1>1, <1>3 DEF Rules

\* rule_edit replaces one rule by one with the same identity.
LEMMA EditedList ==
    ASSUME rules \in Seq(Rules), NEW index \in Nat, NEW f \in Names,
           NEW v \in Values, rule_edit(index, f, v)
    PROVE  /\ rules' \in Seq(Rules) /\ DOMAIN rules' = DOMAIN rules
           /\ \A i \in DOMAIN rules : rules'[i].id = rules[i].id
<1>1. index + 1 \in DOMAIN rules
  BY DEF rule_edit
<1>0. rules[index + 1].crit[f] \in SUBSET Values
  <2>1. rules[index + 1] \in Rules
    BY <1>1
  <2> QED
    BY <2>1 DEF Rules
<1>2. PICK r \in Rules : r.id = rules[index + 1].id
                        /\ rules' = [rules EXCEPT ![index + 1] = r]
  <2>1. CASE rules' = [rules EXCEPT ![index + 1].crit[f] = list_add(@, v)]
    <3>1. list_add(rules[index + 1].crit[f], v) \in SUBSET Values
      BY <1>0 DEF list_add
    <3> QED
      BY <1>1, <2>1, <3>1, EditedRule DEF Actions
  <2>2. CASE rules' = [rules EXCEPT ![index + 1].crit[f] = list_remove(@, v)]
    <3>1. list_remove(rules[index + 1].crit[f], v) \in SUBSET Values
      BY <1>0 DEF list_remove
    <3> QED
      BY <1>1, <2>2, <3>1, EditedRule DEF Actions
  <2>3. ASSUME NEW a \in Actions, rules' = [rules EXCEPT ![index + 1].action = a]
        PROVE  \E r \in Rules : r.id = rules[index + 1].id
                                /\ rules' = [rules EXCEPT ![index + 1] = r]
    BY <1>1, <2>3, EditedRule
  <2> QED
    BY <2>1, <2>2, <2>3 DEF rule_edit
<1> QED
  BY <1>1, <1>2

\* The indexes of the operations are natural numbers.
LEMMA IndexesNat == \A i \in Indexes : i \in Nat
BY RuleAssumption DEF Indexes

\* Every operation keeps a list of rules and a well-formed history.
LEMMA TypeStep == TypeOK /\ [Next]_vars => TypeOK'
<1> SUFFICES ASSUME TypeOK, [Next]_vars PROVE TypeOK'
  OBVIOUS
<1>0. rules \in Seq(Rules) /\ Len(rules) \in Nat /\ owned \subseteq Ids
  BY DEF TypeOK
<1>1. ASSUME NEW r \in Rules, NEW index \in Indexes, irc_bot_rule_insert(r, index)
      PROVE  TypeOK'
  <2>1. InsertsAt(index, Len(rules)) \in Nat /\ InsertsAt(index, Len(rules)) <= Len(rules)
    BY <1>0, IndexesNat DEF InsertsAt, Smaller
  <2>2. rules' \in Seq(Rules)
    BY <1>0, <1>1, <2>1, WithSeq DEF irc_bot_rule_insert
  <2>3. r.id \in Ids
    BY DEF Rules
  <2> QED
    BY <1>0, <1>1, <2>2, <2>3 DEF TypeOK, irc_bot_rule_insert
<1>2. ASSUME NEW from \in Indexes, NEW to \in Indexes, irc_bot_rule_move(from, to)
      PROVE  TypeOK'
  <2> DEFINE at == LandsAt(from, to, Len(rules))
  <2>0. from \in Nat /\ to \in Nat /\ from < Len(rules)
    BY <1>2, IndexesNat DEF irc_bot_rule_move
  <2>1. at \in Nat /\ at <= Len(rules) - 1
    BY <1>0, <2>0, LandsInside
  <2> HIDE DEF at
  <2>2. Moved(rules, from, at) \in Seq(Rules)
    BY <1>0, <2>0, <2>1, MovedSeq
  <2>3. rules[from + 1].id \in Ids
    <3>1. rules[from + 1] \in Rules
      BY <1>0, <2>0
    <3> QED
      BY <3>1 DEF Rules
  <2> QED
    BY <1>0, <1>2, <2>2, <2>3 DEF TypeOK, irc_bot_rule_move, at
<1>3. ASSUME NEW index \in Indexes, irc_bot_rule_remove(index)
      PROVE  TypeOK'
  <2>1. rules' \in Seq(Rules)
    BY <1>0, <1>3, IndexesNat, WithoutSeq DEF irc_bot_rule_remove
  <2> QED
    BY <1>0, <1>3, <2>1 DEF TypeOK, irc_bot_rule_remove
<1>4. CASE irc_bot_rule_clear
  BY <1>4 DEF TypeOK, irc_bot_rule_clear
<1>5. ASSUME NEW index \in Indexes, NEW f \in Names, NEW v \in Values, rule_edit(index, f, v)
      PROVE  TypeOK'
  <2>1. rules' \in Seq(Rules)
    BY <1>0, <1>5, IndexesNat, EditedList
  <2> QED
    BY <1>0, <1>5, <2>1 DEF TypeOK, rule_edit
<1>6. CASE UNCHANGED vars
  BY <1>6 DEF TypeOK, vars
<1> QED
  BY <1>1, <1>2, <1>3, <1>4, <1>5, <1>6 DEF Next

\* The list is a list of rules, with criteria over the names alone, whatever is
\* inserted, moved, removed or edited.
THEOREM TypeCorrect == Spec => []TypeOK
<1>1. Init => TypeOK
  BY DEF Init, TypeOK
<1> QED
  BY <1>1, TypeStep, PTL DEF Spec

-----------------------------------------------------------------------------
(* Where each rule of the list comes from.                                 *)

\* The position a rule at position k had before DL_DELETE of index i.
BeforeRemoval(k, i) == IF k <= i THEN k ELSE k + 1

\* The position a rule at position k, other than the one inserted, had before
\* the insertion at index i.
BeforeInsertion(k, i) == IF k <= i THEN k ELSE k - 1

\* The position a rule at position k had before the rule of index from was moved
\* to index at.
BeforeMove(k, from, at) ==
    IF k = at + 1 THEN from + 1 ELSE BeforeRemoval(BeforeInsertion(k, at), from)

\* A move permutes the positions, and turns round no two others than the one moved.
LEMMA MovePermutes ==
    ASSUME NEW n \in Nat, NEW from \in Nat, from < n, NEW at \in Nat, at <= n - 1
    PROVE  /\ \A k \in 1..n : BeforeMove(k, from, at) \in 1..n
           /\ \A k, l \in 1..n : BeforeMove(k, from, at) = BeforeMove(l, from, at) => k = l
           /\ \A i \in 1..n : \E k \in 1..n : BeforeMove(k, from, at) = i
           /\ \A k, l \in 1..n :
                /\ BeforeMove(k, from, at) < BeforeMove(l, from, at)
                /\ BeforeMove(k, from, at) # from + 1 /\ BeforeMove(l, from, at) # from + 1
                => k < l
<1> USE DEF BeforeMove, BeforeInsertion, BeforeRemoval
<1>1. \A k \in 1..n : BeforeMove(k, from, at) \in 1..n
  OBVIOUS
<1>2. \A k, l \in 1..n : BeforeMove(k, from, at) = BeforeMove(l, from, at) => k = l
  OBVIOUS
<1>3. ASSUME NEW i \in 1..n PROVE \E k \in 1..n : BeforeMove(k, from, at) = i
  <2> DEFINE m == IF i <= from THEN i ELSE i - 1
             k == IF i = from + 1 THEN at + 1 ELSE IF m <= at THEN m ELSE m + 1
  <2>1. k \in 1..n
    OBVIOUS
  <2>2. BeforeMove(k, from, at) = i
    OBVIOUS
  <2> QED
    BY <2>1, <2>2
<1>4. \A k, l \in 1..n :
        /\ BeforeMove(k, from, at) < BeforeMove(l, from, at)
        /\ BeforeMove(k, from, at) # from + 1 /\ BeforeMove(l, from, at) # from + 1
        => k < l
  OBVIOUS
<1> QED
  BY <1>1, <1>2, <1>3, <1>4

\* The rules of the list after irc_bot_rule_move are those before, permuted.
LEMMA MoveStep ==
    ASSUME TypeOK, NEW from \in Indexes, NEW to \in Indexes, irc_bot_rule_move(from, to)
    PROVE  \E at \in Nat :
              /\ from \in Nat /\ from < Len(rules) /\ at <= Len(rules) - 1
              /\ Len(rules) \in Nat
              /\ DOMAIN rules = 1..Len(rules) /\ DOMAIN rules' = 1..Len(rules)
              /\ \A k \in 1..Len(rules) : rules'[k] = rules[BeforeMove(k, from, at)]
<1> DEFINE at == LandsAt(from, to, Len(rules))
<1>0. /\ from \in Nat /\ to \in Nat /\ from < Len(rules) /\ Len(rules) \in Nat
      /\ rules \in Seq(Rules) /\ DOMAIN rules = 1..Len(rules)
  BY IndexesNat DEF irc_bot_rule_move, TypeOK
<1>1. at \in Nat /\ at <= Len(rules) - 1
  BY <1>0, LandsInside
<1>2. rules' = Moved(rules, from, at)
  BY DEF irc_bot_rule_move
<1> HIDE DEF at
<1>3. /\ DOMAIN rules' = 1..Len(rules)
      /\ \A k \in 1..Len(rules) :
           rules'[k] = IF k = at + 1 THEN rules[from + 1]
                       ELSE LET m == IF k <= at THEN k ELSE k - 1
                            IN  IF m <= from THEN rules[m] ELSE rules[m + 1]
  BY <1>0, <1>1, <1>2, MovedSeq
<1>4. \A k \in 1..Len(rules) : rules'[k] = rules[BeforeMove(k, from, at)]
  BY <1>3 DEF BeforeMove, BeforeInsertion, BeforeRemoval
<1> QED
  BY <1>0, <1>1, <1>3, <1>4

\* The rules of the list after irc_bot_rule_remove are those before but one.
LEMMA RemoveStep ==
    ASSUME TypeOK, NEW index \in Indexes, irc_bot_rule_remove(index)
    PROVE  /\ index \in Nat /\ index < Len(rules) /\ Len(rules) \in Nat
           /\ DOMAIN rules = 1..Len(rules) /\ DOMAIN rules' = 1..(Len(rules) - 1)
           /\ \A k \in 1..(Len(rules) - 1) : rules'[k] = rules[BeforeRemoval(k, index)]
<1>0. /\ index \in Nat /\ index < Len(rules) /\ Len(rules) \in Nat
      /\ rules \in Seq(Rules) /\ DOMAIN rules = 1..Len(rules)
  BY IndexesNat DEF irc_bot_rule_remove, TypeOK
<1>1. rules' = Without(rules, index)
  BY DEF irc_bot_rule_remove
<1>2. /\ DOMAIN rules' = 1..(Len(rules) - 1)
      /\ \A k \in 1..(Len(rules) - 1) :
           rules'[k] = IF k <= index THEN rules[k] ELSE rules[k + 1]
  BY <1>0, <1>1, WithoutSeq
<1> QED
  BY <1>0, <1>2 DEF BeforeRemoval

\* The rules of the list after irc_bot_rule_insert are those before and the new one.
LEMMA InsertStep ==
    ASSUME TypeOK, NEW r \in Rules, NEW index \in Indexes, irc_bot_rule_insert(r, index)
    PROVE  \E at \in Nat :
              /\ at <= Len(rules) /\ at = Smaller(index, Len(rules)) /\ Len(rules) \in Nat
              /\ DOMAIN rules = 1..Len(rules)
              /\ Len(rules') = Len(rules) + 1 /\ DOMAIN rules' = 1..(Len(rules) + 1)
              /\ rules'[at + 1] = r
              /\ \A k \in 1..(Len(rules) + 1) : k # at + 1 =>
                    /\ BeforeInsertion(k, at) \in 1..Len(rules)
                    /\ rules'[k] = rules[BeforeInsertion(k, at)]
<1> DEFINE at == InsertsAt(index, Len(rules))
<1>0. /\ index \in Nat /\ Len(rules) \in Nat /\ rules \in Seq(Rules)
      /\ DOMAIN rules = 1..Len(rules)
  BY IndexesNat DEF TypeOK
<1>1. at \in Nat /\ at <= Len(rules) /\ at = Smaller(index, Len(rules))
  BY <1>0 DEF InsertsAt, Smaller
<1>2. rules' = With(rules, at, r)
  BY DEF irc_bot_rule_insert
<1> HIDE DEF at
<1>3. Len(rules') = Len(rules) + 1 /\ DOMAIN rules' = 1..(Len(rules) + 1)
  BY <1>0, <1>1, <1>2, WithSeq
<1>4. \A k \in 1..(Len(rules) + 1) :
        rules'[k] = IF k <= at THEN rules[k] ELSE IF k = at + 1 THEN r ELSE rules[k - 1]
  BY <1>2 DEF With
<1>5. at + 1 \in 1..(Len(rules) + 1) /\ ~(at + 1 <= at)
  BY <1>0, <1>1
<1>6. rules'[at + 1] = r
  BY <1>4, <1>5
<1>7. \A k \in 1..(Len(rules) + 1) : k # at + 1 =>
        /\ BeforeInsertion(k, at) \in 1..Len(rules)
        /\ rules'[k] = rules[BeforeInsertion(k, at)]
  BY <1>0, <1>1, <1>4 DEF BeforeInsertion
<1> QED
  BY <1>0, <1>1, <1>3, <1>6, <1>7

-----------------------------------------------------------------------------
(* No rule is lost, linked twice or put somewhere else.                    *)

\* RulesKept is inductive given the types.
LEMMA KeptStep == TypeOK /\ RulesKept /\ [Next]_vars => RulesKept'
<1> SUFFICES ASSUME TypeOK, RulesKept, [Next]_vars PROVE RulesKept'
  OBVIOUS
<1>0. /\ owned = {rules[i].id : i \in DOMAIN rules}
      /\ \A i, j \in DOMAIN rules : rules[i].id = rules[j].id => i = j
  BY DEF RulesKept
<1>1. ASSUME NEW r \in Rules, NEW index \in Indexes, irc_bot_rule_insert(r, index)
      PROVE  RulesKept'
  <2> DEFINE n == Len(rules)
  <2>1. PICK at \in Nat :
          /\ at <= n /\ n \in Nat /\ DOMAIN rules = 1..n /\ DOMAIN rules' = 1..(n + 1)
          /\ rules'[at + 1] = r
          /\ \A k \in 1..(n + 1) : k # at + 1 =>
                /\ BeforeInsertion(k, at) \in 1..n
                /\ rules'[k] = rules[BeforeInsertion(k, at)]
    BY <1>1, InsertStep
  <2>2. owned' = owned \cup {r.id} /\ r.id \notin owned
    BY <1>1 DEF irc_bot_rule_insert
  <2> HIDE DEF n
  <2>3. \A k \in 1..(n + 1) : k # at + 1 => rules'[k].id \in owned
    BY <1>0, <2>1
  <2>4. \A i \in 1..n : \E k \in 1..(n + 1) : k # at + 1 /\ BeforeInsertion(k, at) = i
    <3> TAKE i \in 1..n
    <3> DEFINE k == IF i <= at THEN i ELSE i + 1
    <3>1. k \in 1..(n + 1) /\ k # at + 1 /\ BeforeInsertion(k, at) = i
      BY <2>1 DEF BeforeInsertion
    <3> QED
      BY <3>1
  <2>5. at + 1 \in 1..(n + 1)
    BY <2>1
  <2>6. owned' = {rules'[k].id : k \in DOMAIN rules'}
    <3>1. ASSUME NEW y \in owned' PROVE \E k \in 1..(n + 1) : y = rules'[k].id
      <4>1. CASE y = r.id
        BY <2>1, <2>5, <4>1
      <4>2. CASE y \in owned
        <5>1. PICK i \in 1..n : y = rules[i].id
          BY <1>0, <2>1, <4>2
        <5> QED
          BY <2>1, <2>4, <5>1
      <4> QED
        BY <2>2, <4>1, <4>2
    <3>2. ASSUME NEW k \in 1..(n + 1) PROVE rules'[k].id \in owned'
      BY <2>1, <2>2, <2>3
    <3> QED
      BY <2>1, <3>1, <3>2
  <2>7. ASSUME NEW k \in 1..(n + 1), NEW l \in 1..(n + 1), rules'[k].id = rules'[l].id
        PROVE  k = l
    <3>1. CASE k = at + 1 \/ l = at + 1
      BY <2>1, <2>2, <2>3, <2>7, <3>1
    <3>2. CASE k # at + 1 /\ l # at + 1
      <4>1. BeforeInsertion(k, at) = BeforeInsertion(l, at)
        BY <1>0, <2>1, <2>7, <3>2
      <4> QED
        BY <2>1, <3>2, <4>1 DEF BeforeInsertion
    <3> QED
      BY <3>1, <3>2
  <2> QED
    BY <2>1, <2>6, <2>7 DEF RulesKept
<1>2. ASSUME NEW from \in Indexes, NEW to \in Indexes, irc_bot_rule_move(from, to)
      PROVE  RulesKept'
  <2> DEFINE n == Len(rules)
  <2>1. PICK at \in Nat :
          /\ from \in Nat /\ from < n /\ at <= n - 1 /\ n \in Nat
          /\ DOMAIN rules = 1..n /\ DOMAIN rules' = 1..n
          /\ \A k \in 1..n : rules'[k] = rules[BeforeMove(k, from, at)]
    BY <1>2, MoveStep
  <2>2. owned' = owned
    BY <1>2 DEF irc_bot_rule_move
  <2> HIDE DEF n
  <2>0. n \in Nat /\ from < n /\ at <= n - 1 /\ from \in Nat /\ at \in Nat
    BY <2>1
  <2>3. ASSUME NEW k \in 1..n
        PROVE  BeforeMove(k, from, at) \in 1..n /\ rules'[k] = rules[BeforeMove(k, from, at)]
    BY <2>0, <2>1, MovePermutes
  <2>4. owned' = {rules'[k].id : k \in DOMAIN rules'}
    <3>1. ASSUME NEW y \in owned PROVE \E k \in 1..n : y = rules'[k].id
      <4>1. PICK i \in 1..n : y = rules[i].id
        BY <1>0, <2>1
      <4>2. PICK k \in 1..n : BeforeMove(k, from, at) = i
        BY <2>0, MovePermutes
      <4> QED
        BY <2>3, <4>1, <4>2
    <3>2. ASSUME NEW k \in 1..n PROVE rules'[k].id \in owned
      BY <1>0, <2>1, <2>3
    <3> QED
      BY <2>1, <2>2, <3>1, <3>2
  <2>5. ASSUME NEW k \in 1..n, NEW l \in 1..n, rules'[k].id = rules'[l].id
        PROVE  k = l
    <3>1. BeforeMove(k, from, at) = BeforeMove(l, from, at)
      BY <1>0, <2>1, <2>3, <2>5
    <3> QED
      BY <2>0, <3>1 DEF BeforeMove, BeforeInsertion, BeforeRemoval
  <2> QED
    BY <2>1, <2>4, <2>5 DEF RulesKept
<1>3. ASSUME NEW index \in Indexes, irc_bot_rule_remove(index)
      PROVE  RulesKept'
  <2> DEFINE n == Len(rules)
  <2>1. /\ index \in Nat /\ index < n /\ n \in Nat
        /\ DOMAIN rules = 1..n /\ DOMAIN rules' = 1..(n - 1)
        /\ \A k \in 1..(n - 1) : rules'[k] = rules[BeforeRemoval(k, index)]
    BY <1>3, RemoveStep
  <2>2. owned' = owned \ {rules[index + 1].id}
    BY <1>3 DEF irc_bot_rule_remove
  <2> HIDE DEF n
  <2>3. /\ \A k \in 1..(n - 1) : BeforeRemoval(k, index) \in 1..n \ {index + 1}
        /\ \A k, l \in 1..(n - 1) : BeforeRemoval(k, index) = BeforeRemoval(l, index) => k = l
    BY <2>1 DEF BeforeRemoval
  <2>4. \A i \in 1..n : i # index + 1 =>
          \E k \in 1..(n - 1) : BeforeRemoval(k, index) = i
    <3> TAKE i \in 1..n
    <3> HAVE i # index + 1
    <3> DEFINE k == IF i <= index THEN i ELSE i - 1
    <3>1. k \in 1..(n - 1) /\ BeforeRemoval(k, index) = i
      BY <2>1 DEF BeforeRemoval
    <3> QED
      BY <3>1
  <2>5. \A i \in 1..n : i # index + 1 => rules[i].id # rules[index + 1].id
    BY <1>0, <2>1
  <2>6. owned' = {rules'[k].id : k \in DOMAIN rules'}
    <3>1. ASSUME NEW y \in owned' PROVE \E k \in 1..(n - 1) : y = rules'[k].id
      <4>1. PICK i \in 1..n : y = rules[i].id /\ i # index + 1
        BY <1>0, <2>1, <2>2
      <4> QED
        BY <2>1, <2>4, <4>1
    <3>2. ASSUME NEW k \in 1..(n - 1) PROVE rules'[k].id \in owned'
      BY <1>0, <2>1, <2>2, <2>3, <2>5
    <3> QED
      BY <2>1, <3>1, <3>2
  <2>7. \A k, l \in 1..(n - 1) : rules'[k].id = rules'[l].id => k = l
    BY <1>0, <2>1, <2>3
  <2> QED
    BY <2>1, <2>6, <2>7 DEF RulesKept
<1>4. CASE irc_bot_rule_clear
  BY <1>4 DEF RulesKept, irc_bot_rule_clear
<1>5. ASSUME NEW index \in Indexes, NEW f \in Names, NEW v \in Values, rule_edit(index, f, v)
      PROVE  RulesKept'
  <2>1. DOMAIN rules' = DOMAIN rules /\ \A i \in DOMAIN rules : rules'[i].id = rules[i].id
    BY <1>5, IndexesNat, EditedList DEF TypeOK
  <2>2. owned' = owned
    BY <1>5 DEF rule_edit
  <2> QED
    BY <1>0, <2>1, <2>2 DEF RulesKept
<1>6. CASE UNCHANGED vars
  BY <1>6 DEF RulesKept, vars
<1> QED
  BY <1>1, <1>2, <1>3, <1>4, <1>5, <1>6 DEF Next

\* No operation on the list loses a rule or links it twice, for any rules and any
\* indexes.
THEOREM NoRuleLost == Spec => []RulesKept
<1>1. Init => TypeOK /\ RulesKept
  BY DEF Init, TypeOK, RulesKept
<1>2. TypeOK /\ RulesKept /\ [Next]_vars => (TypeOK /\ RulesKept)'
  BY TypeStep, KeptStep
<1> QED
  BY <1>1, <1>2, PTL DEF Spec

-----------------------------------------------------------------------------
(* Order.                                                                  *)

\* What OrderKept says of a step and of the rule x it may move.
Unturned(x) ==
    \A i, j \in DOMAIN rules : \A k, l \in DOMAIN rules' :
        /\ i < j /\ rules[i].id # x /\ rules[j].id # x
        /\ rules'[k].id = rules[i].id /\ rules'[l].id = rules[j].id
        => k < l

\* A step turns round no two rules other than the one it moves.
LEMMA OrderStep == TypeOK /\ RulesKept /\ Next => \E x \in Ids : Unturned(x)
<1> SUFFICES ASSUME TypeOK, RulesKept, Next PROVE \E x \in Ids : Unturned(x)
  OBVIOUS
<1>0. \A i, j \in DOMAIN rules : rules[i].id = rules[j].id => i = j
  BY DEF RulesKept
<1>1. ASSUME NEW r \in Rules, NEW index \in Indexes, irc_bot_rule_insert(r, index)
      PROVE  r.id \in Ids /\ Unturned(r.id)
  <2> DEFINE n == Len(rules)
  <2>1. PICK at \in Nat :
          /\ at <= n /\ n \in Nat /\ DOMAIN rules = 1..n /\ DOMAIN rules' = 1..(n + 1)
          /\ rules'[at + 1] = r
          /\ \A k \in 1..(n + 1) : k # at + 1 =>
                /\ BeforeInsertion(k, at) \in 1..n
                /\ rules'[k] = rules[BeforeInsertion(k, at)]
    BY <1>1, InsertStep
  <2>2. r.id \in Ids
    BY DEF Rules
  <2> HIDE DEF n
  <2>3. ASSUME NEW i \in 1..n, NEW j \in 1..n, NEW k \in 1..(n + 1), NEW l \in 1..(n + 1),
               i < j, rules[i].id # r.id, rules[j].id # r.id,
               rules'[k].id = rules[i].id, rules'[l].id = rules[j].id
        PROVE  k < l
    <3>1. k # at + 1 /\ l # at + 1
      BY <2>1, <2>3
    <3>2. BeforeInsertion(k, at) = i /\ BeforeInsertion(l, at) = j
      BY <1>0, <2>1, <2>3, <3>1
    <3> QED
      BY <2>1, <2>3, <3>1, <3>2 DEF BeforeInsertion
  <2> QED
    BY <2>1, <2>2, <2>3 DEF Unturned
<1>2. ASSUME NEW from \in Indexes, NEW to \in Indexes, irc_bot_rule_move(from, to)
      PROVE  rules[from + 1].id \in Ids /\ Unturned(rules[from + 1].id)
  <2> DEFINE n == Len(rules)
  <2>1. PICK at \in Nat :
          /\ from \in Nat /\ from < n /\ at <= n - 1 /\ n \in Nat
          /\ DOMAIN rules = 1..n /\ DOMAIN rules' = 1..n
          /\ \A k \in 1..n : rules'[k] = rules[BeforeMove(k, from, at)]
    BY <1>2, MoveStep
  <2>2. rules[from + 1].id \in Ids
    <3>1. rules[from + 1] \in Rules
      BY <2>1 DEF TypeOK
    <3> QED
      BY <3>1 DEF Rules
  <2> HIDE DEF n
  <2>0. n \in Nat /\ from < n /\ at <= n - 1 /\ from \in Nat /\ at \in Nat
    BY <2>1
  <2>3. ASSUME NEW i \in 1..n, NEW j \in 1..n, NEW k \in 1..n, NEW l \in 1..n,
               i < j, rules[i].id # rules[from + 1].id, rules[j].id # rules[from + 1].id,
               rules'[k].id = rules[i].id, rules'[l].id = rules[j].id
        PROVE  k < l
    <3>1. BeforeMove(k, from, at) \in 1..n /\ BeforeMove(l, from, at) \in 1..n
      BY <2>0, MovePermutes
    <3>2. BeforeMove(k, from, at) = i /\ BeforeMove(l, from, at) = j
      BY <1>0, <2>1, <2>3, <3>1
    <3>3. i # from + 1 /\ j # from + 1
      BY <2>3
    <3> QED
      BY <2>0, <2>3, <3>2, <3>3 DEF BeforeMove, BeforeInsertion, BeforeRemoval
  <2> QED
    BY <2>1, <2>2, <2>3 DEF Unturned
<1>3. ASSUME NEW index \in Indexes, irc_bot_rule_remove(index)
      PROVE  rules[index + 1].id \in Ids /\ Unturned(rules[index + 1].id)
  <2> DEFINE n == Len(rules)
  <2>1. /\ index \in Nat /\ index < n /\ n \in Nat
        /\ DOMAIN rules = 1..n /\ DOMAIN rules' = 1..(n - 1)
        /\ \A k \in 1..(n - 1) : rules'[k] = rules[BeforeRemoval(k, index)]
    BY <1>3, RemoveStep
  <2>2. rules[index + 1].id \in Ids
    <3>1. rules[index + 1] \in Rules
      BY <2>1 DEF TypeOK
    <3> QED
      BY <3>1 DEF Rules
  <2> HIDE DEF n
  <2>3. ASSUME NEW i \in 1..n, NEW j \in 1..n, NEW k \in 1..(n - 1), NEW l \in 1..(n - 1),
               i < j, rules'[k].id = rules[i].id, rules'[l].id = rules[j].id
        PROVE  k < l
    <3>1. BeforeRemoval(k, index) \in 1..n /\ BeforeRemoval(l, index) \in 1..n
      BY <2>1 DEF BeforeRemoval
    <3>2. BeforeRemoval(k, index) = i /\ BeforeRemoval(l, index) = j
      BY <1>0, <2>1, <2>3, <3>1
    <3> QED
      BY <2>1, <2>3, <3>2 DEF BeforeRemoval
  <2> QED
    BY <2>1, <2>2, <2>3 DEF Unturned
<1>4. ASSUME irc_bot_rule_clear, NEW x \in Ids PROVE Unturned(x)
  BY <1>4 DEF irc_bot_rule_clear, Unturned
<1>5. ASSUME NEW index \in Indexes, NEW f \in Names, NEW v \in Values,
             rule_edit(index, f, v), NEW x \in Ids
      PROVE  Unturned(x)
  <2>1. DOMAIN rules' = DOMAIN rules /\ \A i \in DOMAIN rules : rules'[i].id = rules[i].id
    BY <1>5, IndexesNat, EditedList DEF TypeOK
  <2> QED
    BY <1>0, <2>1 DEF Unturned
<1>6. CASE irc_bot_rule_clear
  BY <1>4, <1>6, RuleAssumption
<1>7. ASSUME NEW index \in Indexes, NEW f \in Names, NEW v \in Values, rule_edit(index, f, v)
      PROVE  \E x \in Ids : Unturned(x)
  BY <1>5, <1>7, RuleAssumption
<1> QED
  BY <1>1, <1>2, <1>3, <1>6, <1>7 DEF Next

\* Every operation on the list keeps the order of all rules but the one it is
\* about, so that no rule comes to be overridden by another by chance.
THEOREM OrderAlwaysKept == Spec => OrderKept
<1>1. Init => TypeOK /\ RulesKept
  BY DEF Init, TypeOK, RulesKept
<1>2. TypeOK /\ RulesKept /\ [Next]_vars => (TypeOK /\ RulesKept)'
  BY TypeStep, KeptStep
<1>3. TypeOK /\ RulesKept /\ [Next]_vars =>
        [\E x \in Ids :
            \A i, j \in DOMAIN rules : \A k, l \in DOMAIN rules' :
                /\ i < j /\ rules[i].id # x /\ rules[j].id # x
                /\ rules'[k].id = rules[i].id /\ rules'[l].id = rules[j].id
                => k < l]_vars
  BY OrderStep DEF Unturned
<1> QED
  BY <1>1, <1>2, <1>3, PTL DEF Spec, OrderKept

-----------------------------------------------------------------------------
(* Position.                                                               *)

\* irc_bot_rule_insert puts the rule at the index asked for, or at the end, in
\* a list of any length.
THEOREM InsertionsPlaced == Spec => []InsertedWhereAsked
<1>1. Init => TypeOK /\ InsertedWhereAsked
  BY DEF Init, TypeOK, InsertedWhereAsked, Nothing
<1>2. ASSUME TypeOK, InsertedWhereAsked, [Next]_vars PROVE InsertedWhereAsked'
  <2>1. ASSUME NEW r \in Rules, NEW index \in Indexes, irc_bot_rule_insert(r, index)
        PROVE  InsertedWhereAsked'
    <3>1. PICK at \in Nat :
            /\ at = Smaller(index, Len(rules)) /\ Len(rules) \in Nat
            /\ Len(rules') = Len(rules) + 1 /\ rules'[at + 1] = r
      BY <1>2, <2>1, InsertStep
    <3>2. Len(rules') - 1 = Len(rules)
      BY <3>1
    <3>3. placed'.to = index /\ placed'.id = r.id
      BY <2>1 DEF irc_bot_rule_insert
    <3>4. rules'[Smaller(placed'.to, Len(rules') - 1) + 1].id = placed'.id
      BY <3>1, <3>2, <3>3
    <3> QED
      BY <3>4 DEF InsertedWhereAsked, Smaller
  <2>2. ASSUME placed'.op # "insert" PROVE InsertedWhereAsked'
    BY <2>2 DEF InsertedWhereAsked
  <2>3. ASSUME NEW from \in Indexes, NEW to \in Indexes, irc_bot_rule_move(from, to)
        PROVE  placed'.op # "insert"
    BY <2>3 DEF irc_bot_rule_move
  <2>4. ASSUME NEW index \in Indexes, irc_bot_rule_remove(index)
        PROVE  placed'.op # "insert"
    BY <2>4 DEF irc_bot_rule_remove, Nothing
  <2>5. ASSUME irc_bot_rule_clear PROVE placed'.op # "insert"
    BY <2>5 DEF irc_bot_rule_clear, Nothing
  <2>6. ASSUME NEW index \in Indexes, NEW f \in Names, NEW v \in Values, rule_edit(index, f, v)
        PROVE  placed'.op # "insert"
    BY <2>6 DEF rule_edit, Nothing
  <2>7. CASE UNCHANGED vars
    BY <1>2, <2>7 DEF InsertedWhereAsked, vars
  <2> QED
    BY <1>2, <2>1, <2>2, <2>3, <2>4, <2>5, <2>6, <2>7 DEF Next
<1>3. TypeOK /\ InsertedWhereAsked /\ [Next]_vars => (TypeOK /\ InsertedWhereAsked)'
  BY <1>2, TypeStep
<1> QED
  BY <1>1, <1>3, PTL DEF Spec

-----------------------------------------------------------------------------
(* Induction over the places of a list.                                    *)

\* A set of numbers that is not empty has a least one.
LEMMA LeastOne ==
    ASSUME NEW T \in SUBSET Nat, T # {}
    PROVE  \E x \in T : \A y \in T : x <= y
<1>1. \E x \in T : \A y \in T : ~(<<y, x>> \in OpToRel(<, Nat))
  BY WFMin, NatLessThanWellFounded
<1>2. \A x, y \in T : ~(<<y, x>> \in OpToRel(<, Nat)) => x <= y
  <2> TAKE x, y \in T
  <2>1. x \in Nat /\ y \in Nat /\ <<y, x>> \in Nat \X Nat
    OBVIOUS
  <2>2. y < x => <<y, x>> \in OpToRel(<, Nat)
    BY <2>1 DEF OpToRel
  <2>3. ~(<<y, x>> \in OpToRel(<, Nat)) => ~(y < x)
    BY <2>2, Zenon
  <2>4. ~(y < x) => x <= y
    BY <2>1
  <2> QED
    BY <2>3, <2>4, Zenon
<1> QED
  BY <1>1, <1>2, Zenon

\* Induction over the places of a list, with a set in the place of a predicate.
LEMMA Upwards ==
    ASSUME NEW N \in Nat, NEW T, 0 \in T, \A n \in 1..N : n - 1 \in T => n \in T
    PROVE  \A n \in 0..N : n \in T
<1> DEFINE Rest == {n \in 0..N : n \notin T}
<1> SUFFICES ASSUME Rest # {} PROVE FALSE
  OBVIOUS
<1>1. PICK x \in Rest : \A y \in Rest : x <= y
  <2>1. Rest \in SUBSET Nat
    OBVIOUS
  <2> HIDE DEF Rest
  <2> QED
    BY <2>1, LeastOne
<1>2. x \in 1..N /\ x - 1 \in 0..N /\ ~(x <= x - 1)
  BY <1>1
<1>3. x - 1 \in T
  BY <1>1, <1>2
<1> QED
  BY <1>1, <1>2, <1>3

-----------------------------------------------------------------------------
(* Deciding.                                                               *)

\* The rules among the first n of s that match, and what the last of them says.
Hits(s, ev, n) == {i \in 1..n : irc_rule_match(s[i], ev)}
LastSays(s, ev, n) ==
    \A i \in Hits(s, ev, n) :
        (\A k \in Hits(s, ev, n) : k <= i) => s[i].action = "accept"

\* The loop in the form of its equation.
Loops(f, s, ev) ==
    f = [n \in 0..Len(s) |->
            IF n = 0 THEN TRUE
            ELSE IF irc_rule_match(s[n], ev) THEN s[n].action = "accept" ELSE f[n - 1]]

LEMMA LastSaysLoops ==
    ASSUME NEW s, NEW ev, Len(s) \in Nat
    PROVE  Loops([n \in 0..Len(s) |-> LastSays(s, ev, n)], s, ev)
<1> DEFINE g == [n \in 0..Len(s) |-> LastSays(s, ev, n)]
<1> SUFFICES ASSUME NEW n \in 0..Len(s)
             PROVE  g[n] = IF n = 0 THEN TRUE
                           ELSE IF irc_rule_match(s[n], ev) THEN s[n].action = "accept" ELSE g[n - 1]
  BY Zenon DEF Loops
<1>1. CASE n = 0
  <2>1. Hits(s, ev, 0) = {}
    BY DEF Hits
  <2>2. LastSays(s, ev, 0) = TRUE
    BY <2>1, Zenon DEF LastSays
  <2> QED
    BY <1>1, <2>2
<1>2. CASE n # 0 /\ irc_rule_match(s[n], ev)
  <2>1. n \in Hits(s, ev, n) /\ \A i \in Hits(s, ev, n) : i <= n /\ (n <= i => i = n)
    BY <1>2 DEF Hits
  <2>2. LastSays(s, ev, n) = (s[n].action = "accept")
    BY <2>1, Zenon DEF LastSays
  <2> QED
    BY <1>2, <2>2, Zenon
<1>3. CASE n # 0 /\ ~irc_rule_match(s[n], ev)
  <2>1. n - 1 \in 0..Len(s) /\ \A i : i \in 1..n <=> i \in 1..n - 1 \/ i = n
    BY <1>3
  <2>2. Hits(s, ev, n) = Hits(s, ev, n - 1)
    BY <1>3, <2>1, Zenon DEF Hits
  <2>3. g[n] = g[n - 1]
    BY <2>1, <2>2, Zenon DEF LastSays
  <2> QED
    BY <1>3, <2>3, Zenon
<1> QED
  BY <1>1, <1>2, <1>3, Zenon

\* The equation has one solution.
LEMMA LoopsOnce ==
    ASSUME NEW s, NEW ev, Len(s) \in Nat, NEW f, NEW g, Loops(f, s, ev), Loops(g, s, ev)
    PROVE  f[Len(s)] = g[Len(s)]
<1> DEFINE T == {n \in 0..Len(s) : f[n] = g[n]}
<1>0. \A n \in 0..Len(s) :
        /\ f[n] = IF n = 0 THEN TRUE
                  ELSE IF irc_rule_match(s[n], ev) THEN s[n].action = "accept" ELSE f[n - 1]
        /\ g[n] = IF n = 0 THEN TRUE
                  ELSE IF irc_rule_match(s[n], ev) THEN s[n].action = "accept" ELSE g[n - 1]
  BY Zenon DEF Loops
<1>1. 0 \in T
  <2>1. 0 \in 0..Len(s)
    OBVIOUS
  <2> QED
    BY <1>0, <2>1, Zenon
<1>2. ASSUME NEW n \in 1..Len(s), n - 1 \in T PROVE n \in T
  <2>1. n \in 0..Len(s) /\ n # 0
    OBVIOUS
  <2> QED
    BY <1>0, <1>2, <2>1, Zenon
<1>3. \A n \in 0..Len(s) : n \in T
  <2> HIDE DEF T
  <2> QED
    BY <1>1, <1>2, Upwards
<1> QED
  BY <1>3

\* irc_rule_matchlist is what the last rule that matches says.
LEMMA LastDecides ==
    ASSUME NEW s, NEW ev, Len(s) \in Nat
    PROVE  irc_rule_matchlist(s, ev) = LastSays(s, ev, Len(s))
<1> DEFINE g == [n \in 0..Len(s) |-> LastSays(s, ev, n)]
           f == CHOOSE h : Loops(h, s, ev)
<1>1. Loops(g, s, ev)
  BY LastSaysLoops
<1>2. Loops(f, s, ev)
  BY <1>1, Zenon
<1>3. irc_rule_matchlist(s, ev) = f[Len(s)]
  BY Zenon DEF irc_rule_matchlist, Loops
<1>4. f[Len(s)] = g[Len(s)]
  <2> HIDE DEF f, g
  <2> QED
    BY <1>1, <1>2, LoopsOnce
<1>5. g[Len(s)] = LastSays(s, ev, Len(s))
  OBVIOUS
<1> QED
  BY <1>3, <1>4, <1>5, Zenon

\* However a list was made, the last of its rules that matches an event decides.
THEOREM LastMatchAlwaysDecides == Spec => []LastMatchDecides
<1>1. TypeOK => LastMatchDecides
  <2> SUFFICES ASSUME TypeOK, NEW ev \in Events
               PROVE  irc_rule_matchlist(rules, ev) <=>
                        LET hits == {i \in DOMAIN rules : irc_rule_match(rules[i], ev)}
                        IN  \A i \in hits : (\A k \in hits : k <= i) => rules[i].action = "accept"
    BY Zenon DEF LastMatchDecides
  <2>1. Len(rules) \in Nat /\ DOMAIN rules = 1..Len(rules)
    BY LenProperties DEF TypeOK
  <2>2. irc_rule_matchlist(rules, ev) = LastSays(rules, ev, Len(rules))
    BY <2>1, LastDecides
  <2> QED
    BY <2>1, <2>2, Zenon DEF LastSays, Hits
<1> QED
  BY <1>1, TypeCorrect, PTL
=============================================================================
