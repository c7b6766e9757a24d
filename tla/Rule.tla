-------------------------------- MODULE Rule --------------------------------
(***************************************************************************)
(* The rules of the bot: the criteria of one rule and how a list of rules  *)
(* decides on an event (lib/irccd/rule.c), and the operations on the list  *)
(* (lib/irccd/irccd.c) that the configuration, irccdctl and Irccd.Rule of  *)
(* the JavaScript API use.                                                 *)
(*                                                                         *)
(* A rule is its identity (its address), its action and, for each field,   *)
(* the set of accepted values; NULL lists and emptied lists are the empty  *)
(* set.  Names are compared without case, so a value stands for all its    *)
(* spellings.  An event gives each field a value or NULL.                  *)
(***************************************************************************)
EXTENDS Naturals, Sequences

CONSTANTS
    Ids,        \* identities of rules
    Fields,     \* the criteria, in the order irc_rule_match tests them
    Optional,   \* the criteria some events do not have: channel and origin
    Values,     \* names of servers, channels, origins, plugins, events
    Unlisted,   \* a name no rule lists
    NULL,       \* what an event without the field passes
    MaxIndex    \* bound: indexes given to the operations on the list

ASSUME RuleAssumption ==
    /\ Ids # {} /\ Fields \in Seq(STRING)
    /\ NULL \notin Values \cup {Unlisted} /\ Unlisted \notin Values
    /\ MaxIndex \in Nat

Names   == {Fields[i] : i \in DOMAIN Fields}
Actions == {"accept", "drop"}
Rules   == [id : Ids, action : Actions, crit : [Names -> SUBSET Values]]
Indexes == 0..MaxIndex
Events  == {ev \in [Names -> Values \cup {Unlisted, NULL}] :
                \A f \in Names \ Optional : ev[f] # NULL}

VARIABLES
    rules,      \* bot.rules
    owned,      \* history: identities inserted and not removed since
    placed      \* history: what the last step put where, if it was to put a rule

vars == <<rules, owned, placed>>

-----------------------------------------------------------------------------
(* rule.c                                                                  *)

list_match(list, value) == list = {} \/ value \in list

irc_rule_match(r, ev) == \A f \in Names : list_match(r.crit[f], ev[f])

\* strcasecmp(3) of a listed name with NULL: reached when the criteria tested
\* before this one match.
NullCompared(r, ev) ==
    \E i \in DOMAIN Fields :
        /\ r.crit[Fields[i]] # {} /\ ev[Fields[i]] = NULL
        /\ \A k \in 1..(i - 1) : list_match(r.crit[Fields[k]], ev[Fields[k]])

\* The loop of irc_rule_matchlist after its first n rules.
DropSticks(s, ev) ==
    LET result[n \in 0..Len(s)] ==
            IF n = 0 THEN TRUE
            ELSE IF irc_rule_match(s[n], ev) /\ result[n - 1]
                 THEN s[n].action = "accept" ELSE result[n - 1]
    IN  result[Len(s)]
irc_rule_matchlist(s, ev) ==
    LET result[n \in 0..Len(s)] ==
            IF n = 0 THEN TRUE
            ELSE IF irc_rule_match(s[n], ev) THEN s[n].action = "accept" ELSE result[n - 1]
    IN  result[Len(s)]

-----------------------------------------------------------------------------
(* The list.  Indexes count from 0, as in the code.                        *)

Smaller(a, b) == IF a < b THEN a ELSE b

\* DL_DELETE of the rule at index i.
Without(s, i) ==
    [k \in 1..(Len(s) - 1) |-> IF k <= i THEN s[k] ELSE s[k + 1]]

\* DL_PREPEND, DL_APPEND_ELEM or DL_APPEND, so that r has index i.
With(s, i, r) ==
    [k \in 1..(Len(s) + 1) |-> IF k <= i THEN s[k] ELSE IF k = i + 1 THEN r ELSE s[k - 1]]

\* Where irc_bot_rule_insert puts a rule into a list of n.
InsertsBefore(index, n) == IF index = 0 \/ n = 0 THEN 0 ELSE Smaller(index, n) - 1
InsertsAt(index, n) == Smaller(index, n)

\* Where irc_bot_rule_move puts the rule in a list of n.  The walk to the
\* destination t begins at the head the list had before the rule was taken out:
\* at the rule itself, which still points to its successor, when it was the
\* head.  The rule goes behind t, or to the end when t is NULL.
LandsAt(from, to, n) ==
    LET t == IF from = 0 THEN to - 1 ELSE to
    IN  IF to = 0 THEN 0 ELSE IF t < n - 1 THEN t + 1 ELSE n - 1

Nothing == [op |-> "none"]

irc_bot_rule_insert(r, index) ==
    /\ r.id \notin owned
    /\ rules' = With(rules, InsertsAt(index, Len(rules)), r)
    /\ owned' = owned \cup {r.id}
    /\ placed' = [op |-> "insert", id |-> r.id, to |-> index]

LoseMoved(s, from, at) == Without(s, from)
SwapMoved(s, from, at) == [s EXCEPT ![from + 1] = s[at + 1], ![at + 1] = s[from + 1]]
Moved(s, from, at) == With(Without(s, from), at, s[from + 1])

irc_bot_rule_move(from, to) ==
    /\ from < Len(rules) /\ from # to
    /\ rules' = Moved(rules, from, LandsAt(from, to, Len(rules)))
    /\ placed' = [op |-> "move", id |-> rules[from + 1].id, to |-> to]
    /\ UNCHANGED owned

irc_bot_rule_remove(index) ==
    /\ index < Len(rules)
    /\ rules' = Without(rules, index)
    /\ owned' = owned \ {rules[index + 1].id}
    /\ placed' = Nothing

irc_bot_rule_clear ==
    /\ rules' = <<>> /\ owned' = {}
    /\ placed' = Nothing

\* irc_rule_add_server and the like, irc_rule_remove_server and the like, and
\* the action of rule-edit: irc_bot_rule_get, then one field changes.
list_add(list, v) == list \cup {v}
list_remove(list, v) == list \ {v}

rule_edit(index, f, v) ==
    /\ index < Len(rules)
    /\ \/ rules' = [rules EXCEPT ![index + 1].crit[f] = list_add(@, v)]
       \/ rules' = [rules EXCEPT ![index + 1].crit[f] = list_remove(@, v)]
       \/ \E a \in Actions : rules' = [rules EXCEPT ![index + 1].action = a]
    /\ placed' = Nothing /\ UNCHANGED owned

-----------------------------------------------------------------------------
Init == rules = <<>> /\ owned = {} /\ placed = Nothing

Next ==
    \/ \E r \in Rules, index \in Indexes : irc_bot_rule_insert(r, index)
    \/ \E from, to \in Indexes : irc_bot_rule_move(from, to)
    \/ \E index \in Indexes : irc_bot_rule_remove(index)
    \/ irc_bot_rule_clear
    \/ \E index \in Indexes, f \in Names, v \in Values : rule_edit(index, f, v)

Spec == Init /\ [][Next]_vars
-----------------------------------------------------------------------------
(* Properties.                                                             *)

TypeOK ==
    /\ rules \in Seq(Rules) /\ owned \subseteq Ids
    /\ placed = Nothing \/ placed \in [op : {"insert", "move"}, id : Ids, to : Indexes]

\* No operation loses a rule or links it twice: the list holds every rule that
\* was inserted and not removed, once.
RulesKept ==
    /\ owned = {rules[i].id : i \in DOMAIN rules}
    /\ \A i, j \in DOMAIN rules : rules[i].id = rules[j].id => i = j

\* "Because rules are evaluated in the order they are defined, you can override
\* rules": the last rule that matches decides, and an event none matches is
\* accepted, whatever the events and however the list was made.  Events for which
\* a rule compares NULL end the process.
LastMatchDecides ==
    \A ev \in {e \in Events : \A i \in DOMAIN rules : ~NullCompared(rules[i], e)} :
        LET hits == {i \in DOMAIN rules : irc_rule_match(rules[i], ev)}
        IN  irc_rule_matchlist(rules, ev) <=>
                \A i \in hits : (\A k \in hits : k <= i) => rules[i].action = "accept"

\* irccd.h, irc_bot_rule_insert: the rule is registered at the given index, or
\* at the end if the position is greater than the number of rules.
InsertedWhereAsked ==
    placed.op = "insert" => rules[Smaller(placed.to, Len(rules) - 1) + 1].id = placed.id

\* Whatever is inserted, moved, removed or edited, the rules that stay keep their
\* order, but for one, the one that moves: no override is turned round by chance.
OrderKept ==
    [][\E x \in Ids :
         \A i, j \in DOMAIN rules : \A k, l \in DOMAIN rules' :
            /\ i < j /\ rules[i].id # x /\ rules[j].id # x
            /\ rules'[k].id = rules[i].id /\ rules'[l].id = rules[j].id
            => k < l]_vars
=============================================================================
