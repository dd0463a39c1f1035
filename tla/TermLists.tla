----------------------------- MODULE TermLists -----------------------------
(***************************************************************************)
(* What the connectivity of a block promises: each net has a list of its   *)
(* instance terminals and one of its block terminals, a terminal is on at  *)
(* most one list, and the terminal connected last is the first of its      *)
(* list.                                                                   *)
(***************************************************************************)
EXTENDS Integers, Sequences

CONSTANTS Terms, Lists

VARIABLE members     \* the terminals of every list

\* The list s without terminal t, which is on it once or not at all.
Without(s, t) ==
  IF \A i \in DOMAIN s : s[i] # t THEN s
  ELSE LET i == CHOOSE j \in DOMAIN s : s[j] = t
       IN SubSeq(s, 1, i - 1) \o SubSeq(s, i + 1, Len(s))

Init == members = [s \in Lists |-> << >>]

\* t is taken off the list it is on, if any, and put first on list s.
Connect(t, s) ==
  /\ DOMAIN members' = Lists
  /\ members'[s] = <<t>> \o Without(members[s], t)
  /\ \A r \in Lists \ {s} : members'[r] = Without(members[r], t)

\* t is taken off its list.
Disconnect(t) ==
  /\ DOMAIN members' = Lists
  /\ \A r \in Lists : members'[r] = Without(members[r], t)

Next == \E t \in Terms : Disconnect(t) \/ \E s \in Lists : Connect(t, s)

Spec == Init /\ [][Next]_members
=============================================================================
