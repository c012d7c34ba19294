--------------------------- MODULE RouterUseProofs ---------------------------
(***************************************************************************)
(* round_robin() loads the partitions evenly, for any number of partitions *)
(* and any interleaving with key_route(). Balanced is not inductive: it    *)
(* does not say whose turn is next. RoundUnderWay does.                    *)
(***************************************************************************)
EXTENDS RouterUse, TLAPS

RouterInv == TypeOK /\ RoundUnderWay

\* round_robin() goes from one partition to the next and from the last to 0.
LEMMA RoundRobinStep ==
    ASSUME NEW l \in Parts
    PROVE  round_robin(l, NumPartitions) = IF l = NumPartitions - 1 THEN 0 ELSE l + 1
BY RouterUseAssumption DEF round_robin, Parts

\* No message yet: all partitions are level, and a round is complete.
LEMMA RouterInitInv == Init => RouterInv
BY RouterUseAssumption DEF Init, RouterInv, TypeOK, RoundUnderWay, FirstLast, Parts

\* round_robin() completes one partition of the round after the other.
LEMMA RouterStepInv == RouterInv /\ [Next]_vars => RouterInv'
<1> SUFFICES ASSUME RouterInv, [Next]_vars PROVE RouterInv'
  OBVIOUS
<1>1. CASE Select
  <2> DEFINE p == round_robin(last, NumPartitions)
  <2>1. p = IF last = NumPartitions - 1 THEN 0 ELSE last + 1
    BY RoundRobinStep DEF RouterInv, TypeOK
  <2>2. p \in Parts /\ last' = p /\ counts' = [counts EXCEPT ![p] = @ + 1] /\ keyed' = keyed
    BY <1>1, <2>1, RouterUseAssumption DEF Select, RouterInv, TypeOK, Parts
  <2>3. TypeOK'
    BY <2>2 DEF RouterInv, TypeOK
  <2>4. RoundUnderWay'
    <3>1. SUFFICES ASSUME NEW q \in Parts
                   PROVE  counts'[q] = counts'[p] + (IF q > p THEN -1 ELSE 0)
      BY <2>2 DEF RoundUnderWay
    <3>2. /\ counts[q] = counts[last] + (IF q > last THEN -1 ELSE 0)
          /\ counts[p] = counts[last] + (IF p > last THEN -1 ELSE 0)
          /\ last \in Parts /\ counts[q] \in Nat /\ counts[p] \in Nat /\ counts[last] \in Nat
      BY <2>2 DEF RouterInv, TypeOK, RoundUnderWay
    <3>3. /\ counts'[p] = counts[p] + 1
          /\ q # p => counts'[q] = counts[q]
      BY <2>2 DEF RouterInv, TypeOK
    <3>4. p \in Nat /\ q \in Nat /\ last \in Nat /\ q <= NumPartitions - 1
          /\ last <= NumPartitions - 1 /\ NumPartitions \in Nat \ {0}
      BY <2>2, <3>2, RouterUseAssumption DEF Parts
    <3> HIDE DEF p
    <3> QED
      BY <2>1, <3>2, <3>3, <3>4
  <2> QED
    BY <2>3, <2>4 DEF RouterInv
<1>2. ASSUME NEW h \in Hashes, SelectForKey(h) PROVE RouterInv'
  <2>1. key_route(h, NumPartitions) \in Parts
    BY RouterUseAssumption DEF key_route, Parts
  <2> QED
    BY <1>2, <2>1 DEF SelectForKey, RouterInv, TypeOK, RoundUnderWay
<1>3. CASE UNCHANGED vars
  BY <1>3 DEF vars, RouterInv, TypeOK, RoundUnderWay
<1> QED
  BY <1>1, <1>2, <1>3 DEF Next

\* Every reachable state has the types of TypeOK: round_robin() always leaves its
\* counter at a partition, also after the wrap-around, and counts only go up.
THEOREM RouterTypeOK == Spec => []TypeOK
<1>1. RouterInv => TypeOK
  BY DEF RouterInv
<1> QED
  BY RouterInitInv, RouterStepInv, <1>1, PTL DEF Spec

\* The partitions up to the counter are one message ahead of the others: whatever
\* keyed messages come in between, round_robin() goes on where it was.
THEOREM RouterRoundUnderWay == Spec => []RoundUnderWay
<1>1. RouterInv => RoundUnderWay
  BY DEF RouterInv
<1> QED
  BY RouterInitInv, RouterStepInv, <1>1, PTL DEF Spec

\* No partition is ever more than one round_robin() message ahead of another.
THEOREM RouterBalanced == Spec => []Balanced
<1>1. RouterInv => Balanced
  BY DEF RouterInv, TypeOK, RoundUnderWay, Balanced
<1> QED
  BY RouterInitInv, RouterStepInv, <1>1, PTL DEF Spec
=============================================================================
