-------------------------- MODULE NotificationsProofs --------------------------
(***************************************************************************)
(* Proofs about Notifications, for any number of rows, agents and scanning *)
(* threads, page size and budget.                                          *)
(***************************************************************************)
EXTENDS Notifications, FiniteSetTheorems, WellFoundedInduction, TLAPS

\* The natural numbers are well ordered.
LEMMA LeastExists ==
    ASSUME NEW T, T \subseteq Nat, T # {}
    PROVE  \E x \in T : \A y \in T : x <= y
<1>1. PICK x \in T : \A y \in T : <<y, x>> \notin OpToRel(<, Nat)
  BY WFMin, NatLessThanWellFounded, Zenon
<1>2. ASSUME NEW y \in T PROVE ~(y < x)
  <2> SUFFICES ASSUME y < x PROVE FALSE
    OBVIOUS
  <2>1. <<y, x>> \in OpToRel(<, Nat)
    BY DEF OpToRel
  <2> QED
    BY <1>1, <2>1
<1>3. \A y \in T : x <= y
  BY <1>2
<1> QED
  BY <1>3

\* A set of rows has an oldest row, which Min names, and a latest, which Max names.
LEMMA MinOfRows ==
    ASSUME NEW T, T \subseteq Rows, T # {}
    PROVE  Min(T) \in T /\ \A y \in T : Min(T) <= y
<1>1. T \subseteq Nat
  BY DEF Rows
<1>2. \E x \in T : \A y \in T : x <= y
  BY <1>1, LeastExists
<1> QED
  BY <1>2 DEF Min

\* The greatest of some rows is one of them.
LEMMA MaxOfRows ==
    ASSUME NEW T, T \subseteq Rows, T # {}
    PROVE  Max(T) \in T /\ \A y \in T : Max(T) >= y
<1> DEFINE U == {MaxRows - t : t \in T}
<1>1. U \subseteq Nat /\ U # {}
  <2>1. \A t \in T : MaxRows - t \in Nat
    BY NotificationsAssumption DEF Rows
  <2> QED
    BY <2>1
<1>2. PICK u \in U : \A v \in U : u <= v
  BY <1>1, LeastExists
<1>3. PICK t \in T : u = MaxRows - t
  BY <1>2
<1>4. ASSUME NEW y \in T PROVE t >= y
  <2>1. u <= MaxRows - y
    BY <1>2
  <2> QED
    BY <1>3, <2>1, NotificationsAssumption DEF Rows
<1> QED
  BY <1>3, <1>4 DEF Max

\* The strengthening that makes TypeOK inductive: todo is a function too.
NotificationsInv == TypeOK /\ todo \in [Scanners -> SUBSET Rows]

\* A page that is read holds recorded rows of agents only.
LEMMA PageIsOfAgents ==
    ASSUME NEW from PROVE Oldest(Pushable(from), PageSize) \subseteq {r \in recorded : Owner[r] \in Agents}
BY DEF Oldest, Pushable

\* Every step keeps the invariant.
LEMMA NotificationsStep == NotificationsInv /\ [Next]_vars => NotificationsInv'
<1> SUFFICES ASSUME NotificationsInv, [Next]_vars PROVE NotificationsInv'
  OBVIOUS
<1>0. /\ TypeOK /\ todo \in [Scanners -> SUBSET Rows]
      /\ MaxRows \in Nat /\ MaxRestarts \in Nat /\ Budget \in Nat \ {0} /\ PageSize \in Nat \ {0}
  BY NotificationsAssumption DEF NotificationsInv
<1>1. \A s \in Scanners : page[s] \subseteq Rows /\ todo[s] \subseteq page[s]
  BY <1>0 DEF TypeOK
<1>2. ASSUME NEW r \in Rows, Insert(r) PROVE NotificationsInv'
  BY <1>0, <1>2 DEF Insert, scan, NotificationsInv, TypeOK
<1>3. ASSUME NEW s \in Scanners, StartScan(s) PROVE NotificationsInv'
  BY <1>0, <1>3 DEF StartScan, Goto, store, NotificationsInv, TypeOK
<1>4. ASSUME NEW s \in Scanners, FetchPage(s) PROVE NotificationsInv'
  <2> DEFINE rows == Oldest(Pushable(after[s]), PageSize)
  <2>1. rows \subseteq {r \in recorded : Owner[r] \in Agents} /\ rows \subseteq Rows
    BY <1>0, PageIsOfAgents DEF TypeOK
  <2>2. \/ /\ rows = {} /\ Return(s) /\ cursor' = 0 /\ UNCHANGED <<page, todo>>
        \/ /\ rows # {} /\ page' = [page EXCEPT ![s] = rows] /\ todo' = [todo EXCEPT ![s] = rows]
           /\ Goto(s, "push") /\ UNCHANGED <<cursor, after, scanned>>
    BY <1>4 DEF FetchPage
  <2>3. pc[s] = "fetch" /\ UNCHANGED <<store, online, pulled, restarts>>
    BY <1>4 DEF FetchPage
  <2> HIDE DEF rows
  <2>4. CASE rows = {}
    BY <1>0, <2>2, <2>3, <2>4 DEF Return, Goto, store, NotificationsInv, TypeOK
  <2>5. CASE rows # {}
    BY <1>0, <2>1, <2>2, <2>3, <2>5 DEF Goto, store, NotificationsInv, TypeOK
  <2> QED
    BY <2>4, <2>5
<1>5. ASSUME NEW s \in Scanners, HintOne(s) PROVE NotificationsInv'
  <2>1. Min(todo[s]) \in todo[s]
    BY <1>0, <1>1, <1>5, MinOfRows DEF HintOne
  <2>2. Min(todo[s]) \in recorded
    BY <1>0, <1>1, <2>1 DEF TypeOK
  <2>3. PICK row \in recorded : /\ hinted' = IF Owner[row] \in online THEN hinted \cup {row} ELSE hinted
                                /\ todo' = [todo EXCEPT ![s] = @ \ {row}]
    BY <1>5, <2>2 DEF HintOne
  <2> QED
    BY <1>0, <1>5, <2>3 DEF HintOne, NotificationsInv, TypeOK
<1>6. ASSUME NEW s \in Scanners, HintFails(s) PROVE NotificationsInv'
  <2>1. PICK row : todo' = [todo EXCEPT ![s] = @ \ {row}]
    BY <1>6 DEF HintFails
  <2> QED
    BY <1>0, <1>6, <2>1 DEF HintFails, store, NotificationsInv, TypeOK
<1>7. ASSUME NEW s \in Scanners, EndPage(s) PROVE NotificationsInv'
  <2>1. page[s] # {} /\ page[s] \subseteq Rows /\ todo[s] = {} /\ pc[s] = "push"
    BY <1>0, <1>1, <1>7 DEF EndPage, TypeOK
  <2>2. Max(page[s]) \in 0..MaxRows
    BY <1>0, <2>1, MaxOfRows DEF Rows
  <2>3. Cardinality(page[s]) \in Nat
    <3>1. IsFiniteSet(Rows)
      BY <1>0, FS_Interval DEF Rows
    <3> QED
      BY <2>1, <3>1, FS_Subset, FS_CardinalityType
  <2>4. scanned[s] + Cardinality(page[s]) \in Nat
    BY <1>0, <2>3 DEF TypeOK
  <2>5. /\ cursor' \in 0..MaxRows
        /\ page' = [page EXCEPT ![s] = {}]
        /\ \E m \in 0..MaxRows, n \in 0..(Budget - 1), where \in {"fetch", "wrap", "idle"} :
              /\ after' = [after EXCEPT ![s] = m]
              /\ scanned' = [scanned EXCEPT ![s] = n]
              /\ Goto(s, where)
    <3>1. 0 \in 0..MaxRows /\ 0 \in 0..(Budget - 1)
      BY <1>0
    <3>2. scanned[s] + Cardinality(page[s]) < Budget => scanned[s] + Cardinality(page[s]) \in 0..(Budget - 1)
      BY <1>0, <2>4
    <3> QED
      BY <1>7, <2>2, <3>1, <3>2 DEF EndPage
  <2>6. UNCHANGED <<store, online, todo, pulled, restarts>>
    BY <1>7 DEF EndPage
  <2> QED
    BY <1>0, <2>1, <2>5, <2>6 DEF Goto, store, NotificationsInv, TypeOK
<1>8. ASSUME NEW s \in Scanners, Wrap(s) PROVE NotificationsInv'
  BY <1>0, <1>8 DEF Wrap, Goto, store, NotificationsInv, TypeOK
<1>9. ASSUME NEW a \in Pullers, Pull(a) \/ Forget(a) PROVE NotificationsInv'
  <2>1. Oldest(Pullable(a), PageSize) \subseteq recorded
    BY DEF Oldest, Pullable
  <2>2. pulled' \in [Pullers -> SUBSET recorded]
    BY <1>0, <1>9, <2>1 DEF Pull, Forget, TypeOK
  <2> QED
    BY <1>0, <1>9, <2>2 DEF Pull, Forget, store, scan, NotificationsInv, TypeOK
<1>10. ASSUME NEW a \in Pullers, Ack(a) PROVE NotificationsInv'
  <2>1. acked' \subseteq recorded
    BY <1>0, <1>10 DEF Ack, OwnRows, TypeOK
  <2> QED
    BY <1>0, <1>10, <2>1 DEF Ack, scan, NotificationsInv, TypeOK
<1>11. ASSUME NEW a \in Visitors, Connect(a) \/ Disconnect(a) PROVE NotificationsInv'
  BY <1>0, <1>11 DEF Connect, Disconnect, store, scan, NotificationsInv, TypeOK
<1>12. CASE Restart
  BY <1>0, <1>12 DEF Restart, store, NotificationsInv, TypeOK
<1>13. CASE UNCHANGED vars
  BY <1>0, <1>13 DEF vars, NotificationsInv, TypeOK
<1> QED
  BY <1>2, <1>3, <1>4, <1>5, <1>6, <1>7, <1>8, <1>9, <1>10, <1>11, <1>12, <1>13 DEF Next, Step

\* Whichever threads scan, insert, acknowledge and restart: a scan never reads as many
\* rows as its budget and asks for more, the shared cursor names a row, a page is on the
\* way exactly while it is pushed, and rows of the operator never get into a scan
\* (atalk/federation/runtime.py, hint_notifications).
THEOREM NotificationsTypeCorrect == Spec => []TypeOK
<1>1. Init => NotificationsInv
  BY NotificationsAssumption DEF Init, NotificationsInv, TypeOK
<1>2. NotificationsInv => TypeOK
  BY DEF NotificationsInv
<1> QED
  BY <1>1, <1>2, NotificationsStep, PTL DEF Spec
=============================================================================
