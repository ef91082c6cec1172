------------------------- MODULE ClusterFanInProofs -------------------------
(***************************************************************************)
(* TLAPS proofs about ClusterFanIn, for any followers, ranks, bounds and   *)
(* faults.                                                                 *)
(***************************************************************************)
EXTENDS ClusterFanIn, SequenceTheorems, WellFoundedInduction, TLAPS

Entry == [n : Nat, age : Nat]

\* The prune of a buffer is well defined: it stops at the first young entry
\* (_prune_buffer, _drain_buffer).
LEMMA PruneCountOf ==
  ASSUME NEW b \in Seq(Entry)
  PROVE  /\ PruneCount(b) \in 0 .. Len(b)
         /\ \A i \in 1 .. PruneCount(b) : b[i].age > BufferSeconds
         /\ PruneCount(b) < Len(b) => b[PruneCount(b) + 1].age <= BufferSeconds
<1> DEFINE Stops == {k \in 0 .. Len(b) : k < Len(b) => b[k + 1].age <= BufferSeconds}
           lt == OpToRel(<, Nat)
<1>1. Stops \subseteq Nat /\ Stops # {}
  <2>1. Len(b) \in Nat
    OBVIOUS
  <2>2. Len(b) \in Stops
    BY <2>1
  <2> QED BY <2>1, <2>2
<1>2. PICK k \in Stops : \A j \in Stops : ~ (<<j, k>> \in lt)
  <2> HIDE DEF Stops, lt
  <2>1. IsWellFoundedOn(lt, Nat)
    BY NatLessThanWellFounded DEF lt
  <2> QED BY <1>1, <2>1, WFMin
<1>3. \A j \in Stops : ~ (j < k)
  BY <1>1, <1>2 DEF OpToRel
<1>4. k \in 0 .. Len(b) /\ (k < Len(b) => b[k + 1].age <= BufferSeconds)
  OBVIOUS
<1>5. \A i \in 1 .. k : b[i].age > BufferSeconds
  <2> SUFFICES ASSUME NEW i \in 1 .. k, ~ (b[i].age > BufferSeconds)
               PROVE  FALSE
    OBVIOUS
  <2>1. Len(b) \in Nat /\ i - 1 \in 0 .. Len(b) /\ i \in 1 .. Len(b)
    BY <1>4
  <2>2. b[i] \in Entry
    BY <2>1
  <2>3. b[(i - 1) + 1].age <= BufferSeconds
    BY <2>1, <2>2, ConstantsAssumption DEF Entry, ConstantsAssumption
  <2>4. i - 1 \in Stops
    BY <2>1, <2>3
  <2>5. i - 1 < k
    BY <1>4
  <2> HIDE DEF Stops
  <2> QED BY <1>3, <2>4, <2>5
<1> QED
  BY <1>4, <1>5 DEF PruneCount

-----------------------------------------------------------------------------
(* Buffers: what pruning, appending and popping keep. *)

Sorted(b) ==
  \A i, j \in DOMAIN b : i < j => b[i].n < b[j].n /\ b[i].age >= b[j].age

Holds(b) == {b[i].n : i \in DOMAIN b}

LEMMA PrunedType ==
  ASSUME NEW b \in Seq(Entry)
  PROVE  /\ Pruned(b) \in Seq(Entry)
         /\ DOMAIN Pruned(b) = 1 .. Len(b) - PruneCount(b)
         /\ \A i \in DOMAIN Pruned(b) :
              i + PruneCount(b) \in DOMAIN b /\ Pruned(b)[i] = b[i + PruneCount(b)]
<1> DEFINE k == PruneCount(b)
<1>1. k \in 0 .. Len(b) /\ Len(b) \in Nat
  BY PruneCountOf
<1> HIDE DEF k
<1>2. SubSeq(b, k + 1, Len(b)) = [i \in 1 .. Len(b) - k |-> b[i + k]]
  <2>1. k + 1 \in 1 .. Len(b) + 1 /\ Len(b) \in k .. Len(b)
    BY <1>1
  <2>2. SubSeq(b, k + 1, Len(b)) = [i \in 1 .. (Len(b) - (k + 1) + 1) |-> b[i + (k + 1) - 1]]
    BY <2>1
  <2>3. Len(b) - (k + 1) + 1 = Len(b) - k
    BY <1>1
  <2>4. \A i \in 1 .. Len(b) - k : i + (k + 1) - 1 = i + k
    BY <1>1
  <2> QED BY <2>2, <2>3, <2>4
<1>3. \A i \in 1 .. Len(b) - k : i + k \in 1 .. Len(b)
  BY <1>1
<1>4. DOMAIN b = 1 .. Len(b) /\ \A i \in 1 .. Len(b) : b[i] \in Entry
  OBVIOUS
<1>5. [i \in 1 .. Len(b) - k |-> b[i + k]] \in Seq(Entry)
  BY <1>1, <1>3, <1>4, IsASeq
<1> QED BY <1>2, <1>3, <1>4, <1>5 DEF Pruned, k

LEMMA PrunedKeeps ==
  ASSUME NEW b \in Seq(Entry)
  PROVE  /\ Holds(b) = Dropped(b) \cup Holds(Pruned(b))
         /\ Sorted(b) => Sorted(Pruned(b))
<1> DEFINE k == PruneCount(b)
<1>1. k \in 0 .. Len(b) /\ Len(b) \in Nat /\ DOMAIN b = 1 .. Len(b)
  BY PruneCountOf
<1>2. /\ DOMAIN Pruned(b) = 1 .. Len(b) - k
      /\ \A i \in DOMAIN Pruned(b) : i + k \in DOMAIN b /\ Pruned(b)[i] = b[i + k]
  BY PrunedType
<1>3. Dropped(b) = {b[i].n : i \in 1 .. k}
  BY DEF Dropped
<1> HIDE DEF k
<1>4. Holds(b) \subseteq Dropped(b) \cup Holds(Pruned(b))
  <2> SUFFICES ASSUME NEW i \in 1 .. Len(b), i \notin 1 .. k
               PROVE  b[i].n \in Holds(Pruned(b))
    BY <1>1, <1>3 DEF Holds
  <2>1. i - k \in DOMAIN Pruned(b) /\ (i - k) + k = i
    BY <1>1, <1>2
  <2>2. Pruned(b)[i - k] = b[i]
    BY <1>2, <2>1
  <2> QED BY <2>1, <2>2 DEF Holds
<1>5. Dropped(b) \cup Holds(Pruned(b)) \subseteq Holds(b)
  <2>1. 1 .. k \subseteq DOMAIN b
    BY <1>1
  <2> QED BY <1>2, <1>3, <2>1 DEF Holds
<1>6. Sorted(b) => Sorted(Pruned(b))
  <2> SUFFICES ASSUME Sorted(b),
                      NEW i \in DOMAIN Pruned(b), NEW j \in DOMAIN Pruned(b), i < j
               PROVE  /\ Pruned(b)[i].n < Pruned(b)[j].n
                      /\ Pruned(b)[i].age >= Pruned(b)[j].age
    BY DEF Sorted
  <2>1. i + k \in DOMAIN b /\ j + k \in DOMAIN b /\ i + k < j + k
    BY <1>1, <1>2
  <2> QED BY <1>2, <2>1 DEF Sorted
<1> QED BY <1>4, <1>5, <1>6

LEMMA AppendKeeps ==
  ASSUME NEW b \in Seq(Entry), NEW e \in Entry
  PROVE  /\ Append(b, e) \in Seq(Entry)
         /\ Holds(Append(b, e)) = Holds(b) \cup {e.n}
         /\ Sorted(b) /\ e.age = 0 /\ (\A i \in DOMAIN b : b[i].n < e.n)
              => Sorted(Append(b, e))
<1> DEFINE c == Append(b, e)
<1>1. /\ c \in Seq(Entry) /\ Len(b) \in Nat
      /\ DOMAIN b = 1 .. Len(b) /\ DOMAIN c = 1 .. Len(b) + 1
      /\ \A i \in 1 .. Len(b) : c[i] = b[i] /\ b[i] \in Entry
      /\ c[Len(b) + 1] = e
  BY AppendProperties
<1> HIDE DEF c
<1>2. Holds(c) = Holds(b) \cup {e.n}
  <2>1. \A i \in DOMAIN c : i \in DOMAIN b \/ i = Len(b) + 1
    BY <1>1
  <2>2. DOMAIN b \subseteq DOMAIN c /\ Len(b) + 1 \in DOMAIN c
    BY <1>1
  <2> QED BY <1>1, <2>1, <2>2 DEF Holds
<1>3. ASSUME Sorted(b), e.age = 0, \A i \in DOMAIN b : b[i].n < e.n
      PROVE  Sorted(c)
  <2> SUFFICES ASSUME NEW i \in DOMAIN c, NEW j \in DOMAIN c, i < j
               PROVE  c[i].n < c[j].n /\ c[i].age >= c[j].age
    BY DEF Sorted
  <2>0. i \in DOMAIN b
    BY <1>1
  <2>1. c[i] = b[i] /\ b[i].age \in Nat
    BY <1>1, <2>0 DEF Entry
  <2>2. CASE j \in DOMAIN b
    BY <1>1, <1>3, <2>0, <2>1, <2>2 DEF Sorted
  <2>3. CASE j = Len(b) + 1
    BY <1>1, <1>3, <2>0, <2>1, <2>3
  <2> QED BY <1>1, <2>2, <2>3
<1> QED BY <1>1, <1>2, <1>3 DEF c

LEMMA TailKeeps ==
  ASSUME NEW b \in Seq(Entry), b # << >>
  PROVE  /\ Tail(b) \in Seq(Entry)
         /\ Holds(b) = {b[1].n} \cup Holds(Tail(b))
         /\ Sorted(b) => Sorted(Tail(b))
<1> DEFINE c == Tail(b)
<1>1. /\ c \in Seq(Entry) /\ Len(b) \in Nat \ {0}
      /\ DOMAIN b = 1 .. Len(b) /\ DOMAIN c = 1 .. Len(b) - 1
      /\ \A i \in 1 .. Len(b) - 1 : c[i] = b[i + 1]
  BY HeadTailProperties, EmptySeq
<1> HIDE DEF c
<1>2. Holds(b) = {b[1].n} \cup Holds(c)
  <2>1. \A i \in DOMAIN b : i = 1 \/ (i - 1 \in DOMAIN c /\ c[i - 1] = b[i])
    BY <1>1
  <2>2. \A i \in DOMAIN c : i + 1 \in DOMAIN b /\ c[i] = b[i + 1]
    BY <1>1
  <2>3. 1 \in DOMAIN b
    BY <1>1
  <2> QED BY <2>1, <2>2, <2>3 DEF Holds
<1>3. ASSUME Sorted(b) PROVE Sorted(c)
  <2> SUFFICES ASSUME NEW i \in DOMAIN c, NEW j \in DOMAIN c, i < j
               PROVE  c[i].n < c[j].n /\ c[i].age >= c[j].age
    BY DEF Sorted
  <2>1. i + 1 \in DOMAIN b /\ j + 1 \in DOMAIN b /\ i + 1 < j + 1
    BY <1>1
  <2> QED BY <1>1, <1>3, <2>1 DEF Sorted
<1> QED BY <1>1, <1>2, <1>3 DEF c

-----------------------------------------------------------------------------
(* Type correctness *)

LEMMA InitType == Init => TypeOK
<1> SUFFICES ASSUME Init PROVE TypeOK
  OBVIOUS
<1>1. buffer \in [Follower -> Seq([n : Nat, age : Nat])]
  BY EmptySeq DEF Init
<1>2. policy \in [Follower -> PolicyName] /\ optIn \in BOOLEAN
  BY ConstantsAssumption DEF Init, ConstantsAssumption
<1>3. pc \in [Follower -> [Thread -> Label]]
  BY DEF Init, Label
<1>4. records \in [Rank -> [owner : Follower, n : Nat, age : Nat] \cup {NoRecord}]
  BY DEF Init
<1>5. late \in SUBSET (Follower \X Nat \X PolicyName) /\ faults \in 0 .. MaxFaults
  BY ConstantsAssumption DEF Init, ConstantsAssumption
<1>6. /\ handle \in [Follower -> Thread \cup {NoThread}]
      /\ inHand \in [Follower -> [Thread -> Nat]]
      /\ posted \in [Follower -> [Thread -> Nat]]
      /\ reply \in [Follower -> [Thread -> {0, 202, 401, 403}]]
  BY DEF Init
<1>7. /\ sequence \in [Follower -> Nat] /\ base \in [Follower -> Nat]
      /\ stopEvent \in [Follower -> BOOLEAN] /\ abandoned \in [Follower -> BOOLEAN]
      /\ accepted \in [Follower -> SUBSET Nat] /\ expired \in [Follower -> SUBSET Nat]
      /\ serverUp \in BOOLEAN
  BY DEF Init
<1> QED
  BY <1>1, <1>2, <1>3, <1>4, <1>5, <1>6, <1>7 DEF TypeOK

\* Threads only move between the labels, and only carry snapshot numbers.
LEMMA GotoType ==
  ASSUME TypeOK, NEW f \in Follower, NEW t \in Thread, NEW l \in Label, Goto(f, t, l)
  PROVE  pc' \in [Follower -> [Thread -> Label]]
BY DEF Goto, TypeOK

LEMMA PostedType ==
  ASSUME TypeOK, NEW f \in Follower, NEW t \in Thread, NEW n \in Nat,
         posted' = [posted EXCEPT ![f][t] = n]
  PROVE  posted' \in [Follower -> [Thread -> Nat]]
BY DEF TypeOK

LEMMA DroppedType ==
  ASSUME NEW b \in Seq(Entry)
  PROVE  Dropped(b) \in SUBSET Nat
<1>1. 1 .. PruneCount(b) \subseteq 1 .. Len(b)
  BY PruneCountOf
<1>2. \A i \in 1 .. Len(b) : b[i] \in Entry
  OBVIOUS
<1> QED BY <1>1, <1>2 DEF Dropped, Entry

\* A record the leader writes is a record.
LEMMA RecordType ==
  ASSUME TypeOK, NEW f \in Follower, NEW n \in Nat, NEW p \in PolicyName,
         Record(f, n, p)
  PROVE  /\ records' \in [Rank -> [owner : Follower, n : Nat, age : Nat] \cup {NoRecord}]
         /\ accepted' \in [Follower -> SUBSET Nat]
<1>1. [owner |-> f, n |-> n, age |-> 0] \in [owner : Follower, n : Nat, age : Nat]
  OBVIOUS
<1>2. RankOf[f] \in Rank
  BY ConstantsAssumption DEF ConstantsAssumption
<1>3. CASE Status(p) = 202
  <2>1. records' = [records EXCEPT ![RankOf[f]] = [owner |-> f, n |-> n, age |-> 0]]
    BY <1>3 DEF Record
  <2>2. accepted' = [accepted EXCEPT ![f] = @ \cup {n}]
    BY <1>3 DEF Record
  <2>3. records' \in [Rank -> [owner : Follower, n : Nat, age : Nat] \cup {NoRecord}]
    BY <1>1, <1>2, <2>1 DEF TypeOK
  <2>4. accepted' \in [Follower -> SUBSET Nat]
    BY <2>2 DEF TypeOK
  <2> QED BY <2>3, <2>4
<1>4. CASE Status(p) # 202
  BY <1>4 DEF Record, TypeOK
<1> QED BY <1>3, <1>4

LEMMA FaultType ==
  ASSUME TypeOK, Fault
  PROVE  faults' \in 0 .. MaxFaults
BY ConstantsAssumption DEF ConstantsAssumption, Fault, TypeOK

\* Aging the entries of a buffer keeps it a buffer.
LEMMA AgedType ==
  ASSUME NEW b \in Seq(Entry)
  PROVE  /\ [i \in 1 .. Len(b) |-> [b[i] EXCEPT !.age = Older(@, BufferSeconds)]]
              \in Seq(Entry)
         /\ \A i \in 1 .. Len(b) : b[i] \in Entry
<1>1. \A i \in 1 .. Len(b) : b[i] \in Entry
  OBVIOUS
<1>2. \A i \in 1 .. Len(b) : [b[i] EXCEPT !.age = Older(@, BufferSeconds)] \in Entry
  BY <1>1 DEF Entry, Older
<1>3. Len(b) \in Nat
  OBVIOUS
<1> QED BY <1>1, <1>2, <1>3, IsASeq

LEMMA NextType == TypeOK /\ [Next]_vars => TypeOK'
<1> SUFFICES ASSUME TypeOK, [Next]_vars PROVE TypeOK'
  OBVIOUS
<1> USE ConstantsAssumption DEF ConstantsAssumption, Label
<1>1. ASSUME NEW f \in Follower, NEW t \in Thread, ThreadStep(f, t) PROVE TypeOK'
  <2>1. CASE ThreadExit(f, t)
    <3>1. pc' \in [Follower -> [Thread -> Label]]
      BY <2>1, GotoType DEF ThreadExit, Label
    <3> QED BY <2>1, <3>1 DEF ThreadExit, TypeOK, leaderVars, historyVars
  <2>2. CASE CountSnapshot(f, t)
    <3>1. NextSnapshot(f) - base[f] \in Nat
      BY DEF TypeOK, NextSnapshot, Taken
    <3>2. pc' \in [Follower -> [Thread -> Label]]
      BY <2>2, GotoType DEF CountSnapshot, Label
    <3>3. sequence' \in [Follower -> Nat]
      BY <2>2, <3>1 DEF CountSnapshot, TypeOK
    <3> QED
      BY <2>2, <3>2, <3>3 DEF CountSnapshot, TypeOK, leaderVars, historyVars
  <2>10. CASE NumberSnapshot(f, t)
    <3>1. Taken(f) \in Nat
      BY DEF TypeOK, Taken
    <3>2. pc' \in [Follower -> [Thread -> Label]]
      BY <2>10, GotoType DEF NumberSnapshot, Label
    <3>3. inHand' \in [Follower -> [Thread -> Nat]]
      BY <2>10, <3>1 DEF NumberSnapshot, TypeOK
    <3> QED
      BY <2>10, <3>2, <3>3 DEF NumberSnapshot, TypeOK, leaderVars, historyVars
  <2>11. CASE AppendSnapshot(f, t)
    <3>1. buffer[f] \in Seq(Entry) /\ inHand[f][t] \in Nat
      BY DEF TypeOK, Entry
    <3>2. Append(Pruned(buffer[f]), [n |-> inHand[f][t], age |-> 0]) \in Seq(Entry)
      BY <3>1, PrunedType, AppendKeeps DEF Entry
    <3>3. Dropped(buffer[f]) \in SUBSET Nat
      BY <3>1, DroppedType
    <3>4. buffer' \in [Follower -> Seq(Entry)] /\ expired' \in [Follower -> SUBSET Nat]
      BY <2>11, <3>2, <3>3 DEF AppendSnapshot, TypeOK, Entry
    <3>5. inHand' \in [Follower -> [Thread -> Nat]]
      BY <2>11 DEF AppendSnapshot, TypeOK
    <3>6. pc' \in [Follower -> [Thread -> Label]]
      BY <2>11, GotoType DEF AppendSnapshot, Label
    <3> QED
      BY <2>11, <3>4, <3>5, <3>6 DEF AppendSnapshot, TypeOK, leaderVars, Entry
  <2>3. CASE SkipSnapshot(f, t)
    <3>1. pc' \in [Follower -> [Thread -> Label]]
      BY <2>3, GotoType DEF SkipSnapshot, Label
    <3> QED BY <2>3, <3>1 DEF SkipSnapshot, TypeOK, leaderVars, historyVars
  <2>4. CASE DrainHead(f, t)
    <3>1. buffer[f] \in Seq(Entry)
      BY DEF TypeOK, Entry
    <3>2. Pruned(buffer[f]) \in Seq(Entry)
      BY <3>1, PrunedType
    <3>3. Dropped(buffer[f]) \in SUBSET Nat
      BY <3>1, DroppedType
    <3>4. Pruned(buffer[f]) # << >> => Pruned(buffer[f])[1].n \in Nat
      <4> SUFFICES ASSUME Pruned(buffer[f]) # << >>
                   PROVE  Pruned(buffer[f])[1].n \in Nat
        OBVIOUS
      <4>1. Len(Pruned(buffer[f])) \in Nat \ {0}
        BY <3>2, EmptySeq
      <4>2. Pruned(buffer[f])[1] \in Entry
        BY <3>2, <4>1, ElementOfSeq
      <4> QED BY <4>2 DEF Entry
    <3>5. posted' \in [Follower -> [Thread -> Nat]]
      <4>1. CASE posted' = posted
        BY <4>1 DEF TypeOK
      <4>2. CASE /\ Pruned(buffer[f]) # << >>
                 /\ posted' = [posted EXCEPT ![f][t] = Pruned(buffer[f])[1].n]
        BY <3>4, <4>2, PostedType
      <4> QED BY <2>4, <4>1, <4>2 DEF DrainHead
    <3>6. pc' \in [Follower -> [Thread -> Label]]
      <4>1. \E l \in Label : Goto(f, t, l)
        BY <2>4 DEF DrainHead, Label
      <4> QED BY <4>1, GotoType
    <3>7. buffer' \in [Follower -> Seq(Entry)] /\ expired' \in [Follower -> SUBSET Nat]
      BY <2>4, <3>2, <3>3 DEF DrainHead, TypeOK, Entry
    <3> QED
      BY <2>4, <3>5, <3>6, <3>7 DEF DrainHead, TypeOK, leaderVars, Entry
  <2>5. CASE PostFails(f, t)
    <3>1. late' \in SUBSET (Follower \X Nat \X PolicyName)
      BY <2>5 DEF PostFails, TypeOK
    <3>2. faults' \in 0 .. MaxFaults
      BY <2>5, FaultType DEF PostFails, TypeOK
    <3>3. pc' \in [Follower -> [Thread -> Label]]
      BY <2>5, GotoType DEF PostFails, Label
    <3>4. posted' \in [Follower -> [Thread -> Nat]]
      BY <2>5, PostedType DEF PostFails
    <3>5. UNCHANGED <<policy, sequence, base, buffer, stopEvent, handle, inHand,
                      reply, leaderVars, historyVars>>
      BY <2>5 DEF PostFails
    <3> QED
      BY <3>1, <3>2, <3>3, <3>4, <3>5 DEF TypeOK, leaderVars, historyVars
  <2>6. CASE ReplyLost(f, t)
    <3>1. faults' \in 0 .. MaxFaults
      BY <2>6, FaultType DEF ReplyLost
    <3>2. pc' \in [Follower -> [Thread -> Label]]
      BY <2>6, GotoType DEF ReplyLost
    <3>3. posted' \in [Follower -> [Thread -> Nat]]
      BY <2>6, PostedType DEF ReplyLost
    <3>4. reply' \in [Follower -> [Thread -> {0, 202, 401, 403}]]
      BY <2>6 DEF ReplyLost, TypeOK
    <3>5. UNCHANGED <<policy, sequence, base, buffer, stopEvent, handle, inHand,
                      leaderVars, late, historyVars>>
      BY <2>6 DEF ReplyLost
    <3> QED
      BY <3>1, <3>2, <3>3, <3>4, <3>5 DEF TypeOK, leaderVars, historyVars
  <2>7. CASE TakeReply(f, t)
    <3>1. posted' \in [Follower -> [Thread -> Nat]]
      <4>1. CASE posted' = posted
        BY <4>1 DEF TypeOK
      <4>2. CASE posted' = [posted EXCEPT ![f][t] = 0]
        BY <4>2, PostedType
      <4> QED BY <2>7, <4>1, <4>2 DEF TakeReply
    <3>2. pc' \in [Follower -> [Thread -> Label]]
      <4>1. \E l \in Label : Goto(f, t, l)
        BY <2>7 DEF TakeReply, Label
      <4> QED BY <4>1, GotoType
    <3>3. reply' \in [Follower -> [Thread -> {0, 202, 401, 403}]]
      BY <2>7 DEF TakeReply, TypeOK
    <3> QED
      BY <2>7, <3>1, <3>2, <3>3 DEF TakeReply, TypeOK, leaderVars, historyVars
  <2>8. CASE PopHead(f, t)
    <3>1. buffer[f] \in Seq(Entry)
      BY DEF TypeOK, Entry
    <3>2. buffer[f] # << >> => Tail(buffer[f]) \in Seq(Entry)
      BY <3>1, TailKeeps
    <3>3. buffer' \in [Follower -> Seq(Entry)]
      <4>1. CASE buffer' = buffer
        BY <4>1 DEF TypeOK, Entry
      <4>2. CASE buffer[f] # << >> /\ buffer' = [buffer EXCEPT ![f] = Tail(@)]
        BY <3>2, <4>2 DEF TypeOK, Entry
      <4> QED BY <2>8, <4>1, <4>2 DEF PopHead
    <3>4. pc' \in [Follower -> [Thread -> Label]]
      <4>1. \E l \in Label : Goto(f, t, l)
        BY <2>8 DEF PopHead, Label
      <4> QED BY <4>1, GotoType
    <3> QED
      BY <2>8, <3>3, <3>4 DEF PopHead, TypeOK, leaderVars, historyVars, Entry
  <2>9. CASE Wake(f, t)
    <3>1. pc' \in [Follower -> [Thread -> Label]]
      BY <2>9, GotoType DEF Wake, Label
    <3> QED BY <2>9, <3>1 DEF Wake, TypeOK, leaderVars, historyVars
  <2> QED
    BY <1>1, <2>1, <2>2, <2>3, <2>4, <2>5, <2>6, <2>7, <2>8, <2>9, <2>10, <2>11
    DEF ThreadStep
<1>2. ASSUME NEW f \in Follower, NEW t \in Thread, HandlePost(f, t) PROVE TypeOK'
  <2>1. posted[f][t] \in Nat /\ policy[f] \in PolicyName
    BY DEF TypeOK
  <2>2. /\ records' \in [Rank -> [owner : Follower, n : Nat, age : Nat] \cup {NoRecord}]
        /\ accepted' \in [Follower -> SUBSET Nat]
    BY <1>2, <2>1, RecordType DEF HandlePost
  <2>3. Status(policy[f]) \in {0, 202, 401, 403}
    BY DEF Status
  <2>4. reply' \in [Follower -> [Thread -> {0, 202, 401, 403}]]
    BY <1>2, <2>3 DEF HandlePost, TypeOK
  <2>5. pc' \in [Follower -> [Thread -> Label]]
    BY <1>2 DEF HandlePost, Goto, TypeOK, Label
  <2> QED
    BY <1>2, <2>2, <2>4, <2>5 DEF HandlePost, TypeOK
<1>3. ASSUME NEW f \in Follower, StartFollower(f) PROVE TypeOK'
  BY <1>3 DEF StartFollower, Goto, TypeOK, leaderVars, historyVars, Thread
<1>4. ASSUME NEW f \in Follower, StopFollower(f) PROVE TypeOK'
  BY <1>4 DEF StopFollower, TypeOK, leaderVars, historyVars
<1>5. ASSUME NEW f \in Follower, JoinFollower(f) PROVE TypeOK'
  <2>1. abandoned' \in [Follower -> BOOLEAN]
    <3>1. abandoned' = abandoned \/ abandoned' = [abandoned EXCEPT ![f] = TRUE]
      BY <1>5 DEF JoinFollower
    <3> QED BY <3>1 DEF TypeOK
  <2>2. faults' \in 0 .. MaxFaults
    BY <1>5, FaultType DEF JoinFollower, TypeOK
  <2> QED
    BY <1>5, <2>1, <2>2 DEF JoinFollower, TypeOK, leaderVars
<1>6. ASSUME NEW f \in Follower, RestartFollower(f) PROVE TypeOK'
  <2>1. << >> \in Seq(Entry)
    BY EmptySeq
  <2>2. Taken(f) \in Nat
    BY DEF TypeOK, Taken
  <2>3. late' \in SUBSET (Follower \X Nat \X PolicyName)
    BY <1>6 DEF RestartFollower, TypeOK
  <2>4. /\ sequence' \in [Follower -> Nat] /\ base' \in [Follower -> Nat]
        /\ buffer' \in [Follower -> Seq(Entry)]
        /\ policy' \in [Follower -> PolicyName]
    BY <1>6, <2>1, <2>2 DEF RestartFollower, TypeOK, Entry
  <2>5. /\ stopEvent' \in [Follower -> BOOLEAN]
        /\ abandoned' \in [Follower -> BOOLEAN]
        /\ handle' \in [Follower -> Thread \cup {NoThread}]
    BY <1>6 DEF RestartFollower, TypeOK
  <2>6. /\ pc' \in [Follower -> [Thread -> Label]]
        /\ inHand' \in [Follower -> [Thread -> Nat]]
        /\ posted' \in [Follower -> [Thread -> Nat]]
        /\ reply' \in [Follower -> [Thread -> {0, 202, 401, 403}]]
    BY <1>6 DEF RestartFollower, TypeOK
  <2>7. faults' \in 0 .. MaxFaults
    BY <1>6, FaultType DEF RestartFollower
  <2> QED
    BY <1>6, <2>3, <2>4, <2>5, <2>6, <2>7 DEF RestartFollower, TypeOK, leaderVars, Entry
<1>7. CASE HandleLate
  <2> PICK req \in late : Record(req[1], req[2], req[3]) /\ late' = late \ {req}
    BY <1>7 DEF HandleLate
  <2>1. req[1] \in Follower /\ req[2] \in Nat /\ req[3] \in PolicyName
    BY DEF TypeOK
  <2>2. /\ records' \in [Rank -> [owner : Follower, n : Nat, age : Nat] \cup {NoRecord}]
        /\ accepted' \in [Follower -> SUBSET Nat]
    BY <2>1, RecordType
  <2> QED
    BY <1>7, <2>2 DEF HandleLate, TypeOK, followerVars
<1>8. CASE StopServer
  BY <1>8, FaultType DEF StopServer, TypeOK, followerVars, historyVars
<1>9. CASE CrashLeader
  <2>1. records' \in [Rank -> [owner : Follower, n : Nat, age : Nat] \cup {NoRecord}]
    BY <1>9 DEF CrashLeader
  <2> QED
    BY <1>9, <2>1, FaultType DEF CrashLeader, TypeOK, followerVars, historyVars
<1>10. CASE StartServer
  BY <1>10 DEF StartServer, TypeOK, followerVars, historyVars
<1>11. CASE Tick
  <2>1. buffer' \in [Follower -> Seq(Entry)]
    <3> SUFFICES ASSUME NEW f \in Follower PROVE buffer'[f] \in Seq(Entry)
      BY <1>11 DEF Tick
    <3>1. buffer[f] \in Seq(Entry)
      BY DEF TypeOK, Entry
    <3> QED BY <1>11, <3>1, AgedType DEF Tick
  <2>2. records' \in [Rank -> [owner : Follower, n : Nat, age : Nat] \cup {NoRecord}]
    <3> SUFFICES ASSUME NEW r \in Rank
                 PROVE  records'[r] \in
                          [owner : Follower, n : Nat, age : Nat] \cup {NoRecord}
      BY <1>11 DEF Tick
    <3>1. CASE records[r] = NoRecord
      BY <1>11, <3>1 DEF Tick
    <3>2. CASE records[r] # NoRecord
      <4>1. records[r] \in [owner : Follower, n : Nat, age : Nat]
        BY <3>2 DEF TypeOK
      <4>2. Older(records[r].age, StaleAfter) \in Nat
        BY <4>1 DEF Older
      <4>3. records'[r] = [records[r] EXCEPT !.age = Older(@, StaleAfter)]
        BY <1>11, <3>2 DEF Tick
      <4> QED BY <4>1, <4>2, <4>3
    <3> QED BY <3>1, <3>2
  <2> QED
    BY <1>11, <2>1, <2>2 DEF Tick, TypeOK, historyVars, Entry
<1>12. CASE UNCHANGED vars
  BY <1>12 DEF vars, followerVars, leaderVars, historyVars, TypeOK
<1> QED
  BY <1>1, <1>2, <1>3, <1>4, <1>5, <1>6, <1>7, <1>8, <1>9, <1>10, <1>11, <1>12
     DEF Next

\* The daemon's state is well typed whatever the followers, ranks and bounds.
THEOREM TypeCorrect == Spec => []TypeOK
BY InitType, NextType, PTL DEF Spec

-----------------------------------------------------------------------------
(* Delivery: the invariant, one follower at a time. *)

\* The buffer is sorted while one thread works on it ...
InOrder(f) == ~abandoned[f] => Sorted(buffer[f])

\* ... because the snapshot in hand comes after all that are buffered ...
Fresh(f) ==
  ~abandoned[f] =>
    \A t \in Thread : pc[f][t] \in {"number", "append"} =>
      /\ \A i \in DOMAIN buffer[f] : buffer[f][i].n < Taken(f)
      /\ pc[f][t] = "append" => inHand[f][t] = Taken(f)

\* ... what was taken is kept, and what was accepted or may still be accepted
\* late has no undelivered snapshot before it ...
Delivered(f) ==
  ~abandoned[f] =>
    /\ Kept(f)
    /\ \A m \in accepted[f] : Earlier(f, m)
    /\ \A req \in late : req[1] = f => Earlier(f, req[2])

\* ... because one thread at most works on the buffer ...
Single(f) ==
  ~abandoned[f] => \A t \in Thread : Alive(f, t) => handle[f] = t

\* ... its POST carries the head ...
CarriesHead(f) ==
  ~abandoned[f] =>
    \A t \in Thread : pc[f][t] \in {"post", "replied", "pop"} =>
      buffer[f] # << >> /\ posted[f][t] = buffer[f][1].n

\* ... it pops what was accepted ...
Popped(f) ==
  \A t \in Thread :
    pc[f][t] = "pop" \/ (pc[f][t] = "replied" /\ reply[f][t] = 202)
      => posted[f][t] \in accepted[f]

\* ... and nothing is ahead of the snapshots taken.
Past(f) ==
  /\ \A i \in DOMAIN buffer[f] : buffer[f][i].n <= Taken(f)
  /\ \A t \in Thread : posted[f][t] <= Taken(f) /\ inHand[f][t] <= Taken(f)
  /\ \A m \in accepted[f] : m <= Taken(f)
  /\ \A req \in late : req[1] = f => req[2] <= Taken(f)

FollowerInv(f) ==
  /\ InOrder(f) /\ Fresh(f) /\ Delivered(f) /\ Single(f)
  /\ CarriesHead(f) /\ Popped(f) /\ Past(f)

\* IInv, follower by follower.
SInv == TypeOK /\ \A f \in Follower : FollowerInv(f)

LEMMA Parts == IInv <=> SInv
<1>1. OldestFirst <=> \A f \in Follower : InOrder(f)
  BY DEF OldestFirst, InOrder, Sorted
<1>7. FreshInHand <=> \A f \in Follower : Fresh(f)
  BY DEF FreshInHand, Fresh
<1>2. OneThread <=> \A f \in Follower : Single(f)
  BY DEF OneThread, Single
<1>3. HeadPosted <=> \A f \in Follower : CarriesHead(f)
  BY DEF HeadPosted, CarriesHead
<1>4. PopAccepted <=> \A f \in Follower : Popped(f)
  BY DEF PopAccepted, Popped
<1>5. NoneFromTheFuture <=> \A f \in Follower : Past(f)
  BY DEF NoneFromTheFuture, Past
<1>6. TypeOK => (NothingLost /\ NoGaps /\ LateInOrder <=> \A f \in Follower : Delivered(f))
  <2> SUFFICES ASSUME TypeOK
               PROVE  NothingLost /\ NoGaps /\ LateInOrder
                        <=> \A f \in Follower : Delivered(f)
    OBVIOUS
  <2>1. \A req \in late : req[1] \in Follower
    BY DEF TypeOK
  <2>2. NoGaps <=> \A f \in Follower : ~abandoned[f] => \A m \in accepted[f] : Earlier(f, m)
    BY DEF NoGaps, Earlier
  <2>3. LateInOrder <=> \A f \in Follower :
          ~abandoned[f] => \A req \in late : req[1] = f => Earlier(f, req[2])
    BY <2>1 DEF LateInOrder
  <2> QED BY <2>2, <2>3 DEF NothingLost, Delivered
<1> QED BY <1>1, <1>2, <1>3, <1>4, <1>5, <1>6, <1>7 DEF IInv, SInv, FollowerInv

\* What a step leaves alone for a follower keeps its invariant.
Untouched(f) ==
  /\ base'[f] = base[f] /\ sequence'[f] = sequence[f]
  /\ buffer'[f] = buffer[f]
  /\ handle'[f] = handle[f]
  /\ pc'[f] = pc[f] /\ inHand'[f] = inHand[f]
  /\ posted'[f] = posted[f] /\ reply'[f] = reply[f]
  /\ accepted'[f] = accepted[f] /\ expired'[f] = expired[f]
  /\ abandoned'[f] = abandoned[f]
  /\ \A req \in late' : req[1] = f => req \in late

LEMMA Frame ==
  ASSUME NEW f \in Follower, FollowerInv(f), Untouched(f)
  PROVE  FollowerInv(f)'
<1>1. Taken(f)' = Taken(f) /\ Buffered(f)' = Buffered(f)
  BY DEF Untouched, Taken, Buffered
<1>2. InOrder(f)' /\ Fresh(f)' /\ Past(f)'
  BY <1>1 DEF FollowerInv, Untouched, InOrder, Sorted, Fresh, Past
<1>3. Single(f)' /\ CarriesHead(f)' /\ Popped(f)'
  BY DEF FollowerInv, Untouched, Single, CarriesHead, Popped, Alive
<1>4. \A m : Earlier(f, m) => Earlier(f, m)'
  BY DEF Untouched, Earlier
<1>5. Kept(f) => Kept(f)'
  BY <1>1 DEF Untouched, Kept, Collecting
<1>6. Delivered(f)'
  BY <1>4, <1>5 DEF FollowerInv, Delivered, Untouched
<1> QED BY <1>2, <1>3, <1>6 DEF FollowerInv

LEMMA InitInv == Init => SInv
<1> SUFFICES ASSUME Init PROVE SInv
  OBVIOUS
<1>1. TypeOK
  BY InitType
<1>2. ASSUME NEW f \in Follower PROVE FollowerInv(f)
  <2>1. buffer[f] = << >> /\ DOMAIN buffer[f] = {}
    BY DEF Init
  <2>2. Taken(f) = 0 /\ base[f] + 1 .. Taken(f) = {}
    BY DEF Init, Taken
  <2>3. InOrder(f) /\ Fresh(f) /\ Past(f)
    BY <2>1, <2>2 DEF Init, InOrder, Sorted, Fresh, Past
  <2>4. Delivered(f)
    BY <2>2 DEF Init, Delivered, Kept
  <2>5. Single(f) /\ CarriesHead(f) /\ Popped(f)
    BY DEF Init, Single, CarriesHead, Popped, Alive
  <2> QED BY <2>3, <2>4, <2>5 DEF FollowerInv
<1> QED BY <1>1, <1>2 DEF SInv

\* The head of a sorted buffer that keeps everything has no undelivered
\* snapshot before it.
LEMMA HeadIsEarliest ==
  ASSUME TypeOK, NEW f \in Follower, FollowerInv(f), ~abandoned[f], buffer[f] # << >>
  PROVE  Earlier(f, buffer[f][1].n)
<1>1. buffer[f] \in Seq(Entry)
  BY DEF TypeOK, Entry
<1>2. Len(buffer[f]) \in Nat \ {0} /\ DOMAIN buffer[f] = 1 .. Len(buffer[f])
  BY <1>1, EmptySeq
<1>3. \A i \in DOMAIN buffer[f] : buffer[f][i] \in Entry
  BY <1>1, <1>2
<1>4. 1 \in DOMAIN buffer[f]
  BY <1>2
<1> SUFFICES ASSUME NEW n \in base[f] + 1 .. buffer[f][1].n - 1
             PROVE  n \in accepted[f] \cup expired[f]
  BY DEF Earlier
<1>5. base[f] \in Nat /\ sequence[f] \in Nat /\ buffer[f][1].n \in Nat
  BY <1>3, <1>4 DEF TypeOK, Entry
<1>6. n \in base[f] + 1 .. Taken(f) /\ n < buffer[f][1].n /\ n # Taken(f)
  BY <1>4, <1>5 DEF FollowerInv, Past, Taken
<1>7. n \notin Buffered(f)
  <2> SUFFICES ASSUME NEW i \in DOMAIN buffer[f], buffer[f][i].n = n PROVE FALSE
    BY DEF Buffered
  <2>1. i # 1
    BY <1>5, <1>6
  <2>2. 1 < i
    BY <1>2, <2>1
  <2>3. buffer[f][1].n < buffer[f][i].n
    BY <1>4, <2>2 DEF FollowerInv, InOrder, Sorted
  <2> QED BY <1>5, <1>6, <2>3
<1> QED BY <1>6, <1>7 DEF FollowerInv, Delivered, Kept

LEMMA OnlyThread ==
  ASSUME NEW f \in Follower, FollowerInv(f), ~abandoned[f],
         NEW s \in Thread, NEW t \in Thread, Alive(f, s), Alive(f, t)
  PROVE  s = t
BY DEF FollowerInv, Single

\* A step of a thread that has no snapshot in hand afterwards.
LEMMA NoneInHand ==
  ASSUME NEW f \in Follower, FollowerInv(f), NEW t \in Thread, Alive(f, t),
         abandoned'[f] = abandoned[f],
         \A s \in Thread : s # t => pc'[f][s] = pc[f][s],
         pc'[f][t] \notin {"number", "append"}
  PROVE  Fresh(f)'
<1> SUFFICES ASSUME ~abandoned[f], NEW s \in Thread,
                    pc'[f][s] \in {"number", "append"}
             PROVE  FALSE
  BY DEF Fresh
<1>1. s # t /\ Alive(f, s)
  BY DEF Alive
<1> QED BY <1>1, OnlyThread

\* Delivery survives every step that takes no snapshot and accounts for what
\* leaves the buffer.
LEMMA DeliveredGrows ==
  ASSUME NEW f \in Follower, Delivered(f), abandoned[f] => abandoned'[f],
         base'[f] = base[f], sequence'[f] = sequence[f],
         accepted[f] \subseteq accepted'[f], expired[f] \subseteq expired'[f],
         ~abandoned'[f] => \A n \in Buffered(f) :
           n \in accepted'[f] \cup Buffered(f)' \cup expired'[f],
         Collecting(f) => Collecting(f)',
         \A m \in accepted'[f] :
           m \in accepted[f] \/ (~abandoned'[f] => Earlier(f, m)),
         \A req \in late' : req[1] = f =>
           req \in late \/ (~abandoned'[f] => Earlier(f, req[2]))
  PROVE  Delivered(f)'
<1> SUFFICES ASSUME ~abandoned'[f]
             PROVE  /\ Kept(f)'
                    /\ \A m \in accepted'[f] : Earlier(f, m)'
                    /\ \A req \in late' : req[1] = f => Earlier(f, req[2])'
  BY DEF Delivered
<1>1. \A m : Earlier(f, m) => Earlier(f, m)'
  BY DEF Earlier
<1>2. Kept(f)'
  BY DEF Delivered, Kept, Taken
<1>3. \A m \in accepted'[f] : Earlier(f, m)
  BY DEF Delivered
<1>4. \A req \in late' : req[1] = f => Earlier(f, req[2])
  BY DEF Delivered
<1> QED BY <1>1, <1>2, <1>3, <1>4

\* A heartbeat's steps, one lemma for each kind.
LEMMA MoveInv ==
  ASSUME TypeOK, NEW f \in Follower, FollowerInv(f), NEW t \in Thread,
         ThreadExit(f, t) \/ SkipSnapshot(f, t) \/ Wake(f, t)
  PROVE  FollowerInv(f)'
<1>1. UNCHANGED <<base, sequence, buffer, handle, inHand, posted, reply, accepted,
                  expired, abandoned, late>>
  BY DEF ThreadExit, SkipSnapshot, Wake, historyVars
<1>2. \E l \in {"off", "top", "drain"} : Goto(f, t, l)
  BY DEF ThreadExit, SkipSnapshot, Wake
<1>3. Alive(f, t) /\ pc[f][t] \in {"top", "wait"}
  BY DEF ThreadExit, SkipSnapshot, Wake, Alive
<1>4. \A s \in Thread : s # t => pc'[f][s] = pc[f][s]
  BY <1>2 DEF Goto, TypeOK
<1>5. pc'[f][t] \in {"off", "top", "drain"}
  BY <1>2 DEF Goto, TypeOK
<1>6. Single(f)' /\ CarriesHead(f)' /\ Popped(f)'
  BY <1>1, <1>3, <1>4, <1>5 DEF FollowerInv, Single, CarriesHead, Popped, Alive
<1>7. InOrder(f)' /\ Past(f)'
  BY <1>1 DEF FollowerInv, InOrder, Sorted, Past, Taken
<1>8. Fresh(f)'
  BY <1>1, <1>3, <1>4, <1>5, NoneInHand
<1>9. Collecting(f) => Collecting(f)'
  BY <1>3, <1>4 DEF Collecting
<1>10. Delivered(f)'
  BY <1>1, <1>9 DEF FollowerInv, Taken, Delivered, Kept, Earlier, Buffered
<1> QED BY <1>6, <1>7, <1>8, <1>10 DEF FollowerInv

LEMMA CountSnapshotInv ==
  ASSUME TypeOK, NEW f \in Follower, FollowerInv(f), NEW t \in Thread,
         CountSnapshot(f, t)
  PROVE  FollowerInv(f)'
<1> DEFINE n == NextSnapshot(f)
<1>1. /\ base[f] \in Nat /\ sequence[f] \in Nat /\ Taken(f) \in Nat /\ n \in Nat
      /\ n = Taken(f) \/ n = Taken(f) + 1
      /\ n = Taken(f) => buffer[f] = << >>
  <2>1. base[f] \in Nat /\ sequence[f] \in Nat /\ Taken(f) \in Nat
    BY DEF TypeOK, Taken
  <2>2. MayTake(f)
    BY DEF CountSnapshot
  <2> QED BY <2>1, <2>2 DEF NextSnapshot, MayTake
<1>2. Taken(f)' = n
  <2>1. sequence'[f] = n - base[f] /\ base'[f] = base[f]
    BY DEF CountSnapshot, TypeOK
  <2> QED BY <1>1, <2>1 DEF Taken
<1>3. UNCHANGED <<base, buffer, handle, inHand, posted, reply, late, accepted,
                  expired, abandoned>>
  BY DEF CountSnapshot, historyVars
<1>4. /\ pc[f][t] = "top" /\ Alive(f, t)
      /\ pc'[f][t] = "number"
      /\ \A s \in Thread : s # t => pc'[f][s] = pc[f][s]
  BY DEF CountSnapshot, Goto, TypeOK, Alive
<1> HIDE DEF n
<1>5. ASSUME ~abandoned[f], NEW s \in Thread, s # t PROVE ~Alive(f, s)
  BY <1>4, <1>5, OnlyThread
<1>6. Delivered(f)'
  <2> SUFFICES ASSUME ~abandoned[f]
               PROVE  /\ Kept(f)'
                      /\ \A m \in accepted[f] : Earlier(f, m)'
                      /\ \A req \in late : req[1] = f => Earlier(f, req[2])'
    BY <1>3 DEF Delivered
  <2>1. Kept(f) /\ ~Collecting(f)
    BY <1>4, <1>5 DEF FollowerInv, Delivered, Collecting, Alive
  <2>2. Collecting(f)' /\ Buffered(f)' = Buffered(f)
    BY <1>3, <1>4 DEF Collecting, Buffered
  <2>3. \A m \in base[f] + 1 .. n : m = n \/ m \in base[f] + 1 .. Taken(f)
    BY <1>1
  <2>4. Kept(f)'
    BY <1>2, <1>3, <2>1, <2>2, <2>3 DEF Kept
  <2>5. \A m : Earlier(f, m) => Earlier(f, m)'
    BY <1>3 DEF Earlier
  <2> QED BY <2>4, <2>5 DEF FollowerInv, Delivered
<1>7. \A m \in Nat : m <= Taken(f) => m <= n
  BY <1>1
<1>8. Past(f)'
  <2>1. /\ \A s \in Thread : posted[f][s] \in Nat /\ inHand[f][s] \in Nat
        /\ \A m \in accepted[f] : m \in Nat
        /\ \A req \in late : req[2] \in Nat
        /\ buffer[f] \in Seq(Entry)
    BY DEF TypeOK, Entry
  <2>2. \A i \in DOMAIN buffer[f] : buffer[f][i] \in Entry
    BY <2>1
  <2>3. \A i \in DOMAIN buffer[f] : buffer[f][i].n \in Nat
    BY <2>2 DEF Entry
  <2> QED BY <1>2, <1>3, <1>7, <2>1, <2>3 DEF FollowerInv, Past
<1>9. Fresh(f)'
  <2> SUFFICES ASSUME ~abandoned[f], NEW s \in Thread,
                      pc'[f][s] \in {"number", "append"}
               PROVE  /\ \A i \in DOMAIN buffer[f] : buffer[f][i].n < n
                      /\ pc'[f][s] # "append"
    BY <1>2, <1>3 DEF Fresh
  <2>1. s = t
    BY <1>4, <1>5 DEF Alive
  <2>2. \A i \in DOMAIN buffer[f] : buffer[f][i].n \in Nat
    <3>1. buffer[f] \in Seq(Entry)
      BY DEF TypeOK, Entry
    <3>2. \A i \in DOMAIN buffer[f] : buffer[f][i] \in Entry
      BY <3>1
    <3> QED BY <3>2 DEF Entry
  <2>3. \A i \in DOMAIN buffer[f] : buffer[f][i].n < n
    <3>1. CASE n = Taken(f) + 1
      BY <1>1, <2>2, <3>1 DEF FollowerInv, Past
    <3>2. CASE buffer[f] = << >>
      BY <3>2
    <3> QED BY <1>1, <3>1, <3>2
  <2> QED BY <1>4, <2>1, <2>3
<1>10. InOrder(f)' /\ Single(f)' /\ CarriesHead(f)' /\ Popped(f)'
  <2>1. InOrder(f)' /\ CarriesHead(f)'
    BY <1>3, <1>4 DEF FollowerInv, InOrder, Sorted, CarriesHead
  <2>2. Single(f)' /\ Popped(f)'
    BY <1>3, <1>4 DEF FollowerInv, Single, Popped, Alive
  <2> QED BY <2>1, <2>2
<1> QED BY <1>6, <1>8, <1>9, <1>10 DEF FollowerInv

LEMMA NumberSnapshotInv ==
  ASSUME TypeOK, NEW f \in Follower, FollowerInv(f), NEW t \in Thread,
         NumberSnapshot(f, t)
  PROVE  FollowerInv(f)'
<1>1. UNCHANGED <<base, sequence, buffer, handle, posted, reply, late, accepted,
                  expired, abandoned>>
  BY DEF NumberSnapshot, historyVars
<1>2. /\ pc[f][t] = "number" /\ Alive(f, t)
      /\ pc'[f][t] = "append" /\ inHand'[f][t] = Taken(f)
      /\ \A s \in Thread : s # t => /\ pc'[f][s] = pc[f][s]
                                    /\ inHand'[f][s] = inHand[f][s]
  BY DEF NumberSnapshot, Goto, TypeOK, Alive
<1>3. Taken(f)' = Taken(f) /\ Taken(f) \in Nat
  BY <1>1 DEF Taken, TypeOK
<1>4. Delivered(f)'
  <2>1. Delivered(f) /\ Buffered(f)' = Buffered(f)
    BY <1>1 DEF FollowerInv, Buffered
  <2>2. Collecting(f)'
    BY <1>2 DEF Collecting
  <2> QED BY <1>1, <2>1, <2>2, DeliveredGrows
<1>5. Fresh(f)'
  <2> SUFFICES ASSUME ~abandoned[f], NEW s \in Thread,
                      pc'[f][s] \in {"number", "append"}
               PROVE  /\ \A i \in DOMAIN buffer[f] : buffer[f][i].n < Taken(f)
                      /\ inHand'[f][s] = Taken(f)
    BY <1>1, <1>3 DEF Fresh
  <2>1. s = t
    <3>1. s # t => Alive(f, s)
      BY <1>2 DEF Alive
    <3> QED BY <1>2, <3>1, OnlyThread
  <2> QED BY <1>2, <2>1 DEF FollowerInv, Fresh
<1>6. Past(f)'
  BY <1>1, <1>2, <1>3 DEF FollowerInv, Past
<1>7. InOrder(f)' /\ CarriesHead(f)'
  BY <1>1, <1>2 DEF FollowerInv, InOrder, Sorted, CarriesHead
<1>8. Single(f)' /\ Popped(f)'
  BY <1>1, <1>2 DEF FollowerInv, Single, Popped, Alive
<1> QED BY <1>4, <1>5, <1>6, <1>7, <1>8 DEF FollowerInv

LEMMA AppendSnapshotInv ==
  ASSUME TypeOK, NEW f \in Follower, FollowerInv(f), NEW t \in Thread,
         AppendSnapshot(f, t)
  PROVE  FollowerInv(f)'
<1> DEFINE n == inHand[f][t]
           b == Pruned(buffer[f])
           e == [n |-> n, age |-> 0]
<1>1. /\ buffer[f] \in Seq(Entry) /\ b \in Seq(Entry)
      /\ n \in Nat /\ Taken(f) \in Nat /\ n <= Taken(f)
  BY PrunedType DEF TypeOK, Entry, Taken, FollowerInv, Past
<1>2. e \in Entry /\ e.n = n /\ e.age = 0
  BY <1>1 DEF Entry
<1>3. UNCHANGED <<base, sequence, posted, reply, accepted, late, abandoned, handle>>
  BY DEF AppendSnapshot
<1>4. /\ pc[f][t] = "append" /\ Alive(f, t)
      /\ pc'[f][t] = "drain" /\ inHand'[f][t] = 0
      /\ \A s \in Thread : s # t => /\ pc'[f][s] = pc[f][s]
                                    /\ inHand'[f][s] = inHand[f][s]
  BY DEF AppendSnapshot, Goto, TypeOK, Alive
<1>5. /\ buffer'[f] = Append(b, e)
      /\ expired'[f] = expired[f] \cup Dropped(buffer[f])
  BY DEF AppendSnapshot, TypeOK
<1> HIDE DEF e, b
<1>6. /\ Holds(buffer[f]) = Dropped(buffer[f]) \cup Holds(b)
      /\ Sorted(buffer[f]) => Sorted(b)
  BY <1>1, PrunedKeeps DEF b
<1>7. \A m \in Holds(buffer[f]) : m \in Nat /\ m <= Taken(f)
  <2>1. \A i \in DOMAIN buffer[f] : buffer[f][i] \in Entry
    BY <1>1
  <2> QED BY <2>1 DEF Holds, FollowerInv, Past, Entry
<1>8. ~abandoned[f] => n = Taken(f) /\ \A m \in Holds(buffer[f]) : m < n
  BY <1>4 DEF FollowerInv, Fresh, Holds
<1>9. Holds(buffer'[f]) = Holds(b) \cup {n}
  BY <1>1, <1>2, <1>5, AppendKeeps
<1>10. InOrder(f)'
  <2> SUFFICES ASSUME ~abandoned[f] PROVE Sorted(buffer'[f])
    BY <1>3 DEF InOrder
  <2>1. Sorted(b)
    BY <1>6 DEF FollowerInv, InOrder
  <2>2. \A i \in DOMAIN b : b[i].n < n
    BY <1>6, <1>8 DEF Holds
  <2> QED BY <1>1, <1>2, <1>5, <2>1, <2>2, AppendKeeps
<1> HIDE DEF n
<1>11. Delivered(f)'
  <2> SUFFICES ASSUME ~abandoned[f]
               PROVE  /\ Kept(f)'
                      /\ \A m \in accepted[f] : Earlier(f, m)'
                      /\ \A req \in late : req[1] = f => Earlier(f, req[2])'
    BY <1>3 DEF Delivered
  <2>1. Kept(f)
    BY DEF FollowerInv, Delivered
  <2>2. Buffered(f) = Holds(buffer[f]) /\ Buffered(f)' = Holds(buffer'[f])
    BY DEF Buffered, Holds
  <2>3. Kept(f)'
    <3> SUFFICES ASSUME NEW m \in base[f] + 1 .. Taken(f)
                 PROVE  m \in accepted[f] \cup Buffered(f)' \cup expired'[f]
      BY <1>3 DEF Kept, Taken
    <3>1. CASE m = n
      BY <1>9, <2>2, <3>1
    <3>2. CASE m # n
      BY <1>5, <1>6, <1>8, <1>9, <2>1, <2>2, <3>2 DEF Kept
    <3> QED BY <3>1, <3>2
  <2>4. \A m : Earlier(f, m) => Earlier(f, m)'
    BY <1>3, <1>5 DEF Earlier
  <2> QED BY <2>3, <2>4 DEF FollowerInv, Delivered
<1>12. Past(f)'
  <2>1. Taken(f)' = Taken(f)
    BY <1>3 DEF Taken
  <2>2. \A m \in Holds(buffer'[f]) : m <= Taken(f)
    BY <1>1, <1>6, <1>7, <1>9
  <2>3. \A i \in DOMAIN buffer'[f] : buffer'[f][i].n <= Taken(f)
    BY <2>2 DEF Holds
  <2>4. \A s \in Thread : inHand'[f][s] <= Taken(f)
    BY <1>1, <1>4 DEF FollowerInv, Past
  <2> QED BY <1>3, <2>1, <2>3, <2>4 DEF FollowerInv, Past
<1>13. Fresh(f)'
  BY <1>3, <1>4, NoneInHand
<1>14. CarriesHead(f)'
  <2> SUFFICES ASSUME ~abandoned[f], NEW s \in Thread,
                      pc'[f][s] \in {"post", "replied", "pop"}
               PROVE  FALSE
    BY <1>3 DEF CarriesHead
  <2>1. s # t /\ Alive(f, s)
    BY <1>4 DEF Alive
  <2> QED BY <1>4, <2>1, OnlyThread
<1>15. Single(f)' /\ Popped(f)'
  BY <1>3, <1>4 DEF FollowerInv, Single, Popped, Alive
<1> QED BY <1>10, <1>11, <1>12, <1>13, <1>14, <1>15 DEF FollowerInv

LEMMA DrainHeadInv ==
  ASSUME TypeOK, NEW f \in Follower, FollowerInv(f), NEW t \in Thread, DrainHead(f, t)
  PROVE  FollowerInv(f)'
<1> DEFINE b == Pruned(buffer[f])
<1>1. buffer[f] \in Seq(Entry) /\ b \in Seq(Entry)
  BY PrunedType DEF TypeOK, Entry
<1>2. /\ Holds(buffer[f]) = Dropped(buffer[f]) \cup Holds(b)
      /\ Sorted(buffer[f]) => Sorted(b)
  BY <1>1, PrunedKeeps
<1>3. buffer'[f] = b /\ expired'[f] = expired[f] \cup Dropped(buffer[f])
  BY DEF DrainHead, TypeOK
<1>4. UNCHANGED <<base, sequence, handle, inHand, reply, accepted, late, abandoned>>
  BY DEF DrainHead
<1>5. Buffered(f) = Holds(buffer[f]) /\ Buffered(f)' = Holds(b)
  BY <1>3 DEF Buffered, Holds
<1>6. /\ pc[f][t] = "drain" /\ Alive(f, t)
      /\ pc'[f][t] \in {"wait", "dead", "post"}
      /\ \A s \in Thread : s # t => pc'[f][s] = pc[f][s] /\ posted'[f][s] = posted[f][s]
  BY DEF DrainHead, Goto, TypeOK, Alive
<1>7. \/ posted'[f][t] = posted[f][t] /\ pc'[f][t] # "post"
      \/ b # << >> /\ posted'[f][t] = b[1].n
  <2>1. CASE posted' = posted /\ (Goto(f, t, "wait") \/ Goto(f, t, "dead"))
    BY <2>1 DEF Goto, TypeOK
  <2>2. CASE b # << >> /\ posted' = [posted EXCEPT ![f][t] = b[1].n]
    <3> HIDE DEF b
    <3> QED BY <2>2 DEF TypeOK
  <2> QED BY <2>1, <2>2 DEF DrainHead
<1> HIDE DEF b
<1>8. Delivered(f)'
  <2>1. Delivered(f)
    BY DEF FollowerInv
  <2>2. Collecting(f) => Collecting(f)'
    BY <1>6 DEF Collecting
  <2> QED BY <1>2, <1>3, <1>4, <1>5, <2>1, <2>2, DeliveredGrows
<1>9. Past(f)'
  <2>1. Taken(f)' = Taken(f)
    BY <1>4 DEF Taken
  <2>2. \A m \in Holds(buffer[f]) : m <= Taken(f)
    BY DEF Holds, FollowerInv, Past
  <2>3. \A m \in Holds(b) : m <= Taken(f)
    BY <1>2, <2>2
  <2>4. \A i \in DOMAIN b : b[i].n <= Taken(f)
    BY <2>3 DEF Holds
  <2>5. b # << >> => b[1].n <= Taken(f)
    BY <1>1, <2>4, EmptySeq
  <2>6. \A s \in Thread : posted'[f][s] <= Taken(f)
    BY <1>6, <1>7, <2>5 DEF FollowerInv, Past
  <2> QED BY <1>3, <1>4, <2>1, <2>4, <2>6 DEF FollowerInv, Past
<1>10. CarriesHead(f)'
  <2> SUFFICES ASSUME ~abandoned[f], NEW s \in Thread,
                      pc'[f][s] \in {"post", "replied", "pop"}
               PROVE  b # << >> /\ posted'[f][s] = b[1].n
    BY <1>3, <1>4 DEF CarriesHead
  <2>1. CASE s = t
    BY <1>6, <1>7, <2>1
  <2>2. CASE s # t
    <3>1. Alive(f, s)
      BY <1>6, <2>2 DEF Alive
    <3> QED BY <1>6, <2>2, <3>1, OnlyThread
  <2> QED BY <2>1, <2>2
<1>11. Single(f)' /\ Popped(f)'
  BY <1>4, <1>6 DEF FollowerInv, Single, Popped, Alive
<1>12. InOrder(f)' /\ Fresh(f)'
  BY <1>2, <1>3, <1>4, <1>6, NoneInHand DEF FollowerInv, InOrder
<1> QED BY <1>8, <1>9, <1>10, <1>11, <1>12 DEF FollowerInv

\* A POST that comes to an end without a delivery leaves the head where it is.
LEMMA FailInv ==
  ASSUME TypeOK, NEW f \in Follower, FollowerInv(f), NEW t \in Thread,
         PostFails(f, t) \/ ReplyLost(f, t) \/ TakeReply(f, t)
  PROVE  FollowerInv(f)'
<1>1. UNCHANGED <<base, sequence, buffer, handle, inHand, accepted, expired, abandoned>>
  BY DEF PostFails, ReplyLost, TakeReply, historyVars, leaderVars
<1>2. /\ pc[f][t] \in {"post", "replied"} /\ Alive(f, t)
      /\ \A s \in Thread : s # t => /\ pc'[f][s] = pc[f][s]
                                    /\ posted'[f][s] = posted[f][s]
                                    /\ reply'[f][s] = reply[f][s]
  BY DEF PostFails, ReplyLost, TakeReply, Goto, TypeOK, Alive
<1>3. \/ pc'[f][t] \in {"wait", "dead"} /\ posted'[f][t] = 0
      \/ /\ pc[f][t] = "replied" /\ reply[f][t] = 202
         /\ pc'[f][t] = "pop" /\ posted'[f][t] = posted[f][t]
  <2>1. CASE PostFails(f, t)
    BY <2>1 DEF PostFails, Goto, TypeOK
  <2>2. CASE ReplyLost(f, t)
    BY <2>2 DEF ReplyLost, Goto, TypeOK
  <2>3. CASE TakeReply(f, t)
    BY <2>3 DEF TakeReply, Goto, TypeOK
  <2> QED BY <2>1, <2>2, <2>3
<1>4. \A req \in late' : req \in late
        \/ (req[1] = f /\ req[2] = posted[f][t] /\ pc[f][t] = "post")
  BY DEF PostFails, ReplyLost, TakeReply
<1>5. ~abandoned[f] /\ pc[f][t] = "post" => Earlier(f, posted[f][t])
  <2> SUFFICES ASSUME ~abandoned[f], pc[f][t] = "post"
               PROVE  Earlier(f, posted[f][t])
    OBVIOUS
  <2>1. buffer[f] # << >> /\ posted[f][t] = buffer[f][1].n
    BY DEF FollowerInv, CarriesHead
  <2> QED BY <2>1, HeadIsEarliest
<1>6. Delivered(f)'
  <2>1. Delivered(f)
    BY DEF FollowerInv
  <2>2. Buffered(f)' = Buffered(f)
    BY <1>1 DEF Buffered
  <2>3. ~abandoned'[f] => \A n \in Buffered(f) :
          n \in accepted'[f] \cup Buffered(f)' \cup expired'[f]
    BY <2>2
  <2>4. \A req \in late' : req[1] = f =>
          req \in late \/ (~abandoned'[f] => Earlier(f, req[2]))
    BY <1>1, <1>4, <1>5
  <2>5. Collecting(f) => Collecting(f)'
    BY <1>2 DEF Collecting
  <2> QED BY <1>1, <2>1, <2>3, <2>4, <2>5, DeliveredGrows
<1>7. Past(f)'
  <2>1. Taken(f)' = Taken(f) /\ Taken(f) \in Nat /\ posted[f][t] <= Taken(f)
    BY <1>1 DEF Taken, TypeOK, FollowerInv, Past
  <2>2. \A s \in Thread : posted'[f][s] <= Taken(f)
    BY <1>2, <1>3, <2>1 DEF FollowerInv, Past
  <2>3. \A req \in late' : req[1] = f => req[2] <= Taken(f)
    BY <1>4, <2>1 DEF FollowerInv, Past
  <2> QED BY <1>1, <2>1, <2>2, <2>3 DEF FollowerInv, Past
<1>8. Single(f)' /\ CarriesHead(f)' /\ Popped(f)'
  <2>1. Single(f)'
    BY <1>1, <1>2 DEF FollowerInv, Single, Alive
  <2>2. CarriesHead(f)'
    BY <1>1, <1>2, <1>3 DEF FollowerInv, CarriesHead
  <2>3. Popped(f)'
    BY <1>1, <1>2, <1>3 DEF FollowerInv, Popped
  <2> QED BY <2>1, <2>2, <2>3
<1>9. Fresh(f)'
  BY <1>1, <1>2, <1>3, NoneInHand
<1> QED BY <1>1, <1>6, <1>7, <1>8, <1>9 DEF FollowerInv, InOrder

LEMMA PopHeadInv ==
  ASSUME TypeOK, NEW f \in Follower, FollowerInv(f), NEW t \in Thread, PopHead(f, t)
  PROVE  FollowerInv(f)'
<1> DEFINE b == buffer[f]
<1>1. UNCHANGED <<base, sequence, handle, inHand, reply, accepted, expired, abandoned,
                  late>>
  BY DEF PopHead, historyVars
<1>2. /\ pc[f][t] = "pop" /\ Alive(f, t)
      /\ pc'[f][t] \in {"drain", "dead"}
      /\ posted'[f][t] = 0
      /\ \A s \in Thread : s # t => pc'[f][s] = pc[f][s] /\ posted'[f][s] = posted[f][s]
  BY DEF PopHead, Goto, TypeOK, Alive
<1>3. \/ b = << >> /\ buffer'[f] = b
      \/ b # << >> /\ buffer'[f] = Tail(b)
  <2>1. CASE b = << >> /\ buffer' = buffer
    BY <2>1
  <2>2. CASE b # << >> /\ buffer' = [buffer EXCEPT ![f] = Tail(@)]
    BY <2>2 DEF TypeOK
  <2> QED BY <2>1, <2>2 DEF PopHead
<1>4. b \in Seq(Entry)
  BY DEF TypeOK, Entry
<1>5. b # << >> => /\ Tail(b) \in Seq(Entry)
                   /\ Holds(b) = {b[1].n} \cup Holds(Tail(b))
                   /\ Sorted(b) => Sorted(Tail(b))
  BY <1>4, TailKeeps
<1>6. InOrder(f)'
  BY <1>1, <1>3, <1>5 DEF FollowerInv, InOrder
<1>7. Buffered(f) = Holds(b) /\ Buffered(f)' = Holds(buffer'[f])
  BY DEF Buffered, Holds
<1>8. ~abandoned[f] => \A n \in Buffered(f) : n \in accepted[f] \cup Buffered(f)'
  <2> SUFFICES ASSUME ~abandoned[f], NEW n \in Buffered(f)
               PROVE  n \in accepted[f] \cup Buffered(f)'
    OBVIOUS
  <2>1. b # << >> /\ posted[f][t] = b[1].n
    BY <1>2 DEF FollowerInv, CarriesHead
  <2>2. b[1].n \in accepted[f]
    BY <1>2, <2>1 DEF FollowerInv, Popped
  <2>3. buffer'[f] = Tail(b)
    BY <1>3, <2>1
  <2> HIDE DEF b
  <2> QED BY <1>5, <1>7, <2>1, <2>2, <2>3
<1>9. Delivered(f)'
  <2>1. Delivered(f)
    BY DEF FollowerInv
  <2>2. Collecting(f) => Collecting(f)'
    BY <1>2 DEF Collecting
  <2> QED BY <1>1, <1>8, <2>1, <2>2, DeliveredGrows
<1>10. Past(f)'
  <2>1. Taken(f)' = Taken(f) /\ Taken(f) \in Nat
    BY <1>1 DEF Taken, TypeOK
  <2>2. Holds(buffer'[f]) \subseteq Holds(b)
    BY <1>3, <1>5
  <2>3. \A m \in Holds(b) : m <= Taken(f)
    BY DEF Holds, FollowerInv, Past
  <2>4. \A i \in DOMAIN buffer'[f] : buffer'[f][i].n <= Taken(f)
    BY <2>2, <2>3 DEF Holds
  <2>5. \A s \in Thread : posted'[f][s] <= Taken(f)
    BY <1>2, <2>1 DEF FollowerInv, Past
  <2> QED BY <1>1, <2>1, <2>4, <2>5 DEF FollowerInv, Past
<1>11. CarriesHead(f)'
  <2> SUFFICES ASSUME ~abandoned[f], NEW s \in Thread,
                      pc'[f][s] \in {"post", "replied", "pop"}
               PROVE  FALSE
    BY <1>1 DEF CarriesHead
  <2>1. s # t /\ Alive(f, s)
    BY <1>2 DEF Alive
  <2> QED BY <1>2, <2>1, OnlyThread
<1>12. Single(f)' /\ Popped(f)'
  BY <1>1, <1>2 DEF FollowerInv, Single, Popped, Alive
<1>13. Fresh(f)'
  BY <1>1, <1>2, NoneInHand
<1> QED BY <1>6, <1>9, <1>10, <1>11, <1>12, <1>13 DEF FollowerInv

\* start_follower, stop_follower and its join.
LEMMA ControlInv ==
  ASSUME TypeOK, NEW f \in Follower, FollowerInv(f),
         StartFollower(f) \/ StopFollower(f) \/ JoinFollower(f)
  PROVE  FollowerInv(f)'
<1>1. UNCHANGED <<base, sequence, buffer, inHand, posted, reply, accepted, expired, late>>
  BY DEF StartFollower, StopFollower, JoinFollower, leaderVars, historyVars
<1>2. abandoned[f] => abandoned'[f]
  <2>1. CASE StartFollower(f)
    BY <2>1 DEF StartFollower, historyVars
  <2>2. CASE StopFollower(f)
    BY <2>2 DEF StopFollower, historyVars
  <2>3. CASE JoinFollower(f)
    BY <2>3 DEF JoinFollower, TypeOK
  <2> QED BY <2>1, <2>2, <2>3
<1>3. \A s \in Thread : pc'[f][s] = pc[f][s] \/ (pc'[f][s] = "top" /\ ~Alive(f, s))
  <2>1. CASE StartFollower(f)
    <3>1. \E t \in Thread : pc' = [pc EXCEPT ![f][t] = "top"] /\ ~Alive(f, t)
      BY <2>1 DEF StartFollower, Goto, Thread
    <3> QED BY <3>1 DEF TypeOK
  <2>2. CASE StopFollower(f) \/ JoinFollower(f)
    BY <2>2 DEF StopFollower, JoinFollower
  <2> QED BY <2>1, <2>2
<1>4. InOrder(f)' /\ Past(f)'
  BY <1>1, <1>2 DEF FollowerInv, InOrder, Sorted, Past, Taken
<1>8. Fresh(f)'
  BY <1>1, <1>2, <1>3 DEF FollowerInv, Fresh, Taken
<1>5. Delivered(f)'
  <2>1. Delivered(f) /\ Buffered(f)' = Buffered(f)
    BY <1>1 DEF FollowerInv, Buffered
  <2>2. Collecting(f) => Collecting(f)'
    BY <1>3 DEF Collecting, Alive
  <2> QED BY <1>1, <1>2, <2>1, <2>2, DeliveredGrows
<1>6. CarriesHead(f)' /\ Popped(f)'
  BY <1>1, <1>2, <1>3 DEF FollowerInv, CarriesHead, Popped
<1>7. Single(f)'
  <2> SUFFICES ASSUME ~abandoned'[f], NEW s \in Thread, Alive(f, s)'
               PROVE  handle'[f] = s
    BY DEF Single
  <2>1. ~abandoned[f]
    BY <1>2
  <2>2. CASE StartFollower(f)
    <3>1. ~Alive(f, 1) /\ ~Alive(f, 2)
      BY <2>1, <2>2 DEF StartFollower, FollowerInv, Single, Thread, NoThread
    <3>2. handle'[f] = 1 /\ pc' = [pc EXCEPT ![f][1] = "top"]
      BY <2>2, <3>1 DEF StartFollower, Goto, TypeOK
    <3>3. s # 1 => pc'[f][s] = pc[f][s]
      BY <3>2 DEF TypeOK
    <3> QED BY <3>1, <3>2, <3>3 DEF Alive, Thread
  <2>3. CASE StopFollower(f)
    BY <2>1, <2>3 DEF StopFollower, FollowerInv, Single, Alive
  <2>4. CASE JoinFollower(f)
    <3>1. pc' = pc /\ Alive(f, s)
      BY <2>4 DEF JoinFollower, Alive
    <3>2. handle[f] = s
      BY <2>1, <3>1 DEF FollowerInv, Single
    <3>3. abandoned' = [abandoned EXCEPT ![f] = TRUE]
      BY <2>4, <3>1, <3>2 DEF JoinFollower
    <3> QED BY <3>3 DEF TypeOK
  <2> QED BY <2>2, <2>3, <2>4
<1> QED BY <1>4, <1>5, <1>6, <1>7, <1>8 DEF FollowerInv

\* A follower process that starts again has taken nothing yet.
LEMMA RestartInv ==
  ASSUME TypeOK, NEW f \in Follower, FollowerInv(f), RestartFollower(f)
  PROVE  FollowerInv(f)'
<1>1. /\ base'[f] = Taken(f) /\ sequence'[f] = 0 /\ buffer'[f] = << >>
      /\ UNCHANGED <<accepted, expired>>
  BY DEF RestartFollower, TypeOK
<1>2. \A s \in Thread : pc'[f][s] = "off" /\ posted'[f][s] = 0 /\ inHand'[f][s] = 0
  BY DEF RestartFollower, TypeOK
<1>3. Taken(f) \in Nat
  BY DEF Taken, TypeOK
<1>4. Taken(f)' = Taken(f)
  BY <1>1, <1>3 DEF Taken
<1>5. \A req \in late' : req[1] = f => req[2] <= Taken(f)
  <2>1. \A req \in late' : req \in late \/ \E s \in Thread :
          req = <<f, posted[f][s], policy[f]>>
    BY DEF RestartFollower
  <2> QED BY <2>1 DEF FollowerInv, Past
<1>6. Past(f)'
  BY <1>1, <1>2, <1>3, <1>4, <1>5 DEF FollowerInv, Past
<1>7. Delivered(f)'
  <2>1. base'[f] + 1 .. Taken(f)' = {}
    BY <1>1, <1>3, <1>4
  <2>2. \A m \in Nat : m <= Taken(f) => base'[f] + 1 .. m - 1 = {}
    BY <1>1, <1>3
  <2>3. \A m \in accepted'[f] : m \in Nat /\ m <= Taken(f)
    BY <1>1 DEF TypeOK, FollowerInv, Past
  <2>4. \A req \in late' : req[1] = f => req[2] \in Nat /\ req[2] <= Taken(f)
    <3>1. late' \in SUBSET (Follower \X Nat \X PolicyName)
      BY DEF RestartFollower, TypeOK
    <3> QED BY <1>5, <3>1
  <2>5. Kept(f)'
    BY <2>1 DEF Kept
  <2>6. \A m \in accepted'[f] : Earlier(f, m)'
    BY <2>2, <2>3 DEF Earlier
  <2>7. \A req \in late' : req[1] = f => Earlier(f, req[2])'
    BY <2>2, <2>4 DEF Earlier
  <2> QED BY <2>5, <2>6, <2>7 DEF Delivered
<1>8. InOrder(f)' /\ Fresh(f)' /\ Single(f)' /\ CarriesHead(f)' /\ Popped(f)'
  BY <1>1, <1>2 DEF InOrder, Sorted, Fresh, Single, CarriesHead, Popped, Alive
<1> QED BY <1>6, <1>7, <1>8 DEF FollowerInv

\* What receive_snapshot does to the delivery of follower f when it is given a
\* snapshot that has no undelivered one before it.
LEMMA AcceptInv ==
  ASSUME TypeOK, NEW f \in Follower, NEW n \in Nat, NEW p \in PolicyName,
         Delivered(f), Record(f, n, p), Collecting(f) => Collecting(f)',
         ~abandoned[f] => Earlier(f, n),
         UNCHANGED <<base, sequence, buffer, expired, abandoned>>,
         \A req \in late' : req \in late
  PROVE  Delivered(f)' /\ accepted[f] \subseteq accepted'[f]
         /\ accepted'[f] \subseteq accepted[f] \cup {n}
         /\ (Status(p) = 202 => n \in accepted'[f])
<1>1. /\ accepted[f] \subseteq accepted'[f]
      /\ accepted'[f] \subseteq accepted[f] \cup {n}
      /\ Status(p) = 202 => n \in accepted'[f]
  BY DEF Record, TypeOK
<1>2. Buffered(f)' = Buffered(f)
  BY DEF Buffered
<1> QED BY <1>1, <1>2, DeliveredGrows

LEMMA HandlePostInv ==
  ASSUME TypeOK, NEW f \in Follower, FollowerInv(f), NEW t \in Thread, HandlePost(f, t)
  PROVE  FollowerInv(f)'
<1> DEFINE n == posted[f][t]
<1>1. UNCHANGED <<base, sequence, buffer, handle, inHand, posted, expired, abandoned, late>>
  BY DEF HandlePost
<1>2. /\ n \in Nat /\ n <= Taken(f) /\ policy[f] \in PolicyName
      /\ Record(f, n, policy[f])
      /\ pc[f][t] = "post" /\ Alive(f, t)
  BY DEF HandlePost, TypeOK, FollowerInv, Past, Alive
<1>3. ~abandoned[f] => Earlier(f, n)
  <2> SUFFICES ASSUME ~abandoned[f] PROVE Earlier(f, n)
    OBVIOUS
  <2>1. buffer[f] # << >> /\ n = buffer[f][1].n
    BY <1>2 DEF FollowerInv, CarriesHead
  <2> QED BY <2>1, HeadIsEarliest
<1> HIDE DEF n
<1>5. /\ pc'[f][t] = "replied" /\ reply'[f][t] = Status(policy[f])
      /\ \A s \in Thread : s # t => pc'[f][s] = pc[f][s] /\ reply'[f][s] = reply[f][s]
  BY DEF HandlePost, Goto, TypeOK
<1>4. /\ Delivered(f)' /\ accepted[f] \subseteq accepted'[f]
      /\ accepted'[f] \subseteq accepted[f] \cup {n}
      /\ Status(policy[f]) = 202 => n \in accepted'[f]
  <2>1. Delivered(f)
    BY DEF FollowerInv
  <2>2. Collecting(f) => Collecting(f)'
    BY <1>2, <1>5 DEF Collecting
  <2> QED BY <1>1, <1>2, <1>3, <2>1, <2>2, AcceptInv
<1>6. InOrder(f)' /\ Past(f)'
  <2>1. Taken(f)' = Taken(f)
    BY <1>1 DEF Taken
  <2>2. \A m \in accepted'[f] : m <= Taken(f)
    BY <1>2, <1>4 DEF FollowerInv, Past
  <2> QED BY <1>1, <2>1, <2>2 DEF FollowerInv, InOrder, Sorted, Past
<1>7. Single(f)'
  BY <1>1, <1>2, <1>5 DEF FollowerInv, Single, Alive
<1>8. CarriesHead(f)'
  BY <1>1, <1>2, <1>5 DEF FollowerInv, CarriesHead
<1>9. Popped(f)'
  BY <1>1, <1>4, <1>5 DEF FollowerInv, Popped, n
<1>10. Fresh(f)'
  BY <1>1, <1>2, <1>5, NoneInHand
<1> QED BY <1>4, <1>6, <1>7, <1>8, <1>9, <1>10 DEF FollowerInv

\* do_POST for a client that is gone.
LEMMA HandleLateInv ==
  ASSUME TypeOK, NEW f \in Follower, FollowerInv(f), HandleLate
  PROVE  FollowerInv(f)'
<1> PICK req \in late : Record(req[1], req[2], req[3]) /\ late' = late \ {req}
  BY DEF HandleLate
<1>1. req[1] \in Follower /\ req[2] \in Nat /\ req[3] \in PolicyName
  BY DEF TypeOK
<1>2. UNCHANGED <<base, sequence, buffer, handle, pc, inHand, posted, reply, expired,
                  abandoned>>
  BY DEF HandleLate, followerVars
<1>3. CASE req[1] # f
  <2>1. accepted'[f] = accepted[f]
    BY <1>3 DEF Record, TypeOK
  <2>2. Untouched(f)
    BY <1>2, <2>1 DEF Untouched
  <2> QED BY <2>2, Frame
<1>4. CASE req[1] = f
  <2>1. Delivered(f) /\ (~abandoned[f] => Earlier(f, req[2])) /\ req[2] <= Taken(f)
    BY <1>4 DEF FollowerInv, Delivered, Past
  <2>2. /\ Delivered(f)' /\ accepted[f] \subseteq accepted'[f]
        /\ accepted'[f] \subseteq accepted[f] \cup {req[2]}
    <3>1. Collecting(f)' = Collecting(f)
      BY <1>2 DEF Collecting
    <3> QED BY <1>1, <1>2, <1>4, <2>1, <3>1, AcceptInv
  <2>3. InOrder(f)' /\ Fresh(f)' /\ Past(f)'
    <3>1. Taken(f)' = Taken(f)
      BY <1>2 DEF Taken
    <3> QED BY <1>2, <2>1, <2>2, <3>1 DEF FollowerInv, InOrder, Sorted, Fresh, Past
  <2>4. Single(f)' /\ CarriesHead(f)' /\ Popped(f)'
    BY <1>2, <2>2 DEF FollowerInv, Single, CarriesHead, Popped, Alive
  <2> QED BY <2>2, <2>3, <2>4 DEF FollowerInv
<1> QED BY <1>3, <1>4

\* Time keeps buffers sorted and what they hold.
LEMMA TickInv ==
  ASSUME TypeOK, NEW f \in Follower, FollowerInv(f), Tick
  PROVE  FollowerInv(f)'
<1> DEFINE b == buffer[f]
           c == buffer'[f]
<1>1. UNCHANGED <<base, sequence, handle, pc, inHand, posted, reply, accepted, expired,
                  abandoned, late>>
  BY DEF Tick, historyVars
<1>2. /\ b \in Seq(Entry) /\ Len(b) \in Nat
      /\ DOMAIN b = 1 .. Len(b)
      /\ \A i \in DOMAIN b : b[i] \in Entry
  <2>1. b \in Seq(Entry)
    BY DEF TypeOK, Entry
  <2> HIDE DEF b
  <2> QED BY <2>1
<1>3. c = [i \in 1 .. Len(b) |-> [b[i] EXCEPT !.age = Older(@, BufferSeconds)]]
  BY DEF Tick
<1>4. /\ DOMAIN c = DOMAIN b
      /\ \A i \in DOMAIN b : c[i].n = b[i].n /\ c[i].age = Older(b[i].age, BufferSeconds)
  BY <1>2, <1>3 DEF Entry
<1>5. b # << >> => c # << >> /\ c[1].n = b[1].n
  BY <1>2, <1>4, EmptySeq
<1> HIDE DEF b, c
<1>6. InOrder(f)'
  <2> SUFFICES ASSUME ~abandoned[f], NEW i \in DOMAIN c, NEW j \in DOMAIN c, i < j
               PROVE  c[i].n < c[j].n /\ c[i].age >= c[j].age
    BY <1>1 DEF InOrder, Sorted, c
  <2>1. b[i].n < b[j].n /\ b[i].age >= b[j].age
    BY <1>4 DEF FollowerInv, InOrder, Sorted, b
  <2>2. b[i].age \in Nat /\ b[j].age \in Nat
    BY <1>2, <1>4 DEF Entry
  <2>3. \A x, y \in Nat : x >= y => Older(x, BufferSeconds) >= Older(y, BufferSeconds)
    BY ConstantsAssumption DEF ConstantsAssumption, Older
  <2> QED BY <1>4, <2>1, <2>2, <2>3
<1>7. Buffered(f)' = Buffered(f)
  BY <1>4 DEF Buffered, b, c
<1>8. Delivered(f)'
  <2>1. Delivered(f)
    BY DEF FollowerInv
  <2>2. Collecting(f)' = Collecting(f)
    BY <1>1 DEF Collecting
  <2> QED BY <1>1, <1>7, <2>1, <2>2, DeliveredGrows
<1>9. Past(f)' /\ Fresh(f)'
  BY <1>1, <1>4 DEF FollowerInv, Past, Fresh, Taken, b, c
<1>10. Single(f)' /\ CarriesHead(f)' /\ Popped(f)'
  <2>1. Single(f)' /\ Popped(f)'
    BY <1>1 DEF FollowerInv, Single, Popped, Alive
  <2>2. CarriesHead(f)'
    BY <1>1, <1>5 DEF FollowerInv, CarriesHead, b, c
  <2> QED BY <2>1, <2>2
<1> QED BY <1>6, <1>8, <1>9, <1>10 DEF FollowerInv

LEMMA ThreadStepInv ==
  ASSUME TypeOK, NEW f \in Follower, FollowerInv(f), NEW t \in Thread,
         ThreadStep(f, t) \/ HandlePost(f, t)
  PROVE  FollowerInv(f)'
<1>1. CASE ThreadExit(f, t) \/ SkipSnapshot(f, t) \/ Wake(f, t)
  BY <1>1, MoveInv
<1>2. CASE CountSnapshot(f, t) \/ NumberSnapshot(f, t) \/ AppendSnapshot(f, t)
  BY <1>2, CountSnapshotInv, NumberSnapshotInv, AppendSnapshotInv
<1>3. CASE DrainHead(f, t)
  BY <1>3, DrainHeadInv
<1>4. CASE PostFails(f, t) \/ ReplyLost(f, t) \/ TakeReply(f, t)
  BY <1>4, FailInv
<1>5. CASE PopHead(f, t)
  BY <1>5, PopHeadInv
<1>6. CASE HandlePost(f, t)
  BY <1>6, HandlePostInv
<1> QED BY <1>1, <1>2, <1>3, <1>4, <1>5, <1>6 DEF ThreadStep

\* No step of one follower moves another.
LEMMA OthersUntouched ==
  ASSUME TypeOK, NEW f \in Follower, NEW g \in Follower, f # g,
         \/ \E t \in Thread : ThreadStep(f, t) \/ HandlePost(f, t)
         \/ StartFollower(f) \/ StopFollower(f) \/ JoinFollower(f) \/ RestartFollower(f)
  PROVE  Untouched(g)
<1>1. ASSUME NEW t \in Thread, ThreadStep(f, t) PROVE Untouched(g)
  <2>1. CASE ThreadExit(f, t) \/ SkipSnapshot(f, t) \/ Wake(f, t)
    BY <2>1 DEF ThreadExit, SkipSnapshot, Wake, Goto, historyVars, Untouched, TypeOK
  <2>2. CASE CountSnapshot(f, t) \/ NumberSnapshot(f, t)
    BY <2>2 DEF CountSnapshot, NumberSnapshot, Goto, historyVars, Untouched, TypeOK
  <2>8. CASE AppendSnapshot(f, t)
    BY <2>8 DEF AppendSnapshot, Goto, Untouched, TypeOK
  <2>3. CASE DrainHead(f, t)
    BY <2>3 DEF DrainHead, Goto, Untouched, TypeOK
  <2>4. CASE PostFails(f, t)
    BY <2>4 DEF PostFails, Goto, historyVars, Untouched, TypeOK
  <2>5. CASE ReplyLost(f, t)
    BY <2>5 DEF ReplyLost, Goto, historyVars, Untouched, TypeOK
  <2>6. CASE TakeReply(f, t)
    BY <2>6 DEF TakeReply, Goto, historyVars, Untouched, TypeOK
  <2>7. CASE PopHead(f, t)
    BY <2>7 DEF PopHead, Goto, historyVars, Untouched, TypeOK
  <2> QED BY <1>1, <2>1, <2>2, <2>3, <2>4, <2>5, <2>6, <2>7, <2>8 DEF ThreadStep
<1>2. ASSUME NEW t \in Thread, HandlePost(f, t) PROVE Untouched(g)
  BY <1>2 DEF HandlePost, Record, Goto, Untouched, TypeOK
<1>3. CASE StartFollower(f)
  BY <1>3 DEF StartFollower, Goto, historyVars, Untouched, TypeOK
<1>4. CASE StopFollower(f)
  BY <1>4 DEF StopFollower, historyVars, Untouched
<1>5. CASE JoinFollower(f)
  BY <1>5 DEF JoinFollower, Untouched, TypeOK
<1>6. CASE RestartFollower(f)
  <2>1. \A req \in late' : req \in late \/ \E s \in Thread :
          req = <<f, posted[f][s], policy[f]>>
    BY <1>6 DEF RestartFollower
  <2>2. \A req \in late' : req[1] = g => req \in late
    BY <2>1
  <2>3. UNCHANGED <<accepted, expired>>
    BY <1>6 DEF RestartFollower
  <2>4. /\ base'[g] = base[g] /\ sequence'[g] = sequence[g]
        /\ buffer'[g] = buffer[g] /\ handle'[g] = handle[g]
    BY <1>6 DEF RestartFollower, TypeOK
  <2>5. /\ pc'[g] = pc[g] /\ inHand'[g] = inHand[g] /\ posted'[g] = posted[g]
        /\ reply'[g] = reply[g] /\ abandoned'[g] = abandoned[g]
    BY <1>6 DEF RestartFollower, TypeOK
  <2> QED BY <2>2, <2>3, <2>4, <2>5 DEF Untouched
<1> QED BY <1>1, <1>2, <1>3, <1>4, <1>5, <1>6

LEMMA LeaderUntouched ==
  ASSUME TypeOK, NEW f \in Follower,
         StopServer \/ CrashLeader \/ StartServer \/ UNCHANGED vars
  PROVE  Untouched(f)
BY DEF StopServer, CrashLeader, StartServer, vars, followerVars, historyVars, Untouched

LEMMA NextInv == SInv /\ [Next]_vars => SInv'
<1> SUFFICES ASSUME SInv, [Next]_vars PROVE SInv'
  OBVIOUS
<1>1. TypeOK /\ \A g \in Follower : FollowerInv(g)
  BY DEF SInv
<1>2. TypeOK'
  BY <1>1, NextType
<1>3. ASSUME NEW g \in Follower PROVE FollowerInv(g)'
  <2>1. ASSUME NEW f \in Follower, NEW t \in Thread, ThreadStep(f, t) \/ HandlePost(f, t)
        PROVE  FollowerInv(g)'
    <3>1. CASE f = g
      BY <1>1, <2>1, <3>1, ThreadStepInv
    <3>2. CASE f # g
      <4>1. Untouched(g)
        BY <1>1, <2>1, <3>2, OthersUntouched
      <4> QED BY <1>1, <4>1, Frame
    <3> QED BY <3>1, <3>2
  <2>2. ASSUME NEW f \in Follower,
               \/ StartFollower(f) \/ StopFollower(f)
               \/ JoinFollower(f) \/ RestartFollower(f)
        PROVE  FollowerInv(g)'
    <3>1. CASE f = g
      BY <1>1, <2>2, <3>1, ControlInv, RestartInv
    <3>2. CASE f # g
      <4>1. Untouched(g)
        BY <1>1, <2>2, <3>2, OthersUntouched
      <4> QED BY <1>1, <4>1, Frame
    <3> QED BY <3>1, <3>2
  <2>3. CASE HandleLate
    BY <1>1, <2>3, HandleLateInv
  <2>4. CASE StopServer \/ CrashLeader \/ StartServer \/ UNCHANGED vars
    <3>1. Untouched(g)
      BY <1>1, <2>4, LeaderUntouched
    <3> QED BY <1>1, <3>1, Frame
  <2>5. CASE Tick
    BY <1>1, <2>5, TickInv
  <2> QED BY <2>1, <2>2, <2>3, <2>4, <2>5 DEF Next
<1> QED BY <1>2, <1>3 DEF SInv

\* The invariant that carries the delivery properties holds in every run.
THEOREM Invariant == Spec => []IInv
BY InitInv, NextInv, Parts, PTL DEF Spec

\* While one heartbeat thread runs, the buffer stays in snapshot order, although
\* a snapshot is counted, numbered and appended in three steps: _prune_buffer,
\* which stops at the first young entry, leaves no old one.
THEOREM BufferIsSorted == Spec => []OldestFirst
<1>1. IInv => OldestFirst
  BY DEF IInv
<1> QED BY <1>1, Invariant, PTL

\* Nothing a follower process took is lost, for any followers, buffer age and
\* number of faults, unless a stop_follower gave up on a live thread.
THEOREM DeliverySafe == Spec => []NothingLost
<1>1. IInv => NothingLost
  BY DEF IInv
<1> QED BY <1>1, Invariant, PTL

\* The leader accepts the snapshots of a follower process in order.
THEOREM DeliveryInOrder == Spec => []NoGaps
<1>1. IInv => NoGaps
  BY DEF IInv
<1> QED BY <1>1, Invariant, PTL

=============================================================================
