--------------------------- MODULE LatestViewProofs ---------------------------
(***************************************************************************)
(* The fan-in implements LatestView, for any followers, snapshots, crashes *)
(* and lost messages, if every follower has a rank of its own, no request  *)
(* is handled after its client gave up, and no stop_follower gives up on a *)
(* live thread.                                                            *)
(***************************************************************************)
EXTENDS ClusterFanInProofs

Undisturbed ==
  /\ LateRequests = FALSE
  /\ JoinTimeouts = FALSE
  /\ \A f, g \in Follower : RankOf[f] = RankOf[g] => f = g

\* What the leader shows of a follower ...
Shown(f) == records[RankOf[f]].n

\* ... is behind what is still to be delivered.
NotAhead(f) == Shown(f) <= Taken(f) /\ \A n \in Buffered(f) : Shown(f) <= n

Undelayed == late = {} /\ \A f \in Follower : ~abandoned[f]

Behind == Undelayed /\ \A f \in Follower : NotAhead(f)

\* A step that leaves what a follower took and the leader shows of it, and at
\* most takes something out of its buffer.
Quiet(f) ==
  /\ Shown(f)' = Shown(f)
  /\ Taken(f)' = Taken(f)
  /\ Buffered(f)' \subseteq Buffered(f)

LEMMA QuietStutters ==
  ASSUME \A f \in Follower : NotAhead(f) /\ Quiet(f)
  PROVE  (\A f \in Follower : NotAhead(f)') /\ UNCHANGED View!vars
<1>1. \A f \in Follower : NotAhead(f)'
  BY DEF NotAhead, Quiet
<1>2. [f \in Follower |-> Taken(f)]' = [f \in Follower |-> Taken(f)]
  BY DEF Quiet
<1>3. [f \in Follower |-> Shown(f)]' = [f \in Follower |-> Shown(f)]
  BY DEF Quiet
<1> QED BY <1>1, <1>2, <1>3 DEF View!vars, Shown

LEMMA Initially == Init => Behind /\ View!Init
<1> SUFFICES ASSUME Init PROVE Behind /\ View!Init
  OBVIOUS
<1>1. ASSUME NEW f \in Follower PROVE Taken(f) = 0 /\ Shown(f) = 0 /\ Buffered(f) = {}
  <2>1. RankOf[f] \in Rank
    BY ConstantsAssumption DEF ConstantsAssumption
  <2>2. DOMAIN buffer[f] = {}
    BY EmptySeq DEF Init
  <2> QED BY <2>1, <2>2 DEF Init, Taken, Shown, NoRecord, Buffered
<1>2. Behind
  BY <1>1 DEF Init, Behind, Undelayed, NotAhead
<1>3. View!Init
  BY <1>1 DEF View!Init, Shown
<1> QED BY <1>2, <1>3

\* The buffer of a follower, by the names of the lemmas about buffers.
LEMMA BufferOf ==
  ASSUME TypeOK, NEW f \in Follower
  PROVE  buffer[f] \in Seq(Entry) /\ Buffered(f) = Holds(buffer[f])
BY DEF TypeOK, Entry, Buffered, Holds

\* Nothing is in flight late, and no thread is abandoned.
LEMMA UndelayedStep ==
  ASSUME Undisturbed, Undelayed, [Next]_vars
  PROVE  Undelayed'
<1> USE DEF Undisturbed, Undelayed
<1>1. ASSUME NEW f \in Follower, NEW t \in Thread, ThreadStep(f, t) \/ HandlePost(f, t)
      PROVE  Undelayed'
  BY <1>1 DEF ThreadStep, HandlePost, ThreadExit, CountSnapshot, NumberSnapshot,
              AppendSnapshot, SkipSnapshot, DrainHead, PostFails, ReplyLost, TakeReply,
              PopHead, Wake, historyVars
<1>2. ASSUME NEW f \in Follower, StartFollower(f) \/ StopFollower(f) \/ JoinFollower(f)
      PROVE  Undelayed'
  BY <1>2 DEF StartFollower, StopFollower, JoinFollower, historyVars
<1>3. ASSUME NEW f \in Follower, RestartFollower(f) PROVE Undelayed'
  BY <1>3 DEF RestartFollower
<1>4. CASE HandleLate
  BY <1>4 DEF HandleLate
<1>5. CASE StopServer \/ CrashLeader \/ StartServer \/ Tick \/ UNCHANGED vars
  BY <1>5 DEF StopServer, CrashLeader, StartServer, Tick, vars, historyVars
<1> QED BY <1>1, <1>2, <1>3, <1>4, <1>5 DEF Next

\* The steps of a thread that neither take nor deliver a snapshot.
LEMMA ThreadQuiet ==
  ASSUME TypeOK, NEW f \in Follower, NEW t \in Thread,
         ThreadStep(f, t), ~CountSnapshot(f, t), ~AppendSnapshot(f, t),
         NEW g \in Follower
  PROVE  Quiet(g)
<1>1. CASE \/ ThreadExit(f, t) \/ SkipSnapshot(f, t) \/ PostFails(f, t)
           \/ NumberSnapshot(f, t) \/ ReplyLost(f, t) \/ TakeReply(f, t) \/ Wake(f, t)
  <2>1. UNCHANGED <<base, sequence, buffer, records>>
    BY <1>1 DEF ThreadExit, NumberSnapshot, SkipSnapshot, PostFails, ReplyLost,
                TakeReply, Wake, leaderVars
  <2> QED BY <2>1 DEF Quiet, Shown, Taken, Buffered
<1>2. CASE DrainHead(f, t)
  <2>1. UNCHANGED <<base, sequence, records>>
    BY <1>2 DEF DrainHead, leaderVars
  <2>2. buffer'[g] = IF g = f THEN Pruned(buffer[f]) ELSE buffer[g]
    BY <1>2 DEF DrainHead, TypeOK
  <2>3. Buffered(g)' = Holds(buffer'[g])
    BY DEF Buffered, Holds
  <2>4. Buffered(g)' \subseteq Buffered(g)
    BY <2>2, <2>3, BufferOf, PrunedKeeps
  <2> QED BY <2>1, <2>4 DEF Quiet, Shown, Taken
<1>3. CASE PopHead(f, t)
  <2>1. UNCHANGED <<base, sequence, records>>
    BY <1>3 DEF PopHead, leaderVars
  <2>2. \/ buffer' = buffer
        \/ /\ buffer[f] # << >>
           /\ buffer'[g] = IF g = f THEN Tail(buffer[f]) ELSE buffer[g]
    BY <1>3 DEF PopHead, TypeOK
  <2>3. Buffered(g)' = Holds(buffer'[g])
    BY DEF Buffered, Holds
  <2>4. Buffered(g)' \subseteq Buffered(g)
    BY <2>2, <2>3, BufferOf, TailKeeps
  <2> QED BY <2>1, <2>4 DEF Quiet, Shown, Taken
<1> QED BY <1>1, <1>2, <1>3 DEF ThreadStep

\* start_follower, stop_follower and the end of the process; the leader's server;
\* time.
LEMMA OthersQuiet ==
  ASSUME TypeOK, NEW g \in Follower,
         \/ \E f \in Follower : \/ StartFollower(f) \/ StopFollower(f)
                                \/ JoinFollower(f) \/ RestartFollower(f)
         \/ StopServer \/ StartServer \/ Tick \/ UNCHANGED vars
  PROVE  Quiet(g)
<1>1. ASSUME NEW f \in Follower, StartFollower(f) \/ StopFollower(f) \/ JoinFollower(f)
      PROVE  Quiet(g)
  <2>1. UNCHANGED <<base, sequence, buffer, records>>
    BY <1>1 DEF StartFollower, StopFollower, JoinFollower, leaderVars
  <2> QED BY <2>1 DEF Quiet, Shown, Taken, Buffered
<1>2. ASSUME NEW f \in Follower, RestartFollower(f) PROVE Quiet(g)
  <2>1. records' = records
    BY <1>2 DEF RestartFollower, leaderVars
  <2>2. Taken(g)' = Taken(g)
    BY <1>2 DEF RestartFollower, Taken, TypeOK
  <2>3. buffer'[g] = IF g = f THEN << >> ELSE buffer[g]
    BY <1>2 DEF RestartFollower, TypeOK
  <2>4. Buffered(g)' \subseteq Buffered(g)
    BY <2>3, EmptySeq DEF Buffered
  <2> QED BY <2>1, <2>2, <2>4 DEF Quiet, Shown
<1>3. CASE StopServer \/ StartServer \/ UNCHANGED vars
  <2>1. UNCHANGED <<base, sequence, buffer, records>>
    BY <1>3 DEF StopServer, StartServer, vars, followerVars, leaderVars
  <2> QED BY <2>1 DEF Quiet, Shown, Taken, Buffered
<1>4. CASE Tick
  <2>1. UNCHANGED <<base, sequence>>
    BY <1>4 DEF Tick
  <2>2. RankOf[g] \in Rank
    BY ConstantsAssumption DEF ConstantsAssumption
  <2>3. records'[RankOf[g]].n = records[RankOf[g]].n
    BY <1>4, <2>2 DEF Tick, TypeOK, NoRecord
  <2>4. Buffered(g)' \subseteq Buffered(g)
    <3>1. DOMAIN buffer[g] = 1 .. Len(buffer[g])
      BY DEF TypeOK
    <3>2. buffer'[g] = [i \in 1 .. Len(buffer[g]) |->
                          [buffer[g][i] EXCEPT !.age = Older(@, BufferSeconds)]]
      BY <1>4 DEF Tick
    <3>3. \A i \in 1 .. Len(buffer[g]) : buffer[g][i] \in Entry
      BY BufferOf
    <3>4. \A i \in DOMAIN buffer'[g] : i \in DOMAIN buffer[g] /\ buffer'[g][i].n = buffer[g][i].n
      BY <3>1, <3>2, <3>3 DEF Entry
    <3> QED BY <3>4 DEF Buffered
  <2> QED BY <2>1, <2>3, <2>4 DEF Quiet, Shown, Taken
<1> QED BY <1>1, <1>2, <1>3, <1>4

LEMMA CountSnapshotTakes ==
  ASSUME SInv, \A g \in Follower : NotAhead(g), NEW f \in Follower, NEW t \in Thread,
         CountSnapshot(f, t)
  PROVE  /\ \A g \in Follower : NotAhead(g)'
         /\ View!Take(f) \/ UNCHANGED View!vars
<1> DEFINE n == NextSnapshot(f)
<1>1. TypeOK
  BY DEF SInv
<1>2. /\ base[f] \in Nat /\ sequence[f] \in Nat /\ Taken(f) \in Nat /\ n \in Nat
      /\ n = Taken(f) \/ n = Taken(f) + 1
  BY <1>1 DEF TypeOK, Taken, NextSnapshot
<1>3. Taken(f)' = n
  <2>1. sequence'[f] = n - base[f] /\ base'[f] = base[f]
    BY <1>1 DEF CountSnapshot, TypeOK
  <2> QED BY <1>2, <2>1 DEF Taken
<1>4. \A g \in Follower : g # f => Taken(g)' = Taken(g)
  BY <1>1 DEF CountSnapshot, Taken, TypeOK
<1>5. \A g \in Follower : Shown(g)' = Shown(g) /\ Shown(g) \in Nat
  <2>1. records' = records
    BY DEF CountSnapshot, leaderVars
  <2>2. \A g \in Follower : RankOf[g] \in Rank
    BY ConstantsAssumption DEF ConstantsAssumption
  <2> QED BY <1>1, <2>1, <2>2 DEF Shown, TypeOK, NoRecord
<1>6. \A g \in Follower : Buffered(g)' = Buffered(g)
  BY DEF CountSnapshot, Buffered
<1> HIDE DEF n
<1>7. \A g \in Follower : NotAhead(g)'
  <2> SUFFICES ASSUME NEW g \in Follower PROVE NotAhead(g)'
    OBVIOUS
  <2>1. CASE g = f
    <3>1. Shown(f) <= n
      BY <1>2, <1>5 DEF NotAhead
    <3> QED BY <1>3, <1>5, <1>6, <2>1, <3>1 DEF NotAhead
  <2>2. CASE g # f
    BY <1>4, <1>5, <1>6, <2>2 DEF NotAhead
  <2> QED BY <2>1, <2>2
<1>8. [g \in Follower |-> Shown(g)]' = [g \in Follower |-> Shown(g)]
  BY <1>5
<1>9. [g \in Follower |-> Taken(g)]' = [[g \in Follower |-> Taken(g)] EXCEPT ![f] = n]
  BY <1>3, <1>4
<1>10. CASE n = Taken(f)
  <2>1. [g \in Follower |-> Taken(g)]' = [g \in Follower |-> Taken(g)]
    BY <1>3, <1>4, <1>10
  <2> QED BY <1>7, <1>8, <2>1 DEF View!vars, Shown
<1>11. CASE n = Taken(f) + 1
  BY <1>7, <1>8, <1>9, <1>11 DEF View!Take, Shown
<1> QED BY <1>2, <1>10, <1>11

\* A snapshot that is appended is the last one taken, and the leader shows none
\* that comes after it.
LEMMA AppendSnapshotStutters ==
  ASSUME SInv, Behind, NEW f \in Follower, NEW t \in Thread, AppendSnapshot(f, t)
  PROVE  (\A g \in Follower : NotAhead(g)') /\ UNCHANGED View!vars
<1> DEFINE b == Pruned(buffer[f])
           e == [n |-> inHand[f][t], age |-> 0]
<1>1. TypeOK /\ FollowerInv(f) /\ ~abandoned[f] /\ pc[f][t] = "append"
  BY DEF SInv, Behind, Undelayed, AppendSnapshot
<1>2. inHand[f][t] = Taken(f) /\ inHand[f][t] \in Nat
  BY <1>1 DEF FollowerInv, Fresh, TypeOK
<1>3. UNCHANGED <<base, sequence, records>>
  BY DEF AppendSnapshot, leaderVars
<1>4. \A g \in Follower : Taken(g)' = Taken(g) /\ Shown(g)' = Shown(g)
  BY <1>3 DEF Taken, Shown
<1>5. Buffered(f)' \subseteq Buffered(f) \cup {Taken(f)}
  <2>1. buffer[f] \in Seq(Entry) /\ b \in Seq(Entry) /\ e \in Entry
    BY <1>1, <1>2, BufferOf, PrunedType DEF Entry
  <2>2. Holds(b) \subseteq Buffered(f)
    BY <1>1, <2>1, BufferOf, PrunedKeeps
  <2>3. buffer'[f] = Append(b, e)
    BY <1>1 DEF AppendSnapshot, TypeOK
  <2>4. Buffered(f)' = Holds(Append(b, e))
    BY <2>3 DEF Buffered, Holds
  <2> HIDE DEF b
  <2>5. Holds(Append(b, e)) = Holds(b) \cup {e.n}
    BY <2>1, AppendKeeps
  <2> QED BY <1>2, <2>2, <2>4, <2>5
<1>6. \A g \in Follower : g # f => Buffered(g)' = Buffered(g)
  BY <1>1 DEF AppendSnapshot, TypeOK, Buffered
<1>7. \A g \in Follower : NotAhead(g)'
  BY <1>4, <1>5, <1>6 DEF NotAhead, Behind
<1>8. [g \in Follower |-> Taken(g)]' = [g \in Follower |-> Taken(g)]
  BY <1>4
<1>9. [g \in Follower |-> Shown(g)]' = [g \in Follower |-> Shown(g)]
  BY <1>4
<1> QED BY <1>7, <1>8, <1>9 DEF View!vars, Shown

\* A snapshot that is accepted is the head of the buffer: what the leader shows
\* of the follower goes forward, or is the same after a reply was lost.
LEMMA HandlePostPublishes ==
  ASSUME SInv, Undisturbed, Behind, NEW f \in Follower, NEW t \in Thread,
         HandlePost(f, t)
  PROVE  /\ \A g \in Follower : NotAhead(g)'
         /\ View!Publish(f) \/ UNCHANGED View!vars
<1> DEFINE n == posted[f][t]
<1>1. TypeOK /\ FollowerInv(f) /\ ~abandoned[f] /\ pc[f][t] = "post"
  BY DEF SInv, Behind, Undelayed, HandlePost
<1>2. buffer[f] # << >> /\ n = buffer[f][1].n
  BY <1>1 DEF FollowerInv, CarriesHead
<1>3. buffer[f] \in Seq(Entry) /\ 1 \in DOMAIN buffer[f]
  BY <1>1, <1>2, BufferOf, EmptySeq
<1>4. n \in Buffered(f) /\ n <= Taken(f) /\ n \in Nat
  BY <1>1, <1>2, <1>3 DEF Buffered, FollowerInv, Past, TypeOK
<1>5. \A m \in Buffered(f) : n <= m
  <2> SUFFICES ASSUME NEW i \in DOMAIN buffer[f] PROVE n <= buffer[f][i].n
    BY DEF Buffered
  <2>1. i \in 1 .. Len(buffer[f]) /\ buffer[f][i].n \in Nat
    <3>1. i \in 1 .. Len(buffer[f]) /\ buffer[f][i] \in Entry
      BY <1>3
    <3> QED BY <3>1 DEF Entry
  <2>2. i = 1 \/ 1 < i
    BY <2>1
  <2> QED BY <1>1, <1>2, <1>3, <1>4, <2>1, <2>2 DEF FollowerInv, InOrder, Sorted
<1>6. UNCHANGED <<base, sequence, buffer>>
  BY DEF HandlePost
<1>7. \A g \in Follower : Taken(g)' = Taken(g) /\ Buffered(g)' = Buffered(g)
  BY <1>6 DEF Taken, Buffered
<1>8. \A g \in Follower : RankOf[g] \in Rank
  BY ConstantsAssumption DEF ConstantsAssumption
<1>9. CASE records' = records
  <2>1. \A g \in Follower : Quiet(g)
    BY <1>7, <1>9 DEF Quiet, Shown
  <2> QED BY <2>1, QuietStutters DEF Behind
<1>10. CASE records' = [records EXCEPT ![RankOf[f]] = [owner |-> f, n |-> n, age |-> 0]]
  <2> HIDE DEF n
  <2>1. Shown(f)' = n
    BY <1>1, <1>8, <1>10 DEF Shown, TypeOK
  <2>2. \A g \in Follower : g # f => Shown(g)' = Shown(g)
    BY <1>1, <1>8, <1>10 DEF Shown, TypeOK, Undisturbed
  <2>3. \A g \in Follower : NotAhead(g)'
    BY <1>4, <1>5, <1>7, <2>1, <2>2 DEF NotAhead, Behind
  <2>4. Shown(f) \in Nat /\ Taken(f) \in Nat /\ Shown(f) <= n
    <3>1. Shown(f) \in Nat
      <4>1. records[RankOf[f]] \in
              [owner : Follower, n : Nat, age : Nat] \cup {NoRecord}
        BY <1>1, <1>8 DEF TypeOK
      <4> QED BY <4>1 DEF Shown, NoRecord
    <3>2. Taken(f) \in Nat
      BY <1>1 DEF Taken, TypeOK
    <3>3. Shown(f) <= n
      BY <1>4 DEF Behind, NotAhead
    <3> QED BY <3>1, <3>2, <3>3
  <2>5. [g \in Follower |-> Taken(g)]' = [g \in Follower |-> Taken(g)]
    BY <1>7
  <2>6. CASE n = Shown(f)
    <3>1. [g \in Follower |-> Shown(g)]' = [g \in Follower |-> Shown(g)]
      BY <2>1, <2>2, <2>6
    <3> QED BY <2>3, <2>5, <3>1 DEF View!vars, Shown
  <2>7. CASE n # Shown(f)
    <3>1. n \in Shown(f) + 1 .. Taken(f)
      BY <1>4, <2>4, <2>7
    <3>2. [g \in Follower |-> Shown(g)]' = [[g \in Follower |-> Shown(g)] EXCEPT ![f] = n]
      BY <2>1, <2>2
    <3>3. [g \in Follower |-> Shown(g)][f] = Shown(f)
          /\ [g \in Follower |-> Taken(g)][f] = Taken(f)
      OBVIOUS
    <3> QED BY <2>3, <2>5, <3>1, <3>2, <3>3 DEF View!Publish, Shown
  <2> QED BY <2>6, <2>7
<1> QED BY <1>9, <1>10 DEF HandlePost, Record

LEMMA CrashForgets ==
  ASSUME TypeOK, \A g \in Follower : NotAhead(g), CrashLeader
  PROVE  (\A g \in Follower : NotAhead(g)') /\ View!Forget
<1>1. UNCHANGED <<base, sequence, buffer>>
  BY DEF CrashLeader, followerVars
<1>2. ASSUME NEW g \in Follower
      PROVE  /\ Taken(g)' = Taken(g) /\ Taken(g) \in Nat
             /\ Buffered(g)' = Buffered(g)
             /\ Shown(g)' = 0
  <2>1. RankOf[g] \in Rank
    BY ConstantsAssumption DEF ConstantsAssumption
  <2> QED BY <1>1, <2>1 DEF CrashLeader, Taken, Buffered, Shown, NoRecord, TypeOK
<1>3. ASSUME NEW g \in Follower, NEW i \in DOMAIN buffer[g] PROVE buffer[g][i].n \in Nat
  <2>1. buffer[g] \in Seq(Entry)
    BY BufferOf
  <2>2. buffer[g][i] \in Entry
    BY <2>1
  <2> QED BY <2>2 DEF Entry
<1>4. \A g \in Follower : NotAhead(g)'
  BY <1>2, <1>3 DEF NotAhead, Buffered
<1>5. [g \in Follower |-> Taken(g)]' = [g \in Follower |-> Taken(g)]
  BY <1>2
<1>6. [g \in Follower |-> Shown(g)]' = [g \in Follower |-> 0]
  BY <1>2
<1> QED BY <1>4, <1>5, <1>6 DEF View!Forget, Shown

\* Every step is a step of LatestView or leaves what it speaks of alone.
LEMMA StepImplements ==
  ASSUME Undisturbed, SInv, Behind, [Next]_vars
  PROVE  Behind' /\ [View!Next]_View!vars
<1>1. Undelayed'
  BY UndelayedStep DEF Behind
<1>2. TypeOK /\ \A g \in Follower : NotAhead(g)
  BY DEF SInv, Behind
<1>3. ASSUME NEW f \in Follower, NEW t \in Thread, ThreadStep(f, t),
             ~CountSnapshot(f, t), ~AppendSnapshot(f, t)
      PROVE  (\A g \in Follower : NotAhead(g)') /\ UNCHANGED View!vars
  BY <1>2, <1>3, ThreadQuiet, QuietStutters
<1>4. CASE \/ \E f \in Follower : \/ StartFollower(f) \/ StopFollower(f)
                                  \/ JoinFollower(f) \/ RestartFollower(f)
           \/ StopServer \/ StartServer \/ Tick \/ UNCHANGED vars
  BY <1>2, <1>4, OthersQuiet, QuietStutters, <1>1 DEF Behind
<1>5. ASSUME NEW f \in Follower, NEW t \in Thread, CountSnapshot(f, t)
      PROVE  Behind' /\ [View!Next]_View!vars
  BY <1>1, <1>2, <1>5, CountSnapshotTakes DEF Behind, View!Next
<1>9. ASSUME NEW f \in Follower, NEW t \in Thread, AppendSnapshot(f, t)
      PROVE  (\A g \in Follower : NotAhead(g)') /\ UNCHANGED View!vars
  BY <1>9, AppendSnapshotStutters
<1>6. ASSUME NEW f \in Follower, NEW t \in Thread, HandlePost(f, t)
      PROVE  Behind' /\ [View!Next]_View!vars
  BY <1>1, <1>6, HandlePostPublishes DEF Behind, View!Next
<1>7. CASE HandleLate
  BY <1>7 DEF HandleLate, Behind, Undelayed
<1>8. CASE CrashLeader
  BY <1>1, <1>2, <1>8, CrashForgets DEF Behind, View!Next
<1> QED BY <1>1, <1>3, <1>4, <1>5, <1>6, <1>7, <1>8, <1>9 DEF Next, Behind

\* The leader shows nothing or a snapshot the follower took, and goes forward,
\* except that a crash makes it forget.
THEOREM ShowsTheLatest ==
  ASSUME Undisturbed
  PROVE  Spec => ImplementsLatestView
<1>1. SInv /\ Behind /\ [Next]_vars => Behind' /\ [View!Next]_View!vars
  BY StepImplements
<1>2. Spec => []SInv
  BY InitInv, NextInv, PTL DEF Spec
<1> QED BY <1>1, <1>2, Initially, PTL DEF Spec, ImplementsLatestView, View!Spec
=============================================================================
