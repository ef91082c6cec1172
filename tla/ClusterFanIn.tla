---------------------------- MODULE ClusterFanIn ----------------------------
(***************************************************************************)
(* Leader/follower fan-in of harness/cluster_daemon.py.                    *)
(*                                                                         *)
(* A follower takes a snapshot per heartbeat, appends it to a buffer, and  *)
(* drains the buffer head first with one HTTP POST per snapshot.  The      *)
(* leader keeps, per rank, the snapshot it accepted last.  The network     *)
(* loses requests and replies; a request the client gave up on may still   *)
(* be handled later.  Leader and followers crash and restart, and the      *)
(* start/stop calls of the follower may leave two heartbeat threads over   *)
(* one buffer, because stop_follower joins with a timeout.                 *)
(*                                                                         *)
(* Time is relative: buffered snapshots and leader records carry their age *)
(* (now - queued_at, now - last_seen), which Tick increases.  Ages         *)
(* saturate one above the bound they are compared with.                    *)
(***************************************************************************)
EXTENDS Integers, Sequences, FiniteSets

CONSTANTS
  Follower,       \* follower processes
  Rank,           \* rank labels, the keys of the leader's records
  RankOf,         \* detect_rank_labels: the rank each follower reports
  Policies,       \* what a started follower may have been configured with
  LeaderOptIn,    \* the values of privacy_opt_in a started leader may have
  BufferSeconds,  \* age beyond which a buffered snapshot is dropped
  StaleAfter,     \* age beyond which a leader record is stale
  MaxSnapshots,   \* bound on the snapshots a follower takes
  MaxFaults,      \* bound on lost messages, crashes and late joins
  LateRequests,   \* may the leader handle a request its client gave up on?
  JoinTimeouts,   \* may stop_follower give up joining a live thread?
  EagerThreads    \* does time pass only while threads wait or POST?

PolicyName == {"ok", "bad_token", "no_opt_in"}

ASSUME ConstantsAssumption ==
  /\ RankOf \in [Follower -> Rank]
  /\ Policies \in (SUBSET PolicyName) \ {{}}
  /\ LeaderOptIn \in (SUBSET BOOLEAN) \ {{}}
  /\ BufferSeconds \in Nat
  /\ StaleAfter \in Nat
  /\ MaxSnapshots \in Nat
  /\ MaxFaults \in Nat
  /\ LateRequests \in BOOLEAN
  /\ JoinTimeouts \in BOOLEAN
  /\ EagerThreads \in BOOLEAN

VARIABLES
  policy,     \* token and privacy_opt_in of the follower process
  sequence,   \* _sequence: snapshots taken by this follower process
  base,       \* history: snapshots taken by the processes before it
  buffer,     \* _buffer, oldest first: [n |-> snapshot, age |-> ticks queued]
  stopEvent,  \* _stop_event
  handle,     \* _follower_thread, or NoThread
  pc,         \* where each heartbeat thread is
  inHand,     \* the number of the snapshot a thread has yet to append
  posted,     \* the snapshot a thread's current POST carries
  reply,      \* the status the leader answered that POST with
  serverUp,   \* is the leader's HTTP server listening?
  optIn,      \* the leader's privacy_opt_in
  records,    \* _followers: per rank the record kept, or NoRecord
  late,       \* requests whose client has timed out, still to be handled
  accepted,   \* history: snapshots the leader answered 202 for
  expired,    \* history: snapshots dropped for their age
  abandoned,  \* history: did a join of this follower process time out?
  faults      \* faults so far, at most MaxFaults

followerVars == <<policy, sequence, base, buffer, stopEvent, handle, pc, inHand,
                  posted, reply>>
leaderVars   == <<serverUp, optIn, records>>
historyVars  == <<accepted, expired, abandoned>>
vars == <<followerVars, leaderVars, late, historyVars, faults>>

\* Two heartbeat threads are enough to overlap.
Thread   == {1, 2}
NoThread == 0
Label    == {"off", "top", "number", "append", "drain", "post", "replied", "pop",
             "wait", "dead"}
NoRecord == [owner |-> "none", n |-> 0, age |-> 0]

\* Snapshots are numbered over all the processes that ran the follower, so
\* that a later number is a later snapshot even after a restart reset
\* _sequence to 0.
Taken(f) == base[f] + sequence[f]

Alive(f, t) == pc[f][t] \notin {"off", "dead"}
Buffered(f) == {buffer[f][i].n : i \in DOMAIN buffer[f]}

Older(age, bound) == IF age > bound THEN age ELSE age + 1

\* FollowerRecord.is_stale
IsStale(r) == records[r] # NoRecord /\ records[r].age > StaleAfter

Fault == faults < MaxFaults /\ faults' = faults + 1

-----------------------------------------------------------------------------
(* The buffer *)

\* A prune that never fires.
PruneNothing(b) == 0

\* How many entries _prune_buffer pops: it stops at the first young one.
PruneCount(b) ==
  CHOOSE k \in 0 .. Len(b) :
    /\ \A i \in 1 .. k : b[i].age > BufferSeconds
    /\ k < Len(b) => b[k + 1].age <= BufferSeconds

Pruned(b) == SubSeq(b, PruneCount(b) + 1, Len(b))

\* What Pruned(b) leaves out.
Dropped(b) == {b[i].n : i \in 1 .. PruneCount(b)}

-----------------------------------------------------------------------------
(* The heartbeat thread t of follower f *)

Goto(f, t, l) == pc' = [pc EXCEPT ![f][t] = l]

\* _heartbeat_loop: the while condition sees the stop event.
ThreadExit(f, t) ==
  /\ pc[f][t] = "top"
  /\ stopEvent[f]
  /\ Goto(f, t, "off")
  /\ UNCHANGED <<policy, sequence, base, buffer, stopEvent, handle, inHand,
                 posted, reply, leaderVars, late, historyVars, faults>>

\* The bound: snapshot MaxSnapshots stands for every later one, and a heartbeat
\* takes it again only over an empty buffer.
MayTake(f) == Taken(f) < MaxSnapshots \/ buffer[f] = << >>
NextSnapshot(f) == IF Taken(f) < MaxSnapshots THEN Taken(f) + 1 ELSE Taken(f)

\* build_snapshot_payload: the count.  The increment holds no call, so that
\* the interpreter does not switch threads inside it.
CountSnapshot(f, t) ==
  /\ pc[f][t] = "top"
  /\ ~stopEvent[f]
  /\ MayTake(f)
  /\ sequence' = [sequence EXCEPT ![f] = NextSnapshot(f) - base[f]]
  /\ Goto(f, t, "number")
  /\ UNCHANGED <<policy, base, buffer, stopEvent, handle, inHand,
                 posted, reply, leaderVars, late, historyVars, faults>>

\* The payload reads the count after a call of the clock, and collects: another
\* thread may count or append before this one does.
NumberSnapshot(f, t) ==
  /\ pc[f][t] = "number"
  /\ inHand' = [inHand EXCEPT ![f][t] = Taken(f)]
  /\ Goto(f, t, "append")
  /\ UNCHANGED <<policy, sequence, base, buffer, stopEvent, handle, posted, reply,
                 leaderVars, late, historyVars, faults>>

\* _append_buffer: prune, append.
AppendSnapshot(f, t) ==
  /\ pc[f][t] = "append"
  /\ buffer' = [buffer EXCEPT
       ![f] = Append(Pruned(@), [n |-> inHand[f][t], age |-> 0])]
  /\ expired' = [expired EXCEPT ![f] = @ \cup Dropped(buffer[f])]
  /\ inHand' = [inHand EXCEPT ![f][t] = 0]
  /\ Goto(f, t, "drain")
  /\ UNCHANGED <<policy, sequence, base, stopEvent, handle, posted, reply,
                 leaderVars, late, accepted, abandoned, faults>>

SkipSnapshot(f, t) ==
  /\ pc[f][t] = "top"
  /\ ~stopEvent[f]
  /\ ~MayTake(f)
  /\ Goto(f, t, "drain")
  /\ UNCHANGED <<policy, sequence, base, buffer, stopEvent, handle, inHand,
                 posted, reply, leaderVars, late, historyVars, faults>>

\* A drain that takes the head out of the buffer before the POST.
DrainHeadPopsFirst(f, t) ==
  LET b == Pruned(buffer[f]) IN
  /\ pc[f][t] = "drain"
  /\ policy[f] # "no_opt_in"
  /\ expired' = [expired EXCEPT ![f] = @ \cup Dropped(buffer[f])]
  /\ IF b = << >>
     THEN buffer' = [buffer EXCEPT ![f] = b] /\ Goto(f, t, "wait") /\ UNCHANGED posted
     ELSE /\ buffer' = [buffer EXCEPT ![f] = Tail(b)]
          /\ posted' = [posted EXCEPT ![f][t] = b[1].n]
          /\ Goto(f, t, "post")
  /\ UNCHANGED <<policy, sequence, base, stopEvent, handle, inHand, reply,
                 leaderVars, late, accepted, abandoned, faults>>

\* _drain_buffer, top of the loop: drop what is too old, then POST the head,
\* or return when nothing is left.  _post_payload raises PermissionError
\* before any network use when the follower has not opted in, and the
\* heartbeat thread dies of it.
DrainHead(f, t) ==
  LET b == Pruned(buffer[f]) IN
  /\ pc[f][t] = "drain"
  /\ buffer' = [buffer EXCEPT ![f] = b]
  /\ expired' = [expired EXCEPT ![f] = @ \cup Dropped(buffer[f])]
  /\ \/ /\ b = << >>
        /\ Goto(f, t, "wait")
        /\ UNCHANGED posted
     \/ /\ b # << >>
        /\ policy[f] = "no_opt_in"
        /\ Goto(f, t, "dead")
        /\ UNCHANGED posted
     \/ /\ b # << >>
        /\ policy[f] # "no_opt_in"
        /\ posted' = [posted EXCEPT ![f][t] = b[1].n]
        /\ Goto(f, t, "post")
  /\ UNCHANGED <<policy, sequence, base, stopEvent, handle, inHand, reply,
                 leaderVars, late, accepted, abandoned, faults>>

\* A retry that puts the failed snapshot behind the others, or drops it.
PostFailsRequeues(f, t) ==
  /\ pc[f][t] = "post"
  /\ ~serverUp \/ faults < MaxFaults
  /\ Goto(f, t, "wait")
  /\ posted' = [posted EXCEPT ![f][t] = 0]
  /\ buffer' = [buffer EXCEPT ![f] = IF @ = << >> THEN @ ELSE Append(Tail(@), Head(@))]
  /\ UNCHANGED <<policy, sequence, base, stopEvent, handle, inHand, reply,
                 leaderVars, late, historyVars, faults>>

PostFailsDrops(f, t) ==
  /\ pc[f][t] = "post"
  /\ ~serverUp \/ faults < MaxFaults
  /\ Goto(f, t, "wait")
  /\ posted' = [posted EXCEPT ![f][t] = 0]
  /\ buffer' = [buffer EXCEPT ![f] = IF @ = << >> THEN @ ELSE Tail(@)]
  /\ UNCHANGED <<policy, sequence, base, stopEvent, handle, inHand, reply,
                 leaderVars, late, historyVars, faults>>

\* httpx.HTTPError before the leader saw the request: connection refused, or
\* a fault.  The drain returns and the snapshot stays at the head.  After a
\* timeout the request may still reach the leader.
PostFails(f, t) ==
  /\ pc[f][t] = "post"
  /\ Goto(f, t, "wait")
  /\ posted' = [posted EXCEPT ![f][t] = 0]
  /\ \/ ~serverUp /\ UNCHANGED <<late, faults>>
     \/ Fault /\ UNCHANGED late
     \/ Fault /\ LateRequests /\ late' = late \cup {<<f, posted[f][t], policy[f]>>}
  /\ UNCHANGED <<policy, sequence, base, buffer, stopEvent, handle, inHand, reply,
                 leaderVars, historyVars>>

\* The leader answered but the client timed out: same as any HTTPError.
ReplyLost(f, t) ==
  /\ pc[f][t] = "replied"
  /\ Fault
  /\ Goto(f, t, "wait")
  /\ posted' = [posted EXCEPT ![f][t] = 0]
  /\ reply' = [reply EXCEPT ![f][t] = 0]
  /\ UNCHANGED <<policy, sequence, base, buffer, stopEvent, handle, inHand,
                 leaderVars, late, historyVars>>

\* 202: on to the popleft.  401 is a ClusterFanInError that _drain_buffer
\* raises and the heartbeat loop swallows.  403 is a PermissionError that the
\* heartbeat loop raises again, so that the thread dies.
TakeReply(f, t) ==
  /\ pc[f][t] = "replied"
  /\ reply' = [reply EXCEPT ![f][t] = 0]
  /\ \/ reply[f][t] = 202 /\ Goto(f, t, "pop") /\ UNCHANGED posted
     \/ /\ reply[f][t] = 401
        /\ Goto(f, t, "wait")
        /\ posted' = [posted EXCEPT ![f][t] = 0]
     \/ /\ reply[f][t] = 403
        /\ Goto(f, t, "dead")
        /\ posted' = [posted EXCEPT ![f][t] = 0]
  /\ UNCHANGED <<policy, sequence, base, buffer, stopEvent, handle, inHand,
                 leaderVars, late, historyVars, faults>>

\* popleft takes whatever is at the head by now; on an empty deque it raises
\* IndexError, which nothing catches.
PopHead(f, t) ==
  /\ pc[f][t] = "pop"
  /\ posted' = [posted EXCEPT ![f][t] = 0]
  /\ \/ /\ buffer[f] # << >>
        /\ buffer' = [buffer EXCEPT ![f] = Tail(@)]
        /\ Goto(f, t, "drain")
     \/ /\ buffer[f] = << >>
        /\ Goto(f, t, "dead")
        /\ UNCHANGED buffer
  /\ UNCHANGED <<policy, sequence, base, stopEvent, handle, inHand, reply,
                 leaderVars, late, historyVars, faults>>

\* _stop_event.wait(heartbeat_seconds) returns.
Wake(f, t) ==
  /\ pc[f][t] = "wait"
  /\ Goto(f, t, "top")
  /\ UNCHANGED <<policy, sequence, base, buffer, stopEvent, handle, inHand,
                 posted, reply, leaderVars, late, historyVars, faults>>

-----------------------------------------------------------------------------
(* start_follower, stop_follower and the end of the process *)

\* A start that does not look at the handle.
StartFollowerTwice(f) ==
  /\ stopEvent' = [stopEvent EXCEPT ![f] = FALSE]
  /\ LET t == IF Alive(f, 1) THEN 2 ELSE 1 IN
       /\ ~Alive(f, t)
       /\ handle' = [handle EXCEPT ![f] = t]
       /\ Goto(f, t, "top")
  /\ UNCHANGED <<policy, sequence, base, buffer, inHand, posted, reply,
                 leaderVars, late, historyVars, faults>>

\* The handle alone says whether a thread runs; the event is cleared, also
\* for a thread that an earlier stop left running.  (The bound: a third thread
\* is not started.)
StartFollower(f) ==
  /\ handle[f] = NoThread
  /\ stopEvent' = [stopEvent EXCEPT ![f] = FALSE]
  /\ LET t == IF Alive(f, 1) THEN 2 ELSE 1 IN
       /\ ~Alive(f, t)
       /\ handle' = [handle EXCEPT ![f] = t]
       /\ Goto(f, t, "top")
  /\ UNCHANGED <<policy, sequence, base, buffer, inHand, posted, reply,
                 leaderVars, late, historyVars, faults>>

StopFollower(f) ==
  /\ handle[f] # NoThread
  /\ ~stopEvent[f]
  /\ stopEvent' = [stopEvent EXCEPT ![f] = TRUE]
  /\ UNCHANGED <<policy, sequence, base, buffer, handle, inHand, pc,
                 posted, reply, leaderVars, late, historyVars, faults>>

\* join returns when the thread has ended or the timeout is over, and the
\* handle is forgotten in both cases.
JoinFollower(f) ==
  /\ handle[f] # NoThread
  /\ stopEvent[f]
  /\ \/ ~Alive(f, handle[f]) /\ UNCHANGED <<abandoned, faults>>
     \/ /\ Alive(f, handle[f])
        /\ JoinTimeouts
        /\ Fault
        /\ abandoned' = [abandoned EXCEPT ![f] = TRUE]
  /\ handle' = [handle EXCEPT ![f] = NoThread]
  /\ UNCHANGED <<policy, sequence, base, buffer, stopEvent, inHand, pc,
                 posted, reply, leaderVars, late, accepted, expired>>

\* The follower process ends and starts again: everything is volatile.  A
\* request it had sent may still be on its way.
RestartFollower(f) ==
  /\ Fault
  /\ \E p \in Policies : policy' = [policy EXCEPT ![f] = p]
  /\ sequence' = [sequence EXCEPT ![f] = 0]
  /\ base' = [base EXCEPT ![f] = Taken(f)]
  /\ buffer' = [buffer EXCEPT ![f] = << >>]
  /\ stopEvent' = [stopEvent EXCEPT ![f] = FALSE]
  /\ handle' = [handle EXCEPT ![f] = NoThread]
  /\ pc' = [pc EXCEPT ![f] = [t \in Thread |-> "off"]]
  /\ inHand' = [inHand EXCEPT ![f] = [t \in Thread |-> 0]]
  /\ posted' = [posted EXCEPT ![f] = [t \in Thread |-> 0]]
  /\ reply' = [reply EXCEPT ![f] = [t \in Thread |-> 0]]
  /\ late' = IF LateRequests
             THEN late \cup {<<f, posted[f][t], policy[f]>> :
                               t \in {s \in Thread : pc[f][s] = "post"}}
             ELSE late
  /\ abandoned' = [abandoned EXCEPT ![f] = FALSE]
  /\ UNCHANGED <<leaderVars, accepted, expired>>

-----------------------------------------------------------------------------
(* The leader *)

\* What do_POST answers to a request sent under policy p: the token is checked
\* first, then both opt-ins.
Status(p) ==
  IF p = "bad_token" THEN 401
  ELSE IF optIn THEN 202 ELSE 403

\* A merge that keeps the first record of a rank.
RecordFirst(f, n, p) ==
  IF Status(p) = 202
  THEN /\ records' = [records EXCEPT
            ![RankOf[f]] = IF @ = NoRecord THEN [owner |-> f, n |-> n, age |-> 0]
                           ELSE [@ EXCEPT !.age = 0]]
       /\ accepted' = [accepted EXCEPT ![f] = @ \cup {n}]
  ELSE UNCHANGED <<records, accepted>>

\* receive_snapshot: the record of the rank is replaced, whatever it holds.
Record(f, n, p) ==
  IF Status(p) = 202
  THEN /\ records' = [records EXCEPT
            ![RankOf[f]] = [owner |-> f, n |-> n, age |-> 0]]
       /\ accepted' = [accepted EXCEPT ![f] = @ \cup {n}]
  ELSE UNCHANGED <<records, accepted>>

\* do_POST for a client that is still waiting.
HandlePost(f, t) ==
  /\ serverUp
  /\ pc[f][t] = "post"
  /\ Record(f, posted[f][t], policy[f])
  /\ reply' = [reply EXCEPT ![f][t] = Status(policy[f])]
  /\ Goto(f, t, "replied")
  /\ UNCHANGED <<policy, sequence, base, buffer, stopEvent, handle, inHand, posted,
                 serverUp, optIn, late, expired, abandoned, faults>>

\* do_POST in a handler thread whose client is gone; the request carries the
\* token and the opt-in of the process that sent it.
HandleLate ==
  /\ serverUp
  /\ \E req \in late :
       /\ Record(req[1], req[2], req[3])
       /\ late' = late \ {req}
  /\ UNCHANGED <<followerVars, serverUp, optIn, expired, abandoned, faults>>

\* stop_server: the records stay with the ClusterDaemon object.
StopServer ==
  /\ serverUp
  /\ Fault
  /\ serverUp' = FALSE
  /\ UNCHANGED <<followerVars, optIn, records, late, historyVars>>

\* The leader process ends: its records and its connections are gone.
CrashLeader ==
  /\ Fault
  /\ serverUp' = FALSE
  /\ records' = [r \in Rank |-> NoRecord]
  /\ late' = {}
  /\ UNCHANGED <<followerVars, optIn, historyVars>>

StartServer ==
  /\ ~serverUp
  /\ serverUp' = TRUE
  /\ optIn' \in LeaderOptIn
  /\ UNCHANGED <<followerVars, records, late, historyVars, faults>>

-----------------------------------------------------------------------------

\* A leader whose records never age.
TickWithoutLeader ==
  /\ EagerThreads => \A f \in Follower, t \in Thread :
                       pc[f][t] \in {"off", "dead", "wait", "post"}
  /\ buffer' = [f \in Follower |->
       [i \in 1 .. Len(buffer[f]) |->
          [buffer[f][i] EXCEPT !.age = Older(@, BufferSeconds)]]]
  /\ UNCHANGED <<policy, sequence, base, stopEvent, handle, inHand, pc,
                 posted, reply, serverUp, optIn, records, late, historyVars, faults>>

\* Time passes on every clock.  With EagerThreads a heartbeat's own work takes
\* no time; otherwise a thread may be held up anywhere for any time.
Tick ==
  /\ EagerThreads => \A f \in Follower, t \in Thread :
                       pc[f][t] \in {"off", "dead", "wait", "post"}
  /\ buffer' = [f \in Follower |->
       [i \in 1 .. Len(buffer[f]) |->
          [buffer[f][i] EXCEPT !.age = Older(@, BufferSeconds)]]]
  /\ records' = [r \in Rank |->
       IF records[r] = NoRecord THEN NoRecord
       ELSE [records[r] EXCEPT !.age = Older(@, StaleAfter)]]
  /\ UNCHANGED <<policy, sequence, base, stopEvent, handle, inHand, pc,
                 posted, reply, serverUp, optIn, late, historyVars, faults>>

Init ==
  /\ policy \in [Follower -> Policies]
  /\ sequence = [f \in Follower |-> 0]
  /\ base = [f \in Follower |-> 0]
  /\ buffer = [f \in Follower |-> << >>]
  /\ stopEvent = [f \in Follower |-> FALSE]
  /\ handle = [f \in Follower |-> NoThread]
  /\ pc = [f \in Follower |-> [t \in Thread |-> "off"]]
  /\ inHand = [f \in Follower |-> [t \in Thread |-> 0]]
  /\ posted = [f \in Follower |-> [t \in Thread |-> 0]]
  /\ reply = [f \in Follower |-> [t \in Thread |-> 0]]
  /\ serverUp = FALSE
  /\ optIn \in LeaderOptIn
  /\ records = [r \in Rank |-> NoRecord]
  /\ late = {}
  /\ accepted = [f \in Follower |-> {}]
  /\ expired = [f \in Follower |-> {}]
  /\ abandoned = [f \in Follower |-> FALSE]
  /\ faults = 0

ThreadStep(f, t) ==
  \/ ThreadExit(f, t)
  \/ CountSnapshot(f, t)
  \/ NumberSnapshot(f, t)
  \/ AppendSnapshot(f, t)
  \/ SkipSnapshot(f, t)
  \/ DrainHead(f, t)
  \/ PostFails(f, t)
  \/ ReplyLost(f, t)
  \/ TakeReply(f, t)
  \/ PopHead(f, t)
  \/ Wake(f, t)

Next ==
  \/ \E f \in Follower, t \in Thread : ThreadStep(f, t) \/ HandlePost(f, t)
  \/ \E f \in Follower : \/ StartFollower(f)
                         \/ StopFollower(f)
                         \/ JoinFollower(f)
                         \/ RestartFollower(f)
  \/ HandleLate
  \/ StopServer
  \/ CrashLeader
  \/ StartServer
  \/ Tick

Spec == Init /\ [][Next]_vars

\* A thread that is not blocked keeps running, and a pending POST comes to an
\* end.  These are the steps of the code itself; faults are never forced.
ThreadProgress(f, t) ==
  \/ ThreadExit(f, t)
  \/ CountSnapshot(f, t)
  \/ NumberSnapshot(f, t)
  \/ AppendSnapshot(f, t)
  \/ SkipSnapshot(f, t)
  \/ DrainHead(f, t)
  \/ HandlePost(f, t)
  \/ ~serverUp /\ PostFails(f, t)
  \/ TakeReply(f, t)
  \/ PopHead(f, t)
  \/ Wake(f, t)

\* The operator brings a stopped leader up again.  Clocks advance: SF, because
\* EagerThreads disables Tick between two waits.
Fairness ==
  /\ \A f \in Follower, t \in Thread : WF_vars(ThreadProgress(f, t))
  /\ WF_vars(StartServer)
  /\ SF_vars(Tick)

FairSpec == Spec /\ Fairness

-----------------------------------------------------------------------------
(* Properties *)

Snapshots == 0 .. MaxSnapshots

\* Type correctness of the daemon state.
TypeOK ==
  /\ policy \in [Follower -> PolicyName]
  /\ sequence \in [Follower -> Nat]
  /\ base \in [Follower -> Nat]
  /\ buffer \in [Follower -> Seq([n : Nat, age : Nat])]
  /\ stopEvent \in [Follower -> BOOLEAN]
  /\ handle \in [Follower -> Thread \cup {NoThread}]
  /\ pc \in [Follower -> [Thread -> Label]]
  /\ inHand \in [Follower -> [Thread -> Nat]]
  /\ posted \in [Follower -> [Thread -> Nat]]
  /\ reply \in [Follower -> [Thread -> {0, 202, 401, 403}]]
  /\ serverUp \in BOOLEAN
  /\ optIn \in BOOLEAN
  /\ records \in [Rank -> [owner : Follower, n : Nat, age : Nat] \cup {NoRecord}]
  /\ late \in SUBSET (Follower \X Nat \X PolicyName)
  /\ accepted \in [Follower -> SUBSET Nat]
  /\ expired \in [Follower -> SUBSET Nat]
  /\ abandoned \in [Follower -> BOOLEAN]
  /\ faults \in 0 .. MaxFaults

\* While one heartbeat thread runs, the buffer is in snapshot order and an entry
\* is never younger than the one behind it, so that the prune from the head
\* (_prune_buffer) that stops at the first young entry has dropped every old
\* one.  (A thread that outlived its join shares the count and the buffer with
\* its successor without a lock, and may append an earlier snapshot later.)
OldestFirst ==
  \A f \in Follower : ~abandoned[f] => \A i, j \in DOMAIN buffer[f] :
    i < j => /\ buffer[f][i].n < buffer[f][j].n
             /\ buffer[f][i].age >= buffer[f][j].age

\* What the running process has snapshotted is accepted by the leader, still
\* buffered, too old to keep, or the one a thread has yet to append.
Collecting(f) == \E t \in Thread : pc[f][t] \in {"number", "append"}

Kept(f) ==
  \A n \in base[f] + 1 .. Taken(f) :
    \/ n \in accepted[f] \cup Buffered(f) \cup expired[f]
    \/ n = Taken(f) /\ Collecting(f)

\* CHANGELOG.md:191 promises "five-minute follower buffering, replay on reconnect".
\* Nothing is lost while no stop_follower has left a live thread behind, whatever
\* the network and the leader do.
NothingLost == \A f \in Follower : ~abandoned[f] => Kept(f)

\* Delivery is in order: a snapshot is accepted only when every earlier one of
\* the same process was accepted or was too old.
NoGaps ==
  \A f \in Follower : ~abandoned[f] =>
    \A m \in accepted[f] : \A n \in base[f] + 1 .. m - 1 :
      n \in accepted[f] \cup expired[f]

\* The strengthening that makes these inductive: one live thread, whose POST
\* carries the head of the buffer; only what was accepted is popped; and a
\* snapshot on its way has no undelivered one before it.
Earlier(f, m) ==
  \A n \in base[f] + 1 .. m - 1 : n \in accepted[f] \cup expired[f]

OneThread ==
  \A f \in Follower : ~abandoned[f] =>
    \A t \in Thread : Alive(f, t) => handle[f] = t

HeadPosted ==
  \A f \in Follower : ~abandoned[f] =>
    \A t \in Thread : pc[f][t] \in {"post", "replied", "pop"} =>
      buffer[f] # << >> /\ posted[f][t] = buffer[f][1].n

PopAccepted ==
  \A f \in Follower, t \in Thread :
    pc[f][t] = "pop" \/ (pc[f][t] = "replied" /\ reply[f][t] = 202)
      => posted[f][t] \in accepted[f]

\* The snapshot in hand is the last one counted, and comes after all that are
\* buffered.
FreshInHand ==
  \A f \in Follower : ~abandoned[f] =>
    \A t \in Thread : pc[f][t] \in {"number", "append"} =>
      /\ \A i \in DOMAIN buffer[f] : buffer[f][i].n < Taken(f)
      /\ pc[f][t] = "append" => inHand[f][t] = Taken(f)

NoneFromTheFuture ==
  \A f \in Follower :
    /\ \A i \in DOMAIN buffer[f] : buffer[f][i].n <= Taken(f)
    /\ \A t \in Thread : posted[f][t] <= Taken(f) /\ inHand[f][t] <= Taken(f)
    /\ \A m \in accepted[f] : m <= Taken(f)
    /\ \A req \in late : req[1] = f => req[2] <= Taken(f)

LateInOrder == \A req \in late : ~abandoned[req[1]] => Earlier(req[1], req[2])

\* The inductive invariant: all of the above, and type correctness.
IInv ==
  /\ TypeOK
  /\ OldestFirst
  /\ NothingLost
  /\ NoGaps
  /\ OneThread
  /\ FreshInHand
  /\ HeadPosted
  /\ PopAccepted
  /\ NoneFromTheFuture
  /\ LateInOrder

\* FollowerRecord is the "latest leader-side snapshot for one follower rank":
\* no step replaces a follower's record by an earlier snapshot.
LatestKept ==
  [][\A r \in Rank :
       records'[r].owner = records[r].owner => records'[r].n >= records[r].n
    ]_records

\* With ranks of their own, no late requests and no join timeouts, the daemons
\* implement the register that LatestView specifies.
View == INSTANCE LatestView WITH
  taken <- [f \in Follower |-> Taken(f)],
  view  <- [f \in Follower |-> records[RankOf[f]].n]

ImplementsLatestView == View!Spec

Running(f) ==
  /\ handle[f] # NoThread
  /\ ~stopEvent[f]
  /\ Alive(f, handle[f])

\* No snapshot stays at the head for ever, not even one the leader rejects:
\* while the heartbeat runs it is delivered or becomes too old.
BufferDrains ==
  \A f \in Follower : \A n \in Snapshots :
    (Running(f) /\ n \in Buffered(f)) ~> (~Running(f) \/ n \notin Buffered(f))

\* After any outage the leader's view of a running follower that it admits
\* catches up with the follower.
CatchesUp ==
  \A f \in Follower :
    (Running(f) /\ policy[f] = "ok")
      ~> (~Running(f) \/ policy[f] # "ok" \/ ~optIn
          \/ records[RankOf[f]].n = Taken(f))

\* A follower without a heartbeat thread is sooner or later not counted as
\* active (follower_up, the active sums).
SilenceIsNoticed ==
  \A f \in Follower :
    (\A t \in Thread : ~Alive(f, t))
      ~> \/ \E t \in Thread : Alive(f, t)
         \/ records[RankOf[f]] = NoRecord
         \/ IsStale(RankOf[f])
=============================================================================
