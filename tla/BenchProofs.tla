----------------------------- MODULE BenchProofs -----------------------------
(***************************************************************************)
(* What holds of every run of `inferguard bench`, for any levels, requests,*)
(* scrapes and attempts: the inductive invariant of module Bench and what  *)
(* follows from it.                                                        *)
(***************************************************************************)
EXTENDS Bench, FiniteSetTheorems, SequenceTheorems, TLAPS

USE LevelsAssumption, RequestsAssumption, ScrapesAssumption, AttemptsAssumption
USE DEF vars, toolVars, levelVars, collectorVars, timelineVars, fileVars, Level, Requests

\* What the two ways to add rows do to the timeline.
LEMMA AppendRow ==
  ASSUME TypeOK, NEW kind \in Snapshots, NEW during \in SUBSET (Level \X Requests)
  PROVE  LET more == Append(timeline, Row(captured, kind, during)) IN
         /\ more \in Seq(TimelineRows)
         /\ Len(more) = Len(timeline) + 1
         /\ DOMAIN more = 1 .. Len(timeline) + 1
         /\ \A i \in DOMAIN timeline : more[i] = timeline[i]
         /\ more[Len(timeline) + 1] = Row(captured, kind, during)
<1>1. Row(captured, kind, during) \in TimelineRows
  BY DEF TypeOK, Row, TimelineRows, Snapshots
<1>2. timeline \in Seq(TimelineRows)
  BY DEF TypeOK
<1> HIDE DEF Level, Requests
<1> QED BY <1>1, <1>2

LEMMA ExtendRows ==
  ASSUME TypeOK, NEW kind \in {"giant", "customer"}, NEW n \in Nat
  PROVE  LET more == Extended(kind, n) IN
         /\ more \in Seq(TimelineRows)
         /\ Len(more) = Len(timeline) + n
         /\ DOMAIN more = 1 .. Len(timeline) + n
         /\ \A i \in DOMAIN timeline : more[i] = timeline[i]
         /\ \A i \in DOMAIN more :
              \/ i \in DOMAIN timeline
              \/ more[i] = Row(captured + (i - Len(timeline)) - 1, kind, {})
<1> DEFINE new == [i \in 1 .. n |-> Row(captured + i - 1, kind, {})]
<1>1. timeline \in Seq(TimelineRows) /\ captured \in Nat
  BY DEF TypeOK
<1>2. \A i \in 1 .. n : Row(captured + i - 1, kind, {}) \in TimelineRows
  BY <1>1 DEF Row, TimelineRows
<1>3. new \in Seq(TimelineRows) /\ Len(new) = n
  BY <1>2
<1> HIDE DEF Level, Requests, new
<1>4. Extended(kind, n) = timeline \o new
  BY DEF Extended, new
<1>5. /\ timeline \o new \in Seq(TimelineRows)
      /\ Len(timeline \o new) = Len(timeline) + n
      /\ \A i \in 1 .. Len(timeline) + n :
           (timeline \o new)[i] = IF i <= Len(timeline) THEN timeline[i] ELSE new[i - Len(timeline)]
  BY <1>1, <1>3, ConcatProperties
<1>6. \A i \in 1 .. n : new[i] = Row(captured + i - 1, kind, {})
  BY DEF new
<1> DEFINE more == timeline \o new
<1>7. DOMAIN more = 1 .. Len(timeline) + n
  BY <1>1, <1>5
<1>8. ASSUME NEW i \in DOMAIN more, i \notin DOMAIN timeline
      PROVE  more[i] = Row(captured + (i - Len(timeline)) - 1, kind, {})
  <2>1. DOMAIN timeline = 1 .. Len(timeline) /\ Len(timeline) \in Nat
    BY <1>1
  <2>2. i \in 1 .. Len(timeline) + n /\ i > Len(timeline)
    BY <1>7, <1>8, <2>1
  <2>3. i - Len(timeline) \in 1 .. n
    BY <2>1, <2>2
  <2>4. more[i] = new[i - Len(timeline)]
    BY <1>5, <2>1, <2>2
  <2> QED BY <1>6, <2>3, <2>4
<1>9. \A i \in DOMAIN timeline : more[i] = timeline[i]
  BY <1>1, <1>5
<1> QED BY <1>4, <1>5, <1>7, <1>8, <1>9

\* Rows that are numbered on from the length keep the timeline numbered.
LEMMA ExtendNumbers ==
  ASSUME TypeOK, TimelineNumbered, captured = Len(timeline),
         NEW kind \in {"giant", "customer"}, NEW n \in Nat
  PROVE  \A i \in DOMAIN Extended(kind, n) : Extended(kind, n)[i].seq = i - 1
<1> SUFFICES ASSUME NEW i \in DOMAIN Extended(kind, n)
             PROVE  Extended(kind, n)[i].seq = i - 1
  OBVIOUS
<1>0. Len(timeline) \in Nat
  BY DEF TypeOK
<1>1. i \in 1 .. Len(timeline) + n
  BY ExtendRows
<1>2. CASE i \in DOMAIN timeline
  <2>1. Extended(kind, n)[i] = timeline[i]
    BY <1>2, ExtendRows
  <2> QED BY <1>2, <2>1 DEF TimelineNumbered
<1>3. CASE i \notin DOMAIN timeline
  <2>1. \A j \in DOMAIN Extended(kind, n) :
          \/ j \in DOMAIN timeline
          \/ Extended(kind, n)[j] = Row(captured + (j - Len(timeline)) - 1, kind, {})
    BY ExtendRows
  <2>3. captured + (i - Len(timeline)) - 1 = i - 1
    BY <1>0, <1>1
  <2> QED BY <1>3, <2>1, <2>3 DEF Row
<1> QED BY <1>2, <1>3

USE DEF At, Goto, Issue, Began, Written, Collect, Before, Running, After, Unwritten, Ended

LEMMA FileTypes ==
  ASSUME TypeOK
  PROVE  /\ attempt \in Nat \ {0} /\ attempt <= MaxAttempts
         /\ of \in [Files -> Nat]
         /\ summary.of \in Nat /\ summary.peaks \in SUBSET {"older", "own"}
         /\ config.scrape \in BOOLEAN /\ config.deadline \in BOOLEAN
<1> HIDE DEF Level, Requests
<1>1. attempt \in 1 .. MaxAttempts /\ of \in [Files -> 0 .. MaxAttempts] /\ config \in Configurations
  BY DEF TypeOK
<1>2. summary.of \in 0 .. MaxAttempts /\ summary.peaks \in SUBSET {"older", "own"}
  BY DEF TypeOK
<1>3. config.scrape \in BOOLEAN /\ config.deadline \in BOOLEAN
  BY <1>1 DEF Configurations
<1> QED BY <1>1, <1>2, <1>3

LEMMA FilesStep ==
  ASSUME IInv, Next
  PROVE  (FilesOf /\ NewestFirst)'
<1> USE DEF FilesOf, NewestFirst, Files
<1>0. FilesOf /\ NewestFirst /\ TypeOK
  BY DEF IInv
<1> USE <1>0, FileTypes
<1>1. CASE Prepare
  <2>1. CASE WriteConfig
    BY <2>1 DEF WriteConfig
  <2>2. CASE EmptyRequests
    BY <2>2 DEF EmptyRequests
  <2>3. CASE EmptyMetrics
    BY <2>3 DEF EmptyMetrics
  <2>4. CASE AppendRequests
    BY <2>4 DEF AppendRequests
  <2>5. CASE StartTimeline
    BY <2>5 DEF StartTimeline
  <2> QED BY <1>1, <2>1, <2>2, <2>3, <2>4, <2>5 DEF Prepare
<1>2. CASE Dispatch \/ Answering
  BY <1>2 DEF Dispatch, Answering, BeginLevel, Gather, Batch, Arrive, Deadline, Begin, Finish,
      LevelDone
<1>3. CASE AppendMetrics
  BY <1>3 DEF AppendMetrics
<1>4. CASE AppendFails
  BY <1>4 DEF AppendFails
<1>5. CASE Scraping
  BY <1>5 DEF Scraping, CollectorTop, Scraped, ScrapeFails, Wake
<1>6. CASE Conclude
  <2>1. CASE Stop
    BY <2>1 DEF Stop
  <2>2. CASE Stopped
    BY <2>2 DEF Stopped
  <2>3. CASE AppendGiant
    BY <2>3 DEF AppendGiant
  <2>4. CASE AppendCustomers
    BY <2>4 DEF AppendCustomers
  <2>5. CASE WriteSummary
    BY <2>5 DEF WriteSummary
  <2>6. CASE WriteReport
    BY <2>6 DEF WriteReport
  <2>7. CASE WriteRun
    BY <2>7 DEF WriteRun
  <2> QED BY <1>6, <2>1, <2>2, <2>3, <2>4, <2>5, <2>6, <2>7 DEF Conclude
<1>7. CASE CannotWrite
  BY <1>7 DEF CannotWrite
<1>8. CASE Interrupt
  BY <1>8 DEF Interrupt
<1>9. CASE Rerun
  <2>1. /\ attempt' = attempt + 1 /\ of' = of /\ summary' = summary
        /\ pc' = "write_config" /\ tool' = "running"
    BY <1>9 DEF Rerun
  <2>2. /\ \A f \in Files : of'[f] < attempt' /\ of'[f] # attempt'
        /\ summary'.of < attempt' /\ summary'.of # attempt'
    BY <2>1, SMTT(30)
  <2>3. NewestFirst'
    BY <2>1, SMTT(30)
  <2> QED BY <2>1, <2>2, <2>3
<1> QED BY <1>1, <1>2, <1>3, <1>4, <1>5, <1>6, <1>7, <1>8, <1>9 DEF Next

LEMMA PeaksStep ==
  ASSUME IInv, Next
  PROVE  (FreshTimeline /\ PeaksAreOwn)'
<1> USE DEF FreshTimeline, PeaksAreOwn, FilesOf, Peaks
<1>0. FreshTimeline /\ PeaksAreOwn /\ FilesOf /\ TypeOK
  BY DEF IInv
<1> USE <1>0, FileTypes
<1>1. CASE Prepare
  <2>1. CASE WriteConfig
    BY <2>1 DEF WriteConfig
  <2>2. CASE EmptyRequests
    BY <2>2 DEF EmptyRequests
  <2>3. CASE EmptyMetrics
    BY <2>3 DEF EmptyMetrics
  <2>4. CASE AppendRequests
    BY <2>4 DEF AppendRequests
  <2>5. CASE StartTimeline
    BY <2>5 DEF StartTimeline
  <2> QED BY <1>1, <2>1, <2>2, <2>3, <2>4, <2>5 DEF Prepare
<1>2. CASE Dispatch \/ Answering
  BY <1>2 DEF Dispatch, Answering, BeginLevel, Gather, Batch, Arrive, Deadline, Begin, Finish,
      LevelDone
<1>3. CASE AppendMetrics
  BY <1>3 DEF AppendMetrics
<1>4. CASE AppendFails
  BY <1>4 DEF AppendFails
<1>5. CASE Scraping
  BY <1>5 DEF Scraping, CollectorTop, Scraped, ScrapeFails, Wake
<1>6. CASE Conclude
  <2>1. CASE Stop
    BY <2>1 DEF Stop
  <2>2. CASE Stopped
    BY <2>2 DEF Stopped
  <2>3. CASE AppendGiant
    BY <2>3 DEF AppendGiant
  <2>4. CASE AppendCustomers
    BY <2>4 DEF AppendCustomers
  <2>5. CASE WriteSummary
    BY <2>5 DEF WriteSummary
  <2>6. CASE WriteReport
    BY <2>6 DEF WriteReport
  <2>7. CASE WriteRun
    BY <2>7 DEF WriteRun
  <2> QED BY <1>6, <2>1, <2>2, <2>3, <2>4, <2>5, <2>6, <2>7 DEF Conclude
<1>7. CASE CannotWrite
  BY <1>7 DEF CannotWrite
<1>8. CASE Interrupt
  BY <1>8 DEF Interrupt
<1>9. CASE Rerun
  BY <1>9 DEF Rerun
<1> QED BY <1>1, <1>2, <1>3, <1>4, <1>5, <1>6, <1>7, <1>8, <1>9 DEF Next

LEMMA RecordedFinite ==
  /\ Cardinality(Recorded(metrics)) \in Nat
  /\ Recorded(metrics) # {} => Cardinality(Recorded(metrics)) > 0
<1>1. IsFiniteSet(Level) /\ IsFiniteSet(Requests)
  BY FS_Interval
<1>2. IsFiniteSet(Level \X Requests)
  BY <1>1, FS_Product
<1>3. Recorded(metrics) \subseteq Level \X Requests
  BY DEF Recorded
<1>4. IsFiniteSet(Recorded(metrics))
  BY <1>2, <1>3, FS_Subset
<1> HIDE DEF Level, Requests
<1> QED BY <1>4, FS_CardinalityType, FS_EmptySet

LEMMA TimelineTypes ==
  ASSUME TypeOK
  PROVE  /\ timeline \in Seq(TimelineRows) /\ Len(timeline) \in Nat
         /\ DOMAIN timeline = 1 .. Len(timeline)
         /\ observed \in Nat /\ captured \in Nat /\ observed <= MaxScrapes
         /\ timeline = <<>> <=> Len(timeline) = 0
<1> HIDE DEF Level, Requests
<1> QED BY DEF TypeOK

LEMMA CountedStep ==
  ASSUME IInv, Next
  PROVE  (Counted /\ TimelineNumbered)'
<1> USE DEF Counted, TimelineNumbered
<1>0. Counted /\ TimelineNumbered /\ TypeOK
  BY DEF IInv
<1> USE <1>0, TimelineTypes
<1>1. CASE Prepare
  BY <1>1 DEF Prepare, WriteConfig, EmptyRequests, EmptyMetrics, AppendRequests, StartTimeline
<1>2. CASE Dispatch \/ Answering
  BY <1>2 DEF Dispatch, Answering, BeginLevel, Gather, Batch, Arrive, Deadline, Begin, Finish,
      LevelDone
<1>3. CASE AppendMetrics
  BY <1>3 DEF AppendMetrics
<1>4. CASE AppendFails
  BY <1>4 DEF AppendFails
<1>5. CASE Scraping
  <2>1. CASE CollectorTop
    BY <2>1 DEF CollectorTop
  <2>2. CASE Scraped
    <3>1. {level} \X InFlight \in SUBSET (Level \X Requests)
      BY DEF TypeOK, InFlight
    <3>2. pc \in Running /\ observed = captured /\ captured = Len(timeline)
      BY <2>2 DEF Scraped, TypeOK
    <3>3. /\ Len(timeline') = Len(timeline) + 1
          /\ DOMAIN timeline' = 1 .. Len(timeline) + 1
          /\ \A i \in DOMAIN timeline : timeline'[i] = timeline[i]
          /\ timeline'[Len(timeline) + 1].seq = captured
      <4>1. PICK kind \in Snapshots :
              timeline' = Append(timeline, Row(captured, kind, {level} \X InFlight))
        BY <2>2 DEF Scraped
      <4> QED BY <3>1, <4>1, AppendRow DEF Row
    <3>4. ASSUME NEW i \in DOMAIN timeline'
          PROVE  timeline'[i].seq = i - 1
      <4>1. CASE i \in DOMAIN timeline
        BY <3>3, <4>1
      <4>2. CASE i \notin DOMAIN timeline
        <5>1. i = Len(timeline) + 1
          BY <3>3, <4>2
        <5> QED BY <3>2, <3>3, <5>1
      <4> QED BY <4>1, <4>2
    <3> QED BY <2>2, <3>2, <3>3, <3>4 DEF Scraped
  <2>3. CASE ScrapeFails
    BY <2>3 DEF ScrapeFails
  <2>4. CASE Wake
    BY <2>4 DEF Wake
  <2> QED BY <1>5, <2>1, <2>2, <2>3, <2>4 DEF Scraping
<1>6. CASE Conclude
  <2>1. CASE Stop
    BY <2>1 DEF Stop
  <2>2. CASE Stopped
    BY <2>2 DEF Stopped
  <2>3. CASE AppendGiant
    <3>1. CASE config.giant
      <4>1. timeline' = Extended("giant", 3) /\ captured' = captured + 3
        BY <2>3, <3>1 DEF AppendGiant
      <4>2. captured = Len(timeline)
        BY <2>3 DEF AppendGiant
      <4>3. TimelineNumbered'
        BY <4>1, <4>2, ExtendNumbers
      <4>4. Len(timeline') = Len(timeline) + 3 /\ timeline' \in Seq(TimelineRows)
        BY <4>1, ExtendRows
      <4>5. timeline' # <<>> /\ captured' > 0
        BY <4>1, <4>2, <4>4
      <4> QED BY <2>3, <4>1, <4>2, <4>3, <4>4, <4>5 DEF AppendGiant
    <3>2. CASE ~config.giant
      BY <2>3, <3>2 DEF AppendGiant
    <3> QED BY <3>1, <3>2
  <2>4. CASE AppendCustomers
    <3> DEFINE n == Cardinality(Recorded(metrics))
    <3>1. CASE config.customers /\ Recorded(metrics) # {}
      <4>0. n \in Nat /\ n > 0
        BY <3>1, RecordedFinite
      <4> HIDE DEF n
      <4>1. timeline' = Extended("customer", n) /\ captured' > 0
        BY <2>4, <3>1 DEF AppendCustomers, n
      <4>2. captured = Len(timeline)
        BY <2>4 DEF AppendCustomers
      <4>3. TimelineNumbered'
        BY <4>0, <4>1, <4>2, ExtendNumbers
      <4>4. Len(timeline') = Len(timeline) + n /\ timeline' \in Seq(TimelineRows)
        BY <4>0, <4>1, ExtendRows
      <4>5. timeline' # <<>>
        BY <4>0, <4>4
      <4> QED BY <2>4, <4>1, <4>3, <4>5 DEF AppendCustomers
    <3>2. CASE ~(config.customers /\ Recorded(metrics) # {})
      BY <2>4, <3>2 DEF AppendCustomers
    <3> QED BY <3>1, <3>2
  <2>5. CASE WriteSummary
    BY <2>5 DEF WriteSummary
  <2>6. CASE WriteReport
    BY <2>6 DEF WriteReport
  <2>7. CASE WriteRun
    BY <2>7 DEF WriteRun
  <2> QED BY <1>6, <2>1, <2>2, <2>3, <2>4, <2>5, <2>6, <2>7 DEF Conclude
<1>7. CASE CannotWrite
  BY <1>7 DEF CannotWrite
<1>8. CASE Interrupt
  BY <1>8 DEF Interrupt
<1>9. CASE Rerun
  BY <1>9 DEF Rerun
<1> QED BY <1>1, <1>2, <1>3, <1>4, <1>5, <1>6, <1>7, <1>8, <1>9 DEF Next

LEMMA LabelTypes ==
  /\ LevelRows \in [Requests -> Labels]
  /\ NoRows \in [Level -> [Requests -> Labels]]
  /\ \A n \in Nat : [r \in Requests |-> IF r <= n THEN Label(r) ELSE "none"] \in [Requests -> Labels]
<1> HIDE DEF Level, Requests
<1>1. \A r \in Requests : Label(r) \in Labels
  BY DEF Label, Labels
<1> QED BY <1>1 DEF LevelRows, NoRows, Labels

LEMMA SizeType ==
  \A l \in Level : LevelSize(l) \in 1 .. NumRequests
BY DEF LevelSize

\* The type invariant in parts, by what the actions change together.
ToolTypes ==
  /\ attempt \in 1 .. MaxAttempts
  /\ config \in Configurations
  /\ tool \in {"running", "returned", "raised", "interrupted"}
  /\ pc \in Before \cup Running \cup After

FlagTypes ==
  failing \in BOOLEAN /\ open \in BOOLEAN /\ stopping \in BOOLEAN /\ older \in BOOLEAN

LevelTypes ==
  /\ level \in Level
  /\ issued \in 0 .. NumRequests
  /\ task \in [Requests -> {"none", "ready", "flight", "done"}]
  /\ begun \in [Requests -> 0 .. MaxScrapes]
  /\ ended \in [Requests -> 0 .. MaxScrapes]

CollectorTypes ==
  /\ collector \in {"off", "top", "scraping", "waiting"}
  /\ observed \in 0 .. MaxScrapes
  /\ captured \in Nat
  /\ timeline \in Seq(TimelineRows)

OutputTypes ==
  /\ metrics \in [Level -> [Requests -> Labels]]
  /\ of \in [Files -> 0 .. MaxAttempts]
  /\ file \in [Level -> [Requests -> Labels]]

SummaryTypes ==
  summary \in [of : 0 .. MaxAttempts, rows : SUBSET (Level \X Requests),
               present : BOOLEAN, peaks : SUBSET {"older", "own"}]

LEMMA TypeParts ==
  TypeOK <=> ToolTypes /\ FlagTypes /\ LevelTypes /\ CollectorTypes /\ OutputTypes /\ SummaryTypes
<1> HIDE DEF Level, Requests
<1> QED BY DEF TypeOK, ToolTypes, FlagTypes, LevelTypes, CollectorTypes, OutputTypes, SummaryTypes

LEMMA NoTypes ==
  /\ 1 \in Level
  /\ NoTasks \in [Requests -> {"none", "ready", "flight", "done"}]
  /\ NoTimes \in [Requests -> 0 .. MaxScrapes]
<1>1. Len(Levels) \in Nat /\ Len(Levels) > 0
  OBVIOUS
<1> QED BY <1>1 DEF NoTasks, NoTimes

LEMMA ToolTypesStep ==
  ASSUME IInv, Next
  PROVE  ToolTypes'
<1> USE DEF ToolTypes
<1>0. TypeOK /\ Counted /\ Tasks /\ ToolTypes
  BY TypeParts DEF IInv
<1> USE <1>0
<1> HIDE DEF Level, Requests
<1>1. CASE Prepare
  BY <1>1 DEF Prepare, WriteConfig, EmptyRequests, EmptyMetrics, AppendRequests, StartTimeline
<1>2. CASE Dispatch \/ Answering
  BY <1>2 DEF Dispatch, Answering, BeginLevel, Gather, Batch, Arrive, Deadline, Begin, Finish,
      LevelDone
<1>3. CASE AppendMetrics
  BY <1>3 DEF AppendMetrics
<1>4. CASE AppendFails
  BY <1>4 DEF AppendFails
<1>5. CASE Scraping
  BY <1>5 DEF Scraping, CollectorTop, Scraped, ScrapeFails, Wake
<1>6. CASE Conclude
  BY <1>6 DEF Conclude, Stop, Stopped, AppendGiant, AppendCustomers, WriteSummary, WriteReport, WriteRun
<1>7. CASE CannotWrite
  BY <1>7 DEF CannotWrite
<1>8. CASE Interrupt
  BY <1>8 DEF Interrupt
<1>9. CASE Rerun
  <2>1. /\ attempt < MaxAttempts /\ attempt' = attempt + 1
        /\ config' \in Configurations /\ tool' = "running"
        /\ pc' = "write_config"
    BY <1>9, OptionsAssumption DEF Rerun
  <2> QED BY <2>1
<1> QED BY <1>1, <1>2, <1>3, <1>4, <1>5, <1>6, <1>7, <1>8, <1>9 DEF Next

LEMMA FlagTypesStep ==
  ASSUME IInv, Next
  PROVE  FlagTypes'
<1> USE DEF FlagTypes
<1>0. TypeOK /\ Counted /\ Tasks /\ FlagTypes
  BY TypeParts DEF IInv
<1> USE <1>0
<1> HIDE DEF Level, Requests
<1>1. CASE Prepare
  BY <1>1 DEF Prepare, WriteConfig, EmptyRequests, EmptyMetrics, AppendRequests, StartTimeline
<1>2. CASE Dispatch \/ Answering
  <2>1. CASE BeginLevel
    BY <2>1 DEF BeginLevel
  <2>2. CASE Gather
    BY <2>2 DEF Gather
  <2>3. CASE Batch
    BY <2>3 DEF Batch
  <2>4. CASE Arrive
    BY <2>4 DEF Arrive
  <2>5. CASE Deadline
    BY <2>5 DEF Deadline
  <2>6. CASE Begin
    BY <2>6 DEF Begin
  <2>7. CASE Finish
    BY <2>7 DEF Finish
  <2>8. CASE LevelDone
    BY <2>8 DEF LevelDone
  <2> QED BY <1>2, <2>1, <2>2, <2>3, <2>4, <2>5, <2>6, <2>7, <2>8 DEF Dispatch, Answering
<1>3. CASE AppendMetrics
  BY <1>3 DEF AppendMetrics
<1>4. CASE AppendFails
  BY <1>4 DEF AppendFails
<1>5. CASE Scraping
  BY <1>5 DEF Scraping, CollectorTop, Scraped, ScrapeFails, Wake
<1>6. CASE Conclude
  BY <1>6 DEF Conclude, Stop, Stopped, AppendGiant, AppendCustomers, WriteSummary, WriteReport, WriteRun
<1>7. CASE CannotWrite
  BY <1>7 DEF CannotWrite
<1>8. CASE Interrupt
  BY <1>8 DEF Interrupt
<1>9. CASE Rerun
  BY <1>9 DEF Rerun
<1> QED BY <1>1, <1>2, <1>3, <1>4, <1>5, <1>6, <1>7, <1>8, <1>9 DEF Next

LEMMA LevelTypesStep ==
  ASSUME IInv, Next
  PROVE  LevelTypes'
<1> USE DEF LevelTypes
<1>0. TypeOK /\ Counted /\ Tasks /\ LevelTypes /\ CollectorTypes
  BY TypeParts DEF IInv
<1> USE <1>0
<1> HIDE DEF Level, Requests
<1>1. CASE Prepare
  BY <1>1 DEF Prepare, WriteConfig, EmptyRequests, EmptyMetrics, AppendRequests, StartTimeline
<1>2. CASE Dispatch \/ Answering
  <2>1. CASE BeginLevel
    BY <2>1, NoTypes DEF BeginLevel
  <2>2. CASE Gather
    <3>1. issued' \in 0 .. NumRequests /\ task' \in [Requests -> {"none", "ready", "flight", "done"}]
      BY <2>2, SizeType DEF Gather, Tasks
    <3> QED BY <2>2, <3>1 DEF Gather
  <2>3. CASE Batch
    <3>1. PICK n \in Nat : issued + n <= NumRequests /\ Issue(n)
      BY <2>3 DEF Batch
    <3> QED BY <3>1
  <2>4. CASE Arrive
    <3>1. issued < NumRequests
      BY <2>4, SizeType DEF Arrive
    <3> QED BY <2>4, <3>1 DEF Arrive
  <2>5. CASE Deadline
    BY <2>5 DEF Deadline
  <2>6. CASE Begin
    BY <2>6 DEF Begin, Ready, CollectorTypes
  <2>7. CASE Finish
    BY <2>7 DEF Finish, InFlight, CollectorTypes
  <2>8. CASE LevelDone
    BY <2>8 DEF LevelDone
  <2> QED BY <1>2, <2>1, <2>2, <2>3, <2>4, <2>5, <2>6, <2>7, <2>8 DEF Dispatch, Answering
<1>3. CASE AppendMetrics
  <2>1. level' \in Level
    BY <1>3 DEF AppendMetrics, Level
  <2> QED BY <1>3, <2>1 DEF AppendMetrics
<1>4. CASE AppendFails
  BY <1>4 DEF AppendFails
<1>5. CASE Scraping
  BY <1>5 DEF Scraping, CollectorTop, Scraped, ScrapeFails, Wake
<1>6. CASE Conclude
  BY <1>6 DEF Conclude, Stop, Stopped, AppendGiant, AppendCustomers, WriteSummary, WriteReport, WriteRun
<1>7. CASE CannotWrite
  BY <1>7 DEF CannotWrite
<1>8. CASE Interrupt
  BY <1>8 DEF Interrupt
<1>9. CASE Rerun
  <2>1. /\ level' = 1 /\ issued' = 0
        /\ task' = NoTasks /\ begun' = NoTimes /\ ended' = NoTimes
    BY <1>9 DEF Rerun
  <2> QED BY <2>1, NoTypes
<1> QED BY <1>1, <1>2, <1>3, <1>4, <1>5, <1>6, <1>7, <1>8, <1>9 DEF Next

LEMMA CollectorTypesStep ==
  ASSUME IInv, Next
  PROVE  CollectorTypes'
<1> USE DEF CollectorTypes
<1>0. TypeOK /\ Counted /\ Tasks /\ CollectorTypes /\ LevelTypes /\ ToolTypes
  BY TypeParts DEF IInv
<1> USE <1>0
<1> HIDE DEF Level, Requests
<1>1. CASE Prepare
  <2>1. CASE WriteConfig
    BY <2>1 DEF WriteConfig
  <2>2. CASE EmptyRequests
    BY <2>2 DEF EmptyRequests
  <2>3. CASE EmptyMetrics
    BY <2>3 DEF EmptyMetrics
  <2>4. CASE AppendRequests
    BY <2>4 DEF AppendRequests
  <2>5. CASE StartTimeline
    <3>1. timeline' = <<>> \/ timeline' = timeline
      BY <2>5 DEF StartTimeline
    <3>2. <<>> \in Seq(TimelineRows)
      OBVIOUS
    <3>3. timeline' \in Seq(TimelineRows)
      BY <3>1, <3>2
    <3> QED BY <2>5, <3>3 DEF StartTimeline
  <2> QED BY <1>1, <2>1, <2>2, <2>3, <2>4, <2>5 DEF Prepare
<1>2. CASE Dispatch \/ Answering
  BY <1>2 DEF Dispatch, Answering, BeginLevel, Gather, Batch, Arrive, Deadline, Begin, Finish,
      LevelDone
<1>3. CASE AppendMetrics
  BY <1>3 DEF AppendMetrics
<1>4. CASE AppendFails
  BY <1>4 DEF AppendFails
<1>5. CASE Scraping
  <2>1. CASE CollectorTop
    BY <2>1 DEF CollectorTop
  <2>2. CASE Scraped
    <3>1. {level} \X InFlight \in SUBSET (Level \X Requests)
      BY DEF InFlight, LevelTypes
    <3>2. timeline' \in Seq(TimelineRows)
      BY <2>2, <3>1, AppendRow DEF Scraped
    <3>3. observed < MaxScrapes
      BY <2>2 DEF Scraped, Counted, ToolTypes
    <3> QED BY <2>2, <3>2, <3>3 DEF Scraped
  <2>3. CASE ScrapeFails
    BY <2>3 DEF ScrapeFails
  <2>4. CASE Wake
    BY <2>4 DEF Wake
  <2> QED BY <1>5, <2>1, <2>2, <2>3, <2>4 DEF Scraping
<1>6. CASE Conclude
  <2>1. CASE Stop
    BY <2>1 DEF Stop
  <2>2. CASE Stopped
    BY <2>2 DEF Stopped
  <2>3. CASE AppendGiant
    <3>0. timeline' = Extended("giant", 3) \/ timeline' = timeline
      BY <2>3 DEF AppendGiant
    <3>1. timeline' \in Seq(TimelineRows)
      BY <3>0, ExtendRows
    <3> QED BY <2>3, <3>1 DEF AppendGiant
  <2>4. CASE AppendCustomers
    <3>1. timeline' \in Seq(TimelineRows)
      BY <2>4, ExtendRows, RecordedFinite DEF AppendCustomers
    <3> QED BY <2>4, <3>1 DEF AppendCustomers
  <2>5. CASE WriteSummary
    BY <2>5 DEF WriteSummary
  <2>6. CASE WriteReport
    BY <2>6 DEF WriteReport
  <2>7. CASE WriteRun
    BY <2>7 DEF WriteRun
  <2> QED BY <1>6, <2>1, <2>2, <2>3, <2>4, <2>5, <2>6, <2>7 DEF Conclude
<1>7. CASE CannotWrite
  BY <1>7 DEF CannotWrite
<1>8. CASE Interrupt
  BY <1>8 DEF Interrupt
<1>9. CASE Rerun
  <2>1. /\ collector' = "off" /\ observed' = 0 /\ captured' = 0
        /\ timeline' = <<>>
    BY <1>9 DEF Rerun
  <2>2. timeline' \in Seq(TimelineRows)
    BY <2>1
  <2> QED BY <2>1, <2>2
<1> QED BY <1>1, <1>2, <1>3, <1>4, <1>5, <1>6, <1>7, <1>8, <1>9 DEF Next

LEMMA OutputTypesStep ==
  ASSUME IInv, Next
  PROVE  OutputTypes'
<1> USE DEF OutputTypes
<1>0. TypeOK /\ Counted /\ Tasks /\ OutputTypes /\ ToolTypes /\ LevelTypes
  BY TypeParts DEF IInv
<1> USE <1>0, LabelTypes
<1> HIDE DEF Level, Requests
<1>1. CASE Prepare
  <2>1. CASE WriteConfig
    <3>1. of' = [of EXCEPT !["config"] = attempt] /\ attempt \in 0 .. MaxAttempts
      BY <2>1 DEF WriteConfig, ToolTypes
    <3>2. of' \in [Files -> 0 .. MaxAttempts]
      BY <3>1
    <3>3. metrics' = metrics /\ file' = file
      BY <2>1 DEF WriteConfig
    <3> QED BY <3>2, <3>3
  <2>2. CASE EmptyRequests
    <3>1. of' = [of EXCEPT !["requests"] = 0] /\ 0 \in 0 .. MaxAttempts
      BY <2>2 DEF EmptyRequests, ToolTypes
    <3>2. of' \in [Files -> 0 .. MaxAttempts]
      BY <3>1
    <3>3. metrics' = metrics /\ file' = file
      BY <2>2 DEF EmptyRequests
    <3> QED BY <3>2, <3>3
  <2>3. CASE EmptyMetrics
    <3>1. of' = [of EXCEPT !["metrics"] = attempt] /\ attempt \in 0 .. MaxAttempts
      BY <2>3 DEF EmptyMetrics, ToolTypes
    <3>2. of' \in [Files -> 0 .. MaxAttempts]
      BY <3>1
    <3>3. metrics' = metrics /\ file' = NoRows
      BY <2>3 DEF EmptyMetrics
    <3> QED BY <3>2, <3>3
  <2>4. CASE AppendRequests
    <3>1. of' = [of EXCEPT !["requests"] = attempt] /\ attempt \in 0 .. MaxAttempts
      BY <2>4 DEF AppendRequests, ToolTypes
    <3>2. of' \in [Files -> 0 .. MaxAttempts]
      BY <3>1
    <3>3. metrics' = metrics /\ file' = file
      BY <2>4 DEF AppendRequests
    <3> QED BY <3>2, <3>3
  <2>5. CASE StartTimeline
    BY <2>5 DEF StartTimeline
  <2> QED BY <1>1, <2>1, <2>2, <2>3, <2>4, <2>5 DEF Prepare
<1>2. CASE Dispatch \/ Answering
  BY <1>2 DEF Dispatch, Answering, BeginLevel, Gather, Batch, Arrive, Deadline, Begin, Finish,
      LevelDone
<1>3. CASE AppendMetrics
  BY <1>3 DEF AppendMetrics
<1>4. CASE AppendFails
  <2>1. PICK n \in 0 .. NumRequests :
          file' = [file EXCEPT ![level] = [r \in Requests |-> IF r <= n THEN Label(r) ELSE "none"]]
    BY <1>4 DEF AppendFails
  <2>2. n \in Nat
    OBVIOUS
  <2>3. file' \in [Level -> [Requests -> Labels]]
    BY <2>1, <2>2, LabelTypes
  <2>4. metrics' \in [Level -> [Requests -> Labels]] /\ of' = of
    BY <1>4, LabelTypes DEF AppendFails
  <2> QED BY <2>3, <2>4
<1>5. CASE Scraping
  BY <1>5 DEF Scraping, CollectorTop, Scraped, ScrapeFails, Wake
<1>6. CASE Conclude
  <2>1. CASE Stop
    BY <2>1 DEF Stop
  <2>2. CASE Stopped
    BY <2>2 DEF Stopped
  <2>3. CASE AppendGiant
    BY <2>3 DEF AppendGiant
  <2>4. CASE AppendCustomers
    BY <2>4 DEF AppendCustomers
  <2>5. CASE WriteSummary
    BY <2>5 DEF WriteSummary
  <2>6. CASE WriteReport
    <3>1. of' = [of EXCEPT !["report"] = attempt] /\ attempt \in 0 .. MaxAttempts
      BY <2>6 DEF WriteReport, ToolTypes
    <3>2. of' \in [Files -> 0 .. MaxAttempts]
      BY <3>1
    <3>3. metrics' = metrics /\ file' = file
      BY <2>6 DEF WriteReport
    <3> QED BY <3>2, <3>3
  <2>7. CASE WriteRun
    <3>1. of' = [of EXCEPT !["run"] = attempt] /\ attempt \in 0 .. MaxAttempts
      BY <2>7 DEF WriteRun, ToolTypes
    <3>2. of' \in [Files -> 0 .. MaxAttempts]
      BY <3>1
    <3>3. metrics' = metrics /\ file' = file
      BY <2>7 DEF WriteRun
    <3> QED BY <3>2, <3>3
  <2> QED BY <1>6, <2>1, <2>2, <2>3, <2>4, <2>5, <2>6, <2>7 DEF Conclude
<1>7. CASE CannotWrite
  BY <1>7 DEF CannotWrite
<1>8. CASE Interrupt
  BY <1>8 DEF Interrupt
<1>9. CASE Rerun
  <2>1. metrics' = NoRows /\ UNCHANGED <<of, file>>
    BY <1>9 DEF Rerun
  <2> QED BY <2>1
<1> QED BY <1>1, <1>2, <1>3, <1>4, <1>5, <1>6, <1>7, <1>8, <1>9 DEF Next

LEMMA SummaryTypesStep ==
  ASSUME IInv, Next
  PROVE  SummaryTypes'
<1> USE DEF SummaryTypes
<1>0. TypeOK /\ Counted /\ Tasks /\ SummaryTypes /\ ToolTypes /\ OutputTypes
  BY TypeParts DEF IInv
<1> USE <1>0
<1> HIDE DEF Level, Requests
<1>1. CASE Prepare
  BY <1>1 DEF Prepare, WriteConfig, EmptyRequests, EmptyMetrics, AppendRequests, StartTimeline
<1>2. CASE Dispatch \/ Answering
  BY <1>2 DEF Dispatch, Answering, BeginLevel, Gather, Batch, Arrive, Deadline, Begin, Finish,
      LevelDone
<1>3. CASE AppendMetrics
  BY <1>3 DEF AppendMetrics
<1>4. CASE AppendFails
  BY <1>4 DEF AppendFails
<1>5. CASE Scraping
  BY <1>5 DEF Scraping, CollectorTop, Scraped, ScrapeFails, Wake
<1>6. CASE Conclude
  <2>1. CASE Stop
    BY <2>1 DEF Stop
  <2>2. CASE Stopped
    BY <2>2 DEF Stopped
  <2>3. CASE AppendGiant
    BY <2>3 DEF AppendGiant
  <2>4. CASE AppendCustomers
    BY <2>4 DEF AppendCustomers
  <2>5. CASE WriteSummary
    <3>1. summary' = [of |-> attempt, rows |-> Recorded(metrics), present |-> captured > 0,
                      peaks |-> IF config.storm THEN Peaks ELSE {}]
      BY <2>5 DEF WriteSummary
    <3>2. Peaks \in SUBSET {"older", "own"}
      BY DEF Peaks
    <3>3. attempt \in 0 .. MaxAttempts /\ Recorded(metrics) \in SUBSET (Level \X Requests)
      BY DEF ToolTypes, Recorded
    <3> QED BY <3>1, <3>2, <3>3
  <2>6. CASE WriteReport
    BY <2>6 DEF WriteReport
  <2>7. CASE WriteRun
    BY <2>7 DEF WriteRun
  <2> QED BY <1>6, <2>1, <2>2, <2>3, <2>4, <2>5, <2>6, <2>7 DEF Conclude
<1>7. CASE CannotWrite
  BY <1>7 DEF CannotWrite
<1>8. CASE Interrupt
  BY <1>8 DEF Interrupt
<1>9. CASE Rerun
  <2>1. UNCHANGED summary
    BY <1>9 DEF Rerun
  <2> QED BY <2>1
<1> QED BY <1>1, <1>2, <1>3, <1>4, <1>5, <1>6, <1>7, <1>8, <1>9 DEF Next

LEMMA TypeStep ==
  ASSUME IInv, Next
  PROVE  TypeOK'
<1>1. (TypeOK <=> ToolTypes /\ FlagTypes /\ LevelTypes /\ CollectorTypes /\ OutputTypes /\ SummaryTypes)'
  <2> HIDE DEF Level, Requests
  <2> QED BY DEF TypeOK, ToolTypes, FlagTypes, LevelTypes, CollectorTypes, OutputTypes, SummaryTypes
<1> QED
  BY <1>1, ToolTypesStep, FlagTypesStep, LevelTypesStep, CollectorTypesStep,
     OutputTypesStep, SummaryTypesStep

LEMMA ConfigTypes ==
  ASSUME config \in Configurations
  PROVE  /\ config.deadline \in BOOLEAN /\ config.giant \in BOOLEAN /\ config.scrape \in BOOLEAN
         /\ config.arrival \in {"gather", "batches", "arrivals"}
         /\ config.arrival = "batches" => config.deadline
         /\ config.arrival = "gather" => ~config.deadline
BY DEF Configurations

\* A level that creates tasks: those it has created are a beginning again.
LEMMA IssueTasks ==
  ASSUME TypeOK, Tasks, At("level"), NEW n \in Nat, issued + n <= NumRequests, Issue(n)
  PROVE  /\ issued' = issued + n
         /\ \A r \in Requests : task'[r] = "none" <=> issued' < r
<1>1. \A r \in Requests : task[r] = "none" <=> issued < r
  BY DEF Tasks
<1>2. task' = [r \in Requests |-> IF issued < r /\ r <= issued + n THEN "ready" ELSE task[r]]
  OBVIOUS
<1>3. issued \in Nat
  BY DEF TypeOK
<1> QED BY <1>1, <1>2, <1>3

LEMMA TasksStep ==
  ASSUME IInv, Next
  PROVE  Tasks'
<1> USE DEF Tasks, Pending, Ready, InFlight, LevelSize
<1>0. Tasks /\ ToolTypes /\ FlagTypes /\ LevelTypes
  BY TypeParts DEF IInv
<1>r. \A r \in Requests : r \in Nat /\ 0 < r /\ r <= NumRequests
  OBVIOUS
<1> USE <1>0, <1>r DEF LevelTypes
<1> HIDE DEF Level, Requests
<1>1. CASE Prepare
  BY <1>1 DEF Prepare, WriteConfig, EmptyRequests, EmptyMetrics, AppendRequests, StartTimeline
<1>2. CASE Dispatch \/ Answering
  <2>1. CASE BeginLevel
    <3>1. pc' = "level" /\ open' = TRUE /\ issued' = 0 /\ task' = NoTasks
      BY <2>1 DEF BeginLevel
    <3> QED BY <3>1 DEF NoTasks
  <2>2. CASE Gather
    <3>1. /\ Issue(LevelSize(level)) /\ open' = FALSE /\ pc = "level" /\ issued = 0
          /\ At("level")
      BY <2>2 DEF Gather
    <3>2. LevelSize(level) \in 1 .. NumRequests /\ issued + LevelSize(level) <= NumRequests
      BY <3>1, SizeType
    <3>3. issued' = issued + LevelSize(level) /\ \A r \in Requests : task'[r] = "none" <=> issued' < r
      BY <3>1, <3>2, IssueTasks, TypeParts DEF IInv
    <3>4. issued' = LevelSize(level)'
      BY <3>1, <3>2, <3>3 DEF LevelSize
    <3> QED BY <3>1, <3>3, <3>4
  <2>3. CASE Batch
    <3>1. PICK n \in Nat : issued + n <= NumRequests /\ Issue(n)
      BY <2>3 DEF Batch
    <3>2. pc' = "level" /\ config.arrival = "batches" /\ config' = config /\ At("level")
      BY <2>3 DEF Batch
    <3>3. \A r \in Requests : task'[r] = "none" <=> issued' < r
      BY <3>1, <3>2, IssueTasks, TypeParts DEF IInv
    <3> QED BY <3>2, <3>3, ConfigTypes DEF ToolTypes
  <2>4. CASE Arrive
    <3>1. /\ Issue(1) /\ pc = "level" /\ issued < LevelSize(level)
          /\ config.arrival = "arrivals" /\ At("level")
          /\ open' = (config.deadline \/ issued + 1 < LevelSize(level))
      BY <2>4 DEF Arrive
    <3>2. LevelSize(level) \in 1 .. NumRequests /\ issued + 1 <= NumRequests
      BY <3>1, SizeType
    <3>3. issued' = issued + 1 /\ \A r \in Requests : task'[r] = "none" <=> issued' < r
      BY <3>1, <3>2, IssueTasks, TypeParts DEF IInv
    <3>4. LevelSize(level)' = LevelSize(level)
      BY <3>1 DEF LevelSize
    <3>5. ASSUME ~open', ~config.deadline
          PROVE  issued' = LevelSize(level)'
      <4>1. ~(issued + 1 < LevelSize(level))
        BY <3>1, <3>5, Zenon
      <4>2. issued < LevelSize(level) /\ issued' = issued + 1
        BY <3>1, <3>3
      <4> HIDE <3>1
      <4> QED BY <3>2, <3>4, <4>1, <4>2
    <3> QED BY <3>1, <3>3, <3>5
  <2>5. CASE Deadline
    <3>1. ~open' /\ UNCHANGED <<task, issued, pc, config>> /\ pc = "level" /\ config.deadline
      BY <2>5 DEF Deadline
    <3> QED BY <3>1
  <2>6. CASE Begin
    BY <2>6 DEF Begin, LevelSize
  <2>7. CASE Finish
    BY <2>7 DEF Finish, LevelSize
  <2>8. CASE LevelDone
    BY <2>8 DEF LevelDone, LevelSize
  <2> QED BY <1>2, <2>1, <2>2, <2>3, <2>4, <2>5, <2>6, <2>7, <2>8 DEF Dispatch, Answering
<1>3. CASE AppendMetrics
  BY <1>3 DEF AppendMetrics
<1>4. CASE AppendFails
  BY <1>4 DEF AppendFails
<1>5. CASE Scraping
  BY <1>5 DEF Scraping, CollectorTop, Scraped, ScrapeFails, Wake
<1>6. CASE Conclude
  BY <1>6 DEF Conclude, Stop, Stopped, AppendGiant, AppendCustomers, WriteSummary, WriteReport, WriteRun
<1>7. CASE CannotWrite
  BY <1>7 DEF CannotWrite
<1>8. CASE Interrupt
  BY <1>8 DEF Interrupt
<1>9. CASE Rerun
  <2>1. pc' = "write_config" /\ task' = NoTasks
    BY <1>9 DEF Rerun
  <2> QED BY <2>1 DEF NoTasks
<1> QED BY <1>1, <1>2, <1>3, <1>4, <1>5, <1>6, <1>7, <1>8, <1>9 DEF Next

\* The rows that are added after the levels are of no request.
LEMMA ExtendDuring ==
  ASSUME TypeOK, NEW kind \in {"giant", "customer"}, NEW n \in Nat,
         NEW i \in DOMAIN Extended(kind, n)
  PROVE  \/ i \in DOMAIN timeline /\ Extended(kind, n)[i] = timeline[i]
         \/ Extended(kind, n)[i].during = {}
<1>1. \A j \in DOMAIN Extended(kind, n) :
        \/ j \in DOMAIN timeline
        \/ Extended(kind, n)[j] = Row(captured + (j - Len(timeline)) - 1, kind, {})
  BY ExtendRows
<1>2. \A j \in DOMAIN timeline : Extended(kind, n)[j] = timeline[j]
  BY ExtendRows
<1> QED BY <1>1, <1>2 DEF Row

\* What does not touch the times of a request, nor a request in flight.
LEMMA SameWindows ==
  ASSUME TypeOK, Windows, UNCHANGED <<pc, level, begun, ended, observed, timeline>>,
         \A r \in Requests : task'[r] = task[r] \/ (task[r] = "none" /\ task'[r] = "ready")
  PROVE  Windows'
<1> HIDE DEF Level, Requests
<1>1. \A r \in Requests : task'[r] \in {"flight", "done"} <=> task[r] \in {"flight", "done"}
  OBVIOUS
<1>2. \A r \in Requests : task'[r] = "done" <=> task[r] = "done"
  OBVIOUS
<1> QED BY <1>1, <1>2 DEF Windows

LEMMA WindowsStep ==
  ASSUME IInv, Next
  PROVE  Windows'
<1> USE DEF Windows
<1>l. \A l \in Level : l \in Nat
  OBVIOUS
<1>0. Windows /\ Counted /\ Tasks /\ LevelTypes /\ TypeOK
  BY TypeParts DEF IInv
<1>t. /\ DOMAIN timeline = 1 .. Len(timeline) /\ Len(timeline) \in Nat
      /\ observed \in Nat /\ captured \in Nat
      /\ \A r \in Requests : begun[r] \in Nat /\ ended[r] \in Nat
  <2>1. begun \in [Requests -> 0 .. MaxScrapes] /\ ended \in [Requests -> 0 .. MaxScrapes]
    BY <1>0 DEF TypeOK
  <2>2. \A r \in Requests : begun[r] \in Nat /\ ended[r] \in Nat
    BY <2>1
  <2> QED BY <1>0, <2>2, TimelineTypes
<1> USE <1>0, <1>t, <1>l DEF LevelTypes
<1> HIDE DEF Level, Requests
<1>1. CASE Prepare
  <2>1. CASE WriteConfig
    BY <2>1 DEF WriteConfig
  <2>2. CASE EmptyRequests
    BY <2>2 DEF EmptyRequests
  <2>3. CASE EmptyMetrics
    BY <2>3 DEF EmptyMetrics
  <2>4. CASE AppendRequests
    BY <2>4 DEF AppendRequests
  <2>5. CASE StartTimeline
    <3>1. timeline = <<>> /\ timeline' = <<>>
      BY <2>5 DEF StartTimeline, Counted
    <3> QED BY <2>5, <3>1 DEF StartTimeline
  <2> QED BY <1>1, <2>1, <2>2, <2>3, <2>4, <2>5 DEF Prepare
<1>2. CASE Dispatch \/ Answering
  <2>1. CASE BeginLevel
    <3>1. task' = NoTasks /\ begun' = NoTimes /\ ended' = NoTimes
      BY <2>1 DEF BeginLevel
    <3> QED BY <2>1, <3>1 DEF BeginLevel, NoTasks, NoTimes
  <2>2. CASE Gather
    <3>1. /\ issued = 0 /\ pc = "level"
          /\ task' = [r \in Requests |-> IF issued < r /\ r <= issued + LevelSize(level)
                                         THEN "ready" ELSE task[r]]
      BY <2>2 DEF Gather, Tasks
    <3>2. \A r \in Requests : task'[r] = task[r] \/ (task[r] = "none" /\ task'[r] = "ready")
      BY <2>2, <3>1 DEF Gather, Tasks
    <3> QED BY <2>2, <3>1, <3>2, SameWindows DEF Gather
  <2>3. CASE Batch
    <3>1. PICK n \in 1 .. Levels[level] : /\ pc = "level"
                         /\ task' = [r \in Requests |-> IF issued < r /\ r <= issued + n
                                                        THEN "ready" ELSE task[r]]
      BY <2>3 DEF Batch
    <3>2. \A r \in Requests : task'[r] = task[r] \/ (task[r] = "none" /\ task'[r] = "ready")
      BY <2>3, <3>1 DEF Batch, Tasks
    <3> QED BY <2>3, <3>1, <3>2, SameWindows DEF Batch
  <2>4. CASE Arrive
    <3>1. /\ pc = "level"
          /\ task' = [r \in Requests |-> IF issued < r /\ r <= issued + 1
                                         THEN "ready" ELSE task[r]]
      BY <2>4 DEF Arrive
    <3>2. \A r \in Requests : task'[r] = task[r] \/ (task[r] = "none" /\ task'[r] = "ready")
      BY <2>4, <3>1 DEF Arrive, Tasks
    <3> QED BY <2>4, <3>1, <3>2, SameWindows DEF Arrive
  <2>5. CASE Deadline
    BY <2>5, SameWindows DEF Deadline
  <2>6. CASE Begin
    <3>1. /\ pc = "level" /\ pc' = "level" /\ level' = level /\ timeline' = timeline
          /\ ended' = ended /\ observed' = observed
      BY <2>6 DEF Begin
    <3>2. PICK q \in Requests : /\ task[q] = "ready" /\ task' = [task EXCEPT ![q] = "flight"]
                                /\ begun' = [begun EXCEPT ![q] = observed]
      BY <2>6 DEF Begin, Ready
    <3>3. /\ task'[q] = "flight" /\ begun'[q] = observed
          /\ \A r \in Requests : r # q => task'[r] = task[r] /\ begun'[r] = begun[r]
      BY <3>2
    <3>4. \A i \in DOMAIN timeline : <<level, q>> \notin timeline[i].during /\ ~(observed < i)
      BY <3>1, <3>2, SMTT(30) DEF Counted
    <3>5. ASSUME NEW i \in DOMAIN timeline, NEW r \in Requests
          PROVE  <<level, r>> \in timeline[i].during <=>
                   /\ task'[r] \in {"flight", "done"}
                   /\ begun'[r] < i
                   /\ task'[r] = "done" => i <= ended[r]
      <4>1. CASE r = q
        BY <3>3, <3>4, <4>1
      <4>2. CASE r # q
        BY <3>1, <3>3, <4>2
      <4> QED BY <4>1, <4>2
    <3>6. ASSUME NEW r \in Requests
          PROVE  begun'[r] <= observed
      <4>1. CASE r = q
        BY <3>3, <4>1
      <4>2. CASE r # q
        BY <3>3, <4>2
      <4> QED BY <4>1, <4>2
    <3> QED BY <3>1, <3>5, <3>6
  <2>7. CASE Finish
    <3>1. /\ pc = "level" /\ pc' = "level" /\ level' = level /\ timeline' = timeline
          /\ begun' = begun /\ observed' = observed
      BY <2>7 DEF Finish
    <3>2. PICK q \in Requests : /\ task[q] = "flight" /\ task' = [task EXCEPT ![q] = "done"]
                                /\ ended' = [ended EXCEPT ![q] = observed]
      BY <2>7 DEF Finish, InFlight
    <3>3. /\ task'[q] = "done" /\ ended'[q] = observed
          /\ \A r \in Requests : r # q => task'[r] = task[r] /\ ended'[r] = ended[r]
      BY <3>2
    <3>4. \A i \in DOMAIN timeline : i <= observed
      BY <3>1, <3>2 DEF Counted
    <3> QED BY <3>1, <3>2, <3>3, <3>4
  <2>8. CASE LevelDone
    BY <2>8 DEF LevelDone
  <2> QED BY <1>2, <2>1, <2>2, <2>3, <2>4, <2>5, <2>6, <2>7, <2>8 DEF Dispatch, Answering
<1>3. CASE AppendMetrics
  <2>1. /\ \/ pc' = "begin_level" /\ level' = level + 1
           \/ pc' = "stop" /\ level' = level
        /\ UNCHANGED <<begun, ended, observed, timeline>>
    BY <1>3 DEF AppendMetrics
  <2>2. level < level + 1 /\ \A l \in Level : level + 1 < l => level < l
    OBVIOUS
  <2>3. level' \in Level
    BY <1>3, LevelTypesStep DEF Next
  <2>4. CASE pc' = "begin_level" /\ level' = level + 1
    BY <2>1, <2>2, <2>3, <2>4
  <2>5. CASE pc' = "stop" /\ level' = level
    BY <2>1, <2>5
  <2> QED BY <2>1, <2>4, <2>5
<1>4. CASE AppendFails
  BY <1>4 DEF AppendFails
<1>5. CASE Scraping
  <2>1. CASE CollectorTop
    BY <2>1 DEF CollectorTop
  <2>2. CASE Scraped
    <3>1. {level} \X InFlight \in SUBSET (Level \X Requests)
      BY DEF InFlight
    <3>2. /\ pc \in Running /\ observed = Len(timeline) /\ observed' = observed + 1
          /\ UNCHANGED <<pc, level, task, begun, ended>>
      BY <2>2, TypeParts DEF Scraped, Counted, ToolTypes
    <3>3. PICK kind \in Snapshots :
            timeline' = Append(timeline, Row(captured, kind, {level} \X InFlight))
      BY <2>2 DEF Scraped
    <3>4. /\ DOMAIN timeline' = 1 .. Len(timeline) + 1
          /\ \A i \in DOMAIN timeline : timeline'[i] = timeline[i]
          /\ timeline'[Len(timeline) + 1] = Row(captured, kind, {level} \X InFlight)
      BY <3>1, <3>3, AppendRow
    <3>5. \A l \in Level, r \in Requests :
            <<l, r>> \in timeline'[Len(timeline) + 1].during <=> l = level /\ task[r] = "flight"
      <4>1. timeline'[Len(timeline) + 1].during = {level} \X InFlight
        BY <3>4 DEF Row
      <4> QED BY <4>1 DEF InFlight
    <3>6. pc # "level" => \A r \in Requests : task[r] # "flight"
      BY DEF Tasks, Pending, InFlight
    <3>7. \A r \in Requests : begun[r] < Len(timeline) + 1 /\ ~(Len(timeline) + 1 <= ended[r])
      BY <3>2
    <3>8. ASSUME NEW i \in DOMAIN timeline'
          PROVE  \/ i \in DOMAIN timeline /\ timeline'[i] = timeline[i]
                 \/ i = Len(timeline) + 1
      BY <3>4
    <3>9. \A r \in Requests : begun[r] <= observed' /\ ended[r] <= observed'
      BY <3>2
    <3> QED BY <3>2, <3>5, <3>6, <3>7, <3>8, <3>9, SMTT(30)
  <2>3. CASE ScrapeFails
    BY <2>3 DEF ScrapeFails
  <2>4. CASE Wake
    BY <2>4 DEF Wake
  <2> QED BY <1>5, <2>1, <2>2, <2>3, <2>4 DEF Scraping
<1>6. CASE Conclude
  <2>1. CASE Stop
    BY <2>1 DEF Stop
  <2>2. CASE Stopped
    BY <2>2 DEF Stopped
  <2>3. CASE AppendGiant
    <3>1. CASE timeline' = timeline
      BY <2>3, <3>1 DEF AppendGiant
    <3>2. CASE ~(timeline' = timeline)
      <4>1. PICK n \in Nat, kind \in {"giant", "customer"} : timeline' = Extended(kind, n)
        BY <2>3, <3>2, RecordedFinite DEF AppendGiant
      <4>2. TypeOK
        OBVIOUS
      <4>3. \A i \in DOMAIN timeline' :
             \/ i \in DOMAIN timeline /\ timeline'[i] = timeline[i]
             \/ timeline'[i].during = {}
        BY <4>1, <4>2, ExtendDuring
      <4> QED BY <2>3, <4>3 DEF AppendGiant
    <3> QED BY <3>1, <3>2
  <2>4. CASE AppendCustomers
    <3>1. CASE timeline' = timeline
      BY <2>4, <3>1 DEF AppendCustomers
    <3>2. CASE ~(timeline' = timeline)
      <4>1. PICK n \in Nat, kind \in {"giant", "customer"} : timeline' = Extended(kind, n)
        BY <2>4, <3>2, RecordedFinite DEF AppendCustomers
      <4>2. TypeOK
        OBVIOUS
      <4>3. \A i \in DOMAIN timeline' :
             \/ i \in DOMAIN timeline /\ timeline'[i] = timeline[i]
             \/ timeline'[i].during = {}
        BY <4>1, <4>2, ExtendDuring
      <4> QED BY <2>4, <4>3 DEF AppendCustomers
    <3> QED BY <3>1, <3>2
  <2>5. CASE WriteSummary
    BY <2>5 DEF WriteSummary
  <2>6. CASE WriteReport
    BY <2>6 DEF WriteReport
  <2>7. CASE WriteRun
    BY <2>7 DEF WriteRun
  <2> QED BY <1>6, <2>1, <2>2, <2>3, <2>4, <2>5, <2>6, <2>7 DEF Conclude
<1>7. CASE CannotWrite
  BY <1>7 DEF CannotWrite
<1>8. CASE Interrupt
  BY <1>8 DEF Interrupt
<1>9. CASE Rerun
  <2>1. timeline' = <<>> /\ begun' = NoTimes /\ ended' = NoTimes /\ observed' = 0
    BY <1>9 DEF Rerun
  <2> QED BY <2>1 DEF NoTimes
<1> QED BY <1>1, <1>2, <1>3, <1>4, <1>5, <1>6, <1>7, <1>8, <1>9 DEF Next

\* Without a deadline, a level that is over leaves a row for each request.
LEMMA LevelComplete ==
  ASSUME TypeOK, Tasks, At("append_metrics"), ~config.deadline,
         NEW r \in 1 .. LevelSize(level)
  PROVE  r \in Requests /\ LevelRows[r] # "none"
<1>1. LevelSize(level) \in 1 .. NumRequests /\ issued = LevelSize(level)
  BY SizeType DEF TypeOK, Tasks
<1>2. r \in Requests /\ ~(issued < r)
  BY <1>1
<1>3. task[r] = "done"
  BY <1>2 DEF Tasks, TypeOK, Pending, Ready, InFlight
<1> QED BY <1>2, <1>3 DEF LevelRows, Label

LEMMA RowsStep ==
  ASSUME IInv, Next
  PROVE  RowsOfLevels'
<1> USE DEF RowsOfLevels, LevelSize
<1>0. RowsOfLevels /\ ToolTypes /\ FlagTypes /\ LevelTypes /\ OutputTypes
  BY TypeParts DEF IInv
<1> USE <1>0 DEF OutputTypes
<1> HIDE DEF Level, Requests
<1>1. CASE Prepare
  <2>1. CASE WriteConfig
    BY <2>1 DEF WriteConfig
  <2>2. CASE EmptyRequests
    BY <2>2 DEF EmptyRequests
  <2>3. CASE EmptyMetrics
    BY <2>3 DEF EmptyMetrics
  <2>4. CASE AppendRequests
    BY <2>4 DEF AppendRequests
  <2>5. CASE StartTimeline
    <3>1. /\ pc = "start_timeline" /\ pc' = "begin_level" /\ failing' = failing
          /\ UNCHANGED <<level, metrics, file>>
      BY <2>5 DEF StartTimeline
    <3>2. file = NoRows /\ metrics = NoRows /\ level = 1 /\ ~failing
      BY <3>1
    <3>3. \A l \in Level : ~(l < 1)
      BY DEF Level
    <3> QED BY <3>1, <3>2, <3>3 DEF NoRows
  <2> QED BY <1>1, <2>1, <2>2, <2>3, <2>4, <2>5 DEF Prepare
<1>2. CASE Dispatch \/ Answering
  BY <1>2 DEF Dispatch, Answering, BeginLevel, Gather, Batch, Arrive, Deadline, Begin, Finish,
      LevelDone
<1>3. CASE AppendMetrics
  <2>1. /\ pc = "append_metrics" /\ file' = [file EXCEPT ![level] = LevelRows]
        /\ metrics' = [metrics EXCEPT ![level] = LevelRows]
        /\ UNCHANGED <<config, failing>>
        /\ \/ pc' = "begin_level" /\ level' = level + 1
           \/ pc' = "stop" /\ level' = level /\ level = Len(Levels)
    BY <1>3 DEF AppendMetrics, LevelTypes, Level
  <2>2. /\ file'[level] = LevelRows
        /\ \A l \in Level : l # level => file'[l] = file[l]
    BY <2>1 DEF LevelTypes
  <2>3. ~failing
    BY <2>1
  <2>4. metrics' = file'
    BY <2>1, <2>3
  <2>l. level \in Nat /\ \A l \in Level : l \in Nat /\ l <= Len(Levels) /\ Len(Levels) \in Nat
    BY DEF Level, LevelTypes
  <2>5. ASSUME NEW l \in Level, level' < l
        PROVE  \A r \in Requests : file'[l][r] = "none"
    BY <2>1, <2>2, <2>5, <2>l, SMTT(30)
  <2>5b. ASSUME NEW l \in Level, level' = l, pc' \in Unwritten
        PROVE  \A r \in Requests : file'[l][r] = "none"
    <3>1. pc' = "begin_level" /\ level < l /\ l # level
      BY <2>1, <2>5b, <2>l
    <3> QED BY <2>1, <2>2, <3>1
  <2>6. ASSUME ~config.deadline, NEW l \in Level, l < level' \/ pc' \notin Unwritten,
               NEW r \in 1 .. LevelSize(l)
        PROVE  file'[l][r] # "none"
    <3>1. CASE l = level
      BY <2>1, <2>2, <2>6, <3>1, LevelComplete, <1>3 DEF IInv, AppendMetrics
    <3>2. CASE l # level
      <4>1. l < level
        BY <2>1, <2>6, <2>l, <3>2
      <4>2. file[l][r] # "none"
        BY <2>1, <2>3, <2>6, <4>1
      <4> QED BY <2>2, <3>2, <4>2
    <3> QED BY <3>1, <3>2
  <2> QED BY <2>1, <2>3, <2>4, <2>5, <2>5b, <2>6
<1>4. CASE AppendFails
  <2>1. /\ pc = "append_metrics" /\ pc' = "stop" /\ failing' = TRUE /\ level' = level
        /\ \A l \in Level : l # level => file'[l] = file[l]
    BY <1>4 DEF AppendFails
  <2>l. level \in Nat /\ \A l \in Level : l \in Nat
    BY DEF Level, LevelTypes
  <2>2. ASSUME NEW l \in Level, level' < l
        PROVE  \A r \in Requests : file'[l][r] = "none"
    <3>1. level < l /\ l # level
      BY <2>1, <2>2, <2>l
    <3> QED BY <2>1, <3>1
  <2> QED BY <2>1, <2>2
<1>5. CASE Scraping
  BY <1>5 DEF Scraping, CollectorTop, Scraped, ScrapeFails, Wake
<1>6. CASE Conclude
  BY <1>6 DEF Conclude, Stop, Stopped, AppendGiant, AppendCustomers, WriteSummary, WriteReport, WriteRun
<1>7. CASE CannotWrite
  BY <1>7 DEF CannotWrite
<1>8. CASE Interrupt
  BY <1>8 DEF Interrupt
<1>9. CASE Rerun
  <2>1. pc' = "write_config" /\ metrics' = NoRows /\ level' = 1 /\ failing' = FALSE
    BY <1>9 DEF Rerun
  <2> QED BY <2>1
<1> QED BY <1>1, <1>2, <1>3, <1>4, <1>5, <1>6, <1>7, <1>8, <1>9 DEF Next

LEMMA SummarisedStep ==
  ASSUME IInv, Next
  PROVE  Summarised'
<1> USE DEF Summarised
<1>0. Summarised /\ FilesOf /\ ToolTypes /\ TypeOK /\ Counted
  BY TypeParts DEF IInv
<1>f. attempt \in Nat /\ summary.of \in Nat /\ summary.of <= attempt
      /\ (summary.of = attempt <=> pc \in {"write_report", "write_run"})
  BY <1>0, FileTypes DEF FilesOf
<1> USE <1>0, <1>f
<1> HIDE DEF Level, Requests
<1>1. CASE Prepare
  <2>1. CASE WriteConfig
    BY <2>1 DEF WriteConfig
  <2>2. CASE EmptyRequests
    BY <2>2 DEF EmptyRequests
  <2>3. CASE EmptyMetrics
    BY <2>3 DEF EmptyMetrics
  <2>4. CASE AppendRequests
    BY <2>4 DEF AppendRequests
  <2>5. CASE StartTimeline
    BY <2>5 DEF StartTimeline
  <2> QED BY <1>1, <2>1, <2>2, <2>3, <2>4, <2>5 DEF Prepare
<1>2. CASE Dispatch \/ Answering
  BY <1>2 DEF Dispatch, Answering, BeginLevel, Gather, Batch, Arrive, Deadline, Begin, Finish,
      LevelDone
<1>3. CASE AppendMetrics
  BY <1>3 DEF AppendMetrics
<1>4. CASE AppendFails
  BY <1>4 DEF AppendFails
<1>5. CASE Scraping
  <2>1. CASE CollectorTop
    BY <2>1 DEF CollectorTop
  <2>2. CASE Scraped
    <3>1. pc \in Running /\ UNCHANGED <<attempt, summary>>
      BY <2>2 DEF Scraped, Counted, ToolTypes
    <3> QED BY <3>1
  <2>3. CASE ScrapeFails
    BY <2>3 DEF ScrapeFails
  <2>4. CASE Wake
    BY <2>4 DEF Wake
  <2> QED BY <1>5, <2>1, <2>2, <2>3, <2>4 DEF Scraping
<1>6. CASE Conclude
  <2>1. CASE Stop
    BY <2>1 DEF Stop
  <2>2. CASE Stopped
    BY <2>2 DEF Stopped
  <2>3. CASE AppendGiant
    BY <2>3 DEF AppendGiant
  <2>4. CASE AppendCustomers
    BY <2>4 DEF AppendCustomers
  <2>5. CASE WriteSummary
    <3>1. /\ summary'.rows = Recorded(metrics) /\ summary'.present = (captured > 0)
          /\ pc = "write_summary" /\ UNCHANGED <<file, timeline>>
      BY <2>5 DEF WriteSummary
    <3>2. metrics = file
      BY <3>1 DEF IInv, RowsOfLevels
    <3>3. captured > 0 <=> timeline # <<>>
      BY <3>1 DEF Counted
    <3> QED BY <3>1, <3>2, <3>3
  <2>6. CASE WriteReport
    BY <2>6 DEF WriteReport
  <2>7. CASE WriteRun
    BY <2>7 DEF WriteRun
  <2> QED BY <1>6, <2>1, <2>2, <2>3, <2>4, <2>5, <2>6, <2>7 DEF Conclude
<1>7. CASE CannotWrite
  BY <1>7 DEF CannotWrite
<1>8. CASE Interrupt
  BY <1>8 DEF Interrupt
<1>9. CASE Rerun
  <2>1. attempt' = attempt + 1 /\ summary' = summary
    BY <1>9 DEF Rerun
  <2> QED BY <2>1
<1> QED BY <1>1, <1>2, <1>3, <1>4, <1>5, <1>6, <1>7, <1>8, <1>9 DEF Next

\* What the counts of a request that is done say of the timeline.
LEMMA LabelRight ==
  ASSUME IInv, pc = "append_metrics", config.command # "cold-start",
         NEW r \in Requests, Label(r) # "none"
  PROVE  Label(r) = "measured" <=> \E i \in DOMAIN timeline : <<level, r>> \in timeline[i].during
<1>1. task[r] = "done" /\ (Label(r) = "measured" <=> \E o \in 1 .. observed : begun[r] < o /\ o <= ended[r])
  BY DEF Label
<1>2. DOMAIN timeline = 1 .. observed
  BY TimelineTypes DEF IInv, Counted
<1>3. \A i \in DOMAIN timeline : <<level, r>> \in timeline[i].during <=> begun[r] < i /\ i <= ended[r]
  BY <1>1 DEF IInv, Windows
<1> QED BY <1>1, <1>2, <1>3

LEMMA LabelsStep ==
  ASSUME IInv, Next
  PROVE  LabelsAgree'
<1> USE DEF LabelsAgree
<1>0. LabelsAgree /\ ToolTypes /\ TypeOK
  BY TypeParts DEF IInv
<1>f. /\ attempt \in Nat /\ of["metrics"] \in Nat /\ of["metrics"] <= attempt
      /\ of["metrics"] = attempt <=>
           pc \notin {"write_config", "empty_requests", "empty_metrics"}
  BY FileTypes DEF IInv, FilesOf, Files
<1> USE <1>0, <1>f
<1> HIDE DEF Level, Requests
<1>1. CASE Prepare
  <2>1. CASE WriteConfig
    <3>1. of'["metrics"] = of["metrics"] /\ UNCHANGED <<attempt, config, file, timeline>>
      BY <2>1, FileTypes DEF WriteConfig, Files
    <3> QED BY <3>1
  <2>2. CASE EmptyRequests
    <3>1. of'["metrics"] = of["metrics"] /\ UNCHANGED <<attempt, config, file, timeline>>
      BY <2>2, FileTypes DEF EmptyRequests, Files
    <3> QED BY <3>1
  <2>3. CASE EmptyMetrics
    <3>1. file' = NoRows
      BY <2>3 DEF EmptyMetrics
    <3> QED BY <3>1 DEF NoRows
  <2>4. CASE AppendRequests
    BY <2>4 DEF AppendRequests
  <2>5. CASE StartTimeline
    <3>1. UNCHANGED <<of, attempt, config, file>> /\ pc = "start_timeline"
      BY <2>5 DEF StartTimeline
    <3>2. file = NoRows
      BY <3>1 DEF IInv, RowsOfLevels
    <3> QED BY <3>1, <3>2 DEF NoRows
  <2> QED BY <1>1, <2>1, <2>2, <2>3, <2>4, <2>5 DEF Prepare
<1>2. CASE Dispatch \/ Answering
  BY <1>2 DEF Dispatch, Answering, BeginLevel, Gather, Batch, Arrive, Deadline, Begin, Finish,
      LevelDone
<1>3. CASE AppendMetrics
  <2>1. /\ pc = "append_metrics" /\ file' = [file EXCEPT ![level] = LevelRows]
        /\ UNCHANGED <<of, attempt, config, timeline>>
    BY <1>3 DEF AppendMetrics
  <2>2. file'[level] = LevelRows /\ \A l \in Level : l # level => file'[l] = file[l]
    BY <2>1 DEF TypeOK
  <2>3. ASSUME config.command # "cold-start", NEW r \in Requests, file'[level][r] # "none"
        PROVE  file'[level][r] = "measured" <=>
                 \E i \in DOMAIN timeline : <<level, r>> \in timeline[i].during
    <3>1. file'[level][r] = Label(r)
      BY <2>2 DEF LevelRows
    <3> QED BY <2>1, <2>3, <3>1, LabelRight
  <2> QED
    <3> SUFFICES ASSUME config.command # "cold-start", NEW l \in Level, NEW r \in Requests,
                       file'[l][r] # "none"
              PROVE  file'[l][r] = "measured" <=>
                       \E i \in DOMAIN timeline : <<l, r>> \in timeline[i].during
      BY <2>1
    <3>1. CASE l = level
      BY <2>3, <3>1
    <3>2. CASE l # level
      BY <2>1, <2>2, <3>2
    <3> QED BY <3>1, <3>2
<1>4. CASE AppendFails
  <2>1. pc = "append_metrics" /\ UNCHANGED <<of, attempt, config, timeline>>
    BY <1>4 DEF AppendFails
  <2>2. PICK n \in 0 .. NumRequests :
          file' = [file EXCEPT ![level] = [r \in Requests |-> IF r <= n THEN Label(r) ELSE "none"]]
    BY <1>4 DEF AppendFails
  <2>3. /\ file'[level] = [r \in Requests |-> IF r <= n THEN Label(r) ELSE "none"]
        /\ \A l \in Level : l # level => file'[l] = file[l]
    BY <2>2 DEF TypeOK
  <2>4. ASSUME config.command # "cold-start", NEW r \in Requests, file'[level][r] # "none"
        PROVE  file'[level][r] = "measured" <=>
                 \E i \in DOMAIN timeline : <<level, r>> \in timeline[i].during
    <3>1. file'[level][r] = Label(r)
      BY <2>3, <2>4
    <3> QED BY <2>1, <2>4, <3>1, LabelRight
  <2> QED
    <3> SUFFICES ASSUME config.command # "cold-start", NEW l \in Level, NEW r \in Requests,
                       file'[l][r] # "none"
              PROVE  file'[l][r] = "measured" <=>
                       \E i \in DOMAIN timeline : <<l, r>> \in timeline[i].during
      BY <2>1
    <3>1. CASE l = level
      BY <2>4, <3>1
    <3>2. CASE l # level
      BY <2>1, <2>3, <3>2
    <3> QED BY <3>1, <3>2
<1>5. CASE Scraping
  <2>1. CASE CollectorTop
    BY <2>1 DEF CollectorTop
  <2>2. CASE Scraped
    <3>1. UNCHANGED <<of, attempt, config, file>> /\ pc \in Running
      BY <2>2 DEF Scraped, IInv, Counted, ToolTypes
    <3>10. PICK kind \in Snapshots :
             timeline' = Append(timeline, Row(captured, kind, {level} \X InFlight))
      BY <2>2 DEF Scraped
    <3>2. {level} \X InFlight \in SUBSET (Level \X Requests)
      BY DEF InFlight, TypeOK
    <3>3. /\ DOMAIN timeline' = 1 .. Len(timeline) + 1
          /\ \A i \in DOMAIN timeline : timeline'[i] = timeline[i]
          /\ timeline'[Len(timeline) + 1] = Row(captured, kind, {level} \X InFlight)
      BY <3>2, <3>10, AppendRow
    <3>4. timeline'[Len(timeline) + 1].during = {level} \X InFlight
      BY <3>3 DEF Row
    <3>5. ASSUME NEW l \in Level, NEW r \in Requests, file[l][r] # "none"
          PROVE  <<l, r>> \notin {level} \X InFlight
      <4>1. CASE pc \in Unwritten
        <5>1. l # level
          BY <3>1, <3>5, <4>1 DEF IInv, RowsOfLevels
        <5> QED BY <5>1
      <4>2. CASE pc \notin Unwritten
        BY <4>2 DEF IInv, Tasks, Pending
      <4> QED BY <4>1, <4>2
    <3>6. DOMAIN timeline = 1 .. Len(timeline) /\ Len(timeline) \in Nat
      BY TimelineTypes
    <3>7. \A i \in DOMAIN timeline' : i \in DOMAIN timeline \/ i = Len(timeline) + 1
      BY <3>3, <3>6
    <3>8. DOMAIN timeline \subseteq DOMAIN timeline'
      BY <3>3, <3>6
    <3>9. ASSUME NEW l \in Level, NEW r \in Requests, file[l][r] # "none"
          PROVE  (\E i \in DOMAIN timeline' : <<l, r>> \in timeline'[i].during) <=>
                 (\E i \in DOMAIN timeline : <<l, r>> \in timeline[i].during)
      BY <3>3, <3>4, <3>5, <3>7, <3>8, <3>9
    <3> QED BY <3>1, <3>9
  <2>3. CASE ScrapeFails
    BY <2>3 DEF ScrapeFails
  <2>4. CASE Wake
    BY <2>4 DEF Wake
  <2> QED BY <1>5, <2>1, <2>2, <2>3, <2>4 DEF Scraping
<1>6. CASE Conclude
  <2>1. CASE Stop
    BY <2>1 DEF Stop
  <2>2. CASE Stopped
    BY <2>2 DEF Stopped
  <2>3. CASE AppendGiant
    <3>1. UNCHANGED <<of, attempt, config, file>> /\ TypeOK
      BY <2>3 DEF AppendGiant
    <3>2. CASE timeline' = timeline
      BY <3>1, <3>2
    <3>3. CASE ~(timeline' = timeline)
      <4>1. PICK n \in Nat, kind \in {"giant", "customer"} : timeline' = Extended(kind, n)
        BY <2>3, <3>3, RecordedFinite DEF AppendGiant
      <4>2. \A i \in DOMAIN timeline' :
             \/ i \in DOMAIN timeline /\ timeline'[i] = timeline[i]
             \/ timeline'[i].during = {}
        BY <3>1, <4>1, ExtendDuring
      <4>3. DOMAIN timeline' = 1 .. Len(timeline) + n /\ DOMAIN timeline = 1 .. Len(timeline)
        BY <3>1, <4>1, ExtendRows, TimelineTypes
      <4>4. \A i \in DOMAIN timeline : timeline'[i] = timeline[i]
        <5>1. \A j \in DOMAIN timeline : Extended(kind, n)[j] = timeline[j]
          BY <3>1, ExtendRows
        <5> QED BY <4>1, <5>1
      <4>6. DOMAIN timeline \subseteq DOMAIN timeline'
        BY <3>1, <4>3, TimelineTypes
      <4>5. ASSUME NEW l \in Level, NEW r \in Requests
           PROVE  (\E i \in DOMAIN timeline' : <<l, r>> \in timeline'[i].during) <=>
                  (\E i \in DOMAIN timeline : <<l, r>> \in timeline[i].during)
        BY <4>2, <4>4, <4>6
      <4> QED BY <3>1, <4>5
    <3> QED BY <3>2, <3>3
  <2>4. CASE AppendCustomers
    <3>1. UNCHANGED <<of, attempt, config, file>> /\ TypeOK
      BY <2>4 DEF AppendCustomers
    <3>2. CASE timeline' = timeline
      BY <3>1, <3>2
    <3>3. CASE ~(timeline' = timeline)
      <4>1. PICK n \in Nat, kind \in {"giant", "customer"} : timeline' = Extended(kind, n)
        BY <2>4, <3>3, RecordedFinite DEF AppendCustomers
      <4>2. \A i \in DOMAIN timeline' :
             \/ i \in DOMAIN timeline /\ timeline'[i] = timeline[i]
             \/ timeline'[i].during = {}
        BY <3>1, <4>1, ExtendDuring
      <4>3. DOMAIN timeline' = 1 .. Len(timeline) + n /\ DOMAIN timeline = 1 .. Len(timeline)
        BY <3>1, <4>1, ExtendRows, TimelineTypes
      <4>4. \A i \in DOMAIN timeline : timeline'[i] = timeline[i]
        <5>1. \A j \in DOMAIN timeline : Extended(kind, n)[j] = timeline[j]
          BY <3>1, ExtendRows
        <5> QED BY <4>1, <5>1
      <4>6. DOMAIN timeline \subseteq DOMAIN timeline'
        BY <3>1, <4>3, TimelineTypes
      <4>5. ASSUME NEW l \in Level, NEW r \in Requests
           PROVE  (\E i \in DOMAIN timeline' : <<l, r>> \in timeline'[i].during) <=>
                  (\E i \in DOMAIN timeline : <<l, r>> \in timeline[i].during)
        BY <4>2, <4>4, <4>6
      <4> QED BY <3>1, <4>5
    <3> QED BY <3>2, <3>3
  <2>5. CASE WriteSummary
    BY <2>5 DEF WriteSummary
  <2>6. CASE WriteReport
    BY <2>6 DEF WriteReport
  <2>7. CASE WriteRun
    BY <2>7 DEF WriteRun
  <2> QED BY <1>6, <2>1, <2>2, <2>3, <2>4, <2>5, <2>6, <2>7 DEF Conclude
<1>7. CASE CannotWrite
  BY <1>7 DEF CannotWrite
<1>8. CASE Interrupt
  BY <1>8 DEF Interrupt
<1>9. CASE Rerun
  <2>1. attempt' = attempt + 1 /\ of' = of
    BY <1>9 DEF Rerun
  <2>2. of'["metrics"] < attempt'
    BY <2>1
  <2>3. of'["metrics"] # attempt'
    BY <2>1, <2>2
  <2> QED BY <2>3
<1> QED BY <1>1, <1>2, <1>3, <1>4, <1>5, <1>6, <1>7, <1>8, <1>9 DEF Next

LEMMA LevelBound ==
  \A l \in Level : Levels[l] \in Nat \ {0}
OBVIOUS

LEMMA NobodyBounded ==
  \A l \in Level : Cardinality({}) <= Levels[l]
<1> HIDE DEF Level
<1> QED BY FS_EmptySet, LevelBound

LEMMA SetsFinite ==
  /\ \A S \in SUBSET Requests : IsFiniteSet(S) /\ Cardinality(S) \in Nat
  /\ \A S, T \in SUBSET Requests : S \subseteq T => Cardinality(S) <= Cardinality(T)
<1>1. IsFiniteSet(Requests)
  BY FS_Interval
<1> HIDE DEF Requests
<1>2. \A S \in SUBSET Requests : IsFiniteSet(S) /\ Cardinality(S) \in Nat
  BY <1>1, FS_Subset, FS_CardinalityType
<1> QED BY <1>2, FS_Subset

LEMMA SameBounds ==
  ASSUME Bounded, UNCHANGED <<config, level, task>>
  PROVE  Bounded'
BY DEF Bounded, InFlightBounded, InFlight, Pending, Ready

LEMMA BoundedStep ==
  ASSUME IInv, Next
  PROVE  Bounded'
<1> USE DEF Bounded, InFlightBounded
<1>0. Bounded /\ LevelTypes
  BY TypeParts DEF IInv
<1> USE <1>0
<1> HIDE DEF Level, Requests
<1>1. CASE Prepare
  <2>1. UNCHANGED <<config, level, task>>
    BY <1>1 DEF Prepare, WriteConfig, EmptyRequests, EmptyMetrics, AppendRequests, StartTimeline
  <2> QED BY <2>1, SameBounds
<1>2. CASE Dispatch \/ Answering
  <2>1. CASE BeginLevel
    <3>1. task' = NoTasks
      BY <2>1 DEF BeginLevel
    <3>2. InFlight' = {} /\ Pending' = {}
      BY <3>1 DEF InFlight, Pending, Ready, NoTasks
    <3>3. level' \in Level
      BY <2>1, LevelTypesStep DEF LevelTypes, Next, Dispatch, Answering
    <3> QED BY <3>2, <3>3, NobodyBounded
  <2>2. CASE Gather
    <3>1. config.arrival = "gather" /\ config' = config
      BY <2>2 DEF Gather
    <3> QED BY <3>1
  <2>3. CASE Batch
    <3>1. PICK n \in 1 .. Levels[level] : issued + n <= NumRequests /\ Issue(n)
      BY <2>3 DEF Batch
    <3>2. Pending = {} /\ pc = "level" /\ level' = level /\ config' = config
      BY <2>3 DEF Batch
    <3>3. /\ n \in Nat /\ n <= Levels[level] /\ issued \in Nat
      BY LevelBound DEF LevelTypes
    <3>4. \A r \in Requests : task[r] = "none" <=> issued < r
      BY <3>2 DEF IInv, Tasks
    <3>5. task' = [r \in Requests |-> IF issued < r /\ r <= issued + n THEN "ready" ELSE task[r]]
      BY <3>1
    <3>6. \A r \in Requests : task[r] \notin {"ready", "flight"}
      BY <3>2 DEF Pending, Ready, InFlight
    <3>7. InFlight' = {}
      BY <3>5, <3>6 DEF InFlight
    <3>8. Pending' = (issued + 1) .. (issued + n)
      <4>1. Pending' \subseteq (issued + 1) .. (issued + n)
        BY <3>3, <3>5, <3>6 DEF Pending, Ready, InFlight, Requests
      <4>2. ASSUME NEW r \in (issued + 1) .. (issued + n)
           PROVE  r \in Pending'
        <5>1. r \in Requests /\ issued < r /\ r <= issued + n
          BY <3>1, <3>3 DEF Requests
        <5> QED BY <3>5, <5>1 DEF Pending, Ready
      <4> QED BY <4>1, <4>2
    <3>9. Cardinality(Pending') = n
      BY <3>3, <3>8, FS_Interval
    <3>b. Cardinality(InFlight') <= Levels[level]
      BY <3>7, NobodyBounded DEF LevelTypes
    <3> QED BY <3>2, <3>3, <3>9, <3>b
  <2>4. CASE Arrive
    <3>1. config.arrival = "arrivals" /\ config' = config /\ level' = level
      BY <2>4 DEF Arrive
    <3>2. task' = [r \in Requests |-> IF issued < r /\ r <= issued + 1 THEN "ready" ELSE task[r]]
      BY <2>4 DEF Arrive
    <3>3. \A r \in Requests : issued < r => task[r] = "none"
      BY <2>4 DEF IInv, Tasks, Arrive
    <3>4. InFlight' = InFlight
      BY <3>2, <3>3 DEF InFlight
    <3> QED BY <3>1, <3>4
  <2>5. CASE Deadline
    BY <2>5 DEF Deadline, InFlight, Pending, Ready
  <2>6. CASE Begin
    <3>1. PICK q \in Requests : task[q] = "ready" /\ task' = [task EXCEPT ![q] = "flight"]
      BY <2>6 DEF Begin, Ready
    <3>2. config' = config /\ level' = level /\ (config.arrival = "arrivals" => Cardinality(InFlight) < Levels[level])
      BY <2>6 DEF Begin
    <3>3. InFlight' = InFlight \cup {q} /\ q \notin InFlight
      BY <3>1 DEF InFlight, LevelTypes
    <3>4. Pending' = Pending
      BY <3>1 DEF Pending, InFlight, Ready, LevelTypes
    <3>5. InFlight \in SUBSET Requests /\ InFlight' \in SUBSET Requests /\ Pending \in SUBSET Requests
          /\ InFlight' \subseteq Pending'
      BY <3>3 DEF Pending, InFlight, Ready
    <3>6. Cardinality(InFlight') = Cardinality(InFlight) + 1
      BY <3>3, <3>5, SetsFinite, FS_AddElement
    <3>7. Cardinality(InFlight') <= Cardinality(Pending)
      BY <3>4, <3>5, SetsFinite
    <3>8. Cardinality(InFlight) \in Nat /\ Cardinality(Pending) \in Nat /\ Levels[level] \in Nat
      BY <3>5, SetsFinite, LevelBound DEF LevelTypes
    <3>9. config.arrival \in {"gather", "batches", "arrivals"}
      BY ConfigTypes, TypeParts DEF IInv, ToolTypes
    <3>b. CASE config.arrival = "arrivals"
      BY <3>2, <3>6, <3>8, <3>b
    <3>c. CASE config.arrival = "batches"
      BY <3>2, <3>4, <3>6, <3>7, <3>8, <3>c
    <3> QED BY <3>2, <3>9, <3>b, <3>c
  <2>7. CASE Finish
    <3>1. PICK q \in Requests : task[q] = "flight" /\ task' = [task EXCEPT ![q] = "done"]
      BY <2>7 DEF Finish, InFlight
    <3>2. config' = config /\ level' = level
      BY <2>7 DEF Finish
    <3>3. /\ InFlight' \subseteq InFlight /\ Pending' \subseteq Pending
          /\ InFlight \in SUBSET Requests /\ Pending \in SUBSET Requests
      BY <3>1 DEF Pending, InFlight, Ready, LevelTypes
    <3>4. InFlight' \in SUBSET Requests /\ Pending' \in SUBSET Requests
      BY <3>3
    <3>5. Cardinality(InFlight') <= Cardinality(InFlight) /\ Cardinality(Pending') <= Cardinality(Pending)
      BY <3>3, <3>4, SetsFinite
    <3>6. /\ Cardinality(InFlight') \in Nat /\ Cardinality(InFlight) \in Nat
          /\ Cardinality(Pending') \in Nat /\ Cardinality(Pending) \in Nat
          /\ Levels[level] \in Nat
      BY <3>3, <3>4, SetsFinite, LevelBound DEF LevelTypes
    <3> QED BY <3>2, <3>5, <3>6
  <2>8. CASE LevelDone
    BY <2>8 DEF LevelDone, InFlight, Pending, Ready
  <2> QED BY <1>2, <2>1, <2>2, <2>3, <2>4, <2>5, <2>6, <2>7, <2>8 DEF Dispatch, Answering
<1>3. CASE AppendMetrics
  <2>1. pc = "append_metrics" /\ UNCHANGED <<task, config>>
    BY <1>3 DEF AppendMetrics
  <2>2. InFlight' = {} /\ Pending' = {}
    BY <2>1 DEF IInv, Tasks, InFlight, Pending, Ready
  <2>3. level' \in Level
    BY <1>3, LevelTypesStep DEF LevelTypes, Next
  <2> QED BY <2>2, <2>3, NobodyBounded
<1>4. CASE AppendFails
  <2>1. UNCHANGED <<config, level, task>>
    BY <1>4 DEF AppendFails
  <2> QED BY <2>1, SameBounds
<1>5. CASE Scraping
  <2>1. UNCHANGED <<config, level, task>>
    BY <1>5 DEF Scraping, CollectorTop, Scraped, ScrapeFails, Wake
  <2> QED BY <2>1, SameBounds
<1>6. CASE Conclude
  <2>1. UNCHANGED <<config, level, task>>
    BY <1>6 DEF Conclude, Stop, Stopped, AppendGiant, AppendCustomers, WriteSummary, WriteReport, WriteRun
  <2> QED BY <2>1, SameBounds
<1>7. CASE CannotWrite
  <2>1. UNCHANGED <<config, level, task>>
    BY <1>7 DEF CannotWrite
  <2> QED BY <2>1, SameBounds
<1>8. CASE Interrupt
  <2>1. UNCHANGED <<config, level, task>>
    BY <1>8 DEF Interrupt
  <2> QED BY <2>1, SameBounds
<1>9. CASE Rerun
  <2>1. task' = NoTasks
    BY <1>9 DEF Rerun
  <2>2. InFlight' = {} /\ Pending' = {}
    BY <2>1 DEF InFlight, Pending, Ready, NoTasks
  <2>3. level' \in Level
    BY <1>9, LevelTypesStep DEF LevelTypes, Next, Dispatch, Answering
  <2> QED BY <2>2, <2>3, NobodyBounded
<1> QED BY <1>1, <1>2, <1>3, <1>4, <1>5, <1>6, <1>7, <1>8, <1>9 DEF Next

LEMMA InitInv == Init => IInv
<1> SUFFICES ASSUME Init
             PROVE  IInv
  OBVIOUS
<1>1. /\ attempt = 1 /\ config \in Configurations /\ tool = "running" /\ pc = "write_config"
      /\ ~failing /\ level = 1 /\ ~open /\ issued = 0
      /\ task = NoTasks /\ begun = NoTimes /\ ended = NoTimes /\ metrics = NoRows
      /\ collector = "off" /\ observed = 0 /\ captured = 0
      /\ ~older /\ timeline = <<>> /\ file = NoRows
  BY OptionsAssumption DEF Init
<1>2. /\ failing \in BOOLEAN /\ open \in BOOLEAN /\ stopping \in BOOLEAN /\ older \in BOOLEAN
  BY DEF Init
<1>3. of = [f \in Files |-> 0] /\ summary = [of |-> 0, rows |-> {}, present |-> FALSE, peaks |-> {}]
  BY DEF Init
<1>4. TypeOK
  <2>1. ToolTypes
    BY <1>1 DEF ToolTypes
  <2>2. FlagTypes
    BY <1>2 DEF FlagTypes
  <2>3. LevelTypes
    BY <1>1, NoTypes DEF LevelTypes
  <2>4. CollectorTypes
    <3>1. <<>> \in Seq(TimelineRows)
      OBVIOUS
    <3> QED BY <1>1, <3>1 DEF CollectorTypes
  <2>5. OutputTypes
    BY <1>1, <1>3, LabelTypes DEF OutputTypes
  <2>6. SummaryTypes
    BY <1>3, LabelTypes DEF SummaryTypes
  <2> QED BY <2>1, <2>2, <2>3, <2>4, <2>5, <2>6, TypeParts
<1>5. Counted /\ TimelineNumbered
  BY <1>1 DEF Counted, TimelineNumbered
<1>6. InFlight = {} /\ Pending = {}
  BY <1>1 DEF Pending, Ready, InFlight, NoTasks
<1>7. Tasks
  BY <1>1, <1>6 DEF Tasks
<1>8. Windows
  BY <1>1 DEF Windows, NoTimes
<1>9. RowsOfLevels
  BY <1>1 DEF RowsOfLevels
<1>10. FilesOf /\ NewestFirst /\ Summarised /\ PeaksAreOwn /\ LabelsAgree
  BY <1>1, <1>3 DEF FilesOf, NewestFirst, Summarised, PeaksAreOwn, LabelsAgree, Files
<1>11. FreshTimeline
  BY <1>1 DEF FreshTimeline
<1>12. Bounded
  BY <1>1, <1>6, NoTypes, NobodyBounded DEF Bounded, InFlightBounded
<1> QED BY <1>4, <1>5, <1>7, <1>8, <1>9, <1>10, <1>11, <1>12 DEF IInv

\* The invariant reads nothing but the variables.
LEMMA Stutter ==
  ASSUME IInv, UNCHANGED vars
  PROVE  IInv'
<1> USE DEF IInv
<1>1. UNCHANGED <<attempt, config, tool, pc, failing>> /\ UNCHANGED <<level, open, issued, task, begun, ended>>
      /\ UNCHANGED <<collector, stopping, observed, captured>> /\ UNCHANGED <<older, timeline>>
      /\ UNCHANGED <<metrics, of, file, summary>>
  OBVIOUS
<1>2. TypeOK'
  <2> HIDE DEF Level, Requests
  <2> QED BY <1>1 DEF TypeOK
<1>3. (Counted /\ TimelineNumbered)'
  BY <1>1 DEF Counted, TimelineNumbered
<1>4. Tasks'
  BY <1>1 DEF Tasks, Pending, Ready, InFlight, LevelSize
<1>5. Windows'
  <2> HIDE DEF Level, Requests
  <2> QED BY <1>1 DEF Windows
<1>6. RowsOfLevels'
  BY <1>1 DEF RowsOfLevels, LevelSize
<1>7. (FilesOf /\ NewestFirst)'
  BY <1>1 DEF FilesOf, NewestFirst
<1>8. Summarised'
  BY <1>1 DEF Summarised
<1>9. (FreshTimeline /\ PeaksAreOwn)'
  BY <1>1 DEF FreshTimeline, PeaksAreOwn
<1>10. Bounded'
  BY <1>1, SameBounds
<1>11. LabelsAgree'
  <2> HIDE DEF Level, Requests
  <2> QED BY <1>1 DEF LabelsAgree
<1> QED BY <1>2, <1>3, <1>4, <1>5, <1>6, <1>7, <1>8, <1>9, <1>10, <1>11

\* The inductive invariant holds of every run, whatever fails, is interrupted or
\* is repeated.
THEOREM Invariant == Spec => []IInv
<1>1. IInv /\ Next => IInv'
  BY TypeStep, CountedStep, TasksStep, WindowsStep, RowsStep, FilesStep, SummarisedStep,
     PeaksStep, BoundedStep, LabelsStep DEF IInv
<1>2. IInv /\ [Next]_vars => IInv'
  BY <1>1, Stutter
<1> QED BY InitInv, <1>2, PTL DEF Spec

\* Every variable keeps its type.
THEOREM TypeCorrect == Spec => []TypeOK
<1>1. IInv => TypeOK
  BY DEF IInv
<1> QED BY Invariant, <1>1, PTL

\* A row of metrics.jsonl is labelled "measured" exactly if the timeline has a
\* scrape that was taken while its request was in flight.
THEOREM LabelsAreRight == Spec => []LabelsAgree
<1>1. IInv => LabelsAgree
  BY DEF IInv
<1> QED BY Invariant, <1>1, PTL

\* The three writers of the timeline number its rows without gap or repetition.
THEOREM RowsAreNumbered == Spec => []TimelineNumbered
<1>1. IInv => TimelineNumbered
  BY DEF IInv
<1> QED BY Invariant, <1>1, PTL

\* The level bounds the requests in flight, other than in one pass over the trace.
THEOREM LevelsBound == Spec => []InFlightBounded
<1>1. IInv => InFlightBounded
  BY DEF IInv, Bounded
<1> QED BY Invariant, <1>1, PTL

\* No file is newer than one that is written before it.
THEOREM FilesInOrder == Spec => []NewestFirst
<1>1. IInv => NewestFirst
  BY DEF IInv
<1> QED BY Invariant, <1>1, PTL

\* An attempt that scrapes takes no peaks from an earlier attempt.
THEOREM PeaksOfItsOwn == Spec => []PeaksAreOwn
<1>1. IInv => PeaksAreOwn
  BY DEF IInv
<1> QED BY Invariant, <1>1, PTL

\* What run.json names is there, is of its attempt and is complete.
THEOREM RunIsExplained == Spec => []RunExplains
<1>1. ASSUME IInv
      PROVE  RunExplains
  <2> SUFFICES ASSUME of["run"] = attempt
               PROVE  /\ \A f \in Files : of[f] = attempt
                      /\ summary.of = attempt
                      /\ summary.rows = Recorded(file)
                      /\ summary.present <=> timeline # <<>>
                      /\ ~config.deadline =>
                           \A l \in Level : \A r \in 1 .. LevelSize(l) : file[l][r] # "none"
    BY DEF RunExplains
  <2>1. pc = "write_run"
    BY <1>1 DEF IInv, FilesOf
  <2>2. (\A f \in Files : of[f] = attempt) /\ summary.of = attempt
    BY <1>1, <2>1 DEF IInv, FilesOf, Files
  <2>3. summary.rows = Recorded(file) /\ (summary.present <=> timeline # <<>>)
    BY <1>1, <2>2 DEF IInv, Summarised
  <2>4. ~config.deadline =>
          \A l \in Level : \A r \in 1 .. LevelSize(l) : file[l][r] # "none"
    BY <1>1, <2>1 DEF IInv, RowsOfLevels
  <2> QED BY <2>2, <2>3, <2>4
<1> QED BY Invariant, <1>1, PTL

=============================================================================
