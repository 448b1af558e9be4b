--------------------------- MODULE AutoPilotProofs ---------------------------
(***************************************************************************)
(* Theorems about AutoPilot for every table of builds, every set of        *)
(* pipelines and every page size, checked by TLAPS.                        *)
(***************************************************************************)
EXTENDS AutoPilot, FiniteSetTheorems, WellFoundedInduction, TLAPS

-----------------------------------------------------------------------------
(* Facts about the list endpoint.                                          *)

\* The table is finite, and so is every part of it.
LEMMA VisibleFinite == IsFiniteSet(VisibleIds) /\ VisibleIds \subseteq Ids
<1>1. IsFiniteSet(Ids)
  BY FS_Interval, ConcourseAssumption DEF Ids
<1>2. VisibleIds \subseteq Ids
  BY DEF VisibleIds, ExistingIds
<1> QED BY <1>1, <1>2, FS_Subset

\* A set of natural numbers with an element has a least one.
LEMMA LeastElement ==
    ASSUME NEW S \in SUBSET Nat, S # {}
    PROVE  \E low \in S : \A i \in S : low <= i
<1>1. \E low \in S : \A i \in S : <<i, low>> \notin OpToRel(<, Nat)
  BY NatLessThanWellFounded, WFMin, Zenon
<1>2. ASSUME NEW i \in Nat, NEW k \in Nat, <<i, k>> \notin OpToRel(<, Nat) PROVE k <= i
  <2>1. ~(i < k)
    BY <1>2 DEF OpToRel
  <2> QED BY <2>1
<1> QED BY <1>1, <1>2

\* A page for a positive until holds visible builds above it, the oldest
\* ones first: a build above it that the page leaves out is newer than all
\* that the page holds.
LEMMA PageIsOldest ==
    ASSUME NEW until \in Int, until > 0, NEW limit \in Nat
    PROVE  /\ ListBuilds(until, limit) \subseteq {i \in VisibleIds : i > until}
           /\ \A i \in VisibleIds \ ListBuilds(until, limit) :
                i > until => \A j \in ListBuilds(until, limit) : j < i
<1> DEFINE found == {i \in VisibleIds : i > until}
           older(i) == {j \in found : j < i}
<1>1. ListBuilds(until, limit) = {i \in found : Cardinality(older(i)) < limit}
  BY DEF ListBuilds
<1>2. \A i : IsFiniteSet(older(i))
  <2>1. \A i : older(i) \subseteq VisibleIds
    OBVIOUS
  <2> QED BY <2>1, VisibleFinite, FS_Subset
<1>3. ASSUME NEW i \in VisibleIds \ ListBuilds(until, limit), i > until,
             NEW j \in ListBuilds(until, limit)
      PROVE  j < i
  <2>1. /\ i \in found /\ j \in found
        /\ Cardinality(older(j)) < limit
        /\ ~(Cardinality(older(i)) < limit)
    BY <1>1, <1>3
  <2>2. i \in Int /\ j \in Int
    BY <2>1, VisibleFinite, ConcourseAssumption DEF Ids
  <2>3. SUFFICES ASSUME i <= j PROVE FALSE
    BY <2>2
  <2>4. older(i) \subseteq older(j)
    <3>1. \A k \in found : k \in Int
      BY VisibleFinite, ConcourseAssumption DEF Ids
    <3>2. \A k \in found : k < i => k < j
      <4> HIDE DEF found
      <4> QED BY <3>1, <2>2, <2>3
    <3> QED BY <3>2
  <2>5. Cardinality(older(i)) <= Cardinality(older(j))
    BY <2>4, <1>2, FS_Subset
  <2>6. Cardinality(older(i)) \in Nat /\ Cardinality(older(j)) \in Nat
    BY <1>2, FS_CardinalityType
  <2> HIDE DEF older
  <2> QED BY <2>1, <2>5, <2>6
<1> QED BY <1>1, <1>3

-----------------------------------------------------------------------------
(* Types.                                                                  *)

\* The table keeps its types under what users and the scheduler do.
LEMMA ConcourseTyped ==
    ASSUME ConcourseTypeOK, ConcourseNext
    PROVE  ConcourseTypeOK'
<1> USE ConcourseAssumption DEF ConcourseTypeOK
<1>1. ASSUME NEW p \in Pipelines, BeginBuild(p) PROVE ConcourseTypeOK'
  BY <1>1 DEF BeginBuild, Status, Ids
<1>2. ASSUME NEW i \in Ids, CommitBuild(i) \/ RollBack(i) PROVE ConcourseTypeOK'
  BY <1>2 DEF CommitBuild, RollBack, Status
<1>3. ASSUME NEW i \in Ids, NEW outcome \in Ended, Becomes(i, outcome),
             completed' \subseteq completed \cup {i}
      PROVE  ConcourseTypeOK'
  BY <1>3 DEF Becomes, Status
<1>4. ASSUME NEW p \in Destroyable, DestroyPipeline(p) PROVE ConcourseTypeOK'
  BY <1>4 DEF DestroyPipeline, ExistingIds
<1> QED BY <1>1, <1>2, <1>3, <1>4
        DEF ConcourseNext, FinishBuild, MarkAsAborted, Ended

\* What the table says of an id.  One that is listed, or is being created,
\* was handed out and has a pipeline.  A build has a status other than
\* "running" for good, and had two of them only if it was aborted, because
\* it is finished once.
RowOK(i) ==
    /\ status[i] # "absent" \/ i \in creating => i < nextId /\ pipeline[i] \in Pipelines
    /\ i \in creating => status[i] = "absent"
    /\ status[i] \in {"absent", "running"} => endings[i] = {}
    /\ status[i] \in Ended => status[i] \in endings[i]
    /\ i \notin completed => endings[i] \subseteq {"aborted"}
    /\ \A s, t \in endings[i] : s = t \/ "aborted" \in {s, t}

Tabled == \A i \in Ids : RowOK(i)

LEMMA TabledInit == Init => Tabled
<1> SUFFICES ASSUME ConcourseInit, NEW i \in Ids PROVE RowOK(i)
  BY DEF Init, Tabled
<1> USE ConcourseAssumption
<1>1. PICK p \in [FirstId..(nextId - 1) -> Pipelines],
           s \in [FirstId..(nextId - 1) -> {"running"} \cup Ended] :
            /\ pipeline = [k \in Ids |-> IF k < nextId THEN p[k] ELSE NoPipeline]
            /\ status = [k \in Ids |-> IF k < nextId THEN s[k] ELSE "absent"]
  BY DEF ConcourseInit
<1>2. /\ creating = {}
      /\ endings[i] = {status[i]} \ {"absent", "running"}
      /\ i \notin completed => status[i] = "aborted" \/ status[i] \notin Ended
  BY DEF ConcourseInit
<1>3. CASE i < nextId
  <2>1. i \in FirstId..(nextId - 1)
    BY <1>3 DEF Ids, ConcourseInit
  <2>2. pipeline[i] \in Pipelines /\ status[i] \in {"running"} \cup Ended
    BY <1>1, <1>3, <2>1
  <2>3. "absent" \notin Ended /\ "running" \notin Ended
    BY DEF Ended
  <2> QED BY <1>2, <1>3, <2>2, <2>3 DEF RowOK
<1>4. CASE ~(i < nextId)
  <2>1. status[i] = "absent" /\ "absent" \notin Ended
    BY <1>1, <1>4 DEF Ended
  <2> QED BY <1>2, <2>1 DEF RowOK
<1> QED BY <1>3, <1>4

LEMMA TabledStep ==
    ASSUME ConcourseTypeOK, Tabled, ConcourseNext
    PROVE  Tabled'
<1> SUFFICES ASSUME NEW k \in Ids PROVE RowOK(k)'
  BY DEF Tabled
<1> USE ConcourseAssumption DEF ConcourseTypeOK
<1>0. RowOK(k) /\ "absent" \notin Ended /\ "running" \notin Ended
  BY DEF Tabled, Ended
<1>i. k \in Int /\ nextId \in Int
  BY DEF Ids
<1>1. ASSUME NEW p \in Pipelines, BeginBuild(p) PROVE RowOK(k)'
  BY <1>0, <1>i, <1>1 DEF BeginBuild, RowOK
<1>2. ASSUME NEW i \in Ids, CommitBuild(i) \/ RollBack(i) PROVE RowOK(k)'
  BY <1>0, <1>2 DEF CommitBuild, RollBack, RowOK
<1>3. ASSUME NEW i \in Ids, NEW outcome \in Outcomes, FinishBuild(i, outcome)
      PROVE  RowOK(k)'
  <2>1. outcome \in Ended
    BY DEF Ended
  <2>2. CASE k # i
    BY <1>0, <1>3, <2>2 DEF FinishBuild, Becomes, RowOK
  <2>3. CASE k = i
    <3>1. /\ status'[i] = outcome /\ endings'[i] = endings[i] \cup {outcome}
          /\ i \in completed' /\ i \notin completed /\ i \notin creating'
          /\ nextId' = nextId /\ pipeline' = pipeline
          /\ status[i] # "absent"
      BY <1>0, <1>3, <2>3 DEF FinishBuild, Becomes, ExistingIds, RowOK
    <3> QED BY <1>0, <2>1, <2>3, <3>1 DEF RowOK
  <2> QED BY <2>2, <2>3
<1>4. ASSUME NEW i \in Ids, MarkAsAborted(i) PROVE RowOK(k)'
  <2>1. "aborted" \in Ended
    BY DEF Ended
  <2>2. CASE k # i
    BY <1>0, <1>4, <2>2 DEF MarkAsAborted, Becomes, RowOK
  <2>3. CASE k = i
    <3>1. /\ status'[i] = "aborted" /\ endings'[i] = endings[i] \cup {"aborted"}
          /\ completed' = completed /\ i \notin creating'
          /\ nextId' = nextId /\ pipeline' = pipeline
          /\ status[i] # "absent"
      BY <1>0, <1>4, <2>3 DEF MarkAsAborted, Becomes, ExistingIds, RowOK
    <3> QED BY <1>0, <2>1, <2>3, <3>1 DEF RowOK
  <2> QED BY <2>2, <2>3
<1>5. ASSUME NEW p \in Destroyable, DestroyPipeline(p) PROVE RowOK(k)'
  BY <1>0, <1>5 DEF DestroyPipeline, RowOK
<1> QED BY <1>1, <1>2, <1>3, <1>4, <1>5 DEF ConcourseNext

\* A page is made of builds the table holds.
LEMMA SnapshotIsBuild ==
    ASSUME TypeOK, Tabled, NEW i \in VisibleIds
    PROVE  Snapshot(i) \in Build
<1>1. i \in Ids /\ status[i] # "absent"
  BY DEF VisibleIds, ExistingIds
<1>2. status[i] \in {"running"} \cup Ended /\ pipeline[i] \in Pipelines
  BY <1>1 DEF TypeOK, ConcourseTypeOK, Status, Tabled, RowOK
<1> QED BY <1>1, <1>2 DEF Snapshot, Build

Typed == TypeOK /\ Tabled

LEMMA TypedInit == Init => Typed
<1> SUFFICES ASSUME Init PROVE TypeOK
  BY TabledInit DEF Typed
<1> USE ConcourseAssumption DEF Init
<1>1. PICK p \in [FirstId..(nextId - 1) -> Pipelines],
           s \in [FirstId..(nextId - 1) -> {"running"} \cup Ended] :
            /\ pipeline = [i \in Ids |-> IF i < nextId THEN p[i] ELSE NoPipeline]
            /\ status = [i \in Ids |-> IF i < nextId THEN s[i] ELSE "absent"]
  BY DEF ConcourseInit
<1>2. nextId \in FirstId..(LastId + 1)
  BY DEF ConcourseInit
<1>3. \A i \in Ids : i < nextId => i \in FirstId..(nextId - 1)
  BY <1>2 DEF Ids
<1>4. ConcourseTypeOK
  <2>1. pipeline \in [Ids -> Pipelines \cup {NoPipeline}]
    BY <1>1, <1>3
  <2>2. status \in [Ids -> Status]
    BY <1>1, <1>3 DEF Status
  <2>3. deleted \subseteq Ids
    BY DEF ConcourseInit
  <2>4. creating \subseteq Ids /\ completed \subseteq Ids
    BY DEF ConcourseInit
  <2>5. endings \in [Ids -> SUBSET Ended]
    BY <2>2 DEF ConcourseInit, Status
  <2> QED BY <1>2, <2>1, <2>2, <2>3, <2>4, <2>5 DEF ConcourseTypeOK
<1>5. cancelled \in BOOLEAN /\ receiver \in BOOLEAN /\ apart \in BOOLEAN
  BY Zenon
<1>6. reported \in [Ids -> {"none"} \cup Ended]
  OBVIOUS
<1>7. /\ pc \in {"init", "waiting", "scanning", "exited", "panicked"}
      /\ pc # "scanning" /\ batch = {}
      /\ lastSeen \in Int /\ startedAt \in Int /\ asked \in Int
  OBVIOUS
<1>8. batch \subseteq Build /\ (pc = "scanning" <=> batch # {})
  BY <1>7
<1> QED BY <1>4, <1>5, <1>6, <1>7, <1>8, Zenon DEF TypeOK

LEMMA TypedStep == Typed /\ [Next]_vars => Typed'
<1> SUFFICES ASSUME TypeOK, Tabled, [Next]_vars PROVE TypeOK' /\ Tabled'
  BY DEF Typed
<1> USE DEF pollerVars, channelVars, concourseVars
<1>1. CASE ConcourseNext /\ UNCHANGED <<pollerVars, channelVars>>
  <2>1. ConcourseTypeOK' /\ Tabled'
    BY <1>1, ConcourseTyped, TabledStep DEF TypeOK
  <2> QED BY <1>1, <2>1 DEF TypeOK
<1>2. ASSUME UNCHANGED concourseVars PROVE ConcourseTypeOK' /\ Tabled'
  BY <1>2 DEF TypeOK, ConcourseTypeOK, Tabled, RowOK, ExistingIds
<1>3. CASE StartFails \/ StartPanics \/ Exit \/ Cancel \/ Leave \/ UNCHANGED vars
  BY <1>2, <1>3 DEF StartFails, StartPanics, Exit, Cancel, Leave, vars, TypeOK
<1>4. ASSUME NEW newest \in Ids, Start(newest) PROVE TypeOK' /\ Tabled'
  BY <1>2, <1>4, ConcourseAssumption DEF Start, TypeOK, Ids
<1>5. ASSUME NEW low \in Ids, Poll(low) PROVE TypeOK' /\ Tabled'
  <2> DEFINE page == ListBuilds(lastSeen, PageLimit)
  <2>1. batch' = {Snapshot(i) : i \in page} /\ low \in page
    BY <1>5 DEF Poll, HasNext
  <2>2. page \subseteq VisibleIds
    BY DEF ListBuilds
  <2>3. batch' \subseteq Build /\ batch' # {}
    BY <2>1, <2>2, SnapshotIsBuild
  <2>4. lastSeen' \in Int /\ asked' \in Int
    BY <1>5, PageLimitAssumption, ConcourseAssumption DEF Poll, TypeOK, Ids
  <2> QED BY <1>2, <1>5, <2>3, <2>4 DEF Poll, TypeOK
<1>6. ASSUME NEW b \in batch, SkipForeign(b) \/ SkipRunning(b) \/ Send(b)
      PROVE  TypeOK' /\ Tabled'
  <2>1. b \in Build /\ b.id \in Int
    BY ConcourseAssumption DEF TypeOK, Build, Ids
  <2>2. batch' \subseteq Build /\ (pc' = "scanning" <=> batch' # {})
    BY <1>6 DEF SkipForeign, SkipRunning, Send, Reached, Passed, TypeOK
  <2>3. pc' \in {"waiting", "scanning"}
    BY <1>6 DEF SkipForeign, SkipRunning, Send, Passed
  <2>4. lastSeen' \in Int
    BY <1>6, <2>1 DEF SkipForeign, SkipRunning, Send, TypeOK, min
  <2>5. reported' \in [Ids -> {"none"} \cup Ended]
    <3>1. CASE Send(b)
      <4>1. b.id \in Ids /\ b.status \in Ended
        BY <2>1, <3>1 DEF Build, Send
      <4> QED BY <3>1, <4>1 DEF Send, TypeOK
    <3> QED BY <1>6, <3>1 DEF SkipForeign, SkipRunning, TypeOK
  <2> QED BY <1>2, <1>6, <2>2, <2>3, <2>4, <2>5
          DEF SkipForeign, SkipRunning, Send, TypeOK
<1> QED BY <1>1, <1>3, <1>4, <1>5, <1>6 DEF Next, Poller

\* TypeOK holds of every behaviour, whatever the sizes of the table, of a
\* page and of the sets of pipelines.
THEOREM TypeCorrect == Spec => []TypeOK
<1>1. Typed => TypeOK
  BY DEF Typed
<1> QED BY <1>1, TypedInit, TypedStep, PTL DEF Spec

-----------------------------------------------------------------------------
(* What the loop has in hand is still true of the table.                   *)

\* Each build of the batch has one row, which belongs to the pipeline it
\* belonged to when the page was made, and, if the page did not show it as
\* running, a status it has had.
BatchCurrent ==
    /\ \A b \in batch : /\ status[b.id] # "absent"
                        /\ pipeline[b.id] = b.pipeline
                        /\ b.status # "running" => b.status \in endings[b.id]
    /\ \A b, c \in batch : b.id = c.id => b = c

Current == Typed /\ BatchCurrent /\ ReportedHolds

\* What the users and the scheduler do to a row that is in the table.
LEMMA RowsKept ==
    ASSUME Typed, ConcourseNext, NEW i \in Ids, status[i] # "absent"
    PROVE  /\ pipeline'[i] = pipeline[i]
           /\ status'[i] # "absent"
           /\ endings[i] \subseteq endings'[i]
<1> USE ConcourseAssumption DEF Typed, TypeOK, ConcourseTypeOK
<1>0. i < nextId /\ i \notin creating /\ "absent" \notin Ended /\ i \in Int /\ nextId \in Int
  BY DEF Tabled, RowOK, Ended, Ids
<1>1. ASSUME NEW p \in Pipelines, BeginBuild(p)
      PROVE  pipeline'[i] = pipeline[i] /\ UNCHANGED <<status, endings>>
  BY <1>0, <1>1 DEF BeginBuild
<1>2. ASSUME NEW j \in Ids, CommitBuild(j) \/ RollBack(j)
      PROVE  pipeline'[i] = pipeline[i] /\ status'[i] = status[i] /\ endings' = endings
  BY <1>0, <1>2 DEF CommitBuild, RollBack
<1>3. ASSUME NEW j \in Ids, NEW outcome \in Ended, Becomes(j, outcome)
      PROVE  /\ pipeline' = pipeline
             /\ status'[i] # "absent"
             /\ endings[i] \subseteq endings'[i]
  BY <1>0, <1>3 DEF Becomes
<1>4. ASSUME NEW p \in Destroyable, DestroyPipeline(p)
      PROVE  UNCHANGED <<pipeline, status, endings>>
  BY <1>4 DEF DestroyPipeline
<1> QED BY <1>1, <1>2, <1>3, <1>4 DEF ConcourseNext, FinishBuild, MarkAsAborted, Ended

\* A build of the team that had a status has ended since, and was aborted if
\* its status is another one by now.
LEMMA HadHolds ==
    ASSUME Typed, NEW i \in Ids, NEW s \in endings[i]
    PROVE  status[i] \in Ended /\ (status[i] = s \/ "aborted" \in {status[i], s})
<1>1. status[i] \in Status /\ RowOK(i)
  BY DEF Typed, TypeOK, ConcourseTypeOK, Tabled
<1>2. status[i] \in Ended /\ status[i] \in endings[i]
  BY <1>1 DEF RowOK, Status
<1> QED BY <1>1, <1>2 DEF RowOK

LEMMA CurrentStep == Current /\ [Next]_vars => Current'
<1> SUFFICES ASSUME Current, [Next]_vars
             PROVE  BatchCurrent' /\ ReportedHolds'
  BY TypedStep DEF Current
<1>t. Typed /\ TypeOK /\ Tabled
  BY DEF Current, Typed
<1> USE DEF pollerVars, channelVars, concourseVars
<1>0. \A b \in batch : /\ b.id \in Ids /\ b.pipeline \in Pipelines
                       /\ b.status \in {"running"} \cup Ended
  BY <1>t DEF TypeOK, Build
<1>1. CASE ConcourseNext /\ UNCHANGED <<pollerVars, channelVars>>
  <2>1. BatchCurrent'
    <3>1. ASSUME NEW b \in batch
          PROVE  /\ status'[b.id] # "absent"
                 /\ pipeline'[b.id] = b.pipeline
                 /\ b.status # "running" => b.status \in endings'[b.id]
      <4>1. /\ b.id \in Ids /\ status[b.id] # "absent"
            /\ pipeline[b.id] = b.pipeline
            /\ b.status # "running" => b.status \in endings[b.id]
        BY <1>0 DEF Current, BatchCurrent
      <4> QED BY <4>1, <1>1, <1>t, RowsKept
    <3> QED BY <1>1, <3>1 DEF Current, BatchCurrent
  <2>2. ReportedHolds'
    <3>1. ASSUME NEW i \in Ids, reported[i] # "none"
          PROVE  pipeline'[i] \in OwnPipelines /\ reported[i] \in endings'[i]
      <4>1. /\ pipeline[i] \in OwnPipelines /\ reported[i] \in endings[i]
            /\ status[i] # "absent"
        BY <3>1, ConcourseAssumption DEF Current, ReportedHolds, Ended
      <4> QED BY <4>1, <1>1, <1>t, RowsKept
    <3>2. Typed'
      BY <1>t, TypedStep
    <3>3. ASSUME NEW i \in Ids, reported[i] # "none"
          PROVE  /\ status'[i] \in Ended
                 /\ status'[i] = reported[i] \/ "aborted" \in {status'[i], reported[i]}
      <4>1. status'[i] \in Status /\ RowOK(i)'
        BY <3>2 DEF Typed, TypeOK, ConcourseTypeOK, Tabled
      <4>2. reported[i] \in endings'[i] /\ endings'[i] # {}
        BY <3>1, <3>3
      <4>3. status'[i] \in Ended /\ status'[i] \in endings'[i]
        BY <4>1, <4>2 DEF RowOK, Status
      <4> QED BY <4>1, <4>2, <4>3 DEF RowOK
    <3> QED BY <1>1, <3>1, <3>3 DEF ReportedHolds
  <2> QED BY <2>1, <2>2
<1>2. CASE StartFails \/ StartPanics \/ Exit \/ Cancel \/ Leave \/ UNCHANGED vars
  BY <1>2 DEF StartFails, StartPanics, Exit, Cancel, Leave, vars, Current,
              BatchCurrent, ReportedHolds
<1>3. ASSUME NEW newest \in Ids, Start(newest)
      PROVE  BatchCurrent' /\ ReportedHolds'
  BY <1>3 DEF Start, Current, BatchCurrent, ReportedHolds
<1>4. ASSUME NEW low \in Ids, Poll(low) PROVE BatchCurrent' /\ ReportedHolds'
  <2>1. /\ batch' = {Snapshot(i) : i \in ListBuilds(lastSeen, PageLimit)}
        /\ UNCHANGED concourseVars
    BY <1>4 DEF Poll
  <2>2. ASSUME NEW i \in ListBuilds(lastSeen, PageLimit)
        PROVE  /\ status[i] # "absent"
               /\ status[i] # "running" => status[i] \in endings[i]
    <3>1. i \in Ids /\ status[i] # "absent"
      BY DEF ListBuilds, VisibleIds, ExistingIds
    <3> QED BY <1>t, <3>1 DEF Tabled, RowOK, TypeOK, ConcourseTypeOK, Status
  <2>3. BatchCurrent'
    BY <2>1, <2>2 DEF BatchCurrent, Snapshot
  <2> QED BY <1>4, <2>3 DEF Poll, Current, ReportedHolds
<1>5. ASSUME NEW b \in batch, SkipForeign(b) \/ SkipRunning(b) \/ Send(b)
      PROVE  BatchCurrent' /\ ReportedHolds'
  <2>1. /\ batch' = batch \ {b}
        /\ UNCHANGED concourseVars
    BY <1>5 DEF SkipForeign, SkipRunning, Send, Passed
  <2>2. BatchCurrent'
    BY <2>1 DEF Current, BatchCurrent
  <2>3. CASE Send(b)
    <3>1. /\ b.id \in Ids /\ b.status \in endings[b.id]
          /\ pipeline[b.id] \in OwnPipelines
      BY <1>0, <2>3 DEF Send, Current, BatchCurrent
    <3>2. /\ status[b.id] \in Ended
          /\ status[b.id] = b.status \/ "aborted" \in {status[b.id], b.status}
      BY <1>t, <3>1, HadHolds
    <3>3. reported' = [reported EXCEPT ![b.id] = b.status]
      BY <2>3 DEF Send
    <3>4. ReportedHolds /\ b.id \in Ids /\ reported \in [Ids -> {"none"} \cup Ended]
      BY <1>t, <3>1 DEF Current, TypeOK
    <3>5. ReportedHolds'
      BY <2>1, <3>1, <3>2, <3>3, <3>4 DEF ReportedHolds
    <3> QED BY <2>2, <3>5
  <2> QED BY <1>5, <2>1, <2>2, <2>3
          DEF SkipForeign, SkipRunning, Current, ReportedHolds
<1> QED BY <1>1, <1>2, <1>3, <1>4, <1>5 DEF Next, Poller

LEMMA CurrentInit == Init => Current
  BY TypedInit DEF Init, Current, BatchCurrent, ReportedHolds

\* Whatever happens to the table between a poll and the sends of the builds
\* it returned, a build that was sent belongs to the team, had the status it
\* was sent with, and has another one by now only if it was aborted.
THEOREM SentHolds == Spec => []ReportedHolds
<1>1. Current => ReportedHolds
  BY DEF Current
<1> QED BY <1>1, CurrentInit, CurrentStep, PTL DEF Spec

-----------------------------------------------------------------------------
(* The watermark.                                                          *)

\* min returns the larger of two integers.
LEMMA MinIsLarger ==
    ASSUME NEW a \in Int, NEW b \in Int
    PROVE  min(a, b) \in Int /\ min(a, b) >= a /\ min(a, b) >= b
  BY DEF min

\* What the watermark may be while the loop runs: a scan holds builds above
\* what its poll asked for only, which is what keeps the watermark from
\* falling below that.
Watermark ==
    /\ pc \in {"waiting", "scanning"} =>
          /\ lastSeen >= asked /\ asked >= startedAt /\ startedAt > 0
          /\ lastSeen < nextId
    /\ \A b \in batch : b.id > asked
    /\ \A i \in Ids : reported[i] # "none" => i > startedAt
    /\ pc = "init" => startedAt = 0 /\ \A i \in Ids : reported[i] = "none"

WatermarkInv == Current /\ Watermark

\* Rows that are in the table have ids below the next one.
LEMMA RowsBelowNext ==
    ASSUME Typed
    PROVE  /\ nextId \in Int
           /\ \A i \in VisibleIds : i \in Ids /\ i \in Int /\ i < nextId
<1> USE ConcourseAssumption
<1>1. \A i \in Ids : i \in Int
  BY DEF Ids
<1>2. nextId \in Int
  BY DEF Typed, TypeOK, ConcourseTypeOK
<1>3. \A i \in VisibleIds : i \in Ids /\ i < nextId
  BY DEF VisibleIds, ExistingIds, Typed, Tabled, RowOK
<1> QED BY <1>1, <1>2, <1>3

LEMMA BatchBelowNext ==
    ASSUME Current, NEW b \in batch
    PROVE  b.id \in Ids /\ b.id \in Int /\ b.id < nextId
<1>1. b.id \in Ids /\ status[b.id] # "absent"
  BY DEF Current, Typed, TypeOK, Build, BatchCurrent
<1>2. b.id < nextId
  BY <1>1 DEF Current, Typed, Tabled, RowOK
<1> QED BY <1>1, <1>2, ConcourseAssumption DEF Ids

\* The first request returns the newest visible build, and the table holds
\* an older one.
LEMMA StartsAtNewest ==
    ASSUME Typed, NEW newest \in Ids, HasNext(ListBuilds(0, 1), newest)
    PROVE  /\ newest \in VisibleIds
           /\ newest > 0
           /\ \A i \in VisibleIds : i <= newest
<1> DEFINE newer == {j \in VisibleIds : j > newest}
<1>1. newest \in VisibleIds /\ Cardinality(newer) < 1
  BY DEF HasNext, ListBuilds
<1>2. IsFiniteSet(newer)
  BY VisibleFinite, FS_Subset
<1>3. newer = {}
  <2> HIDE DEF newer
  <2>1. Cardinality(newer) = 0
    BY <1>1, <1>2, FS_CardinalityType
  <2> QED BY <1>2, <2>1, FS_EmptySet
<1>4. \A i \in VisibleIds : i <= newest
  BY <1>3, RowsBelowNext, ConcourseAssumption DEF Ids
<1> QED BY <1>1, <1>4, ConcourseAssumption DEF Ids

\* A poll moves the watermark up, to the end of the page at most.
LEMMA PollMoves ==
    ASSUME Typed, Watermark, NEW low \in Ids, Poll(low)
    PROVE  LET page == ListBuilds(lastSeen, PageLimit) IN
           /\ batch' = {Snapshot(i) : i \in page}
           /\ page \subseteq VisibleIds
           /\ low \in page
           /\ \A i \in page : lastSeen < i /\ lastSeen' <= i
           /\ lastSeen' > lastSeen
           /\ \A i \in VisibleIds \ page : i > lastSeen => i > lastSeen'
           /\ \A i \in VisibleIds \ page :
                 i > lastSeen => \A j \in page : j < i
<1> DEFINE page == ListBuilds(lastSeen, PageLimit)
<1>1. /\ batch' = {Snapshot(i) : i \in page}
      /\ low \in page
      /\ \A j \in page : low <= j
      /\ lastSeen' = IF low - lastSeen > PageLimit THEN lastSeen + PageLimit
                                                   ELSE low
  BY DEF Poll, HasNext
<1>2. lastSeen \in Int /\ lastSeen > 0 /\ PageLimit \in Nat /\ PageLimit > 0
  BY PageLimitAssumption DEF Typed, TypeOK, Watermark, Poll
<1>3. /\ page \subseteq {i \in VisibleIds : i > lastSeen}
      /\ \A i \in VisibleIds \ page : i > lastSeen => \A j \in page : j < i
  BY <1>2, PageIsOldest
<1> HIDE DEF page
<1>4. low \in Int /\ low > lastSeen /\ \A i \in VisibleIds : i \in Int
  BY <1>1, <1>3, RowsBelowNext
<1>5. lastSeen' \in Int /\ lastSeen' <= low /\ lastSeen' > lastSeen
  BY <1>1, <1>2, <1>4
<1>6. \A i \in page : lastSeen < i /\ lastSeen' <= i
  BY <1>1, <1>3, <1>4, <1>5
<1>7. \A i \in VisibleIds \ page : i > lastSeen => i > lastSeen'
  BY <1>1, <1>3, <1>4, <1>5
<1> QED BY <1>1, <1>3, <1>5, <1>6, <1>7 DEF page

LEMMA WatermarkStep == WatermarkInv /\ [Next]_vars => WatermarkInv'
<1> SUFFICES ASSUME Current, Watermark, [Next]_vars PROVE Watermark'
  BY CurrentStep DEF WatermarkInv
<1> Typed
  BY DEF Current
<1> USE DEF pollerVars, channelVars, concourseVars
<1>t. /\ lastSeen \in Int /\ asked \in Int /\ startedAt \in Int /\ nextId \in Int
      /\ pc = "scanning" <=> batch # {}
  BY RowsBelowNext DEF Typed, TypeOK
<1>1. CASE ConcourseNext /\ UNCHANGED <<pollerVars, channelVars>>
  <2>1. nextId' >= nextId /\ nextId' \in Int
    BY <1>1, <1>t DEF ConcourseNext, BeginBuild, CommitBuild, RollBack, FinishBuild,
                      MarkAsAborted, Becomes, DestroyPipeline
  <2> QED BY <1>1, <1>t, <2>1 DEF Watermark
<1>2. CASE StartFails \/ StartPanics \/ Exit \/ Cancel \/ Leave \/ UNCHANGED vars
  BY <1>2 DEF StartFails, StartPanics, Exit, Cancel, Leave, vars, Watermark
<1>3. ASSUME NEW newest \in Ids, Start(newest) PROVE Watermark'
  <2>1. newest \in VisibleIds /\ newest > 0 /\ newest < nextId /\ newest \in Int
    BY <1>3, StartsAtNewest, RowsBelowNext DEF Start
  <2>2. batch = {} /\ \A i \in Ids : reported[i] = "none"
    BY <1>3, <1>t DEF Start, Watermark
  <2> QED BY <1>3, <2>1, <2>2 DEF Start, Watermark
<1>4. ASSUME NEW low \in Ids, Poll(low) PROVE Watermark'
  <2> DEFINE page == ListBuilds(lastSeen, PageLimit)
  <2>1. /\ batch' = {Snapshot(i) : i \in page}
        /\ page \subseteq VisibleIds
        /\ low \in page
        /\ \A i \in page : lastSeen < i /\ lastSeen' <= i
        /\ lastSeen' > lastSeen
    BY <1>4, PollMoves
  <2> HIDE DEF page
  <2>2. low < nextId /\ low \in Int /\ lastSeen' \in Int
    BY <1>4, <2>1, RowsBelowNext, TypedStep DEF Typed, TypeOK
  <2>3. asked' = lastSeen /\ lastSeen >= startedAt /\ lastSeen' < nextId /\ startedAt > 0
    BY <1>4, <1>t, <2>1, <2>2 DEF Poll, Watermark
  <2>4. \A b \in batch' : b.id > asked'
    BY <2>1, <2>3 DEF Snapshot
  <2> QED BY <1>4, <1>t, <2>1, <2>2, <2>3, <2>4 DEF Poll, Watermark
<1>5. ASSUME NEW b \in batch, SkipForeign(b) \/ SkipRunning(b) \/ Send(b)
      PROVE  Watermark'
  <2>1. b.id \in Ids /\ b.id \in Int /\ b.id < nextId /\ b.id > asked
    BY BatchBelowNext DEF Watermark
  <2>2. /\ pc = "scanning" /\ pc' \in {"waiting", "scanning"}
        /\ batch' = batch \ {b}
        /\ UNCHANGED <<asked, startedAt, nextId>>
    BY <1>5 DEF SkipForeign, SkipRunning, Send, Passed, Reached
  <2>3. lastSeen' >= asked /\ lastSeen' < nextId
    <3>1. CASE SkipRunning(b)
      <4>1. /\ lastSeen' = min(b.id, lastSeen) - 1
            /\ lastSeen < nextId
        BY <2>2, <3>1 DEF SkipRunning, Watermark
      <4>2. min(b.id, lastSeen) < nextId
        BY <4>1, <2>1, <1>t DEF min
      <4>3. min(b.id, lastSeen) \in Int /\ min(b.id, lastSeen) >= b.id
        BY <2>1, <1>t, MinIsLarger
      <4> HIDE DEF min
      <4> QED BY <4>1, <4>2, <4>3, <2>1, <1>t
    <3> QED BY <1>5, <2>2, <3>1 DEF SkipForeign, Send, Watermark
  <2>4. \A i \in Ids : reported'[i] # "none" => i > startedAt
    <3>1. b.id > startedAt
      BY <2>1, <2>2, <1>t DEF Watermark
    <3> QED BY <1>5, <2>1, <3>1 DEF SkipForeign, SkipRunning, Send, Watermark, Typed, TypeOK
  <2> QED BY <2>2, <2>3, <2>4 DEF Watermark
<1> QED BY <1>1, <1>2, <1>3, <1>4, <1>5 DEF Next, Poller

LEMMA WatermarkInit == Init => WatermarkInv
  BY CurrentInit DEF Init, WatermarkInv, Watermark

\* However running builds pull at the watermark, no poll asks for builds
\* below what an earlier one asked for, and nothing from before the start is
\* sent.
THEOREM WatermarkNeverRegresses == Spec => []NoRegress
<1>1. WatermarkInv => NoRegress
  BY DEF WatermarkInv, Watermark, NoRegress
<1> QED BY <1>1, WatermarkInit, WatermarkStep, PTL DEF Spec

\* Every poll carries a positive until, so the list always starts with the
\* oldest builds above the watermark.
THEOREM PollsCarryUntil == Spec => [](pc = "waiting" => lastSeen > 0)
<1>1. WatermarkInv => (pc = "waiting" => lastSeen > 0)
  BY DEF WatermarkInv, Watermark, Current, Typed, TypeOK
<1> QED BY <1>1, WatermarkInit, WatermarkStep, PTL DEF Spec

\* A row that shows the bot a second build is below the newest one it shows.
LEMMA NewestHasNext ==
    ASSUME Cardinality(VisibleIds) >= 2
    PROVE  \E newest \in Ids : HasNext(ListBuilds(0, 1), newest)
<1>1. /\ IsFiniteSet(VisibleIds) /\ VisibleIds \subseteq Ids
      /\ \A i \in VisibleIds : i \in Nat /\ LastId - i \in Nat
  BY VisibleFinite, ConcourseAssumption DEF Ids
<1>2. VisibleIds # {}
  BY FS_EmptySet
<1>3. PICK newest \in VisibleIds : \A i \in VisibleIds : i <= newest
  <2> DEFINE below == {LastId - i : i \in VisibleIds}
  <2>1. below \in SUBSET Nat /\ below # {}
    BY <1>1, <1>2
  <2> HIDE DEF below
  <2>2. PICK low \in below : \A k \in below : low <= k
    BY <2>1, LeastElement
  <2>3. PICK newest \in VisibleIds : low = LastId - newest
    BY DEF below
  <2>4. \A i \in VisibleIds : LastId - newest <= LastId - i
    BY <2>2, <2>3 DEF below
  <2> QED BY <1>1, <2>4, ConcourseAssumption
<1>4. \E older \in VisibleIds : older < newest
  <2>1. ASSUME VisibleIds = {newest} PROVE FALSE
    BY <2>1, FS_Singleton
  <2>2. PICK older \in VisibleIds : older # newest
    BY <2>1
  <2> QED BY <1>1, <1>3, <2>2
<1>5. newest \in ListBuilds(0, 1)
  <2>1. {j \in VisibleIds : j > newest} = {}
    BY <1>1, <1>3
  <2> QED BY <2>1, FS_EmptySet DEF ListBuilds
<1>6. \A j \in ListBuilds(0, 1) : newest <= j
  <2>1. ASSUME NEW j \in VisibleIds, j < newest
        PROVE  ~(Cardinality({k \in VisibleIds : k > j}) < 1)
    <3> DEFINE newer == {k \in VisibleIds : k > j}
    <3>1. IsFiniteSet(newer) /\ newest \in newer
      BY <1>1, <2>1, FS_Subset
    <3> HIDE DEF newer
    <3>2. Cardinality(newer) \in Nat /\ Cardinality(newer) # 0
      BY <3>1, FS_EmptySet, FS_CardinalityType
    <3> QED BY <3>2 DEF newer
  <2> QED BY <1>1, <2>1 DEF ListBuilds
<1> QED BY <1>1, <1>4, <1>5, <1>6 DEF HasNext, VisibleIds

\* The goroutine starts if the server shows two builds: pg.Next is there.
THEOREM StartsIfTwoShown == Spec => StartsOnTwoBuilds
<1>1. ASSUME TypeOK, [Next]_vars, pc = "init", pc' = "panicked"
      PROVE  Cardinality(VisibleIds) < 2
  <2>1. StartPanics
    BY <1>1 DEF Next, Poller, StartFails, Start, Poll, SkipForeign, SkipRunning, Send, Passed,
                Reached, Exit, Cancel, Leave, pollerVars, vars
  <2>2. Cardinality(VisibleIds) \in Nat
    BY VisibleFinite, FS_CardinalityType
  <2> QED BY <2>1, <2>2, NewestHasNext DEF StartPanics
<1> QED BY <1>1, TypeCorrect, PTL DEF Spec, StartsOnTwoBuilds

\* While the build the goroutine started from is in the table, no page with
\* builds is passed over for want of a next one, however the watermark moved
\* and whatever else was destroyed.
THEOREM NewBuildsSeen == Spec => []NewBuildsAreSeen
<1>1. ASSUME WatermarkInv PROVE NewBuildsAreSeen
  <2> DEFINE page == ListBuilds(lastSeen, PageLimit)
  <2> SUFFICES ASSUME pc = "waiting", startedAt \in ExistingIds, page # {}
               PROVE  \E low \in Ids : HasNext(page, low)
    BY DEF NewBuildsAreSeen
  <2>1. /\ lastSeen \in Int /\ asked \in Int /\ startedAt \in Int
        /\ lastSeen > 0 /\ startedAt <= lastSeen
    BY <1>1 DEF WatermarkInv, Watermark, Current, Typed, TypeOK
  <2>2. page \subseteq {i \in VisibleIds : i > lastSeen}
    BY <2>1, PageIsOldest, PageLimitAssumption
  <2> HIDE DEF page
  <2>3. page \in SUBSET Nat /\ page \subseteq Ids
    <3>1. page \subseteq Ids
      BY <2>2, VisibleFinite
    <3>2. Ids \subseteq Nat
      BY ConcourseAssumption DEF Ids
    <3> QED BY <3>1, <3>2
  <2>4. PICK low \in page : \A i \in page : low <= i
    BY <2>3, LeastElement
  <2>5. startedAt < low
    BY <2>1, <2>2, <2>3, <2>4
  <2> QED BY <2>3, <2>4, <2>5 DEF HasNext, page
<1> QED BY <1>1, WatermarkInit, WatermarkStep, PTL DEF Spec

-----------------------------------------------------------------------------
(* Nothing is skipped while running builds stay together.                  *)

\* A build to report is in the loop's hand, or above the watermark and above
\* all that is in its hand: when the watermark jumps to a running build, only
\* what the loop still has can be below it.
DueAhead ==
    \A i \in Due : \/ \E b \in batch : b.id = i
                   \/ i > lastSeen /\ \A b \in batch : b.id < i

\* A build of the team that is being created will be above the watermark and
\* above all that is in the loop's hand when it is committed.
ComingAhead ==
    \A i \in creating : pipeline[i] \in OwnPipelines /\ i > startedAt =>
        i > lastSeen /\ \A b \in batch : b.id < i

\* The running builds left have no gap, and the watermark has not passed the
\* newest of them.
RunningAhead ==
    LET ids == RunningIn(batch) IN
    /\ Together(ids)
    /\ \A top \in ids : (\A r \in ids : r <= top) => lastSeen <= top

Held == pc \in {"waiting", "scanning"} /\ ~apart => DueAhead /\ ComingAhead /\ RunningAhead

HeldInv == WatermarkInv /\ Held

LEMMA DueVisible ==
    ASSUME Typed
    PROVE  Due \subseteq VisibleIds
  BY ConcourseAssumption DEF Due, VisibleIds

LEMMA HeldEnvironment ==
    ASSUME HeldInv, ConcourseNext, UNCHANGED <<pollerVars, channelVars>>
    PROVE  Held'
<1> USE DEF pollerVars, channelVars
<1>1. SUFFICES ASSUME pc \in {"waiting", "scanning"}, ~apart
               PROVE  DueAhead' /\ ComingAhead'
  BY DEF Held, HeldInv, RunningAhead, RunningIn, Together
<1>2. /\ DueAhead /\ ComingAhead /\ Current /\ Watermark /\ Typed /\ Tabled
      /\ lastSeen < nextId
  BY <1>1 DEF Held, HeldInv, WatermarkInv, Watermark, Current, Typed
<1>t. /\ status \in [Ids -> Status] /\ pipeline \in [Ids -> Pipelines \cup {NoPipeline}]
      /\ creating \subseteq Ids /\ nextId \in Int
  BY <1>2 DEF Typed, TypeOK, ConcourseTypeOK
<1>n. \A i \in Ids : i = nextId => status[i] = "absent" /\ i \notin creating
  BY <1>2, <1>t DEF Tabled, RowOK
<1>3. ASSUME NEW p \in Pipelines, BeginBuild(p) PROVE DueAhead' /\ ComingAhead'
  <2>1. Due' \subseteq Due
    BY <1>3, <1>t, <1>n DEF BeginBuild, Due, ExistingIds
  <2>2. \A b \in batch : b.id < nextId
    BY <1>2, BatchBelowNext
  <2>3. creating' = creating \cup {nextId} /\ \A i \in creating : pipeline'[i] = pipeline[i]
    BY <1>3, <1>t, <1>n DEF BeginBuild
  <2> QED BY <1>2, <2>1, <2>2, <2>3 DEF DueAhead, ComingAhead
<1>4. ASSUME NEW i \in Ids, CommitBuild(i) PROVE DueAhead' /\ ComingAhead'
  <2>1. ASSUME NEW k \in Due', k \notin Due
        PROVE  k \in creating /\ pipeline[k] \in OwnPipelines /\ k > startedAt
    BY <1>4, <1>t, <2>1 DEF CommitBuild, Due, ExistingIds
  <2>2. creating' \subseteq creating /\ pipeline' = pipeline
    BY <1>4 DEF CommitBuild
  <2> QED BY <1>2, <2>1, <2>2 DEF DueAhead, ComingAhead
<1>5. ASSUME NEW i \in Ids, RollBack(i) PROVE DueAhead' /\ ComingAhead'
  <2>1. status[i] = "absent" /\ i \in creating
    BY <1>2, <1>5 DEF RollBack, Tabled, RowOK
  <2>2. Due' \subseteq Due
    BY <1>5, <1>t, <2>1 DEF RollBack, Due, ExistingIds
  <2>3. creating' = creating \ {i} /\ \A k \in creating' : pipeline'[k] = pipeline[k]
    BY <1>5, <1>t DEF RollBack
  <2> QED BY <1>2, <2>2, <2>3 DEF DueAhead, ComingAhead
<1>6. ASSUME NEW i \in ExistingIds, NEW outcome, Becomes(i, outcome)
      PROVE  DueAhead' /\ ComingAhead'
  <2>1. Due' \subseteq Due /\ creating' = creating /\ pipeline' = pipeline
    BY <1>6, <1>t DEF Becomes, Due, ExistingIds
  <2> QED BY <1>2, <2>1 DEF DueAhead, ComingAhead
<1>7. ASSUME NEW p \in Destroyable, DestroyPipeline(p) PROVE DueAhead' /\ ComingAhead'
  <2>1. Due' \subseteq Due /\ creating' = creating /\ pipeline' = pipeline
    BY <1>7 DEF DestroyPipeline, Due, ExistingIds
  <2> QED BY <1>2, <2>1 DEF DueAhead, ComingAhead
<1> QED BY <1>3, <1>4, <1>5, <1>6, <1>7 DEF ConcourseNext, FinishBuild, MarkAsAborted

LEMMA HeldStart ==
    ASSUME HeldInv, NEW newest \in Ids, Start(newest)
    PROVE  Held'
<1>1. Typed /\ TypeOK /\ batch = {} /\ batch' = {} /\ UNCHANGED concourseVars
  BY DEF HeldInv, WatermarkInv, Current, Typed, TypeOK, Start
<1>2. \A i \in VisibleIds : i <= newest /\ i \in Int
  BY <1>1, StartsAtNewest, RowsBelowNext DEF Start
<1>3. Due' \subseteq VisibleIds
  BY <1>1, ConcourseAssumption DEF Due, ExistingIds, VisibleIds, concourseVars
<1>4. \A i \in Due' : i > newest
  BY DEF Start, Due
<1>5. Due' = {}
  BY <1>2, <1>3, <1>4, ConcourseAssumption DEF Ids
<1>6. RunningIn(batch') = {}
  BY <1>1 DEF RunningIn
<1>7. ComingAhead'
  BY <1>1 DEF ComingAhead, Start
<1> QED BY <1>5, <1>6, <1>7 DEF Held, DueAhead, RunningAhead, RunningIn, Together

LEMMA HeldPoll ==
    ASSUME HeldInv, NEW low \in Ids, Poll(low)
    PROVE  Held'
<1> DEFINE page == ListBuilds(lastSeen, PageLimit)
<1>0. Typed /\ Watermark /\ Current
  BY DEF HeldInv, WatermarkInv, Current
<1>1. /\ batch' = {Snapshot(i) : i \in page}
      /\ page \subseteq VisibleIds /\ low \in page
      /\ \A i \in page : lastSeen < i /\ lastSeen' <= i
      /\ \A i \in VisibleIds \ page : i > lastSeen => i > lastSeen'
      /\ \A i \in VisibleIds \ page : i > lastSeen => \A j \in page : j < i
  BY <1>0, PollMoves
<1>2. SUFFICES ASSUME ~apart' PROVE DueAhead' /\ ComingAhead' /\ RunningAhead'
  BY DEF Held
<1>3. Together(RunningIn(batch')) /\ ~Overtakes(page) /\ ~apart /\ pc = "waiting"
  BY <1>2 DEF Poll
<1> HIDE DEF page
<1>4. batch = {}
  BY <1>0, <1>3 DEF Typed, TypeOK
<1>5. Due' = Due /\ Due \subseteq VisibleIds
  BY <1>0, DueVisible DEF Poll, Due, ExistingIds, concourseVars, channelVars
<1>6. \A i \in Due : i > lastSeen
  BY <1>3, <1>4 DEF HeldInv, Held, DueAhead
<1>7. DueAhead'
  <2>1. ASSUME NEW i \in Due, i \in page PROVE \E b \in batch' : b.id = i
    <3>1. Snapshot(i) \in batch'
      BY <1>1, <2>1
    <3>2. Snapshot(i).id = i
      BY DEF Snapshot
    <3> QED BY <3>1, <3>2
  <2>2. ASSUME NEW i \in Due, i \notin page
        PROVE  i > lastSeen' /\ \A b \in batch' : b.id < i
    BY <1>1, <1>5, <1>6, <2>2 DEF Snapshot
  <2> QED BY <1>5, <2>1, <2>2 DEF DueAhead
<1>8. RunningAhead'
  <2>1. \A r \in RunningIn(batch') : lastSeen' <= r
    BY <1>1 DEF RunningIn, Snapshot
  <2> QED BY <1>3, <2>1 DEF RunningAhead, RunningIn, Together
<1>9. ComingAhead'
  <2>1. ASSUME NEW i \in creating, pipeline[i] \in OwnPipelines
        PROVE  i > lastSeen' /\ \A j \in page : j < i
    <3>1. i \in Int /\ status[i] = "absent" /\ i \notin page
      <4>1. i \in Ids /\ status[i] = "absent"
        BY <1>0 DEF Typed, TypeOK, ConcourseTypeOK, Tabled, RowOK
      <4> QED BY <1>1, <4>1, ConcourseAssumption DEF VisibleIds, ExistingIds, Ids
    <3>2. \A j \in page : j \in Int /\ ~(i < j) /\ j # i
      BY <1>0, <1>1, <1>3, <2>1, <3>1, RowsBelowNext DEF Overtakes
    <3>3. lastSeen' \in Int
      BY <1>0, TypedStep DEF Next, Poller, Typed, TypeOK
    <3> QED BY <1>1, <3>1, <3>2, <3>3
  <2>2. UNCHANGED <<creating, pipeline, startedAt>>
    BY DEF Poll, concourseVars
  <2> QED BY <1>1, <2>1, <2>2 DEF ComingAhead, Snapshot
<1> QED BY <1>7, <1>8, <1>9

\* Passing a build that is not a running one of the team leaves the running
\* ones as they are.
LEMMA HeldSkipForeignOrSend ==
    ASSUME HeldInv, NEW b \in batch, SkipForeign(b) \/ Send(b)
    PROVE  Held'
<1>1. /\ batch' = batch \ {b} /\ lastSeen' = lastSeen /\ apart' = apart
      /\ pc = "scanning" /\ startedAt' = startedAt
      /\ UNCHANGED concourseVars
      /\ ~(b.pipeline \in OwnPipelines /\ b.status = "running")
  BY DEF SkipForeign, Send, Passed, Reached
<1>2. SUFFICES ASSUME ~apart PROVE DueAhead' /\ ComingAhead' /\ RunningAhead'
  BY <1>1 DEF Held
<1>3. DueAhead /\ ComingAhead /\ RunningAhead /\ Current /\ Typed
  BY <1>1, <1>2 DEF HeldInv, Held, WatermarkInv, Current
<1>4. RunningIn(batch') = RunningIn(batch)
  BY <1>1 DEF RunningIn
<1>5. RunningAhead'
  BY <1>1, <1>3, <1>4 DEF RunningAhead, RunningIn, Together
<1>6. Due' \subseteq Due /\ b.id \notin Due'
  <2>1. b.id \in Ids /\ pipeline[b.id] = b.pipeline
    BY <1>3, BatchBelowNext DEF Current, BatchCurrent
  <2>2. CASE SkipForeign(b)
    BY <1>1, <2>1, <2>2
       DEF SkipForeign, Due, ExistingIds, concourseVars, channelVars
  <2>3. CASE Send(b)
    <3>1. b.status \in Ended /\ "none" \notin Ended /\ reported \in [Ids -> {"none"} \cup Ended]
      BY <1>3, <2>3, ConcourseAssumption DEF Send, Typed, TypeOK, Build, Ended
    <3> QED BY <1>1, <2>1, <2>3, <3>1 DEF Send, Due, ExistingIds, concourseVars
  <2> QED BY <2>2, <2>3
<1>7. DueAhead'
  BY <1>1, <1>3, <1>6 DEF DueAhead
<1>8. ComingAhead'
  BY <1>1, <1>3 DEF ComingAhead, concourseVars
<1> QED BY <1>5, <1>7, <1>8

\* The newest build in hand is running: the watermark moves right below it,
\* and the next running build, if any, is right there.
LEMMA HeldSkipRunning ==
    ASSUME HeldInv, NEW b \in batch, SkipRunning(b)
    PROVE  Held'
<1>1. /\ batch' = batch \ {b} /\ lastSeen' = min(b.id, lastSeen) - 1
      /\ apart' = apart /\ pc = "scanning"
      /\ b.pipeline \in OwnPipelines /\ b.status = "running"
      /\ \A c \in batch : c.id <= b.id
  BY DEF SkipRunning, Passed, Reached
<1>2. SUFFICES ASSUME ~apart PROVE DueAhead' /\ ComingAhead' /\ RunningAhead'
  BY <1>1 DEF Held
<1>3. /\ DueAhead /\ ComingAhead /\ RunningAhead
      /\ Current /\ Typed /\ lastSeen \in Int
  BY <1>1, <1>2 DEF HeldInv, Held, WatermarkInv, Current, Typed, TypeOK
<1>4. \A c \in batch : c.id \in Int
  BY <1>3, BatchBelowNext
<1>5. RunningIn(batch) \subseteq {c.id : c \in batch} /\ b.id \in RunningIn(batch)
  BY <1>1 DEF RunningIn
<1>6. lastSeen <= b.id
  BY <1>1, <1>3, <1>5 DEF RunningAhead
<1>7. lastSeen' = b.id - 1
  <2>1. min(b.id, lastSeen) = b.id
    BY <1>3, <1>4, <1>6 DEF min
  <2> QED BY <1>1, <2>1
<1>8. \A c \in batch' : c.id < b.id
  BY <1>1, <1>3, <1>4 DEF Current, BatchCurrent
<1>9. Due' = Due
  BY DEF SkipRunning, Due, ExistingIds, concourseVars, channelVars
<1>10. DueAhead'
  <2>1. ASSUME NEW i \in Due
        PROVE  (\E c \in batch' : c.id = i)
                  \/ (i > lastSeen' /\ \A c \in batch' : c.id < i)
    <3>1. i \in Int
      BY <1>3, DueVisible, RowsBelowNext
    <3>2. CASE i = b.id
      BY <1>4, <1>7, <1>8, <3>1, <3>2
    <3>3. CASE i # b.id /\ \E c \in batch : c.id = i
      BY <1>1, <3>3
    <3>4. CASE \A c \in batch : c.id < i
      BY <1>1, <1>4, <1>7, <3>1, <3>4
    <3> QED BY <1>3, <3>2, <3>3, <3>4 DEF DueAhead
  <2> QED BY <1>9, <2>1 DEF DueAhead
<1>11. RunningIn(batch') = RunningIn(batch) \ {b.id}
  BY <1>1, <1>3 DEF RunningIn, Current, BatchCurrent
<1>12. RunningAhead'
  <2> DEFINE ids == RunningIn(batch)
             left == ids \ {b.id}
  <2>1. /\ \A r \in ids : r \in Int /\ r <= b.id
        /\ Together(ids) /\ b.id \in ids
    BY <1>1, <1>3, <1>4, <1>5 DEF RunningAhead
  <2> HIDE DEF ids
  <2>2. Together(left)
    <3>1. ASSUME NEW i \in left, NEW j \in left, NEW k \in i..j PROVE k \in left
      <4>1. k \in ids
        BY <2>1, <3>1 DEF Together
      <4>2. k <= j /\ j < b.id
        BY <2>1, <3>1
      <4> QED BY <2>1, <4>1, <4>2
    <3> QED BY <3>1 DEF Together
  <2>3. ASSUME NEW top \in left, \A r \in left : r <= top PROVE b.id - 1 <= top
    <3>1. SUFFICES ASSUME top < b.id - 1 PROVE FALSE
      BY <2>1
    <3>2. b.id - 1 \in top..b.id /\ b.id - 1 # b.id
      BY <2>1, <3>1
    <3>3. b.id - 1 \in left
      BY <2>1, <3>2 DEF Together
    <3> QED BY <2>1, <2>3, <3>1, <3>3
  <2> QED BY <1>7, <1>11, <2>2, <2>3 DEF RunningAhead, ids
<1>13. ComingAhead'
  <2>1. ASSUME NEW i \in creating, pipeline[i] \in OwnPipelines, i > startedAt
        PROVE  i > lastSeen' /\ \A c \in batch' : c.id < i
    <3>1. b.id < i /\ i \in Int
      BY <1>3, <2>1, ConcourseAssumption
         DEF ComingAhead, Typed, TypeOK, ConcourseTypeOK, Ids
    <3> QED BY <1>1, <1>3, <1>4, <1>7, <2>1, <3>1 DEF ComingAhead
  <2>2. UNCHANGED <<creating, pipeline, startedAt>>
    BY DEF SkipRunning, concourseVars
  <2> QED BY <2>1, <2>2 DEF ComingAhead
<1> QED BY <1>10, <1>12, <1>13

LEMMA HeldStep == HeldInv /\ [Next]_vars => HeldInv'
<1> SUFFICES ASSUME HeldInv, [Next]_vars PROVE Held'
  BY WatermarkStep DEF HeldInv
<1>1. CASE ConcourseNext /\ UNCHANGED <<pollerVars, channelVars>>
  BY <1>1, HeldEnvironment
<1>2. CASE StartFails \/ StartPanics \/ Exit \/ Cancel \/ Leave \/ UNCHANGED vars
  BY <1>2 DEF StartFails, StartPanics, Exit, Cancel, Leave, vars, pollerVars,
              channelVars, concourseVars, HeldInv, Held, DueAhead, ComingAhead, RunningAhead,
              RunningIn, Together, Due, ExistingIds
<1> QED BY <1>1, <1>2, HeldStart, HeldPoll, HeldSkipForeignOrSend, HeldSkipRunning
        DEF Next, Poller

LEMMA HeldInit == Init => HeldInv
  BY WatermarkInit DEF Init, HeldInv, Held

\* While no page shows running builds with another id between them or
\* overtakes a build that is being created, no build of the team is lost
\* below the watermark, for every interleaving of the polls with the builds
\* that start, end, are aborted and are destroyed.
THEOREM NothingLost == Spec => []NothingSkippedIfTogether
<1>1. HeldInv => NothingSkippedIfTogether
  BY DEF HeldInv, Held, DueAhead, NothingSkippedIfTogether, NothingSkipped
<1> QED BY <1>1, HeldInit, HeldStep, PTL DEF Spec

-----------------------------------------------------------------------------
(* The goroutine implements the feed.                                      *)

LEMMA FeedTable == ConcourseNext <=> F!ConcourseNext
  BY DEF ConcourseNext, BeginBuild, CommitBuild, RollBack, Becomes, FinishBuild,
         MarkAsAborted, DestroyPipeline, Ids, Pipelines, ExistingIds,
         F!ConcourseNext, F!BeginBuild, F!CommitBuild, F!RollBack, F!Becomes,
         F!FinishBuild, F!MarkAsAborted, F!DestroyPipeline, F!Ids, F!Pipelines,
         F!ExistingIds

LEMMA FeedStarts == Init => F!FeedInit
<1> SUFFICES ASSUME Init PROVE F!FeedInit
  OBVIOUS
<1>1. F!ConcourseInit
  BY DEF Init, ConcourseInit, Ids, Pipelines, Ended, F!ConcourseInit, F!Ids,
            F!Pipelines, F!Ended
<1> QED BY <1>1 DEF Init, F!FeedInit, Ids, F!Ids

LEMMA FeedSteps ==
    WatermarkInv /\ [Next]_vars => [F!FeedNext]_<<F!concourseVars, F!feedVars>>
<1> SUFFICES ASSUME Current, Watermark, [Next]_vars
             PROVE  F!FeedNext \/ UNCHANGED <<F!concourseVars, F!feedVars>>
  BY DEF WatermarkInv
<1> USE DEF pollerVars, channelVars, concourseVars, F!concourseVars, F!feedVars
<1> Typed /\ TypeOK
  BY DEF Current, Typed
<1>1. CASE ConcourseNext /\ UNCHANGED <<pollerVars, channelVars>>
  BY <1>1, FeedTable DEF F!FeedNext
<1>2. CASE StartFails \/ StartPanics \/ Exit \/ Cancel \/ Leave \/ UNCHANGED vars
  BY <1>2 DEF StartFails, StartPanics, Exit, Cancel, Leave, vars
<1>3. ASSUME NEW newest \in Ids, Start(newest) PROVE F!FeedNext
  <2>1. newest \in VisibleIds /\ newest > 0
    BY <1>3, StartsAtNewest DEF Start
  <2>2. startedAt = 0
    BY <1>3 DEF Start, Watermark
  <2>3. newest \in F!VisibleIds
    BY <2>1 DEF VisibleIds, ExistingIds, Ids, F!VisibleIds, F!ExistingIds, F!Ids
  <2>4. F!Begin(newest)
    BY <1>3, <2>2, <2>3 DEF Start, F!Begin
  <2> QED BY <2>4 DEF F!FeedNext, Ids, F!Ids
<1>4. ASSUME NEW low \in Ids, Poll(low)
      PROVE  UNCHANGED <<F!concourseVars, F!feedVars>>
  BY <1>4 DEF Poll
<1>5. ASSUME NEW b \in batch, SkipForeign(b) \/ SkipRunning(b)
      PROVE  UNCHANGED <<F!concourseVars, F!feedVars>>
  BY <1>5 DEF SkipForeign, SkipRunning
<1>6. ASSUME NEW b \in batch, Send(b) PROVE F!FeedNext
  <2>1. /\ b.id \in Ids /\ b.status \in Ended
        /\ pipeline[b.id] \in OwnPipelines /\ b.status \in endings[b.id]
    BY <1>6 DEF Send, Current, BatchCurrent, TypeOK, Build
  <2>2. startedAt > 0 /\ b.id > startedAt
    BY <1>6, BatchBelowNext DEF Send, Reached, Watermark, TypeOK
  <2>3. F!Deliver(b.id, b.status)
    BY <1>6, <2>1, <2>2 DEF Send, F!Deliver, F!Deliverable
  <2> QED BY <2>1, <2>3 DEF F!FeedNext, Ids, F!Ids, Ended, F!Ended
<1> QED BY <1>1, <1>2, <1>3, <1>4, <1>5, <1>6 DEF Next, Poller

\* FinishedBuilds implements the feed its receiver is specified against.
THEOREM PilotImplementsFeed == Spec => ImplementsFeed
  BY FeedStarts, FeedSteps, WatermarkInit, WatermarkStep, PTL
     DEF Spec, ImplementsFeed, F!FeedSpec

=============================================================================
