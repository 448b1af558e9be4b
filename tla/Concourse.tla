------------------------------ MODULE Concourse ------------------------------
(***************************************************************************)
(* The Concourse server, as far as flyontime depends on it: the table of   *)
(* builds and the endpoint that lists them, with the paging rules of the   *)
(* vendored atc.  Other teams, users and the scheduler act on the table    *)
(* while flyontime reads it.                                               *)
(*                                                                         *)
(* A build belongs to a pipeline, which decides whether the list shows it: *)
(* pipelines of the bot's own team, public pipelines of other teams, and   *)
(* private pipelines of other teams.  A pipeline has one job.              *)
(***************************************************************************)
EXTENDS Integers, FiniteSets

CONSTANTS
    OwnPipelines,       \* pipelines of the team flyontime logs in as
    PublicPipelines,    \* pipelines of other teams that anyone may list
    PrivatePipelines,   \* pipelines of other teams that are not listed
    Destroyable,        \* pipelines somebody may destroy
    Abortable,          \* builds somebody may abort
    Outcomes,           \* statuses builds finish with
    FirstId, LastId,    \* bounds on the build ids a behaviour uses
    History,            \* number of builds in the table at the start
    NoPipeline          \* the pipeline of an id that is not handed out yet

Pipelines == OwnPipelines \cup PublicPipelines \cup PrivatePipelines
Ids == FirstId..LastId

\* The statuses of a build that is not listed as running.
Ended == Outcomes \cup {"aborted"}

\* "running" stands for both pending and started.
Status == {"absent", "running"} \cup Ended

ASSUME ConcourseAssumption ==
    /\ FirstId \in Nat \ {0}
    /\ LastId \in Nat
    /\ FirstId <= LastId
    /\ History \in 0..(LastId - FirstId + 1)
    /\ OwnPipelines \cap PublicPipelines = {}
    /\ OwnPipelines \cap PrivatePipelines = {}
    /\ PublicPipelines \cap PrivatePipelines = {}
    /\ Destroyable \subseteq Pipelines
    /\ Abortable \subseteq Nat
    /\ NoPipeline \notin Pipelines
    /\ Outcomes \cap {"absent", "running", "none"} = {}

VARIABLES
    pipeline,   \* the pipeline of each build
    status,     \* the status of each build
    deleted,    \* builds whose pipeline was destroyed
    nextId,     \* the id the sequence of the table hands out next
    creating,   \* builds whose transaction has not come to its commit
    completed,  \* builds that Finish was called for
    endings     \* history: the statuses each build has had but "running"

concourseVars == <<pipeline, status, deleted, nextId, creating, completed, endings>>

-----------------------------------------------------------------------------
(* The list endpoint.                                                      *)

ExistingIds == {i \in Ids : status[i] # "absent"} \ deleted

\* PrivateAndPublicBuilds: the rows the bot may see.
VisibleIds == {i \in ExistingIds : pipeline[i] \notin PrivatePipelines}

\* The page for Page{Until: until, Limit: limit}.  A positive until asks for
\* the oldest builds above it; the client leaves out any other until, and
\* the server then answers with the newest builds.  The rows come with
\* descending ids in both cases, so a page is a set.
ListBuilds(until, limit) ==
    IF until > 0
    THEN LET found == {i \in VisibleIds : i > until}
         IN  {i \in found : Cardinality({j \in found : j < i}) < limit}
    ELSE {i \in VisibleIds : Cardinality({j \in VisibleIds : j > i}) < limit}

\* Pagination.Next is set, with Since = low: low is the last, and so the
\* lowest, id of the page and some build of the table, visible or not, is
\* older.
HasNext(page, low) ==
    /\ low \in page
    /\ \A j \in page : low <= j
    /\ \E i \in ExistingIds : i < low

-----------------------------------------------------------------------------
(* What happens to the table.                                              *)

\* A build in the table runs, or has ended, or was aborted and goes on for a
\* while.
ConcourseInit ==
    /\ nextId = FirstId + History
    /\ deleted = {}
    /\ creating = {}
    /\ \E p \in [FirstId..(nextId - 1) -> Pipelines],
         s \in [FirstId..(nextId - 1) -> {"running"} \cup Ended] :
            /\ \A i \in DOMAIN s : s[i] \in Outcomes \cup {"running"} \/ i \in Abortable
            /\ pipeline = [i \in Ids |-> IF i < nextId THEN p[i] ELSE NoPipeline]
            /\ status = [i \in Ids |-> IF i < nextId THEN s[i] ELSE "absent"]
    /\ endings = [i \in Ids |-> {status[i]} \ {"absent", "running"}]
    /\ \E aborted \in SUBSET {i \in Abortable \cap Ids : status[i] = "aborted"} :
          completed = {i \in Ids : status[i] \in Ended} \ aborted

\* A job is triggered: a transaction locks the row of the job, which counts
\* its builds, and draws an id.  Nobody else sees the build yet.
BeginBuild(p) ==
    /\ nextId <= LastId
    /\ \A i \in creating : pipeline[i] # p
    /\ pipeline' = [pipeline EXCEPT ![nextId] = p]
    /\ creating' = creating \cup {nextId}
    /\ nextId' = nextId + 1
    /\ UNCHANGED <<status, deleted, completed, endings>>

\* Transactions of several jobs commit in any order, whatever ids they drew.
CommitBuild(i) ==
    /\ i \in creating
    /\ creating' = creating \ {i}
    /\ status' = [status EXCEPT ![i] = "running"]
    /\ UNCHANGED <<pipeline, deleted, nextId, completed, endings>>

\* The transaction fails; its id is gone.
RollBack(i) ==
    /\ i \in creating
    /\ creating' = creating \ {i}
    /\ pipeline' = [pipeline EXCEPT ![i] = NoPipeline]
    /\ UNCHANGED <<status, deleted, nextId, completed, endings>>

Becomes(i, outcome) ==
    /\ status' = [status EXCEPT ![i] = outcome]
    /\ endings' = [endings EXCEPT ![i] = @ \cup {outcome}]
    /\ UNCHANGED <<pipeline, deleted, nextId, creating>>

\* Finish does not look at the status, which an abort may have set already,
\* but drops the sequence of the build's events: a second one fails.
FinishBuild(i, outcome) ==
    /\ i \in ExistingIds \ completed
    /\ Becomes(i, outcome)
    /\ completed' = completed \cup {i}

\* Somebody aborts a build: the status says so at once, whether the build
\* still runs or has ended; only one that runs is finished after it.
MarkAsAborted(i) ==
    /\ i \in ExistingIds \cap Abortable
    /\ Becomes(i, "aborted")
    /\ UNCHANGED completed

\* Destroying a pipeline deletes its builds, running ones included.  It waits
\* for transactions that create one.
DestroyPipeline(p) ==
    /\ \E i \in ExistingIds : pipeline[i] = p
    /\ \A i \in creating : pipeline[i] # p
    /\ deleted' = deleted \cup {i \in ExistingIds : pipeline[i] = p}
    /\ UNCHANGED <<pipeline, status, nextId, creating, completed, endings>>

ConcourseNext ==
    \/ \E p \in Pipelines : BeginBuild(p)
    \/ \E i \in Ids : CommitBuild(i) \/ RollBack(i) \/ MarkAsAborted(i)
    \/ \E i \in Ids, outcome \in Outcomes : FinishBuild(i, outcome)
    \/ \E p \in Destroyable : DestroyPipeline(p)

ConcourseTypeOK ==
    /\ pipeline \in [Ids -> Pipelines \cup {NoPipeline}]
    /\ status \in [Ids -> Status]
    /\ deleted \subseteq Ids
    /\ nextId \in FirstId..(LastId + 1)
    /\ creating \subseteq Ids
    /\ completed \subseteq Ids
    /\ endings \in [Ids -> SUBSET Ended]
=============================================================================
