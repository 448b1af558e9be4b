-------------------------------- MODULE Suite --------------------------------
(***************************************************************************)
(* The tests of pkg/flyontime and what they stand for.  A behaviour is one *)
(* example of monitor_test.go or of concourse_test.go, each with fakes of  *)
(* its own; or it is buildOutput, with a server or with its fake.          *)
(***************************************************************************)
EXTENDS OutputSystem, MonitorTest, PilotTest

VARIABLE subject    \* what runs: "output", "monitor" or "pilot"

suiteVars == <<systemVars, monitorTestVars, pilotTestVars, subject>>

\* What does not run is in one of its first states.
SuiteInit ==
    /\ SystemInit
    /\ MonitorTestInit
    /\ PilotTestInit
    /\ subject \in {"output", "monitor", "pilot"}
    /\ subject # "output" => setting = "test"
    /\ subject # "monitor" => example = OfBuilds(<<TestBuild(0, "", "failed")>>, 0)
    /\ subject # "pilot" => test = "cancel"

OutputRuns ==
    subject = "output" /\ SystemNext /\ UNCHANGED <<monitorTestVars, pilotTestVars, subject>>

MonitorExample ==
    subject = "monitor" /\ MonitorTestNext /\ UNCHANGED <<systemVars, pilotTestVars, subject>>

PilotExample ==
    subject = "pilot" /\ PilotTestNext /\ UNCHANGED <<systemVars, monitorTestVars, subject>>

SuiteNext == OutputRuns \/ MonitorExample \/ PilotExample

\* The goroutines of the example that runs do, and its timers fire.
SuiteFairness ==
    /\ SystemFairness
    /\ WF_monitorTestVars(subject = "monitor" /\ MonitorRuns)
    /\ WF_monitorTestVars(subject = "monitor" /\ TestRuns)
    /\ WF_monitorTestVars(subject = "monitor" /\ TimerFires)
    /\ WF_pilotTestVars(subject = "pilot" /\ PollerRuns)
    /\ WF_pilotTestVars(subject = "pilot" /\ PilotTestRuns)

SuiteSpec == SuiteInit /\ [][SuiteNext]_suiteVars /\ SuiteFairness

-----------------------------------------------------------------------------
(* Properties.                                                             *)

\* Every example gets the replies, calls and builds it waits for, in the order
\* it expects, whatever the order in which its goroutines run: among them the
\* first of the two replies of a pause that failed, the result of a rerun whose
\* build comes through the timer of the stub of CreateJobBuild, and the
\* finished builds of a page that has running ones, from FinishedBuilds.  And
\* the goroutine of the monitor ends at its Stop, with no send left pending.
ExamplesPass ==
    /\ subject = "monitor" ~> MonitorExamplePassed
    /\ subject = "pilot" ~> verdict = "passed"
=============================================================================
