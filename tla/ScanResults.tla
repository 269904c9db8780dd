----------------------------- MODULE ScanResults -----------------------------
(***************************************************************************)
(* What one scan writes down while it runs: the row of each phase in       *)
(* scan_phases with its status and its count, the hosts, ports and         *)
(* findings the phases store (orchestrator/phases/*.py), and the findings  *)
(* the orchestrator stores once more at the end (persist_findings), with   *)
(* the kill switch raised and lowered, the scan deleted at any point and   *)
(* findings deleted one at a time (DELETE /findings/{id}).                 *)
(*                                                                         *)
(* ScanTask has the control of the same task up to its last status; here   *)
(* every INSERT and UPDATE of a result is a step, and every statement of   *)
(* the deletion.  All of them are on one connection, so that each sees     *)
(* what the ones before have done.  A result is not stored for a foreign   *)
(* key, or when the agent's CVSS score is outside 0 .. 10 and Finding does *)
(* not take it; what other failures do to a transaction is in DataDeletion.*)
(***************************************************************************)
EXTENDS Naturals, Sequences

CONSTANTS
    Phases,   \* the phases in the order they are run
    MaxFound, \* bound: what a phase finds
    MaxErased \* bound: findings deleted one at a time

HostDiscovery == "host_discovery"
PortScan == "port_scan"
VulnScan == "vuln_scan"
TlsAnalysis   == "ssl_analysis"

PhaseNames == {HostDiscovery, PortScan, VulnScan, TlsAnalysis, "analysis"}
FindingPhases == {VulnScan, TlsAnalysis}

ASSUME ResultsAssumption ==
    /\ Phases \in Seq(PhaseNames) /\ Phases # <<>>
    /\ \A m, n \in 1 .. Len(Phases) : Phases[m] = Phases[n] => m = n
    /\ MaxFound \in Nat /\ MaxErased \in Nat

VARIABLES
    work,     \* what the task does next
    nth,      \* index of the current phase in Phases
    raised,   \* the API's kill flag
    found,    \* found[p]: results the task holds of phase p
    toStore,  \* results it has yet to store
    record,   \* record[p]: status and count in the row of phase p
    stored,   \* stored[p]: rows there are of the results of phase p
    kept,     \* findings there are from persist_findings
    erased,   \* history, erased[p]: findings of phase p deleted by themselves
    dropped,  \* history: of those from persist_findings
    jobThere, \* the scan has its row
    removal   \* where DELETE /scans/{id} is: the table it is at

taskPart == <<work, nth, found, toStore>>
rowPart == <<record, stored, kept, jobThere>>
erasedPart == <<erased, dropped>>
resultVars == <<taskPart, rowPart, erasedPart, raised, removal>>

NoRecord == [status |-> "none", count |-> 0]

\* The tables in the order they are deleted from.
TableAfter == [discovered_hosts |-> "open_ports", open_ports |-> "findings",
               findings |-> "scan_phases", scan_phases |-> "scan_jobs",
               scan_jobs |-> "over"]
DeletedTables == DOMAIN TableAfter

Over == {"finished", "aborted", "failed"}

ResultsTypeOK ==
    /\ work \in {"check", "tool", "insert", "start", "enter", "agent", "look",
                 "count", "store", "persist"} \cup Over
    /\ nth \in 1 .. Len(Phases)
    /\ {found, stored} \subseteq [PhaseNames -> 0 .. MaxFound]
    /\ {toStore, kept} \subseteq 0 .. 2 * MaxFound
    /\ erased \in [PhaseNames -> 0 .. MaxErased]
    /\ dropped \in 0 .. MaxErased
    /\ record \in [PhaseNames ->
           [status : {"none", "pending", "running", "skipped", "completed", "failed"},
            count : 0 .. MaxFound]]
    /\ {raised, jobThere} \subseteq BOOLEAN
    /\ removal \in {"none", "over", "refused"} \cup DeletedTables

NoResults == [p \in PhaseNames |-> 0]

ResultsInit ==
    /\ work = "check" /\ nth = 1
    /\ raised = FALSE
    /\ found = NoResults /\ toStore = 0
    /\ record = [p \in PhaseNames |-> NoRecord]
    /\ stored = NoResults /\ kept = 0
    /\ erased = NoResults /\ dropped = 0
    /\ jobThere = TRUE
    /\ removal = "none"

-----------------------------------------------------------------------------
ThisPhase == Phases[nth]
Doing(step) == work = step
GoOn(step) == work' = step /\ UNCHANGED <<nth, found, toStore>>
Fail == GoOn("failed")

HasRecord(p) == record[p] # NoRecord

\* update_status of the phase: it writes the counts along with the status,
\* 0 unless told otherwise; without a row it does nothing.
SetRecord(p, status, count) ==
    record' = IF HasRecord(p)
              THEN [record EXCEPT ![p] = [status |-> status, count |-> count]]
              ELSE record

\* After the last phase the findings of both scans are stored again.
NextPhase(results) ==
    /\ found' = results
    /\ IF nth < Len(Phases)
       THEN nth' = nth + 1 /\ work' = "check" /\ toStore' = 0
       ELSE nth' = nth /\ work' = "persist" /\ toStore' = results[VulnScan] + results[TlsAnalysis]

-----------------------------------------------------------------------------
(* run_multi_phase_scan.                                                   *)

\* The result of a killed scan is empty: nothing to persist.
AbortScan ==
    /\ Doing("check") /\ raised
    /\ work' = "aborted" /\ found' = NoResults
    /\ UNCHANGED <<nth, toStore, rowPart>>

\* An escalation level below 2 leaves out the vulnerability scan, and the
\* TLS analysis needs an HTTPS port among those found.
LeaveOut ==
    /\ Doing("check") /\ ~raised
    /\ ThisPhase \in FindingPhases
    /\ NextPhase(found)
    /\ UNCHANGED rowPart

BeginPhase ==
    /\ Doing("check") /\ ~raised
    /\ ThisPhase = TlsAnalysis => found[PortScan] > 0
    /\ GoOn(IF ThisPhase = "analysis" THEN "insert" ELSE "tool")
    /\ UNCHANGED rowPart

\* The phase's commands; the TLS analysis takes an error for output.
RunTool ==
    /\ Doing("tool")
    /\ \/ GoOn("insert")
       \/ ThisPhase # TlsAnalysis /\ Fail
    /\ UNCHANGED rowPart

-----------------------------------------------------------------------------
(* execute_phase.                                                          *)

InsertRecord ==
    /\ Doing("insert")
    /\ IF jobThere
       THEN /\ GoOn("start")
            /\ record' = [record EXCEPT ![ThisPhase] = [status |-> "pending", count |-> 0]]
       ELSE Fail /\ UNCHANGED record
    /\ UNCHANGED <<stored, kept, jobThere>>

StartRecord ==
    /\ Doing("start")
    /\ GoOn("enter")
    /\ SetRecord(ThisPhase, "running", 0)
    /\ UNCHANGED <<stored, kept, jobThere>>

\* Mutant: the killed phase returns without updating its row.
SkipPhaseSilently ==
    /\ Doing("enter") /\ raised
    /\ NextPhase(found)
    /\ UNCHANGED rowPart

SkipPhase ==
    /\ Doing("enter") /\ raised
    /\ SetRecord(ThisPhase, "skipped", 0)
    /\ NextPhase(found)
    /\ UNCHANGED <<stored, kept, jobThere>>

AskAgent ==
    /\ Doing("enter") /\ ~raised
    /\ GoOn("agent")
    /\ UNCHANGED rowPart

\* An empty answer has no results, and those of the analysis are text.
AgentCompletes ==
    /\ Doing("agent")
    /\ SetRecord(ThisPhase, "completed", 0)
    /\ \/ ThisPhase # "analysis" /\ GoOn("look")
       \/ NextPhase(found)
    /\ UNCHANGED <<stored, kept, jobThere>>

AgentGivesUp ==
    /\ Doing("agent")
    /\ SetRecord(ThisPhase, "failed", 0)
    /\ NextPhase(found)
    /\ UNCHANGED <<stored, kept, jobThere>>

-----------------------------------------------------------------------------
(* What the phases do with the answer.                                     *)

\* The answer is parsed and the phase's row looked for.
LookUpRecord ==
    /\ Doing("look")
    /\ \E n \in 0 .. MaxFound :
          /\ found' = [found EXCEPT ![ThisPhase] = n]
          /\ toStore' = n
    /\ work' = IF HasRecord(ThisPhase) THEN "count" ELSE "store"
    /\ UNCHANGED <<nth, rowPart>>

CountResults ==
    /\ Doing("count")
    /\ GoOn("store")
    /\ SetRecord(ThisPhase, "completed", found[ThisPhase])
    /\ UNCHANGED <<stored, kept, jobThere>>

\* Hosts and ports reference the phase's row - where it was not found, the
\* scan's id takes the place of its id - and findings only the scan.
CanStore == jobThere /\ (ThisPhase \in {HostDiscovery, PortScan} => HasRecord(ThisPhase))

StoreResult ==
    /\ Doing("store") /\ toStore > 0 /\ CanStore
    /\ stored' = [stored EXCEPT ![ThisPhase] = @ + 1]
    /\ toStore' = toStore - 1
    /\ UNCHANGED <<work, nth, found, record, kept, jobThere>>

\* The count is written, what is stored before the failure stays.
StoreFails ==
    /\ Doing("store") /\ toStore > 0
    /\ ~CanStore \/ ThisPhase \in FindingPhases
    /\ Fail
    /\ UNCHANGED rowPart

AllStored ==
    /\ Doing("store") /\ toStore = 0
    /\ NextPhase(found)
    /\ UNCHANGED rowPart

\* persist_findings; the scores are those the phases' findings have had.
KeepFinding ==
    /\ Doing("persist") /\ toStore > 0
    /\ IF jobThere
       THEN kept' = kept + 1 /\ toStore' = toStore - 1 /\ UNCHANGED <<work, nth, found>>
       ELSE Fail /\ UNCHANGED kept
    /\ UNCHANGED <<record, stored, jobThere>>

FinishScan ==
    /\ Doing("persist") /\ toStore = 0
    /\ GoOn("finished")
    /\ UNCHANGED rowPart

TaskWrites ==
    /\ \/ AbortScan \/ LeaveOut \/ BeginPhase \/ RunTool
       \/ InsertRecord \/ StartRecord \/ SkipPhase \/ AskAgent
       \/ AgentCompletes \/ AgentGivesUp
       \/ LookUpRecord \/ CountResults \/ StoreResult \/ StoreFails \/ AllStored
       \/ KeepFinding \/ FinishScan
    /\ UNCHANGED <<erasedPart, raised, removal>>

-----------------------------------------------------------------------------
(* The kill switch, delete_finding, and ScanJobRepository.delete.          *)

RaiseOrReset ==
    /\ raised' = ~raised
    /\ UNCHANGED <<taskPart, rowPart, erasedPart, removal>>

\* One finding, of any scan, at any time; the count of its phase stays.
DeleteOneFinding ==
    /\ erased[VulnScan] + erased[TlsAnalysis] + dropped < MaxErased
    /\ \/ \E p \in FindingPhases :
             /\ stored[p] > 0
             /\ stored' = [stored EXCEPT ![p] = @ - 1]
             /\ erased' = [erased EXCEPT ![p] = @ + 1]
             /\ UNCHANGED <<kept, dropped>>
       \/ /\ kept > 0
          /\ kept' = kept - 1
          /\ dropped' = dropped + 1
          /\ UNCHANGED <<stored, erased>>
    /\ UNCHANGED <<taskPart, raised, record, jobThere, removal>>

BeginDeletion ==
    /\ removal = "none"
    /\ removal' = "discovered_hosts"
    /\ UNCHANGED <<taskPart, rowPart, erasedPart, raised>>

Leaves(phases) == [p \in PhaseNames |-> IF p \in phases THEN 0 ELSE stored[p]]

Empties(table) ==
    CASE table = "discovered_hosts" ->
            stored' = Leaves({HostDiscovery}) /\ UNCHANGED <<record, kept, jobThere>>
      [] table = "open_ports" ->
            stored' = Leaves({PortScan}) /\ UNCHANGED <<record, kept, jobThere>>
      [] table = "findings" ->
            stored' = Leaves(FindingPhases) /\ kept' = 0 /\ UNCHANGED <<record, jobThere>>
      [] table = "scan_phases" ->
            record' = [p \in PhaseNames |-> NoRecord] /\ UNCHANGED <<stored, kept, jobThere>>
      [] table = "scan_jobs" ->
            jobThere' = FALSE /\ UNCHANGED <<record, stored, kept>>

\* Rows that the foreign keys keep, as others reference them.
KeptByOthers(table) ==
    CASE table = "scan_phases" -> stored[HostDiscovery] + stored[PortScan] > 0
      [] table = "scan_jobs" ->
            \/ \E p \in PhaseNames : stored[p] > 0 \/ HasRecord(p)
            \/ kept > 0
      [] OTHER -> FALSE

\* The next statement; a refused one ends the request.
DeleteFromTable ==
    /\ removal \in DeletedTables
    /\ IF KeptByOthers(removal)
       THEN removal' = "refused" /\ UNCHANGED rowPart
       ELSE Empties(removal) /\ removal' = TableAfter[removal]
    /\ UNCHANGED <<taskPart, erasedPart, raised>>

ResultsNext == TaskWrites \/ RaiseOrReset \/ DeleteOneFinding \/ BeginDeletion \/ DeleteFromTable

ResultsSpec == ResultsInit /\ [][ResultsNext]_resultVars

-----------------------------------------------------------------------------
(* Properties.                                                             *)

\* The rows phase p has stored, the ones deleted since included.
Put(p) == stored[p] + erased[p]

\* The phase whose findings the task did not get to the end of.
CutShort(p) == work = "failed" /\ p = ThisPhase /\ p \in FindingPhases

\* What is written down agrees, on every path by which a scan can end
\* (execute_phase, run_host_discovery and the like, persist_findings),
\* whatever findings are deleted by themselves meanwhile.  Unless the scan
\* is deleted, the count a phase's row shows is never below the rows the
\* phase has stored.  When the task is over no phase is left pending or
\* running, and the counts are those of the rows stored: the one exception
\* is the phase with findings in which the scan failed, whose count was
\* written before its findings.  A scan that ran to its end has had every
\* finding of its phases a second time from the orchestrator.  Of a deleted
\* scan nothing is left, whatever its task went on to store.
ResultsAgree ==
    /\ removal = "none" =>
          /\ \A p \in PhaseNames : Put(p) <= record[p].count
          /\ work \in Over =>
                \A p \in PhaseNames :
                    /\ record[p].status \notin {"pending", "running"}
                    /\ ~CutShort(p) => Put(p) = record[p].count
          /\ work = "finished" => kept + dropped = Put(VulnScan) + Put(TlsAnalysis)
    /\ ~jobThere =>
          /\ stored = NoResults /\ kept = 0
          /\ \A p \in PhaseNames : ~HasRecord(p)
=============================================================================
