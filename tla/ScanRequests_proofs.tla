------------------------ MODULE ScanRequests_proofs ------------------------
(***************************************************************************)
(* What the scan rows, the kill switch and the requests that meddle with   *)
(* scans keep: their types, step by step.  Used for the whole scan system  *)
(* and for the report on a kill, which both run these requests.            *)
(***************************************************************************)
EXTENDS ScanRequests, TLAPS

(* SetStatus, the UPDATE of update_status, writes a row of the table.      *)
LEMMA SetStatusType ==
    ASSUME RepoTypeOK, NEW j, NEW s \in Status, SetStatus(j, s)
    PROVE  job' \in [Jobs -> Row]
<1>1. ASSUME NEW k \in Jobs
      PROVE  Stamped(job[k], s) \in Row
  <2>1. job[k] \in Row
    BY DEF RepoTypeOK
  <2>2. s \in Status \cup {"unused", "deleted"}
    OBVIOUS
  <2>. QED
    BY <2>1, <2>2 DEF Stamped, Row
<1>. QED
  BY <1>1 DEF SetStatus, RepoTypeOK

(* Log, the INSERT into audit_logs.                                        *)
LEMMA LogType ==
    ASSUME RepoTypeOK, NEW a \in AuditActions, NEW j \in Jobs \cup {NoJob},
           Log(a, j)
    PROVE  audit' \subseteq (AuditActions \X (Jobs \cup {NoJob}))
  BY DEF Log, RepoTypeOK

(* Create draws an id whose row is then pending.                           *)
LEMMA CreateType ==
    ASSUME RepoTypeOK, NEW j \in Jobs, Create(j)
    PROVE  job' \in [Jobs -> Row]
  BY DEF Create, RepoTypeOK, NoRow, Row, Status

(* Rows that hang off the scan come and go.                                *)
LEMMA ChildrenType ==
    ASSUME RepoTypeOK, NEW j, AddChildren(j) \/ DeleteChildren(j)
    PROVE  job' \in [Jobs -> Row]
<1>1. \A k \in Jobs, b \in BOOLEAN : [job[k] EXCEPT !.children = b] \in Row
  BY DEF RepoTypeOK, Row
<1>2. CASE AddChildren(j)
  BY <1>1, <1>2 DEF AddChildren, RepoTypeOK
<1>3. CASE DeleteChildren(j)
  BY <1>1, <1>3 DEF DeleteChildren, RepoTypeOK
<1>. QED
  BY <1>2, <1>3

(* Activating or resetting the kill switch.                                *)
LEMMA KillSwitchType ==
    ASSUME KillTypeOK, NEW p \in Processes,
           \/ Activate(p)
           \/ Reset(p) /\ CreateSandbox
           \/ Reset(p) /\ UNCHANGED sandbox
    PROVE  KillTypeOK'
  BY DEF Activate, Reset, CreateSandbox, StopSandbox, killVars, KillTypeOK

-----------------------------------------------------------------------------
(* Every step of a request handler keeps the types.                        *)
LEMMA RequestStepType ==
    ASSUME RepoTypeOK, KillTypeOK, RequestTypeOK, NEW r \in Requests,
           SendRequest(r) \/ RequestStep(r)
    PROVE  RepoTypeOK' /\ KillTypeOK' /\ RequestTypeOK'
<1>. DEFINE RPCs == {"sent", "check", "write", "children", "row", "list",
                     "next", "log", "done", "failed"}
            Moves == rpc' \in [Requests -> RPCs]
            JobOK == job' \in [Jobs -> Row]
            Kept == UNCHANGED <<target, running, todo>>
<1>1. \A to \in RPCs : RGoto(r, to) => Moves
  BY DEF RGoto, RequestTypeOK
<1>2. ASSUME Moves, Kept, JobOK, UNCHANGED <<audit, killVars>>
      PROVE  RepoTypeOK' /\ KillTypeOK' /\ RequestTypeOK'
  BY <1>2 DEF killVars, RepoTypeOK, KillTypeOK, RequestTypeOK
<1>3. ASSUME NEW a \in AuditActions, NEW j \in Jobs \cup {NoJob},
             LogRequest(r, a, j)
      PROVE  RepoTypeOK' /\ KillTypeOK' /\ RequestTypeOK'
  <2>1. Moves
    BY <1>1, <1>3 DEF LogRequest, RStep
  <2>2. audit' \subseteq (AuditActions \X (Jobs \cup {NoJob}))
    BY <1>3, LogType DEF LogRequest
  <2>. QED
    BY <1>3, <2>1, <2>2
    DEF LogRequest, killVars, RepoTypeOK, KillTypeOK, RequestTypeOK
<1>4. CASE CancelRead(r)
  <2>1. Moves
    BY <1>1, <1>4 DEF CancelRead, RStep
  <2>. QED
    BY <1>4, <2>1
    DEF CancelRead, repoVars, killVars, RepoTypeOK, KillTypeOK,
        RequestTypeOK
<1>5. CASE CancelCheck(r)
  <2>1. Moves
    BY <1>1, <1>5 DEF CancelCheck, RStep
  <2>. QED
    BY <1>5, <2>1
    DEF CancelCheck, repoVars, killVars, RepoTypeOK, KillTypeOK,
        RequestTypeOK
<1>6. CASE CancelWrite(r)
  <2>1. Moves
    BY <1>1, <1>6 DEF CancelWrite, RStep
  <2>2. JobOK
    BY <1>6, SetStatusType DEF CancelWrite, Status
  <2>. QED
    BY <1>2, <1>6, <2>1, <2>2 DEF CancelWrite
<1>7. CASE CancelLog(r)
  BY <1>3, <1>7 DEF CancelLog, AuditActions, RequestTypeOK
<1>8. CASE DeleteRead(r)
  <2>1. Moves
    BY <1>1, <1>8 DEF DeleteRead, RStep
  <2>. QED
    BY <1>8, <2>1
    DEF DeleteRead, repoVars, killVars, RepoTypeOK, KillTypeOK,
        RequestTypeOK
<1>9. CASE DeleteDependents(r)
  <2>1. Moves
    BY <1>1, <1>9 DEF DeleteDependents, RStep
  <2>2. JobOK
    BY <1>9, ChildrenType DEF DeleteDependents, RepoTypeOK
  <2>. QED
    BY <1>2, <1>9, <2>1, <2>2 DEF DeleteDependents
<1>10. CASE DeleteScanRow(r)
  <2>1. Moves
    BY <1>1, <1>10 DEF DeleteScanRow, RStep
  <2>2. NoRow("deleted") \in Row
    BY DEF NoRow, Row
  <2>3. JobOK
    BY <1>10, <2>2 DEF DeleteScanRow, DeleteRow, RepoTypeOK
  <2>. QED
    BY <1>2, <1>10, <2>1, <2>3 DEF DeleteScanRow
<1>11. CASE DeleteLog(r)
  BY <1>3, <1>11 DEF DeleteLog, AuditActions, RequestTypeOK
<1>12. CASE KillActivate(r)
  <2>1. Moves
    BY <1>1, <1>12 DEF KillActivate, RStep
  <2>2. KillTypeOK'
    BY <1>12, KillSwitchType DEF KillActivate, Processes
  <2>. QED
    BY <1>12, <2>1, <2>2 DEF KillActivate, repoVars, RepoTypeOK, RequestTypeOK
<1>13. CASE KillList(r)
  <2>1. Moves
    BY <1>1, <1>13 DEF KillList, RStep
  <2>. QED
    BY <1>13, <2>1
    DEF KillList, HasStatus, repoVars, killVars, RepoTypeOK, KillTypeOK,
        RequestTypeOK
<1>14. CASE KillCheck(r)
  <2>1. Moves
    BY <1>1, <1>14 DEF KillCheck, RStep
  <2>. QED
    BY <1>14, <2>1
    DEF KillCheck, repoVars, killVars, RepoTypeOK, KillTypeOK,
        RequestTypeOK
<1>15. CASE KillWrite(r)
  <2>1. Moves
    BY <1>1, <1>15 DEF KillWrite, RStep
  <2>2. JobOK
    BY <1>15, SetStatusType DEF KillWrite, Status
  <2>. QED
    BY <1>15, <2>1, <2>2
    DEF KillWrite, killVars, RepoTypeOK, KillTypeOK, RequestTypeOK
<1>16. CASE KillMarked(r)
  <2>1. Moves
    BY <1>1, <1>16 DEF KillMarked, RStep
  <2>. QED
    BY <1>16, <2>1
    DEF KillMarked, repoVars, killVars, RepoTypeOK, KillTypeOK,
        RequestTypeOK
<1>17. CASE KillLog(r)
  BY <1>3, <1>17 DEF KillLog, AuditActions, RequestTypeOK
<1>18. CASE ResetFlag(r)
  <2>1. Moves
    BY <1>1, <1>18 DEF ResetFlag
  <2>2. KillTypeOK'
    BY <1>18, KillSwitchType DEF ResetFlag, Processes, killVars, KillTypeOK
  <2>. QED
    BY <1>18, <2>1, <2>2 DEF ResetFlag, repoVars, RepoTypeOK, RequestTypeOK
<1>19. CASE ResetLog(r)
  BY <1>3, <1>19 DEF ResetLog, AuditActions, RequestTypeOK
<1>. QED
  BY <1>4, <1>5, <1>6, <1>7, <1>8, <1>9, <1>10, <1>11, <1>12, <1>13,
     <1>14, <1>15, <1>16, <1>17, <1>18, <1>19
  DEF SendRequest, RequestStep
=============================================================================
