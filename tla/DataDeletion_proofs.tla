------------------------ MODULE DataDeletion_proofs ------------------------
(***************************************************************************)
(* Proofs about DataDeletion, for any scans, users, requests and number of *)
(* starts: a user that is gone from the disk has left nothing of what was  *)
(* listed for its deletion, whatever commits, fails or is lost on the way. *)
(***************************************************************************)
EXTENDS DataDeletion, TLAPS

Children == References("scan_jobs")

Tables == [rows : [Scans -> SUBSET ScanTables], ended : SUBSET Scans,
           people : [Users -> SUBSET UserTables]]

\* Of the types, what the argument needs.
RowTypes == disk \in Tables /\ view \in Tables

ControlTypes ==
    /\ fate \in [Deletions -> {"idle", "working", "done", "failed", "lost"}]
    /\ step \in [Deletions -> Nat]
    /\ target \in [Deletions -> Scans \cup Users \cup {NoTarget}]
    /\ ids \in [Deletions -> SUBSET Scans]
    /\ left \in [Deletions -> SUBSET Scans]
    /\ task \in [Scans -> {"idle", "insert", "commit", "end", "last_commit",
                           "done", "lost"}]
    /\ written \in [Scans -> Nat]
    /\ request \in [Requests -> {"idle", "commit", "done", "failed", "lost"}]
    /\ does \in [Requests -> Doings]
    /\ \A d \in Deletions : step[d] \in 1 .. Len(Statements(d))
    /\ \A d \in PurgeReqs : IF fate[d] = "idle" THEN step[d] = 1 /\ target[d] = NoTarget
                                                ELSE target[d] \in Users
    /\ server # "up" => \A d \in PurgeReqs : ~Working(d)

\* A scan whose task has got past its scan_jobs row, or that has no task.
Old(s) ==
    /\ task[s] = "idle" => Stored[s] # {}
    /\ task[s] = "insert" => written[s] > 0

Listed == \A d \in Deletions : \A s \in ids[d] : Old(s)

\* What holds of the committed tables and of those the connection sees: the
\* foreign keys to scan_jobs; rows are of old scans; a user is deleted by a
\* request for it, after its rows and its name in the audit log.
KeyKept(T) == \A s \in Scans :
    T.rows[s] \cap Children # {} => "scan_jobs" \in T.rows[s]
OfOld(T) == \A s \in Scans : "scan_jobs" \in T.rows[s] => Old(s)
Asked(T) == \A u \in Users :
    "users" \notin T.people[u] =>
        \/ \E d \in PurgeReqs : fate[d] # "idle" /\ target[d] = u
        \/ Sent(<<"dismiss", u>>)
RowsGone(T) == \A d \in PurgeReqs :
    /\ fate[d] # "idle"
    /\ "users" \notin T.people[target[d]]
    /\ ~Sent(<<"dismiss", target[d]>>)
    /\ \A e \in PurgeReqs \ {d} : target[e] # target[d]
    => \A s \in ids[d] : T.rows[s] \subseteq Afterwards(s)
NameGone(T) == \A u \in Users :
    /\ "users" \notin T.people[u]
    /\ ~Sent(<<"audit", u>>) /\ ~Sent(<<"dismiss", u>>)
    => "audit_logs" \notin T.people[u]

Sound(T) == KeyKept(T) /\ OfOld(T) /\ Asked(T) /\ RowsGone(T) /\ NameGone(T)

\* How far a purge has come: past scan_jobs no table that refers to it has
\* rows, past chat_messages there are only messages saved since.
PastRows == \A d \in PurgeReqs : Working(d) => \A s \in ids[d] :
    /\ step[d] > 6 => view.rows[s] \cap (Children \cup {"scan_jobs"}) = {}
    /\ step[d] > 7 => "chat_messages" \notin view.rows[s] \/ Sent(<<"message", s>>)
PastName == \A d \in PurgeReqs :
    /\ Working(d) /\ step[d] > 9
    /\ ~Sent(<<"audit", target[d]>>) /\ ~Sent(<<"dismiss", target[d]>>)
    => "audit_logs" \notin view.people[target[d]]

DataInv ==
    /\ RowTypes /\ ControlTypes /\ Listed
    /\ Sound(disk) /\ Sound(view)
    /\ PastRows /\ PastName

-----------------------------------------------------------------------------
LEMMA StatementOf ==
    ASSUME ControlTypes, NEW d \in Deletions
    PROVE  /\ d \in PurgeReqs => Statements(d) = PurgeOrder
           /\ Current(d) \in ScanTables \cup UserTables =>
                  step[d] + 1 \in 1 .. Len(Statements(d))
           /\ Current(d) \in UserTables => d \in PurgeReqs
<1>1. d \in PurgeReqs => Statements(d) = PurgeOrder
  BY DeletionAssumption DEF Statements
<1>2. step[d] \in 1 .. Len(Statements(d)) /\ Current(d) = Statements(d)[step[d]]
  BY DEF ControlTypes, Current
<1>3. CASE Statements(d) = PurgeOrder /\ d \in PurgeReqs
  BY <1>2, <1>3 DEF PurgeOrder, ScanTables, UserTables
<1>4. CASE Statements(d) = DeleteOrder /\ d \notin PurgeReqs
  BY <1>2, <1>4 DEF DeleteOrder, ScanTables, UserTables
<1>5. CASE Statements(d) = RetentionOrder /\ d \notin PurgeReqs
  BY <1>2, <1>5 DEF RetentionOrder, ScanTables, UserTables
<1>. QED
  BY <1>1, <1>3, <1>4, <1>5, DeletionAssumption DEF Statements

LEMMA PurgeStatements ==
    ASSUME ControlTypes, NEW d \in PurgeReqs
    PROVE  /\ d \in Deletions /\ d \notin DeleteReqs /\ d # "retention"
           /\ step[d] \in 1 .. 11
           /\ Current(d) \in ScanTables => step[d] \in 1 .. 7
           /\ Current(d) \in UserTables => step[d] \in 8 .. 10
           /\ Current(d) = "scan_jobs" <=> step[d] = 6
           /\ Current(d) = "chat_messages" <=> step[d] = 7
           /\ Current(d) = "audit_logs" <=> step[d] = 9
           /\ Current(d) = "users" <=> step[d] = 10
<1>1. d \in Deletions /\ d \notin DeleteReqs /\ d # "retention"
  BY DeletionAssumption DEF Deletions
<1>2. step[d] \in 1 .. 11 /\ Current(d) = PurgeOrder[step[d]]
  BY <1>1, StatementOf DEF Current, ControlTypes, PurgeOrder
<1>. QED
  BY <1>1, <1>2 DEF PurgeOrder, ScanTables, UserTables

LEMMA AllTables == ScanTables = Children \cup {"scan_jobs", "chat_messages"}
BY DEF ScanTables, Children, References

LEMMA DataInitInv == DataInit => DataInv
<1>. SUFFICES ASSUME DataInit PROVE DataInv
  OBVIOUS
<1>1. /\ view = disk
      /\ disk = [rows |-> Stored, ended |-> {s \in Scans : "scan_jobs" \in Stored[s]},
                 people |-> [u \in Users |-> UserTables]]
  BY DEF DataInit
<1>2. RowTypes
  BY <1>1, DeletionAssumption DEF RowTypes, Tables
<1>3. ControlTypes
  <2>1. \A d \in Deletions : 1 \in 1 .. Len(Statements(d))
    BY DEF Statements, PurgeOrder, DeleteOrder, RetentionOrder
  <2>. QED
    BY <2>1 DEF DataInit, ControlTypes, Deletions, Working, Doings
<1>4. Listed /\ PastRows /\ PastName
  BY DEF DataInit, Listed, PastRows, PastName, Working, Deletions
<1>5. Sound(disk)
  BY <1>1, DeletionAssumption
     DEF DataInit, Sound, KeyKept, OfOld, Asked, RowsGone, NameGone, Old, Children, UserTables,
         Deletions
<1>. QED
  BY <1>1, <1>2, <1>3, <1>4, <1>5 DEF DataInv

-----------------------------------------------------------------------------
(* What the steps leave alone: an old scan stays old, a purge that was     *)
(* sent stays what it is, and so do other requests.                        *)
Onward ==
    /\ \A s \in Scans : Old(s) => Old(s)'
    /\ \A d \in PurgeReqs : /\ target'[d] = target[d] /\ ids'[d] = ids[d]
                            /\ fate'[d] = "idle" <=> fate[d] = "idle"
    /\ \A q : Sent(q) => Sent(q)'

LEMMA SameSent ==
    ASSUME UNCHANGED <<request, does>>
    PROVE  \A q : Sent(q)' <=> Sent(q)
BY DEF Sent

LEMMA DiskKept ==
    ASSUME DataInv, Onward, disk' = disk \/ disk' = view
    PROVE  Sound(disk)'
<1>1. KeyKept(disk)'
  BY DEF DataInv, Sound, KeyKept
<1>2. OfOld(disk)'
  BY DEF DataInv, Sound, OfOld, Onward
<1>3. Asked(disk)'
  BY DEF DataInv, Sound, Asked, Onward
<1>4. RowsGone(disk)'
  BY DEF DataInv, Sound, RowsGone, Onward, Afterwards
<1>5. NameGone(disk)'
  BY DEF DataInv, Sound, NameGone, Onward
<1>. QED
  BY <1>1, <1>2, <1>3, <1>4, <1>5 DEF Sound

LEMMA ViewKept ==
    ASSUME DataInv, Onward, view' = disk \/ view' = view
    PROVE  Sound(view)'
<1>1. KeyKept(view)'
  BY DEF DataInv, Sound, KeyKept
<1>2. OfOld(view)'
  BY DEF DataInv, Sound, OfOld, Onward
<1>3. Asked(view)'
  BY DEF DataInv, Sound, Asked, Onward
<1>4. RowsGone(view)'
  BY DEF DataInv, Sound, RowsGone, Onward, Afterwards
<1>5. NameGone(view)'
  BY DEF DataInv, Sound, NameGone, Onward
<1>. QED
  BY <1>1, <1>2, <1>3, <1>4, <1>5 DEF Sound

\* Rows are deleted.
LEMMA ViewShrinks ==
    ASSUME DataInv, Onward, KeyKept(view)',
           \A s \in Scans : view'.rows[s] \subseteq view.rows[s],
           \A u \in Users : view'.people[u] = view.people[u]
    PROVE  Sound(view)'
<1>1. OfOld(view)'
  BY DEF DataInv, Sound, OfOld, Onward
<1>2. Asked(view)'
  BY DEF DataInv, Sound, Asked, Onward
<1>3. RowsGone(view)'
  <2>1. \A d \in PurgeReqs : d \in Deletions
    BY DEF Deletions
  <2>2. \A d \in PurgeReqs : ids[d] \subseteq Scans /\ (fate[d] # "idle" => target[d] \in Users)
    BY <2>1 DEF DataInv, ControlTypes
  <2>. QED
    BY <2>2 DEF DataInv, Sound, RowsGone, Onward, Afterwards
<1>4. NameGone(view)'
  BY DEF DataInv, Sound, NameGone, Onward
<1>. QED
  BY <1>1, <1>2, <1>3, <1>4 DEF Sound

(* Purges that do not advance lose nothing when rows are only deleted and  *)
(* names only come from users who send something.                          *)
LEMMA PastKept ==
    ASSUME DataInv, Onward,
           \A d \in PurgeReqs : Working(d)' => Working(d) /\ step'[d] = step[d],
           \A s \in Scans : view'.rows[s] \subseteq view.rows[s],
           \A u \in Users : "audit_logs" \in view'.people[u] =>
               "audit_logs" \in view.people[u] \/ Sent(<<"audit", u>>)'
    PROVE  PastRows' /\ PastName'
<1>1. \A d \in PurgeReqs : ids[d] \subseteq Scans /\ (Working(d) => target[d] \in Users)
  BY DEF DataInv, ControlTypes, Deletions, Working
<1>2. PastRows'
  BY <1>1 DEF DataInv, PastRows, Onward
<1>3. PastName'
  BY <1>1 DEF DataInv, PastName, Onward
<1>. QED
  BY <1>2, <1>3

-----------------------------------------------------------------------------
(* A DELETE of one table.  When it is of scan_jobs no row refers to one.   *)
LEMMA DeleteFromStep ==
    ASSUME DataInv, NEW d \in Deletions, DeleteFrom(d)
    PROVE  DataInv'
<1>. DEFINE t == Current(d)
<1>1. PICK S \in Batches(d) :
        /\ ~IsReferenced(S, t)
        /\ view' = Without(S, t)
        /\ IF left[d] \subseteq S
           THEN Advance(d)
           ELSE /\ left' = [left EXCEPT ![d] = @ \ S]
                /\ UNCHANGED <<fate, step, target, ids>>
  BY DEF DeleteFrom, Write
<1>2. /\ t \in ScanTables /\ Working(d)
      /\ UNCHANGED <<disk, server, task, written, request, does, fate, target, ids>>
  BY <1>1 DEF DeleteFrom, Write, writerVars, Advance
<1>3. /\ RowTypes' /\ view'.people = view.people
      /\ \A s \in Scans : view'.rows[s] = view.rows[s] \ (IF s \in S THEN {t} ELSE {})
  BY <1>1, <1>2 DEF DataInv, RowTypes, Tables, Without
<1>4. /\ left' \in [Deletions -> SUBSET Scans]
      /\ step' \in [Deletions -> Nat]
      /\ \A e \in Deletions \ {d} : step'[e] = step[e]
      /\ step'[d] = step[d] \/ step'[d] = step[d] + 1
  <2>1. /\ left \in [Deletions -> SUBSET Scans] /\ ids \in [Deletions -> SUBSET Scans]
        /\ step \in [Deletions -> Nat]
    BY DEF DataInv, ControlTypes
  <2>2. CASE left[d] \subseteq S
    BY <1>1, <2>1, <2>2 DEF Advance
  <2>3. CASE ~(left[d] \subseteq S)
    BY <1>1, <2>1, <2>3
  <2>. QED
    BY <2>2, <2>3
<1>5. ControlTypes'
  <2>1. \A e \in Deletions : step'[e] \in 1 .. Len(Statements(e))
    BY <1>2, <1>4, StatementOf DEF DataInv, ControlTypes
  <2>2. \A e \in PurgeReqs : IF fate[e] = "idle" THEN step'[e] = 1 ELSE TRUE
    BY <1>2, <1>4 DEF DataInv, ControlTypes, Working, Deletions
  <2>. QED
    BY <1>2, <1>4, <2>1, <2>2 DEF DataInv, ControlTypes, Working
<1>6. Onward /\ Listed'
  BY <1>2, SameSent DEF DataInv, Onward, Listed, Old
<1>7. KeyKept(view)'
  <2>. SUFFICES ASSUME NEW s \in Scans, view'.rows[s] \cap Children # {}
                PROVE  "scan_jobs" \in view'.rows[s]
    BY DEF KeyKept
  <2>1. view.rows[s] \cap Children # {} /\ "scan_jobs" \in view.rows[s]
    BY <1>3 DEF DataInv, Sound, KeyKept
  <2>2. t = "scan_jobs" => s \notin S
    BY <1>1, <2>1 DEF IsReferenced, Children
  <2>. QED
    BY <1>3, <2>1, <2>2
<1>8. Sound(disk)' /\ Sound(view)'
  <2>1. Sound(disk)'
    BY <1>2, <1>6, DiskKept
  <2>2. Sound(view)'
    BY <1>3, <1>6, <1>7, ViewShrinks
  <2>. QED
    BY <2>1, <2>2
<1>9. \A e \in PurgeReqs : Working(e)' => Working(e)
  BY <1>2 DEF Working
<1>10. ASSUME NEW e \in PurgeReqs, Working(e)', NEW s \in ids'[e]
       PROVE  /\ step'[e] > 6 => view'.rows[s] \cap (Children \cup {"scan_jobs"}) = {}
              /\ step'[e] > 7 => "chat_messages" \notin view'.rows[s] \/ Sent(<<"message", s>>)'
  <2>1. /\ e \in Deletions /\ s \in Scans /\ s \in ids[e] /\ Working(e)
        /\ view'.rows[s] \subseteq view.rows[s]
    BY <1>2, <1>3, <1>9, <1>10 DEF DataInv, ControlTypes, Deletions
  <2>2. CASE step'[e] = step[e]
    BY <1>6, <2>1, <2>2 DEF DataInv, PastRows, Onward
  <2>3. CASE step'[e] # step[e]
    <3>1. e = d /\ step'[d] = step[d] + 1
      BY <1>4, <2>1, <2>3
    <3>2. /\ step[d] \in 1 .. 7
          /\ t = "scan_jobs" <=> step[d] = 6
          /\ t = "chat_messages" <=> step[d] = 7
      BY <1>2, <1>10, <3>1, PurgeStatements DEF DataInv
    <3>3. step[d] > 5 => S = Scans
      BY <1>1, <1>10, <3>1, <3>2 DEF Batches
    <3>4. step[d] > 5 => t \notin view'.rows[s]
      BY <1>3, <2>1, <3>3
    <3>5. "scan_jobs" \notin view'.rows[s] => view'.rows[s] \cap (Children \cup {"scan_jobs"}) = {}
      BY <1>7, <2>1 DEF KeyKept
    <3>6. step[d] > 6 => view.rows[s] \cap (Children \cup {"scan_jobs"}) = {}
      BY <2>1, <3>1 DEF DataInv, PastRows
    <3>. QED
      BY <2>1, <3>1, <3>2, <3>4, <3>5, <3>6
  <2>. QED
    BY <2>2, <2>3
<1>11. PastName'
  <2>. SUFFICES ASSUME NEW e \in PurgeReqs, Working(e)', step'[e] > 9,
                       ~Sent(<<"audit", target[e]>>)', ~Sent(<<"dismiss", target[e]>>)'
                PROVE  "audit_logs" \notin view'.people[target'[e]]
    BY <1>2 DEF PastName
  <2>1. step[e] > 9
    BY <1>2, <1>4, PurgeStatements DEF DataInv
  <2>2. ~Sent(<<"audit", target[e]>>) /\ ~Sent(<<"dismiss", target[e]>>)
    BY <1>6 DEF Onward
  <2>. QED
    BY <1>2, <1>3, <1>9, <2>1, <2>2 DEF DataInv, PastName
<1>. QED
  BY <1>3, <1>5, <1>6, <1>8, <1>10, <1>11 DEF DataInv, PastRows

(* A statement about the user.                                             *)
LEMMA DropPersonStep ==
    ASSUME DataInv, NEW d \in Deletions, DropPerson(d)
    PROVE  DataInv'
<1>. DEFINE t == Current(d)
            u == target[d]
<1>1. /\ t \in UserTables /\ Working(d) /\ Advance(d)
      /\ view' = IF t = "audit_logs" /\ "users" \notin view.people[u]
                 THEN view
                 ELSE [view EXCEPT !.people[u] = @ \ {t}]
      /\ UNCHANGED <<disk, server, task, written, request, does>>
  BY DEF DropPerson, Write, writerVars
<1>2. /\ d \in PurgeReqs /\ u \in Users
      /\ t = "audit_logs" <=> step[d] = 9
      /\ t = "users" <=> step[d] = 10
      /\ step[d] \in 8 .. 10
  BY <1>1, StatementOf, PurgeStatements DEF DataInv, ControlTypes, Working
<1>3. /\ step' = [step EXCEPT ![d] = @ + 1] /\ left' = [left EXCEPT ![d] = ids[d]]
      /\ UNCHANGED <<fate, target, ids>>
  BY <1>1 DEF Advance
<1>4. /\ RowTypes' /\ view'.rows = view.rows
      /\ \A v \in Users \ {u} : view'.people[v] = view.people[v]
      /\ IF t = "audit_logs" /\ "users" \notin view.people[u]
         THEN view'.people[u] = view.people[u]
         ELSE view'.people[u] = view.people[u] \ {t}
  BY <1>1, <1>2 DEF DataInv, RowTypes, Tables
<1>5. /\ step' \in [Deletions -> Nat] /\ step'[d] = step[d] + 1
      /\ \A e \in Deletions \ {d} : step'[e] = step[e]
      /\ left' \in [Deletions -> SUBSET Scans]
  BY <1>3 DEF DataInv, ControlTypes
<1>6. ControlTypes'
  <2>1. \A e \in Deletions : step'[e] \in 1 .. Len(Statements(e))
    BY <1>1, <1>5, StatementOf DEF DataInv, ControlTypes
  <2>2. \A e \in PurgeReqs : IF fate[e] = "idle" THEN step'[e] = 1 ELSE TRUE
    BY <1>1, <1>5 DEF DataInv, ControlTypes, Working, Deletions
  <2>. QED
    BY <1>1, <1>3, <1>5, <2>1, <2>2 DEF DataInv, ControlTypes, Working
<1>7. Onward /\ Listed' /\ \A q : Sent(q)' <=> Sent(q)
  BY <1>1, <1>3, SameSent DEF DataInv, Onward, Listed, Old
<1>8. Sound(disk)'
  BY <1>1, <1>7, DiskKept
<1>9. KeyKept(view)' /\ OfOld(view)'
  BY <1>4, <1>7 DEF DataInv, Sound, KeyKept, OfOld, Onward
<1>10. \A v \in Users : "users" \in view'.people[v] <=> "users" \in view.people[v] /\ ~(v = u /\ t = "users")
  BY <1>4
<1>11. Asked(view)'
  BY <1>1, <1>2, <1>3, <1>7, <1>10 DEF DataInv, Sound, Asked, Working
<1>12. RowsGone(view)'
  <2>. SUFFICES ASSUME NEW e \in PurgeReqs, fate'[e] # "idle",
                       "users" \notin view'.people[target'[e]],
                       ~Sent(<<"dismiss", target[e]>>),
                       \A f \in PurgeReqs \ {e} : target'[f] # target'[e],
                       NEW s \in ids'[e]
                PROVE  view'.rows[s] \subseteq Afterwards(s)'
    BY <1>3, <1>7 DEF RowsGone
  <2>1. e \in Deletions /\ target[e] \in Users /\ s \in ids[e] /\ s \in Scans
    BY <1>3 DEF DataInv, ControlTypes, Deletions
  <2>. Afterwards(s)' = Afterwards(s)
    BY <1>7 DEF Afterwards
  <2>2. CASE "users" \notin view.people[target[e]]
    BY <1>3, <1>4, <2>1, <2>2 DEF DataInv, Sound, RowsGone
  <2>3. CASE "users" \in view.people[target[e]]
    <3>1. t = "users" /\ target[e] = u
      BY <1>3, <1>10, <2>1, <2>3
    <3>2. e = d /\ step[d] = 10
      BY <1>2, <1>3, <3>1
    <3>3. /\ view.rows[s] \subseteq ScanTables
          /\ view.rows[s] \cap (Children \cup {"scan_jobs"}) = {}
          /\ "chat_messages" \notin view.rows[s] \/ Sent(<<"message", s>>)
      BY <1>1, <2>1, <3>2 DEF DataInv, PastRows, RowTypes, Tables
    <3>. QED
      BY <1>4, <3>3, AllTables DEF Afterwards
  <2>. QED
    BY <2>2, <2>3
<1>13. \A v \in Users : "audit_logs" \in view'.people[v] => "audit_logs" \in view.people[v]
  BY <1>4
<1>14. NameGone(view)'
  <2>. SUFFICES ASSUME NEW v \in Users, "users" \notin view'.people[v],
                       ~Sent(<<"audit", v>>), ~Sent(<<"dismiss", v>>)
                PROVE  "audit_logs" \notin view'.people[v]
    BY <1>7 DEF NameGone
  <2>1. CASE "users" \notin view.people[v]
    BY <1>13, <2>1 DEF DataInv, Sound, NameGone
  <2>2. CASE "users" \in view.people[v]
    <3>1. v = u /\ step[d] = 10
      BY <1>2, <1>10, <2>2
    <3>. QED
      BY <1>1, <1>2, <1>13, <3>1 DEF DataInv, PastName
  <2>. QED
    BY <2>1, <2>2
<1>15. PastRows'
  <2>. SUFFICES ASSUME NEW e \in PurgeReqs, Working(e)', NEW s \in ids'[e]
                PROVE  /\ step'[e] > 6 => view'.rows[s] \cap (Children \cup {"scan_jobs"}) = {}
                       /\ step'[e] > 7 => "chat_messages" \notin view'.rows[s] \/ Sent(<<"message", s>>)'
    BY DEF PastRows
  <2>1. e \in Deletions /\ Working(e) /\ s \in ids[e] /\ step[e] \in Nat
    BY <1>3 DEF Working, Deletions, DataInv, ControlTypes
  <2>2. step'[e] = step[e] \/ step[e] > 7
    BY <1>2, <1>5, <2>1
  <2>. QED
    BY <1>4, <1>7, <2>1, <2>2 DEF DataInv, PastRows
<1>16. PastName'
  <2>. SUFFICES ASSUME NEW e \in PurgeReqs, Working(e)', step'[e] > 9,
                       ~Sent(<<"audit", target[e]>>), ~Sent(<<"dismiss", target[e]>>)
                PROVE  "audit_logs" \notin view'.people[target'[e]]
    BY <1>3, <1>7 DEF PastName
  <2>1. Working(e) /\ target'[e] = target[e] /\ target[e] \in Users
    BY <1>1, <1>3 DEF Working, DataInv, ControlTypes
  <2>2. CASE step[e] > 9
    BY <1>13, <2>1, <2>2 DEF DataInv, PastName
  <2>3. CASE ~(step[e] > 9)
    <3>1. e = d /\ step[d] = 9
      BY <1>2, <1>5, <2>3, PurgeStatements DEF DataInv
    <3>. QED
      BY <1>2, <1>4, <2>1, <3>1 DEF DataInv, Sound, NameGone
  <2>. QED
    BY <2>2, <2>3
<1>. QED
  BY <1>4, <1>6, <1>7, <1>8, <1>9, <1>11, <1>12, <1>14, <1>15, <1>16 DEF DataInv, Sound

(* The other steps of a deletion.                                          *)
LEMMA OtherDeletionStep ==
    ASSUME DataInv, NEW d \in Deletions,
           DeleteFails(d) \/ SkipTable(d) \/ CommitDeletion(d)
    PROVE  DataInv'
<1>1. /\ UNCHANGED <<server, task, written, request, does, target, ids, view>>
      /\ disk' = disk \/ disk' = view
      /\ Working(d)
      /\ \A q : Sent(q)' <=> Sent(q)
  BY SameSent
     DEF DeleteFails, SkipTable, CommitDeletion, Refuse, Commit, Stop, Advance, writerVars
<1>2. CASE DeleteFails(d) \/ CommitDeletion(d)
  <2>1. PICK how \in {"failed", "done"} : fate' = [fate EXCEPT ![d] = how]
    BY <1>2 DEF DeleteFails, CommitDeletion, Stop
  <2>2. UNCHANGED <<step, left>>
    BY <1>2 DEF DeleteFails, CommitDeletion, Stop
  <2>3. ControlTypes'
    BY <1>1, <2>1, <2>2 DEF DataInv, ControlTypes, Working
  <2>4. Onward /\ Listed' /\ RowTypes'
    <3>1. \A e \in PurgeReqs : fate'[e] = "idle" <=> fate[e] = "idle"
      BY <1>1, <2>1 DEF DataInv, ControlTypes, Working, Deletions
    <3>. QED
      BY <1>1, <3>1 DEF DataInv, Onward, Listed, Old, RowTypes
  <2>5. PastRows' /\ PastName'
    <3>1. \A e \in PurgeReqs : Working(e)' => Working(e) /\ step'[e] = step[e]
      BY <1>1, <2>1, <2>2 DEF DataInv, ControlTypes, Working, Deletions
    <3>. QED
      BY <1>1, <2>4, <3>1, PastKept
  <2>. QED
    BY <1>1, <2>3, <2>4, <2>5, DiskKept, ViewKept DEF DataInv
<1>3. CASE SkipTable(d)
  <2>1. /\ step' = [step EXCEPT ![d] = @ + 1] /\ left' = [left EXCEPT ![d] = ids[d]]
        /\ fate' = fate /\ Current(d) \in ScanTables /\ Batches(d) = {}
    BY <1>3 DEF SkipTable, Advance
  <2>2. /\ step' \in [Deletions -> Nat] /\ step'[d] = step[d] + 1
        /\ \A e \in Deletions \ {d} : step'[e] = step[e]
        /\ left' \in [Deletions -> SUBSET Scans]
    BY <2>1 DEF DataInv, ControlTypes
  <2>3. ControlTypes'
    <3>1. \A e \in Deletions : step'[e] \in 1 .. Len(Statements(e))
      BY <2>1, <2>2, StatementOf DEF DataInv, ControlTypes
    <3>2. \A e \in PurgeReqs : IF fate[e] = "idle" THEN step'[e] = 1 ELSE TRUE
      BY <1>1, <2>2 DEF DataInv, ControlTypes, Working, Deletions
    <3>. QED
      BY <1>1, <2>1, <2>2, <3>1, <3>2 DEF DataInv, ControlTypes, Working
  <2>4. Onward /\ Listed' /\ RowTypes'
    BY <1>1, <2>1 DEF DataInv, Onward, Listed, Old, RowTypes
  <2>5. d \in PurgeReqs => step'[d] \in 1 .. 6
    <3>1. Current(d) \notin {"scan_jobs", "chat_messages"}
      BY <2>1 DEF Batches
    <3>. QED
      BY <2>1, <2>2, <3>1, PurgeStatements DEF DataInv
  <2>6. \A e \in PurgeReqs : Working(e)' => Working(e) /\ (step'[e] = step[e] \/ step'[e] \in 1 .. 6)
    BY <2>1, <2>2, <2>5 DEF Working, Deletions
  <2>7. PastRows'
    <3>. SUFFICES ASSUME NEW e \in PurgeReqs, Working(e)', NEW s \in ids[e]
                  PROVE  /\ step'[e] > 6 => view.rows[s] \cap (Children \cup {"scan_jobs"}) = {}
                         /\ step'[e] > 7 => "chat_messages" \notin view.rows[s] \/ Sent(<<"message", s>>)
      BY <1>1 DEF PastRows
    <3>. QED
      BY <2>6 DEF DataInv, PastRows
  <2>8. PastName'
    BY <1>1, <2>6 DEF DataInv, PastName
  <2>. QED
    BY <1>1, <2>3, <2>4, <2>7, <2>8, DiskKept, ViewKept DEF DataInv
<1>. QED
  BY <1>2, <1>3

(* A request is sent: for a purge the scans are listed.                    *)
LEMMA SendStep ==
    ASSUME DataInv,
           \/ \E d \in DeleteReqs : SendDelete(d)
           \/ \E d \in PurgeReqs : SendPurge(d)
    PROVE  DataInv'
<1>1. CASE \E d \in DeleteReqs : SendDelete(d)
  <2>1. PICK d \in DeleteReqs, s \in view.ended :
            server = "up" /\ fate[d] = "idle" /\ HasRow(s) /\ Begin(d, s, {s})
    BY <1>1 DEF SendDelete, Serving
  <2>2. d \in Deletions /\ d \notin PurgeReqs /\ s \in Scans
    BY <2>1, DeletionAssumption DEF Deletions, DataInv, RowTypes, Tables
  <2>3. /\ fate' = [fate EXCEPT ![d] = "working"] /\ target' = [target EXCEPT ![d] = s]
        /\ ids' = [ids EXCEPT ![d] = {s}] /\ left' = [left EXCEPT ![d] = {s}]
        /\ UNCHANGED <<disk, view, server, step, task, written, request, does>>
        /\ \A q : Sent(q)' <=> Sent(q)
    BY <2>1, SameSent DEF Begin, writerVars
  <2>4. \A e \in PurgeReqs : /\ e \in Deletions /\ fate'[e] = fate[e]
                             /\ target'[e] = target[e] /\ ids'[e] = ids[e]
    BY <2>2, <2>3 DEF Deletions
  <2>5. ControlTypes'
    BY <2>1, <2>2, <2>3, <2>4 DEF DataInv, ControlTypes, Working
  <2>6. Onward /\ RowTypes'
    BY <2>3, <2>4 DEF DataInv, Onward, Old, RowTypes
  <2>7. Listed'
    <3>1. Old(s)
      BY <2>1, <2>2 DEF DataInv, Sound, OfOld, HasRow
    <3>. QED
      BY <2>2, <2>3, <3>1 DEF DataInv, ControlTypes, Listed, Old
  <2>8. PastRows' /\ PastName'
    <3>1. \A e \in PurgeReqs : Working(e)' => Working(e) /\ step'[e] = step[e]
      BY <2>3, <2>4 DEF Working
    <3>. QED
      BY <2>3, <2>6, <3>1, PastKept
  <2>. QED
    BY <2>3, <2>5, <2>6, <2>7, <2>8, DiskKept, ViewKept DEF DataInv
<1>2. CASE \E d \in PurgeReqs : SendPurge(d)
  <2>1. PICK d \in PurgeReqs, u \in Users :
            server = "up" /\ fate[d] = "idle" /\ Begin(d, u, {s \in Scans : HasRow(s)})
    BY <1>2 DEF SendPurge, Serving
  <2>. DEFINE S == {s \in Scans : HasRow(s)}
  <2>2. /\ d \in Deletions /\ step[d] = 1 /\ target[d] = NoTarget /\ u # NoTarget
        /\ \A e \in PurgeReqs : e \in Deletions
    BY <2>1, DeletionAssumption DEF Deletions, DataInv, ControlTypes
  <2>3. /\ fate' = [fate EXCEPT ![d] = "working"] /\ target' = [target EXCEPT ![d] = u]
        /\ ids' = [ids EXCEPT ![d] = S] /\ left' = [left EXCEPT ![d] = S]
        /\ UNCHANGED <<disk, view, server, step, task, written, request, does>>
        /\ \A q : Sent(q)' <=> Sent(q)
    BY <2>1, SameSent DEF Begin, writerVars
  <2>4. /\ fate'[d] = "working" /\ target'[d] = u /\ ids'[d] = S
        /\ \A e \in Deletions \ {d} : /\ fate'[e] = fate[e] /\ target'[e] = target[e]
                                      /\ ids'[e] = ids[e]
    BY <2>2, <2>3 DEF DataInv, ControlTypes
  <2>5. ControlTypes'
    BY <2>1, <2>2, <2>3, <2>4 DEF DataInv, ControlTypes, Working
  <2>6. Listed'
    <3>1. \A s \in S : Old(s)
      BY DEF DataInv, Sound, OfOld, HasRow
    <3>2. \A s : Old(s)' <=> Old(s)
      BY <2>3 DEF Old
    <3>. QED
      BY <2>4, <3>1, <3>2 DEF DataInv, Listed
  <2>7. \A e \in PurgeReqs : fate[e] # "idle" => e # d /\ target[e] # NoTarget
    BY <2>1, <2>2, DeletionAssumption DEF DataInv, ControlTypes
  <2>8. ASSUME NEW T, T = disk \/ T = view
        PROVE  /\ KeyKept(T) /\ NameGone(T)
               /\ \A s \in Scans : "scan_jobs" \in T.rows[s] => Old(s)
               /\ \A v \in Users : "users" \notin T.people[v] =>
                      \/ \E e \in PurgeReqs : fate'[e] # "idle" /\ target'[e] = v /\ e # d
                      \/ Sent(<<"dismiss", v>>)
               /\ \A e \in PurgeReqs :
                      /\ fate'[e] # "idle"
                      /\ "users" \notin T.people[target'[e]]
                      /\ ~Sent(<<"dismiss", target'[e]>>)
                      /\ \A f \in PurgeReqs \ {e} : target'[f] # target'[e]
                      => \A s \in ids'[e] : T.rows[s] \subseteq Afterwards(s)
    <3>1. KeyKept(T) /\ NameGone(T) /\ OfOld(T) /\ Asked(T) /\ RowsGone(T)
      BY <2>8 DEF DataInv, Sound
    <3>2. \A v \in Users : "users" \notin T.people[v] =>
              \/ \E e \in PurgeReqs : fate'[e] # "idle" /\ target'[e] = v /\ e # d
              \/ Sent(<<"dismiss", v>>)
      BY <2>2, <2>4, <2>7, <3>1 DEF Asked
    <3>3. ASSUME NEW e \in PurgeReqs, fate'[e] # "idle",
                 "users" \notin T.people[target'[e]],
                 ~Sent(<<"dismiss", target'[e]>>),
                 \A f \in PurgeReqs \ {e} : target'[f] # target'[e],
                 NEW s \in ids'[e]
          PROVE  T.rows[s] \subseteq Afterwards(s)
      <4>1. e # d
        BY <2>4, <3>2, <3>3
      <4>2. /\ fate[e] # "idle" /\ target'[e] = target[e] /\ s \in ids[e]
            /\ \A f \in PurgeReqs \ {e} : target[f] # target[e]
        BY <2>2, <2>4, <2>7, <3>3, <4>1
      <4>. QED
        BY <3>1, <3>3, <4>2 DEF RowsGone
    <3>. QED
      BY <3>1, <3>2, <3>3 DEF OfOld
  <2>9. Sound(disk)' /\ Sound(view)'
    <3>1. \A s : Old(s)' <=> Old(s)
      BY <2>3 DEF Old
    <3>2. /\ disk' = disk /\ view' = view /\ \A q : Sent(q)' <=> Sent(q)
          /\ \A s : Afterwards(s)' = Afterwards(s)
      BY <2>3 DEF Afterwards
    <3>3. KeyKept(disk)' /\ KeyKept(view)' /\ NameGone(disk)' /\ NameGone(view)'
      BY <3>2 DEF DataInv, Sound, KeyKept, NameGone
    <3>4. OfOld(disk)' /\ OfOld(view)'
      BY <3>1, <3>2 DEF DataInv, Sound, OfOld
    <3>5. Asked(disk)' /\ Asked(view)'
      BY <2>8, <3>2 DEF Asked
    <3>6. RowsGone(disk)' /\ RowsGone(view)'
      BY <2>8, <3>2 DEF RowsGone
    <3>. QED
      BY <3>3, <3>4, <3>5, <3>6 DEF Sound
  <2>10. \A e \in PurgeReqs : Working(e)' =>
             step'[e] = 1 \/ (Working(e) /\ step'[e] = step[e] /\ ids'[e] = ids[e] /\ target'[e] = target[e])
    BY <2>2, <2>3, <2>4 DEF Working
  <2>11. PastRows' /\ PastName'
    <3>1. ASSUME NEW e \in PurgeReqs, Working(e)', step'[e] > 6
          PROVE  /\ Working(e) /\ step'[e] = step[e]
                 /\ ids'[e] = ids[e] /\ target'[e] = target[e]
      BY <2>10, <3>1
    <3>2. \A e \in PurgeReqs : step'[e] \in 1 .. 11
      BY <2>3, PurgeStatements DEF DataInv
    <3>3. PastRows'
      <4>. SUFFICES ASSUME NEW e \in PurgeReqs, Working(e)', NEW s \in ids'[e]
                    PROVE  /\ step'[e] > 6 => view'.rows[s] \cap (Children \cup {"scan_jobs"}) = {}
                           /\ step'[e] > 7 => "chat_messages" \notin view'.rows[s] \/ Sent(<<"message", s>>)'
        BY DEF PastRows
      <4>1. CASE step'[e] > 6
        BY <2>3, <3>1, <4>1 DEF DataInv, PastRows
      <4>2. CASE ~(step'[e] > 6)
        BY <3>2, <4>2
      <4>. QED
        BY <4>1, <4>2
    <3>4. PastName'
      <4>. SUFFICES ASSUME NEW e \in PurgeReqs, Working(e)', step'[e] > 9,
                           ~Sent(<<"audit", target'[e]>>), ~Sent(<<"dismiss", target'[e]>>)
                    PROVE  "audit_logs" \notin view'.people[target'[e]]
        BY <2>3 DEF PastName
      <4>1. step'[e] > 6
        BY <3>2
      <4>. QED
        BY <2>3, <3>1, <4>1 DEF DataInv, PastName
    <3>. QED
      BY <3>3, <3>4
  <2>. QED
    BY <2>3, <2>5, <2>6, <2>9, <2>11 DEF DataInv, RowTypes
<1>. QED
  BY <1>1, <1>2

(* The task of a scan: it inserts rows for an old scan, or begins one.  A  *)
(* row after its first one needs the scan_jobs row.                        *)
LEMMA InsertStep ==
    ASSUME DataInv, NEW s \in Scans, InsertRow(s)
    PROVE  DataInv'
<1>. DEFINE t == Written[written[s] + 1]
<1>1. /\ task[s] = "insert" /\ written[s] < Len(Written)
      /\ UNCHANGED <<disk, server, fate, step, target, ids, left, written, request, does>>
      /\ \A q : Sent(q)' <=> Sent(q)
  BY SameSent DEF InsertRow, Write, Refuse, deletionVars
<1>2. written[s] \in Nat /\ t \in ScanTables
  BY <1>1, DeletionAssumption DEF DataInv, ControlTypes
<1>3. t = "scan_jobs" \/ t \in Children
  <2>1. CASE written[s] = 0
    BY <2>1, DeletionAssumption
  <2>2. CASE written[s] > 0
    <3>1. written[s] + 1 \in 2 .. Len(Written)
      BY <1>1, <1>2, <2>2, DeletionAssumption
    <3>. QED
      BY <3>1, DeletionAssumption DEF Children
  <2>. QED
    BY <1>2, <2>1, <2>2
<1>4. Old(s) => t \in Children
  <2>1. ASSUME Old(s) PROVE written[s] + 1 \in 2 .. Len(Written)
    BY <1>1, <1>2, <2>1, DeletionAssumption DEF Old
  <2>. QED
    BY <2>1, DeletionAssumption DEF Children
<1>5. PICK next \in {"commit", "end"} : task' = [task EXCEPT ![s] = next]
  BY DEF InsertRow
<1>6. /\ task'[s] = next /\ \A r \in Scans \ {s} : task'[r] = task[r]
      /\ ControlTypes'
  BY <1>1, <1>5 DEF DataInv, ControlTypes, Working
<1>7. Onward /\ Listed' /\ Old(s)'
  BY <1>1, <1>6 DEF DataInv, ControlTypes, Onward, Listed, Old
<1>8. CASE view' = view
  <2>1. PastRows' /\ PastName'
    <3>1. \A e \in PurgeReqs : Working(e)' => Working(e) /\ step'[e] = step[e]
      BY <1>1 DEF Working
    <3>. QED
      BY <1>7, <1>8, <3>1, PastKept
  <2>. QED
    BY <1>1, <1>6, <1>7, <1>8, <2>1, DiskKept, ViewKept DEF DataInv, RowTypes
<1>9. CASE Parents(t) \subseteq view.rows[s] /\ view' = [view EXCEPT !.rows[s] = @ \cup {t}]
  <2>1. /\ RowTypes' /\ view'.people = view.people
        /\ view'.rows[s] = view.rows[s] \cup {t}
        /\ \A r \in Scans \ {s} : view'.rows[r] = view.rows[r]
    BY <1>1, <1>2, <1>9 DEF DataInv, RowTypes, Tables
  <2>2. t \in Children => "scan_jobs" \in view.rows[s]
    BY <1>9 DEF Parents, Children, ScanTables
  <2>3. KeyKept(view)'
    BY <1>3, <2>1, <2>2 DEF DataInv, Sound, KeyKept
  <2>4. OfOld(view)'
    BY <1>7, <2>1 DEF DataInv, Sound, OfOld, Onward
  <2>5. Asked(view)' /\ NameGone(view)'
    BY <1>1, <2>1 DEF DataInv, Sound, Asked, NameGone
  <2>6. RowsGone(view)'
    <3>. SUFFICES ASSUME NEW d \in PurgeReqs, fate'[d] # "idle",
                         "users" \notin view'.people[target'[d]],
                         ~Sent(<<"dismiss", target[d]>>),
                         \A e \in PurgeReqs \ {d} : target'[e] # target'[d],
                         NEW r \in ids'[d]
                  PROVE  view'.rows[r] \subseteq Afterwards(r)'
      BY <1>1 DEF RowsGone
    <3>. Afterwards(r)' = Afterwards(r)
      BY <1>1 DEF Afterwards
    <3>1. d \in Deletions /\ r \in ids[d] /\ r \in Scans /\ view.rows[r] \subseteq Afterwards(r)
      BY <1>1, <2>1 DEF DataInv, Sound, RowsGone, ControlTypes, Deletions
    <3>2. r # s
      BY <1>4, <2>2, <3>1 DEF DataInv, Listed, Afterwards
    <3>. QED
      BY <2>1, <3>1, <3>2
  <2>7. PastRows'
    <3>. SUFFICES ASSUME NEW d \in PurgeReqs, Working(d)', NEW r \in ids'[d]
                  PROVE  /\ step'[d] > 6 => view'.rows[r] \cap (Children \cup {"scan_jobs"}) = {}
                         /\ step'[d] > 7 => "chat_messages" \notin view'.rows[r] \/ Sent(<<"message", r>>)'
      BY DEF PastRows
    <3>1. /\ d \in Deletions /\ r \in ids[d] /\ r \in Scans /\ Working(d) /\ step'[d] = step[d]
          /\ step[d] \in Nat
      BY <1>1 DEF Working, DataInv, ControlTypes, Deletions
    <3>2. CASE r # s
      BY <1>1, <2>1, <3>1, <3>2 DEF DataInv, PastRows
    <3>3. CASE r = s
      <4>1. "scan_jobs" \in view.rows[s]
        BY <1>4, <2>2, <3>1, <3>3 DEF DataInv, Listed
      <4>2. ~(step[d] > 6)
        BY <3>1, <3>3, <4>1 DEF DataInv, PastRows
      <4>. QED
        BY <3>1, <4>2
    <3>. QED
      BY <3>2, <3>3
  <2>8. PastName'
    BY <1>1, <2>1 DEF DataInv, PastName, Working
  <2>. QED
    BY <1>1, <1>6, <1>7, <2>1, <2>3, <2>4, <2>5, <2>6, <2>7, <2>8, DiskKept DEF DataInv, Sound
<1>. QED
  BY <1>8, <1>9 DEF InsertRow, Write, Refuse

LEMMA WriterStepInv ==
    ASSUME DataInv, NEW s \in Scans,
           BeginScan(s) \/ CommitRow(s) \/ EndScan(s) \/ CommitEnd(s)
    PROVE  DataInv'
<1>1. /\ UNCHANGED <<server, fate, step, target, ids, left, request, does>>
      /\ disk' = disk \/ disk' = view
      /\ \A q : Sent(q)' <=> Sent(q)
  BY SameSent DEF BeginScan, CommitRow, EndScan, CommitEnd, Write, Commit, deletionVars
<1>2. /\ view'.rows = view.rows /\ view'.people = view.people /\ RowTypes'
  BY <1>1 DEF BeginScan, CommitRow, EndScan, CommitEnd, Write, Commit, DataInv, RowTypes, Tables
<1>3. /\ task' \in [Scans -> {"idle", "insert", "commit", "end", "last_commit", "done", "lost"}]
      /\ written' \in [Scans -> Nat]
  <2>1. CASE BeginScan(s)
    BY <2>1 DEF BeginScan, DataInv, ControlTypes
  <2>2. CASE CommitRow(s)
    <3>1. /\ written' = [written EXCEPT ![s] = @ + 1]
          /\ task' = [task EXCEPT ![s] = IF written'[s] = Len(Written) THEN "end" ELSE "insert"]
      BY <2>2 DEF CommitRow
    <3>. QED
      BY <3>1 DEF DataInv, ControlTypes
  <2>3. CASE EndScan(s) \/ CommitEnd(s)
    BY <2>3 DEF EndScan, CommitEnd, DataInv, ControlTypes
  <2>. QED
    BY <2>1, <2>2, <2>3
<1>4. ControlTypes'
  BY <1>1, <1>3 DEF DataInv, ControlTypes, Working
<1>5. \A r \in Scans : Old(r) => Old(r)'
  <2>1. CASE BeginScan(s)
    BY <2>1 DEF BeginScan, Old, DataInv, ControlTypes
  <2>2. CASE CommitRow(s)
    BY <2>2 DEF CommitRow, Old, DataInv, ControlTypes
  <2>3. CASE EndScan(s) \/ CommitEnd(s)
    BY <2>3 DEF EndScan, CommitEnd, Old, DataInv, ControlTypes
  <2>. QED
    BY <2>1, <2>2, <2>3
<1>6. Onward
  BY <1>1, <1>5 DEF Onward
<1>7. Listed'
  BY <1>1, <1>5 DEF DataInv, Listed, ControlTypes
<1>8. KeyKept(view)'
  BY <1>2 DEF DataInv, Sound, KeyKept
<1>9. PastRows' /\ PastName'
  <2>1. \A e \in PurgeReqs : Working(e)' => Working(e) /\ step'[e] = step[e]
    BY <1>1 DEF Working
  <2>. QED
    BY <1>2, <1>6, <2>1, PastKept
<1>. QED
  BY <1>1, <1>2, <1>4, <1>6, <1>7, <1>8, <1>9, DiskKept, ViewShrinks DEF DataInv

\* The statement of another request: what it may do to the tables.
Change(q, tables) ==
    /\ tables \in Tables
    /\ \A s \in Scans :
          /\ "scan_jobs" \in tables.rows[s] <=> "scan_jobs" \in view.rows[s]
          /\ \A t \in tables.rows[s] : \/ t \in view.rows[s]
                                       \/ t = "chat_messages" /\ q = <<"message", s>> /\ Shown(s)
                                       \/ t = "findings" /\ HasRow(s)
          /\ \A t \in view.rows[s] : \/ t \in tables.rows[s]
                                     \/ t = "chat_messages" /\ q = <<"clear", NoTarget>>
                                     \/ t = "findings" /\ q = <<"drop_finding", s>>
    /\ \A u \in Users :
          /\ "users" \in tables.people[u] => "users" \in view.people[u]
          /\ "users" \in view.people[u] => "users" \in tables.people[u] \/ q = <<"dismiss", u>>
          /\ "audit_logs" \in tables.people[u] =>
                "audit_logs" \in view.people[u] \/ q = <<"audit", u>>

LEMMA RequestChanges ==
    ASSUME DataInv, NEW r \in Requests, RequestStep(r)
    PROVE  \/ CommitRequest(r)
           \/ \E s \in Scans : FindingRefused(r, s)
           \/ \E q \in Doings : \E tables : Perform(r, q, tables) /\ Change(q, tables)
<1>. USE DEF DataInv, RowTypes, Tables, Doings, Change
<1>1. ASSUME NEW u \in Users, Record(r, u)
      PROVE  \E q \in Doings : \E tables : Perform(r, q, tables) /\ Change(q, tables)
  <2>. DEFINE q == <<"audit", u>>
              tables == [view EXCEPT !.people[u] = @ \cup {"audit_logs"}]
  <2>1. Change(q, tables)
    BY DEF UserTables
  <2>2. q \in Doings /\ Perform(r, q, tables)
    BY <1>1 DEF Record
  <2>. QED
    BY <2>1, <2>2
<1>2. ASSUME NEW u \in Users, Dismiss(r, u)
      PROVE  \E q \in Doings : \E tables : Perform(r, q, tables) /\ Change(q, tables)
  <2>. DEFINE q == <<"dismiss", u>>
              tables == [view EXCEPT !.people[u] = @ \ {"users"}]
  <2>1. Change(q, tables)
    OBVIOUS
  <2>2. q \in Doings /\ Perform(r, q, tables)
    BY <1>2 DEF Dismiss
  <2>. QED
    BY <2>1, <2>2
<1>3. ASSUME NEW s \in Scans, SaveMessage(r, s)
      PROVE  \E q \in Doings : \E tables : Perform(r, q, tables) /\ Change(q, tables)
  <2>. DEFINE q == <<"message", s>>
              tables == With(s, "chat_messages")
  <2>1. Change(q, tables)
    BY <1>3 DEF ScanTables, With, SaveMessage
  <2>2. q \in Doings /\ Perform(r, q, tables)
    BY <1>3 DEF SaveMessage
  <2>. QED
    BY <2>1, <2>2
<1>4. ASSUME NEW s \in Scans, SaveFinding(r, s)
      PROVE  \E q \in Doings : \E tables : Perform(r, q, tables) /\ Change(q, tables)
  <2>. DEFINE q == <<"finding", s>>
              tables == With(s, "findings")
  <2>1. Change(q, tables)
    BY <1>4 DEF ScanTables, With, SaveFinding
  <2>2. q \in Doings /\ Perform(r, q, tables)
    BY <1>4 DEF SaveFinding
  <2>. QED
    BY <2>1, <2>2
<1>5. ASSUME NEW s \in Scans, DropFinding(r, s)
      PROVE  \E q \in Doings : \E tables : Perform(r, q, tables) /\ Change(q, tables)
  <2>. DEFINE q == <<"drop_finding", s>>
  <2>1. PICK tables \in {view, Without({s}, "findings")} : Perform(r, q, tables)
    BY <1>5 DEF DropFinding
  <2>2. Change(q, tables)
    BY <2>1 DEF Without
  <2>. QED
    BY <2>1, <2>2
<1>6. CASE ClearChat(r)
  <2>. DEFINE q == <<"clear", NoTarget>>
              tables == Without(Scans, "chat_messages")
  <2>1. Change(q, tables)
    BY DEF Without
  <2>2. q \in Doings /\ Perform(r, q, tables)
    BY <1>6 DEF ClearChat
  <2>. QED
    BY <2>1, <2>2
<1>. QED
  BY <1>1, <1>2, <1>3, <1>4, <1>5, <1>6 DEF RequestStep

LEMMA RequestSent ==
    ASSUME ControlTypes, NEW r \in Requests, request[r] = "idle", NEW q \in Doings,
           NEW how \in {"commit", "failed"},
           request' = [request EXCEPT ![r] = how], does' = [does EXCEPT ![r] = q]
    PROVE  /\ Sent(q)' /\ \A p : Sent(p) => Sent(p)'
           /\ request' \in [Requests -> {"idle", "commit", "done", "failed", "lost"}]
           /\ does' \in [Requests -> Doings]
BY DEF ControlTypes, Sent

(* Another request: one that changes tables, one that is refused, its      *)
(* commit.                                                                 *)
LEMMA PerformStep ==
    ASSUME DataInv, NEW r \in Requests, NEW q \in Doings, NEW tables,
           Perform(r, q, tables), Change(q, tables)
    PROVE  DataInv'
<1>1. /\ request[r] = "idle"
      /\ request' = [request EXCEPT ![r] = "commit"] /\ does' = [does EXCEPT ![r] = q]
      /\ UNCHANGED <<disk, server, fate, step, target, ids, left, task, written>>
      /\ view' = tables
  BY DEF Perform, Write, deletionVars
<1>2. /\ Sent(q)' /\ \A p : Sent(p) => Sent(p)'
      /\ request' \in [Requests -> {"idle", "commit", "done", "failed", "lost"}]
      /\ does' \in [Requests -> Doings]
  BY <1>1, RequestSent DEF DataInv
<1>3. RowTypes' /\ ControlTypes'
  BY <1>1, <1>2 DEF DataInv, RowTypes, ControlTypes, Working, Change
<1>4. Onward /\ Listed'
  BY <1>1, <1>2 DEF DataInv, Onward, Listed, Old
<1>5. KeyKept(view)'
  BY <1>1, AllTables DEF DataInv, Sound, KeyKept, Change, HasRow, Children, References
<1>6. OfOld(view)'
  BY <1>1, <1>4 DEF DataInv, Sound, OfOld, Onward, Change
<1>7. Asked(view)'
  BY <1>1, <1>2 DEF DataInv, Sound, Asked, Change
<1>8. RowsGone(view)'
  <2>. SUFFICES ASSUME NEW d \in PurgeReqs, fate[d] # "idle",
                       "users" \notin tables.people[target[d]],
                       ~Sent(<<"dismiss", target[d]>>)',
                       \A e \in PurgeReqs \ {d} : target[e] # target[d],
                       NEW s \in ids[d]
                PROVE  tables.rows[s] \subseteq Afterwards(s)'
    BY <1>1 DEF RowsGone
  <2>1. d \in Deletions /\ target[d] \in Users /\ s \in Scans
    BY DEF DataInv, ControlTypes, Deletions
  <2>2. "users" \notin view.people[target[d]] /\ ~Sent(<<"dismiss", target[d]>>)
    <3>1. ~Sent(<<"dismiss", target[d]>>) /\ q # <<"dismiss", target[d]>>
      BY <1>1, <1>2 DEF Sent
    <3>. QED
      BY <2>1, <3>1 DEF Change
  <2>3. view.rows[s] \subseteq Afterwards(s)
    BY <2>2 DEF DataInv, Sound, RowsGone
  <2>. QED
    BY <1>2, <2>1, <2>3 DEF Afterwards, Change, HasRow
<1>9. NameGone(view)'
  BY <1>1, <1>2 DEF DataInv, Sound, NameGone, Change
<1>10. PastRows'
  <2>. SUFFICES ASSUME NEW d \in PurgeReqs, Working(d), NEW s \in ids[d]
                PROVE  /\ step[d] > 6 => tables.rows[s] \cap (Children \cup {"scan_jobs"}) = {}
                       /\ step[d] > 7 => "chat_messages" \notin tables.rows[s] \/ Sent(<<"message", s>>)'
    BY <1>1 DEF PastRows, Working
  <2>1. d \in Deletions /\ s \in Scans
    BY DEF DataInv, ControlTypes, Deletions
  <2>2. "chat_messages" \notin Children
    BY DEF Children, References
  <2>. QED
    BY <1>2, <2>1, <2>2 DEF DataInv, PastRows, Change, HasRow
<1>11. PastName'
  <2>1. \A d \in PurgeReqs : Working(d) => target[d] \in Users
    BY DEF DataInv, ControlTypes, Working
  <2>. QED
    BY <1>1, <1>2, <2>1 DEF DataInv, PastName, Change, Working
<1>. QED
  BY <1>1, <1>3, <1>4, <1>5, <1>6, <1>7, <1>8, <1>9, <1>10, <1>11, DiskKept DEF DataInv, Sound

LEMMA RequestStepInv ==
    ASSUME DataInv, NEW r \in Requests, RequestStep(r)
    PROVE  DataInv'
<1>1. ASSUME CommitRequest(r) \/ \E s \in Scans : FindingRefused(r, s) PROVE DataInv'
  <2>1. /\ UNCHANGED <<view, server, fate, step, target, ids, left, task, written>>
        /\ disk' = disk \/ disk' = view
    BY <1>1 DEF CommitRequest, FindingRefused, Commit, Refuse, deletionVars
  <2>2. /\ request' \in [Requests -> {"idle", "commit", "done", "failed", "lost"}]
        /\ does' \in [Requests -> Doings]
        /\ \A p : Sent(p) => Sent(p)'
    <3>1. CASE CommitRequest(r)
      BY <3>1 DEF CommitRequest, Sent, DataInv, ControlTypes
    <3>2. CASE \E s \in Scans : FindingRefused(r, s)
      BY <3>2, RequestSent DEF FindingRefused, DataInv, Doings
    <3>. QED
      BY <1>1, <3>1, <3>2
  <2>3. RowTypes' /\ ControlTypes'
    BY <2>1, <2>2 DEF DataInv, RowTypes, ControlTypes, Working
  <2>4. Onward /\ Listed'
    BY <2>1, <2>2 DEF DataInv, Onward, Listed, Old
  <2>5. PastRows' /\ PastName'
    <3>1. \A e \in PurgeReqs : Working(e)' => Working(e) /\ step'[e] = step[e]
      BY <2>1 DEF Working
    <3>. QED
      BY <2>1, <2>4, <3>1, PastKept
  <2>. QED
    BY <2>1, <2>3, <2>4, <2>5, DiskKept, ViewKept DEF DataInv
<1>. QED
  BY <1>1, RequestChanges, PerformStep

(* The server: what a death loses is only what was not committed, and no   *)
(* purge works on afterwards.                                              *)
LEMMA ServerStep ==
    ASSUME DataInv, StartServer \/ FinishRetention \/ RetentionFails \/ Crash
    PROVE  DataInv'
<1>. DEFINE R == "retention"
<1>1. R \in Deletions /\ R \notin PurgeReqs /\ \A d \in PurgeReqs : d \in Deletions
  BY DeletionAssumption DEF Deletions
<1>2. /\ UNCHANGED <<target, written>>
      /\ disk' = disk \/ disk' = view
      /\ view' = disk \/ view' = view
  BY DEF StartServer, FinishRetention, RetentionFails, Crash, Lose, Commit, Stop,
         deletionVars, writerVars
<1>3. RowTypes'
  BY <1>2 DEF DataInv, RowTypes
<1>4. CASE StartServer
  <2>. DEFINE S == {s \in Expired \cap view.ended : HasRow(s)}
  <2>1. \A s \in S : s \in Scans /\ Old(s)
    BY DeletionAssumption DEF DataInv, Sound, OfOld, HasRow
  <2>2. /\ UNCHANGED <<disk, view, task, request, does>>
        /\ \A q : Sent(q)' <=> Sent(q)
        /\ server = "down"
        /\ \/ server' = "up" /\ UNCHANGED <<fate, step, ids, left>>
           \/ /\ server' = "startup"
              /\ fate' = [fate EXCEPT ![R] = "working"]
              /\ step' = [step EXCEPT ![R] = 1]
              /\ ids' = [ids EXCEPT ![R] = S]
              /\ left' = [left EXCEPT ![R] = S]
    BY <1>4, SameSent DEF StartServer, deletionVars, writerVars
  <2>. HIDE DEF S
  <2>3. \A d \in Deletions \ {R} : fate'[d] = fate[d] /\ step'[d] = step[d] /\ ids'[d] = ids[d]
    BY <2>2 DEF DataInv, ControlTypes
  <2>4. 1 \in 1 .. Len(Statements(R))
    BY DeletionAssumption DEF Statements, RetentionOrder
  <2>5. ControlTypes'
    <3>1. /\ fate' \in [Deletions -> {"idle", "working", "done", "failed", "lost"}]
          /\ step' \in [Deletions -> Nat]
          /\ ids' \in [Deletions -> SUBSET Scans] /\ left' \in [Deletions -> SUBSET Scans]
      <4>1. S \in SUBSET Scans
        BY <2>1
      <4>2. CASE UNCHANGED <<fate, step, ids, left>>
        BY <4>2 DEF DataInv, ControlTypes
      <4>3. CASE /\ fate' = [fate EXCEPT ![R] = "working"]
                 /\ step' = [step EXCEPT ![R] = 1]
                 /\ ids' = [ids EXCEPT ![R] = S]
                 /\ left' = [left EXCEPT ![R] = S]
        BY <4>1, <4>3 DEF DataInv, ControlTypes
      <4>. QED
        BY <2>2, <4>2, <4>3
    <3>2. \A d \in Deletions : step'[d] \in 1 .. Len(Statements(d))
      BY <1>1, <2>2, <2>3, <2>4 DEF DataInv, ControlTypes
    <3>3. \A d \in PurgeReqs : ~Working(d)'
      BY <1>1, <2>2, <2>3 DEF DataInv, ControlTypes, Working
    <3>. QED
      BY <1>1, <1>2, <2>2, <2>3, <3>1, <3>2, <3>3 DEF DataInv, ControlTypes
  <2>6. Onward
    BY <1>1, <1>2, <2>2, <2>3 DEF Onward, Old
  <2>7. Listed'
    <3>1. \A s \in Scans : Old(s)' <=> Old(s)
      BY <1>2, <2>2 DEF Old
    <3>2. \A d \in Deletions : ids'[d] = ids[d] \/ ids'[d] = S
      BY <1>1, <2>2 DEF DataInv, ControlTypes
    <3>. QED
      BY <2>1, <3>1, <3>2 DEF DataInv, Listed, ControlTypes
  <2>8. PastRows' /\ PastName'
    <3>1. \A d \in PurgeReqs : ~Working(d)'
      BY <1>1, <2>2, <2>3 DEF DataInv, ControlTypes, Working
    <3>. QED
      BY <3>1 DEF PastRows, PastName
  <2>. QED
    BY <1>2, <1>3, <2>5, <2>6, <2>7, <2>8, DiskKept, ViewKept DEF DataInv
<1>5. CASE FinishRetention \/ RetentionFails \/ Crash
  <2>1. /\ UNCHANGED <<step, ids, left>>
        /\ fate' \in [Deletions -> {"idle", "working", "done", "failed", "lost"}]
        /\ \A d \in PurgeReqs : /\ ~Working(d)'
                                /\ fate'[d] = "idle" <=> fate[d] = "idle"
        /\ task' \in [Scans -> {"idle", "insert", "commit", "end", "last_commit", "done", "lost"}]
        /\ \A s \in Scans : task'[s] \in {task[s], "lost"}
        /\ request' \in [Requests -> {"idle", "commit", "done", "failed", "lost"}]
        /\ does' = does
        /\ \A r \in Requests : request[r] # "idle" => request'[r] # "idle"
    <3>1. CASE FinishRetention
      BY <1>1, <3>1 DEF FinishRetention, Stop, writerVars, Working, DataInv, ControlTypes
    <3>2. CASE RetentionFails
      BY <1>1, <3>2 DEF RetentionFails, Lose, Working, DataInv, ControlTypes
    <3>3. CASE Crash
      BY <1>1, <3>3 DEF Crash, Lose, Working, DataInv, ControlTypes
    <3>. QED
      BY <1>5, <3>1, <3>2, <3>3
  <2>2. ControlTypes'
    BY <1>2, <2>1 DEF DataInv, ControlTypes
  <2>3. Onward
    BY <1>2, <2>1 DEF Onward, Old, Sent
  <2>4. Listed'
    BY <2>1, <2>3 DEF DataInv, Listed, Onward, ControlTypes
  <2>5. PastRows' /\ PastName'
    BY <2>1 DEF PastRows, PastName
  <2>. QED
    BY <1>2, <1>3, <2>2, <2>3, <2>4, <2>5, DiskKept, ViewKept DEF DataInv
<1>. QED
  BY <1>4, <1>5

LEMMA DataStep == DataInv /\ [DataNext]_dataVars => DataInv'
<1>. SUFFICES ASSUME DataInv, [DataNext]_dataVars
              PROVE  DataInv'
  OBVIOUS
<1>1. CASE DataNext
  BY <1>1, DeleteFromStep, DropPersonStep, OtherDeletionStep, SendStep, InsertStep,
     WriterStepInv, RequestStepInv, ServerStep
     DEF DataNext, DeletionStep, WriterStep
<1>2. CASE UNCHANGED dataVars
  <2>1. /\ UNCHANGED <<disk, view, server, fate, step, target, ids, left, task, written>>
        /\ UNCHANGED <<request, does>>
        /\ \A q : Sent(q)' <=> Sent(q)
    BY <1>2, SameSent DEF dataVars, deletionVars, writerVars
  <2>2. Onward
    BY <2>1 DEF Onward, Old
  <2>3. RowTypes' /\ ControlTypes' /\ Listed' /\ PastRows' /\ PastName'
    BY <2>1 DEF DataInv, RowTypes, ControlTypes, Listed, Old, PastRows, PastName, Working
  <2>. QED
    BY <2>1, <2>2, <2>3, DiskKept, ViewKept DEF DataInv
<1>. QED
  BY <1>1, <1>2

THEOREM DataInvCorrect == DataSpec => []DataInv
BY DataInitInv, DataStep, PTL DEF DataSpec

-----------------------------------------------------------------------------
(* The user goes last: when its row is gone from the disk, so are the rows *)
(* of the scans listed for its deletion, but for messages saved of them,   *)
(* and its name in the audit log, in spite of one transaction for all and  *)
(* of commits by others (gdpr_service.py delete_user_data).  Not so when   *)
(* an administrator dismissed the account (user_management_routes.py).     *)
THEOREM UserGoneDataGoneCorrect == DataSpec => []UserGoneDataGone
<1>1. DataInv => UserGoneDataGone
  BY DEF DataInv, Sound, RowsGone, NameGone, UserGoneDataGone
<1>. QED
  BY <1>1, DataInvCorrect, PTL

-----------------------------------------------------------------------------
(* A scan that is half deleted.  The tables the connection sees are ahead  *)
(* of the disk while its transaction is open; of a scan nobody has stored  *)
(* there are no messages.                                                  *)
ConnectionInv ==
    /\ held \in BOOLEAN /\ (~held => view = disk)
    /\ server \in {"down", "startup", "up"} /\ (server = "down" => ~held)
    /\ starts \in 0 .. MaxStarts
    /\ \A s \in Scans :
          /\ written[s] <= Len(Written)
          /\ task[s] = "commit" => written[s] < Len(Written)
          /\ task[s] # "idle" => Stored[s] = {}

NoMessages(T) == \A s \in Scans : ~Shown(s) => "chat_messages" \notin T.rows[s]

\* What d has to do with s, in HalfDeletedByOthers.
Explains(d, s) ==
    /\ s \in ids[d]
    /\ fate[d] \in {"working", "failed"}
    /\ fate[d] = "working" => Current(d) # "commit"

HalfInv ==
    /\ \A d \in Deletions : left[d] \subseteq ids[d]
    /\ NoMessages(disk) /\ NoMessages(view)
    /\ \A s \in Scans : HasRow(s) /\ ~(disk.rows[s] \ Picked(s) \subseteq view.rows[s]) =>
           \E d \in Deletions : Explains(d, s)

LEMMA ConnectionKept ==
    DataInv /\ ConnectionInv /\ [DataNext]_dataVars => ConnectionInv'
<1>. SUFFICES ASSUME DataInv, ConnectionInv, [DataNext]_dataVars
              PROVE  ConnectionInv'
  OBVIOUS
<1>. USE DEF ConnectionInv, DataInv, ControlTypes
<1>0. MaxStarts \in Nat /\ Len(Written) \in Nat /\ Len(Written) > 0
  BY DeletionAssumption
<1>1. CASE StartServer
  BY <1>0, <1>1 DEF StartServer, writerVars
<1>2. CASE FinishRetention \/ RetentionFails
  BY <1>2 DEF FinishRetention, RetentionFails, Commit, Lose, writerVars, Stop
<1>3. CASE Crash
  <2>1. /\ UNCHANGED <<disk, starts, written>> /\ view' = disk /\ held' = FALSE /\ server' = "down"
        /\ \A s \in Scans : task'[s] \in {task[s], "lost"}
    BY <1>3 DEF Crash, Lose
  <2>2. \A s \in Scans : task'[s] # "idle" => task[s] # "idle"
    BY <1>3 DEF Crash
  <2>. QED
    BY <2>1, <2>2
<1>4. ASSUME NEW d \in DeleteReqs \cup PurgeReqs, SendDelete(d) \/ SendPurge(d)
      PROVE  ConnectionInv'
  BY <1>4 DEF SendDelete, SendPurge, Begin, writerVars
<1>5. ASSUME NEW d \in Deletions, DeletionStep(d) PROVE ConnectionInv'
  <2>1. server # "down"
    BY <1>5 DEF DeletionStep, DeleteFrom, DeleteFails, SkipTable, DropPerson, CommitDeletion, Busy
  <2>. QED
    BY <1>5, <2>1 DEF DeletionStep, DeleteFrom, DeleteFails, SkipTable, DropPerson,
         CommitDeletion, Write, Refuse, Commit, writerVars
<1>6. ASSUME NEW s \in Scans, BeginScan(s) PROVE ConnectionInv'
  BY <1>6 DEF BeginScan
<1>7. ASSUME NEW s \in Scans, InsertRow(s) PROVE ConnectionInv'
  <2>1. /\ UNCHANGED <<disk, server, starts, written>> /\ server = "up" /\ held' = TRUE
        /\ task[s] = "insert" /\ written[s] < Len(Written)
        /\ \/ task' = [task EXCEPT ![s] = "commit"]
           \/ task' = [task EXCEPT ![s] = "end"]
    BY <1>7 DEF InsertRow, Write, Refuse, Serving
  <2>. QED
    BY <2>1
<1>8. ASSUME NEW s \in Scans, CommitRow(s) PROVE ConnectionInv'
  <2>1. /\ UNCHANGED <<view, server, starts>> /\ disk' = view /\ held' = FALSE
        /\ task[s] = "commit" /\ written' = [written EXCEPT ![s] = @ + 1]
        /\ task' = [task EXCEPT ![s] = IF written'[s] = Len(Written) THEN "end" ELSE "insert"]
    BY <1>8 DEF CommitRow, Commit
  <2>2. /\ written'[s] = written[s] + 1 /\ task'[s] \in {"end", "insert"}
        /\ \A r \in Scans \ {s} : written'[r] = written[r] /\ task'[r] = task[r]
    BY <2>1
  <2>3. \A r \in Scans : /\ written'[r] <= Len(Written)
                         /\ task'[r] = "commit" => written'[r] < Len(Written)
                         /\ task'[r] # "idle" => Stored[r] = {}
    <3>1. written'[s] <= Len(Written)
      BY <1>0, <2>1, <2>2
    <3>. QED
      BY <2>1, <2>2, <3>1
  <2>. QED
    BY <2>1, <2>3
<1>9. ASSUME NEW s \in Scans, EndScan(s) \/ CommitEnd(s) PROVE ConnectionInv'
  BY <1>9 DEF EndScan, CommitEnd, Write, Commit, Serving
<1>10. ASSUME NEW r \in Requests, RequestStep(r) PROVE ConnectionInv'
  BY <1>10, RequestChanges DEF Perform, FindingRefused, CommitRequest, Write, Refuse, Commit, Serving
<1>11. CASE UNCHANGED dataVars
  BY <1>11 DEF dataVars, writerVars
<1>. QED
  BY <1>1, <1>2, <1>3, <1>4, <1>5, <1>6, <1>7, <1>8, <1>9, <1>10, <1>11
     DEF DataNext, WriterStep

LEMMA HalfInitially == DataInit => ConnectionInv /\ HalfInv
<1>. SUFFICES ASSUME DataInit PROVE ConnectionInv /\ HalfInv
  OBVIOUS
<1>1. ConnectionInv
  <2>1. 0 \in 0 .. MaxStarts /\ 0 <= Len(Written)
    BY DeletionAssumption
  <2>. QED
    BY <2>1 DEF DataInit, ConnectionInv
<1>2. HalfInv
  BY DeletionAssumption
     DEF DataInit, HalfInv, NoMessages, Shown, HasRow, Deletions
<1>. QED
  BY <1>1, <1>2

\* What was picked out stays so, and a scan once stored is known.
Growing == \A s \in Scans : Picked(s) \subseteq Picked(s)' /\ (Shown(s) => Shown(s)')

LEMMA AlwaysGrowing ==
    ASSUME DataInv, [DataNext]_dataVars
    PROVE  Growing
<1>. USE DEF DataInv, ControlTypes
<1>1. \A q : Sent(q) => Sent(q)'
  <2>1. CASE \E r \in Requests : RequestStep(r)
    <3>1. PICK r \in Requests : RequestStep(r)
      BY <2>1
    <3>2. CASE CommitRequest(r)
      BY <3>2 DEF CommitRequest, Sent
    <3>3. CASE \E s \in Scans : FindingRefused(r, s)
      BY <3>3, RequestSent DEF FindingRefused, Doings
    <3>4. CASE \E q \in Doings : \E tables : Perform(r, q, tables)
      BY <3>4, RequestSent DEF Perform
    <3>. QED
      BY <3>1, <3>2, <3>3, <3>4, RequestChanges
  <2>2. CASE Crash
    BY <2>2 DEF Crash, Sent
  <2>3. CASE UNCHANGED <<request, does>>
    BY <2>3, SameSent
  <2>. QED
    BY <2>1, <2>2, <2>3
       DEF DataNext, StartServer, FinishRetention, RetentionFails, SendDelete, SendPurge, Begin,
           DeletionStep, DeleteFrom, DeleteFails, SkipTable, DropPerson, CommitDeletion, BeginScan,
           WriterStep, InsertRow, CommitRow, EndScan, CommitEnd, dataVars, writerVars
<1>2. \A d \in PurgeReqs : fate[d] # "idle" => fate'[d] # "idle"
  <2>0. \A d \in PurgeReqs : d \in Deletions
    BY DEF Deletions
  <2>1. ASSUME NEW d \in Deletions, DeletionStep(d) \/ SendDelete(d) \/ SendPurge(d)
        PROVE  \A e \in PurgeReqs : fate[e] # "idle" => fate'[e] # "idle"
    BY <2>0, <2>1 DEF DeletionStep, DeleteFrom, DeleteFails, SkipTable, DropPerson,
       CommitDeletion, Advance, Stop, SendDelete, SendPurge, Begin
  <2>2. CASE StartServer \/ FinishRetention \/ RetentionFails \/ Crash
    BY <2>0, <2>2 DEF StartServer, FinishRetention, RetentionFails, Crash, Stop, deletionVars
  <2>3. ASSUME NEW r \in Requests, RequestStep(r) PROVE fate' = fate
    BY <2>3, RequestChanges DEF Perform, FindingRefused, CommitRequest, deletionVars
  <2>4. ASSUME NEW s \in Scans, BeginScan(s) \/ WriterStep(s) PROVE fate' = fate
    BY <2>4 DEF BeginScan, WriterStep, InsertRow, CommitRow, EndScan, CommitEnd, deletionVars
  <2>5. CASE UNCHANGED dataVars
    BY <2>5 DEF dataVars, deletionVars
  <2>. QED
    BY <2>1, <2>2, <2>3, <2>4, <2>5 DEF DataNext, Deletions
<1>3. \A s \in Scans : written[s] > 0 => written'[s] > 0
  <2>1. ASSUME NEW s \in Scans, CommitRow(s)
        PROVE  \A r \in Scans : written[r] > 0 => written'[r] > 0
    BY <2>1 DEF CommitRow
  <2>2. ASSUME NEW r \in Requests, RequestStep(r) PROVE written' = written
    BY <2>2, RequestChanges DEF Perform, FindingRefused, CommitRequest
  <2>3. CASE written' = written
    BY <2>3
  <2>. QED
    BY <2>1, <2>2, <2>3
       DEF DataNext, StartServer, FinishRetention, RetentionFails, Crash, Lose, SendDelete,
           SendPurge, Begin, DeletionStep, DeleteFrom, DeleteFails, SkipTable, DropPerson,
           CommitDeletion, BeginScan, WriterStep, InsertRow, EndScan, CommitEnd, dataVars, writerVars
<1>. QED
  BY <1>1, <1>2, <1>3 DEF Growing, Picked, ChatCleared, Shown

\* A step after which the connection and the disk agree.
LEMMA InStepKept ==
    ASSUME DataInv, HalfInv, Growing, disk' = view', view' \in {disk, view},
           \A d \in Deletions : left'[d] \subseteq ids'[d]
    PROVE  HalfInv'
BY DEF HalfInv, NoMessages, HasRow, Growing

\* One that leaves the rows alone, where what explained a loss still does.
LEMMA RowsKept ==
    ASSUME DataInv, HalfInv, Growing, disk' = disk, view'.rows = view.rows,
           \A d \in Deletions : left'[d] \subseteq ids'[d],
           \A s \in Scans : HasRow(s) => \A d \in Deletions : Explains(d, s) => Explains(d, s)'
    PROVE  HalfInv'
<1>1. ASSUME NEW s \in Scans, HasRow(s)', ~(disk'.rows[s] \ Picked(s)' \subseteq view'.rows[s])
      PROVE  \E d \in Deletions : Explains(d, s)'
  <2>1. HasRow(s) /\ ~(disk.rows[s] \ Picked(s) \subseteq view.rows[s])
    BY <1>1 DEF HasRow, Growing
  <2>. QED
    BY <2>1 DEF HalfInv
<1>2. NoMessages(disk)' /\ NoMessages(view)'
  BY DEF HalfInv, NoMessages, Growing
<1>. QED
  BY <1>1, <1>2 DEF HalfInv

\* What the statement after a statement is.
LEMMA CommitIsLast ==
    ASSUME ControlTypes, NEW d \in Deletions, Current(d) \in ScanTables \cup UserTables,
           Statements(d)[step[d] + 1] = "commit"
    PROVE  Current(d) = IF d \in PurgeReqs THEN "users" ELSE "scan_jobs"
<1>1. step[d] \in 1 .. Len(Statements(d)) /\ Current(d) = Statements(d)[step[d]]
  BY DEF ControlTypes, Current
<1>2. CASE Statements(d) = PurgeOrder /\ d \in PurgeReqs
  BY <1>1, <1>2 DEF PurgeOrder, ScanTables, UserTables
<1>3. CASE Statements(d) = DeleteOrder /\ d \notin PurgeReqs
  BY <1>1, <1>3 DEF DeleteOrder, ScanTables, UserTables
<1>4. CASE Statements(d) = RetentionOrder /\ d \notin PurgeReqs
  BY <1>1, <1>4 DEF RetentionOrder, ScanTables, UserTables
<1>. QED
  BY <1>2, <1>3, <1>4, DeletionAssumption DEF Statements

LEMMA DeleteFromHalf ==
    ASSUME DataInv, HalfInv, Growing, NEW d \in Deletions, DeleteFrom(d)
    PROVE  HalfInv'
<1>. DEFINE t == Current(d)
<1>1. PICK S \in Batches(d) :
        /\ view' = Without(S, t)
        /\ IF left[d] \subseteq S
           THEN Advance(d)
           ELSE /\ left' = [left EXCEPT ![d] = @ \ S]
                /\ UNCHANGED <<fate, step, target, ids>>
  BY DEF DeleteFrom, Write
<1>2. /\ t \in ScanTables /\ Working(d) /\ fate[d] = "working"
      /\ UNCHANGED <<disk, fate, target, ids>>
  BY <1>1 DEF DeleteFrom, Write, Working, Advance
<1>3. \A s \in Scans : view'.rows[s] = view.rows[s] \ (IF s \in S THEN {t} ELSE {})
  BY <1>1 DEF DataInv, RowTypes, Tables, Without
<1>4. /\ \A e \in Deletions : left'[e] \subseteq ids'[e]
      /\ \A e \in Deletions \ {d} : step'[e] = step[e]
      /\ step'[d] = step[d] \/ step'[d] = step[d] + 1
  <2>1. /\ left \in [Deletions -> SUBSET Scans] /\ ids \in [Deletions -> SUBSET Scans]
        /\ step \in [Deletions -> Nat] /\ \A e \in Deletions : left[e] \subseteq ids[e]
    BY DEF DataInv, ControlTypes, HalfInv
  <2>2. CASE left[d] \subseteq S
    BY <1>1, <2>1, <2>2 DEF Advance
  <2>3. CASE ~(left[d] \subseteq S)
    BY <1>1, <2>1, <2>3
  <2>. QED
    BY <2>2, <2>3
<1>5. NoMessages(disk)' /\ NoMessages(view)'
  BY <1>2, <1>3 DEF HalfInv, NoMessages, Growing
<1>7. ASSUME NEW s \in Scans, HasRow(s)', ~(disk'.rows[s] \ Picked(s)' \subseteq view'.rows[s])
      PROVE  \E e \in Deletions : Explains(e, s)'
  <2>1. HasRow(s)
    BY <1>3, <1>7 DEF HasRow
  <2>2. ASSUME s \in ids[d], step'[d] # step[d] \/ s \in S
        PROVE  Explains(d, s)'
    <3>1. ASSUME t = "scan_jobs" PROVE FALSE
      <4>1. S = Scans \/ S = ids[d]
        BY <1>1, <3>1 DEF Batches
      <4>. QED
        BY <1>3, <1>7, <2>2, <3>1, <4>1 DEF HasRow
    <3>2. step'[d] = step[d] + 1 => Current(d)' # "commit"
      <4>1. step'[d] = step[d] + 1 => Current(d)' = Statements(d)[step[d] + 1]
        BY DEF Current, Statements
      <4>2. t # "users"
        BY <1>2 DEF ScanTables
      <4>. QED
        BY <1>2, <3>1, <4>1, <4>2, CommitIsLast DEF DataInv
    <3>3. step'[d] = step[d] => Current(d)' # "commit"
      <4>1. step'[d] = step[d] => Current(d)' = t
        BY DEF Current, Statements
      <4>. QED
        BY <1>2, <4>1 DEF ScanTables
    <3>. QED
      BY <1>2, <1>4, <2>2, <3>2, <3>3 DEF Explains
  <2>3. CASE disk.rows[s] \ Picked(s) \subseteq view.rows[s]
    <3>1. s \in S /\ t \notin Picked(s) /\ t # "scan_jobs"
      BY <1>2, <1>3, <1>7, <2>3 DEF HasRow, Growing
    <3>2. s \in ids[d]
      <4>1. ~(d \in PurgeReqs /\ t = "chat_messages")
        BY <1>2, <3>1 DEF Picked, ChatCleared
      <4>2. S = ids[d] \/ S \in {{r} : r \in left[d]}
        BY <1>1, <3>1, <4>1 DEF Batches
      <4>. QED
        BY <3>1, <4>2 DEF HalfInv
    <3>. QED
      BY <2>2, <3>1, <3>2
  <2>4. CASE ~(disk.rows[s] \ Picked(s) \subseteq view.rows[s])
    <3>1. PICK e \in Deletions : Explains(e, s)
      BY <2>1, <2>4 DEF HalfInv
    <3>2. CASE e = d /\ step'[d] # step[d]
      BY <2>2, <3>1, <3>2 DEF Explains
    <3>3. CASE ~(e = d /\ step'[d] # step[d])
      <4>1. step'[e] = step[e]
        BY <1>4, <3>3
      <4>. QED
        BY <1>2, <3>1, <4>1 DEF Explains, Current, Statements
    <3>. QED
      BY <3>2, <3>3
  <2>. QED
    BY <2>3, <2>4
<1>. QED
  BY <1>4, <1>5, <1>7 DEF HalfInv

LEMMA OtherDeletionHalf ==
    ASSUME DataInv, HalfInv, Growing, NEW d \in Deletions,
           DeleteFails(d) \/ SkipTable(d) \/ DropPerson(d) \/ CommitDeletion(d)
    PROVE  HalfInv'
<1>1. /\ fate \in [Deletions -> {"idle", "working", "done", "failed", "lost"}]
      /\ step \in [Deletions -> Nat]
      /\ ids \in [Deletions -> SUBSET Scans] /\ left \in [Deletions -> SUBSET Scans]
      /\ \A e \in Deletions : left[e] \subseteq ids[e]
      /\ \A e \in PurgeReqs : e \in Deletions
  BY DEF DataInv, ControlTypes, HalfInv, Deletions
<1>2. CASE DeleteFails(d)
  <2>1. /\ UNCHANGED <<disk, view, step, ids, left>>
        /\ fate' = [fate EXCEPT ![d] = "failed"]
    BY <1>2 DEF DeleteFails, Refuse, Stop
  <2>3. \A s \in Scans : \A e \in Deletions : Explains(e, s) => Explains(e, s)'
    BY <1>1, <2>1 DEF Explains, Current, Statements
  <2>. QED
    BY <1>1, <2>1, <2>3, RowsKept
<1>3. CASE SkipTable(d)
  <2>1. /\ UNCHANGED <<disk, view, ids, fate>> /\ Current(d) \in ScanTables /\ Batches(d) = {}
        /\ step' = [step EXCEPT ![d] = @ + 1] /\ left' = [left EXCEPT ![d] = ids[d]]
    BY <1>3 DEF SkipTable, Advance
  <2>2. Current(d) \notin {"scan_jobs", "chat_messages"}
    BY <2>1 DEF Batches
  <2>4. \A s \in Scans : \A e \in Deletions : Explains(e, s) => Explains(e, s)'
    <3>1. Statements(d)[step[d] + 1] # "commit"
      BY <2>1, <2>2, CommitIsLast DEF DataInv, ScanTables
    <3>2. Current(d)' # "commit"
      BY <1>1, <2>1, <3>1 DEF Current, Statements
    <3>3. \A e \in Deletions \ {d} : Current(e)' = Current(e)
      BY <1>1, <2>1 DEF Current, Statements
    <3>. QED
      BY <2>1, <3>2, <3>3 DEF Explains
  <2>5. \A e \in Deletions : left'[e] \subseteq ids'[e]
    BY <1>1, <2>1
  <2>. QED
    BY <2>1, <2>4, <2>5, RowsKept
<1>4. CASE DropPerson(d)
  <2>1. /\ UNCHANGED <<disk, ids, fate>> /\ Current(d) \in UserTables /\ Working(d)
        /\ step' = [step EXCEPT ![d] = @ + 1] /\ left' = [left EXCEPT ![d] = ids[d]]
        /\ view'.rows = view.rows
    BY <1>4 DEF DropPerson, Advance, Write, DataInv, RowTypes, Tables
  <2>2. d \in PurgeReqs /\ step[d] > 6
    BY <2>1, StatementOf, PurgeStatements DEF DataInv
  <2>4. \A s \in Scans : HasRow(s) => \A e \in Deletions : Explains(e, s) => Explains(e, s)'
    <3>1. \A s \in Scans : HasRow(s) => ~Explains(d, s)
      BY <2>1, <2>2 DEF DataInv, PastRows, HasRow, Explains
    <3>2. \A e \in Deletions \ {d} : Current(e)' = Current(e)
      BY <1>1, <2>1 DEF Current, Statements
    <3>. QED
      BY <2>1, <3>1, <3>2 DEF Explains
  <2>5. \A e \in Deletions : left'[e] \subseteq ids'[e]
    BY <1>1, <2>1
  <2>. QED
    BY <2>1, <2>4, <2>5, RowsKept
<1>5. CASE CommitDeletion(d)
  <2>1. /\ disk' = view /\ view' = view /\ UNCHANGED <<step, ids, left>>
        /\ fate' = [fate EXCEPT ![d] = "done"]
    BY <1>5 DEF CommitDeletion, Commit, Stop
  <2>. QED
    BY <1>1, <2>1, InStepKept
<1>. QED
  BY <1>2, <1>3, <1>4, <1>5

LEMMA SendHalf ==
    ASSUME DataInv, HalfInv, Growing, NEW d \in DeleteReqs \cup PurgeReqs,
           SendDelete(d) \/ SendPurge(d)
    PROVE  HalfInv'
<1>1. PICK x, S :
          /\ fate[d] = "idle" /\ UNCHANGED <<disk, view, step>>
          /\ fate' = [fate EXCEPT ![d] = "working"]
          /\ ids' = [ids EXCEPT ![d] = S] /\ left' = [left EXCEPT ![d] = S]
  BY DEF SendDelete, SendPurge, Begin
<1>2. /\ d \in Deletions /\ fate \in [Deletions -> {"idle", "working", "done", "failed", "lost"}]
      /\ ids \in [Deletions -> SUBSET Scans] /\ left \in [Deletions -> SUBSET Scans]
      /\ \A e \in Deletions : left[e] \subseteq ids[e]
      /\ d \in PurgeReqs => step[d] = 1
      /\ \A e \in PurgeReqs : e \in Deletions
  BY <1>1 DEF DataInv, ControlTypes, HalfInv, Deletions
<1>3. \A e \in Deletions : left'[e] \subseteq ids'[e]
  BY <1>1, <1>2
<1>5. \A s \in Scans : \A e \in Deletions : Explains(e, s) => Explains(e, s)'
  BY <1>1, <1>2 DEF Explains, Current, Statements
<1>. QED
  BY <1>1, <1>3, <1>5, RowsKept

LEMMA InsertHalf ==
    ASSUME DataInv, ConnectionInv, HalfInv, Growing, NEW s \in Scans, InsertRow(s)
    PROVE  HalfInv'
<1>. DEFINE t == Written[written[s] + 1]
<1>1. /\ task[s] = "insert" /\ written[s] < Len(Written)
      /\ UNCHANGED <<disk, fate, step, ids, left>>
  BY DEF InsertRow, Write, Refuse, deletionVars
<1>2. written[s] \in Nat /\ t \in ScanTables /\ Stored[s] = {}
  <2>1. written[s] \in Nat /\ Stored[s] = {}
    BY <1>1 DEF DataInv, ControlTypes, ConnectionInv
  <2>. QED
    BY <1>1, <2>1, DeletionAssumption
<1>3. t \in Children \/ (t = "scan_jobs" /\ written[s] = 0)
  <2>1. CASE written[s] = 0
    BY <2>1, DeletionAssumption
  <2>2. CASE written[s] > 0
    <3>1. written[s] + 1 \in 2 .. Len(Written)
      BY <1>1, <1>2, <2>2, DeletionAssumption
    <3>. QED
      BY <3>1, DeletionAssumption DEF Children
  <2>. QED
    BY <1>2, <2>1, <2>2
<1>4. \A e \in Deletions, r \in Scans : Explains(e, r) => Explains(e, r)'
  BY <1>1 DEF Explains, Current, Statements
<1>5. CASE view' = view
  BY <1>1, <1>4, <1>5, RowsKept DEF HalfInv
<1>6. CASE Parents(t) \subseteq view.rows[s] /\ view' = [view EXCEPT !.rows[s] = @ \cup {t}]
  <2>1. /\ view'.rows[s] = view.rows[s] \cup {t}
        /\ \A r \in Scans \ {s} : view'.rows[r] = view.rows[r]
    BY <1>6 DEF DataInv, RowTypes, Tables
  <2>2. t \in Children => "scan_jobs" \in view.rows[s]
    BY <1>6 DEF Parents, Children, ScanTables
  <2>3. t # "chat_messages"
    BY <1>3 DEF Children, References
  <2>4. NoMessages(disk)' /\ NoMessages(view)'
    BY <1>1, <2>1, <2>3 DEF HalfInv, NoMessages, Growing
  <2>6. ASSUME NEW r \in Scans, HasRow(r)', ~(disk'.rows[r] \ Picked(r)' \subseteq view'.rows[r])
        PROVE  \E d \in Deletions : Explains(d, r)'
    <3>1. CASE HasRow(r)
      <4>1. ~(disk.rows[r] \ Picked(r) \subseteq view.rows[r])
        BY <1>1, <2>1, <2>6 DEF Growing
      <4>. QED
        BY <1>4, <3>1, <4>1 DEF HalfInv
    <3>2. CASE ~HasRow(r)
      <4>1. r = s /\ t = "scan_jobs" /\ written[s] = 0
        BY <1>3, <2>1, <2>2, <2>6, <3>2 DEF HasRow
      <4>2. "scan_jobs" \notin disk.rows[s]
        BY <1>1, <4>1 DEF DataInv, Sound, OfOld, Old
      <4>3. disk.rows[s] \cap Children = {} /\ "chat_messages" \notin disk.rows[s]
        BY <1>2, <4>1, <4>2 DEF DataInv, Sound, KeyKept, HalfInv, NoMessages, Shown
      <4>4. disk.rows[s] = {}
        BY <4>2, <4>3, AllTables DEF DataInv, RowTypes, Tables
      <4>. QED
        BY <1>1, <2>6, <4>1, <4>4
    <3>. QED
      BY <3>1, <3>2
  <2>. QED
    BY <1>1, <2>4, <2>6 DEF HalfInv
<1>. QED
  BY <1>5, <1>6 DEF InsertRow, Write, Refuse

LEMMA RequestHalf ==
    ASSUME DataInv, HalfInv, Growing, NEW r \in Requests, RequestStep(r)
    PROVE  HalfInv'
<1>1. \A e \in Deletions : left[e] \subseteq ids[e]
  BY DEF HalfInv
<1>2. CASE CommitRequest(r)
  <2>1. disk' = view /\ view' = view /\ UNCHANGED <<ids, left>>
    BY <1>2 DEF CommitRequest, Commit, deletionVars
  <2>. QED
    BY <1>1, <2>1, InStepKept
<1>3. CASE \E s \in Scans : FindingRefused(r, s)
  <2>1. UNCHANGED <<disk, view, fate, step, ids, left>>
    BY <1>3 DEF FindingRefused, Refuse, deletionVars
  <2>. QED
    BY <1>1, <2>1, RowsKept DEF Explains, Current, Statements
<1>4. ASSUME NEW q \in Doings, NEW tables, Perform(r, q, tables), Change(q, tables)
      PROVE  HalfInv'
  <2>1. /\ UNCHANGED <<disk, fate, step, ids, left, written>> /\ view' = tables
        /\ Sent(q)'
    BY <1>4, RequestSent DEF Perform, Write, deletionVars, DataInv
  <2>2. NoMessages(disk)' /\ NoMessages(view)'
    BY <1>4, <2>1 DEF HalfInv, NoMessages, Growing, Change
  <2>3. ASSUME NEW s \in Scans, HasRow(s)', ~(disk'.rows[s] \ Picked(s)' \subseteq view'.rows[s])
        PROVE  \E d \in Deletions : Explains(d, s)'
    <3>1. HasRow(s)
      BY <1>4, <2>1, <2>3 DEF HasRow, Change
    <3>2. \A t \in view.rows[s] : t \in tables.rows[s] \/ t \in Picked(s)'
      BY <1>4, <2>1 DEF Change, Picked, ChatCleared
    <3>3. ~(disk.rows[s] \ Picked(s) \subseteq view.rows[s])
      BY <2>1, <2>3, <3>2 DEF Growing
    <3>. QED
      BY <2>1, <3>1, <3>3 DEF HalfInv, Explains, Current, Statements
  <2>. QED
    BY <1>1, <2>1, <2>2, <2>3 DEF HalfInv
<1>. QED
  BY <1>2, <1>3, <1>4, RequestChanges

LEMMA HalfKept ==
    DataInv /\ ConnectionInv /\ HalfInv /\ [DataNext]_dataVars => HalfInv'
<1>. SUFFICES ASSUME DataInv, ConnectionInv, HalfInv, [DataNext]_dataVars
              PROVE  HalfInv'
  OBVIOUS
<1>0. /\ \A e \in Deletions : left[e] \subseteq ids[e]
      /\ Growing
  BY AlwaysGrowing DEF HalfInv
<1>1. CASE StartServer
  <2>1. /\ UNCHANGED <<disk, view>> /\ view = disk
        /\ \A e \in Deletions : left'[e] \subseteq ids'[e]
    <3>1. "retention" \in Deletions /\ {left, ids} \subseteq [Deletions -> SUBSET Scans]
      BY DEF Deletions, DataInv, ControlTypes
    <3>. QED
      BY <1>0, <1>1, <3>1 DEF StartServer, ConnectionInv, deletionVars
  <2>. QED
    BY <1>0, <2>1, InStepKept
<1>2. CASE FinishRetention
  <2>1. disk' = view /\ view' = view /\ UNCHANGED <<ids, left>>
    BY <1>2 DEF FinishRetention, Commit, Stop
  <2>. QED
    BY <1>0, <2>1, InStepKept
<1>3. CASE RetentionFails \/ Crash
  <2>1. disk' = disk /\ view' = disk /\ UNCHANGED <<ids, left>>
    BY <1>3 DEF RetentionFails, Crash, Lose
  <2>. QED
    BY <1>0, <2>1, InStepKept
<1>4. ASSUME NEW d \in DeleteReqs \cup PurgeReqs, SendDelete(d) \/ SendPurge(d) PROVE HalfInv'
  BY <1>0, <1>4, SendHalf
<1>5. ASSUME NEW d \in Deletions, DeletionStep(d) PROVE HalfInv'
  BY <1>0, <1>5, DeleteFromHalf, OtherDeletionHalf DEF DeletionStep
<1>6. ASSUME NEW s \in Scans, InsertRow(s) PROVE HalfInv'
  BY <1>0, <1>6, InsertHalf
<1>7. ASSUME NEW s \in Scans, BeginScan(s) \/ EndScan(s) PROVE HalfInv'
  <2>1. UNCHANGED <<disk, fate, step, ids, left>> /\ view'.rows = view.rows
    BY <1>7 DEF BeginScan, EndScan, Write, deletionVars, DataInv, RowTypes, Tables
  <2>. QED
    BY <1>0, <2>1, RowsKept DEF Explains, Current, Statements
<1>8. ASSUME NEW s \in Scans, CommitRow(s) \/ CommitEnd(s) PROVE HalfInv'
  <2>1. disk' = view /\ view' = view /\ UNCHANGED <<ids, left>>
    BY <1>8 DEF CommitRow, CommitEnd, Commit, deletionVars
  <2>. QED
    BY <1>0, <2>1, InStepKept
<1>9. ASSUME NEW r \in Requests, RequestStep(r) PROVE HalfInv'
  BY <1>0, <1>9, RequestHalf
<1>10. CASE UNCHANGED dataVars
  <2>1. UNCHANGED <<disk, view, fate, step, ids, left>>
    BY <1>10 DEF dataVars, deletionVars
  <2>. QED
    BY <1>0, <2>1, RowsKept DEF Explains, Current, Statements
<1>. QED
  BY <1>1, <1>2, <1>3, <1>4, <1>5, <1>6, <1>7, <1>8, <1>9, <1>10 DEF DataNext, WriterStep

LEMMA DataTyped == DataInv /\ ConnectionInv => DataTypeOK
<1>. SUFFICES ASSUME DataInv, ConnectionInv PROVE DataTypeOK
  OBVIOUS
<1>1. {disk, view} \subseteq [rows : [Scans -> SUBSET ScanTables], ended : SUBSET Scans,
                              people : [Users -> SUBSET UserTables]]
  BY DEF DataInv, RowTypes, Tables
<1>2. step \in [Deletions -> 1 .. Len(PurgeOrder)]
  <2>1. \A d \in Deletions : 1 .. Len(Statements(d)) \subseteq 1 .. Len(PurgeOrder)
    BY DEF Statements, PurgeOrder, DeleteOrder, RetentionOrder
  <2>. QED
    BY <2>1 DEF DataInv, ControlTypes
<1>3. written \in [Scans -> 0 .. Len(Written)]
  BY DeletionAssumption DEF DataInv, ControlTypes, ConnectionInv
<1>. QED
  BY <1>1, <1>2, <1>3 DEF DataTypeOK, DataInv, ControlTypes, ConnectionInv

(* A scan that keeps its row loses others on disk only by the commit of    *)
(* somebody else, while a deletion of it is on its way or after one that   *)
(* failed: neither a crash nor the deletion's own commit leaves half of it *)
(* (ScanJobRepository.delete, run_retention_cleanup and delete_user_data   *)
(* on the one connection of the API).                                      *)
THEOREM HalfDeletedByOthersCorrect == DataSpec => HalfDeletedByOthers
<1>1. DataInv /\ ConnectionInv /\ HalfInv /\ [DataNext]_dataVars =>
         [\A s \in Scans :
             HasRow(s)' /\ ~(disk.rows[s] \ Picked(s) \subseteq disk'.rows[s]) =>
                 \E d \in Deletions :
                     /\ s \in ids[d]
                     /\ fate[d] \in {"working", "failed"}
                     /\ fate[d] = "working" => Current(d) # "commit"]_dataVars
  <2>. SUFFICES ASSUME DataInv, ConnectionInv, HalfInv, DataNext, NEW s \in Scans,
                       HasRow(s)', ~(disk.rows[s] \ Picked(s) \subseteq disk'.rows[s])
                PROVE  \E d \in Deletions : Explains(d, s)
    BY DEF Explains
  <2>1. disk' = disk \/ (disk' = view /\ view' = view)
    BY RequestChanges
       DEF DataNext, StartServer, FinishRetention, RetentionFails, Crash, SendDelete, SendPurge,
           Begin, DeletionStep, DeleteFrom, DeleteFails, SkipTable, DropPerson, CommitDeletion,
           BeginScan, WriterStep, InsertRow, CommitRow, EndScan, CommitEnd, Perform,
           FindingRefused, CommitRequest, Write, Refuse, Commit, Lose
  <2>2. disk' = view /\ view' = view
    BY <2>1
  <2>. QED
    BY <2>2 DEF HalfInv, HasRow
<1>2. DataSpec => [](DataInv /\ ConnectionInv /\ HalfInv)
  BY DataInitInv, DataStep, HalfInitially, ConnectionKept, HalfKept, PTL DEF DataSpec
<1>. QED
  BY <1>1, <1>2, PTL DEF HalfDeletedByOthers, DataSpec
=============================================================================
