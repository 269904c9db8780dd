--------------------------- MODULE ScanComparison ---------------------------
(***************************************************************************)
(* POST /api/v1/scans/compare (api/scan_detail_routes.py) and its          *)
(* ScanComparator (shared/scan_compare.py): the delta between a baseline   *)
(* scan A and a scan B, computed from six statements that are awaited one  *)
(* after the other, while scans still store findings and ports, findings   *)
(* are deleted one by one and scans table by table.                        *)
(*                                                                         *)
(* A finding is its comparison key (title, host and port) with its CVSS    *)
(* score, a port is its key (host, port and protocol).  Rows that are      *)
(* equal in both have no influence on the delta.  The order of the lists   *)
(* and the text of the summary, but for its rating, are left out.         *)
(***************************************************************************)
EXTENDS Naturals

CONSTANTS
    Compared,   \* the scans
    Keys,       \* _finding_key of the findings there are
    Scores,     \* their CVSS scores
    Ports,      \* _port_key of the ports there are
    Storable,   \* Storable[s]: the findings the task and the chat have for s
    Compares,   \* POST /compare requests
    PairOf,     \* PairOf[c]: the <<A, B>> request c is about
    Absent      \* the result of a comparison that has none yet

Finding == [key : Keys, score : Scores]

ASSUME ComparisonAssumption ==
    /\ Scores \subseteq Nat
    /\ Storable \in [Compared -> SUBSET Finding]
    /\ PairOf \in [Compares -> Compared \X Compared]

VARIABLES
    exists,     \* the scans with a scan_jobs row
    findings,   \* findings[s]: the findings rows of s
    ports,      \* ports[s]: its open_ports rows
    deletion,   \* deletion[s]: the table its DELETE request empties next
    at,         \* at[c]: the statement comparison c is at
    seen,       \* seen[c]: what it has read of them
    result,     \* result[c]: its answer
    always,       \* always[c]: keys A and B had all the time it took (history)
    ever        \* ever[c]: keys A and B had at some time meanwhile (history)

tables == <<exists, findings, ports, deletion>>
spanVars == <<always, ever>>
compareVars == <<tables, at, seen, result, spanVars>>

KeysOf(rows) == {f.key : f \in rows}

Nothing == [fa |-> {}, fb |-> {}, pa |-> {}, pb |-> {}]

Ratings == {"worse", "better", "mixed", "unchanged"}

Result == [new : SUBSET Finding, fixed : SUBSET Finding,
           unchanged : SUBSET Finding, opened : SUBSET Ports,
           closed : SUBSET Ports, rating : Ratings]

CompareTypeOK ==
    /\ exists \subseteq Compared
    /\ findings \in [Compared -> SUBSET Finding]
    /\ ports \in [Compared -> SUBSET Ports]
    /\ deletion \in [Compared -> {"none", "ports", "findings", "row", "done"}]
    /\ at \in [Compares -> {"idle", "a", "b", "fa", "fb", "pa", "pb",
                            "answered", "not_found"}]
    /\ seen \in [Compares -> [fa : SUBSET Finding, fb : SUBSET Finding,
                              pa : SUBSET Ports, pb : SUBSET Ports]]
    /\ result \in [Compares -> {Absent} \cup Result]
    /\ always \in [Compares -> [a : SUBSET Keys, b : SUBSET Keys]]
    /\ ever \in [Compares -> [a : SUBSET Keys, b : SUBSET Keys]]

CompareInit ==
    /\ exists = Compared
    /\ findings = [s \in Compared |-> {}]
    /\ ports = [s \in Compared |-> {}]
    /\ deletion = [s \in Compared |-> "none"]
    /\ at = [c \in Compares |-> "idle"]
    /\ seen = [c \in Compares |-> Nothing]
    /\ result = [c \in Compares |-> Absent]
    /\ always = [c \in Compares |-> [a |-> {}, b |-> {}]]
    /\ ever = [c \in Compares |-> [a |-> {}, b |-> {}]]

-----------------------------------------------------------------------------
(* ScanComparator.                                                         *)

(* One finding per key: the one with the highest score.                    *)
Index(rows) == {f \in rows : \A g \in rows : g.key = f.key => g.score <= f.score}

\* Mutant: the two scans are told apart by the whole finding.
DeltaOfFindings(fa, fb) ==
    LET a == Index(fa)
        b == Index(fb)
    IN  [new |-> b \ a, fixed |-> a \ b, unchanged |-> a \cap b]

(* _compare_findings: by key alone; what is in both is B's version.        *)
CompareFindings(fa, fb) ==
    [new       |-> {f \in Index(fb) : f.key \notin KeysOf(fa)},
     fixed     |-> {f \in Index(fa) : f.key \notin KeysOf(fb)},
     unchanged |-> {f \in Index(fb) : f.key \in KeysOf(fa)}]

(* The rating at the end of _build_summary.                               *)
Rating(delta) ==
    CASE delta.new # {} /\ delta.fixed = {} -> "worse"
      [] delta.new = {} /\ delta.fixed # {} -> "better"
      [] delta.new # {} /\ delta.fixed # {} -> "mixed"
      [] OTHER                              -> "unchanged"

Comparison(s) ==
    LET delta == CompareFindings(s.fa, s.fb)
    IN  [new |-> delta.new, fixed |-> delta.fixed, unchanged |-> delta.unchanged,
         opened |-> s.pb \ s.pa, closed |-> s.pa \ s.pb,
         rating |-> Rating(delta)]

-----------------------------------------------------------------------------
(* compare_scans.                                                          *)

A(c) == PairOf[c][1]
B(c) == PairOf[c][2]

To(c, next) == at' = [at EXCEPT ![c] = next]

AskComparison(c) ==
    /\ at[c] = "idle"
    /\ To(c, "a")
    /\ LET now == [a |-> KeysOf(findings[A(c)]), b |-> KeysOf(findings[B(c)])]
       IN  /\ always' = [always EXCEPT ![c] = now]
           /\ ever' = [ever EXCEPT ![c] = now]
    /\ UNCHANGED <<tables, seen, result>>

\* 404 unless both scans exist, read one after the other.
FindScan(c) ==
    /\ \/ at[c] = "a" /\ To(c, IF A(c) \in exists THEN "b" ELSE "not_found")
       \/ at[c] = "b" /\ To(c, IF B(c) \in exists THEN "fa" ELSE "not_found")
    /\ UNCHANGED <<tables, seen, result, spanVars>>

(* The four lists.  Nobody looks whether the scans still are there.        *)
LoadRows(c) ==
    /\ \/ /\ at[c] = "fa" /\ To(c, "fb")
          /\ seen' = [seen EXCEPT ![c].fa = findings[A(c)]]
       \/ /\ at[c] = "fb" /\ To(c, "pa")
          /\ seen' = [seen EXCEPT ![c].fb = findings[B(c)]]
       \/ /\ at[c] = "pa" /\ To(c, "pb")
          /\ seen' = [seen EXCEPT ![c].pa = ports[A(c)]]
    /\ UNCHANGED <<tables, result, spanVars>>

\* The last list; the comparison itself does not await.
Compare(c) ==
    /\ at[c] = "pb"
    /\ To(c, "answered")
    /\ result' = [result EXCEPT ![c] = Comparison([seen[c] EXCEPT !.pb = ports[B(c)]])]
    /\ seen' = [seen EXCEPT ![c] = Nothing]
    /\ UNCHANGED <<tables, spanVars>>

-----------------------------------------------------------------------------
\* A comparison is under way.
Loading(c) == at[c] \in {"a", "b", "fa", "fb", "pa", "pb"}

\* What the comparisons under way remember of a change of the findings.
Remember ==
    /\ always' = [c \in Compares |->
                  IF Loading(c)
                  THEN [a |-> always[c].a \cap KeysOf(findings'[A(c)]),
                        b |-> always[c].b \cap KeysOf(findings'[B(c)])]
                  ELSE always[c]]
    /\ ever' = [c \in Compares |->
                  IF Loading(c)
                  THEN [a |-> ever[c].a \cup KeysOf(findings'[A(c)]),
                        b |-> ever[c].b \cup KeysOf(findings'[B(c)])]
                  ELSE ever[c]]

(* FindingRepository.create and OpenPortRepository.create, by the task of  *)
(* a scan or by the chat: the foreign key wants the scan's row.            *)
Store(s) ==
    /\ s \in exists
    /\ \/ /\ \E f \in Storable[s] :
               findings' = [findings EXCEPT ![s] = @ \cup {f}]
          /\ UNCHANGED ports
       \/ /\ \E p \in Ports : ports' = [ports EXCEPT ![s] = @ \cup {p}]
          /\ UNCHANGED findings
    /\ Remember
    /\ UNCHANGED <<exists, deletion, at, seen, result>>

(* DELETE /findings/{id}: a single finding goes, its scan stays.           *)
DeleteFinding(s) ==
    /\ \E f \in findings[s] : findings' = [findings EXCEPT ![s] = @ \ {f}]
    /\ Remember
    /\ UNCHANGED <<exists, ports, deletion, at, seen, result>>

(* ScanJobRepository.delete: open_ports, findings, then the row, which the *)
(* foreign keys keep when something was stored in between.                 *)
DeleteScan(s) ==
    /\ s \in exists
    /\ \/ /\ deletion[s] = "none"
          /\ deletion' = [deletion EXCEPT ![s] = "ports"]
          /\ UNCHANGED <<exists, findings, ports>>
       \/ /\ deletion[s] = "ports"
          /\ deletion' = [deletion EXCEPT ![s] = "findings"]
          /\ ports' = [ports EXCEPT ![s] = {}]
          /\ UNCHANGED <<exists, findings>>
       \/ /\ deletion[s] = "findings"
          /\ deletion' = [deletion EXCEPT ![s] = "row"]
          /\ findings' = [findings EXCEPT ![s] = {}]
          /\ UNCHANGED <<exists, ports>>
       \/ /\ deletion[s] = "row"
          /\ deletion' = [deletion EXCEPT ![s] = "done"]
          /\ exists' = IF findings[s] = {} /\ ports[s] = {}
                       THEN exists \ {s} ELSE exists
          /\ UNCHANGED <<findings, ports>>
    /\ Remember
    /\ UNCHANGED <<at, seen, result>>

CompareNext ==
    \/ \E c \in Compares :
          AskComparison(c) \/ FindScan(c) \/ LoadRows(c) \/ Compare(c)
    \/ \E s \in Compared : Store(s) \/ DeleteFinding(s) \/ DeleteScan(s)

CompareSpec == CompareInit /\ [][CompareNext]_compareVars

-----------------------------------------------------------------------------
(* ScanComparator.compare: the delta is put together from lists of         *)
(* different moments.  Whatever is stored and deleted meanwhile, a problem *)
(* both scans had all the time is never reported as new or as fixed, what  *)
(* is reported for a scan was there at some time it took, once, and        *)
(* "better" hides no problem of B, there all the time, that A never had.   *)
DeltaIsTrue ==
    \A c \in Compares : at[c] = "answered" =>
        LET r == result[c]
        IN  /\ KeysOf(r.new) \subseteq ever[c].b \ always[c].a
            /\ KeysOf(r.fixed) \subseteq ever[c].a \ always[c].b
            /\ always[c].a \cap always[c].b \subseteq KeysOf(r.unchanged)
            /\ KeysOf(r.unchanged) \subseteq ever[c].a \cap ever[c].b
            /\ \A f, g \in r.unchanged : f.key = g.key => f = g
            /\ r.rating \in {"better", "unchanged"} => always[c].b \subseteq ever[c].a
=============================================================================
