-------------------------- MODULE Approval_proofs --------------------------
(***************************************************************************)
(* Theorems about Approval for any number of requests, administrators and  *)
(* list requests: the type invariant, that it implements ApprovalPromise,  *)
(* and that decisions settle.                                              *)
(***************************************************************************)
EXTENDS ApprovalProperties, TLAPS

\* A decision request has a row in hand once it has read one, and a decided
\* row was decided by somebody.
DecidesGiven == \A d \in Deciders : decider[d] # "sent" => decides[d] \in Approvals
ApprovedByApprover ==
    \A a \in Approvals : status[a] = "approved" => a \in DecidedBy(Approvers)
RejectedByRejecter ==
    \A a \in Approvals : status[a] = "rejected" => a \in DecidedBy(Rejecters)

ApprovalInv ==
    /\ TypeOK /\ DecidesGiven
    /\ ApprovedByApprover /\ RejectedByRejecter /\ DeniedHasCause

(* SetStatus, the UPDATE of one row.                                       *)
LEMMA SetStatusEffect ==
    ASSUME TypeOK, NEW a, NEW s \in Statuses, SetStatus(a, s)
    PROVE  /\ status' \in [Approvals -> Statuses]
           /\ \A b \in Approvals : b # a => status'[b] = status[b]
           /\ \A b \in Approvals : status'[b] \in {status[b], s}
           /\ \A b \in Approvals : status[b] = "deleted" => status'[b] = "deleted"
  BY DEF SetStatus, Exists, TypeOK

(* Decisions that were written stay written.                               *)
LEMMA DecisionsRemain ==
    ASSUME TypeOK, NEW ds \in SUBSET Deciders, [Next]_vars
    PROVE  DecidedBy(ds) \subseteq DecidedBy(ds)'
<1>. USE DEF DecidedBy, TypeOK
<1>1. CASE UNCHANGED decideVars
  BY <1>1 DEF decideVars
<1>2. ASSUME NEW d \in Deciders, DecideRead(d) \/ DecideWrite(d) \/ DecideLog(d)
      PROVE  DecidedBy(ds) \subseteq DecidedBy(ds)'
  BY <1>2 DEF DecideRead, DecideWrite, DecideLog
<1>3. CASE Crash
  BY <1>3 DEF Crash
<1>. QED
  BY <1>1, <1>2, <1>3
  DEF Next, vars, CheckAndRequest, Poll, Returns, GiveUp, ExpiresAt, Deadline,
      ListRead, ListExpire, ListDone, Purge

(* The UPDATE of a decision request is a decision of its kind.             *)
LEMMA WriteDecides ==
    ASSUME TypeOK, DecidesGiven, NEW d \in Deciders, DecideWrite(d)
    PROVE  /\ decides[d] \in Approvals
           /\ \A ds \in SUBSET Deciders : d \in ds => decides[d] \in DecidedBy(ds)'
<1>1. decides[d] \in Approvals
  BY DEF DecideWrite, DecidesGiven
<1>2. decides'[d] = decides[d] /\ decider'[d] = "log"
  BY DEF DecideWrite, TypeOK
<1>. QED
  BY <1>1, <1>2 DEF DecidedBy

(* Every variable keeps its type, and every refusal has a cause.           *)
THEOREM ApprovalInvCorrect == Spec => []ApprovalInv
<1>1. Init => ApprovalInv
  BY DEF Init, ApprovalInv, TypeOK, Statuses, DecidesGiven, ApprovedByApprover,
         RejectedByRejecter, DeniedHasCause
<1>2. ApprovalInv /\ [Next]_vars => ApprovalInv'
  <2>. SUFFICES ASSUME ApprovalInv, [Next]_vars
                PROVE  ApprovalInv'
    OBVIOUS
  <2>. DEFINE Good == ApprovalInv'
              Remain == /\ DecidedBy(Approvers) \subseteq DecidedBy(Approvers)'
                        /\ DecidedBy(Rejecters) \subseteq DecidedBy(Rejecters)'
  <2>1. Remain
    BY DecisionsRemain DEF ApprovalInv, Deciders
  <2>2. ASSUME TypeOK', DecidesGiven',
               \A a \in Approvals :
                  /\ status'[a] \in Decision =>
                        \/ status'[a] = status[a]
                        \/ status'[a] = "approved" /\ a \in DecidedBy(Approvers)'
                        \/ status'[a] = "rejected" /\ a \in DecidedBy(Rejecters)'
                  /\ status[a] = "deleted" /\ waiter[a] = "denied" =>
                        status'[a] = "deleted"
                  /\ waiter'[a] = "denied" =>
                        \/ waiter[a] = "denied"
                        \/ a \in overdue' \/ status'[a] = "deleted"
                        \/ a \in DecidedBy(Rejecters)',
               overdue \subseteq overdue'
        PROVE  Good
    <3>1. ApprovedByApprover' /\ RejectedByRejecter'
      BY <2>1, <2>2 DEF ApprovalInv, ApprovedByApprover, RejectedByRejecter, Decision
    <3>2. DeniedHasCause'
      BY <2>1, <2>2 DEF ApprovalInv, DeniedHasCause
    <3>. QED
      BY <2>2, <3>1, <3>2 DEF ApprovalInv
  <2>. USE DEF ApprovalInv, TypeOK, Statuses, Decision
  <2>3. ASSUME NEW a \in Approvals, CheckAndRequest(a)
        PROVE  Good
    <3>1. TypeOK' /\ DecidesGiven'
      BY <2>3 DEF CheckAndRequest, decideVars, listVars, DecidesGiven
    <3>. QED
      BY <2>2, <2>3, <3>1 DEF CheckAndRequest
  <2>4. ASSUME NEW a \in Approvals, Poll(a)
        PROVE  Good
    <3>1. TypeOK' /\ DecidesGiven'
      BY <2>4 DEF Poll, Returns, decideVars, listVars, DecidesGiven
    <3>2. status[a] = "rejected" => a \in DecidedBy(Rejecters)'
      BY <2>1 DEF RejectedByRejecter
    <3>. QED
      BY <2>2, <2>4, <3>1, <3>2 DEF Poll, Returns
  <2>5. ASSUME NEW a \in Approvals, GiveUp(a)
        PROVE  Good
    <3>1. /\ status' \in [Approvals -> Statuses]
          /\ \A b \in Approvals : status'[b] \in {status[b], "expired"}
          /\ \A b \in Approvals : status[b] = "deleted" => status'[b] = "deleted"
      BY <2>5, SetStatusEffect DEF GiveUp
    <3>2. TypeOK' /\ DecidesGiven'
      BY <2>5, <3>1 DEF GiveUp, decideVars, listVars, DecidesGiven
    <3>. QED
      BY <2>2, <2>5, <3>1, <3>2 DEF GiveUp
  <2>6. ASSUME NEW a \in Approvals, ExpiresAt(a) \/ Deadline(a)
        PROVE  Good
    <3>1. TypeOK' /\ DecidesGiven'
      BY <2>6 DEF ExpiresAt, Deadline, waitVars, decideVars, listVars, DecidesGiven
    <3>. QED
      BY <2>2, <2>6, <3>1 DEF ExpiresAt, Deadline, waitVars
  <2>7. ASSUME NEW d \in Deciders, DecideRead(d)
        PROVE  Good
    <3>1. TypeOK' /\ DecidesGiven'
      BY <2>7 DEF DecideRead, waitVars, listVars, DecidesGiven
    <3>. QED
      BY <2>2, <2>7, <3>1 DEF DecideRead, waitVars
  <2>8. ASSUME NEW d \in Deciders, DecideWrite(d)
        PROVE  Good
    <3>1. /\ status' \in [Approvals -> Statuses]
          /\ \A b \in Approvals : b # decides[d] => status'[b] = status[b]
          /\ \A b \in Approvals : status'[b] \in {status[b], Outcome(d)}
          /\ \A b \in Approvals : status[b] = "deleted" => status'[b] = "deleted"
      BY <2>8, SetStatusEffect DEF DecideWrite, Outcome
    <3>2. TypeOK' /\ DecidesGiven'
      BY <2>8, <3>1 DEF DecideWrite, waitVars, listVars, DecidesGiven
    <3>3. /\ d \in Approvers => decides[d] \in DecidedBy(Approvers)'
          /\ d \in Rejecters => decides[d] \in DecidedBy(Rejecters)'
      BY <2>8, WriteDecides DEF Deciders
    <3>4. ASSUME NEW a \in Approvals, status'[a] # status[a]
          PROVE  \/ status'[a] = "approved" /\ a \in DecidedBy(Approvers)'
                 \/ status'[a] = "rejected" /\ a \in DecidedBy(Rejecters)'
      BY <3>1, <3>3, <3>4 DEF Outcome, Deciders
    <3>. QED
      BY <2>2, <2>8, <3>1, <3>2, <3>4 DEF DecideWrite, waitVars
  <2>9. ASSUME NEW d \in Deciders, DecideLog(d)
        PROVE  Good
    <3>1. TypeOK' /\ DecidesGiven'
      BY <2>9 DEF DecideLog, Outcome, waitVars, listVars, DecidesGiven
    <3>. QED
      BY <2>2, <2>9, <3>1 DEF DecideLog, waitVars
  <2>10. ASSUME NEW l \in Listers, ListRead(l) \/ ListDone(l)
         PROVE  Good
    <3>1. TypeOK' /\ DecidesGiven'
      BY <2>10 DEF ListRead, ListDone, waitVars, decideVars, DecidesGiven
    <3>. QED
      BY <2>2, <2>10, <3>1 DEF ListRead, ListDone, waitVars
  <2>11. ASSUME NEW l \in Listers, ListExpire(l)
         PROVE  Good
    <3>1. /\ status' \in [Approvals -> Statuses]
          /\ \A b \in Approvals : status'[b] \in {status[b], "expired"}
          /\ \A b \in Approvals : status[b] = "deleted" => status'[b] = "deleted"
      BY <2>11, SetStatusEffect DEF ListExpire
    <3>2. TypeOK' /\ DecidesGiven'
      BY <2>11, <3>1 DEF ListExpire, waitVars, decideVars, DecidesGiven
    <3>. QED
      BY <2>2, <2>11, <3>1, <3>2 DEF ListExpire, waitVars
  <2>12. CASE Purge
    <3>1. TypeOK' /\ DecidesGiven'
      BY <2>12 DEF Purge, waitVars, decideVars, listVars, DecidesGiven
    <3>. QED
      BY <2>2, <2>12, <3>1 DEF Purge, waitVars
  <2>13. CASE Crash
    <3>1. TypeOK' /\ DecidesGiven'
      BY <2>13 DEF Crash, DecidesGiven
    <3>. QED
      BY <2>2, <2>13, <3>1 DEF Crash
  <2>14. CASE UNCHANGED vars
    <3>1. TypeOK' /\ DecidesGiven'
      BY <2>14 DEF vars, waitVars, decideVars, listVars, DecidesGiven
    <3>. QED
      BY <2>2, <2>14, <3>1 DEF vars, waitVars
  <2>. QED
    BY <2>3, <2>4, <2>5, <2>6, <2>7, <2>8, <2>9, <2>10, <2>11, <2>12, <2>13,
       <2>14 DEF Next
<1>. QED
  BY <1>1, <1>2, PTL DEF Spec

(* Every variable of the service keeps its type.                           *)
THEOREM TypeCorrect == Spec => []TypeOK
<1>1. ApprovalInv => TypeOK
  BY DEF ApprovalInv
<1>. QED
  BY <1>1, ApprovalInvCorrect, PTL

(* A check is refused only for a rejection, a deadline or a deleted row.   *)
THEOREM DeniedHasCauseCorrect == Spec => []DeniedHasCause
<1>1. ApprovalInv => DeniedHasCause
  BY DEF ApprovalInv
<1>. QED
  BY <1>1, ApprovalInvCorrect, PTL

-----------------------------------------------------------------------------
(* The refinement of ApprovalPromise.                                      *)

(* Steps that move neither a check nor a decision are stutters.            *)
LEMMA PromiseStutter ==
    ASSUME UNCHANGED <<waiter, decideVars>>
    PROVE  UNCHANGED Promise!promiseVars
  BY DEF Promise!promiseVars, Answer, Consented, DecidedBy, decideVars

(* What the answer is after a check has moved.                             *)
LEMMA AnswerMoves ==
    ASSUME TypeOK, NEW a \in Approvals, NEW how \in {"poll", "granted", "denied"},
           waiter' = [waiter EXCEPT ![a] = how], UNCHANGED decideVars
    PROVE  /\ Answer' = [Answer EXCEPT ![a] = IF how = "poll" THEN "waiting" ELSE how]
           /\ UNCHANGED Consented
<1>1. UNCHANGED Consented
  BY DEF Consented, DecidedBy, decideVars
<1>2. /\ waiter'[a] = how
      /\ \A b \in Approvals : b # a => waiter'[b] = waiter[b]
  BY DEF TypeOK
<1>3. Answer'[a] = IF how = "poll" THEN "waiting" ELSE how
  BY <1>2 DEF Answer
<1>4. \A b \in Approvals : b # a => Answer'[b] = Answer[b]
  BY <1>2 DEF Answer
<1>5. /\ DOMAIN Answer = Approvals
      /\ Answer' = [b \in Approvals |-> Answer'[b]]
  BY DEF Answer
<1>. QED
  BY <1>1, <1>3, <1>4, <1>5

(* Every approval is answered as ApprovalPromise says.                     *)
THEOREM PromiseKept == Spec => KeepsPromise
<1>1. Init => Promise!Init
  BY DEF Init, Promise!Init, Answer, Consented, DecidedBy, Deciders
<1>2. ApprovalInv /\ [Next]_vars => [Promise!Next]_(Promise!promiseVars)
  <2>. SUFFICES ASSUME ApprovalInv, [Next]_vars
                PROVE  Promise!Next \/ UNCHANGED Promise!promiseVars
    OBVIOUS
  <2>. USE DEF ApprovalInv
  <2>1. ASSUME NEW a \in Approvals, CheckAndRequest(a)
        PROVE  Promise!Ask(a)
    <3>1. Answer[a] = "unasked"
      BY <2>1 DEF CheckAndRequest, Answer
    <3>2. CASE a \in BelowThreshold
      BY <2>1, <3>1, <3>2, AnswerMoves DEF CheckAndRequest, Promise!Ask, Promise!Answered
    <3>3. CASE a \notin BelowThreshold
      BY <2>1, <3>1, <3>3, AnswerMoves DEF CheckAndRequest, Promise!Ask, Promise!Answered
    <3>. QED
      BY <3>2, <3>3
  <2>2. ASSUME NEW a \in Approvals, Poll(a)
        PROVE  Promise!Grant(a) \/ Promise!Deny(a)
    <3>1. Answer[a] = "waiting"
      BY <2>2 DEF Poll, Answer
    <3>2. CASE status[a] = "approved" /\ Returns(a, "granted")
      <4>1. a \in Consented
        BY <3>2 DEF ApprovedByApprover, Consented
      <4>. QED
        BY <3>1, <3>2, <4>1, AnswerMoves DEF Returns, Promise!Grant, Promise!Answered
    <3>3. CASE Returns(a, "denied")
      BY <3>1, <3>3, AnswerMoves DEF Returns, Promise!Deny, Promise!Answered
    <3>. QED
      BY <2>2, <3>2, <3>3 DEF Poll
  <2>3. ASSUME NEW a \in Approvals, GiveUp(a)
        PROVE  Promise!Deny(a)
    <3>1. Answer[a] = "waiting"
      BY <2>3 DEF GiveUp, Answer
    <3>. QED
      BY <2>3, <3>1, AnswerMoves DEF GiveUp, Promise!Deny, Promise!Answered
  <2>4. ASSUME NEW d \in Deciders, DecideRead(d) \/ DecideLog(d)
        PROVE  UNCHANGED Promise!promiseVars
    <3>1. UNCHANGED Answer
      BY <2>4 DEF DecideRead, DecideLog, waitVars, Answer
    <3>2. UNCHANGED Consented
      BY <2>4 DEF DecideRead, DecideLog, Consented, DecidedBy, TypeOK, Deciders
    <3>. QED
      BY <3>1, <3>2 DEF Promise!promiseVars
  <2>5. ASSUME NEW d \in Deciders, DecideWrite(d)
        PROVE  Promise!Consent(decides[d]) \/ UNCHANGED Promise!promiseVars
    <3>1. UNCHANGED Answer
      BY <2>5 DEF DecideWrite, waitVars, Answer
    <3>2. /\ decides[d] \in Approvals /\ UNCHANGED decides
          /\ decider[d] = "write" /\ decider'[d] = "log"
          /\ \A e \in Deciders : e # d => decider'[e] = decider[e]
      BY <2>5, WriteDecides DEF DecideWrite, TypeOK
    <3>3. CASE d \in Approvers
      <4>1. Consented' = Consented \cup {decides[d]}
        BY <3>2, <3>3 DEF Consented, DecidedBy, Deciders
      <4>. QED
        BY <3>1, <4>1 DEF Promise!Consent
    <3>4. CASE d \notin Approvers
      <4>1. UNCHANGED Consented
        BY <3>2, <3>4 DEF Consented, DecidedBy, Deciders
      <4>. QED
        BY <3>1, <4>1 DEF Promise!promiseVars
    <3>. QED
      BY <3>3, <3>4
  <2>6. CASE Crash
    <3>1. Answer' = [a \in Approvals |->
                       IF Answer[a] = "waiting" THEN "lost" ELSE Answer[a]]
      BY <2>6 DEF Crash, Answer, TypeOK
    <3>2. UNCHANGED Consented
      BY <2>6 DEF Crash, Consented, DecidedBy, Deciders, TypeOK
    <3>. QED
      BY <3>1, <3>2 DEF Promise!Next, Promise!Lose
  <2>7. CASE UNCHANGED <<waiter, decideVars>>
    BY <2>7, PromiseStutter
  <2>8. Promise!Next <=>
          \/ \E a \in Approvals : Promise!Ask(a) \/ Promise!Consent(a)
                                  \/ Promise!Grant(a) \/ Promise!Deny(a)
          \/ Promise!Lose
    BY DEF Promise!Next
  <2>9. ASSUME NEW d \in Deciders, DecideWrite(d)
        PROVE  Promise!Next \/ UNCHANGED Promise!promiseVars
    BY <2>5, <2>8, <2>9, WriteDecides
  <2>10. CASE \/ \E a \in Approvals : ExpiresAt(a) \/ Deadline(a)
              \/ \E l \in Listers : ListRead(l) \/ ListExpire(l) \/ ListDone(l)
              \/ Purge
              \/ UNCHANGED vars
    BY <2>7, <2>10 DEF ExpiresAt, Deadline, ListRead, ListExpire, ListDone, Purge,
                       vars, waitVars
  <2>. QED
    BY <2>1, <2>2, <2>3, <2>4, <2>6, <2>8, <2>9, <2>10 DEF Next
<1>. QED
  BY <1>1, <1>2, ApprovalInvCorrect, PTL DEF Spec, KeepsPromise, Promise!Spec

-----------------------------------------------------------------------------
(* A decision stands once the requests that read the row before it have    *)
(* drained.                                                                *)
THEOREM DecisionSettlesCorrect == Spec => DecisionSettles
<1>. DEFINE Settles ==
        \A a \in Approvals :
          Exists(a) /\ status[a] # "pending" /\ ~WriteInFlight(a) =>
              status'[a] \in {status[a], "deleted"} /\ ~WriteInFlight(a)'
            FirstAsk == \A a \in Approvals : waiter[a] = "start" => status[a] = "none"
<1>1. Spec => []FirstAsk
  <2>1. Init => FirstAsk
    BY DEF Init
  <2>2. ApprovalInv /\ FirstAsk /\ [Next]_vars => FirstAsk'
    <3>. SUFFICES ASSUME ApprovalInv, FirstAsk, [Next]_vars, NEW a \in Approvals,
                         waiter'[a] = "start"
                  PROVE  status'[a] = "none"
      OBVIOUS
    <3>. USE DEF ApprovalInv, TypeOK, waitVars
    <3>1. waiter[a] = "start"
      BY DEF Next, vars, CheckAndRequest, Poll, Returns, GiveUp, ExpiresAt, Deadline,
             DecideRead, DecideWrite, DecideLog, ListRead, ListExpire, ListDone,
             Purge, Crash
    <3>2. status[a] = "none"
      BY <3>1
    <3>. QED
      BY <3>1, <3>2
      DEF Next, vars, CheckAndRequest, Poll, Returns, GiveUp, ExpiresAt, Deadline,
          DecideRead, DecideWrite, DecideLog, ListRead, ListExpire, ListDone,
          Purge, Crash, SetStatus, Exists
  <2>. QED
    BY <2>1, <2>2, ApprovalInvCorrect, PTL DEF Spec
<1>2. ApprovalInv /\ FirstAsk /\ [Next]_vars => Settles
  <2>. SUFFICES ASSUME ApprovalInv, FirstAsk, [Next]_vars, NEW a \in Approvals,
                       Exists(a), status[a] # "pending", ~WriteInFlight(a)
                PROVE  status'[a] \in {status[a], "deleted"} /\ ~WriteInFlight(a)'
    OBVIOUS
  <2>. USE DEF ApprovalInv, TypeOK, WriteInFlight, Exists
  <2>. DEFINE Good == status'[a] \in {status[a], "deleted"} /\ ~WriteInFlight(a)'
  <2>1. ASSUME NEW b, NEW s, b # a, SetStatus(b, s)
        PROVE  status'[a] = status[a]
    BY <2>1 DEF SetStatus
  <2>2. ASSUME NEW b \in Approvals, CheckAndRequest(b)
        PROVE  Good
    BY <2>2 DEF CheckAndRequest, decideVars, listVars
  <2>3. ASSUME NEW b \in Approvals, Poll(b) \/ ExpiresAt(b) \/ Deadline(b)
        PROVE  Good
    BY <2>3 DEF Poll, Returns, ExpiresAt, Deadline, decideVars, listVars
  <2>4. ASSUME NEW b \in Approvals, GiveUp(b)
        PROVE  Good
    BY <2>1, <2>4 DEF GiveUp, decideVars, listVars
  <2>5. ASSUME NEW d \in Deciders, DecideRead(d) \/ DecideLog(d)
        PROVE  Good
    BY <2>5 DEF DecideRead, DecideLog, listVars
  <2>6. ASSUME NEW d \in Deciders, DecideWrite(d)
        PROVE  Good
    <3>1. decides[d] # a
      BY <2>6 DEF DecideWrite
    <3>. QED
      BY <2>1, <2>6, <3>1 DEF DecideWrite, listVars
  <2>7. ASSUME NEW l \in Listers, ListRead(l) \/ ListDone(l)
        PROVE  Good
    BY <2>7 DEF ListRead, ListDone, decideVars
  <2>8. ASSUME NEW l \in Listers, ListExpire(l)
        PROVE  Good
    BY <2>1, <2>8 DEF ListExpire, decideVars
  <2>9. CASE Purge
    BY <2>9 DEF Purge, decideVars, listVars
  <2>10. CASE Crash
    BY <2>10 DEF Crash
  <2>11. CASE UNCHANGED vars
    BY <2>11 DEF vars, decideVars, listVars
  <2>. QED
    BY <2>2, <2>3, <2>4, <2>5, <2>6, <2>7, <2>8, <2>9, <2>10, <2>11 DEF Next
<1>. QED
  BY <1>1, <1>2, ApprovalInvCorrect, PTL DEF Spec, DecisionSettles
=============================================================================
