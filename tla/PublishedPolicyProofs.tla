------------------------- MODULE PublishedPolicyProofs -------------------------
(***************************************************************************)
(* Theorems about BusinessConfig and PublishedPolicy, for any number of    *)
(* versions, contents and overlapping requests.                            *)
(***************************************************************************)
EXTENDS PublishedPolicy, TLAPS

-----------------------------------------------------------------------------
(* What a request may be, field by field.                                  *)

LEMMA RequestFields ==
  ASSUME NEW q, RequestTypeOK(q)
  PROVE  /\ q.pc \in {"idle", "create", "edit", "validate", "checked", "publish", "retire", "quick"}
         /\ q.pc # "idle" => q.version \in Versions
         /\ q.pc = "validate" => q.status \in {"DRAFT", "VALIDATED"}
         /\ q.pc = "retire" => q.current \subseteq Versions
         /\ q.pc = "create" => q.source \in Versions \cup {NoSource}
         /\ q.pc = "quick" => q.source \in Versions
<1>1. CASE q = Idle
  BY <1>1 DEF Idle
<1>2. ASSUME NEW v \in Versions, q \in {Editing(v), Publishing(v)}
      PROVE  q.pc \in {"edit", "publish"} /\ q.version \in Versions
  BY <1>2 DEF Editing, Publishing
<1>3. ASSUME NEW v \in Versions, NEW s \in {"DRAFT", "VALIDATED"}, q \in {Validating(v, s), Checked(v, s)}
      PROVE  q.pc \in {"validate", "checked"} /\ q.version \in Versions /\ q.status \in {"DRAFT", "VALIDATED"}
  BY <1>3 DEF Validating, Checked
<1>4. ASSUME NEW v \in Versions, NEW current \in SUBSET Versions, q = Retiring(v, current)
      PROVE  q.pc = "retire" /\ q.version \in Versions /\ q.current \subseteq Versions
  BY <1>4 DEF Retiring
<1>5. ASSUME NEW v \in Versions, NEW source \in Versions \cup {NoSource}, q = Creating(source, v)
      PROVE  q.pc = "create" /\ q.version \in Versions /\ q.source \in Versions \cup {NoSource}
  BY <1>5 DEF Creating
<1>6. ASSUME NEW v \in Versions, NEW source \in Versions, q = Quick(source, v)
      PROVE  q.pc = "quick" /\ q.version \in Versions /\ q.source \in Versions
  BY <1>6 DEF Quick
<1> QED
  BY <1>1, <1>2, <1>3, <1>4, <1>5, <1>6 DEF RequestTypeOK

\* The newest of some versions is one of them, or there is none.
LEMMA NewestType ==
  ASSUME NEW versions
  PROVE  Newest(versions) \in versions \cup {0}
BY DEF Newest

-----------------------------------------------------------------------------
(* The invariant.  Beside the types it says that what XServer holds, or    *)
(* has asked for, left the drafts.                                         *)

InForce(v) == status[v] \notin {"absent", "DRAFT"}

PolicyInv ==
  /\ TypeOK
  /\ AtMostOnePublished
  /\ policy # NoPolicy => InForce(policy.version)
  /\ fetch # 0 => InForce(fetch)

LEMMA PolicyInit == Init => PolicyInv
<1> SUFFICES ASSUME Init PROVE PolicyInv
  OBVIOUS
<1>1. BusinessTypeOK
  BY BusinessAssumption DEF Init, BusinessInit, BusinessTypeOK, Statuses, RequestTypeOK
<1>2. Published = {}
  BY DEF Init, BusinessInit, Published
<1> QED
  BY <1>1, <1>2 DEF Init, PolicyInv, TypeOK, AtMostOnePublished

\* What one step may do to the statuses.
LEMMA StatusSteps ==
  ASSUME BusinessTypeOK, BusinessNext
  PROVE  \/ UNCHANGED status
         \/ \E v \in Versions : status[v] = "absent" /\ status' = [status EXCEPT ![v] = "DRAFT"]
         \/ \E v \in Versions : status' = [status EXCEPT ![v] = "VALIDATED"]
         \/ \E v \in Versions, retired \in SUBSET Versions : Publish(v, retired)
<1>1. PICK r \in Requests :
        \/ CreateReads(r) \/ CreateCommits(r)
        \/ \E v \in Versions : EditReads(r, v)
        \/ \E c \in Contents : EditCommits(r, c)
        \/ \E v \in Versions : ValidateReads(r, v)
        \/ ValidateChecks(r) \/ ValidateCommits(r)
        \/ \E v \in Versions : PublishReads(r, v)
        \/ PublishChecks(r) \/ PublishCommits(r)
        \/ QuickReads(r)
        \/ \E c \in Contents : QuickCommits(r, c)
        \/ Fails(r)
  BY DEF BusinessNext
<1>2. RequestTypeOK(request[r])
  BY DEF BusinessTypeOK
<1>3. CASE CreateReads(r) \/ (\E v \in Versions : EditReads(r, v)) \/ (\E v \in Versions : ValidateReads(r, v))
           \/ (\E v \in Versions : PublishReads(r, v)) \/ QuickReads(r)
  BY <1>3 DEF CreateReads, EditReads, ValidateReads, PublishReads, QuickReads, Reads
<1>4. CASE CreateCommits(r)
  BY <1>2, <1>4, RequestFields DEF CreateCommits, FreeNumber
<1>5. CASE (\E c \in Contents : EditCommits(r, c)) \/ ValidateChecks(r) \/ PublishChecks(r) \/ Fails(r)
  BY <1>5 DEF EditCommits, ValidateChecks, PublishChecks, Fails
<1>6. CASE ValidateCommits(r)
  BY <1>2, <1>6, RequestFields DEF ValidateCommits
<1>7. CASE PublishCommits(r)
  BY <1>2, <1>7, RequestFields DEF PublishCommits
<1>8. CASE \E c \in Contents : QuickCommits(r, c)
  BY <1>2, <1>8, RequestFields DEF QuickCommits
<1> QED
  BY <1>1, <1>3, <1>4, <1>5, <1>6, <1>7, <1>8

\* The published version after a publication is the one it was about.
LEMMA PublishResult ==
  ASSUME BusinessTypeOK, NEW v \in Versions, NEW retired \in SUBSET Versions, Publish(v, retired)
  PROVE  /\ Published' = {v}
         /\ \A w \in Published : w # v => w < v
         /\ \A w \in Versions : status'[w] \notin {"absent", "DRAFT"} \/ status'[w] = status[w]
BY DEF BusinessTypeOK, Publish, Conflict, Published

LEMMA BusinessTypeStep ==
  ASSUME BusinessTypeOK, BusinessNext
  PROVE  BusinessTypeOK'
<1>1. status' \in [Versions -> Statuses]
  BY StatusSteps DEF BusinessTypeOK, Statuses, Publish
<1>2. PICK r \in Requests :
        \/ CreateReads(r) \/ CreateCommits(r)
        \/ \E v \in Versions : EditReads(r, v)
        \/ \E c \in Contents : EditCommits(r, c)
        \/ \E v \in Versions : ValidateReads(r, v)
        \/ ValidateChecks(r) \/ ValidateCommits(r)
        \/ \E v \in Versions : PublishReads(r, v)
        \/ PublishChecks(r) \/ PublishCommits(r)
        \/ QuickReads(r)
        \/ \E c \in Contents : QuickCommits(r, c)
        \/ Fails(r)
  BY DEF BusinessNext
<1>3. RequestTypeOK(request[r]) /\ DOMAIN request = Requests /\ content \in [Versions -> Contents]
  BY DEF BusinessTypeOK
<1>4. RequestTypeOK(Idle)
  BY DEF RequestTypeOK
<1>5. ASSUME NEW q, RequestTypeOK(q), Goes(r, q)
      PROVE  DOMAIN request' = Requests /\ \A s \in Requests : RequestTypeOK(request'[s])
  <2>1. request' = [request EXCEPT ![r] = q]
    BY <1>5 DEF Goes
  <2>2. \A s \in Requests : request'[s] = IF s = r THEN q ELSE request[s]
    BY <1>3, <2>1
  <2>3. DOMAIN request' = Requests
    BY <1>3, <2>1
  <2>4. \A s \in Requests : RequestTypeOK(request[s])
    BY DEF BusinessTypeOK
  <2> QED
    BY <1>5, <2>2, <2>3, <2>4
<1>6. ASSUME NEW q, RequestTypeOK(q), Goes(r, q), content' \in [Versions -> Contents]
      PROVE  BusinessTypeOK'
  BY <1>1, <1>5, <1>6 DEF BusinessTypeOK
<1>7. CASE CreateReads(r)
  <2>1. PICK source \in {v \in Versions : status[v] \in {"PUBLISHED", "RETIRED"}} \cup {Newest(Published)} :
          Reads(r, Creating(source, Newest(Created) + 1))
    BY <1>7 DEF CreateReads
  <2>2. source \in Versions \cup {NoSource} /\ Newest(Created) + 1 \in Versions
    BY <1>7, NewestType DEF CreateReads, Published, NoSource
  <2>3. RequestTypeOK(Creating(source, Newest(Created) + 1))
    BY <2>2 DEF RequestTypeOK
  <2> QED
    BY <1>3, <1>6, <2>1, <2>3 DEF Reads
<1>8. CASE CreateCommits(r)
  <2>1. request[r].version \in Versions /\ request[r].source \in Versions \cup {NoSource}
    BY <1>3, <1>8, RequestFields DEF CreateCommits
  <2>2. (IF request[r].source = NoSource THEN Empty ELSE content[request[r].source]) \in Contents
    BY <1>3, <2>1, BusinessAssumption
  <2> QED
    BY <1>3, <1>4, <1>6, <1>8, <2>1, <2>2 DEF CreateCommits, Ends
<1>9. ASSUME NEW v \in Versions, EditReads(r, v)
      PROVE  BusinessTypeOK'
  <2>1. RequestTypeOK(Editing(v))
    BY DEF RequestTypeOK
  <2> QED
    BY <1>3, <1>6, <1>9, <2>1 DEF EditReads, Reads
<1>10. ASSUME NEW c \in Contents, EditCommits(r, c)
       PROVE  BusinessTypeOK'
  BY <1>3, <1>4, <1>6, <1>10 DEF EditCommits, Ends
<1>11. ASSUME NEW v \in Versions, ValidateReads(r, v)
       PROVE  BusinessTypeOK'
  <2>1. RequestTypeOK(Validating(v, status[v]))
    BY <1>11 DEF RequestTypeOK, ValidateReads
  <2> QED
    BY <1>3, <1>6, <1>11, <2>1 DEF ValidateReads, Reads
<1>12. CASE ValidateChecks(r)
  <2>1. RequestTypeOK(Checked(request[r].version, request[r].status))
    BY <1>3, <1>12, RequestFields DEF RequestTypeOK, ValidateChecks
  <2> QED
    BY <1>3, <1>4, <1>6, <1>12, <2>1 DEF ValidateChecks
<1>13. CASE ValidateCommits(r)
  BY <1>3, <1>4, <1>6, <1>13 DEF ValidateCommits, Ends
<1>14. ASSUME NEW v \in Versions, PublishReads(r, v)
       PROVE  BusinessTypeOK'
  <2>1. RequestTypeOK(Publishing(v))
    BY DEF RequestTypeOK
  <2> QED
    BY <1>3, <1>6, <1>14, <2>1 DEF PublishReads, Reads
<1>15. CASE PublishChecks(r)
  <2>1. RequestTypeOK(Retiring(request[r].version, Published))
    BY <1>3, <1>15, RequestFields DEF RequestTypeOK, PublishChecks, Published
  <2> QED
    BY <1>3, <1>6, <1>15, <2>1 DEF PublishChecks
<1>16. CASE PublishCommits(r)
  BY <1>3, <1>4, <1>6, <1>16 DEF PublishCommits, Ends
<1>17. CASE QuickReads(r)
  <2>1. Newest(Published) \in Versions /\ Newest(Created) + 1 \in Versions
    BY <1>17, NewestType DEF QuickReads, Published
  <2>2. RequestTypeOK(Quick(Newest(Published), Newest(Created) + 1))
    BY <2>1 DEF RequestTypeOK
  <2> QED
    BY <1>3, <1>6, <1>17, <2>2 DEF QuickReads, Reads
<1>18. ASSUME NEW c \in Contents, QuickCommits(r, c)
       PROVE  BusinessTypeOK'
  BY <1>3, <1>4, <1>6, <1>18 DEF QuickCommits, Ends
<1>19. CASE Fails(r)
  BY <1>3, <1>4, <1>6, <1>19 DEF Fails, Ends
<1> QED
  BY <1>2, <1>7, <1>8, <1>9, <1>10, <1>11, <1>12, <1>13, <1>14, <1>15, <1>16, <1>17, <1>18, <1>19

-----------------------------------------------------------------------------
(* Every step preserves it.                                                *)

LEMMA BusinessStep ==
  ASSUME PolicyInv, BusinessNext, UNCHANGED policyVars
  PROVE  PolicyInv'
<1>1. BusinessTypeOK'
  BY BusinessTypeStep DEF PolicyInv, TypeOK
<1>2. TypeOK'
  BY <1>1 DEF PolicyInv, TypeOK, policyVars
<1>3. status \in [Versions -> Statuses] /\ BusinessTypeOK
  BY DEF PolicyInv, TypeOK, BusinessTypeOK
<1>4. AtMostOnePublished' /\ \A v \in Versions : InForce(v) => InForce(v)'
  <2>1. CASE UNCHANGED status
    BY <2>1 DEF PolicyInv, AtMostOnePublished, Published, InForce
  <2>2. ASSUME NEW v \in Versions, status[v] = "absent", status' = [status EXCEPT ![v] = "DRAFT"]
        PROVE  Published' \subseteq Published /\ \A w \in Versions : InForce(w) => InForce(w)'
    BY <1>3, <2>2 DEF Published, InForce
  <2>3. ASSUME NEW v \in Versions, status' = [status EXCEPT ![v] = "VALIDATED"]
        PROVE  Published' \subseteq Published /\ \A w \in Versions : InForce(w) => InForce(w)'
    BY <1>3, <2>3 DEF Published, InForce
  <2>4. ASSUME NEW v \in Versions, NEW retired \in SUBSET Versions, Publish(v, retired)
        PROVE  Published' = {v} /\ \A w \in Versions : InForce(w) => InForce(w)'
    BY <1>3, <2>4, PublishResult DEF InForce
  <2>5. Published' \subseteq Published => AtMostOnePublished'
    BY DEF PolicyInv, AtMostOnePublished
  <2>6. ASSUME NEW v, Published' = {v} PROVE AtMostOnePublished'
    BY <2>6 DEF AtMostOnePublished
  <2> QED
    BY <1>3, <2>1, <2>2, <2>3, <2>4, <2>5, <2>6, StatusSteps
<1>5. policy # NoPolicy => policy.version \in Versions
  BY DEF PolicyInv, TypeOK, Policies
<1>6. fetch # 0 => fetch \in Versions
  BY DEF PolicyInv, TypeOK
<1>7. policy' = policy /\ fetch' = fetch
  BY DEF policyVars
<1>8. (policy # NoPolicy => InForce(policy.version))' /\ (fetch # 0 => InForce(fetch))'
  BY <1>4, <1>5, <1>6, <1>7 DEF PolicyInv, InForce
<1> QED
  BY <1>2, <1>4, <1>8 DEF PolicyInv

LEMMA PolicyStep ==
  ASSUME PolicyInv, [Next]_vars
  PROVE  PolicyInv'
<1>1. CASE BusinessNext /\ UNCHANGED policyVars
  BY <1>1, BusinessStep
<1>2. CASE FetchReads
  <2>1. fetch' \in Published /\ UNCHANGED <<status, content, request, policy>>
    BY <1>2, NewestType DEF FetchReads, CurrentVersion
  <2>2. InForce(fetch)' /\ fetch' \in Versions
    BY <2>1 DEF Published, InForce
  <2> QED
    BY <2>1, <2>2 DEF PolicyInv, TypeOK, BusinessTypeOK, AtMostOnePublished, Published, InForce
<1>3. CASE FetchReturns
  <2>1. /\ fetch \in Versions /\ InForce(fetch) /\ content[fetch] \in Contents
        /\ fetch' = 0 /\ UNCHANGED <<status, content, request>>
    BY <1>3 DEF FetchReturns, PolicyInv, TypeOK, BusinessTypeOK
  <2>2. policy' = policy \/ policy' = [version |-> fetch, content |-> content[fetch]]
    BY <1>3 DEF FetchReturns
  <2>3. policy' \in Policies \cup {NoPolicy}
    BY <2>1, <2>2 DEF PolicyInv, TypeOK, Policies
  <2>4. TypeOK' /\ AtMostOnePublished'
    BY <2>1, <2>3 DEF PolicyInv, TypeOK, BusinessTypeOK, AtMostOnePublished, Published
  <2>5. (policy # NoPolicy => InForce(policy.version))'
    BY <2>1, <2>2 DEF PolicyInv, InForce
  <2> QED
    BY <2>1, <2>4, <2>5 DEF PolicyInv
<1>4. CASE FetchFails
  BY <1>4 DEF FetchFails, PolicyInv, TypeOK, BusinessTypeOK, AtMostOnePublished, Published, InForce
<1>5. CASE UNCHANGED vars
  BY <1>5 DEF vars, PolicyInv, TypeOK, BusinessTypeOK, AtMostOnePublished, Published, InForce
<1> QED
  BY <1>1, <1>2, <1>3, <1>4, <1>5 DEF Next

\* Every variable keeps its type.
THEOREM TypeCorrect == Spec => []TypeOK
<1>1. PolicyInv => TypeOK
  BY DEF PolicyInv
<1> QED
  BY <1>1, PolicyInit, PolicyStep, PTL DEF Spec

\* However many requests overlap, at most one version is published.
THEOREM OnePublished == Spec => []AtMostOnePublished
<1>1. PolicyInv => AtMostOnePublished
  BY DEF PolicyInv
<1> QED
  BY <1>1, PolicyInit, PolicyStep, PTL DEF Spec

\* XServer never works with a draft, however late its fetch is answered.
THEOREM DraftsStayOut == Spec => []NoDraftInForce
<1>1. PolicyInv => NoDraftInForce
  BY DEF PolicyInv, NoDraftInForce, InForce
<1> QED
  BY <1>1, PolicyInit, PolicyStep, PTL DEF Spec

-----------------------------------------------------------------------------
(* What a step may never do.                                               *)

\* A version that left the drafts is never edited again by a new request.
THEOREM DraftsOnlyOnce == Spec => NeverBackToDraft
<1> DEFINE Step == \A v \in Versions : status'[v] = "DRAFT" => status[v] \in {"absent", "DRAFT"}
<1>1. ASSUME PolicyInv, [Next]_vars PROVE [Step]_businessVars
  <2>1. CASE BusinessNext
    <3>1. BusinessTypeOK /\ status \in [Versions -> Statuses]
      BY <1>1 DEF PolicyInv, TypeOK, BusinessTypeOK
    <3>2. ASSUME NEW v \in Versions, NEW retired \in SUBSET Versions, Publish(v, retired) PROVE Step
      BY <3>1, <3>2, PublishResult
    <3> QED
      BY <2>1, <3>1, <3>2, StatusSteps
  <2>2. CASE FetchReads \/ FetchReturns \/ FetchFails \/ UNCHANGED vars
    BY <2>2 DEF FetchReads, FetchReturns, FetchFails, vars, businessVars
  <2> QED
    BY <1>1, <2>1, <2>2 DEF Next
<1> QED
  BY <1>1, PolicyInit, PolicyStep, PTL DEF Spec, NeverBackToDraft

\* A published version is retired by the publication of a newer one only.
THEOREM OnlyNewerRetires == Spec => RetiredByNewer
<1> DEFINE Step == \A v \in Published : status'[v] = "RETIRED" =>
                     \E w \in Versions : w > v /\ status'[w] = "PUBLISHED"
<1>1. ASSUME PolicyInv, [Next]_vars PROVE [Step]_businessVars
  <2>1. CASE BusinessNext
    <3>1. BusinessTypeOK /\ status \in [Versions -> Statuses]
      BY <1>1 DEF PolicyInv, TypeOK, BusinessTypeOK
    <3>2. ASSUME NEW v \in Versions, NEW retired \in SUBSET Versions, Publish(v, retired) PROVE Step
      <4>1. status'[v] = "PUBLISHED"
        BY <3>2 DEF Publish
      <4>2. \A w \in Published : w # v => w < v
        BY <3>1, <3>2, PublishResult
      <4>3. \A w \in Published : status'[w] = "RETIRED" => w < v
        BY <4>1, <4>2
      <4>4. \A w \in Versions : w < v => v > w
        BY DEF Versions
      <4> QED
        BY <4>1, <4>3, <4>4 DEF Published
    <3>3. UNCHANGED status => Step
      BY DEF Published
    <3>4. ASSUME NEW v \in Versions, status' = [status EXCEPT ![v] = "VALIDATED"] PROVE Step
      BY <3>1, <3>4 DEF Published
    <3>5. ASSUME NEW v \in Versions, status' = [status EXCEPT ![v] = "DRAFT"] PROVE Step
      BY <3>1, <3>5 DEF Published
    <3> QED
      BY <2>1, <3>1, <3>2, <3>3, <3>4, <3>5, StatusSteps
  <2>2. CASE FetchReads \/ FetchReturns \/ FetchFails \/ UNCHANGED vars
    BY <2>2 DEF FetchReads, FetchReturns, FetchFails, vars, businessVars
  <2> QED
    BY <1>1, <2>1, <2>2 DEF Next
<1> QED
  BY <1>1, PolicyInit, PolicyStep, PTL DEF Spec, RetiredByNewer

=============================================================================
