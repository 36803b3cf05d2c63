------------------------- MODULE Deployments_proofs -------------------------
(* What holds of a deployment target for any number of requests and faults. *)
EXTENDS Deployments, FiniteSetTheorems, TLAPS

-----------------------------------------------------------------------------
(* The queue of reports *)

\* Whatever is in the queue was in it, in the same order.
NothingNew ==
  \E k \in {0, 1} : \A i \in DOMAIN reports' :
     i + k \in DOMAIN reports /\ reports'[i] = reports[i + k]

\* Nothing but m is added, and more than once only "failed".
Posted(m) ==
  /\ \A i \in DOMAIN reports : i \in DOMAIN reports' /\ reports'[i] = reports[i]
  /\ \A i \in DOMAIN reports' \ DOMAIN reports : reports'[i] = m
  /\ \A i, j \in DOMAIN reports' \ DOMAIN reports : i = j \/ m.status = "failed"

LEMMA Taking ==
  ASSUME reports \in Seq(Reports), reports /= <<>>, reports' = Tail(reports)
  PROVE  /\ reports' \in Seq(Reports) /\ NothingNew
         /\ Head(reports) = reports[1] /\ 1 \in DOMAIN reports /\ Head(reports) \in Reports
         /\ \A i \in DOMAIN reports' : i + 1 \in DOMAIN reports /\ reports'[i] = reports[i + 1]
<1>1. /\ reports' \in Seq(Reports) /\ Head(reports) = reports[1] /\ 1 \in DOMAIN reports
      /\ \A i \in DOMAIN reports' : i + 1 \in DOMAIN reports /\ reports'[i] = reports[i + 1]
  OBVIOUS
<1>2. Head(reports) \in Reports
  OBVIOUS
<1> QED BY <1>1, <1>2 DEF NothingNew

LEMMA Cutting ==
  ASSUME reports \in Seq(Reports), NEW n \in 0..Len(reports), reports' = SubSeq(reports, 1, n)
  PROVE  reports' \in Seq(Reports) /\ NothingNew
<1>1. /\ reports' \in Seq(Reports)
      /\ \A i \in DOMAIN reports' : i + 0 \in DOMAIN reports /\ reports'[i] = reports[i + 0]
  OBVIOUS
<1> QED BY <1>1 DEF NothingNew

LEMMA Standing ==
  ASSUME reports \in Seq(Reports), reports' = reports
  PROVE  NothingNew /\ \A m : Posted(m)
<1>1. \A i \in DOMAIN reports' : i + 0 \in DOMAIN reports /\ reports'[i] = reports[i + 0]
  OBVIOUS
<1> QED BY <1>1 DEF NothingNew, Posted

LEMMA Posting ==
  ASSUME reports \in Seq(Reports), NEW m \in Reports,
         Post(<<m>>) \/ (Post(<<m, m>>) /\ m.status = "failed")
  PROVE  reports' \in Seq(Reports) /\ Posted(m)
<1>1. CASE Post(<<m>>)
  <2>1. reports' = Append(reports, m)
    BY <1>1 DEF Post
  <2>2. /\ reports' \in Seq(Reports)
        /\ DOMAIN reports = 1..Len(reports) /\ DOMAIN reports' = 1..(Len(reports) + 1)
        /\ \A i \in 1..(Len(reports) + 1) :
              reports'[i] = IF i <= Len(reports) THEN reports[i] ELSE m
    BY <2>1
  <2>3. \A i \in DOMAIN reports' \ DOMAIN reports : i = Len(reports) + 1
    BY <2>2
  <2> QED BY <2>2, <2>3 DEF Posted
<1>2. CASE Post(<<m, m>>) /\ m.status = "failed"
  <2>1. reports' = Append(Append(reports, m), m)
    BY <1>2 DEF Post
  <2>2. Append(reports, m) \in Seq(Reports)
    OBVIOUS
  <2>3. reports' \in Seq(Reports)
    BY <2>1, <2>2
  <2>4. DOMAIN reports = 1..Len(reports) /\ DOMAIN reports' = 1..(Len(reports) + 2)
    BY <2>1
  <2>5. \A i \in 1..(Len(reports) + 2) :
           reports'[i] = IF i <= Len(reports) THEN reports[i] ELSE m
    BY <2>1
  <2> QED BY <1>2, <2>3, <2>4, <2>5 DEF Posted
<1> QED BY <1>1, <1>2
-----------------------------------------------------------------------------
(* What an execution does in a step *)

Resting == {"idle", "succeeded", "failed", "done"}

\* The execution of r goes on to stage b and reports nothing but m.
AgentMove(r, b, m) ==
  /\ UNCHANGED planeVars
  /\ b \in Stages \ {"idle"} /\ exec[r] /= "done"
  /\ exec' = [exec EXCEPT ![r] = b]
  /\ m \in Reports /\ m.r = r /\ Posted(m) /\ reports' \in Seq(Reports)
  /\ \/ /\ exec[r] = "idle" /\ row[r].op = "queued" /\ receipt' = receipt
        /\ b = IF receipt[r] = "none" THEN "wait" ELSE "done"
     \/ /\ exec[r] \in {"succeeded", "failed"} /\ b = "done"
        /\ receipt' = [receipt EXCEPT ![r] = exec[r]]
     \/ exec[r] \notin Resting /\ b \notin {"wait", "done"} /\ receipt' = receipt
  /\ b \notin Outside => exec[r] \notin Outside \/ ~Locked
  /\ b \in {"release", "up", "images"} => row[r].kind = "deploy"
  /\ b \in {"promote", "link"} => row[r].kind \in Deploying
  /\ b = "wipe" => row[r].kind = "delete"
  /\ m.kind = "result" => b = "done" /\ receipt'[r] = m.status
  /\ m.kind = "status" =>
        /\ row[r].kind \in Deploying /\ exec[r] \notin Resting
        /\ m.status \in Finished => b \in {"succeeded", "failed"}
        /\ m.status \in Succeeded => b = "succeeded"
        /\ m.status = "succeeded" => row[r].kind = "deploy" /\ exec[r] = "link"
  /\ history' = [history EXCEPT !.wiped = @ \/ b = "wipe"]

LEMMA ReportType ==
  ASSUME NEW r \in Request
  PROVE  /\ Report(r, "started", "none") \in Reports
         /\ \A s \in (Active \ {"queued"}) \cup Finished : StatusOf(r, s) \in Reports
         /\ \A s \in {"succeeded", "failed"} : Report(r, "result", s) \in Reports
BY DEF Report, StatusOf, Reports

LEMMA AgentMoves ==
  ASSUME DeploymentsTypeOK, StagesFit, NEW r \in Request, Agent(r)
  PROVE  \E b \in Stages : \E m \in Reports : AgentMove(r, b, m)
<1> DEFINE nothing == Report(r, "started", "none")
<1> USE DEF DeploymentsTypeOK
<1>r. nothing \in Reports /\ nothing.r = r /\ nothing.kind = "started"
  BY ReportType DEF Report
<1>s. \A s : /\ StatusOf(r, s).r = r /\ StatusOf(r, s).kind = "status" /\ StatusOf(r, s).status = s
             /\ Report(r, "result", s).r = r /\ Report(r, "result", s).kind = "result"
             /\ Report(r, "result", s).status = s
  BY DEF Report, StatusOf
<1>u. /\ UNCHANGED history => history' = [history EXCEPT !.wiped = @ \/ FALSE]
      /\ history \in Histories
  BY DEF Histories
<1>x. /\ exec[r] \in Stages /\ receipt[r] \in {"none", "succeeded", "failed"}
      /\ \A b : Go(r, b) => exec' = [exec EXCEPT ![r] = b]
  BY DEF Go
<1>y. UNCHANGED reports => Posted(nothing) /\ reports' \in Seq(Reports)
  BY Standing
<1>z. \A m \in Reports : Post(<<m>>) \/ (Post(<<m, m>>) /\ m.status = "failed")
                         => Posted(m) /\ reports' \in Seq(Reports)
  BY Posting
<1>t. /\ \A s \in (Active \ {"queued"}) \cup Finished : StatusOf(r, s) \in Reports
      /\ \A s \in {"succeeded", "failed"} : Report(r, "result", s) \in Reports
  BY ReportType
<1>k. /\ exec[r] \in {"release", "up", "images"} => row[r].kind = "deploy"
      /\ exec[r] \in {"promote", "link"} => row[r].kind \in Deploying
      /\ exec[r] = "wipe" => row[r].kind = "delete"
      /\ exec[r] = "done" => receipt[r] /= "none"
      /\ receipt[r] /= "none" => exec[r] \in {"idle", "done"}
  BY DEF StagesFit
<1> HIDE DEF DeploymentsTypeOK
<1> USE DEF AgentMove, Stages, Outside, Resting, Active, Finished, Succeeded, Deploying
<1>1. CASE begin(r)
  <2>1. UNCHANGED planeVars /\ UNCHANGED receipt /\ UNCHANGED history
        /\ row[r].op = "queued" /\ exec[r] = "idle"
    BY <1>1 DEF begin
  <2>2. CASE receipt[r] = "none"
    <3>1. exec' = [exec EXCEPT ![r] = "wait"] /\ Post(<<nothing>>)
      BY <1>1, <2>2 DEF begin
    <3>2. Posted(nothing) /\ reports' \in Seq(Reports)
      BY <3>1, <1>z, <1>r
    <3>3. AgentMove(r, "wait", nothing)
      BY <2>1, <2>2, <3>1, <3>2, <1>r, <1>u
    <3> QED BY <3>3, <1>r
  <2>3. CASE receipt[r] /= "none"
    <3>1. exec' = [exec EXCEPT ![r] = "done"] /\ Post(<<Report(r, "result", receipt[r])>>)
      BY <1>1, <2>3 DEF begin
    <3>2. Report(r, "result", receipt[r]) \in Reports
      BY <1>t, <1>x, <2>3
    <3>3. Posted(Report(r, "result", receipt[r])) /\ reports' \in Seq(Reports)
      BY <3>1, <1>z, <3>2
    <3>4. AgentMove(r, "done", Report(r, "result", receipt[r]))
      BY <2>1, <2>3, <3>1, <3>2, <3>3, <1>s, <1>u
    <3> QED BY <3>4, <3>2
  <2> QED BY <2>2, <2>3
<1>2. CASE finish(r)
  <2>1. /\ UNCHANGED planeVars /\ UNCHANGED history /\ exec[r] \in {"succeeded", "failed"}
        /\ exec' = [exec EXCEPT ![r] = "done"] /\ receipt' = [receipt EXCEPT ![r] = exec[r]]
        /\ Post(<<Report(r, "result", exec[r])>>)
    BY <1>2 DEF finish, Go
  <2>2. Report(r, "result", exec[r]) \in Reports
    BY <1>t, <2>1
  <2>3. Posted(Report(r, "result", exec[r])) /\ reports' \in Seq(Reports)
    BY <2>1, <1>z, <2>2
  <2>4. receipt'[r] = exec[r]
    BY <2>1 DEF DeploymentsTypeOK
  <2>5. AgentMove(r, "done", Report(r, "result", exec[r]))
    BY <2>1, <2>2, <2>3, <2>4, <1>s, <1>u
  <2> QED BY <2>5, <2>2
<1>3. CASE preflight(r)
  <2>1. /\ UNCHANGED planeVars /\ UNCHANGED receipt /\ UNCHANGED history
        /\ exec[r] = "wait" /\ row[r].kind = "deploy" /\ ~Locked
    BY <1>3 DEF preflight, Enter
  <2>2. \/ exec' = [exec EXCEPT ![r] = "release"] /\ Post(<<StatusOf(r, "preparing")>>)
        \/ exec' = [exec EXCEPT ![r] = "failed"]
           /\ Post(<<StatusOf(r, "failed"), StatusOf(r, "failed")>>)
    BY <1>3 DEF preflight, Preflight, Go
  <2>3. CASE exec' = [exec EXCEPT ![r] = "release"] /\ Post(<<StatusOf(r, "preparing")>>)
    <3>1. AgentMove(r, "release", StatusOf(r, "preparing"))
      BY <2>1, <2>3, <1>t, <1>s, <1>u, <1>z
    <3> QED BY <3>1, <1>t
  <2>4. CASE exec' = [exec EXCEPT ![r] = "failed"]
             /\ Post(<<StatusOf(r, "failed"), StatusOf(r, "failed")>>)
    <3>1. AgentMove(r, "failed", StatusOf(r, "failed"))
      BY <2>1, <2>4, <1>t, <1>s, <1>u, <1>z
    <3> QED BY <3>1, <1>t
  <2> QED BY <2>2, <2>3, <2>4
<1>4. ASSUME exec[r] \notin Resting, row[r].kind \in Deploying, Fails(r),
             UNCHANGED planeVars, UNCHANGED receipt, UNCHANGED history
      PROVE  \E b \in Stages : \E m \in Reports : AgentMove(r, b, m)
  <2>1. exec' = [exec EXCEPT ![r] = "failed"] /\ Post(<<StatusOf(r, "failed")>>)
    BY <1>4 DEF Fails, Go
  <2>2. AgentMove(r, "failed", StatusOf(r, "failed"))
    BY <2>1, <1>4, <1>t, <1>s, <1>u, <1>z
  <2> QED BY <2>2, <1>t
<1>5. CASE createRelease(r)
  <2>1. /\ UNCHANGED planeVars /\ UNCHANGED receipt /\ UNCHANGED history /\ exec[r] = "release"
        /\ \/ Fails(r)
           \/ exec' = [exec EXCEPT ![r] = "up"] /\ Post(<<StatusOf(r, "running")>>)
    BY <1>5 DEF createRelease, At, Go
  <2>2. CASE exec' = [exec EXCEPT ![r] = "up"] /\ Post(<<StatusOf(r, "running")>>)
    <3>1. /\ StatusOf(r, "running") \in Reports /\ Posted(StatusOf(r, "running"))
          /\ reports' \in Seq(Reports)
      BY <2>2, <1>t, <1>z
    <3>2. AgentMove(r, "up", StatusOf(r, "running"))
      BY <2>1, <2>2, <3>1, <1>k, <1>s, <1>u
    <3> QED BY <3>2, <3>1
  <2> QED BY <2>1, <2>2, <1>4, <1>k
<1>6. CASE up(r)
  <2>1. /\ UNCHANGED planeVars /\ UNCHANGED receipt /\ UNCHANGED history /\ exec[r] = "up"
        /\ \/ Fails(r)
           \/ exec' = [exec EXCEPT ![r] = "images"] /\ UNCHANGED reports
    BY <1>6 DEF up, At, Go
  <2>2. CASE exec' = [exec EXCEPT ![r] = "images"] /\ UNCHANGED reports
    <3>1. AgentMove(r, "images", nothing)
      BY <2>1, <2>2, <1>k, <1>r, <1>u, <1>y
    <3> QED BY <3>1, <1>r
  <2> QED BY <2>1, <2>2, <1>4, <1>k
<1>7. CASE verify(r)
  <2>1. /\ UNCHANGED planeVars /\ UNCHANGED receipt /\ UNCHANGED history /\ exec[r] = "images"
        /\ \/ Fails(r)
           \/ exec' = [exec EXCEPT ![r] = "promote"] /\ UNCHANGED reports
    BY <1>7 DEF verify, At, Go
  <2>2. CASE exec' = [exec EXCEPT ![r] = "promote"] /\ UNCHANGED reports
    <3>1. AgentMove(r, "promote", nothing)
      BY <2>1, <2>2, <1>k, <1>r, <1>u, <1>y
    <3> QED BY <3>1, <1>r
  <2> QED BY <2>1, <2>2, <1>4, <1>k
<1>8. CASE unlinkCurrent(r)
  <2>1. /\ UNCHANGED planeVars /\ UNCHANGED receipt /\ UNCHANGED history /\ exec[r] = "promote"
        /\ exec' = [exec EXCEPT ![r] = "link"] /\ UNCHANGED reports
    BY <1>8 DEF unlinkCurrent, At, Go
  <2>2. AgentMove(r, "link", nothing)
    BY <2>1, <1>k, <1>r, <1>u, <1>y
  <2> QED BY <2>2, <1>r
<1>9. CASE linkCurrent(r)
  <2> DEFINE s == IF row[r].kind = "deploy" THEN "succeeded" ELSE "rolled_back"
  <2>1. /\ UNCHANGED planeVars /\ UNCHANGED receipt /\ UNCHANGED history /\ exec[r] = "link"
        /\ exec' = [exec EXCEPT ![r] = "succeeded"] /\ Post(<<StatusOf(r, s)>>)
    BY <1>9 DEF linkCurrent, At, Go
  <2>2. StatusOf(r, s) \in Reports
    BY <1>t
  <2>3. Posted(StatusOf(r, s)) /\ reports' \in Seq(Reports)
    BY <2>1, <2>2, <1>z
  <2>4. /\ StatusOf(r, s).r = r /\ StatusOf(r, s).kind = "status"
        /\ StatusOf(r, s).status \in Succeeded
        /\ StatusOf(r, s).status = "succeeded" => row[r].kind = "deploy"
    BY <1>s
  <2> HIDE DEF s
  <2>5. AgentMove(r, "succeeded", StatusOf(r, s))
    BY <2>1, <2>2, <2>3, <2>4, <1>k, <1>u
  <2> QED BY <2>5, <2>2
<1>10. CASE rollback(r)
  <2>1. /\ UNCHANGED planeVars /\ UNCHANGED receipt /\ UNCHANGED history
        /\ exec[r] = "wait" /\ row[r].kind = "rollback" /\ ~Locked
        /\ \/ Fails(r)
           \/ exec' = [exec EXCEPT ![r] = "promote"] /\ Post(<<StatusOf(r, "running")>>)
    BY <1>10 DEF rollback, Enter, Go
  <2>2. CASE exec' = [exec EXCEPT ![r] = "promote"] /\ Post(<<StatusOf(r, "running")>>)
    <3>1. AgentMove(r, "promote", StatusOf(r, "running"))
      BY <2>1, <2>2, <1>t, <1>s, <1>u, <1>z
    <3> QED BY <3>1, <1>t
  <2> QED BY <2>1, <2>2, <1>4
<1>11. CASE ContainerAction(r)
  <2>1. /\ UNCHANGED planeVars /\ UNCHANGED receipt /\ UNCHANGED history /\ UNCHANGED reports
        /\ exec[r] = "wait"
        /\ \E b \in {"failed", "succeeded"} : exec' = [exec EXCEPT ![r] = b]
    BY <1>11 DEF ContainerAction, Enter, Go
  <2>2. PICK b \in {"failed", "succeeded"} : exec' = [exec EXCEPT ![r] = b]
    BY <2>1
  <2>3. AgentMove(r, b, nothing)
    BY <2>1, <2>2, <1>r, <1>u, <1>y
  <2> QED BY <2>3, <1>r
<1>12. CASE deleteTarget(r)
  <2>1. /\ UNCHANGED planeVars /\ UNCHANGED receipt /\ UNCHANGED reports
        /\ exec[r] = "wait" /\ row[r].kind = "delete" /\ ~Locked
        /\ \/ exec' = [exec EXCEPT ![r] = "failed"] /\ UNCHANGED history
           \/ exec' = [exec EXCEPT ![r] = "wipe"] /\ history' = [history EXCEPT !.wiped = TRUE]
    BY <1>12 DEF deleteTarget, Enter, Go
  <2>2. CASE exec' = [exec EXCEPT ![r] = "failed"] /\ UNCHANGED history
    <3>1. AgentMove(r, "failed", nothing)
      BY <2>1, <2>2, <1>r, <1>u, <1>y
    <3> QED BY <3>1, <1>r
  <2>3. CASE exec' = [exec EXCEPT ![r] = "wipe"] /\ history' = [history EXCEPT !.wiped = TRUE]
    <3>1. history' = [history EXCEPT !.wiped = @ \/ "wipe" = "wipe"]
      BY <2>3, <1>u DEF Histories
    <3>2. AgentMove(r, "wipe", nothing)
      BY <2>1, <2>3, <3>1, <1>r, <1>y
    <3> QED BY <3>2, <1>r
  <2> QED BY <2>1, <2>2, <2>3
<1>13. CASE removeRoot(r)
  <2>1. /\ UNCHANGED planeVars /\ UNCHANGED receipt /\ UNCHANGED history /\ UNCHANGED reports
        /\ exec[r] = "wipe"
        /\ \E b \in {"failed", "succeeded"} : exec' = [exec EXCEPT ![r] = b]
    BY <1>13 DEF removeRoot, At, Go
  <2>2. PICK b \in {"failed", "succeeded"} : exec' = [exec EXCEPT ![r] = b]
    BY <2>1
  <2>3. AgentMove(r, b, nothing)
    BY <2>1, <2>2, <1>r, <1>u, <1>y
  <2> QED BY <2>3, <1>r
<1> QED BY <1>1, <1>2, <1>3, <1>5, <1>6, <1>7, <1>8, <1>9, <1>10, <1>11, <1>12, <1>13 DEF Agent
-----------------------------------------------------------------------------
(* What the control plane does in a step *)

\* A new request has the first unused number, and nothing else is active.
NewRequest(r, x) ==
  /\ Unused(r) /\ Free /\ x \in RequestRows /\ row' = [row EXCEPT ![r] = x]
  /\ x.config = target.config
     \/ \E s \in Request : row[s].kind /= "none" /\ x.config = row[s].config
  /\ x.kind = "deploy" => x.src = r
  /\ x.kind = "rollback" => x.src \in Request
  /\ \/ /\ x.kind \in Deploying /\ x.status = "queued" /\ x.op = "none" /\ handling' = r
        /\ state' = [status |-> "pending", action |-> x.kind, op |-> None]
     \/ /\ x.kind \in ContainerActions /\ x.status = "none" /\ x.op = "queued"
        /\ handling' = handling
        /\ state' = [status |-> "pending", action |-> x.kind, op |-> r]
  /\ UNCHANGED <<target, reports, agentVars, history>>

Asked(r) == \/ startDeployment(r) \/ rollbackDeployment(r)
            \/ deploymentContainerAction(r) \/ deleteDeploymentTarget(r)

LEMMA NewRequests ==
  ASSUME DeploymentsTypeOK, RowsFit, NEW r \in Request, Asked(r)
  PROVE  \E x \in RequestRows : NewRequest(r, x)
<1>a. MaxRequests \in Nat
  BY DeploymentsAssumption
<1>b. target.config \in Configs \cup {"none"} /\ \A s \in Request : row[s] \in RequestRows
  BY DEF DeploymentsTypeOK, TargetRows
<1> USE DEF RequestRows, Deploying, ContainerActions, Active, Finished, Succeeded, None
<1>1. /\ target.config \in Configs \cup {"none"} /\ r \in 0..MaxRequests /\ 0 \in 0..MaxRequests
      /\ \A s \in Request : row[s] \in RequestRows
  BY <1>a, <1>b DEF Request
<1>2. CASE startDeployment(r)
  <2> DEFINE x == [kind |-> "deploy", config |-> target.config, src |-> r,
                   status |-> "queued", op |-> "none"]
  <2>1. NewRequest(r, x)
    BY <1>1, <1>2 DEF startDeployment, CreateDeployment, NewRequest
  <2> QED BY <1>1, <2>1
<1>3. CASE rollbackDeployment(r)
  <2>1. PICK s \in Request : CreateRollbackDeployment(r, s)
    BY <1>3 DEF rollbackDeployment, LatestDeploymentSnapshot
  <2> DEFINE x == [kind |-> "rollback", config |-> row[s].config, src |-> s,
                   status |-> "queued", op |-> "none"]
  <2>2. x \in RequestRows
    BY <1>1 DEF Request
  <2>3. row[s].kind /= "none"
    BY <2>1 DEF CreateRollbackDeployment, RowsFit
  <2>4. NewRequest(r, x)
    BY <2>1, <2>2, <2>3, <1>3 DEF rollbackDeployment, CreateRollbackDeployment, NewRequest
  <2> QED BY <2>2, <2>4
<1>4. ASSUME NEW a \in ContainerActions, Unused(r), QueueDeploymentContainerOperation(r, a),
             UNCHANGED <<target, handling, reports, agentVars, history>>
      PROVE  \E x \in RequestRows : NewRequest(r, x)
  <2> DEFINE x == [kind |-> a, config |-> target.config, src |-> None,
                   status |-> "none", op |-> "queued"]
  <2>1. NewRequest(r, x)
    BY <1>1, <1>4 DEF QueueDeploymentContainerOperation, NewRequest
  <2> QED BY <1>1, <2>1
<1>5. CASE deploymentContainerAction(r)
  BY <1>4, <1>5, DeploymentsAssumption DEF deploymentContainerAction
<1>6. CASE deleteDeploymentTarget(r)
  BY <1>4, <1>6 DEF deleteDeploymentTarget
<1> QED BY <1>2, <1>3, <1>5, <1>6 DEF Asked

\* A handler that ends, or a report that is handled or lost: the Agent is left
\* alone, and every request stays what it is.
PlaneStep == \/ \E r \in Request : deleteDeployment(r)
             \/ QueueEncryptedResourceOperation \/ handlerFails \/ restart
             \/ handle \/ disconnect

SameRequest(q) ==
  /\ row'[q].kind = row[q].kind /\ row'[q].config = row[q].config /\ row'[q].src = row[q].src
  /\ row[q].kind = "none" => row'[q] = row[q]
  /\ row'[q].status = "none" <=> row[q].status = "none"
  /\ \/ row'[q].op = row[q].op
     \/ row[q].op = "none" /\ row'[q].op = "queued" /\ q = handling /\ handling' = None
     \/ row[q].op = "queued" /\ row'[q].op = "running"
     \/ row[q].op /= "none" /\ row'[q].op = "done" /\ receipt[q] /= "none"

SameHistory ==
  /\ history'.wiped = history.wiped /\ history'.edited = history.edited
  /\ history'.again = history.again /\ (history.cleared => history'.cleared)

PlaneMove ==
  /\ UNCHANGED agentVars /\ NothingNew /\ SameHistory /\ handling' \in {handling, None}
  /\ target' = target \/ ~target'.row
  /\ \A q \in Request : SameRequest(q)

\* The report that is handled next, and what the invariant says of it.
LEMMA FirstReport ==
  ASSUME DeploymentsTypeOK, ReportsHold, reports /= <<>>, NEW m, m = Head(reports)
  PROVE  /\ 1 \in DOMAIN reports /\ m = reports[1] /\ m \in Reports /\ m.r \in Request
         /\ row[m.r].op /= "none"
         /\ m.kind = "result" => receipt[m.r] = m.status
         /\ m.kind = "status" => /\ row[m.r].kind \in Deploying
                                 /\ m.status \in (Active \ {"queued"}) \cup Finished
         /\ m.kind = "result" => m.status \in {"succeeded", "failed"}
<1>1. reports \in Seq(Reports)
  BY DEF DeploymentsTypeOK
<1>2. 1 \in DOMAIN reports /\ m = reports[1] /\ m \in Reports
  BY <1>1
<1>3. m.r \in Request /\ (m.kind = "status" => m.status \in (Active \ {"queued"}) \cup Finished)
      /\ (m.kind = "result" => m.status \in {"succeeded", "failed"})
  BY <1>2 DEF Reports
<1> QED BY <1>2, <1>3 DEF ReportsHold

LEMMA PlaneMoves ==
  ASSUME DeploymentsInv, PlaneStep
  PROVE  PlaneMove /\ DeploymentsTypeOK'
<1>a. /\ DeploymentsTypeOK /\ ReportsHold /\ HandlerFits /\ RowsFit /\ StagesFit
  BY DEF DeploymentsInv
<1>b. /\ row \in [Request -> RequestRows] /\ state \in StateRows /\ target \in TargetRows
      /\ handling \in 0..MaxRequests /\ reports \in Seq(Reports) /\ history \in Histories
  BY <1>a DEF DeploymentsTypeOK
<1>m. MaxRequests \in Nat
  BY DeploymentsAssumption
<1>c. None \in 0..MaxRequests /\ \A r \in Request : r \in 0..MaxRequests
  BY <1>m DEF None, Request
<1>d. handling /= None => handling \in Request
  BY <1>b, <1>m DEF None, Request
<1>e. ASSUME row' \in [Request -> RequestRows], state' \in StateRows, target' \in TargetRows,
             handling' \in {handling, None}, reports' \in Seq(Reports), history' \in Histories,
             UNCHANGED agentVars
      PROVE  DeploymentsTypeOK'
  BY <1>a, <1>b, <1>c, <1>e DEF DeploymentsTypeOK, agentVars
<1>f. UNCHANGED history => history' \in Histories /\ SameHistory
  BY <1>b DEF SameHistory
<1>g. ASSUME NEW f, Fault(f)
      PROVE  history' \in Histories /\ SameHistory
  BY <1>b, <1>g DEF Fault, Histories, SameHistory
<1>h. UNCHANGED row => row' \in [Request -> RequestRows] /\ \A q \in Request : SameRequest(q)
  BY <1>b DEF SameRequest
<1>i. UNCHANGED reports => reports' \in Seq(Reports) /\ NothingNew
  BY <1>b, Standing
<1>j. ASSUME NEW r \in Request, NEW s \in Active \cup Finished, row[r].kind \in Deploying,
             SaveDeploymentStatus(r, s)
      PROVE  /\ row' \in [Request -> RequestRows] /\ \A q \in Request : SameRequest(q)
             /\ state' \in StateRows /\ history' \in Histories /\ SameHistory
  <2>1. row' = [row EXCEPT ![r].status = s] /\ row[r].kind /= "none"
    BY <1>j DEF SaveDeploymentStatus, Deploying
  <2>2. row' \in [Request -> RequestRows]
    BY <2>1, <1>b DEF RequestRows
  <2>0. row[r].status /= "none"
    BY <1>a, <1>j DEF RowsFit
  <2>3. \A q \in Request : SameRequest(q)
    BY <2>0, <2>1, <1>b DEF SameRequest, RequestRows, Active, Finished, Succeeded
  <2>4. ContainerStatus(s) \in {"pending", "running", "unknown"}
    BY DEF ContainerStatus
  <2>5. row[r].kind \in Deploying
    BY <1>j
  <2>6. state' \in StateRows
    BY <1>j, <2>4, <2>5 DEF SaveDeploymentStatus, StateRows, Shown
  <2>7. history' \in Histories /\ SameHistory
    BY <1>j, <1>b DEF SaveDeploymentStatus, Histories, SameHistory, ContainerActive
  <2> QED BY <2>2, <2>3, <2>6, <2>7
<1>k. ASSUME NEW r \in Request, NEW o \in {"queued", "running", "done"},
             row' = [row EXCEPT ![r].op = o], row[r].kind /= "none",
             \/ o = row[r].op
             \/ row[r].op = "none" /\ o = "queued" /\ r = handling /\ handling' = None
             \/ row[r].op = "queued" /\ o = "running"
             \/ row[r].op /= "none" /\ o = "done" /\ receipt[r] /= "none"
      PROVE  row' \in [Request -> RequestRows] /\ \A q \in Request : SameRequest(q)
  <2>1. row' \in [Request -> RequestRows]
    BY <1>b, <1>k DEF RequestRows
  <2> QED BY <2>1, <1>b, <1>k DEF SameRequest, RequestRows
<1>1. CASE \E r \in Request : deleteDeployment(r)
  <2>1. PICK r \in Request : deleteDeployment(r)
    BY <1>1
  <2>2. /\ row[r].status \in Finished /\ row' = [row EXCEPT ![r].status = "deleted"]
        /\ UNCHANGED <<target, state, handling, reports, agentVars, history>>
    BY <2>1 DEF deleteDeployment, DeleteDeployment
  <2>3. row' \in [Request -> RequestRows]
    BY <2>2, <1>b DEF RequestRows
  <2>4. row[r].kind /= "none"
    BY <2>2, <1>a DEF RowsFit, NoRow, Finished, Succeeded
  <2>5. \A q \in Request : SameRequest(q)
    BY <2>2, <2>4, <1>b DEF SameRequest, RequestRows, Finished, Succeeded
  <2>6. DeploymentsTypeOK'
    BY <2>2, <2>3, <1>b, <1>e, <1>f
  <2> QED BY <2>2, <2>5, <2>6, <1>f, <1>i DEF PlaneMove
<1>2. CASE QueueEncryptedResourceOperation
  <2>1. /\ handling \in Request /\ row[handling].op = "none" /\ row[handling].kind /= "none"
        /\ row' = [row EXCEPT ![handling].op = "queued"] /\ handling' = None
        /\ UNCHANGED <<target, state, reports, agentVars, history>>
    BY <1>2, <1>a, <1>d DEF QueueEncryptedResourceOperation, HandlerFits, Deploying
  <2>2. row' \in [Request -> RequestRows] /\ \A q \in Request : SameRequest(q)
    BY <2>1, <1>k
  <2>3. DeploymentsTypeOK'
    BY <2>1, <2>2, <1>b, <1>e, <1>f
  <2> QED BY <2>1, <2>2, <2>3, <1>f, <1>i DEF PlaneMove
<1>3. CASE handlerFails
  <2>1. /\ handling \in Request /\ row[handling].kind \in Deploying
        /\ SaveDeploymentStatus(handling, "failed") /\ handling' = None
        /\ UNCHANGED <<target, reports, agentVars>>
    BY <1>3, <1>a, <1>d DEF handlerFails, HandlerFits
  <2>2. /\ row' \in [Request -> RequestRows] /\ \A q \in Request : SameRequest(q)
        /\ state' \in StateRows /\ history' \in Histories /\ SameHistory
    BY <2>1, <1>j DEF Finished
  <2>3. DeploymentsTypeOK'
    BY <2>1, <2>2, <1>b, <1>e
  <2> QED BY <2>1, <2>2, <2>3, <1>i DEF PlaneMove
<1>4. CASE restart
  <2>1. handling' = None /\ Fault("restart") /\ UNCHANGED <<target, row, state, reports, agentVars>>
    BY <1>4 DEF restart
  <2>2. DeploymentsTypeOK'
    BY <2>1, <1>b, <1>e, <1>g
  <2> QED BY <2>1, <2>2, <1>g, <1>h, <1>i DEF PlaneMove
<1>5. CASE handle
  <2> DEFINE m == Head(reports)
  <2>1. reports /= <<>> /\ reports' = Tail(reports) /\ UNCHANGED <<handling, agentVars>>
        /\ \/ m.kind = "started" /\ handleStarted(m)
           \/ m.kind = "status" /\ handleStatus(m)
           \/ m.kind = "result" /\ handleResult(m)
    BY <1>5 DEF handle
  <2>2. reports' \in Seq(Reports) /\ NothingNew
    BY <2>1, <1>b, Taking
  <2>3. /\ m.r \in Request /\ row[m.r].op /= "none"
        /\ m.kind = "result" => receipt[m.r] = m.status
        /\ m.kind = "status" => /\ row[m.r].kind \in Deploying
                                /\ m.status \in (Active \ {"queued"}) \cup Finished
        /\ m.kind = "result" => m.status \in {"succeeded", "failed"}
    BY <2>1, <1>a, FirstReport
  <2> HIDE DEF m
  <2>4. row[m.r].kind /= "none"
    BY <2>3, <1>a DEF RowsFit, NoRow
  <2>5. SUFFICES /\ row' \in [Request -> RequestRows] /\ state' \in StateRows
                 /\ target' \in TargetRows /\ (target' = target \/ ~target'.row)
                 /\ history' \in Histories /\ SameHistory
                 /\ \A q \in Request : SameRequest(q)
    BY <2>1, <2>2, <1>e DEF PlaneMove
  <2>6. CASE m.kind = "started" /\ handleStarted(m)
    <3>1. /\ row' = [row EXCEPT ![m.r].op = IF @ = "queued" THEN "running" ELSE @]
          /\ UNCHANGED <<target, state, history>>
      BY <2>6 DEF handleStarted
    <3>2. row[m.r].op \in {"queued", "running", "done"}
      BY <2>3, <1>b DEF RequestRows
    <3>3. row' = [row EXCEPT ![m.r].op = IF row[m.r].op = "queued" THEN "running" ELSE row[m.r].op]
      BY <3>1, <2>3, <1>b
    <3>4. row' \in [Request -> RequestRows] /\ \A q \in Request : SameRequest(q)
      BY <3>2, <3>3, <2>3, <2>4, <1>k
    <3> QED BY <3>1, <3>4, <1>b, <1>f
  <2>7. CASE m.kind = "status" /\ handleStatus(m)
    <3>1. UNCHANGED target /\ (SaveDeploymentStatus(m.r, m.status) \/ UNCHANGED <<row, state, history>>)
      BY <2>7 DEF handleStatus
    <3>2. CASE SaveDeploymentStatus(m.r, m.status)
      <4>1. row[m.r].kind \in Deploying /\ m.status \in Active \cup Finished
        BY <2>3, <2>7
      <4> QED BY <3>1, <3>2, <4>1, <2>3, <1>b, <1>j
    <3>3. CASE UNCHANGED <<row, state, history>>
      BY <3>1, <3>3, <1>b, <1>f, <1>h
    <3> QED BY <3>1, <3>2, <3>3
  <2>8. CASE m.kind = "result" /\ handleResult(m)
    <3>0. UNCHANGED history /\ receipt[m.r] /= "none"
      BY <2>3, <2>8 DEF handleResult
    <3>1. CASE row[m.r].op = "done"
      BY <3>0, <3>1, <2>8, <1>b, <1>f, <1>h DEF handleResult
    <3>2. CASE row[m.r].op /= "done"
      <4> DEFINE rows == [row EXCEPT ![m.r].op = "done"]
      <4>1. row' = Cascade(rows)
        BY <3>2, <2>8 DEF handleResult
      <4>2. CompleteDeploymentContainerOperation(m.r, m.status) \/ UNCHANGED <<target, state>>
        BY <3>2, <2>8 DEF handleResult
      <4>3. \/ target' = target /\ state' = state
            \/ target' = [row |-> FALSE, config |-> "none"] /\ state' = NoState
            \/ /\ target' = target
               /\ \E s \in {"failed", "running", "stopped", "removed"} :
                     state' = [state EXCEPT !.status = s]
        <5>1. CASE UNCHANGED <<target, state>>
          BY <5>1
        <5>2. CASE /\ CompleteDeploymentContainerOperation(m.r, m.status)
                   /\ ~UNCHANGED <<target, state>>
          <6>1. state.op = m.r
            BY <5>2 DEF CompleteDeploymentContainerOperation
          <6>2. row[m.r].kind \in ContainerActions
            BY <3>2, <2>8, <5>2 DEF handleResult
          <6>3. state.action \in ContainerActions
            BY <6>1, <2>3, <1>b, <1>c, <1>m DEF StateRows, None, Request
          <6> USE <5>2, <6>1 DEF CompleteDeploymentContainerOperation
          <6>4. CASE m.status /= "succeeded"
            BY <6>4
          <6>5. CASE m.status = "succeeded" /\ state.action = "delete"
            BY <6>5
          <6>6. CASE m.status = "succeeded" /\ state.action \in {"start", "restart"}
            BY <6>6
          <6>7. CASE m.status = "succeeded" /\ state.action = "stop"
            BY <6>7
          <6>8. CASE m.status = "succeeded" /\ state.action = "remove"
            BY <6>8
          <6> QED BY <6>3, <6>4, <6>5, <6>6, <6>7, <6>8 DEF ContainerActions
        <5> QED BY <4>2, <5>1, <5>2
      <4>r. state' \in StateRows
        BY <4>3, <1>b DEF StateRows, Shown, NoState
      <4>s. target' = target \/ target' = [row |-> FALSE, config |-> "none"]
        BY <4>3
      <4>t. target' \in TargetRows /\ (target' = target \/ ~target'.row)
        <5>0. target' = [row |-> FALSE, config |-> "none"] => target'.row = FALSE
          OBVIOUS
        <5>1. target' = [row |-> FALSE, config |-> "none"] => ~target'.row
          BY <5>0, Zenon
        <5>2. [row |-> FALSE, config |-> "none"] \in TargetRows
          BY DEF TargetRows
        <5> QED BY <4>s, <5>1, <5>2, <1>b
      <4>4. state' \in StateRows /\ target' \in TargetRows /\ (target' = target \/ ~target'.row)
        BY <4>r, <4>t
      <4>5. /\ rows \in [Request -> RequestRows]
            /\ \A q \in Request : /\ rows[q].kind = row[q].kind /\ rows[q].config = row[q].config
                                  /\ rows[q].src = row[q].src /\ rows[q].status = row[q].status
                                  /\ rows[q].op = IF q = m.r THEN "done" ELSE row[q].op
                                  /\ q /= m.r => rows[q] = row[q]
        BY <2>3, <1>b DEF RequestRows
      <4> HIDE DEF rows
      <4>6. row' \in [Request -> RequestRows]
        BY <4>1, <4>5 DEF Cascade, RequestRows
      <4>7. \A q \in Request : /\ row'[q].kind = rows[q].kind /\ row'[q].config = rows[q].config
                               /\ row'[q].src = rows[q].src /\ row'[q].op = rows[q].op
                               /\ row'[q].status = "none" <=> rows[q].status = "none"
                               /\ rows[q].status = "none" => row'[q] = rows[q]
        BY <4>1, <4>5 DEF Cascade, RequestRows
      <4>8. \A q \in Request : row[q].kind = "none" => q /= m.r /\ row[q].status = "none"
        BY <2>4, <1>a DEF RowsFit, NoRow
      <4>9. \A q \in Request : SameRequest(q)
        BY <4>5, <4>7, <4>8, <3>0, <2>3 DEF SameRequest
      <4> QED BY <4>4, <4>6, <4>9, <3>0, <1>b, <1>f
    <3> QED BY <3>1, <3>2
  <2> QED BY <2>1, <2>6, <2>7, <2>8
<1>6. CASE disconnect
  <2>1. /\ reports' = Tail(reports) /\ reports /= <<>> /\ Fault("disconnect")
        /\ UNCHANGED <<planeVars, agentVars>>
    BY <1>6 DEF disconnect
  <2>2. reports' \in Seq(Reports) /\ NothingNew
    BY <2>1, <1>b, Taking
  <2>3. UNCHANGED <<target, row, state, handling>>
    BY <2>1 DEF planeVars
  <2>4. DeploymentsTypeOK'
    BY <2>1, <2>2, <2>3, <1>b, <1>e, <1>g
  <2> QED BY <2>1, <2>2, <2>3, <2>4, <1>g, <1>h DEF PlaneMove
<1> QED BY <1>1, <1>2, <1>3, <1>4, <1>5, <1>6 DEF PlaneStep

\* The target is created or edited: nobody is at work for it.
TargetMove ==
  /\ UNCHANGED <<row, state, handling, reports, agentVars>>
  /\ target' \in TargetRows /\ target'.row /\ ActiveDeployments = {}
  /\ \/ UNCHANGED history /\ \A r \in Request : row[r].kind = "none"
     \/ /\ history' = [history EXCEPT !.edited = TRUE]
        /\ ~ContainerActive /\ target.row

LEMMA TargetMoves ==
  ASSUME DeploymentsTypeOK, RowsFit, createDeploymentTarget \/ updateDeploymentTarget
  PROVE  TargetMove
<1>1. CASE createDeploymentTarget
  <2>1. PICK c \in Configs : target' = [row |-> TRUE, config |-> c]
    BY <1>1 DEF createDeploymentTarget, CreateDeploymentTarget, deploymentTargetFromInput
  <2>2. target' \in TargetRows /\ target'.row = TRUE
    BY <2>1 DEF TargetRows
  <2>3. ActiveDeployments = {}
    BY <1>1 DEF createDeploymentTarget, ActiveDeployments, RowsFit, NoRow, Active
  <2> QED BY <1>1, <2>2, <2>3 DEF createDeploymentTarget, TargetMove
<1>2. CASE updateDeploymentTarget
  <2>1. PICK c \in Configs : UpdateDeploymentTarget(c)
    BY <1>2 DEF updateDeploymentTarget, deploymentTargetFromInput
  <2>2. target \in TargetRows /\ target.row
    BY <2>1 DEF DeploymentsTypeOK, UpdateDeploymentTarget
  <2>3. target' = [target EXCEPT !.config = c]
    BY <2>1 DEF UpdateDeploymentTarget
  <2>4. target' \in TargetRows /\ target'.row = target.row
    BY <2>2, <2>3 DEF TargetRows
  <2> QED BY <1>2, <2>1, <2>2, <2>4
          DEF updateDeploymentTarget, UpdateDeploymentTarget, DeploymentActive, TargetMove
<1> QED BY <1>1, <1>2

LEMMA Steps ==
  ASSUME DeploymentsInv, Next
  PROVE  \/ \E r \in Request : \E b \in Stages : \E m \in Reports : Agent(r) /\ AgentMove(r, b, m)
         \/ \E r \in Request : \E x \in RequestRows : NewRequest(r, x)
         \/ TargetMove
         \/ PlaneStep /\ PlaneMove
         \/ crash
         \/ prune
<1>1. DeploymentsTypeOK /\ RowsFit /\ StagesFit
  BY DEF DeploymentsInv
<1>2. \/ \E r \in Request : Agent(r)
      \/ \E r \in Request : Asked(r)
      \/ createDeploymentTarget \/ updateDeploymentTarget \/ PlaneStep \/ crash \/ prune
  BY DEF Next, Administrator, Asked, PlaneStep
<1> QED BY <1>1, <1>2, AgentMoves, NewRequests, TargetMoves, PlaneMoves

-----------------------------------------------------------------------------
(* What an execution does to the releases and to Docker *)

Work(r) == \/ createRelease(r) \/ up(r) \/ verify(r) \/ unlinkCurrent(r) \/ linkCurrent(r)
           \/ rollback(r) \/ ContainerAction(r) \/ deleteTarget(r) \/ removeRoot(r)

\* It has the deployer's mutex while it does anything.
LEMMA Exclusive ==
  ASSUME StagesFit, NEW r \in Request, Agent(r)
  PROVE  \/ UNCHANGED <<disk, docker>>
         \/ /\ Work(r) /\ exec[r] \notin Resting
            /\ \A q \in Request \ {r} : exec[q] \in Outside
<1>1. CASE begin(r) \/ finish(r) \/ preflight(r)
  BY <1>1 DEF begin, finish, preflight
<1>2. CASE Work(r)
  <2>1. exec[r] \notin Resting /\ (exec[r] \notin Outside \/ ~Locked)
    BY <1>2 DEF Work, createRelease, up, verify, unlinkCurrent, linkCurrent, removeRoot,
                rollback, ContainerAction, deleteTarget, Enter, At, Resting, Outside
  <2> QED BY <1>2, <2>1 DEF StagesFit, Locked
<1> QED BY <1>1, <1>2 DEF Agent, Work

LEMMA EffectTypes ==
  ASSUME DeploymentsTypeOK, RowsFit, StagesFit, NEW r \in Request, Agent(r)
  PROVE  disk' \in Disks /\ docker' \in Dockers
<1>1. MaxRequests \in Nat
  BY DeploymentsAssumption
<1>2. /\ disk \in Disks /\ docker \in Dockers /\ row[r] \in RequestRows
      /\ exec[r] \in Stages
  BY DEF DeploymentsTypeOK
<1>3. /\ r \in 0..MaxRequests /\ 0 \in 0..MaxRequests /\ row[r].src \in 0..MaxRequests
      /\ row[r].config \in Configs \cup {"none", "partial"} /\ disk.current \in 0..MaxRequests
  BY <1>1, <1>2 DEF Request, RequestRows, Disks
<1>4. ASSUME NEW d \in Configs \cup {"none", "partial"}, disk' = [disk EXCEPT !.release[r] = d]
      PROVE  disk' \in Disks
  BY <1>2, <1>4 DEF Disks
<1>5. ASSUME NEW s \in 0..MaxRequests, NEW b \in BOOLEAN,
             docker' = [docker EXCEPT !.image = s, !.up = b]
      PROVE  docker' \in Dockers
  BY <1>2, <1>5 DEF Dockers
<1>6. CASE UNCHANGED <<disk, docker>>
  BY <1>2, <1>6
<1>7. CASE createRelease(r)
  BY <1>7, <1>2, <1>3, <1>4 DEF createRelease
<1>8. CASE up(r)
  <2>1. Built(r) \in Dockers
    BY <1>2, <1>3 DEF Built, Dockers
  <2>2. \A b \in BOOLEAN : [Built(r) EXCEPT !.image = r, !.up = b] \in Dockers
    BY <2>1, <1>3 DEF Dockers
  <2> QED BY <1>8, <1>2, <2>1, <2>2 DEF up
<1>9. CASE verify(r)
  <2>1. [docker EXCEPT !.kept = @ \cup {docker.image}] \in Dockers
    BY <1>2 DEF Dockers
  <2>2. [disk EXCEPT !.pinned = @ \cup {r}] \in Disks
    BY <1>2 DEF Disks
  <2> QED BY <1>9, <1>2, <2>1, <2>2 DEF verify, saveReleaseImages
<1>10. CASE unlinkCurrent(r)
  BY <1>10, <1>2, <1>3 DEF unlinkCurrent, Disks, None
<1>11. CASE linkCurrent(r)
  BY <1>11, <1>2, <1>3 DEF linkCurrent, Disks
<1>12. CASE rollback(r)
  BY <1>12, <1>2, <1>3, <1>5 DEF rollback, pinnedCompose
<1>13. CASE ContainerAction(r)
  <2>1. [docker EXCEPT !.up = FALSE] \in Dockers
    BY <1>2 DEF Dockers
  <2>2. [docker EXCEPT !.up = docker.image /= None] \in Dockers
    BY <1>2 DEF Dockers
  <2>3. row[r].kind \in {"start", "stop", "restart", "remove"} /\ disk' = disk
    BY <1>13 DEF ContainerAction, Enter
  <2>4. docker' = docker \/ containerActionSpec(row[r].kind)
    BY <1>13 DEF ContainerAction
  <2>5. CASE containerActionSpec(row[r].kind)
    <3>1. CASE row[r].kind = "start"
      BY <2>3, <1>2, <2>5, <3>1, <1>3, <1>5 DEF containerActionSpec, pinnedCompose
    <3>2. CASE row[r].kind = "stop"
      BY <2>3, <1>2, <2>5, <3>2, <2>1 DEF containerActionSpec
    <3>3. CASE row[r].kind = "restart"
      BY <2>3, <1>2, <2>5, <3>3, <2>2 DEF containerActionSpec
    <3>4. CASE row[r].kind = "remove"
      BY <2>3, <1>2, <2>5, <3>4, <1>3, <1>5 DEF containerActionSpec, None
    <3> QED BY <2>3, <3>1, <3>2, <3>3, <3>4, <1>2
  <2> QED BY <2>3, <2>4, <2>5, <1>2
<1>14. CASE deleteTarget(r)
  BY <1>14, <1>2, <1>3, <1>5 DEF deleteTarget, None
<1>15. CASE removeRoot(r)
  <2>1. [release |-> [q \in Request |-> "none"], pinned |-> {}, current |-> None] \in Disks
    BY <1>3 DEF Disks, None
  <2> QED BY <1>15, <1>2, <2>1 DEF removeRoot
<1> QED BY <1>6, <1>7, <1>8, <1>9, <1>10, <1>11, <1>12, <1>13, <1>14, <1>15, Exclusive DEF Work

-----------------------------------------------------------------------------
(* The shape of the state, and what every step leaves as it is *)

LEMMA TypesHold ==
  ASSUME DeploymentsInv, Next
  PROVE  DeploymentsTypeOK'
<1>a. DeploymentsTypeOK /\ RowsFit /\ StagesFit
  BY DEF DeploymentsInv
<1>m. MaxRequests \in Nat
  BY DeploymentsAssumption
<1> USE DEF DeploymentsTypeOK
<1>1. ASSUME NEW r \in Request, NEW b \in Stages, NEW m \in Reports, Agent(r), AgentMove(r, b, m)
      PROVE  DeploymentsTypeOK'
  <2>1. disk' \in Disks /\ docker' \in Dockers
    BY <1>a, <1>1, EffectTypes
  <2>2. exec' \in [Request -> Stages] /\ receipt' \in [Request -> {"none", "succeeded", "failed"}]
    BY <1>a, <1>1 DEF AgentMove
  <2>3. history' \in Histories
    BY <1>a, <1>1 DEF AgentMove, Histories
  <2> QED BY <1>a, <1>1, <2>1, <2>2, <2>3 DEF AgentMove, planeVars
<1>2. ASSUME NEW r \in Request, NEW x \in RequestRows, NewRequest(r, x)
      PROVE  DeploymentsTypeOK'
  <2>1. row' \in [Request -> RequestRows] /\ handling' \in 0..MaxRequests
    BY <1>a, <1>2, <1>m DEF NewRequest, Request
  <2>2. state' \in StateRows
    BY <1>2 DEF NewRequest, StateRows, Shown
  <2> QED BY <1>a, <1>2, <2>1, <2>2 DEF NewRequest, agentVars
<1>3. CASE TargetMove
  <2>1. history' \in Histories
    BY <1>a, <1>3 DEF TargetMove, Histories
  <2> QED BY <1>a, <1>3, <2>1 DEF TargetMove, agentVars
<1>4. CASE crash
  <2>1. reports' \in Seq(Reports)
    BY <1>a, <1>4, Cutting DEF crash
  <2>2. exec' \in [Request -> Stages]
    BY <1>4 DEF crash, Stages, Outside
  <2>3. history' \in Histories
    <3> DEFINE died == {r \in Request : exec[r] \notin {"idle", "done"}}
    <3>1. history' = [history EXCEPT !.faults = @ + 1, !.again = @ \cup died] 
      BY <1>4 DEF crash
    <3>2. history \in Histories
      BY <1>a
    <3>3. history.again \cup died \in SUBSET Request /\ history.faults + 1 \in Nat
      BY <3>2 DEF Histories
    <3> DEFINE again == history.again \cup died
    <3>4. history' = [history EXCEPT !.faults = history.faults + 1, !.again = again]
      BY <3>1, <3>2 DEF Histories
    <3> HIDE DEF again, DeploymentsTypeOK
    <3> QED BY <3>2, <3>3, <3>4 DEF Histories, again
  <2> QED BY <1>a, <1>4, <2>1, <2>2, <2>3 DEF crash, planeVars
<1>5. CASE prune
  <2>1. docker' \in Dockers
    <3> DEFINE rest == docker.images \cap (docker.kept \cup {docker.latest, docker.image})
    <3>1. docker' = [docker EXCEPT !.images = rest]
      BY <1>5, <1>a DEF prune
    <3>2. docker \in Dockers
      BY <1>a
    <3>3. rest \in SUBSET Request
      BY <3>2 DEF Dockers
    <3> HIDE DEF rest, DeploymentsTypeOK
    <3> QED BY <3>1, <3>2, <3>3 DEF Dockers
  <2>2. history \in Histories /\ history' = [history EXCEPT !.faults = @ + 1]
    BY <1>a, <1>5 DEF prune, Fault
  <2>3. history' \in Histories
    BY <2>2 DEF Histories
  <2> QED BY <1>a, <1>5, <2>1, <2>3 DEF prune, planeVars
<1> QED BY <1>1, <1>2, <1>3, <1>4, <1>5, PlaneMoves, Steps

\* A request stays what it is, and the past is not forgotten.
Lasting ==
  /\ \A q \in Request : row[q].kind /= "none" =>
        /\ row'[q].kind = row[q].kind /\ row'[q].config = row[q].config
        /\ row'[q].src = row[q].src /\ (row[q].op /= "none" => row'[q].op /= "none")
  /\ history.wiped => history'.wiped
  /\ history.edited => history'.edited
  /\ history.cleared => history'.cleared
  /\ history.again \subseteq history'.again

LEMMA Lasts ==
  ASSUME DeploymentsInv, Next
  PROVE  Lasting
<1>a. DeploymentsTypeOK /\ row \in [Request -> RequestRows] /\ history \in Histories
  BY DEF DeploymentsInv, DeploymentsTypeOK
<1>h. UNCHANGED history => /\ history.wiped => history'.wiped
                           /\ history.edited => history'.edited
                           /\ history.cleared => history'.cleared
                           /\ history.again \subseteq history'.again
  OBVIOUS
<1>1. ASSUME NEW r \in Request, NEW b \in Stages, NEW m \in Reports, AgentMove(r, b, m)
      PROVE  Lasting
  <2>1. /\ history' = [history EXCEPT !.wiped = @ \/ b = "wipe"]
        /\ row' = row
    BY <1>1 DEF AgentMove, planeVars
  <2> QED BY <2>1, <1>a DEF Lasting, Histories
<1>2. ASSUME NEW r \in Request, NEW x \in RequestRows, NewRequest(r, x)
      PROVE  Lasting
  BY <1>2, <1>a, <1>h DEF NewRequest, Unused, Lasting
<1>3. CASE TargetMove
  BY <1>3, <1>a, <1>h DEF TargetMove, Lasting, Histories
<1>4. CASE PlaneMove
  BY <1>4 DEF PlaneMove, SameRequest, SameHistory, Lasting
<1>5. CASE crash
  BY <1>5, <1>a DEF crash, planeVars, Lasting, Histories
<1>6. CASE prune
  BY <1>6, <1>a DEF prune, Fault, planeVars, Lasting, Histories
<1> QED BY <1>1, <1>2, <1>3, <1>4, <1>5, <1>6, Steps

LEMMA RowsStay ==
  ASSUME DeploymentsInv, Next
  PROVE  RowsFit'
<1>a. RowsFit /\ row \in [Request -> RequestRows] /\ target \in TargetRows
  BY DEF DeploymentsInv, DeploymentsTypeOK
<1>1. ASSUME NEW r \in Request, NEW x \in RequestRows, NewRequest(r, x)
      PROVE  RowsFit'
  <2>1. /\ row' = [row EXCEPT ![r] = x] /\ Unused(r) /\ target.row
        /\ x.kind = "deploy" => x.src = r
        /\ x.kind = "rollback" => x.src \in Request
        /\ \/ x.kind \in Deploying /\ x.status = "queued"
           \/ x.kind \in ContainerActions /\ x.status = "none" /\ x.op = "queued"
    BY <1>1 DEF NewRequest, Free
  <2>2. x.config \in Configs
    BY <1>1, <1>a, <2>1 DEF NewRequest, TargetRows, RowsFit
  <2>3. \A q \in Request : row'[q] = IF q = r THEN x ELSE row[q]
    BY <2>1, <1>a
  <2> QED BY <2>1, <2>2, <2>3, <1>a DEF RowsFit, Unused, Deploying, ContainerActions
<1>2. CASE PlaneMove
  BY <1>2, <1>a DEF PlaneMove, SameRequest, RowsFit
<1>3. UNCHANGED row => RowsFit'
  BY <1>a DEF RowsFit
<1> QED BY <1>1, <1>2, <1>3, Steps DEF AgentMove, TargetMove, crash, prune, planeVars

LEMMA HandlersStay ==
  ASSUME DeploymentsInv, Next
  PROVE  HandlerFits'
<1>a. /\ HandlerFits /\ ReportsHold /\ DeploymentsTypeOK
      /\ row \in [Request -> RequestRows] /\ handling \in 0..MaxRequests
  BY DEF DeploymentsInv, DeploymentsTypeOK
<1>m. MaxRequests \in Nat
  BY DeploymentsAssumption
<1>b. handling /= None => handling \in Request
  BY <1>a, <1>m DEF None, Request
<1>1. ASSUME NEW r \in Request, NEW x \in RequestRows, NewRequest(r, x)
      PROVE  HandlerFits'
  <2>1. row' = [row EXCEPT ![r] = x] /\ row[r].kind = "none"
    BY <1>1 DEF NewRequest, Unused
  <2>2. handling /= None => row[handling].kind /= "none"
    BY <1>a DEF HandlerFits, Deploying
  <2> QED BY <1>1, <2>1, <2>2, <1>a, <1>b DEF NewRequest, HandlerFits
<1>2. UNCHANGED <<row, handling>> => HandlerFits'
  BY <1>a DEF HandlerFits
<1>3. CASE PlaneStep
  <2>1. CASE handling' = None
    BY <2>1 DEF HandlerFits
  <2>2. ASSUME NEW r \in Request, deleteDeployment(r)
        PROVE  HandlerFits'
    BY <2>2, <1>a, <1>b DEF deleteDeployment, DeleteDeployment, HandlerFits, Finished, Succeeded
  <2>3. CASE handle
    <3> DEFINE m == Head(reports)
    <3>1. reports /= <<>> /\ handling' = handling
          /\ \/ m.kind = "started" /\ handleStarted(m)
             \/ m.kind = "status" /\ handleStatus(m)
             \/ m.kind = "result" /\ handleResult(m)
      BY <2>3 DEF handle
    <3>2. m.r \in Request /\ row[m.r].op /= "none"
      BY <3>1, <1>a, FirstReport
    <3> HIDE DEF m
    <3>3. handling /= None => handling /= m.r
      BY <3>2, <1>a DEF HandlerFits
    <3>4. CASE handling /= None
      <4>1. \A rows \in {row, [row EXCEPT ![m.r].op = "running"], [row EXCEPT ![m.r].op = "done"],
                         [row EXCEPT ![m.r].op = IF @ = "queued" THEN "running" ELSE @],
                         [row EXCEPT ![m.r].status = m.status]} :
               rows[handling] = row[handling]
        BY <3>2, <3>3, <3>4, <1>a, <1>b
      <4>2. \/ row'[handling] = row[handling]
            \/ row' = Cascade([row EXCEPT ![m.r].op = "done"])
        BY <3>1, <4>1 DEF handleStarted, handleStatus, handleResult, SaveDeploymentStatus
      <4>3. row'[handling] = row[handling]
            \/ row'[handling] = [row[handling] EXCEPT !.status = "deleted"]
        <5> DEFINE rows == [row EXCEPT ![m.r].op = "done"]
        <5>1. rows[handling] = row[handling]
          BY <4>1
        <5> HIDE DEF rows
        <5>2. row' = Cascade(rows) => row'[handling] = rows[handling]
                                      \/ row'[handling] = [rows[handling] EXCEPT !.status = "deleted"]
          BY <3>4, <1>b DEF Cascade
        <5> QED BY <5>1, <5>2, <4>2 DEF rows
      <4> QED BY <3>1, <3>4, <4>3, <1>a, <1>b DEF HandlerFits, RequestRows
    <3> QED BY <3>1, <3>4 DEF HandlerFits
  <2> QED BY <1>2, <1>3, <2>1, <2>2, <2>3
          DEF PlaneStep, QueueEncryptedResourceOperation, handlerFails, restart, disconnect, planeVars
<1> QED BY <1>1, <1>2, <1>3, Steps DEF AgentMove, TargetMove, crash, prune, planeVars

LEMMA StagesStay ==
  ASSUME DeploymentsInv, Next
  PROVE  StagesFit'
<1>a. /\ StagesFit /\ RowsFit /\ ReportsHold
      /\ exec \in [Request -> Stages] /\ row \in [Request -> RequestRows]
      /\ receipt \in [Request -> {"none", "succeeded", "failed"}] /\ history \in Histories
  BY DEF DeploymentsInv, DeploymentsTypeOK
<1>1. ASSUME NEW r \in Request, NEW b \in Stages, NEW m \in Reports, AgentMove(r, b, m)
      PROVE  StagesFit'
  <2>1. /\ UNCHANGED planeVars /\ exec' = [exec EXCEPT ![r] = b]
        /\ \A q \in Request : exec'[q] = IF q = r THEN b ELSE exec[q]
    BY <1>1, <1>a DEF AgentMove
  <2>2. history'.wiped = (history.wiped \/ b = "wipe")
    BY <1>1, <1>a DEF AgentMove, Histories
  <2>3. /\ \A q \in Request : q /= r => receipt'[q] = receipt[q]
        /\ b = "done" => receipt'[r] /= "none"
        /\ receipt'[r] /= "none" => b = "done"
        /\ receipt[r] /= "none" => receipt'[r] /= "none"
    BY <1>1, <1>a DEF AgentMove, StagesFit, Resting
  <2>4. row[r].op /= "none"
    BY <1>1, <1>a DEF AgentMove, StagesFit, Resting
  <2>5. ASSUME NEW q \in Request
        PROVE  /\ row'[q].op = "none" => exec'[q] = "idle" /\ receipt'[q] = "none"
               /\ row'[q].op = "done" => receipt'[q] /= "none"
               /\ exec'[q] = "done" => receipt'[q] /= "none"
               /\ receipt'[q] /= "none" => exec'[q] \in {"idle", "done"}
               /\ exec'[q] \in {"release", "up", "images"} => row'[q].kind = "deploy"
               /\ exec'[q] \in {"promote", "link"} => row'[q].kind \in Deploying
               /\ exec'[q] = "wipe" => row'[q].kind = "delete" /\ history'.wiped
    <3>1. row' = row
      BY <2>1 DEF planeVars
    <3>2. CASE q = r
      BY <3>1, <3>2, <2>1, <2>2, <2>3, <2>4, <1>1, <1>a DEF AgentMove, StagesFit
    <3>3. CASE q /= r
      BY <3>1, <3>3, <2>1, <2>2, <2>3, <1>a DEF StagesFit
    <3> QED BY <3>2, <3>3
  <2>6. ASSUME NEW p \in Request, NEW q \in Request, exec'[p] \notin Outside, exec'[q] \notin Outside
        PROVE  p = q
    <3>1. b \notin Outside => exec[r] \notin Outside \/ ~Locked
      BY <1>1 DEF AgentMove
    <3> QED BY <3>1, <2>1, <2>6, <1>a DEF StagesFit, Locked
  <2> QED BY <2>5, <2>6 DEF StagesFit
<1>2. ASSUME NEW r \in Request, NEW x \in RequestRows, NewRequest(r, x)
      PROVE  StagesFit'
  <2>1. /\ row' = [row EXCEPT ![r] = x] /\ row[r] = NoRow /\ x.op /= "done"
        /\ UNCHANGED <<agentVars, history>>
    BY <1>2, <1>a DEF NewRequest, Unused, RowsFit
  <2>2. exec[r] = "idle" /\ receipt[r] = "none"
    BY <2>1, <1>a DEF StagesFit, NoRow
  <2> QED BY <2>1, <2>2, <1>a DEF StagesFit, agentVars
<1>3. CASE PlaneMove
  <2>1. /\ exec' = exec /\ receipt' = receipt /\ history'.wiped = history.wiped
        /\ \A q \in Request : SameRequest(q)
    BY <1>3 DEF PlaneMove, SameHistory, agentVars
  <2>2. \A q \in Request : /\ row'[q].kind = row[q].kind
                           /\ row'[q].op = "none" => row[q].op = "none"
                           /\ row'[q].op = "done" => row[q].op = "done" \/ receipt[q] /= "none"
    BY <2>1 DEF SameRequest
  <2> QED BY <2>1, <2>2, <1>a DEF StagesFit
<1>4. CASE crash
  <2>1. /\ exec' = [r \in Request |-> "idle"] /\ receipt' = receipt /\ row' = row
        /\ history'.wiped = history.wiped
    BY <1>4, <1>a DEF crash, planeVars, Histories
  <2> QED BY <2>1, <1>a DEF StagesFit, Outside
<1>5. UNCHANGED <<row, exec, receipt>> /\ history'.wiped = history.wiped => StagesFit'
  BY <1>a DEF StagesFit
<1>6. CASE TargetMove
  BY <1>5, <1>6, <1>a DEF TargetMove, agentVars, Histories
<1>7. CASE prune
  BY <1>5, <1>7, <1>a DEF prune, Fault, planeVars, Histories
<1> QED BY <1>1, <1>2, <1>3, <1>4, <1>6, <1>7, Steps

\* Whatever happens, a release with its images stays, unless the target is wiped.
LEMMA IntactStays ==
  ASSUME DeploymentsInv, Next, NEW q \in Request, Intact(q), ~history'.wiped
  PROVE  Intact(q)'
<1>a. /\ StagesFit /\ RowsFit /\ ReleasesFit /\ Lasting
      /\ disk \in Disks /\ docker \in Dockers
  BY Lasts DEF DeploymentsInv, DeploymentsTypeOK
<1>b. row[q].kind = "deploy" /\ row[q].config \in Configs
  BY <1>a DEF Intact, ReleasesFit, RowsFit
<1>c. row'[q].config = row[q].config
  BY <1>a, <1>b DEF Lasting
<1>d. disk.release[q] /= "none"
  BY <1>b, DeploymentsAssumption DEF Intact
<1>1. SUFFICES /\ disk'.release[q] = disk.release[q] /\ disk.pinned \subseteq disk'.pinned
               /\ docker.kept \subseteq docker'.kept /\ q \in docker'.images
  BY <1>c DEF Intact
<1>2. CASE UNCHANGED <<disk, docker>>
  BY <1>2 DEF Intact
<1>3. CASE prune
  <2>1. /\ disk' = disk
        /\ docker' = [docker EXCEPT !.images = @ \cap (docker.kept \cup {docker.latest, docker.image})]
    BY <1>3 DEF prune
  <2> QED BY <2>1, <1>a DEF Intact, Dockers
<1>4. ASSUME NEW r \in Request, Work(r)
      PROVE  /\ disk'.release[q] = disk.release[q] /\ disk.pinned \subseteq disk'.pinned
             /\ docker.kept \subseteq docker'.kept /\ q \in docker'.images
  <2>1. CASE createRelease(r)
    <3>1. docker' = docker
          /\ (disk' = disk \/ \E d : disk.release[r] = "none" /\ disk' = [disk EXCEPT !.release[r] = d])
      BY <2>1 DEF createRelease
    <3> QED BY <3>1, <1>a, <1>d DEF Intact, Disks
  <2>2. CASE up(r)
    <3>1. /\ disk' = disk
          /\ \/ docker' = docker \/ docker' = Built(r)
             \/ \E b \in BOOLEAN : docker' = [Built(r) EXCEPT !.image = r, !.up = b]
      BY <2>2 DEF up
    <3> QED BY <3>1, <1>a DEF Intact, Dockers, Built
  <2>3. CASE verify(r)
    <3>1. \/ disk' = disk /\ docker' = docker
          \/ /\ docker'.kept = docker.kept \cup {docker.image} /\ docker'.images = docker.images
             /\ disk'.release = disk.release /\ disk'.pinned = disk.pinned \cup {r}
      BY <2>3, <1>a DEF verify, saveReleaseImages, Disks, Dockers
    <3> QED BY <3>1 DEF Intact
  <2>4. CASE unlinkCurrent(r) \/ linkCurrent(r)
    BY <2>4, <1>a DEF unlinkCurrent, linkCurrent, Intact, Disks
  <2>5. CASE rollback(r)
    BY <2>5, <1>a DEF rollback, pinnedCompose, Intact, Dockers
  <2>6. CASE ContainerAction(r)
    <3>1. disk' = disk /\ row[r].kind \in {"start", "stop", "restart", "remove"}
          /\ (docker' = docker \/ containerActionSpec(row[r].kind))
      BY <2>6 DEF ContainerAction, Enter
    <3>2. /\ docker.kept = docker'.kept /\ docker.images = docker'.images
      BY <3>1, <1>a DEF containerActionSpec, pinnedCompose, Dockers
    <3> QED BY <3>1, <3>2 DEF Intact
  <2>7. CASE deleteTarget(r)
    BY <2>7, <1>a DEF deleteTarget, Intact, Dockers
  <2>8. CASE removeRoot(r)
    BY <2>8, <1>a DEF removeRoot, At, StagesFit, Lasting
  <2> QED BY <1>4, <2>1, <2>2, <2>3, <2>4, <2>5, <2>6, <2>7, <2>8 DEF Work
<1>5. CASE PlaneStep /\ PlaneMove
  BY <1>2, <1>5 DEF PlaneMove, agentVars
<1> QED BY <1>a, <1>2, <1>3, <1>4, <1>5, Steps, Exclusive
        DEF NewRequest, TargetMove, crash, agentVars

LEMMA StagesHoldOn ==
  ASSUME DeploymentsInv, Next
  PROVE  StagesHold'
<1>a. /\ StagesFit /\ StagesHold /\ RowsFit /\ ReleasesFit /\ Lasting /\ DeploymentsTypeOK
      /\ disk \in Disks /\ docker \in Dockers
      /\ exec \in [Request -> Stages] /\ row \in [Request -> RequestRows]
  BY Lasts DEF DeploymentsInv, DeploymentsTypeOK
<1>m. MaxRequests \in Nat
  BY DeploymentsAssumption
<1>b. ASSUME NEW q \in Request, exec[q] \notin Outside
      PROVE  row'[q].kind = row[q].kind /\ row'[q].config = row[q].config /\ row'[q].src = row[q].src
  <2>1. row[q].kind /= "none"
    BY <1>a, <1>b DEF StagesFit, Stages, Outside, Deploying
  <2> QED BY <2>1, <1>a DEF Lasting
<1>c. ASSUME NEW q \in Request, UNCHANGED <<disk, docker>>, exec'[q] = exec[q], exec[q] \notin Outside
      PROVE  /\ exec'[q] \in {"up", "images"} => disk'.release[q] = row'[q].config
             /\ exec'[q] = "images" => docker'.image = q /\ docker'.up /\ q \in docker'.images
             /\ exec'[q] \in {"promote", "link"} => docker'.image = row'[q].src /\ docker'.up
             /\ exec'[q] \in {"promote", "link"} /\ row'[q].kind = "deploy" => Intact(q)'
  BY <1>a, <1>b, <1>c DEF StagesHold, Intact
<1>d. \A q \in Request : exec'[q] \in {"up", "images", "promote", "link"} => exec'[q] \notin Outside
  BY DEF Outside
<1>1. ASSUME UNCHANGED <<exec, disk, docker>>
      PROVE  StagesHold'
  BY <1>1, <1>c, <1>d DEF StagesHold
<1>2. CASE prune
  <2>1. /\ disk' = disk /\ exec' = exec /\ row' = row
        /\ docker' = [docker EXCEPT !.images = @ \cap (docker.kept \cup {docker.latest, docker.image})]
    BY <1>2 DEF prune, planeVars
  <2>2. /\ docker'.image = docker.image /\ docker'.up = docker.up /\ docker'.kept = docker.kept
        /\ docker'.images = docker.images \cap (docker.kept \cup {docker.latest, docker.image})
    BY <2>1, <1>a DEF Dockers
  <2> QED BY <2>1, <2>2, <1>a DEF StagesHold, Intact
<1>3. CASE crash
  <2>1. \A q \in Request : exec'[q] = "idle"
    BY <1>3 DEF crash
  <2> QED BY <2>1 DEF StagesHold
<1>4. ASSUME NEW r \in Request, NEW b \in Stages, NEW m \in Reports, Agent(r), AgentMove(r, b, m)
      PROVE  StagesHold'
  <2>1. /\ row' = row /\ exec' = [exec EXCEPT ![r] = b]
        /\ \A q \in Request : exec'[q] = IF q = r THEN b ELSE exec[q]
    BY <1>4, <1>a DEF AgentMove, planeVars
  <2>2. ASSUME NEW q \in Request, q /= r, exec'[q] \in {"up", "images", "promote", "link"}
        PROVE  UNCHANGED <<disk, docker>> /\ exec'[q] = exec[q] /\ exec[q] \notin Outside
    BY <2>1, <2>2, <1>4, <1>a, Exclusive DEF Outside
  <2>3. SUFFICES /\ b \in {"up", "images"} => disk'.release[r] = row[r].config
                 /\ b = "images" => docker'.image = r /\ docker'.up /\ r \in docker'.images
                 /\ b \in {"promote", "link"} => docker'.image = row[r].src /\ docker'.up
                 /\ b \in {"promote", "link"} /\ row[r].kind = "deploy" =>
                       /\ disk'.release[r] = row[r].config /\ r \in disk'.pinned
                       /\ r \in docker'.images /\ r \in docker'.kept
    BY <2>1, <2>2, <1>c DEF StagesHold, Intact
  <2>b. exec'[r] = b
    BY <2>1
  <2>4. CASE b \notin {"up", "images", "promote", "link"}
    BY <2>4
  <2>5. CASE createRelease(r) /\ b = "up"
    <3>1. disk' = [disk EXCEPT !.release[r] = row[r].config]
      BY <2>5, <2>b, <1>a DEF createRelease, Go, Fails
    <3> QED BY <3>1, <2>5, <1>a DEF Disks
  <2>6. CASE up(r) /\ b = "images"
    <3>1. docker' = [Built(r) EXCEPT !.image = r, !.up = TRUE] /\ disk' = disk /\ exec[r] = "up"
      BY <2>6, <2>b, <1>a DEF up, Go, Fails, At
    <3>2. docker'.image = r /\ docker'.up = TRUE /\ r \in docker'.images
      BY <3>1, <1>a DEF Built, Dockers
    <3> QED BY <3>1, <3>2, <2>6, <1>a DEF StagesHold
  <2>7. CASE verify(r) /\ b = "promote"
    <3>1. saveReleaseImages(r) /\ exec[r] = "images"
      BY <2>7, <2>b, <1>a DEF verify, Go, Fails, At
    <3>2. /\ docker'.image = docker.image /\ docker'.up = docker.up
          /\ docker'.images = docker.images /\ docker'.kept = docker.kept \cup {docker.image}
          /\ disk'.release = disk.release /\ r \in disk'.pinned
      BY <3>1, <1>a DEF saveReleaseImages, Dockers, Disks
    <3>3. /\ row[r].kind = "deploy" /\ disk.release[r] = row[r].config
          /\ docker.image = r /\ docker.up /\ r \in docker.images /\ row[r].src = r
      BY <3>1, <1>a DEF StagesHold, StagesFit, RowsFit
    <3> QED BY <3>2, <3>3, <2>7
  <2>8. CASE unlinkCurrent(r) /\ b = "link"
    <3>1. /\ exec[r] = "promote" /\ docker' = docker
          /\ disk'.release = disk.release /\ disk'.pinned = disk.pinned
      BY <2>8, <1>a DEF unlinkCurrent, At, Disks
    <3> QED BY <3>1, <2>8, <1>a DEF StagesHold, Intact
  <2>9. CASE rollback(r) /\ b = "promote"
    <3>1. row[r].kind = "rollback" /\ pinnedCompose(row[r].src)
      BY <2>9, <2>b, <1>a DEF rollback, Go, Fails, Enter
    <3>2. docker'.image = row[r].src /\ docker'.up = TRUE
      BY <3>1, <1>a DEF pinnedCompose, Dockers
    <3> QED BY <3>1, <3>2, <2>9
  <2>10. \/ b \notin {"up", "images", "promote", "link"}
         \/ createRelease(r) /\ b = "up"
         \/ up(r) /\ b = "images"
         \/ verify(r) /\ b = "promote"
         \/ unlinkCurrent(r) /\ b = "link"
         \/ rollback(r) /\ b = "promote"
    <3>1. exec \in [Request -> Stages] /\ exec'[r] = b /\ \A s : Go(r, s) => exec'[r] = s
      BY <2>b, <1>a DEF Go
    <3>2. begin(r) \/ finish(r) => b \in {"wait", "done"}
      BY <3>1, <1>a DEF begin, finish
    <3>3. preflight(r) => b \in {"release", "failed"}
      BY <3>1 DEF preflight, Preflight
    <3>4. createRelease(r) => b \in {"up", "failed"}
      BY <3>1 DEF createRelease, Fails
    <3>5. up(r) => b \in {"images", "failed"}
      BY <3>1 DEF up, Fails
    <3>6. verify(r) => b \in {"promote", "failed"}
      BY <3>1 DEF verify, Fails
    <3>7. unlinkCurrent(r) => b = "link"
      BY <3>1 DEF unlinkCurrent
    <3>8. linkCurrent(r) => b = "succeeded"
      BY <3>1 DEF linkCurrent
    <3>9. rollback(r) => b \in {"promote", "failed"}
      BY <3>1 DEF rollback, Fails
    <3>10. ContainerAction(r) => b \in {"succeeded", "failed"}
      BY <3>1 DEF ContainerAction
    <3>11. deleteTarget(r) \/ removeRoot(r) => b \in {"succeeded", "failed", "wipe"}
      BY <3>1 DEF deleteTarget, removeRoot
    <3> QED BY <1>4, <3>2, <3>3, <3>4, <3>5, <3>6, <3>7, <3>8, <3>9, <3>10, <3>11 DEF Agent
  <2> QED BY <2>4, <2>5, <2>6, <2>7, <2>8, <2>9, <2>10
<1> QED BY <1>1, <1>2, <1>3, <1>4, Steps DEF NewRequest, TargetMove, PlaneMove, agentVars

-----------------------------------------------------------------------------
(* What the reports say *)

LEMMA ReportSources ==
  ASSUME DeploymentsInv, Next
  PROVE  \/ NothingNew
         \/ \E r \in Request : \E b \in Stages : \E m \in Reports : Agent(r) /\ AgentMove(r, b, m)
<1>1. reports \in Seq(Reports)
  BY DEF DeploymentsInv, DeploymentsTypeOK
<1>2. UNCHANGED reports => NothingNew
  BY <1>1, Standing
<1>3. crash => NothingNew
  BY <1>1, Cutting DEF crash
<1> QED BY <1>2, <1>3, Steps DEF NewRequest, TargetMove, PlaneMove, prune

\* An execution that has ended stays so, unless it is repeated.
LEMMA EndedStays ==
  ASSUME DeploymentsInv, Next, NEW q \in Request
  PROVE  /\ receipt[q] /= "none" => receipt'[q] = receipt[q]
         /\ q \notin history'.again =>
               /\ exec[q] /= "idle" \/ receipt[q] /= "none" => exec'[q] /= "idle" \/ receipt'[q] /= "none"
               /\ Ended(q) => Ended(q)'
               /\ Done(q) => Done(q)'
<1>a. /\ StagesFit /\ exec \in [Request -> Stages] /\ history \in Histories
      /\ receipt \in [Request -> {"none", "succeeded", "failed"}]
  BY DEF DeploymentsInv, DeploymentsTypeOK
<1> USE DEF Ended, Done
<1>1. ASSUME NEW r \in Request, NEW b \in Stages, NEW m \in Reports, AgentMove(r, b, m)
      PROVE  /\ receipt[q] /= "none" => receipt'[q] = receipt[q]
             /\ exec[q] /= "idle" \/ receipt[q] /= "none" => exec'[q] /= "idle" \/ receipt'[q] /= "none"
             /\ Ended(q) => Ended(q)'
             /\ Done(q) => Done(q)'
  <2>1. CASE q /= r
    <3>1. exec'[q] = exec[q] /\ receipt'[q] = receipt[q]
      BY <1>1, <1>a, <2>1 DEF AgentMove
    <3> QED BY <3>1
  <2>2. CASE q = r
    <3>1. exec'[q] = b /\ b /= "idle" /\ exec[q] /= "done"
          /\ \/ receipt' = receipt /\ exec[q] = "idle"
             \/ receipt' = receipt /\ exec[q] \notin Resting
             \/ receipt'[q] = exec[q] /\ exec[q] \in {"succeeded", "failed"}
      BY <1>1, <1>a, <2>2 DEF AgentMove
    <3> QED BY <3>1, <1>a, <2>2 DEF StagesFit, Resting
  <2> QED BY <2>1, <2>2
<1>2. CASE crash
  <2>1. /\ receipt' = receipt /\ exec'[q] = "idle"
        /\ q \notin history'.again => exec[q] \in {"idle", "done"}
    BY <1>2, <1>a DEF crash, Histories
  <2> QED BY <2>1, <1>a DEF StagesFit
<1> QED BY <1>1, <1>2, Steps DEF NewRequest, TargetMove, PlaneMove, prune, agentVars

\* What has ended reports no more status.
LEMMA EndedIsSilent ==
  ASSUME StagesFit, NEW r \in Request, Ended(r), NEW b \in Stages, NEW m \in Reports,
         AgentMove(r, b, m)
  PROVE  m.kind /= "status"
BY DEF AgentMove, Ended, Resting, StagesFit

LEMMA ReportsHoldOn ==
  ASSUME DeploymentsInv, Next
  PROVE  ReportsHold'
<1>a. /\ StagesFit /\ StagesHold /\ RowsFit /\ Lasting /\ ReportsHold
      /\ exec \in [Request -> Stages] /\ row \in [Request -> RequestRows]
      /\ receipt \in [Request -> {"none", "succeeded", "failed"}] /\ history \in Histories
      /\ reports \in Seq(Reports)
  BY Lasts DEF DeploymentsInv, DeploymentsTypeOK
<1> DEFINE Holds(m) ==
      /\ row[m.r].op /= "none"
      /\ m.kind = "result" => receipt[m.r] = m.status
      /\ m.kind = "status" => row[m.r].kind \in Deploying
      /\ m.kind = "status" /\ m.status = "succeeded" =>
             row[m.r].kind = "deploy" /\ (history.wiped \/ Intact(m.r))
      /\ m.r \notin history.again =>
             /\ exec[m.r] /= "idle" \/ receipt[m.r] /= "none"
             /\ m.kind = "status" /\ m.status \in Finished => Ended(m.r)
             /\ m.kind = "status" /\ m.status \in Succeeded => Done(m.r)
<1>1. ASSUME NEW m \in Reports, Holds(m)
      PROVE  Holds(m)'
  <2>1. m.r \in Request /\ (m.kind = "result" => m.status /= "none")
    BY DEF Reports
  <2>2. row[m.r].kind /= "none"
    BY <1>1, <2>1, <1>a DEF RowsFit, NoRow
  <2>3. row'[m.r].op /= "none" /\ row'[m.r].kind = row[m.r].kind
    BY <1>1, <2>1, <2>2, <1>a DEF Lasting
  <2>4. history'.wiped \/ (Intact(m.r) => Intact(m.r)')
    BY <2>1, IntactStays
  <2>5. /\ receipt[m.r] /= "none" => receipt'[m.r] = receipt[m.r]
        /\ m.r \notin history'.again =>
             /\ exec[m.r] /= "idle" \/ receipt[m.r] /= "none"
                => exec'[m.r] /= "idle" \/ receipt'[m.r] /= "none"
             /\ Ended(m.r) => Ended(m.r)'
             /\ Done(m.r) => Done(m.r)'
    BY <2>1, EndedStays
  <2>6. (history.wiped => history'.wiped) /\ (m.r \notin history'.again => m.r \notin history.again)
    BY <1>a DEF Lasting
  <2> QED BY <1>1, <2>1, <2>3, <2>4, <2>5, <2>6
<1>2. ASSUME NEW r \in Request, NEW b \in Stages, NEW m \in Reports, Agent(r), AgentMove(r, b, m)
      PROVE  Holds(m)'
  <2>1. /\ row' = row /\ m.r = r /\ exec'[r] = b /\ b /= "idle"
        /\ m.kind = "result" => receipt'[r] = m.status
        /\ m.kind = "status" =>
              /\ row[r].kind \in Deploying
              /\ m.status \in Finished => b \in {"succeeded", "failed"}
              /\ m.status \in Succeeded => b = "succeeded"
              /\ m.status = "succeeded" => row[r].kind = "deploy" /\ exec[r] = "link"
    BY <1>2, <1>a DEF AgentMove, planeVars
  <2>2. row[r].op /= "none"
    BY <1>2, <1>a DEF AgentMove, StagesFit, Resting
  <2>3. exec[r] = "link" /\ row[r].kind = "deploy" => history'.wiped \/ Intact(r)'
    BY <1>a, IntactStays DEF StagesHold
  <2> QED BY <2>1, <2>2, <2>3 DEF Ended, Done
<1>3. \A i \in DOMAIN reports : reports[i] \in Reports /\ Holds(reports[i])
  BY <1>a DEF ReportsHold
<1> HIDE DEF Holds
<1>4. \A i \in DOMAIN reports' : \/ \E j \in DOMAIN reports : reports'[i] = reports[j]
                                \/ \E m \in Reports : reports'[i] = m /\ Holds(m)'
  BY <1>2, ReportSources DEF NothingNew, AgentMove, Posted
<1>5. \A i \in DOMAIN reports' : \E m \in Reports : reports'[i] = m /\ Holds(m)'
  BY <1>1, <1>3, <1>4
<1> QED BY <1>5 DEF ReportsHold, Holds

LEMMA FinalIsLastStays ==
  ASSUME DeploymentsInv, Next
  PROVE  FinalIsLast'
<1>a. /\ StagesFit /\ ReportsHold /\ FinalIsLast /\ Lasting
      /\ reports \in Seq(Reports) /\ reports' \in Seq(Reports)
  BY Lasts, TypesHold DEF DeploymentsInv, DeploymentsTypeOK
<1>b. DOMAIN reports = 1..Len(reports) /\ DOMAIN reports' = 1..Len(reports')
      /\ Len(reports) \in Nat /\ Len(reports') \in Nat
  BY <1>a
<1>1. SUFFICES ASSUME NEW n \in DOMAIN reports', NEW i \in DOMAIN reports', i > n,
                      reports'[n].kind = "status", reports'[n].status \in Finished,
                      reports'[n].r \notin history'.again,
                      reports'[i].r = reports'[n].r, reports'[i].kind = "status"
               PROVE  reports'[i].status = "failed"
  BY DEF FinalIsLast, OnlyFailed
<1>2. reports'[n].r \notin history.again
  BY <1>1, <1>a DEF Lasting
<1>3. CASE NothingNew
  <2>1. PICK k \in {0, 1} : \A j \in DOMAIN reports' :
                               j + k \in DOMAIN reports /\ reports'[j] = reports[j + k]
    BY <1>3 DEF NothingNew
  <2>2. /\ n + k \in DOMAIN reports /\ reports'[n] = reports[n + k]
        /\ i + k \in DOMAIN reports /\ reports'[i] = reports[i + k] /\ i + k > n + k
    BY <2>1, <1>1, <1>b
  <2> QED BY <2>2, <1>1, <1>2, <1>a DEF FinalIsLast, OnlyFailed
<1>4. ASSUME NEW r \in Request, NEW b \in Stages, NEW m \in Reports, AgentMove(r, b, m)
      PROVE  reports'[i].status = "failed"
  <2>1. m.r = r /\ Posted(m)
    BY <1>4 DEF AgentMove
  <2>2. CASE i \in DOMAIN reports
    <3>1. n \in DOMAIN reports
      BY <2>2, <1>1, <1>b
    <3>2. reports'[n] = reports[n] /\ reports'[i] = reports[i]
      BY <2>1, <2>2, <3>1 DEF Posted
    <3> QED BY <2>2, <3>1, <3>2, <1>1, <1>2, <1>a DEF FinalIsLast, OnlyFailed
  <2>3. CASE i \notin DOMAIN reports /\ n \in DOMAIN reports
    <3>1. reports'[i] = m /\ reports'[n] = reports[n]
      BY <2>1, <2>3, <1>1 DEF Posted
    <3>2. Ended(r)
      BY <2>1, <2>3, <3>1, <1>1, <1>2, <1>a DEF ReportsHold
    <3> QED BY <3>1, <3>2, <1>1, <1>4, <1>a, EndedIsSilent
  <2>4. CASE i \notin DOMAIN reports /\ n \notin DOMAIN reports
    BY <2>1, <2>4, <1>1, <1>b DEF Posted
  <2> QED BY <2>2, <2>3, <2>4
<1> QED BY <1>3, <1>4, ReportSources

-----------------------------------------------------------------------------
(* Who is unfinished, and what is over *)

LEMMA UnfinishedRows ==
  ASSUME DeploymentsTypeOK, RowsFit
  PROVE  /\ Unfinished = {r \in Request : \/ row[r].status \in Active
                                          \/ /\ row[r].kind \in ContainerActions
                                             /\ row[r].op \in {"queued", "running"}}
         /\ \A r \in Unfinished : row[r].kind /= "none"
BY DEF Unfinished, ActiveDeployments, RowsFit, NoRow, Active, ContainerActions

\* Two unfinished requests that are not repeated are one: each is the latest.
LEMMA OnlyOne ==
  ASSUME DeploymentsTypeOK, RowsFit, UnfinishedIsLast, ~history.cleared,
         NEW q \in Unfinished \ history.again, NEW r \in Unfinished \ history.again
  PROVE  q = r
<1>1. q \in Request /\ r \in Request /\ row[q].kind /= "none" /\ row[r].kind /= "none"
  BY UnfinishedRows
<1>2. ~(q > r) /\ ~(r > q)
  BY <1>1 DEF UnfinishedIsLast
<1> QED BY <1>1, <1>2, DeploymentsAssumption DEF Request

\* Nothing more comes of what is over.
LEMMA OverStays ==
  ASSUME DeploymentsInv, Next, NEW q \in Request, Over(q), row[q].kind /= "none",
         q \notin history'.again, handling /= q
  PROVE  Over(q)'
<1>a. /\ StagesFit /\ row \in [Request -> RequestRows]
      /\ reports \in Seq(Reports) /\ reports' \in Seq(Reports)
  BY TypesHold DEF DeploymentsInv, DeploymentsTypeOK
<1>b. DOMAIN reports = 1..Len(reports) /\ DOMAIN reports' = 1..Len(reports')
      /\ Len(reports) \in Nat /\ Len(reports') \in Nat
  BY <1>a
<1>1. CASE row[q].op = "none"
  <2>1. PlaneMove => row'[q].op = "none"
    BY <1>1 DEF PlaneMove, SameRequest
  <2>2. \A r \in Request, x \in RequestRows : NewRequest(r, x) => row'[q] = row[q]
    BY <1>a DEF NewRequest, Unused
  <2>3. row'[q].op = "none"
    BY <1>1, <2>1, <2>2, Steps DEF AgentMove, TargetMove, crash, prune, planeVars
  <2> QED BY <2>3 DEF Over
<1>2. CASE Ended(q) /\ OnlyFailed(q, 0)
  <2>1. Ended(q)'
    BY <1>2, EndedStays
  <2>2. SUFFICES ASSUME NEW i \in DOMAIN reports', reports'[i].r = q, reports'[i].kind = "status"
                 PROVE  reports'[i].status = "failed"
    BY <2>1, <1>b DEF Over, OnlyFailed
  <2>3. ASSUME NEW j \in DOMAIN reports, reports'[i] = reports[j]
        PROVE  reports'[i].status = "failed"
    BY <2>2, <2>3, <1>2, <1>b DEF OnlyFailed
  <2>4. CASE NothingNew
    BY <2>3, <2>4 DEF NothingNew
  <2>5. ASSUME NEW r \in Request, NEW b \in Stages, NEW m \in Reports, AgentMove(r, b, m)
        PROVE  reports'[i].status = "failed"
    <3>1. CASE i \in DOMAIN reports
      BY <3>1, <2>3, <2>5 DEF AgentMove, Posted
    <3>2. CASE i \notin DOMAIN reports
      <4>1. reports'[i] = m /\ m.r = r
        BY <3>2, <2>5 DEF AgentMove, Posted
      <4> QED BY <4>1, <2>2, <2>5, <1>2, <1>a, EndedIsSilent
    <3> QED BY <3>1, <3>2
  <2> QED BY <2>4, <2>5, ReportSources
<1> QED BY <1>1, <1>2 DEF Over

\* How the status of a deployment changes: it is deleted, its handler fails, a
\* report says so, or it goes with its target.
StatusReported(q) ==
  /\ reports /= <<>> /\ reports' = Tail(reports)
  /\ Head(reports).kind = "status" /\ Head(reports).r = q
  /\ SaveDeploymentStatus(q, Head(reports).status) /\ UNCHANGED handling

TargetGone ==
  /\ ~target'.row /\ UNCHANGED handling
  /\ \/ ~target.row
     \/ \E p \in Request : /\ row[p].kind \in ContainerActions /\ state.op = p
                           /\ row[p].op \in {"queued", "running"}

LEMMA StatusChanges ==
  ASSUME DeploymentsInv, Next, NEW q \in Request, row[q].kind /= "none",
         row'[q].status /= row[q].status
  PROVE  \/ row[q].status \in Finished /\ row'[q].status = "deleted" /\ UNCHANGED handling
         \/ handlerFails /\ q = handling /\ row'[q].status = "failed" /\ row'[q].op = "none"
         \/ StatusReported(q) /\ row'[q].status = Head(reports).status
         \/ TargetGone /\ row'[q].status = "deleted"
<1>a. /\ HandlerFits /\ ReportsHold /\ DeploymentsTypeOK
      /\ row \in [Request -> RequestRows] /\ handling \in 0..MaxRequests
  BY DEF DeploymentsInv, DeploymentsTypeOK
<1>m. MaxRequests \in Nat
  BY DeploymentsAssumption
<1>1. PlaneStep
  <2>1. \A r \in Request, x \in RequestRows : NewRequest(r, x) => row'[q] = row[q]
    BY <1>a DEF NewRequest, Unused
  <2> QED BY <2>1, Steps DEF AgentMove, TargetMove, crash, prune, planeVars
<1>2. ASSUME NEW r \in Request, NEW o, row' = [row EXCEPT ![r].op = o]
      PROVE  FALSE
  BY <1>2, <1>a DEF RequestRows
<1>3. ASSUME NEW r \in Request, deleteDeployment(r)
      PROVE  row[q].status \in Finished /\ row'[q].status = "deleted" /\ UNCHANGED handling
  BY <1>3, <1>a DEF deleteDeployment, DeleteDeployment
<1>4. ASSUME handlerFails
      PROVE  q = handling /\ row'[q].status = "failed" /\ row'[q].op = "none"
  <2>1. handling \in Request /\ row' = [row EXCEPT ![handling].status = "failed"]
        /\ row[handling].op = "none"
    BY <1>4, <1>a, <1>m DEF handlerFails, SaveDeploymentStatus, HandlerFits, None, Request
  <2> QED BY <2>1, <1>a DEF RequestRows
<1>5. ASSUME handle
      PROVE  \/ StatusReported(q) /\ row'[q].status = Head(reports).status
             \/ TargetGone /\ row'[q].status = "deleted"
  <2> DEFINE m == Head(reports)
  <2>1. reports /= <<>> /\ reports' = Tail(reports) /\ UNCHANGED handling
        /\ \/ m.kind = "started" /\ handleStarted(m)
           \/ m.kind = "status" /\ handleStatus(m)
           \/ m.kind = "result" /\ handleResult(m)
    BY <1>5 DEF handle
  <2>2. m.r \in Request /\ row[m.r].op /= "none"
    BY <2>1, <1>a, FirstReport
  <2>3. CASE m.kind = "started" /\ handleStarted(m)
    <3>1. row' = [row EXCEPT ![m.r].op = IF row[m.r].op = "queued" THEN "running" ELSE row[m.r].op]
      BY <2>2, <2>3, <1>a DEF handleStarted
    <3> QED BY <3>1, <2>2, <1>2
  <2>4. CASE m.kind = "status" /\ handleStatus(m)
    <3>1. SaveDeploymentStatus(m.r, m.status)
      BY <2>4 DEF handleStatus
    <3>2. row' = [row EXCEPT ![m.r].status = m.status]
      BY <3>1 DEF SaveDeploymentStatus
    <3>3. m.r = q /\ row'[q].status = m.status
      BY <3>2, <2>2, <1>a DEF RequestRows
    <3> QED BY <2>1, <2>4, <3>1, <3>3 DEF StatusReported
  <2>5. CASE m.kind = "result" /\ handleResult(m)
    <3> DEFINE rows == [row EXCEPT ![m.r].op = "done"]
    <3>1. /\ row[m.r].op /= "done" /\ row' = Cascade(rows)
          /\ \/ UNCHANGED <<target, state>>
             \/ /\ row[m.r].kind \in ContainerActions
                /\ CompleteDeploymentContainerOperation(m.r, m.status)
      BY <2>5 DEF handleResult
    <3>2. row[m.r].op \in {"queued", "running"}
      BY <3>1, <2>2, <1>a DEF RequestRows
    <3>3. rows[q].status = row[q].status
      BY <2>2, <1>a DEF RequestRows
    <3> HIDE DEF rows, m
    <3>4. ~target'.row /\ row'[q].status = "deleted"
      BY <3>1, <3>3 DEF Cascade
    <3>5. CASE target' = target
      BY <3>4, <3>5, <2>1 DEF TargetGone
    <3>6. CASE target' /= target
      <4>1. state.op = m.r
        BY <3>1, <3>6 DEF CompleteDeploymentContainerOperation
      <4> QED BY <3>1, <3>2, <3>4, <3>6, <4>1, <2>1, <2>2 DEF TargetGone
    <3> QED BY <3>5, <3>6
  <2> QED BY <2>1, <2>3, <2>4, <2>5
<1>6. QueueEncryptedResourceOperation => FALSE
  <2>1. QueueEncryptedResourceOperation =>
           handling \in Request /\ row' = [row EXCEPT ![handling].op = "queued"]
    BY <1>a, <1>m DEF QueueEncryptedResourceOperation, None, Request
  <2> QED BY <2>1, <1>2
<1> QED BY <1>1, <1>3, <1>4, <1>5, <1>6 DEF PlaneStep, restart, disconnect, planeVars

\* A target goes when nothing is under way for it but its deletion.
LEMMA GoneWithNoneActive ==
  ASSUME DeploymentsInv, Next, TargetGone, Undisturbed, NEW q \in Request, row[q].kind \in Deploying
  PROVE  Over(q) /\ handling /= q
<1>a. /\ DeploymentsTypeOK /\ RowsFit /\ UnfinishedIsLast /\ GoneIsGone /\ FinishedIsOver
      /\ HandlerFits /\ row[q] \in RequestRows
  BY DEF DeploymentsInv, DeploymentsTypeOK
<1>1. row[q].status /= "none" /\ row[q].kind /= "none"
  BY <1>a DEF RowsFit, Deploying
<1>2. row[q].status \notin Active
  <2>1. CASE ~target.row
    <3>1. q \notin Unfinished
      BY <2>1, <1>1, <1>a DEF GoneIsGone
    <3> QED BY <3>1 DEF Unfinished, ActiveDeployments
  <2>2. ASSUME NEW p \in Request, row[p].kind \in ContainerActions, row[p].op \in {"queued", "running"},
               row[q].status \in Active
        PROVE  FALSE
    <3>1. p \in Unfinished /\ q \in Unfinished
      BY <2>2 DEF Unfinished, ActiveDeployments
    <3>2. p = q
      BY <3>1, <1>a, OnlyOne DEF Undisturbed
    <3> QED BY <3>2, <2>2 DEF Deploying, ContainerActions
  <2> QED BY <2>1, <2>2 DEF TargetGone
<1>3. row[q].status \in Finished \cup {"deleted"}
  BY <1>1, <1>2, <1>a DEF RequestRows
<1> QED BY <1>2, <1>3, <1>a
        DEF FinishedIsOver, HandlerFits, Undisturbed, Active, Finished, Succeeded, None, Request

LEMMA FinishedStaysOver ==
  ASSUME DeploymentsInv, Next
  PROVE  FinishedIsOver'
<1>a. /\ RowsFit /\ HandlerFits /\ ReportsHold /\ FinalIsLast /\ FinishedIsOver /\ Lasting
      /\ DeploymentsTypeOK /\ RowsFit' /\ HandlerFits'
      /\ row' \in [Request -> RequestRows] /\ reports \in Seq(Reports) /\ history \in Histories
  BY Lasts, TypesHold, RowsStay, HandlersStay DEF DeploymentsInv, DeploymentsTypeOK
<1>b. Undisturbed' => Undisturbed
  BY <1>a DEF Undisturbed, Lasting, Histories
<1>c. ASSUME NEW q \in Request, row[q].kind = "none", row'[q].kind /= "none"
      PROVE  row'[q].status \in {"queued", "none"}
  <2>1. PlaneMove => row'[q] = row[q]
    BY <1>c DEF PlaneMove, SameRequest
  <2>2. PICK r \in Request : \E x \in RequestRows : NewRequest(r, x)
    BY <2>1, <1>c, Steps DEF AgentMove, TargetMove, crash, prune, planeVars
  <2>3. PICK x \in RequestRows : NewRequest(r, x)
    BY <2>2
  <2>4. row' = [row EXCEPT ![r] = x] /\ x.status \in {"queued", "none"}
    BY <2>3 DEF NewRequest
  <2> QED BY <2>4, <1>c, <1>a DEF DeploymentsTypeOK
<1>1. ASSUME NEW q \in Request, row'[q].status \in Finished, q \notin history'.again
      PROVE  Over(q)'
  <2>1. row[q].kind /= "none" /\ row'[q].kind = row[q].kind /\ q \notin history.again
    <3>1. row'[q].kind /= "none"
      BY <1>1, <1>a DEF RowsFit, NoRow, Finished, Succeeded
    <3> QED BY <3>1, <1>c, <1>1, <1>a DEF Lasting, Finished, Succeeded
  <2>2. CASE row'[q].status = row[q].status
    <3>1. Over(q) /\ handling /= q
      BY <1>1, <2>1, <2>2, <1>a DEF FinishedIsOver, HandlerFits, Finished, Succeeded, None, Request
    <3> QED BY <3>1, <2>1, <1>1, OverStays
  <2>3. CASE row'[q].op = "none"
    BY <2>3 DEF Over
  <2>4. CASE StatusReported(q) /\ row'[q].status = Head(reports).status
    <3> DEFINE m == Head(reports)
    <3>1. /\ 1 \in DOMAIN reports /\ m = reports[1] /\ reports' \in Seq(Reports)
          /\ \A i \in DOMAIN reports' : i + 1 \in DOMAIN reports /\ reports'[i] = reports[i + 1]
      BY <2>4, <1>a, Taking DEF StatusReported
    <3>2. m.r = q /\ m.kind = "status" /\ m.status \in Finished
      BY <2>4, <1>1 DEF StatusReported
    <3> HIDE DEF m
    <3>3. Ended(q) /\ OnlyFailed(q, 1)
      BY <3>1, <3>2, <2>1, <1>a DEF ReportsHold, FinalIsLast
    <3>4. Ended(q)'
      BY <3>3, <1>1, EndedStays
    <3>5. \A i \in DOMAIN reports' : i \in Nat \ {0}
      BY <3>1
    <3>6. OnlyFailed(q, 0)'
      <4>1. ASSUME NEW i \in DOMAIN reports'
            PROVE  i + 1 \in DOMAIN reports /\ i + 1 > 1 /\ reports'[i] = reports[i + 1]
        BY <3>1, <3>5
      <4> QED BY <4>1, <3>3 DEF OnlyFailed
    <3> QED BY <3>4, <3>6 DEF Over
  <2>5. row'[q].status /= "deleted"
    BY <1>1 DEF Finished, Succeeded
  <2> QED BY <2>1, <2>2, <2>3, <2>4, <2>5, StatusChanges
<1>2. ASSUME NEW q \in Request, row'[q].status = "deleted", Undisturbed'
      PROVE  Over(q)' /\ handling' /= q
  <2>1. row[q].kind \in Deploying /\ row[q].kind /= "none"
    <3>1. row'[q].kind \in Deploying
      BY <1>2, <1>a DEF RowsFit
    <3> QED BY <3>1, <1>c, <1>2, <1>a DEF Lasting, Deploying
  <2>2. Over(q) /\ handling /= q
    <3>1. CASE row[q].status = "deleted"
      BY <3>1, <1>b, <1>2, <1>a DEF FinishedIsOver
    <3>2. CASE row[q].status \in Finished
      BY <3>2, <1>b, <1>2, <1>a
         DEF FinishedIsOver, HandlerFits, Undisturbed, Finished, Succeeded, None, Request
    <3>3. CASE TargetGone
      BY <3>3, <2>1, <1>b, <1>2, GoneWithNoneActive
    <3>4. CASE StatusReported(q) /\ row'[q].status = Head(reports).status
      <4>1. Head(reports).status \in (Active \ {"queued"}) \cup Finished
        BY <3>4, <1>a, FirstReport DEF StatusReported
      <4> QED BY <4>1, <3>4, <1>2 DEF Active, Finished, Succeeded
    <3> QED BY <2>1, <1>2, <3>1, <3>2, <3>3, <3>4, StatusChanges
  <2>3. Over(q)'
    BY <2>1, <2>2, <1>2, OverStays DEF Undisturbed
  <2>4. handling' /= q
    <3>1. \A r \in Request, x \in RequestRows : NewRequest(r, x) => handling' = handling \/ r = handling'
      BY DEF NewRequest
    <3>2. \A r \in Request, x \in RequestRows : NewRequest(r, x) => row[r].kind = "none"
      BY DEF NewRequest, Unused
    <3>3. None \notin Request
      BY DEF None, Request
    <3> QED BY <3>1, <3>2, <3>3, <2>1, <2>2, Steps
            DEF AgentMove, TargetMove, PlaneMove, crash, prune, planeVars
  <2> QED BY <2>3, <2>4
<1> QED BY <1>1, <1>2 DEF FinishedIsOver

LEMMA NewRows ==
  ASSUME DeploymentsInv, Next, NEW q \in Request, row[q].kind = "none", row'[q].kind /= "none"
  PROVE  \E x \in RequestRows : NewRequest(q, x) /\ row'[q] = x
<1>1. PlaneMove => row'[q] = row[q]
  BY DEF PlaneMove, SameRequest
<1>2. PICK r \in Request : \E x \in RequestRows : NewRequest(r, x)
  BY <1>1, Steps DEF AgentMove, TargetMove, crash, prune, planeVars
<1>3. PICK x \in RequestRows : NewRequest(r, x)
  BY <1>2
<1>4. row' = [row EXCEPT ![r] = x]
  BY <1>3 DEF NewRequest
<1> QED BY <1>3, <1>4 DEF DeploymentsInv, DeploymentsTypeOK

LEMMA SucceededStays ==
  ASSUME DeploymentsInv, Next
  PROVE  SucceededIsKept'
<1>a. /\ RowsFit /\ ReportsHold /\ SucceededIsKept /\ Lasting /\ DeploymentsTypeOK /\ RowsFit'
  BY Lasts, RowsStay DEF DeploymentsInv
<1>1. SUFFICES ASSUME NEW q \in Request, row'[q].status = "succeeded"
               PROVE  row'[q].kind = "deploy" /\ (history'.wiped \/ Intact(q)')
  BY DEF SucceededIsKept
<1>2. row[q].kind /= "none"
  <2>1. row'[q].kind /= "none"
    BY <1>1, <1>a DEF RowsFit, NoRow
  <2> QED BY <2>1, <1>1, NewRows DEF NewRequest
<1>3. row[q].kind = "deploy" /\ (history.wiped \/ Intact(q))
  <2>1. CASE row[q].status = "succeeded"
    BY <2>1, <1>a DEF SucceededIsKept
  <2>2. CASE StatusReported(q) /\ row'[q].status = Head(reports).status
    BY <2>2, <1>1, <1>a, FirstReport DEF StatusReported, ReportsHold
  <2> QED BY <2>1, <2>2, <1>1, <1>2, StatusChanges
<1> QED BY <1>2, <1>3, <1>a, IntactStays DEF Lasting

\* Nothing is unfinished anew, but what is repeated.
LEMMA Unfinishing ==
  ASSUME DeploymentsInv, Next, NEW q \in Request, row[q].kind /= "none", q \in Unfinished',
         row[q].kind \in ContainerActions \/ q \notin history.again
  PROVE  q \in Unfinished
<1>a. /\ RowsFit /\ ReportsHold /\ FinishedIsOver /\ DeploymentsTypeOK /\ row \in [Request -> RequestRows]
      /\ Lasting /\ RowsFit' /\ DeploymentsTypeOK'
  BY Lasts, RowsStay, TypesHold DEF DeploymentsInv, DeploymentsTypeOK
<1>1. \/ row'[q].status \in Active
      \/ row'[q].kind \in ContainerActions /\ row'[q].op \in {"queued", "running"}
  BY DEF Unfinished, ActiveDeployments
<1>2. row'[q].kind = row[q].kind
  BY <1>a DEF Lasting
<1>3. CASE row[q].kind \in ContainerActions
  <2>1. row'[q].op \in {"queued", "running"}
    BY <1>1, <1>2, <1>3, <1>a DEF RowsFit, ContainerActions, Deploying, Active
  <2>2. PlaneMove => row[q].op \in {"queued", "running"}
    BY <2>1, <1>3, <1>a DEF PlaneMove, SameRequest, RowsFit
  <2>3. \A r \in Request, x \in RequestRows : NewRequest(r, x) => row'[q] = row[q]
    BY <1>a DEF NewRequest, Unused
  <2>4. row[q].op \in {"queued", "running"}
    BY <2>1, <2>2, <2>3, Steps DEF AgentMove, TargetMove, crash, prune, planeVars
  <2> QED BY <2>4, <1>3 DEF Unfinished
<1>4. CASE row[q].kind \notin ContainerActions
  <2>1. row'[q].status \in Active /\ q \notin history.again
    BY <1>1, <1>2, <1>4
  <2>2. row[q].status \in Active
    <3>1. CASE row'[q].status /= row[q].status
      <4> DEFINE m == Head(reports)
      <4>1. StatusReported(q) /\ row'[q].status = m.status
        BY <3>1, <2>1, StatusChanges DEF Active
      <4>2. /\ 1 \in DOMAIN reports /\ m = reports[1] /\ row[q].op /= "none"
        BY <4>1, <1>a, FirstReport DEF StatusReported
      <4>3. m.r = q /\ m.kind = "status" /\ m.status \in Active
            /\ row[q].status \notin {"none", "deleted"}
        BY <4>1, <2>1 DEF StatusReported, SaveDeploymentStatus
      <4> HIDE DEF m
      <4>4. row[q].status \in Finished => m.status = "failed"
        BY <4>2, <4>3, <2>1, <1>a DEF FinishedIsOver, Over, OnlyFailed
      <4> QED BY <4>3, <4>4, <1>a DEF RequestRows, Active
    <3> QED BY <2>1, <3>1
  <2> QED BY <2>2 DEF Unfinished, ActiveDeployments
<1> QED BY <1>3, <1>4

LEMMA FreeIsIdle ==
  ASSUME UnfinishedIsLast, ~history.cleared, Free
  PROVE  Unfinished = {}
BY DEF UnfinishedIsLast, Free, Unfinished, DeploymentActive, ContainerActive

\* The result of a container action that counts.
ResultCounts(p) ==
  /\ reports /= <<>> /\ Head(reports).kind = "result" /\ Head(reports).r = p
  /\ row[p].kind \in ContainerActions /\ row[p].op \in {"queued", "running"} /\ state.op = p
  /\ CompleteDeploymentContainerOperation(p, Head(reports).status)
  /\ row'[p].op = "done" /\ UNCHANGED history

\* How the container state changes: a request, a deployment, or a result that counts.
LEMMA StateChanges ==
  ASSUME DeploymentsInv, Next, PlaneStep
  PROVE  \/ UNCHANGED <<target, state>>
         \/ UNCHANGED target /\ \E q \in Request : handlerFails /\ SaveDeploymentStatus(q, "failed")
         \/ UNCHANGED target /\ \E q \in Request : StatusReported(q)
         \/ \E p \in Request : ResultCounts(p)
<1>a. /\ HandlerFits /\ ReportsHold /\ DeploymentsTypeOK
      /\ row \in [Request -> RequestRows] /\ handling \in 0..MaxRequests
  BY DEF DeploymentsInv, DeploymentsTypeOK
<1>m. MaxRequests \in Nat
  BY DeploymentsAssumption
<1>1. handlerFails => handling \in Request /\ SaveDeploymentStatus(handling, "failed") /\ UNCHANGED target
  BY <1>a, <1>m DEF handlerFails, None, Request
<1>2. CASE handle
  <2> DEFINE m == Head(reports)
  <2>1. reports /= <<>> /\ reports' = Tail(reports) /\ UNCHANGED handling
        /\ \/ m.kind = "started" /\ handleStarted(m)
           \/ m.kind = "status" /\ handleStatus(m)
           \/ m.kind = "result" /\ handleResult(m)
    BY <1>2 DEF handle
  <2>2. m.r \in Request /\ row[m.r].op /= "none"
    BY <2>1, <1>a, FirstReport
  <2>3. CASE m.kind = "started" /\ handleStarted(m)
    BY <2>3 DEF handleStarted
  <2>4. CASE m.kind = "status" /\ handleStatus(m)
    BY <2>1, <2>2, <2>4 DEF handleStatus, StatusReported
  <2>5. CASE m.kind = "result" /\ handleResult(m)
    <3> DEFINE rows == [row EXCEPT ![m.r].op = "done"]
    <3>1. CASE row[m.r].kind \in ContainerActions /\ row[m.r].op /= "done" /\ state.op = m.r
      <4>1. /\ row' = Cascade(rows) /\ CompleteDeploymentContainerOperation(m.r, m.status)
            /\ UNCHANGED history
        BY <2>5, <3>1 DEF handleResult
      <4>2. row[m.r].op \in {"queued", "running"}
        BY <2>2, <3>1, <1>a DEF RequestRows
      <4>3. rows[m.r].op = "done" /\ rows[m.r] \in RequestRows
        BY <2>2, <1>a DEF RequestRows
      <4> HIDE DEF rows, m
      <4>4. row'[m.r].op = "done"
        BY <4>1, <4>3, <2>2 DEF Cascade, RequestRows
      <4> QED BY <2>1, <2>2, <2>5, <3>1, <4>1, <4>2, <4>4 DEF ResultCounts, m
    <3>2. CASE ~(row[m.r].kind \in ContainerActions /\ row[m.r].op /= "done" /\ state.op = m.r)
      BY <2>5, <3>2 DEF handleResult, CompleteDeploymentContainerOperation
    <3> QED BY <3>1, <3>2
  <2> QED BY <2>1, <2>3, <2>4, <2>5
<1> QED BY <1>1, <1>2
        DEF PlaneStep, deleteDeployment, QueueEncryptedResourceOperation, restart, disconnect, planeVars

LEMMA UnfinishedIsLastStays ==
  ASSUME DeploymentsInv, Next
  PROVE  UnfinishedIsLast'
<1>a. /\ RowsFit /\ UnfinishedIsLast /\ Lasting /\ DeploymentsTypeOK
      /\ RowsFit' /\ DeploymentsTypeOK' /\ row \in [Request -> RequestRows] /\ history \in Histories
  BY Lasts, RowsStay, TypesHold DEF DeploymentsInv, DeploymentsTypeOK
<1>m. MaxRequests \in Nat
  BY DeploymentsAssumption
<1>n. None \notin Request /\ \A p, q \in Request : p > q \/ q > p \/ p = q
  BY <1>m DEF None, Request
<1>1. SUFFICES ASSUME ~history'.cleared
               PROVE  /\ \A r \in Unfinished' \ history'.again, q \in Request : q > r => row'[q].kind = "none"
                      /\ \A r \in Unfinished' : row'[r].kind \in ContainerActions =>
                            state' = [status |-> "pending", action |-> row'[r].kind, op |-> r]
  BY DEF UnfinishedIsLast
<1>2. ~history.cleared /\ \A q \in Request : q \notin history'.again => q \notin history.again
  BY <1>1, <1>a DEF Lasting
<1>3. \A r \in Unfinished' : r \in Request /\ row'[r].kind /= "none"
  BY <1>a, UnfinishedRows DEF Unfinished, ActiveDeployments, RowsFit, NoRow, Active, ContainerActions
<1>4. ASSUME NEW p \in Request, NEW x \in RequestRows, NewRequest(p, x)
      PROVE  /\ \A r \in Unfinished' \ history'.again, q \in Request : q > r => row'[q].kind = "none"
             /\ \A r \in Unfinished' : row'[r].kind \in ContainerActions =>
                   state' = [status |-> "pending", action |-> row'[r].kind, op |-> r]
  <2>1. /\ row' = [row EXCEPT ![p] = x] /\ row[p].kind = "none" /\ Unfinished = {}
        /\ \A q \in Request : row'[q] = IF q = p THEN x ELSE row[q]
    BY <1>4, <1>2, <1>a, FreeIsIdle DEF NewRequest, Unused
  <2>2. \A q \in Request : q > p => row'[q].kind = "none"
    BY <2>1, <1>a, <1>n, <1>m DEF RowsFit, Request
  <2>3. \A r \in Unfinished' \ history'.again : r = p
    BY <2>1, <1>2, <1>3, Unfinishing
  <2>4. \A r \in Unfinished' : row'[r].kind \in ContainerActions => r = p
    BY <2>1, <1>3, Unfinishing
  <2>5. x.kind \in ContainerActions =>
           state' = [status |-> "pending", action |-> x.kind, op |-> p]
    BY <1>4 DEF NewRequest, Deploying, ContainerActions
  <2> QED BY <2>1, <2>2, <2>3, <2>4, <2>5
<1>5. ASSUME \A q \in Request : row'[q].kind = row[q].kind
      PROVE  /\ \A r \in Unfinished' \ history'.again, q \in Request : q > r => row'[q].kind = "none"
             /\ \A r \in Unfinished' : row'[r].kind \in ContainerActions =>
                   r \in Unfinished /\ state = [status |-> "pending", action |-> row'[r].kind, op |-> r]
  <2>1. \A r \in Unfinished' \ history'.again : r \in Unfinished \ history.again
    BY <1>2, <1>3, <1>5, Unfinishing
  <2>2. \A r \in Unfinished' : row'[r].kind \in ContainerActions => r \in Unfinished
    BY <1>3, <1>5, Unfinishing
  <2> QED BY <2>1, <2>2, <1>2, <1>3, <1>5, <1>a DEF UnfinishedIsLast
<1>6. CASE PlaneStep /\ PlaneMove
  <2>1. \A q \in Request : row'[q].kind = row[q].kind
    BY <1>6 DEF PlaneMove, SameRequest
  <2>2. ASSUME NEW r \in Unfinished', row'[r].kind \in ContainerActions
        PROVE  state' = state
    <3>1. state = [status |-> "pending", action |-> row'[r].kind, op |-> r] /\ r \in Request
      BY <2>1, <2>2, <1>3, <1>5
    <3>2. state.status = "pending" /\ state.op = r /\ r /= None
      BY <3>1, <1>n
    <3>3. ASSUME NEW q, NEW s, SaveDeploymentStatus(q, s)
          PROVE  FALSE
      <4>1. history'.cleared = (history.cleared \/ (ContainerActive /\ state.op /= None))
        BY <3>3, <1>a DEF SaveDeploymentStatus, Histories
      <4> QED BY <4>1, <3>2, <1>1 DEF ContainerActive
    <3>4. ASSUME NEW p \in Request, ResultCounts(p)
          PROVE  FALSE
      <4>1. p = r /\ row'[r].op = "done"
        BY <3>2, <3>4 DEF ResultCounts
      <4>2. row'[r].status \notin Active
        BY <3>1, <2>2, <1>a DEF RowsFit, ContainerActions, Deploying, Active
      <4> QED BY <4>1, <4>2 DEF Unfinished, ActiveDeployments
    <3> QED BY <1>6, <3>3, <3>4, StateChanges DEF StatusReported
  <2> QED BY <2>1, <2>2, <1>5
<1>7. CASE UNCHANGED <<row, state>>
  BY <1>5, <1>7
<1> QED BY <1>4, <1>6, <1>7, Steps DEF AgentMove, TargetMove, crash, prune, planeVars

-----------------------------------------------------------------------------
(* What an execution that succeeded has done *)

\* Who is at work is unfinished, if nothing is repeated.
LEMMA WorkIsUnfinished ==
  ASSUME DeploymentsInv, Undisturbed, NEW r \in Request, exec[r] \notin Resting
  PROVE  r \in Unfinished
<1>a. /\ StagesFit /\ RowsFit /\ FinishedIsOver
      /\ row \in [Request -> RequestRows] /\ exec \in [Request -> Stages]
  BY DEF DeploymentsInv, DeploymentsTypeOK
<1>1. receipt[r] = "none" /\ row[r].op \in {"queued", "running"}
  BY <1>a DEF StagesFit, Resting, RequestRows
<1>2. row[r].kind /= "none"
  BY <1>1, <1>a DEF RowsFit, NoRow
<1>3. ~Ended(r)
  BY <1>1 DEF Ended, Resting
<1>4. row[r].status \notin Finished \cup {"deleted"}
  BY <1>1, <1>3, <1>a DEF FinishedIsOver, Over, Undisturbed
<1> QED BY <1>1, <1>2, <1>4, <1>a DEF RowsFit, RequestRows, Unfinished, ActiveDeployments

\* It is the only one.
LEMMA WorkIsAlone ==
  ASSUME DeploymentsInv, Undisturbed, NEW r \in Request, Agent(r), ~UNCHANGED <<disk, docker>>
  PROVE  Unfinished = {r} /\ Work(r) /\ exec[r] \notin Resting
<1>1. /\ DeploymentsTypeOK /\ RowsFit /\ UnfinishedIsLast /\ StagesFit
  BY DEF DeploymentsInv
<1>2. Work(r) /\ exec[r] \notin Resting
  BY <1>1, Exclusive
<1>3. r \in Unfinished
  BY <1>2, WorkIsUnfinished
<1>4. \A q \in Unfinished : q = r
  BY <1>1, <1>3, OnlyOne DEF Undisturbed
<1> QED BY <1>2, <1>3, <1>4

LEMMA UndisturbedBefore ==
  ASSUME DeploymentsInv, Next, Undisturbed'
  PROVE  Undisturbed /\ ~crash
<1>1. Lasting /\ history \in Histories
  BY Lasts DEF DeploymentsInv, DeploymentsTypeOK
<1>2. Undisturbed
  BY <1>1 DEF Lasting, Undisturbed
<1>3. ASSUME crash
      PROVE  FALSE
  <2>1. history'.again = history.again \cup {r \in Request : exec[r] \notin {"idle", "done"}}
    BY <1>1, <1>3 DEF crash, Histories
  <2>2. \E r \in Request : exec[r] \notin {"idle", "done"}
    BY <1>3 DEF crash
  <2> QED BY <2>1, <2>2 DEF Undisturbed
<1> QED BY <1>2, <1>3

LEMMA DoneAsAskedStays ==
  ASSUME DeploymentsInv, Next
  PROVE  DoneAsAsked'
<1> DEFINE AsAsked(r) ==
      /\ row[r].kind \in Deploying \cup {"start"} => docker.up /\ docker.image = disk.current
      /\ row[r].kind \in Deploying => disk.current = row[r].src
      /\ row[r].kind = "delete" => \A q \in Request : disk.release[q] = "none"
      /\ row[r].kind = "delete" /\ ~history.edited => docker.image = None
<1>a. /\ RowsFit /\ StagesFit /\ StagesHold /\ ReleasesFit /\ DoneAsAsked /\ UnfinishedIsLast /\ Lasting
      /\ RowsFit' /\ DeploymentsTypeOK /\ DeploymentsTypeOK'
      /\ exec \in [Request -> Stages] /\ row \in [Request -> RequestRows] /\ history \in Histories
      /\ receipt \in [Request -> {"none", "succeeded", "failed"}]
      /\ disk \in Disks /\ docker \in Dockers
  BY Lasts, RowsStay, TypesHold DEF DeploymentsInv, DeploymentsTypeOK
<1>1. SUFFICES ASSUME Undisturbed', NEW r \in Unfinished', Done(r)'
               PROVE  AsAsked(r)'
  BY DEF DoneAsAsked
<1>2. Undisturbed /\ ~crash
  BY <1>1, UndisturbedBefore
<1>3. r \in Request /\ row'[r].kind /= "none"
  BY <1>a DEF Unfinished, ActiveDeployments, RowsFit, NoRow, Active, ContainerActions
<1>4. row[r].kind /= "none"
  <2>1. ASSUME NEW x \in RequestRows, NewRequest(r, x), row[r].kind = "none"
        PROVE  FALSE
    <3>1. exec'[r] = exec[r] /\ receipt'[r] = receipt[r] /\ row[r] = NoRow
      BY <2>1, <1>3, <1>a DEF NewRequest, agentVars, RowsFit
    <3>2. exec[r] = "idle" /\ receipt[r] = "none"
      BY <3>1, <1>3, <1>a DEF StagesFit, NoRow
    <3> QED BY <3>1, <3>2, <1>1 DEF Done
  <2> QED BY <2>1, <1>3, NewRows
<1>5. r \in Unfinished /\ row'[r].kind = row[r].kind /\ row'[r].src = row[r].src
      /\ (history.edited => history'.edited)
  BY <1>2, <1>3, <1>4, <1>1, <1>a, Unfinishing DEF Lasting, Undisturbed
<1>6. ASSUME Done(r)
      PROVE  AsAsked(r)
  BY <1>2, <1>5, <1>6, <1>a DEF DoneAsAsked
<1>7. ASSUME AsAsked(r), disk' = disk, docker'.image = docker.image, docker'.up = docker.up
      PROVE  AsAsked(r)'
  BY <1>5, <1>7
<1>8. UNCHANGED agentVars => AsAsked(r)'
  BY <1>1, <1>6, <1>7 DEF Done, agentVars
<1>9. CASE prune
  <2>1. Done(r) /\ disk' = disk /\ docker'.image = docker.image /\ docker'.up = docker.up
    BY <1>9, <1>1, <1>a DEF prune, Done, Dockers
  <2> QED BY <2>1, <1>6, <1>7
<1>10. ASSUME NEW p \in Request, NEW b \in Stages, NEW m \in Reports, Agent(p), AgentMove(p, b, m)
       PROVE  AsAsked(r)'
  <2>1. exec' = [exec EXCEPT ![p] = b] /\ row' = row
    BY <1>10 DEF AgentMove, planeVars
  <2>2. p /= r => Done(r)
    BY <2>1, <1>10, <1>1, <1>3, <1>a DEF AgentMove, Done
  <2>3. p = r => Done(r) \/ (b = "succeeded" /\ exec[r] \notin Resting)
    BY <2>1, <1>10, <1>1, <1>3, <1>a DEF AgentMove, Done, Stages, Resting, Outside
  <2>4. CASE UNCHANGED <<disk, docker>> /\ Done(r)
    BY <2>4, <1>6, <1>7
  <2>5. CASE ~UNCHANGED <<disk, docker>> /\ Done(r)
    <3>1. p = r /\ exec[r] \notin Resting
      BY <2>5, <1>2, <1>5, <1>10, WorkIsAlone
    <3> QED BY <3>1, <2>5, <1>3, <1>a DEF Done, Resting, StagesFit
  <2>6. CASE p = r /\ b = "succeeded" /\ exec[r] \notin Resting
    <3>b. exec'[r] = "succeeded" /\ \A s : Go(r, s) => exec'[r] = s
      BY <2>1, <2>6, <1>3, <1>a DEF Go
    <3>1. CASE linkCurrent(r)
      <4>1. disk' = [disk EXCEPT !.current = row[r].src] /\ docker' = docker /\ exec[r] = "link"
        BY <3>1 DEF linkCurrent, At
      <4>2. disk'.current = row[r].src /\ docker.image = row[r].src /\ docker.up
            /\ row[r].kind \in Deploying
        BY <4>1, <1>3, <1>a DEF StagesHold, StagesFit, Disks
      <4> QED BY <4>1, <4>2, <2>1 DEF Deploying
    <3>2. CASE ContainerAction(r)
      <4>1. /\ containerActionSpec(row[r].kind) /\ disk' = disk
            /\ row[r].kind \in {"start", "stop", "restart", "remove"}
        BY <3>b, <3>2 DEF ContainerAction, Enter
      <4>2. CASE row[r].kind = "start"
        <5>1. docker' = [docker EXCEPT !.image = disk.current, !.up = TRUE]
          BY <4>1, <4>2 DEF containerActionSpec, pinnedCompose
        <5>2. docker'.image = disk.current /\ docker'.up = TRUE
          BY <5>1, <1>a DEF Dockers
        <5> QED BY <5>2, <4>1, <4>2, <2>1 DEF Deploying
      <4>3. CASE row[r].kind /= "start"
        BY <4>1, <4>3, <2>1 DEF Deploying
      <4> QED BY <4>2, <4>3
    <3>3. CASE removeRoot(r)
      <4>1. /\ disk' = [release |-> [q \in Request |-> "none"], pinned |-> {}, current |-> None]
            /\ docker' = docker /\ exec[r] = "wipe" /\ history' = history
        BY <3>b, <3>3 DEF removeRoot, At
      <4>2. row[r].kind = "delete" /\ (~history.edited => docker.image = None)
        BY <4>1, <1>3, <1>a DEF StagesFit, ReleasesFit
      <4> QED BY <4>1, <4>2, <2>1 DEF Deploying
    <3>4. linkCurrent(r) \/ ContainerAction(r) \/ removeRoot(r)
      <4>1. begin(r) \/ finish(r) => exec[r] \in Resting
        BY DEF begin, finish, Resting
      <4>2. /\ ~preflight(r) /\ ~createRelease(r) /\ ~up(r) /\ ~verify(r)
            /\ ~unlinkCurrent(r) /\ ~rollback(r)
        BY <3>b DEF preflight, Preflight, createRelease, up, verify, unlinkCurrent, rollback, Fails
      <4>3. ~deleteTarget(r)
        BY <3>b DEF deleteTarget
      <4> QED BY <1>10, <2>6, <4>1, <4>2, <4>3 DEF Agent
    <3> QED BY <3>1, <3>2, <3>3, <3>4
  <2> QED BY <2>2, <2>3, <2>4, <2>5, <2>6
<1> QED BY <1>2, <1>8, <1>9, <1>10, Steps DEF NewRequest, TargetMove, PlaneMove

-----------------------------------------------------------------------------
(* What the page shows *)

\* A deployment reported to have succeeded was the one under way.
LEMMA SuccessReported ==
  ASSUME DeploymentsInv, Undisturbed, NEW q \in Request, StatusReported(q),
         Head(reports).status \in Succeeded
  PROVE  /\ q \in Unfinished /\ Done(q) /\ row[q].kind \in Deploying
         /\ row' = [row EXCEPT ![q].status = Head(reports).status] /\ row'[q].status \in Succeeded
<1>a. /\ ReportsHold /\ FinishedIsOver /\ DeploymentsTypeOK /\ row \in [Request -> RequestRows]
  BY DEF DeploymentsInv, DeploymentsTypeOK
<1> DEFINE m == Head(reports)
<1>1. /\ 1 \in DOMAIN reports /\ m = reports[1] /\ row[q].op /= "none" /\ row[q].kind \in Deploying
      /\ m.r = q /\ m.kind = "status"
  BY <1>a, FirstReport DEF StatusReported
<1>2. row' = [row EXCEPT ![q].status = m.status] /\ row[q].status \notin {"none", "deleted"}
  BY DEF StatusReported, SaveDeploymentStatus
<1>3. m.status \in Succeeded
  OBVIOUS
<1> HIDE DEF m
<1>4. Done(q)
  BY <1>1, <1>3, <1>a DEF ReportsHold, Undisturbed
<1>5. row[q].status \notin Finished
  BY <1>1, <1>3, <1>a DEF FinishedIsOver, Over, OnlyFailed, Undisturbed, Succeeded
<1>6. q \in Unfinished
  BY <1>2, <1>5, <1>a DEF RequestRows, Unfinished, ActiveDeployments
<1>7. row'[q].status \in Succeeded
  BY <1>2, <1>3, <1>a DEF RequestRows
<1> QED BY <1>1, <1>2, <1>4, <1>6, <1>7 DEF m

\* A result that counts is that of the only request under way.
LEMMA ResultReported ==
  ASSUME DeploymentsInv, Undisturbed, NEW p \in Request, ResultCounts(p)
  PROVE  /\ p \in Unfinished /\ state.action = row[p].kind /\ state.status = "pending"
         /\ receipt[p] = Head(reports).status
<1>a. /\ ReportsHold /\ UnfinishedIsLast /\ DeploymentsTypeOK /\ RowsFit
  BY DEF DeploymentsInv
<1>1. p \in Unfinished
  BY DEF ResultCounts, Unfinished
<1>2. state = [status |-> "pending", action |-> row[p].kind, op |-> p]
  BY <1>1, <1>a DEF ResultCounts, UnfinishedIsLast, Undisturbed
<1>3. receipt[p] = Head(reports).status
  BY <1>a, FirstReport DEF ResultCounts
<1> QED BY <1>1, <1>2, <1>3

LEMMA Showing ==
  ASSUME DeploymentsInv, Next, Undisturbed', state'.status = "running"
  PROVE  \/ UNCHANGED state /\ Unfinished = {}
         \/ \E q \in Request : StatusReported(q) /\ Head(reports).status \in Succeeded
         \/ \E p \in Request : ResultCounts(p) /\ Done(p) /\ row[p].kind \in {"start", "restart"}
                               /\ state'.action = row[p].kind
<1>a. /\ ReportsHold /\ NotYetShown /\ UnfinishedIsLast /\ DeploymentsTypeOK /\ RowsFit
      /\ state \in StateRows
  BY DEF DeploymentsInv, DeploymentsTypeOK
<1>b. Undisturbed
  BY UndisturbedBefore
<1>1. UNCHANGED state => Unfinished = {}
  BY <1>a, <1>b DEF NotYetShown
<1>2. ASSUME NEW q, SaveDeploymentStatus(q, "failed")
      PROVE  FALSE
  BY <1>2 DEF SaveDeploymentStatus, ContainerStatus, Active, Succeeded
<1>3. ASSUME NEW q \in Request, StatusReported(q)
      PROVE  Head(reports).status \in Succeeded
  BY <1>3 DEF StatusReported, SaveDeploymentStatus, ContainerStatus
<1>4. ASSUME NEW p \in Request, ResultCounts(p)
      PROVE  Done(p) /\ row[p].kind \in {"start", "restart"} /\ state'.action = row[p].kind
  <2> DEFINE result == Head(reports).status
  <2>1. /\ state.op = p /\ row[p].kind \in ContainerActions /\ state.action = row[p].kind
        /\ receipt[p] = result /\ CompleteDeploymentContainerOperation(p, result)
    BY <1>4, <1>b, ResultReported DEF ResultCounts
  <2> HIDE DEF result
  <2>2. CASE state.action = "delete" /\ result = "succeeded"
    <3>1. state' = NoState
      BY <2>1, <2>2 DEF CompleteDeploymentContainerOperation
    <3> QED BY <3>1 DEF NoState
  <2>3. CASE result /= "succeeded"
    <3>1. state' = [state EXCEPT !.status = "failed"]
      BY <2>1, <2>3 DEF CompleteDeploymentContainerOperation
    <3> QED BY <3>1, <1>a DEF StateRows
  <2>4. CASE result = "succeeded" /\ state.action \in {"start", "restart"}
    <3>1. state' = [state EXCEPT !.status = "running"]
      BY <2>1, <2>4 DEF CompleteDeploymentContainerOperation
    <3> QED BY <3>1, <2>1, <2>4, <1>a DEF StateRows, Done
  <2>5. CASE result = "succeeded" /\ state.action = "stop"
    <3>1. state' = [state EXCEPT !.status = "stopped"]
      BY <2>1, <2>5 DEF CompleteDeploymentContainerOperation
    <3> QED BY <3>1, <1>a DEF StateRows
  <2>6. CASE result = "succeeded" /\ state.action = "remove"
    <3>1. state' = [state EXCEPT !.status = "removed"]
      BY <2>1, <2>6 DEF CompleteDeploymentContainerOperation
    <3> QED BY <3>1, <1>a DEF StateRows
  <2> QED BY <2>1, <2>2, <2>3, <2>4, <2>5, <2>6 DEF ContainerActions
<1>5. \A r \in Request, x \in RequestRows : ~NewRequest(r, x)
  BY DEF NewRequest
<1>6. PlaneStep => \/ UNCHANGED state
                   \/ \E q \in Request : StatusReported(q)
                   \/ \E p \in Request : ResultCounts(p)
  BY <1>2, StateChanges
<1> QED BY <1>1, <1>3, <1>4, <1>5, <1>6, Steps DEF AgentMove, TargetMove, crash, prune, planeVars

LEMMA NotYetShownStays ==
  ASSUME DeploymentsInv, Next
  PROVE  NotYetShown'
<1>a. /\ UnfinishedIsLast /\ DeploymentsTypeOK /\ RowsFit
      /\ RowsFit' /\ DeploymentsTypeOK' /\ Lasting /\ row \in [Request -> RequestRows]
  BY Lasts, RowsStay, TypesHold DEF DeploymentsInv, DeploymentsTypeOK
<1>1. SUFFICES ASSUME Undisturbed', state'.status = "running", NEW r \in Unfinished'
               PROVE  FALSE
  BY DEF NotYetShown
<1>2. Undisturbed
  BY <1>1, UndisturbedBefore
<1>3. r \in Request /\ row'[r].kind /= "none"
  BY <1>a DEF Unfinished, ActiveDeployments, RowsFit, NoRow, Active, ContainerActions
<1>4. r \in Unfinished
  <2>1. row[r].kind /= "none"
    BY <1>1, <1>3, NewRows DEF NewRequest
  <2> QED BY <2>1, <1>1, <1>2, <1>3, Unfinishing DEF Undisturbed
<1>5. ASSUME NEW q \in Request, StatusReported(q), Head(reports).status \in Succeeded
      PROVE  FALSE
  <2>1. q \in Unfinished /\ row[q].kind \in Deploying /\ row'[q].status \in Succeeded
    BY <1>2, <1>5, SuccessReported
  <2>2. q = r
    BY <2>1, <1>2, <1>4, <1>a, OnlyOne DEF Undisturbed
  <2>3. row'[q].kind \in Deploying
    BY <2>1, <1>a DEF Lasting, Deploying
  <2> QED BY <2>1, <2>2, <2>3 DEF Unfinished, ActiveDeployments, Active, Succeeded, Deploying, ContainerActions
<1>6. ASSUME NEW p \in Request, ResultCounts(p)
      PROVE  FALSE
  <2>1. p \in Unfinished /\ row[p].kind \in ContainerActions /\ row'[p].op = "done"
    BY <1>2, <1>6, ResultReported DEF ResultCounts
  <2>2. p = r
    BY <2>1, <1>2, <1>4, <1>a, OnlyOne DEF Undisturbed
  <2>3. row'[p].kind \in ContainerActions
    BY <2>1, <1>a DEF Lasting, ContainerActions
  <2> QED BY <2>1, <2>2, <2>3, <1>a
          DEF Unfinished, ActiveDeployments, RowsFit, Deploying, ContainerActions, Active
<1> QED BY <1>1, <1>4, <1>5, <1>6, Showing

LEMMA ShownStays ==
  ASSUME DeploymentsInv, Next
  PROVE  ShownReleaseRuns'
<1>a. /\ UnfinishedIsLast /\ DoneAsAsked /\ ShownReleaseRuns /\ DeploymentsTypeOK /\ RowsFit
      /\ RowsFit' /\ DeploymentsTypeOK' /\ Lasting /\ row \in [Request -> RequestRows]
      /\ docker \in Dockers
  BY Lasts, RowsStay, TypesHold DEF DeploymentsInv, DeploymentsTypeOK
<1>n. \A p, q \in Request : p > q \/ q > p \/ p = q
  BY DeploymentsAssumption DEF Request
<1>1. SUFFICES ASSUME Undisturbed', state'.status = "running", state'.action /= "restart"
               PROVE  /\ docker'.up /\ docker'.image = disk'.current
                      /\ \A r \in Request : Latest(r)' => disk'.current = row'[r].src
  BY DEF ShownReleaseRuns, Undisturbed
<1>2. Undisturbed /\ ~crash
  BY <1>1, UndisturbedBefore
<1>3. ASSUME NEW r \in Request, Latest(r)'
      PROVE  row[r].kind /= "none" /\ row'[r].src = row[r].src /\ row'[r].kind \in Deploying
  <2>1. row'[r].kind \in Deploying
    BY <1>3, <1>a DEF Latest, RowsFit, Succeeded
  <2>2. row[r].kind /= "none"
    BY <2>1, <1>1, NewRows DEF NewRequest, Deploying
  <2> QED BY <2>1, <2>2, <1>a DEF Lasting
\* The latest request is the one that was unfinished.
<1>4. ASSUME NEW q \in Unfinished, NEW r \in Request, Latest(r)'
      PROVE  r = q
  <2>1. q \in Request /\ row[q].kind /= "none" /\ row'[q].kind /= "none"
    BY <1>a, UnfinishedRows DEF Lasting
  <2>2. ~(q > r)
    BY <2>1, <1>4 DEF Latest
  <2>3. ~(r > q)
    BY <2>1, <1>2, <1>3, <1>4, <1>a DEF UnfinishedIsLast, Undisturbed
  <2> QED BY <2>1, <2>2, <2>3, <1>n
<1>5. ASSUME NEW q \in Request, StatusReported(q), Head(reports).status \in Succeeded
      PROVE  /\ docker'.up /\ docker'.image = disk'.current
             /\ \A r \in Request : Latest(r)' => disk'.current = row'[r].src
  <2>1. q \in Unfinished /\ Done(q) /\ row[q].kind \in Deploying
    BY <1>2, <1>5, SuccessReported
  <2>2. docker.up /\ docker.image = disk.current /\ disk.current = row[q].src
    BY <2>1, <1>2, <1>a DEF DoneAsAsked
  <2>3. UNCHANGED agentVars
    <3>1. Len(reports') /= Len(reports)
      BY <1>5, <1>a DEF StatusReported, DeploymentsTypeOK
    <3>2. PlaneMove \/ \E r \in Request : \E b \in Stages : \E m \in Reports : AgentMove(r, b, m)
      BY <1>2, <3>1, Steps DEF NewRequest, TargetMove, prune
    <3>3. ASSUME NEW r \in Request, NEW b \in Stages, NEW m \in Reports, AgentMove(r, b, m)
          PROVE  FALSE
      <4>1. row'[q].status = row[q].status
        BY <3>3 DEF AgentMove, planeVars
      <4>2. row'[q].status \in Succeeded
        BY <1>2, <1>5, SuccessReported
      <4>3. row[q].status \in Active
        BY <2>1 DEF Unfinished, ActiveDeployments, Deploying, ContainerActions
      <4> QED BY <4>1, <4>2, <4>3 DEF Active, Succeeded
    <3> QED BY <3>2, <3>3 DEF PlaneMove
  <2> QED BY <2>1, <2>2, <2>3, <1>3, <1>4 DEF agentVars
<1>6. ASSUME NEW p \in Request, ResultCounts(p), Done(p), row[p].kind = "start"
      PROVE  /\ docker'.up /\ docker'.image = disk'.current
             /\ \A r \in Request : Latest(r)' => disk'.current = row'[r].src
  <2>1. p \in Unfinished /\ state.status = "pending"
    BY <1>2, <1>6, ResultReported
  <2>2. docker.up /\ docker.image = disk.current
    BY <2>1, <1>2, <1>6, <1>a DEF DoneAsAsked
  <2>3. \A r \in Request : ~Latest(r)'
    <3>1. SUFFICES ASSUME NEW r \in Request, Latest(r)' PROVE FALSE
      OBVIOUS
    <3>2. r = p /\ row'[p].kind \in Deploying /\ row'[p].kind = row[p].kind
      BY <2>1, <3>1, <1>3, <1>4, <1>6, <1>a DEF Lasting
    <3> QED BY <3>2, <1>6 DEF Deploying
  <2>4. UNCHANGED agentVars
    <3>1. PlaneMove
      BY <2>1, <1>1, <1>2, Steps DEF AgentMove, NewRequest, TargetMove, prune, planeVars
    <3> QED BY <3>1 DEF PlaneMove
  <2> QED BY <2>2, <2>3, <2>4 DEF agentVars
<1>7. CASE UNCHANGED state /\ Unfinished = {} /\ ~\E q \in Request : StatusReported(q)
  <2>1. /\ docker.up /\ docker.image = disk.current
        /\ \A r \in Request : Latest(r) => disk.current = row[r].src
    BY <1>1, <1>2, <1>7, <1>a DEF ShownReleaseRuns, Undisturbed
  <2>2. ASSUME NEW r \in Request, Latest(r)'
        PROVE  Latest(r)
    <3>1. row[r].status = row'[r].status
      <4>1. row'[r].status \in Succeeded
        BY <2>2 DEF Latest
      <4> QED BY <4>1, <2>2, <1>3, <1>7, StatusChanges DEF Succeeded
    <3>2. \A q \in Request : row'[q].kind = "none" => row[q].kind = "none"
      BY <1>a DEF Lasting
    <3> QED BY <2>2, <3>1, <3>2 DEF Latest
  <2>3. docker'.up = docker.up /\ docker'.image = docker.image /\ disk'.current = disk.current
    <3>1. \A r \in Request : Agent(r) => UNCHANGED <<disk, docker>>
      BY <1>2, <1>7, WorkIsAlone
    <3>2. prune => docker'.up = docker.up /\ docker'.image = docker.image /\ disk' = disk
      BY <1>a DEF prune, Dockers
    <3> QED BY <3>1, <3>2, <1>2, Steps DEF NewRequest, TargetMove, PlaneMove, agentVars
  <2> QED BY <2>1, <2>2, <2>3, <1>3
<1>8. ASSUME NEW q \in Request, StatusReported(q)
      PROVE  Head(reports).status \in Succeeded
  BY <1>1, <1>8 DEF StatusReported, SaveDeploymentStatus, ContainerStatus
<1> QED BY <1>1, <1>5, <1>6, <1>7, <1>8, Showing

-----------------------------------------------------------------------------
(* What is left of a target *)

LEMMA GoneStays ==
  ASSUME DeploymentsInv, Next
  PROVE  GoneIsGone'
<1>a. /\ UnfinishedIsLast /\ DoneAsAsked /\ GoneIsGone /\ DeploymentsTypeOK /\ RowsFit
      /\ RowsFit' /\ DeploymentsTypeOK' /\ Lasting /\ row \in [Request -> RequestRows]
      /\ docker \in Dockers
  BY Lasts, RowsStay, TypesHold DEF DeploymentsInv, DeploymentsTypeOK
<1>1. SUFFICES ASSUME ~target'.row, Undisturbed', \E r \in Request : row'[r].kind /= "none"
               PROVE  /\ Unfinished' = {}
                      /\ \A q \in Request : disk'.release[q] = "none"
                      /\ ~history'.edited => docker'.image = None
  BY DEF GoneIsGone
<1>2. Undisturbed /\ ~crash /\ (~history'.edited => ~history.edited)
  BY <1>1, <1>a, UndisturbedBefore DEF Lasting
<1>3. /\ \A r \in Request, x \in RequestRows : ~NewRequest(r, x)
      /\ ~TargetMove
  BY <1>1 DEF NewRequest, Free, TargetMove
<1>4. \A r \in Request : row'[r].kind = row[r].kind
  BY <1>2, <1>3, Steps DEF AgentMove, PlaneMove, SameRequest, prune, planeVars
<1>5. \A r \in Unfinished' : r \in Request /\ row[r].kind /= "none" /\ r \in Unfinished
  <2>1. \A r \in Unfinished' : r \in Request /\ row'[r].kind /= "none"
    BY <1>a DEF Unfinished, ActiveDeployments, RowsFit, NoRow, Active, ContainerActions
  <2> QED BY <2>1, <1>2, <1>4, Unfinishing DEF Undisturbed
<1>6. CASE ~target.row
  <2>1. /\ Unfinished = {} /\ \A q \in Request : disk.release[q] = "none"
        /\ ~history.edited => docker.image = None
    BY <1>1, <1>2, <1>4, <1>6, <1>a DEF GoneIsGone
  <2>2. docker'.image = docker.image /\ disk' = disk
    <3>1. \A r \in Request : Agent(r) => UNCHANGED <<disk, docker>>
      BY <1>2, <2>1, WorkIsAlone
    <3>2. prune => docker'.image = docker.image /\ disk' = disk
      BY <1>a DEF prune, Dockers
    <3> QED BY <3>1, <3>2, <1>2, <1>3, Steps DEF PlaneMove, agentVars
  <2> QED BY <2>1, <2>2, <1>2, <1>5
<1>7. CASE target.row
  <2>1. target' /= target
    BY <1>1, <1>7
  <2>2. PlaneStep /\ PlaneMove
    BY <2>1, <1>2, <1>3, Steps DEF AgentMove, prune, planeVars
  <2>3. PICK p \in Request : ResultCounts(p)
    BY <2>1, <2>2, StateChanges
  <2>4. /\ p \in Unfinished /\ state.action = row[p].kind /\ receipt[p] = Head(reports).status
        /\ row[p].kind \in ContainerActions /\ row'[p].op = "done"
    BY <2>3, <1>2, ResultReported DEF ResultCounts
  <2>5. Head(reports).status = "succeeded" /\ row[p].kind = "delete"
    BY <2>1, <2>3, <2>4 DEF ResultCounts, CompleteDeploymentContainerOperation
  <2>6. /\ \A q \in Request : disk.release[q] = "none"
        /\ ~history.edited => docker.image = None
    BY <2>4, <2>5, <1>2, <1>a DEF DoneAsAsked, Done
  <2>7. p \notin Unfinished'
    <3>1. row'[p].kind \in ContainerActions
      BY <2>4, <1>4
    <3> QED BY <3>1, <2>4, <1>a
            DEF Unfinished, ActiveDeployments, RowsFit, Deploying, ContainerActions, Active
  <2>8. \A r \in Unfinished' : r = p
    BY <1>2, <1>5, <2>4, <1>a, OnlyOne DEF Undisturbed
  <2> QED BY <2>2, <2>6, <2>7, <2>8, <1>2 DEF PlaneMove, agentVars
<1> QED BY <1>6, <1>7

LEMMA ReleasesStay ==
  ASSUME DeploymentsInv, Next
  PROVE  ReleasesFit'
<1>a. /\ StagesFit /\ StagesHold /\ RowsFit /\ ReleasesFit /\ Lasting /\ RowsFit'
      /\ row \in [Request -> RequestRows] /\ exec \in [Request -> Stages]
      /\ disk \in Disks /\ docker \in Dockers /\ disk' \in Disks /\ docker' \in Dockers
      /\ history \in Histories /\ target \in TargetRows
  BY Lasts, RowsStay, TypesHold DEF DeploymentsInv, DeploymentsTypeOK
<1>m. MaxRequests \in Nat
  BY DeploymentsAssumption
<1>i. /\ docker.image \in 0..MaxRequests /\ docker'.image \in 0..MaxRequests
      /\ \A s \in 0..MaxRequests : s /= None => s \in Request
      /\ disk.pinned \subseteq Request /\ disk'.pinned \subseteq Request
  BY <1>m, <1>a DEF Dockers, Disks, None, Request
<1>n. \A s \in disk.pinned : disk.release[s] = row[s].config /\ row[s].kind = "deploy"
  BY <1>a DEF ReleasesFit
\* The configurations.
<1>c. ASSUME ~history'.edited
      PROVE  /\ \A q, r \in Request : row'[q].kind /= "none" /\ row'[r].kind /= "none" =>
                   row'[q].config = row'[r].config
             /\ \A r \in Request : row'[r].kind /= "none" /\ target'.row =>
                   row'[r].config = target'.config
  <2>1. /\ \A q, r \in Request : row[q].kind /= "none" /\ row[r].kind /= "none" =>
              row[q].config = row[r].config
        /\ \A r \in Request : row[r].kind /= "none" /\ target.row => row[r].config = target.config
    BY <1>c, <1>a DEF ReleasesFit, Lasting
  <2>2. ASSUME NEW p \in Request, NEW x \in RequestRows, NewRequest(p, x)
        PROVE  /\ \A q, r \in Request : row'[q].kind /= "none" /\ row'[r].kind /= "none" =>
                     row'[q].config = row'[r].config
               /\ \A r \in Request : row'[r].kind /= "none" /\ target'.row =>
                     row'[r].config = target'.config
    <3>1. /\ row' = [row EXCEPT ![p] = x] /\ target' = target /\ target.row
          /\ x.config = target.config
             \/ \E s \in Request : row[s].kind /= "none" /\ x.config = row[s].config
      BY <2>2 DEF NewRequest, Free
    <3>2. \A q \in Request : row'[q] = IF q = p THEN x ELSE row[q]
      BY <3>1, <1>a
    <3>3. \A q \in Request : row'[q].kind /= "none" => row'[q].config = target.config
      BY <3>1, <3>2, <2>1
    <3> QED BY <3>1, <3>3
  <2>3. CASE TargetMove
    <3>1. history' = history
      BY <2>3, <1>c, <1>a DEF TargetMove, Histories
    <3>2. history' = [history EXCEPT !.edited = TRUE] => history'.edited
      BY <1>a DEF Histories
    <3> QED BY <2>3, <3>2, <1>c DEF TargetMove
  <2>4. CASE PlaneMove
    BY <2>1, <2>4 DEF PlaneMove, SameRequest
  <2>5. CASE UNCHANGED <<row, target>>
    BY <2>1, <2>5
  <2> QED BY <2>2, <2>3, <2>4, <2>5, Steps DEF AgentMove, crash, prune, planeVars
<1>1. ASSUME disk' = disk, docker'.image = docker.image,
             \A r \in Request : exec'[r] = "wipe" => exec[r] = "wipe"
      PROVE  ReleasesFit'
  <2>1. \A s \in Request : row[s].kind = "deploy" =>
           row'[s].kind = "deploy" /\ row'[s].config = row[s].config
    BY <1>a DEF Lasting
  <2>2. \A s \in disk'.pinned : disk'.release[s] = row'[s].config /\ row'[s].kind = "deploy"
    BY <1>1, <2>1, <1>i, <1>n
  <2>3. ASSUME ~history'.edited
        PROVE  /\ docker'.image /= None => /\ row'[docker'.image].kind = "deploy"
                                           /\ disk'.release[docker'.image] = row'[docker'.image].config
               /\ \A r \in Request : exec'[r] = "wipe" => docker'.image = None
    BY <2>3, <1>1, <2>1, <1>i, <1>a DEF ReleasesFit, Lasting
  <2> QED BY <1>c, <2>2, <2>3 DEF ReleasesFit
<1>2. CASE prune
  BY <1>1, <1>2, <1>a DEF prune, Dockers
<1>3. CASE crash
  BY <1>1, <1>3 DEF crash
<1>4. ASSUME NEW r \in Request, NEW b \in Stages, NEW m \in Reports, Agent(r), AgentMove(r, b, m)
      PROVE  ReleasesFit'
  <2>1. /\ row' = row /\ exec' = [exec EXCEPT ![r] = b] /\ history'.edited = history.edited
        /\ \A q \in Request : exec'[q] = IF q = r THEN b ELSE exec[q]
    BY <1>4, <1>a DEF AgentMove, planeVars, Histories
  <2>2. \A q \in Request : q /= r /\ exec'[q] = "wipe" => UNCHANGED <<disk, docker>>
    BY <2>1, <1>4, <1>a, Exclusive DEF Outside
  <2>w. b = "wipe" => deleteTarget(r)
    <3>1. exec'[r] = b /\ (\A s : Go(r, s) => exec'[r] = s) /\ exec[r] \in Stages
      BY <2>1, <1>a DEF Go
    <3>2. b = "wipe" => ~begin(r) /\ ~finish(r) /\ ~preflight(r) /\ ~createRelease(r) /\ ~up(r)
      BY <3>1, <1>a DEF begin, finish, preflight, Preflight, createRelease, up, Fails
    <3>3. b = "wipe" => ~verify(r) /\ ~unlinkCurrent(r) /\ ~linkCurrent(r) /\ ~rollback(r)
      BY <3>1 DEF verify, unlinkCurrent, linkCurrent, rollback, Fails
    <3>4. b = "wipe" => ~ContainerAction(r) /\ ~removeRoot(r)
      BY <3>1 DEF ContainerAction, removeRoot
    <3> QED BY <1>4, <3>2, <3>3, <3>4 DEF Agent
  \* It is enough to look at the release and the images the step brings.
  <2>3. ASSUME \A s \in disk'.pinned : disk'.release[s] = row[s].config /\ row[s].kind = "deploy",
               ~history.edited =>
                  /\ docker'.image /= None => /\ row[docker'.image].kind = "deploy"
                                              /\ disk'.release[docker'.image] = row[docker'.image].config
                  /\ b = "wipe" => docker'.image = None
        PROVE  ReleasesFit'
    <3>1. ~history.edited => \A q \in Request : exec'[q] = "wipe" => docker'.image = None
      BY <2>1, <2>2, <2>3, <1>a DEF ReleasesFit
    <3> QED BY <2>1, <2>3, <3>1, <1>c DEF ReleasesFit
  <2>i. ~history.edited /\ docker.image /= None =>
           /\ row[docker.image].kind = "deploy"
           /\ disk.release[docker.image] = row[docker.image].config
           /\ disk.release[docker.image] /= "none"
    BY <1>a, <1>i, DeploymentsAssumption DEF ReleasesFit, RowsFit
  <2>p. \A s \in disk.pinned : disk.release[s] /= "none"
    BY <1>a, <1>i, <1>n, DeploymentsAssumption DEF RowsFit
  <2>4. CASE UNCHANGED <<disk, docker>> /\ b /= "wipe"
    BY <2>4, <2>3, <2>i, <1>n
  <2>5. CASE createRelease(r)
    <3>1. docker' = docker /\ b /= "wipe"
          /\ (disk' = disk \/ \E d : disk.release[r] = "none" /\ disk' = [disk EXCEPT !.release[r] = d])
      BY <2>5, <2>w DEF createRelease, deleteTarget, Enter, At
    <3>2. /\ disk'.pinned = disk.pinned
          /\ \A s \in Request : disk.release[s] /= "none" => disk'.release[s] = disk.release[s]
      BY <3>1, <1>a DEF Disks
    <3> QED BY <3>1, <3>2, <2>3, <2>i, <2>p, <1>i, <1>n
  <2>6. CASE up(r)
    <3>1. disk' = disk /\ b /= "wipe" /\ exec[r] = "up" /\ docker'.image \in {docker.image, r}
      BY <2>6, <2>w, <1>a DEF up, deleteTarget, Enter, At, Built, Dockers
    <3>2. row[r].kind = "deploy" /\ disk.release[r] = row[r].config
      BY <3>1, <1>a DEF StagesFit, StagesHold
    <3> QED BY <3>1, <3>2, <2>3, <2>i, <1>n
  <2>7. CASE verify(r)
    <3>1. /\ b /= "wipe" /\ exec[r] = "images" /\ docker'.image = docker.image
          /\ disk'.release = disk.release /\ disk'.pinned \in {disk.pinned, disk.pinned \cup {r}}
      BY <2>7, <2>w, <1>a DEF verify, saveReleaseImages, deleteTarget, Enter, At, Disks, Dockers
    <3>2. row[r].kind = "deploy" /\ disk.release[r] = row[r].config
      BY <3>1, <1>a DEF StagesFit, StagesHold
    <3>3. \A s \in disk'.pinned : s \in disk.pinned \/ s = r
      BY <3>1
    <3> QED BY <3>1, <3>2, <3>3, <2>3, <2>i, <1>n
  <2>8. CASE unlinkCurrent(r) \/ linkCurrent(r)
    <3>1. /\ b /= "wipe" /\ docker' = docker
          /\ disk'.release = disk.release /\ disk'.pinned = disk.pinned
      BY <2>8, <2>w, <1>a DEF unlinkCurrent, linkCurrent, deleteTarget, Enter, At, Disks
    <3> QED BY <3>1, <2>3, <2>i, <1>n
  <2>9. CASE rollback(r)
    <3>1. b /= "wipe"
      BY <2>9, <2>w DEF rollback, deleteTarget, Enter
    <3>2. /\ disk' = disk
          /\ \/ docker' = docker
             \/ /\ row[r].src \in disk.pinned
                /\ \E u \in BOOLEAN : docker' = [docker EXCEPT !.image = row[r].src, !.up = u]
      BY <2>9 DEF rollback, pinnedCompose, loadReleaseImages
    <3>3. \/ docker'.image = docker.image
          \/ docker'.image = row[r].src /\ row[r].src \in disk.pinned
      BY <3>2, <1>a DEF Dockers
    <3> QED BY <3>1, <3>2, <3>3, <2>3, <2>i, <1>n
  <2>10. CASE ContainerAction(r)
    <3>1. /\ disk' = disk /\ row[r].kind \in {"start", "stop", "restart", "remove"}
          /\ (docker' = docker \/ containerActionSpec(row[r].kind))
      BY <2>10 DEF ContainerAction, Enter
    <3>2. \/ docker'.image = docker.image \/ docker'.image = None
          \/ docker'.image = disk.current /\ disk.current \in disk.pinned
      BY <3>1, <1>a DEF containerActionSpec, pinnedCompose, loadReleaseImages, Dockers
    <3>3. b /= "wipe"
      BY <3>1, <2>w DEF deleteTarget, Enter
    <3> QED BY <3>1, <3>2, <3>3, <2>3, <2>i, <1>n
  <2>11. CASE deleteTarget(r)
    <3>1. /\ disk' = disk /\ row[r].kind = "delete"
          /\ \/ b = "failed" /\ docker' = docker
             \/ docker' = IF targetComposePaths(row[r].config)
                          THEN [docker EXCEPT !.image = None, !.up = FALSE] ELSE docker
      BY <2>1, <2>11, <1>a DEF deleteTarget, Enter, Go
    <3>2. ~history.edited /\ docker.image /= None => targetComposePaths(row[r].config)
      BY <3>1, <2>i, <1>i, <1>a DEF ReleasesFit, targetComposePaths
    <3>3. docker'.image \in {docker.image, None}
      BY <3>1, <1>a DEF Dockers
    <3>4. ~history.edited /\ b = "wipe" => docker'.image = None
      BY <3>1, <3>2, <1>a DEF Dockers
    <3> QED BY <3>1, <3>3, <3>4, <2>3, <2>i, <1>n
  <2>12. CASE removeRoot(r)
    <3>0. /\ exec[r] = "wipe" /\ docker' = docker
          /\ \/ disk' = disk
             \/ disk' = [release |-> [q \in Request |-> "none"], pinned |-> {}, current |-> None]
      BY <2>12 DEF removeRoot, At
    <3>1. /\ exec[r] = "wipe" /\ docker' = docker
          /\ disk' = disk \/ disk'.pinned = {}
      BY <3>0
    <3>2. b /= "wipe" /\ (~history.edited => docker'.image = None)
      BY <3>1, <2>w, <1>a DEF ReleasesFit, deleteTarget, Enter
    <3> QED BY <3>1, <3>2, <2>3, <1>n
  <2>13. (UNCHANGED <<disk, docker>> /\ b /= "wipe") \/ Work(r)
    BY <1>4, <1>a, <2>w, Exclusive DEF Work
  <2> QED BY <2>4, <2>5, <2>6, <2>7, <2>8, <2>9, <2>10, <2>11, <2>12, <2>13 DEF Work
<1> QED BY <1>1, <1>2, <1>3, <1>4, Steps DEF NewRequest, TargetMove, PlaneMove, agentVars

-----------------------------------------------------------------------------
(* The theorems *)

LEMMA StartsWell ==
  ASSUME Init
  PROVE  DeploymentsInv
<1>m. MaxRequests \in Nat
  BY DeploymentsAssumption
<1>z. 0 \in 0..MaxRequests /\ None = 0 /\ 0 \notin Request
  BY <1>m DEF None, Request
<1>1. /\ target = [row |-> FALSE, config |-> "none"] /\ row = [r \in Request |-> NoRow]
      /\ state = NoState /\ handling = None /\ reports = <<>>
      /\ exec = [r \in Request |-> "idle"] /\ receipt = [r \in Request |-> "none"]
      /\ disk = [release |-> [r \in Request |-> "none"], pinned |-> {}, current |-> None]
      /\ docker = [image |-> None, up |-> FALSE, images |-> {}, kept |-> {}, latest |-> None]
      /\ history = [faults |-> 0, edited |-> FALSE, cleared |-> FALSE, wiped |-> FALSE, again |-> {}]
  BY DEF Init
<1>2. DeploymentsTypeOK
  <2>1. target \in TargetRows /\ state \in StateRows /\ handling \in 0..MaxRequests
    BY <1>1, <1>z DEF TargetRows, StateRows, Shown, NoState
  <2>2. row \in [Request -> RequestRows]
    BY <1>1, <1>z DEF RequestRows, NoRow
  <2>3. exec \in [Request -> Stages] /\ receipt \in [Request -> {"none", "succeeded", "failed"}]
    BY <1>1 DEF Stages, Outside
  <2>4. disk \in Disks /\ docker \in Dockers
    BY <1>1, <1>z DEF Disks, Dockers
  <2>5. history \in Histories /\ reports \in Seq(Reports)
    BY <1>1 DEF Histories
  <2> QED BY <2>1, <2>2, <2>3, <2>4, <2>5 DEF DeploymentsTypeOK
<1>3. \A r \in Request : row[r] = NoRow /\ exec[r] = "idle" /\ receipt[r] = "none"
  BY <1>1
<1>4. RowsFit /\ HandlerFits /\ StagesFit /\ StagesHold
  BY <1>1, <1>3 DEF RowsFit, HandlerFits, StagesFit, StagesHold, NoRow, Deploying,
                    ContainerActions, Outside
<1>5. DOMAIN reports = {}
  BY <1>1
<1>6. ReportsHold /\ FinalIsLast
  BY <1>5 DEF ReportsHold, FinalIsLast
<1>7. Unfinished = {}
  BY <1>3 DEF Unfinished, ActiveDeployments, NoRow, Active, ContainerActions
<1>8. FinishedIsOver /\ SucceededIsKept
  BY <1>3 DEF FinishedIsOver, SucceededIsKept, NoRow, Finished, Succeeded
<1>9. UnfinishedIsLast /\ DoneAsAsked /\ NotYetShown
  BY <1>7 DEF UnfinishedIsLast, DoneAsAsked, NotYetShown
<1>10. ReleasesFit /\ GoneIsGone
  BY <1>1, <1>3 DEF ReleasesFit, GoneIsGone, NoRow
<1>11. ShownReleaseRuns
  BY <1>1 DEF ShownReleaseRuns, NoState
<1> QED BY <1>2, <1>4, <1>6, <1>8, <1>9, <1>10, <1>11 DEF DeploymentsInv

\* Every step keeps the conjunction: each part from the others and itself.
THEOREM DeploymentsInvariant == Spec => []DeploymentsInv
<1>1. Init => DeploymentsInv
  BY StartsWell
<1>2. DeploymentsInv /\ [Next]_vars => DeploymentsInv'
  <2>1. CASE DeploymentsInv /\ Next
    BY <2>1, TypesHold, RowsStay, HandlersStay, StagesStay, StagesHoldOn, ReportsHoldOn,
       FinalIsLastStays, FinishedStaysOver, UnfinishedIsLastStays, DoneAsAskedStays,
       NotYetShownStays, ReleasesStay, GoneStays, SucceededStays, ShownStays
       DEF DeploymentsInv
  <2>2. CASE DeploymentsInv /\ UNCHANGED vars
    BY <2>2 DEF vars, DeploymentsInv, DeploymentsTypeOK, RowsFit, HandlerFits, StagesFit,
       StagesHold, Intact, ReportsHold, FinalIsLast, OnlyFailed, FinishedIsOver, Over, Ended, Done,
       Undisturbed, UnfinishedIsLast, Unfinished, ActiveDeployments, DoneAsAsked, NotYetShown,
       ReleasesFit, GoneIsGone, SucceededIsKept, ShownReleaseRuns, Latest
  <2> QED BY <2>1, <2>2
<1> QED BY <1>1, <1>2, PTL DEF Spec

\* Every variable keeps the shape of the tables and of the Agent's files.
THEOREM DeploymentsTypes == Spec => []DeploymentsTypeOK
<1>1. DeploymentsInv => DeploymentsTypeOK
  BY DEF DeploymentsInv
<1> QED BY <1>1, DeploymentsInvariant, PTL

\* Deployments and container actions of a target keep each other out, however
\* many are asked for and whatever fails: at most one is unfinished, but for
\* what a late "failed" cleared and what a reborn Agent repeats.
THEOREM LifecycleIsSerialized == Spec => []LifecycleSerialized
<1>1. ASSUME DeploymentsInv, ~history.cleared
      PROVE  Cardinality(Unfinished \ history.again) <= 1
  <2>1. \A q, r \in Unfinished \ history.again : q = r
    BY <1>1, OnlyOne DEF DeploymentsInv
  <2>2. CASE Unfinished \ history.again = {}
    BY <2>2, FS_EmptySet
  <2>3. CASE Unfinished \ history.again /= {}
    <3>1. PICK q \in Unfinished \ history.again : TRUE
      BY <2>3
    <3>2. Unfinished \ history.again = {q}
      BY <2>1, <3>1
    <3>3. Cardinality({q}) = 1
      BY FS_Singleton
    <3> QED BY <3>2, <3>3
  <2> QED BY <2>2, <2>3
<1>2. DeploymentsInv => LifecycleSerialized
  BY <1>1 DEF LifecycleSerialized
<1> QED BY <1>2, DeploymentsInvariant, PTL

\* What the page shows as running runs the images of the current release, the
\* one of the deployment, the rollback or the start that was asked for last.
THEOREM ShownIsWhatRuns == Spec => []ShownReleaseRuns
<1>1. DeploymentsInv => ShownReleaseRuns
  BY DEF DeploymentsInv
<1> QED BY <1>1, DeploymentsInvariant, PTL

\* What succeeded can be rolled back to, whatever is deployed, pruned or
\* repeated after it, until the deletion of the target begins.
THEOREM RollbackSourceStays == Spec => []RollbackSourceIntact
<1>1. DeploymentsInv => RollbackSourceIntact
  BY DEF DeploymentsInv, SucceededIsKept, RollbackSourceIntact, Intact
<1> QED BY <1>1, DeploymentsInvariant, PTL

\* A target that was deleted has left no container and no release on the server.
THEOREM DeletionIsComplete == Spec => []DeletedLeavesNothing
<1>1. DeploymentsInv => DeletedLeavesNothing
  BY DEF DeploymentsInv, GoneIsGone, DeletedLeavesNothing, Undisturbed
<1> QED BY <1>1, DeploymentsInvariant, PTL
=============================================================================
