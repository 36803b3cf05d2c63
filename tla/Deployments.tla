---------------------------- MODULE Deployments ----------------------------
(***************************************************************************)
(* One deployment target: its rows in the control plane (deployments,      *)
(* deployment_container_state and the operations they queue; store and     *)
(* httpapi resources.go), and the Agent that carries them out with git and *)
(* Docker Compose (internal/deployer, deploymenttemplate, prerequisite).   *)
(*                                                                         *)
(* A deployment, a rollback and a container action are all requests: a     *)
(* request is a number, in the order of creation, and the image a          *)
(* deployment builds is identified by it.  A configuration stands for the  *)
(* working directory and Compose file of the target; server and release    *)
(* root stay what they are.  Reports travel to the control plane in order  *)
(* (AgentOperations has the details); logs, messages and URLs are left     *)
(* out.                                                                    *)
(***************************************************************************)
EXTENDS Naturals, Sequences, FiniteSets

CONSTANTS
    MaxRequests,  \* bound on deployments, rollbacks and container actions
    Configs,      \* working directory and Compose file of a target
    Trees,        \* what a commit of the project holds, for Detect
    BuildModes,   \* "build", "pull"
    Ports,        \* public ports a target may be configured with
    MaxAttempts,  \* how often a health check fits its timeout
    Actions,      \* the container actions asked for
    MaxReports,   \* bound on the reports on their way
    Faults, MaxFaults,
    FaultRequests \* bound on the requests there are when a fault happens

FaultKinds == {"crash", "disconnect", "restart", "prune"}
Tools == {"git", "docker", "compose"}
Request == 1..MaxRequests
Publishers == [port : Ports, protocol : {"tcp", "udp"}, loopback : BOOLEAN]
None == 0

ASSUME DeploymentsAssumption ==
    /\ MaxRequests \in Nat /\ MaxReports \in Nat \ {0, 1} /\ MaxFaults \in Nat
    /\ FaultRequests \in Nat
    /\ Ports \subseteq Nat \ {0} /\ MaxAttempts \in Nat \ {0}
    /\ Faults \subseteq FaultKinds
    /\ BuildModes \subseteq {"build", "pull"}
    /\ Actions \subseteq {"start", "stop", "restart", "remove", "delete"}
    /\ Configs \cap {"none", "partial"} = {}

VARIABLES
    target,     \* deployment_targets: its row is there, and its configuration
    row,        \* deployments and agent_operations, per request
    state,      \* deployment_container_state: status, action, operation_id
    handling,   \* the deployment whose HTTP handler has yet to queue it
    reports,    \* from the Agent, in order
    exec,       \* the Agent's goroutine of a request
    receipt,    \* its operation-results file
    disk,       \* the release root of the target
    docker,     \* its Compose project and the images of the server
    history     \* what the properties need of the past

vars == <<target, row, state, handling, reports, exec, receipt, disk, docker, history>>
agentVars == <<exec, receipt, disk, docker>>
planeVars == <<target, row, state, handling>>

Active == {"queued", "preparing", "running"}
Succeeded == {"succeeded", "rolled_back"}
Finished == Succeeded \cup {"failed"}
ContainerActions == {"start", "stop", "restart", "remove", "delete"}

NoRow == [kind |-> "none", config |-> "none", src |-> None, status |-> "none", op |-> "none"]
NoState == [status |-> "none", action |-> "none", op |-> None]

Init ==
    /\ target = [row |-> FALSE, config |-> "none"]
    /\ row = [r \in Request |-> NoRow]
    /\ state = NoState
    /\ handling = None
    /\ reports = <<>>
    /\ exec = [r \in Request |-> "idle"]
    /\ receipt = [r \in Request |-> "none"]
    /\ disk = [release |-> [r \in Request |-> "none"], pinned |-> {}, current |-> None]
    /\ docker = [image |-> None, up |-> FALSE, images |-> {}, kept |-> {}, latest |-> None]
    /\ history = [faults |-> 0, edited |-> FALSE, cleared |-> FALSE, wiped |-> FALSE, again |-> {}]

\* A fault happens a bounded number of times, while there are few requests.
MayFail(f) ==
    /\ f \in Faults /\ history.faults < MaxFaults
    /\ \A r \in Request : r > FaultRequests => row[r].kind = "none"

Fault(f) == MayFail(f) /\ history' = [history EXCEPT !.faults = @ + 1]

----------------------------------------------------------------------------
(* The control plane: requests of the administrator.                       *)

Unused(r) == row[r].kind = "none" /\ \A q \in Request : q < r => row[q].kind /= "none"
ActiveDeployments == {r \in Request : row[r].status \in Active}
DeploymentActive == ActiveDeployments /= {}
ContainerActive == state.status = "pending"
Free == target.row /\ ~DeploymentActive /\ ~ContainerActive

\* The checks of the input leave a configuration that stays in the release.
deploymentTargetFromInput == Configs

CreateDeploymentTarget(c) == target' = [row |-> TRUE, config |-> c]

createDeploymentTarget ==
    /\ ~target.row /\ \A r \in Request : row[r].kind = "none"
    /\ \E c \in deploymentTargetFromInput : CreateDeploymentTarget(c)
    /\ UNCHANGED <<row, state, handling, reports, agentVars, history>>

\* The transaction of an edit: refused while anything is active.
UpdateDeploymentTarget(c) ==
    /\ ~DeploymentActive /\ ~ContainerActive
    /\ target.row /\ target' = [target EXCEPT !.config = c]

updateDeploymentTarget ==
    /\ ~history.edited
    /\ \E c \in deploymentTargetFromInput \ {target.config} : UpdateDeploymentTarget(c)
    /\ history' = [history EXCEPT !.edited = TRUE]
    /\ UNCHANGED <<row, state, handling, reports, agentVars>>

\* Mutant: a pending container action does not keep a deployment out.
CreateOverContainer(r) ==
    /\ ~DeploymentActive /\ target.row
    /\ row' = [row EXCEPT ![r] = [kind |-> "deploy", config |-> target.config, src |-> r,
                                  status |-> "queued", op |-> "none"]]
    /\ state' = [status |-> "pending", action |-> "deploy", op |-> None]

\* One transaction: the deployment, the snapshot of the configuration it will
\* use, and the container state, pending without an operation.
CreateDeployment(r) ==
    /\ Free
    /\ row' = [row EXCEPT ![r] = [kind |-> "deploy", config |-> target.config, src |-> r,
                                  status |-> "queued", op |-> "none"]]
    /\ state' = [status |-> "pending", action |-> "deploy", op |-> None]

startDeployment(r) ==
    /\ Unused(r) /\ CreateDeployment(r)
    /\ handling' = r
    /\ UNCHANGED <<target, reports, agentVars, history>>

\* A rollback copies the snapshot of its source, which must have succeeded.
CreateRollbackDeployment(r, s) ==
    /\ Free
    /\ row[s].status \in Succeeded
    /\ row' = [row EXCEPT ![r] = [kind |-> "rollback", config |-> row[s].config, src |-> s,
                                  status |-> "queued", op |-> "none"]]
    /\ state' = [status |-> "pending", action |-> "rollback", op |-> None]

\* Without a deployment_id the source is the latest that succeeded.
LatestDeploymentSnapshot ==
    {s \in Request : /\ row[s].status \in Succeeded
                     /\ \A q \in Request : row[q].status \in Succeeded => q <= s}

rollbackDeployment(r) ==
    /\ Unused(r)
    /\ \E s \in LatestDeploymentSnapshot \cup {q \in Request : row[q].status /= "none"} :
           CreateRollbackDeployment(r, s)
    /\ handling' = r
    /\ UNCHANGED <<target, reports, agentVars, history>>

ContainerStatus(status) ==
    IF status \in Active THEN "pending" ELSE IF status \in Succeeded THEN "running" ELSE "unknown"

\* A status report overwrites the deployment's status and the container state,
\* whatever either says at the time.
SaveDeploymentStatus(r, status) ==
    /\ row[r].status \notin {"none", "deleted"}
    /\ row' = [row EXCEPT ![r].status = status]
    /\ state' = [status |-> ContainerStatus(status), action |-> row[r].kind, op |-> None]
    /\ history' = [history EXCEPT !.cleared = @ \/ (ContainerActive /\ state.op /= None)]

\* The rest of startDeployment and rollbackDeployment: queue the operation ...
QueueEncryptedResourceOperation ==
    /\ handling /= None
    /\ row' = [row EXCEPT ![handling].op = "queued"]
    /\ handling' = None
    /\ UNCHANGED <<target, state, reports, agentVars, history>>

\* ... or mark the deployment failed: the server went offline, the secret set
\* has changed since the snapshot, the operation could not be queued.
handlerFails ==
    /\ handling /= None
    /\ SaveDeploymentStatus(handling, "failed")
    /\ handling' = None
    /\ UNCHANGED <<target, reports, agentVars>>

\* The control plane is restarted in the middle of the handler.
restart ==
    /\ handling /= None /\ handling' = None
    /\ Fault("restart")
    /\ UNCHANGED <<target, row, state, reports, agentVars>>

DeleteDeployment(r) ==
    /\ row[r].status \in Finished
    /\ row' = [row EXCEPT ![r].status = "deleted"]

deleteDeployment(r) ==
    /\ DeleteDeployment(r)
    /\ UNCHANGED <<target, state, handling, reports, agentVars, history>>

\* One transaction: the operation and the pending container state.
QueueDeploymentContainerOperation(r, action) ==
    /\ Free
    /\ row' = [row EXCEPT ![r] = [kind |-> action, config |-> target.config, src |-> None,
                                  status |-> "none", op |-> "queued"]]
    /\ state' = [status |-> "pending", action |-> action, op |-> r]

deploymentContainerAction(r) ==
    /\ Unused(r)
    /\ \E a \in Actions \ {"delete"} : QueueDeploymentContainerOperation(r, a)
    /\ UNCHANGED <<target, handling, reports, agentVars, history>>

deleteDeploymentTarget(r) ==
    /\ "delete" \in Actions
    /\ Unused(r)
    /\ QueueDeploymentContainerOperation(r, "delete")
    /\ UNCHANGED <<target, handling, reports, agentVars, history>>

----------------------------------------------------------------------------
(* The control plane: reports of the Agent.                                *)

\* The result of a container action counts only while the container state
\* still names its operation.
CompleteDeploymentContainerOperation(r, result) ==
    IF state.op /= r THEN UNCHANGED <<target, state>>
    ELSE IF state.action = "delete" /\ result = "succeeded"
    THEN target' = [row |-> FALSE, config |-> "none"] /\ state' = NoState
    ELSE /\ state' = [state EXCEPT !.status =
                IF result /= "succeeded" THEN "failed"
                ELSE CASE state.action \in {"start", "restart"} -> "running"
                       [] state.action = "stop" -> "stopped"
                       [] state.action \in {"remove", "delete"} -> "removed"]
         /\ UNCHANGED target

\* A deployment's history goes with its target.
Cascade(rows) == IF target'.row THEN rows
                 ELSE [r \in Request |-> IF rows[r].status = "none" THEN rows[r]
                                         ELSE [rows[r] EXCEPT !.status = "deleted"]]

handleStarted(m) ==
    /\ row' = [row EXCEPT ![m.r].op = IF @ = "queued" THEN "running" ELSE @]
    /\ UNCHANGED <<target, state, history>>

handleStatus(m) ==
    /\ UNCHANGED target
    /\ IF target.row /\ row[m.r].status /= "deleted"
       THEN SaveDeploymentStatus(m.r, m.status)
       ELSE UNCHANGED <<row, state, history>>

handleResult(m) ==
    /\ UNCHANGED history
    /\ IF row[m.r].op = "done" THEN UNCHANGED <<target, row, state>>
       ELSE /\ IF row[m.r].kind \in ContainerActions
               THEN CompleteDeploymentContainerOperation(m.r, m.status)
               ELSE UNCHANGED <<target, state>>
            /\ row' = Cascade([row EXCEPT ![m.r].op = "done"])

handle ==
    /\ reports /= <<>>
    /\ LET m == Head(reports) IN
           \/ m.kind = "started" /\ handleStarted(m)
           \/ m.kind = "status" /\ handleStatus(m)
           \/ m.kind = "result" /\ handleResult(m)
    /\ reports' = Tail(reports)
    /\ UNCHANGED <<handling, agentVars>>

----------------------------------------------------------------------------
(* The Agent: executing a request under the deployer's mutex.              *)

Report(r, kind, status) == [r |-> r, kind |-> kind, status |-> status]
Post(ms) ==
    /\ Len(reports) + Len(ms) <= MaxReports
    /\ reports' = reports \o ms

Outside == {"idle", "wait", "succeeded", "failed", "done"}
Locked == \E r \in Request : exec[r] \notin Outside

\* An operation whose start was never reported is delivered again: after a
\* death of the Agent it is executed again, unless its receipt is there.
begin(r) ==
    /\ row[r].op = "queued" /\ exec[r] = "idle"
    /\ IF receipt[r] = "none"
       THEN /\ exec' = [exec EXCEPT ![r] = "wait"]
            /\ Post(<<Report(r, "started", "none")>>)
       ELSE /\ exec' = [exec EXCEPT ![r] = "done"]
            /\ Post(<<Report(r, "result", receipt[r])>>)
    /\ UNCHANGED <<planeVars, receipt, disk, docker, history>>

\* An execution starts once it has the mutex.
Enter(r, kinds) == exec[r] = "wait" /\ row[r].kind \in kinds /\ ~Locked

At(r, pc) == exec[r] = pc
Go(r, pc) == exec' = [exec EXCEPT ![r] = pc]
StatusOf(r, s) == Report(r, "status", s)

\* runDeployment and runRollback report "failed" for every error.
Fails(r) == Go(r, "failed") /\ Post(<<StatusOf(r, "failed")>>)

\* handleOperation saves the receipt and reports the result.
finish(r) ==
    /\ exec[r] \in {"succeeded", "failed"}
    /\ receipt' = [receipt EXCEPT ![r] = exec[r]]
    /\ Post(<<Report(r, "result", exec[r])>>)
    /\ Go(r, "done")
    /\ UNCHANGED <<planeVars, disk, docker, history>>

\* The root helper brings what is missing, git first; it stops at the first
\* package that no candidate provides, and keeps what it has installed before.
install(have, tool) == {have, have \cup {tool}}

ensureWithManager(have) ==
    LET git == install(have, "git")
        engine == UNION {install(t, "docker") : t \in {t \in git : "git" \in t}}
        compose == UNION {install(t, "compose") : t \in {t \in engine : "docker" \in t}}
    IN  git \cup engine \cup compose

\* The helper may not be there to answer.
Ensure(have) == {have} \cup ensureWithManager(have)

\* What may still be missing when the checks run for the last time.
MissingTools == {Tools \ now : now \in UNION {IF have = Tools THEN {have} ELSE Ensure(have) :
                                             have \in SUBSET Tools}}

\* What a tree offers to the templates.
Detect(tree) ==
    IF ~tree.pnpm \/ ~tree.vite THEN "none"
    ELSE IF tree.server THEN "websocket" ELSE IF tree.build THEN "static" ELSE "none"

\* Generate never overwrites a file, and its templates are built, not pulled.
Generate(tree, mode) == ~tree.compose /\ Detect(tree) /= "none" /\ mode /= "pull"

\* The Compose file is there or can be generated (deployment mode "auto").
HasCompose(tree, mode) == tree.compose \/ Generate(tree, mode)

\* The checks of Preflight: a failed one is reported as "failed" by Deploy and
\* once more, as the error of Deploy, by runDeployment.
Preflight(r, missing, ok) ==
    IF missing = {} /\ ok
    THEN Go(r, "release") /\ Post(<<StatusOf(r, "preparing")>>)
    ELSE Go(r, "failed") /\ Post(<<StatusOf(r, "failed"), StatusOf(r, "failed")>>)

preflight(r) ==
    /\ Enter(r, {"deploy"})
    /\ \E missing \in MissingTools, ok \in BOOLEAN : Preflight(r, missing, ok)
    /\ UNCHANGED <<planeVars, receipt, disk, docker, history>>

\* A release directory of the same deployment is never reused.  A clone or
\* checkout that fails leaves it behind; a checkout without a Compose file too.
createRelease(r) ==
    /\ At(r, "release")
    /\ \E tree \in Trees, mode \in BuildModes :
           \/ Fails(r) /\ UNCHANGED disk
           \/ /\ disk.release[r] = "none"
              /\ disk' = [disk EXCEPT !.release[r] = "partial"]
              /\ Fails(r)
           \/ /\ disk.release[r] = "none" /\ HasCompose(tree, mode)
              /\ disk' = [disk EXCEPT !.release[r] = row[r].config]
              /\ Go(r, "up") /\ Post(<<StatusOf(r, "running")>>)
    /\ UNCHANGED <<planeVars, receipt, docker, history>>

\* docker compose [pull and] up: the image, and the containers when it works;
\* when it does not, they are the old ones or the new ones.
Built(r) == [docker EXCEPT !.images = @ \cup {r}, !.latest = r]
up(r) ==
    /\ At(r, "up")
    /\ \/ /\ docker' = [Built(r) EXCEPT !.image = r, !.up = TRUE]
          /\ Go(r, "images") /\ UNCHANGED reports
       \/ /\ docker' \in {docker, Built(r), [Built(r) EXCEPT !.image = r, !.up = FALSE]}
          /\ Fails(r)
    /\ UNCHANGED <<planeVars, receipt, disk, history>>

\* Mutant: the images of a release are written down and not tagged.
SaveWithoutTag(r) ==
    /\ UNCHANGED docker
    /\ disk' = [disk EXCEPT !.pinned = @ \cup {r}]

\* The image IDs of the release: tagged so that no pruning takes them, then
\* written next to the release by a rename.
saveReleaseImages(r) ==
    /\ docker' = [docker EXCEPT !.kept = @ \cup {docker.image}]
    /\ disk' = [disk EXCEPT !.pinned = @ \cup {r}]

\* docker compose ps: the configured port must be published to others, over TCP.
composePublishesPort(publishers, port) ==
    \E p \in publishers : p.port = port /\ p.protocol = "tcp" /\ ~p.loopback

\* A check is repeated until it is answered well or its time is over.
healthCheck(answers) == \E i \in DOMAIN answers : answers[i]

Verified == {(port = None \/ composePublishesPort(publishers, port)) /\ healthCheck(answers) :
                publishers \in SUBSET Publishers, port \in Ports \cup {None},
                answers \in [1..MaxAttempts -> BOOLEAN]}

verify(r) ==
    /\ At(r, "images")
    /\ \/ /\ TRUE \in Verified
          /\ saveReleaseImages(r)
          /\ Go(r, "promote") /\ UNCHANGED reports
       \/ Fails(r) /\ UNCHANGED <<disk, docker>>
    /\ UNCHANGED <<planeVars, receipt, history>>

\* promote, and the end of Rollback: "previous" is made a copy of "current"
\* (nothing reads it); then "current" is removed, and a new link renamed into
\* its place.
unlinkCurrent(r) ==
    /\ At(r, "promote")
    /\ disk' = [disk EXCEPT !.current = None]
    /\ Go(r, "link")
    /\ UNCHANGED <<planeVars, reports, receipt, docker, history>>

linkCurrent(r) ==
    /\ At(r, "link")
    /\ disk' = [disk EXCEPT !.current = row[r].src]
    /\ Go(r, "succeeded")
    /\ Post(<<StatusOf(r, IF row[r].kind = "deploy" THEN "succeeded" ELSE "rolled_back")>>)
    /\ UNCHANGED <<planeVars, receipt, docker, history>>

\* The images saved with the release, all of which must still be there.
loadReleaseImages(s) == s \in disk.pinned /\ s \in docker.images

\* Mutant: the historical release is started with the images of its tags.
StartLatest(s) == docker' = [docker EXCEPT !.image = docker.latest, !.up = TRUE]

\* Compose with the saved images: nothing is built or pulled.
pinnedCompose(s) ==
    /\ loadReleaseImages(s)
    /\ docker' = [docker EXCEPT !.image = s, !.up = TRUE]

\* Rollback refuses a release that is gone or current.  The release of a
\* rollback that is itself rolled back to was never created.
rollback(r) ==
    LET s == row[r].src IN
    /\ Enter(r, {"rollback"})
    /\ \/ Fails(r) /\ UNCHANGED docker
       \/ /\ disk.release[s] /= "none" /\ disk.current /= s
          /\ pinnedCompose(s)
          /\ Go(r, "promote") /\ Post(<<StatusOf(r, "running")>>)
       \/ /\ disk.release[s] /= "none" /\ disk.current /= s \* up fails half way
          /\ loadReleaseImages(s)
          /\ docker' = [docker EXCEPT !.image = s, !.up = FALSE]
          /\ Fails(r)
    /\ UNCHANGED <<planeVars, receipt, disk, history>>

\* A container action works on the current release with the target's own
\* configuration; containerActionSpec gives the Compose command.
containerActionSpec(a) ==
    CASE a = "start" -> pinnedCompose(disk.current)
      [] a = "stop" -> docker' = [docker EXCEPT !.up = FALSE]
      [] a = "restart" -> docker' = [docker EXCEPT !.up = docker.image /= None]
      [] a = "remove" -> docker' = [docker EXCEPT !.image = None, !.up = FALSE]

currentRelease == {s \in Request : s = disk.current /\ disk.release[s] /= "none"}

ContainerAction(r) ==
    /\ Enter(r, {"start", "stop", "restart", "remove"})
    /\ \/ Go(r, "failed") /\ UNCHANGED docker
       \/ /\ currentRelease /= {}
          /\ \A s \in currentRelease : disk.release[s] = row[r].config
          /\ containerActionSpec(row[r].kind)
          /\ Go(r, "succeeded")
    /\ UNCHANGED <<planeVars, reports, receipt, disk, history>>

\* Mutant: only the current release is looked at.
CurrentComposeOnly(c) == disk.current /= None /\ disk.release[disk.current] = c

\* A Compose file for the project: that of the current release or, failing
\* that, of any release.
targetComposePaths(c) == \E s \in Request : disk.release[s] = c

\* deleteTarget: the project first, when a Compose file is found, then the files.
deleteTarget(r) ==
    /\ Enter(r, {"delete"})
    /\ \/ Go(r, "failed") /\ UNCHANGED <<docker, history>>
       \/ /\ Go(r, "wipe")
          /\ docker' = IF targetComposePaths(row[r].config)
                       THEN [docker EXCEPT !.image = None, !.up = FALSE] ELSE docker
          /\ history' = [history EXCEPT !.wiped = TRUE]
    /\ UNCHANGED <<planeVars, reports, receipt, disk>>

removeRoot(r) ==
    /\ At(r, "wipe")
    /\ \/ Go(r, "failed") /\ UNCHANGED disk
       \/ /\ Go(r, "succeeded")
          /\ disk' = [release |-> [q \in Request |-> "none"], pinned |-> {}, current |-> None]
    /\ UNCHANGED <<planeVars, reports, receipt, docker, history>>

----------------------------------------------------------------------------
(* The environment.                                                        *)

\* The Agent dies: the goroutines, and the reports it had not sent.
crash ==
    /\ \E r \in Request : exec[r] \notin {"idle", "done"}
    /\ \E n \in 0..Len(reports) : reports' = SubSeq(reports, 1, n)
    /\ exec' = [r \in Request |-> "idle"]
    /\ MayFail("crash")
    /\ history' = [history EXCEPT !.faults = @ + 1,
                       !.again = @ \cup {r \in Request : exec[r] \notin {"idle", "done"}}]
    /\ UNCHANGED <<planeVars, receipt, disk, docker>>

\* The stream breaks: what was on it is lost.
disconnect ==
    /\ reports /= <<>> /\ reports' = Tail(reports)
    /\ Fault("disconnect")
    /\ UNCHANGED <<planeVars, agentVars>>

\* docker image prune: images without a tag that no container uses.
prune ==
    /\ docker' = [docker EXCEPT !.images = @ \cap (docker.kept \cup {docker.latest, docker.image})]
    /\ docker' /= docker
    /\ Fault("prune")
    /\ UNCHANGED <<planeVars, reports, exec, receipt, disk>>

Agent(r) ==
    \/ begin(r) \/ finish(r)
    \/ preflight(r) \/ createRelease(r) \/ up(r) \/ verify(r)
    \/ unlinkCurrent(r) \/ linkCurrent(r)
    \/ rollback(r) \/ ContainerAction(r) \/ deleteTarget(r) \/ removeRoot(r)

Administrator(r) ==
    \/ startDeployment(r) \/ rollbackDeployment(r) \/ deleteDeployment(r)
    \/ deploymentContainerAction(r) \/ deleteDeploymentTarget(r)

Next ==
    \/ createDeploymentTarget \/ updateDeploymentTarget
    \/ \E r \in Request : Administrator(r) \/ Agent(r)
    \/ QueueEncryptedResourceOperation \/ handlerFails \/ handle
    \/ restart \/ crash \/ disconnect \/ prune

Spec == Init /\ [][Next]_vars

----------------------------------------------------------------------------
(* Properties.                                                             *)

Deploying == {"deploy", "rollback"}
TargetRows == [row : {TRUE}, config : Configs] \cup [row : {FALSE}, config : {"none"}]
RequestRows == [kind : {"none"} \cup Deploying \cup ContainerActions,
                config : Configs \cup {"none"}, src : 0..MaxRequests,
                status : Active \cup Finished \cup {"none", "deleted"},
                op : {"none", "queued", "running", "done"}]
Shown == {"none", "pending", "running", "stopped", "removed", "unknown", "failed"}
StateRows == [status : Shown, action : {"none"} \cup Deploying, op : {None}]
               \cup [status : Shown, action : ContainerActions, op : Request]
Reports == [r : Request, kind : {"started"}, status : {"none"}]
             \cup [r : Request, kind : {"status"}, status : (Active \ {"queued"}) \cup Finished]
             \cup [r : Request, kind : {"result"}, status : {"succeeded", "failed"}]
Stages == Outside \cup {"release", "up", "images", "promote", "link", "wipe"}
Disks == [release : [Request -> Configs \cup {"none", "partial"}],
          pinned : SUBSET Request, current : 0..MaxRequests]
Dockers == [image : 0..MaxRequests, up : BOOLEAN, images : SUBSET Request,
            kept : SUBSET (0..MaxRequests), latest : 0..MaxRequests]
Histories == [faults : Nat, edited : BOOLEAN, cleared : BOOLEAN, wiped : BOOLEAN,
              again : SUBSET Request]

\* Every variable has the shape of the tables, of the Agent's files and of what
\* Docker lists.
DeploymentsTypeOK ==
    /\ target \in TargetRows /\ row \in [Request -> RequestRows] /\ state \in StateRows
    /\ handling \in 0..MaxRequests /\ reports \in Seq(Reports)
    /\ exec \in [Request -> Stages] /\ receipt \in [Request -> {"none", "succeeded", "failed"}]
    /\ disk \in Disks /\ docker \in Dockers /\ history \in Histories

\* Deployments and container actions of a target keep each other out
\* (resources.go:1144): at most one is unfinished, unless a second "failed"
\* of an earlier deployment has reset the container state of a pending action,
\* or an Agent that died is executing its deployment once more.
Unfinished == ActiveDeployments \cup {r \in Request : row[r].kind \in ContainerActions
                                                      /\ row[r].op \in {"queued", "running"}}
LifecycleSerialized == history.cleared \/ Cardinality(Unfinished \ history.again) <= 1

\* When the page shows that the containers run, after a deployment, a rollback
\* or a start, they run the images of the release "current" names, and that is
\* the release of the deployment or the source of the rollback just finished.
Latest(r) == /\ row[r].status \in Succeeded
             /\ \A q \in Request : q > r => row[q].kind = "none"
ShownReleaseRuns ==
    (state.status = "running" /\ state.action /= "restart" /\ Unfinished = {}
        /\ ~history.cleared /\ history.again = {})
    => /\ docker.up /\ docker.image = disk.current
       /\ \A r \in Request : Latest(r) => disk.current = row[r].src

\* What succeeded can be rolled back to: its release, its image list and the
\* images themselves stay, until the deletion of the target has begun.
RollbackSourceIntact ==
    \A r \in Request :
        (row[r].status = "succeeded" /\ ~history.wiped)
        => disk.release[r] = row[r].config /\ r \in disk.pinned /\ r \in docker.images

\* A target that is gone has left nothing on the server, if its configuration
\* is the one it was created with and no execution was repeated.
DeletedLeavesNothing ==
    ((\E r \in Request : row[r].kind = "delete" /\ row[r].op = "done")
        /\ ~target.row /\ ~history.cleared /\ ~history.edited /\ history.again = {})
    => docker.image = None /\ \A r \in Request : disk.release[r] = "none"

----------------------------------------------------------------------------
(* The inductive invariant behind the safety properties.                   *)

\* A request is what its row says from the beginning: requests are numbered in
\* order, a deployment brings its own release, a container action has no status.
RowsFit ==
    \A r \in Request :
        /\ row[r].kind = "none" => row[r] = NoRow
        /\ row[r].kind /= "none" => /\ row[r].config \in Configs
                                    /\ \A q \in Request : q < r => row[q].kind /= "none"
        /\ row[r].kind = "deploy" => row[r].src = r
        /\ row[r].kind = "rollback" => row[r].src \in Request
        /\ row[r].kind \in Deploying <=> row[r].status /= "none"
        /\ row[r].kind \in ContainerActions => row[r].op /= "none"

\* The handler at work has yet to queue its deployment.
HandlerFits ==
    handling /= None => /\ row[handling].kind \in Deploying /\ row[handling].op = "none"
                        /\ row[handling].status \in {"queued", "deleted"}

\* An execution is in a stage of its kind, alone in the deployer's mutex; what
\* is not queued is not executed, and a receipt ends the execution for good.
StagesFit ==
    /\ \A r \in Request :
           /\ row[r].op = "none" => exec[r] = "idle" /\ receipt[r] = "none"
           /\ row[r].op = "done" => receipt[r] /= "none"
           /\ exec[r] = "done" => receipt[r] /= "none"
           /\ receipt[r] /= "none" => exec[r] \in {"idle", "done"}
           /\ exec[r] \in {"release", "up", "images"} => row[r].kind = "deploy"
           /\ exec[r] \in {"promote", "link"} => row[r].kind \in Deploying
           /\ exec[r] = "wipe" => row[r].kind = "delete" /\ history.wiped
    /\ \A q, r \in Request : exec[q] \notin Outside /\ exec[r] \notin Outside => q = r

Intact(r) == /\ disk.release[r] = row[r].config /\ r \in disk.pinned
             /\ r \in docker.images /\ r \in docker.kept

\* What the stages of an execution have brought about so far, which nobody else
\* touches before the mutex is free.
StagesHold ==
    \A r \in Request :
        /\ exec[r] \in {"up", "images"} => disk.release[r] = row[r].config
        /\ exec[r] = "images" => docker.image = r /\ docker.up /\ r \in docker.images
        /\ exec[r] \in {"promote", "link"} => docker.image = row[r].src /\ docker.up
        /\ exec[r] \in {"promote", "link"} /\ row[r].kind = "deploy" => Intact(r)

Ended(r) == exec[r] \in {"succeeded", "failed"} \/ receipt[r] /= "none"
Done(r) == exec[r] = "succeeded" \/ receipt[r] = "succeeded"

\* What a report says is so: of the execution that sent it, unless that one is
\* repeated, and of the release, unless it was wiped.
ReportsHold ==
    \A i \in DOMAIN reports :
        LET m == reports[i] IN
        /\ row[m.r].op /= "none"
        /\ m.kind = "result" => receipt[m.r] = m.status
        /\ m.kind = "status" => row[m.r].kind \in Deploying
        /\ m.kind = "status" /\ m.status = "succeeded" =>
               row[m.r].kind = "deploy" /\ (history.wiped \/ Intact(m.r))
        /\ m.r \notin history.again =>
               /\ exec[m.r] /= "idle" \/ receipt[m.r] /= "none"
               /\ m.kind = "status" /\ m.status \in Finished => Ended(m.r)
               /\ m.kind = "status" /\ m.status \in Succeeded => Done(m.r)

\* After a final status only "failed" is reported, unless the execution is repeated.
OnlyFailed(r, n) ==
    \A i \in DOMAIN reports :
        i > n /\ reports[i].r = r /\ reports[i].kind = "status" => reports[i].status = "failed"
FinalIsLast ==
    \A n \in DOMAIN reports :
        reports[n].kind = "status" /\ reports[n].status \in Finished
        /\ reports[n].r \notin history.again => OnlyFailed(reports[n].r, n)

\* Nothing more is to come of a deployment that was not queued or has ended.
Over(r) == row[r].op = "none" \/ (Ended(r) /\ OnlyFailed(r, 0))
Undisturbed == ~history.cleared /\ history.again = {}
FinishedIsOver ==
    \A r \in Request :
        /\ row[r].status \in Finished /\ r \notin history.again => Over(r)
        /\ row[r].status = "deleted" /\ Undisturbed => Over(r) /\ handling /= r

\* Whoever is unfinished is the latest request; an unfinished container action
\* is the one the container state names, pending.
UnfinishedIsLast ==
    ~history.cleared =>
        /\ \A r \in Unfinished \ history.again, q \in Request : q > r => row[q].kind = "none"
        /\ \A r \in Unfinished : row[r].kind \in ContainerActions =>
               state = [status |-> "pending", action |-> row[r].kind, op |-> r]

\* What an execution that succeeded has done is still so when its end is handled.
DoneAsAsked ==
    Undisturbed => \A r \in Unfinished : Done(r) =>
        /\ row[r].kind \in Deploying \cup {"start"} => docker.up /\ docker.image = disk.current
        /\ row[r].kind \in Deploying => disk.current = row[r].src
        /\ row[r].kind = "delete" => \A q \in Request : disk.release[q] = "none"
        /\ row[r].kind = "delete" /\ ~history.edited => docker.image = None

NotYetShown == Undisturbed /\ Unfinished /= {} => state.status /= "running"

\* What is pinned has its release with the configuration of its deployment, and
\* so does the image of the containers, if the target was not edited: deleting
\* a target finds the Compose file.
ReleasesFit ==
    /\ \A s \in disk.pinned : disk.release[s] = row[s].config /\ row[s].kind = "deploy"
    /\ ~history.edited =>
          /\ \A q, r \in Request : row[q].kind /= "none" /\ row[r].kind /= "none" =>
                row[q].config = row[r].config
          /\ \A r \in Request : row[r].kind /= "none" /\ target.row => row[r].config = target.config
          /\ docker.image /= None => /\ row[docker.image].kind = "deploy"
                                     /\ disk.release[docker.image] = row[docker.image].config
          /\ \A r \in Request : exec[r] = "wipe" => docker.image = None

\* A target whose row has gone has no work under way and no files.
GoneIsGone ==
    ~target.row /\ Undisturbed /\ (\E r \in Request : row[r].kind /= "none") =>
        /\ Unfinished = {}
        /\ \A r \in Request : disk.release[r] = "none"
        /\ ~history.edited => docker.image = None

\* What has succeeded stays, tagged.
SucceededIsKept ==
    \A r \in Request : row[r].status = "succeeded" =>
        row[r].kind = "deploy" /\ (history.wiped \/ Intact(r))

\* Every step preserves the conjunction.
DeploymentsInv ==
    /\ DeploymentsTypeOK
    /\ RowsFit /\ HandlerFits /\ StagesFit /\ StagesHold
    /\ ReportsHold /\ FinalIsLast /\ FinishedIsOver
    /\ UnfinishedIsLast /\ DoneAsAsked /\ NotYetShown
    /\ ReleasesFit /\ GoneIsGone /\ SucceededIsKept /\ ShownReleaseRuns
=============================================================================
