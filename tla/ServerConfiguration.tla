------------------------ MODULE ServerConfiguration ------------------------
(***************************************************************************)
(* What the control plane changes on a server besides its projects: the    *)
(* Agent's own binary (internal/agent/selfupdate.go), the Codex, Gemini    *)
(* and Claude command lines (cliinstall.go, codexupdate.go) and the        *)
(* credentials they run with (credentials.go), and the turns that must not *)
(* be disturbed by it.  The control plane refuses what conflicts in its    *)
(* database (internal/store, under the lock of the server's row), and the  *)
(* Agent refuses it again with locks of its own, because what the database *)
(* knows of a turn may be out of date.                                     *)
(*                                                                         *)
(* One server; one credential profile of each kind, known by its revision; *)
(* versions are numbers and an update is available to a greater one.  A    *)
(* Codex turn is active until its session is idle again, which is what the *)
(* control plane and the adapter ask.  Delivery and the receipts of        *)
(* operations are those of AgentOperations, reduced: a started and a       *)
(* result report per execution, lost when the process ends.                *)
(***************************************************************************)
EXTENDS Naturals, Sequences

CONSTANTS
  MaxOps,       \* bound on the operations queued
  MaxRelease,   \* bound on the versions of the control plane and the Agent
  MaxVersion,   \* the newest release of every command line
  Recent,       \* how many stable releases are offered (five in the code)
  MaxRevision,  \* bound on the revisions of a credential profile
  MaxChanges,   \* bound on upgrades of the control plane and changes of profiles
  Requests,     \* the requests users make: <<request, what it is about>>
  Faults,       \* the faults that are injected
  MaxFaults     \* bound on their number

Release == 1..MaxRelease
Version == 1..MaxVersion
Revision == 0..MaxRevision    \* 0: no profile, or no file
Clis == {"codex", "gemini", "claude"}
Kinds == Clis \cup {"git"}
Scopes == {"both", "codex", "git"}
Ids == 1..MaxOps
\* the credential files, in the order in which they are written
CodexFiles == <<"key", "config">>
GitFiles == <<"credentials", "gitconfig">>
Files == {"key", "config", "credentials", "gitconfig", "gemini", "claude"}
NoManifest == [version |-> 0, state |-> "none"]
NoFiles == [f \in Files |-> 0]
NoConf == [cli |-> 0, secret |-> 0]

ASSUME ConfigurationAssumption ==
  /\ {MaxOps, MaxRelease, MaxVersion, Recent, MaxRevision} \subseteq Nat \ {0}
  /\ MaxRelease > 1    \* the control plane is a version ahead of the Agent
  /\ MaxFaults \in Nat /\ MaxChanges \in Nat
  /\ Faults \subseteq {"death", "exec", "write"}

VARIABLES
  cp,      \* the control plane: its version, the settings, what it shows
  op,      \* the rows of agent_operations and how far the Agent is with them
  disk,    \* the Agent's state directory
  agent,   \* the Agent process
  past     \* faults and changes so far, attempts of an unconfirmed binary, profiles deleted,
           \* and the kinds of update that a death of the Agent cut short

vars == <<cp, op, disk, agent, past>>

NoOp == [kind |-> "none", of |-> "none", version |-> 0, git |-> 0, status |-> "none",
         at |-> "away", step |-> 0, ok |-> FALSE, interrupted |-> FALSE,
         conf |-> NoConf, snap |-> NoFiles]
Over == [NoOp EXCEPT !.kind = "over"]

Active(o) == op[o].status \in {"queued", "delivered", "running"}
Executing(o) == op[o].at \notin {"away", "sent", "receipt", "ended"}

Init ==
  /\ cp = [release |-> 2,
           target |-> [k \in Clis |-> 1],
           shown |-> [k \in Clis |-> 1], agent |-> 1,
           profile |-> [k \in Kinds |-> 1], bound |-> [k \in Kinds |-> 0]]
  /\ op = [o \in Ids |-> NoOp]
  /\ disk = [manifest |-> NoManifest, staged |-> {},
             current |-> [k \in Clis |-> 1], installed |-> [k \in Clis |-> {1}],
             file |-> NoFiles]
  /\ agent = [phase |-> "connected", version |-> 1, pending |-> FALSE, restart |-> 0,
              command |-> [k \in {"codex", "gemini"} |-> 1],
              secret |-> [k \in {"codex", "gemini"} |-> 0]]
  /\ past = [faults |-> 0, changes |-> 0, tries |-> 0, deleted |-> {}, torn |-> {}]

\* A death of the process or a failing write; exec may fail at any time
Fault(kind) ==
  /\ kind \in Faults /\ past.faults < MaxFaults
  /\ past' = [past EXCEPT !.faults = @ + 1]

Change ==
  /\ past.changes < MaxChanges
  /\ past' = [past EXCEPT !.changes = @ + 1]

Online == agent.phase = "connected"

-----------------------------------------------------------------------------
(***************************************************************************)
(* The control plane: releases and settings.                               *)
(***************************************************************************)

\* The control plane is replaced by its next version
UpgradeControlPlane ==
  /\ cp.release < MaxRelease
  /\ cp' = [cp EXCEPT !.release = @ + 1]
  /\ Change
  /\ UNCHANGED <<op, disk, agent>>

\* The newest of the published releases of a command line
RecentStable == {v \in Version : v + Recent > MaxVersion}

checkCLIUpdates(k) ==
  /\ <<"check", k>> \in Requests
  /\ cp.target[k] < MaxVersion
  /\ cp' = [cp EXCEPT !.target[k] = MaxVersion]
  /\ UNCHANGED <<op, disk, agent, past>>

selectCLIVersion(k, v) ==
  /\ <<"select", k>> \in Requests
  /\ v \in RecentStable
  /\ cp' = [cp EXCEPT !.target[k] = v]
  /\ UNCHANGED <<op, disk, agent, past>>

-----------------------------------------------------------------------------
(***************************************************************************)
(* The control plane: what is queued, and what refuses it.                 *)
(***************************************************************************)

\* A row with the next identifier
Queue(kind, of, version, git) ==
  \E o \in Ids :
     /\ op[o].kind = "none" /\ \A p \in Ids : p < o => op[p].kind # "none"
     /\ op' = [op EXCEPT ![o] = [NoOp EXCEPT !.kind = kind, !.of = of, !.version = version,
                                             !.git = git, !.status = "queued"]]

ActiveOf(kinds) == {o \in Ids : op[o].kind \in kinds /\ Active(o)}

\* A session shown interrupted no longer counts, except a Claude one
ActiveThread(k) ==
  \E o \in ActiveOf({"turn"}) : op[o].of = k /\ (op[o].interrupted => k = "claude")

cliInstallBlockers(k) ==
  ActiveOf({"install", "codexupdate", "update", "api"}) # {} \/ ActiveThread(k)

\* An update that is running is not counted
HasActiveOperation(kind) == \E o \in ActiveOf({kind}) : op[o].status # "running"

QueueAgentUpdate(v) ==
  /\ \A k \in Clis : ~cliInstallBlockers(k)
  /\ Queue("update", "agent", v, 0)

updateAgent ==
  /\ <<"update", "agent">> \in Requests /\ Online
  /\ cp.release > cp.agent
  /\ ~HasActiveOperation("update")
  /\ QueueAgentUpdate(cp.release)
  /\ UNCHANGED <<cp, disk, agent, past>>

QueueCLIInstall(k, v) ==
  /\ ~cliInstallBlockers(k)
  /\ Queue("install", k, v, 0)

installServerCLI(k, v) ==
  /\ <<"install", k>> \in Requests /\ Online
  /\ v \in RecentStable /\ cp.shown[k] # v
  /\ QueueCLIInstall(k, v)
  /\ UNCHANGED <<cp, disk, agent, past>>

updateCodexCLI ==
  /\ <<"codexupdate", "codex">> \in Requests /\ Online
  /\ cp.target["codex"] > cp.shown["codex"]
  /\ ~HasActiveOperation("codexupdate")
  /\ Queue("codexupdate", "codex", cp.target["codex"], 0)
  /\ UNCHANGED <<cp, disk, agent, past>>

\* The revisions that an update of this scope carries; no Git profile removes
resolveServerCredentialProfiles(scope, git) ==
  [codex |-> IF scope = "git" THEN 0 ELSE cp.profile["codex"],
   git |-> IF git THEN cp.profile["git"] ELSE 0]

QueueCredentialUpdate(scope, revisions) ==
  /\ ActiveOf({"credentials"}) = {}
  /\ Queue("credentials", scope, revisions.codex, revisions.git)

updateServerCredentialProfiles(scope, git) ==
  /\ <<"credentials", scope>> \in Requests /\ Online
  /\ scope = "codex" => ~git
  /\ LET revisions == resolveServerCredentialProfiles(scope, git)
     IN /\ scope # "git" => revisions.codex # 0
        /\ git => revisions.git # 0
        /\ QueueCredentialUpdate(scope, revisions)
  /\ UNCHANGED <<cp, disk, agent, past>>

QueueGeminiCredentialUpdate(revision) ==
  /\ ActiveOf({"install", "update"}) = {}
  /\ \A o \in ActiveOf({"turn", "api"}) : op[o].of # "gemini"
  /\ Queue("api", "gemini", revision, 0)

updateServerGeminiCredentialProfile ==
  /\ <<"api", "gemini">> \in Requests /\ Online
  /\ cp.profile["gemini"] # 0
  /\ QueueGeminiCredentialUpdate(cp.profile["gemini"])
  /\ UNCHANGED <<cp, disk, agent, past>>

QueueClaudeCredentialUpdate(revision) ==
  /\ ActiveOf({"install", "update"}) = {}
  /\ \A o \in ActiveOf({"turn", "api"}) : op[o].of # "claude"
  /\ Queue("api", "claude", revision, 0)

updateServerClaudeCredentialProfile ==
  /\ <<"api", "claude">> \in Requests /\ Online
  /\ cp.profile["claude"] # 0
  /\ QueueClaudeCredentialUpdate(cp.profile["claude"])
  /\ UNCHANGED <<cp, disk, agent, past>>

\* A Codex turn is queued whatever maintenance is under way
queueCodexTurn ==
  /\ <<"turn", "codex">> \in Requests /\ Online
  /\ Queue("turn", "codex", 0, 0)
  /\ UNCHANGED <<cp, disk, agent, past>>

queueGeminiTurn ==
  /\ <<"turn", "gemini">> \in Requests /\ Online
  /\ ActiveOf({"install", "update"}) = {}
  /\ \A o \in ActiveOf({"turn", "api"}) : op[o].of # "gemini"
  /\ Queue("turn", "gemini", 0, 0)
  /\ UNCHANGED <<cp, disk, agent, past>>

queueClaudeInput ==
  /\ <<"turn", "claude">> \in Requests /\ Online
  /\ ActiveOf({"install", "update"}) = {}
  /\ \A o \in ActiveOf({"turn", "api"}) : op[o].of # "claude"
  /\ Queue("turn", "claude", 0, 0)
  /\ UNCHANGED <<cp, disk, agent, past>>

\* A profile is edited: its secret, endpoint or model change
SaveCredentialProfile(k) == cp' = [cp EXCEPT !.profile[k] = @ + 1]

saveCredentialProfile(k) ==
  /\ <<"save", k>> \in Requests
  /\ cp.profile[k] \in 1..(MaxRevision - 1)
  /\ SaveCredentialProfile(k)
  /\ Change
  /\ UNCHANGED <<op, disk, agent>>

\* A profile is deleted: the foreign keys clear the bindings that name it
DeleteCredentialProfile(k) == cp' = [cp EXCEPT !.profile[k] = 0, !.bound[k] = 0]

deleteCredentialProfile(k) ==
  /\ <<"delete", k>> \in Requests
  /\ cp.profile[k] # 0
  /\ DeleteCredentialProfile(k)
  /\ past.changes < MaxChanges
  /\ past' = [past EXCEPT !.changes = @ + 1, !.deleted = @ \cup {k}]
  /\ UNCHANGED <<op, disk, agent>>

-----------------------------------------------------------------------------
(***************************************************************************)
(* Delivery, and what the control plane does with the reports.             *)
(***************************************************************************)

\* A turn is sent once; other kinds again when they stay delivered
Deliver(o) ==
  /\ Online /\ op[o].at \in {"away", "receipt"}
  /\ \/ op[o].status = "queued"
     \/ op[o].status = "delivered" /\ ~(op[o].kind = "turn" /\ op[o].of # "codex")
  /\ op' = [op EXCEPT ![o].status = "delivered",
                      ![o].at = IF @ = "receipt" THEN "ended" ELSE "sent"]
  /\ UNCHANGED <<cp, disk, agent, past>>

\* handleOperation enters the command in Client.seen
Receive(o) ==
  /\ op[o].at = "sent" /\ Online
  /\ op' = [op EXCEPT ![o].at = "seen"]
  /\ UNCHANGED <<cp, disk, agent, past>>

ApplyStarted(o) ==
  /\ op[o].status = "delivered" /\ Online /\ (Executing(o) \/ op[o].at = "ended")
  /\ op' = [op EXCEPT ![o].status = "running"]
  /\ UNCHANGED <<cp, disk, agent, past>>

\* The answer to a probe that overtakes a turn's command, and its correction
OwnershipLost(o) ==
  /\ op[o].kind = "turn" /\ op[o].of # "codex" /\ op[o].status \in {"delivered", "running"}
  /\ Online /\ op[o].at \in {"away", "sent"} /\ ~op[o].interrupted
  /\ op' = [op EXCEPT ![o].interrupted = TRUE]
  /\ UNCHANGED <<cp, disk, agent, past>>

OwnershipActive(o) ==
  /\ op[o].interrupted /\ Online /\ Executing(o)
  /\ op' = [op EXCEPT ![o].interrupted = FALSE]
  /\ UNCHANGED <<cp, disk, agent, past>>

\* Mutant: an update of one scope sets both bindings
SetBothProfileIDs(o) ==
  [cp.bound EXCEPT !["codex"] = IF op[o].version # 0 /\ cp.profile["codex"] # 0 THEN 1 ELSE 0,
                   !["git"] = IF op[o].git # 0 THEN 1 ELSE 0]

\* The binding of an update's scope; a Codex profile deleted meanwhile is NULL
setServerCredentialProfileIDs(o) ==
  [cp.bound EXCEPT
     !["codex"] = IF op[o].of = "git" THEN @
                  ELSE IF cp.profile["codex"] # 0 THEN 1 ELSE 0,
     !["git"] = IF op[o].of = "codex" THEN @ ELSE IF op[o].git # 0 THEN 1 ELSE 0]

\* The list of Git profiles is kept as text: one deleted meanwhile breaks the
\* foreign key, and the whole completion is rolled back
CompleteCredentialUpdate(o) ==
  /\ op[o].ok /\ op[o].of # "codex" /\ op[o].git # 0 => cp.profile["git"] # 0
  /\ cp' = IF op[o].ok THEN [cp EXCEPT !.bound = setServerCredentialProfileIDs(o)] ELSE cp

CompleteGeminiCredentialUpdate(o) ==
  cp' = IF op[o].ok /\ cp.profile["gemini"] # 0
        THEN [cp EXCEPT !.bound["gemini"] = op[o].version] ELSE cp

CompleteClaudeCredentialUpdate(o) ==
  cp' = IF op[o].ok /\ cp.profile["claude"] # 0
        THEN [cp EXCEPT !.bound["claude"] = op[o].version] ELSE cp

\* What a heartbeat carries
Versions == [k \in Clis |-> IF k = "claude" THEN disk.current[k] ELSE agent.command[k]]

\* The result of an operation; that of an installation follows a heartbeat
ApplyResult(o) ==
  /\ op[o].at = "ended" /\ Active(o) /\ Online
  /\ CASE op[o].kind = "credentials" -> CompleteCredentialUpdate(o)
       [] op[o].kind = "api" /\ op[o].of = "gemini" -> CompleteGeminiCredentialUpdate(o)
       [] op[o].kind = "api" /\ op[o].of = "claude" -> CompleteClaudeCredentialUpdate(o)
       [] op[o].kind \in {"install", "codexupdate"} /\ op[o].ok ->
            cp' = [cp EXCEPT !.shown = Versions, !.agent = agent.version]
       [] OTHER -> cp' = cp
  /\ op' = [op EXCEPT ![o] = Over]
  /\ UNCHANGED <<disk, agent, past>>

enqueueHeartbeat ==
  /\ Online
  /\ cp' = [cp EXCEPT !.shown = Versions, !.agent = agent.version]
  /\ UNCHANGED <<op, disk, agent, past>>

-----------------------------------------------------------------------------
(***************************************************************************)
(* The Agent: its own update.                                              *)
(***************************************************************************)

Ended(o, ok) == [op EXCEPT ![o].at = "ended", ![o].ok = ok, ![o].step = 0,
                           ![o].conf = NoConf, ![o].snap = NoFiles]

\* A Gemini or Claude turn that is in Client.seen and has not completed
UnfinishedTurn == \E o \in Ids : op[o].kind = "turn" /\ op[o].of # "codex" /\ Executing(o)

\* Mutant: the Agent trusts the control plane to have looked
StageWithoutLooking(o) ==
  /\ op[o].kind = "update" /\ op[o].at = "seen"
  /\ IF agent.pending \/ op[o].version <= agent.version
     THEN op' = Ended(o, FALSE) /\ UNCHANGED agent
     ELSE /\ op' = [op EXCEPT ![o].at = "staging"]
          /\ agent' = [agent EXCEPT !.pending = TRUE]
  /\ UNCHANGED <<cp, disk, past>>

\* The first half of stageAgentUpdate, under seenMu
stageAgentUpdate(o) ==
  /\ op[o].kind = "update" /\ op[o].at = "seen"
  /\ IF agent.pending \/ UnfinishedTurn \/ op[o].version <= agent.version
     THEN op' = Ended(o, FALSE) /\ UNCHANGED agent
     ELSE /\ op' = [op EXCEPT ![o].at = "staging"]
          /\ agent' = [agent EXCEPT !.pending = TRUE]
  /\ UNCHANGED <<cp, disk, past>>

\* The control plane only hands out the package of the version it has itself
PackageServed(v) == Online /\ cp.release = v

Pending(v) == [version |-> v, state |-> "pending"]

\* The package is fetched unless it is there, and the manifest says pending
downloadAgentUpdate(o) ==
  /\ op[o].at = "staging"
  /\ \/ /\ op[o].version \in disk.staged \/ PackageServed(op[o].version)
        /\ disk' = [disk EXCEPT !.staged = @ \cup {op[o].version}, !.manifest = Pending(op[o].version)]
        /\ agent' = [agent EXCEPT !.restart = op[o].version]
        /\ past' = [past EXCEPT !.tries = 0]
        /\ op' = Ended(o, TRUE)
     \/ /\ op[o].version \notin disk.staged
        /\ agent' = [agent EXCEPT !.pending = FALSE]
        /\ op' = Ended(o, FALSE)
        /\ UNCHANGED <<disk, past>>
  /\ UNCHANGED cp

\* The process image changes: what the Agent was doing ends without a result,
\* what it had not yet sent is lost, and its results are receipts now
Interrupted ==
  [o \in Ids |->
     IF op[o].at = "ended" THEN [op[o] EXCEPT !.at = "receipt"]
     ELSE IF Executing(o) \/ op[o].at = "sent"
     THEN [op[o] EXCEPT !.at = "away", !.step = 0, !.conf = NoConf, !.snap = NoFiles]
     ELSE op[o]]
Torn == past.torn \cup {op[o].kind : o \in {p \in Ids : op[p].at \in {"writing", "written"}}}

\* effectiveCodexPath and effectiveGeminiPath; 0 is the command on the PATH
effectivePath(k) == IF disk.current[k] \in disk.installed[k] THEN disk.current[k] ELSE 0

\* NewClient: versions and secrets are read from the state directory
NewClient(v) ==
  [phase |-> "offline", version |-> v, pending |-> FALSE, restart |-> 0,
   command |-> [k \in {"codex", "gemini"} |-> effectivePath(k)],
   secret |-> [k \in {"codex", "gemini"} |-> disk.file[IF k = "codex" THEN "key" ELSE k]]]

\* 750 ms after the result the staged binary takes over, or exec fails and the
\* Agent goes on as it was (the second result finds the operation over)
activateStagedUpdate ==
  /\ agent.restart # 0
  /\ \/ /\ disk' = [disk EXCEPT !.manifest.state = "attempting"]
        /\ agent' = NewClient(agent.restart)
        /\ op' = Interrupted
        /\ past' = [past EXCEPT !.tries = @ + 1, !.torn = Torn]
     \/ /\ "exec" \in Faults
        /\ disk' = [disk EXCEPT !.manifest.state = "pending"]
        /\ agent' = [agent EXCEPT !.pending = FALSE, !.restart = 0]
        /\ UNCHANGED <<op, past>>
  /\ UNCHANGED cp

\* The process dies; systemd starts the installed binary again
AgentDies ==
  /\ agent.phase # "down"
  /\ "death" \in Faults /\ past.faults < MaxFaults
  /\ past' = [past EXCEPT !.faults = @ + 1, !.torn = Torn]
  /\ agent' = [agent EXCEPT !.phase = "down", !.pending = FALSE, !.restart = 0]
  /\ op' = Interrupted
  /\ UNCHANGED <<cp, disk>>

\* Mutant: an attempt that was never confirmed is made again
ActivateAgain ==
  /\ agent.phase = "down"
  /\ LET m == disk.manifest
         tried == m # NoManifest /\ m.version > 1
     IN /\ disk' = [disk EXCEPT !.manifest = IF tried THEN [@ EXCEPT !.state = "attempting"]
                                             ELSE NoManifest]
        /\ agent' = NewClient(IF tried THEN m.version ELSE 1)
        /\ past' = IF tried THEN [past EXCEPT !.tries = @ + 1] ELSE past
  /\ UNCHANGED <<cp, op>>

\* The installed binary (version 1) starts and looks for an update: one that
\* was attempted and not confirmed is forgotten, another one is attempted
ActivateCurrentUpdate ==
  /\ agent.phase = "down"
  /\ LET m == disk.manifest
         tried == m # NoManifest /\ m.version > 1 /\ m.state # "attempting"
     IN \/ /\ disk' = [disk EXCEPT !.manifest = IF tried THEN [@ EXCEPT !.state = "attempting"]
                                                ELSE NoManifest]
           /\ agent' = NewClient(IF tried THEN m.version ELSE 1)
           /\ past' = IF tried THEN [past EXCEPT !.tries = @ + 1] ELSE past
        \/ /\ tried /\ "exec" \in Faults
           /\ disk' = [disk EXCEPT !.manifest.state = "pending"]
           /\ agent' = NewClient(1)
           /\ UNCHANGED past
  /\ UNCHANGED <<cp, op>>

\* The first message of a stream confirms the running update
confirmCurrentUpdate ==
  /\ agent.phase = "offline"
  /\ agent' = [agent EXCEPT !.phase = "connected"]
  /\ IF disk.manifest.version = agent.version
     THEN /\ disk' = [disk EXCEPT !.manifest.state = "healthy"]
          /\ past' = [past EXCEPT !.tries = 0]
     ELSE UNCHANGED <<disk, past>>
  /\ UNCHANGED <<cp, op>>

-----------------------------------------------------------------------------
(***************************************************************************)
(* The Agent: the command lines.                                           *)
(***************************************************************************)

Installing == {"locked", "installing", "switching", "switched"}
IsInstall(o) == op[o].kind \in {"install", "codexupdate"}
\* Client.cliInstallMu
InstallLocked == \E o \in Ids : IsInstall(o) /\ op[o].at \in Installing
\* An update of the configuration of k holds what keeps turns of k away: the
\* lifecycle lock of Codex, Adapter.updating of Gemini, claudeMu of Claude
Reconfiguring(k) ==
  \E o \in Ids : \/ IsInstall(o) /\ op[o].of = k /\ op[o].at \in Installing \ {"locked"}
                 \/ op[o].kind = "api" /\ op[o].of = k /\ op[o].at \in {"writing", "written"}
                 \/ k = "codex" /\ op[o].kind = "credentials" /\ op[o].of # "git"
                    /\ op[o].at \in {"writing", "written"}
TurnRuns(k) == \E o \in Ids : op[o].kind = "turn" /\ op[o].of = k /\ op[o].at = "running"

\* The files of an update, in order, and what it writes to each
Paths(o) ==
  CASE op[o].kind = "api" -> <<op[o].of>>
    [] op[o].of = "codex" -> CodexFiles
    [] op[o].of = "git" -> GitFiles
    [] OTHER -> <<"key", "config", "credentials", "gitconfig">>
Value(o, f) == IF f \in {"credentials", "gitconfig"} THEN op[o].git ELSE op[o].version

snapshotCredentialFiles(o) == [f \in Files |-> IF \E i \in DOMAIN Paths(o) : Paths(o)[i] = f
                                               THEN disk.file[f] ELSE 0]

lockInstall(o) ==
  /\ IsInstall(o) /\ op[o].at = "seen"
  /\ op' = IF InstallLocked THEN Ended(o, FALSE) ELSE [op EXCEPT ![o].at = "locked"]
  /\ UNCHANGED <<cp, disk, agent, past>>

\* ReconfigureCommand and ReconfigureEnvironment: Codex waits for another
\* change to end, Gemini and Claude refuse; all refuse while a turn runs
Reconfigure(o, k, at) ==
  /\ k = "codex" => ~Reconfiguring(k)
  /\ op' = IF Reconfiguring(k) \/ TurnRuns(k) THEN Ended(o, FALSE)
           ELSE [op EXCEPT ![o].at = at, ![o].snap = IF at = "writing" THEN snapshotCredentialFiles(o) ELSE @]

reconfigureCommand(o) ==
  /\ op[o].at = "locked"
  /\ Reconfigure(o, op[o].of, "installing")
  /\ UNCHANGED <<cp, disk, agent, past>>

\* npm install into the directory of the version, and the check of what it says
installCLI(o) ==
  /\ op[o].at = "installing"
  /\ \/ /\ disk' = [disk EXCEPT !.installed[op[o].of] = @ \cup {op[o].version}]
        /\ op' = [op EXCEPT ![o].at = "switching"]
     \/ /\ op' = Ended(o, FALSE)
        /\ UNCHANGED disk
  /\ UNCHANGED <<cp, agent, past>>

\* The current-version file is replaced, then the command in memory
writeManagedCLIVersion(o) ==
  /\ op[o].at = "switching"
  /\ disk' = [disk EXCEPT !.current[op[o].of] = op[o].version]
  /\ op' = [op EXCEPT ![o].at = "switched"]
  /\ UNCHANGED <<cp, agent, past>>

setCommand(o) ==
  /\ op[o].at = "switched"
  /\ agent' = IF op[o].of = "claude" THEN agent
              ELSE [agent EXCEPT !.command[op[o].of] = op[o].version]
  /\ op' = Ended(o, TRUE)
  /\ UNCHANGED <<cp, disk, past>>

-----------------------------------------------------------------------------
(***************************************************************************)
(* The Agent: credentials.                                                 *)
(***************************************************************************)

\* The start of configureCredentials: a Git update asks nobody
configureCredentials(o) ==
  /\ op[o].kind = "credentials" /\ op[o].at = "seen"
  /\ IF op[o].of = "git" THEN op' = [op EXCEPT ![o].at = "writing", ![o].snap = snapshotCredentialFiles(o)]
     ELSE Reconfigure(o, "codex", "writing")
  /\ UNCHANGED <<cp, disk, agent, past>>

configureGeminiCredentials(o) ==
  /\ op[o].kind = "api" /\ op[o].of = "gemini" /\ op[o].at = "seen"
  /\ Reconfigure(o, "gemini", "writing")
  /\ UNCHANGED <<cp, disk, agent, past>>

configureClaudeCredentials(o) ==
  /\ op[o].kind = "api" /\ op[o].of = "claude" /\ op[o].at = "seen"
  /\ Reconfigure(o, "claude", "writing")
  /\ UNCHANGED <<cp, disk, agent, past>>

\* One file is replaced, or removed
replaceCredentialFile(o) ==
  /\ op[o].at = "writing"
  /\ LET paths == Paths(o)
         n == op[o].step + 1
     IN /\ disk' = [disk EXCEPT !.file[paths[n]] = Value(o, paths[n])]
        /\ op' = IF n < Len(paths) THEN [op EXCEPT ![o].step = n]
                 ELSE [op EXCEPT ![o].step = 0, ![o].at = "written"]
  /\ UNCHANGED <<cp, agent, past>>

\* After the last file the environment of the adapter follows
setEnvironment(o) ==
  /\ op[o].at = "written"
  /\ agent' = IF op[o].of \in {"git", "claude"} THEN agent
              ELSE [agent EXCEPT !.secret[IF op[o].kind = "api" THEN "gemini" ELSE "codex"] = op[o].version]
  /\ op' = Ended(o, TRUE)
  /\ UNCHANGED <<cp, disk, past>>

\* Mutant: what was written before the failure stays
LeaveCredentialFiles(o) == disk.file

\* The files of the update as they were when it began
restoreCredentialFiles(o) ==
  [f \in Files |-> IF \E i \in DOMAIN Paths(o) : Paths(o)[i] = f THEN op[o].snap[f] ELSE disk.file[f]]

failCredentialFile(o) ==
  /\ op[o].at = "writing"
  /\ Fault("write")
  /\ disk' = [disk EXCEPT !.file = restoreCredentialFiles(o)]
  /\ op' = Ended(o, FALSE)
  /\ UNCHANGED <<cp, agent>>

-----------------------------------------------------------------------------
(***************************************************************************)
(* The Agent: turns.                                                       *)
(***************************************************************************)

\* What a turn of k runs with
Configuration(k) ==
  IF k = "claude" THEN [cli |-> effectivePath(k), secret |-> disk.file[k]]
  ELSE [cli |-> agent.command[k], secret |-> agent.secret[k]]

\* Mutant: a turn starts although the Agent is about to restart
StartDuringUpdate(o) ==
  /\ op[o].kind = "turn" /\ op[o].at = "seen"
  /\ op[o].of = "codex" => ~Reconfiguring("codex")
  /\ op' = IF Reconfiguring(op[o].of) THEN Ended(o, FALSE)
           ELSE [op EXCEPT ![o].at = "running", ![o].conf = Configuration(op[o].of)]
  /\ UNCHANGED <<cp, disk, agent, past>>

\* A turn is refused when an update is pending, or the configuration changes;
\* a Codex turn waits for the change to end
startTurn(o) ==
  /\ op[o].kind = "turn" /\ op[o].at = "seen"
  /\ op[o].of = "codex" => ~Reconfiguring("codex")
  /\ op' = IF agent.pending \/ Reconfiguring(op[o].of) THEN Ended(o, FALSE)
           ELSE [op EXCEPT ![o].at = "running", ![o].conf = Configuration(op[o].of)]
  /\ UNCHANGED <<cp, disk, agent, past>>

endTurn(o) ==
  /\ op[o].at = "running"
  /\ op' = Ended(o, TRUE)
  /\ UNCHANGED <<cp, disk, agent, past>>

-----------------------------------------------------------------------------

ControlPlane ==
  \/ UpgradeControlPlane
  \/ \E k \in Clis : checkCLIUpdates(k) \/ \E v \in Version : selectCLIVersion(k, v) \/ installServerCLI(k, v)
  \/ updateAgent \/ updateCodexCLI
  \/ \E s \in Scopes, git \in BOOLEAN : updateServerCredentialProfiles(s, git)
  \/ updateServerGeminiCredentialProfile \/ updateServerClaudeCredentialProfile
  \/ queueCodexTurn \/ queueGeminiTurn \/ queueClaudeInput
  \/ \E k \in Kinds : saveCredentialProfile(k) \/ deleteCredentialProfile(k)
  \/ \E o \in Ids : ApplyStarted(o) \/ ApplyResult(o) \/ OwnershipLost(o) \/ OwnershipActive(o)
  \/ enqueueHeartbeat

Agent ==
  \/ activateStagedUpdate \/ AgentDies \/ ActivateCurrentUpdate \/ confirmCurrentUpdate
  \/ \E o \in Ids :
       \/ Deliver(o) \/ Receive(o)
       \/ stageAgentUpdate(o) \/ downloadAgentUpdate(o)
       \/ lockInstall(o) \/ reconfigureCommand(o) \/ installCLI(o)
       \/ writeManagedCLIVersion(o) \/ setCommand(o)
       \/ configureCredentials(o) \/ configureGeminiCredentials(o) \/ configureClaudeCredentials(o)
       \/ replaceCredentialFile(o) \/ setEnvironment(o) \/ failCredentialFile(o)
       \/ startTurn(o) \/ endTurn(o)

Next == ControlPlane \/ Agent

Spec == Init /\ [][Next]_vars

-----------------------------------------------------------------------------
(***************************************************************************)
(* Properties.                                                             *)
(***************************************************************************)

\* The types of the variables; a released lock or a finished operation leaves
\* nothing behind (step, snap and conf), and only the steps that a kind of
\* operation has are taken by it.
ConfigurationTypeOK ==
  /\ cp.release \in Release /\ cp.agent \in Release
  /\ cp.target \in [Clis -> Version] /\ cp.shown \in [Clis -> Version]
  /\ cp.profile \in [Kinds -> Revision] /\ cp.bound \in [Kinds -> Revision]
  /\ \A o \in Ids :
       /\ op[o].status \in {"none", "queued", "delivered", "running"}
       /\ op[o].at \in CASE op[o].kind = "update" -> {"away", "sent", "seen", "staging", "ended", "receipt"}
                         [] op[o].kind \in {"install", "codexupdate"} ->
                              {"away", "sent", "seen", "ended", "receipt"} \cup Installing
                         [] op[o].kind \in {"credentials", "api"} ->
                              {"away", "sent", "seen", "writing", "written", "ended", "receipt"}
                         [] op[o].kind = "turn" -> {"away", "sent", "seen", "running", "ended", "receipt"}
                         [] OTHER -> {"away"}
       /\ op[o].at # "writing" => op[o].step = 0
       /\ op[o].at # "running" => op[o].conf = NoConf
  /\ disk.manifest.version \in 0..MaxRelease
  /\ disk.manifest.state \in {"none", "pending", "attempting", "healthy"}
  /\ disk.current \in [Clis -> Version] /\ disk.file \in [Files -> Revision]
  /\ agent.phase \in {"down", "offline", "connected"} /\ agent.version \in Release
  /\ agent.restart # 0 => agent.pending

\* The restart into an update never ends a Gemini or Claude turn: the database
\* refuses an update while a session is active, but a session whose ownership
\* was reported lost does not count, and a turn may be queued between the
\* result of the update and the restart.  (Codex turns are not spared: see the
\* README.)
RestartSparesTurns ==
  [][agent.phase # "down" /\ agent'.version # agent.version =>
       \A o \in Ids : op[o].kind = "turn" /\ op[o].of # "codex" => op[o].at # "running"]_vars

\* A binary that has not reached the control plane since it was staged or last
\* confirmed is started at most once, so that a broken update cannot keep the
\* Agent in a loop of restarts (README.md:261).
UpdateTriedOnce == past.tries <= 1

\* When no update of a kind of credential is under way, its files are those of
\* one revision, they are there exactly when the control plane shows a profile
\* bound (unless that profile was deleted), and the running Agent uses them.
\* (An update that the Agent's death cut short may leave them mixed.)
CredentialsAsBound ==
  LET settled(kinds) == /\ \A o \in Ids : Active(o) => op[o].kind \notin kinds
                        /\ kinds \cap past.torn = {}
      file == disk.file
      up == agent.phase # "down"
  IN /\ settled({"credentials"}) =>
          /\ file["key"] = file["config"] /\ file["credentials"] = file["gitconfig"]
          /\ "codex" \notin past.deleted => (cp.bound["codex"] = 1 <=> file["key"] # 0)
          /\ "git" \notin past.deleted => (cp.bound["git"] = 1 <=> file["credentials"] # 0)
          /\ up => agent.secret["codex"] = file["key"]
     /\ settled({"api"}) =>
          /\ \A k \in {"gemini", "claude"} \ past.deleted : cp.bound[k] = file[k]
          /\ up => agent.secret["gemini"] = file["gemini"]

\* The current-version file of a command line names a version that was
\* installed and verified, and the running Agent uses that one as soon as the
\* installation is over.
CliAsRecorded ==
  /\ \A k \in Clis : disk.current[k] \in disk.installed[k]
  /\ agent.phase # "down" =>
       \A k \in {"codex", "gemini"} :
         \/ agent.command[k] = disk.current[k]
         \/ \E o \in Ids : op[o].of = k /\ op[o].at = "switched"

\* Neither the command line nor the credentials of a running turn change under
\* it: the reservation of an adapter and its running turns exclude each other.
TurnKeepsItsConfiguration ==
  \A o \in Ids : op[o].kind = "turn" /\ op[o].at = "running" =>
    /\ op[o].conf = Configuration(op[o].of)
    /\ op[o].of # "claude" => disk.current[op[o].of] = op[o].conf.cli
    /\ op[o].of = "codex" => disk.file["key"] = op[o].conf.secret
=============================================================================
