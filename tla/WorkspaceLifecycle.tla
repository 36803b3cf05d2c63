------------------------- MODULE WorkspaceLifecycle -------------------------
(***************************************************************************)
(* Projects and their workspaces: the rows of the control plane (store     *)
(* workspace_lifecycle.go, project_deletion.go, blank_projects.go,         *)
(* project_remotes.go and the inventories of store.go), the requests that  *)
(* create, import, move, copy, clone and delete them (httpapi), and the    *)
(* directories on the servers the Agent changes for them (gitrepository,   *)
(* gitworktree, scanner.Import).                                           *)
(*                                                                         *)
(* A place is a directory name on a server, and there is one remote        *)
(* repository.  The text of a directory is its content: the operation that *)
(* made it, or one of the first directories.  Operations are delivered and *)
(* answered as AgentOperations describes: an execution that dies before    *)
(* its start was reported is delivered again, one that dies later stays    *)
(* running for ever, and so does one whose result the gateway rejects.     *)
(***************************************************************************)
EXTENDS Naturals, FiniteSets

CONSTANTS
    MaxPlaces,      \* directory names, on both servers
    Elsewhere,      \* the ones on the second server
    CloneRoot,      \* the ones below the clone root of their Agent
    MaxOps, MaxWorkspaces, MaxProjects, MaxScans,   \* bounds
    Starts,         \* what there is at first
    Requests,       \* what the administrator asks for
    SessionsOf,     \* the workspaces that may get sessions
    Faults, MaxFaults

Place == 1..MaxPlaces
Op == 1..MaxOps
Project == 1..MaxProjects
Content == 1..(MaxOps + MaxPlaces)
None == 0
ServerOf(x) == IF x \in Elsewhere THEN "second" ELSE "first"
Servers == {ServerOf(x) : x \in Place}
FaultKinds == {"crash", "database", "abandon", "unverified"}
RequestKinds == {"create", "import", "worktree", "move", "copy", "clone", "delete", "forget",
                 "project", "edit", "session"}

ASSUME LifecycleAssumption ==
    /\ MaxPlaces \in Nat \ {0, 1} /\ Elsewhere \subseteq Place
    /\ CloneRoot \subseteq Place
    /\ MaxOps \in Nat /\ MaxWorkspaces \in Nat \ {0, 1} /\ MaxProjects \in Nat \ {0}
    /\ MaxScans \in Nat /\ MaxFaults \in Nat
    /\ Starts \subseteq {"empty", "worktree", "copy", "observed"}
    /\ SessionsOf \subseteq 1..MaxWorkspaces
    /\ Requests \subseteq RequestKinds /\ Faults \subseteq FaultKinds

VARIABLES
    project,    \* projects and project_remotes
    row,        \* workspaces, at most one for a place: UNIQUE(server_id, path)
    dir,        \* the directories of the servers
    op,         \* agent_operations and their executions
    handling,   \* the createProject or retryProjectCreation at work on a remote
    scan,       \* the inventory of a server on its way
    history     \* bounds, and what the properties need of the past

vars == <<project, row, dir, op, handling, scan, history>>

NoOrigin == [mode |-> "none", status |-> "none", url |-> FALSE]
NoProject == [status |-> "none", remote |-> FALSE, origin |-> NoOrigin]
NoRow == [id |-> None, project |-> None, mode |-> "none", status |-> "none", kind |-> "none",
          parent |-> None, dirty |-> FALSE, sessions |-> FALSE]
NoDir == [state |-> "none", of |-> None, marker |-> None, link |-> None, remote |-> FALSE,
          dirty |-> FALSE, ghost |-> FALSE]
NoOp == [kind |-> "none", ws |-> None, project |-> None, owner |-> None, src |-> None,
         dst |-> None, new |-> None, content |-> None, force |-> FALSE, remote |-> FALSE,
         pc |-> "none", ok |-> FALSE]
Idle == [project |-> None, op |-> None, stage |-> "none"]
NoScan == [x \in Place |-> NoDir]

\* An operation is in the database as queued, delivered or running.
Active == {"queued", "step", "done", "lost"}
Writes == {"move", "copy", "delete", "clone", "worktree", "projdel", "edit"}

FirstOf(x) == MaxOps + x
\* The roots the control plane knows of a server may be fewer than its Agent's.
ManagementMode(x) == IF x \in history.observed THEN "observed" ELSE "managed"
Repo(c, p, link, remote, dirty) ==
    [state |-> "repo", of |-> c, marker |-> p, link |-> link, remote |-> remote,
     dirty |-> dirty, ghost |-> FALSE]
Row(id, p, mode, kind, parent, dirty) ==
    [id |-> id, project |-> p, mode |-> mode, status |-> "ready", kind |-> kind,
     parent |-> parent, dirty |-> dirty, sessions |-> FALSE]

\* Nothing at all, or a project with a remote and two workspaces: a primary
\* and its worktree, two primaries, or a primary and one outside the roots.
Init ==
    /\ op = [o \in Op |-> NoOp] /\ handling = Idle
    /\ scan = [s \in Servers |-> NoScan]
    /\ \E start \in Starts :
           LET full == start /= "empty"
               linked == start = "worktree" IN
           /\ history = [ids |-> IF full THEN 2 ELSE 0, projects |-> IF full THEN 1 ELSE 0,
                         scans |-> 0, faults |-> 0, late |-> FALSE, stale |-> FALSE,
                         over |-> FALSE, again |-> FALSE, left |-> FALSE, unshown |-> FALSE,
                         observed |-> IF start = "observed" THEN {2} ELSE {}]
           /\ project = [p \in Project |->
                  IF full /\ p = 1 THEN [status |-> "ready", remote |-> TRUE,
                      origin |-> [mode |-> "existing", status |-> "ready", url |-> TRUE]]
                  ELSE NoProject]
           /\ row = [x \in Place |->
                  CASE full /\ x = 1 -> Row(1, 1, "managed", "primary", None, FALSE)
                    [] full /\ x = 2 -> Row(2, 1, ManagementMode(x), IF linked THEN start ELSE "primary",
                                               IF linked THEN 1 ELSE None, FALSE)
                    [] OTHER -> NoRow]
           /\ dir = [x \in Place |->
                  CASE full /\ x = 1 -> Repo(FirstOf(1), 1, None, TRUE, FALSE)
                    [] full /\ x = 2 -> Repo(FirstOf(x), 1,
                           IF linked THEN FirstOf(1) ELSE None, TRUE, FALSE)
                    [] OTHER -> NoDir]

Fault(h, f) == [h EXCEPT !.faults = @ + 1]
MayFault(f) == f \in Faults /\ history.faults < MaxFaults

----------------------------------------------------------------------------
(* Rows and operations.                                                    *)

Fresh(o) == op[o].pc = "none" /\ \A q \in Op : q < o => op[q].pc /= "none"
Queued(o, r) == op' = [op EXCEPT ![o] = r]
NewId == history.ids + 1
TakeId == NewId <= MaxWorkspaces /\ history' = [history EXCEPT !.ids = NewId]

RowsOf(p) == {x \in Place : row[x].project = p}
PlaceOf(w) == {x \in Place : w /= None /\ row[x].id = w}
HasActive(ops, w) == \E o \in Op : ops[o].ws = w /\ ops[o].pc \in Active
HasActiveWorkspaceWriteOperation(ops, w) ==
    \E o \in Op : ops[o].ws = w /\ ops[o].kind \in Writes /\ ops[o].pc \in Active

\* An operation for the workspace at x.
For(kind, x, dst, new, pc) ==
    [NoOp EXCEPT !.kind = kind, !.ws = row[x].id, !.project = row[x].project,
                 !.owner = row[x].project, !.src = x, !.dst = dst, !.new = new,
                 !.content = dir[x].of, !.pc = pc]

\* Rows that go take their sessions with them; operations and worktrees forget
\* the workspace, and operations the project.
Forget(ops, ids, p) ==
    [o \in Op |-> [ops[o] EXCEPT !.ws = IF @ \in ids THEN None ELSE @,
                                 !.project = IF @ = p /\ p /= None THEN None ELSE @]]
Without(rows, ids) ==
    [x \in Place |-> IF rows[x].id \in ids \ {None} THEN NoRow
                     ELSE [rows[x] EXCEPT !.parent = IF @ \in ids THEN None ELSE @]]
WithoutProject(p) ==
    /\ project' = [project EXCEPT ![p] = NoProject]
    /\ row' = Without(row, {row[x].id : x \in RowsOf(p)})
    /\ op' = Forget(op, {row[x].id : x \in RowsOf(p)}, p)

----------------------------------------------------------------------------
(* A blank project, and the remote repository made for it.                 *)

\* One transaction: the project, its operation and its origin.
createBlankProject(p, o, dst, mode) ==
    /\ project' = [project EXCEPT ![p] =
           [status |-> "provisioning", remote |-> mode = "existing",
            origin |-> IF mode = "none" THEN NoOrigin
                       ELSE [mode |-> mode, status |-> IF mode = "create" THEN "provisioning" ELSE "ready",
                             url |-> mode = "existing"]]]
    /\ Queued(o, [NoOp EXCEPT !.kind = "create", !.project = p, !.owner = p, !.dst = dst, !.new = NewId,
                              !.remote = mode = "existing",
                              !.pc = IF mode = "create" THEN "preparing" ELSE "queued"])

\* What validateBlankProjectRemote lets through; the remote is unique.
validateBlankProjectRemote ==
    {"none", "create"} \cup (IF \E p \in Project : project[p].remote THEN {} ELSE {"existing"})

createProject(o, dst) ==
    /\ "create" \in Requests /\ Fresh(o) /\ dst \in CloneRoot
    /\ handling = Idle
    /\ \E mode \in validateBlankProjectRemote :
           LET p == history.projects + 1 IN
           /\ p \in Project /\ NewId <= MaxWorkspaces
           /\ createBlankProject(p, o, dst, mode)
           /\ history' = [history EXCEPT !.ids = NewId, !.projects = p]
           /\ handling' = IF mode = "create" THEN [project |-> p, op |-> o, stage |-> "create"]
                          ELSE Idle
    /\ UNCHANGED <<row, dir, scan>>

\* FailBlankProject: the status, the origin's and the operation's.
FailBlankProject(p, o, status) ==
    /\ project' = IF project[p].status = "none" THEN project ELSE
                  [project EXCEPT ![p].status = status,
                       ![p].origin.status =
                           IF project[p].origin.mode = "none" THEN "none"
                           ELSE IF project[p].origin.url /\ status = "partial" THEN "ready" ELSE "failed"]
    /\ op' = IF op[o].project = p THEN [op EXCEPT ![o].pc = "failed"] ELSE op

\* The provider's repository of this project is there, made now or found by
\* its marker in the description; UpdateProjectRemote then keeps its URL.
UpdateProjectRemote(p) ==
    /\ project[p].origin.mode /= "none"
    /\ project' = [project EXCEPT ![p].origin.url = TRUE, ![p].origin.status = "ready"]

\* The operation gets the URL and is released, in one transaction.  Another
\* project may have taken the remote.
Activatable(p, o) ==
    /\ op[o].project = p /\ op[o].pc = "preparing"
    /\ \A q \in Project \ {p} : ~project[q].remote
ActivateBlankProjectRemote(p, o) ==
    /\ Activatable(p, o)
    /\ project' = [project EXCEPT ![p].remote = TRUE, ![p].origin.url = TRUE,
                                  ![p].origin.status = "ready"]
    /\ op' = [op EXCEPT ![o].pc = "queued", ![o].remote = TRUE]

provisionProjectRemote ==
    /\ handling /= Idle
    /\ LET p == handling.project
           o == handling.op IN
       \/ /\ handling.stage = "create"
          /\ \/ handling' = [handling EXCEPT !.stage = "persist"] /\ UNCHANGED <<project, op>>
             \/ handling' = Idle /\ FailBlankProject(p, o, "failed")
       \/ /\ handling.stage = "persist"
          /\ \/ /\ UpdateProjectRemote(p) /\ UNCHANGED op
                /\ handling' = [handling EXCEPT !.stage = "activate"]
             \/ /\ project[p].origin.mode = "none"
                /\ handling' = Idle /\ FailBlankProject(p, o, "partial")
       \/ /\ handling.stage = "activate"
          /\ \/ handling' = Idle /\ ActivateBlankProjectRemote(p, o)
             \/ /\ ~Activatable(p, o)
                /\ handling' = Idle /\ FailBlankProject(p, o, "partial")
    /\ UNCHANGED <<row, dir, scan, history>>

\* The control plane stops, or the request's context ends, and with it the
\* context in which the failure would have been written down.
abandon ==
    /\ handling /= Idle /\ MayFault("abandon")
    /\ handling' = Idle
    /\ history' = [Fault(history, "abandon") EXCEPT !.left = TRUE]
    /\ UNCHANGED <<project, row, dir, op, scan>>

\* A retry repeats the command of the latest attempt.
RetryBlankProject(p, o) ==
    LET attempts == {q \in Op : op[q].kind = "create" /\ op[q].project = p}
        latest == CHOOSE q \in attempts : \A r \in attempts : r <= q
        again == project[p].origin.mode = "create" /\ project[p].origin.status /= "ready"
    IN  /\ project[p].status \in {"failed", "partial"}
        /\ attempts /= {} /\ \A q \in attempts : op[q].pc \notin Active
        /\ project' = [project EXCEPT ![p].status = "provisioning",
                           ![p].origin.status = IF again THEN "provisioning" ELSE @]
        /\ Queued(o, [op[latest] EXCEPT !.pc = IF again THEN "preparing" ELSE "queued",
                          !.remote = IF project[p].origin.mode = "create" THEN ~again ELSE @])
        /\ handling' = IF again THEN [project |-> p, op |-> o, stage |-> "create"] ELSE Idle

retryProjectCreation(o) ==
    /\ "create" \in Requests /\ Fresh(o) /\ handling = Idle
    /\ \E p \in Project : RetryBlankProject(p, o)
    /\ UNCHANGED <<row, dir, scan, history>>

----------------------------------------------------------------------------
(* Imports of the remote repository.                                       *)

Importing(o, p) == op[o].kind = "import" /\ op[o].project = p

\* One transaction: the project of the remote, made when there is none, and
\* the operation, unless the server has a workspace of it or a queued import:
\* one that is running does not count.
QueueProjectImport(o, dst) ==
    LET known == {p \in Project : project[p].remote}
        p == IF known = {} THEN history.projects + 1 ELSE CHOOSE q \in known : TRUE
    IN  /\ p \in Project
        /\ \A x \in RowsOf(p) : ServerOf(x) /= ServerOf(dst)
        /\ \A q \in Op : Importing(q, p) /\ ServerOf(op[q].dst) = ServerOf(dst)
                             => op[q].pc /= "queued"
        /\ project' = [project EXCEPT ![p] =
               [status |-> IF known = {} THEN "ready" ELSE @.status, remote |-> TRUE,
                origin |-> IF @.origin.mode /= "none" THEN @.origin
                           ELSE [mode |-> "existing", status |-> "ready", url |-> TRUE]]]
        /\ Queued(o, [NoOp EXCEPT !.kind = "import", !.project = p, !.owner = p, !.dst = dst,
                                  !.remote = TRUE, !.pc = "queued"])
        /\ history' = [history EXCEPT !.projects = IF known = {} THEN p ELSE @]

importProject(o, dst) ==
    /\ "import" \in Requests /\ Fresh(o)
    /\ QueueProjectImport(o, dst)
    /\ UNCHANGED <<row, dir, handling, scan>>

LatestProjectImport(p) ==
    LET imports == {q \in Op : op[q].kind = "import" /\ op[q].owner = p}
    IN  {q \in imports : \A r \in imports : r <= q}
HasActiveProjectImport(p) ==
    \E q \in Op : op[q].kind = "import" /\ op[q].owner = p /\ op[q].pc = "queued"

retryProjectImport(o) ==
    /\ "import" \in Requests /\ Fresh(o)
    /\ \E p \in Project :
           /\ project[p].status /= "none" /\ ~HasActiveProjectImport(p)
           /\ \E q \in LatestProjectImport(p) :
                  /\ op[q].pc = "failed"
                  /\ Queued(o, [op[q] EXCEPT !.pc = "queued", !.project = p, !.ok = FALSE])
    /\ UNCHANGED <<project, row, dir, handling, scan, history>>

----------------------------------------------------------------------------
(* Requests for one workspace.                                             *)

\* A write operation takes the workspace's only place among the active ones.
newWorktreeCommand(x, dst) ==
    row[x].id /= None /\ dst /= x /\ ServerOf(dst) = ServerOf(x)
    /\ ~HasActiveWorkspaceWriteOperation(op, row[x].id)

createWorktree(o, x, dst) ==
    /\ "worktree" \in Requests /\ Fresh(o)
    /\ newWorktreeCommand(x, dst)
    /\ TakeId
    /\ Queued(o, For("worktree", x, dst, NewId, "queued"))
    /\ UNCHANGED <<project, row, dir, handling, scan>>

\* The same for a session continued there; the fork may fail after the
\* worktree was made, and the new row brings its session.
forkThreadToWorktree(o, x, dst) ==
    /\ {"worktree", "session"} \subseteq Requests /\ Fresh(o)
    /\ row[x].sessions /\ newWorktreeCommand(x, dst)
    /\ TakeId
    /\ Queued(o, [For("worktree", x, dst, NewId, "queued") EXCEPT !.force = TRUE])
    /\ UNCHANGED <<project, row, dir, handling, scan>>

lifecycleWorkspace(x, dst) == row[x].id /= None /\ row[x].mode = "managed" /\ dst /= x

Doing(kind) == CASE kind = "move" -> "moving" [] kind = "delete" -> "deleting" [] OTHER -> "copying"
QueueWorkspaceLifecycle(o, r, x) ==
    /\ row[x].mode = "managed" /\ ~HasActiveWorkspaceWriteOperation(op, row[x].id)
    /\ Queued(o, r)
    /\ row' = [row EXCEPT ![x].status = Doing(r.kind)]

moveWorkspace(o, x, dst) ==
    /\ "move" \in Requests /\ Fresh(o)
    /\ lifecycleWorkspace(x, dst) /\ ServerOf(dst) = ServerOf(x)
    /\ QueueWorkspaceLifecycle(o, For("move", x, dst, None, "queued"), x)
    /\ UNCHANGED <<project, dir, handling, scan, history>>

copyWorkspace(o, x, dst) ==
    /\ "copy" \in Requests /\ Fresh(o)
    /\ lifecycleWorkspace(x, dst) /\ ServerOf(dst) = ServerOf(x)
    /\ TakeId
    /\ QueueWorkspaceLifecycle(o, For("copy", x, dst, NewId, "queued"), x)
    /\ UNCHANGED <<project, dir, handling, scan>>

\* What the row and the snapshot of the source must show; the snapshot may be
\* as old as an online server's last sign of life.
crossServerCloneCommand(x) ==
    /\ ~row[x].dirty /\ dir[x].remote
    /\ project[row[x].project].origin.status = "ready" \/ project[row[x].project].remote
QueueCrossServerWorkspaceClone(o, x, dst) ==
    /\ ~HasActiveWorkspaceWriteOperation(op, row[x].id)
    /\ Queued(o, [For("clone", x, dst, NewId, "queued") EXCEPT !.remote = TRUE])
    /\ row' = [row EXCEPT ![x].status = "copying"]

copyToServer(o, x, dst) ==
    /\ "clone" \in Requests /\ Fresh(o)
    /\ lifecycleWorkspace(x, dst) /\ ServerOf(dst) /= ServerOf(x)
    /\ crossServerCloneCommand(x)
    /\ TakeId
    /\ QueueCrossServerWorkspaceClone(o, x, dst)
    /\ UNCHANGED <<project, dir, handling, scan>>

\* What stands against the removal of the record, and of the files.
RecordBlocked(x) ==
    \/ HasActive(op, row[x].id) \/ row[x].sessions
    \/ \E y \in Place : row[y].parent = row[x].id
WorkspaceDeletionPlan(x, force) ==
    ~RecordBlocked(x) /\ row[x].mode = "managed" /\ (row[x].dirty => force)

RemoveWorkspaceRecord(x) ==
    /\ row[x].id /= None /\ ~RecordBlocked(x)
    /\ row' = Without(row, {row[x].id})
    /\ op' = Forget(op, {row[x].id}, None)

deleteWorkspaceRecord(x) ==
    /\ "forget" \in Requests /\ RemoveWorkspaceRecord(x)
    /\ UNCHANGED <<project, dir, handling, scan, history>>

deleteWorkspace(o, x) ==
    /\ "delete" \in Requests /\ Fresh(o) /\ row[x].id /= None
    /\ \E force \in BOOLEAN :
           /\ WorkspaceDeletionPlan(x, force)
           /\ QueueWorkspaceLifecycle(o, [For("delete", x, None, None, "queued") EXCEPT
                                             !.force = force], x)
    /\ UNCHANGED <<project, dir, handling, scan, history>>

\* A saved file or a Git write takes the write place, a turn does not.
editWorkspace(o, x) ==
    /\ "edit" \in Requests /\ Fresh(o)
    /\ row[x].id /= None /\ row[x].mode = "managed"
    /\ ~HasActiveWorkspaceWriteOperation(op, row[x].id)
    /\ Queued(o, For("edit", x, None, None, "queued"))
    /\ UNCHANGED <<project, row, dir, handling, scan, history>>

\* One session at a time is enough to stand in the way.
createThread(x) ==
    /\ "session" \in Requests /\ row[x].id \in SessionsOf
    /\ \A y \in Place : ~row[y].sessions
    /\ row' = [row EXCEPT ![x].sessions = TRUE]
    /\ UNCHANGED <<project, dir, op, handling, scan, history>>

deleteThread(x) ==
    /\ "session" \in Requests /\ row[x].sessions
    /\ row' = [row EXCEPT ![x].sessions = FALSE]
    /\ UNCHANGED <<project, dir, op, handling, scan, history>>

----------------------------------------------------------------------------
(* The removal of a project.                                               *)

CanDeleteMetadata(p) ==
    /\ project[p].status /= "none"
    /\ \A o \in Op : op[o].project = p => op[o].pc \notin Active
ManagedOf(p) == {x \in RowsOf(p) : row[x].mode = "managed"}
CanDeleteManagedFiles(p) == CanDeleteMetadata(p) /\ \A x \in ManagedOf(p) : ~row[x].dirty

DeleteProjectMetadata(p) == CanDeleteMetadata(p) /\ WithoutProject(p) /\ UNCHANGED history

\* Mutant: the primaries go with their worktrees.
AllAtOnce(x, worktrees) == "queued"

\* Worktrees first: the primaries wait until every one of them is gone.
FirstStatus(x, worktrees) == IF worktrees /= {} /\ x \notin worktrees THEN "waiting" ELSE "queued"
QueueProjectManagedDeletion(p) ==
    LET managed == ManagedOf(p)
        worktrees == {x \in managed : row[x].kind = "worktree"}
        fresh == {o \in Op : op[o].pc = "none"}
        first == CHOOSE o \in fresh : \A q \in fresh : o <= q
        number(x) == first + Cardinality({y \in managed : y < x})
    IN  /\ CanDeleteManagedFiles(p) /\ managed /= {}
        /\ Cardinality(managed) <= Cardinality(fresh)
        /\ project' = [project EXCEPT ![p].status = "deleting"]
        /\ op' = [o \in Op |->
               IF \E x \in managed : number(x) = o
               THEN LET x == CHOOSE y \in managed : number(y) = o IN
                    For("projdel", x, None, None, FirstStatus(x, worktrees))
               ELSE IF op[o].project = p /\ op[o].kind = "projdel" /\ op[o].pc \in {"failed", "canceled"}
               THEN [op[o] EXCEPT !.pc = "superseded"] ELSE op[o]]
        /\ UNCHANGED <<row, history>>

\* With nothing to remove on the servers it goes at once, unless workspaces
\* that are only observed keep it.
DeleteEmptyProject(p) ==
    CanDeleteManagedFiles(p) /\ RowsOf(p) = {} /\ WithoutProject(p) /\ UNCHANGED history

deleteProject(p) ==
    /\ "project" \in Requests
    /\ \/ DeleteProjectMetadata(p)
       \/ QueueProjectManagedDeletion(p)
       \/ DeleteEmptyProject(p)
    /\ UNCHANGED <<dir, handling, scan>>

\* Without a mode: only a project that has no workspace and no import.
deleteProjectLegacy(p) ==
    /\ "project" \in Requests
    /\ CanDeleteMetadata(p) /\ ~HasActiveProjectImport(p) /\ RowsOf(p) = {}
    /\ WithoutProject(p)
    /\ UNCHANGED <<dir, handling, scan, history>>

----------------------------------------------------------------------------
(* The Agents.  Operations of different workspaces run side by side; each   *)
(* looks at the directories first and changes them later.                  *)

Empty(o) == [NoDir EXCEPT !.state = "empty", !.of = o]
At(c) == {y \in Place : c /= None /\ dir[y].of = c}

\* git works in it: a linked worktree needs the repository it belongs to.
Healthy(x) ==
    dir[x].state = "repo" /\ (dir[x].link /= None => \E y \in At(dir[x].link) : dir[y].state = "repo")
lifecycleSource(x) == Healthy(x)
Linked(x) == dir[x].link /= None
\* git also lists the worktrees whose directory was removed behind its back.
ensureNoLinkedWorktrees(x) == ~dir[x].ghost /\ \A y \in Place : dir[y].link /= dir[x].of
allowedNewPath(x) == dir[x].state = "none"

recoverCreatedRepository(r) ==
    /\ Healthy(r.dst) /\ dir[r.dst].marker = r.owner
    /\ dir[r.dst].remote => r.remote

\* Each operation's checks before its first change.
Accepts(r) ==
    CASE r.kind = "move" ->
             /\ lifecycleSource(r.src) /\ allowedNewPath(r.dst)
             /\ (~Linked(r.src) => ensureNoLinkedWorktrees(r.src))
      [] r.kind = "copy" ->
             /\ lifecycleSource(r.src) /\ ~Linked(r.src) /\ ensureNoLinkedWorktrees(r.src)
             /\ allowedNewPath(r.dst)
      [] r.kind = "delete" ->
             /\ lifecycleSource(r.src) /\ (dir[r.src].dirty => r.force)
             /\ (~Linked(r.src) => ensureNoLinkedWorktrees(r.src))
      [] r.kind \in {"clone", "import"} -> r.dst \in CloneRoot /\ allowedNewPath(r.dst)
      [] r.kind = "worktree" -> Healthy(r.src) /\ dir[r.dst].state = "none"
      [] r.kind = "create" ->
             r.dst \in CloneRoot /\ (allowedNewPath(r.dst) \/ recoverCreatedRepository(r))
      [] r.kind = "projdel" ->
             /\ r.src \in CloneRoot
             /\ dir[r.src].state /= "none" => Healthy(r.src) /\ dir[r.src].marker = r.owner
      [] r.kind = "cleanup" -> Healthy(r.src) /\ dir[r.dst].link /= None
      [] OTHER -> Healthy(r.src)

\* copyWorkspaceTree and git init work in a directory made for them.
begin(o) ==
    /\ op[o].pc = "queued"
    /\ \/ /\ Accepts(op[o])
          /\ op' = [op EXCEPT ![o].pc = "step"]
          /\ dir' = IF op[o].kind \in {"copy", "create"} /\ dir[op[o].dst].state = "none"
                    THEN [dir EXCEPT ![op[o].dst] = Empty(o)] ELSE dir
       \/ /\ op' = [op EXCEPT ![o].pc = "done", ![o].ok = FALSE]
          /\ UNCHANGED dir
    /\ UNCHANGED <<project, row, handling, scan, history>>

Ends(o, ok) == op' = [op EXCEPT ![o].pc = "done", ![o].ok = ok]
RemoveAll(x) == dir' = [dir EXCEPT ![x] = NoDir]
FreeFor(x) == dir[x].state \in {"none", "empty"}

\* os.Rename also replaces an empty directory that appeared since the check;
\* git worktree move does not.
Movable(r) ==
    dir[r.src].state = "repo" /\ (IF Linked(r.src) THEN allowedNewPath(r.dst) ELSE FreeFor(r.dst))
MoveWorkspace(o) ==
    LET r == op[o] IN
    \/ /\ Movable(r)
       /\ dir' = [dir EXCEPT ![r.src] = NoDir, ![r.dst] = dir[r.src]] /\ Ends(o, TRUE)
    \/ UNCHANGED dir /\ Ends(o, FALSE)

\* A copy that fails removes its directory, whatever is there by now.
CopyWorkspace(o) ==
    LET r == op[o] IN
    \/ /\ dir[r.src].state = "repo" /\ dir[r.dst] = Empty(o)
       /\ dir' = [dir EXCEPT ![r.dst] = [dir[r.src] EXCEPT !.of = o]]
       /\ Ends(o, TRUE)
    \/ RemoveAll(r.dst) /\ Ends(o, FALSE)

\* git worktree remove for a linked one, RemoveAll for another.
DeleteWorkspace(o) == RemoveAll(op[o].src) /\ Ends(o, TRUE)

\* Mutant: a clone that fails removes the place, whoever uses it.
CloneRemovesAlways(o) ==
    \/ /\ FreeFor(op[o].dst) /\ Ends(o, TRUE)
       /\ dir' = [dir EXCEPT ![op[o].dst] = Repo(o, op[o].owner, None, TRUE, FALSE)]
    \/ RemoveAll(op[o].dst) /\ Ends(o, FALSE)

\* git clone makes the directory or takes an empty one; what it made goes
\* again when it is not the commit that was asked for.
CloneWorkspace(o) ==
    LET r == op[o] IN
    \/ /\ FreeFor(r.dst)
       /\ dir' = [dir EXCEPT ![r.dst] = Repo(o, r.owner, None, TRUE, FALSE)]
       /\ Ends(o, TRUE)
    \/ FreeFor(r.dst) /\ RemoveAll(r.dst) /\ Ends(o, FALSE)
    \/ UNCHANGED dir /\ Ends(o, FALSE)

CreateWorktree(o) ==
    LET r == op[o] IN
    \/ /\ Healthy(r.src) /\ FreeFor(r.dst)
       /\ dir' = [dir EXCEPT ![r.dst] =
              Repo(o, dir[r.src].marker, IF Linked(r.src) THEN dir[r.src].link ELSE dir[r.src].of,
                   dir[r.src].remote, FALSE)]
       /\ Ends(o, TRUE)
    \/ UNCHANGED dir /\ Ends(o, FALSE)

\* gitworktree.Remove: only what git knows as a worktree of that repository.
RemoveWorktree(o) ==
    LET r == op[o] IN
    \/ Linked(r.dst) /\ RemoveAll(r.dst) /\ Ends(o, TRUE)
    \/ UNCHANGED dir /\ Ends(o, FALSE)

CreateRepository(o) ==
    LET r == op[o] IN
    \/ /\ dir[r.dst] = Empty(o)
       /\ \/ /\ dir' = [dir EXCEPT ![r.dst] = Repo(o, r.owner, None, r.remote, FALSE)]
             /\ Ends(o, TRUE)
          \/ RemoveAll(r.dst) /\ Ends(o, FALSE)
    \/ /\ recoverCreatedRepository(r)
       /\ \/ dir' = [dir EXCEPT ![r.dst].remote = r.remote] /\ Ends(o, TRUE)
          \/ UNCHANGED dir /\ Ends(o, FALSE)
    \/ /\ dir[r.dst] /= Empty(o) /\ ~recoverCreatedRepository(r)
       /\ RemoveAll(r.dst) /\ Ends(o, FALSE)

\* RemoveAll leaves a worktree registered with its repository.
DeleteManagedProject(o) ==
    LET x == op[o].src IN
    /\ dir' = [y \in Place |->
           IF y = x THEN NoDir
           ELSE IF Linked(x) /\ y \in At(dir[x].link) THEN [dir[y] EXCEPT !.ghost = TRUE] ELSE dir[y]]
    /\ Ends(o, TRUE)

\* The clone is made beside the place and renamed to it, when that is free.
Import(o) ==
    LET r == op[o] IN
    \/ /\ dir[r.dst].state = "none"
       /\ dir' = [dir EXCEPT ![r.dst] = Repo(o, None, None, TRUE, FALSE)]
       /\ Ends(o, TRUE)
    \/ UNCHANGED dir /\ Ends(o, FALSE)

Edit(o) == dir' = [dir EXCEPT ![op[o].src].dirty = dir[op[o].src].state = "repo"] /\ Ends(o, TRUE)

\* Two operations for one place: the second takes the first one's directory
\* while that is still empty, or removes it.
Overtaken(o) == \E x \in Place : dir[x].state = "empty" /\ dir[x].of /= o /\ dir'[x] /= dir[x]

execute(o) ==
    /\ op[o].pc = "step"
    /\ CASE op[o].kind = "move" -> MoveWorkspace(o)
         [] op[o].kind = "copy" -> CopyWorkspace(o)
         [] op[o].kind = "delete" -> DeleteWorkspace(o)
         [] op[o].kind = "clone" -> CloneWorkspace(o)
         [] op[o].kind = "worktree" -> CreateWorktree(o)
         [] op[o].kind = "cleanup" -> RemoveWorktree(o)
         [] op[o].kind = "create" -> CreateRepository(o)
         [] op[o].kind = "projdel" -> DeleteManagedProject(o)
         [] op[o].kind = "import" -> Import(o)
         [] OTHER -> Edit(o)
    /\ history' = [history EXCEPT !.over = @ \/ Overtaken(o)]
    /\ UNCHANGED <<project, row, handling, scan>>

\* The moved workspace cannot be verified: it failed, and is not moved back.
moveUnverified(o) ==
    /\ op[o].pc = "step" /\ op[o].kind = "move" /\ Movable(op[o]) /\ MayFault("unverified")
    /\ dir' = [dir EXCEPT ![op[o].src] = NoDir, ![op[o].dst] = dir[op[o].src]]
    /\ Ends(o, FALSE)
    /\ history' = [Fault(history, "unverified") EXCEPT !.stale = TRUE, !.over = @ \/ Overtaken(o)]
    /\ UNCHANGED <<project, row, handling, scan>>

\* An Agent dies with the executions that have not stored their result.
ServerOfOp(r) == ServerOf(IF r.kind \in {"create", "import", "clone"} THEN r.dst ELSE r.src)
crash(s) ==
    /\ MayFault("crash")
    /\ \E o \in Op : op[o].pc \in {"step", "done"} /\ ServerOfOp(op[o]) = s
    /\ \E next \in {"queued", "lost"} :
           op' = [o \in Op |-> IF op[o].pc \in {"step", "done"} /\ ServerOfOp(op[o]) = s
                               THEN [op[o] EXCEPT !.pc = next] ELSE op[o]]
    /\ history' = [Fault(history, "crash") EXCEPT !.again = TRUE]
    /\ UNCHANGED <<project, row, dir, handling, scan>>

----------------------------------------------------------------------------
(* Inventories.  A scan sees the directories of one moment and is applied  *)
(* later; rows of directories it does not name stay.                       *)

Discover(s) ==
    /\ scan[s] = NoScan /\ history.scans < MaxScans
    /\ \E x \in Place : ServerOf(x) = s /\ dir[x].state = "repo"
    /\ scan' = [scan EXCEPT ![s] = [x \in Place |->
           IF ServerOf(x) = s /\ dir[x].state = "repo"
           THEN [NoDir EXCEPT !.state = "repo", !.remote = dir[x].remote /\ Healthy(x),
                              !.dirty = dir[x].dirty]
           ELSE NoDir]]
    /\ history' = [history EXCEPT !.scans = @ + 1]
    /\ UNCHANGED <<project, row, dir, op, handling>>

\* A project that lost its last row to the project of the remote goes, and
\* its operations and remotes are the other's.
mergeInventoryProjectIfOrphaned(t, source, target) ==
    IF source \in {None, target} \/ \E x \in Place : t.row[x].project = source THEN t
    ELSE [t EXCEPT !.op = [o \in Op |-> [t.op[o] EXCEPT !.project = IF @ = source THEN target ELSE @]],
                   !.project[source] = NoProject]

\* One repository of an inventory: its project is the remote's, else the
\* path's, which takes the remote over, else a new one; its row is ready.
UpsertRepository(t, x, repo) ==
    LET byRemote == {p \in Project : repo.remote /\ t.project[p].remote}
        remoteProject == IF byRemote = {} THEN None ELSE CHOOSE p \in byRemote : TRUE
        pathProject == t.row[x].project
        new == remoteProject = None /\ pathProject = None
        p == IF remoteProject /= None THEN remoteProject
             ELSE IF pathProject /= None THEN pathProject ELSE t.projects + 1
        origin == t.project[p].origin
        remembered == [status |-> IF new THEN "ready" ELSE t.project[p].status,
                       remote |-> repo.remote \/ t.project[p].remote,
                       origin |-> IF repo.remote /\ origin.mode = "none"
                                  THEN [mode |-> "existing", status |-> "ready", url |-> TRUE]
                                  ELSE origin]
        inserted == Row(t.ids + 1, p, ManagementMode(x), "primary", None, repo.dirty)
        updated == [t.row[x] EXCEPT !.project = p, !.status = "ready", !.dirty = repo.dirty,
                        !.mode = IF ManagementMode(x) = "managed" THEN "managed" ELSE @]
    IN  mergeInventoryProjectIfOrphaned(
            [t EXCEPT !.projects = IF new THEN p ELSE @,
                      !.project[p] = remembered,
                      !.ids = IF t.row[x] = NoRow THEN @ + 1 ELSE @,
                      !.row[x] = IF t.row[x] = NoRow THEN inserted ELSE updated],
            IF remoteProject = None THEN None ELSE pathProject, p)

\* The repositories in the order of their paths, in one transaction.
UpsertInventory(s) ==
    LET before == [project |-> project, row |-> row, op |-> op, ids |-> history.ids,
                   projects |-> history.projects]
        full(t, x) == \/ t.row[x] = NoRow /\ t.ids >= MaxWorkspaces
                      \/ t.row[x] = NoRow /\ t.projects >= MaxProjects
        upsert[x \in 0..MaxPlaces] ==
            IF x = 0 THEN before
            ELSE IF scan[s][x] = NoDir \/ full(upsert[x - 1], x) THEN upsert[x - 1]
            ELSE UpsertRepository(upsert[x - 1], x, scan[s][x])
        after == upsert[MaxPlaces]
        missed == \E x \in Place : scan[s][x] /= NoDir /\ after.row[x] = NoRow
    IN  /\ scan[s] /= NoScan /\ ~missed
        /\ project' = after.project /\ row' = after.row /\ op' = after.op
        /\ scan' = [scan EXCEPT ![s] = NoScan]
        /\ history' = [history EXCEPT !.ids = after.ids, !.projects = after.projects,
               !.stale = \/ @
                         \/ \E x \in Place : scan[s][x] /= NoDir /\ dir[x].state /= "repo"
                         \/ \E x \in Place : row[x] = NoRow /\ after.row[x] /= NoRow /\ Linked(x)
                         \/ \E o \in Op : op[o].pc \in Active /\ op[o].dst /= None
                                          /\ row[op[o].dst] /= after.row[op[o].dst]]
        /\ UNCHANGED <<dir, handling>>

----------------------------------------------------------------------------
(* Results.                                                                *)

\* An operation that is over keeps what a retry or a later removal asks for.
Settled(ops, o, ok) ==
    LET kept == IF ops[o].kind \in {"create", "import", "projdel"} THEN ops[o]
                ELSE [NoOp EXCEPT !.kind = ops[o].kind]
    IN  [ops EXCEPT ![o] = [kept EXCEPT !.ok = FALSE, !.pc = IF ok THEN "succeeded" ELSE "failed"]]
Shown(rows, w, status) ==
    [x \in Place |-> IF w /= None /\ rows[x].id = w THEN [rows[x] EXCEPT !.status = status] ELSE rows[x]]

\* The transaction needs the rows of the command and a path no row has.
LifecycleCommits(r) ==
    /\ r.ws /= None /\ r.project = r.owner
    /\ r.kind /= "delete" => row[r.dst] = NoRow

\* Mutant: the row keeps the path it had.
CompleteWithoutPath(o) ==
    /\ LifecycleCommits(op[o])
    /\ row' = IF op[o].kind = "delete" THEN Without(row, {op[o].ws}) ELSE Shown(row, op[o].ws, "ready")
    /\ op' = Settled(op, o, TRUE)

CompleteWorkspaceLifecycle(o) ==
    LET r == op[o] IN
    /\ LifecycleCommits(r)
    /\ \E x \in PlaceOf(r.ws) :
           row' = CASE r.kind = "move" ->
                           [row EXCEPT ![x] = NoRow, ![r.dst] = [row[x] EXCEPT !.status = "ready"]]
                    [] r.kind = "copy" ->
                           [Shown(row, r.ws, "ready") EXCEPT ![r.dst] =
                               Row(r.new, row[x].project, "managed", "primary", None, row[x].dirty)]
                    [] OTHER -> Without(row, {r.ws})
    /\ op' = Forget(Settled(op, o, TRUE), IF r.kind = "delete" THEN {r.ws} ELSE {}, None)

\* Mutant: the workspace is left as the request showed it.
FailOperationOnly(o, status) == UNCHANGED row /\ op' = Settled(op, o, FALSE)

\* Files that changed without a row to show it: "partial".
FailWorkspaceLifecycle(o, status) ==
    /\ row' = Shown(row, op[o].ws, status)
    /\ op' = Settled(op, o, FALSE)

CloneCommits(r) == r.ws /= None /\ r.project = r.owner /\ row[r.dst] = NoRow
                   /\ \E x \in PlaceOf(r.ws) : row[x].project = r.owner
CompleteCrossServerWorkspaceClone(o) ==
    LET r == op[o] IN
    /\ CloneCommits(r)
    /\ row' = [Shown(row, r.ws, "ready") EXCEPT ![r.dst] =
                   Row(r.new, r.owner, "managed", "primary", None, FALSE)]
    /\ op' = Settled(op, o, TRUE)
FailCrossServerWorkspaceClone(o, status) == FailWorkspaceLifecycle(o, status)

HandleLifecycle(o) ==
    LET r == op[o]
        clone == r.kind = "clone"
        commits == IF clone THEN CloneCommits(r) ELSE LifecycleCommits(r)
        complete == IF clone THEN CompleteCrossServerWorkspaceClone(o) ELSE CompleteWorkspaceLifecycle(o)
        fail(status) == IF clone THEN FailCrossServerWorkspaceClone(o, status)
                        ELSE FailWorkspaceLifecycle(o, status)
    IN  /\ r.kind \in {"move", "copy", "delete", "clone"}
        /\ \/ ~r.ok /\ fail("ready") /\ UNCHANGED history
           \/ r.ok /\ commits /\ complete /\ UNCHANGED history
           \/ /\ r.ok /\ ~commits /\ fail("partial")
              /\ history' = [history EXCEPT !.unshown = @ \/ r.kind = "move"]
           \/ /\ r.ok /\ commits /\ MayFault("database")
              /\ fail("partial") /\ history' = [Fault(history, "database") EXCEPT !.stale = TRUE]
        /\ UNCHANGED project

BlankProjectCommits(r) ==
    /\ r.project = r.owner /\ project[r.owner].status = "provisioning" /\ row[r.dst] = NoRow
CommitBlankProject(o) ==
    LET r == op[o] IN
    /\ BlankProjectCommits(r)
    /\ row' = [row EXCEPT ![r.dst] = Row(r.new, r.owner, "managed", "primary", None, FALSE)]
    /\ project' = [project EXCEPT ![r.owner].status = "ready"]
    /\ op' = Settled(op, o, TRUE)

HandleBlankProject(o) ==
    LET r == op[o] IN
    /\ r.kind = "create"
    /\ \/ ~r.ok /\ FailBlankProject(r.owner, o, "failed") /\ UNCHANGED <<row, history>>
       \/ r.ok /\ CommitBlankProject(o) /\ UNCHANGED history
       \/ r.ok /\ ~BlankProjectCommits(r) /\ FailBlankProject(r.owner, o, "partial") /\ UNCHANGED <<row, history>>
       \/ /\ r.ok /\ BlankProjectCommits(r) /\ MayFault("database")
          /\ FailBlankProject(r.owner, o, "partial") /\ UNCHANGED row
          /\ history' = Fault(history, "database")

WorktreeCommits(r) ==
    /\ r.ws /= None /\ row[r.dst] = NoRow /\ \E x \in PlaceOf(r.ws) : row[x].project = r.owner
CommitGitWorktree(o) ==
    LET r == op[o] IN
    /\ WorktreeCommits(r)
    /\ row' = [row EXCEPT ![r.dst] = [Row(r.new, r.owner, "managed", "worktree", r.ws, FALSE)
                                          EXCEPT !.sessions = r.force]]
    /\ op' = Settled(op, o, TRUE)

\* A worktree without a row is removed by an operation of its own.
HandleWorktree(o) ==
    LET r == op[o] IN
    /\ r.kind = "worktree"
    /\ \/ ~r.ok /\ op' = Settled(op, o, FALSE) /\ UNCHANGED row
       \/ r.ok /\ CommitGitWorktree(o)
       \/ /\ r.ok /\ ~WorktreeCommits(r) /\ r.project /= None
          /\ \E c \in Op : Fresh(c)
                 /\ op' = Settled([op EXCEPT ![c] = [r EXCEPT !.kind = "cleanup", !.content = o,
                                                            !.pc = "queued", !.ok = FALSE]],
                                  o, FALSE)
          /\ UNCHANGED row
    /\ UNCHANGED <<project, history>>

\* The result of one removal of a project's files, in one transaction.
Deletions(ops, p, pcs) == {o \in Op : ops[o].kind = "projdel" /\ ops[o].project = p /\ ops[o].pc \in pcs}
CompleteProjectDeletion(o) ==
    LET r == op[o]
        p == r.project
        w == IF r.ok THEN {r.ws} ELSE {}
        ops == Forget(Settled(op, o, r.ok), w, None)
        rows == Without(row, w)
        waiting == Deletions(ops, p, {"waiting"})
        clash == \E q \in waiting : HasActiveWorkspaceWriteOperation(ops, ops[q].ws)
        to(pc) == [q \in Op |-> IF q \in waiting THEN [ops[q] EXCEPT !.pc = pc] ELSE ops[q]]
    IN  \/ /\ Deletions(ops, p, Active) /= {}
          /\ op' = ops /\ row' = rows /\ UNCHANGED <<project, history>>
       \/ /\ Deletions(ops, p, Active) = {} /\ Deletions(ops, p, {"failed"}) /= {}
          /\ project' = [project EXCEPT ![p].status = "deletion_failed"]
          /\ op' = to("canceled") /\ row' = rows /\ UNCHANGED history
       \/ /\ Deletions(ops, p, Active \cup {"failed"}) = {} /\ waiting /= {}
          /\ IF clash
             THEN op' = [op EXCEPT ![o].pc = "lost"] /\ UNCHANGED <<project, row, history>>
             ELSE /\ op' = to("queued") /\ row' = rows
                  /\ history' = [history EXCEPT !.late = @ \/ \E x \in Place :
                          rows[x].project = p /\ rows[x].kind = "worktree"]
                  /\ UNCHANGED project
       \/ /\ Deletions(ops, p, Active \cup {"failed", "waiting"}) = {}
          /\ IF \E x \in Place : rows[x].project = p
             THEN /\ op' = ops /\ row' = rows
                  /\ project' = [project EXCEPT ![p].status = IF @ = "deleting" THEN "ready" ELSE @]
             ELSE /\ op' = Forget(ops, {}, p) /\ row' = rows
                  /\ project' = [project EXCEPT ![p] = NoProject]
          /\ UNCHANGED history

\* A result whose operation lost its project or its workspace is an error
\* that is only logged.
HandleProjectDeletion(o) ==
    /\ op[o].kind = "projdel"
    /\ IF op[o].project = None \/ op[o].ws = None \/ op[o].project /= op[o].owner
       THEN op' = [op EXCEPT ![o].pc = "lost"] /\ UNCHANGED <<project, row, history>>
       ELSE CompleteProjectDeletion(o)

HandleOther(o) ==
    /\ op[o].kind \in {"import", "edit", "cleanup"}
    /\ op' = Settled(op, o, op[o].ok)
    /\ UNCHANGED <<project, row, history>>

handle(o) ==
    /\ op[o].pc = "done"
    /\ \/ HandleLifecycle(o) \/ HandleBlankProject(o) \/ HandleWorktree(o)
       \/ HandleProjectDeletion(o) \/ HandleOther(o)
    /\ UNCHANGED <<dir, handling, scan>>

----------------------------------------------------------------------------
Next ==
    \/ \E o \in Op : \/ \E dst \in Place : createProject(o, dst) \/ importProject(o, dst)
                     \/ retryProjectCreation(o) \/ retryProjectImport(o)
                     \/ \E x, dst \in Place : \/ createWorktree(o, x, dst) \/ forkThreadToWorktree(o, x, dst)
                                              \/ moveWorkspace(o, x, dst) \/ copyWorkspace(o, x, dst)
                                              \/ copyToServer(o, x, dst)
                     \/ \E x \in Place : deleteWorkspace(o, x) \/ editWorkspace(o, x)
                     \/ begin(o) \/ execute(o) \/ moveUnverified(o) \/ handle(o)
    \/ \E x \in Place : deleteWorkspaceRecord(x) \/ createThread(x) \/ deleteThread(x)
    \/ \E p \in Project : deleteProject(p) \/ deleteProjectLegacy(p)
    \/ provisionProjectRemote \/ abandon
    \/ \E s \in Servers : Discover(s) \/ UpsertInventory(s) \/ crash(s)

Spec == Init /\ [][Next]_vars

----------------------------------------------------------------------------
(* Properties.                                                             *)

LifecycleTypeOK ==
    /\ project \in [Project -> [status : {"none", "provisioning", "ready", "failed", "partial",
                                          "deleting", "deletion_failed"},
                                remote : BOOLEAN,
                                origin : [mode : {"none", "existing", "create"},
                                          status : {"none", "provisioning", "ready", "failed"},
                                          url : BOOLEAN]]]
    /\ \A x \in Place :
           /\ row[x].status \in {"none", "ready", "moving", "copying", "deleting", "partial"}
           /\ row[x].id = None <=> row[x].project = None
           /\ row[x].id /= None => project[row[x].project].status /= "none"
           /\ \A y \in Place : row[x].id /= None /\ row[y].id = row[x].id => x = y
           /\ dir[x].state \in {"none", "empty", "repo"}
    /\ \A o \in Op : op[o].pc \in Active \cup {"none", "preparing", "waiting", "succeeded", "failed",
                                               "canceled", "superseded"}

\* Files go away only by an operation that was queued for the very content of
\* that directory, or by the operation that made it.  Excepted: an execution
\* repeated after a death of the Agent, a fresh directory another operation took
\* or removed while it was empty, and a row whose path had no directory when it
\* was queued.
FilesRemovedByOwner ==
    [][\A x \in Place :
          LET c == dir[x].of IN
          (/\ dir[x].state = "repo" /\ ~history.again /\ ~history.over
           /\ \A y \in Place : dir'[y].of /= c)
          => \E o \in Op : /\ op[o].pc = "step"
                           /\ op[o].content \in {c, None} \/ c = o
                           /\ op[o].kind \in {"delete", "projdel", "cleanup"} \/ c = o]_vars

\* The repository of a worktree outlives it: a primary is moved or removed only
\* when no worktree the control plane knows is left.  Excepted: a worktree made
\* while the primary's removal was waiting for the others, and one that a scan
\* found, which the control plane takes for a primary.
LinkedHaveTheirPrimary ==
    \A x \in Place :
        row[x].kind = "worktree" /\ dir[x].state = "repo" /\ dir[x].link /= None
        /\ ~history.late /\ ~history.again /\ ~history.stale =>
            \E y \in Place : dir[y].of = dir[x].link /\ dir[y].state = "repo"

\* A project or workspace shown in transition has an operation, or a request
\* at work, that will end it.  Excepted: results that were lost with an Agent
\* or rejected, and a request that was abandoned.
TransitionsHaveWork ==
    /\ \A p \in Project :
           /\ project[p].status = "provisioning" /\ ~history.left =>
                  \/ handling.project = p
                  \/ \E o \in Op : op[o].kind = "create" /\ op[o].owner = p /\ op[o].pc \in Active
           /\ project[p].status = "deleting" =>
                  \E o \in Op : op[o].kind = "projdel" /\ op[o].owner = p /\ op[o].pc \in Active
    /\ \A x \in Place : row[x].status \in {"moving", "copying", "deleting"} =>
           \E o \in Op : op[o].ws = row[x].id /\ op[o].kind \in Writes /\ op[o].pc \in Active
    /\ \A o \in Op : op[o].pc = "waiting" =>
           \E q \in Op : op[q].kind = "projdel" /\ op[q].owner = op[o].owner /\ op[q].pc \in Active

\* A workspace shown as ready, with no operation at work on it, is there.
\* Excepted: a row made by a scan that was overtaken, or that saw a new directory
\* before the result that names it was handled; a move that could not be verified,
\* or not recorded (the path is another row's), so that the row is partial until
\* the next operation on it fails; and a death of the Agent.
ReadyIsThere ==
    \A x \in Place :
        row[x].status = "ready" /\ ~history.stale /\ ~history.again /\ ~history.over
        /\ ~history.unshown /\ ~HasActive(op, row[x].id) => dir[x].state = "repo"

\* The removal of a primary that waits for the removal of worktrees is released
\* when they are gone: while it waits one of them is still on its way.
PrimaryReleased ==
    \A o \in Op : op[o].pc = "waiting" /\ ~history.again =>
        \E q \in Op : op[q].kind = "projdel" /\ op[q].owner = op[o].owner /\ op[q].pc \in Active \ {"lost"}
=============================================================================
