--------------------- MODULE ServerConfiguration_proofs ---------------------
(* What holds of a server's configuration for any number of operations,     *)
(* versions, revisions and faults.                                          *)
EXTENDS ServerConfiguration, TLAPS

-----------------------------------------------------------------------------
(* The inductive invariant *)

OpKinds == {"none", "over", "update", "install", "codexupdate", "credentials", "api", "turn"}
Places == {"away", "sent", "seen", "staging", "locked", "installing", "switching", "switched",
           "writing", "written", "running", "ended", "receipt"}
Rows == [kind : OpKinds, of : {"none", "agent", "both", "git"} \cup Clis,
         version : Nat, git : Nat,
         status : {"none", "queued", "delivered", "running"}, at : Places, step : Nat,
         ok : BOOLEAN, interrupted : BOOLEAN,
         conf : [cli : Nat, secret : Nat], snap : [Files -> Revision]]
Planes == [release : Release, target : [Clis -> Version], shown : [Clis -> Version],
           agent : Release, profile : [Kinds -> Revision], bound : [Kinds -> Revision]]
Manifests == [version : 0..MaxRelease, state : {"none", "pending", "attempting", "healthy"}]
Disks == [manifest : Manifests, staged : SUBSET Release, current : [Clis -> Version],
          installed : [Clis -> SUBSET Version], file : [Files -> Revision]]
Processes == [phase : {"down", "offline", "connected"}, version : Release, pending : BOOLEAN,
              restart : {0} \cup Release, command : [{"codex", "gemini"} -> Version],
              secret : [{"codex", "gemini"} -> Revision]]
Histories == [faults : Nat, changes : Nat, tries : Nat, deleted : SUBSET Kinds,
              torn : SUBSET OpKinds]

\* What the code says of a row by its kind.
Shaped(r) ==
  /\ r.kind \in {"none", "over"} => r.at = "away" /\ r.status = "none"
  /\ r.kind \notin {"none", "over"} => r.status # "none"
  /\ r.at = "staging" => r.kind = "update"
  /\ r.at \in Installing => r.kind \in {"install", "codexupdate"}
  /\ r.at \in {"writing", "written"} => r.kind \in {"credentials", "api"}
  /\ r.at = "running" => r.kind = "turn"
  /\ r.kind = "update" => r.version \in Release
  /\ r.kind \in {"install", "codexupdate"} => r.of \in Clis /\ r.version \in Version
  /\ r.kind = "credentials" => /\ r.of \in Scopes
                               /\ r.version \in Revision /\ r.git \in Revision
                               /\ r.of # "git" => r.version # 0
  /\ r.kind = "api" => r.of \in {"gemini", "claude"} /\ r.version \in Revision
  /\ r.kind = "turn" => r.of \in Clis
  /\ r.ok => r.at \in {"ended", "receipt"}
  /\ r.at # "writing" => r.step = 0
  /\ r.at # "running" => r.conf = NoConf

Typed ==
  /\ cp \in Planes /\ op \in [Ids -> Rows] /\ disk \in Disks
  /\ agent \in Processes /\ past \in Histories

RowsShaped == \A o \in Ids : Shaped(op[o])

\* An Agent that is not connected executes nothing.
IdleUnlessConnected ==
  agent.phase # "connected" => \A o \in Ids : op[o].at \in {"away", "receipt"}

\* One update at a time is staged or about to restart the Agent, and no Gemini or
\* Claude turn runs then.
UpdateAlone ==
  /\ \A o \in Ids : op[o].at = "staging" => agent.pending /\ agent.restart = 0
  /\ \A o, p \in Ids : op[o].at = "staging" /\ op[p].at = "staging" => o = p
  /\ agent.restart # 0 => agent.pending
  /\ agent.pending =>
       \A o \in Ids : op[o].kind = "turn" /\ op[o].of # "codex" => op[o].at # "running"

\* A binary that is still to be tried has not been tried.
UntriedIsPending ==
  /\ past.tries <= 1
  /\ disk.manifest.state \in {"pending", "healthy"} \/ agent.restart # 0 => past.tries = 0
  /\ disk.manifest.state = "none" => disk.manifest.version = 0

\* One installation at a time, and how far it is.
InstallsInOrder ==
  /\ \A o, p \in Ids : op[o].at \in Installing /\ op[p].at \in Installing => o = p
  /\ \A o \in Ids : op[o].at = "switching" => op[o].version \in disk.installed[op[o].of]
  /\ \A o \in Ids : op[o].at = "switched" => disk.current[op[o].of] = op[o].version

\* A reservation and a running turn exclude each other.
ReservedOrRunning ==
  \A o \in Ids : op[o].at = "running" => ~Reconfiguring(op[o].of)

\* One update of the credentials at a time, and one of each API key.
CredentialsOnce ==
  /\ \A o, p \in Ids : op[o].kind = "credentials" /\ op[p].kind = "credentials" => o = p
  /\ \A o, p \in Ids :
       op[o].kind = "api" /\ op[p].kind = "api" /\ op[o].of = op[p].of => o = p

\* What an update has written so far is on the disk until its result is applied.
Wrote(o) == op[o].at = "written" \/ (op[o].at \in {"ended", "receipt"} /\ op[o].ok)
WrittenIsThere ==
  \A o \in Ids : op[o].kind \in {"credentials", "api"} =>
    /\ op[o].at = "writing" => op[o].step < Len(Paths(o))
    /\ op[o].at = "writing" =>
         \A i \in 1..op[o].step : disk.file[Paths(o)[i]] = Value(o, Paths(o)[i])
    /\ Wrote(o) => \A i \in 1..Len(Paths(o)) : disk.file[Paths(o)[i]] = Value(o, Paths(o)[i])

\* The key that the Agent uses is the one on the disk, but for an update under
\* way, which keeps the one it found.
WritesKey(o) ==
  op[o].kind = "credentials" /\ op[o].of # "git" /\ op[o].at \in {"writing", "written"}
SecretsFollow ==
  /\ agent.phase # "down" =>
       \/ agent.secret["codex"] = disk.file["key"]
       \/ \E o \in Ids : WritesKey(o)
  /\ \A o \in Ids : WritesKey(o) /\ op[o].at = "writing" =>
           op[o].snap["key"] = agent.secret["codex"]
  /\ agent.phase # "down" =>
       \/ agent.secret["gemini"] = disk.file["gemini"]
       \/ \E o \in Ids : op[o].kind = "api" /\ op[o].of = "gemini" /\ op[o].at = "written"
  /\ \A o \in Ids : op[o].kind = "api" /\ op[o].at = "writing" =>
                      op[o].snap[op[o].of] = disk.file[op[o].of]

\* Only a deleted profile is missing.
ProfilesThere == \A k \in Kinds : cp.profile[k] = 0 => k \in past.deleted

\* Files that an update has not begun to write agree with the binding, and so do
\* those it would restore.
CodexBound(F) ==
  /\ F["key"] = F["config"]
  /\ "codex" \notin past.deleted => (cp.bound["codex"] = 1 <=> F["key"] # 0)
GitBound(F) ==
  /\ F["credentials"] = F["gitconfig"]
  /\ "git" \notin past.deleted => (cp.bound["git"] = 1 <=> F["credentials"] # 0)
Began(o) == op[o].at = "writing" \/ Wrote(o)
BoundUntilWritten ==
  "credentials" \notin past.torn =>
    /\ \/ CodexBound(disk.file)
       \/ \E o \in Ids : op[o].kind = "credentials" /\ op[o].of # "git" /\ Began(o)
    /\ \/ GitBound(disk.file)
       \/ \E o \in Ids : op[o].kind = "credentials" /\ op[o].of # "codex" /\ Began(o)
    /\ \A o \in Ids : op[o].kind = "credentials" /\ op[o].at = "writing" =>
         /\ op[o].of # "git" => CodexBound(op[o].snap)
         /\ op[o].of # "codex" => GitBound(op[o].snap)
KeysUntilWritten ==
  "api" \notin past.torn =>
    \A k \in {"gemini", "claude"} \ past.deleted :
      \/ cp.bound[k] = disk.file[k]
      \/ \E o \in Ids : op[o].kind = "api" /\ op[o].of = k /\ Wrote(o)

ConfigurationInv ==
  /\ Typed /\ RowsShaped /\ IdleUnlessConnected
  /\ UpdateAlone /\ UntriedIsPending
  /\ InstallsInOrder /\ CliAsRecorded /\ ReservedOrRunning /\ TurnKeepsItsConfiguration
  /\ CredentialsOnce /\ WrittenIsThere /\ SecretsFollow
  /\ ProfilesThere /\ BoundUntilWritten /\ KeysUntilWritten

-----------------------------------------------------------------------------
(* What a step makes of a row *)

\* What one field is set to, and that the others keep their value.
LEMMA SetAt ==
    ASSUME NEW r \in Rows, NEW a \in Places, NEW x, x = [r EXCEPT !.at = a]
    PROVE  /\ x \in Rows /\ x.at = a /\ x.step = r.step /\ x.ok = r.ok /\ x.conf = r.conf
           /\ x.snap = r.snap /\ x.kind = r.kind /\ x.of = r.of /\ x.version = r.version
           /\ x.git = r.git /\ x.status = r.status
BY DEF Rows

\* The same of the step.
LEMMA SetStep ==
    ASSUME NEW r \in Rows, NEW n \in Nat, NEW x, x = [r EXCEPT !.step = n]
    PROVE  /\ x \in Rows /\ x.step = n /\ x.at = r.at /\ x.ok = r.ok /\ x.conf = r.conf
           /\ x.snap = r.snap /\ x.kind = r.kind /\ x.of = r.of /\ x.version = r.version
           /\ x.git = r.git /\ x.status = r.status
BY DEF Rows

\* The same of the result.
LEMMA SetOk ==
    ASSUME NEW r \in Rows, NEW b \in BOOLEAN, NEW x, x = [r EXCEPT !.ok = b]
    PROVE  /\ x \in Rows /\ x.ok = b /\ x.step = r.step /\ x.at = r.at /\ x.conf = r.conf
           /\ x.snap = r.snap /\ x.kind = r.kind /\ x.of = r.of /\ x.version = r.version
           /\ x.git = r.git /\ x.status = r.status
BY DEF Rows

\* The same of the configuration of a turn.
LEMMA SetConf ==
    ASSUME NEW r \in Rows, NEW c \in [cli : Nat, secret : Nat], NEW x, x = [r EXCEPT !.conf = c]
    PROVE  /\ x \in Rows /\ x.conf = c /\ x.ok = r.ok /\ x.step = r.step /\ x.at = r.at
           /\ x.snap = r.snap /\ x.kind = r.kind /\ x.of = r.of /\ x.version = r.version
           /\ x.git = r.git /\ x.status = r.status
BY DEF Rows

\* The same of the files found.
LEMMA SetSnap ==
    ASSUME NEW r \in Rows, NEW S \in [Files -> Revision], NEW x, x = [r EXCEPT !.snap = S]
    PROVE  /\ x \in Rows /\ x.snap = S /\ x.ok = r.ok /\ x.step = r.step /\ x.at = r.at
           /\ x.conf = r.conf /\ x.kind = r.kind /\ x.of = r.of /\ x.version = r.version
           /\ x.git = r.git /\ x.status = r.status
BY DEF Rows

\* The same of the status.
LEMMA SetRowStatus ==
    ASSUME NEW r \in Rows, NEW s \in {"none", "queued", "delivered", "running"},
           NEW x, x = [r EXCEPT !.status = s]
    PROVE  /\ x \in Rows /\ x.status = s /\ x.ok = r.ok /\ x.step = r.step /\ x.at = r.at
           /\ x.conf = r.conf /\ x.snap = r.snap /\ x.kind = r.kind /\ x.of = r.of
           /\ x.version = r.version /\ x.git = r.git
BY DEF Rows

\* The same of the mark of a turn whose ownership was reported lost.
LEMMA SetInterrupted ==
    ASSUME NEW r \in Rows, NEW b \in BOOLEAN, NEW x, x = [r EXCEPT !.interrupted = b]
    PROVE  /\ x \in Rows /\ x.ok = r.ok /\ x.step = r.step /\ x.at = r.at /\ x.conf = r.conf
           /\ x.snap = r.snap /\ x.kind = r.kind /\ x.of = r.of /\ x.version = r.version
           /\ x.git = r.git /\ x.status = r.status
BY DEF Rows

\* What the fields of a row range over.
LEMMA RowTypes ==
    ASSUME NEW r \in Rows
    PROVE  /\ r.kind \in OpKinds /\ r.at \in Places /\ r.step \in Nat /\ r.ok \in BOOLEAN
           /\ r.conf \in [cli : Nat, secret : Nat] /\ r.snap \in [Files -> Revision]
           /\ r.version \in Nat /\ r.git \in Nat
           /\ r.of \in {"none", "agent", "both", "git"} \cup Clis
           /\ r.status \in {"none", "queued", "delivered", "running"}
BY DEF Rows

\* A row of which neither what it is about nor its status changes.
Becomes(o, a, n, b, c, S) ==
  /\ op' \in [Ids -> Rows]
  /\ op'[o].at = a /\ op'[o].step = n /\ op'[o].ok = b /\ op'[o].conf = c /\ op'[o].snap = S
  /\ op'[o].kind = op[o].kind /\ op'[o].of = op[o].of /\ op'[o].version = op[o].version
  /\ op'[o].git = op[o].git /\ op'[o].status = op[o].status
  /\ \A p \in Ids : p # o => op'[p] = op[p]

\* A place is set.
LEMMA MovedTo ==
    ASSUME op \in [Ids -> Rows], NEW o \in Ids, NEW a \in Places, op' = [op EXCEPT ![o].at = a]
    PROVE  Becomes(o, a, op[o].step, op[o].ok, op[o].conf, op[o].snap)
<1>r. PICK r \in Rows : r = op[o]
  OBVIOUS
<1>x. PICK x : x = [r EXCEPT !.at = a]
  OBVIOUS
<1>1. /\ x \in Rows /\ x.at = a /\ x.step = r.step /\ x.ok = r.ok /\ x.conf = r.conf
      /\ x.snap = r.snap /\ x.kind = r.kind /\ x.of = r.of /\ x.version = r.version
      /\ x.git = r.git /\ x.status = r.status
  BY <1>x, SetAt
<1>2. op' = [op EXCEPT ![o] = x]
  BY <1>r, <1>x
<1>3. op' \in [Ids -> Rows] /\ op'[o] = x /\ \A p \in Ids : p # o => op'[p] = op[p]
  BY <1>1, <1>2
<1> QED BY <1>r, <1>1, <1>3 DEF Becomes

\* A place is set, and the files that were found are kept.
LEMMA BegunAt ==
    ASSUME op \in [Ids -> Rows], NEW o \in Ids, NEW a \in Places, NEW S \in [Files -> Revision],
           op' = [op EXCEPT ![o].at = a, ![o].snap = S]
    PROVE  Becomes(o, a, op[o].step, op[o].ok, op[o].conf, S)
<1>r. PICK r \in Rows : r = op[o]
  OBVIOUS
<1>x. PICK x : x = [r EXCEPT !.at = a]
  OBVIOUS
<1>y. PICK y : y = [x EXCEPT !.snap = S]
  OBVIOUS
<1>1. /\ x \in Rows /\ x.at = a /\ x.step = r.step /\ x.ok = r.ok /\ x.conf = r.conf
      /\ x.kind = r.kind /\ x.of = r.of /\ x.version = r.version
      /\ x.git = r.git /\ x.status = r.status
  BY <1>x, SetAt
<1>2. /\ y \in Rows /\ y.snap = S /\ y.at = x.at /\ y.step = x.step /\ y.ok = x.ok
      /\ y.conf = x.conf /\ y.kind = x.kind /\ y.of = x.of /\ y.version = x.version
      /\ y.git = x.git /\ y.status = x.status
  BY <1>y, <1>1, SetSnap
<1>3. op' = [op EXCEPT ![o] = y]
  BY <1>r, <1>x, <1>y
<1>4. op' \in [Ids -> Rows] /\ op'[o] = y /\ \A p \in Ids : p # o => op'[p] = op[p]
  BY <1>1, <1>2, <1>3
<1> QED BY <1>r, <1>1, <1>2, <1>4 DEF Becomes

\* A turn runs with its configuration.
LEMMA RunsWith ==
    ASSUME op \in [Ids -> Rows], NEW o \in Ids, NEW c \in [cli : Nat, secret : Nat],
           op' = [op EXCEPT ![o].at = "running", ![o].conf = c]
    PROVE  Becomes(o, "running", op[o].step, op[o].ok, c, op[o].snap)
<1>r. PICK r \in Rows : r = op[o]
  OBVIOUS
<1>x. PICK x : x = [r EXCEPT !.at = "running"]
  OBVIOUS
<1>y. PICK y : y = [x EXCEPT !.conf = c]
  OBVIOUS
<1>0. "running" \in Places
  BY DEF Places
<1>1. /\ x \in Rows /\ x.at = "running" /\ x.step = r.step /\ x.ok = r.ok
      /\ x.snap = r.snap /\ x.kind = r.kind /\ x.of = r.of /\ x.version = r.version
      /\ x.git = r.git /\ x.status = r.status
  BY <1>x, <1>0, SetAt
<1>2. /\ y \in Rows /\ y.conf = c /\ y.at = x.at /\ y.step = x.step /\ y.ok = x.ok
      /\ y.snap = x.snap /\ y.kind = x.kind /\ y.of = x.of /\ y.version = x.version
      /\ y.git = x.git /\ y.status = x.status
  BY <1>y, <1>1, SetConf
<1>3. op' = [op EXCEPT ![o] = y]
  BY <1>r, <1>x, <1>y
<1>4. op' \in [Ids -> Rows] /\ op'[o] = y /\ \A p \in Ids : p # o => op'[p] = op[p]
  <2>1. PICK z \in Rows : z = y
    BY <1>2
  <2>2. op' = [op EXCEPT ![o] = z]
    BY <1>3, <2>1
  <2> QED BY <2>1, <2>2
<1>5. /\ y.at = "running" /\ y.conf = c /\ y.step = op[o].step /\ y.ok = op[o].ok
      /\ y.snap = op[o].snap /\ y.kind = op[o].kind /\ y.of = op[o].of
      /\ y.version = op[o].version /\ y.git = op[o].git /\ y.status = op[o].status
  BY <1>r, <1>1, <1>2
<1> QED BY <1>4, <1>5 DEF Becomes

\* One more file is written.
LEMMA SteppedTo ==
    ASSUME op \in [Ids -> Rows], NEW o \in Ids, NEW n \in Nat, op' = [op EXCEPT ![o].step = n]
    PROVE  Becomes(o, op[o].at, n, op[o].ok, op[o].conf, op[o].snap)
<1>r. PICK r \in Rows : r = op[o]
  OBVIOUS
<1>x. PICK x : x = [r EXCEPT !.step = n]
  OBVIOUS
<1>1. /\ x \in Rows /\ x.step = n /\ x.at = r.at /\ x.ok = r.ok /\ x.conf = r.conf
      /\ x.snap = r.snap /\ x.kind = r.kind /\ x.of = r.of /\ x.version = r.version
      /\ x.git = r.git /\ x.status = r.status
  BY <1>x, SetStep
<1>2. op' = [op EXCEPT ![o] = x]
  BY <1>r, <1>x
<1>3. op' \in [Ids -> Rows] /\ op'[o] = x /\ \A p \in Ids : p # o => op'[p] = op[p]
  BY <1>1, <1>2
<1> QED BY <1>r, <1>1, <1>3 DEF Becomes

\* The last file is written.
LEMMA WrittenAll ==
    ASSUME op \in [Ids -> Rows], NEW o \in Ids,
           op' = [op EXCEPT ![o].step = 0, ![o].at = "written"]
    PROVE  Becomes(o, "written", 0, op[o].ok, op[o].conf, op[o].snap)
<1>r. PICK r \in Rows : r = op[o]
  OBVIOUS
<1>x. PICK x : x = [r EXCEPT !.step = 0]
  OBVIOUS
<1>y. PICK y : y = [x EXCEPT !.at = "written"]
  OBVIOUS
<1>0. "written" \in Places /\ 0 \in Nat
  BY DEF Places
<1>1. /\ x \in Rows /\ x.step = 0 /\ x.ok = r.ok /\ x.conf = r.conf
      /\ x.snap = r.snap /\ x.kind = r.kind /\ x.of = r.of /\ x.version = r.version
      /\ x.git = r.git /\ x.status = r.status
  BY <1>x, <1>0, SetStep
<1>2. /\ y \in Rows /\ y.at = "written" /\ y.step = x.step /\ y.ok = x.ok /\ y.conf = x.conf
      /\ y.snap = x.snap /\ y.kind = x.kind /\ y.of = x.of /\ y.version = x.version
      /\ y.git = x.git /\ y.status = x.status
  BY <1>y, <1>0, <1>1, SetAt
<1>3. op' = [op EXCEPT ![o] = y]
  BY <1>r, <1>x, <1>y
<1>4. op' \in [Ids -> Rows] /\ op'[o] = y /\ \A p \in Ids : p # o => op'[p] = op[p]
  BY <1>1, <1>2, <1>3
<1> QED BY <1>r, <1>1, <1>2, <1>4 DEF Becomes

\* An execution ends.
LEMMA EndedAs ==
    ASSUME op \in [Ids -> Rows], NEW o \in Ids, NEW b \in BOOLEAN, op' = Ended(o, b)
    PROVE  Becomes(o, "ended", 0, b, NoConf, NoFiles)
<1>r. PICK r \in Rows : r = op[o]
  OBVIOUS
<1>x. PICK x : x = [r EXCEPT !.at = "ended"]
  OBVIOUS
<1>y. PICK y : y = [x EXCEPT !.ok = b]
  OBVIOUS
<1>z. PICK z : z = [y EXCEPT !.step = 0]
  OBVIOUS
<1>c. PICK c : c = [z EXCEPT !.conf = NoConf]
  OBVIOUS
<1>s. PICK s : s = [c EXCEPT !.snap = NoFiles]
  OBVIOUS
<1>0. /\ "ended" \in Places /\ 0 \in Nat /\ NoConf \in [cli : Nat, secret : Nat]
      /\ NoFiles \in [Files -> Revision]
  BY ConfigurationAssumption DEF Places, NoConf, NoFiles, Revision
<1>1. /\ x \in Rows /\ x.at = "ended" /\ x.kind = r.kind /\ x.of = r.of
      /\ x.version = r.version /\ x.git = r.git /\ x.status = r.status
  BY <1>x, <1>0, SetAt
<1>2. /\ y \in Rows /\ y.ok = b /\ y.at = x.at /\ y.kind = x.kind /\ y.of = x.of
      /\ y.version = x.version /\ y.git = x.git /\ y.status = x.status
  BY <1>y, <1>1, SetOk
<1>3. /\ z \in Rows /\ z.step = 0 /\ z.ok = y.ok /\ z.at = y.at /\ z.kind = y.kind
      /\ z.of = y.of /\ z.version = y.version /\ z.git = y.git /\ z.status = y.status
  BY <1>z, <1>0, <1>2, SetStep
<1>4. /\ c \in Rows /\ c.conf = NoConf /\ c.step = z.step /\ c.ok = z.ok /\ c.at = z.at
      /\ c.kind = z.kind /\ c.of = z.of /\ c.version = z.version /\ c.git = z.git
      /\ c.status = z.status
  BY <1>c, <1>0, <1>3, SetConf
<1>5. /\ s \in Rows /\ s.snap = NoFiles /\ s.conf = c.conf /\ s.step = c.step /\ s.ok = c.ok
      /\ s.at = c.at /\ s.kind = c.kind /\ s.of = c.of /\ s.version = c.version
      /\ s.git = c.git /\ s.status = c.status
  BY <1>s, <1>0, <1>4, SetSnap
<1>6. op' = [op EXCEPT ![o] = s]
  BY <1>r, <1>x, <1>y, <1>z, <1>c, <1>s DEF Ended
<1>7. op' \in [Ids -> Rows] /\ op'[o] = s /\ \A p \in Ids : p # o => op'[p] = op[p]
  BY <1>1, <1>2, <1>3, <1>4, <1>5, <1>6
<1> QED BY <1>r, <1>1, <1>2, <1>3, <1>4, <1>5, <1>7 DEF Becomes

\* When the process ends, what it was executing is over and its results are
\* receipts.
Restarts ==
  /\ op' \in [Ids -> Rows]
  /\ \A p \in Ids :
       /\ op'[p].kind = op[p].kind /\ op'[p].of = op[p].of /\ op'[p].version = op[p].version
       /\ op'[p].git = op[p].git /\ op'[p].status = op[p].status /\ op'[p].ok = op[p].ok
       /\ op'[p].step = 0 /\ op'[p].conf = NoConf
       /\ op'[p].at = IF op[p].at \in {"ended", "receipt"} THEN "receipt" ELSE "away"

\* That is what Interrupted does to the rows.
LEMMA Restarted ==
    ASSUME op \in [Ids -> Rows], RowsShaped, op' = Interrupted
    PROVE  Restarts
<1>0. /\ {"away", "receipt"} \subseteq Places /\ 0 \in Nat /\ NoConf \in [cli : Nat, secret : Nat]
      /\ NoFiles \in [Files -> Revision]
  BY ConfigurationAssumption DEF Places, NoConf, NoFiles, Revision
<1>1. ASSUME NEW p \in Ids
      PROVE  /\ op'[p] \in Rows
             /\ op'[p].kind = op[p].kind /\ op'[p].of = op[p].of
             /\ op'[p].version = op[p].version
             /\ op'[p].git = op[p].git /\ op'[p].status = op[p].status /\ op'[p].ok = op[p].ok
             /\ op'[p].step = 0 /\ op'[p].conf = NoConf
             /\ op'[p].at = IF op[p].at \in {"ended", "receipt"} THEN "receipt" ELSE "away"
  <2>r. PICK r \in Rows : r = op[p]
    OBVIOUS
  <2>s. (r.at # "writing" => r.step = 0) /\ (r.at # "running" => r.conf = NoConf)
    BY <2>r DEF RowsShaped, Shaped
  <2>1. CASE r.at = "ended"
    <3>x. PICK x : x = [r EXCEPT !.at = "receipt"]
      OBVIOUS
    <3>1. /\ x \in Rows /\ x.at = "receipt" /\ x.step = r.step /\ x.ok = r.ok
          /\ x.conf = r.conf /\ x.kind = r.kind /\ x.of = r.of /\ x.version = r.version
          /\ x.git = r.git /\ x.status = r.status
      BY <1>0, <3>x, SetAt
    <3>2. op'[p] = x
      BY <2>r, <2>1, <3>x DEF Interrupted
    <3> QED BY <2>1, <2>r, <2>s, <3>1, <3>2
  <2>2. CASE r.at \in {"away", "receipt"}
    <3>1. op'[p] = r
      BY <2>r, <2>2 DEF Interrupted, Executing
    <3> QED BY <2>r, <2>s, <2>2, <3>1
  <2>3. CASE r.at \notin {"away", "receipt", "ended"}
    <3>x. PICK x : x = [r EXCEPT !.at = "away"]
      OBVIOUS
    <3>y. PICK y : y = [x EXCEPT !.step = 0]
      OBVIOUS
    <3>z. PICK z : z = [y EXCEPT !.conf = NoConf]
      OBVIOUS
    <3>w. PICK w : w = [z EXCEPT !.snap = NoFiles]
      OBVIOUS
    <3>1. /\ x \in Rows /\ x.at = "away" /\ x.ok = r.ok /\ x.kind = r.kind /\ x.of = r.of
          /\ x.version = r.version /\ x.git = r.git /\ x.status = r.status
      BY <1>0, <3>x, SetAt
    <3>2. /\ y \in Rows /\ y.step = 0 /\ y.at = x.at /\ y.ok = x.ok /\ y.kind = x.kind
          /\ y.of = x.of /\ y.version = x.version /\ y.git = x.git /\ y.status = x.status
      BY <1>0, <3>y, <3>1, SetStep
    <3>3. /\ z \in Rows /\ z.conf = NoConf /\ z.step = y.step /\ z.at = y.at /\ z.ok = y.ok
          /\ z.kind = y.kind /\ z.of = y.of /\ z.version = y.version /\ z.git = y.git
          /\ z.status = y.status
      BY <1>0, <3>z, <3>2, SetConf
    <3>4. /\ w \in Rows /\ w.conf = z.conf /\ w.step = z.step /\ w.at = z.at /\ w.ok = z.ok
          /\ w.kind = z.kind /\ w.of = z.of /\ w.version = z.version /\ w.git = z.git
          /\ w.status = z.status
      BY <1>0, <3>w, <3>3, SetSnap
    <3>5. op'[p] = w
      BY <2>r, <2>3, <3>x, <3>y, <3>z, <3>w DEF Interrupted, Executing
    <3> QED BY <2>r, <2>3, <3>1, <3>2, <3>3, <3>4, <3>5
  <2> QED BY <2>1, <2>2, <2>3
<1>2. op' = [p \in Ids |-> op'[p]]
  BY DEF Interrupted
<1> QED BY <1>1, <1>2 DEF Restarts

-----------------------------------------------------------------------------
(* Steps that change nothing that the invariant tells apart *)

Idle == {"away", "sent", "seen", "ended", "receipt"}
Quiet(r, x) ==
  \/ /\ x.at = r.at /\ x.kind = r.kind /\ x.of = r.of /\ x.version = r.version
     /\ x.git = r.git /\ x.ok = r.ok /\ x.step = r.step /\ x.conf = r.conf /\ x.snap = r.snap
  \/ /\ x.at \in Idle /\ r.at \notin {"staging", "switched", "writing", "written"}
     /\ (x.kind \in {"credentials", "api"} /\ x.ok) \/ (r.kind \in {"credentials", "api"} /\ r.ok)
          => /\ x.kind = r.kind /\ x.of = r.of /\ x.version = r.version /\ x.git = r.git
             /\ x.ok = r.ok

\* A step that moves rows quietly, and leaves alone the disk, the process and the
\* bindings, keeps the invariant.
LEMMA QuietStep ==
    ASSUME ConfigurationInv, op' \in [Ids -> Rows], cp' \in Planes, past' \in Histories,
           RowsShaped', IdleUnlessConnected', CredentialsOnce',
           \A p \in Ids : Quiet(op[p], op'[p]), UNCHANGED <<disk, agent>>,
           cp'.profile = cp.profile, cp'.bound = cp.bound,
           past'.tries = past.tries, past'.deleted = past.deleted, past'.torn = past.torn
    PROVE  ConfigurationInv'
<1>a. /\ Typed /\ RowsShaped /\ UpdateAlone /\ UntriedIsPending /\ InstallsInOrder
      /\ CliAsRecorded /\ ReservedOrRunning /\ TurnKeepsItsConfiguration
      /\ WrittenIsThere /\ SecretsFollow /\ ProfilesThere
      /\ BoundUntilWritten /\ KeysUntilWritten
  BY DEF ConfigurationInv
<1>t. Typed'
  BY <1>a DEF Typed
<1>k. disk' = disk /\ agent' = agent
  OBVIOUS
\* a row at work has not moved
<1>b. \A p \in Ids : op'[p].at \notin Idle =>
        /\ op'[p].at = op[p].at /\ op'[p].kind = op[p].kind /\ op'[p].of = op[p].of
        /\ op'[p].version = op[p].version /\ op'[p].git = op[p].git /\ op'[p].ok = op[p].ok
        /\ op'[p].step = op[p].step /\ op'[p].conf = op[p].conf /\ op'[p].snap = op[p].snap
  BY DEF Quiet
<1>c. \A p \in Ids : op[p].at \in {"staging", "switched", "writing", "written"} =>
        /\ op'[p].at = op[p].at /\ op'[p].kind = op[p].kind /\ op'[p].of = op[p].of
        /\ op'[p].version = op[p].version /\ op'[p].git = op[p].git /\ op'[p].ok = op[p].ok
  BY DEF Quiet
\* and a result that counts is still there
<1>d. \A p \in Ids : op[p].kind \in {"credentials", "api"} =>
        /\ Wrote(p) <=> (op'[p].kind \in {"credentials", "api"} /\ Wrote(p)')
        /\ Wrote(p) => /\ op'[p].kind = op[p].kind /\ op'[p].of = op[p].of
                       /\ op'[p].version = op[p].version /\ op'[p].git = op[p].git
  BY <1>a DEF Quiet, Wrote, RowsShaped, Shaped, Idle
<1>e. \A p \in Ids : op'[p].kind \in {"credentials", "api"} /\ Wrote(p)' =>
        /\ Wrote(p) /\ op'[p].kind = op[p].kind /\ op'[p].of = op[p].of
        /\ op'[p].version = op[p].version /\ op'[p].git = op[p].git
  BY <1>a DEF Quiet, Wrote, RowsShaped, Shaped, Idle
<1>1. UpdateAlone'
  BY <1>a, <1>b, <1>k DEF UpdateAlone, Idle
<1>2. UntriedIsPending'
  BY <1>a, <1>k DEF UntriedIsPending
<1>3. InstallsInOrder'
  BY <1>a, <1>b, <1>k DEF InstallsInOrder, Idle, Installing
<1>4. CliAsRecorded'
  BY <1>a, <1>c, <1>k DEF CliAsRecorded
<1>5. ReservedOrRunning'
  <2>1. \A k : Reconfiguring(k)' => Reconfiguring(k)
    <3> SUFFICES ASSUME NEW k, Reconfiguring(k)' PROVE Reconfiguring(k)
      OBVIOUS
    <3>1. PICK p \in Ids :
            \/ IsInstall(p)' /\ op'[p].of = k /\ op'[p].at \in Installing \ {"locked"}
            \/ op'[p].kind = "api" /\ op'[p].of = k /\ op'[p].at \in {"writing", "written"}
            \/ k = "codex" /\ op'[p].kind = "credentials" /\ op'[p].of # "git"
               /\ op'[p].at \in {"writing", "written"}
      BY DEF Reconfiguring
    <3>2. op'[p].at \notin Idle
      BY <3>1 DEF Idle, Installing
    <3>3. op'[p].at = op[p].at /\ op'[p].kind = op[p].kind /\ op'[p].of = op[p].of
      BY <1>b, <3>2
    <3> QED BY <3>1, <3>3 DEF Reconfiguring, IsInstall
  <2> QED BY <1>a, <1>b, <2>1 DEF ReservedOrRunning, Idle
<1>6. TurnKeepsItsConfiguration'
  <2>1. \A k : Configuration(k)' = Configuration(k)
    BY <1>k DEF Configuration, effectivePath
  <2> QED BY <1>a, <1>b, <1>k, <2>1 DEF TurnKeepsItsConfiguration, Idle
<1>7. WrittenIsThere'
  <2> SUFFICES ASSUME NEW p \in Ids, op'[p].kind \in {"credentials", "api"}
               PROVE  /\ op'[p].at = "writing" => op'[p].step < Len(Paths(p)')
                      /\ op'[p].at = "writing" =>
                           \A i \in 1..op'[p].step :
                              disk'.file[Paths(p)'[i]] = Value(p, Paths(p)[i])'
                      /\ Wrote(p)' => \A i \in 1..Len(Paths(p)') :
                                        disk'.file[Paths(p)'[i]] = Value(p, Paths(p)[i])'
    BY DEF WrittenIsThere
  <2>1. CASE op'[p].at = "writing" \/ Wrote(p)'
    <3>1. /\ op'[p].kind = op[p].kind /\ op'[p].of = op[p].of
          /\ op'[p].version = op[p].version /\ op'[p].git = op[p].git
      BY <1>b, <1>e, <2>1 DEF Idle
    <3>2. Paths(p)' = Paths(p) /\ \A f : Value(p, f)' = Value(p, f)
      BY <3>1 DEF Paths, Value
    <3>3. /\ op'[p].at = "writing" => op[p].at = "writing" /\ op'[p].step = op[p].step
          /\ Wrote(p)' => Wrote(p)
      BY <1>b, <1>e DEF Idle
    <3>4. \A i : Value(p, Paths(p)[i])' = Value(p, Paths(p)[i])
      BY <3>1 DEF Paths, Value
    <3> QED BY <1>a, <1>k, <3>1, <3>2, <3>3, <3>4 DEF WrittenIsThere
  <2>2. CASE ~(op'[p].at = "writing" \/ Wrote(p)')
    BY <2>2
  <2> QED BY <2>1, <2>2
<1>8. SecretsFollow'
  BY <1>a, <1>b, <1>c, <1>k DEF SecretsFollow, WritesKey, Idle
<1>9. ProfilesThere'
  BY <1>a DEF ProfilesThere
<1>10. BoundUntilWritten'
  <2>1. \A p \in Ids : op[p].kind \in {"credentials", "api"} /\ Began(p) =>
          Began(p)' /\ op'[p].kind = op[p].kind /\ op'[p].of = op[p].of
    BY <1>c, <1>d DEF Began
  <2>2. \A p \in Ids : op'[p].at = "writing" =>
          op[p].at = "writing" /\ op'[p].kind = op[p].kind /\ op'[p].of = op[p].of
          /\ op'[p].snap = op[p].snap
    BY <1>b DEF Idle
  <2>3. CodexBound(disk.file) => CodexBound(disk.file)'
    BY <1>k DEF CodexBound
  <2>4. GitBound(disk.file) => GitBound(disk.file)'
    BY <1>k DEF GitBound
  <2>5. \A p \in Ids : op'[p].at = "writing" =>
          /\ CodexBound(op[p].snap) => CodexBound(op[p].snap)'
          /\ GitBound(op[p].snap) => GitBound(op[p].snap)'
    BY <2>2 DEF CodexBound, GitBound
  <2> QED BY <1>a, <2>1, <2>2, <2>3, <2>4, <2>5 DEF BoundUntilWritten
<1>11. KeysUntilWritten'
  BY <1>a, <1>d, <1>k DEF KeysUntilWritten
<1> QED BY <1>t, <1>1, <1>2, <1>3, <1>4, <1>5, <1>6, <1>7, <1>8, <1>9, <1>10, <1>11
        DEF ConfigurationInv
-----------------------------------------------------------------------------
(* The steps of the control plane *)

\* A request that is accepted enters a row that nothing has touched; there is one
\* update of the credentials, and one of a key, at a time.
LEMMA QueueKeeps ==
    ASSUME ConfigurationInv, NEW kind \in OpKinds \ {"none", "over"},
           NEW of \in {"agent", "both", "git"} \cup Clis, NEW version \in Nat, NEW git \in Nat,
           Queue(kind, of, version, git),
           kind = "update" => version \in Release,
           kind \in {"install", "codexupdate"} => of \in Clis /\ version \in Version,
           kind = "credentials" => /\ of \in Scopes /\ version \in Revision
                                   /\ git \in Revision /\ (of # "git" => version # 0),
           kind = "api" => of \in {"gemini", "claude"} /\ version \in Revision,
           kind = "turn" => of \in Clis,
           kind = "credentials" => \A p \in Ids : op[p].kind # "credentials",
           kind = "api" => \A p \in Ids : op[p].kind = "api" => op[p].of # of,
           UNCHANGED <<cp, disk, agent, past>>
    PROVE  ConfigurationInv'
<1>a. Typed /\ RowsShaped /\ IdleUnlessConnected /\ CredentialsOnce
  BY DEF ConfigurationInv
<1>t. op \in [Ids -> Rows] /\ cp' \in Planes /\ past' \in Histories
  BY <1>a DEF Typed
<1>x. PICK x : x = [NoOp EXCEPT !.kind = kind, !.of = of, !.version = version,
                                !.git = git, !.status = "queued"]
  OBVIOUS
<1>1. /\ x \in Rows /\ x.kind = kind /\ x.of = of /\ x.at = "away" /\ x.ok = FALSE
      /\ x.version = version /\ x.git = git /\ x.status = "queued" /\ x.step = 0
      /\ x.conf = NoConf
  <2>1. x = [kind |-> kind, of |-> of, version |-> version, git |-> git, status |-> "queued",
             at |-> "away", step |-> 0, ok |-> FALSE, interrupted |-> FALSE,
             conf |-> NoConf, snap |-> NoFiles]
    BY <1>x DEF NoOp
  <2>2. NoConf \in [cli : Nat, secret : Nat] /\ NoFiles \in [Files -> Revision]
    BY ConfigurationAssumption DEF NoConf, NoFiles, Revision
  <2> QED BY <2>1, <2>2 DEF Rows, Places
<1>2. PICK o \in Ids : op[o].kind = "none" /\ op' = [op EXCEPT ![o] = x]
  BY <1>x DEF Queue
<1>3. /\ op' \in [Ids -> Rows] /\ op'[o] = x /\ \A p \in Ids : p # o => op'[p] = op[p]
  BY <1>t, <1>1, <1>2
<1>4. Shaped(x)
  BY <1>1 DEF Shaped, Installing
<1>5. op[o].at = "away" /\ op[o].ok = FALSE
  BY <1>a, <1>2, <1>t, RowTypes DEF RowsShaped, Shaped
<1>shaped. RowsShaped'
  BY <1>a, <1>3, <1>4 DEF RowsShaped
<1>idle. IdleUnlessConnected'
  BY <1>a, <1>1, <1>3 DEF IdleUnlessConnected
<1>once. CredentialsOnce'
  BY <1>a, <1>1, <1>3 DEF CredentialsOnce
<1>quiet. \A p \in Ids : Quiet(op[p], op'[p])
  BY <1>1, <1>2, <1>3, <1>5 DEF Quiet, Idle
<1> QED BY <1>t, <1>3, <1>shaped, <1>idle, <1>once, <1>quiet, QuietStep

\* Where a row is not at work, its delivery and its marks are no one's concern.
LEMMA DeliveryKeeps ==
    ASSUME ConfigurationInv, NEW o \in Ids,
           Deliver(o) \/ Receive(o) \/ ApplyStarted(o) \/ OwnershipLost(o) \/ OwnershipActive(o)
    PROVE  ConfigurationInv'
<1>a. Typed /\ RowsShaped /\ IdleUnlessConnected /\ CredentialsOnce
  BY DEF ConfigurationInv
<1>t. op \in [Ids -> Rows] /\ cp \in Planes /\ past \in Histories
  BY <1>a DEF Typed
<1>u. UNCHANGED <<cp, disk, agent, past>> /\ agent.phase = "connected"
  BY DEF Deliver, Receive, ApplyStarted, OwnershipLost, OwnershipActive, Online
<1>r. PICK r \in Rows : r = op[o]
  BY <1>t
<1>0. {"ended", "sent", "seen"} \subseteq Places
  BY DEF Places
<1>1. \E x \in Rows :
        /\ op' = [op EXCEPT ![o] = x]
        /\ x.kind = r.kind /\ x.of = r.of /\ x.version = r.version /\ x.git = r.git
        /\ x.ok = r.ok /\ x.step = r.step /\ x.conf = r.conf /\ x.snap = r.snap
        /\ r.status # "none" => x.status # "none"
        /\ r.status # "none" \/ (x.at = r.at /\ x.status = r.status)
           \/ (r.at = "sent" /\ x.status = r.status /\ x.at = "seen")
        /\ \/ x.at = r.at
           \/ r.at = "receipt" /\ x.at = "ended"
           \/ r.at = "away" /\ x.at = "sent"
           \/ r.at = "sent" /\ x.at = "seen"
  <2>1. CASE Deliver(o)
    <3>x. PICK x : x = [r EXCEPT !.status = "delivered"]
      OBVIOUS
    <3>y. PICK y : y = [x EXCEPT !.at = IF r.at = "receipt" THEN "ended" ELSE "sent"]
      OBVIOUS
    <3>1. /\ x \in Rows /\ x.status = "delivered" /\ x.at = r.at /\ x.ok = r.ok
          /\ x.step = r.step /\ x.conf = r.conf /\ x.snap = r.snap /\ x.kind = r.kind
          /\ x.of = r.of /\ x.version = r.version /\ x.git = r.git
      BY <3>x, SetRowStatus
    <3>2. /\ y \in Rows /\ y.at = IF r.at = "receipt" THEN "ended" ELSE "sent"
          /\ y.status = x.status /\ y.ok = x.ok
          /\ y.step = x.step /\ y.conf = x.conf /\ y.snap = x.snap /\ y.kind = x.kind
          /\ y.of = x.of /\ y.version = x.version /\ y.git = x.git
      BY <1>0, <3>y, <3>1, SetAt
    <3>3. op' = [op EXCEPT ![o] = y] /\ r.at \in {"away", "receipt"} /\ r.status # "none"
      BY <2>1, <1>r, <3>x, <3>y, <3>1 DEF Deliver
    <3> QED BY <3>1, <3>2, <3>3
  <2>2. CASE Receive(o)
    <3>x. PICK x : x = [r EXCEPT !.at = "seen"]
      OBVIOUS
    <3>1. /\ x \in Rows /\ x.status = r.status /\ x.at = "seen" /\ x.ok = r.ok
          /\ x.step = r.step /\ x.conf = r.conf /\ x.snap = r.snap /\ x.kind = r.kind
          /\ x.of = r.of /\ x.version = r.version /\ x.git = r.git
      BY <1>0, <3>x, SetAt
    <3>2. op' = [op EXCEPT ![o] = x] /\ r.at = "sent"
      BY <2>2, <1>r, <3>x DEF Receive
    <3> QED BY <3>1, <3>2
  <2>3. CASE ApplyStarted(o)
    <3>x. PICK x : x = [r EXCEPT !.status = "running"]
      OBVIOUS
    <3>1. /\ x \in Rows /\ x.status = "running" /\ x.at = r.at /\ x.ok = r.ok
          /\ x.step = r.step /\ x.conf = r.conf /\ x.snap = r.snap /\ x.kind = r.kind
          /\ x.of = r.of /\ x.version = r.version /\ x.git = r.git
      BY <3>x, SetRowStatus
    <3>2. op' = [op EXCEPT ![o] = x] /\ r.status = "delivered"
      BY <2>3, <1>r, <3>x DEF ApplyStarted
    <3> QED BY <3>1, <3>2
  <2>4. CASE OwnershipLost(o) \/ OwnershipActive(o)
    <3>b. PICK b \in BOOLEAN : op' = [op EXCEPT ![o].interrupted = b]
      BY <2>4 DEF OwnershipLost, OwnershipActive
    <3>x. PICK x : x = [r EXCEPT !.interrupted = b]
      OBVIOUS
    <3>1. /\ x \in Rows /\ x.status = r.status /\ x.at = r.at /\ x.ok = r.ok
          /\ x.step = r.step /\ x.conf = r.conf /\ x.snap = r.snap /\ x.kind = r.kind
          /\ x.of = r.of /\ x.version = r.version /\ x.git = r.git
      BY <3>x, SetInterrupted
    <3>2. op' = [op EXCEPT ![o] = x]
      BY <1>r, <3>b, <3>x
    <3> QED BY <3>1, <3>2
  <2> QED BY <2>1, <2>2, <2>3, <2>4
<1>2. PICK x \in Rows :
        /\ op' = [op EXCEPT ![o] = x]
        /\ x.kind = r.kind /\ x.of = r.of /\ x.version = r.version /\ x.git = r.git
        /\ x.ok = r.ok /\ x.step = r.step /\ x.conf = r.conf /\ x.snap = r.snap
        /\ r.status # "none" => x.status # "none"
        /\ r.status # "none" \/ (x.at = r.at /\ x.status = r.status)
           \/ (r.at = "sent" /\ x.status = r.status /\ x.at = "seen")
        /\ \/ x.at = r.at
           \/ r.at = "receipt" /\ x.at = "ended"
           \/ r.at = "away" /\ x.at = "sent"
           \/ r.at = "sent" /\ x.at = "seen"
  BY <1>1
<1>3. op' \in [Ids -> Rows] /\ op'[o] = x /\ \A p \in Ids : p # o => op'[p] = op[p]
  BY <1>t, <1>2
<1>4. Shaped(r)
  BY <1>a, <1>r DEF RowsShaped
<1>5. Shaped(x)
  BY <1>2, <1>4 DEF Shaped, Installing
<1>shaped. RowsShaped'
  BY <1>a, <1>3, <1>5 DEF RowsShaped
<1>idle. IdleUnlessConnected'
  BY <1>u DEF IdleUnlessConnected
<1>once. CredentialsOnce'
  BY <1>a, <1>r, <1>2, <1>3 DEF CredentialsOnce
<1>quiet. \A p \in Ids : Quiet(op[p], op'[p])
  <2>1. Quiet(r, x)
    BY <1>2 DEF Quiet, Idle
  <2>2. \A p \in Ids : Quiet(op[p], op[p])
    BY DEF Quiet
  <2> QED BY <1>r, <1>3, <2>1, <2>2
<1> QED BY <1>t, <1>u, <1>3, <1>shaped, <1>idle, <1>once, <1>quiet, QuietStep

\* An execution that has written nothing ends without a trace.
LEMMA EndKeeps ==
    ASSUME ConfigurationInv, NEW o \in Ids, NEW b \in BOOLEAN, op' = Ended(o, b),
           op[o].at \notin {"away", "receipt", "staging", "switched", "writing", "written"},
           op[o].kind \in {"credentials", "api"} => ~b /\ op[o].at # "ended",
           UNCHANGED <<cp, disk, agent, past>>
    PROVE  ConfigurationInv'
<1>a. Typed /\ RowsShaped /\ IdleUnlessConnected /\ CredentialsOnce
  BY DEF ConfigurationInv
<1>t. op \in [Ids -> Rows] /\ cp' \in Planes /\ past' \in Histories
  BY <1>a DEF Typed
<1>m. Becomes(o, "ended", 0, b, NoConf, NoFiles)
  BY <1>t, EndedAs
<1>s. Shaped(op[o])
  BY <1>a DEF RowsShaped
<1>1. op' \in [Ids -> Rows] /\ \A p \in Ids : p # o => op'[p] = op[p]
  BY <1>m DEF Becomes
<1>2. Shaped(op'[o])
  BY <1>m, <1>s DEF Becomes, Shaped, Installing
<1>shaped. RowsShaped'
  BY <1>a, <1>1, <1>2 DEF RowsShaped
<1>idle. IdleUnlessConnected'
  BY <1>a DEF IdleUnlessConnected
<1>once. CredentialsOnce'
  BY <1>a, <1>m DEF CredentialsOnce, Becomes
<1>quiet. \A p \in Ids : Quiet(op[p], op'[p])
  <2>1. Quiet(op[o], op'[o])
    BY <1>m, <1>s DEF Becomes, Quiet, Idle, Shaped
  <2>2. \A p \in Ids : Quiet(op[p], op[p])
    BY DEF Quiet
  <2> QED BY <1>1, <2>1, <2>2
<1> QED BY <1>t, <1>1, <1>shaped, <1>idle, <1>once, <1>quiet, QuietStep

\* A change of what the control plane knows or wants touches nothing else.
LEMMA PlaneKeeps ==
    ASSUME ConfigurationInv, cp' \in Planes, cp'.profile = cp.profile, cp'.bound = cp.bound,
           past' \in Histories, past'.tries = past.tries, past'.deleted = past.deleted,
           past'.torn = past.torn, UNCHANGED <<op, disk, agent>>
    PROVE  ConfigurationInv'
<1>a. Typed /\ RowsShaped /\ IdleUnlessConnected /\ CredentialsOnce
  BY DEF ConfigurationInv
<1>1. op' \in [Ids -> Rows] /\ RowsShaped' /\ IdleUnlessConnected' /\ CredentialsOnce'
  BY <1>a DEF Typed, RowsShaped, IdleUnlessConnected, CredentialsOnce
<1>2. \A p \in Ids : Quiet(op[p], op'[p])
  BY DEF Quiet
<1> QED BY <1>1, <1>2, QuietStep

\* What updates have written is there as long as the files and their rows are the
\* same.
LEMMA WrittenKept ==
    ASSUME WrittenIsThere, disk'.file = disk.file,
           \A p \in Ids : /\ op'[p].kind = op[p].kind
                          /\ op[p].kind \in {"credentials", "api"} => op'[p] = op[p]
    PROVE  WrittenIsThere'
<1> SUFFICES ASSUME NEW p \in Ids, op'[p].kind \in {"credentials", "api"}
             PROVE  /\ op'[p].at = "writing" => op'[p].step < Len(Paths(p)')
                    /\ op'[p].at = "writing" =>
                         \A i \in 1..op'[p].step :
                            disk'.file[Paths(p)'[i]] = Value(p, Paths(p)[i])'
                    /\ Wrote(p)' => \A i \in 1..Len(Paths(p)') :
                                      disk'.file[Paths(p)'[i]] = Value(p, Paths(p)[i])'
  BY DEF WrittenIsThere
<1>1. op'[p] = op[p] /\ op[p].kind \in {"credentials", "api"}
  OBVIOUS
<1>2. Paths(p)' = Paths(p) /\ (Wrote(p)' <=> Wrote(p))
  BY <1>1 DEF Paths, Wrote
<1>3. \A i : Value(p, Paths(p)[i])' = Value(p, Paths(p)[i])
  BY <1>1 DEF Paths, Value
<1> QED BY <1>1, <1>2, <1>3 DEF WrittenIsThere

-----------------------------------------------------------------------------
(* Installations *)

\* An installation takes the lock.
LEMMA LockKeeps ==
    ASSUME ConfigurationInv, NEW o \in Ids, IsInstall(o), op[o].at = "seen",
           ~InstallLocked, op' = [op EXCEPT ![o].at = "locked"],
           UNCHANGED <<cp, disk, agent, past>>
    PROVE  ConfigurationInv'
<1>a. /\ Typed /\ RowsShaped /\ IdleUnlessConnected /\ UpdateAlone /\ UntriedIsPending
      /\ InstallsInOrder /\ CliAsRecorded /\ ReservedOrRunning /\ TurnKeepsItsConfiguration
      /\ CredentialsOnce /\ WrittenIsThere /\ SecretsFollow /\ ProfilesThere
      /\ BoundUntilWritten /\ KeysUntilWritten
  BY DEF ConfigurationInv
<1>t. /\ op \in [Ids -> Rows] /\ disk \in Disks /\ agent \in Processes /\ cp \in Planes
      /\ past \in Histories
  BY <1>a DEF Typed
<1>s. Shaped(op[o]) /\ agent.phase = "connected"
  BY <1>a DEF RowsShaped, IdleUnlessConnected
<1>m. Becomes(o, "locked", op[o].step, op[o].ok, op[o].conf, op[o].snap)
  BY <1>t, MovedTo DEF Places
<1>n. \A p \in Ids : op[p].at \notin Installing
  BY <1>a DEF InstallLocked, IsInstall, RowsShaped, Shaped
<1>f. IsInstall(o)
  OBVIOUS
<1>typed. Typed'
  BY <1>a, <1>t, <1>s, <1>m DEF Typed, Becomes
<1>shaped. RowsShaped'
  BY <1>a, <1>s, <1>m, <1>f DEF RowsShaped, Shaped, Installing, Becomes, IsInstall
<1>idle. IdleUnlessConnected'
  BY <1>a, <1>s, <1>m DEF IdleUnlessConnected, Becomes
<1>alone. UpdateAlone'
  BY <1>a, <1>s, <1>m DEF UpdateAlone, Becomes
<1>tried. UntriedIsPending'
  BY <1>a, <1>s, <1>m DEF UntriedIsPending, Becomes
<1>installs. InstallsInOrder'
  BY <1>a, <1>s, <1>m, <1>n DEF InstallsInOrder, Installing, Becomes
<1>recorded. CliAsRecorded'
  BY <1>a, <1>s, <1>m DEF CliAsRecorded, Becomes
<1>excluded. ReservedOrRunning'
  BY <1>a, <1>s, <1>m, <1>f DEF ReservedOrRunning, Reconfiguring, IsInstall, Installing, Becomes
<1>kept. TurnKeepsItsConfiguration'
  BY <1>a, <1>s, <1>m DEF TurnKeepsItsConfiguration, Configuration, effectivePath, Becomes
<1>once. CredentialsOnce'
  BY <1>a, <1>s, <1>m DEF CredentialsOnce, Becomes
<1>written. WrittenIsThere'
  <2>1. op[o].kind \notin {"credentials", "api"}
    BY <1>s DEF Shaped, Installing, IsInstall
  <2>2. \A p \in Ids : /\ op'[p].kind = op[p].kind
                       /\ op[p].kind \in {"credentials", "api"} => op'[p] = op[p]
    BY <1>m, <2>1 DEF Becomes
  <2>3. disk'.file = disk.file
    OBVIOUS
  <2> QED BY <1>a, <2>2, <2>3, WrittenKept
<1>secrets. SecretsFollow'
  BY <1>a, <1>s, <1>m DEF SecretsFollow, WritesKey, Becomes
<1>profiles. ProfilesThere'
  BY <1>a, <1>s, <1>m DEF ProfilesThere, Becomes
<1>bound. BoundUntilWritten'
  BY <1>a, <1>s, <1>m DEF BoundUntilWritten, Began, Wrote, CodexBound, GitBound, Becomes
<1>keys. KeysUntilWritten'
  BY <1>a, <1>s, <1>m DEF KeysUntilWritten, Wrote, Becomes
<1> QED BY <1>typed, <1>shaped, <1>idle, <1>alone, <1>tried, <1>installs, <1>recorded,
           <1>excluded, <1>kept, <1>once, <1>written, <1>secrets, <1>profiles, <1>bound, <1>keys
        DEF ConfigurationInv

\* It reserves its command line, which no turn uses.
LEMMA ReserveKeeps ==
    ASSUME ConfigurationInv, NEW o \in Ids, op[o].at = "locked",
           ~Reconfiguring(op[o].of), ~TurnRuns(op[o].of),
           op' = [op EXCEPT ![o].at = "installing", ![o].snap = op[o].snap],
           UNCHANGED <<cp, disk, agent, past>>
    PROVE  ConfigurationInv'
<1>a. /\ Typed /\ RowsShaped /\ IdleUnlessConnected /\ UpdateAlone /\ UntriedIsPending
      /\ InstallsInOrder /\ CliAsRecorded /\ ReservedOrRunning /\ TurnKeepsItsConfiguration
      /\ CredentialsOnce /\ WrittenIsThere /\ SecretsFollow /\ ProfilesThere
      /\ BoundUntilWritten /\ KeysUntilWritten
  BY DEF ConfigurationInv
<1>t. /\ op \in [Ids -> Rows] /\ disk \in Disks /\ agent \in Processes /\ cp \in Planes
      /\ past \in Histories
  BY <1>a DEF Typed
<1>s. Shaped(op[o]) /\ agent.phase = "connected"
  BY <1>a DEF RowsShaped, IdleUnlessConnected
<1>w. op[o].snap \in [Files -> Revision]
  BY <1>t, RowTypes
<1>m. Becomes(o, "installing", op[o].step, op[o].ok, op[o].conf, op[o].snap)
  BY <1>t, <1>w, BegunAt DEF Places
<1>n. \A p \in Ids : op[p].at = "running" => op[p].of # op[o].of
  BY <1>a DEF TurnRuns, RowsShaped, Shaped
<1>typed. Typed'
  BY <1>a, <1>t, <1>s, <1>m DEF Typed, Becomes
<1>shaped. RowsShaped'
  BY <1>a, <1>s, <1>m DEF RowsShaped, Shaped, Installing, Becomes
<1>idle. IdleUnlessConnected'
  BY <1>a, <1>s, <1>m DEF IdleUnlessConnected, Becomes
<1>alone. UpdateAlone'
  BY <1>a, <1>s, <1>m DEF UpdateAlone, Becomes
<1>tried. UntriedIsPending'
  BY <1>a, <1>s, <1>m DEF UntriedIsPending, Becomes
<1>installs. InstallsInOrder'
  BY <1>a, <1>s, <1>m DEF InstallsInOrder, Installing, Becomes
<1>recorded. CliAsRecorded'
  BY <1>a, <1>s, <1>m DEF CliAsRecorded, Becomes
<1>excluded. ReservedOrRunning'
  BY <1>a, <1>s, <1>m, <1>n DEF ReservedOrRunning, Reconfiguring, IsInstall, Installing, Becomes
<1>kept. TurnKeepsItsConfiguration'
  BY <1>a, <1>s, <1>m DEF TurnKeepsItsConfiguration, Configuration, effectivePath, Becomes
<1>once. CredentialsOnce'
  BY <1>a, <1>s, <1>m DEF CredentialsOnce, Becomes
<1>written. WrittenIsThere'
  <2>1. op[o].kind \notin {"credentials", "api"}
    BY <1>s DEF Shaped, Installing, IsInstall
  <2>2. \A p \in Ids : /\ op'[p].kind = op[p].kind
                       /\ op[p].kind \in {"credentials", "api"} => op'[p] = op[p]
    BY <1>m, <2>1 DEF Becomes
  <2>3. disk'.file = disk.file
    OBVIOUS
  <2> QED BY <1>a, <2>2, <2>3, WrittenKept
<1>secrets. SecretsFollow'
  BY <1>a, <1>s, <1>m DEF SecretsFollow, WritesKey, Becomes
<1>profiles. ProfilesThere'
  BY <1>a, <1>s, <1>m DEF ProfilesThere, Becomes
<1>bound. BoundUntilWritten'
  BY <1>a, <1>s, <1>m DEF BoundUntilWritten, Began, Wrote, CodexBound, GitBound, Becomes
<1>keys. KeysUntilWritten'
  BY <1>a, <1>s, <1>m DEF KeysUntilWritten, Wrote, Becomes
<1> QED BY <1>typed, <1>shaped, <1>idle, <1>alone, <1>tried, <1>installs, <1>recorded,
           <1>excluded, <1>kept, <1>once, <1>written, <1>secrets, <1>profiles, <1>bound, <1>keys
        DEF ConfigurationInv

\* A version is installed.
LEMMA InstallKeeps ==
    ASSUME ConfigurationInv, NEW o \in Ids, op[o].at = "installing",
           disk' = [disk EXCEPT !.installed[op[o].of] = @ \cup {op[o].version}],
           op' = [op EXCEPT ![o].at = "switching"], UNCHANGED <<cp, agent, past>>
    PROVE  ConfigurationInv'
<1>a. /\ Typed /\ RowsShaped /\ IdleUnlessConnected /\ UpdateAlone /\ UntriedIsPending
      /\ InstallsInOrder /\ CliAsRecorded /\ ReservedOrRunning /\ TurnKeepsItsConfiguration
      /\ CredentialsOnce /\ WrittenIsThere /\ SecretsFollow /\ ProfilesThere
      /\ BoundUntilWritten /\ KeysUntilWritten
  BY DEF ConfigurationInv
<1>t. /\ op \in [Ids -> Rows] /\ disk \in Disks /\ agent \in Processes /\ cp \in Planes
      /\ past \in Histories
  BY <1>a DEF Typed
<1>s. Shaped(op[o]) /\ agent.phase = "connected"
  BY <1>a DEF RowsShaped, IdleUnlessConnected
<1>m. Becomes(o, "switching", op[o].step, op[o].ok, op[o].conf, op[o].snap)
  BY <1>t, MovedTo DEF Places
<1>v. op[o].of \in Clis /\ op[o].version \in Version
  BY <1>s DEF Shaped, Installing
<1>d. /\ disk' \in Disks /\ disk'.current = disk.current /\ disk'.file = disk.file
      /\ disk'.manifest = disk.manifest
      /\ op[o].version \in disk'.installed[op[o].of]
      /\ \A k \in Clis : disk.installed[k] \subseteq disk'.installed[k]
  BY <1>t, <1>v DEF Disks
<1>typed. Typed'
  BY <1>a, <1>t, <1>s, <1>m, <1>v, <1>d DEF Typed, Becomes
<1>shaped. RowsShaped'
  BY <1>a, <1>s, <1>m, <1>d DEF RowsShaped, Shaped, Installing, Becomes
<1>idle. IdleUnlessConnected'
  BY <1>a, <1>s, <1>m, <1>d DEF IdleUnlessConnected, Becomes
<1>alone. UpdateAlone'
  BY <1>a, <1>s, <1>m, <1>d DEF UpdateAlone, Becomes
<1>tried. UntriedIsPending'
  BY <1>a, <1>s, <1>m, <1>d DEF UntriedIsPending, Becomes
<1>installs. InstallsInOrder'
  BY <1>a, <1>s, <1>m, <1>d DEF InstallsInOrder, Installing, Becomes
<1>recorded. CliAsRecorded'
  BY <1>a, <1>s, <1>m, <1>d DEF CliAsRecorded, Becomes
<1>excluded. ReservedOrRunning'
  BY <1>a, <1>s, <1>m, <1>d DEF ReservedOrRunning, Reconfiguring, IsInstall, Installing, Becomes
<1>kept. TurnKeepsItsConfiguration'
  <2>1. ASSUME NEW p \in Ids, op'[p].kind = "turn", op'[p].at = "running"
        PROVE  /\ op'[p].conf = Configuration(op[p].of)'
               /\ op'[p].of # "claude" => disk'.current[op'[p].of] = op'[p].conf.cli
               /\ op'[p].of = "codex" => disk'.file["key"] = op'[p].conf.secret
    <3>1. p # o /\ op'[p] = op[p]
      BY <2>1, <1>m DEF Becomes
    <3>2. /\ op[p].conf = Configuration(op[p].of)
          /\ op[p].of # "claude" => disk.current[op[p].of] = op[p].conf.cli
          /\ op[p].of = "codex" => disk.file["key"] = op[p].conf.secret
          /\ op[p].of \in Clis /\ ~Reconfiguring(op[p].of)
      BY <1>a, <2>1, <3>1 DEF TurnKeepsItsConfiguration, ReservedOrRunning, RowsShaped, Shaped
    <3>4. /\ Configuration(op[p].of)' = Configuration(op[p].of)
          /\ op[p].of # "claude" => disk'.current[op[p].of] = disk.current[op[p].of]
          /\ op[p].of = "codex" => disk'.file["key"] = disk.file["key"]
      BY <1>a, <1>d, <3>1, <3>2 DEF Configuration, effectivePath, CliAsRecorded
    <3> QED BY <3>1, <3>2, <3>4
  <2> QED BY <2>1 DEF TurnKeepsItsConfiguration
<1>once. CredentialsOnce'
  BY <1>a, <1>s, <1>m, <1>d DEF CredentialsOnce, Becomes
<1>written. WrittenIsThere'
  <2>1. op[o].kind \notin {"credentials", "api"}
    BY <1>s DEF Shaped, Installing, IsInstall
  <2>2. \A p \in Ids : /\ op'[p].kind = op[p].kind
                       /\ op[p].kind \in {"credentials", "api"} => op'[p] = op[p]
    BY <1>m, <2>1 DEF Becomes
  <2>3. disk'.file = disk.file
    BY <1>d
  <2> QED BY <1>a, <2>2, <2>3, WrittenKept
<1>secrets. SecretsFollow'
  BY <1>a, <1>s, <1>m, <1>d DEF SecretsFollow, WritesKey, Becomes
<1>profiles. ProfilesThere'
  BY <1>a, <1>s, <1>m, <1>d DEF ProfilesThere, Becomes
<1>bound. BoundUntilWritten'
  BY <1>a, <1>s, <1>m, <1>d DEF BoundUntilWritten, Began, Wrote, CodexBound, GitBound, Becomes
<1>keys. KeysUntilWritten'
  BY <1>a, <1>s, <1>m, <1>d DEF KeysUntilWritten, Wrote, Becomes
<1> QED BY <1>typed, <1>shaped, <1>idle, <1>alone, <1>tried, <1>installs, <1>recorded,
           <1>excluded, <1>kept, <1>once, <1>written, <1>secrets, <1>profiles, <1>bound, <1>keys
        DEF ConfigurationInv

\* The file that names the current version is replaced.
LEMMA SwitchKeeps ==
    ASSUME ConfigurationInv, NEW o \in Ids, writeManagedCLIVersion(o)
    PROVE  ConfigurationInv'
<1>a. /\ Typed /\ RowsShaped /\ IdleUnlessConnected /\ UpdateAlone /\ UntriedIsPending
      /\ InstallsInOrder /\ CliAsRecorded /\ ReservedOrRunning /\ TurnKeepsItsConfiguration
      /\ CredentialsOnce /\ WrittenIsThere /\ SecretsFollow /\ ProfilesThere
      /\ BoundUntilWritten /\ KeysUntilWritten
  BY DEF ConfigurationInv
<1>t. /\ op \in [Ids -> Rows] /\ disk \in Disks /\ agent \in Processes /\ cp \in Planes
      /\ past \in Histories
  BY <1>a DEF Typed
<1>g. op[o].at = "switching" /\ UNCHANGED <<cp, agent, past>>
  BY DEF writeManagedCLIVersion
<1>s. Shaped(op[o]) /\ agent.phase = "connected"
  BY <1>a, <1>g DEF RowsShaped, IdleUnlessConnected
<1>m. Becomes(o, "switched", op[o].step, op[o].ok, op[o].conf, op[o].snap)
  BY <1>t, MovedTo DEF Places, writeManagedCLIVersion
<1>v. op[o].of \in Clis /\ op[o].version \in Version
  BY <1>g, <1>s DEF Shaped, Installing
<1>d. /\ disk' \in Disks /\ disk'.installed = disk.installed /\ disk'.file = disk.file
      /\ disk'.manifest = disk.manifest
      /\ \A k \in Clis : disk'.current[k] = IF k = op[o].of THEN op[o].version ELSE disk.current[k]
  BY <1>t, <1>v DEF Disks, writeManagedCLIVersion
<1>typed. Typed'
  BY <1>a, <1>t, <1>g, <1>s, <1>m, <1>v, <1>d DEF Typed, Becomes
<1>shaped. RowsShaped'
  BY <1>a, <1>g, <1>s, <1>m, <1>d DEF RowsShaped, Shaped, Installing, Becomes
<1>idle. IdleUnlessConnected'
  BY <1>a, <1>g, <1>s, <1>m, <1>d DEF IdleUnlessConnected, Becomes
<1>alone. UpdateAlone'
  BY <1>a, <1>g, <1>s, <1>m, <1>d DEF UpdateAlone, Becomes
<1>tried. UntriedIsPending'
  BY <1>a, <1>g, <1>s, <1>m, <1>d DEF UntriedIsPending, Becomes
<1>installs. InstallsInOrder'
  <2>1. \A p \in Ids : p # o => op'[p] = op[p] /\ op[p].at \notin Installing
    BY <1>a, <1>g, <1>m DEF InstallsInOrder, Becomes, Installing
  <2>2. /\ op'[o].at = "switched" /\ op'[o].of = op[o].of /\ op'[o].version = op[o].version
        /\ disk'.current[op[o].of] = op[o].version
    BY <1>m, <1>d, <1>v DEF Becomes
  <2> QED BY <2>1, <2>2 DEF InstallsInOrder, Installing
<1>recorded. CliAsRecorded'
  <2>1. \A k \in Clis : disk'.current[k] \in disk'.installed[k]
    BY <1>a, <1>g, <1>v, <1>d DEF CliAsRecorded, InstallsInOrder
  <2>2. ASSUME NEW k \in {"codex", "gemini"}
        PROVE  \/ agent'.command[k] = disk'.current[k]
               \/ \E p \in Ids : op'[p].of = k /\ op'[p].at = "switched"
    <3>1. CASE k = op[o].of
      BY <1>m, <3>1 DEF Becomes
    <3>2. CASE k # op[o].of
      <4>1. k \in Clis
        BY DEF Clis
      <4>2. \/ agent.command[k] = disk.current[k]
            \/ \E p \in Ids : op[p].of = k /\ op[p].at = "switched"
        BY <1>a, <1>s DEF CliAsRecorded
      <4> QED BY <1>g, <1>m, <1>d, <3>2, <4>1, <4>2 DEF Becomes
    <3> QED BY <3>1, <3>2
  <2> QED BY <2>1, <2>2 DEF CliAsRecorded
<1>excluded. ReservedOrRunning'
  BY <1>a, <1>g, <1>s, <1>m, <1>d
     DEF ReservedOrRunning, Reconfiguring, IsInstall, Installing, Becomes
<1>kept. TurnKeepsItsConfiguration'
  <2>1. ASSUME NEW p \in Ids, op'[p].kind = "turn", op'[p].at = "running"
        PROVE  /\ op'[p].conf = Configuration(op[p].of)'
               /\ op'[p].of # "claude" => disk'.current[op'[p].of] = op'[p].conf.cli
               /\ op'[p].of = "codex" => disk'.file["key"] = op'[p].conf.secret
    <3>1. p # o /\ op'[p] = op[p]
      BY <2>1, <1>m, <1>g DEF Becomes
    <3>2. /\ op[p].conf = Configuration(op[p].of)
          /\ op[p].of # "claude" => disk.current[op[p].of] = op[p].conf.cli
          /\ op[p].of = "codex" => disk.file["key"] = op[p].conf.secret
          /\ op[p].of \in Clis /\ ~Reconfiguring(op[p].of)
      BY <1>a, <2>1, <3>1 DEF TurnKeepsItsConfiguration, ReservedOrRunning, RowsShaped, Shaped
    <3>3. op[p].of # op[o].of
      BY <3>2, <1>s, <1>g DEF Reconfiguring, IsInstall, Shaped, Installing
    <3>4. /\ Configuration(op[p].of)' = Configuration(op[p].of)
          /\ op[p].of # "claude" => disk'.current[op[p].of] = disk.current[op[p].of]
          /\ op[p].of = "codex" => disk'.file["key"] = disk.file["key"]
      BY <1>g, <1>d, <3>1, <3>2, <3>3 DEF Configuration, effectivePath
    <3> QED BY <3>1, <3>2, <3>4
  <2> QED BY <2>1 DEF TurnKeepsItsConfiguration
<1>once. CredentialsOnce'
  BY <1>a, <1>g, <1>s, <1>m, <1>d DEF CredentialsOnce, Becomes
<1>written. WrittenIsThere'
  <2>1. op[o].kind \notin {"credentials", "api"}
    BY <1>g, <1>s DEF Shaped, Installing, IsInstall
  <2>2. \A p \in Ids : /\ op'[p].kind = op[p].kind
                       /\ op[p].kind \in {"credentials", "api"} => op'[p] = op[p]
    BY <1>m, <2>1 DEF Becomes
  <2>3. disk'.file = disk.file
    BY <1>g, <1>d
  <2> QED BY <1>a, <2>2, <2>3, WrittenKept
<1>secrets. SecretsFollow'
  BY <1>a, <1>g, <1>s, <1>m, <1>d DEF SecretsFollow, WritesKey, Becomes
<1>profiles. ProfilesThere'
  BY <1>a, <1>g, <1>s, <1>m, <1>d DEF ProfilesThere, Becomes
<1>bound. BoundUntilWritten'
  BY <1>a, <1>g, <1>s, <1>m, <1>d
     DEF BoundUntilWritten, Began, Wrote, CodexBound, GitBound, Becomes
<1>keys. KeysUntilWritten'
  BY <1>a, <1>g, <1>s, <1>m, <1>d DEF KeysUntilWritten, Wrote, Becomes
<1> QED BY <1>typed, <1>shaped, <1>idle, <1>alone, <1>tried, <1>installs, <1>recorded,
           <1>excluded, <1>kept, <1>once, <1>written, <1>secrets, <1>profiles, <1>bound, <1>keys
        DEF ConfigurationInv

\* The Agent uses the version from now on.
LEMMA CommandKeeps ==
    ASSUME ConfigurationInv, NEW o \in Ids, setCommand(o)
    PROVE  ConfigurationInv'
<1>a. /\ Typed /\ RowsShaped /\ IdleUnlessConnected /\ UpdateAlone /\ UntriedIsPending
      /\ InstallsInOrder /\ CliAsRecorded /\ ReservedOrRunning /\ TurnKeepsItsConfiguration
      /\ CredentialsOnce /\ WrittenIsThere /\ SecretsFollow /\ ProfilesThere
      /\ BoundUntilWritten /\ KeysUntilWritten
  BY DEF ConfigurationInv
<1>t. /\ op \in [Ids -> Rows] /\ disk \in Disks /\ agent \in Processes /\ cp \in Planes
      /\ past \in Histories
  BY <1>a DEF Typed
<1>g. op[o].at = "switched" /\ UNCHANGED <<cp, disk, past>>
  BY DEF setCommand
<1>s. Shaped(op[o]) /\ agent.phase = "connected"
  BY <1>a, <1>g DEF RowsShaped, IdleUnlessConnected
<1>m. Becomes(o, "ended", 0, TRUE, NoConf, NoFiles)
  BY <1>t, EndedAs DEF setCommand
<1>v. op[o].of \in Clis /\ op[o].version \in Version
  BY <1>g, <1>s DEF Shaped, Installing
<1>d. /\ agent' \in Processes /\ agent'.phase = agent.phase /\ agent'.pending = agent.pending
      /\ agent'.restart = agent.restart /\ agent'.secret = agent.secret
      /\ \A k \in {"codex", "gemini"} :
           agent'.command[k] = IF k = op[o].of THEN op[o].version ELSE agent.command[k]
  BY <1>t, <1>v DEF Processes, Clis, setCommand
<1>k. op[o].kind \notin {"credentials", "api"}
  BY <1>g, <1>s DEF Shaped, Installing
<1>typed. Typed'
  BY <1>a, <1>t, <1>g, <1>s, <1>m, <1>v, <1>d DEF Typed, Becomes
<1>shaped. RowsShaped'
  BY <1>a, <1>g, <1>s, <1>m, <1>d DEF RowsShaped, Shaped, Installing, Becomes
<1>idle. IdleUnlessConnected'
  BY <1>a, <1>g, <1>s, <1>m, <1>d DEF IdleUnlessConnected, Becomes
<1>alone. UpdateAlone'
  BY <1>a, <1>g, <1>s, <1>m, <1>d DEF UpdateAlone, Becomes
<1>tried. UntriedIsPending'
  BY <1>a, <1>g, <1>s, <1>m, <1>d DEF UntriedIsPending, Becomes
<1>installs. InstallsInOrder'
  BY <1>a, <1>g, <1>s, <1>m, <1>d DEF InstallsInOrder, Installing, Becomes
<1>recorded. CliAsRecorded'
  <2>1. \A k \in Clis : disk'.current[k] \in disk'.installed[k]
    BY <1>a, <1>g DEF CliAsRecorded
  <2>2. ASSUME NEW k \in {"codex", "gemini"}
        PROVE  \/ agent'.command[k] = disk'.current[k]
               \/ \E p \in Ids : op'[p].of = k /\ op'[p].at = "switched"
    <3>1. CASE k = op[o].of
      BY <1>a, <1>g, <1>d, <3>1 DEF InstallsInOrder
    <3>2. CASE k # op[o].of
      <4>1. \/ agent.command[k] = disk.current[k]
            \/ \E p \in Ids : op[p].of = k /\ op[p].at = "switched"
        BY <1>a, <1>s DEF CliAsRecorded
      <4> QED BY <1>g, <1>m, <1>d, <3>2, <4>1 DEF Becomes
    <3> QED BY <3>1, <3>2
  <2> QED BY <2>1, <2>2 DEF CliAsRecorded
<1>excluded. ReservedOrRunning'
  BY <1>a, <1>g, <1>s, <1>m, <1>d
     DEF ReservedOrRunning, Reconfiguring, IsInstall, Installing, Becomes
<1>kept. TurnKeepsItsConfiguration'
  <2>1. ASSUME NEW p \in Ids, op'[p].kind = "turn", op'[p].at = "running"
        PROVE  /\ op'[p].conf = Configuration(op[p].of)'
               /\ op'[p].of # "claude" => disk'.current[op'[p].of] = op'[p].conf.cli
               /\ op'[p].of = "codex" => disk'.file["key"] = op'[p].conf.secret
    <3>1. p # o /\ op'[p] = op[p]
      BY <2>1, <1>m, <1>g DEF Becomes
    <3>2. /\ op[p].conf = Configuration(op[p].of)
          /\ op[p].of # "claude" => disk.current[op[p].of] = op[p].conf.cli
          /\ op[p].of = "codex" => disk.file["key"] = op[p].conf.secret
          /\ op[p].of \in Clis /\ ~Reconfiguring(op[p].of)
      BY <1>a, <2>1, <3>1 DEF TurnKeepsItsConfiguration, ReservedOrRunning, RowsShaped, Shaped
    <3>3. op[p].of # op[o].of
      BY <3>2, <1>s, <1>g DEF Reconfiguring, IsInstall, Shaped, Installing
    <3>4. /\ Configuration(op[p].of)' = Configuration(op[p].of)
          /\ op[p].of # "claude" => disk'.current[op[p].of] = disk.current[op[p].of]
          /\ op[p].of = "codex" => disk'.file["key"] = disk.file["key"]
      BY <1>g, <1>d, <3>1, <3>2, <3>3 DEF Configuration, effectivePath, Clis
    <3> QED BY <3>1, <3>2, <3>4
  <2> QED BY <2>1 DEF TurnKeepsItsConfiguration
<1>once. CredentialsOnce'
  BY <1>a, <1>g, <1>s, <1>m, <1>d DEF CredentialsOnce, Becomes
<1>written. WrittenIsThere'
  <2>1. op[o].kind \notin {"credentials", "api"}
    BY <1>g, <1>s DEF Shaped, Installing, IsInstall
  <2>2. \A p \in Ids : /\ op'[p].kind = op[p].kind
                       /\ op[p].kind \in {"credentials", "api"} => op'[p] = op[p]
    BY <1>m, <2>1 DEF Becomes
  <2>3. disk'.file = disk.file
    BY <1>g, <1>d
  <2> QED BY <1>a, <2>2, <2>3, WrittenKept
<1>secrets. SecretsFollow'
  BY <1>a, <1>g, <1>s, <1>m, <1>d DEF SecretsFollow, WritesKey, Becomes
<1>profiles. ProfilesThere'
  BY <1>a, <1>g, <1>s, <1>m, <1>d DEF ProfilesThere, Becomes
<1>bound. BoundUntilWritten'
  BY <1>a, <1>g, <1>s, <1>m, <1>d
     DEF BoundUntilWritten, Began, Wrote, CodexBound, GitBound, Becomes
<1>keys. KeysUntilWritten'
  BY <1>a, <1>g, <1>s, <1>m, <1>d DEF KeysUntilWritten, Wrote, Becomes
<1> QED BY <1>typed, <1>shaped, <1>idle, <1>alone, <1>tried, <1>installs, <1>recorded,
           <1>excluded, <1>kept, <1>once, <1>written, <1>secrets, <1>profiles, <1>bound, <1>keys
        DEF ConfigurationInv

-----------------------------------------------------------------------------
(* Credentials *)

IsCredentials(o) == op[o].kind \in {"credentials", "api"}

\* The files of an update, in their order.
LEMMA PathsOf ==
    ASSUME NEW o \in Ids, Shaped(op[o]), IsCredentials(o)
    PROVE  /\ Len(Paths(o)) \in {1, 2, 4} /\ DOMAIN Paths(o) = 1..Len(Paths(o))
           /\ op[o].kind = "api" => /\ op[o].of \in {"gemini", "claude"}
                                    /\ Len(Paths(o)) = 1 /\ Paths(o)[1] = op[o].of
           /\ op[o].kind = "credentials" => op[o].of \in Scopes
           /\ op[o].kind = "credentials" /\ op[o].of = "codex" =>
                /\ Len(Paths(o)) = 2 /\ Paths(o)[1] = "key" /\ Paths(o)[2] = "config"
           /\ op[o].kind = "credentials" /\ op[o].of = "git" =>
                /\ Len(Paths(o)) = 2 /\ Paths(o)[1] = "credentials" /\ Paths(o)[2] = "gitconfig"
           /\ op[o].kind = "credentials" /\ op[o].of = "both" =>
                /\ Len(Paths(o)) = 4 /\ Paths(o)[1] = "key" /\ Paths(o)[2] = "config"
                /\ Paths(o)[3] = "credentials" /\ Paths(o)[4] = "gitconfig"
<1>1. CASE op[o].kind = "api"
  <2>1. op[o].of \in {"gemini", "claude"}
    BY <1>1 DEF Shaped
  <2>2. Paths(o) = <<op[o].of>>
    BY <1>1, <2>1 DEF Paths
  <2> QED BY <1>1, <2>1, <2>2
<1>2. CASE op[o].kind = "credentials"
  <2>0. op[o].of \in {"both", "codex", "git"}
    BY <1>2 DEF Shaped, Scopes
  <2>1. CASE op[o].of = "codex"
    BY <1>2, <2>1 DEF Paths, CodexFiles, Scopes
  <2>2. CASE op[o].of = "git"
    BY <1>2, <2>2 DEF Paths, GitFiles, Scopes
  <2>3. CASE op[o].of = "both"
    BY <1>2, <2>3 DEF Paths, Scopes
  <2> QED BY <2>0, <2>1, <2>2, <2>3
<1> QED BY <1>1, <1>2 DEF IsCredentials

\* Where they are.
LEMMA PathIsFile ==
    ASSUME NEW o \in Ids, Shaped(op[o]), IsCredentials(o), NEW i \in 1..Len(Paths(o))
    PROVE  /\ Paths(o)[i] \in Files
           /\ op[o].kind = "api" => Paths(o)[i] = op[o].of
           /\ op[o].kind = "credentials" =>
                /\ Paths(o)[i] \in {"key", "config", "credentials", "gitconfig"}
                /\ op[o].of = "codex" => Paths(o)[i] \in {"key", "config"}
                /\ op[o].of = "git" => Paths(o)[i] \in {"credentials", "gitconfig"}
<1>0. Len(Paths(o)) \in {1, 2, 4}
  BY PathsOf
<1>1. i \in {1, 2, 3, 4} /\ i <= Len(Paths(o))
  BY <1>0
<1>2. CASE op[o].kind = "api"
  BY <1>1, <1>2, PathsOf DEF Files
<1>3. CASE op[o].kind = "credentials"
  BY <1>0, <1>1, <1>3, PathsOf DEF Files, Scopes
<1> QED BY <1>2, <1>3 DEF IsCredentials

\* Two updates at a time write different files.
LEMMA PathsApart ==
    ASSUME CredentialsOnce, RowsShaped, NEW o \in Ids, NEW p \in Ids, o # p,
           IsCredentials(o), IsCredentials(p),
           NEW i \in 1..Len(Paths(o)), NEW j \in 1..Len(Paths(p))
    PROVE  Paths(o)[i] # Paths(p)[j]
<1>1. Shaped(op[o]) /\ Shaped(op[p])
  BY DEF RowsShaped
<1>2. /\ op[o].kind = "api" => Paths(o)[i] = op[o].of /\ op[o].of \in {"gemini", "claude"}
      /\ op[o].kind = "credentials" =>
           Paths(o)[i] \in {"key", "config", "credentials", "gitconfig"}
  BY <1>1, PathIsFile, PathsOf
<1>3. /\ op[p].kind = "api" => Paths(p)[j] = op[p].of /\ op[p].of \in {"gemini", "claude"}
      /\ op[p].kind = "credentials" =>
           Paths(p)[j] \in {"key", "config", "credentials", "gitconfig"}
  BY <1>1, PathIsFile, PathsOf
<1> QED BY <1>2, <1>3 DEF CredentialsOnce, IsCredentials

\* What an update writes are revisions.
LEMMA ValueIsRevision ==
    ASSUME NEW o \in Ids, Shaped(op[o]), IsCredentials(o), NEW i \in 1..Len(Paths(o))
    PROVE  Value(o, Paths(o)[i]) \in Revision
<1>1. CASE op[o].kind = "api"
  <2>1. Paths(o)[i] \in {"gemini", "claude"}
    BY <1>1, PathIsFile, PathsOf
  <2> QED BY <1>1, <2>1 DEF Value, Shaped
<1>2. CASE op[o].kind = "credentials"
  BY <1>2 DEF Value, Shaped
<1> QED BY <1>1, <1>2 DEF IsCredentials

\* What the files of an update are once it has written them.
LEMMA WrittenFiles ==
    ASSUME WrittenIsThere, RowsShaped, NEW o \in Ids, IsCredentials(o), Wrote(o)
    PROVE  /\ op[o].kind = "api" => disk.file[op[o].of] = op[o].version
           /\ op[o].kind = "credentials" /\ op[o].of # "git" =>
                disk.file["key"] = op[o].version /\ disk.file["config"] = op[o].version
           /\ op[o].kind = "credentials" /\ op[o].of # "codex" =>
                disk.file["credentials"] = op[o].git /\ disk.file["gitconfig"] = op[o].git
<1>0. Shaped(op[o])
  BY DEF RowsShaped
<1>1. \A i \in 1..Len(Paths(o)) : disk.file[Paths(o)[i]] = Value(o, Paths(o)[i])
  BY DEF WrittenIsThere, IsCredentials
<1>2. CASE op[o].kind = "api"
  BY <1>0, <1>1, <1>2, PathsOf DEF Value
<1>3. CASE op[o].kind = "credentials" /\ op[o].of = "codex"
  <2>1. /\ 1 \in 1..Len(Paths(o)) /\ 2 \in 1..Len(Paths(o))
        /\ Paths(o)[1] = "key" /\ Paths(o)[2] = "config"
    BY <1>0, <1>3, PathsOf
  <2> QED BY <1>1, <1>3, <2>1 DEF Value
<1>4. CASE op[o].kind = "credentials" /\ op[o].of = "git"
  <2>1. /\ 1 \in 1..Len(Paths(o)) /\ 2 \in 1..Len(Paths(o))
        /\ Paths(o)[1] = "credentials" /\ Paths(o)[2] = "gitconfig"
    BY <1>0, <1>4, PathsOf
  <2> QED BY <1>1, <1>4, <2>1 DEF Value
<1>5. CASE op[o].kind = "credentials" /\ op[o].of = "both"
  <2>1. /\ 1 \in 1..Len(Paths(o)) /\ 2 \in 1..Len(Paths(o))
        /\ 3 \in 1..Len(Paths(o)) /\ 4 \in 1..Len(Paths(o))
        /\ Paths(o)[1] = "key" /\ Paths(o)[2] = "config"
        /\ Paths(o)[3] = "credentials" /\ Paths(o)[4] = "gitconfig"
    BY <1>0, <1>5, PathsOf
  <2> QED BY <1>1, <1>5, <2>1 DEF Value
<1> QED BY <1>0, <1>2, <1>3, <1>4, <1>5, PathsOf DEF IsCredentials, Scopes

\* An update of credentials begins: its files are kept, and no turn that uses them runs.
LEMMA BeginKeeps ==
    ASSUME ConfigurationInv, NEW o \in Ids, IsCredentials(o), op[o].at = "seen",
           op[o].kind = "api" => ~Reconfiguring(op[o].of) /\ ~TurnRuns(op[o].of),
           op[o].kind = "credentials" /\ op[o].of # "git" =>
             ~Reconfiguring("codex") /\ ~TurnRuns("codex"),
           op' = [op EXCEPT ![o].at = "writing", ![o].snap = snapshotCredentialFiles(o)],
           UNCHANGED <<cp, disk, agent, past>>
    PROVE  ConfigurationInv'
<1>a. /\ Typed /\ RowsShaped /\ IdleUnlessConnected /\ UpdateAlone /\ UntriedIsPending
      /\ InstallsInOrder /\ CliAsRecorded /\ ReservedOrRunning /\ TurnKeepsItsConfiguration
      /\ CredentialsOnce /\ WrittenIsThere /\ SecretsFollow /\ ProfilesThere
      /\ BoundUntilWritten /\ KeysUntilWritten
  BY DEF ConfigurationInv
<1>t. /\ op \in [Ids -> Rows] /\ disk \in Disks /\ agent \in Processes /\ cp \in Planes
      /\ past \in Histories
  BY <1>a DEF Typed
<1>s. Shaped(op[o]) /\ agent.phase = "connected"
  BY <1>a DEF RowsShaped, IdleUnlessConnected
<1>f. /\ snapshotCredentialFiles(o) \in [Files -> Revision]
      /\ \A f \in Files : (\E i \in DOMAIN Paths(o) : Paths(o)[i] = f) =>
           snapshotCredentialFiles(o)[f] = disk.file[f]
  <2>1. disk.file \in [Files -> Revision] /\ 0 \in Revision
    BY <1>t, ConfigurationAssumption DEF Disks, Revision
  <2> QED BY <2>1 DEF snapshotCredentialFiles
<1>m. Becomes(o, "writing", op[o].step, op[o].ok, op[o].conf, snapshotCredentialFiles(o))
  BY <1>t, <1>f, BegunAt DEF Places
<1>p. 1 \in DOMAIN Paths(o) /\ Len(Paths(o)) > 0
  <2>1. Len(Paths(o)) \in {1, 2, 4}
    BY <1>s, PathsOf
  <2>2. DOMAIN Paths(o) = 1..Len(Paths(o))
    BY <1>s, PathsOf
  <2> QED BY <2>1, <2>2
<1>x. /\ op[o].kind = "api" => snapshotCredentialFiles(o)[op[o].of] = disk.file[op[o].of]
      /\ op[o].kind = "credentials" /\ op[o].of # "git" =>
           /\ snapshotCredentialFiles(o)["key"] = disk.file["key"]
           /\ snapshotCredentialFiles(o)["config"] = disk.file["config"]
      /\ op[o].kind = "credentials" /\ op[o].of # "codex" =>
           /\ snapshotCredentialFiles(o)["credentials"] = disk.file["credentials"]
           /\ snapshotCredentialFiles(o)["gitconfig"] = disk.file["gitconfig"]
  <2>1. DOMAIN Paths(o) = 1..Len(Paths(o))
    BY <1>s, PathsOf
  <2>2. Len(Paths(o)) = 4 => {1, 2, 3, 4} \subseteq 1..Len(Paths(o))
    OBVIOUS
  <2>3. Len(Paths(o)) = 2 => {1, 2} \subseteq 1..Len(Paths(o))
    OBVIOUS
  <2>4. Len(Paths(o)) = 1 => 1 \in 1..Len(Paths(o))
    OBVIOUS
  <2>5. CASE op[o].kind = "api"
    BY <1>s, <1>f, <2>1, <2>4, <2>5, PathsOf DEF Files
  <2>6. CASE op[o].kind = "credentials"
    <3>1. CASE op[o].of = "codex"
      BY <1>s, <1>f, <2>1, <2>3, <2>6, <3>1, PathsOf DEF Files
    <3>2. CASE op[o].of = "git"
      BY <1>s, <1>f, <2>1, <2>3, <2>6, <3>2, PathsOf DEF Files
    <3>3. CASE op[o].of = "both"
      BY <1>s, <1>f, <2>1, <2>2, <2>6, <3>3, PathsOf DEF Files
    <3> QED BY <1>s, <2>6, <3>1, <3>2, <3>3, PathsOf DEF Scopes
  <2> QED BY <2>5, <2>6
<1>n. /\ op[o].kind = "api" => \A p \in Ids : op[p].at = "running" => op[p].of # op[o].of
      /\ op[o].kind = "credentials" /\ op[o].of # "git" =>
           \A p \in Ids : op[p].at = "running" => op[p].of # "codex"
  BY <1>a DEF TurnRuns, RowsShaped, Shaped
<1>k. op[o].kind \in {"credentials", "api"}
  BY DEF IsCredentials
<1>typed. Typed'
  BY <1>a, <1>t, <1>s, <1>m DEF Typed, Becomes
<1>shaped. RowsShaped'
  BY <1>a, <1>s, <1>m, <1>k DEF RowsShaped, Shaped, Installing, Becomes
<1>idle. IdleUnlessConnected'
  BY <1>a, <1>s, <1>m DEF IdleUnlessConnected, Becomes
<1>alone. UpdateAlone'
  BY <1>a, <1>s, <1>m DEF UpdateAlone, Becomes
<1>tried. UntriedIsPending'
  BY <1>a, <1>s, <1>m DEF UntriedIsPending, Becomes
<1>installs. InstallsInOrder'
  BY <1>a, <1>s, <1>m DEF InstallsInOrder, Installing, Becomes
<1>recorded. CliAsRecorded'
  BY <1>a, <1>s, <1>m DEF CliAsRecorded, Becomes
<1>excluded. ReservedOrRunning'
  BY <1>a, <1>s, <1>m, <1>n DEF ReservedOrRunning, Reconfiguring, IsInstall, Installing, Becomes
<1>kept. TurnKeepsItsConfiguration'
  BY <1>a, <1>s, <1>m DEF TurnKeepsItsConfiguration, Configuration, effectivePath, Becomes
<1>once. CredentialsOnce'
  BY <1>a, <1>s, <1>m DEF CredentialsOnce, Becomes
<1>written. WrittenIsThere'
  <2> SUFFICES ASSUME NEW p \in Ids, op'[p].kind \in {"credentials", "api"}
               PROVE  /\ op'[p].at = "writing" => op'[p].step < Len(Paths(p)')
                      /\ op'[p].at = "writing" =>
                           \A i \in 1..op'[p].step :
                              disk'.file[Paths(p)'[i]] = Value(p, Paths(p)[i])'
                      /\ Wrote(p)' => \A i \in 1..Len(Paths(p)') :
                                        disk'.file[Paths(p)'[i]] = Value(p, Paths(p)[i])'
    BY DEF WrittenIsThere
  <2>0. Paths(p)' = Paths(p) /\ \A i : Value(p, Paths(p)[i])' = Value(p, Paths(p)[i])
    BY <1>m DEF Paths, Value, Becomes
  <2>1. CASE p = o
    <3>1. op'[p].step = 0 /\ op'[p].at = "writing"
      BY <1>m, <1>s, <2>1 DEF Becomes, Shaped
    <3>2. Len(Paths(p)') > 0
      BY <1>p, <2>0, <2>1
    <3>3. ~Wrote(p)'
      BY <3>1 DEF Wrote
    <3>4. \A i \in 1..op'[p].step : FALSE
      BY <3>1
    <3> QED BY <3>1, <3>2, <3>3, <3>4
  <2>2. CASE p # o
    BY <1>a, <1>m, <2>0, <2>2 DEF WrittenIsThere, Wrote, Becomes
  <2> QED BY <2>1, <2>2
<1>secrets. SecretsFollow'
  <2>1. op[o].kind = "credentials" => \A p \in Ids : ~WritesKey(p)
    BY <1>a DEF CredentialsOnce, WritesKey
  <2>2. \A p \in Ids : p # o => op'[p] = op[p]
    BY <1>m DEF Becomes
  <2>3. /\ op'[o].kind = op[o].kind /\ op'[o].of = op[o].of
        /\ op'[o].snap = snapshotCredentialFiles(o) /\ op'[o].at = "writing"
    BY <1>m DEF Becomes
  <2>4. agent'.secret = agent.secret /\ agent'.phase = agent.phase /\ disk'.file = disk.file
    OBVIOUS
  <2>5. \/ agent'.secret["codex"] = disk'.file["key"]
        \/ \E p \in Ids : WritesKey(p)'
    BY <1>a, <1>s, <2>1, <2>2, <2>4 DEF SecretsFollow, WritesKey
  <2>6. ASSUME NEW p \in Ids, WritesKey(p)', op'[p].at = "writing"
        PROVE  op'[p].snap["key"] = agent'.secret["codex"]
    <3>1. CASE p = o
      BY <1>a, <1>s, <1>x, <2>1, <2>3, <2>4, <2>6, <3>1 DEF SecretsFollow, WritesKey
    <3>2. CASE p # o
      BY <1>a, <2>2, <2>4, <2>6, <3>2 DEF SecretsFollow, WritesKey
    <3> QED BY <3>1, <3>2
  <2>7. \/ agent'.secret["gemini"] = disk'.file["gemini"]
        \/ \E p \in Ids : op'[p].kind = "api" /\ op'[p].of = "gemini" /\ op'[p].at = "written"
    BY <1>a, <1>s, <2>2, <2>4 DEF SecretsFollow
  <2>8. ASSUME NEW p \in Ids, op'[p].kind = "api", op'[p].at = "writing"
        PROVE  op'[p].snap[op'[p].of] = disk'.file[op'[p].of]
    <3>1. CASE p = o
      BY <1>x, <2>3, <2>4, <2>8, <3>1
    <3>2. CASE p # o
      BY <1>a, <2>2, <2>4, <2>8, <3>2 DEF SecretsFollow
    <3> QED BY <3>1, <3>2
  <2> QED BY <2>5, <2>6, <2>7, <2>8 DEF SecretsFollow
<1>profiles. ProfilesThere'
  BY <1>a, <1>s, <1>m DEF ProfilesThere, Becomes
<1>bound. BoundUntilWritten'
  <2>1. op[o].kind = "credentials" => \A p \in Ids : op[p].kind = "credentials" => ~Began(p)
    BY <1>a, <1>s DEF CredentialsOnce, Began, Wrote, Shaped
  <2>2. \A p \in Ids : p # o => op'[p] = op[p]
    BY <1>m DEF Becomes
  <2>3. /\ op'[o].kind = op[o].kind /\ op'[o].of = op[o].of
        /\ op'[o].snap = snapshotCredentialFiles(o) /\ op'[o].at = "writing"
    BY <1>m DEF Becomes
  <2>4. ~Began(o)
    BY <1>s DEF Began, Wrote, Shaped
  <2>5. "credentials" \notin past.torn /\ op[o].kind = "credentials" =>
          CodexBound(disk.file) /\ GitBound(disk.file)
    BY <1>a, <2>1 DEF BoundUntilWritten
  <2>6. "credentials" \notin past.torn /\ op[o].kind = "credentials" =>
          /\ op[o].of # "git" => CodexBound(snapshotCredentialFiles(o))
          /\ op[o].of # "codex" => GitBound(snapshotCredentialFiles(o))
    BY <1>x, <2>5 DEF CodexBound, GitBound
  <2>7. \A p \in Ids : Began(p) => Began(p)' /\ op'[p].kind = op[p].kind /\ op'[p].of = op[p].of
    BY <2>2, <2>4 DEF Began, Wrote
  <2>8. \A p \in Ids : p # o =>
          /\ CodexBound(op[p].snap)' <=> CodexBound(op[p].snap)
          /\ GitBound(op[p].snap)' <=> GitBound(op[p].snap)
    BY <2>2 DEF CodexBound, GitBound
  <2>9. ASSUME "credentials" \notin past.torn
        PROVE  /\ \/ CodexBound(disk.file)'
                  \/ \E p \in Ids : op'[p].kind = "credentials" /\ op'[p].of # "git" /\ Began(p)'
               /\ \/ GitBound(disk.file)'
                  \/ \E p \in Ids : op'[p].kind = "credentials" /\ op'[p].of # "codex" /\ Began(p)'
    <3>1. (CodexBound(disk.file)' <=> CodexBound(disk.file)) /\ (GitBound(disk.file)' <=> GitBound(disk.file))
      BY DEF CodexBound, GitBound
    <3> QED BY <1>a, <2>7, <2>9, <3>1 DEF BoundUntilWritten
  <2>10. ASSUME "credentials" \notin past.torn, NEW p \in Ids, op'[p].kind = "credentials",
                op'[p].at = "writing"
         PROVE  /\ op'[p].of # "git" => CodexBound(op[p].snap)'
                /\ op'[p].of # "codex" => GitBound(op[p].snap)'
    <3>1. CASE p = o
      <4>1. /\ op[o].of # "git" => CodexBound(snapshotCredentialFiles(o))
            /\ op[o].of # "codex" => GitBound(snapshotCredentialFiles(o))
        BY <2>3, <2>6, <2>10, <3>1
      <4> QED BY <2>3, <3>1, <4>1 DEF CodexBound, GitBound
    <3>2. CASE p # o
      BY <1>a, <2>2, <2>8, <2>10, <3>2 DEF BoundUntilWritten
    <3> QED BY <3>1, <3>2
  <2> QED BY <2>9, <2>10 DEF BoundUntilWritten
<1>keys. KeysUntilWritten'
  BY <1>a, <1>s, <1>m DEF KeysUntilWritten, Wrote, Becomes
<1> QED BY <1>typed, <1>shaped, <1>idle, <1>alone, <1>tried, <1>installs, <1>recorded,
           <1>excluded, <1>kept, <1>once, <1>written, <1>secrets, <1>profiles, <1>bound, <1>keys
        DEF ConfigurationInv

\* What is on the disk after one more file was replaced.
LEMMA Replaced ==
    ASSUME ConfigurationInv, NEW o \in Ids, replaceCredentialFile(o)
    PROVE  /\ IsCredentials(o) /\ op[o].at = "writing" /\ op[o].step \in Nat
           /\ op[o].step + 1 \in 1..Len(Paths(o)) /\ Len(Paths(o)) \in Nat
           /\ disk' \in Disks /\ disk'.manifest = disk.manifest
           /\ disk'.current = disk.current /\ disk'.installed = disk.installed
           /\ \A i \in 1..(op[o].step + 1) : disk'.file[Paths(o)[i]] = Value(o, Paths(o)[i])
           /\ op[o].kind = "api" => \A f \in Files : f # op[o].of => disk'.file[f] = disk.file[f]
           /\ op[o].kind = "credentials" =>
                /\ disk'.file["gemini"] = disk.file["gemini"]
                /\ disk'.file["claude"] = disk.file["claude"]
                /\ op[o].of = "git" => /\ disk'.file["key"] = disk.file["key"]
                                       /\ disk'.file["config"] = disk.file["config"]
                /\ op[o].of = "codex" =>
                     /\ disk'.file["credentials"] = disk.file["credentials"]
                     /\ disk'.file["gitconfig"] = disk.file["gitconfig"]
           /\ \A p \in Ids : p # o /\ IsCredentials(p) =>
                \A i \in 1..Len(Paths(p)) : disk'.file[Paths(p)[i]] = disk.file[Paths(p)[i]]
<1>a. Typed /\ RowsShaped /\ CredentialsOnce /\ WrittenIsThere
  BY DEF ConfigurationInv
<1>t. op \in [Ids -> Rows] /\ disk \in Disks
  BY <1>a DEF Typed
<1>g. op[o].at = "writing"
  BY DEF replaceCredentialFile
<1>s. Shaped(op[o]) /\ op[o].step \in Nat
  BY <1>a, <1>t, RowTypes DEF RowsShaped
<1>k. IsCredentials(o)
  BY <1>g, <1>s DEF Shaped, IsCredentials
<1>1. Len(Paths(o)) \in {1, 2, 4}
  BY <1>s, <1>k, PathsOf
<1>n. op[o].step + 1 \in 1..Len(Paths(o))
  <2>1. op[o].step < Len(Paths(o))
    BY <1>a, <1>g, <1>k DEF WrittenIsThere, IsCredentials
  <2> QED BY <1>s, <1>1, <2>1
<1>p. PICK f : f = Paths(o)[op[o].step + 1]
  OBVIOUS
<1>v. f \in Files /\ Value(o, f) \in Revision
  BY <1>s, <1>k, <1>n, <1>p, PathIsFile, ValueIsRevision
<1>2. disk' = [disk EXCEPT !.file[f] = Value(o, f)]
  BY <1>p DEF replaceCredentialFile
<1>3. /\ disk' \in Disks /\ disk'.manifest = disk.manifest
      /\ disk'.current = disk.current /\ disk'.installed = disk.installed
      /\ \A g \in Files : disk'.file[g] = IF g = f THEN Value(o, f) ELSE disk.file[g]
  BY <1>t, <1>v, <1>2 DEF Disks
<1>4. \A i \in 1..(op[o].step + 1) : disk'.file[Paths(o)[i]] = Value(o, Paths(o)[i])
  <2> SUFFICES ASSUME NEW i \in 1..(op[o].step + 1)
               PROVE  disk'.file[Paths(o)[i]] = Value(o, Paths(o)[i])
    OBVIOUS
  <2>1. i \in 1..Len(Paths(o))
    BY <1>s, <1>n, <1>1
  <2>2. Paths(o)[i] \in Files
    BY <1>s, <1>k, <2>1, PathIsFile
  <2>3. CASE Paths(o)[i] = f
    BY <1>3, <2>2, <2>3
  <2>4. CASE Paths(o)[i] # f
    <3>1. i \in 1..op[o].step
      BY <1>s, <1>p, <2>4
    <3>2. disk.file[Paths(o)[i]] = Value(o, Paths(o)[i])
      BY <1>a, <1>g, <1>k, <3>1 DEF WrittenIsThere, IsCredentials
    <3> QED BY <1>3, <2>2, <2>4, <3>2
  <2> QED BY <2>3, <2>4
<1>5. /\ op[o].kind = "api" => f = op[o].of
      /\ op[o].kind = "credentials" =>
           /\ f \in {"key", "config", "credentials", "gitconfig"}
           /\ op[o].of = "codex" => f \in {"key", "config"}
           /\ op[o].of = "git" => f \in {"credentials", "gitconfig"}
  BY <1>s, <1>k, <1>n, <1>p, PathIsFile
<1>6. ASSUME NEW p \in Ids, p # o, IsCredentials(p), NEW i \in 1..Len(Paths(p))
      PROVE  disk'.file[Paths(p)[i]] = disk.file[Paths(p)[i]]
  <2>1. Paths(p)[i] # f
    BY <1>a, <1>k, <1>n, <1>p, <1>6, PathsApart
  <2>2. Paths(p)[i] \in Files
    BY <1>a, <1>6, PathIsFile DEF RowsShaped
  <2> QED BY <1>3, <2>1, <2>2
<1> QED BY <1>s, <1>k, <1>g, <1>n, <1>1, <1>3, <1>4, <1>5, <1>6 DEF Files

\* A file is replaced, and there are more.
LEMMA ReplaceKeeps ==
    ASSUME ConfigurationInv, NEW o \in Ids, replaceCredentialFile(o), op[o].step + 1 < Len(Paths(o))
    PROVE  ConfigurationInv'
<1>a. /\ Typed /\ RowsShaped /\ IdleUnlessConnected /\ UpdateAlone /\ UntriedIsPending
      /\ InstallsInOrder /\ CliAsRecorded /\ ReservedOrRunning /\ TurnKeepsItsConfiguration
      /\ CredentialsOnce /\ WrittenIsThere /\ SecretsFollow /\ ProfilesThere
      /\ BoundUntilWritten /\ KeysUntilWritten
  BY DEF ConfigurationInv
<1>t. /\ op \in [Ids -> Rows] /\ disk \in Disks /\ agent \in Processes /\ cp \in Planes
      /\ past \in Histories
  BY <1>a DEF Typed
<1>d.
           /\ IsCredentials(o) /\ op[o].at = "writing" /\ op[o].step \in Nat
           /\ op[o].step + 1 \in 1..Len(Paths(o)) /\ Len(Paths(o)) \in Nat
           /\ disk' \in Disks /\ disk'.manifest = disk.manifest
           /\ disk'.current = disk.current /\ disk'.installed = disk.installed
           /\ \A i \in 1..(op[o].step + 1) : disk'.file[Paths(o)[i]] = Value(o, Paths(o)[i])
           /\ op[o].kind = "api" => \A f \in Files : f # op[o].of => disk'.file[f] = disk.file[f]
           /\ op[o].kind = "credentials" =>
                /\ disk'.file["gemini"] = disk.file["gemini"]
                /\ disk'.file["claude"] = disk.file["claude"]
                /\ op[o].of = "git" => /\ disk'.file["key"] = disk.file["key"]
                                       /\ disk'.file["config"] = disk.file["config"]
                /\ op[o].of = "codex" =>
                     /\ disk'.file["credentials"] = disk.file["credentials"]
                     /\ disk'.file["gitconfig"] = disk.file["gitconfig"]
           /\ \A p \in Ids : p # o /\ IsCredentials(p) =>
                \A i \in 1..Len(Paths(p)) : disk'.file[Paths(p)[i]] = disk.file[Paths(p)[i]]
  BY Replaced
<1>e. disk' \in Disks /\ disk'.manifest = disk.manifest /\ disk'.current = disk.current
      /\ disk'.installed = disk.installed
  BY <1>d
<1>g. UNCHANGED <<cp, agent, past>> /\ op[o].at = "writing" /\ agent.phase = "connected"
      /\ Shaped(op[o]) /\ op[o].kind \in {"credentials", "api"}
  BY <1>a, <1>d DEF replaceCredentialFile, IdleUnlessConnected, RowsShaped, IsCredentials
<1>m. Becomes(o, op[o].at, op[o].step + 1, op[o].ok, op[o].conf, op[o].snap)
  <2>1. PICK n \in Nat : n = op[o].step + 1
    BY <1>d
  <2>2. op' = [op EXCEPT ![o].step = n]
    BY <2>1 DEF replaceCredentialFile
  <2> QED BY <1>t, <2>1, <2>2, SteppedTo
<1>z. op[o].kind # "api"
  <2>1. IsCredentials(o) /\ Shaped(op[o])
    BY <1>g, <1>d
  <2>2. op[o].kind = "api" => Len(Paths(o)) = 1
    BY <2>1, PathsOf
  <2>3. PICK n \in Nat : n = op[o].step
    BY <1>d
  <2>4. n + 1 < Len(Paths(o))
    BY <2>3
  <2>5. PICK l \in Nat : l = Len(Paths(o))
    BY <1>d
  <2>6. n + 1 < l
    BY <2>4, <2>5
  <2>7. l # 1
    BY <2>6
  <2> QED BY <2>2, <2>5, <2>7
<1>typed. Typed'
  BY <1>t, <1>e, <1>m, <1>g DEF Typed, Becomes
<1>shaped. RowsShaped'
  BY <1>a, <1>g, <1>m DEF RowsShaped, Shaped, Installing, Becomes
<1>idle. IdleUnlessConnected'
  BY <1>g DEF IdleUnlessConnected
<1>alone. UpdateAlone'
  BY <1>a, <1>g, <1>m DEF UpdateAlone, Becomes
<1>tried. UntriedIsPending'
  BY <1>a, <1>g, <1>e DEF UntriedIsPending
<1>installs. InstallsInOrder'
  BY <1>a, <1>g, <1>e, <1>m DEF InstallsInOrder, Installing, Becomes
<1>recorded. CliAsRecorded'
  BY <1>a, <1>g, <1>e, <1>m DEF CliAsRecorded, Becomes
<1>excluded. ReservedOrRunning'
  BY <1>a, <1>g, <1>m DEF ReservedOrRunning, Reconfiguring, IsInstall, Installing, Becomes
<1>kept. TurnKeepsItsConfiguration'
  <2>1. ASSUME NEW p \in Ids, op'[p].kind = "turn", op'[p].at = "running"
        PROVE  /\ op'[p].conf = Configuration(op[p].of)'
               /\ op'[p].of # "claude" => disk'.current[op'[p].of] = op'[p].conf.cli
               /\ op'[p].of = "codex" => disk'.file["key"] = op'[p].conf.secret
    <3>1. p # o /\ op'[p] = op[p]
      BY <2>1, <1>m, <1>g DEF Becomes
    <3>2. /\ op[p].conf = Configuration(op[p].of)
          /\ op[p].of # "claude" => disk.current[op[p].of] = op[p].conf.cli
          /\ op[p].of = "codex" => disk.file["key"] = op[p].conf.secret
          /\ op[p].of \in Clis /\ ~Reconfiguring(op[p].of)
      BY <1>a, <2>1, <3>1 DEF TurnKeepsItsConfiguration, ReservedOrRunning, RowsShaped, Shaped
    <3>3. /\ op[o].kind = "api" => op[p].of # op[o].of
          /\ op[o].kind = "credentials" /\ op[o].of # "git" => op[p].of # "codex"
      BY <3>2, <1>g DEF Reconfiguring, Shaped
    <3>4. /\ Configuration(op[p].of)' = Configuration(op[p].of)
          /\ op[p].of # "claude" => disk'.current[op[p].of] = disk.current[op[p].of]
          /\ op[p].of = "codex" => disk'.file["key"] = disk.file["key"]
      <4>1. op[p].of = "claude" => disk'.file["claude"] = disk.file["claude"]
        BY <1>d, <1>g, <3>3 DEF Files
      <4>2. op[p].of = "codex" => disk'.file["key"] = disk.file["key"]
        BY <1>d, <1>g, <3>3 DEF Files, Shaped, Scopes
      <4> QED BY <1>g, <1>d, <3>1, <3>2, <4>1, <4>2 DEF Configuration, effectivePath
    <3> QED BY <3>1, <3>2, <3>4
  <2> QED BY <2>1 DEF TurnKeepsItsConfiguration
<1>once. CredentialsOnce'
  BY <1>a, <1>m DEF CredentialsOnce, Becomes
<1>written. WrittenIsThere'
  <2> SUFFICES ASSUME NEW p \in Ids, op'[p].kind \in {"credentials", "api"}
               PROVE  /\ op'[p].at = "writing" => op'[p].step < Len(Paths(p)')
                      /\ op'[p].at = "writing" =>
                           \A i \in 1..op'[p].step :
                              disk'.file[Paths(p)'[i]] = Value(p, Paths(p)[i])'
                      /\ Wrote(p)' => \A i \in 1..Len(Paths(p)') :
                                        disk'.file[Paths(p)'[i]] = Value(p, Paths(p)[i])'
    BY DEF WrittenIsThere
  <2>0. Paths(p)' = Paths(p) /\ \A i : Value(p, Paths(p)[i])' = Value(p, Paths(p)[i])
    BY <1>m DEF Paths, Value, Becomes
  <2>1. CASE p = o
    <3>1. op'[p].at = "writing" /\ op'[p].step = op[o].step + 1 /\ ~Wrote(p)'
      BY <1>m, <1>d, <2>1 DEF Becomes, Wrote
    <3> QED BY <1>d, <2>0, <2>1, <3>1
  <2>2. CASE p # o
    <3>1. op'[p] = op[p] /\ IsCredentials(p)
      BY <1>m, <2>2 DEF Becomes, IsCredentials
    <3>2. Len(Paths(p)) \in {1, 2, 4}
      BY <1>a, <3>1, PathsOf DEF RowsShaped
    <3>3. /\ op[p].at = "writing" => op[p].step < Len(Paths(p))
          /\ op[p].at = "writing" =>
               \A i \in 1..op[p].step : disk.file[Paths(p)[i]] = Value(p, Paths(p)[i])
          /\ Wrote(p) => \A i \in 1..Len(Paths(p)) :
                 disk.file[Paths(p)[i]] = Value(p, Paths(p)[i])
      BY <1>a, <3>1 DEF WrittenIsThere, IsCredentials
    <3>4. \A i \in 1..Len(Paths(p)) : disk'.file[Paths(p)[i]] = disk.file[Paths(p)[i]]
      BY <1>d, <2>2, <3>1
    <3>5. Wrote(p)' <=> Wrote(p)
      BY <3>1 DEF Wrote
    <3>6. op[p].step \in Nat
      BY <1>t, RowTypes
    <3>7. op[p].at = "writing" => 1..op[p].step \subseteq 1..Len(Paths(p))
      BY <3>2, <3>3, <3>6
    <3> QED BY <2>0, <3>1, <3>3, <3>4, <3>5, <3>7
  <2> QED BY <2>1, <2>2
<1>secrets. SecretsFollow'
  <2>1. \A p \in Ids : WritesKey(p) => WritesKey(p)'
    BY <1>g, <1>m DEF WritesKey, Becomes
  <2>2. WritesKey(o) \/ disk'.file["key"] = disk.file["key"]
    BY <1>d, <1>g DEF WritesKey, Files, Shaped, Scopes
  <2>3. \A p \in Ids : op'[p].at = "writing" =>
          /\ op[p].at = "writing" /\ op'[p].snap = op[p].snap /\ op'[p].kind = op[p].kind
          /\ op'[p].of = op[p].of
    BY <1>g, <1>m DEF Becomes
  <2>4. \/ agent'.secret["codex"] = disk'.file["key"]
        \/ \E p \in Ids : WritesKey(p)'
    BY <1>a, <1>g, <2>1, <2>2 DEF SecretsFollow
  <2>5. \A p \in Ids : WritesKey(p)' /\ op'[p].at = "writing" =>
          op'[p].snap["key"] = agent'.secret["codex"]
    BY <1>a, <1>g, <2>3 DEF SecretsFollow, WritesKey
  <2>6. \/ agent'.secret["gemini"] = disk'.file["gemini"]
        \/ \E p \in Ids : op'[p].kind = "api" /\ op'[p].of = "gemini" /\ op'[p].at = "written"
    <3>1. \/ agent.secret["gemini"] = disk.file["gemini"]
          \/ \E p \in Ids : op[p].kind = "api" /\ op[p].of = "gemini" /\ op[p].at = "written"
      BY <1>a, <1>g DEF SecretsFollow
    <3>2. ~(op[o].kind = "api" /\ op[o].of = "gemini") =>
              disk'.file["gemini"] = disk.file["gemini"]
      BY <1>d, <1>g DEF Files
    <3>3. \A p \in Ids : op[p].at = "written" => op'[p] = op[p]
      BY <1>g, <1>m DEF Becomes
    <3> QED BY <1>g, <1>z, <3>1, <3>2, <3>3
  <2>7. ASSUME NEW p \in Ids, op'[p].kind = "api", op'[p].at = "writing"
        PROVE  op'[p].snap[op'[p].of] = disk'.file[op'[p].of]
    <3>1. op[p].kind = "api" /\ op[p].at = "writing" /\ op'[p].snap = op[p].snap /\ op'[p].of = op[p].of
      BY <2>3, <2>7
    <3>2. op[p].snap[op[p].of] = disk.file[op[p].of] /\ op[p].of \in {"gemini", "claude"}
      BY <1>a, <3>1 DEF SecretsFollow, RowsShaped, Shaped
    <3>3. disk'.file[op[p].of] = disk.file[op[p].of]
      BY <1>d, <1>g, <1>z, <3>2 DEF Files
    <3> QED BY <3>1, <3>2, <3>3
  <2> QED BY <2>4, <2>5, <2>6, <2>7 DEF SecretsFollow
<1>profiles. ProfilesThere'
  BY <1>a, <1>d, <1>g, <1>m DEF ProfilesThere, Becomes
<1>bound. BoundUntilWritten'
  <2>1. \A p \in Ids :
          /\ op[p].kind = "credentials" /\ Began(p) => op'[p].kind = "credentials" /\ Began(p)'
          /\ op'[p].of = op[p].of
    BY <1>m, <1>g DEF Becomes, Began, Wrote
  <2>2. op[o].kind # "credentials" \/ op[o].of = "git" =>
          (CodexBound(disk.file) => CodexBound(disk.file)')
    BY <1>d, <1>g DEF CodexBound, IsCredentials, Files, Shaped
  <2>3. op[o].kind # "credentials" \/ op[o].of = "codex" =>
          (GitBound(disk.file) => GitBound(disk.file)')
    BY <1>d, <1>g DEF GitBound, IsCredentials, Files, Shaped
  <2>4. ASSUME NEW p \in Ids, op'[p].at = "writing"
        PROVE  /\ op[p].at = "writing" /\ op'[p].snap = op[p].snap /\ op'[p].kind = op[p].kind
               /\ op'[p].of = op[p].of
               /\ CodexBound(op[p].snap) => CodexBound(op[p].snap)'
               /\ GitBound(op[p].snap) => GitBound(op[p].snap)'
    <3>1. /\ op[p].at = "writing" /\ op'[p].snap = op[p].snap /\ op'[p].kind = op[p].kind
          /\ op'[p].of = op[p].of
      BY <1>g, <1>m, <2>4 DEF Becomes
    <3> QED BY <1>g, <3>1 DEF CodexBound, GitBound
  <2>5. Began(o)
    BY <1>g DEF Began
  <2>6. "credentials" \notin past.torn =>
          /\ CodexBound(disk.file)' \/ \E p \in Ids :
                 op'[p].kind = "credentials" /\ op'[p].of # "git" /\ Began(p)'
          /\ GitBound(disk.file)' \/ \E p \in Ids :
                 op'[p].kind = "credentials" /\ op'[p].of # "codex" /\ Began(p)'
    BY <1>a, <2>1, <2>2, <2>3, <2>5 DEF BoundUntilWritten
  <2>7. "credentials" \notin past.torn =>
          \A p \in Ids : op'[p].kind = "credentials" /\ op'[p].at = "writing" =>
             /\ op'[p].of # "git" => CodexBound(op[p].snap)'
             /\ op'[p].of # "codex" => GitBound(op[p].snap)'
    BY <1>a, <2>4 DEF BoundUntilWritten
  <2>8. past' = past
    BY <1>g
  <2> QED BY <2>6, <2>7, <2>8 DEF BoundUntilWritten
<1>keys. KeysUntilWritten'
  <2>1. \A p \in Ids : Wrote(p) => op'[p] = op[p] /\ Wrote(p)'
    BY <1>g, <1>m DEF Wrote, Becomes, Shaped
  <2>2. op[o].kind # "api" => disk'.file["gemini"] = disk.file["gemini"] /\ disk'.file["claude"] = disk.file["claude"]
    BY <1>d, <1>g
  <2> QED BY <1>a, <1>g, <1>z, <2>1, <2>2 DEF KeysUntilWritten
<1> QED BY <1>typed, <1>shaped, <1>idle, <1>alone, <1>tried, <1>installs, <1>recorded,
           <1>excluded, <1>kept, <1>once, <1>written, <1>secrets, <1>profiles, <1>bound, <1>keys
        DEF ConfigurationInv

\* The last file is replaced.
LEMMA ReplaceLastKeeps ==
    ASSUME ConfigurationInv, NEW o \in Ids, replaceCredentialFile(o), ~(op[o].step + 1 < Len(Paths(o)))
    PROVE  ConfigurationInv'
<1>a. /\ Typed /\ RowsShaped /\ IdleUnlessConnected /\ UpdateAlone /\ UntriedIsPending
      /\ InstallsInOrder /\ CliAsRecorded /\ ReservedOrRunning /\ TurnKeepsItsConfiguration
      /\ CredentialsOnce /\ WrittenIsThere /\ SecretsFollow /\ ProfilesThere
      /\ BoundUntilWritten /\ KeysUntilWritten
  BY DEF ConfigurationInv
<1>t. /\ op \in [Ids -> Rows] /\ disk \in Disks /\ agent \in Processes /\ cp \in Planes
      /\ past \in Histories
  BY <1>a DEF Typed
<1>d.
           /\ IsCredentials(o) /\ op[o].at = "writing" /\ op[o].step \in Nat
           /\ op[o].step + 1 \in 1..Len(Paths(o)) /\ Len(Paths(o)) \in Nat
           /\ disk' \in Disks /\ disk'.manifest = disk.manifest
           /\ disk'.current = disk.current /\ disk'.installed = disk.installed
           /\ \A i \in 1..(op[o].step + 1) : disk'.file[Paths(o)[i]] = Value(o, Paths(o)[i])
           /\ op[o].kind = "api" => \A f \in Files : f # op[o].of => disk'.file[f] = disk.file[f]
           /\ op[o].kind = "credentials" =>
                /\ disk'.file["gemini"] = disk.file["gemini"]
                /\ disk'.file["claude"] = disk.file["claude"]
                /\ op[o].of = "git" => /\ disk'.file["key"] = disk.file["key"]
                                       /\ disk'.file["config"] = disk.file["config"]
                /\ op[o].of = "codex" =>
                     /\ disk'.file["credentials"] = disk.file["credentials"]
                     /\ disk'.file["gitconfig"] = disk.file["gitconfig"]
           /\ \A p \in Ids : p # o /\ IsCredentials(p) =>
                \A i \in 1..Len(Paths(p)) : disk'.file[Paths(p)[i]] = disk.file[Paths(p)[i]]
  BY Replaced
<1>e. disk' \in Disks /\ disk'.manifest = disk.manifest /\ disk'.current = disk.current
      /\ disk'.installed = disk.installed
  BY <1>d
<1>g. UNCHANGED <<cp, agent, past>> /\ op[o].at = "writing" /\ agent.phase = "connected"
      /\ Shaped(op[o]) /\ op[o].kind \in {"credentials", "api"}
  BY <1>a, <1>d DEF replaceCredentialFile, IdleUnlessConnected, RowsShaped, IsCredentials
<1>m. Becomes(o, "written", 0, op[o].ok, op[o].conf, op[o].snap)
  BY <1>t, <1>d, WrittenAll DEF replaceCredentialFile
<1>typed. Typed'
  BY <1>t, <1>e, <1>m, <1>g DEF Typed, Becomes
<1>shaped. RowsShaped'
  BY <1>a, <1>g, <1>m DEF RowsShaped, Shaped, Installing, Becomes
<1>idle. IdleUnlessConnected'
  BY <1>g DEF IdleUnlessConnected
<1>alone. UpdateAlone'
  BY <1>a, <1>g, <1>m DEF UpdateAlone, Becomes
<1>tried. UntriedIsPending'
  BY <1>a, <1>g, <1>e DEF UntriedIsPending
<1>installs. InstallsInOrder'
  BY <1>a, <1>g, <1>e, <1>m DEF InstallsInOrder, Installing, Becomes
<1>recorded. CliAsRecorded'
  BY <1>a, <1>g, <1>e, <1>m DEF CliAsRecorded, Becomes
<1>excluded. ReservedOrRunning'
  BY <1>a, <1>g, <1>m DEF ReservedOrRunning, Reconfiguring, IsInstall, Installing, Becomes
<1>kept. TurnKeepsItsConfiguration'
  <2>1. ASSUME NEW p \in Ids, op'[p].kind = "turn", op'[p].at = "running"
        PROVE  /\ op'[p].conf = Configuration(op[p].of)'
               /\ op'[p].of # "claude" => disk'.current[op'[p].of] = op'[p].conf.cli
               /\ op'[p].of = "codex" => disk'.file["key"] = op'[p].conf.secret
    <3>1. p # o /\ op'[p] = op[p]
      BY <2>1, <1>m, <1>g DEF Becomes
    <3>2. /\ op[p].conf = Configuration(op[p].of)
          /\ op[p].of # "claude" => disk.current[op[p].of] = op[p].conf.cli
          /\ op[p].of = "codex" => disk.file["key"] = op[p].conf.secret
          /\ op[p].of \in Clis /\ ~Reconfiguring(op[p].of)
      BY <1>a, <2>1, <3>1 DEF TurnKeepsItsConfiguration, ReservedOrRunning, RowsShaped, Shaped
    <3>3. /\ op[o].kind = "api" => op[p].of # op[o].of
          /\ op[o].kind = "credentials" /\ op[o].of # "git" => op[p].of # "codex"
      BY <3>2, <1>g DEF Reconfiguring, Shaped
    <3>4. /\ Configuration(op[p].of)' = Configuration(op[p].of)
          /\ op[p].of # "claude" => disk'.current[op[p].of] = disk.current[op[p].of]
          /\ op[p].of = "codex" => disk'.file["key"] = disk.file["key"]
      <4>1. op[p].of = "claude" => disk'.file["claude"] = disk.file["claude"]
        BY <1>d, <1>g, <3>3 DEF Files
      <4>2. op[p].of = "codex" => disk'.file["key"] = disk.file["key"]
        BY <1>d, <1>g, <3>3 DEF Files, Shaped, Scopes
      <4> QED BY <1>g, <1>d, <3>1, <3>2, <4>1, <4>2 DEF Configuration, effectivePath
    <3> QED BY <3>1, <3>2, <3>4
  <2> QED BY <2>1 DEF TurnKeepsItsConfiguration
<1>once. CredentialsOnce'
  BY <1>a, <1>m DEF CredentialsOnce, Becomes
<1>written. WrittenIsThere'
  <2> SUFFICES ASSUME NEW p \in Ids, op'[p].kind \in {"credentials", "api"}
               PROVE  /\ op'[p].at = "writing" => op'[p].step < Len(Paths(p)')
                      /\ op'[p].at = "writing" =>
                           \A i \in 1..op'[p].step :
                              disk'.file[Paths(p)'[i]] = Value(p, Paths(p)[i])'
                      /\ Wrote(p)' => \A i \in 1..Len(Paths(p)') :
                                        disk'.file[Paths(p)'[i]] = Value(p, Paths(p)[i])'
    BY DEF WrittenIsThere
  <2>0. Paths(p)' = Paths(p) /\ \A i : Value(p, Paths(p)[i])' = Value(p, Paths(p)[i])
    BY <1>m DEF Paths, Value, Becomes
  <2>1. CASE p = o
    <3>1. op'[p].at = "written" /\ op[o].step + 1 = Len(Paths(o))
      BY <1>m, <1>d, <2>1 DEF Becomes
    <3> QED BY <1>d, <2>0, <2>1, <3>1
  <2>2. CASE p # o
    <3>1. op'[p] = op[p] /\ IsCredentials(p)
      BY <1>m, <2>2 DEF Becomes, IsCredentials
    <3>2. Len(Paths(p)) \in {1, 2, 4}
      BY <1>a, <3>1, PathsOf DEF RowsShaped
    <3>3. /\ op[p].at = "writing" => op[p].step < Len(Paths(p))
          /\ op[p].at = "writing" =>
               \A i \in 1..op[p].step : disk.file[Paths(p)[i]] = Value(p, Paths(p)[i])
          /\ Wrote(p) => \A i \in 1..Len(Paths(p)) :
                 disk.file[Paths(p)[i]] = Value(p, Paths(p)[i])
      BY <1>a, <3>1 DEF WrittenIsThere, IsCredentials
    <3>4. \A i \in 1..Len(Paths(p)) : disk'.file[Paths(p)[i]] = disk.file[Paths(p)[i]]
      BY <1>d, <2>2, <3>1
    <3>5. Wrote(p)' <=> Wrote(p)
      BY <3>1 DEF Wrote
    <3>6. op[p].step \in Nat
      BY <1>t, RowTypes
    <3>7. op[p].at = "writing" => 1..op[p].step \subseteq 1..Len(Paths(p))
      BY <3>2, <3>3, <3>6
    <3> QED BY <2>0, <3>1, <3>3, <3>4, <3>5, <3>7
  <2> QED BY <2>1, <2>2
<1>secrets. SecretsFollow'
  <2>1. \A p \in Ids : WritesKey(p) => WritesKey(p)'
    BY <1>g, <1>m DEF WritesKey, Becomes
  <2>2. WritesKey(o) \/ disk'.file["key"] = disk.file["key"]
    BY <1>d, <1>g DEF WritesKey, Files, Shaped, Scopes
  <2>3. \A p \in Ids : op'[p].at = "writing" =>
          /\ op[p].at = "writing" /\ op'[p].snap = op[p].snap /\ op'[p].kind = op[p].kind
          /\ op'[p].of = op[p].of
    BY <1>g, <1>m DEF Becomes
  <2>4. \/ agent'.secret["codex"] = disk'.file["key"]
        \/ \E p \in Ids : WritesKey(p)'
    BY <1>a, <1>g, <2>1, <2>2 DEF SecretsFollow
  <2>5. \A p \in Ids : WritesKey(p)' /\ op'[p].at = "writing" =>
          op'[p].snap["key"] = agent'.secret["codex"]
    BY <1>a, <1>g, <2>3 DEF SecretsFollow, WritesKey
  <2>6. \/ agent'.secret["gemini"] = disk'.file["gemini"]
        \/ \E p \in Ids : op'[p].kind = "api" /\ op'[p].of = "gemini" /\ op'[p].at = "written"
    <3>1. \/ agent.secret["gemini"] = disk.file["gemini"]
          \/ \E p \in Ids : op[p].kind = "api" /\ op[p].of = "gemini" /\ op[p].at = "written"
      BY <1>a, <1>g DEF SecretsFollow
    <3>2. ~(op[o].kind = "api" /\ op[o].of = "gemini") =>
              disk'.file["gemini"] = disk.file["gemini"]
      BY <1>d, <1>g DEF Files
    <3>3. \A p \in Ids : op[p].at = "written" => op'[p] = op[p]
      BY <1>g, <1>m DEF Becomes
    <3>4. op[o].kind = "api" => /\ op'[o].kind = "api" /\ op'[o].of = op[o].of
                                /\ op'[o].at = "written"
      BY <1>m DEF Becomes
    <3> QED BY <1>g, <3>1, <3>2, <3>3, <3>4
  <2>7. ASSUME NEW p \in Ids, op'[p].kind = "api", op'[p].at = "writing"
        PROVE  op'[p].snap[op'[p].of] = disk'.file[op'[p].of]
    <3>1. op[p].kind = "api" /\ op[p].at = "writing" /\ op'[p].snap = op[p].snap /\ op'[p].of = op[p].of
      BY <2>3, <2>7
    <3>2. op[p].snap[op[p].of] = disk.file[op[p].of] /\ op[p].of \in {"gemini", "claude"}
      BY <1>a, <3>1 DEF SecretsFollow, RowsShaped, Shaped
    <3>3. disk'.file[op[p].of] = disk.file[op[p].of]
      <4>1. p # o
        BY <2>7, <1>m DEF Becomes
      <4>2. op[o].kind = "api" => op[p].of # op[o].of
        BY <1>a, <3>1, <4>1 DEF CredentialsOnce
      <4> QED BY <1>d, <1>g, <3>2, <4>2 DEF Files
    <3> QED BY <3>1, <3>2, <3>3
  <2> QED BY <2>4, <2>5, <2>6, <2>7 DEF SecretsFollow
<1>profiles. ProfilesThere'
  BY <1>a, <1>d, <1>g, <1>m DEF ProfilesThere, Becomes
<1>bound. BoundUntilWritten'
  <2>1. \A p \in Ids :
          /\ op[p].kind = "credentials" /\ Began(p) => op'[p].kind = "credentials" /\ Began(p)'
          /\ op'[p].of = op[p].of
    BY <1>m, <1>g DEF Becomes, Began, Wrote
  <2>2. op[o].kind # "credentials" \/ op[o].of = "git" =>
          (CodexBound(disk.file) => CodexBound(disk.file)')
    BY <1>d, <1>g DEF CodexBound, IsCredentials, Files, Shaped
  <2>3. op[o].kind # "credentials" \/ op[o].of = "codex" =>
          (GitBound(disk.file) => GitBound(disk.file)')
    BY <1>d, <1>g DEF GitBound, IsCredentials, Files, Shaped
  <2>4. ASSUME NEW p \in Ids, op'[p].at = "writing"
        PROVE  /\ op[p].at = "writing" /\ op'[p].snap = op[p].snap /\ op'[p].kind = op[p].kind
               /\ op'[p].of = op[p].of
               /\ CodexBound(op[p].snap) => CodexBound(op[p].snap)'
               /\ GitBound(op[p].snap) => GitBound(op[p].snap)'
    <3>1. /\ op[p].at = "writing" /\ op'[p].snap = op[p].snap /\ op'[p].kind = op[p].kind
          /\ op'[p].of = op[p].of
      BY <1>g, <1>m, <2>4 DEF Becomes
    <3> QED BY <1>g, <3>1 DEF CodexBound, GitBound
  <2>5. Began(o)
    BY <1>g DEF Began
  <2>6. "credentials" \notin past.torn =>
          /\ CodexBound(disk.file)' \/ \E p \in Ids :
                 op'[p].kind = "credentials" /\ op'[p].of # "git" /\ Began(p)'
          /\ GitBound(disk.file)' \/ \E p \in Ids :
                 op'[p].kind = "credentials" /\ op'[p].of # "codex" /\ Began(p)'
    BY <1>a, <2>1, <2>2, <2>3, <2>5 DEF BoundUntilWritten
  <2>7. "credentials" \notin past.torn =>
          \A p \in Ids : op'[p].kind = "credentials" /\ op'[p].at = "writing" =>
             /\ op'[p].of # "git" => CodexBound(op[p].snap)'
             /\ op'[p].of # "codex" => GitBound(op[p].snap)'
    BY <1>a, <2>4 DEF BoundUntilWritten
  <2>8. past' = past
    BY <1>g
  <2> QED BY <2>6, <2>7, <2>8 DEF BoundUntilWritten
<1>keys. KeysUntilWritten'
  <2>1. \A p \in Ids : Wrote(p) => op'[p] = op[p] /\ Wrote(p)'
    BY <1>g, <1>m DEF Wrote, Becomes, Shaped
  <2>2. op[o].kind # "api" => disk'.file["gemini"] = disk.file["gemini"] /\ disk'.file["claude"] = disk.file["claude"]
    BY <1>d, <1>g
  <2>3. op[o].kind = "api" => /\ op'[o].kind = "api" /\ op'[o].of = op[o].of /\ Wrote(o)'
                              /\ \A f \in Files : f # op[o].of => disk'.file[f] = disk.file[f]
    BY <1>d, <1>m DEF Becomes, Wrote
  <2> QED BY <1>a, <1>g, <2>1, <2>2, <2>3 DEF KeysUntilWritten, Files
<1> QED BY <1>typed, <1>shaped, <1>idle, <1>alone, <1>tried, <1>installs, <1>recorded,
           <1>excluded, <1>kept, <1>once, <1>written, <1>secrets, <1>profiles, <1>bound, <1>keys
        DEF ConfigurationInv

\* The update is over, and the Agent uses what it wrote.
LEMMA EnvironmentKeeps ==
    ASSUME ConfigurationInv, NEW o \in Ids, setEnvironment(o)
    PROVE  ConfigurationInv'
<1>a. /\ Typed /\ RowsShaped /\ IdleUnlessConnected /\ UpdateAlone /\ UntriedIsPending
      /\ InstallsInOrder /\ CliAsRecorded /\ ReservedOrRunning /\ TurnKeepsItsConfiguration
      /\ CredentialsOnce /\ WrittenIsThere /\ SecretsFollow /\ ProfilesThere
      /\ BoundUntilWritten /\ KeysUntilWritten
  BY DEF ConfigurationInv
<1>t. /\ op \in [Ids -> Rows] /\ disk \in Disks /\ agent \in Processes /\ cp \in Planes
      /\ past \in Histories
  BY <1>a DEF Typed
<1>g. op[o].at = "written" /\ UNCHANGED <<cp, disk, past>> /\ agent.phase = "connected"
      /\ Shaped(op[o]) /\ op[o].kind \in {"credentials", "api"}
  BY <1>a DEF setEnvironment, IdleUnlessConnected, RowsShaped, Shaped
<1>m. Becomes(o, "ended", 0, TRUE, NoConf, NoFiles)
  BY <1>t, EndedAs DEF setEnvironment
<1>w. Wrote(o) /\ IsCredentials(o)
  BY <1>g DEF Wrote, IsCredentials
<1>v. op[o].version \in Revision
  BY <1>g DEF Shaped
<1>d. /\ agent' \in Processes /\ agent'.phase = agent.phase /\ agent'.pending = agent.pending
      /\ agent'.restart = agent.restart /\ agent'.command = agent.command
      /\ op[o].kind = "api" /\ op[o].of = "gemini" =>
           /\ agent'.secret["codex"] = agent.secret["codex"]
           /\ agent'.secret["gemini"] = op[o].version
      /\ op[o].kind = "credentials" /\ op[o].of # "git" =>
           /\ agent'.secret["codex"] = op[o].version
           /\ agent'.secret["gemini"] = agent.secret["gemini"]
      /\ op[o].of \in {"git", "claude"} => agent'.secret = agent.secret
  <2>1. CASE op[o].of \in {"git", "claude"}
    BY <1>t, <1>g, <2>1 DEF setEnvironment, Shaped, Scopes
  <2>2. CASE op[o].kind = "api" /\ op[o].of = "gemini"
    <3>1. agent' = [agent EXCEPT !.secret["gemini"] = op[o].version]
      BY <2>2 DEF setEnvironment
    <3> QED BY <1>t, <1>v, <2>2, <3>1 DEF Processes
  <2>3. CASE op[o].kind = "credentials" /\ op[o].of \in {"both", "codex"}
    <3>1. agent' = [agent EXCEPT !.secret["codex"] = op[o].version]
      BY <2>3 DEF setEnvironment
    <3> QED BY <1>t, <1>v, <2>3, <3>1 DEF Processes
  <2> QED BY <1>g, <2>1, <2>2, <2>3 DEF Shaped, Scopes
<1>typed. Typed'
  BY <1>t, <1>g, <1>m, <1>d DEF Typed, Becomes
<1>shaped. RowsShaped'
  BY <1>a, <1>g, <1>m DEF RowsShaped, Shaped, Installing, Becomes
<1>idle. IdleUnlessConnected'
  BY <1>a, <1>g, <1>m, <1>d DEF IdleUnlessConnected, Becomes
<1>alone. UpdateAlone'
  BY <1>a, <1>g, <1>m, <1>d DEF UpdateAlone, Becomes
<1>tried. UntriedIsPending'
  BY <1>a, <1>g, <1>m, <1>d DEF UntriedIsPending, Becomes
<1>installs. InstallsInOrder'
  BY <1>a, <1>g, <1>m, <1>d DEF InstallsInOrder, Installing, Becomes
<1>recorded. CliAsRecorded'
  BY <1>a, <1>g, <1>m, <1>d DEF CliAsRecorded, Becomes
<1>excluded. ReservedOrRunning'
  BY <1>a, <1>g, <1>m, <1>d DEF ReservedOrRunning, Reconfiguring, IsInstall, Installing, Becomes
<1>kept. TurnKeepsItsConfiguration'
  <2>1. ASSUME NEW p \in Ids, op'[p].kind = "turn", op'[p].at = "running"
        PROVE  /\ op'[p].conf = Configuration(op[p].of)'
               /\ op'[p].of # "claude" => disk'.current[op'[p].of] = op'[p].conf.cli
               /\ op'[p].of = "codex" => disk'.file["key"] = op'[p].conf.secret
    <3>1. p # o /\ op'[p] = op[p]
      BY <2>1, <1>m, <1>g DEF Becomes
    <3>2. /\ op[p].conf = Configuration(op[p].of)
          /\ op[p].of # "claude" => disk.current[op[p].of] = op[p].conf.cli
          /\ op[p].of = "codex" => disk.file["key"] = op[p].conf.secret
          /\ op[p].of \in Clis /\ ~Reconfiguring(op[p].of)
      BY <1>a, <2>1, <3>1 DEF TurnKeepsItsConfiguration, ReservedOrRunning, RowsShaped, Shaped
    <3>3. /\ op[o].kind = "api" => op[p].of # op[o].of
          /\ op[o].kind = "credentials" /\ op[o].of # "git" => op[p].of # "codex"
      BY <3>2, <1>g DEF Reconfiguring, Shaped
    <3>4. /\ Configuration(op[p].of)' = Configuration(op[p].of)
          /\ op[p].of # "claude" => disk'.current[op[p].of] = disk.current[op[p].of]
          /\ op[p].of = "codex" => disk'.file["key"] = disk.file["key"]
      BY <1>g, <1>d, <3>1, <3>2, <3>3 DEF Configuration, effectivePath, Clis, Shaped, Scopes
    <3> QED BY <3>1, <3>2, <3>4
  <2> QED BY <2>1 DEF TurnKeepsItsConfiguration
<1>once. CredentialsOnce'
  BY <1>a, <1>g, <1>m, <1>d DEF CredentialsOnce, Becomes
<1>written. WrittenIsThere'
  <2> SUFFICES ASSUME NEW p \in Ids, op'[p].kind \in {"credentials", "api"}
               PROVE  /\ op'[p].at = "writing" => op'[p].step < Len(Paths(p)')
                      /\ op'[p].at = "writing" =>
                           \A i \in 1..op'[p].step :
                              disk'.file[Paths(p)'[i]] = Value(p, Paths(p)[i])'
                      /\ Wrote(p)' => \A i \in 1..Len(Paths(p)') :
                                        disk'.file[Paths(p)'[i]] = Value(p, Paths(p)[i])'
    BY DEF WrittenIsThere
  <2>0. Paths(p)' = Paths(p) /\ \A i : Value(p, Paths(p)[i])' = Value(p, Paths(p)[i])
    BY <1>m DEF Paths, Value, Becomes
  <2>1. CASE p = o
    <3>1. op'[p].at = "ended"
      BY <1>m, <2>1 DEF Becomes
    <3>2. \A i \in 1..Len(Paths(o)) : disk.file[Paths(o)[i]] = Value(o, Paths(o)[i])
      BY <1>a, <1>w DEF WrittenIsThere, IsCredentials
    <3> QED BY <1>g, <2>0, <2>1, <3>1, <3>2
  <2>2. CASE p # o
    <3>1. op'[p] = op[p] /\ IsCredentials(p)
      BY <1>m, <2>2 DEF Becomes, IsCredentials
    <3>2. Len(Paths(p)) \in {1, 2, 4}
      BY <1>a, <3>1, PathsOf DEF RowsShaped
    <3>3. /\ op[p].at = "writing" => op[p].step < Len(Paths(p))
          /\ op[p].at = "writing" =>
               \A i \in 1..op[p].step : disk.file[Paths(p)[i]] = Value(p, Paths(p)[i])
          /\ Wrote(p) => \A i \in 1..Len(Paths(p)) :
                 disk.file[Paths(p)[i]] = Value(p, Paths(p)[i])
      BY <1>a, <3>1 DEF WrittenIsThere, IsCredentials
    <3>4. \A i \in 1..Len(Paths(p)) : disk'.file[Paths(p)[i]] = disk.file[Paths(p)[i]]
      BY <1>g, <2>2, <3>1
    <3>5. Wrote(p)' <=> Wrote(p)
      BY <3>1 DEF Wrote
    <3>6. op[p].step \in Nat
      BY <1>t, RowTypes
    <3>7. op[p].at = "writing" => 1..op[p].step \subseteq 1..Len(Paths(p))
      BY <3>2, <3>3, <3>6
    <3> QED BY <2>0, <3>1, <3>3, <3>4, <3>5, <3>7
  <2> QED BY <2>1, <2>2
<1>secrets. SecretsFollow'
  <2>1. /\ op[o].kind = "api" => disk.file[op[o].of] = op[o].version
        /\ op[o].kind = "credentials" /\ op[o].of # "git" => disk.file["key"] = op[o].version
    BY <1>a, <1>w, WrittenFiles
  <2>2. \A p \in Ids : p # o => op'[p] = op[p]
    BY <1>m DEF Becomes
  <2>3. op'[o].at = "ended" /\ op[o].at = "written"
    BY <1>g, <1>m DEF Becomes
  <2>4. op[o].kind = "credentials" => \A p \in Ids : op[p].kind = "credentials" => p = o
    BY <1>a DEF CredentialsOnce
  <2>5. \/ agent'.secret["codex"] = disk'.file["key"]
        \/ \E p \in Ids : WritesKey(p)'
    <3>1. CASE op[o].kind = "credentials" /\ op[o].of # "git"
      BY <1>g, <1>d, <2>1, <3>1
    <3>2. CASE ~(op[o].kind = "credentials" /\ op[o].of # "git")
      <4>1. agent'.secret["codex"] = agent.secret["codex"] /\ ~WritesKey(o)
        BY <1>g, <1>d, <3>2 DEF Shaped, WritesKey
      <4>2. \A p \in Ids : WritesKey(p) => WritesKey(p)'
        BY <2>2, <4>1 DEF WritesKey
      <4> QED BY <1>a, <1>g, <4>1, <4>2 DEF SecretsFollow
    <3> QED BY <3>1, <3>2
  <2>6. ASSUME NEW p \in Ids, WritesKey(p)', op'[p].at = "writing"
        PROVE  op'[p].snap["key"] = agent'.secret["codex"]
    <3>1. p # o /\ op'[p] = op[p] /\ WritesKey(p)
      BY <2>2, <2>3, <2>6 DEF WritesKey
    <3>2. op[o].kind # "credentials"
      BY <2>4, <3>1 DEF WritesKey
    <3>3. agent'.secret["codex"] = agent.secret["codex"]
      BY <1>g, <1>d, <3>2 DEF Shaped
    <3> QED BY <1>a, <2>6, <3>1, <3>3 DEF SecretsFollow
  <2>7. \/ agent'.secret["gemini"] = disk'.file["gemini"]
        \/ \E p \in Ids : op'[p].kind = "api" /\ op'[p].of = "gemini" /\ op'[p].at = "written"
    <3>1. CASE op[o].kind = "api" /\ op[o].of = "gemini"
      BY <1>g, <1>d, <2>1, <3>1
    <3>2. CASE ~(op[o].kind = "api" /\ op[o].of = "gemini")
      <4>1. agent'.secret["gemini"] = agent.secret["gemini"]
        BY <1>g, <1>d, <3>2 DEF Shaped
      <4>2. \/ agent.secret["gemini"] = disk.file["gemini"]
            \/ \E p \in Ids : op[p].kind = "api" /\ op[p].of = "gemini" /\ op[p].at = "written"
        BY <1>a, <1>g DEF SecretsFollow
      <4> QED BY <1>g, <2>2, <3>2, <4>1, <4>2
    <3> QED BY <3>1, <3>2
  <2>8. \A p \in Ids : op'[p].kind = "api" /\ op'[p].at = "writing" =>
          op'[p].snap[op'[p].of] = disk'.file[op'[p].of]
    BY <1>a, <1>g, <2>2, <2>3 DEF SecretsFollow
  <2> QED BY <2>5, <2>6, <2>7, <2>8 DEF SecretsFollow
<1>profiles. ProfilesThere'
  BY <1>a, <1>g, <1>m, <1>d DEF ProfilesThere, Becomes
<1>bound. BoundUntilWritten'
  <2>1. \A p \in Ids :
          /\ op[p].kind = "credentials" /\ Began(p) => op'[p].kind = "credentials" /\ Began(p)'
          /\ op'[p].of = op[p].of
    BY <1>m, <1>g DEF Becomes, Began, Wrote
  <2>2. \A p \in Ids : op'[p].at = "writing" => op'[p] = op[p]
    BY <1>m DEF Becomes
  <2>3. /\ CodexBound(disk.file)' <=> CodexBound(disk.file)
        /\ GitBound(disk.file)' <=> GitBound(disk.file)
    BY <1>g DEF CodexBound, GitBound
  <2>4. \A p \in Ids : op'[p].at = "writing" =>
          /\ CodexBound(op[p].snap)' <=> CodexBound(op[p].snap)
          /\ GitBound(op[p].snap)' <=> GitBound(op[p].snap)
    BY <1>g, <2>2 DEF CodexBound, GitBound
  <2> QED BY <1>a, <1>g, <2>1, <2>2, <2>3, <2>4 DEF BoundUntilWritten
<1>keys. KeysUntilWritten'
  <2>1. \A p \in Ids : /\ op[p].kind = "api" /\ Wrote(p) => op'[p].kind = "api" /\ Wrote(p)'
                         /\ op'[p].of = op[p].of
    BY <1>m, <1>g DEF Becomes, Wrote
  <2> QED BY <1>a, <1>g, <2>1 DEF KeysUntilWritten
<1> QED BY <1>typed, <1>shaped, <1>idle, <1>alone, <1>tried, <1>installs, <1>recorded,
           <1>excluded, <1>kept, <1>once, <1>written, <1>secrets, <1>profiles, <1>bound, <1>keys
        DEF ConfigurationInv

\* What is on the disk after an update was taken back.
LEMMA Restored ==
    ASSUME ConfigurationInv, NEW o \in Ids, failCredentialFile(o)
    PROVE  /\ IsCredentials(o) /\ op[o].at = "writing"
           /\ disk' \in Disks /\ disk'.manifest = disk.manifest
           /\ disk'.current = disk.current /\ disk'.installed = disk.installed
           /\ op[o].kind = "api" => disk'.file[op[o].of] = op[o].snap[op[o].of]
           /\ op[o].kind = "credentials" /\ op[o].of # "git" =>
                /\ disk'.file["key"] = op[o].snap["key"]
                /\ disk'.file["config"] = op[o].snap["config"]
           /\ op[o].kind = "credentials" /\ op[o].of # "codex" =>
                /\ disk'.file["credentials"] = op[o].snap["credentials"]
                /\ disk'.file["gitconfig"] = op[o].snap["gitconfig"]
           /\ op[o].kind = "api" => \A f \in Files : f # op[o].of => disk'.file[f] = disk.file[f]
           /\ op[o].kind = "credentials" =>
                /\ disk'.file["gemini"] = disk.file["gemini"]
                /\ disk'.file["claude"] = disk.file["claude"]
                /\ op[o].of = "git" => /\ disk'.file["key"] = disk.file["key"]
                                       /\ disk'.file["config"] = disk.file["config"]
                /\ op[o].of = "codex" =>
                     /\ disk'.file["credentials"] = disk.file["credentials"]
                     /\ disk'.file["gitconfig"] = disk.file["gitconfig"]
           /\ \A p \in Ids : p # o /\ IsCredentials(p) =>
                \A i \in 1..Len(Paths(p)) : disk'.file[Paths(p)[i]] = disk.file[Paths(p)[i]]
<1>a. Typed /\ RowsShaped /\ CredentialsOnce
  BY DEF ConfigurationInv
<1>t. op \in [Ids -> Rows] /\ disk \in Disks /\ op[o].snap \in [Files -> Revision]
  BY <1>a, RowTypes DEF Typed
<1>g. op[o].at = "writing"
  BY DEF failCredentialFile
<1>s. Shaped(op[o])
  BY <1>a DEF RowsShaped
<1>k. IsCredentials(o)
  BY <1>g, <1>s DEF Shaped, IsCredentials
<1>1. Len(Paths(o)) \in {1, 2, 4} /\ DOMAIN Paths(o) = 1..Len(Paths(o))
  BY <1>s, <1>k, PathsOf
<1>f. restoreCredentialFiles(o) \in [Files -> Revision]
  BY <1>t DEF restoreCredentialFiles, Disks
<1>2. /\ disk' \in Disks /\ disk'.manifest = disk.manifest
      /\ disk'.current = disk.current /\ disk'.installed = disk.installed
      /\ disk'.file = restoreCredentialFiles(o)
  BY <1>t, <1>f DEF Disks, failCredentialFile
<1>3. /\ \A i \in 1..Len(Paths(o)), f \in Files :
           Paths(o)[i] = f => disk'.file[f] = op[o].snap[f]
      /\ \A f \in Files : (\A i \in 1..Len(Paths(o)) : Paths(o)[i] # f) =>
           disk'.file[f] = disk.file[f]
  BY <1>1, <1>2 DEF restoreCredentialFiles
<1>4. \A i \in 1..Len(Paths(o)) :
        /\ op[o].kind = "api" => Paths(o)[i] = op[o].of
        /\ op[o].kind = "credentials" =>
             /\ Paths(o)[i] \in {"key", "config", "credentials", "gitconfig"}
             /\ op[o].of = "codex" => Paths(o)[i] \in {"key", "config"}
             /\ op[o].of = "git" => Paths(o)[i] \in {"credentials", "gitconfig"}
  BY <1>s, <1>k, PathIsFile
<1>5. /\ op[o].kind = "api" => \A f \in Files : f # op[o].of => disk'.file[f] = disk.file[f]
      /\ op[o].kind = "credentials" =>
           /\ disk'.file["gemini"] = disk.file["gemini"]
           /\ disk'.file["claude"] = disk.file["claude"]
           /\ op[o].of = "git" => /\ disk'.file["key"] = disk.file["key"]
                                  /\ disk'.file["config"] = disk.file["config"]
           /\ op[o].of = "codex" =>
                /\ disk'.file["credentials"] = disk.file["credentials"]
                /\ disk'.file["gitconfig"] = disk.file["gitconfig"]
  BY <1>3, <1>4 DEF Files
<1>6. ASSUME NEW p \in Ids, p # o, IsCredentials(p), NEW i \in 1..Len(Paths(p))
      PROVE  disk'.file[Paths(p)[i]] = disk.file[Paths(p)[i]]
  <2>1. \A j \in 1..Len(Paths(o)) : Paths(o)[j] # Paths(p)[i]
    BY <1>a, <1>k, <1>6, PathsApart
  <2>2. Paths(p)[i] \in Files
    BY <1>a, <1>6, PathIsFile DEF RowsShaped
  <2> QED BY <1>3, <2>1, <2>2
<1>7. op[o].kind = "api" => disk'.file[op[o].of] = op[o].snap[op[o].of]
  <2>1. op[o].kind = "api" => 1 \in 1..Len(Paths(o)) /\ Paths(o)[1] = op[o].of /\ op[o].of \in Files
    BY <1>s, <1>k, PathsOf DEF Files
  <2> QED BY <1>3, <2>1
<1>8. op[o].kind = "credentials" => op[o].of \in {"both", "codex", "git"}
  BY <1>s DEF Shaped, Scopes
<1>9. CASE op[o].kind = "credentials" /\ op[o].of = "codex"
  <2>1. /\ 1 \in 1..Len(Paths(o)) /\ 2 \in 1..Len(Paths(o))
        /\ Paths(o)[1] = "key" /\ Paths(o)[2] = "config"
    BY <1>s, <1>k, <1>9, PathsOf
  <2>2. disk'.file["key"] = op[o].snap["key"] /\ disk'.file["config"] = op[o].snap["config"]
    BY <1>3, <2>1 DEF Files
  <2> QED BY <1>k, <1>g, <1>2, <1>5, <1>6, <1>9, <2>2
<1>10. CASE op[o].kind = "credentials" /\ op[o].of = "git"
  <2>1. /\ 1 \in 1..Len(Paths(o)) /\ 2 \in 1..Len(Paths(o))
        /\ Paths(o)[1] = "credentials" /\ Paths(o)[2] = "gitconfig"
    BY <1>s, <1>k, <1>10, PathsOf
  <2>2. /\ disk'.file["credentials"] = op[o].snap["credentials"]
        /\ disk'.file["gitconfig"] = op[o].snap["gitconfig"]
    BY <1>3, <2>1 DEF Files
  <2> QED BY <1>k, <1>g, <1>2, <1>5, <1>6, <1>10, <2>2
<1>11. CASE op[o].kind = "credentials" /\ op[o].of = "both"
  <2>1. /\ 1 \in 1..Len(Paths(o)) /\ 2 \in 1..Len(Paths(o))
        /\ 3 \in 1..Len(Paths(o)) /\ 4 \in 1..Len(Paths(o))
        /\ Paths(o)[1] = "key" /\ Paths(o)[2] = "config"
        /\ Paths(o)[3] = "credentials" /\ Paths(o)[4] = "gitconfig"
    BY <1>s, <1>k, <1>11, PathsOf
  <2>2. /\ disk'.file["key"] = op[o].snap["key"] /\ disk'.file["config"] = op[o].snap["config"]
        /\ disk'.file["credentials"] = op[o].snap["credentials"]
        /\ disk'.file["gitconfig"] = op[o].snap["gitconfig"]
    BY <1>3, <2>1 DEF Files
  <2> QED BY <1>k, <1>g, <1>2, <1>5, <1>6, <1>11, <2>2
<1>12. CASE op[o].kind = "api"
  BY <1>k, <1>g, <1>2, <1>5, <1>6, <1>7, <1>12
<1> QED BY <1>k, <1>8, <1>9, <1>10, <1>11, <1>12 DEF IsCredentials

\* A failed update leaves the files as it found them.
LEMMA RestoreKeeps ==
    ASSUME ConfigurationInv, NEW o \in Ids, failCredentialFile(o)
    PROVE  ConfigurationInv'
<1>a. /\ Typed /\ RowsShaped /\ IdleUnlessConnected /\ UpdateAlone /\ UntriedIsPending
      /\ InstallsInOrder /\ CliAsRecorded /\ ReservedOrRunning /\ TurnKeepsItsConfiguration
      /\ CredentialsOnce /\ WrittenIsThere /\ SecretsFollow /\ ProfilesThere
      /\ BoundUntilWritten /\ KeysUntilWritten
  BY DEF ConfigurationInv
<1>t. /\ op \in [Ids -> Rows] /\ disk \in Disks /\ agent \in Processes /\ cp \in Planes
      /\ past \in Histories
  BY <1>a DEF Typed
<1>d.
           /\ IsCredentials(o) /\ op[o].at = "writing"
           /\ disk' \in Disks /\ disk'.manifest = disk.manifest
           /\ disk'.current = disk.current /\ disk'.installed = disk.installed
           /\ op[o].kind = "api" => disk'.file[op[o].of] = op[o].snap[op[o].of]
           /\ op[o].kind = "credentials" /\ op[o].of # "git" =>
                /\ disk'.file["key"] = op[o].snap["key"]
                /\ disk'.file["config"] = op[o].snap["config"]
           /\ op[o].kind = "credentials" /\ op[o].of # "codex" =>
                /\ disk'.file["credentials"] = op[o].snap["credentials"]
                /\ disk'.file["gitconfig"] = op[o].snap["gitconfig"]
           /\ op[o].kind = "api" => \A f \in Files : f # op[o].of => disk'.file[f] = disk.file[f]
           /\ op[o].kind = "credentials" =>
                /\ disk'.file["gemini"] = disk.file["gemini"]
                /\ disk'.file["claude"] = disk.file["claude"]
                /\ op[o].of = "git" => /\ disk'.file["key"] = disk.file["key"]
                                       /\ disk'.file["config"] = disk.file["config"]
                /\ op[o].of = "codex" =>
                     /\ disk'.file["credentials"] = disk.file["credentials"]
                     /\ disk'.file["gitconfig"] = disk.file["gitconfig"]
           /\ \A p \in Ids : p # o /\ IsCredentials(p) =>
                \A i \in 1..Len(Paths(p)) : disk'.file[Paths(p)[i]] = disk.file[Paths(p)[i]]
  BY Restored
<1>e. /\ disk' \in Disks /\ disk'.manifest = disk.manifest /\ disk'.current = disk.current
      /\ disk'.installed = disk.installed
  BY <1>d
<1>g. op[o].at = "writing" /\ UNCHANGED <<cp, agent>> /\ agent.phase = "connected"
      /\ Shaped(op[o]) /\ op[o].kind \in {"credentials", "api"}
  BY <1>a, <1>d DEF failCredentialFile, IdleUnlessConnected, RowsShaped, IsCredentials
<1>h. /\ past' \in Histories /\ past'.tries = past.tries /\ past'.deleted = past.deleted
      /\ past'.torn = past.torn
  BY <1>t DEF failCredentialFile, Fault, Histories
<1>m. Becomes(o, "ended", 0, FALSE, NoConf, NoFiles)
  BY <1>t, EndedAs DEF failCredentialFile
<1>n. /\ ~Wrote(o) /\ ~Wrote(o)' /\ ~Began(o)'
      /\ \A p \in Ids : p # o => op'[p] = op[p] /\ (Wrote(p)' <=> Wrote(p)) /\ (Began(p)' <=> Began(p))
      /\ op[o].kind = "credentials" => \A p \in Ids : op[p].kind = "credentials" => p = o
  BY <1>a, <1>g, <1>m DEF Wrote, Began, Becomes, Shaped, CredentialsOnce
<1>typed. Typed'
  BY <1>t, <1>g, <1>m, <1>e, <1>h DEF Typed, Becomes
<1>shaped. RowsShaped'
  BY <1>a, <1>g, <1>m DEF RowsShaped, Shaped, Installing, Becomes
<1>idle. IdleUnlessConnected'
  BY <1>a, <1>g, <1>m DEF IdleUnlessConnected, Becomes
<1>alone. UpdateAlone'
  BY <1>a, <1>g, <1>m DEF UpdateAlone, Becomes
<1>tried. UntriedIsPending'
  BY <1>a, <1>g, <1>e, <1>h DEF UntriedIsPending
<1>installs. InstallsInOrder'
  BY <1>a, <1>g, <1>e, <1>m DEF InstallsInOrder, Installing, Becomes
<1>recorded. CliAsRecorded'
  BY <1>a, <1>g, <1>m, <1>e DEF CliAsRecorded, Becomes
<1>excluded. ReservedOrRunning'
  BY <1>a, <1>g, <1>m DEF ReservedOrRunning, Reconfiguring, IsInstall, Installing, Becomes
<1>kept. TurnKeepsItsConfiguration'
  <2>1. ASSUME NEW p \in Ids, op'[p].kind = "turn", op'[p].at = "running"
        PROVE  /\ op'[p].conf = Configuration(op[p].of)'
               /\ op'[p].of # "claude" => disk'.current[op'[p].of] = op'[p].conf.cli
               /\ op'[p].of = "codex" => disk'.file["key"] = op'[p].conf.secret
    <3>1. p # o /\ op'[p] = op[p]
      BY <2>1, <1>m, <1>g DEF Becomes
    <3>2. /\ op[p].conf = Configuration(op[p].of)
          /\ op[p].of # "claude" => disk.current[op[p].of] = op[p].conf.cli
          /\ op[p].of = "codex" => disk.file["key"] = op[p].conf.secret
          /\ op[p].of \in Clis /\ ~Reconfiguring(op[p].of)
      BY <1>a, <2>1, <3>1 DEF TurnKeepsItsConfiguration, ReservedOrRunning, RowsShaped, Shaped
    <3>3. /\ op[o].kind = "api" => op[p].of # op[o].of
          /\ op[o].kind = "credentials" /\ op[o].of # "git" => op[p].of # "codex"
      BY <3>2, <1>g DEF Reconfiguring, Shaped
    <3>4. /\ Configuration(op[p].of)' = Configuration(op[p].of)
          /\ op[p].of # "claude" => disk'.current[op[p].of] = disk.current[op[p].of]
          /\ op[p].of = "codex" => disk'.file["key"] = disk.file["key"]
      <4>1. op[p].of = "claude" => disk'.file["claude"] = disk.file["claude"]
        BY <1>d, <1>g, <3>3 DEF Files
      <4>2. op[p].of = "codex" => disk'.file["key"] = disk.file["key"]
        BY <1>d, <1>g, <3>3 DEF Files, Shaped, Scopes
      <4> QED BY <1>g, <1>d, <3>1, <3>2, <4>1, <4>2 DEF Configuration, effectivePath
    <3> QED BY <3>1, <3>2, <3>4
  <2> QED BY <2>1 DEF TurnKeepsItsConfiguration
<1>once. CredentialsOnce'
  BY <1>a, <1>g, <1>m DEF CredentialsOnce, Becomes
<1>written. WrittenIsThere'
  <2> SUFFICES ASSUME NEW p \in Ids, op'[p].kind \in {"credentials", "api"}
               PROVE  /\ op'[p].at = "writing" => op'[p].step < Len(Paths(p)')
                      /\ op'[p].at = "writing" =>
                           \A i \in 1..op'[p].step :
                              disk'.file[Paths(p)'[i]] = Value(p, Paths(p)[i])'
                      /\ Wrote(p)' => \A i \in 1..Len(Paths(p)') :
                                        disk'.file[Paths(p)'[i]] = Value(p, Paths(p)[i])'
    BY DEF WrittenIsThere
  <2>0. Paths(p)' = Paths(p) /\ \A i : Value(p, Paths(p)[i])' = Value(p, Paths(p)[i])
    BY <1>m DEF Paths, Value, Becomes
  <2>1. CASE p = o
    BY <1>n, <1>m, <2>1 DEF Becomes
  <2>2. CASE p # o
    <3>1. op'[p] = op[p] /\ IsCredentials(p)
      BY <1>m, <2>2 DEF Becomes, IsCredentials
    <3>2. Len(Paths(p)) \in {1, 2, 4}
      BY <1>a, <3>1, PathsOf DEF RowsShaped
    <3>3. /\ op[p].at = "writing" => op[p].step < Len(Paths(p))
          /\ op[p].at = "writing" =>
               \A i \in 1..op[p].step : disk.file[Paths(p)[i]] = Value(p, Paths(p)[i])
          /\ Wrote(p) => \A i \in 1..Len(Paths(p)) :
                 disk.file[Paths(p)[i]] = Value(p, Paths(p)[i])
      BY <1>a, <3>1 DEF WrittenIsThere, IsCredentials
    <3>4. \A i \in 1..Len(Paths(p)) : disk'.file[Paths(p)[i]] = disk.file[Paths(p)[i]]
      BY <1>d, <2>2, <3>1
    <3>5. Wrote(p)' <=> Wrote(p)
      BY <3>1 DEF Wrote
    <3>6. op[p].step \in Nat
      BY <1>t, RowTypes
    <3>7. op[p].at = "writing" => 1..op[p].step \subseteq 1..Len(Paths(p))
      BY <3>2, <3>3, <3>6
    <3> QED BY <2>0, <3>1, <3>3, <3>4, <3>5, <3>7
  <2> QED BY <2>1, <2>2
<1>secrets. SecretsFollow'
  <2>1. \/ agent'.secret["codex"] = disk'.file["key"]
        \/ \E p \in Ids : WritesKey(p)'
    <3>1. CASE op[o].kind = "credentials" /\ op[o].of # "git"
      <4>1. op[o].snap["key"] = agent.secret["codex"]
        BY <1>a, <1>g, <3>1 DEF SecretsFollow, WritesKey
      <4> QED BY <1>g, <1>d, <3>1, <4>1
    <3>2. CASE ~(op[o].kind = "credentials" /\ op[o].of # "git")
      <4>1. disk'.file["key"] = disk.file["key"]
        BY <1>g, <1>d, <3>2 DEF Shaped, Files
      <4>2. \A p \in Ids : WritesKey(p) => WritesKey(p)'
        BY <1>n, <3>2 DEF WritesKey
      <4> QED BY <1>a, <1>g, <4>1, <4>2 DEF SecretsFollow
    <3> QED BY <3>1, <3>2
  <2>2. ASSUME NEW p \in Ids, WritesKey(p)', op'[p].at = "writing"
        PROVE  op'[p].snap["key"] = agent'.secret["codex"]
    <3>1. p # o /\ op'[p] = op[p] /\ WritesKey(p)
      BY <1>n, <1>m, <2>2 DEF WritesKey, Becomes
    <3> QED BY <1>a, <1>g, <2>2, <3>1 DEF SecretsFollow
  <2>3. \/ agent'.secret["gemini"] = disk'.file["gemini"]
        \/ \E p \in Ids : op'[p].kind = "api" /\ op'[p].of = "gemini" /\ op'[p].at = "written"
    <3>1. disk'.file["gemini"] = disk.file["gemini"]
      BY <1>a, <1>g, <1>d DEF SecretsFollow, Files
    <3>2. \/ agent.secret["gemini"] = disk.file["gemini"]
          \/ \E p \in Ids : op[p].kind = "api" /\ op[p].of = "gemini" /\ op[p].at = "written"
      BY <1>a, <1>g DEF SecretsFollow
    <3> QED BY <1>g, <1>n, <3>1, <3>2
  <2>4. ASSUME NEW p \in Ids, op'[p].kind = "api", op'[p].at = "writing"
        PROVE  op'[p].snap[op'[p].of] = disk'.file[op'[p].of]
    <3>1. p # o /\ op'[p] = op[p]
      BY <1>n, <1>m, <2>4 DEF Becomes
    <3>2. op[p].snap[op[p].of] = disk.file[op[p].of] /\ op[p].of \in {"gemini", "claude"}
      BY <1>a, <2>4, <3>1 DEF SecretsFollow, RowsShaped, Shaped
    <3>3. disk'.file[op[p].of] = disk.file[op[p].of]
      BY <1>a, <1>g, <1>d, <3>2 DEF SecretsFollow, Files
    <3> QED BY <3>1, <3>2, <3>3
  <2> QED BY <2>1, <2>2, <2>3, <2>4 DEF SecretsFollow
<1>profiles. ProfilesThere'
  BY <1>a, <1>g, <1>h DEF ProfilesThere
<1>bound. BoundUntilWritten'
  <2>1. ASSUME "credentials" \notin past.torn
        PROVE  /\ CodexBound(disk.file)' \/ \E p \in Ids :
                      op'[p].kind = "credentials" /\ op'[p].of # "git" /\ Began(p)'
               /\ GitBound(disk.file)' \/ \E p \in Ids :
                      op'[p].kind = "credentials" /\ op'[p].of # "codex" /\ Began(p)'
    <3>1. CASE op[o].kind = "credentials"
      <4>1. /\ op[o].of # "git" => CodexBound(op[o].snap)
            /\ op[o].of # "codex" => GitBound(op[o].snap)
        BY <1>a, <1>g, <2>1, <3>1 DEF BoundUntilWritten
      <4>2. op[o].of = "git" => CodexBound(disk.file)
        BY <1>a, <1>n, <2>1, <3>1 DEF BoundUntilWritten
      <4>3. op[o].of = "codex" => GitBound(disk.file)
        BY <1>a, <1>n, <2>1, <3>1 DEF BoundUntilWritten
      <4> QED BY <1>g, <1>d, <1>h, <3>1, <4>1, <4>2, <4>3 DEF CodexBound, GitBound
    <3>2. CASE op[o].kind = "api"
      <4>1. /\ CodexBound(disk.file) => CodexBound(disk.file)'
            /\ GitBound(disk.file) => GitBound(disk.file)'
        BY <1>g, <1>d, <1>h, <3>2 DEF CodexBound, GitBound, Files, Shaped
      <4>2. \A p \in Ids : op[p].kind = "credentials" =>
                  op'[p] = op[p] /\ (Began(p)' <=> Began(p))
        BY <1>n, <3>2
      <4> QED BY <1>a, <2>1, <4>1, <4>2 DEF BoundUntilWritten
    <3> QED BY <1>g, <3>1, <3>2
  <2>2. \A p \in Ids : op'[p].at = "writing" => op'[p] = op[p]
    BY <1>n, <1>m DEF Becomes
  <2>3. \A p \in Ids : op'[p].at = "writing" =>
          /\ CodexBound(op[p].snap)' <=> CodexBound(op[p].snap)
          /\ GitBound(op[p].snap)' <=> GitBound(op[p].snap)
    BY <1>g, <1>h, <2>2 DEF CodexBound, GitBound
  <2>4. "credentials" \notin past.torn =>
          \A p \in Ids : op'[p].kind = "credentials" /\ op'[p].at = "writing" =>
             /\ op'[p].of # "git" => CodexBound(op[p].snap)'
             /\ op'[p].of # "codex" => GitBound(op[p].snap)'
    BY <1>a, <2>2, <2>3 DEF BoundUntilWritten
  <2> QED BY <1>h, <2>1, <2>4 DEF BoundUntilWritten
<1>keys. KeysUntilWritten'
  <2>1. \A k \in {"gemini", "claude"} : disk'.file[k] = disk.file[k]
    BY <1>a, <1>g, <1>d DEF SecretsFollow, Files
  <2>2. \A p \in Ids : Wrote(p) => op'[p] = op[p] /\ Wrote(p)'
    BY <1>n
  <2> QED BY <1>a, <1>g, <1>h, <2>1, <2>2 DEF KeysUntilWritten
<1> QED BY <1>typed, <1>shaped, <1>idle, <1>alone, <1>tried, <1>installs, <1>recorded,
           <1>excluded, <1>kept, <1>once, <1>written, <1>secrets, <1>profiles, <1>bound, <1>keys
        DEF ConfigurationInv

-----------------------------------------------------------------------------
(* Turns, and the update of the Agent *)

\* A turn starts where nothing changes its configuration.
LEMMA StartKeeps ==
    ASSUME ConfigurationInv, NEW o \in Ids, op[o].kind = "turn", op[o].at = "seen",
           ~agent.pending, ~Reconfiguring(op[o].of),
           op' = [op EXCEPT ![o].at = "running", ![o].conf = Configuration(op[o].of)],
           UNCHANGED <<cp, disk, agent, past>>
    PROVE  ConfigurationInv'
<1>a. /\ Typed /\ RowsShaped /\ IdleUnlessConnected /\ UpdateAlone /\ UntriedIsPending
      /\ InstallsInOrder /\ CliAsRecorded /\ ReservedOrRunning /\ TurnKeepsItsConfiguration
      /\ CredentialsOnce /\ WrittenIsThere /\ SecretsFollow /\ ProfilesThere
      /\ BoundUntilWritten /\ KeysUntilWritten
  BY DEF ConfigurationInv
<1>t. /\ op \in [Ids -> Rows] /\ disk \in Disks /\ agent \in Processes /\ cp \in Planes
      /\ past \in Histories
  BY <1>a DEF Typed
<1>s. Shaped(op[o]) /\ agent.phase = "connected"
  BY <1>a DEF RowsShaped, IdleUnlessConnected
<1>v. op[o].of \in Clis /\ Configuration(op[o].of) \in [cli : Nat, secret : Nat]
  <2>1. op[o].of \in Clis
    BY <1>s DEF Shaped
  <2>2. /\ disk.current \in [Clis -> Version] /\ disk.file \in [Files -> Revision]
        /\ agent.command \in [{"codex", "gemini"} -> Version]
        /\ agent.secret \in [{"codex", "gemini"} -> Revision]
    BY <1>t DEF Disks, Processes
  <2>3. CASE op[o].of = "claude"
    BY <2>2, <2>3 DEF Configuration, effectivePath, Clis, Files, Version, Revision
  <2>4. CASE op[o].of \in {"codex", "gemini"}
    <3>1. agent.command[op[o].of] \in Nat /\ agent.secret[op[o].of] \in Nat
      BY <2>2, <2>4, ConfigurationAssumption DEF Version, Revision
    <3>2. op[o].of # "claude"
      BY <2>4
    <3>3. Configuration(op[o].of) = [cli |-> agent.command[op[o].of],
                                     secret |-> agent.secret[op[o].of]]
      BY <3>2 DEF Configuration
    <3> QED BY <2>1, <3>1, <3>3
  <2> QED BY <2>1, <2>3, <2>4 DEF Clis
<1>m. Becomes(o, "running", op[o].step, op[o].ok, Configuration(op[o].of), op[o].snap)
  BY <1>t, <1>v, RunsWith
<1>typed. Typed'
  BY <1>a, <1>t, <1>s, <1>m DEF Typed, Becomes
<1>shaped. RowsShaped'
  BY <1>a, <1>s, <1>m DEF RowsShaped, Shaped, Installing, Becomes
<1>idle. IdleUnlessConnected'
  BY <1>a, <1>s, <1>m DEF IdleUnlessConnected, Becomes
<1>alone. UpdateAlone'
  BY <1>a, <1>s, <1>m DEF UpdateAlone, Becomes
<1>tried. UntriedIsPending'
  BY <1>a, <1>s, <1>m DEF UntriedIsPending, Becomes
<1>installs. InstallsInOrder'
  BY <1>a, <1>s, <1>m DEF InstallsInOrder, Installing, Becomes
<1>recorded. CliAsRecorded'
  BY <1>a, <1>s, <1>m DEF CliAsRecorded, Becomes
<1>excluded. ReservedOrRunning'
  BY <1>a, <1>s, <1>m DEF ReservedOrRunning, Reconfiguring, IsInstall, Installing, Becomes
<1>kept. TurnKeepsItsConfiguration'
  <2>1. \A k : Configuration(k)' = Configuration(k)
    BY DEF Configuration, effectivePath
  <2>2. op[o].of # "claude" => disk.current[op[o].of] = agent.command[op[o].of]
    <3>1. \A p \in Ids : op[p].of = op[o].of => op[p].at # "switched"
      BY <1>a DEF RowsShaped, Shaped, Reconfiguring, IsInstall, Installing
    <3> QED BY <1>a, <1>s, <1>v, <3>1 DEF CliAsRecorded, Clis
  <2>3. op[o].of = "codex" => disk.file["key"] = agent.secret["codex"]
    <3>1. op[o].of = "codex" => \A p \in Ids : ~WritesKey(p)
      BY DEF Reconfiguring, WritesKey
    <3> QED BY <1>a, <1>s, <3>1 DEF SecretsFollow
  <2>4. ASSUME NEW p \in Ids, op'[p].kind = "turn", op'[p].at = "running"
        PROVE  /\ op'[p].conf = Configuration(op[p].of)'
               /\ op'[p].of # "claude" => disk'.current[op'[p].of] = op'[p].conf.cli
               /\ op'[p].of = "codex" => disk'.file["key"] = op'[p].conf.secret
    <3>1. CASE p = o
      <4>1. /\ op'[p].conf = Configuration(op[o].of) /\ op'[p].of = op[o].of
        BY <1>m, <3>1 DEF Becomes
      <4>2. op[o].of # "claude" => Configuration(op[o].of) = [cli |-> agent.command[op[o].of], secret |-> agent.secret[op[o].of]]
        BY DEF Configuration
      <4> QED BY <2>1, <2>2, <2>3, <3>1, <4>1, <4>2
    <3>2. CASE p # o
      <4>1. op'[p] = op[p]
        BY <1>m, <3>2 DEF Becomes
      <4> QED BY <1>a, <2>1, <2>4, <4>1 DEF TurnKeepsItsConfiguration
    <3> QED BY <3>1, <3>2
  <2>5. \A p \in Ids : op'[p].of = op[p].of
    BY <1>m DEF Becomes
  <2> QED BY <2>4, <2>5 DEF TurnKeepsItsConfiguration
<1>once. CredentialsOnce'
  BY <1>a, <1>s, <1>m DEF CredentialsOnce, Becomes
<1>written. WrittenIsThere'
  <2>1. op[o].kind \notin {"credentials", "api"}
    BY <1>s DEF Shaped, Installing, IsInstall
  <2>2. \A p \in Ids : /\ op'[p].kind = op[p].kind
                       /\ op[p].kind \in {"credentials", "api"} => op'[p] = op[p]
    BY <1>m, <2>1 DEF Becomes
  <2>3. disk'.file = disk.file
    OBVIOUS
  <2> QED BY <1>a, <2>2, <2>3, WrittenKept
<1>secrets. SecretsFollow'
  BY <1>a, <1>s, <1>m DEF SecretsFollow, WritesKey, Becomes
<1>profiles. ProfilesThere'
  BY <1>a, <1>s, <1>m DEF ProfilesThere, Becomes
<1>bound. BoundUntilWritten'
  BY <1>a, <1>s, <1>m DEF BoundUntilWritten, Began, Wrote, CodexBound, GitBound, Becomes
<1>keys. KeysUntilWritten'
  BY <1>a, <1>s, <1>m DEF KeysUntilWritten, Wrote, Becomes
<1> QED BY <1>typed, <1>shaped, <1>idle, <1>alone, <1>tried, <1>installs, <1>recorded,
           <1>excluded, <1>kept, <1>once, <1>written, <1>secrets, <1>profiles, <1>bound, <1>keys
        DEF ConfigurationInv

\* An update is staged while no Gemini or Claude turn is unfinished.
LEMMA StageKeeps ==
    ASSUME ConfigurationInv, NEW o \in Ids, op[o].kind = "update", op[o].at = "seen",
           ~agent.pending, ~UnfinishedTurn, op' = [op EXCEPT ![o].at = "staging"],
           agent' = [agent EXCEPT !.pending = TRUE], UNCHANGED <<cp, disk, past>>
    PROVE  ConfigurationInv'
<1>a. /\ Typed /\ RowsShaped /\ IdleUnlessConnected /\ UpdateAlone /\ UntriedIsPending
      /\ InstallsInOrder /\ CliAsRecorded /\ ReservedOrRunning /\ TurnKeepsItsConfiguration
      /\ CredentialsOnce /\ WrittenIsThere /\ SecretsFollow /\ ProfilesThere
      /\ BoundUntilWritten /\ KeysUntilWritten
  BY DEF ConfigurationInv
<1>t. /\ op \in [Ids -> Rows] /\ disk \in Disks /\ agent \in Processes /\ cp \in Planes
      /\ past \in Histories
  BY <1>a DEF Typed
<1>s. Shaped(op[o]) /\ agent.phase = "connected"
  BY <1>a DEF RowsShaped, IdleUnlessConnected
<1>m. Becomes(o, "staging", op[o].step, op[o].ok, op[o].conf, op[o].snap)
  BY <1>t, MovedTo DEF Places
<1>d. /\ agent' \in Processes /\ agent'.pending = TRUE /\ agent'.phase = agent.phase
      /\ agent'.restart = agent.restart /\ agent'.command = agent.command
      /\ agent'.secret = agent.secret
  BY <1>t DEF Processes
<1>n. \A p \in Ids : op[p].kind = "turn" /\ op[p].of # "codex" => op[p].at # "running"
  BY DEF UnfinishedTurn, Executing
<1>typed. Typed'
  BY <1>a, <1>t, <1>s, <1>m, <1>d DEF Typed, Becomes
<1>shaped. RowsShaped'
  BY <1>a, <1>s, <1>m, <1>d DEF RowsShaped, Shaped, Installing, Becomes
<1>idle. IdleUnlessConnected'
  BY <1>a, <1>s, <1>m, <1>d DEF IdleUnlessConnected, Becomes
<1>alone. UpdateAlone'
  BY <1>a, <1>s, <1>m, <1>d, <1>n DEF UpdateAlone, Becomes
<1>tried. UntriedIsPending'
  BY <1>a, <1>s, <1>m, <1>d DEF UntriedIsPending, Becomes
<1>installs. InstallsInOrder'
  BY <1>a, <1>s, <1>m, <1>d DEF InstallsInOrder, Installing, Becomes
<1>recorded. CliAsRecorded'
  BY <1>a, <1>s, <1>m, <1>d DEF CliAsRecorded, Becomes
<1>excluded. ReservedOrRunning'
  BY <1>a, <1>s, <1>m, <1>d DEF ReservedOrRunning, Reconfiguring, IsInstall, Installing, Becomes
<1>kept. TurnKeepsItsConfiguration'
  BY <1>a, <1>s, <1>m, <1>d DEF TurnKeepsItsConfiguration, Configuration, effectivePath, Becomes
<1>once. CredentialsOnce'
  BY <1>a, <1>s, <1>m, <1>d DEF CredentialsOnce, Becomes
<1>written. WrittenIsThere'
  <2>1. op[o].kind \notin {"credentials", "api"}
    BY <1>s DEF Shaped, Installing, IsInstall
  <2>2. \A p \in Ids : /\ op'[p].kind = op[p].kind
                       /\ op[p].kind \in {"credentials", "api"} => op'[p] = op[p]
    BY <1>m, <2>1 DEF Becomes
  <2>3. disk'.file = disk.file
    BY <1>d
  <2> QED BY <1>a, <2>2, <2>3, WrittenKept
<1>secrets. SecretsFollow'
  BY <1>a, <1>s, <1>m, <1>d DEF SecretsFollow, WritesKey, Becomes
<1>profiles. ProfilesThere'
  BY <1>a, <1>s, <1>m, <1>d DEF ProfilesThere, Becomes
<1>bound. BoundUntilWritten'
  BY <1>a, <1>s, <1>m, <1>d DEF BoundUntilWritten, Began, Wrote, CodexBound, GitBound, Becomes
<1>keys. KeysUntilWritten'
  BY <1>a, <1>s, <1>m, <1>d DEF KeysUntilWritten, Wrote, Becomes
<1> QED BY <1>typed, <1>shaped, <1>idle, <1>alone, <1>tried, <1>installs, <1>recorded,
           <1>excluded, <1>kept, <1>once, <1>written, <1>secrets, <1>profiles, <1>bound, <1>keys
        DEF ConfigurationInv

\* The package is there, and the Agent is about to restart into it; or it is not,
\* and nothing is pending.
LEMMA DownloadKeeps ==
    ASSUME ConfigurationInv, NEW o \in Ids, downloadAgentUpdate(o)
    PROVE  ConfigurationInv'
<1>a. /\ Typed /\ RowsShaped /\ IdleUnlessConnected /\ UpdateAlone /\ UntriedIsPending
      /\ InstallsInOrder /\ CliAsRecorded /\ ReservedOrRunning /\ TurnKeepsItsConfiguration
      /\ CredentialsOnce /\ WrittenIsThere /\ SecretsFollow /\ ProfilesThere
      /\ BoundUntilWritten /\ KeysUntilWritten
  BY DEF ConfigurationInv
<1>t. /\ op \in [Ids -> Rows] /\ disk \in Disks /\ agent \in Processes /\ cp \in Planes
      /\ past \in Histories
  BY <1>a DEF Typed
<1>g. op[o].at = "staging" /\ cp' = cp /\ agent.phase = "connected" /\ Shaped(op[o])
      /\ op[o].kind = "update" /\ op[o].version \in Release
  BY <1>a DEF downloadAgentUpdate, IdleUnlessConnected, RowsShaped, Shaped
<1>b. PICK b \in BOOLEAN :
           /\ op' = Ended(o, b)
           /\ b => /\ disk' = [disk EXCEPT !.staged = @ \cup {op[o].version},
                                            !.manifest = Pending(op[o].version)]
                   /\ agent' = [agent EXCEPT !.restart = op[o].version]
                   /\ past' = [past EXCEPT !.tries = 0]
           /\ ~b => /\ agent' = [agent EXCEPT !.pending = FALSE]
                    /\ UNCHANGED <<disk, past>>
  BY DEF downloadAgentUpdate
<1>m. Becomes(o, "ended", 0, b, NoConf, NoFiles)
  BY <1>t, <1>b, EndedAs
<1>d. /\ disk' \in Disks /\ disk'.current = disk.current /\ disk'.installed = disk.installed
      /\ disk'.file = disk.file
      /\ b => disk'.manifest = [version |-> op[o].version, state |-> "pending"]
      /\ ~b => disk'.manifest = disk.manifest
  <2>1. CASE b
    <3>1. Pending(op[o].version) \in Manifests
      BY <1>g, ConfigurationAssumption DEF Pending, Manifests, Release
    <3>2. PICK m \in Manifests : m = Pending(op[o].version)
      BY <3>1
    <3>3. disk' = [disk EXCEPT !.staged = @ \cup {op[o].version}, !.manifest = m]
      BY <1>b, <2>1, <3>2
    <3>4. /\ disk' \in Disks /\ disk'.current = disk.current
          /\ disk'.installed = disk.installed /\ disk'.file = disk.file
          /\ disk'.manifest = m
      BY <1>t, <1>g, <3>3 DEF Disks
    <3>5. m = [version |-> op[o].version, state |-> "pending"]
      BY <3>2 DEF Pending
    <3> QED BY <2>1, <3>4, <3>5
  <2>2. CASE ~b
    BY <1>t, <1>b, <2>2
  <2> QED BY <2>1, <2>2
<1>e. /\ agent' \in Processes /\ agent'.phase = agent.phase /\ agent'.command = agent.command
      /\ agent'.secret = agent.secret
      /\ b => agent'.restart = op[o].version /\ agent'.pending = agent.pending
      /\ ~b => agent'.restart = agent.restart /\ agent'.pending = FALSE
  BY <1>t, <1>g, <1>b DEF Processes
<1>h. /\ past' \in Histories /\ past'.deleted = past.deleted /\ past'.torn = past.torn
      /\ b => past'.tries = 0
      /\ ~b => past'.tries = past.tries
  BY <1>t, <1>b DEF Histories
<1>k. /\ op[o].kind \notin {"credentials", "api"} /\ op'[o].kind = op[o].kind
      /\ \A p \in Ids : p # o => op'[p] = op[p]
  BY <1>g, <1>m DEF Becomes
<1>typed. Typed'
  BY <1>a, <1>t, <1>g, <1>m, <1>d, <1>e, <1>h DEF Typed, Becomes
<1>shaped. RowsShaped'
  BY <1>a, <1>g, <1>m DEF RowsShaped, Shaped, Installing, Becomes
<1>idle. IdleUnlessConnected'
  BY <1>a, <1>g, <1>m, <1>d, <1>e DEF IdleUnlessConnected, Becomes
<1>alone. UpdateAlone'
  <2>1. \A p \in Ids : p # o => op'[p] = op[p] /\ op[p].at # "staging"
    BY <1>a, <1>g, <1>m DEF UpdateAlone, Becomes
  <2>2. op'[o].at = "ended" /\ agent.pending /\ agent.restart = 0
    BY <1>a, <1>g, <1>m DEF UpdateAlone, Becomes
  <2> QED BY <1>a, <1>e, <2>1, <2>2 DEF UpdateAlone
<1>tried. UntriedIsPending'
  <2>1. agent.restart = 0 /\ op[o].version # 0
    BY <1>a, <1>g, ConfigurationAssumption DEF UpdateAlone, Release
  <2> QED BY <1>a, <1>d, <1>e, <1>h, <2>1 DEF UntriedIsPending
<1>installs. InstallsInOrder'
  BY <1>a, <1>g, <1>m, <1>d, <1>e DEF InstallsInOrder, Installing, Becomes
<1>recorded. CliAsRecorded'
  BY <1>a, <1>g, <1>m, <1>d, <1>e DEF CliAsRecorded, Becomes
<1>excluded. ReservedOrRunning'
  BY <1>a, <1>g, <1>m, <1>d, <1>e
     DEF ReservedOrRunning, Reconfiguring, IsInstall, Installing, Becomes
<1>kept. TurnKeepsItsConfiguration'
  <2>1. ASSUME NEW p \in Ids, op'[p].kind = "turn", op'[p].at = "running"
        PROVE  /\ op'[p].conf = Configuration(op[p].of)'
               /\ op'[p].of # "claude" => disk'.current[op'[p].of] = op'[p].conf.cli
               /\ op'[p].of = "codex" => disk'.file["key"] = op'[p].conf.secret
    <3>1. p # o /\ op'[p] = op[p]
      BY <2>1, <1>m, <1>g DEF Becomes
    <3>2. /\ op[p].conf = Configuration(op[p].of)
          /\ op[p].of # "claude" => disk.current[op[p].of] = op[p].conf.cli
          /\ op[p].of = "codex" => disk.file["key"] = op[p].conf.secret
          /\ op[p].of \in Clis /\ ~Reconfiguring(op[p].of)
      BY <1>a, <2>1, <3>1 DEF TurnKeepsItsConfiguration, ReservedOrRunning, RowsShaped, Shaped
    <3>4. /\ Configuration(op[p].of)' = Configuration(op[p].of)
          /\ op[p].of # "claude" => disk'.current[op[p].of] = disk.current[op[p].of]
          /\ op[p].of = "codex" => disk'.file["key"] = disk.file["key"]
      BY <1>d, <1>e, <3>1 DEF Configuration, effectivePath
    <3> QED BY <3>1, <3>2, <3>4
  <2> QED BY <2>1 DEF TurnKeepsItsConfiguration
<1>once. CredentialsOnce'
  BY <1>a, <1>g, <1>m, <1>d, <1>e DEF CredentialsOnce, Becomes
<1>written. WrittenIsThere'
  <2> SUFFICES ASSUME NEW p \in Ids, op'[p].kind \in {"credentials", "api"}
               PROVE  /\ op'[p].at = "writing" => op'[p].step < Len(Paths(p)')
                      /\ op'[p].at = "writing" =>
                           \A i \in 1..op'[p].step :
                              disk'.file[Paths(p)'[i]] = Value(p, Paths(p)[i])'
                      /\ Wrote(p)' => \A i \in 1..Len(Paths(p)') :
                                        disk'.file[Paths(p)'[i]] = Value(p, Paths(p)[i])'
    BY DEF WrittenIsThere
  <2>0. Paths(p)' = Paths(p) /\ \A i : Value(p, Paths(p)[i])' = Value(p, Paths(p)[i])
    BY <1>m DEF Paths, Value, Becomes
  <2>1. CASE p = o
    BY <1>g, <1>k, <2>1
  <2>2. CASE p # o
    <3>1. op'[p] = op[p] /\ IsCredentials(p)
      BY <1>m, <2>2 DEF Becomes, IsCredentials
    <3>2. Len(Paths(p)) \in {1, 2, 4}
      BY <1>a, <3>1, PathsOf DEF RowsShaped
    <3>3. /\ op[p].at = "writing" => op[p].step < Len(Paths(p))
          /\ op[p].at = "writing" =>
               \A i \in 1..op[p].step : disk.file[Paths(p)[i]] = Value(p, Paths(p)[i])
          /\ Wrote(p) => \A i \in 1..Len(Paths(p)) :
                 disk.file[Paths(p)[i]] = Value(p, Paths(p)[i])
      BY <1>a, <3>1 DEF WrittenIsThere, IsCredentials
    <3>4. \A i \in 1..Len(Paths(p)) : disk'.file[Paths(p)[i]] = disk.file[Paths(p)[i]]
      BY <1>d
    <3>5. Wrote(p)' <=> Wrote(p)
      BY <3>1 DEF Wrote
    <3>6. op[p].step \in Nat
      BY <1>t, RowTypes
    <3>7. op[p].at = "writing" => 1..op[p].step \subseteq 1..Len(Paths(p))
      BY <3>2, <3>3, <3>6
    <3> QED BY <2>0, <3>1, <3>3, <3>4, <3>5, <3>7
  <2> QED BY <2>1, <2>2
<1>secrets. SecretsFollow'
  BY <1>a, <1>g, <1>m, <1>d, <1>e DEF SecretsFollow, WritesKey, Becomes
<1>profiles. ProfilesThere'
  BY <1>a, <1>g, <1>m, <1>d, <1>e, <1>h DEF ProfilesThere, Becomes
<1>bound. BoundUntilWritten'
  <2>1. \A p \in Ids : op[p].kind = "credentials" \/ op'[p].kind = "credentials" =>
              op'[p] = op[p] /\ (Began(p) <=> Began(p)')
    BY <1>k DEF Began, Wrote
  <2>2. /\ CodexBound(disk.file)' <=> CodexBound(disk.file)
        /\ GitBound(disk.file)' <=> GitBound(disk.file)
    BY <1>g, <1>d, <1>h DEF CodexBound, GitBound
  <2>3. \A p \in Ids : op'[p].kind = "credentials" =>
          /\ CodexBound(op[p].snap)' <=> CodexBound(op[p].snap)
          /\ GitBound(op[p].snap)' <=> GitBound(op[p].snap)
    BY <1>g, <1>h, <2>1 DEF CodexBound, GitBound
  <2> QED BY <1>a, <1>h, <2>1, <2>2, <2>3 DEF BoundUntilWritten
<1>keys. KeysUntilWritten'
  <2>1. \A p \in Ids : op[p].kind = "api" => op'[p] = op[p] /\ (Wrote(p) <=> Wrote(p)')
    BY <1>k DEF Wrote
  <2> QED BY <1>a, <1>g, <1>d, <1>h, <2>1 DEF KeysUntilWritten
<1> QED BY <1>typed, <1>shaped, <1>idle, <1>alone, <1>tried, <1>installs, <1>recorded,
           <1>excluded, <1>kept, <1>once, <1>written, <1>secrets, <1>profiles, <1>bound, <1>keys
        DEF ConfigurationInv

\* A process that starts uses the versions and secrets on the disk.
LEMMA NewClientUses ==
    ASSUME disk \in Disks, CliAsRecorded, NEW v \in Release, agent' = NewClient(v)
    PROVE  /\ agent' \in Processes /\ agent'.phase = "offline" /\ agent'.version = v
           /\ agent'.pending = FALSE /\ agent'.restart = 0
           /\ \A k \in {"codex", "gemini"} : agent'.command[k] = disk.current[k]
           /\ agent'.secret["codex"] = disk.file["key"]
           /\ agent'.secret["gemini"] = disk.file["gemini"]
<1>1. /\ disk.current \in [Clis -> Version] /\ disk.file \in [Files -> Revision]
  BY DEF Disks
<1>2. \A k \in {"codex", "gemini"} : k \in Clis /\ effectivePath(k) = disk.current[k]
  BY DEF CliAsRecorded, effectivePath, Clis
<1>3. /\ [k \in {"codex", "gemini"} |-> effectivePath(k)] \in [{"codex", "gemini"} -> Version]
      /\ [k \in {"codex", "gemini"} |-> disk.file[IF k = "codex" THEN "key" ELSE k]]
           \in [{"codex", "gemini"} -> Revision]
  BY <1>1, <1>2 DEF Files
<1> QED BY <1>2, <1>3 DEF NewClient, Processes

\* The staged binary takes the process over.
LEMMA ActivateKeeps ==
    ASSUME ConfigurationInv, agent.restart # 0, disk' = [disk EXCEPT !.manifest.state = "attempting"],
           agent' = NewClient(agent.restart), op' = Interrupted,
           past' = [past EXCEPT !.tries = @ + 1, !.torn = Torn], UNCHANGED cp
    PROVE  ConfigurationInv'
<1>a. /\ Typed /\ RowsShaped /\ IdleUnlessConnected /\ UpdateAlone /\ UntriedIsPending
      /\ InstallsInOrder /\ CliAsRecorded /\ ReservedOrRunning /\ TurnKeepsItsConfiguration
      /\ CredentialsOnce /\ WrittenIsThere /\ SecretsFollow /\ ProfilesThere
      /\ BoundUntilWritten /\ KeysUntilWritten
  BY DEF ConfigurationInv
<1>t. /\ op \in [Ids -> Rows] /\ disk \in Disks /\ agent \in Processes /\ cp \in Planes
      /\ past \in Histories
  BY <1>a DEF Typed
<1>r. /\ op' \in [Ids -> Rows]
      /\ \A p \in Ids :
           /\ op'[p].kind = op[p].kind /\ op'[p].of = op[p].of /\ op'[p].version = op[p].version
           /\ op'[p].git = op[p].git /\ op'[p].status = op[p].status /\ op'[p].ok = op[p].ok
           /\ op'[p].step = 0 /\ op'[p].conf = NoConf
           /\ op'[p].at = IF op[p].at \in {"ended", "receipt"} THEN "receipt" ELSE "away"
  BY <1>a, <1>t, Restarted DEF Restarts
<1>u. cp' = cp /\ agent.restart \in Release
  BY <1>t DEF Processes
<1>d. /\ disk' \in Disks /\ disk'.current = disk.current /\ disk'.installed = disk.installed
      /\ disk'.file = disk.file /\ disk'.manifest.state = "attempting"
  BY <1>t DEF Disks, Manifests
<1>o. Torn \in SUBSET OpKinds
  BY <1>t DEF Torn, Histories, Rows
<1>h. /\ past' \in Histories /\ past'.deleted = past.deleted /\ past'.torn = Torn
      /\ past'.tries = past.tries + 1
  <2>1. PICK T \in SUBSET OpKinds : T = Torn
    BY <1>o
  <2>2. past' = [past EXCEPT !.tries = @ + 1, !.torn = T]
    BY <2>1
  <2>3. past.tries \in Nat
    BY <1>t DEF Histories
  <2>4. past.tries + 1 \in Nat
    BY <2>3
  <2>5. past' \in Histories /\ past'.deleted = past.deleted /\ past'.torn = T
    BY <1>t, <2>2, <2>4 DEF Histories
  <2>6. past'.tries = past.tries + 1
    BY <1>t, <2>2 DEF Histories
  <2> QED BY <2>1, <2>5, <2>6
<1>e. /\ agent' \in Processes /\ agent'.phase = "offline" /\ agent'.version = agent.restart
      /\ agent'.pending = FALSE /\ agent'.restart = 0
      /\ \A k \in {"codex", "gemini"} : agent'.command[k] = disk.current[k]
      /\ agent'.secret["codex"] = disk.file["key"]
      /\ agent'.secret["gemini"] = disk.file["gemini"]
  BY <1>a, <1>t, <1>u, NewClientUses
<1>typed. Typed'
  BY <1>a, <1>t, <1>r, <1>u, <1>d, <1>h, <1>e DEF Typed
<1>shaped. RowsShaped'
  BY <1>a, <1>r, <1>u, <1>d, <1>e DEF RowsShaped, Shaped, Installing
<1>idle. IdleUnlessConnected'
  BY <1>a, <1>r, <1>u, <1>d, <1>e DEF IdleUnlessConnected
<1>alone. UpdateAlone'
  BY <1>a, <1>r, <1>u, <1>d, <1>e DEF UpdateAlone
<1>tried. UntriedIsPending'
  BY <1>a, <1>d, <1>e, <1>h DEF UntriedIsPending
<1>installs. InstallsInOrder'
  BY <1>a, <1>r, <1>u, <1>d, <1>e DEF InstallsInOrder, Installing
<1>recorded. CliAsRecorded'
  <2>1. \A k \in {"codex", "gemini"} : k \in Clis
    BY DEF Clis
  <2> QED BY <1>a, <1>d, <1>e, <2>1 DEF CliAsRecorded
<1>excluded. ReservedOrRunning'
  BY <1>r DEF ReservedOrRunning
<1>kept. TurnKeepsItsConfiguration'
  BY <1>r DEF TurnKeepsItsConfiguration
<1>once. CredentialsOnce'
  BY <1>a, <1>r, <1>u, <1>d, <1>e DEF CredentialsOnce
<1>written. WrittenIsThere'
  <2> SUFFICES ASSUME NEW p \in Ids, op'[p].kind \in {"credentials", "api"}, Wrote(p)'
               PROVE  \A i \in 1..Len(Paths(p)') :
                            disk'.file[Paths(p)'[i]] = Value(p, Paths(p)[i])'
    BY <1>r DEF WrittenIsThere
  <2>1. Paths(p)' = Paths(p) /\ \A i : Value(p, Paths(p)[i])' = Value(p, Paths(p)[i])
    BY <1>r DEF Paths, Value
  <2>2. Wrote(p) /\ op[p].kind \in {"credentials", "api"}
    BY <1>a, <1>r DEF Wrote, RowsShaped, Shaped
  <2> QED BY <1>a, <1>d, <2>1, <2>2 DEF WrittenIsThere
<1>secrets. SecretsFollow'
  BY <1>r, <1>d, <1>e DEF SecretsFollow, WritesKey
<1>profiles. ProfilesThere'
  BY <1>a, <1>r, <1>u, <1>d, <1>h, <1>e DEF ProfilesThere
<1>bound. BoundUntilWritten'
  <2>1. \A p \in Ids : op[p].kind = "credentials" =>
              op[p].at \notin {"writing", "written"} \/ "credentials" \in past'.torn
    BY <1>h DEF Torn
  <2>2. \A p \in Ids : op[p].at \notin {"writing", "written"} => (Began(p)' <=> Began(p))
    BY <1>a, <1>r DEF Began, Wrote, RowsShaped, Shaped
  <2>3. /\ CodexBound(disk.file)' <=> CodexBound(disk.file)
        /\ GitBound(disk.file)' <=> GitBound(disk.file)
    BY <1>u, <1>d, <1>h DEF CodexBound, GitBound
  <2>4. past.torn \subseteq past'.torn
    BY <1>h DEF Torn
  <2>5. \A p \in Ids : op'[p].at # "writing"
    BY <1>r
  <2> QED BY <1>a, <1>r, <2>1, <2>2, <2>3, <2>4, <2>5 DEF BoundUntilWritten
<1>keys. KeysUntilWritten'
  <2>1. \A p \in Ids : op[p].kind = "api" => op[p].at # "written" \/ "api" \in past'.torn
    BY <1>h DEF Torn
  <2>2. \A p \in Ids : op[p].at # "written" => (Wrote(p)' <=> Wrote(p))
    BY <1>a, <1>r DEF Wrote, RowsShaped, Shaped
  <2>3. past.torn \subseteq past'.torn
    BY <1>h DEF Torn
  <2> QED BY <1>a, <1>r, <1>u, <1>d, <1>h, <2>1, <2>2, <2>3 DEF KeysUntilWritten
<1> QED BY <1>typed, <1>shaped, <1>idle, <1>alone, <1>tried, <1>installs, <1>recorded,
           <1>excluded, <1>kept, <1>once, <1>written, <1>secrets, <1>profiles, <1>bound, <1>keys
        DEF ConfigurationInv

\* A change of the process and of the manifest that the rows, the versions, the
\* files and the bindings take no part in.
LEMMA ProcessKeeps ==
    ASSUME ConfigurationInv, UNCHANGED <<cp, op>>, disk' \in Disks, disk'.current = disk.current,
           disk'.installed = disk.installed, disk'.file = disk.file, agent' \in Processes,
           past' \in Histories, past'.deleted = past.deleted, past'.torn = past.torn,
           IdleUnlessConnected', UpdateAlone', UntriedIsPending', CliAsRecorded',
           TurnKeepsItsConfiguration', SecretsFollow'
    PROVE  ConfigurationInv'
<1>a. /\ Typed /\ RowsShaped /\ InstallsInOrder /\ ReservedOrRunning /\ CredentialsOnce
      /\ WrittenIsThere /\ ProfilesThere /\ BoundUntilWritten /\ KeysUntilWritten
  BY DEF ConfigurationInv
<1>u. op' = op /\ cp' = cp
  OBVIOUS
<1>1. Typed' /\ RowsShaped'
  BY <1>a, <1>u DEF Typed, RowsShaped
<1>2. InstallsInOrder'
  BY <1>a, <1>u DEF InstallsInOrder
<1>3. ReservedOrRunning' /\ CredentialsOnce'
  BY <1>a, <1>u DEF ReservedOrRunning, Reconfiguring, IsInstall, CredentialsOnce
<1>4. WrittenIsThere'
  <2>1. \A p : Paths(p)' = Paths(p) /\ (Wrote(p)' <=> Wrote(p))
    BY <1>u DEF Paths, Wrote
  <2>2. \A p, i : Value(p, Paths(p)[i])' = Value(p, Paths(p)[i])
    BY <1>u DEF Paths, Value
  <2> QED BY <1>a, <1>u, <2>1, <2>2 DEF WrittenIsThere
<1>5. ProfilesThere'
  BY <1>a, <1>u DEF ProfilesThere
<1>6. BoundUntilWritten'
  <2>1. /\ CodexBound(disk.file)' <=> CodexBound(disk.file)
        /\ GitBound(disk.file)' <=> GitBound(disk.file)
    BY <1>u DEF CodexBound, GitBound
  <2>2. \A p : /\ CodexBound(op[p].snap)' <=> CodexBound(op[p].snap)
               /\ GitBound(op[p].snap)' <=> GitBound(op[p].snap)
               /\ Began(p)' <=> Began(p)
    BY <1>u DEF CodexBound, GitBound, Began, Wrote
  <2> QED BY <1>a, <1>u, <2>1, <2>2 DEF BoundUntilWritten
<1>7. KeysUntilWritten'
  BY <1>a, <1>u DEF KeysUntilWritten, Wrote
<1> QED BY <1>1, <1>2, <1>3, <1>4, <1>5, <1>6, <1>7 DEF ConfigurationInv

\* Or exec fails, and the Agent goes on as it was.
LEMMA ExecFailsKeeps ==
    ASSUME ConfigurationInv, agent.restart # 0,
           disk' = [disk EXCEPT !.manifest.state = "pending"],
           agent' = [agent EXCEPT !.pending = FALSE, !.restart = 0], UNCHANGED <<cp, op, past>>
    PROVE  ConfigurationInv'
<1>a. /\ Typed /\ IdleUnlessConnected /\ UpdateAlone /\ UntriedIsPending /\ CliAsRecorded
      /\ TurnKeepsItsConfiguration /\ SecretsFollow
  BY DEF ConfigurationInv
<1>t. disk \in Disks /\ agent \in Processes /\ past \in Histories
  BY <1>a DEF Typed
<1>u. op' = op /\ cp' = cp /\ past' = past
  OBVIOUS
<1>d. /\ disk' \in Disks /\ disk'.current = disk.current /\ disk'.installed = disk.installed
      /\ disk'.file = disk.file /\ disk'.manifest.state = "pending"
  BY <1>t DEF Disks, Manifests
<1>e. /\ agent' \in Processes /\ agent'.phase = agent.phase /\ agent'.command = agent.command
      /\ agent'.secret = agent.secret /\ agent'.pending = FALSE /\ agent'.restart = 0
  BY <1>t DEF Processes
<1>1. IdleUnlessConnected'
  BY <1>a, <1>u, <1>e DEF IdleUnlessConnected
<1>2. UpdateAlone'
  <2>1. \A o \in Ids : op[o].at # "staging"
    BY <1>a DEF UpdateAlone
  <2> QED BY <1>u, <1>e, <2>1 DEF UpdateAlone
<1>3. UntriedIsPending'
  BY <1>a, <1>u, <1>d, <1>e DEF UntriedIsPending
<1>4. CliAsRecorded'
  BY <1>a, <1>u, <1>d, <1>e DEF CliAsRecorded
<1>5. TurnKeepsItsConfiguration'
  <2>1. \A k : Configuration(k)' = Configuration(k)
    BY <1>d, <1>e DEF Configuration, effectivePath
  <2> QED BY <1>a, <1>u, <1>d, <2>1 DEF TurnKeepsItsConfiguration
<1>6. SecretsFollow'
  BY <1>a, <1>u, <1>d, <1>e DEF SecretsFollow, WritesKey
<1> QED BY <1>t, <1>u, <1>d, <1>e, <1>1, <1>2, <1>3, <1>4, <1>5, <1>6, ProcessKeeps

\* The process dies.
LEMMA DiesKeeps ==
    ASSUME ConfigurationInv, AgentDies
    PROVE  ConfigurationInv'
<1>a. /\ Typed /\ RowsShaped /\ IdleUnlessConnected /\ UpdateAlone /\ UntriedIsPending
      /\ InstallsInOrder /\ CliAsRecorded /\ ReservedOrRunning /\ TurnKeepsItsConfiguration
      /\ CredentialsOnce /\ WrittenIsThere /\ SecretsFollow /\ ProfilesThere
      /\ BoundUntilWritten /\ KeysUntilWritten
  BY DEF ConfigurationInv
<1>t. /\ op \in [Ids -> Rows] /\ disk \in Disks /\ agent \in Processes /\ cp \in Planes
      /\ past \in Histories
  BY <1>a DEF Typed
<1>r. /\ op' \in [Ids -> Rows]
      /\ \A p \in Ids :
           /\ op'[p].kind = op[p].kind /\ op'[p].of = op[p].of /\ op'[p].version = op[p].version
           /\ op'[p].git = op[p].git /\ op'[p].status = op[p].status /\ op'[p].ok = op[p].ok
           /\ op'[p].step = 0 /\ op'[p].conf = NoConf
           /\ op'[p].at = IF op[p].at \in {"ended", "receipt"} THEN "receipt" ELSE "away"
  BY <1>a, <1>t, Restarted DEF Restarts, AgentDies
<1>u. cp' = cp /\ disk' = disk
  BY DEF AgentDies
<1>d. disk'.file = disk.file
  BY <1>u
<1>o. Torn \in SUBSET OpKinds
  BY <1>t DEF Torn, Histories, Rows
<1>h. /\ past' \in Histories /\ past'.deleted = past.deleted /\ past'.torn = Torn
      /\ past'.tries = past.tries
  <2>1. PICK T \in SUBSET OpKinds : T = Torn
    BY <1>o
  <2>2. past' = [past EXCEPT !.faults = @ + 1, !.torn = T]
    BY <2>1 DEF AgentDies
  <2>3. past.faults + 1 \in Nat
    BY <1>t DEF Histories
  <2> QED BY <1>t, <2>1, <2>2, <2>3 DEF Histories
<1>e. /\ agent' \in Processes /\ agent'.phase = "down" /\ agent'.pending = FALSE
      /\ agent'.restart = 0
  BY <1>t DEF Processes, AgentDies
<1>typed. Typed'
  BY <1>a, <1>t, <1>r, <1>u, <1>h, <1>e DEF Typed
<1>shaped. RowsShaped'
  BY <1>a, <1>r, <1>u, <1>e DEF RowsShaped, Shaped, Installing
<1>idle. IdleUnlessConnected'
  BY <1>a, <1>r, <1>u, <1>e DEF IdleUnlessConnected
<1>alone. UpdateAlone'
  BY <1>a, <1>r, <1>u, <1>e DEF UpdateAlone
<1>tried. UntriedIsPending'
  BY <1>a, <1>u, <1>e, <1>h DEF UntriedIsPending
<1>installs. InstallsInOrder'
  BY <1>a, <1>r, <1>u, <1>e DEF InstallsInOrder, Installing
<1>recorded. CliAsRecorded'
  BY <1>a, <1>u, <1>e DEF CliAsRecorded
<1>excluded. ReservedOrRunning'
  BY <1>r DEF ReservedOrRunning
<1>kept. TurnKeepsItsConfiguration'
  BY <1>r DEF TurnKeepsItsConfiguration
<1>once. CredentialsOnce'
  BY <1>a, <1>r, <1>u, <1>e DEF CredentialsOnce
<1>written. WrittenIsThere'
  <2> SUFFICES ASSUME NEW p \in Ids, op'[p].kind \in {"credentials", "api"}, Wrote(p)'
               PROVE  \A i \in 1..Len(Paths(p)') :
                            disk'.file[Paths(p)'[i]] = Value(p, Paths(p)[i])'
    BY <1>r DEF WrittenIsThere
  <2>1. Paths(p)' = Paths(p) /\ \A i : Value(p, Paths(p)[i])' = Value(p, Paths(p)[i])
    BY <1>r DEF Paths, Value
  <2>2. Wrote(p) /\ op[p].kind \in {"credentials", "api"}
    BY <1>a, <1>r DEF Wrote, RowsShaped, Shaped
  <2> QED BY <1>a, <1>d, <2>1, <2>2 DEF WrittenIsThere
<1>secrets. SecretsFollow'
  BY <1>r, <1>e DEF SecretsFollow, WritesKey
<1>profiles. ProfilesThere'
  BY <1>a, <1>r, <1>u, <1>h, <1>e DEF ProfilesThere
<1>bound. BoundUntilWritten'
  <2>1. \A p \in Ids : op[p].kind = "credentials" =>
              op[p].at \notin {"writing", "written"} \/ "credentials" \in past'.torn
    BY <1>h DEF Torn
  <2>2. \A p \in Ids : op[p].at \notin {"writing", "written"} => (Began(p)' <=> Began(p))
    BY <1>a, <1>r DEF Began, Wrote, RowsShaped, Shaped
  <2>3. /\ CodexBound(disk.file)' <=> CodexBound(disk.file)
        /\ GitBound(disk.file)' <=> GitBound(disk.file)
    BY <1>u, <1>d, <1>h DEF CodexBound, GitBound
  <2>4. past.torn \subseteq past'.torn
    BY <1>h DEF Torn
  <2>5. \A p \in Ids : op'[p].at # "writing"
    BY <1>r
  <2> QED BY <1>a, <1>r, <2>1, <2>2, <2>3, <2>4, <2>5 DEF BoundUntilWritten
<1>keys. KeysUntilWritten'
  <2>1. \A p \in Ids : op[p].kind = "api" => op[p].at # "written" \/ "api" \in past'.torn
    BY <1>h DEF Torn
  <2>2. \A p \in Ids : op[p].at # "written" => (Wrote(p)' <=> Wrote(p))
    BY <1>a, <1>r DEF Wrote, RowsShaped, Shaped
  <2>3. past.torn \subseteq past'.torn
    BY <1>h DEF Torn
  <2> QED BY <1>a, <1>r, <1>u, <1>d, <1>h, <2>1, <2>2, <2>3 DEF KeysUntilWritten
<1> QED BY <1>typed, <1>shaped, <1>idle, <1>alone, <1>tried, <1>installs, <1>recorded,
           <1>excluded, <1>kept, <1>once, <1>written, <1>secrets, <1>profiles, <1>bound, <1>keys
        DEF ConfigurationInv

\* The installed binary starts, and tries the one of the manifest at most once.
LEMMA CurrentKeeps ==
    ASSUME ConfigurationInv, ActivateCurrentUpdate
    PROVE  ConfigurationInv'
<1>a. /\ Typed /\ IdleUnlessConnected /\ UpdateAlone /\ UntriedIsPending /\ CliAsRecorded
      /\ TurnKeepsItsConfiguration /\ SecretsFollow /\ RowsShaped
  BY DEF ConfigurationInv
<1>t. disk \in Disks /\ agent \in Processes /\ past \in Histories
  BY <1>a DEF Typed
<1>g. agent.phase = "down" /\ op' = op /\ cp' = cp
  BY DEF ActivateCurrentUpdate
<1>m. disk.manifest \in Manifests
  BY <1>t DEF Disks
<1>y. PICK tried \in BOOLEAN :
        tried <=> disk.manifest # NoManifest /\ disk.manifest.version > 1
                  /\ disk.manifest.state # "attempting"
  OBVIOUS
<1>v. PICK v : v = IF tried THEN disk.manifest.version ELSE 1
  OBVIOUS
<1>w. v \in Release /\ 1 \in Release
  BY <1>m, <1>y, <1>v, ConfigurationAssumption DEF Manifests, Release
<1>z. tried => past.tries = 0
  BY <1>a, <1>m, <1>y DEF UntriedIsPending, Manifests
<1>b. PICK c : /\ c \in Release /\ agent' = NewClient(c)
               /\ \/ /\ disk' = [disk EXCEPT !.manifest = IF tried THEN [@ EXCEPT !.state = "attempting"]
                                                          ELSE NoManifest]
                     /\ past' = IF tried THEN [past EXCEPT !.tries = @ + 1] ELSE past
                  \/ /\ tried /\ disk' = [disk EXCEPT !.manifest.state = "pending"]
                     /\ past' = past
  BY <1>y, <1>v, <1>w DEF ActivateCurrentUpdate
<1>d. /\ disk' \in Disks /\ disk'.current = disk.current /\ disk'.installed = disk.installed
      /\ disk'.file = disk.file
      /\ \/ tried /\ disk'.manifest.state = "attempting" /\ past'.tries = 1
         \/ ~tried /\ disk'.manifest = NoManifest /\ past'.tries = past.tries
         \/ tried /\ disk'.manifest.state = "pending" /\ past'.tries = past.tries
      /\ past' \in Histories /\ past'.deleted = past.deleted /\ past'.torn = past.torn
  <2>0. NoManifest \in Manifests
    BY ConfigurationAssumption DEF NoManifest, Manifests
  <2>1. CASE tried /\ disk' = [disk EXCEPT !.manifest.state = "pending"] /\ past' = past
    BY <1>t, <1>m, <2>1 DEF Disks, Manifests
  <2>2. CASE /\ ~tried /\ past' = past
             /\ disk' = [disk EXCEPT !.manifest = NoManifest]
    BY <1>t, <2>0, <2>2 DEF Disks
  <2>3. CASE /\ tried /\ past' = [past EXCEPT !.tries = @ + 1]
             /\ disk' = [disk EXCEPT !.manifest = [@ EXCEPT !.state = "attempting"]]
    <3>1. PICK m : m = [disk.manifest EXCEPT !.state = "attempting"]
      OBVIOUS
    <3>2. m \in Manifests /\ m.state = "attempting"
      BY <1>m, <3>1 DEF Manifests
    <3>3. disk' = [disk EXCEPT !.manifest = m]
      BY <2>3, <3>1
    <3>4. /\ disk' \in Disks /\ disk'.current = disk.current
          /\ disk'.installed = disk.installed /\ disk'.file = disk.file
          /\ disk'.manifest = m
      BY <1>t, <3>2, <3>3 DEF Disks
    <3>5. past' \in Histories /\ past'.deleted = past.deleted /\ past'.torn = past.torn
      BY <1>t, <2>3 DEF Histories
    <3>6. past'.tries = 1
      BY <1>t, <1>z, <2>3 DEF Histories
    <3> QED BY <2>3, <3>2, <3>4, <3>5, <3>6
  <2> QED BY <1>t, <1>b, <2>1, <2>2, <2>3
<1>e. /\ agent' \in Processes /\ agent'.phase = "offline"
      /\ agent'.pending = FALSE /\ agent'.restart = 0
      /\ \A k \in {"codex", "gemini"} : agent'.command[k] = disk.current[k]
      /\ agent'.secret["codex"] = disk.file["key"]
      /\ agent'.secret["gemini"] = disk.file["gemini"]
  BY <1>a, <1>t, <1>b, NewClientUses
<1>i. \A o \in Ids : op[o].at \in {"away", "receipt"}
  BY <1>a, <1>g DEF IdleUnlessConnected
<1>1. IdleUnlessConnected'
  BY <1>g, <1>i DEF IdleUnlessConnected
<1>2. UpdateAlone'
  BY <1>g, <1>i, <1>e DEF UpdateAlone
<1>3. UntriedIsPending'
  BY <1>a, <1>d, <1>e, <1>z DEF UntriedIsPending, NoManifest
<1>4. CliAsRecorded'
  <2>1. \A k \in {"codex", "gemini"} : k \in Clis
    BY DEF Clis
  <2> QED BY <1>a, <1>d, <1>e, <2>1 DEF CliAsRecorded
<1>5. TurnKeepsItsConfiguration'
  BY <1>g, <1>i DEF TurnKeepsItsConfiguration
<1>6. SecretsFollow'
  BY <1>g, <1>i, <1>d, <1>e DEF SecretsFollow, WritesKey
<1> QED BY <1>g, <1>d, <1>e, <1>1, <1>2, <1>3, <1>4, <1>5, <1>6, ProcessKeeps

\* A stream that opens confirms the binary.
LEMMA ConfirmKeeps ==
    ASSUME ConfigurationInv, confirmCurrentUpdate
    PROVE  ConfigurationInv'
<1>a. /\ Typed /\ IdleUnlessConnected /\ UpdateAlone /\ UntriedIsPending /\ CliAsRecorded
      /\ TurnKeepsItsConfiguration /\ SecretsFollow
  BY DEF ConfigurationInv
<1>t. disk \in Disks /\ agent \in Processes /\ past \in Histories
  BY <1>a DEF Typed
<1>u. op' = op /\ cp' = cp /\ agent.phase = "offline"
  BY DEF confirmCurrentUpdate
<1>e. /\ agent' \in Processes /\ agent'.phase = "connected" /\ agent'.command = agent.command
      /\ agent'.secret = agent.secret /\ agent'.pending = agent.pending
      /\ agent'.restart = agent.restart
  BY <1>t DEF Processes, confirmCurrentUpdate
<1>d. /\ disk' \in Disks /\ disk'.current = disk.current /\ disk'.installed = disk.installed
      /\ disk'.file = disk.file
      /\ \/ disk'.manifest.state = "healthy" /\ past'.tries = 0
         \/ disk' = disk /\ past' = past
      /\ past' \in Histories /\ past'.deleted = past.deleted /\ past'.torn = past.torn
  <2>1. CASE disk' = [disk EXCEPT !.manifest.state = "healthy"] /\ past' = [past EXCEPT !.tries = 0]
    <3>1. /\ disk' \in Disks /\ disk'.current = disk.current
          /\ disk'.installed = disk.installed /\ disk'.file = disk.file
          /\ disk'.manifest.state = "healthy"
      BY <1>t, <2>1 DEF Disks, Manifests
    <3>2. /\ past' \in Histories /\ past'.deleted = past.deleted /\ past'.torn = past.torn
          /\ past'.tries = 0
      BY <1>t, <2>1 DEF Histories
    <3> QED BY <3>1, <3>2
  <2>2. CASE UNCHANGED <<disk, past>>
    BY <1>t, <2>2
  <2> QED BY <2>1, <2>2 DEF confirmCurrentUpdate
<1>1. IdleUnlessConnected'
  BY <1>e DEF IdleUnlessConnected
<1>2. UpdateAlone'
  BY <1>a, <1>u, <1>e DEF UpdateAlone
<1>3. UntriedIsPending'
  BY <1>a, <1>d, <1>e DEF UntriedIsPending
<1>4. CliAsRecorded'
  BY <1>a, <1>u, <1>d, <1>e DEF CliAsRecorded
<1>5. TurnKeepsItsConfiguration'
  <2>1. \A k : Configuration(k)' = Configuration(k)
    BY <1>d, <1>e DEF Configuration, effectivePath
  <2> QED BY <1>a, <1>u, <1>d, <2>1 DEF TurnKeepsItsConfiguration
<1>6. SecretsFollow'
  BY <1>a, <1>u, <1>d, <1>e DEF SecretsFollow, WritesKey
<1> QED BY <1>u, <1>d, <1>e, <1>1, <1>2, <1>3, <1>4, <1>5, <1>6, ProcessKeeps

-----------------------------------------------------------------------------
(* Results and profiles *)

\* A profile changes; what is bound changes for deleted profiles only.
LEMMA ProfileKeeps ==
    ASSUME ConfigurationInv, UNCHANGED <<op, disk, agent>>, cp' \in Planes, past' \in Histories,
           past'.tries = past.tries, past'.torn = past.torn, past.deleted \subseteq past'.deleted,
           \A k \in Kinds \ past'.deleted :
              cp'.bound[k] = cp.bound[k] /\ (cp'.profile[k] = 0 => cp.profile[k] = 0)
    PROVE  ConfigurationInv'
<1>a. /\ Typed /\ RowsShaped /\ IdleUnlessConnected /\ UpdateAlone /\ UntriedIsPending
      /\ InstallsInOrder /\ CliAsRecorded /\ ReservedOrRunning /\ TurnKeepsItsConfiguration
      /\ CredentialsOnce /\ WrittenIsThere /\ SecretsFollow /\ ProfilesThere
      /\ BoundUntilWritten /\ KeysUntilWritten
  BY DEF ConfigurationInv
<1>u. op' = op /\ disk' = disk /\ agent' = agent
  OBVIOUS
<1>1. Typed' /\ RowsShaped' /\ IdleUnlessConnected'
  BY <1>a, <1>u DEF Typed, RowsShaped, IdleUnlessConnected
<1>2. UpdateAlone' /\ UntriedIsPending' /\ InstallsInOrder' /\ CliAsRecorded'
  BY <1>a, <1>u DEF UpdateAlone, UntriedIsPending, InstallsInOrder, CliAsRecorded
<1>3. ReservedOrRunning' /\ CredentialsOnce'
  BY <1>a, <1>u DEF ReservedOrRunning, Reconfiguring, IsInstall, CredentialsOnce
<1>4. TurnKeepsItsConfiguration'
  <2>1. \A k : Configuration(k)' = Configuration(k)
    BY <1>u DEF Configuration, effectivePath
  <2> QED BY <1>a, <1>u, <2>1 DEF TurnKeepsItsConfiguration
<1>5. WrittenIsThere'
  <2>1. \A p : Paths(p)' = Paths(p) /\ (Wrote(p)' <=> Wrote(p))
    BY <1>u DEF Paths, Wrote
  <2>2. \A p, i : Value(p, Paths(p)[i])' = Value(p, Paths(p)[i])
    BY <1>u DEF Paths, Value
  <2> QED BY <1>a, <1>u, <2>1, <2>2 DEF WrittenIsThere
<1>6. SecretsFollow'
  BY <1>a, <1>u DEF SecretsFollow, WritesKey
<1>7. ProfilesThere'
  BY <1>a DEF ProfilesThere
<1>8. BoundUntilWritten'
  <2>0. "codex" \in Kinds /\ "git" \in Kinds
    BY DEF Kinds, Clis
  <2>1. /\ CodexBound(disk.file) => CodexBound(disk.file)'
        /\ GitBound(disk.file) => GitBound(disk.file)'
    BY <1>u, <2>0 DEF CodexBound, GitBound
  <2>2. \A p : /\ CodexBound(op[p].snap) => CodexBound(op[p].snap)'
               /\ GitBound(op[p].snap) => GitBound(op[p].snap)'
               /\ Began(p)' <=> Began(p)
    BY <1>u, <2>0 DEF CodexBound, GitBound, Began, Wrote
  <2> QED BY <1>a, <1>u, <2>1, <2>2 DEF BoundUntilWritten
<1>9. KeysUntilWritten'
  <2>0. {"gemini", "claude"} \subseteq Kinds
    BY DEF Kinds, Clis
  <2> QED BY <1>a, <1>u, <2>0 DEF KeysUntilWritten, Wrote
<1> QED BY <1>1, <1>2, <1>3, <1>4, <1>5, <1>6, <1>7, <1>8, <1>9 DEF ConfigurationInv

\* The row of an operation that is over.
LEMMA OverRow ==
    /\ Over \in Rows /\ Shaped(Over)
    /\ Over.kind = "over" /\ Over.at = "away" /\ Over.ok = FALSE /\ Over.of = "none"
<1>x. PICK x : x = [NoOp EXCEPT !.kind = "over"]
  OBVIOUS
<1>0. x = [kind |-> "over", of |-> "none", version |-> 0, git |-> 0, status |-> "none",
           at |-> "away", step |-> 0, ok |-> FALSE, interrupted |-> FALSE,
           conf |-> NoConf, snap |-> NoFiles]
  BY <1>x DEF NoOp
<1>1. Over = [kind |-> "over", of |-> "none", version |-> 0, git |-> 0, status |-> "none",
              at |-> "away", step |-> 0, ok |-> FALSE, interrupted |-> FALSE,
              conf |-> NoConf, snap |-> NoFiles]
  BY <1>x, <1>0 DEF Over
<1>2. NoConf \in [cli : Nat, secret : Nat] /\ NoFiles \in [Files -> Revision]
  BY ConfigurationAssumption DEF NoConf, NoFiles, Revision
<1>3. Over \in Rows
  BY <1>1, <1>2 DEF Rows, Places, OpKinds
<1>4. Shaped(Over)
  BY <1>1 DEF Shaped, Installing
<1> QED BY <1>1, <1>3, <1>4

\* A result is applied; the bindings are those of the files that it wrote.
LEMMA ResultKeeps ==
    ASSUME ConfigurationInv, NEW o \in Ids, op[o].at = "ended", op' = [op EXCEPT ![o] = Over],
           UNCHANGED <<disk, agent, past>>, cp' \in Planes, cp'.profile = cp.profile,
           BoundUntilWritten', KeysUntilWritten'
    PROVE  ConfigurationInv'
<1>a. /\ Typed /\ RowsShaped /\ IdleUnlessConnected /\ UpdateAlone /\ UntriedIsPending
      /\ InstallsInOrder /\ CliAsRecorded /\ ReservedOrRunning /\ TurnKeepsItsConfiguration
      /\ CredentialsOnce /\ WrittenIsThere /\ SecretsFollow /\ ProfilesThere
  BY DEF ConfigurationInv
<1>t. op \in [Ids -> Rows]
  BY <1>a DEF Typed
<1>u. disk' = disk /\ agent' = agent /\ past' = past
  OBVIOUS
<1>x. /\ op' \in [Ids -> Rows] /\ \A p \in Ids : p # o => op'[p] = op[p]
      /\ op'[o] = Over /\ Shaped(op'[o]) /\ op'[o].kind = "over" /\ op'[o].at = "away"
      /\ op'[o].ok = FALSE /\ op'[o].of = "none"
  BY <1>t, OverRow
<1>1. Typed' /\ RowsShaped'
  BY <1>a, <1>u, <1>x DEF Typed, RowsShaped
<1>2. IdleUnlessConnected' /\ UpdateAlone' /\ UntriedIsPending' /\ InstallsInOrder'
  BY <1>a, <1>u, <1>x
     DEF IdleUnlessConnected, UpdateAlone, UntriedIsPending, InstallsInOrder, Installing
<1>3. ReservedOrRunning' /\ CredentialsOnce'
  BY <1>a, <1>x DEF ReservedOrRunning, Reconfiguring, IsInstall, Installing, CredentialsOnce
<1>4. CliAsRecorded'
  BY <1>a, <1>u, <1>x DEF CliAsRecorded
<1>5. TurnKeepsItsConfiguration'
  <2>1. \A k : Configuration(k)' = Configuration(k)
    BY <1>u DEF Configuration, effectivePath
  <2> QED BY <1>a, <1>u, <1>x, <2>1 DEF TurnKeepsItsConfiguration
<1>6. WrittenIsThere'
  <2> SUFFICES ASSUME NEW p \in Ids, op'[p].kind \in {"credentials", "api"}
               PROVE  /\ op'[p].at = "writing" => op'[p].step < Len(Paths(p)')
                      /\ op'[p].at = "writing" =>
                           \A i \in 1..op'[p].step :
                              disk'.file[Paths(p)'[i]] = Value(p, Paths(p)[i])'
                      /\ Wrote(p)' => \A i \in 1..Len(Paths(p)') :
                                        disk'.file[Paths(p)'[i]] = Value(p, Paths(p)[i])'
    BY DEF WrittenIsThere
  <2>1. op'[p] = op[p]
    BY <1>x
  <2>2. Paths(p)' = Paths(p) /\ (Wrote(p)' <=> Wrote(p))
    BY <2>1 DEF Paths, Wrote
  <2>3. \A i : Value(p, Paths(p)[i])' = Value(p, Paths(p)[i])
    BY <2>1 DEF Paths, Value
  <2> QED BY <1>a, <1>u, <2>1, <2>2, <2>3 DEF WrittenIsThere
<1>7. SecretsFollow'
  BY <1>a, <1>u, <1>x DEF SecretsFollow, WritesKey
<1>8. ProfilesThere'
  BY <1>a, <1>u DEF ProfilesThere
<1> QED BY <1>1, <1>2, <1>3, <1>4, <1>5, <1>6, <1>7, <1>8 DEF ConfigurationInv

\* The result of an update of the credentials binds the profiles of its scope.
LEMMA CredentialsApply ==
    ASSUME ConfigurationInv, NEW o \in Ids, ApplyResult(o), op[o].kind = "credentials", op[o].ok
    PROVE  ConfigurationInv'
<1>a. /\ Typed /\ RowsShaped /\ CredentialsOnce /\ WrittenIsThere /\ ProfilesThere
      /\ BoundUntilWritten /\ KeysUntilWritten
  BY DEF ConfigurationInv
<1>t. op \in [Ids -> Rows] /\ cp \in Planes /\ Shaped(op[o])
  BY <1>a DEF Typed, RowsShaped
<1>g. /\ op[o].at = "ended" /\ op' = [op EXCEPT ![o] = Over] /\ UNCHANGED <<disk, agent, past>>
      /\ cp' = [cp EXCEPT !.bound = setServerCredentialProfileIDs(o)]
  BY DEF ApplyResult, CompleteCredentialUpdate
<1>x. /\ \A p \in Ids : p # o => op'[p] = op[p]
      /\ op'[o] = Over /\ op'[o].kind = "over"
  BY <1>t, <1>g, OverRow
<1>b. PICK B : B = setServerCredentialProfileIDs(o)
  OBVIOUS
<1>1. /\ B \in [Kinds -> Revision]
      /\ B["codex"] = IF op[o].of = "git" THEN cp.bound["codex"]
                      ELSE IF cp.profile["codex"] # 0 THEN 1 ELSE 0
      /\ B["git"] = IF op[o].of = "codex" THEN cp.bound["git"] ELSE IF op[o].git # 0 THEN 1 ELSE 0
      /\ B["gemini"] = cp.bound["gemini"] /\ B["claude"] = cp.bound["claude"]
  <2>1. cp.bound \in [Kinds -> Revision] /\ {0, 1} \subseteq Revision
    BY <1>t, ConfigurationAssumption DEF Planes, Revision
  <2> QED BY <1>b, <2>1 DEF setServerCredentialProfileIDs, Kinds, Clis
<1>2. cp' \in Planes /\ cp'.profile = cp.profile /\ cp'.bound = B
  BY <1>t, <1>g, <1>b, <1>1 DEF Planes
<1>3. \A p \in Ids : op[p].kind = "credentials" => p = o
  BY <1>a DEF CredentialsOnce
<1>4. /\ op[o].of # "git" => /\ disk.file["key"] = op[o].version /\ disk.file["config"] = op[o].version
                             /\ op[o].version # 0
      /\ op[o].of # "codex" => disk.file["credentials"] = op[o].git /\ disk.file["gitconfig"] = op[o].git
  BY <1>a, <1>t, <1>g, WrittenFiles DEF Wrote, IsCredentials, Shaped
<1>bound. BoundUntilWritten'
  <2>1. ASSUME "credentials" \notin past.torn
        PROVE  CodexBound(disk.file)' /\ GitBound(disk.file)'
    <3>1. op[o].of = "git" => CodexBound(disk.file)
      BY <1>a, <1>3, <2>1 DEF BoundUntilWritten
    <3>2. op[o].of = "codex" => GitBound(disk.file)
      BY <1>a, <1>3, <2>1 DEF BoundUntilWritten
    <3>3. "codex" \notin past.deleted => cp.profile["codex"] # 0
      BY <1>a DEF ProfilesThere, Kinds, Clis
    <3>4. CodexBound(disk.file)'
      BY <1>g, <1>1, <1>2, <1>4, <3>1, <3>3 DEF CodexBound
    <3>5. GitBound(disk.file)'
      BY <1>g, <1>1, <1>2, <1>4, <3>2 DEF GitBound
    <3> QED BY <3>4, <3>5
  <2>2. \A p \in Ids : op'[p].kind # "credentials"
    BY <1>x, <1>3
  <2> QED BY <1>g, <2>1, <2>2 DEF BoundUntilWritten
<1>keys. KeysUntilWritten'
  <2>1. \A p \in Ids : op[p].kind = "api" => op'[p] = op[p] /\ (Wrote(p)' <=> Wrote(p))
    BY <1>x DEF Wrote
  <2> QED BY <1>a, <1>g, <1>1, <1>2, <2>1 DEF KeysUntilWritten
<1> QED BY <1>g, <1>2, <1>bound, <1>keys, ResultKeeps

\* That of a key binds the revision it wrote, unless the profile is gone.
LEMMA KeyApplies ==
    ASSUME ConfigurationInv, NEW o \in Ids, ApplyResult(o), op[o].kind = "api", op[o].ok
    PROVE  ConfigurationInv'
<1>a. /\ Typed /\ RowsShaped /\ CredentialsOnce /\ WrittenIsThere /\ ProfilesThere
      /\ BoundUntilWritten /\ KeysUntilWritten
  BY DEF ConfigurationInv
<1>t. op \in [Ids -> Rows] /\ cp \in Planes /\ Shaped(op[o])
  BY <1>a DEF Typed, RowsShaped
<1>k. PICK k \in {"gemini", "claude"} : k = op[o].of
  BY <1>t DEF Shaped
<1>r. PICK r \in Revision : r = op[o].version
  BY <1>t DEF Shaped
<1>g. /\ op[o].at = "ended" /\ op' = [op EXCEPT ![o] = Over] /\ UNCHANGED <<disk, agent, past>>
      /\ cp' = IF cp.profile[k] # 0 THEN [cp EXCEPT !.bound[k] = r] ELSE cp
  BY <1>k, <1>r DEF ApplyResult, CompleteGeminiCredentialUpdate, CompleteClaudeCredentialUpdate
<1>x. /\ \A p \in Ids : p # o => op'[p] = op[p]
      /\ op'[o] = Over /\ op'[o].kind = "over"
  BY <1>t, <1>g, OverRow
<1>2. /\ cp' \in Planes /\ cp'.profile = cp.profile
      /\ \A j \in Kinds : cp'.bound[j] = IF j = k /\ cp.profile[k] # 0 THEN r ELSE cp.bound[j]
  BY <1>t, <1>g DEF Planes
<1>4. disk.file[k] = r
  BY <1>a, <1>k, <1>r, <1>g, WrittenFiles DEF Wrote, IsCredentials
<1>bound. BoundUntilWritten'
  <2>0. {"codex", "git"} \subseteq Kinds \ {k}
    BY DEF Kinds, Clis
  <2>1. /\ CodexBound(disk.file)' <=> CodexBound(disk.file)
        /\ GitBound(disk.file)' <=> GitBound(disk.file)
    BY <1>g, <1>2, <2>0 DEF CodexBound, GitBound
  <2>2. \A p \in Ids : op[p].kind = "credentials" \/ op'[p].kind = "credentials" =>
          /\ op'[p] = op[p] /\ (Began(p)' <=> Began(p))
    BY <1>x DEF Began, Wrote
  <2>3. \A p \in Ids : op'[p].kind = "credentials" =>
          /\ CodexBound(op[p].snap)' <=> CodexBound(op[p].snap)
          /\ GitBound(op[p].snap)' <=> GitBound(op[p].snap)
    BY <1>g, <1>2, <2>0, <2>2 DEF CodexBound, GitBound
  <2> QED BY <1>a, <1>g, <2>1, <2>2, <2>3 DEF BoundUntilWritten
<1>keys. KeysUntilWritten'
  <2> SUFFICES ASSUME "api" \notin past.torn, NEW j \in {"gemini", "claude"} \ past.deleted
               PROVE  \/ cp'.bound[j] = disk.file[j]
                      \/ \E p \in Ids : op'[p].kind = "api" /\ op'[p].of = j /\ Wrote(p)'
    BY <1>g DEF KeysUntilWritten
  <2>0. j \in Kinds /\ (cp.profile[j] = 0 => j \in past.deleted)
    BY <1>a DEF ProfilesThere, Kinds, Clis
  <2>1. CASE j = k
    BY <1>2, <1>4, <2>0, <2>1
  <2>2. CASE j # k
    <3>1. \A p \in Ids : op[p].kind = "api" /\ op[p].of = j =>
                op'[p] = op[p] /\ (Wrote(p)' <=> Wrote(p))
      BY <1>x, <1>k, <2>2 DEF Wrote
    <3> QED BY <1>a, <1>2, <2>0, <2>2, <3>1 DEF KeysUntilWritten
  <2> QED BY <2>1, <2>2
<1> QED BY <1>g, <1>2, <1>bound, <1>keys, ResultKeeps

\* What a heartbeat carries are versions.
LEMMA VersionsOf ==
    ASSUME Typed
    PROVE  Versions \in [Clis -> Version]
<1>1. /\ disk.current \in [Clis -> Version]
      /\ agent.command \in [{"codex", "gemini"} -> Version]
  BY DEF Typed, Disks, Processes
<1> QED BY <1>1 DEF Versions, Clis

\* Other results change at most what is shown.
LEMMA ResultApplies ==
    ASSUME ConfigurationInv, NEW o \in Ids, ApplyResult(o)
    PROVE  ConfigurationInv'
<1>1. CASE op[o].kind = "credentials" /\ op[o].ok
  BY <1>1, CredentialsApply
<1>2. CASE op[o].kind = "api" /\ op[o].ok
  BY <1>2, KeyApplies
<1>3. CASE op[o].kind \in {"credentials", "api"} => ~op[o].ok
  <2>a. Typed /\ RowsShaped /\ IdleUnlessConnected /\ CredentialsOnce
    BY DEF ConfigurationInv
  <2>t. op \in [Ids -> Rows] /\ cp \in Planes /\ past \in Histories /\ agent \in Processes
        /\ Shaped(op[o])
    BY <2>a DEF Typed, RowsShaped
  <2>g. /\ op[o].at = "ended" /\ op' = [op EXCEPT ![o] = Over] /\ UNCHANGED <<disk, agent, past>>
        /\ agent.phase = "connected"
    BY DEF ApplyResult, Online
  <2>x. /\ op' \in [Ids -> Rows] /\ \A p \in Ids : p # o => op'[p] = op[p]
        /\ op'[o] = Over /\ Shaped(op'[o]) /\ op'[o].kind = "over" /\ op'[o].at = "away"
        /\ op'[o].ok = FALSE
    BY <2>t, <2>g, OverRow
  <2>c. cp' = cp \/ cp' = [cp EXCEPT !.shown = Versions, !.agent = agent.version]
    BY <1>3 DEF ApplyResult, CompleteCredentialUpdate, CompleteGeminiCredentialUpdate,
                CompleteClaudeCredentialUpdate
  <2>p. cp' \in Planes /\ cp'.profile = cp.profile /\ cp'.bound = cp.bound
    <3>1. Versions \in [Clis -> Version] /\ agent.version \in Release
      BY <2>a, <2>t, VersionsOf DEF Processes
    <3>2. PICK V \in [Clis -> Version] : V = Versions
      BY <3>1
    <3> QED BY <2>t, <2>c, <3>1, <3>2 DEF Planes
  <2>1. RowsShaped' /\ IdleUnlessConnected' /\ CredentialsOnce'
    BY <2>a, <2>g, <2>x DEF RowsShaped, IdleUnlessConnected, CredentialsOnce
  <2>2. \A p \in Ids : Quiet(op[p], op'[p])
    <3>1. Quiet(op[o], op'[o])
      BY <1>3, <2>g, <2>x DEF Quiet, Idle
    <3>2. \A p \in Ids : Quiet(op[p], op[p])
      BY DEF Quiet
    <3> QED BY <2>x, <3>1, <3>2
  <2> QED BY <2>t, <2>g, <2>x, <2>p, <2>1, <2>2, QuietStep
<1> QED BY <1>1, <1>2, <1>3
-----------------------------------------------------------------------------
(* The specification *)

\* A row that is not free and not over is one of an operation under way.
LEMMA ActiveRows ==
    ASSUME Typed, RowsShaped, NEW o \in Ids, op[o].kind \notin {"none", "over"}
    PROVE  Active(o)
<1>1. op[o].status \in {"none", "queued", "delivered", "running"} /\ op[o].status # "none"
  BY RowTypes DEF Typed, RowsShaped, Shaped
<1> QED BY <1>1 DEF Active

\* Every request keeps the invariant.
LEMMA RequestsKeep ==
    ASSUME ConfigurationInv,
           \/ \E k \in Clis, v \in Version : installServerCLI(k, v)
           \/ updateAgent \/ updateCodexCLI
           \/ \E s \in Scopes, git \in BOOLEAN : updateServerCredentialProfiles(s, git)
           \/ updateServerGeminiCredentialProfile \/ updateServerClaudeCredentialProfile
           \/ queueCodexTurn \/ queueGeminiTurn \/ queueClaudeInput
    PROVE  ConfigurationInv'
<1>a. Typed /\ RowsShaped
  BY DEF ConfigurationInv
<1>t. /\ cp.release \in Release /\ cp.target \in [Clis -> Version]
      /\ cp.profile \in [Kinds -> Revision]
  BY <1>a DEF Typed, Planes
<1>n. /\ 0 \in Nat /\ 0 \in Revision /\ Release \subseteq Nat /\ Version \subseteq Nat
      /\ Revision \subseteq Nat
  BY ConfigurationAssumption DEF Release, Version, Revision
<1>k. {"codex", "gemini", "claude"} = Clis /\ Clis \cup {"git"} = Kinds
  BY DEF Clis, Kinds
<1>o. {"update", "install", "codexupdate", "credentials", "api", "turn"} \subseteq OpKinds
  BY DEF OpKinds
<1>1. ASSUME NEW k \in Clis, NEW v \in Version, installServerCLI(k, v) PROVE ConfigurationInv'
  BY <1>1, <1>n, <1>o, QueueKeeps DEF installServerCLI, QueueCLIInstall
<1>2. CASE updateAgent
  BY <1>2, <1>t, <1>n, <1>o, QueueKeeps DEF updateAgent, QueueAgentUpdate
<1>3. CASE updateCodexCLI
  <2>1. PICK v \in Version : v = cp.target["codex"]
    BY <1>t, <1>k
  <2>2. Queue("codexupdate", "codex", v, 0) /\ UNCHANGED <<cp, disk, agent, past>>
    BY <1>3, <2>1 DEF updateCodexCLI
  <2> QED BY <1>n, <1>k, <1>o, <2>2, QueueKeeps
<1>4. ASSUME NEW s \in Scopes, NEW git \in BOOLEAN, updateServerCredentialProfiles(s, git)
      PROVE  ConfigurationInv'
  <2>c. PICK c \in Revision : c = IF s = "git" THEN 0 ELSE cp.profile["codex"]
    BY <1>t, <1>n, <1>k
  <2>g. PICK g \in Revision : g = IF git THEN cp.profile["git"] ELSE 0
    BY <1>t, <1>n, <1>k
  <2>1. /\ ActiveOf({"credentials"}) = {} /\ Queue("credentials", s, c, g)
        /\ s # "git" => c # 0
        /\ UNCHANGED <<cp, disk, agent, past>>
    BY <1>4, <2>c, <2>g DEF updateServerCredentialProfiles, resolveServerCredentialProfiles,
                            QueueCredentialUpdate
  <2>2. \A p \in Ids : op[p].kind # "credentials"
    BY <1>a, <2>1, ActiveRows DEF ActiveOf
  <2>3. s \in {"agent", "both", "git"} \cup Clis
    BY <1>k DEF Scopes
  <2> QED BY <1>n, <1>o, <2>1, <2>2, <2>3, QueueKeeps
<1>5. ASSUME NEW k \in {"gemini", "claude"},
             Queue("api", k, cp.profile[k], 0), UNCHANGED <<cp, disk, agent, past>>,
             \A p \in ActiveOf({"turn", "api"}) : op[p].of # k
      PROVE  ConfigurationInv'
  <2>1. PICK v \in Revision : v = cp.profile[k]
    BY <1>t, <1>k
  <2>2. \A p \in Ids : op[p].kind = "api" => op[p].of # k
    BY <1>a, <1>5, ActiveRows DEF ActiveOf
  <2>3. Queue("api", k, v, 0)
    BY <1>5, <2>1
  <2> QED BY <1>n, <1>k, <1>o, <1>5, <2>2, <2>3, QueueKeeps
<1>6. CASE updateServerGeminiCredentialProfile
  BY <1>5, <1>6 DEF updateServerGeminiCredentialProfile, QueueGeminiCredentialUpdate
<1>7. CASE updateServerClaudeCredentialProfile
  BY <1>5, <1>7 DEF updateServerClaudeCredentialProfile, QueueClaudeCredentialUpdate
<1>8. ASSUME NEW k \in Clis, Queue("turn", k, 0, 0), UNCHANGED <<cp, disk, agent, past>>
      PROVE  ConfigurationInv'
  BY <1>8, <1>n, <1>o, QueueKeeps
<1>9. CASE queueCodexTurn \/ queueGeminiTurn \/ queueClaudeInput
  BY <1>8, <1>9, <1>k DEF queueCodexTurn, queueGeminiTurn, queueClaudeInput
<1> QED BY <1>1, <1>2, <1>3, <1>4, <1>6, <1>7, <1>9

\* So do the other steps of the control plane.
LEMMA ControlPlaneKeeps ==
    ASSUME ConfigurationInv, ControlPlane
    PROVE  ConfigurationInv'
<1>a. Typed
  BY DEF ConfigurationInv
<1>t. cp \in Planes /\ past \in Histories /\ agent \in Processes
  BY <1>a DEF Typed
<1>h. Change => /\ past' \in Histories /\ past'.tries = past.tries
                /\ past'.deleted = past.deleted /\ past'.torn = past.torn
  BY <1>t DEF Change, Histories
<1>1. CASE UpgradeControlPlane
  <2>1. cp.release + 1 \in Release
    BY <1>t, <1>1, ConfigurationAssumption DEF UpgradeControlPlane, Planes, Release
  <2>2. cp' \in Planes /\ cp'.profile = cp.profile /\ cp'.bound = cp.bound
    BY <1>t, <1>1, <2>1 DEF UpgradeControlPlane, Planes
  <2> QED BY <1>1, <1>h, <2>2, PlaneKeeps DEF UpgradeControlPlane
<1>2. ASSUME NEW k \in Clis, NEW v \in Version, cp' = [cp EXCEPT !.target[k] = v],
             UNCHANGED <<op, disk, agent, past>>
      PROVE  ConfigurationInv'
  <2>1. cp' \in Planes /\ cp'.profile = cp.profile /\ cp'.bound = cp.bound
    BY <1>t, <1>2 DEF Planes
  <2> QED BY <1>t, <1>2, <2>1, PlaneKeeps
<1>3. ASSUME NEW k \in Clis, checkCLIUpdates(k) PROVE ConfigurationInv'
  <2>1. MaxVersion \in Version
    BY ConfigurationAssumption DEF Version
  <2> QED BY <1>2, <1>3, <2>1 DEF checkCLIUpdates
<1>4. ASSUME NEW k \in Clis, NEW v \in Version, selectCLIVersion(k, v) PROVE ConfigurationInv'
  BY <1>2, <1>4 DEF selectCLIVersion
<1>5. CASE enqueueHeartbeat
  <2>1. PICK V \in [Clis -> Version] : V = Versions
    BY <1>a, VersionsOf
  <2>2. PICK v \in Release : v = agent.version
    BY <1>t DEF Processes
  <2>3. cp' = [cp EXCEPT !.shown = V, !.agent = v]
    BY <1>5, <2>1, <2>2 DEF enqueueHeartbeat
  <2>4. cp' \in Planes /\ cp'.profile = cp.profile /\ cp'.bound = cp.bound
    BY <1>t, <2>3 DEF Planes
  <2> QED BY <1>t, <1>5, <2>4, PlaneKeeps DEF enqueueHeartbeat
<1>6. ASSUME NEW k \in Kinds, saveCredentialProfile(k) PROVE ConfigurationInv'
  <2>1. PICK v \in Revision : v = cp.profile[k] + 1 /\ v # 0
    BY <1>t, <1>6, ConfigurationAssumption DEF saveCredentialProfile, Planes, Revision
  <2>2. cp' = [cp EXCEPT !.profile[k] = v]
    BY <1>6, <2>1 DEF saveCredentialProfile, SaveCredentialProfile
  <2>3. /\ cp' \in Planes /\ cp'.bound = cp.bound
        /\ \A j \in Kinds : cp'.profile[j] = IF j = k THEN v ELSE cp.profile[j]
    BY <1>t, <2>2 DEF Planes
  <2> QED BY <1>h, <1>6, <2>1, <2>3, ProfileKeeps DEF saveCredentialProfile
<1>7. ASSUME NEW k \in Kinds, deleteCredentialProfile(k) PROVE ConfigurationInv'
  <2>0. 0 \in Revision
    BY ConfigurationAssumption DEF Revision
  <2>1. cp' = [cp EXCEPT !.profile[k] = 0, !.bound[k] = 0]
    BY <1>7 DEF deleteCredentialProfile, DeleteCredentialProfile
  <2>2. /\ cp' \in Planes
        /\ \A j \in Kinds \ {k} : cp'.profile[j] = cp.profile[j] /\ cp'.bound[j] = cp.bound[j]
    BY <1>t, <2>0, <2>1 DEF Planes
  <2>3. /\ past' \in Histories /\ past'.tries = past.tries /\ past'.torn = past.torn
        /\ past'.deleted = past.deleted \cup {k}
    <3>1. past.deleted \cup {k} \in SUBSET Kinds /\ past.changes + 1 \in Nat
      BY <1>t DEF Histories
    <3>2. PICK D \in SUBSET Kinds : D = past.deleted \cup {k}
      BY <3>1
    <3>3. PICK n \in Nat : n = past.changes + 1
      BY <3>1
    <3>4. past' = [past EXCEPT !.changes = n, !.deleted = D]
      BY <1>7, <3>2, <3>3 DEF deleteCredentialProfile
    <3> QED BY <1>t, <3>2, <3>4 DEF Histories
  <2>4. UNCHANGED <<op, disk, agent>>
    BY <1>7 DEF deleteCredentialProfile
  <2> QED BY <2>2, <2>3, <2>4, ProfileKeeps
<1>8. ASSUME NEW o \in Ids, ApplyStarted(o) \/ ApplyResult(o) \/ OwnershipLost(o) \/ OwnershipActive(o)
      PROVE  ConfigurationInv'
  BY <1>8, DeliveryKeeps, ResultApplies
<1> QED BY <1>1, <1>3, <1>4, <1>5, <1>6, <1>7, <1>8, RequestsKeep DEF ControlPlane

\* And those of the Agent.
LEMMA AgentKeeps ==
    ASSUME ConfigurationInv, Agent
    PROVE  ConfigurationInv'
<1>a. Typed /\ RowsShaped
  BY DEF ConfigurationInv
<1>s. \A o \in Ids : Shaped(op[o])
  BY <1>a DEF RowsShaped
<1>t. op \in [Ids -> Rows]
  BY <1>a DEF Typed
<1>1. CASE activateStagedUpdate
  BY <1>1, ActivateKeeps, ExecFailsKeeps DEF activateStagedUpdate
<1>2. CASE AgentDies \/ ActivateCurrentUpdate \/ confirmCurrentUpdate
  BY <1>2, DiesKeeps, CurrentKeeps, ConfirmKeeps
<1>3. ASSUME NEW o \in Ids, Deliver(o) \/ Receive(o) PROVE ConfigurationInv'
  BY <1>3, DeliveryKeeps
\* an execution that is refused before it has written
<1>e. ASSUME NEW o \in Ids, op' = Ended(o, FALSE), UNCHANGED <<cp, disk, agent, past>>,
             op[o].at \in {"seen", "locked", "installing"}
      PROVE  ConfigurationInv'
  BY <1>e, EndKeeps
<1>4. ASSUME NEW o \in Ids, stageAgentUpdate(o) PROVE ConfigurationInv'
  <2>1. CASE agent.pending \/ UnfinishedTurn \/ op[o].version <= agent.version
    BY <1>4, <1>e, <2>1 DEF stageAgentUpdate
  <2>2. CASE ~(agent.pending \/ UnfinishedTurn \/ op[o].version <= agent.version)
    BY <1>4, <2>2, StageKeeps DEF stageAgentUpdate
  <2> QED BY <2>1, <2>2
<1>5. ASSUME NEW o \in Ids, downloadAgentUpdate(o) PROVE ConfigurationInv'
  BY <1>5, DownloadKeeps
<1>6. ASSUME NEW o \in Ids, lockInstall(o) PROVE ConfigurationInv'
  <2>1. CASE InstallLocked
    BY <1>6, <1>e, <2>1 DEF lockInstall
  <2>2. CASE ~InstallLocked
    BY <1>6, <2>2, LockKeeps DEF lockInstall
  <2> QED BY <2>1, <2>2
<1>7. ASSUME NEW o \in Ids, reconfigureCommand(o) PROVE ConfigurationInv'
  <2>1. CASE Reconfiguring(op[o].of) \/ TurnRuns(op[o].of)
    BY <1>7, <1>e, <2>1 DEF reconfigureCommand, Reconfigure
  <2>2. CASE ~(Reconfiguring(op[o].of) \/ TurnRuns(op[o].of))
    <3>1. /\ op' = [op EXCEPT ![o].at = "installing", ![o].snap = op[o].snap]
          /\ op[o].at = "locked" /\ UNCHANGED <<cp, disk, agent, past>>
      BY <1>7, <2>2 DEF reconfigureCommand, Reconfigure
    <3> QED BY <2>2, <3>1, ReserveKeeps
  <2> QED BY <2>1, <2>2
<1>8. ASSUME NEW o \in Ids, installCLI(o) PROVE ConfigurationInv'
  <2>1. CASE op' = Ended(o, FALSE) /\ UNCHANGED disk
    BY <1>8, <1>e, <2>1 DEF installCLI
  <2>2. CASE /\ disk' = [disk EXCEPT !.installed[op[o].of] = @ \cup {op[o].version}]
             /\ op' = [op EXCEPT ![o].at = "switching"]
    BY <1>8, <2>2, InstallKeeps DEF installCLI
  <2> QED BY <1>8, <2>1, <2>2 DEF installCLI
<1>9. ASSUME NEW o \in Ids, writeManagedCLIVersion(o) \/ setCommand(o) PROVE ConfigurationInv'
  BY <1>9, SwitchKeeps, CommandKeeps
\* an update of k begins, or is refused
<1>b. ASSUME NEW o \in Ids, NEW k, IsCredentials(o), op[o].at = "seen",
             op[o].kind = "api" => k = op[o].of,
             op[o].kind = "credentials" => k = "codex",
             Reconfigure(o, k, "writing"), UNCHANGED <<cp, disk, agent, past>>
      PROVE  ConfigurationInv'
  <2>1. CASE Reconfiguring(k) \/ TurnRuns(k)
    BY <1>b, <1>e, <2>1 DEF Reconfigure
  <2>2. CASE ~(Reconfiguring(k) \/ TurnRuns(k))
    <3>1. op' = [op EXCEPT ![o].at = "writing", ![o].snap = snapshotCredentialFiles(o)]
      BY <1>b, <2>2 DEF Reconfigure
    <3> QED BY <1>b, <2>2, <3>1, BeginKeeps
  <2> QED BY <2>1, <2>2
<1>10. ASSUME NEW o \in Ids, configureCredentials(o) PROVE ConfigurationInv'
  <2>1. CASE op[o].of = "git"
    BY <1>10, <2>1, BeginKeeps DEF configureCredentials, IsCredentials
  <2>2. CASE op[o].of # "git"
    BY <1>10, <1>b, <2>2 DEF configureCredentials, IsCredentials
  <2> QED BY <2>1, <2>2
<1>11. ASSUME NEW o \in Ids, configureGeminiCredentials(o) \/ configureClaudeCredentials(o)
       PROVE  ConfigurationInv'
  BY <1>11, <1>b DEF configureGeminiCredentials, configureClaudeCredentials, IsCredentials
<1>12. ASSUME NEW o \in Ids, replaceCredentialFile(o) \/ setEnvironment(o) \/ failCredentialFile(o)
       PROVE  ConfigurationInv'
  BY <1>12, ReplaceKeeps, ReplaceLastKeeps, EnvironmentKeeps, RestoreKeeps
<1>13. ASSUME NEW o \in Ids, startTurn(o) PROVE ConfigurationInv'
  <2>1. CASE agent.pending \/ Reconfiguring(op[o].of)
    BY <1>13, <1>e, <2>1 DEF startTurn
  <2>2. CASE ~(agent.pending \/ Reconfiguring(op[o].of))
    BY <1>13, <2>2, StartKeeps DEF startTurn
  <2> QED BY <2>1, <2>2
<1>14. ASSUME NEW o \in Ids, endTurn(o) PROVE ConfigurationInv'
  BY <1>s, <1>14, EndKeeps DEF endTurn, Shaped
<1> QED BY <1>1, <1>2, <1>3, <1>4, <1>5, <1>6, <1>7, <1>8, <1>9, <1>10, <1>11, <1>12,
           <1>13, <1>14
        DEF Agent

\* The invariant holds at first.
LEMMA ConfigurationInit == Init => ConfigurationInv
<1> SUFFICES ASSUME Init PROVE ConfigurationInv
  OBVIOUS
<1>c. cp = [release |-> 2, target |-> [k \in Clis |-> 1], shown |-> [k \in Clis |-> 1],
            agent |-> 1, profile |-> [k \in Kinds |-> 1], bound |-> [k \in Kinds |-> 0]]
  BY DEF Init
<1>d. disk = [manifest |-> NoManifest, staged |-> {}, current |-> [k \in Clis |-> 1],
              installed |-> [k \in Clis |-> {1}], file |-> NoFiles]
  BY DEF Init
<1>g. agent = [phase |-> "connected", version |-> 1, pending |-> FALSE, restart |-> 0,
               command |-> [k \in {"codex", "gemini"} |-> 1],
               secret |-> [k \in {"codex", "gemini"} |-> 0]]
  BY DEF Init
<1>p. past = [faults |-> 0, changes |-> 0, tries |-> 0, deleted |-> {}, torn |-> {}]
  BY DEF Init
<1>n. /\ 1 \in Release /\ 2 \in Release /\ 1 \in Version /\ {0, 1} \subseteq Revision
  BY ConfigurationAssumption DEF Release, Version, Revision
<1>r. /\ NoOp \in Rows /\ NoOp.kind = "none" /\ NoOp.at = "away" /\ NoOp.ok = FALSE
      /\ NoOp.of = "none" /\ NoOp.status = "none" /\ NoOp.step = 0 /\ NoOp.conf = NoConf
  <2>1. NoConf \in [cli : Nat, secret : Nat] /\ NoFiles \in [Files -> Revision]
    BY <1>n DEF NoConf, NoFiles
  <2> QED BY <2>1 DEF NoOp, Rows, Places, OpKinds
<1>o. \A o \in Ids : op[o] = NoOp
  BY DEF Init
<1>1. Typed
  <2>1. cp \in Planes
    BY <1>c, <1>n DEF Planes
  <2>2. op \in [Ids -> Rows]
    BY <1>r DEF Init
  <2>3. disk \in Disks
    <3>1. NoManifest \in Manifests /\ NoFiles \in [Files -> Revision]
      BY <1>n, ConfigurationAssumption DEF NoManifest, Manifests, NoFiles
    <3>2. /\ [k \in Clis |-> 1] \in [Clis -> Version]
          /\ [k \in Clis |-> {1}] \in [Clis -> SUBSET Version]
      BY <1>n
    <3> QED BY <1>d, <3>1, <3>2 DEF Disks
  <2>4. agent \in Processes
    BY <1>g, <1>n DEF Processes
  <2>5. past \in Histories
    BY <1>p DEF Histories
  <2> QED BY <2>1, <2>2, <2>3, <2>4, <2>5 DEF Typed
<1>2. RowsShaped
  BY <1>r, <1>o DEF RowsShaped, Shaped, Installing
<1>3. IdleUnlessConnected /\ UpdateAlone /\ CredentialsOnce
  BY <1>g, <1>r, <1>o DEF IdleUnlessConnected, UpdateAlone, CredentialsOnce
<1>4. UntriedIsPending
  BY <1>d, <1>p DEF UntriedIsPending, NoManifest
<1>5. InstallsInOrder /\ ReservedOrRunning /\ TurnKeepsItsConfiguration
  BY <1>r, <1>o DEF InstallsInOrder, Installing, ReservedOrRunning, TurnKeepsItsConfiguration
<1>6. CliAsRecorded
  BY <1>d, <1>g DEF CliAsRecorded, Clis
<1>7. WrittenIsThere
  BY <1>r, <1>o DEF WrittenIsThere
<1>8. SecretsFollow
  BY <1>d, <1>g, <1>r, <1>o DEF SecretsFollow, WritesKey, NoFiles, Files
<1>9. ProfilesThere
  BY <1>c DEF ProfilesThere
<1>f. \A f \in Files : disk.file[f] = 0
  BY <1>d DEF NoFiles
<1>b. \A k \in Kinds : cp.bound[k] = 0
  BY <1>c
<1>10. BoundUntilWritten
  BY <1>f, <1>b, <1>r, <1>o DEF BoundUntilWritten, CodexBound, GitBound, Files, Kinds, Clis
<1>11. KeysUntilWritten
  BY <1>f, <1>b DEF KeysUntilWritten, Files, Kinds, Clis
<1> QED BY <1>1, <1>2, <1>3, <1>4, <1>5, <1>6, <1>7, <1>8, <1>9, <1>10, <1>11
        DEF ConfigurationInv

\* Every step of the control plane or of the Agent keeps it.
LEMMA ConfigurationStep == ConfigurationInv /\ [Next]_vars => ConfigurationInv'
<1>1. ASSUME ConfigurationInv, Next PROVE ConfigurationInv'
  BY <1>1, ControlPlaneKeeps, AgentKeeps DEF Next
<1>2. ASSUME ConfigurationInv, UNCHANGED vars PROVE ConfigurationInv'
  <2>1. UNCHANGED <<cp, op, disk, agent, past>>
    BY <1>2 DEF vars
  <2>2. Typed
    BY <1>2 DEF ConfigurationInv
  <2> QED BY <1>2, <2>1, <2>2, PlaneKeeps DEF Typed
<1> QED BY <1>1, <1>2

\* The rows, the Agent and its disk always fit together as the parts of the
\* invariant say.
THEOREM ConfigurationInvariance == Spec => []ConfigurationInv
BY ConfigurationInit, ConfigurationStep, PTL DEF Spec

-----------------------------------------------------------------------------
(* What it says *)

\* Every variable has its type, and an operation is only where its kind can be
\* and leaves nothing behind.
THEOREM ConfigurationTypeCorrect == Spec => []ConfigurationTypeOK
<1>1. ConfigurationInv => ConfigurationTypeOK
  <2> SUFFICES ASSUME ConfigurationInv PROVE ConfigurationTypeOK
    OBVIOUS
  <2>a. Typed /\ RowsShaped /\ UpdateAlone
    BY DEF ConfigurationInv
  <2>t. /\ cp \in Planes /\ op \in [Ids -> Rows] /\ disk \in Disks /\ agent \in Processes
    BY <2>a DEF Typed
  <2>1. ASSUME NEW o \in Ids
        PROVE  /\ op[o].status \in {"none", "queued", "delivered", "running"}
               /\ op[o].at \in CASE op[o].kind = "update" -> {"away", "sent", "seen", "staging", "ended", "receipt"}
                                 [] op[o].kind \in {"install", "codexupdate"} ->
                                      {"away", "sent", "seen", "ended", "receipt"} \cup Installing
                                 [] op[o].kind \in {"credentials", "api"} ->
                                      {"away", "sent", "seen", "writing", "written", "ended", "receipt"}
                                 [] op[o].kind = "turn" -> {"away", "sent", "seen", "running", "ended", "receipt"}
                                 [] OTHER -> {"away"}
               /\ op[o].at # "writing" => op[o].step = 0
               /\ op[o].at # "running" => op[o].conf = NoConf
    <3>1. Shaped(op[o]) /\ op[o].at \in Places /\ op[o].kind \in OpKinds
          /\ op[o].status \in {"none", "queued", "delivered", "running"}
      BY <2>a, <2>t, RowTypes DEF RowsShaped
    <3> QED BY <3>1 DEF Shaped, Installing, Places, OpKinds
  <2> QED BY <2>a, <2>t, <2>1
             DEF ConfigurationTypeOK, Planes, Disks, Manifests, Processes, UpdateAlone
<1> QED BY <1>1, ConfigurationInvariance, PTL

\* A binary that no stream has confirmed is started at most once (README.md:261):
\* the manifest says "pending" as long as it was not tried.
THEOREM UpdateIsTriedOnce == Spec => []UpdateTriedOnce
<1>1. ConfigurationInv => UpdateTriedOnce
  BY DEF ConfigurationInv, UntriedIsPending, UpdateTriedOnce
<1> QED BY <1>1, ConfigurationInvariance, PTL

\* The process is only replaced while an update is pending, and then no Gemini
\* or Claude turn runs.
THEOREM RestartsSpareTurns == Spec => RestartSparesTurns
<1>1. ASSUME ConfigurationInv, [Next]_vars, agent.phase # "down", agent'.version # agent.version,
             NEW o \in Ids, op[o].kind = "turn", op[o].of # "codex", op[o].at = "running"
      PROVE  FALSE
  <2>a. Typed /\ UpdateAlone /\ IdleUnlessConnected
    BY <1>1 DEF ConfigurationInv
  <2>t. agent \in Processes
    BY <2>a DEF Typed
  <2>1. agent.phase = "connected" /\ ~agent.pending /\ agent.restart = 0
    BY <1>1, <2>a DEF UpdateAlone, IdleUnlessConnected
  <2>2. ~activateStagedUpdate /\ ~ActivateCurrentUpdate /\ ~confirmCurrentUpdate
    BY <2>1 DEF activateStagedUpdate, ActivateCurrentUpdate, confirmCurrentUpdate
  <2>3. ASSUME ControlPlane PROVE UNCHANGED agent
    BY <2>3 DEF ControlPlane, UpgradeControlPlane, checkCLIUpdates, selectCLIVersion,
                installServerCLI, updateAgent, updateCodexCLI, updateServerCredentialProfiles,
                updateServerGeminiCredentialProfile, updateServerClaudeCredentialProfile,
                queueCodexTurn, queueGeminiTurn, queueClaudeInput, saveCredentialProfile,
                deleteCredentialProfile, ApplyStarted, ApplyResult, OwnershipLost,
                OwnershipActive, enqueueHeartbeat
  <2>4. CASE AgentDies
    <3>1. agent'.version = agent.version
      BY <2>t, <2>4 DEF AgentDies, Processes
    <3> QED BY <1>1, <3>1
  <2>5. ASSUME NEW p \in Ids, stageAgentUpdate(p) \/ downloadAgentUpdate(p) \/ setCommand(p)
                               \/ setEnvironment(p)
        PROVE  agent'.version = agent.version
    <3>1. ASSUME stageAgentUpdate(p) PROVE agent'.version = agent.version
      BY <2>t, <3>1 DEF stageAgentUpdate, Processes
    <3>2. ASSUME downloadAgentUpdate(p) PROVE agent'.version = agent.version
      BY <2>t, <3>2 DEF downloadAgentUpdate, Processes
    <3>3. ASSUME setCommand(p) PROVE agent'.version = agent.version
      BY <2>t, <3>3 DEF setCommand, Processes
    <3>4. ASSUME setEnvironment(p) PROVE agent'.version = agent.version
      BY <2>t, <3>4 DEF setEnvironment, Processes
    <3> QED BY <2>5, <3>1, <3>2, <3>3, <3>4
  <2>6. ASSUME NEW p \in Ids, \/ Deliver(p) \/ Receive(p) \/ lockInstall(p) \/ reconfigureCommand(p)
                               \/ installCLI(p) \/ writeManagedCLIVersion(p)
                               \/ configureCredentials(p) \/ configureGeminiCredentials(p)
                               \/ configureClaudeCredentials(p) \/ replaceCredentialFile(p)
                               \/ failCredentialFile(p) \/ startTurn(p) \/ endTurn(p)
        PROVE  UNCHANGED agent
    BY <2>6 DEF Deliver, Receive, lockInstall, reconfigureCommand, installCLI,
                writeManagedCLIVersion, configureCredentials, configureGeminiCredentials,
                configureClaudeCredentials, replaceCredentialFile, failCredentialFile,
                startTurn, endTurn
  <2>7. CASE UNCHANGED vars
    BY <1>1, <2>7 DEF vars
  <2> QED BY <1>1, <2>2, <2>3, <2>4, <2>5, <2>6, <2>7 DEF Next, Agent
<1>2. ConfigurationInv /\ [Next]_vars =>
        [agent.phase # "down" /\ agent'.version # agent.version =>
           \A o \in Ids : op[o].kind = "turn" /\ op[o].of # "codex" => op[o].at # "running"]_vars
  BY <1>1
<1> QED BY <1>2, ConfigurationInvariance, PTL DEF Spec, RestartSparesTurns

\* Where no update of a kind of credential is under way or was cut short, its
\* files are those of one revision and those that are bound, and the Agent uses
\* them.
THEOREM CredentialsAreAsBound == Spec => []CredentialsAsBound
<1>1. ConfigurationInv => CredentialsAsBound
  <2> SUFFICES ASSUME ConfigurationInv PROVE CredentialsAsBound
    OBVIOUS
  <2>a. /\ Typed /\ RowsShaped /\ SecretsFollow /\ BoundUntilWritten /\ KeysUntilWritten
    BY DEF ConfigurationInv
  <2>1. ASSUME NEW K, K \in {"credentials", "api"}, \A o \in Ids : Active(o) =>
            op[o].kind \notin {K}
        PROVE  \A o \in Ids : op[o].kind # K
    BY <2>a, <2>1, ActiveRows
  <2>2. ASSUME \A o \in Ids : Active(o) => op[o].kind \notin {"credentials"},
               {"credentials"} \cap past.torn = {}
        PROVE  /\ CodexBound(disk.file) /\ GitBound(disk.file)
               /\ agent.phase # "down" => agent.secret["codex"] = disk.file["key"]
    <3>1. \A o \in Ids : op[o].kind # "credentials"
      BY <2>1, <2>2
    <3> QED BY <2>a, <2>2, <3>1 DEF BoundUntilWritten, SecretsFollow, WritesKey
  <2>3. ASSUME \A o \in Ids : Active(o) => op[o].kind \notin {"api"}, {"api"} \cap past.torn = {}
        PROVE  /\ \A k \in {"gemini", "claude"} \ past.deleted : cp.bound[k] = disk.file[k]
               /\ agent.phase # "down" => agent.secret["gemini"] = disk.file["gemini"]
    <3>1. \A o \in Ids : op[o].kind # "api"
      BY <2>1, <2>3
    <3> QED BY <2>a, <2>3, <3>1 DEF KeysUntilWritten, SecretsFollow
  <2> QED BY <2>2, <2>3 DEF CredentialsAsBound, CodexBound, GitBound
<1> QED BY <1>1, ConfigurationInvariance, PTL

\* The file that names the version of a command line names an installed one, and
\* the Agent uses it.
THEOREM CommandLineIsAsRecorded == Spec => []CliAsRecorded
<1>1. ConfigurationInv => CliAsRecorded
  BY DEF ConfigurationInv
<1> QED BY <1>1, ConfigurationInvariance, PTL

\* Neither the command line nor the credentials of a running turn change.
THEOREM TurnsKeepTheirConfiguration == Spec => []TurnKeepsItsConfiguration
<1>1. ConfigurationInv => TurnKeepsItsConfiguration
  BY DEF ConfigurationInv
<1> QED BY <1>1, ConfigurationInvariance, PTL
=============================================================================
