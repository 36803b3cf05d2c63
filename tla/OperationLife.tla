--------------------------- MODULE OperationLife ---------------------------
(***************************************************************************)
(* What the callers of the control plane may rely on when they queue an    *)
(* operation, with no message, cache, receipt file or process in sight: a  *)
(* row that is active and then settled for good, work that begins while    *)
(* the row is active, and an effect that is decided once and is what the   *)
(* row ends with.  AgentOperations implements it.                          *)
(*                                                                         *)
(* The promise lasts for as long as the Agent can save and read its        *)
(* receipts (trusted); Unreliable is what is left of it afterwards.        *)
(***************************************************************************)

CONSTANTS
    Op,           \* operations
    Writers,      \* those that write to a workspace
    Turns,        \* the turns among them
    Scans,        \* those an interruption can prevent
    FileScans,    \* the scans the control plane does not wait for
    Interrupts,   \* interruptions, which may be repeated
    WorkspaceOf

VARIABLES
    row,       \* none, active, or how the operation is said to have ended
    working,   \* operations at work on the managed server
    begun,     \* operations that have been at work
    effect,    \* how an operation ended there; "none" before
    trusted    \* receipts could be saved and read so far

vars == <<row, working, begun, effect, trusted>>

Settled == {"succeeded", "failed", "cancelled"}
Outcome == Settled \cup {"interrupted"}

Init ==
    /\ row = [o \in Op |-> "none"]
    /\ working = {} /\ begun = {}
    /\ effect = [o \in Op |-> "none"]
    /\ trusted = TRUE

Together(a, b) == a /= b /\ WorkspaceOf[a] = WorkspaceOf[b]

\* One write of a workspace is asked for at a time
Request(o) ==
    /\ row[o] = "none"
    /\ o \in Writers => \A w \in Writers : Together(o, w) => row[w] /= "active"
    /\ row' = [row EXCEPT ![o] = "active"]
    /\ UNCHANGED <<working, begun, effect>>

\* Work begins for a row that waits for it, while no other write of the
\* workspace is at work, and never once the effect is decided; a turn begins once
Begin(o) ==
    /\ row[o] /= "none" /\ (o \notin FileScans => row[o] = "active")
    /\ o \notin working /\ effect[o] = "none"
    /\ o \in Turns => o \notin begun
    /\ o \in Writers => \A w \in Writers \cap working : ~Together(o, w)
    /\ working' = working \cup {o}
    /\ begun' = begun \cup {o}
    /\ UNCHANGED <<row, effect>>

End(o) ==
    /\ o \in working /\ effect[o] = "none"
    /\ working' = working \ {o}
    /\ \E r \in Outcome : effect' = [effect EXCEPT ![o] = r]
    /\ UNCHANGED <<row, begun>>

\* An interruption that comes first
Prevent(o) ==
    /\ o \in Scans \ working /\ effect[o] = "none"
    /\ effect' = [effect EXCEPT ![o] = "cancelled"]
    /\ UNCHANGED <<row, working, begun>>

\* The row ends with the effect; an interruption that is repeated may end otherwise
Settle(o) ==
    /\ row[o] = "active"
    /\ effect[o] /= "none"
    /\ \/ row' = [row EXCEPT ![o] = IF effect[o] = "interrupted" THEN "cancelled" ELSE effect[o]]
       \/ o \in Interrupts /\ effect[o] = "succeeded" /\ row' = [row EXCEPT ![o] = "failed"]
    /\ UNCHANGED <<working, begun, effect>>

\* A turn is cancelled before it begins, and then never does
Withdraw(o) ==
    /\ row[o] = "active" /\ o \notin begun
    /\ row' = [row EXCEPT ![o] = "cancelled"]
    /\ UNCHANGED <<working, begun, effect>>

Expire(o) ==
    /\ row[o] = "active"
    /\ row' = [row EXCEPT ![o] = "failed"]
    /\ UNCHANGED <<working, begun, effect>>

\* The Agent dies, and what was at work with it
Die == working' = {} /\ UNCHANGED <<row, begun, effect>>

Reliable ==
    /\ trusted /\ trusted'
    /\ \/ \E o \in Op : Request(o) \/ Begin(o) \/ End(o) \/ Prevent(o) \/ Settle(o)
       \/ \E o \in Turns : Withdraw(o)
       \/ \E o \in FileScans : Expire(o)
       \/ Die

\* Without receipts work may be done again and rows may be wrong.  Still, a row
\* that has ended stays as it is, one write of a workspace is active at a time,
\* and a turn that has begun does not begin again.
Unreliable ==
    /\ ~trusted'
    /\ \A o \in Op : row[o] \in Settled => row'[o] = row[o]
    /\ \A a, b \in Writers : Together(a, b) => ~(row'[a] = "active" /\ row'[b] = "active")
    /\ begun \subseteq begun'
    /\ \A o \in Turns \cap begun : o \in working' => o \in working

Next == Reliable \/ Unreliable

Spec == Init /\ [][Next]_vars
=============================================================================
