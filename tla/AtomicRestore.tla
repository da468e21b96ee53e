---------------------------- MODULE AtomicRestore ----------------------------
(***************************************************************************)
(* What a restore promises, whatever happens while it is applied: the      *)
(* database the service works on changes by commits, or at once into the   *)
(* snapshot that was staged last, and then the file it had before is kept. *)
(***************************************************************************)
CONSTANTS
  Commits,    \* write transactions
  Damaged,    \* a file that is no snapshot
  Nothing,    \* no file
  Seconds     \* clock values, which name the copies that are kept

VARIABLES
  made,       \* every commit there has been
  current,    \* the database: the commits a reader sees
  durable,    \* the part of it that is in the database file itself
  pending,    \* the snapshot that is staged, or Nothing
  saved       \* the copies kept so far

vars == <<made, current, durable, pending, saved>>
Content == (SUBSET Commits) \cup {Damaged}

Init ==
  /\ made = {} /\ current = {} /\ durable = {}
  /\ pending = Nothing
  /\ saved = [t \in Seconds |-> Nothing]

\* A commit is made once; only then does the database hold more than before.
Commit(c) ==
  /\ current # Damaged /\ c \notin made
  /\ made' = made \cup {c}
  /\ current' = current \cup {c}
  /\ UNCHANGED <<durable, pending, saved>>

Checkpoint ==
  /\ durable' = current
  /\ UNCHANGED <<made, current, pending, saved>>

Stage(x) ==
  /\ pending' = x
  /\ UNCHANGED <<made, current, durable, saved>>

Apply(t) ==
  /\ pending # Nothing
  /\ saved' = [saved EXCEPT ![t] = durable]
  /\ current' = pending /\ durable' = pending
  /\ pending' = Nothing
  /\ UNCHANGED made

Next ==
  \/ \E c \in Commits : Commit(c)
  \/ Checkpoint
  \/ \E x \in Content : Stage(x)
  \/ \E t \in Seconds : Apply(t)

Spec == Init /\ [][Next]_vars
=============================================================================
