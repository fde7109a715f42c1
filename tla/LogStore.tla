------------------------------ MODULE LogStore ------------------------------
(***************************************************************************)
(* What the log layout promises an application that writes, flushes and    *)
(* then reads: a write is queued, a flush makes queued writes permanent,   *)
(* and a read of a cell returns a value that was flushed to that cell, or  *)
(* nothing when no flushed write covers it.  There is no file, no index,   *)
(* no metadata and no MPI here; LogFile implements this specification.     *)
(***************************************************************************)
EXTENDS Naturals

CONSTANTS
  Writes,    \* every write the application can issue; a record with a cell
  Cells,     \* the cells a write covers and a read asks for
  Readers,   \* the processes that read
  Nothing    \* what a read of a cell without data returns

VARIABLES
  queued,    \* writes accepted, not yet flushed
  stored,    \* writes whose data is in the file
  got        \* the answer each process received last

vars == <<queued, stored, got>>

TypeOK ==
  /\ queued \subseteq Writes
  /\ stored \subseteq Writes
  /\ got \in [Readers -> Writes \cup {Nothing}]

Init ==
  /\ queued = {}
  /\ stored = {}
  /\ got = [r \in Readers |-> Nothing]

Put(w) ==
  /\ w \notin queued \cup stored
  /\ queued' = queued \cup {w}
  /\ UNCHANGED <<stored, got>>

Commit(S) ==
  /\ S # {}
  /\ queued' = queued \ S
  /\ stored' = stored \cup S
  /\ UNCHANGED got

Answers(c) == {w \in stored : w.cell = c}

Get(r, c) ==
  /\ \/ /\ Answers(c) = {}
        /\ got' = [got EXCEPT ![r] = Nothing]
     \/ \E w \in Answers(c) : got' = [got EXCEPT ![r] = w]
  /\ UNCHANGED <<queued, stored>>

Next ==
  \/ \E w \in Writes : Put(w)
  \/ \E S \in SUBSET queued : Commit(S)
  \/ \E r \in Readers, c \in Cells : Get(r, c)

Spec == Init /\ [][Next]_vars
=============================================================================
