---------------------------- MODULE AuditLog ----------------------------
(***************************************************************************)
(* The audit log in its durable mode (src/rci/audit/logger.py,             *)
(* hash_chain.py).  append() makes an entry from the last one in memory,   *)
(* has a thread write it to the file, and then accepts it in memory, all   *)
(* under an asyncio lock.  The thread cannot be cancelled with its caller: *)
(* cut loose, it writes its line later, or never if it had not begun.      *)
(*                                                                         *)
(* An entry holds a fresh uuid, so that its hash stands for the entry and  *)
(* no other; here the event does, since no event is appended twice.        *)
(***************************************************************************)
EXTENDS Integers, Sequences

CONSTANTS
  Appenders,   \* tasks that call append()
  Audited,     \* what may be appended
  Genesis,     \* GENESIS_HASH
  Torn         \* a line of the file that is no entry

VARIABLES
  memory,      \* _entries
  file,        \* the lines of the file
  appends,     \* the calls of append(): the head holds _lock
  thread,      \* the thread that writes for the head: its line and progress
  orphans      \* lines of threads whose caller was cancelled

audit == <<memory, file, appends, thread, orphans>>

Entries == [sequence : Nat, event : Audited, previous : Audited \cup {Genesis}]

NoThread == [pc |-> "none"]

Link(entries) ==
  IF entries # <<>> THEN entries[Len(entries)].event ELSE Genesis

Entry(event) ==
  [sequence |-> Len(memory), event |-> event, previous |-> Link(memory)]

Writing(event) == [pc |-> "writing", line |-> Entry(event)]

\* verify_chain, after _load found no line that is not an entry.
Verifies(lines) ==
  \A i \in 1 .. Len(lines) :
    /\ lines[i] # Torn
    /\ lines[i].sequence = i - 1
    /\ lines[i].previous = IF i = 1 THEN Genesis ELSE lines[i - 1].event

\* The log is opened on a file that verifies.
Init(lines) ==
  /\ Verifies(lines) /\ file = lines /\ memory = lines
  /\ appends = <<>> /\ thread = NoThread /\ orphans = {}

BeginAppend(a, event) ==
  /\ appends' = Append(appends, [by |-> a, event |-> event])
  /\ thread' = IF appends = <<>> THEN Writing(event) ELSE thread
  /\ UNCHANGED <<memory, file, orphans>>

\* The lock passes on to the next call, which starts its thread.
ObtainLock ==
  /\ appends # <<>> /\ thread = NoThread
  /\ thread' = Writing(Head(appends).event)
  /\ UNCHANGED <<memory, file, appends, orphans>>

\* _append_line in its thread.
WriteLine ==
  /\ thread.pc = "writing"
  /\ file' = Append(file, thread.line)
  /\ thread' = [thread EXCEPT !.pc = "written"]
  /\ UNCHANGED <<memory, appends, orphans>>

\* Opening, writing or syncing raises: the line is absent, there, or torn.
WriteFails ==
  /\ thread.pc = "writing"
  /\ \/ UNCHANGED file
     \/ file' = Append(file, thread.line)
     \/ file' = Append(file, Torn)
  /\ thread' = [thread EXCEPT !.pc = "failed"]
  /\ UNCHANGED <<memory, appends, orphans>>

Unlock == appends' = Tail(appends) /\ thread' = NoThread

\* The head resumes with the outcome of its thread.
Accept(a) ==
  /\ thread.pc = "written" /\ Head(appends).by = a
  /\ memory' = Append(memory, thread.line)
  /\ Unlock /\ UNCHANGED <<file, orphans>>

\* Seeded fault: what could not be written is accepted all the same.
AcceptedAfterFailureToo == Append(memory, thread.line)

AcceptedAfterFailure == memory

Raise(a) ==
  /\ thread.pc = "failed" /\ Head(appends).by = a
  /\ memory' = AcceptedAfterFailure
  /\ Unlock /\ UNCHANGED <<file, orphans>>

\* The calls of some tasks are cancelled.  A thread that is still at work is cut
\* loose; what a finished one wrote stays in the file.
Abort(cancelled) ==
  LET left[n \in 0 .. Len(appends)] ==
        IF n = 0 THEN <<>>
        ELSE IF appends[n].by \in cancelled THEN left[n - 1]
        ELSE Append(left[n - 1], appends[n])
      headCancelled == appends # <<>> /\ Head(appends).by \in cancelled
  IN /\ appends' = left[Len(appends)]
     /\ thread' = IF headCancelled THEN NoThread ELSE thread
     /\ orphans' = IF headCancelled /\ thread.pc = "writing"
                   THEN orphans \cup {thread.line} ELSE orphans
     /\ UNCHANGED <<memory, file>>

\* A thread cut loose writes its line, or had not begun and never does.
OrphanEnds(line) ==
  /\ line \in orphans
  /\ orphans' = orphans \ {line}
  /\ \/ file' = Append(file, line)
     \/ UNCHANGED file
  /\ UNCHANGED <<memory, appends, thread>>

---------------------------------------------------------------------------

AuditTypeOK ==
  /\ memory \in Seq(Entries) /\ file \in Seq(Entries \cup {Torn})
  /\ appends \in Seq([by : Appenders, event : Audited])
  /\ thread \in {NoThread} \cup [pc : {"writing", "written", "failed"}, line : Entries]
  /\ orphans \subseteq Entries
===========================================================================
