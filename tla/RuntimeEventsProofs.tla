---------------------- MODULE RuntimeEventsProofs -----------------------
(***************************************************************************)
(* Theorems about RuntimeEvents, for any number of workers, tasks and      *)
(* incidents and any size of the queue: the log is on disk, the manager's  *)
(* state is announced without a gap, and a draining stop leaves everything *)
(* on record.                                                              *)
(*                                                                         *)
(* The inductive invariant has a part for each component and one for what  *)
(* lies between them: LogInv for the file and the thread that writes it,   *)
(* BusInv for the numbers in the queue and the caller that waits for room, *)
(* LockInv for the order of the manager's calls, AnnounceInv for what they *)
(* announce, and AuditInv for the way of an event from the queue through a *)
(* worker's dispatch and an append into memory.                            *)
(***************************************************************************)
EXTENDS RuntimeEvents, FiniteSetTheorems, NaturalsInduction, SequenceTheorems,
        WellFoundedInduction, TLAPS

---------------------------------------------------------------------------
(* Numbers and queues.                                                     *)

\* The well-order of the naturals, for sets: it is what stands for induction
\* below.
LEMMA LeastNumber ==
  ASSUME NEW T \in SUBSET Nat, T # {}
  PROVE  \E x \in T : \A y \in T : x <= y
<1> DEFINE R == OpToRel(<, Nat)
<1>1. IsWellFoundedOn(R, Nat)
  BY NatLessThanWellFounded
<1>2. R = {ss \in Nat \X Nat : ss[1] < ss[2]}
  BY DEF OpToRel
<1> HIDE DEF R
<1>3. PICK x \in T : \A y \in T : ~(<<y, x>> \in R)
  BY <1>1, WFMin
<1>4. \A m, n \in Nat : m < n => <<m, n>> \in R
  BY <1>2
<1>5. \A y \in T : y \in Nat /\ x \in Nat /\ ~(y < x)
  BY <1>3, <1>4
<1>6. \A y \in T : x <= y
  BY <1>5
<1> QED
  BY <1>3, <1>6

LEMMA EveryNumber ==
  ASSUME NEW T \in SUBSET Nat, 0 \in T, \A n \in T : n + 1 \in T
  PROVE  T = Nat
<1> SUFFICES ASSUME Nat \ T # {} PROVE FALSE
  OBVIOUS
<1>1. PICK x \in Nat \ T : \A y \in Nat \ T : x <= y
  BY LeastNumber
<1>2. x # 0 /\ x - 1 \in Nat /\ ~(x <= x - 1)
  BY <1>1
<1>3. x - 1 \in T
  BY <1>1, <1>2
<1> QED
  BY <1>1, <1>2, <1>3

\* What Abort leaves of the calls.
LeftIn(left, s, gone) ==
  left = [n \in 0 .. Len(s) |->
            IF n = 0 THEN <<>>
            ELSE IF s[n].by \in gone THEN left[n - 1]
            ELSE Append(left[n - 1], s[n])]

LEMMA LeftExists ==
  ASSUME NEW S, NEW s \in Seq(S), NEW gone
  PROVE  \E left : LeftIn(left, s, gone)
<1> DEFINE Step(f, n) == IF n = 0 THEN <<>>
                         ELSE IF s[n].by \in gone THEN f[n - 1]
                         ELSE Append(f[n - 1], s[n])
           T == {n \in Nat : \E f : f = [m \in 0 .. n |-> Step(f, m)]}
<1>1. 0 \in T
  <2> DEFINE f == [m \in 0 .. 0 |-> <<>>]
  <2>1. f = [m \in 0 .. 0 |-> Step(f, m)]
    OBVIOUS
  <2> QED
    BY <2>1
<1>2. ASSUME NEW n \in T PROVE n + 1 \in T
  <2>1. PICK f : f = [m \in 0 .. n |-> Step(f, m)]
    OBVIOUS
  <2> DEFINE g == [m \in 0 .. n + 1 |-> IF m = n + 1 THEN Step(f, m) ELSE f[m]]
  <2>2. \A m \in 0 .. n + 1 : g[m] = Step(g, m)
    <3> TAKE m \in 0 .. n + 1
    <3>1. CASE m = n + 1
      BY <3>1
    <3>2. CASE m # n + 1
      <4>1. m \in 0 .. n /\ (m # 0 => m - 1 \in 0 .. n)
        BY <3>2
      <4>2. g[m] = Step(f, m)
        BY <2>1, <3>2, <4>1
      <4>3. m # 0 => g[m - 1] = f[m - 1]
        BY <4>1
      <4> QED
        BY <4>2, <4>3
    <3> QED
      BY <3>1, <3>2
  <2>3. g = [m \in 0 .. n + 1 |-> g[m]]
    OBVIOUS
  <2> HIDE DEF g, Step
  <2>4. g = [m \in 0 .. n + 1 |-> Step(g, m)]
    BY <2>2, <2>3
  <2> QED
    BY <2>4
<1>3. T = Nat
  <2> HIDE DEF T
  <2>1. T \subseteq Nat
    BY DEF T
  <2> QED
    BY <1>1, <1>2, <2>1, EveryNumber
<1>4. Len(s) \in T
  <2> HIDE DEF T
  <2> QED
    BY <1>3
<1>5. PICK left : left = [m \in 0 .. Len(s) |-> Step(left, m)]
  <2> HIDE DEF Step
  <2> QED
    BY <1>4
<1>6. LeftIn(left, s, gone)
  BY <1>5 DEF LeftIn
<1> QED
  BY <1>6

\* What is left are calls of the others, each once and in the old order, among
\* them the first if it was one of theirs.
LEMMA LeftProperties ==
  ASSUME NEW S, NEW s \in Seq(S), NEW gone, NEW left, LeftIn(left, s, gone)
  PROVE  LET rest == left[Len(s)]
         IN /\ rest \in Seq(S)
            /\ \E at \in [1 .. Len(rest) -> 1 .. Len(s)] :
                 /\ \A k \in 1 .. Len(rest) :
                      rest[k] = s[at[k]] /\ s[at[k]].by \notin gone
                 /\ \A k, l \in 1 .. Len(rest) : k # l => at[k] # at[l]
            /\ s # <<>> /\ s[1].by \notin gone => rest # <<>> /\ rest[1] = s[1]
<1> DEFINE Good(n) ==
             /\ left[n] \in Seq(S)
             /\ \E at \in [1 .. Len(left[n]) -> 1 .. n] :
                  /\ \A k \in 1 .. Len(left[n]) :
                       left[n][k] = s[at[k]] /\ s[at[k]].by \notin gone
                  /\ \A k, l \in 1 .. Len(left[n]) : k # l => at[k] # at[l]
             /\ n # 0 /\ s[1].by \notin gone => left[n] # <<>> /\ left[n][1] = s[1]
           T == {n \in Nat : n <= Len(s) => Good(n)}
<1>0. /\ left[0] = <<>>
      /\ \A n \in 1 .. Len(s) :
           left[n] = IF s[n].by \in gone THEN left[n - 1]
                     ELSE Append(left[n - 1], s[n])
  <2> DEFINE Step(n) == IF n = 0 THEN <<>>
                        ELSE IF s[n].by \in gone THEN left[n - 1]
                        ELSE Append(left[n - 1], s[n])
  <2>1. left = [n \in 0 .. Len(s) |-> Step(n)]
    BY DEF LeftIn
  <2> HIDE DEF Step
  <2>2. \A n \in 0 .. Len(s) : left[n] = Step(n)
    BY <2>1
  <2>3. 0 \in 0 .. Len(s) /\ 1 .. Len(s) \subseteq 0 .. Len(s)
    OBVIOUS
  <2> QED
    BY <2>2, <2>3 DEF Step
<1>1. 0 \in T
  <2>1. left[0] = <<>>
    BY <1>0
  <2>2. Good(0)
    <3> DEFINE at == [k \in 1 .. 0 |-> 1]
    <3>1. at \in [1 .. Len(left[0]) -> 1 .. 0]
      BY <2>1
    <3>2. \A k \in 1 .. Len(left[0]) : FALSE
      BY <2>1
    <3>3. left[0] \in Seq(S)
      BY <2>1
    <3> HIDE DEF at
    <3> QED
      BY <3>1, <3>2, <3>3
  <2> QED
    BY <2>2
<1>2. ASSUME NEW n \in T PROVE n + 1 \in T
  <2> SUFFICES ASSUME n + 1 <= Len(s) PROVE Good(n + 1)
    OBVIOUS
  <2>1. Good(n) /\ n \in Nat /\ n + 1 \in 1 .. Len(s)
    OBVIOUS
  <2> DEFINE old == left[n]
             new == left[n + 1]
  <2>2. new = IF s[n + 1].by \in gone THEN old ELSE Append(old, s[n + 1])
    <3>1. (n + 1) - 1 = n
      BY <2>1
    <3> QED
      BY <1>0, <2>1, <3>1
  <2>3. PICK at \in [1 .. Len(old) -> 1 .. n] :
          /\ \A k \in 1 .. Len(old) : old[k] = s[at[k]] /\ s[at[k]].by \notin gone
          /\ \A k, l \in 1 .. Len(old) : k # l => at[k] # at[l]
    BY <2>1
  <2>4. old \in Seq(S) /\ Len(old) \in Nat /\ s[n + 1] \in S
    BY <2>1
  <2>5. n # 0 /\ s[1].by \notin gone => old # <<>> /\ old[1] = s[1]
    BY <2>1
  <2>6. n = 0 => old = <<>>
    BY <1>0
  <2> HIDE DEF old, new
  <2>7. CASE s[n + 1].by \in gone
    <3>1. at \in [1 .. Len(new) -> 1 .. n + 1]
      BY <2>1, <2>2, <2>7
    <3>2. n + 1 # 0 /\ s[1].by \notin gone => new # <<>> /\ new[1] = s[1]
      BY <2>1, <2>2, <2>5, <2>7
    <3>3. /\ new \in Seq(S)
          /\ \A k \in 1 .. Len(new) : new[k] = s[at[k]] /\ s[at[k]].by \notin gone
          /\ \A k, l \in 1 .. Len(new) : k # l => at[k] # at[l]
      BY <2>2, <2>3, <2>4, <2>7
    <3> QED
      BY <3>1, <3>2, <3>3 DEF new
  <2>8. CASE s[n + 1].by \notin gone
    <3> DEFINE at2 == [k \in 1 .. Len(old) + 1 |-> IF k = Len(old) + 1 THEN n + 1 ELSE at[k]]
    <3>1. /\ new \in Seq(S) /\ Len(new) = Len(old) + 1 /\ new # <<>>
          /\ \A k \in 1 .. Len(old) : new[k] = old[k]
          /\ new[Len(old) + 1] = s[n + 1]
      BY <2>2, <2>4, <2>8
    <3>2. at2 \in [1 .. Len(new) -> 1 .. n + 1]
      BY <2>1, <2>3, <2>4, <3>1
    <3>3. \A k \in 1 .. Len(new) : new[k] = s[at2[k]] /\ s[at2[k]].by \notin gone
      BY <2>3, <2>4, <2>8, <3>1
    <3>4. \A k, l \in 1 .. Len(new) : k # l => at2[k] # at2[l]
      <4> TAKE k, l \in 1 .. Len(new)
      <4> HAVE k # l
      <4>0. /\ k \in 1 .. Len(old) + 1 /\ l \in 1 .. Len(old) + 1
            /\ at2[k] = IF k = Len(old) + 1 THEN n + 1 ELSE at[k]
            /\ at2[l] = IF l = Len(old) + 1 THEN n + 1 ELSE at[l]
        BY <3>1
      <4>1. at2[k] \in 1 .. n + 1 /\ (k <= Len(old) => at2[k] \in 1 .. n)
        <5> HIDE DEF at2
        <5>1. k <= Len(old) => k \in 1 .. Len(old) /\ k # Len(old) + 1
          BY <2>4, <4>0
        <5>2. k <= Len(old) => at2[k] \in 1 .. n
          BY <2>3, <4>0, <5>1
        <5> QED
          BY <2>1, <2>4, <4>0, <5>2
      <4>2. at2[l] \in 1 .. n + 1 /\ (l <= Len(old) => at2[l] \in 1 .. n)
        <5> HIDE DEF at2
        <5>1. l <= Len(old) => l \in 1 .. Len(old) /\ l # Len(old) + 1
          BY <2>4, <4>0
        <5>2. l <= Len(old) => at2[l] \in 1 .. n
          BY <2>3, <4>0, <5>1
        <5> QED
          BY <2>1, <2>4, <4>0, <5>2
      <4>3. CASE k <= Len(old) /\ l <= Len(old)
        <5>1. k \in 1 .. Len(old) /\ l \in 1 .. Len(old)
              /\ at2[k] = at[k] /\ at2[l] = at[l]
          BY <2>4, <4>0, <4>3
        <5> HIDE DEF at2
        <5> QED
          BY <2>3, <5>1
      <4>4. CASE k = Len(old) + 1 \/ l = Len(old) + 1
        <5> HIDE DEF at2
        <5> QED
          BY <2>1, <2>4, <4>0, <4>1, <4>2, <4>4
      <4> QED
        BY <2>4, <3>1, <4>3, <4>4
    <3>5. n + 1 # 0 /\ s[1].by \notin gone => new # <<>> /\ new[1] = s[1]
      BY <2>1, <2>4, <2>5, <2>6, <3>1
    <3> HIDE DEF at2
    <3> QED
      BY <3>1, <3>2, <3>3, <3>4, <3>5 DEF new
  <2> QED
    BY <2>7, <2>8
<1>3. Good(Len(s)) /\ Len(s) \in Nat
  <2>1. T = Nat
    <3> HIDE DEF T
    <3>1. T \subseteq Nat
      BY DEF T
    <3> QED
      BY <1>1, <1>2, <3>1, EveryNumber
  <2>2. Len(s) \in T
    <3> HIDE DEF T
    <3> QED
      BY <2>1
  <2> HIDE DEF Good
  <2> QED
    BY <2>2
<1>4. s # <<>> => Len(s) # 0
  OBVIOUS
<1> QED
  BY <1>3, <1>4

LEMMA TailIsRest ==
  ASSUME NEW S, NEW s \in Seq(S), s # <<>>
  PROVE  /\ Head(s) \in S /\ Tail(s) \in Seq(S)
         /\ Len(s) \in Nat \ {0} /\ Head(s) = s[1]
         /\ Len(Tail(s)) = Len(s) - 1
         /\ \A i \in 1 .. Len(Tail(s)) : Tail(s)[i] = s[i + 1]
  OBVIOUS

LEMMA AppendIsLast ==
  ASSUME NEW S, NEW s \in Seq(S), NEW x \in S
  PROVE  /\ Append(s, x) \in Seq(S)
         /\ Len(s) \in Nat /\ Len(Append(s, x)) = Len(s) + 1
         /\ \A i \in 1 .. Len(s) : Append(s, x)[i] = s[i]
         /\ Append(s, x)[Len(s) + 1] = x
         /\ Append(s, x) # <<>>
  OBVIOUS

---------------------------------------------------------------------------
(* The log.                                                                *)

Logged == Bus!Items \cup {Direct(n) : n \in 1 .. MaxIncidents + 1}
Appending == [by : Workers \cup {Clerk}, event : Logged]
AnEntry == [sequence : Nat, event : Logged, previous : Logged \cup {Genesis}]
Lines == AnEntry \cup {Torn}

\* Whatever has happened to the file, every accepted entry is on it, as far down
\* as in memory or farther; and as long as no line was left that should not be
\* there, the file is the memory and the line that was just written.
LogTyped ==
  /\ memory \in Seq(AnEntry) /\ file \in Seq(Lines)
  /\ appends \in Seq(Appending)
  /\ thread \in {Log!NoThread} \cup [pc : {"writing", "written", "failed"}, line : AnEntry]
  /\ orphans \subseteq AnEntry

HeadIsWritten ==
  thread # Log!NoThread
    => appends # <<>> /\ thread.line = Log!Entry(appends[1].event)

LineIsOnFile ==
  thread.pc = "written"
    => \E j \in Len(memory) + 1 .. Len(file) : file[j] = thread.line

FileIsMemory ==
  damaged = {}
    => /\ orphans = {}
       /\ file = IF thread.pc = "written" THEN Append(memory, thread.line)
                 ELSE memory

LogInv ==
  /\ LogTyped /\ HeadIsWritten /\ LineIsOnFile /\ FileIsMemory
  /\ AcceptedIsDurable

LEMMA LogTypeOK == LogTyped => Log!AuditTypeOK
  BY DEF LogTyped, Log!AuditTypeOK, Log!Entries, Log!NoThread, AnEntry, Lines,
         Appending, Logged

\* Room on the file for all that is in memory.
LEMMA FileIsLongEnough ==
  ASSUME LogTyped, AcceptedIsDurable
  PROVE  Len(memory) \in Nat /\ Len(file) \in Nat /\ Len(memory) <= Len(file)
<1>1. Len(memory) \in Nat /\ Len(file) \in Nat
  BY DEF LogTyped
<1>2. CASE Len(memory) = 0
  BY <1>1, <1>2
<1>3. CASE Len(memory) # 0
  <2>1. \E j \in Len(memory) .. Len(file) : file[j] = memory[Len(memory)]
    BY <1>1, <1>3 DEF AcceptedIsDurable
  <2> QED
    BY <1>1, <2>1
<1> QED
  BY <1>1, <1>2, <1>3

\* The entry that the thread writes continues the chain.
LEMMA EntryContinues ==
  ASSUME LogTyped, NEW event \in Logged
  PROVE  /\ Log!Entry(event) \in AnEntry
         /\ Log!Entry(event).sequence = Len(memory)
         /\ Log!Entry(event).event = event
         /\ Log!Entry(event).previous = Log!Link(memory)
         /\ Log!Link(memory) = IF Len(memory) = 0 THEN Genesis
                               ELSE memory[Len(memory)].event
<1>1. Log!Entry(event) = [sequence |-> Len(memory), event |-> event,
                          previous |-> Log!Link(memory)]
  BY DEF Log!Entry
<1>2. Len(memory) \in Nat /\ (memory # <<>> <=> Len(memory) # 0)
  BY DEF LogTyped
<1>3. Log!Link(memory) = IF Len(memory) = 0 THEN Genesis
                         ELSE memory[Len(memory)].event
  BY <1>2 DEF Log!Link
<1>4. Log!Link(memory) \in Logged \cup {Genesis}
  <2>1. Len(memory) # 0 => memory[Len(memory)] \in AnEntry
    BY <1>2 DEF LogTyped
  <2> QED
    BY <1>3, <2>1 DEF AnEntry
<1> QED
  BY <1>1, <1>2, <1>3, <1>4 DEF AnEntry

LEMMA ChainContinues ==
  ASSUME LogTyped, Log!Verifies(memory), NEW event \in Logged
  PROVE  Log!Verifies(Append(memory, Log!Entry(event)))
<1> DEFINE line == Log!Entry(event)
           longer == Append(memory, line)
<1>1. /\ line \in AnEntry /\ line.sequence = Len(memory)
      /\ line.previous = IF Len(memory) = 0 THEN Genesis
                         ELSE memory[Len(memory)].event
  BY EntryContinues
<1>2. line # Torn
  BY <1>1, EventsAssumption DEF AnEntry, Log!Entries, Logged
<1> HIDE DEF line
<1>3. /\ Len(memory) \in Nat /\ Len(longer) = Len(memory) + 1
      /\ \A i \in 1 .. Len(memory) : longer[i] = memory[i]
      /\ longer[Len(memory) + 1] = line
  BY <1>1 DEF LogTyped
<1> HIDE DEF longer
<1>4. ASSUME NEW i \in 1 .. Len(longer)
      PROVE  /\ longer[i] # Torn
             /\ longer[i].sequence = i - 1
             /\ longer[i].previous = IF i = 1 THEN Genesis
                                     ELSE longer[i - 1].event
  <2>1. CASE i <= Len(memory)
    <3>1. i \in 1 .. Len(memory) /\ (i # 1 => i - 1 \in 1 .. Len(memory))
      BY <1>3, <2>1
    <3> QED
      BY <1>3, <3>1 DEF Log!Verifies
  <2>2. CASE i = Len(memory) + 1
    BY <1>1, <1>2, <1>3, <2>2
  <2> QED
    BY <1>3, <2>1, <2>2
<1>5. Log!Verifies(longer)
  BY <1>4 DEF Log!Verifies
<1> QED
  BY <1>5 DEF longer, line

LEMMA BeginAppendInv ==
  ASSUME LogInv, NEW a \in Workers \cup {Clerk}, NEW event \in Logged,
         Log!BeginAppend(a, event), UNCHANGED damaged
  PROVE  LogInv'
<1> DEFINE begun == [by |-> a, event |-> event]
<1>1. /\ appends' = Append(appends, begun)
      /\ thread' = IF appends = <<>> THEN Log!Writing(event) ELSE thread
      /\ UNCHANGED <<memory, file, orphans>>
  BY DEF Log!BeginAppend
<1>2. begun \in Appending
  BY DEF Appending
<1>3. /\ appends' \in Seq(Appending) /\ appends' # <<>>
      /\ appends'[1] = IF appends = <<>> THEN begun ELSE appends[1]
  <2>1. appends \in Seq(Appending) /\ Len(appends) \in Nat
    BY DEF LogInv, LogTyped
  <2>2. CASE appends = <<>>
    BY <1>1, <1>2, <2>2
  <2>3. CASE appends # <<>>
    <3>1. 1 \in 1 .. Len(appends)
      BY <2>1, <2>3
    <3> QED
      BY <1>1, <1>2, <2>1, <2>3, <3>1, AppendIsLast
  <2> QED
    BY <2>2, <2>3
<1>4. Log!Writing(event) = [pc |-> "writing", line |-> Log!Entry(event)]
      /\ Log!Entry(event) \in AnEntry
  BY EntryContinues DEF LogInv, Log!Writing
<1>5. appends = <<>> => thread.pc # "written" /\ thread = Log!NoThread
  BY DEF LogInv, HeadIsWritten, Log!NoThread
<1>6. Log!Entry(event)' = Log!Entry(event)
      /\ (appends # <<>> => Log!Entry(appends[1].event)' = Log!Entry(appends'[1].event))
  BY <1>1, <1>3 DEF Log!Entry, Log!Link
<1>7. LogTyped'
  BY <1>1, <1>3, <1>4 DEF LogInv, LogTyped
<1>8. HeadIsWritten'
  <2>1. CASE appends = <<>>
    BY <1>1, <1>3, <1>4, <1>6, <2>1 DEF HeadIsWritten
  <2>2. CASE appends # <<>>
    BY <1>1, <1>3, <2>2 DEF LogInv, HeadIsWritten, Log!Entry, Log!Link
  <2> QED
    BY <2>1, <2>2
<1>9. LineIsOnFile' /\ FileIsMemory'
  BY <1>1, <1>4, <1>5 DEF LogInv, LineIsOnFile, FileIsMemory
<1>10. AcceptedIsDurable'
  BY <1>1 DEF LogInv, AcceptedIsDurable, Log!Verifies
<1> QED
  BY <1>7, <1>8, <1>9, <1>10 DEF LogInv

LEMMA LogObtainLockInv ==
  ASSUME LogInv, Log!ObtainLock, UNCHANGED damaged
  PROVE  LogInv'
<1>1. /\ appends # <<>> /\ thread = Log!NoThread
      /\ thread' = Log!Writing(Head(appends).event)
      /\ UNCHANGED <<memory, file, appends, orphans>>
  BY DEF Log!ObtainLock
<1>2. Head(appends) = appends[1] /\ appends[1].event \in Logged
  <2>1. Head(appends) \in Appending /\ Head(appends) = appends[1]
    BY <1>1, TailIsRest DEF LogInv, LogTyped
  <2> QED
    BY <2>1 DEF Appending
<1>3. thread' = [pc |-> "writing", line |-> Log!Entry(appends[1].event)]
      /\ Log!Entry(appends[1].event) \in AnEntry
  BY <1>1, <1>2, EntryContinues DEF LogInv, Log!Writing
<1>4. LogTyped'
  BY <1>1, <1>3 DEF LogInv, LogTyped
<1>5. HeadIsWritten'
  BY <1>1, <1>3 DEF HeadIsWritten, Log!Entry, Log!Link
<1>6. LineIsOnFile' /\ FileIsMemory' /\ AcceptedIsDurable'
  BY <1>1, <1>3
     DEF LogInv, LineIsOnFile, FileIsMemory, AcceptedIsDurable, Log!Verifies,
         Log!NoThread
<1> QED
  BY <1>4, <1>5, <1>6 DEF LogInv

\* A file that only grows keeps what is accepted.
LEMMA LongerFileInv ==
  ASSUME LogInv, NEW line \in Lines, file' = Append(file, line), UNCHANGED memory
  PROVE  /\ file' \in Seq(Lines) /\ AcceptedIsDurable'
         /\ Len(file) + 1 \in Len(memory) + 1 .. Len(file')
         /\ file'[Len(file) + 1] = line
         /\ \A j \in 1 .. Len(file) : j \in 1 .. Len(file') /\ file'[j] = file[j]
<1>1. /\ file' \in Seq(Lines) /\ Len(file) \in Nat /\ Len(file') = Len(file) + 1
      /\ \A j \in 1 .. Len(file) : file'[j] = file[j]
      /\ file'[Len(file) + 1] = line
  BY AppendIsLast DEF LogInv, LogTyped
<1>2. Len(memory) \in Nat /\ Len(memory) <= Len(file)
  BY FileIsLongEnough DEF LogInv
<1>3. \A i \in 1 .. Len(memory) : \E j \in i .. Len(file') : file'[j] = memory[i]
  <2> TAKE i \in 1 .. Len(memory)
  <2>1. PICK j \in i .. Len(file) : file[j] = memory[i]
    BY DEF LogInv, AcceptedIsDurable
  <2>2. j \in 1 .. Len(file) /\ j \in i .. Len(file')
    BY <1>1, <1>2, <2>1
  <2> QED
    BY <1>1, <2>1, <2>2
<1>4. AcceptedIsDurable'
  BY <1>3 DEF LogInv, AcceptedIsDurable, Log!Verifies
<1> QED
  BY <1>1, <1>2, <1>4

LEMMA WriteLineInv ==
  ASSUME LogInv, Log!WriteLine, UNCHANGED damaged
  PROVE  LogInv'
<1>1. /\ thread.pc = "writing" /\ file' = Append(file, thread.line)
      /\ thread' = [thread EXCEPT !.pc = "written"]
      /\ UNCHANGED <<memory, appends, orphans>>
  BY DEF Log!WriteLine
<1>2. /\ thread # Log!NoThread /\ thread.line \in AnEntry
      /\ thread'.pc = "written" /\ thread'.line = thread.line
      /\ thread' \in [pc : {"writing", "written", "failed"}, line : AnEntry]
  BY <1>1 DEF LogInv, LogTyped, Log!NoThread
<1>3. /\ file' \in Seq(Lines) /\ AcceptedIsDurable'
      /\ Len(file) + 1 \in Len(memory) + 1 .. Len(file')
      /\ file'[Len(file) + 1] = thread.line
  BY <1>1, <1>2, LongerFileInv DEF Lines
<1>4. LogTyped'
  BY <1>1, <1>2, <1>3 DEF LogInv, LogTyped
<1>5. HeadIsWritten'
  BY <1>1, <1>2 DEF LogInv, HeadIsWritten, Log!Entry, Log!Link
<1>6. LineIsOnFile' /\ FileIsMemory'
  BY <1>1, <1>2, <1>3 DEF LogInv, LineIsOnFile, FileIsMemory
<1> QED
  BY <1>3, <1>4, <1>5, <1>6 DEF LogInv

LEMMA WriteFailsInv ==
  ASSUME LogInv, Log!WriteFails,
         damaged' = IF file' = file THEN damaged ELSE damaged \cup {"failed"}
  PROVE  LogInv'
<1>1. /\ thread.pc = "writing"
      /\ \/ UNCHANGED file
         \/ \E line \in {thread.line, Torn} : file' = Append(file, line)
      /\ thread' = [thread EXCEPT !.pc = "failed"]
      /\ UNCHANGED <<memory, appends, orphans>>
  BY DEF Log!WriteFails
<1>2. /\ thread # Log!NoThread /\ thread.line \in AnEntry
      /\ thread'.pc = "failed" /\ thread'.line = thread.line
      /\ thread' \in [pc : {"writing", "written", "failed"}, line : AnEntry]
  BY <1>1 DEF LogInv, LogTyped, Log!NoThread
<1>3. file' \in Seq(Lines) /\ AcceptedIsDurable'
  <2>1. CASE UNCHANGED file
    BY <1>1, <2>1 DEF LogInv, LogTyped, AcceptedIsDurable, Log!Verifies
  <2>2. ASSUME NEW line \in {thread.line, Torn}, file' = Append(file, line)
        PROVE  file' \in Seq(Lines) /\ AcceptedIsDurable'
    BY <1>1, <1>2, <2>2, LongerFileInv DEF Lines
  <2> QED
    BY <1>1, <2>1, <2>2
<1>4. LogTyped'
  BY <1>1, <1>2, <1>3 DEF LogInv, LogTyped
<1>5. HeadIsWritten'
  BY <1>1, <1>2 DEF LogInv, HeadIsWritten, Log!Entry, Log!Link
<1>6. LineIsOnFile' /\ FileIsMemory'
  BY <1>1, <1>2 DEF LogInv, LineIsOnFile, FileIsMemory
<1> QED
  BY <1>3, <1>4, <1>5, <1>6 DEF LogInv

\* When the lock is let go, the next call may have its turn.
LEMMA UnlockTyped ==
  ASSUME LogInv, thread # Log!NoThread, Log!Unlock
  PROVE  appends' \in Seq(Appending) /\ thread' = Log!NoThread
  BY TailIsRest DEF LogInv, LogTyped, HeadIsWritten, Log!Unlock

LEMMA AcceptInv ==
  ASSUME LogInv, NEW a, Log!Accept(a), UNCHANGED damaged
  PROVE  LogInv'
<1>1. /\ thread.pc = "written"
      /\ memory' = Append(memory, thread.line)
      /\ Log!Unlock /\ UNCHANGED <<file, orphans>>
  BY DEF Log!Accept
<1>2. /\ thread # Log!NoThread /\ thread.line \in AnEntry
      /\ appends # <<>> /\ thread.line = Log!Entry(appends[1].event)
  BY <1>1 DEF LogInv, LogTyped, HeadIsWritten, Log!NoThread
<1>3. /\ memory' \in Seq(AnEntry) /\ Len(memory) \in Nat
      /\ Len(memory') = Len(memory) + 1
      /\ \A i \in 1 .. Len(memory) : memory'[i] = memory[i]
      /\ memory'[Len(memory) + 1] = thread.line
  BY <1>1, <1>2, AppendIsLast DEF LogInv, LogTyped
<1>4. appends' \in Seq(Appending) /\ thread' = Log!NoThread
  BY <1>1, <1>2, UnlockTyped
<1>5. appends[1].event \in Logged
  <2>1. appends[1] \in Appending
    BY <1>2, TailIsRest DEF LogInv, LogTyped
  <2> QED
    BY <2>1 DEF Appending
<1>6. Log!Verifies(memory')
  BY <1>1, <1>2, <1>5, ChainContinues DEF LogInv, AcceptedIsDurable
<1>7. \A i \in 1 .. Len(memory') : \E j \in i .. Len(file) : file[j] = memory'[i]
  <2> TAKE i \in 1 .. Len(memory')
  <2>1. CASE i \in 1 .. Len(memory)
    BY <1>3, <2>1 DEF LogInv, AcceptedIsDurable
  <2>2. CASE i = Len(memory) + 1
    BY <1>1, <1>3, <2>2 DEF LogInv, LineIsOnFile
  <2> QED
    BY <1>3, <2>1, <2>2
<1>8. AcceptedIsDurable'
  BY <1>1, <1>6, <1>7 DEF AcceptedIsDurable
<1>9. LogTyped' /\ HeadIsWritten' /\ LineIsOnFile' /\ FileIsMemory'
  BY <1>1, <1>3, <1>4
     DEF LogInv, LogTyped, HeadIsWritten, LineIsOnFile, FileIsMemory, Log!NoThread
<1> QED
  BY <1>8, <1>9 DEF LogInv

LEMMA RaiseInv ==
  ASSUME LogInv, NEW a, Log!Raise(a), UNCHANGED damaged
  PROVE  LogInv'
<1>1. /\ thread.pc = "failed" /\ thread # Log!NoThread
      /\ Log!Unlock /\ UNCHANGED <<memory, file, orphans>>
  BY DEF Log!Raise, Log!AcceptedAfterFailure, Log!NoThread
<1>2. appends' \in Seq(Appending) /\ thread' = Log!NoThread
  BY <1>1, UnlockTyped
<1>3. LogTyped' /\ HeadIsWritten' /\ LineIsOnFile' /\ FileIsMemory'
  BY <1>1, <1>2
     DEF LogInv, LogTyped, HeadIsWritten, LineIsOnFile, FileIsMemory, Log!NoThread
<1>4. AcceptedIsDurable'
  BY <1>1 DEF LogInv, AcceptedIsDurable, Log!Verifies
<1> QED
  BY <1>3, <1>4 DEF LogInv

OrderKept(before, after, gone) ==
  \E at \in [1 .. Len(after) -> 1 .. Len(before)] :
    /\ \A k \in 1 .. Len(after) :
         after[k] = before[at[k]] /\ before[at[k]].by \notin gone
    /\ \A k, l \in 1 .. Len(after) : k # l => at[k] # at[l]

LEMMA AbortLeaves ==
  ASSUME LogTyped, NEW gone, Log!Abort(gone)
  PROVE  /\ appends' \in Seq(Appending) /\ OrderKept(appends, appends', gone)
         /\ appends # <<>> /\ appends[1].by \notin gone
              => appends' # <<>> /\ appends'[1] = appends[1]
<1>1. PICK left : LeftIn(left, appends, gone)
  BY LeftExists DEF LogTyped
<1> DEFINE leftOfAbort == CHOOSE f : LeftIn(f, appends, gone)
<1>2. LeftIn(leftOfAbort, appends, gone)
  BY <1>1
<1>3. appends' = leftOfAbort[Len(appends)]
  BY DEF Log!Abort, LeftIn
<1> HIDE DEF leftOfAbort
<1> QED
  BY <1>2, <1>3, LeftProperties DEF LogTyped, OrderKept

LEMMA WritingLine ==
  ASSUME LogTyped, thread.pc = "writing"
  PROVE  thread.line \in AnEntry
  BY DEF LogTyped, Log!NoThread

LEMMA AbortInv ==
  ASSUME LogInv, NEW gone, Log!Abort(gone),
         damaged' = IF appends # <<>> /\ Head(appends).by \in gone
                    THEN damaged \cup {"cut short"} ELSE damaged
  PROVE  LogInv'
<1>1. UNCHANGED <<memory, file>>
  BY DEF Log!Abort
<1>2. /\ appends' \in Seq(Appending)
      /\ appends # <<>> /\ appends[1].by \notin gone
           => appends' # <<>> /\ appends'[1] = appends[1]
  BY AbortLeaves DEF LogInv
<1>3. appends # <<>> => Head(appends) = appends[1]
  BY TailIsRest DEF LogInv, LogTyped
<1>4. CASE appends # <<>> /\ appends[1].by \in gone
  <2>0. damaged' # {}
    BY <1>3, <1>4
  <2>1. /\ thread' = Log!NoThread
        /\ orphans' = IF thread.pc = "writing" THEN orphans \cup {thread.line}
                      ELSE orphans
    BY <1>3, <1>4 DEF Log!Abort
  <2>2. orphans' \subseteq AnEntry
    <3>1. thread.pc = "writing" => thread.line \in AnEntry
      BY WritingLine DEF LogInv
    <3>2. orphans \subseteq AnEntry
      BY DEF LogInv, LogTyped
    <3> QED
      BY <2>1, <3>1, <3>2
  <2> QED
    BY <1>1, <1>2, <2>0, <2>1, <2>2
       DEF LogInv, LogTyped, HeadIsWritten, LineIsOnFile, FileIsMemory,
           AcceptedIsDurable, Log!Verifies, Log!NoThread
<1>5. CASE ~(appends # <<>> /\ appends[1].by \in gone)
  <2>1. thread' = thread /\ damaged' = damaged /\ orphans' = orphans
    BY <1>3, <1>5 DEF Log!Abort
  <2>2. HeadIsWritten'
    BY <1>1, <1>2, <1>5, <2>1 DEF LogInv, HeadIsWritten, Log!Entry, Log!Link
  <2> QED
    BY <1>1, <1>2, <2>1, <2>2
       DEF LogInv, LogTyped, LineIsOnFile, FileIsMemory, AcceptedIsDurable,
           Log!Verifies
<1> QED
  BY <1>4, <1>5

LEMMA OrphanEndsInv ==
  ASSUME LogInv, NEW line \in orphans, Log!OrphanEnds(line), UNCHANGED damaged
  PROVE  LogInv'
<1>1. /\ orphans' = orphans \ {line} /\ line \in AnEntry
      /\ file' = Append(file, line) \/ UNCHANGED file
      /\ UNCHANGED <<memory, appends, thread>>
  BY DEF Log!OrphanEnds, LogInv, LogTyped
<1>2. damaged # {} /\ orphans' \subseteq AnEntry
  BY <1>1 DEF LogInv, LogTyped, FileIsMemory
<1>3. HeadIsWritten'
  BY <1>1 DEF LogInv, HeadIsWritten, Log!Entry, Log!Link
<1>4. CASE UNCHANGED file
  BY <1>1, <1>2, <1>3, <1>4
     DEF LogInv, LogTyped, LineIsOnFile, FileIsMemory, AcceptedIsDurable,
         Log!Verifies
<1>5. CASE file' = Append(file, line)
  <2>1. /\ file' \in Seq(Lines) /\ AcceptedIsDurable'
        /\ \A j \in 1 .. Len(file) : j \in 1 .. Len(file') /\ file'[j] = file[j]
    BY <1>1, <1>5, LongerFileInv DEF Lines
  <2>2. LineIsOnFile'
    <3> SUFFICES ASSUME thread.pc = "written"
                 PROVE  \E j \in Len(memory) + 1 .. Len(file') :
                          file'[j] = thread.line
      BY <1>1 DEF LineIsOnFile
    <3>1. PICK j \in Len(memory) + 1 .. Len(file) : file[j] = thread.line
      BY DEF LogInv, LineIsOnFile
    <3>2. Len(memory) \in Nat /\ Len(file) \in Nat /\ Len(file') \in Nat
      BY <1>1, <2>1 DEF LogInv, LogTyped
    <3>3. j \in 1 .. Len(file)
      BY <3>1, <3>2
    <3>4. j \in Len(memory) + 1 .. Len(file') /\ file'[j] = thread.line
      BY <2>1, <3>1, <3>2, <3>3
    <3> QED
      BY <3>4
  <2> QED
    BY <1>1, <1>2, <1>3, <2>1, <2>2 DEF LogInv, LogTyped, FileIsMemory
<1> QED
  BY <1>1, <1>4, <1>5

\* The records are on disk, and the file loads.
LEMMA OnDisk == LogInv => AuditIsOnDisk
<1> SUFFICES ASSUME LogInv, damaged = {}
             PROVE  /\ Log!Verifies(file)
                    /\ Len(file) <= Len(memory) + 1
                    /\ SubSeq(file, 1, Len(memory)) = memory
  BY DEF LogInv, AuditIsOnDisk, FileReloads
<1>1. memory \in Seq(AnEntry) /\ Len(memory) \in Nat /\ Log!Verifies(memory)
  BY DEF LogInv, LogTyped, AcceptedIsDurable
<1>2. CASE thread.pc = "written"
  <2>1. /\ file = Append(memory, thread.line) /\ thread.line \in AnEntry
        /\ appends # <<>> /\ thread.line = Log!Entry(appends[1].event)
    BY <1>2 DEF LogInv, LogTyped, FileIsMemory, HeadIsWritten, Log!NoThread
  <2>2. appends[1].event \in Logged
    <3>1. appends[1] \in Appending
      BY <2>1, TailIsRest DEF LogInv, LogTyped
    <3> QED
      BY <3>1 DEF Appending
  <2>3. Log!Verifies(file)
    BY <1>1, <2>1, <2>2, ChainContinues DEF LogInv
  <2>4. Len(file) = Len(memory) + 1 /\ SubSeq(file, 1, Len(memory)) = memory
    BY <1>1, <2>1
  <2> QED
    BY <1>1, <2>3, <2>4
<1>3. CASE thread.pc # "written"
  BY <1>1, <1>3 DEF LogInv, FileIsMemory
<1> QED
  BY <1>2, <1>3

---------------------------------------------------------------------------
(* The bus.                                                                *)

\* A queue whose members are there once, and what removing one of them leaves.
Once(s) == \A i, j \in 1 .. Len(s) : s[i] = s[j] => i = j

LEMMA RemoveAtProperties ==
  ASSUME NEW S, NEW s \in Seq(S), NEW i \in 1 .. Len(s)
  PROVE  /\ RemoveAt(s, i) \in Seq(S)
         /\ Len(RemoveAt(s, i)) = Len(s) - 1
         /\ \A j \in 1 .. Len(s) - 1 :
              RemoveAt(s, i)[j] = IF j < i THEN s[j] ELSE s[j + 1]
<1> DEFINE a == SubSeq(s, 1, i - 1)
           b == SubSeq(s, i + 1, Len(s))
<1>0. i \in Nat /\ Len(s) \in Nat /\ 1 <= i /\ i <= Len(s)
  OBVIOUS
<1>1. a \in Seq(S) /\ Len(a) = i - 1 /\ \A j \in 1 .. i - 1 : a[j] = s[j]
  OBVIOUS
<1>2. b \in Seq(S) /\ Len(b) = Len(s) - i /\ \A j \in 1 .. Len(s) - i : b[j] = s[i + j]
  OBVIOUS
<1>3. RemoveAt(s, i) = a \o b
  BY DEF RemoveAt
<1> HIDE DEF a, b
<1>4. /\ a \o b \in Seq(S) /\ Len(a \o b) = Len(a) + Len(b)
      /\ \A j \in 1 .. Len(a) + Len(b) :
           (a \o b)[j] = IF j <= Len(a) THEN a[j] ELSE b[j - Len(a)]
  BY <1>1, <1>2, ConcatProperties
<1>5. ASSUME NEW j \in 1 .. Len(s) - 1
      PROVE  (a \o b)[j] = IF j < i THEN s[j] ELSE s[j + 1]
  <2>1. j \in 1 .. Len(a) + Len(b)
    BY <1>0, <1>1, <1>2
  <2>2. CASE j < i
    BY <1>0, <1>1, <1>4, <2>1, <2>2
  <2>3. CASE ~(j < i)
    <3>1. ~(j <= Len(a)) /\ j - Len(a) \in 1 .. Len(s) - i
          /\ i + (j - Len(a)) = j + 1
      BY <1>0, <1>1, <2>3
    <3> QED
      BY <1>2, <1>4, <2>1, <2>3, <3>1
  <2> QED
    BY <2>2, <2>3
<1> QED
  BY <1>0, <1>1, <1>2, <1>3, <1>4, <1>5

LEMMA RemoveFirstProperties ==
  ASSUME NEW S, NEW s \in Seq(S), NEW e, Once(s)
  PROVE  LET r == RemoveFirst(s, e)
         IN /\ r \in Seq(S) /\ Once(r)
            /\ \A j \in 1 .. Len(r) : r[j] # e
            /\ \A j \in 1 .. Len(r) : \E i \in 1 .. Len(s) : r[j] = s[i]
            /\ \A i \in 1 .. Len(s) :
                 s[i] # e => \E j \in 1 .. Len(r) : r[j] = s[i]
            /\ s # <<>> /\ s[1] # e => r # <<>> /\ r[1] = s[1]
            /\ (\A i \in 1 .. Len(s) : s[i] # e) => r = s
<1>1. CASE \A i \in 1 .. Len(s) : s[i] # e
  <2>1. RemoveFirst(s, e) = s
    BY <1>1 DEF RemoveFirst
  <2> QED
    BY <1>1, <2>1
<1>2. CASE \E i \in 1 .. Len(s) : s[i] = e
  <2> DEFINE I == {i \in 1 .. Len(s) : s[i] = e}
             m == CHOOSE x \in I : \A y \in I : x <= y
             r == RemoveAt(s, m)
  <2>1. I \subseteq Nat /\ I # {}
    BY <1>2
  <2>2. m \in I
    <3> HIDE DEF I
    <3> QED
      BY <2>1, LeastNumber
  <2>3. RemoveFirst(s, e) = r
    BY <1>2 DEF RemoveFirst, SelectInSeq, Min
  <2> HIDE DEF m
  <2>4. m \in 1 .. Len(s) /\ s[m] = e /\ Len(s) \in Nat
    BY <2>2
  <2>5. /\ r \in Seq(S) /\ Len(r) = Len(s) - 1
        /\ \A j \in 1 .. Len(s) - 1 : r[j] = IF j < m THEN s[j] ELSE s[j + 1]
    BY <2>4, RemoveAtProperties
  <2> HIDE DEF r, I
  <2>6. ASSUME NEW j \in 1 .. Len(r)
        PROVE  \E i \in 1 .. Len(s) : r[j] = s[i] /\ i # m
                                      /\ i = IF j < m THEN j ELSE j + 1
    <3>1. CASE j < m
      BY <2>4, <2>5, <3>1
    <3>2. CASE ~(j < m)
      <4>1. j + 1 \in 1 .. Len(s) /\ j + 1 # m
        BY <2>4, <2>5, <3>2
      <4> QED
        BY <2>4, <2>5, <3>2, <4>1
    <3> QED
      BY <3>1, <3>2
  <2>7. \A j \in 1 .. Len(r) : r[j] # e
    BY <2>4, <2>6 DEF Once
  <2>8. Once(r)
    <3> SUFFICES ASSUME NEW j \in 1 .. Len(r), NEW k \in 1 .. Len(r), r[j] = r[k]
                 PROVE  j = k
      BY DEF Once
    <3>1. (IF j < m THEN j ELSE j + 1) = (IF k < m THEN k ELSE k + 1)
      BY <2>6 DEF Once
    <3> QED
      BY <2>4, <2>5, <3>1
  <2>9. \A i \in 1 .. Len(s) : s[i] # e => \E j \in 1 .. Len(r) : r[j] = s[i]
    <3> TAKE i \in 1 .. Len(s)
    <3> HAVE s[i] # e
    <3>1. CASE i < m
      BY <2>4, <2>5, <3>1
    <3>2. CASE i > m
      <4>1. i - 1 \in 1 .. Len(r) /\ ~(i - 1 < m) /\ (i - 1) + 1 = i
        BY <2>4, <2>5, <3>2
      <4> QED
        BY <2>5, <4>1
    <3> QED
      BY <2>4, <3>1, <3>2
  <2>10. s # <<>> /\ s[1] # e => r # <<>> /\ r[1] = s[1]
    <3> SUFFICES ASSUME s # <<>>, s[1] # e PROVE r # <<>> /\ r[1] = s[1]
      OBVIOUS
    <3>1. 1 < m /\ 1 \in 1 .. Len(s) - 1
      BY <2>4
    <3> QED
      BY <2>5, <3>1
  <2> QED
    BY <1>2, <2>3, <2>5, <2>6, <2>7, <2>8, <2>9, <2>10
<1> QED
  BY <1>1, <1>2

HandlerOrders == {s \in Seq({Observer, Audit}) : Once(s)}

WorkerStates ==
  {Bus!Gone, Bus!Getting}
    \cup [pc : {"dispatching"}, item : Bus!Items, todo : HandlerOrders \ {<<>>}]

BusTyped ==
  /\ running \in BOOLEAN /\ stop_call \in {"none", "joining", "joined"}
  /\ subscribed \in HandlerOrders
  /\ queue \in SUBSET Bus!Items /\ IsFiniteSet(queue)
  /\ waiting \in SUBSET [by : Tasks, item : Bus!Items]
  /\ next_number \in Nat
  /\ worker \in [Workers -> WorkerStates]
  /\ failures \in SUBSET (Nat \X {Observer, Audit})

Counted ==
  /\ Cardinality(queue) <= QueueSize
  /\ unfinished = Cardinality(queue) + Cardinality(Bus!Busy)
  /\ ~running => \A w \in Workers : worker[w] = Bus!Gone

\* Numbers are given out upwards.  Only one caller waits for room, with a
\* transition: all transitions before it are further on than it is.
Numbered ==
  /\ \A i \in queue : i.number < next_number
  /\ \A w \in Bus!Busy : worker[w].item.number < next_number
  /\ \A i, j \in queue : i.priority = j.priority /\ i.number = j.number => i = j

OneWaits ==
  \A p \in waiting :
    /\ p.item.priority # Bus!NORMAL /\ p.item.number < next_number
    /\ \A q \in waiting : p = q
    /\ \A i \in queue : i.priority # Bus!NORMAL => i.number < p.item.number
    /\ \A w \in Bus!Busy :
         worker[w].item.priority # Bus!NORMAL => worker[w].item.number < p.item.number

BusInv == BusTyped /\ Counted /\ Numbered /\ OneWaits

\* The helpers that the bus and the manager use are those of this module.
LEMMA SameHelpers ==
  /\ \A S : Bus!Cardinality(S) = Cardinality(S)
  /\ \A s, e : Bus!Contains(s, e) = Contains(s, e)
  /\ \A s, e : Bus!RemoveFirst(s, e) = RemoveFirst(s, e)
  /\ \A s, e : SM!RemoveFirst(s, e) = RemoveFirst(s, e)
<1>1. \A S : Bus!Cardinality(S) = Cardinality(S)
  BY DEF Bus!Cardinality, Cardinality
<1>2. \A s, e : Bus!Contains(s, e) = Contains(s, e)
  BY DEF Bus!Contains, Contains
<1>3. \A s, e : Bus!RemoveFirst(s, e) = RemoveFirst(s, e)
  BY DEF Bus!RemoveFirst, RemoveFirst, Bus!SelectInSeq, SelectInSeq, Bus!Min, Min,
         Bus!RemoveAt, RemoveAt
<1>4. \A s, e : SM!RemoveFirst(s, e) = RemoveFirst(s, e)
  BY DEF SM!RemoveFirst, RemoveFirst, SM!SelectInSeq, SelectInSeq, SM!Min, Min,
         SM!RemoveAt, RemoveAt
<1> QED
  BY <1>1, <1>2, <1>3, <1>4

LEMMA ItemIs ==
  ASSUME NEW i \in Bus!Items
  PROVE  /\ i.priority \in {0, 10, 20} /\ i.number \in Nat
         /\ i.event \in SM!Changes \cup {Note}
  BY DEF Bus!Items, Bus!CRITICAL, Bus!HIGH, Bus!NORMAL

LEMMA WorkerIs ==
  ASSUME BusTyped
  PROVE  /\ Bus!Busy \subseteq Workers /\ IsFiniteSet(Bus!Busy)
         /\ \A w \in Bus!Busy :
              /\ worker[w] = Bus!Dispatching(worker[w].item, worker[w].todo)
              /\ worker[w].item \in Bus!Items
              /\ worker[w].todo \in Seq({Observer, Audit}) /\ Once(worker[w].todo)
              /\ worker[w].todo # <<>>
         /\ \A w \in Workers \ Bus!Busy : worker[w] \in {Bus!Gone, Bus!Getting}
<1>1. Bus!Busy \subseteq Workers
  BY DEF Bus!Busy
<1>2. IsFiniteSet(Bus!Busy)
  BY <1>1, FS_Subset, EventsAssumption
<1>3. \A w \in Workers : worker[w] \in WorkerStates
  BY DEF BusTyped
<1>4. ASSUME NEW w \in Bus!Busy
      PROVE  worker[w] \in [pc : {"dispatching"}, item : Bus!Items,
                            todo : HandlerOrders \ {<<>>}]
  BY <1>1, <1>3 DEF Bus!Busy, WorkerStates, Bus!Gone, Bus!Getting
<1>5. ASSUME NEW w \in Workers \ Bus!Busy
      PROVE  worker[w] \in {Bus!Gone, Bus!Getting}
  BY <1>3 DEF Bus!Busy, WorkerStates
<1> QED
  BY <1>1, <1>2, <1>4, <1>5 DEF HandlerOrders, Bus!Dispatching

\* Who is busy after a step of one worker.
LEMMA BusyAfter ==
  ASSUME BusTyped, NEW w \in Workers, NEW x \in WorkerStates,
         worker' = [worker EXCEPT ![w] = x]
  PROVE  /\ worker' \in [Workers -> WorkerStates]
         /\ worker'[w] = x
         /\ \A v \in Workers \ {w} : worker'[v] = worker[v]
         /\ Bus!Busy' = IF x.pc = "dispatching" THEN Bus!Busy \cup {w}
                        ELSE Bus!Busy \ {w}
<1>1. /\ worker' \in [Workers -> WorkerStates]
      /\ worker'[w] = x
      /\ \A v \in Workers \ {w} : worker'[v] = worker[v]
  BY DEF BusTyped
<1>2. Bus!Busy' = {v \in Workers : worker'[v].pc = "dispatching"}
  BY DEF Bus!Busy
<1> QED
  BY <1>1, <1>2 DEF Bus!Busy

\* The heap has a least item, since no two of one priority share a number.
LEMMA FirstComesFirst ==
  ASSUME BusTyped, Numbered, queue # {}
  PROVE  /\ Bus!FirstItem \in queue
         /\ \A j \in queue \ {Bus!FirstItem} : Bus!Before(Bus!FirstItem, j)
<1> DEFINE P == {i.priority : i \in queue}
<1>0. \A i \in queue : i.priority \in Nat /\ i.number \in Nat
  BY ItemIs DEF BusTyped
<1>1. PICK p \in P : \A q \in P : p <= q
  <2>1. P \subseteq Nat /\ P # {}
    BY <1>0
  <2> HIDE DEF P
  <2> QED
    BY <2>1, LeastNumber
<1> DEFINE N == {i.number : i \in {j \in queue : j.priority = p}}
<1>2. PICK n \in N : \A m \in N : n <= m
  <2>1. N \subseteq Nat /\ N # {}
    BY <1>0, <1>1
  <2> HIDE DEF N
  <2> QED
    BY <2>1, LeastNumber
<1>3. PICK i \in queue : i.priority = p /\ i.number = n
  BY <1>2
<1>4. ASSUME NEW j \in queue \ {i}
      PROVE  Bus!Before(i, j)
  <2>1. p <= j.priority /\ j.priority \in Nat /\ p \in Nat
    BY <1>0, <1>1, <1>3
  <2>2. CASE j.priority = p
    <3>1. n <= j.number /\ j.number # n /\ j.number \in Nat /\ n \in Nat
      BY <1>0, <1>2, <1>3, <2>2 DEF Numbered
    <3> QED
      BY <1>3, <2>2, <3>1 DEF Bus!Before
  <2>3. CASE j.priority # p
    BY <1>3, <2>1, <2>3 DEF Bus!Before
  <2> QED
    BY <2>2, <2>3
<1> QED
  BY <1>3, <1>4 DEF Bus!FirstItem

\* An item enters the queue: its number is above those of its priority, and the
\* caller who waits, if it is not this one, is ahead of no other transition.
LEMMA PutInv ==
  ASSUME BusInv, NEW item \in Bus!Items, Bus!Put(item),
         \A i \in queue : i.priority = item.priority => i.number < item.number
  PROVE  /\ queue' \in SUBSET Bus!Items /\ IsFiniteSet(queue')
         /\ Cardinality(queue') <= QueueSize
         /\ Cardinality(queue') = Cardinality(queue) + 1
         /\ unfinished' = unfinished + 1
         /\ queue' = queue \cup {item}
         /\ \A i, j \in queue' : i.priority = j.priority /\ i.number = j.number => i = j
<1>1. /\ queue' = queue \cup {item} /\ unfinished' = unfinished + 1
      /\ Cardinality(queue) # QueueSize
  BY SameHelpers DEF Bus!Put, Bus!Full
<1>2. \A i \in queue : i.number \in Nat
  BY ItemIs DEF BusInv, BusTyped
<1>3. item \notin queue
  BY <1>2
<1>4. /\ IsFiniteSet(queue') /\ Cardinality(queue') = Cardinality(queue) + 1
      /\ Cardinality(queue) \in Nat
  BY <1>1, <1>3, FS_AddElement, FS_CardinalityType DEF BusInv, BusTyped
<1>5. Cardinality(queue') <= QueueSize
  BY <1>1, <1>4, EventsAssumption DEF BusInv, Counted
<1>6. \A i, j \in queue' : i.priority = j.priority /\ i.number = j.number => i = j
  <2>1. item.number \in Nat
    BY ItemIs
  <2> QED
    BY <1>1, <1>2, <2>1 DEF BusInv, Numbered
<1>7. queue' \in SUBSET Bus!Items
  BY <1>1 DEF BusInv, BusTyped
<1> QED
  BY <1>1, <1>4, <1>5, <1>6, <1>7

LEMMA FreshItem ==
  ASSUME BusTyped, NEW priority \in {Bus!CRITICAL, Bus!HIGH, Bus!NORMAL},
         NEW event \in SM!Changes \cup {Note}
  PROVE  /\ Bus!Item(priority, event) \in Bus!Items
         /\ Bus!Item(priority, event).priority = priority
         /\ Bus!Item(priority, event).number = next_number
  BY DEF Bus!Item, Bus!Items, BusTyped

LEMMA PublishInv ==
  ASSUME BusInv, NEW priority \in {Bus!CRITICAL, Bus!HIGH, Bus!NORMAL},
         NEW event \in SM!Changes \cup {Note},
         priority = Bus!NORMAL \/ waiting = {},
         Bus!Publish(priority, event)
  PROVE  BusInv'
<1> DEFINE item == Bus!Item(priority, event)
<1>1. item \in Bus!Items /\ item.priority = priority /\ item.number = next_number
  BY FreshItem DEF BusInv
<1>2. /\ Bus!Put(item) /\ next_number' = next_number + 1
      /\ UNCHANGED <<running, subscribed, waiting, worker, failures, stop_call>>
  BY DEF Bus!Publish
<1> HIDE DEF item
<1>3. \A i \in queue : i.priority = item.priority => i.number < item.number
  BY <1>1 DEF BusInv, Numbered
<1>4. /\ queue' \in SUBSET Bus!Items /\ IsFiniteSet(queue')
      /\ Cardinality(queue') <= QueueSize
      /\ Cardinality(queue') = Cardinality(queue) + 1
      /\ unfinished' = unfinished + 1
      /\ queue' = queue \cup {item}
      /\ \A i, j \in queue' : i.priority = j.priority /\ i.number = j.number => i = j
  BY <1>1, <1>2, <1>3, PutInv
<1>5. BusTyped' /\ Bus!Busy' = Bus!Busy
  BY <1>2, <1>4 DEF BusInv, BusTyped, Bus!Busy
<1>6. Cardinality(queue) \in Nat /\ Cardinality(Bus!Busy) \in Nat
  BY FS_CardinalityType, WorkerIs DEF BusInv, BusTyped
<1>7. Counted'
  BY <1>2, <1>4, <1>5, <1>6 DEF BusInv, Counted
<1>8. \A i \in queue : i.number \in Nat
  BY ItemIs DEF BusInv, BusTyped
<1>9. \A w \in Bus!Busy : worker[w].item.number \in Nat
  BY ItemIs, WorkerIs DEF BusInv
<1>10. Numbered'
  BY <1>1, <1>2, <1>4, <1>5, <1>8, <1>9 DEF BusInv, BusTyped, Numbered
<1>11. OneWaits'
  <2> SUFFICES ASSUME NEW p \in waiting
               PROVE  /\ p.item.priority # Bus!NORMAL /\ p.item.number < next_number'
                      /\ \A q \in waiting : p = q
                      /\ \A i \in queue' :
                           i.priority # Bus!NORMAL => i.number < p.item.number
                      /\ \A w \in Bus!Busy :
                           worker[w].item.priority # Bus!NORMAL
                             => worker[w].item.number < p.item.number
    BY <1>2, <1>5 DEF OneWaits
  <2>1. p.item.number \in Nat
    BY ItemIs DEF BusInv, BusTyped
  <2>2. priority = Bus!NORMAL
    OBVIOUS
  <2>3. /\ p.item.priority # Bus!NORMAL /\ p.item.number < next_number
        /\ \A q \in waiting : p = q
        /\ \A i \in queue : i.priority # Bus!NORMAL => i.number < p.item.number
        /\ \A w \in Bus!Busy :
             worker[w].item.priority # Bus!NORMAL => worker[w].item.number < p.item.number
    BY DEF BusInv, OneWaits
  <2>4. \A i \in queue' : i.priority # Bus!NORMAL => i \in queue
    BY <1>1, <1>4, <2>2
  <2> QED
    BY <1>2, <2>1, <2>3, <2>4 DEF BusInv, BusTyped
<1> QED
  BY <1>5, <1>7, <1>10, <1>11 DEF BusInv

LEMMA PublishWaitsInv ==
  ASSUME BusInv, NEW t \in Tasks, NEW priority \in {Bus!CRITICAL, Bus!HIGH},
         NEW event \in SM!Changes \cup {Note},
         waiting = {}, Bus!PublishWaits(t, priority, event)
  PROVE  BusInv'
<1> DEFINE item == Bus!Item(priority, event)
<1>1. item \in Bus!Items /\ item.priority = priority /\ item.number = next_number
  BY FreshItem DEF BusInv
<1>2. /\ waiting' = {[by |-> t, item |-> item]} /\ next_number' = next_number + 1
      /\ UNCHANGED <<running, subscribed, queue, unfinished, worker, failures, stop_call>>
  BY DEF Bus!PublishWaits
<1> HIDE DEF item
<1>3. BusTyped' /\ Bus!Busy' = Bus!Busy
  BY <1>1, <1>2 DEF BusInv, BusTyped, Bus!Busy
<1>4. Counted'
  BY <1>2, <1>3 DEF BusInv, Counted
<1>5. \A i \in queue : i.number \in Nat
  BY ItemIs DEF BusInv, BusTyped
<1>6. \A w \in Bus!Busy : worker[w].item.number \in Nat
  BY ItemIs, WorkerIs DEF BusInv
<1>7. Numbered'
  BY <1>2, <1>3, <1>5, <1>6 DEF BusInv, BusTyped, Numbered
<1>8. item.priority # Bus!NORMAL /\ next_number \in Nat
  BY <1>1 DEF Bus!CRITICAL, Bus!HIGH, Bus!NORMAL, BusInv, BusTyped
<1>9. \A p \in waiting' : p.item = item /\ \A q \in waiting' : p = q
  BY <1>2
<1>10. OneWaits'
  BY <1>1, <1>2, <1>3, <1>8, <1>9 DEF BusInv, Numbered, OneWaits
<1> QED
  BY <1>3, <1>4, <1>7, <1>10 DEF BusInv

LEMMA PublishResumesInv ==
  ASSUME BusInv, NEW p \in waiting, Bus!PublishResumes(p)
  PROVE  BusInv' /\ waiting' = {}
<1> DEFINE item == p.item
<1>1. /\ item \in Bus!Items /\ item.priority # Bus!NORMAL /\ item.number < next_number
      /\ item.number \in Nat
      /\ \A i \in queue : i.priority # Bus!NORMAL => i.number < item.number
      /\ \A q \in waiting : p = q
  BY ItemIs DEF BusInv, BusTyped, OneWaits
<1>2. /\ Bus!Put(item) /\ waiting' = {}
      /\ UNCHANGED <<running, subscribed, next_number, worker, failures, stop_call>>
  BY <1>1 DEF Bus!PublishResumes
<1> HIDE DEF item
<1>3. \A i \in queue : i.priority = item.priority => i.number < item.number
  BY <1>1
<1>4. /\ queue' \in SUBSET Bus!Items /\ IsFiniteSet(queue')
      /\ Cardinality(queue') <= QueueSize
      /\ Cardinality(queue') = Cardinality(queue) + 1
      /\ unfinished' = unfinished + 1
      /\ queue' = queue \cup {item}
      /\ \A i, j \in queue' : i.priority = j.priority /\ i.number = j.number => i = j
  BY <1>1, <1>2, <1>3, PutInv
<1>5. BusTyped' /\ Bus!Busy' = Bus!Busy
  BY <1>2, <1>4 DEF BusInv, BusTyped, Bus!Busy
<1>6. Cardinality(queue) \in Nat /\ Cardinality(Bus!Busy) \in Nat
  BY FS_CardinalityType, WorkerIs DEF BusInv, BusTyped
<1>7. Counted'
  BY <1>2, <1>4, <1>5, <1>6 DEF BusInv, Counted
<1>8. Numbered' /\ OneWaits'
  BY <1>1, <1>2, <1>4, <1>5 DEF BusInv, Numbered, OneWaits
<1> QED
  BY <1>2, <1>5, <1>7, <1>8 DEF BusInv

LEMMA PublishCancelledInv ==
  ASSUME BusInv, NEW p \in waiting, Bus!PublishCancelled(p)
  PROVE  BusInv' /\ waiting' = {}
<1>1. waiting' = {}
  BY DEF BusInv, OneWaits, Bus!PublishCancelled
<1> QED
  BY <1>1 DEF BusInv, BusTyped, Counted, Numbered, OneWaits, Bus!Busy,
              Bus!PublishCancelled

LEMMA PublishNowaitFullInv ==
  ASSUME BusInv, Bus!PublishNowaitFull
  PROVE  BusInv'
<1>1. /\ next_number' = next_number + 1 /\ next_number \in Nat
      /\ UNCHANGED <<running, subscribed, queue, unfinished, waiting, worker, failures,
                     stop_call>>
  BY DEF Bus!PublishNowaitFull, BusInv, BusTyped
<1>2. BusTyped' /\ Counted' /\ Bus!Busy' = Bus!Busy
  BY <1>1 DEF BusInv, BusTyped, Counted, Bus!Busy
<1>3. /\ \A i \in queue : i.number \in Nat
      /\ \A w \in Bus!Busy : worker[w].item.number \in Nat
      /\ \A p \in waiting : p.item.number \in Nat
  BY ItemIs, WorkerIs DEF BusInv, BusTyped
<1>4. Numbered' /\ OneWaits'
  BY <1>1, <1>2, <1>3 DEF BusInv, Numbered, OneWaits
<1> QED
  BY <1>2, <1>4 DEF BusInv

LEMMA GetInv ==
  ASSUME BusInv, NEW w \in Workers, Bus!Get(w)
  PROVE  /\ BusInv'
         /\ w \notin Bus!Busy /\ Bus!FirstItem \in queue
         /\ queue' = queue \ {Bus!FirstItem}
         /\ \A j \in queue' : Bus!Before(Bus!FirstItem, j)
<1> DEFINE first == Bus!FirstItem
<1>1. /\ worker[w].pc = "getting" /\ queue # {} /\ queue' = queue \ {first}
      /\ UNCHANGED <<running, subscribed, waiting, next_number, failures>>
  BY DEF Bus!Get
<1>2. /\ first \in queue /\ first \in Bus!Items /\ first.number < next_number
      /\ \A j \in queue \ {first} : Bus!Before(first, j)
  BY <1>1, FirstComesFirst DEF BusInv, BusTyped, Numbered
<1>3. w \notin Bus!Busy
  BY <1>1 DEF Bus!Busy
<1>4. \/ /\ subscribed # <<>>
         /\ worker' = [worker EXCEPT ![w] = Bus!Dispatching(first, subscribed)]
         /\ UNCHANGED <<unfinished, stop_call>>
      \/ subscribed = <<>> /\ Bus!TaskDone /\ UNCHANGED worker
  BY DEF Bus!Get
<1> HIDE DEF first
<1>5. /\ queue' \in SUBSET Bus!Items /\ IsFiniteSet(queue')
      /\ Cardinality(queue') = Cardinality(queue) - 1
      /\ Cardinality(queue) \in Nat /\ Cardinality(queue) # 0
  BY <1>1, <1>2, FS_RemoveElement, FS_CardinalityType, FS_EmptySet DEF BusInv, BusTyped
<1>6. /\ IsFiniteSet(Bus!Busy) /\ Cardinality(Bus!Busy) \in Nat
      /\ Cardinality(Bus!Busy \cup {w}) = Cardinality(Bus!Busy) + 1
  BY <1>3, WorkerIs, FS_AddElement, FS_CardinalityType DEF BusInv
<1>7. running
  BY <1>1 DEF BusInv, Counted, Bus!Gone
<1>8. CASE /\ subscribed # <<>>
           /\ worker' = [worker EXCEPT ![w] = Bus!Dispatching(first, subscribed)]
           /\ UNCHANGED <<unfinished, stop_call>>
  <2> DEFINE x == Bus!Dispatching(first, subscribed)
  <2>1. x \in WorkerStates /\ x.pc = "dispatching" /\ x.item = first
    BY <1>2, <1>8 DEF WorkerStates, Bus!Dispatching, BusInv, BusTyped
  <2>2. worker' = [worker EXCEPT ![w] = x]
    BY <1>8
  <2> HIDE DEF x
  <2>3. /\ worker' \in [Workers -> WorkerStates] /\ worker'[w] = x
        /\ \A v \in Workers \ {w} : worker'[v] = worker[v]
        /\ Bus!Busy' = Bus!Busy \cup {w}
    BY <2>1, <2>2, BusyAfter DEF BusInv
  <2>4. BusTyped'
    BY <1>1, <1>5, <1>8, <2>3 DEF BusInv, BusTyped
  <2>5. Counted'
    BY <1>1, <1>5, <1>6, <1>7, <1>8, <2>3, EventsAssumption DEF BusInv, Counted
  <2>6. \A v \in Bus!Busy' : \/ v \in Bus!Busy /\ worker'[v] = worker[v]
                             \/ worker'[v].item = first
    BY <1>3, <2>1, <2>3, WorkerIs DEF BusInv
  <2>7. Numbered' /\ OneWaits'
    BY <1>1, <1>2, <2>6 DEF BusInv, Numbered, OneWaits
  <2> QED
    BY <1>1, <1>2, <1>3, <2>4, <2>5, <2>7 DEF BusInv, first
<1>9. CASE subscribed = <<>> /\ Bus!TaskDone /\ UNCHANGED worker
  <2>1. /\ unfinished' = unfinished - 1 /\ stop_call' \in {stop_call, "joined"}
        /\ Bus!Busy' = Bus!Busy
    BY <1>9 DEF Bus!TaskDone, Bus!Busy
  <2>2. BusTyped'
    BY <1>1, <1>5, <1>9, <2>1 DEF BusInv, BusTyped
  <2>3. Counted'
    BY <1>1, <1>5, <1>6, <1>7, <2>1, EventsAssumption DEF BusInv, Counted
  <2>4. Numbered' /\ OneWaits'
    BY <1>1, <1>9, <2>1 DEF BusInv, Numbered, OneWaits
  <2> QED
    BY <1>1, <1>2, <1>3, <2>2, <2>3, <2>4 DEF BusInv, first
<1> QED
  BY <1>4, <1>8, <1>9

\* The handlers that are left after the first, each once.
LEMMA TailOfOrder ==
  ASSUME NEW todo \in HandlerOrders, todo # <<>>
  PROVE  /\ Tail(todo) \in HandlerOrders
         /\ Head(todo) \in {Observer, Audit} /\ Head(todo) = todo[1]
         /\ \A i \in 1 .. Len(Tail(todo)) : Tail(todo)[i] # Head(todo)
         /\ \A h : Contains(todo, h) /\ h # Head(todo) => Contains(Tail(todo), h)
<1>1. todo \in Seq({Observer, Audit}) /\ Once(todo)
  BY DEF HandlerOrders
<1>2. /\ Head(todo) \in {Observer, Audit} /\ Tail(todo) \in Seq({Observer, Audit})
      /\ Len(todo) \in Nat \ {0} /\ Head(todo) = todo[1]
      /\ Len(Tail(todo)) = Len(todo) - 1
      /\ \A i \in 1 .. Len(Tail(todo)) : Tail(todo)[i] = todo[i + 1]
  BY <1>1, TailIsRest
<1>3. \A i \in 1 .. Len(Tail(todo)) : i + 1 \in 1 .. Len(todo) /\ i + 1 # 1
  BY <1>2
<1>4. Once(Tail(todo))
  <2> SUFFICES ASSUME NEW i \in 1 .. Len(Tail(todo)), NEW j \in 1 .. Len(Tail(todo)),
                      Tail(todo)[i] = Tail(todo)[j]
               PROVE  i = j
    BY DEF Once
  <2>1. i + 1 = j + 1
    BY <1>1, <1>2, <1>3 DEF Once
  <2> QED
    BY <2>1
<1>5. \A i \in 1 .. Len(Tail(todo)) : Tail(todo)[i] # Head(todo)
  <2>1. 1 \in 1 .. Len(todo)
    BY <1>2
  <2> QED
    BY <1>1, <1>2, <1>3, <2>1 DEF Once
<1>6. ASSUME NEW h, Contains(todo, h), h # Head(todo)
      PROVE  Contains(Tail(todo), h)
  <2>1. PICK i \in 1 .. Len(todo) : todo[i] = h
    BY <1>6 DEF Contains
  <2>2. i - 1 \in 1 .. Len(Tail(todo)) /\ (i - 1) + 1 = i
    BY <1>2, <1>6, <2>1
  <2>3. Tail(todo)[i - 1] = h
    BY <1>2, <2>1, <2>2
  <2> QED
    BY <2>2, <2>3 DEF Contains
<1> QED
  BY <1>1, <1>2, <1>4, <1>5, <1>6 DEF HandlerOrders

LEMMA HandlerEndsInv ==
  ASSUME BusInv, NEW w \in Workers, NEW failed \in BOOLEAN, Bus!HandlerEnds(w, failed)
  PROVE  /\ BusInv' /\ w \in Bus!Busy
         /\ UNCHANGED <<queue, waiting, next_number>>
         /\ \A v \in Workers \ {w} : worker'[v] = worker[v]
         /\ w \notin Bus!Busy'
              => Bus!Busy' = Bus!Busy \ {w} /\ Tail(worker[w].todo) = <<>>
         /\ w \in Bus!Busy'
              => /\ Bus!Busy' = Bus!Busy
                 /\ worker'[w].item = worker[w].item
                 /\ worker'[w].todo = Tail(worker[w].todo)
<1> DEFINE item == worker[w].item
           todo == worker[w].todo
           x == IF Tail(todo) = <<>> THEN Bus!Getting
                ELSE Bus!Dispatching(item, Tail(todo))
<1>1. w \in Bus!Busy
  BY DEF Bus!HandlerEnds
<1>2. item \in Bus!Items /\ item.number \in Nat /\ todo \in HandlerOrders /\ todo # <<>>
  BY <1>1, WorkerIs, ItemIs DEF BusInv, HandlerOrders
<1>3. /\ failures' = IF failed THEN failures \cup {<<item.number, Head(todo)>>}
                     ELSE failures
      /\ worker' = [worker EXCEPT ![w] = x]
      /\ IF Tail(todo) = <<>> THEN Bus!TaskDone ELSE UNCHANGED <<unfinished, stop_call>>
      /\ UNCHANGED <<running, subscribed, queue, waiting, next_number>>
  BY DEF Bus!HandlerEnds, Bus!Remaining
<1>4. Head(todo) \in {Observer, Audit} /\ Tail(todo) \in HandlerOrders
  BY <1>2, TailOfOrder
<1>5. failures' \in SUBSET (Nat \X {Observer, Audit})
  <2>1. <<item.number, Head(todo)>> \in Nat \X {Observer, Audit}
    BY <1>2, <1>4
  <2> QED
    BY <1>3, <2>1 DEF BusInv, BusTyped
<1>6. /\ x \in WorkerStates
      /\ x.pc = (IF Tail(todo) = <<>> THEN "getting" ELSE "dispatching")
      /\ Tail(todo) # <<>> => x.item = item /\ x.todo = Tail(todo)
  BY <1>2, <1>4 DEF WorkerStates, Bus!Getting, Bus!Dispatching
<1> HIDE DEF x
<1>7. /\ worker' \in [Workers -> WorkerStates] /\ worker'[w] = x
      /\ \A v \in Workers \ {w} : worker'[v] = worker[v]
      /\ Bus!Busy' = IF Tail(todo) = <<>> THEN Bus!Busy \ {w} ELSE Bus!Busy
  <2> HIDE DEF todo
  <2>1. /\ worker' \in [Workers -> WorkerStates] /\ worker'[w] = x
        /\ \A v \in Workers \ {w} : worker'[v] = worker[v]
        /\ Bus!Busy' = IF x.pc = "dispatching" THEN Bus!Busy \cup {w}
                       ELSE Bus!Busy \ {w}
    BY <1>3, <1>6, BusyAfter DEF BusInv
  <2>2. Bus!Busy \cup {w} = Bus!Busy
    BY <1>1
  <2> QED
    BY <1>6, <2>1, <2>2
<1>8. /\ IF Tail(todo) = <<>> THEN unfinished' = unfinished - 1
         ELSE unfinished' = unfinished
      /\ stop_call' \in {"none", "joining", "joined"}
  BY <1>3 DEF Bus!TaskDone, BusInv, BusTyped
<1>9. BusTyped'
  BY <1>3, <1>5, <1>7, <1>8 DEF BusInv, BusTyped
<1>10. Cardinality(Bus!Busy \ {w}) = Cardinality(Bus!Busy) - 1
       /\ Cardinality(Bus!Busy) \in Nat /\ Cardinality(queue) \in Nat
  BY <1>1, WorkerIs, FS_RemoveElement, FS_CardinalityType DEF BusInv, BusTyped
<1>11. Counted'
  <2>1. running
    BY <1>1 DEF BusInv, Counted, Bus!Busy, Bus!Gone
  <2> QED
    BY <1>3, <1>7, <1>8, <1>10, <2>1 DEF BusInv, Counted
<1>12. \A v \in Bus!Busy' : v \in Bus!Busy /\ worker'[v].item = worker[v].item
  BY <1>1, <1>6, <1>7, WorkerIs DEF BusInv
<1>13. Numbered' /\ OneWaits'
  BY <1>3, <1>12 DEF BusInv, Numbered, OneWaits
<1> QED
  BY <1>1, <1>3, <1>6, <1>7, <1>9, <1>11, <1>13 DEF BusInv

LEMMA TerminateInv ==
  ASSUME BusInv, Bus!Terminate
  PROVE  /\ BusInv' /\ stop_call' = "none" /\ Bus!Busy' = {}
         /\ UNCHANGED <<queue, waiting, next_number>>
<1>1. /\ running' = FALSE /\ stop_call' = "none"
      /\ worker' = [w \in Workers |-> Bus!Gone]
      /\ unfinished' = unfinished - Cardinality(Bus!Busy)
      /\ UNCHANGED <<subscribed, queue, waiting, next_number, failures>>
  BY SameHelpers DEF Bus!Terminate
<1>2. Bus!Busy' = {} /\ worker' \in [Workers -> WorkerStates]
  BY <1>1 DEF Bus!Busy, Bus!Gone, WorkerStates
<1>3. BusTyped'
  BY <1>1, <1>2 DEF BusInv, BusTyped
<1>4. Cardinality(queue) \in Nat /\ Cardinality(Bus!Busy) \in Nat /\ Cardinality({}) = 0
  BY FS_CardinalityType, FS_EmptySet, WorkerIs DEF BusInv, BusTyped
<1>5. Counted'
  BY <1>1, <1>2, <1>4 DEF BusInv, Counted
<1>6. Numbered' /\ OneWaits'
  BY <1>1, <1>2 DEF BusInv, Numbered, OneWaits
<1> QED
  BY <1>1, <1>2, <1>3, <1>5, <1>6 DEF BusInv

LEMMA StartInv ==
  ASSUME BusInv, Bus!Start
  PROVE  BusInv' /\ Bus!Busy = {} /\ Bus!Busy' = {}
<1>1. /\ ~running /\ running' = TRUE
      /\ worker' = [w \in Workers |-> Bus!Getting]
      /\ UNCHANGED <<subscribed, queue, unfinished, waiting, next_number, failures,
                     stop_call>>
  BY DEF Bus!Start
<1>2. /\ Bus!Busy = {} /\ Bus!Busy' = {} /\ worker' \in [Workers -> WorkerStates]
  BY <1>1 DEF BusInv, Counted, Bus!Busy, Bus!Gone, Bus!Getting, WorkerStates
<1>3. BusTyped'
  BY <1>1, <1>2 DEF BusInv, BusTyped
<1>4. Counted' /\ Numbered' /\ OneWaits'
  BY <1>1, <1>2 DEF BusInv, Counted, Numbered, OneWaits
<1> QED
  BY <1>2, <1>3, <1>4 DEF BusInv

LEMMA ResubscribesInv ==
  ASSUME BusInv, NEW h \in {Observer, Audit}, Bus!Subscribe(h) \/ Bus!Unsubscribe(h)
  PROVE  BusInv' /\ UNCHANGED worker /\ Bus!Busy' = Bus!Busy
<1>1. /\ \/ ~Contains(subscribed, h) /\ subscribed' = Append(subscribed, h)
         \/ subscribed' = RemoveFirst(subscribed, h)
      /\ UNCHANGED <<running, queue, unfinished, waiting, next_number, worker, failures,
                     stop_call>>
  BY SameHelpers DEF Bus!Subscribe, Bus!Unsubscribe
<1>2. subscribed \in Seq({Observer, Audit}) /\ Once(subscribed)
  BY DEF BusInv, BusTyped, HandlerOrders
<1>3. subscribed' \in HandlerOrders
  <2>1. CASE ~Contains(subscribed, h) /\ subscribed' = Append(subscribed, h)
    <3>1. /\ subscribed' \in Seq({Observer, Audit})
          /\ Len(subscribed) \in Nat /\ Len(subscribed') = Len(subscribed) + 1
          /\ \A i \in 1 .. Len(subscribed) : subscribed'[i] = subscribed[i]
          /\ subscribed'[Len(subscribed) + 1] = h
      BY <1>2, <2>1, AppendIsLast
    <3>2. \A i \in 1 .. Len(subscribed') :
            i \in 1 .. Len(subscribed) \/ i = Len(subscribed) + 1
      BY <3>1
    <3>3. \A i \in 1 .. Len(subscribed) : subscribed[i] # h
      BY <2>1 DEF Contains
    <3>4. Once(subscribed')
      BY <1>2, <3>1, <3>2, <3>3 DEF Once
    <3> QED
      BY <3>1, <3>4 DEF HandlerOrders
  <2>2. CASE subscribed' = RemoveFirst(subscribed, h)
    BY <1>2, <2>2, RemoveFirstProperties DEF HandlerOrders
  <2> QED
    BY <1>1, <2>1, <2>2
<1>4. BusTyped' /\ Bus!Busy' = Bus!Busy
  BY <1>1, <1>3 DEF BusInv, BusTyped, Bus!Busy
<1>5. Counted' /\ Numbered' /\ OneWaits'
  BY <1>1, <1>4 DEF BusInv, Counted, Numbered, OneWaits
<1> QED
  BY <1>1, <1>4, <1>5 DEF BusInv

LEMMA StopJoinsInv ==
  ASSUME BusInv, Bus!StopJoins
  PROVE  BusInv' /\ UNCHANGED worker /\ Bus!Busy' = Bus!Busy
<1>1. /\ stop_call' = "joining"
      /\ UNCHANGED <<running, subscribed, queue, unfinished, waiting, next_number,
                     worker, failures>>
  BY DEF Bus!StopJoins
<1>2. BusTyped' /\ Bus!Busy' = Bus!Busy
  BY <1>1 DEF BusInv, BusTyped, Bus!Busy
<1>3. Counted' /\ Numbered' /\ OneWaits'
  BY <1>1, <1>2 DEF BusInv, Counted, Numbered, OneWaits
<1> QED
  BY <1>1, <1>2, <1>3 DEF BusInv

---------------------------------------------------------------------------
(* The manager's lock, and what is announced under it.                     *)

InTurn(t) == \E i \in 1 .. Len(lock_queue) : lock_queue[i] = t

\* Whoever is in a call holds the lock or is in the queue for it, and only the
\* holder publishes.
LockInv ==
  /\ SM!ManagerTypeOK /\ Once(lock_queue)
  /\ \A t \in Tasks : /\ call[t].pc # "idle" <=> InTurn(t)
                      /\ call[t].pc = "publishing" => lock_queue[1] = t
  /\ \A p \in waiting : call[p.by].pc = "publishing"

Publishing == {t \in Tasks : call[t].pc = "publishing"}

\* The announced changes lead to the state in the snapshot, or to the one before
\* it while its change waits for room.
AnnounceInv ==
  /\ announced \in Seq(SM!Changes) /\ cut_short \in BOOLEAN
  /\ ~cut_short =>
       /\ \A i \in 1 .. Len(announced) :
            announced[i].from = IF i = 1 THEN "BOOT" ELSE announced[i - 1].to
       /\ \A t \in Publishing :
            call[t].change = [from |-> LastAnnounced, to |-> snapshot.state]
       /\ Publishing = {} => snapshot.state = LastAnnounced

LEMMA OnlyOnePublishes ==
  ASSUME LockInv, NEW t \in Tasks, lock_queue = <<>> \/ lock_queue[1] = t,
         call[t].pc # "publishing"
  PROVE  Publishing = {}
<1> SUFFICES ASSUME NEW u \in Publishing PROVE FALSE
  OBVIOUS
<1>1. lock_queue[1] = u /\ InTurn(u) /\ u # t /\ Len(lock_queue) \in Nat
  BY DEF LockInv, Publishing, SM!ManagerTypeOK
<1>2. lock_queue # <<>>
  BY <1>1 DEF InTurn
<1> QED
  BY <1>1, <1>2

\* A call ends.
LEMMA LeaveInv ==
  ASSUME LockInv, NEW t \in Tasks, SM!Leave(t),
         snapshot' \in [state : SM!States, sequence : Nat, revision : Nat],
         snapshot'.sequence <= snapshot'.revision,
         \A p \in waiting' : p \in waiting /\ p.by # t /\ p.by \in Tasks
  PROVE  LockInv' /\ Publishing' = Publishing \ {t}
         /\ \A u \in Tasks \ {t} : call'[u] = call[u]
<1>1. /\ lock_queue' = RemoveFirst(lock_queue, t)
      /\ call' = [call EXCEPT ![t] = SM!NoCall]
  BY SameHelpers DEF SM!Leave
<1>2. lock_queue \in Seq(Tasks) /\ Once(lock_queue)
  BY DEF LockInv, SM!ManagerTypeOK
<1>3. /\ lock_queue' \in Seq(Tasks) /\ Once(lock_queue')
      /\ \A j \in 1 .. Len(lock_queue') : lock_queue'[j] # t
      /\ \A j \in 1 .. Len(lock_queue') :
           \E i \in 1 .. Len(lock_queue) : lock_queue'[j] = lock_queue[i]
      /\ \A i \in 1 .. Len(lock_queue) :
           lock_queue[i] # t
             => \E j \in 1 .. Len(lock_queue') : lock_queue'[j] = lock_queue[i]
      /\ lock_queue # <<>> /\ lock_queue[1] # t
           => lock_queue' # <<>> /\ lock_queue'[1] = lock_queue[1]
  <2> DEFINE s == lock_queue
             r == RemoveFirst(s, t)
  <2>1. s \in Seq(Tasks) /\ Once(s)
    BY <1>2
  <2> HIDE DEF s
  <2>2. /\ r \in Seq(Tasks) /\ Once(r)
        /\ \A j \in 1 .. Len(r) : r[j] # t
        /\ \A j \in 1 .. Len(r) : \E i \in 1 .. Len(s) : r[j] = s[i]
        /\ \A i \in 1 .. Len(s) : s[i] # t => \E j \in 1 .. Len(r) : r[j] = s[i]
        /\ s # <<>> /\ s[1] # t => r # <<>> /\ r[1] = s[1]
    BY <2>1, RemoveFirstProperties
  <2>3. lock_queue' = r
    BY <1>1 DEF s
  <2> HIDE DEF r
  <2> QED
    BY <2>2, <2>3 DEF s
<1>4. /\ call'[t] = SM!NoCall /\ \A u \in Tasks \ {t} : call'[u] = call[u]
      /\ SM!ManagerTypeOK'
  BY <1>1, <1>3 DEF LockInv, SM!ManagerTypeOK
<1>5. call'[t].pc = "idle"
  BY <1>4 DEF SM!NoCall
<1>6. ASSUME NEW u \in Tasks PROVE InTurn(u)' <=> InTurn(u) /\ u # t
  <2>1. InTurn(u)' => InTurn(u) /\ u # t
    BY <1>3 DEF InTurn
  <2>2. InTurn(u) /\ u # t => InTurn(u)'
    BY <1>3 DEF InTurn
  <2> QED
    BY <2>1, <2>2
<1>7. ASSUME NEW u \in Tasks, call'[u].pc = "publishing"
      PROVE  lock_queue'[1] = u
  <2>1. u # t /\ call[u].pc = "publishing"
    BY <1>4, <1>5, <1>7
  <2>2. lock_queue[1] = u /\ InTurn(u)
    BY <2>1 DEF LockInv
  <2>3. lock_queue # <<>>
    BY <2>2 DEF InTurn
  <2> QED
    BY <1>3, <2>1, <2>2, <2>3
<1>8. \A u \in Tasks : call'[u].pc # "idle" <=> InTurn(u)'
  BY <1>4, <1>5, <1>6 DEF LockInv
<1>9. \A p \in waiting' : call'[p.by].pc = "publishing"
  BY <1>4 DEF LockInv
<1>10. LockInv'
  BY <1>3, <1>4, <1>7, <1>8, <1>9 DEF LockInv
<1> QED
  BY <1>4, <1>5, <1>10 DEF Publishing

LEMMA QueueInv ==
  ASSUME LockInv, BusTyped, NEW t \in Tasks, NEW request \in SM!Requests,
         call[t] = SM!NoCall, SM!Queue(t, request), UNCHANGED waiting
  PROVE  LockInv' /\ Publishing' = Publishing
         /\ \A u \in Tasks \ {t} : call'[u] = call[u]
<1> DEFINE queued == [pc |-> "queued", request |-> request]
<1>1. /\ lock_queue # <<>> /\ lock_queue' = Append(lock_queue, t)
      /\ call' = [call EXCEPT ![t] = queued] /\ UNCHANGED snapshot
  BY DEF SM!Queue
<1>2. lock_queue \in Seq(Tasks) /\ Once(lock_queue)
  BY DEF LockInv, SM!ManagerTypeOK
<1>3. /\ lock_queue' \in Seq(Tasks) /\ Len(lock_queue) \in Nat
      /\ Len(lock_queue') = Len(lock_queue) + 1
      /\ \A i \in 1 .. Len(lock_queue) : lock_queue'[i] = lock_queue[i]
      /\ lock_queue'[Len(lock_queue) + 1] = t
  BY <1>1, <1>2, AppendIsLast
<1>4. queued \in [pc : {"queued"}, request : SM!Requests] /\ queued.pc = "queued"
  OBVIOUS
<1> HIDE DEF queued
<1>5. /\ call'[t] = queued /\ \A u \in Tasks \ {t} : call'[u] = call[u]
      /\ SM!ManagerTypeOK'
  BY <1>1, <1>3, <1>4 DEF LockInv, SM!ManagerTypeOK
<1>6. ~InTurn(t)
  BY DEF LockInv, SM!NoCall
<1>7. /\ \A i \in 1 .. Len(lock_queue') :
           i \in 1 .. Len(lock_queue) \/ i = Len(lock_queue) + 1
      /\ 1 .. Len(lock_queue) \subseteq 1 .. Len(lock_queue')
      /\ Len(lock_queue) + 1 \in 1 .. Len(lock_queue')
      /\ 1 \in 1 .. Len(lock_queue)
  BY <1>1, <1>2, <1>3
<1>8. Once(lock_queue')
  BY <1>2, <1>3, <1>6, <1>7 DEF Once, InTurn
<1>9. \A u \in Tasks : InTurn(u)' <=> InTurn(u) \/ u = t
  BY <1>3, <1>7 DEF InTurn
<1>10. Publishing' = Publishing
  BY <1>4, <1>5 DEF Publishing, SM!NoCall
<1>11. \A u \in Tasks : call'[u].pc # "idle" <=> InTurn(u)'
  BY <1>4, <1>5, <1>9 DEF LockInv
<1>12. \A u \in Tasks : call'[u].pc = "publishing" => lock_queue'[1] = u
  BY <1>3, <1>4, <1>5, <1>7 DEF LockInv
<1>13. \A p \in waiting' : call'[p.by].pc = "publishing"
  BY <1>5 DEF LockInv, BusTyped, SM!NoCall
<1> QED
  BY <1>5, <1>8, <1>10, <1>11, <1>12, <1>13 DEF LockInv

HasLock(t) == \/ lock_queue = <<>>
              \/ InTurn(t) /\ lock_queue[1] = t

\* A transition keeps the lock while it publishes.
LEMMA HoldInv ==
  ASSUME LockInv, NEW t \in Tasks, NEW request \in SM!States, SM!Hold(t, request),
         HasLock(t), Publishing = {}, \A p \in waiting' : p.by = t
  PROVE  /\ LockInv' /\ Publishing' = {t} /\ call'[t].change = SM!Change(request)
         /\ snapshot'.state = request
<1> DEFINE held == [pc |-> "publishing", change |-> SM!Change(request)]
<1>1. /\ snapshot' = SM!WithState(request)
      /\ call' = [call EXCEPT ![t] = held]
      /\ lock_queue' = IF lock_queue = <<>> THEN <<t>> ELSE lock_queue
  BY DEF SM!Hold
<1>2. SM!Change(request) \in SM!Changes
  BY DEF SM!Change, SM!Changes, LockInv, SM!ManagerTypeOK
<1>3. /\ snapshot' \in [state : SM!States, sequence : Nat, revision : Nat]
      /\ snapshot'.sequence <= snapshot'.revision /\ snapshot'.state = request
  BY <1>1 DEF SM!WithState, LockInv, SM!ManagerTypeOK
<1>4. /\ held \in [pc : {"publishing"}, change : SM!Changes]
      /\ held.pc = "publishing" /\ held.change = SM!Change(request)
  BY <1>2
<1> HIDE DEF held
<1>5. lock_queue \in Seq(Tasks) /\ Once(lock_queue)
  BY DEF LockInv, SM!ManagerTypeOK
<1>6. /\ lock_queue' \in Seq(Tasks) /\ Once(lock_queue') /\ lock_queue'[1] = t
      /\ \A u \in Tasks : InTurn(u)' <=> InTurn(u) \/ u = t
  <2>1. CASE lock_queue = <<>>
    <3>1. lock_queue' = <<t>> /\ Len(lock_queue) = 0 /\ Len(lock_queue') = 1
      BY <1>1, <2>1
    <3> QED
      BY <3>1 DEF Once, InTurn
  <2>2. CASE lock_queue # <<>>
    <3>1. lock_queue' = lock_queue
      BY <1>1, <2>2
    <3> QED
      BY <1>5, <2>2, <3>1 DEF InTurn, HasLock
  <2> QED
    BY <2>1, <2>2
<1>7. /\ call'[t] = held /\ \A u \in Tasks \ {t} : call'[u] = call[u]
      /\ SM!ManagerTypeOK'
  BY <1>1, <1>3, <1>4, <1>6 DEF LockInv, SM!ManagerTypeOK
<1>8. Publishing' = {t}
  BY <1>4, <1>7 DEF Publishing
<1>9. \A u \in Tasks : call'[u].pc # "idle" <=> InTurn(u)'
  BY <1>4, <1>6, <1>7 DEF LockInv
<1>10. \A u \in Tasks : call'[u].pc = "publishing" => lock_queue'[1] = u
  BY <1>6, <1>8 DEF Publishing
<1>11. \A p \in waiting' : call'[p.by].pc = "publishing"
  BY <1>4, <1>7
<1> QED
  BY <1>3, <1>4, <1>6, <1>7, <1>8, <1>9, <1>10, <1>11 DEF LockInv

\* The change of the state in the snapshot, or of the one before, is announced.
LEMMA AnnouncedNext ==
  ASSUME AnnounceInv, NEW to \in SM!States,
         ~cut_short => LastAnnounced \in SM!States,
         NEW change \in SM!Changes, ~cut_short => change = [from |-> LastAnnounced, to |-> to],
         announced' = Append(announced, change), snapshot'.state = to,
         Publishing' = {}, UNCHANGED cut_short
  PROVE  AnnounceInv'
<1>1. /\ announced' \in Seq(SM!Changes) /\ Len(announced) \in Nat
      /\ Len(announced') = Len(announced) + 1
      /\ \A i \in 1 .. Len(announced) : announced'[i] = announced[i]
      /\ announced'[Len(announced) + 1] = change /\ announced' # <<>>
  BY AppendIsLast DEF AnnounceInv
<1>2. cut_short' \in BOOLEAN
  BY DEF AnnounceInv
<1>3. ASSUME ~cut_short
      PROVE  /\ \A i \in 1 .. Len(announced') :
                  announced'[i].from = IF i = 1 THEN "BOOT" ELSE announced'[i - 1].to
             /\ snapshot'.state = LastAnnounced'
  <2>1. change.from = LastAnnounced /\ change.to = to
    BY <1>3
  <2>2. LastAnnounced' = to
    BY <1>1, <2>1 DEF LastAnnounced
  <2>3. LastAnnounced = IF Len(announced) = 0 THEN "BOOT" ELSE announced[Len(announced)].to
    BY DEF LastAnnounced, AnnounceInv
  <2>4. ASSUME NEW i \in 1 .. Len(announced')
        PROVE  announced'[i].from = IF i = 1 THEN "BOOT" ELSE announced'[i - 1].to
    <3>1. CASE i \in 1 .. Len(announced)
      <4>1. i # 1 => i - 1 \in 1 .. Len(announced)
        BY <1>1, <3>1
      <4> QED
        BY <1>1, <1>3, <3>1, <4>1 DEF AnnounceInv
    <3>2. CASE i = Len(announced) + 1
      <4>1. i # 1 => i - 1 \in 1 .. Len(announced) /\ i - 1 = Len(announced)
        BY <1>1, <3>2
      <4>2. i = 1 <=> Len(announced) = 0
        BY <1>1, <3>2
      <4> QED
        BY <1>1, <2>1, <2>3, <3>2, <4>1, <4>2
    <3> QED
      BY <1>1, <3>1, <3>2
  <2> QED
    BY <2>2, <2>4
<1> QED
  BY <1>1, <1>2, <1>3 DEF AnnounceInv

---------------------------------------------------------------------------
(* What publishers do to the bus.                                          *)

\* Items may enter with the next number, or from the caller that waited.
Intake ==
  /\ UNCHANGED <<worker, failures, stop_call>>
  /\ queue \subseteq queue' /\ (next_number' = next_number \/ next_number' = next_number + 1)
  /\ \A x \in queue' : x \in queue \/ x.number = next_number \/ \E p \in waiting : x = p.item
  /\ \A p \in waiting' : p \in waiting \/ p.item.number = next_number

LEMMA UnchangedBus == UNCHANGED bus /\ BusInv => BusInv' /\ Intake
<1> SUFFICES ASSUME UNCHANGED bus, BusInv PROVE BusInv' /\ Intake
  OBVIOUS
<1>1. UNCHANGED <<running, subscribed, queue, unfinished, waiting, next_number, worker,
                  failures, stop_call>>
  BY DEF bus
<1>2. BusTyped' /\ Bus!Busy' = Bus!Busy
  BY <1>1 DEF BusInv, BusTyped, Bus!Busy
<1>3. Counted' /\ Numbered' /\ OneWaits'
  BY <1>1, <1>2 DEF BusInv, Counted, Numbered, OneWaits
<1> QED
  BY <1>1, <1>2, <1>3 DEF BusInv, Intake

LEMMA PublishTakesIn ==
  ASSUME BusTyped, NEW priority, NEW event, Bus!Publish(priority, event)
  PROVE  Intake /\ UNCHANGED waiting
<1>1. /\ queue' = queue \cup {Bus!Item(priority, event)}
      /\ next_number' = next_number + 1
      /\ UNCHANGED <<waiting, worker, failures, stop_call>>
  BY DEF Bus!Publish, Bus!Put
<1>2. Bus!Item(priority, event).number = next_number
  BY DEF Bus!Item
<1> QED
  BY <1>1, <1>2 DEF Intake

LEMMA PublishWaitsTakesIn ==
  ASSUME BusTyped, NEW t, NEW priority, NEW event, Bus!PublishWaits(t, priority, event)
  PROVE  /\ Intake
         /\ \A p \in waiting' : p \in waiting \/ p.by = t
<1> DEFINE item == Bus!Item(priority, event)
           p0 == [by |-> t, item |-> item]
<1>1. /\ waiting' = waiting \cup {p0}
      /\ next_number' = next_number + 1
      /\ UNCHANGED <<queue, worker, failures, stop_call>>
  BY DEF Bus!PublishWaits
<1>2. p0.item.number = next_number /\ p0.by = t
  BY DEF Bus!Item
<1> HIDE DEF item, p0
<1> QED
  BY <1>1, <1>2 DEF Intake

\* What a call does under the lock.
LEMMA PerformInv ==
  ASSUME BusInv, LockInv, AnnounceInv, NEW t \in Tasks, NEW request \in SM!Requests,
         \/ lock_queue = <<>> /\ call[t] = SM!NoCall
         \/ InTurn(t) /\ lock_queue[1] = t /\ call[t].pc = "queued",
         Perform(t, request)
  PROVE  BusInv' /\ LockInv' /\ AnnounceInv' /\ Intake
<1>1. Publishing = {}
  <2>1. call[t].pc # "publishing"
    BY DEF SM!NoCall
  <2> QED
    BY <2>1, OnlyOnePublishes
<1>2. waiting = {}
  BY <1>1 DEF LockInv, Publishing, BusInv, BusTyped
<1>3. /\ snapshot \in [state : SM!States, sequence : Nat, revision : Nat]
      /\ snapshot.sequence <= snapshot.revision
  BY DEF LockInv, SM!ManagerTypeOK
<1>4. UNCHANGED cut_short
  BY DEF Perform
<1>5. \A target : SM!WithState(target) =
        [state |-> target, sequence |-> snapshot.sequence + 1,
         revision |-> snapshot.revision + 1]
  BY DEF SM!WithState
<1>6. request # SM!Update => request \in SM!States
  BY DEF SM!Requests
<1>7. ASSUME SM!Leave(t), UNCHANGED <<bus, announced>>,
             snapshot' \in [state : SM!States, sequence : Nat, revision : Nat],
             snapshot'.sequence <= snapshot'.revision,
             snapshot'.state = snapshot.state
      PROVE  BusInv' /\ LockInv' /\ AnnounceInv' /\ Intake
  <2>1. BusInv' /\ Intake /\ waiting' = {}
    BY <1>2, <1>7, UnchangedBus DEF bus
  <2>2. LockInv' /\ Publishing' = {}
    BY <1>1, <1>7, <2>1, LeaveInv
  <2>3. AnnounceInv'
    BY <1>1, <1>4, <1>7, <2>2 DEF AnnounceInv, LastAnnounced
  <2> QED
    BY <2>1, <2>2, <2>3
<1>8. CASE SM!Refuse(t, request) /\ UNCHANGED <<bus, announced>>
  BY <1>3, <1>7, <1>8 DEF SM!Refuse
<1>9. CASE SM!ReplaceComponent(t, request) /\ UNCHANGED <<bus, announced>>
  <2>1. SM!Leave(t) /\ snapshot' = [snapshot EXCEPT !.revision = @ + 1]
    BY <1>9 DEF SM!ReplaceComponent
  <2>2. /\ snapshot' \in [state : SM!States, sequence : Nat, revision : Nat]
        /\ snapshot'.sequence <= snapshot'.revision
        /\ snapshot'.state = snapshot.state
    BY <1>3, <2>1
  <2> QED
    BY <1>7, <1>9, <2>1, <2>2
<1>10. CASE SM!RollBack(t, request) /\ UNCHANGED <<bus, announced>>
  BY <1>3, <1>7, <1>10 DEF SM!RollBack, SM!AfterFailedPublish
<1> DEFINE change == SM!Change(request)
<1>11. /\ Priority(request) \in {Bus!CRITICAL, Bus!HIGH}
       /\ change = [from |-> snapshot.state, to |-> request]
       /\ request \in SM!States => change \in SM!Changes
  BY <1>3 DEF Priority, SM!Change, SM!Changes
<1> HIDE DEF change
<1>12. CASE /\ SM!Commit(t, request) /\ Bus!Publish(Priority(request), SM!Change(request))
            /\ announced' = Append(announced, SM!Change(request))
  <2>1. /\ request \in SM!States /\ snapshot' = SM!WithState(request) /\ SM!Leave(t)
    BY <1>6, <1>12 DEF SM!Commit
  <2>2. /\ snapshot' \in [state : SM!States, sequence : Nat, revision : Nat]
        /\ snapshot'.sequence <= snapshot'.revision /\ snapshot'.state = request
    BY <1>3, <1>5, <2>1
  <2>3. change \in SM!Changes
    BY <1>11, <2>1
  <2>4. BusInv'
    BY <1>2, <1>11, <1>12, <2>3, PublishInv DEF change
  <2>5. Intake /\ waiting' = {}
    BY <1>2, <1>12, PublishTakesIn DEF BusInv
  <2>6. LockInv' /\ Publishing' = {}
    BY <1>1, <2>1, <2>2, <2>5, LeaveInv
  <2>7. ~cut_short => LastAnnounced = snapshot.state
    BY <1>1 DEF AnnounceInv
  <2>8. AnnounceInv'
    <3>1. ~cut_short => LastAnnounced \in SM!States
      BY <1>3, <2>7
    <3>2. ~cut_short => change = [from |-> LastAnnounced, to |-> request]
      BY <1>11, <2>7
    <3>3. announced' = Append(announced, change)
      BY <1>12 DEF change
    <3> QED
      BY <1>4, <2>1, <2>2, <2>3, <2>6, <3>1, <3>2, <3>3, AnnouncedNext
  <2> QED
    BY <2>4, <2>5, <2>6, <2>8
<1>13. CASE /\ SM!Hold(t, request)
            /\ Bus!PublishWaits(t, Priority(request), SM!Change(request))
            /\ UNCHANGED announced
  <2>1. request \in SM!States
    BY <1>6, <1>13 DEF SM!Hold
  <2>2. change \in SM!Changes
    BY <1>11, <2>1
  <2>3. BusInv'
    BY <1>2, <1>11, <1>13, <2>2, PublishWaitsInv DEF change
  <2>4. Intake /\ \A p \in waiting' : p.by = t
    BY <1>2, <1>13, PublishWaitsTakesIn DEF BusInv
  <2>5. /\ LockInv' /\ Publishing' = {t} /\ call'[t].change = change
        /\ snapshot'.state = request
    <3>1. HasLock(t)
      BY DEF HasLock
    <3>2. SM!Hold(t, request) /\ \A p \in waiting' : p.by = t
      BY <1>13, <2>4
    <3>3. /\ LockInv' /\ Publishing' = {t} /\ call'[t].change = SM!Change(request)
          /\ snapshot'.state = request
      BY <1>1, <2>1, <3>1, <3>2, HoldInv
    <3> QED
      BY <3>3 DEF change
  <2>6. AnnounceInv'
    BY <1>1, <1>4, <1>11, <1>13, <2>5 DEF AnnounceInv, LastAnnounced
  <2> QED
    BY <2>3, <2>4, <2>5, <2>6
<1> QED
  BY <1>8, <1>9, <1>10, <1>12, <1>13 DEF Perform

---------------------------------------------------------------------------
(* What has been audited.                                                  *)

\* The bridge appends for the workers that run it.
AppendsMatch ==
  /\ \A i, j \in 1 .. Len(appends) : appends[i].by = appends[j].by => i = j
  /\ \A i \in 1 .. Len(appends) :
       appends[i].by = Clerk => appends[i].event.number \in -(incidents + 1) .. -1
  /\ \A i \in 1 .. Len(appends), w \in Workers :
       appends[i].by = w => Running(w, Audit) /\ appends[i].event = worker[w].item

DamageTyped == damaged \subseteq {"cut short", "failed"}

HistoryTyped == due \subseteq 0 .. next_number - 1 /\ incidents \in 0 .. MaxIncidents

\* What a stop is to wait for is recorded or still before the bridge.
DrainInv ==
  /\ stop_call = "joining" => \A n \in due : Recorded(n) \/ n \in Accepted
  /\ stop_call = "joined" => \A n \in due : Recorded(n)

\* The clerk's entries are numbered downwards from -1.
MemoryNumbered ==
  /\ \A i \in 1 .. Len(memory) :
       memory[i].event.number \in -(incidents + 1) .. next_number - 1
  /\ \A i \in 1 .. Len(memory), k \in 1 .. Len(appends) :
       appends[k].by = Clerk => memory[i].event.number > appends[k].event.number
  /\ \A i, j \in 1 .. Len(memory) :
       i < j /\ memory[i].event.number < 0 /\ memory[j].event.number < 0
         => memory[i].event.number > memory[j].event.number

\* Published earlier, as far as the order of their priority goes.
Ahead(a, b) ==
  a.priority = b.priority /\ a.number >= 0 /\ b.number >= 0 => a.number < b.number

\* A single worker keeps the order: memory, its item, the queue, the caller that
\* waits for room.
OneWorkersOrder ==
  Cardinality(Workers) = 1 =>
    /\ \A i, j \in 1 .. Len(memory) : i < j => Ahead(memory[i].event, memory[j].event)
    /\ \A i \in 1 .. Len(memory) :
         /\ \A x \in queue : Ahead(memory[i].event, x)
         /\ \A p \in waiting : Ahead(memory[i].event, p.item)
         /\ \A w \in Bus!Busy :
              Contains(worker[w].todo, Audit) => Ahead(memory[i].event, worker[w].item)
    /\ \A w \in Bus!Busy, x \in queue : Ahead(worker[w].item, x)

AuditInv ==
  AppendsMatch /\ DamageTyped /\ HistoryTyped /\ DrainInv /\ MemoryNumbered /\ OneWorkersOrder

Inv == LogInv /\ BusInv /\ LockInv /\ AnnounceInv /\ AuditInv

\* Incidents are counted up to their bound.
Counting == incidents' \in Nat /\ incidents <= incidents' /\ incidents' <= MaxIncidents

LEMMA IncidentsCount ==
  ASSUME HistoryTyped, Incident \/ UNCHANGED incidents
  PROVE  Counting /\ incidents \in Nat
<1>1. MaxIncidents \in Nat
  BY EventsAssumption
<1> QED
  BY <1>1 DEF HistoryTyped, Incident, Counting

LEMMA NumbersOfLog ==
  ASSUME LogTyped
  PROVE  /\ \A i \in 1 .. Len(memory) : memory[i].event.number \in Int
         /\ \A i \in 1 .. Len(appends) : appends[i].event.number \in Int
<1>1. \A event \in Logged : event.number \in Int
  BY ItemIs DEF Logged, Direct
<1>2. \A i \in 1 .. Len(memory) : memory[i] \in AnEntry
  BY DEF LogTyped
<1>3. \A i \in 1 .. Len(appends) : appends[i] \in Appending
  BY DEF LogTyped
<1> QED
  BY <1>1, <1>2, <1>3 DEF AnEntry, Appending

LEMMA NumbersOfBus ==
  ASSUME BusTyped
  PROVE  /\ next_number \in Nat
         /\ \A x \in queue : x.number \in Nat
         /\ \A p \in waiting : p.item.number \in Nat
         /\ \A w \in Bus!Busy : worker[w].item.number \in Nat
  BY ItemIs, WorkerIs DEF BusTyped

\* A step of a publisher, of the clerk's count, or of one that only changes who
\* subscribes.
LEMMA IntakeKeepsAudit ==
  ASSUME Inv, Intake, Counting, UNCHANGED <<memory, appends>>
  PROVE  AppendsMatch' /\ MemoryNumbered' /\ OneWorkersOrder'
<1>1. /\ UNCHANGED <<worker, failures, stop_call>>
      /\ queue \subseteq queue' /\ (next_number' = next_number \/ next_number' = next_number + 1)
      /\ \A x \in queue' :
           x \in queue \/ x.number = next_number \/ \E p \in waiting : x = p.item
      /\ \A p \in waiting' : p \in waiting \/ p.item.number = next_number
  BY DEF Intake
<1>2. Bus!Busy' = Bus!Busy
  BY <1>1 DEF Bus!Busy
<1>3. incidents' \in Nat /\ incidents \in Nat /\ incidents <= incidents'
  <2>1. MaxIncidents \in Nat
    BY EventsAssumption
  <2> QED
    BY <2>1 DEF Counting, Inv, AuditInv, HistoryTyped
<1>4. /\ \A i \in 1 .. Len(memory) : memory[i].event.number \in Int
      /\ \A i \in 1 .. Len(appends) : appends[i].event.number \in Int
  BY NumbersOfLog DEF Inv, LogInv
<1>5. /\ next_number \in Nat
      /\ \A x \in queue : x.number \in Nat
      /\ \A p \in waiting : p.item.number \in Nat
      /\ \A w \in Bus!Busy : worker[w].item.number \in Nat
  BY NumbersOfBus DEF Inv, BusInv
<1>6. AppendsMatch'
  <2>1. \A a \in Workers : Running(a, Audit)' <=> Running(a, Audit)
    BY <1>1, <1>2 DEF Running
  <2>2. \A i \in 1 .. Len(appends) :
          appends[i].by = Clerk
            => appends[i].event.number \in -(incidents' + 1) .. -1
    BY <1>3, <1>4 DEF Inv, AuditInv, AppendsMatch
  <2> QED
    BY <1>1, <2>1, <2>2 DEF Inv, AuditInv, AppendsMatch
<1>7. MemoryNumbered'
  <2>1. \A i \in 1 .. Len(memory) :
          memory[i].event.number \in -(incidents' + 1) .. next_number' - 1
    BY <1>1, <1>3, <1>4, <1>5 DEF Inv, AuditInv, MemoryNumbered
  <2> QED
    BY <2>1 DEF Inv, AuditInv, MemoryNumbered
<1>8. OneWorkersOrder'
  <2> SUFFICES ASSUME Cardinality(Workers) = 1
               PROVE  /\ \A i \in 1 .. Len(memory) :
                           /\ \A x \in queue' : Ahead(memory[i].event, x)
                           /\ \A p \in waiting' : Ahead(memory[i].event, p.item)
                      /\ \A w \in Bus!Busy, x \in queue' : Ahead(worker[w].item, x)
    BY <1>1, <1>2 DEF Inv, AuditInv, OneWorkersOrder
  <2>1. \A i \in 1 .. Len(memory) : memory[i].event.number < next_number
    BY <1>3, <1>4, <1>5 DEF Inv, AuditInv, MemoryNumbered
  <2>2. \A w \in Bus!Busy : worker[w].item.number < next_number
    BY DEF Inv, BusInv, Numbered
  <2>3. /\ \A i \in 1 .. Len(memory) :
             /\ \A x \in queue : Ahead(memory[i].event, x)
             /\ \A p \in waiting : Ahead(memory[i].event, p.item)
        /\ \A w \in Bus!Busy, x \in queue : Ahead(worker[w].item, x)
    BY DEF Inv, AuditInv, OneWorkersOrder
  <2>4. ASSUME NEW w \in Bus!Busy, NEW p \in waiting PROVE Ahead(worker[w].item, p.item)
    BY DEF Inv, BusInv, OneWaits, Ahead
  <2>5. ASSUME NEW a, NEW x, a.number < next_number, x.number = next_number
        PROVE  Ahead(a, x)
    BY <2>5 DEF Ahead
  <2>6. \A i \in 1 .. Len(memory), x \in queue' : Ahead(memory[i].event, x)
    BY <1>1, <2>1, <2>3, <2>5
  <2>7. \A i \in 1 .. Len(memory), p \in waiting' : Ahead(memory[i].event, p.item)
    BY <1>1, <2>1, <2>3, <2>5
  <2>8. \A w \in Bus!Busy, x \in queue' : Ahead(worker[w].item, x)
    BY <1>1, <2>2, <2>3, <2>4, <2>5
  <2> QED
    BY <2>6, <2>7, <2>8
<1> QED
  BY <1>6, <1>7, <1>8

LEMMA IntakeKeepsDrain ==
  ASSUME Inv, Intake, UNCHANGED <<memory, due>>
  PROVE  DrainInv' /\ due' \subseteq 0 .. next_number' - 1
<1>1. /\ UNCHANGED <<worker, failures, stop_call>> /\ queue \subseteq queue'
      /\ (next_number' = next_number \/ next_number' = next_number + 1)
  BY DEF Intake
<1>2. Bus!Busy' = Bus!Busy
  BY <1>1 DEF Bus!Busy
<1>3. \A n : Recorded(n)' <=> Recorded(n)
  BY <1>1 DEF Recorded
<1>4. \A n \in Accepted : n \in Accepted'
  BY <1>1, <1>2 DEF Accepted
<1>5. DrainInv'
  BY <1>1, <1>3, <1>4 DEF Inv, AuditInv, DrainInv
<1>6. next_number \in Nat /\ due \subseteq 0 .. next_number - 1
  BY NumbersOfBus DEF Inv, BusInv, AuditInv, HistoryTyped
<1>7. 0 .. next_number - 1 \subseteq 0 .. next_number' - 1
  BY <1>1, <1>6
<1> QED
  BY <1>5, <1>6, <1>7

---------------------------------------------------------------------------
(* What workers, bridge and clerk do.                                      *)

LEMMA UnchangedLog ==
  ASSUME LogInv, UNCHANGED audit, UNCHANGED damaged
  PROVE  LogInv'
<1>1. UNCHANGED <<memory, file, appends, thread, orphans>>
  BY DEF audit
<1>2. HeadIsWritten'
  BY <1>1 DEF LogInv, HeadIsWritten, Log!Entry, Log!Link
<1> QED
  BY <1>1, <1>2 DEF LogInv, LogTyped, LineIsOnFile, FileIsMemory, AcceptedIsDurable,
                    Log!Verifies

LEMMA UnchangedManager ==
  ASSUME LockInv, AnnounceInv, UNCHANGED manager, UNCHANGED <<announced, cut_short>>,
         \A p \in waiting' : p \in waiting
  PROVE  LockInv' /\ AnnounceInv'
<1>1. UNCHANGED <<snapshot, lock_queue, call>>
  BY DEF manager
<1>2. LockInv'
  BY <1>1 DEF LockInv, SM!ManagerTypeOK, InTurn
<1>3. AnnounceInv'
  BY <1>1 DEF AnnounceInv, LastAnnounced, Publishing
<1> QED
  BY <1>2, <1>3

\* The call of append() that begins is its caller's only one.
LEMMA AppendsGrow ==
  ASSUME LogTyped, NEW a \in Workers \cup {Clerk}, NEW event \in Logged,
         Log!BeginAppend(a, event)
  PROVE  /\ UNCHANGED memory
         /\ Len(appends) \in Nat /\ Len(appends') = Len(appends) + 1
         /\ \A i \in 1 .. Len(appends) : appends'[i] = appends[i]
         /\ appends'[Len(appends) + 1].by = a
         /\ appends'[Len(appends) + 1].event = event
         /\ \A i \in 1 .. Len(appends') :
              i \in 1 .. Len(appends) \/ i = Len(appends) + 1
<1> DEFINE begun == [by |-> a, event |-> event]
<1>1. begun \in Appending /\ begun.by = a /\ begun.event = event
  BY DEF Appending
<1>2. appends' = Append(appends, begun) /\ UNCHANGED memory
  BY DEF Log!BeginAppend
<1> HIDE DEF begun
<1>3. /\ Len(appends) \in Nat /\ Len(appends') = Len(appends) + 1
      /\ \A i \in 1 .. Len(appends) : appends'[i] = appends[i]
      /\ appends'[Len(appends) + 1] = begun
  BY <1>1, <1>2, AppendIsLast DEF LogTyped
<1>4. \A i \in 1 .. Len(appends') : i \in 1 .. Len(appends) \/ i = Len(appends) + 1
  BY <1>3
<1> QED
  BY <1>1, <1>2, <1>3, <1>4

LEMMA AppendersAre ==
  ASSUME LogTyped
  PROVE  \A i \in 1 .. Len(appends) :
           /\ appends[i].by \in Workers \cup {Clerk} /\ appends[i].event \in Logged
           /\ appends[i].by # Clerk => appends[i].by \in Workers
<1>1. \A i \in 1 .. Len(appends) : appends[i] \in Appending
  BY DEF LogTyped
<1> QED
  BY <1>1 DEF Appending

\* w begins to run the bridge: it did not before, and the other workers go on.
LEMMA BridgeMatches ==
  ASSUME Inv, NEW w \in Workers, ~Running(w, Audit),
         \A v \in Workers \ {w} : worker'[v] = worker[v],
         UNCHANGED incidents \/ Incident,
         \/ UNCHANGED audit
         \/ /\ Running(w, Audit)' /\ worker'[w].item \in Bus!Items
            /\ Log!BeginAppend(w, worker'[w].item)
  PROVE  /\ AppendsMatch' /\ UNCHANGED memory
         /\ \A k \in 1 .. Len(appends') :
              appends'[k].by = Clerk => k \in 1 .. Len(appends) /\ appends'[k] = appends[k]
<1>1. \A i \in 1 .. Len(appends) :
        /\ appends[i].by # Clerk => appends[i].by \in Workers
        /\ appends[i].by # w
  BY AppendersAre, EventsAssumption DEF Inv, LogInv, AuditInv, AppendsMatch
<1>2. \A v \in Workers \ {w} : Running(v, Audit)' <=> Running(v, Audit)
  BY DEF Running, Bus!Busy
<1>3. incidents' \in Nat /\ incidents \in Nat /\ incidents <= incidents'
  BY IncidentsCount DEF Counting, Inv, AuditInv
<1>4. \A i \in 1 .. Len(appends) : appends[i].event.number \in Int
  BY NumbersOfLog DEF Inv, LogInv
<1>5. /\ \A i \in 1 .. Len(appends) :
           appends[i].by = Clerk
             => appends[i].event.number \in -(incidents' + 1) .. -1
      /\ \A i \in 1 .. Len(appends), v \in Workers :
           appends[i].by = v => Running(v, Audit)' /\ appends[i].event = worker'[v].item
  <2>1. \A i \in 1 .. Len(appends) :
          appends[i].by = Clerk
            => appends[i].event.number \in -(incidents' + 1) .. -1
    BY <1>3, <1>4 DEF Inv, AuditInv, AppendsMatch
  <2>2. ASSUME NEW i \in 1 .. Len(appends), NEW v \in Workers, appends[i].by = v
        PROVE  Running(v, Audit)' /\ appends[i].event = worker'[v].item
    <3>1. v # w
      BY <1>1, <2>2
    <3>2. Running(v, Audit) /\ appends[i].event = worker[v].item
      BY <2>2 DEF Inv, AuditInv, AppendsMatch
    <3> QED
      BY <1>2, <3>1, <3>2
  <2> QED
    BY <2>1, <2>2
<1>6. CASE UNCHANGED audit
  <2>1. UNCHANGED <<memory, appends>>
    BY <1>6 DEF audit
  <2> QED
    BY <1>5, <2>1 DEF Inv, AuditInv, AppendsMatch
<1>7. CASE /\ Running(w, Audit)' /\ worker'[w].item \in Bus!Items
           /\ Log!BeginAppend(w, worker'[w].item)
  <2> DEFINE item == worker'[w].item
  <2>1. item \in Logged
    BY <1>7 DEF Logged
  <2>2. /\ UNCHANGED memory
        /\ Len(appends) \in Nat /\ Len(appends') = Len(appends) + 1
        /\ \A i \in 1 .. Len(appends) : appends'[i] = appends[i]
        /\ appends'[Len(appends) + 1].by = w
        /\ appends'[Len(appends) + 1].event = item
        /\ \A i \in 1 .. Len(appends') :
             i \in 1 .. Len(appends) \/ i = Len(appends) + 1
    BY <1>7, <2>1, AppendsGrow DEF Inv, LogInv
  <2>3. w # Clerk
    BY EventsAssumption
  <2>4. \A i, j \in 1 .. Len(appends') : appends'[i].by = appends'[j].by => i = j
    BY <1>1, <2>2 DEF Inv, AuditInv, AppendsMatch
  <2>5. \A i \in 1 .. Len(appends') :
          appends'[i].by = Clerk
            => appends'[i].event.number \in -(incidents' + 1) .. -1
    BY <1>5, <2>2, <2>3
  <2>6. ASSUME NEW i \in 1 .. Len(appends'), NEW v \in Workers, appends'[i].by = v
        PROVE  Running(v, Audit)' /\ appends'[i].event = worker'[v].item
    <3>1. CASE i \in 1 .. Len(appends)
      BY <1>5, <2>2, <2>6, <3>1
    <3>2. CASE i = Len(appends) + 1
      BY <1>7, <2>2, <2>6, <3>2
    <3> QED
      BY <2>2, <3>1, <3>2
  <2>7. AppendsMatch'
    BY <2>4, <2>5, <2>6 DEF AppendsMatch
  <2> QED
    BY <2>2, <2>3, <2>7
<1> QED
  BY <1>6, <1>7

\* As long as memory and the clerk's calls stay, their numbers do.
LEMMA MemoryStays ==
  ASSUME Inv, UNCHANGED <<memory, next_number>>, UNCHANGED incidents \/ Incident,
         \A k \in 1 .. Len(appends') :
           appends'[k].by = Clerk
             => \E l \in 1 .. Len(appends) : appends'[k] = appends[l]
  PROVE  MemoryNumbered'
<1>1. incidents' \in Nat /\ incidents \in Nat /\ incidents <= incidents'
  BY IncidentsCount DEF Counting, Inv, AuditInv
<1>2. \A i \in 1 .. Len(memory) : memory[i].event.number \in Int
  BY NumbersOfLog DEF Inv, LogInv
<1>3. next_number \in Nat
  BY NumbersOfBus DEF Inv, BusInv
<1>4. \A i \in 1 .. Len(memory) :
        memory[i].event.number \in -(incidents' + 1) .. next_number' - 1
  BY <1>1, <1>2, <1>3 DEF Inv, AuditInv, MemoryNumbered
<1>5. \A i \in 1 .. Len(memory), k \in 1 .. Len(appends') :
        appends'[k].by = Clerk => memory[i].event.number > appends'[k].event.number
  BY DEF Inv, AuditInv, MemoryNumbered
<1> QED
  BY <1>4, <1>5 DEF Inv, AuditInv, MemoryNumbered

LEMMA NothingLeft ==
  ASSUME NEW Q, IsFiniteSet(Q), NEW B, IsFiniteSet(B), Cardinality(Q) + Cardinality(B) = 0
  PROVE  Q = {} /\ B = {}
<1>1. Cardinality(Q) \in Nat /\ Cardinality(B) \in Nat
  BY FS_CardinalityType
<1>2. Cardinality(Q) = 0 /\ Cardinality(B) = 0
  BY <1>1
<1> QED
  BY <1>2, FS_EmptySet

\* When the last item is done, the bridge has nothing before it.
LEMMA DoneIsEmpty ==
  ASSUME BusInv', unfinished' = 0
  PROVE  Accepted' = {}
<1>1. /\ IsFiniteSet(queue') /\ 0 = Cardinality(queue') + Cardinality(Bus!Busy')
  BY DEF BusInv, BusTyped, Counted
<1>2. Bus!Busy' \subseteq Workers
  BY DEF Bus!Busy
<1>3. IsFiniteSet(Bus!Busy')
  BY <1>2, FS_Subset, EventsAssumption
<1>4. queue' = {} /\ Bus!Busy' = {}
  BY <1>1, <1>3, NothingLeft
<1> QED
  BY <1>4 DEF Accepted

LEMMA DrainGoesOn ==
  ASSUME Inv, BusInv',
         UNCHANGED stop_call \/ Bus!TaskDone,
         \A n : Recorded(n) => Recorded(n)',
         \A n \in due' : n \in due,
         \A n \in due' : n \in Accepted => Recorded(n)' \/ n \in Accepted'
  PROVE  DrainInv'
<1>1. \/ UNCHANGED stop_call
      \/ stop_call = "joining" /\ stop_call' = "joined" /\ unfinished' = 0
  BY DEF Bus!TaskDone
<1>2. CASE UNCHANGED stop_call
  BY <1>2 DEF Inv, AuditInv, DrainInv
<1>3. CASE stop_call = "joining" /\ stop_call' = "joined" /\ unfinished' = 0
  <2>1. Accepted' = {}
    BY <1>3, DoneIsEmpty
  <2> QED
    BY <1>3, <2>1 DEF Inv, AuditInv, DrainInv
<1> QED
  BY <1>1, <1>2, <1>3

---------------------------------------------------------------------------
(* Every step keeps the invariant: callers of the manager and publishers.  *)

LEMMA FromPublishers ==
  ASSUME Inv, BusInv', LockInv', AnnounceInv', Intake, UNCHANGED audit,
         UNCHANGED <<damaged, due>>, UNCHANGED incidents \/ Incident
  PROVE  Inv'
<1>1. LogInv'
  BY UnchangedLog DEF Inv
<1>2. UNCHANGED <<memory, appends>>
  BY DEF audit
<1>3. Counting
  BY IncidentsCount DEF Inv, AuditInv
<1>4. AppendsMatch' /\ MemoryNumbered' /\ OneWorkersOrder'
  BY <1>2, <1>3, IntakeKeepsAudit
<1>5. DrainInv' /\ due' \subseteq 0 .. next_number' - 1
  BY <1>2, IntakeKeepsDrain
<1>6. incidents' \in 0 .. MaxIncidents
  <2>1. MaxIncidents \in Nat
    BY EventsAssumption
  <2> QED
    BY <1>3, <2>1 DEF Counting
<1>7. HistoryTyped' /\ DamageTyped'
  BY <1>5, <1>6 DEF Inv, AuditInv, HistoryTyped, DamageTyped
<1> QED
  BY <1>1, <1>4, <1>5, <1>7 DEF Inv, AuditInv

LEMMA RequestsAre == \A request \in Targets \cup {SM!Update} : request \in SM!Requests
  BY EventsAssumption DEF SM!Requests

LEMMA CallInv ==
  ASSUME Inv, NEW t \in Tasks, NEW request \in Targets \cup {SM!Update}, Call(t, request)
  PROVE  Inv'
<1>1. call[t] = SM!NoCall /\ request \in SM!Requests
  BY RequestsAre DEF Call
<1>2. UNCHANGED incidents \/ Incident
  BY DEF Call, Allowed
<1>3. CASE lock_queue = <<>> /\ Perform(t, request)
  <2>1. BusInv' /\ LockInv' /\ AnnounceInv' /\ Intake
    BY <1>1, <1>3, PerformInv DEF Inv
  <2> QED
    BY <1>2, <1>3, <2>1, FromPublishers DEF Perform
<1>4. CASE SM!Queue(t, request) /\ UNCHANGED <<bus, audit, history>>
  <2>1. UNCHANGED bus /\ UNCHANGED audit
        /\ UNCHANGED <<announced, cut_short, damaged, due>>
    BY <1>4 DEF history
  <2>2. BusInv' /\ Intake /\ UNCHANGED waiting
    BY <2>1, UnchangedBus DEF Inv, bus
  <2>3. LockInv' /\ Publishing' = Publishing /\ \A u \in Tasks \ {t} : call'[u] = call[u]
    BY <1>1, <1>4, <2>2, QueueInv DEF Inv, BusInv
  <2>4. UNCHANGED snapshot /\ t \notin Publishing
    BY <1>1, <1>4 DEF SM!Queue, Publishing, SM!NoCall
  <2>5. AnnounceInv'
    BY <2>1, <2>3, <2>4 DEF Inv, AnnounceInv, LastAnnounced, Publishing
  <2> QED
    BY <1>2, <2>1, <2>2, <2>3, <2>5, FromPublishers
<1> QED
  BY <1>3, <1>4 DEF Call

LEMMA ObtainLockInv ==
  ASSUME Inv, NEW t \in Tasks, ObtainLock(t)
  PROVE  Inv'
<1>1. /\ call[t].pc = "queued" /\ Head(lock_queue) = t
      /\ Perform(t, call[t].request) /\ UNCHANGED incidents
  BY DEF ObtainLock
<1>2. call[t].request \in SM!Requests
  BY <1>1 DEF Inv, LockInv, SM!ManagerTypeOK, SM!NoCall
<1>3. InTurn(t) /\ lock_queue[1] = t
  <2>1. InTurn(t) /\ lock_queue \in Seq(Tasks)
    BY <1>1 DEF Inv, LockInv, SM!ManagerTypeOK
  <2>2. lock_queue # <<>>
    BY <2>1 DEF InTurn
  <2> QED
    BY <1>1, <2>1, <2>2
<1>4. BusInv' /\ LockInv' /\ AnnounceInv' /\ Intake
  BY <1>1, <1>2, <1>3, PerformInv DEF Inv
<1> QED
  BY <1>1, <1>4, FromPublishers DEF Perform

\* The one who waits for room is the one who publishes.
LEMMA WaiterIs ==
  ASSUME BusInv, LockInv, NEW p \in waiting
  PROVE  /\ p.by \in Tasks /\ Publishing = {p.by} /\ waiting = {p}
         /\ p.item.number \in Nat /\ p.item \in Bus!Items
<1>1. p.by \in Tasks /\ p.item.number \in Nat /\ p.item \in Bus!Items
  BY ItemIs DEF BusInv, BusTyped
<1>2. waiting = {p}
  BY DEF BusInv, OneWaits
<1>3. Publishing = {p.by}
  BY <1>1 DEF LockInv, Publishing
<1> QED
  BY <1>1, <1>2, <1>3

LEMMA EndPublishingInv ==
  ASSUME Inv, NEW p \in waiting, SM!EndPublishing(p.by), waiting' = {}
  PROVE  LockInv' /\ Publishing' = {} /\ UNCHANGED snapshot
<1>1. p.by \in Tasks /\ Publishing = {p.by}
  BY WaiterIs DEF Inv
<1>2. SM!Leave(p.by) /\ UNCHANGED snapshot
  BY DEF SM!EndPublishing
<1>3. /\ snapshot' \in [state : SM!States, sequence : Nat, revision : Nat]
      /\ snapshot'.sequence <= snapshot'.revision
  BY <1>2 DEF Inv, LockInv, SM!ManagerTypeOK
<1> HIDE DEF SM!EndPublishing
<1>4. LockInv' /\ Publishing' = Publishing \ {p.by}
  BY <1>1, <1>2, <1>3, LeaveInv DEF Inv
<1> QED
  BY <1>1, <1>2, <1>4

LEMMA ResumePublishInv ==
  ASSUME Inv, NEW t \in Tasks, ResumePublish(t)
  PROVE  Inv'
<1>1. /\ SM!EndPublishing(t) /\ announced' = Append(announced, call[t].change)
      /\ UNCHANGED <<audit, cut_short, damaged, due, incidents>>
  BY DEF ResumePublish
<1>2. PICK p \in waiting : p.by = t /\ Bus!PublishResumes(p)
  BY DEF ResumePublish
<1>3. BusInv' /\ waiting' = {}
  BY <1>2, PublishResumesInv DEF Inv
<1>4. LockInv' /\ Publishing' = {} /\ UNCHANGED snapshot
  BY <1>1, <1>2, <1>3, EndPublishingInv
<1>5. Publishing = {t}
  BY <1>2, WaiterIs DEF Inv
<1>6. call[t].change \in SM!Changes
  BY <1>5 DEF Inv, LockInv, SM!ManagerTypeOK, SM!NoCall, Publishing
<1>7. snapshot.state \in SM!States /\ snapshot'.state = snapshot.state
  BY <1>4 DEF Inv, LockInv, SM!ManagerTypeOK
<1>8. ~cut_short => call[t].change = [from |-> LastAnnounced, to |-> snapshot.state]
  BY <1>5 DEF Inv, AnnounceInv
<1>9. ~cut_short => LastAnnounced \in SM!States
  BY <1>6, <1>8 DEF SM!Changes
<1>10. AnnounceInv'
  BY <1>1, <1>4, <1>6, <1>7, <1>8, <1>9, AnnouncedNext DEF Inv
<1>11. Intake
  <2>1. /\ queue' = queue \cup {p.item} /\ waiting' = {}
        /\ UNCHANGED <<next_number, worker, failures, stop_call>>
    BY <1>2, <1>3 DEF Bus!PublishResumes, Bus!Put
  <2> QED
    BY <2>1 DEF Intake
<1> QED
  BY <1>1, <1>3, <1>4, <1>10, <1>11, FromPublishers

LEMMA CancelPublishInv ==
  ASSUME Inv, NEW t \in Tasks, CancelPublish(t)
  PROVE  Inv'
<1>1. /\ SM!EndPublishing(t) /\ Incident /\ cut_short' = TRUE
      /\ UNCHANGED <<audit, announced, damaged, due>>
  BY DEF CancelPublish
<1>2. PICK p \in waiting : p.by = t /\ Bus!PublishCancelled(p)
  BY DEF CancelPublish
<1>3. BusInv' /\ waiting' = {}
  BY <1>2, PublishCancelledInv DEF Inv
<1>4. LockInv'
  BY <1>1, <1>2, <1>3, EndPublishingInv
<1>5. AnnounceInv'
  BY <1>1 DEF Inv, AnnounceInv
<1>6. Intake
  BY <1>2, <1>3 DEF Intake, Bus!PublishCancelled
<1> QED
  BY <1>1, <1>3, <1>4, <1>5, <1>6, FromPublishers

LEMMA CancelQueuedInv ==
  ASSUME Inv, NEW t \in Tasks, CancelQueued(t)
  PROVE  Inv'
<1>1. /\ call[t].pc = "queued" /\ Incident /\ SM!Leave(t)
      /\ UNCHANGED snapshot /\ UNCHANGED bus /\ UNCHANGED audit
      /\ UNCHANGED <<announced, cut_short, damaged, due>>
  BY DEF CancelQueued, history
<1>2. BusInv' /\ Intake /\ UNCHANGED waiting
  BY <1>1, UnchangedBus DEF Inv, bus
<1>3. t \notin Publishing
  BY <1>1 DEF Publishing
<1>4. \A p \in waiting' : p \in waiting /\ p.by # t /\ p.by \in Tasks
  BY <1>1, <1>2 DEF Inv, LockInv, BusInv, BusTyped
<1>5. /\ snapshot' \in [state : SM!States, sequence : Nat, revision : Nat]
      /\ snapshot'.sequence <= snapshot'.revision
  BY <1>1 DEF Inv, LockInv, SM!ManagerTypeOK
<1>6. /\ LockInv' /\ Publishing' = Publishing
      /\ \A u \in Tasks \ {t} : call'[u] = call[u]
  BY <1>1, <1>3, <1>4, <1>5, LeaveInv DEF Inv
<1>7. AnnounceInv'
  BY <1>1, <1>3, <1>6 DEF Inv, AnnounceInv, LastAnnounced, Publishing
<1> QED
  BY <1>1, <1>2, <1>6, <1>7, FromPublishers

LEMMA PublishNoteInv ==
  ASSUME Inv, PublishNote
  PROVE  Inv'
<1>1. /\ Incident /\ UNCHANGED manager /\ UNCHANGED audit
      /\ UNCHANGED <<announced, cut_short, damaged, due>>
  BY DEF PublishNote, history
<1>2. BusInv' /\ Intake /\ UNCHANGED waiting
  <2>1. CASE Bus!Publish(Bus!NORMAL, Note)
    BY <2>1, PublishInv, PublishTakesIn DEF Inv, BusInv
  <2>2. CASE Bus!PublishNowaitFull
    BY <2>2, PublishNowaitFullInv DEF Inv, Bus!PublishNowaitFull, Intake
  <2> QED
    BY <2>1, <2>2 DEF PublishNote
<1>3. LockInv' /\ AnnounceInv'
  BY <1>1, <1>2, UnchangedManager DEF Inv
<1> QED
  BY <1>1, <1>2, <1>3, FromPublishers

LEMMA ResubscribesStep ==
  ASSUME Inv, NEW h \in {Observer, Audit}, Resubscribes(h)
  PROVE  Inv'
<1>1. /\ Incident /\ UNCHANGED manager /\ UNCHANGED audit
      /\ UNCHANGED <<announced, cut_short, damaged, due>>
      /\ Bus!Subscribe(h) \/ Bus!Unsubscribe(h)
  BY DEF Resubscribes, history
<1>2. BusInv'
  BY <1>1, ResubscribesInv DEF Inv
<1>3. Intake /\ UNCHANGED waiting
  BY <1>1 DEF Bus!Subscribe, Bus!Unsubscribe, Intake
<1>4. LockInv' /\ AnnounceInv'
  BY <1>1, <1>3, UnchangedManager DEF Inv
<1> QED
  BY <1>1, <1>2, <1>3, <1>4, FromPublishers

LEMMA StutterInv ==
  ASSUME Inv, UNCHANGED vars
  PROVE  Inv'
<1>1. /\ UNCHANGED bus /\ UNCHANGED manager /\ UNCHANGED audit
      /\ UNCHANGED <<announced, cut_short, damaged, due>> /\ UNCHANGED incidents
  BY DEF vars, history
<1>2. BusInv' /\ Intake /\ UNCHANGED waiting
  BY <1>1, UnchangedBus DEF Inv, bus
<1>3. LockInv' /\ AnnounceInv'
  BY <1>1, <1>2, UnchangedManager DEF Inv
<1> QED
  BY <1>1, <1>2, <1>3, FromPublishers

---------------------------------------------------------------------------
(* Workers and the bridge.                                                 *)

LEMMA FromWorkers ==
  ASSUME Inv, BusInv', LogInv', UNCHANGED manager, UNCHANGED <<announced, cut_short>>,
         UNCHANGED <<waiting, next_number>>, UNCHANGED incidents \/ Incident,
         DamageTyped', \A n \in due' : n \in due,
         AppendsMatch', MemoryNumbered', OneWorkersOrder', DrainInv'
  PROVE  Inv'
<1>1. LockInv' /\ AnnounceInv'
  BY UnchangedManager DEF Inv
<1>2. Counting
  BY IncidentsCount DEF Inv, AuditInv
<1>3. HistoryTyped'
  <2>1. MaxIncidents \in Nat
    BY EventsAssumption
  <2>2. incidents' \in 0 .. MaxIncidents
    BY <1>2, <2>1 DEF Counting
  <2>3. due \subseteq 0 .. next_number - 1 /\ next_number' = next_number
    BY DEF Inv, AuditInv, HistoryTyped
  <2>4. due' \subseteq 0 .. next_number' - 1
    BY <2>3
  <2> QED
    BY <2>2, <2>4 DEF HistoryTyped
<1> QED
  BY <1>1, <1>3 DEF Inv, AuditInv

LEMMA OrderKeeps ==
  ASSUME Inv, UNCHANGED memory, \A x \in queue' : x \in queue,
         \A p \in waiting' : p \in waiting,
         \A v \in Bus!Busy' :
           /\ v \in Bus!Busy /\ worker'[v].item = worker[v].item
           /\ Contains(worker'[v].todo, Audit) => Contains(worker[v].todo, Audit)
  PROVE  OneWorkersOrder'
  BY DEF Inv, AuditInv, OneWorkersOrder, Ahead

LEMMA RecordedStays ==
  ASSUME NEW n, Recorded(n), failures \subseteq failures',
         \A i \in 1 .. Len(memory) : i \in 1 .. Len(memory') /\ memory'[i] = memory[i]
  PROVE  Recorded(n)'
  BY DEF Recorded

LEMMA WorkerGetsInv ==
  ASSUME Inv, NEW w \in Workers, WorkerGets(w)
  PROVE  Inv'
<1> DEFINE first == Bus!FirstItem
<1>1. /\ Bus!Get(w) /\ BridgeBegins(w, subscribed, first)
      /\ due' = IF Contains(subscribed, Audit) THEN due ELSE due \ {first.number}
      /\ UNCHANGED manager /\ UNCHANGED <<announced, cut_short, damaged, incidents>>
  BY DEF WorkerGets
<1>2. /\ BusInv' /\ w \notin Bus!Busy /\ first \in queue
      /\ queue' = queue \ {first}
      /\ \A j \in queue' : Bus!Before(first, j)
  BY <1>1, GetInv DEF Inv
<1>3. /\ UNCHANGED <<waiting, next_number, failures>>
      /\ \/ /\ subscribed # <<>>
            /\ worker' = [worker EXCEPT ![w] = Bus!Dispatching(first, subscribed)]
            /\ UNCHANGED stop_call
         \/ subscribed = <<>> /\ Bus!TaskDone /\ UNCHANGED worker
  BY <1>1 DEF Bus!Get
<1> HIDE DEF first
<1>4. first \in Bus!Items /\ first \in Logged
  BY <1>2 DEF Inv, BusInv, BusTyped, Logged
<1>5. ~Running(w, Audit)
  BY <1>2 DEF Running
<1>6. subscribed \in HandlerOrders
  BY DEF Inv, BusInv, BusTyped
<1>7. \A i \in 1 .. Len(memory), x \in queue :
        Cardinality(Workers) = 1 => Ahead(memory[i].event, x)
  BY DEF Inv, AuditInv, OneWorkersOrder
<1>8. CASE /\ subscribed # <<>>
           /\ worker' = [worker EXCEPT ![w] = Bus!Dispatching(first, subscribed)]
           /\ UNCHANGED stop_call
  <2> DEFINE x == Bus!Dispatching(first, subscribed)
  <2>1. /\ x \in WorkerStates /\ x.pc = "dispatching" /\ x.item = first
        /\ x.todo = subscribed
    BY <1>4, <1>6, <1>8 DEF WorkerStates, Bus!Dispatching
  <2>2. worker' = [worker EXCEPT ![w] = x]
    BY <1>8
  <2> HIDE DEF x
  <2>3. /\ worker'[w] = x /\ \A v \in Workers \ {w} : worker'[v] = worker[v]
        /\ Bus!Busy' = Bus!Busy \cup {w}
    BY <2>1, <2>2, BusyAfter DEF Inv, BusInv
  <2>4. \/ UNCHANGED audit
        \/ /\ Running(w, Audit)' /\ worker'[w].item \in Bus!Items
           /\ Log!BeginAppend(w, worker'[w].item)
    BY <1>1, <1>4, <2>1, <2>3 DEF BridgeBegins, Running
  <2>5. /\ AppendsMatch' /\ UNCHANGED memory
        /\ \A k \in 1 .. Len(appends') :
             appends'[k].by = Clerk => k \in 1 .. Len(appends) /\ appends'[k] = appends[k]
    BY <1>1, <1>5, <2>3, <2>4, BridgeMatches
  <2>6. MemoryNumbered'
    BY <1>1, <1>3, <2>5, MemoryStays
  <2>7. LogInv'
    BY <1>1, <1>4, UnchangedLog, BeginAppendInv DEF Inv, BridgeBegins
  <2>8. \A v \in Bus!Busy : v \in Bus!Busy' /\ worker'[v] = worker[v]
    BY <1>2, <2>3, WorkerIs DEF Inv, BusInv
  <2>9. ASSUME NEW n \in due', n \in Accepted PROVE n \in Accepted'
    <3>1. CASE \E i \in queue' : n = i.number
      BY <3>1 DEF Accepted
    <3>2. CASE n = first.number /\ Contains(subscribed, Audit)
      <4>1. w \in Bus!Busy' /\ worker'[w].item.number = n
            /\ Contains(worker'[w].todo, Audit)
        BY <2>1, <2>3, <3>2
      <4> QED
        BY <4>1 DEF Accepted
    <3>3. CASE \E v \in Bus!Busy : n = worker[v].item.number
                                   /\ Contains(worker[v].todo, Audit)
      BY <2>8, <3>3 DEF Accepted
    <3>4. n = first.number => Contains(subscribed, Audit)
      BY <1>1
    <3> QED
      BY <1>2, <2>9, <3>1, <3>2, <3>3, <3>4 DEF Accepted
  <2>10. \A n : Recorded(n) => Recorded(n)'
    BY <1>3, <2>5 DEF Recorded
  <2>11. \A n \in due' : n \in due
    BY <1>1
  <2>12. DrainInv'
    BY <1>2, <1>8, <2>9, <2>10, <2>11, DrainGoesOn
  <2>13. OneWorkersOrder'
    <3> SUFFICES ASSUME Cardinality(Workers) = 1
                 PROVE  /\ \A i \in 1 .. Len(memory), v \in Bus!Busy' :
                             Contains(worker'[v].todo, Audit)
                               => Ahead(memory[i].event, worker'[v].item)
                        /\ \A v \in Bus!Busy', y \in queue' : Ahead(worker'[v].item, y)
      BY <1>2, <1>3, <2>5 DEF Inv, AuditInv, OneWorkersOrder
    <3>1. /\ \A i \in 1 .. Len(memory), v \in Bus!Busy :
               Contains(worker[v].todo, Audit) => Ahead(memory[i].event, worker[v].item)
          /\ \A v \in Bus!Busy, y \in queue : Ahead(worker[v].item, y)
      BY DEF Inv, AuditInv, OneWorkersOrder
    <3>2. \A y \in queue' : Ahead(first, y)
      <4>1. \A y \in queue' : y.priority \in Nat /\ first.priority \in Nat
        BY <1>2, <1>4, ItemIs DEF Inv, BusInv, BusTyped
      <4> QED
        BY <1>2, <4>1 DEF Bus!Before, Ahead
    <3> QED
      BY <1>2, <1>7, <2>1, <2>3, <2>8, <3>1, <3>2
  <2> QED
    BY <1>1, <1>2, <1>3, <2>5, <2>6, <2>7, <2>11, <2>12, <2>13, FromWorkers
       DEF Inv, AuditInv, DamageTyped
<1>9. CASE subscribed = <<>> /\ Bus!TaskDone /\ UNCHANGED worker
  <2>1. UNCHANGED audit /\ UNCHANGED <<memory, appends>>
    BY <1>1, <1>9 DEF BridgeBegins, audit
  <2>2. Bus!Busy' = Bus!Busy
    BY <1>9 DEF Bus!Busy
  <2>3. ~Contains(subscribed, Audit)
    BY <1>9 DEF Contains
  <2>4. AppendsMatch'
    BY <1>1, <1>5, <1>9, <2>1, BridgeMatches
  <2>5. MemoryNumbered'
    BY <1>1, <1>3, <2>1, MemoryStays
  <2>6. LogInv'
    BY <1>1, <2>1, UnchangedLog DEF Inv
  <2>7. OneWorkersOrder'
    BY <1>2, <1>3, <1>9, <2>1, <2>2, OrderKeeps
  <2>8. ASSUME NEW n \in due', n \in Accepted PROVE n \in Accepted'
    BY <1>1, <1>2, <1>9, <2>2, <2>3, <2>8 DEF Accepted
  <2>9. \A n : Recorded(n) => Recorded(n)'
    BY <1>3, <2>1 DEF Recorded
  <2>10. \A n \in due' : n \in due
    BY <1>1
  <2>11. DrainInv'
    BY <1>2, <1>9, <2>8, <2>9, <2>10, DrainGoesOn
  <2> QED
    BY <1>1, <1>2, <1>3, <2>4, <2>5, <2>6, <2>7, <2>10, <2>11, FromWorkers
       DEF Inv, AuditInv, DamageTyped
<1> QED
  BY <1>3, <1>8, <1>9

\* The handlers that w has yet to run become fewer, in a step that keeps memory
\* and what is due.
LEMMA TodoShrinks ==
  ASSUME Inv, NEW w \in Workers, NEW failed \in BOOLEAN, Bus!HandlerEnds(w, failed)
  PROVE  /\ BusInv' /\ w \in Bus!Busy /\ worker[w].item \in Bus!Items
         /\ UNCHANGED <<queue, waiting, next_number>>
         /\ \A v \in Workers \ {w} : worker'[v] = worker[v]
         /\ \A v \in Bus!Busy' :
              /\ v \in Bus!Busy /\ worker'[v].item = worker[v].item
              /\ Contains(worker'[v].todo, Audit) => Contains(worker[v].todo, Audit)
         /\ UNCHANGED stop_call \/ Bus!TaskDone
         /\ failures \subseteq failures'
         /\ failed => <<worker[w].item.number, Head(worker[w].todo)>> \in failures'
         /\ worker[w].todo \in HandlerOrders \ {<<>>}
<1>1. /\ BusInv' /\ w \in Bus!Busy
      /\ UNCHANGED <<queue, waiting, next_number>>
      /\ \A v \in Workers \ {w} : worker'[v] = worker[v]
      /\ w \notin Bus!Busy' => Bus!Busy' = Bus!Busy \ {w}
      /\ w \in Bus!Busy' => /\ Bus!Busy' = Bus!Busy
                            /\ worker'[w].item = worker[w].item
                            /\ worker'[w].todo = Tail(worker[w].todo)
  BY HandlerEndsInv DEF Inv
<1>2. worker[w].todo \in HandlerOrders \ {<<>>} /\ worker[w].item \in Bus!Items
  BY <1>1, WorkerIs DEF Inv, BusInv, HandlerOrders
<1>3. Contains(Tail(worker[w].todo), Audit) => Contains(worker[w].todo, Audit)
  <2>1. worker[w].todo \in Seq({Observer, Audit}) /\ worker[w].todo # <<>>
    BY <1>2 DEF HandlerOrders
  <2>2. \A i \in 1 .. Len(Tail(worker[w].todo)) :
          /\ i + 1 \in 1 .. Len(worker[w].todo)
          /\ Tail(worker[w].todo)[i] = worker[w].todo[i + 1]
    BY <2>1, TailIsRest
  <2> QED
    BY <2>2 DEF Contains
<1>4. \A v \in Bus!Busy' : v \in Workers
  BY DEF Bus!Busy
<1>5. \A v \in Bus!Busy' :
        /\ v \in Bus!Busy /\ worker'[v].item = worker[v].item
        /\ Contains(worker'[v].todo, Audit) => Contains(worker[v].todo, Audit)
  BY <1>1, <1>3, <1>4
<1>6. /\ UNCHANGED stop_call \/ Bus!TaskDone
      /\ failures' = IF failed
                     THEN failures \cup {<<worker[w].item.number, Head(worker[w].todo)>>}
                     ELSE failures
  BY DEF Bus!HandlerEnds
<1> QED
  BY <1>1, <1>2, <1>5, <1>6

LEMMA ObserverEndsInv ==
  ASSUME Inv, NEW w \in Workers, ObserverEnds(w)
  PROVE  Inv'
<1>1. PICK failed \in BOOLEAN :
        /\ Bus!HandlerEnds(w, failed)
        /\ IF failed THEN Incident ELSE UNCHANGED incidents
        /\ BridgeBegins(w, Bus!Remaining(worker[w].todo, failed), worker[w].item)
  BY DEF ObserverEnds
<1>2. /\ Running(w, Observer) /\ UNCHANGED manager
      /\ UNCHANGED <<announced, cut_short, damaged, due>>
  BY DEF ObserverEnds, history
<1> DEFINE item == worker[w].item
           rest == Tail(worker[w].todo)
<1>3. /\ BusInv' /\ w \in Bus!Busy /\ item \in Bus!Items
      /\ UNCHANGED <<queue, waiting, next_number>>
      /\ \A v \in Workers \ {w} : worker'[v] = worker[v]
      /\ \A v \in Bus!Busy' :
           /\ v \in Bus!Busy /\ worker'[v].item = worker[v].item
           /\ Contains(worker'[v].todo, Audit) => Contains(worker[v].todo, Audit)
      /\ UNCHANGED stop_call \/ Bus!TaskDone
      /\ failures \subseteq failures'
      /\ worker[w].todo \in HandlerOrders \ {<<>>}
  BY <1>1, TodoShrinks
<1>4. /\ w \notin Bus!Busy' => Bus!Busy' = Bus!Busy \ {w} /\ rest = <<>>
      /\ w \in Bus!Busy' => /\ Bus!Busy' = Bus!Busy
                            /\ worker'[w].item = item /\ worker'[w].todo = rest
  BY <1>1, HandlerEndsInv DEF Inv
<1>5. Head(worker[w].todo) = Observer /\ Observer # Audit
  BY <1>2 DEF Running, Observer, Audit
<1>6. ~Running(w, Audit)
  BY <1>5 DEF Running
<1>7. Contains(worker[w].todo, Audit) => Contains(rest, Audit)
  BY <1>3, <1>5, TailOfOrder
<1>8. IF rest # <<>> /\ Head(rest) = Audit THEN Log!BeginAppend(w, item)
      ELSE UNCHANGED audit
  BY <1>1 DEF BridgeBegins, Bus!Remaining
<1> HIDE DEF item, rest
<1>9. \/ UNCHANGED audit
      \/ /\ Running(w, Audit)' /\ worker'[w].item \in Bus!Items
         /\ Log!BeginAppend(w, worker'[w].item)
  BY <1>3, <1>4, <1>8 DEF Running, item
<1>10. UNCHANGED incidents \/ Incident
  BY <1>1
<1>11. /\ AppendsMatch' /\ UNCHANGED memory
       /\ \A k \in 1 .. Len(appends') :
            appends'[k].by = Clerk => k \in 1 .. Len(appends) /\ appends'[k] = appends[k]
  BY <1>3, <1>6, <1>9, <1>10, BridgeMatches
<1>12. MemoryNumbered'
  BY <1>3, <1>10, <1>11, MemoryStays
<1>13. LogInv'
  <2>1. item \in Logged
    BY <1>3 DEF Logged, item
  <2> QED
    BY <1>2, <1>8, <2>1, UnchangedLog, BeginAppendInv DEF Inv
<1>14. OneWorkersOrder'
  BY <1>3, <1>11, OrderKeeps
<1>15. ASSUME NEW n \in due', n \in Accepted PROVE n \in Accepted'
  <2>1. \A v \in Bus!Busy :
          Contains(worker[v].todo, Audit)
            => /\ v \in Bus!Busy' /\ worker'[v].item = worker[v].item
               /\ Contains(worker'[v].todo, Audit)
    <3> SUFFICES ASSUME NEW v \in Bus!Busy, Contains(worker[v].todo, Audit)
                 PROVE  /\ v \in Bus!Busy' /\ worker'[v].item = worker[v].item
                        /\ Contains(worker'[v].todo, Audit)
      OBVIOUS
    <3>1. CASE v = w
      <4>1. rest # <<>>
        BY <1>7, <3>1 DEF Contains
      <4> QED
        BY <1>4, <1>7, <3>1, <4>1 DEF item
    <3>2. CASE v # w
      <4>1. v \in Workers
        BY DEF Bus!Busy
      <4> QED
        BY <1>3, <1>4, <3>2, <4>1
    <3> QED
      BY <3>1, <3>2
  <2> QED
    BY <1>3, <1>15, <2>1 DEF Accepted
<1>16. \A n : Recorded(n) => Recorded(n)'
  BY <1>3, <1>11 DEF Recorded
<1>17. DrainInv'
  BY <1>2, <1>3, <1>15, <1>16, DrainGoesOn
<1> QED
  BY <1>2, <1>3, <1>10, <1>11, <1>12, <1>13, <1>14, <1>17, FromWorkers
     DEF Inv, AuditInv, DamageTyped

\* A call of append() ends, and was its caller's only one.
LEMMA UnlockLeaves ==
  ASSUME Inv, NEW a, Log!Accept(a) \/ Log!Raise(a)
  PROVE  /\ 1 \in 1 .. Len(appends) /\ appends[1].by = a
         /\ thread.line.event = appends[1].event
         /\ \A k \in 1 .. Len(appends') :
              /\ appends'[k].by # a
              /\ \E l \in 1 .. Len(appends) : appends'[k] = appends[l]
         /\ \A k, l \in 1 .. Len(appends') : appends'[k].by = appends'[l].by => k = l
<1>1. /\ thread # Log!NoThread /\ Head(appends).by = a /\ Log!Unlock
  BY DEF Log!Accept, Log!Raise, Log!NoThread
<1>2. /\ appends # <<>> /\ appends \in Seq(Appending)
      /\ thread.line = Log!Entry(appends[1].event)
  BY <1>1 DEF Inv, LogInv, LogTyped, HeadIsWritten
<1>3. /\ Len(appends) \in Nat \ {0} /\ Head(appends) = appends[1]
      /\ Len(Tail(appends)) = Len(appends) - 1
      /\ \A i \in 1 .. Len(Tail(appends)) : Tail(appends)[i] = appends[i + 1]
      /\ appends' = Tail(appends)
  BY <1>1, <1>2, TailIsRest DEF Log!Unlock
<1>4. /\ 1 \in 1 .. Len(appends)
      /\ \A k \in 1 .. Len(appends') : k + 1 \in 1 .. Len(appends) /\ k + 1 # 1
  BY <1>3
<1>5. \A i, j \in 1 .. Len(appends) : appends[i].by = appends[j].by => i = j
  BY DEF Inv, AuditInv, AppendsMatch
<1>6. ASSUME NEW k \in 1 .. Len(appends')
      PROVE  /\ appends'[k].by # a
             /\ \E l \in 1 .. Len(appends) : appends'[k] = appends[l]
  BY <1>1, <1>3, <1>4, <1>5
<1>7. ASSUME NEW k \in 1 .. Len(appends'), NEW l \in 1 .. Len(appends'),
             appends'[k].by = appends'[l].by
      PROVE  k = l
  <2>1. k + 1 = l + 1
    BY <1>3, <1>4, <1>5, <1>7
  <2> QED
    BY <2>1
<1>8. thread.line.event = appends[1].event
  BY <1>2 DEF Log!Entry
<1> QED
  BY <1>1, <1>3, <1>4, <1>6, <1>7, <1>8

LEMMA UnlockMatches ==
  ASSUME Inv, NEW a, Log!Accept(a) \/ Log!Raise(a), UNCHANGED incidents,
         \A v \in Workers : v # a => worker'[v] = worker[v]
  PROVE  AppendsMatch'
<1>1. /\ \A k \in 1 .. Len(appends') :
           /\ appends'[k].by # a
           /\ \E l \in 1 .. Len(appends) : appends'[k] = appends[l]
      /\ \A k, l \in 1 .. Len(appends') : appends'[k].by = appends'[l].by => k = l
  BY UnlockLeaves
<1>2. \A k \in 1 .. Len(appends') :
        appends'[k].by = Clerk => appends'[k].event.number \in -(incidents' + 1) .. -1
  BY <1>1 DEF Inv, AuditInv, AppendsMatch
<1>3. ASSUME NEW k \in 1 .. Len(appends'), NEW v \in Workers, appends'[k].by = v
      PROVE  Running(v, Audit)' /\ appends'[k].event = worker'[v].item
  <2>1. worker'[v] = worker[v]
    BY <1>1, <1>3
  <2>2. Running(v, Audit) /\ appends'[k].event = worker[v].item
    BY <1>1, <1>3 DEF Inv, AuditInv, AppendsMatch
  <2> QED
    BY <2>1, <2>2 DEF Running, Bus!Busy
<1> QED
  BY <1>1, <1>2, <1>3 DEF AppendsMatch

\* Memory has one more entry.
LEMMA MemoryGrows ==
  ASSUME Inv, NEW a, Log!Accept(a)
  PROVE  /\ Len(memory) \in Nat /\ Len(memory') = Len(memory) + 1
         /\ \A i \in 1 .. Len(memory) : i \in 1 .. Len(memory') /\ memory'[i] = memory[i]
         /\ memory'[Len(memory) + 1].event = appends[1].event
         /\ Len(memory) + 1 \in 1 .. Len(memory')
         /\ \A i \in 1 .. Len(memory') :
              i \in 1 .. Len(memory) \/ i = Len(memory) + 1
<1>1. thread.pc = "written" /\ memory' = Append(memory, thread.line)
  BY DEF Log!Accept
<1>2. thread.line \in AnEntry /\ memory \in Seq(AnEntry)
  BY <1>1 DEF Inv, LogInv, LogTyped, Log!NoThread
<1>3. /\ Len(memory) \in Nat /\ Len(memory') = Len(memory) + 1
      /\ \A i \in 1 .. Len(memory) : memory'[i] = memory[i]
      /\ memory'[Len(memory) + 1] = thread.line
  BY <1>1, <1>2, AppendIsLast
<1>4. thread.line.event = appends[1].event
  BY UnlockLeaves
<1> QED
  BY <1>3, <1>4

LEMMA BridgeAppendedInv ==
  ASSUME Inv, NEW w \in Workers, BridgeAppended(w)
  PROVE  Inv'
<1>1. /\ Running(w, Audit) /\ Log!Accept(w) /\ Bus!HandlerEnds(w, FALSE)
      /\ UNCHANGED manager /\ UNCHANGED <<announced, cut_short, damaged, due>>
      /\ UNCHANGED incidents
  BY DEF BridgeAppended, history
<1> DEFINE item == worker[w].item
           last == Len(memory) + 1
<1>2. /\ BusInv' /\ w \in Bus!Busy /\ item \in Bus!Items
      /\ UNCHANGED <<queue, waiting, next_number>>
      /\ \A v \in Workers \ {w} : worker'[v] = worker[v]
      /\ \A v \in Bus!Busy' :
           /\ v \in Bus!Busy /\ worker'[v].item = worker[v].item
           /\ Contains(worker'[v].todo, Audit) => Contains(worker[v].todo, Audit)
      /\ UNCHANGED stop_call \/ Bus!TaskDone
      /\ failures \subseteq failures'
      /\ worker[w].todo \in HandlerOrders \ {<<>>}
  BY <1>1, TodoShrinks
<1>3. /\ w \notin Bus!Busy' => Bus!Busy' = Bus!Busy \ {w}
      /\ w \in Bus!Busy' => /\ Bus!Busy' = Bus!Busy
                            /\ worker'[w].todo = Tail(worker[w].todo)
  BY <1>1, HandlerEndsInv DEF Inv
<1>4. ~Contains(Tail(worker[w].todo), Audit) /\ Contains(worker[w].todo, Audit)
  <2>1. Head(worker[w].todo) = Audit
    BY <1>1 DEF Running
  <2>2. /\ \A i \in 1 .. Len(Tail(worker[w].todo)) : Tail(worker[w].todo)[i] # Audit
        /\ worker[w].todo[1] = Audit
    BY <1>2, <2>1, TailOfOrder
  <2>3. 1 \in 1 .. Len(worker[w].todo)
    BY <1>2 DEF HandlerOrders
  <2> QED
    BY <2>2, <2>3 DEF Contains
<1>5. LogInv'
  BY <1>1, AcceptInv DEF Inv
<1>6. AppendsMatch'
  BY <1>1, <1>2, UnlockMatches
<1>7. /\ Len(memory) \in Nat /\ Len(memory') = last
      /\ \A i \in 1 .. Len(memory) : i \in 1 .. Len(memory') /\ memory'[i] = memory[i]
      /\ memory'[last].event = item /\ last \in 1 .. Len(memory')
      /\ \A i \in 1 .. Len(memory') : i \in 1 .. Len(memory) \/ i = last
  <2>1. /\ 1 \in 1 .. Len(appends) /\ appends[1].by = w
    BY <1>1, UnlockLeaves
  <2>2. appends[1].event = item
    BY <2>1 DEF Inv, AuditInv, AppendsMatch
  <2> QED
    BY <1>1, <2>2, MemoryGrows
<1>8. item.number \in Nat /\ item.number < next_number /\ next_number \in Nat
  BY <1>2, ItemIs DEF Inv, BusInv, Numbered, BusTyped
<1>9. /\ \A k \in 1 .. Len(appends') :
           appends'[k].by = Clerk
             => \E l \in 1 .. Len(appends) : appends'[k] = appends[l]
      /\ \A k \in 1 .. Len(appends') :
           appends'[k].by = Clerk => appends'[k].event.number \in -(incidents' + 1) .. -1
  BY <1>1, <1>6, UnlockLeaves DEF AppendsMatch
<1> HIDE DEF item, last
<1>10. MemoryNumbered'
  <2>1. incidents \in Nat
    BY <1>1, IncidentsCount DEF Inv, AuditInv
  <2>2. \A i \in 1 .. Len(memory') :
          memory'[i].event.number \in -(incidents' + 1) .. next_number' - 1
    <3>1. item.number \in -(incidents + 1) .. next_number - 1
      BY <1>8, <2>1
    <3>2. \A i \in 1 .. Len(memory) :
            memory'[i].event.number \in -(incidents + 1) .. next_number - 1
      BY <1>7 DEF Inv, AuditInv, MemoryNumbered
    <3>3. incidents' = incidents /\ next_number' = next_number
      BY <1>1, <1>2
    <3> QED
      BY <1>7, <3>1, <3>2, <3>3
  <2>3. \A i \in 1 .. Len(memory'), k \in 1 .. Len(appends') :
          appends'[k].by = Clerk => memory'[i].event.number > appends'[k].event.number
    <3> SUFFICES ASSUME NEW i \in 1 .. Len(memory'), NEW k \in 1 .. Len(appends'),
                        appends'[k].by = Clerk
                 PROVE  memory'[i].event.number > appends'[k].event.number
      OBVIOUS
    <3>1. CASE i \in 1 .. Len(memory)
      BY <1>7, <1>9, <3>1 DEF Inv, AuditInv, MemoryNumbered
    <3>2. CASE i = last
      <4>1. appends'[k].event.number \in -(incidents + 1) .. -1
        BY <1>1, <1>9
      <4> QED
        BY <1>7, <1>8, <2>1, <3>2, <4>1
    <3> QED
      BY <1>7, <3>1, <3>2
  <2>4. \A i, j \in 1 .. Len(memory') :
          i < j /\ memory'[i].event.number < 0 /\ memory'[j].event.number < 0
            => memory'[i].event.number > memory'[j].event.number
    <3>1. \A i \in 1 .. Len(memory') :
            memory'[i].event.number < 0 => i \in 1 .. Len(memory)
      BY <1>7, <1>8
    <3> QED
      BY <1>7, <3>1 DEF Inv, AuditInv, MemoryNumbered
  <2> QED
    BY <2>2, <2>3, <2>4 DEF MemoryNumbered
<1>11. OneWorkersOrder'
  <2> SUFFICES ASSUME Cardinality(Workers) = 1 PROVE OneWorkersOrder'
    BY DEF OneWorkersOrder
  <2>1. \A v \in Workers : v = w
    <3>1. IsFiniteSet(Workers)
      BY EventsAssumption
    <3>2. \E x : Workers = {x}
      BY <3>1, FS_Singleton
    <3> QED
      BY <3>2
  <2>2. /\ \A i, j \in 1 .. Len(memory) : i < j => Ahead(memory[i].event, memory[j].event)
        /\ \A i \in 1 .. Len(memory) :
             /\ \A x \in queue : Ahead(memory[i].event, x)
             /\ \A p \in waiting : Ahead(memory[i].event, p.item)
             /\ Ahead(memory[i].event, item)
        /\ \A x \in queue : Ahead(item, x)
    BY <1>2, <1>4 DEF Inv, AuditInv, OneWorkersOrder, item
  <2>3. \A p \in waiting : Ahead(item, p.item)
    BY <1>2 DEF Inv, BusInv, OneWaits, Ahead, item
  <2>4. \A v \in Bus!Busy' : ~Contains(worker'[v].todo, Audit)
    <3>1. \A v \in Bus!Busy' : v = w
      BY <2>1 DEF Bus!Busy
    <3> QED
      BY <1>3, <1>4, <3>1
  <2>5. \A i, j \in 1 .. Len(memory') :
          i < j => Ahead(memory'[i].event, memory'[j].event)
    <3> SUFFICES ASSUME NEW i \in 1 .. Len(memory'), NEW j \in 1 .. Len(memory'), i < j
                 PROVE  Ahead(memory'[i].event, memory'[j].event)
      OBVIOUS
    <3>1. i \in 1 .. Len(memory)
      BY <1>7
    <3> QED
      BY <1>7, <2>2, <3>1
  <2>6. \A i \in 1 .. Len(memory') :
          /\ \A x \in queue' : Ahead(memory'[i].event, x)
          /\ \A p \in waiting' : Ahead(memory'[i].event, p.item)
    BY <1>2, <1>7, <2>2, <2>3
  <2>7. \A v \in Bus!Busy', x \in queue' : Ahead(worker'[v].item, x)
    BY <1>2, <2>1, <2>2 DEF item, Bus!Busy
  <2> QED
    BY <2>4, <2>5, <2>6, <2>7 DEF OneWorkersOrder
<1>12. \A n : Recorded(n) => Recorded(n)'
  BY <1>2, <1>7, RecordedStays
<1>13. ASSUME NEW n \in due', n \in Accepted PROVE Recorded(n)' \/ n \in Accepted'
  <2>1. CASE n = item.number
    BY <1>7, <2>1 DEF Recorded
  <2>2. CASE \E i \in queue : n = i.number
    BY <1>2, <2>2 DEF Accepted
  <2>3. CASE \E v \in Bus!Busy \ {w} : n = worker[v].item.number
                                       /\ Contains(worker[v].todo, Audit)
    <3>1. PICK v \in Bus!Busy \ {w} : n = worker[v].item.number
                                      /\ Contains(worker[v].todo, Audit)
      BY <2>3
    <3>2. v \in Bus!Busy' /\ worker'[v] = worker[v]
      BY <1>2, <1>3 DEF Bus!Busy
    <3> QED
      BY <3>1, <3>2 DEF Accepted
  <2> QED
    BY <1>13, <2>1, <2>2, <2>3 DEF Accepted, item
<1>14. DrainInv'
  BY <1>1, <1>2, <1>12, <1>13, DrainGoesOn
<1> QED
  BY <1>1, <1>2, <1>5, <1>6, <1>10, <1>11, <1>14, FromWorkers
     DEF Inv, AuditInv, DamageTyped

LEMMA BridgeFailedInv ==
  ASSUME Inv, NEW w \in Workers, BridgeFailed(w)
  PROVE  Inv'
<1>1. /\ Running(w, Audit) /\ Log!Raise(w) /\ Bus!HandlerEnds(w, TRUE)
      /\ UNCHANGED manager /\ UNCHANGED <<announced, cut_short, damaged, due>>
      /\ UNCHANGED incidents
  BY DEF BridgeFailed, history
<1>2. /\ BusInv' /\ w \in Bus!Busy
      /\ UNCHANGED <<queue, waiting, next_number>>
      /\ \A v \in Workers \ {w} : worker'[v] = worker[v]
      /\ \A v \in Bus!Busy' :
           /\ v \in Bus!Busy /\ worker'[v].item = worker[v].item
           /\ Contains(worker'[v].todo, Audit) => Contains(worker[v].todo, Audit)
      /\ UNCHANGED stop_call \/ Bus!TaskDone
      /\ failures \subseteq failures'
      /\ <<worker[w].item.number, Head(worker[w].todo)>> \in failures'
  BY <1>1, TodoShrinks
<1>3. /\ w \notin Bus!Busy' => Bus!Busy' = Bus!Busy \ {w}
      /\ w \in Bus!Busy' => Bus!Busy' = Bus!Busy
  BY <1>1, HandlerEndsInv DEF Inv
<1>4. Head(worker[w].todo) = Audit
  BY <1>1 DEF Running
<1>5. UNCHANGED memory
  BY <1>1 DEF Log!Raise, Log!AcceptedAfterFailure
<1>6. LogInv'
  BY <1>1, RaiseInv DEF Inv
<1>7. AppendsMatch'
  BY <1>1, <1>2, UnlockMatches
<1>8. MemoryNumbered'
  <2>1. \A k \in 1 .. Len(appends') :
          \E l \in 1 .. Len(appends) : appends'[k] = appends[l]
    BY <1>1, UnlockLeaves
  <2> QED
    BY <1>1, <1>2, <1>5, <2>1, MemoryStays
<1>9. OneWorkersOrder'
  BY <1>2, <1>5, OrderKeeps
<1>10. \A n : Recorded(n) => Recorded(n)'
  BY <1>2, <1>5 DEF Recorded
<1>11. ASSUME NEW n \in due', n \in Accepted PROVE Recorded(n)' \/ n \in Accepted'
  <2>1. CASE n = worker[w].item.number
    BY <1>2, <1>4, <2>1 DEF Recorded
  <2>2. CASE \E i \in queue : n = i.number
    BY <1>2, <2>2 DEF Accepted
  <2>3. CASE \E v \in Bus!Busy \ {w} : n = worker[v].item.number
                                       /\ Contains(worker[v].todo, Audit)
    <3>1. PICK v \in Bus!Busy \ {w} : n = worker[v].item.number
                                      /\ Contains(worker[v].todo, Audit)
      BY <2>3
    <3>2. v \in Bus!Busy' /\ worker'[v] = worker[v]
      BY <1>2, <1>3 DEF Bus!Busy
    <3> QED
      BY <3>1, <3>2 DEF Accepted
  <2> QED
    BY <1>11, <2>1, <2>2, <2>3 DEF Accepted
<1>12. DrainInv'
  BY <1>1, <1>2, <1>10, <1>11, DrainGoesOn
<1> QED
  BY <1>1, <1>2, <1>6, <1>7, <1>8, <1>9, <1>12, FromWorkers
     DEF Inv, AuditInv, DamageTyped

\* The clerk's entry is below all that were accepted before.
LEMMA ClerkAppendsInv ==
  ASSUME Inv, ClerkAppends
  PROVE  Inv'
<1> DEFINE event == Direct(incidents + 2)
           last == Len(appends) + 1
<1>1. /\ \A i \in 1 .. Len(appends) : appends[i].by # Clerk
      /\ Incident /\ Log!BeginAppend(Clerk, event)
      /\ UNCHANGED bus /\ UNCHANGED manager /\ UNCHANGED history
  BY DEF ClerkAppends
<1>2. incidents \in Nat /\ incidents' = incidents + 1 /\ incidents + 2 <= MaxIncidents + 1
  <2>1. MaxIncidents \in Nat
    BY EventsAssumption
  <2> QED
    BY <1>1, <2>1 DEF Incident, Inv, AuditInv, HistoryTyped
<1>3. event \in Logged /\ event.number = -(incidents + 2)
  <2>1. MaxIncidents \in Nat
    BY EventsAssumption
  <2>2. incidents + 2 \in 1 .. MaxIncidents + 1
    BY <1>2, <2>1
  <2> QED
    BY <2>2 DEF Logged, Direct
<1> HIDE DEF event
<1>4. /\ UNCHANGED <<running, subscribed, queue, unfinished, waiting, next_number, worker,
                     failures, stop_call>>
      /\ UNCHANGED <<announced, cut_short, damaged, due>>
  BY <1>1 DEF bus, history
<1>5. BusInv' /\ Intake
  BY <1>1, UnchangedBus DEF Inv
<1>6. LogInv'
  BY <1>1, <1>3, <1>4, BeginAppendInv DEF Inv
<1>7. LockInv' /\ AnnounceInv'
  BY <1>1, <1>4, UnchangedManager DEF Inv
<1>8. /\ UNCHANGED memory
      /\ Len(appends) \in Nat /\ Len(appends') = last
      /\ \A i \in 1 .. Len(appends) : appends'[i] = appends[i]
      /\ appends'[last].by = Clerk /\ appends'[last].event = event
      /\ \A i \in 1 .. Len(appends') : i \in 1 .. Len(appends) \/ i = last
  BY <1>1, <1>3, AppendsGrow DEF Inv, LogInv
<1> HIDE DEF last
<1>9. AppendsMatch'
  <2>1. \A i, j \in 1 .. Len(appends') : appends'[i].by = appends'[j].by => i = j
    BY <1>1, <1>8 DEF Inv, AuditInv, AppendsMatch
  <2>2. \A i \in 1 .. Len(appends') :
          appends'[i].by = Clerk => appends'[i].event.number \in -(incidents' + 1) .. -1
    <3>1. event.number \in -(incidents' + 1) .. -1
      BY <1>2, <1>3
    <3> QED
      BY <1>1, <1>8, <3>1
  <2>3. ASSUME NEW i \in 1 .. Len(appends'), NEW v \in Workers, appends'[i].by = v
        PROVE  Running(v, Audit)' /\ appends'[i].event = worker'[v].item
    <3>1. i \in 1 .. Len(appends)
      BY <1>8, <2>3, EventsAssumption
    <3>2. Running(v, Audit) /\ appends'[i].event = worker[v].item
      BY <1>8, <2>3, <3>1 DEF Inv, AuditInv, AppendsMatch
    <3> QED
      BY <1>4, <3>2 DEF Running, Bus!Busy
  <2> QED
    BY <2>1, <2>2, <2>3 DEF AppendsMatch
<1>10. MemoryNumbered'
  <2>1. \A i \in 1 .. Len(memory) :
          /\ memory[i].event.number \in Int
          /\ memory[i].event.number \in -(incidents + 1) .. next_number - 1
    BY NumbersOfLog DEF Inv, LogInv, AuditInv, MemoryNumbered
  <2>2. next_number \in Nat
    BY NumbersOfBus DEF Inv, BusInv
  <2>3. \A i \in 1 .. Len(memory) :
          /\ memory[i].event.number \in -(incidents' + 1) .. next_number - 1
          /\ memory[i].event.number > event.number
    BY <1>2, <1>3, <2>1, <2>2
  <2>4. \A i \in 1 .. Len(memory), k \in 1 .. Len(appends') :
          appends'[k].by = Clerk => memory[i].event.number > appends'[k].event.number
    BY <1>1, <1>8, <2>3
  <2> QED
    BY <1>4, <1>8, <2>3, <2>4 DEF Inv, AuditInv, MemoryNumbered
<1>11. Bus!Busy' = Bus!Busy
  BY <1>4 DEF Bus!Busy
<1>12. OneWorkersOrder'
  BY <1>4, <1>8, <1>11, OrderKeeps
<1>13. DrainInv' /\ due' \subseteq 0 .. next_number' - 1
  BY <1>4, <1>5, <1>8, IntakeKeepsDrain
<1>14. DamageTyped' /\ HistoryTyped'
  <2>1. DamageTyped'
    BY <1>4 DEF Inv, AuditInv, DamageTyped
  <2>2. MaxIncidents \in Nat
    BY EventsAssumption
  <2>3. incidents' \in 0 .. MaxIncidents
    BY <1>2, <2>2
  <2> QED
    BY <1>13, <2>1, <2>3 DEF HistoryTyped
<1> QED
  BY <1>5, <1>6, <1>7, <1>9, <1>10, <1>12, <1>13, <1>14 DEF Inv, AuditInv

\* The bus goes on when only the log or the history change.
LEMMA BusStays ==
  ASSUME Inv, UNCHANGED bus
  PROVE  /\ BusInv' /\ Bus!Busy' = Bus!Busy /\ Accepted' = Accepted
         /\ UNCHANGED <<queue, waiting, next_number, worker, failures, stop_call>>
         /\ \A w \in Workers : Running(w, Audit)' <=> Running(w, Audit)
<1>1. UNCHANGED <<running, subscribed, queue, unfinished, waiting, next_number, worker,
                  failures, stop_call>>
  BY DEF bus
<1>2. BusInv'
  BY UnchangedBus DEF Inv
<1>3. Bus!Busy' = Bus!Busy
  BY <1>1 DEF Bus!Busy
<1> QED
  BY <1>1, <1>2, <1>3 DEF Accepted, Running

LEMMA ClerkResumesInv ==
  ASSUME Inv, ClerkResumes
  PROVE  Inv'
<1>1. /\ Log!Accept(Clerk) \/ Log!Raise(Clerk)
      /\ UNCHANGED bus /\ UNCHANGED manager
      /\ UNCHANGED <<announced, cut_short, damaged, due>> /\ UNCHANGED incidents
  BY DEF ClerkResumes, history
<1>2. /\ BusInv' /\ Bus!Busy' = Bus!Busy /\ Accepted' = Accepted
      /\ UNCHANGED <<queue, waiting, next_number, worker, failures, stop_call>>
  BY <1>1, BusStays
<1>3. LogInv'
  BY <1>1, AcceptInv, RaiseInv DEF Inv
<1>4. AppendsMatch'
  BY <1>1, <1>2, UnlockMatches
<1>5. /\ 1 \in 1 .. Len(appends) /\ appends[1].by = Clerk
      /\ \A k \in 1 .. Len(appends') : appends'[k].by # Clerk
  BY <1>1, UnlockLeaves
<1>6. CASE Log!Raise(Clerk)
  <2>1. UNCHANGED memory
    BY <1>6 DEF Log!Raise, Log!AcceptedAfterFailure
  <2>2. MemoryNumbered'
    BY <1>1, <1>2, <1>5, <2>1, MemoryStays
  <2>3. OneWorkersOrder'
    BY <1>2, <2>1, OrderKeeps
  <2>4. \A n : Recorded(n) => Recorded(n)'
    BY <1>2, <2>1 DEF Recorded
  <2>5. DrainInv'
    BY <1>1, <1>2, <2>4, DrainGoesOn
  <2> QED
    BY <1>1, <1>2, <1>3, <1>4, <2>2, <2>3, <2>5, FromWorkers
       DEF Inv, AuditInv, DamageTyped
<1>7. CASE Log!Accept(Clerk)
  <2> DEFINE entry == appends[1].event
             last == Len(memory) + 1
  <2>1. /\ Len(memory) \in Nat /\ Len(memory') = last
        /\ \A i \in 1 .. Len(memory) : i \in 1 .. Len(memory') /\ memory'[i] = memory[i]
        /\ memory'[last].event = entry /\ last \in 1 .. Len(memory')
        /\ \A i \in 1 .. Len(memory') : i \in 1 .. Len(memory) \/ i = last
    BY <1>7, MemoryGrows
  <2>2. entry.number \in -(incidents + 1) .. -1
    BY <1>5 DEF Inv, AuditInv, AppendsMatch
  <2>3. \A i \in 1 .. Len(memory) :
          /\ memory[i].event.number > entry.number
          /\ memory[i].event.number \in -(incidents + 1) .. next_number - 1
    BY <1>5 DEF Inv, AuditInv, MemoryNumbered
  <2>4. /\ next_number \in Nat /\ incidents \in Nat
        /\ UNCHANGED <<incidents, next_number>>
    BY <1>1, <1>2, NumbersOfBus, IncidentsCount DEF Inv, BusInv, AuditInv
  <2> HIDE DEF entry, last
  <2>5. MemoryNumbered'
    <3>1. entry.number \in -(incidents + 1) .. next_number - 1
      BY <2>2, <2>4
    <3>2. \A i \in 1 .. Len(memory') :
            memory'[i].event.number \in -(incidents' + 1) .. next_number' - 1
      BY <2>1, <2>3, <2>4, <3>1
    <3>3. ASSUME NEW i \in 1 .. Len(memory'), NEW j \in 1 .. Len(memory'), i < j,
                 memory'[i].event.number < 0, memory'[j].event.number < 0
          PROVE  memory'[i].event.number > memory'[j].event.number
      <4>1. i \in 1 .. Len(memory)
        BY <2>1, <3>3
      <4>2. CASE j \in 1 .. Len(memory)
        BY <2>1, <3>3, <4>1, <4>2 DEF Inv, AuditInv, MemoryNumbered
      <4>3. CASE j = last
        BY <2>1, <2>3, <4>1, <4>3
      <4> QED
        BY <2>1, <4>2, <4>3
    <3> QED
      BY <1>5, <3>2, <3>3 DEF MemoryNumbered
  <2>6. OneWorkersOrder'
    <3> SUFFICES ASSUME Cardinality(Workers) = 1 PROVE OneWorkersOrder'
      BY DEF OneWorkersOrder
    <3>1. \A x : Ahead(entry, x) /\ Ahead(x, entry)
      <4>1. entry.number \in Int /\ ~(entry.number >= 0)
        BY <2>2, <2>4
      <4> QED
        BY <4>1 DEF Ahead
    <3>2. \A i, j \in 1 .. Len(memory') :
            i < j => Ahead(memory'[i].event, memory'[j].event)
      BY <2>1, <3>1 DEF Inv, AuditInv, OneWorkersOrder
    <3>3. \A i \in 1 .. Len(memory') :
            /\ \A x \in queue : Ahead(memory'[i].event, x)
            /\ \A p \in waiting : Ahead(memory'[i].event, p.item)
            /\ \A w \in Bus!Busy :
                 Contains(worker[w].todo, Audit) => Ahead(memory'[i].event, worker[w].item)
      BY <2>1, <3>1 DEF Inv, AuditInv, OneWorkersOrder
    <3>4. \A w \in Bus!Busy, x \in queue : Ahead(worker[w].item, x)
      BY DEF Inv, AuditInv, OneWorkersOrder
    <3> QED
      BY <1>2, <3>2, <3>3, <3>4 DEF OneWorkersOrder
  <2>7. \A n : Recorded(n) => Recorded(n)'
    BY <1>2, <2>1, RecordedStays
  <2>8. DrainInv'
    BY <1>1, <1>2, <2>7, DrainGoesOn
  <2> QED
    BY <1>1, <1>2, <1>3, <1>4, <2>5, <2>6, <2>8, FromWorkers
       DEF Inv, AuditInv, DamageTyped
<1> QED
  BY <1>1, <1>6, <1>7

\* What the file, its threads and their calls do on their own.
LEMMA FromLog ==
  ASSUME Inv, LogInv', UNCHANGED <<memory, appends>>, UNCHANGED bus, UNCHANGED manager,
         UNCHANGED <<announced, cut_short, due>>, DamageTyped',
         UNCHANGED incidents \/ Incident
  PROVE  Inv'
<1>1. BusInv' /\ Intake /\ UNCHANGED <<queue, waiting, next_number, worker>>
  BY UnchangedBus, BusStays DEF Inv
<1>2. Counting
  BY IncidentsCount DEF Inv, AuditInv
<1>3. AppendsMatch' /\ MemoryNumbered' /\ OneWorkersOrder'
  BY <1>1, <1>2, IntakeKeepsAudit
<1>4. DrainInv'
  BY <1>1, IntakeKeepsDrain
<1> QED
  BY <1>1, <1>3, <1>4, FromWorkers

LEMMA LogStepInv ==
  ASSUME Inv, LogStep
  PROVE  Inv'
<1>1. /\ Log!ObtainLock \/ Log!WriteLine
      /\ UNCHANGED bus /\ UNCHANGED manager /\ UNCHANGED incidents
      /\ UNCHANGED <<announced, cut_short, damaged, due>>
  BY DEF LogStep, history
<1>2. LogInv' /\ UNCHANGED <<memory, appends>>
  BY <1>1, LogObtainLockInv, WriteLineInv DEF Inv, Log!ObtainLock, Log!WriteLine
<1> QED
  BY <1>1, <1>2, FromLog DEF Inv, AuditInv, DamageTyped

LEMMA WriteFailsStep ==
  ASSUME Inv, WriteFails
  PROVE  Inv'
<1>1. /\ Log!WriteFails /\ Incident
      /\ damaged' = IF file' = file THEN damaged ELSE damaged \cup {"failed"}
      /\ UNCHANGED bus /\ UNCHANGED manager /\ UNCHANGED <<announced, cut_short, due>>
  BY DEF WriteFails
<1>2. LogInv' /\ UNCHANGED <<memory, appends>>
  BY <1>1, WriteFailsInv DEF Inv, Log!WriteFails
<1>3. DamageTyped'
  BY <1>1 DEF Inv, AuditInv, DamageTyped
<1> QED
  BY <1>1, <1>2, <1>3, FromLog

LEMMA OrphanEndsStep ==
  ASSUME Inv, OrphanEnds
  PROVE  Inv'
<1>1. /\ \E line \in orphans : Log!OrphanEnds(line)
      /\ UNCHANGED bus /\ UNCHANGED manager /\ UNCHANGED incidents
      /\ UNCHANGED <<announced, cut_short, damaged, due>>
  BY DEF OrphanEnds, history
<1>2. LogInv' /\ UNCHANGED <<memory, appends>>
  BY <1>1, OrphanEndsInv DEF Inv, Log!OrphanEnds
<1> QED
  BY <1>1, <1>2, FromLog DEF Inv, AuditInv, DamageTyped

---------------------------------------------------------------------------
(* Starting and stopping.                                                  *)

LEMMA StartStep ==
  ASSUME Inv, Start
  PROVE  Inv'
<1>1. /\ Bus!Start /\ UNCHANGED manager /\ UNCHANGED audit /\ UNCHANGED incidents
      /\ UNCHANGED <<announced, cut_short, damaged, due>>
  BY DEF Start, history
<1>2. BusInv' /\ Bus!Busy = {} /\ Bus!Busy' = {}
  BY <1>1, StartInv DEF Inv
<1>3. /\ UNCHANGED <<memory, appends>>
      /\ UNCHANGED <<queue, waiting, next_number, failures, stop_call>>
  BY <1>1 DEF audit, Bus!Start
<1>4. LogInv'
  BY <1>1, UnchangedLog DEF Inv
<1>5. \A i \in 1 .. Len(appends) : appends[i].by \notin Workers
  BY <1>2 DEF Inv, AuditInv, AppendsMatch, Running
<1>6. AppendsMatch'
  BY <1>1, <1>3, <1>5 DEF Inv, AuditInv, AppendsMatch
<1>7. MemoryNumbered'
  BY <1>1, <1>3, MemoryStays
<1>8. OneWorkersOrder'
  BY <1>2, <1>3, OrderKeeps
<1>9. DrainInv'
  BY <1>1, <1>2, <1>3 DEF Inv, AuditInv, DrainInv, Recorded, Accepted
<1> QED
  BY <1>1, <1>2, <1>3, <1>4, <1>6, <1>7, <1>8, <1>9, FromWorkers
     DEF Inv, AuditInv, DamageTyped

\* The workers' appends go with them, and only the clerk's are left.
LEMMA CancelWorkersInv ==
  ASSUME Inv, Bus!Terminate, CancelWorkers, UNCHANGED incidents \/ Incident
  PROVE  Inv'
<1>1. /\ Log!Abort(CutLoose)
      /\ damaged' = IF appends # <<>> /\ Head(appends).by \in CutLoose
                    THEN damaged \cup {"cut short"} ELSE damaged
      /\ due' = {} /\ UNCHANGED manager /\ UNCHANGED <<announced, cut_short>>
  BY DEF CancelWorkers
<1>2. /\ BusInv' /\ stop_call' = "none" /\ Bus!Busy' = {}
      /\ UNCHANGED <<queue, waiting, next_number>>
  BY TerminateInv DEF Inv
<1>3. LogInv' /\ UNCHANGED memory
  BY <1>1, AbortInv DEF Inv, Log!Abort
<1>4. OrderKept(appends, appends', CutLoose)
  BY <1>1, AbortLeaves DEF Inv, LogInv
<1>5. PICK at \in [1 .. Len(appends') -> 1 .. Len(appends)] :
        /\ \A k \in 1 .. Len(appends') :
             appends'[k] = appends[at[k]] /\ appends[at[k]].by \notin CutLoose
        /\ \A k, l \in 1 .. Len(appends') : k # l => at[k] # at[l]
  BY <1>4 DEF OrderKept
<1>6. \A k \in 1 .. Len(appends') : at[k] \in 1 .. Len(appends)
  OBVIOUS
<1>7. AppendsMatch'
  <2>1. ASSUME NEW k \in 1 .. Len(appends'), NEW l \in 1 .. Len(appends'),
               appends'[k].by = appends'[l].by
        PROVE  k = l
    <3>1. /\ at[k] \in 1 .. Len(appends) /\ at[l] \in 1 .. Len(appends)
          /\ appends[at[k]].by = appends[at[l]].by
      BY <1>5, <1>6, <2>1
    <3>2. \A i, j \in 1 .. Len(appends) : appends[i].by = appends[j].by => i = j
      BY DEF Inv, AuditInv, AppendsMatch
    <3>3. at[k] = at[l]
      BY <3>1, <3>2
    <3> QED
      BY <1>5, <3>3
  <2>2. incidents' \in Nat /\ incidents \in Nat /\ incidents <= incidents'
    BY IncidentsCount DEF Counting, Inv, AuditInv
  <2>3. \A i \in 1 .. Len(appends) :
          appends[i].by = Clerk
            => /\ appends[i].event.number \in Int
               /\ appends[i].event.number \in -(incidents + 1) .. -1
    BY NumbersOfLog DEF Inv, LogInv, AuditInv, AppendsMatch
  <2>4. \A k \in 1 .. Len(appends') :
          appends'[k].by = Clerk => appends'[k].event.number \in -(incidents' + 1) .. -1
    <3>1. \A i \in 1 .. Len(appends) :
            appends[i].by = Clerk
              => appends[i].event.number \in -(incidents' + 1) .. -1
      BY <2>2, <2>3
    <3> QED
      BY <1>5, <1>6, <3>1
  <2>5. \A k \in 1 .. Len(appends') : appends'[k].by \notin Workers
    BY <1>5, <1>6 DEF CutLoose, Inv, AuditInv, AppendsMatch
  <2> QED
    BY <2>1, <2>4, <2>5 DEF AppendsMatch
<1>8. MemoryNumbered'
  <2>1. \A k \in 1 .. Len(appends') :
          \E l \in 1 .. Len(appends) : appends'[k] = appends[l]
    BY <1>5, <1>6
  <2> QED
    BY <1>2, <1>3, <2>1, MemoryStays
<1>9. OneWorkersOrder'
  BY <1>2, <1>3, OrderKeeps
<1>10. DrainInv'
  BY <1>2 DEF DrainInv
<1>11. DamageTyped'
  <2>1. damaged' \subseteq damaged \cup {"cut short"}
    BY <1>1
  <2> QED
    BY <2>1 DEF Inv, AuditInv, DamageTyped
<1> QED
  BY <1>1, <1>2, <1>3, <1>7, <1>8, <1>9, <1>10, <1>11, FromWorkers

\* All that is queued or dispatched to the bridge is still before it.
LEMMA StopJoinsStep ==
  ASSUME Inv, Incident, Bus!StopJoins, due' = Accepted, UNCHANGED <<manager, audit>>,
         UNCHANGED <<announced, cut_short, damaged>>
  PROVE  Inv'
<1>1. BusInv' /\ UNCHANGED worker /\ Bus!Busy' = Bus!Busy
  BY StopJoinsInv DEF Inv
<1>2. /\ stop_call' = "joining"
      /\ UNCHANGED <<running, subscribed, queue, unfinished, waiting, next_number, worker,
                     failures>>
  BY DEF Bus!StopJoins
<1>3. UNCHANGED <<memory, appends>>
  BY DEF audit
<1>4. LogInv'
  BY UnchangedLog DEF Inv
<1>5. LockInv' /\ AnnounceInv'
  BY <1>2, UnchangedManager DEF Inv
<1>6. incidents' \in Nat /\ incidents \in Nat /\ incidents <= incidents'
      /\ incidents' <= MaxIncidents
  BY IncidentsCount DEF Counting, Inv, AuditInv
<1>7. AppendsMatch'
  <2>1. \A i \in 1 .. Len(appends) :
          appends[i].by = Clerk
            => /\ appends[i].event.number \in Int
               /\ appends[i].event.number \in -(incidents + 1) .. -1
    BY NumbersOfLog DEF Inv, LogInv, AuditInv, AppendsMatch
  <2>2. \A i \in 1 .. Len(appends) :
          appends[i].by = Clerk => appends[i].event.number \in -(incidents' + 1) .. -1
    BY <1>6, <2>1
  <2>3. \A w \in Workers : Running(w, Audit)' <=> Running(w, Audit)
    BY <1>1 DEF Running
  <2> QED
    BY <1>1, <1>3, <2>2, <2>3 DEF Inv, AuditInv, AppendsMatch
<1>8. MemoryNumbered'
  BY <1>2, <1>3, MemoryStays
<1>9. OneWorkersOrder'
  BY <1>1, <1>2, <1>3, OrderKeeps
<1>10. Accepted' = Accepted
  BY <1>1, <1>2 DEF Accepted
<1>11. DrainInv'
  BY <1>2, <1>10 DEF DrainInv
<1>12. due' \subseteq 0 .. next_number' - 1
  <2>1. /\ \A i \in queue : i.number \in Nat /\ i.number < next_number
        /\ \A w \in Bus!Busy : worker[w].item.number \in Nat
                               /\ worker[w].item.number < next_number
        /\ next_number \in Nat
    BY NumbersOfBus DEF Inv, BusInv, Numbered
  <2>2. \A n \in Accepted : n \in Nat /\ n < next_number
    BY <2>1 DEF Accepted
  <2>3. \A n \in Accepted : n \in 0 .. next_number - 1
    BY <2>1, <2>2
  <2> QED
    BY <1>2, <2>3
<1>13. DamageTyped'
  BY DEF Inv, AuditInv, DamageTyped
<1>14. HistoryTyped'
  <2>1. MaxIncidents \in Nat
    BY EventsAssumption
  <2>2. incidents' \in 0 .. MaxIncidents
    BY <1>6, <2>1
  <2> QED
    BY <1>12, <2>2 DEF HistoryTyped
<1> QED
  BY <1>1, <1>4, <1>5, <1>7, <1>8, <1>9, <1>11, <1>13, <1>14 DEF Inv, AuditInv

LEMMA StopInv ==
  ASSUME Inv, NEW drain \in BOOLEAN, Stop(drain)
  PROVE  Inv'
<1>1. CASE Bus!StopAtOnce(drain) /\ CancelWorkers
  <2>1. Bus!Terminate /\ Incident
    BY <1>1 DEF Stop, Bus!StopAtOnce
  <2> QED
    BY <1>1, <2>1, CancelWorkersInv
<1>2. CASE /\ Bus!StopJoins /\ due' = Accepted
           /\ UNCHANGED <<manager, audit, announced, cut_short, damaged>>
  <2>1. Incident
    BY DEF Stop
  <2> QED
    BY <1>2, <2>1, StopJoinsStep
<1> QED
  BY <1>1, <1>2 DEF Stop

LEMMA StopGoesOnStep ==
  ASSUME Inv, StopGoesOn
  PROVE  Inv'
<1>1. Bus!Terminate /\ CancelWorkers /\ UNCHANGED incidents
  BY DEF StopGoesOn, Bus!StopGoesOn
<1> QED
  BY <1>1, CancelWorkersInv

---------------------------------------------------------------------------
(* The theorems.                                                           *)

LEMMA HandlersAre == <<Observer, Audit>> \in HandlerOrders
<1> DEFINE s == <<Observer, Audit>>
<1>1. s \in Seq({Observer, Audit}) /\ Len(s) = 2 /\ s[1] = Observer /\ s[2] = Audit
  OBVIOUS
<1>2. Observer # Audit
  BY DEF Observer, Audit
<1> HIDE DEF s
<1>3. \A i \in 1 .. Len(s) : i = 1 \/ i = 2
  BY <1>1
<1>4. Once(s)
  BY <1>1, <1>2, <1>3 DEF Once
<1> QED
  BY <1>1, <1>4 DEF HandlerOrders, s

LEMMA InitInv == Init => Inv
<1> SUFFICES ASSUME Init PROVE Inv
  OBVIOUS
<1> USE DEF Init
<1>1. /\ Earlier \in AnEntry /\ Earlier.event.number = -1
      /\ <<Earlier>> \in Seq(AnEntry) /\ <<Earlier>> \in Seq(Lines)
      /\ Len(<<Earlier>>) = 1 /\ <<Earlier>>[1] = Earlier
  <2>1. MaxIncidents \in Nat
    BY EventsAssumption
  <2>2. Direct(1) \in Logged
    BY <2>1 DEF Logged
  <2>3. Earlier \in AnEntry /\ Earlier.event.number = -1
    BY <2>2 DEF Earlier, AnEntry, Direct
  <2> QED
    BY <2>3 DEF Lines
<1>2. /\ memory = <<Earlier>> /\ file = <<Earlier>> /\ appends = <<>>
      /\ thread = Log!NoThread /\ orphans = {} /\ Log!Verifies(<<Earlier>>)
      /\ thread.pc = "none"
  BY DEF Log!Init, Log!NoThread
<1>3. LogInv
  <2>1. LogTyped
    BY <1>1, <1>2 DEF LogTyped
  <2>2. HeadIsWritten /\ LineIsOnFile /\ FileIsMemory
    BY <1>2 DEF HeadIsWritten, LineIsOnFile, FileIsMemory
  <2>3. AcceptedIsDurable
    BY <1>1, <1>2 DEF AcceptedIsDurable
  <2> QED
    BY <2>1, <2>2, <2>3 DEF LogInv
<1>4. /\ running = FALSE /\ stop_call = "none" /\ subscribed = <<Observer, Audit>>
      /\ queue = {} /\ unfinished = 0 /\ waiting = {} /\ next_number = 0
      /\ worker = [w \in Workers |-> Bus!Gone] /\ failures = {}
  BY DEF Bus!Init
<1>5. Bus!Busy = {}
  BY <1>4 DEF Bus!Busy, Bus!Gone
<1>6. BusInv
  <2>1. IsFiniteSet({}) /\ Cardinality({}) = 0
    BY FS_EmptySet
  <2>2. BusTyped
    BY <1>4, <2>1, HandlersAre DEF BusTyped, WorkerStates
  <2>3. Counted
    BY <1>4, <1>5, <2>1, EventsAssumption DEF Counted
  <2> QED
    BY <1>4, <1>5, <2>2, <2>3 DEF BusInv, Numbered, OneWaits
<1>7. /\ snapshot = [state |-> "BOOT", sequence |-> 0, revision |-> 0]
      /\ lock_queue = <<>> /\ call = [t \in Tasks |-> SM!NoCall]
  BY DEF SM!Init
<1>8. \A t \in Tasks : call[t].pc = "idle"
  BY <1>7 DEF SM!NoCall
<1>9. LockInv
  <2>1. SM!ManagerTypeOK
    BY <1>7 DEF SM!ManagerTypeOK, SM!States
  <2>2. Len(lock_queue) = 0
    BY <1>7
  <2> QED
    BY <1>4, <1>8, <2>1, <2>2 DEF LockInv, Once, InTurn
<1>10. AnnounceInv
  <2>1. Publishing = {}
    BY <1>8 DEF Publishing
  <2>2. /\ announced = <<>> /\ Len(announced) = 0 /\ LastAnnounced = "BOOT"
        /\ cut_short = FALSE
    BY DEF LastAnnounced
  <2>3. announced \in Seq(SM!Changes)
    <3>1. \A S : <<>> \in Seq(S)
      OBVIOUS
    <3> QED
      BY <2>2, <3>1
  <2>4. snapshot.state = "BOOT"
    BY <1>7
  <2>5. cut_short \in BOOLEAN
    BY <2>2
  <2> QED
    BY <2>1, <2>2, <2>3, <2>4, <2>5 DEF AnnounceInv
<1>11. AuditInv
  <2>1. AppendsMatch
    BY <1>2 DEF AppendsMatch
  <2>2. DamageTyped
    BY DEF DamageTyped
  <2>3. HistoryTyped
    <3>1. MaxIncidents \in Nat
      BY EventsAssumption
    <3> QED
      BY <3>1 DEF HistoryTyped
  <2>4. DrainInv
    BY <1>4 DEF DrainInv
  <2>5. MemoryNumbered
    BY <1>1, <1>2, <1>4 DEF MemoryNumbered
  <2>6. OneWorkersOrder
    BY <1>1, <1>2, <1>4, <1>5 DEF OneWorkersOrder
  <2> QED
    BY <2>1, <2>2, <2>3, <2>4, <2>5, <2>6 DEF AuditInv
<1> QED
  BY <1>3, <1>6, <1>9, <1>10, <1>11 DEF Inv

LEMMA NextInv == Inv /\ [Next]_vars => Inv'
<1> SUFFICES ASSUME Inv, [Next]_vars PROVE Inv'
  OBVIOUS
<1>1. ASSUME NEW t \in Tasks, NEW request \in Targets \cup {SM!Update}, Call(t, request)
      PROVE  Inv'
  BY <1>1, CallInv
<1>2. ASSUME NEW t \in Tasks, ObtainLock(t) PROVE Inv'
  BY <1>2, ObtainLockInv
<1>3. ASSUME NEW t \in Tasks, ResumePublish(t) PROVE Inv'
  BY <1>3, ResumePublishInv
<1>4. ASSUME NEW t \in Tasks, CancelPublish(t) PROVE Inv'
  BY <1>4, CancelPublishInv
<1>5. ASSUME NEW t \in Tasks, CancelQueued(t) PROVE Inv'
  BY <1>5, CancelQueuedInv
<1>6. ASSUME NEW w \in Workers, WorkerGets(w) PROVE Inv'
  BY <1>6, WorkerGetsInv
<1>7. ASSUME NEW w \in Workers, ObserverEnds(w) PROVE Inv'
  BY <1>7, ObserverEndsInv
<1>8. ASSUME NEW w \in Workers, BridgeAppended(w) PROVE Inv'
  BY <1>8, BridgeAppendedInv
<1>9. ASSUME NEW w \in Workers, BridgeFailed(w) PROVE Inv'
  BY <1>9, BridgeFailedInv
<1>10. CASE PublishNote
  BY <1>10, PublishNoteInv
<1>11. CASE ClerkAppends
  BY <1>11, ClerkAppendsInv
<1>12. CASE ClerkResumes
  BY <1>12, ClerkResumesInv
<1>13. CASE LogStep
  BY <1>13, LogStepInv
<1>14. CASE WriteFails
  BY <1>14, WriteFailsStep
<1>15. CASE OrphanEnds
  BY <1>15, OrphanEndsStep
<1>16. ASSUME NEW h \in {Observer, Audit}, Resubscribes(h) PROVE Inv'
  BY <1>16, ResubscribesStep
<1>17. CASE Start
  BY <1>17, StartStep
<1>18. CASE StopGoesOn
  BY <1>18, StopGoesOnStep
<1>19. ASSUME NEW drain \in BOOLEAN, Stop(drain) PROVE Inv'
  BY <1>19, StopInv
<1>20. CASE UNCHANGED vars
  BY <1>20, StutterInv
<1> QED
  BY <1>1, <1>2, <1>3, <1>4, <1>5, <1>6, <1>7, <1>8, <1>9, <1>10, <1>11, <1>12, <1>13,
     <1>14, <1>15, <1>16, <1>17, <1>18, <1>19, <1>20 DEF Next

\* Everything that the record of the runtime rests on, at every moment: the types,
\* the bookkeeping of the queue, the order of the manager's lock, the chain of the
\* log, and what is still to come between an event's publication and its entry.
THEOREM RecordIsKept == Spec => []Inv
<1> QED
  BY InitInv, NextInv, PTL DEF Spec

\* Whatever appends, failed writes, cancelled callers and threads cut loose have
\* done to the file, every accepted entry is on it in the order of memory, memory's
\* chain verifies, and an undamaged file loads with all that was accepted.
THEOREM AuditIsOnDiskAlways == Spec => []AuditIsOnDisk
<1>1. Inv => AuditIsOnDisk
  BY OnDisk DEF Inv
<1> QED
  BY <1>1, RecordIsKept, PTL

LEMMA OrdersAreTyped ==
  ASSUME NEW s \in HandlerOrders
  PROVE  Bus!IsOrderOfHandlers(s)
<1>1. s \in Seq({Observer, Audit}) /\ Once(s) /\ DOMAIN s = 1 .. Len(s)
  BY DEF HandlerOrders
<1>2. Bus!IsInjective(s)
  BY <1>1 DEF Once, Bus!IsInjective
<1>3. Bus!ToSet(<<Observer, Audit>>) = {Observer, Audit}
  BY DEF Bus!ToSet
<1>4. Bus!ToSet(s) \subseteq {Observer, Audit}
  BY <1>1 DEF Bus!ToSet
<1> QED
  BY <1>2, <1>3, <1>4 DEF Bus!IsOrderOfHandlers

LEMMA BusIsTyped == BusInv => Bus!BusTypeOK
<1> SUFFICES ASSUME BusInv PROVE Bus!BusTypeOK
  OBVIOUS
<1>1. /\ running \in BOOLEAN /\ stop_call \in {"none", "joining", "joined"}
      /\ queue \in SUBSET Bus!Items /\ next_number \in Nat
      /\ waiting \in SUBSET [by : Tasks, item : Bus!Items]
      /\ subscribed \in HandlerOrders
  BY DEF BusInv, BusTyped
<1>2. /\ Bus!Cardinality(queue) <= QueueSize
      /\ unfinished = Bus!Cardinality(queue) + Bus!Cardinality(Bus!Busy)
  BY SameHelpers DEF BusInv, Counted
<1>3. ASSUME NEW w \in Workers
      PROVE  \/ worker[w] \in {Bus!Gone, Bus!Getting}
             \/ /\ worker[w] = Bus!Dispatching(worker[w].item, worker[w].todo)
                /\ worker[w].item \in Bus!Items
                /\ worker[w].todo # <<>> /\ Bus!IsOrderOfHandlers(worker[w].todo)
  <2>1. \/ worker[w] \in {Bus!Gone, Bus!Getting}
        \/ worker[w] \in [pc : {"dispatching"}, item : Bus!Items,
                          todo : HandlerOrders \ {<<>>}]
    BY DEF BusInv, BusTyped, WorkerStates
  <2> QED
    BY <2>1, OrdersAreTyped DEF Bus!Dispatching
<1>4. \A failure \in failures :
        failure[1] \in Nat /\ failure[2] \in Bus!ToSet(<<Observer, Audit>>)
  <2>1. Bus!ToSet(<<Observer, Audit>>) = {Observer, Audit}
    BY DEF Bus!ToSet
  <2> QED
    BY <2>1 DEF BusInv, BusTyped
<1>5. Bus!IsOrderOfHandlers(subscribed)
  BY <1>1, OrdersAreTyped
<1> QED
  BY <1>1, <1>2, <1>3, <1>4, <1>5 DEF Bus!BusTypeOK

\* Every component's state is sound.
THEOREM TypeIsKept == Spec => []TypeOK
<1>1. Inv => TypeOK
  <2> SUFFICES ASSUME Inv PROVE TypeOK
    OBVIOUS
  <2>1. Bus!BusTypeOK /\ SM!ManagerTypeOK /\ Log!AuditTypeOK
    BY BusIsTyped, LogTypeOK DEF Inv, LogInv, LockInv
  <2>2. /\ announced \in Seq(SM!Changes) /\ cut_short \in BOOLEAN
        /\ damaged \subseteq {"cut short", "failed"} /\ due \subseteq 0 .. next_number - 1
    <3>1. DamageTyped
      BY DEF Inv, AuditInv
    <3>2. announced \in Seq(SM!Changes) /\ cut_short \in BOOLEAN
      BY DEF Inv, AnnounceInv
    <3>3. due \subseteq 0 .. next_number - 1
      BY DEF Inv, AuditInv, HistoryTyped
    <3> QED
      BY <3>1, <3>2, <3>3, Zenon DEF DamageTyped
  <2> QED
    BY <2>1, <2>2 DEF TypeOK
<1> QED
  BY <1>1, RecordIsKept, PTL

\* However many tasks change the state, wait for room in the queue and for one
\* another, the accepted events lead without a gap from BOOT to the state in the
\* snapshot, or to the one before it while its event waits for room.
THEOREM StateIsAnnouncedAlways == Spec => []StateIsAnnounced
<1>1. Inv => EveryChangeIsAnnounced
  <2> SUFFICES ASSUME Inv, ~cut_short
               PROVE  /\ \A i \in 1 .. Len(announced) :
                           announced[i].from = IF i = 1 THEN "BOOT"
                                               ELSE announced[i - 1].to
                      /\ \/ snapshot.state = LastAnnounced
                         \/ \E t \in Tasks :
                              /\ call[t].pc = "publishing"
                              /\ call[t].change = [from |-> LastAnnounced,
                                                   to |-> snapshot.state]
    BY DEF EveryChangeIsAnnounced
  <2> QED
    BY DEF Inv, AnnounceInv, Publishing
<1> QED
  BY <1>1, TypeIsKept, RecordIsKept, PTL DEF StateIsAnnounced

\* When a draining stop is woken, everything that it was to wait for is in memory or
\* on record as a failure of the bridge; and a single worker's log has no event twice
\* and those of a priority in the order of their numbers.
THEOREM AuditIsCompleteAlways == Spec => []AuditIsComplete
<1>1. Inv => DrainRecordsEverything
  BY DEF Inv, AuditInv, DrainInv, DrainRecordsEverything
<1>2. Inv => AuditedInOrder
  <2> SUFFICES ASSUME Inv, Cardinality(Workers) = 1,
                      NEW i \in 1 .. Len(memory), NEW j \in 1 .. Len(memory), i < j
               PROVE  LET a == memory[i].event
                          b == memory[j].event
                      IN a # b /\ (a.priority = b.priority /\ a.number >= 0 /\ b.number >= 0
                                     => a.number < b.number)
    BY DEF AuditedInOrder
  <2> DEFINE a == memory[i].event
             b == memory[j].event
  <2>1. Ahead(a, b)
    BY DEF Inv, AuditInv, OneWorkersOrder
  <2>2. a.number < 0 /\ b.number < 0 => a.number > b.number
    BY DEF Inv, AuditInv, MemoryNumbered
  <2>3. a.number \in Int /\ b.number \in Int
    BY NumbersOfLog DEF Inv, LogInv
  <2> HIDE DEF a, b
  <2>4. a # b
    BY <2>1, <2>2, <2>3 DEF Ahead
  <2> QED
    BY <2>1, <2>4 DEF Ahead, a, b
<1> QED
  BY <1>1, <1>2, RecordIsKept, PTL DEF AuditIsComplete
===========================================================================
