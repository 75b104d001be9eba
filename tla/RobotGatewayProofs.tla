------------------------ MODULE RobotGatewayProofs ------------------------
(***************************************************************************)
(* Theorems about RobotGateway.                                            *)
(*                                                                         *)
(* That requests take turns at the lock holds for every value of the       *)
(* constants.  That their frames leave in order, and that nobody takes     *)
(* another request's answer for his own, holds as long as there are more   *)
(* sequence numbers than disturbances: the argument bounds the age of the  *)
(* numbers on the wires (Pipeline).                                        *)
(***************************************************************************)
EXTENDS RobotGateway, FiniteSetTheorems, SequenceTheorems, WellFoundedInduction, TLAPS

---------------------------------------------------------------------------
(* Numbers and queues.                                                     *)

Once(queue) == \A i, j \in 1 .. Len(queue) : queue[i] = queue[j] => i = j

LEMMA LeastNumber ==
  ASSUME NEW T \in SUBSET Nat, T # {}
  PROVE  \E x \in T : \A y \in T : x <= y
<1> DEFINE R == OpToRel(<, Nat)
<1>1. IsWellFoundedOn(R, Nat)
  BY NatLessThanWellFounded
<1>2. R = {ss \in Nat \X Nat : ss[1] < ss[2]}
  BY DEF OpToRel
<1> HIDE DEF R
<1>3. PICK x \in T : \A y \in T : ~(<<y, x>> \in R)
  BY <1>1, WFMin
<1>4. \A m, n \in Nat : m < n => <<m, n>> \in R
  BY <1>2
<1>5. \A y \in T : y \in Nat /\ x \in Nat /\ ~(y < x)
  BY <1>3, <1>4
<1>6. \A y \in T : x <= y
  BY <1>5
<1> QED
  BY <1>3, <1>6

LEMMA EveryNumber ==
  ASSUME NEW T \in SUBSET Nat, 0 \in T, \A n \in T : n + 1 \in T
  PROVE  T = Nat
<1> SUFFICES ASSUME Nat \ T # {} PROVE FALSE
  OBVIOUS
<1>1. PICK x \in Nat \ T : \A y \in Nat \ T : x <= y
  BY LeastNumber
<1>2. x # 0 /\ x - 1 \in Nat /\ ~(x <= x - 1)
  BY <1>1
<1>3. x - 1 \in T
  BY <1>1, <1>2
<1> QED
  BY <1>1, <1>2, <1>3

LEMMA TailIsRest ==
  ASSUME NEW S, NEW s \in Seq(S), s # <<>>
  PROVE  /\ Head(s) \in S /\ Tail(s) \in Seq(S)
         /\ Len(s) \in Nat \ {0} /\ Head(s) = s[1]
         /\ Len(Tail(s)) = Len(s) - 1
         /\ \A i \in 1 .. Len(Tail(s)) : Tail(s)[i] = s[i + 1]
  OBVIOUS

LEMMA AppendIsLast ==
  ASSUME NEW S, NEW s \in Seq(S), NEW x \in S
  PROVE  /\ Append(s, x) \in Seq(S)
         /\ Len(s) \in Nat /\ Len(Append(s, x)) = Len(s) + 1
         /\ \A i \in 1 .. Len(s) : Append(s, x)[i] = s[i]
         /\ Append(s, x)[Len(s) + 1] = x
         /\ Append(s, x) # <<>>
  OBVIOUS

LEMMA RemoveAtProperties ==
  ASSUME NEW S, NEW s \in Seq(S), NEW i \in 1 .. Len(s)
  PROVE  /\ RemoveAt(s, i) \in Seq(S)
         /\ Len(RemoveAt(s, i)) = Len(s) - 1
         /\ \A j \in 1 .. Len(s) - 1 :
              RemoveAt(s, i)[j] = IF j < i THEN s[j] ELSE s[j + 1]
<1> DEFINE a == SubSeq(s, 1, i - 1)
           b == SubSeq(s, i + 1, Len(s))
<1>0. i \in Nat /\ Len(s) \in Nat /\ 1 <= i /\ i <= Len(s)
  OBVIOUS
<1>1. a \in Seq(S) /\ Len(a) = i - 1 /\ \A j \in 1 .. i - 1 : a[j] = s[j]
  OBVIOUS
<1>2. b \in Seq(S) /\ Len(b) = Len(s) - i /\ \A j \in 1 .. Len(s) - i : b[j] = s[i + j]
  OBVIOUS
<1>3. RemoveAt(s, i) = a \o b
  BY DEF RemoveAt
<1> HIDE DEF a, b
<1>4. /\ a \o b \in Seq(S) /\ Len(a \o b) = Len(a) + Len(b)
      /\ \A j \in 1 .. Len(a) + Len(b) :
           (a \o b)[j] = IF j <= Len(a) THEN a[j] ELSE b[j - Len(a)]
  BY <1>1, <1>2, ConcatProperties
<1>5. ASSUME NEW j \in 1 .. Len(s) - 1
      PROVE  (a \o b)[j] = IF j < i THEN s[j] ELSE s[j + 1]
  <2>1. j \in 1 .. Len(a) + Len(b)
    BY <1>0, <1>1, <1>2
  <2>2. CASE j < i
    BY <1>0, <1>1, <1>4, <2>1, <2>2
  <2>3. CASE ~(j < i)
    <3>1. ~(j <= Len(a)) /\ j - Len(a) \in 1 .. Len(s) - i
          /\ i + (j - Len(a)) = j + 1
      BY <1>0, <1>1, <2>3
    <3> QED
      BY <1>2, <1>4, <2>1, <2>3, <3>1
  <2> QED
    BY <2>2, <2>3
<1> QED
  BY <1>0, <1>1, <1>2, <1>3, <1>4, <1>5

LEMMA RemoveFirstProperties ==
  ASSUME NEW S, NEW s \in Seq(S), NEW e, Once(s)
  PROVE  LET r == RemoveFirst(s, e)
         IN /\ r \in Seq(S) /\ Once(r)
            /\ \A j \in 1 .. Len(r) : r[j] # e
            /\ \A j \in 1 .. Len(r) : \E i \in 1 .. Len(s) : r[j] = s[i]
            /\ \A i \in 1 .. Len(s) :
                 s[i] # e => \E j \in 1 .. Len(r) : r[j] = s[i]
            /\ s # <<>> /\ s[1] # e => r # <<>> /\ r[1] = s[1]
            /\ (\A i \in 1 .. Len(s) : s[i] # e) => r = s
<1>1. CASE \A i \in 1 .. Len(s) : s[i] # e
  <2>1. RemoveFirst(s, e) = s
    BY <1>1 DEF RemoveFirst
  <2> QED
    BY <1>1, <2>1
<1>2. CASE \E i \in 1 .. Len(s) : s[i] = e
  <2> DEFINE I == {i \in 1 .. Len(s) : s[i] = e}
             m == CHOOSE x \in I : \A y \in I : x <= y
             r == RemoveAt(s, m)
  <2>1. I \subseteq Nat /\ I # {}
    BY <1>2
  <2>2. m \in I
    <3> HIDE DEF I
    <3> QED
      BY <2>1, LeastNumber
  <2>3. RemoveFirst(s, e) = r
    BY <1>2 DEF RemoveFirst, SelectInSeq, Min
  <2> HIDE DEF m
  <2>4. m \in 1 .. Len(s) /\ s[m] = e /\ Len(s) \in Nat
    BY <2>2
  <2>5. /\ r \in Seq(S) /\ Len(r) = Len(s) - 1
        /\ \A j \in 1 .. Len(s) - 1 : r[j] = IF j < m THEN s[j] ELSE s[j + 1]
    BY <2>4, RemoveAtProperties
  <2> HIDE DEF r, I
  <2>6. ASSUME NEW j \in 1 .. Len(r)
        PROVE  \E i \in 1 .. Len(s) : r[j] = s[i] /\ i # m
                                      /\ i = IF j < m THEN j ELSE j + 1
    <3>1. CASE j < m
      BY <2>4, <2>5, <3>1
    <3>2. CASE ~(j < m)
      <4>1. j + 1 \in 1 .. Len(s) /\ j + 1 # m
        BY <2>4, <2>5, <3>2
      <4> QED
        BY <2>4, <2>5, <3>2, <4>1
    <3> QED
      BY <3>1, <3>2
  <2>7. \A j \in 1 .. Len(r) : r[j] # e
    BY <2>4, <2>6 DEF Once
  <2>8. Once(r)
    <3> SUFFICES ASSUME NEW j \in 1 .. Len(r), NEW k \in 1 .. Len(r), r[j] = r[k]
                 PROVE  j = k
      BY DEF Once
    <3>1. (IF j < m THEN j ELSE j + 1) = (IF k < m THEN k ELSE k + 1)
      BY <2>6 DEF Once
    <3> QED
      BY <2>4, <2>5, <3>1
  <2>9. \A i \in 1 .. Len(s) : s[i] # e => \E j \in 1 .. Len(r) : r[j] = s[i]
    <3> TAKE i \in 1 .. Len(s)
    <3> HAVE s[i] # e
    <3>1. CASE i < m
      BY <2>4, <2>5, <3>1
    <3>2. CASE i > m
      <4>1. i - 1 \in 1 .. Len(r) /\ ~(i - 1 < m) /\ (i - 1) + 1 = i
        BY <2>4, <2>5, <3>2
      <4> QED
        BY <2>5, <4>1
    <3> QED
      BY <2>4, <3>1, <3>2
  <2>10. s # <<>> /\ s[1] # e => r # <<>> /\ r[1] = s[1]
    <3> SUFFICES ASSUME s # <<>>, s[1] # e PROVE r # <<>> /\ r[1] = s[1]
      OBVIOUS
    <3>1. 1 < m /\ 1 \in 1 .. Len(s) - 1
      BY <2>4
    <3> QED
      BY <2>5, <3>1
  <2> QED
    BY <1>2, <2>3, <2>5, <2>6, <2>7, <2>8, <2>9, <2>10
<1> QED
  BY <1>1, <1>2

---------------------------------------------------------------------------
(* The invariant.                                                          *)

\* More than MaxDisturbances numbers can be told apart.
SequenceIsLongEnough == MaxDisturbances + 2 < SeqModulus

TaskStates ==
  [pc : {"idle", "queued", "sending", "receiving"},
   sequence : Sequences16, id : Ids \cup {NoId},
   outcome : Outcomes, answered : Ids \cup {NoId}]

Typed ==
  /\ next_sequence \in Sequences16 /\ sent \in Ids
  /\ lock_queue \in Seq(Tasks)
  /\ task \in [Tasks -> TaskStates]
  /\ link \in {"up", "hung_up", "closed"}
  /\ out_wire \in Seq(Requests)
  /\ in_wire \in Seq(Answers) /\ frames \in Seq(Answers) /\ issues \in Nat
  /\ disturbed.number \in 0 .. MaxDisturbances

Sending(c) == task[c].pc = "sending"
Receiving(c) == task[c].pc = "receiving"
IsIn(c, queue) == \E i \in 1 .. Len(queue) : queue[i] = c

\* The queue holds whoever is not at rest, once, and its head is who goes on, with
\* the request it has begun.
Locked ==
  /\ Once(lock_queue)
  /\ \A c \in Tasks :
       /\ task[c].pc # "idle" <=> IsIn(c, lock_queue)
       /\ Sending(c) \/ Receiving(c) =>
            lock_queue # <<>> /\ lock_queue[1] = c /\ task[c].id \in Ids

\* Who waits for an answer has found nothing left over.
WaitsForNew == \A c \in Tasks : Receiving(c) => frames = <<>> /\ issues = 0

\* How many numbers were given out after this one.
Back(next, number) ==
  IF number < next THEN next - 1 - number ELSE next - 1 - number + SeqModulus

\* counted[j] of the first j answers are damaged.
Counts(counted, answers) ==
  /\ counted \in [0 .. Len(answers) -> Nat] /\ counted[0] = 0
  /\ \A j \in 1 .. Len(answers) :
       counted[j] = IF answers[j].kind = "garbage" THEN counted[j - 1] + 1
                                                   ELSE counted[j - 1]
  /\ \A i, j \in 0 .. Len(answers) : i <= j => counted[i] <= counted[j]

Numbered(answer) == answer.kind \in {"ack", "nack"}

\* A number that was given out before the last taken ones, and its age and what is
\* ahead of its answer together within the slack.
Within(next, number, taken, ahead, slack) ==
  taken <= Back(next, number) /\ Back(next, number) + ahead <= slack

\* The host's issues and frames and the two wires are one queue, and each request
\* takes something from its front.  The slack is the disturbances so far, and the
\* request that is under way; taken is 1 while that one has a number and no frame.
\* Damaged answers may be read before any other that has been read with them.
AnswersWithin(problems, ready, back, next, taken, slack) ==
  \E counted :
    /\ Counts(counted, back)
    /\ \A i \in 1 .. Len(ready) :
         Numbered(ready[i]) =>
           Within(next, ready[i].sequence, taken,
                  problems + (i - 1) + counted[Len(back)], slack)
    /\ \A j \in 1 .. Len(back) :
         Numbered(back[j]) =>
           Within(next, back[j].sequence, taken,
                  problems + Len(ready) + (j - 1) + (counted[Len(back)] - counted[j]),
                  slack)

RequestsWithin(ahead, forth, next, taken, slack) ==
  /\ \A k \in 1 .. Len(forth) :
       Within(next, forth[k].sequence, taken, ahead + (k - 1), slack)
  /\ \A k, l \in 1 .. Len(forth) :
       k < l => Back(next, forth[l].sequence) < Back(next, forth[k].sequence)

Pipeline(problems, ready, back, forth, next, taken, slack) ==
  /\ problems + Len(ready) + Len(back) + Len(forth) + taken <= slack
  /\ AnswersWithin(problems, ready, back, next, taken, slack)
  /\ RequestsWithin(problems + Len(ready) + Len(back), forth, next, taken, slack)

Taken == IF \E c \in Tasks : Sending(c) THEN 1 ELSE 0
Busy == IF \E c \in Tasks : Sending(c) \/ Receiving(c) THEN 1 ELSE 0

Flow ==
  link = "up" => Pipeline(issues, frames, in_wire, out_wire, next_sequence, Taken,
                          disturbed.number + Busy)

\* The number of the last request that was begun.
LastNumber == IF next_sequence = 0 THEN SeqModulus - 1 ELSE next_sequence - 1

\* While a task waits with its number, whatever bears that number is its own.
OwnNumber ==
  \A c \in Tasks :
    /\ Sending(c) /\ link = "up" => task[c].sequence = LastNumber
    /\ Receiving(c) =>
         /\ \A i \in 1 .. Len(in_wire) :
              Numbered(in_wire[i]) /\ in_wire[i].sequence = task[c].sequence
                => in_wire[i].id = task[c].id
         /\ \A i \in 1 .. Len(out_wire) :
              out_wire[i].sequence = task[c].sequence => out_wire[i].id = task[c].id

Sound == \A i \in 1 .. Len(frames) : frames[i].kind # "garbage"

Base == Typed /\ Locked /\ WaitsForNew /\ Sound

Inv == Base /\ Flow /\ OwnNumber /\ FramesLeaveInOrder /\ ReceiptIsGenuine

---------------------------------------------------------------------------
(* Sequence numbers.                                                       *)

LEMMA Modulo ==
  ASSUME NEW a \in Int, NEW M \in Nat \ {0}, a < M, -M <= a
  PROVE  a % M = IF a >= 0 THEN a ELSE a + M
  OBVIOUS

LEMMA NextNumber ==
  ASSUME NEW number \in Sequences16
  PROVE  /\ SequenceAfter(number) = IF number + 1 = SeqModulus THEN 0 ELSE number + 1
         /\ SequenceAfter(number) \in Sequences16
<1>1. SeqModulus \in Nat \ {0} /\ number \in Nat /\ number < SeqModulus
  BY GatewayAssumption DEF Sequences16
<1>2. CASE number + 1 < SeqModulus
  <2>1. (number + 1) % SeqModulus = number + 1
    BY <1>1, <1>2
  <2> QED
    BY <1>1, <1>2, <2>1 DEF SequenceAfter, Sequences16
<1>3. CASE number + 1 = SeqModulus
  <2>1. SeqModulus % SeqModulus = 0
    BY <1>1
  <2> QED
    BY <1>1, <1>3, <2>1 DEF SequenceAfter, Sequences16
<1> QED
  BY <1>1, <1>2, <1>3

LEMMA BackIsNatural ==
  ASSUME NEW next \in Sequences16, NEW number \in Sequences16
  PROVE  Back(next, number) \in Nat /\ Back(next, number) < SeqModulus
  BY GatewayAssumption DEF Sequences16, Back

LEMMA BackGrows ==
  ASSUME NEW next \in Sequences16, NEW number \in Sequences16,
         Back(next, number) + 2 <= SeqModulus
  PROVE  Back(SequenceAfter(next), number) = Back(next, number) + 1
<1>1. SequenceAfter(next) = IF next + 1 = SeqModulus THEN 0 ELSE next + 1
  BY NextNumber
<1>2. SeqModulus \in Nat /\ next \in Nat /\ number \in Nat
      /\ next < SeqModulus /\ number < SeqModulus
  BY GatewayAssumption DEF Sequences16
<1> QED
  BY <1>1, <1>2 DEF Back

LEMMA BackOfLast ==
  ASSUME NEW next \in Sequences16
  PROVE  Back(SequenceAfter(next), next) = 0
<1>1. SequenceAfter(next) = IF next + 1 = SeqModulus THEN 0 ELSE next + 1
  BY NextNumber
<1>2. SeqModulus \in Nat /\ next \in Nat /\ next < SeqModulus
  BY GatewayAssumption DEF Sequences16
<1> QED
  BY <1>1, <1>2 DEF Back

LEMMA Distance ==
  ASSUME NEW next \in Sequences16, NEW x \in Sequences16, NEW y \in Sequences16,
         Back(next, y) < Back(next, x), Back(next, x) + 2 <= SeqModulus
  PROVE  (y - x) % SeqModulus \in 1 .. SeqModulus - 2
<1> DEFINE d == Back(next, x) - Back(next, y)
<1>1. /\ SeqModulus \in Nat \ {0} /\ x \in Nat /\ y \in Nat
      /\ x < SeqModulus /\ y < SeqModulus /\ next \in Nat /\ next < SeqModulus
  BY GatewayAssumption DEF Sequences16
<1>2. Back(next, x) \in Nat /\ Back(next, y) \in Nat
  BY BackIsNatural
<1>3. d \in 1 .. SeqModulus - 2
  BY <1>1, <1>2
<1>4. y - x = d \/ y - x = d - SeqModulus
  BY <1>1 DEF Back
<1> HIDE DEF d
<1>5. d % SeqModulus = d /\ (d - SeqModulus) % SeqModulus = d
  BY <1>1, <1>3
<1> QED
  BY <1>3, <1>4, <1>5

LEMMA WithinNext ==
  ASSUME NEW next \in Sequences16, NEW number \in Sequences16,
         NEW ahead \in Nat, NEW slack \in Nat, slack + 2 <= SeqModulus,
         Within(next, number, 0, ahead, slack)
  PROVE  /\ Within(SequenceAfter(next), number, 1, ahead, slack + 1)
         /\ Back(SequenceAfter(next), number) = Back(next, number) + 1
<1>1. Back(next, number) \in Nat /\ Back(next, number) + ahead <= slack
  BY BackIsNatural DEF Within
<1>2. SeqModulus \in Nat
  BY GatewayAssumption
<1>3. Back(next, number) + 2 <= SeqModulus
  BY <1>1, <1>2
<1>4. Back(SequenceAfter(next), number) = Back(next, number) + 1
  BY <1>3, BackGrows
<1> QED
  BY <1>1, <1>4 DEF Within

---------------------------------------------------------------------------
(* Damaged answers are counted.                                            *)

LEMMA CountsAreNatural ==
  ASSUME NEW s \in Seq(Answers), NEW counted, Counts(counted, s)
  PROVE  /\ Len(s) \in Nat /\ Len(s) \in 0 .. Len(s)
         /\ \A j \in 0 .. Len(s) : counted[j] \in Nat
         /\ \A j \in 0 .. Len(s) : counted[j] <= counted[Len(s)]
         /\ \A j \in 0 .. Len(s) : counted[Len(s)] - counted[j] \in Nat
<1>1. Len(s) \in Nat /\ Len(s) \in 0 .. Len(s)
  OBVIOUS
<1>2. \A j \in 0 .. Len(s) : counted[j] \in Nat /\ counted[j] <= counted[Len(s)]
  BY <1>1 DEF Counts
<1> QED
  BY <1>1, <1>2

LEMMA CountAppended ==
  ASSUME NEW s \in Seq(Answers), NEW x \in Answers, NEW counted, Counts(counted, s)
  PROVE  \E counted2 :
           /\ Counts(counted2, Append(s, x))
           /\ \A j \in 0 .. Len(s) : counted2[j] = counted[j]
           /\ counted2[Len(s) + 1] = IF x.kind = "garbage" THEN counted[Len(s)] + 1
                                                           ELSE counted[Len(s)]
<1> DEFINE m == IF x.kind = "garbage" THEN counted[Len(s)] + 1 ELSE counted[Len(s)]
           counted2 == [j \in 0 .. Len(s) + 1 |-> IF j = Len(s) + 1 THEN m ELSE counted[j]]
           longer == Append(s, x)
<1>1. /\ Len(s) \in Nat /\ Len(s) \in 0 .. Len(s)
      /\ \A j \in 0 .. Len(s) : counted[j] \in Nat /\ counted[j] <= counted[Len(s)]
  BY CountsAreNatural
<1>2. m \in Nat /\ counted[Len(s)] <= m
  BY <1>1
<1>3. /\ Len(longer) = Len(s) + 1 /\ longer[Len(s) + 1] = x
      /\ \A j \in 1 .. Len(s) : longer[j] = s[j]
  BY AppendIsLast
<1>4. /\ counted2 \in [0 .. Len(s) + 1 -> Nat]
      /\ \A j \in 0 .. Len(s) : counted2[j] = counted[j]
      /\ counted2[Len(s) + 1] = m
  BY <1>1, <1>2
<1> HIDE DEF counted2, longer
<1>5. counted2[0] = 0
  BY <1>1, <1>4 DEF Counts
<1>6. ASSUME NEW j \in 1 .. Len(longer)
      PROVE  counted2[j] = IF longer[j].kind = "garbage" THEN counted2[j - 1] + 1
                                                         ELSE counted2[j - 1]
  <2>1. CASE j = Len(s) + 1
    <3>1. j - 1 = Len(s) /\ counted2[j - 1] = counted[Len(s)]
      BY <1>1, <1>4, <2>1
    <3> QED
      BY <1>3, <1>4, <2>1, <3>1
  <2>2. CASE j # Len(s) + 1
    <3>1. j \in 1 .. Len(s) /\ j \in 0 .. Len(s) /\ j - 1 \in 0 .. Len(s)
      BY <1>1, <1>3, <2>2
    <3> QED
      BY <1>3, <1>4, <3>1 DEF Counts
  <2> QED
    BY <2>1, <2>2
<1>7. ASSUME NEW i \in 0 .. Len(longer), NEW j \in 0 .. Len(longer), i <= j
      PROVE  counted2[i] <= counted2[j]
  <2>1. CASE j = Len(s) + 1
    <3>1. i \in 0 .. Len(s) \/ i = j
      BY <1>1, <1>3, <2>1
    <3>2. \A k \in 0 .. Len(s) : counted2[k] <= m
      BY <1>1, <1>2, <1>4
    <3> QED
      BY <1>2, <1>4, <2>1, <3>1, <3>2
  <2>2. CASE j # Len(s) + 1
    <3>1. i \in 0 .. Len(s) /\ j \in 0 .. Len(s)
      BY <1>1, <1>3, <1>7, <2>2
    <3> QED
      BY <1>4, <1>7, <3>1 DEF Counts
  <2> QED
    BY <2>1, <2>2
<1>8. Counts(counted2, longer)
  BY <1>3, <1>4, <1>5, <1>6, <1>7 DEF Counts
<1> QED
  BY <1>4, <1>8 DEF longer

LEMMA SuffixIsRest ==
  ASSUME NEW S, NEW s \in Seq(S), NEW n \in 0 .. Len(s)
  PROVE  LET rest == SubSeq(s, n + 1, Len(s))
         IN /\ rest \in Seq(S) /\ Len(rest) = Len(s) - n /\ Len(rest) \in Nat
            /\ \A j \in 1 .. Len(s) - n : rest[j] = s[j + n]
  OBVIOUS

LEMMA CountSuffix ==
  ASSUME NEW s \in Seq(Answers), NEW n \in 0 .. Len(s), NEW counted, Counts(counted, s)
  PROVE  \E counted2 :
           /\ Counts(counted2, SubSeq(s, n + 1, Len(s)))
           /\ \A j \in 0 .. Len(s) - n : counted2[j] = counted[j + n] - counted[n]
<1> DEFINE rest == SubSeq(s, n + 1, Len(s))
           counted2 == [j \in 0 .. Len(s) - n |-> counted[j + n] - counted[n]]
<1>1. Len(s) \in Nat /\ n \in Nat /\ n <= Len(s)
  OBVIOUS
<1>2. Len(rest) = Len(s) - n /\ \A j \in 1 .. Len(s) - n : rest[j] = s[j + n]
  BY SuffixIsRest
<1> HIDE DEF rest
<1>3. \A j \in 0 .. Len(s) - n : j + n \in 0 .. Len(s) /\ n <= j + n
  BY <1>1
<1>4. \A j \in 0 .. Len(s) - n : counted[j + n] - counted[n] \in Nat
  BY <1>3 DEF Counts
<1>5. /\ counted2 \in [0 .. Len(s) - n -> Nat]
      /\ \A j \in 0 .. Len(s) - n : counted2[j] = counted[j + n] - counted[n]
  BY <1>4
<1> HIDE DEF counted2
<1>6. counted2[0] = 0
  <2>1. 0 \in 0 .. Len(s) - n /\ counted[0 + n] = counted[n] /\ counted[n] \in Nat
    BY <1>1 DEF Counts
  <2> QED
    BY <1>5, <2>1
<1>7. ASSUME NEW j \in 1 .. Len(rest)
      PROVE  counted2[j] = IF rest[j].kind = "garbage" THEN counted2[j - 1] + 1
                                                       ELSE counted2[j - 1]
  <2>1. /\ j \in 0 .. Len(s) - n /\ j - 1 \in 0 .. Len(s) - n
        /\ j + n \in 1 .. Len(s) /\ (j - 1) + n = (j + n) - 1
        /\ (j + n) - 1 \in 0 .. Len(s) /\ n \in 0 .. Len(s)
    BY <1>1, <1>2
  <2>2. /\ counted2[j] = counted[j + n] - counted[n]
        /\ counted2[j - 1] = counted[(j + n) - 1] - counted[n]
    BY <1>5, <2>1
  <2>3. counted[j + n] = IF s[j + n].kind = "garbage" THEN counted[(j + n) - 1] + 1
                                                      ELSE counted[(j + n) - 1]
    BY <2>1 DEF Counts
  <2>4. counted[(j + n) - 1] \in Nat /\ counted[n] \in Nat
    BY <2>1 DEF Counts
  <2>5. rest[j] = s[j + n]
    BY <1>2
  <2> HIDE DEF counted2
  <2> QED
    BY <2>2, <2>3, <2>4, <2>5
<1>8. ASSUME NEW i \in 0 .. Len(rest), NEW j \in 0 .. Len(rest), i <= j
      PROVE  counted2[i] <= counted2[j]
  <2>1. i \in 0 .. Len(s) - n /\ j \in 0 .. Len(s) - n /\ i + n <= j + n
    BY <1>1, <1>2, <1>8
  <2>2. /\ i + n \in 0 .. Len(s) /\ j + n \in 0 .. Len(s) /\ n \in 0 .. Len(s)
    BY <1>3, <2>1
  <2>3. /\ counted[i + n] <= counted[j + n] /\ counted[n] \in Nat
        /\ counted[i + n] \in Nat /\ counted[j + n] \in Nat
    BY <2>1, <2>2 DEF Counts
  <2> QED
    BY <1>5, <2>1, <2>3
<1>9. Counts(counted2, rest)
  BY <1>2, <1>5, <1>6, <1>7, <1>8 DEF Counts
<1> QED
  BY <1>5, <1>9 DEF rest

---------------------------------------------------------------------------
(* The pipeline.                                                           *)

LEMMA AnswersTyped ==
  /\ \A s \in Seq(Answers) : \A i \in 1 .. Len(s) :
       s[i] \in Answers /\ s[i].sequence \in Sequences16
  /\ \A s \in Seq(Requests) : \A i \in 1 .. Len(s) :
       s[i] \in Requests /\ s[i].sequence \in Sequences16
<1>1. /\ \A a \in Answers : a.sequence \in Sequences16
      /\ \A r \in Requests : r.sequence \in Sequences16
  BY DEF Answers, Requests
<1>2. /\ \A s \in Seq(Answers) : \A i \in 1 .. Len(s) : s[i] \in Answers
      /\ \A s \in Seq(Requests) : \A i \in 1 .. Len(s) : s[i] \in Requests
  OBVIOUS
<1> QED
  BY <1>1, <1>2

\* A request takes the next number.
LEMMA NumberTaken ==
  ASSUME NEW problems \in Nat, NEW ready \in Seq(Answers), NEW back \in Seq(Answers),
         NEW forth \in Seq(Requests), NEW next \in Sequences16, NEW slack \in Nat,
         slack + 2 <= SeqModulus,
         Pipeline(problems, ready, back, forth, next, 0, slack)
  PROVE  Pipeline(problems, ready, back, forth, SequenceAfter(next), 1, slack + 1)
<1>1. /\ problems + Len(ready) + Len(back) + Len(forth) + 0 <= slack
      /\ AnswersWithin(problems, ready, back, next, 0, slack)
      /\ RequestsWithin(problems + Len(ready) + Len(back), forth, next, 0, slack)
  BY DEF Pipeline
<1>2. Len(ready) \in Nat /\ Len(back) \in Nat /\ Len(forth) \in Nat
  OBVIOUS
<1>3. AnswersWithin(problems, ready, back, SequenceAfter(next), 1, slack + 1)
  <2>1. PICK counted :
          /\ Counts(counted, back)
          /\ \A i \in 1 .. Len(ready) :
               Numbered(ready[i]) =>
                 Within(next, ready[i].sequence, 0,
                        problems + (i - 1) + counted[Len(back)], slack)
          /\ \A j \in 1 .. Len(back) :
               Numbered(back[j]) =>
                 Within(next, back[j].sequence, 0,
                        problems + Len(ready) + (j - 1)
                          + (counted[Len(back)] - counted[j]),
                        slack)
    BY <1>1 DEF AnswersWithin
  <2>2. /\ counted[Len(back)] \in Nat
        /\ \A j \in 1 .. Len(back) : counted[Len(back)] - counted[j] \in Nat
    BY <2>1, CountsAreNatural
  <2>3. ASSUME NEW i \in 1 .. Len(ready), Numbered(ready[i])
        PROVE  Within(SequenceAfter(next), ready[i].sequence, 1,
                      problems + (i - 1) + counted[Len(back)], slack + 1)
    <3> DEFINE ahead == problems + (i - 1) + counted[Len(back)]
    <3>1. ahead \in Nat /\ ready[i].sequence \in Sequences16
      BY <2>2, AnswersTyped
    <3>2. Within(next, ready[i].sequence, 0, ahead, slack)
      BY <2>1, <2>3
    <3> HIDE DEF ahead
    <3>3. Within(SequenceAfter(next), ready[i].sequence, 1, ahead, slack + 1)
      BY <3>1, <3>2, WithinNext
    <3> QED
      BY <3>3 DEF ahead
  <2>4. ASSUME NEW j \in 1 .. Len(back), Numbered(back[j])
        PROVE  Within(SequenceAfter(next), back[j].sequence, 1,
                      problems + Len(ready) + (j - 1)
                        + (counted[Len(back)] - counted[j]),
                      slack + 1)
    <3> DEFINE ahead == problems + Len(ready) + (j - 1)
                          + (counted[Len(back)] - counted[j])
    <3>1. ahead \in Nat /\ back[j].sequence \in Sequences16
      <4>1. counted[Len(back)] - counted[j] \in Nat
        BY <2>2
      <4> QED
        BY <1>2, <4>1, AnswersTyped
    <3>2. Within(next, back[j].sequence, 0, ahead, slack)
      BY <2>1, <2>4
    <3> HIDE DEF ahead
    <3>3. Within(SequenceAfter(next), back[j].sequence, 1, ahead, slack + 1)
      BY <3>1, <3>2, WithinNext
    <3> QED
      BY <3>3 DEF ahead
  <2> QED
    BY <2>1, <2>3, <2>4 DEF AnswersWithin
<1>4. RequestsWithin(problems + Len(ready) + Len(back), forth, SequenceAfter(next), 1,
                     slack + 1)
  <2> DEFINE front == problems + Len(ready) + Len(back)
  <2>1. front \in Nat
    BY <1>2
  <2>2. /\ \A k \in 1 .. Len(forth) : Within(next, forth[k].sequence, 0, front + (k - 1), slack)
        /\ \A k, l \in 1 .. Len(forth) :
             k < l => Back(next, forth[l].sequence) < Back(next, forth[k].sequence)
    BY <1>1 DEF RequestsWithin
  <2> HIDE DEF front
  <2>3. ASSUME NEW k \in 1 .. Len(forth)
        PROVE  /\ Within(SequenceAfter(next), forth[k].sequence, 1, front + (k - 1), slack + 1)
               /\ Back(SequenceAfter(next), forth[k].sequence)
                    = Back(next, forth[k].sequence) + 1
               /\ Back(next, forth[k].sequence) \in Nat
    <3>1. front + (k - 1) \in Nat /\ forth[k].sequence \in Sequences16
      BY <2>1, AnswersTyped
    <3> QED
      BY <2>2, <3>1, WithinNext, BackIsNatural
  <2>4. ASSUME NEW k \in 1 .. Len(forth), NEW l \in 1 .. Len(forth), k < l
        PROVE  Back(SequenceAfter(next), forth[l].sequence)
                 < Back(SequenceAfter(next), forth[k].sequence)
    <3>1. Back(next, forth[l].sequence) < Back(next, forth[k].sequence)
      BY <2>2, <2>4
    <3> QED
      BY <2>3, <3>1
  <2> QED
    BY <2>3, <2>4 DEF RequestsWithin, front
<1>5. problems + Len(ready) + Len(back) + Len(forth) + 1 <= slack + 1
  BY <1>1, <1>2
<1> QED
  BY <1>3, <1>4, <1>5 DEF Pipeline

\* More slack, or a number that will have no frame.
LEMMA PipelineStill ==
  ASSUME NEW problems \in Nat, NEW ready \in Seq(Answers), NEW back \in Seq(Answers),
         NEW forth \in Seq(Requests), NEW next \in Sequences16,
         NEW taken \in {0, 1}, NEW fewer \in {0, taken},
         NEW slack \in Nat, NEW slack2 \in Nat, slack <= slack2,
         Pipeline(problems, ready, back, forth, next, taken, slack)
  PROVE  Pipeline(problems, ready, back, forth, next, fewer, slack2)
<1>1. /\ problems + Len(ready) + Len(back) + Len(forth) + taken <= slack
      /\ AnswersWithin(problems, ready, back, next, taken, slack)
      /\ RequestsWithin(problems + Len(ready) + Len(back), forth, next, taken, slack)
  BY DEF Pipeline
<1>2. Len(ready) \in Nat /\ Len(back) \in Nat /\ Len(forth) \in Nat
  OBVIOUS
<1>3. \A number \in Sequences16, ahead \in Nat :
        Within(next, number, taken, ahead, slack)
          => Within(next, number, fewer, ahead, slack2)
  <2> TAKE number \in Sequences16, ahead \in Nat
  <2> HAVE Within(next, number, taken, ahead, slack)
  <2>1. Back(next, number) \in Nat
    BY BackIsNatural
  <2> QED
    BY <2>1 DEF Within
<1>4. AnswersWithin(problems, ready, back, next, fewer, slack2)
  <2>1. PICK counted :
          /\ Counts(counted, back)
          /\ \A i \in 1 .. Len(ready) :
               Numbered(ready[i]) =>
                 Within(next, ready[i].sequence, taken,
                        problems + (i - 1) + counted[Len(back)], slack)
          /\ \A j \in 1 .. Len(back) :
               Numbered(back[j]) =>
                 Within(next, back[j].sequence, taken,
                        problems + Len(ready) + (j - 1)
                          + (counted[Len(back)] - counted[j]),
                        slack)
    BY <1>1 DEF AnswersWithin
  <2>2. /\ counted[Len(back)] \in Nat
        /\ \A j \in 1 .. Len(back) : counted[Len(back)] - counted[j] \in Nat
    BY <2>1, CountsAreNatural
  <2>3. ASSUME NEW i \in 1 .. Len(ready)
        PROVE  /\ problems + (i - 1) + counted[Len(back)] \in Nat
               /\ ready[i].sequence \in Sequences16
    BY <2>2, AnswersTyped
  <2>4. ASSUME NEW j \in 1 .. Len(back)
        PROVE  /\ problems + Len(ready) + (j - 1) + (counted[Len(back)] - counted[j]) \in Nat
               /\ back[j].sequence \in Sequences16
    <3>1. counted[Len(back)] - counted[j] \in Nat
      BY <2>2
    <3> QED
      BY <1>2, <3>1, AnswersTyped
  <2> QED
    BY <1>3, <2>1, <2>3, <2>4 DEF AnswersWithin
<1>5. RequestsWithin(problems + Len(ready) + Len(back), forth, next, fewer, slack2)
  <2>1. ASSUME NEW k \in 1 .. Len(forth)
        PROVE  /\ problems + Len(ready) + Len(back) + (k - 1) \in Nat
               /\ forth[k].sequence \in Sequences16
    BY <1>2, AnswersTyped
  <2> QED
    BY <1>1, <1>3, <2>1 DEF RequestsWithin
<1>6. problems + Len(ready) + Len(back) + Len(forth) + fewer <= slack2
  BY <1>1, <1>2
<1> QED
  BY <1>4, <1>5, <1>6 DEF Pipeline

\* The frame with the last number is written.
LEMMA FrameWritten ==
  ASSUME NEW problems \in Nat, NEW ready \in Seq(Answers), NEW back \in Seq(Answers),
         NEW forth \in Seq(Requests), NEW next \in Sequences16, NEW slack \in Nat,
         NEW request \in Requests, Back(next, request.sequence) = 0,
         Pipeline(problems, ready, back, forth, next, 1, slack)
  PROVE  Pipeline(problems, ready, back, Append(forth, request), next, 0, slack)
<1> DEFINE front == problems + Len(ready) + Len(back)
           longer == Append(forth, request)
<1>1. Len(ready) \in Nat /\ Len(back) \in Nat /\ Len(forth) \in Nat /\ front \in Nat
  OBVIOUS
<1>2. front + Len(forth) + 1 <= slack
  BY DEF Pipeline
<1>3. /\ \A k \in 1 .. Len(forth) : Within(next, forth[k].sequence, 1, front + (k - 1), slack)
      /\ \A k, l \in 1 .. Len(forth) :
           k < l => Back(next, forth[l].sequence) < Back(next, forth[k].sequence)
  BY DEF Pipeline, RequestsWithin
<1>4. /\ Len(longer) = Len(forth) + 1 /\ longer[Len(forth) + 1] = request
      /\ \A k \in 1 .. Len(forth) : longer[k] = forth[k]
  BY AppendIsLast
<1>5. AnswersWithin(problems, ready, back, next, 0, slack)
  <2>1. Pipeline(problems, ready, back, forth, next, 0, slack)
    BY PipelineStill
  <2> QED
    BY <2>1 DEF Pipeline
<1> HIDE DEF front, longer
<1>6. ASSUME NEW k \in 1 .. Len(longer)
      PROVE  /\ Within(next, longer[k].sequence, 0, front + (k - 1), slack)
             /\ \/ k = Len(forth) + 1 /\ Back(next, longer[k].sequence) = 0
                \/ k \in 1 .. Len(forth) /\ longer[k] = forth[k]
                   /\ 1 <= Back(next, longer[k].sequence)
  <2>1. CASE k = Len(forth) + 1
    BY <1>1, <1>2, <1>4, <2>1 DEF Within
  <2>2. CASE k # Len(forth) + 1
    <3>1. k \in 1 .. Len(forth) /\ longer[k] = forth[k]
      BY <1>1, <1>4, <2>2
    <3>2. Within(next, forth[k].sequence, 1, front + (k - 1), slack)
      BY <1>3, <3>1
    <3>3. Back(next, forth[k].sequence) \in Nat
      BY <3>1, AnswersTyped, BackIsNatural
    <3> QED
      BY <3>1, <3>2, <3>3 DEF Within
  <2> QED
    BY <2>1, <2>2
<1>7. ASSUME NEW k \in 1 .. Len(longer), NEW l \in 1 .. Len(longer), k < l
      PROVE  Back(next, longer[l].sequence) < Back(next, longer[k].sequence)
  <2>1. k \in 1 .. Len(forth) /\ longer[k] = forth[k] /\ 1 <= Back(next, longer[k].sequence)
    BY <1>1, <1>4, <1>6, <1>7
  <2>2. CASE l = Len(forth) + 1
    <3>1. Back(next, longer[l].sequence) = 0
      BY <1>1, <1>6, <2>2
    <3>2. Back(next, longer[k].sequence) \in Nat
      BY <2>1, AnswersTyped, BackIsNatural
    <3> QED
      BY <2>1, <3>1, <3>2
  <2>3. CASE l # Len(forth) + 1
    <3>1. l \in 1 .. Len(forth) /\ longer[l] = forth[l]
      BY <1>1, <1>4, <2>3
    <3> QED
      BY <1>3, <1>7, <2>1, <3>1
  <2> QED
    BY <2>2, <2>3
<1>8. RequestsWithin(front, longer, next, 0, slack)
  BY <1>6, <1>7 DEF RequestsWithin
<1>9. problems + Len(ready) + Len(back) + Len(longer) + 0 <= slack
  BY <1>1, <1>2, <1>4 DEF front
<1> QED
  BY <1>5, <1>8, <1>9 DEF Pipeline, front, longer

\* Something is put on the wire to the host, behind the rest; when it is damaged
\* the slack grows with it.
LEMMA AnswerWritten ==
  ASSUME NEW problems \in Nat, NEW ready \in Seq(Answers), NEW back \in Seq(Answers),
         NEW next \in Sequences16, NEW taken \in {0, 1},
         NEW slack \in Nat, NEW slack2 \in {slack, slack + 1}, NEW x \in Answers,
         x.kind = "garbage" => slack2 = slack + 1,
         Numbered(x) => Within(next, x.sequence, taken, problems + Len(ready) + Len(back),
                               slack2),
         AnswersWithin(problems, ready, back, next, taken, slack)
  PROVE  AnswersWithin(problems, ready, Append(back, x), next, taken, slack2)
<1> DEFINE longer == Append(back, x)
           damage == IF x.kind = "garbage" THEN 1 ELSE 0
           last == Len(back) + 1
<1>1. PICK counted :
        /\ Counts(counted, back)
        /\ \A i \in 1 .. Len(ready) :
             Numbered(ready[i]) =>
               Within(next, ready[i].sequence, taken,
                      problems + (i - 1) + counted[Len(back)], slack)
        /\ \A j \in 1 .. Len(back) :
             Numbered(back[j]) =>
               Within(next, back[j].sequence, taken,
                      problems + Len(ready) + (j - 1)
                        + (counted[Len(back)] - counted[j]),
                      slack)
  BY DEF AnswersWithin
<1>2. PICK counted2 :
        /\ Counts(counted2, longer)
        /\ \A j \in 0 .. Len(back) : counted2[j] = counted[j]
        /\ counted2[last] = IF x.kind = "garbage" THEN counted[Len(back)] + 1
                                                  ELSE counted[Len(back)]
  BY <1>1, CountAppended
<1>3. /\ Len(longer) = last /\ longer[last] = x
      /\ \A j \in 1 .. Len(back) : longer[j] = back[j]
  BY AppendIsLast
<1>4. /\ Len(ready) \in Nat /\ Len(back) \in Nat
      /\ \A j \in 0 .. Len(back) : counted[j] \in Nat
      /\ \A j \in 0 .. Len(back) : counted[Len(back)] - counted[j] \in Nat
      /\ counted[Len(back)] \in Nat
  BY <1>1, CountsAreNatural
<1>5. /\ damage \in {0, 1} /\ slack + damage <= slack2 /\ slack2 \in Nat
      /\ counted2[last] = counted[Len(back)] + damage
  BY <1>2, <1>4
<1> HIDE DEF damage, longer, last
<1>6. ASSUME NEW i \in 1 .. Len(ready), Numbered(ready[i])
      PROVE  Within(next, ready[i].sequence, taken,
                    problems + (i - 1) + counted2[last], slack2)
  <2> DEFINE ahead == problems + (i - 1) + counted[Len(back)]
             ahead2 == problems + (i - 1) + counted2[last]
  <2>1. ahead \in Nat /\ ahead2 = ahead + damage /\ ready[i].sequence \in Sequences16
    BY <1>4, <1>5, AnswersTyped
  <2>2. Within(next, ready[i].sequence, taken, ahead, slack)
    BY <1>1, <1>6
  <2> HIDE DEF ahead, ahead2
  <2>3. ahead2 \in Nat /\ ahead2 - slack2 <= ahead - slack
    BY <1>5, <2>1
  <2>4. Back(next, ready[i].sequence) \in Nat
    BY <2>1, BackIsNatural
  <2>5. Within(next, ready[i].sequence, taken, ahead2, slack2)
    BY <1>5, <2>1, <2>2, <2>3, <2>4 DEF Within
  <2> QED
    BY <2>5 DEF ahead2
<1>7. ASSUME NEW j \in 1 .. Len(longer), Numbered(longer[j])
      PROVE  Within(next, longer[j].sequence, taken,
                    problems + Len(ready) + (j - 1) + (counted2[last] - counted2[j]),
                    slack2)
  <2>1. CASE j = last
    <3>1. counted2[last] - counted2[j] = 0
      BY <1>4, <1>5, <2>1
    <3>2. problems + Len(ready) + (j - 1) + (counted2[last] - counted2[j])
            = problems + Len(ready) + Len(back)
      BY <1>4, <2>1, <3>1 DEF last
    <3>3. Within(next, longer[j].sequence, taken, problems + Len(ready) + Len(back), slack2)
      BY <1>3, <1>7, <2>1
    <3> QED
      BY <3>2, <3>3
  <2>2. CASE j # last
    <3> DEFINE ahead == problems + Len(ready) + (j - 1)
                          + (counted[Len(back)] - counted[j])
               ahead2 == problems + Len(ready) + (j - 1) + (counted2[last] - counted2[j])
    <3>1. j \in 1 .. Len(back) /\ j \in 0 .. Len(back) /\ longer[j] = back[j]
      BY <1>3, <1>4, <2>2 DEF last
    <3>2. counted2[j] = counted[j] /\ counted[j] \in Nat
          /\ counted[Len(back)] - counted[j] \in Nat
      BY <1>2, <1>4, <3>1
    <3>3. ahead \in Nat /\ ahead2 = ahead + damage /\ back[j].sequence \in Sequences16
      <4>1. back[j].sequence \in Sequences16
        BY <3>1, AnswersTyped
      <4>2. ahead \in Nat
        BY <1>4, <3>1, <3>2
      <4>3. counted2[last] - counted2[j] = (counted[Len(back)] - counted[j]) + damage
        BY <1>4, <1>5, <3>2
      <4>4. damage \in Nat
        BY <1>5
      <4> QED
        BY <1>4, <3>1, <3>2, <4>1, <4>2, <4>3, <4>4
    <3>4. Within(next, back[j].sequence, taken, ahead, slack)
      BY <1>1, <1>7, <3>1
    <3> HIDE DEF ahead, ahead2
    <3>5. ahead2 \in Nat /\ ahead2 - slack2 <= ahead - slack
      BY <1>5, <3>3
    <3>6. Back(next, back[j].sequence) \in Nat
      BY <3>3, BackIsNatural
    <3>7. Within(next, back[j].sequence, taken, ahead2, slack2)
      BY <1>5, <3>3, <3>4, <3>5, <3>6 DEF Within
    <3> QED
      BY <3>1, <3>7 DEF ahead2
  <2> QED
    BY <2>1, <2>2
<1>8. Counts(counted2, longer)
  BY <1>2
<1> QED
  BY <1>3, <1>6, <1>7, <1>8 DEF AnswersWithin, longer

\* The robot takes a frame, and its answer is as old and has as much ahead of it.
LEMMA FrameAnswered ==
  ASSUME NEW problems \in Nat, NEW ready \in Seq(Answers), NEW back \in Seq(Answers),
         NEW forth \in Seq(Requests), forth # <<>>, NEW next \in Sequences16,
         NEW taken \in {0, 1}, NEW slack \in Nat, NEW slack2 \in {slack, slack + 1},
         NEW x \in Answers, x.kind = "garbage" => slack2 = slack + 1,
         x.sequence = Head(forth).sequence,
         Pipeline(problems, ready, back, forth, next, taken, slack)
  PROVE  Pipeline(problems, ready, Append(back, x), Tail(forth), next, taken, slack2)
<1> DEFINE front == problems + Len(ready) + Len(back)
           rest == Tail(forth)
           longer == Append(back, x)
<1>1. Len(ready) \in Nat /\ Len(back) \in Nat /\ front \in Nat
  OBVIOUS
<1>2. /\ Len(forth) \in Nat \ {0} /\ Head(forth) = forth[1]
      /\ Len(rest) = Len(forth) - 1 /\ \A k \in 1 .. Len(rest) : rest[k] = forth[k + 1]
  BY TailIsRest
<1>3. /\ front + Len(forth) + taken <= slack
      /\ AnswersWithin(problems, ready, back, next, taken, slack)
      /\ \A k \in 1 .. Len(forth) :
           Within(next, forth[k].sequence, taken, front + (k - 1), slack)
      /\ \A k, l \in 1 .. Len(forth) :
           k < l => Back(next, forth[l].sequence) < Back(next, forth[k].sequence)
  BY DEF Pipeline, RequestsWithin
<1>4. Len(longer) = Len(back) + 1
  BY AppendIsLast
<1> HIDE DEF front, rest, longer
<1>5. 1 \in 1 .. Len(forth) /\ \A k \in 1 .. Len(rest) : k + 1 \in 1 .. Len(forth)
  BY <1>2
<1>6. Within(next, x.sequence, taken, front, slack2)
  <2>1. Within(next, forth[1].sequence, taken, front + (1 - 1), slack)
    BY <1>3, <1>5
  <2>2. Back(next, forth[1].sequence) \in Nat
    BY <1>5, AnswersTyped, BackIsNatural
  <2> QED
    BY <1>1, <1>2, <2>1, <2>2 DEF Within
<1>7. AnswersWithin(problems, ready, longer, next, taken, slack2)
  BY <1>3, <1>6, AnswerWritten DEF front, longer
<1>8. RequestsWithin(front + 1, rest, next, taken, slack2)
  <2>1. ASSUME NEW k \in 1 .. Len(rest)
        PROVE  Within(next, rest[k].sequence, taken, (front + 1) + (k - 1), slack2)
    <3>1. Within(next, forth[k + 1].sequence, taken, front + ((k + 1) - 1), slack)
      BY <1>3, <1>5
    <3>2. Back(next, forth[k + 1].sequence) \in Nat /\ rest[k] = forth[k + 1]
      BY <1>2, <1>5, AnswersTyped, BackIsNatural
    <3>3. /\ taken <= Back(next, rest[k].sequence)
          /\ Back(next, rest[k].sequence) + (front + ((k + 1) - 1)) <= slack
      BY <3>1, <3>2 DEF Within
    <3> QED
      BY <1>1, <3>2, <3>3 DEF Within
  <2>2. ASSUME NEW k \in 1 .. Len(rest), NEW l \in 1 .. Len(rest), k < l
        PROVE  Back(next, rest[l].sequence) < Back(next, rest[k].sequence)
    <3>1. k + 1 \in 1 .. Len(forth) /\ l + 1 \in 1 .. Len(forth) /\ k + 1 < l + 1
      BY <1>5, <2>2
    <3>2. rest[k] = forth[k + 1] /\ rest[l] = forth[l + 1]
      BY <1>2
    <3> QED
      BY <1>3, <3>1, <3>2
  <2> QED
    BY <2>1, <2>2 DEF RequestsWithin
<1>9. problems + Len(ready) + Len(longer) = front + 1
  BY <1>1, <1>4 DEF front
<1>10. problems + Len(ready) + Len(longer) + Len(rest) + taken <= slack2
  BY <1>1, <1>2, <1>3, <1>9
<1> QED
  BY <1>7, <1>8, <1>9, <1>10 DEF Pipeline, rest, longer

\* A frame or its answer is lost.
LEMMA FrameLost ==
  ASSUME NEW problems \in Nat, NEW ready \in Seq(Answers), NEW back \in Seq(Answers),
         NEW forth \in Seq(Requests), forth # <<>>, NEW next \in Sequences16,
         NEW taken \in {0, 1}, NEW slack \in Nat,
         Pipeline(problems, ready, back, forth, next, taken, slack)
  PROVE  Pipeline(problems, ready, back, Tail(forth), next, taken, slack)
<1> DEFINE front == problems + Len(ready) + Len(back)
           rest == Tail(forth)
<1>1. Len(ready) \in Nat /\ Len(back) \in Nat /\ front \in Nat
  OBVIOUS
<1>2. /\ Len(forth) \in Nat \ {0}
      /\ Len(rest) = Len(forth) - 1 /\ \A k \in 1 .. Len(rest) : rest[k] = forth[k + 1]
  BY TailIsRest
<1>3. /\ front + Len(forth) + taken <= slack
      /\ AnswersWithin(problems, ready, back, next, taken, slack)
      /\ \A k \in 1 .. Len(forth) :
           Within(next, forth[k].sequence, taken, front + (k - 1), slack)
      /\ \A k, l \in 1 .. Len(forth) :
           k < l => Back(next, forth[l].sequence) < Back(next, forth[k].sequence)
  BY DEF Pipeline, RequestsWithin
<1> HIDE DEF front, rest
<1>4. \A k \in 1 .. Len(rest) : k + 1 \in 1 .. Len(forth)
  BY <1>2
<1>5. ASSUME NEW k \in 1 .. Len(rest)
      PROVE  Within(next, rest[k].sequence, taken, front + (k - 1), slack)
  <2>1. Within(next, forth[k + 1].sequence, taken, front + ((k + 1) - 1), slack)
    BY <1>3, <1>4
  <2>2. Back(next, forth[k + 1].sequence) \in Nat /\ rest[k] = forth[k + 1]
    BY <1>2, <1>4, AnswersTyped, BackIsNatural
  <2>3. /\ taken <= Back(next, rest[k].sequence)
        /\ Back(next, rest[k].sequence) + (front + ((k + 1) - 1)) <= slack
    BY <2>1, <2>2 DEF Within
  <2> QED
    BY <1>1, <2>2, <2>3 DEF Within
<1>6. ASSUME NEW k \in 1 .. Len(rest), NEW l \in 1 .. Len(rest), k < l
      PROVE  Back(next, rest[l].sequence) < Back(next, rest[k].sequence)
  <2>1. k + 1 \in 1 .. Len(forth) /\ l + 1 \in 1 .. Len(forth) /\ k + 1 < l + 1
    BY <1>4, <1>6
  <2>2. rest[k] = forth[k + 1] /\ rest[l] = forth[l + 1]
    BY <1>2
  <2> QED
    BY <1>3, <2>1, <2>2
<1>7. RequestsWithin(front, rest, next, taken, slack)
  BY <1>5, <1>6 DEF RequestsWithin
<1>8. front + Len(rest) + taken <= slack
  BY <1>1, <1>2, <1>3
<1> QED
  BY <1>3, <1>7, <1>8 DEF Pipeline, front, rest

\* A frame that answers nothing comes in between.
LEMMA StrayWritten ==
  ASSUME NEW problems \in Nat, NEW ready \in Seq(Answers), NEW back \in Seq(Answers),
         NEW forth \in Seq(Requests), NEW next \in Sequences16,
         NEW taken \in {0, 1}, NEW slack \in Nat, NEW x \in Answers, x.kind = "other",
         Pipeline(problems, ready, back, forth, next, taken, slack)
  PROVE  Pipeline(problems, ready, Append(back, x), forth, next, taken, slack + 1)
<1> DEFINE front == problems + Len(ready) + Len(back)
           longer == Append(back, x)
<1>1. Len(ready) \in Nat /\ Len(back) \in Nat /\ Len(forth) \in Nat /\ front \in Nat
  OBVIOUS
<1>2. /\ front + Len(forth) + taken <= slack
      /\ AnswersWithin(problems, ready, back, next, taken, slack)
      /\ \A k \in 1 .. Len(forth) :
           Within(next, forth[k].sequence, taken, front + (k - 1), slack)
      /\ \A k, l \in 1 .. Len(forth) :
           k < l => Back(next, forth[l].sequence) < Back(next, forth[k].sequence)
  BY DEF Pipeline, RequestsWithin
<1>3. Len(longer) = Len(back) + 1
  BY AppendIsLast
<1>4. AnswersWithin(problems, ready, longer, next, taken, slack + 1)
  <2>1. ~Numbered(x) /\ x.kind # "garbage" /\ slack + 1 \in {slack, slack + 1}
    BY DEF Numbered
  <2> QED
    BY <1>2, <2>1, AnswerWritten
<1> HIDE DEF front, longer
<1>5. ASSUME NEW k \in 1 .. Len(forth)
      PROVE  Within(next, forth[k].sequence, taken, (front + 1) + (k - 1), slack + 1)
  <2>1. Within(next, forth[k].sequence, taken, front + (k - 1), slack)
    BY <1>2
  <2>2. Back(next, forth[k].sequence) \in Nat
    BY AnswersTyped, BackIsNatural
  <2> QED
    BY <1>1, <2>1, <2>2 DEF Within
<1>6. RequestsWithin(front + 1, forth, next, taken, slack + 1)
  BY <1>2, <1>5 DEF RequestsWithin
<1>7. problems + Len(ready) + Len(longer) = front + 1
  BY <1>1, <1>3 DEF front
<1>8. problems + Len(ready) + Len(longer) + Len(forth) + taken <= slack + 1
  BY <1>1, <1>2, <1>7
<1> QED
  BY <1>4, <1>6, <1>7, <1>8 DEF Pipeline, longer

---------------------------------------------------------------------------
(* What is read from the wire.                                             *)

ReadIn(read, problems, ready, back, n) ==
  read = [k \in 0 .. n |->
            IF k = 0 THEN [issues |-> problems, frames |-> ready]
            ELSE IF back[k].kind = "garbage"
                 THEN [issues |-> read[k - 1].issues + 1, frames |-> read[k - 1].frames]
                 ELSE [issues |-> read[k - 1].issues,
                       frames |-> Append(read[k - 1].frames, back[k])]]

LEMMA ReadExists ==
  ASSUME NEW problems, NEW ready, NEW back, NEW n \in Nat
  PROVE  \E read : ReadIn(read, problems, ready, back, n)
<1> DEFINE Step(f, k) == IF k = 0 THEN [issues |-> problems, frames |-> ready]
                         ELSE IF back[k].kind = "garbage"
                              THEN [issues |-> f[k - 1].issues + 1,
                                    frames |-> f[k - 1].frames]
                              ELSE [issues |-> f[k - 1].issues,
                                    frames |-> Append(f[k - 1].frames, back[k])]
           T == {k \in Nat : \E f : f = [m \in 0 .. k |-> Step(f, m)]}
<1>1. 0 \in T
  <2> DEFINE f == [m \in 0 .. 0 |-> [issues |-> problems, frames |-> ready]]
  <2>1. f = [m \in 0 .. 0 |-> Step(f, m)]
    OBVIOUS
  <2> QED
    BY <2>1
<1>2. ASSUME NEW k \in T PROVE k + 1 \in T
  <2>1. PICK f : f = [m \in 0 .. k |-> Step(f, m)]
    OBVIOUS
  <2> DEFINE g == [m \in 0 .. k + 1 |-> IF m = k + 1 THEN Step(f, m) ELSE f[m]]
  <2>2. \A m \in 0 .. k + 1 : g[m] = Step(g, m)
    <3> TAKE m \in 0 .. k + 1
    <3>1. CASE m = k + 1
      <4>1. m - 1 \in 0 .. k + 1 /\ m - 1 # k + 1 /\ m # 0
        BY <3>1
      <4>2. g[m] = Step(f, m) /\ g[m - 1] = f[m - 1]
        BY <3>1, <4>1
      <4> QED
        BY <4>2
    <3>2. CASE m # k + 1
      <4>1. m \in 0 .. k /\ (m # 0 => m - 1 \in 0 .. k)
        BY <3>2
      <4>2. g[m] = Step(f, m)
        BY <2>1, <3>2, <4>1
      <4>3. m # 0 => g[m - 1] = f[m - 1]
        BY <4>1
      <4> QED
        BY <4>2, <4>3
    <3> QED
      BY <3>1, <3>2
  <2>3. g = [m \in 0 .. k + 1 |-> g[m]]
    OBVIOUS
  <2> HIDE DEF g, Step
  <2>4. g = [m \in 0 .. k + 1 |-> Step(g, m)]
    BY <2>2, <2>3
  <2> QED
    BY <2>4
<1>3. T = Nat
  <2> HIDE DEF T
  <2>1. T \subseteq Nat
    BY DEF T
  <2> QED
    BY <1>1, <1>2, <2>1, EveryNumber
<1>4. n \in T
  <2> HIDE DEF T
  <2> QED
    BY <1>3
<1>5. PICK read : read = [m \in 0 .. n |-> Step(read, m)]
  <2> HIDE DEF Step
  <2> QED
    BY <1>4
<1>6. ReadIn(read, problems, ready, back, n)
  BY <1>5 DEF ReadIn
<1> QED
  BY <1>6

\* The damaged answers become issues and the others frames, in their order.
LEMMA ReadProperties ==
  ASSUME NEW problems \in Nat, NEW ready \in Seq(Answers), NEW back \in Seq(Answers),
         NEW n \in 0 .. Len(back), NEW read, ReadIn(read, problems, ready, back, n),
         NEW counted, Counts(counted, back)
  PROVE  LET got == read[n].frames
         IN /\ read[n].issues = problems + counted[n]
            /\ got \in Seq(Answers) /\ Len(got) = Len(ready) + (n - counted[n])
            /\ \A i \in 1 .. Len(got) :
                 \/ i \in 1 .. Len(ready) /\ got[i] = ready[i]
                 \/ \E j \in 1 .. n : /\ got[i] = back[j] /\ back[j].kind # "garbage"
                                      /\ i = Len(ready) + (j - counted[j])
<1> DEFINE is(k) == read[k].issues
           fr(k) == read[k].frames
           Good(k) ==
             /\ fr(k) \in Seq(Answers) /\ is(k) = problems + counted[k]
             /\ Len(fr(k)) = Len(ready) + (k - counted[k])
             /\ \A i \in 1 .. Len(fr(k)) :
                  \/ i \in 1 .. Len(ready) /\ fr(k)[i] = ready[i]
                  \/ \E j \in 1 .. k : /\ fr(k)[i] = back[j] /\ back[j].kind # "garbage"
                                       /\ i = Len(ready) + (j - counted[j])
           T == {k \in Nat : k <= n => Good(k)}
<1>0. /\ is(0) = problems /\ fr(0) = ready
      /\ \A k \in 1 .. n :
           IF back[k].kind = "garbage"
           THEN is(k) = is(k - 1) + 1 /\ fr(k) = fr(k - 1)
           ELSE is(k) = is(k - 1) /\ fr(k) = Append(fr(k - 1), back[k])
  <2> DEFINE Step(k) == IF k = 0 THEN [issues |-> problems, frames |-> ready]
                        ELSE IF back[k].kind = "garbage"
                             THEN [issues |-> read[k - 1].issues + 1,
                                   frames |-> read[k - 1].frames]
                             ELSE [issues |-> read[k - 1].issues,
                                   frames |-> Append(read[k - 1].frames, back[k])]
  <2>1. read = [k \in 0 .. n |-> Step(k)]
    BY DEF ReadIn
  <2> HIDE DEF Step
  <2>2. \A k \in 0 .. n : read[k] = Step(k)
    BY <2>1
  <2>3. read[0] = Step(0)
    BY <2>2
  <2>4. is(0) = problems /\ fr(0) = ready
    BY <2>3 DEF Step
  <2>5. ASSUME NEW k \in 1 .. n
        PROVE  IF back[k].kind = "garbage"
               THEN is(k) = is(k - 1) + 1 /\ fr(k) = fr(k - 1)
               ELSE is(k) = is(k - 1) /\ fr(k) = Append(fr(k - 1), back[k])
    <3>1. read[k] = Step(k) /\ k # 0
      BY <2>2
    <3> QED
      BY <3>1 DEF Step
  <2> QED
    BY <2>4, <2>5
<1> HIDE DEF is, fr
<1>1. 0 \in T
  <2>1. is(0) = problems /\ fr(0) = ready /\ counted[0] = 0 /\ Len(ready) \in Nat
    BY <1>0 DEF Counts
  <2>2. problems = problems + 0 /\ Len(ready) = Len(ready) + (0 - 0)
    BY <2>1
  <2>3. Good(0)
    BY <2>1, <2>2
  <2> HIDE DEF Good
  <2> QED
    BY <2>3
<1>2. ASSUME NEW m \in T PROVE m + 1 \in T
  <2>0. m \in Nat /\ m + 1 \in Nat /\ (m <= n => Good(m))
    BY <1>2
  <2>1. ASSUME m + 1 <= n PROVE Good(m + 1)
    <3>1. /\ Good(m) /\ m + 1 \in 1 .. n /\ m + 1 \in 1 .. Len(back)
          /\ (m + 1) - 1 = m /\ m \in 0 .. Len(back) /\ m + 1 \in 0 .. Len(back)
          /\ 1 .. m \subseteq 1 .. m + 1
      <4> HIDE DEF Good, T
      <4> QED
        BY <2>0, <2>1
    <3> DEFINE x == back[m + 1]
               old == fr(m)
               new == fr(m + 1)
    <3>2. /\ old \in Seq(Answers) /\ is(m) = problems + counted[m]
          /\ Len(old) = Len(ready) + (m - counted[m])
          /\ \A i \in 1 .. Len(old) :
               \/ i \in 1 .. Len(ready) /\ old[i] = ready[i]
               \/ \E j \in 1 .. m : /\ old[i] = back[j] /\ back[j].kind # "garbage"
                                    /\ i = Len(ready) + (j - counted[j])
      BY <3>1
    <3>3. IF x.kind = "garbage"
          THEN is(m + 1) = is(m) + 1 /\ new = old
          ELSE is(m + 1) = is(m) /\ new = Append(old, x)
      BY <1>0, <3>1
    <3>4. /\ counted[m + 1] = IF x.kind = "garbage" THEN counted[m] + 1 ELSE counted[m]
          /\ counted[m] \in Nat /\ x \in Answers /\ Len(ready) \in Nat
      <4> HIDE DEF T, Good
      <4>1. counted[m + 1] = IF x.kind = "garbage" THEN counted[(m + 1) - 1] + 1
                                                   ELSE counted[(m + 1) - 1]
        BY <3>1 DEF Counts
      <4>2. counted[m] \in Nat
        BY <3>1 DEF Counts
      <4>3. x \in Answers /\ Len(ready) \in Nat
        BY <3>1
      <4> QED
        BY <3>1, <4>1, <4>2, <4>3
    <3> HIDE DEF x
    <3>5. CASE x.kind = "garbage"
      <4>1. is(m + 1) = problems + counted[m + 1]
        BY <3>2, <3>3, <3>4, <3>5
      <4>2. Len(new) = Len(ready) + ((m + 1) - counted[m + 1])
        <5> DEFINE size == Len(ready)
                   gotten == Len(new)
                   part == counted[m]
                   part2 == counted[m + 1]
        <5>1. /\ size \in Nat /\ part \in Nat /\ part2 = part + 1
              /\ gotten = size + (m - part)
          BY <3>2, <3>3, <3>4, <3>5
        <5> HIDE DEF size, gotten, part, part2
        <5>2. gotten = size + ((m + 1) - part2)
          BY <2>0, <5>1
        <5> QED
          BY <5>2 DEF size, gotten, part2
      <4>3. new = old
        BY <3>3, <3>5
      <4> HIDE DEF old, new, T
      <4>4. \A i \in 1 .. Len(new) :
              \/ i \in 1 .. Len(ready) /\ new[i] = ready[i]
              \/ \E j \in 1 .. m + 1 : /\ new[i] = back[j] /\ back[j].kind # "garbage"
                                       /\ i = Len(ready) + (j - counted[j])
        BY <3>1, <3>2, <4>3
      <4> QED
        BY <3>2, <4>1, <4>2, <4>3, <4>4 DEF new
    <3>6. CASE x.kind # "garbage"
      <4> DEFINE last == Len(old) + 1
      <4> HIDE DEF old, new, T
      <4>0. new = Append(old, x) /\ is(m + 1) = is(m)
        BY <3>3, <3>6
      <4>1. /\ new \in Seq(Answers) /\ Len(old) \in Nat /\ Len(new) = last
            /\ new[last] = x /\ \A i \in 1 .. Len(old) : new[i] = old[i]
        BY <3>2, <3>4, <4>0, AppendIsLast
      <4>2. is(m + 1) = problems + counted[m + 1]
        BY <3>2, <3>4, <3>6, <4>0
      <4>3. Len(new) = Len(ready) + ((m + 1) - counted[m + 1])
        <5> DEFINE size == Len(ready)
                   gotten == Len(new)
                   part == counted[m]
                   part2 == counted[m + 1]
        <5>1. /\ size \in Nat /\ part \in Nat /\ part2 = part
              /\ gotten = (size + (m - part)) + 1
          BY <3>2, <3>4, <3>6, <4>1 DEF last
        <5> HIDE DEF size, gotten, part, part2, last
        <5>2. gotten = size + ((m + 1) - part2)
          BY <2>0, <5>1
        <5> QED
          BY <5>2 DEF size, gotten, part2
      <4>4. ASSUME NEW i \in 1 .. Len(new)
            PROVE  \/ i \in 1 .. Len(ready) /\ new[i] = ready[i]
                   \/ \E j \in 1 .. m + 1 : /\ new[i] = back[j] /\ back[j].kind # "garbage"
                                            /\ i = Len(ready) + (j - counted[j])
        <5>1. CASE i = last
          <6>1. new[i] = back[m + 1] /\ back[m + 1].kind # "garbage"
            BY <3>6, <4>1, <5>1 DEF x
          <6>2. m + 1 \in 1 .. m + 1 /\ i = Len(ready) + ((m + 1) - counted[m + 1])
            BY <2>0, <4>1, <4>3, <5>1
          <6> QED
            BY <6>1, <6>2
        <5>2. CASE i # last
          <6>1. i \in 1 .. Len(old) /\ new[i] = old[i]
            BY <4>1, <5>2
          <6> QED
            BY <3>1, <3>2, <6>1
        <5> QED
          BY <5>1, <5>2
      <4> QED
        BY <4>1, <4>2, <4>3, <4>4 DEF new
    <3> QED
      BY <3>5, <3>6
  <2> HIDE DEF Good
  <2> QED
    BY <2>0, <2>1
<1>3. Good(n)
  <2>1. T = Nat
    <3> HIDE DEF T
    <3>1. T \subseteq Nat
      BY DEF T
    <3> QED
      BY <1>1, <1>2, <3>1, EveryNumber
  <2>2. n \in T /\ n <= n
    <3> HIDE DEF T
    <3> QED
      BY <2>1
  <2> HIDE DEF Good
  <2> QED
    BY <2>2
<1> QED
  BY <1>3 DEF is, fr

LEMMA ChunkRead ==
  ASSUME NEW problems \in Nat, NEW ready \in Seq(Answers), NEW back \in Seq(Answers),
         NEW n \in 0 .. Len(back), NEW read, ReadIn(read, problems, ready, back, n),
         NEW next \in Sequences16, NEW taken \in {0, 1}, NEW slack \in Nat,
         AnswersWithin(problems, ready, back, next, taken, slack)
  PROVE  LET damage == read[n].issues
             got == read[n].frames
             rest == SubSeq(back, n + 1, Len(back))
         IN /\ damage \in Nat /\ got \in Seq(Answers) /\ rest \in Seq(Answers)
            /\ damage + Len(got) + Len(rest) = problems + Len(ready) + Len(back)
            /\ AnswersWithin(damage, got, rest, next, taken, slack)
<1> DEFINE damage == read[n].issues
           got == read[n].frames
           rest == SubSeq(back, n + 1, Len(back))
           all == Len(back)
<1>1. PICK counted :
        /\ Counts(counted, back)
        /\ \A i \in 1 .. Len(ready) :
             Numbered(ready[i]) =>
               Within(next, ready[i].sequence, taken,
                      problems + (i - 1) + counted[Len(back)], slack)
        /\ \A j \in 1 .. Len(back) :
             Numbered(back[j]) =>
               Within(next, back[j].sequence, taken,
                      problems + Len(ready) + (j - 1)
                        + (counted[Len(back)] - counted[j]),
                      slack)
  BY DEF AnswersWithin
<1>2. PICK counted2 :
        /\ Counts(counted2, rest)
        /\ \A j \in 0 .. all - n : counted2[j] = counted[j + n] - counted[n]
  BY <1>1, CountSuffix
<1>3. /\ rest \in Seq(Answers) /\ Len(rest) = all - n
      /\ \A j \in 1 .. all - n : rest[j] = back[j + n]
  BY SuffixIsRest
<1>4. /\ damage = problems + counted[n]
      /\ got \in Seq(Answers) /\ Len(got) = Len(ready) + (n - counted[n])
      /\ \A i \in 1 .. Len(got) :
           \/ i \in 1 .. Len(ready) /\ got[i] = ready[i]
           \/ \E j \in 1 .. n : /\ got[i] = back[j] /\ back[j].kind # "garbage"
                                /\ i = Len(ready) + (j - counted[j])
  BY <1>1, ReadProperties
<1>5. /\ all \in Nat /\ n \in Nat /\ n <= all /\ Len(ready) \in Nat
      /\ all \in 0 .. all /\ n \in 0 .. all
  OBVIOUS
<1>6. \A j \in 0 .. all : counted[j] \in Nat
  BY <1>1, CountsAreNatural
<1>7. counted[all] \in Nat /\ counted[n] \in Nat
  BY <1>5, <1>6
<1> HIDE DEF damage, got, rest
<1> DEFINE size == Len(ready)
           whole == counted[all]
           part == counted[n]
           whole2 == counted2[all - n]
<1>8. whole2 = whole - part
  <2>1. all - n \in 0 .. all - n /\ (all - n) + n = all
    BY <1>5
  <2> QED
    BY <1>2, <2>1
<1>13. /\ all \in Nat /\ n \in Nat /\ n <= all /\ size \in Nat
       /\ whole \in Nat /\ part \in Nat /\ damage = problems + part
       /\ Len(rest) = all - n /\ Len(got) = size + (n - part)
  BY <1>3, <1>4, <1>5, <1>7
<1> HIDE DEF all, size, whole, part, whole2
<1>9. damage \in Nat /\ damage + Len(got) + Len(rest) = problems + size + all
  <2> DEFINE left == Len(rest)
             gotten == Len(got)
  <2>1. left = all - n /\ gotten = size + (n - part)
    BY <1>13
  <2> HIDE DEF left, gotten
  <2>2. damage \in Nat /\ damage + gotten + left = problems + size + all
    BY <1>13, <2>1
  <2> QED
    BY <2>2 DEF left, gotten
<1>10. ASSUME NEW i \in 1 .. Len(got), Numbered(got[i])
       PROVE  Within(next, got[i].sequence, taken, damage + (i - 1) + whole2, slack)
  <2>1. CASE i \in 1 .. Len(ready) /\ got[i] = ready[i]
    <3>1. Within(next, ready[i].sequence, taken, problems + (i - 1) + whole, slack)
      BY <1>1, <1>10, <2>1 DEF whole, all
    <3>2. i \in Nat
      BY <2>1
    <3>3. damage + (i - 1) + whole2 = problems + (i - 1) + whole
      BY <1>8, <1>13, <3>2
    <3> QED
      BY <2>1, <3>1, <3>3
  <2>2. CASE \E j \in 1 .. n : /\ got[i] = back[j] /\ back[j].kind # "garbage"
                               /\ i = Len(ready) + (j - counted[j])
    <3>1. PICK j \in 1 .. n : got[i] = back[j] /\ i = Len(ready) + (j - counted[j])
      BY <2>2
    <3> DEFINE here == counted[j]
    <3>2. j \in 1 .. Len(back) /\ here \in Nat /\ j \in Nat /\ i = size + (j - here)
      BY <1>5, <1>6, <3>1 DEF size, all
    <3>3. Within(next, back[j].sequence, taken,
                 problems + size + (j - 1) + (whole - here), slack)
      BY <1>1, <1>10, <3>1, <3>2 DEF whole, size, all
    <3> HIDE DEF here
    <3>4. damage + (i - 1) + whole2 = problems + size + (j - 1) + (whole - here)
      BY <1>8, <1>13, <3>2
    <3> QED
      BY <3>1, <3>3, <3>4
  <2> QED
    BY <1>4, <2>1, <2>2
<1>11. ASSUME NEW j \in 1 .. Len(rest), Numbered(rest[j])
       PROVE  Within(next, rest[j].sequence, taken,
                     damage + Len(got) + (j - 1) + (whole2 - counted2[j]), slack)
  <2> DEFINE here == counted[j + n]
             here2 == counted2[j]
             gotten == Len(got)
  <2>1. /\ j \in Nat /\ j \in 0 .. all - n /\ j + n \in 1 .. Len(back)
        /\ rest[j] = back[j + n] /\ here \in Nat /\ here2 = here - part
        /\ gotten = size + (n - part)
    BY <1>2, <1>3, <1>4, <1>5, <1>6 DEF all, part, size
  <2>2. Within(next, back[j + n].sequence, taken,
               problems + size + ((j + n) - 1) + (whole - here), slack)
    BY <1>1, <1>11, <2>1 DEF whole, size, all
  <2> HIDE DEF here, here2, gotten
  <2>3. damage + gotten + (j - 1) + (whole2 - here2)
          = problems + size + ((j + n) - 1) + (whole - here)
    <3>1. /\ j \in Nat /\ here \in Nat /\ here2 = here - part
          /\ gotten = size + (n - part)
      BY <2>1
    <3> QED
      BY <1>8, <1>13, <3>1
  <2>4. Within(next, rest[j].sequence, taken,
               damage + gotten + (j - 1) + (whole2 - here2), slack)
    BY <2>1, <2>2, <2>3
  <2> QED
    BY <2>4 DEF gotten, here2
<1>12. AnswersWithin(damage, got, rest, next, taken, slack)
  <2>1. Len(rest) = all - n
    BY <1>3
  <2>2. counted2[Len(rest)] = whole2
    BY <2>1 DEF whole2
  <2> QED
    BY <1>2, <1>10, <1>11, <2>2 DEF AnswersWithin
<1> QED
  BY <1>3, <1>4, <1>9, <1>12 DEF damage, got, rest, size, all

\* One issue or the first frame is taken.
FrontTaken(problems, ready, problems2, ready2) ==
  \/ problems = problems2 + 1 /\ ready2 = ready
  \/ problems2 = problems /\ ready # <<>> /\ ready2 = Tail(ready)

\* A request that takes an issue or a frame brings everything behind it forward.
LEMMA AnswerTaken ==
  ASSUME NEW problems \in Nat, NEW ready \in Seq(Answers), NEW back \in Seq(Answers),
         NEW next \in Sequences16, NEW taken \in {0, 1}, NEW slack \in Nat,
         NEW problems2 \in Nat, NEW ready2,
         FrontTaken(problems, ready, problems2, ready2),
         AnswersWithin(problems, ready, back, next, taken, slack)
  PROVE  /\ ready2 \in Seq(Answers)
         /\ problems2 + Len(ready2) = (problems + Len(ready)) - 1
         /\ AnswersWithin(problems2, ready2, back, next, taken, slack - 1)
<1>1. PICK counted :
        /\ Counts(counted, back)
        /\ \A i \in 1 .. Len(ready) :
             Numbered(ready[i]) =>
               Within(next, ready[i].sequence, taken,
                      problems + (i - 1) + counted[Len(back)], slack)
        /\ \A j \in 1 .. Len(back) :
             Numbered(back[j]) =>
               Within(next, back[j].sequence, taken,
                      problems + Len(ready) + (j - 1)
                        + (counted[Len(back)] - counted[j]),
                      slack)
  BY DEF AnswersWithin
<1>2. /\ Len(back) \in Nat /\ Len(ready) \in Nat /\ counted[Len(back)] \in Nat
      /\ \A j \in 1 .. Len(back) : counted[Len(back)] - counted[j] \in Nat
  BY <1>1, CountsAreNatural
<1>3. /\ ready2 \in Seq(Answers) /\ Len(ready2) \in Nat
      /\ problems2 + Len(ready2) = (problems + Len(ready)) - 1
      /\ \A i \in 1 .. Len(ready2) :
           \E k \in 1 .. Len(ready) : ready2[i] = ready[k]
                                      /\ problems2 + (i - 1) = (problems + (k - 1)) - 1
  <2>1. CASE problems = problems2 + 1 /\ ready2 = ready
    BY <1>2, <2>1
  <2>2. CASE problems2 = problems /\ ready # <<>> /\ ready2 = Tail(ready)
    <3>1. /\ ready2 \in Seq(Answers) /\ Len(ready) \in Nat \ {0}
          /\ Len(ready2) = Len(ready) - 1
          /\ \A i \in 1 .. Len(ready2) : ready2[i] = ready[i + 1]
      BY <2>2, TailIsRest
    <3>2. ASSUME NEW i \in 1 .. Len(ready2)
          PROVE  \E k \in 1 .. Len(ready) :
                   ready2[i] = ready[k] /\ problems2 + (i - 1) = (problems + (k - 1)) - 1
      <4>1. /\ i + 1 \in 1 .. Len(ready) /\ ready2[i] = ready[i + 1]
            /\ problems2 + (i - 1) = (problems + ((i + 1) - 1)) - 1
        <5>1. i \in Nat /\ 1 <= i /\ i <= Len(ready) - 1
          BY <3>1
        <5>2. i + 1 \in 1 .. Len(ready) /\ (i + 1) - 1 = i
          BY <3>1, <5>1
        <5>3. problems2 + (i - 1) = (problems + ((i + 1) - 1)) - 1
          BY <2>2, <5>1, <5>2
        <5> QED
          BY <3>1, <5>2, <5>3
      <4> QED
        BY <4>1
    <3>3. Len(ready2) \in Nat /\ problems2 + Len(ready2) = (problems + Len(ready)) - 1
      <4> DEFINE size == Len(ready)
                 size2 == Len(ready2)
      <4>1. size \in Nat \ {0} /\ size2 = size - 1 /\ problems2 = problems
        BY <2>2, <3>1
      <4> HIDE DEF size, size2
      <4>2. size2 \in Nat /\ problems2 + size2 = (problems + size) - 1
        BY <4>1
      <4> QED
        BY <4>2 DEF size, size2
    <3> QED
      BY <3>1, <3>2, <3>3
  <2> QED
    BY <2>1, <2>2 DEF FrontTaken
<1>4. ASSUME NEW i \in 1 .. Len(ready2), Numbered(ready2[i])
      PROVE  Within(next, ready2[i].sequence, taken,
                    problems2 + (i - 1) + counted[Len(back)], slack - 1)
  <2>1. PICK k \in 1 .. Len(ready) : /\ ready2[i] = ready[k]
                                     /\ problems2 + (i - 1) = (problems + (k - 1)) - 1
    BY <1>3
  <2>2. Within(next, ready[k].sequence, taken,
               problems + (k - 1) + counted[Len(back)], slack)
    BY <1>1, <1>4, <2>1
  <2> DEFINE age == Back(next, ready[k].sequence)
             whole == counted[Len(back)]
  <2>3. /\ age \in Nat /\ whole \in Nat /\ i \in Nat /\ k \in Nat
        /\ taken <= age /\ age + (problems + (k - 1) + whole) <= slack
    BY <1>2, <1>3, <2>2, AnswersTyped, BackIsNatural DEF Within
  <2>4. problems2 + (i - 1) = (problems + (k - 1)) - 1
    BY <2>1
  <2> HIDE DEF age, whole
  <2>5. age + (problems2 + (i - 1) + whole) <= slack - 1
    BY <2>3, <2>4
  <2> QED
    BY <2>1, <2>3, <2>5 DEF Within, age, whole
<1>5. ASSUME NEW j \in 1 .. Len(back), Numbered(back[j])
      PROVE  Within(next, back[j].sequence, taken,
                    problems2 + Len(ready2) + (j - 1) + (counted[Len(back)] - counted[j]),
                    slack - 1)
  <2>1. Within(next, back[j].sequence, taken,
               problems + Len(ready) + (j - 1) + (counted[Len(back)] - counted[j]), slack)
    BY <1>1, <1>5
  <2> DEFINE age == Back(next, back[j].sequence)
             later == counted[Len(back)] - counted[j]
             size == Len(ready)
             size2 == Len(ready2)
  <2>2. /\ age \in Nat /\ later \in Nat /\ j \in Nat /\ size \in Nat /\ size2 \in Nat
        /\ problems2 + size2 = (problems + size) - 1
        /\ taken <= age /\ age + (problems + size + (j - 1) + later) <= slack
    BY <1>2, <1>3, <2>1, AnswersTyped, BackIsNatural DEF Within
  <2> HIDE DEF age, later, size, size2
  <2>3. age + (problems2 + size2 + (j - 1) + later) <= slack - 1
    BY <2>2
  <2> QED
    BY <2>2, <2>3 DEF Within, age, later, size2
<1>6. AnswersWithin(problems2, ready2, back, next, taken, slack - 1)
  BY <1>1, <1>4, <1>5 DEF AnswersWithin
<1> QED
  BY <1>3, <1>6

LEMMA RequestsForward ==
  ASSUME NEW ahead \in Nat, NEW forth \in Seq(Requests), NEW next \in Sequences16,
         NEW taken \in {0, 1}, NEW slack \in Nat,
         RequestsWithin(ahead, forth, next, taken, slack)
  PROVE  RequestsWithin(ahead - 1, forth, next, taken, slack - 1)
<1>1. ASSUME NEW k \in 1 .. Len(forth)
      PROVE  Within(next, forth[k].sequence, taken, (ahead - 1) + (k - 1), slack - 1)
  <2>1. Within(next, forth[k].sequence, taken, ahead + (k - 1), slack)
    BY DEF RequestsWithin
  <2>2. Back(next, forth[k].sequence) \in Nat
    BY AnswersTyped, BackIsNatural
  <2> QED
    BY <2>1, <2>2 DEF Within
<1> QED
  BY <1>1 DEF RequestsWithin

\* While the last number has no frame, nothing on the wires bears it.
LEMMA NumberIsNew ==
  ASSUME NEW problems \in Nat, NEW ready \in Seq(Answers), NEW back \in Seq(Answers),
         NEW forth \in Seq(Requests), NEW next \in Sequences16, NEW slack \in Nat,
         Pipeline(problems, ready, back, forth, next, 1, slack),
         NEW number, Back(next, number) = 0
  PROVE  /\ \A i \in 1 .. Len(ready) : Numbered(ready[i]) => ready[i].sequence # number
         /\ \A j \in 1 .. Len(back) : Numbered(back[j]) => back[j].sequence # number
         /\ \A k \in 1 .. Len(forth) : forth[k].sequence # number
  BY DEF Pipeline, AnswersWithin, RequestsWithin, Within

\* The frames on the way to the robot are in the order of their numbers.
LEMMA PipelineIsOrdered ==
  ASSUME NEW problems \in Nat, NEW ready \in Seq(Answers), NEW back \in Seq(Answers),
         NEW forth \in Seq(Requests), NEW next \in Sequences16,
         NEW taken \in {0, 1}, NEW slack \in Nat, slack + 2 <= SeqModulus,
         Pipeline(problems, ready, back, forth, next, taken, slack)
  PROVE  \A i, j \in 1 .. Len(forth) :
           i < j => (forth[j].sequence - forth[i].sequence) % SeqModulus
                      \in 1 .. SeqModulus - 2
<1> SUFFICES ASSUME NEW i \in 1 .. Len(forth), NEW j \in 1 .. Len(forth), i < j
             PROVE  (forth[j].sequence - forth[i].sequence) % SeqModulus
                      \in 1 .. SeqModulus - 2
  OBVIOUS
<1>1. /\ forth[i].sequence \in Sequences16 /\ forth[j].sequence \in Sequences16
      /\ Back(next, forth[i].sequence) \in Nat /\ SeqModulus \in Nat
  BY GatewayAssumption, AnswersTyped, BackIsNatural
<1>2. /\ Within(next, forth[i].sequence, taken,
                problems + Len(ready) + Len(back) + (i - 1), slack)
      /\ Back(next, forth[j].sequence) < Back(next, forth[i].sequence)
  BY DEF Pipeline, RequestsWithin
<1>3. problems + Len(ready) + Len(back) + (i - 1) \in Nat
  OBVIOUS
<1>4. Back(next, forth[i].sequence) + 2 <= SeqModulus
  BY <1>1, <1>2, <1>3 DEF Within
<1> QED
  BY <1>1, <1>2, <1>4, Distance

---------------------------------------------------------------------------
(* What a request takes.                                                   *)

LEMMA CountsExist ==
  ASSUME NEW s \in Seq(Answers)
  PROVE  \E counted : Counts(counted, s)
<1> DEFINE Counted(t) == \E counted : Counts(counted, t)
           T == {m \in Nat : \A t \in Seq(Answers) : Len(t) = m => Counted(t)}
<1>1. 0 \in T
  <2> SUFFICES ASSUME NEW t \in Seq(Answers), Len(t) = 0
               PROVE  Counted(t)
    OBVIOUS
  <2>1. Counts([j \in 0 .. 0 |-> 0], t)
    BY DEF Counts
  <2> QED
    BY <2>1
<1>2. ASSUME NEW m \in T PROVE m + 1 \in T
  <2> SUFFICES ASSUME NEW t \in Seq(Answers), Len(t) = m + 1
               PROVE  Counted(t)
    OBVIOUS
  <2> DEFINE front == SubSeq(t, 1, m)
             x == t[m + 1]
  <2>1. /\ front \in Seq(Answers) /\ Len(front) = m /\ x \in Answers
        /\ \A i \in 1 .. m : front[i] = t[i]
    OBVIOUS
  <2>2. Append(front, x) = t
    <3>1. Append(front, x) \in Seq(Answers) /\ Len(Append(front, x)) = m + 1
      BY <2>1
    <3>2. \A i \in 1 .. m + 1 : Append(front, x)[i] = t[i]
      BY <2>1
    <3> HIDE DEF front
    <3> QED
      BY <3>1, <3>2, SeqEqual
  <2> HIDE DEF front, x
  <2>3. PICK counted : Counts(counted, front)
    BY <2>1
  <2>4. \E counted2 : Counts(counted2, Append(front, x))
    BY <2>1, <2>3, CountAppended
  <2> QED
    BY <2>2, <2>4
<1> HIDE DEF T
<1>3. T = Nat
  <2>1. T \in SUBSET Nat
    BY DEF T
  <2> QED
    BY <1>1, <1>2, <2>1, EveryNumber
<1>4. Len(s) \in T
  BY <1>3
<1> QED
  BY <1>4 DEF T

LEMMA DecodedReads ==
  ASSUME NEW n \in Nat
  PROVE  \E read :
           /\ ReadIn(read, issues, frames, in_wire, n)
           /\ Decoded(n).issues = read[n].issues /\ Decoded(n).frames = read[n].frames
           /\ Decoded(n).rest = SubSeq(in_wire, n + 1, Len(in_wire))
<1> DEFINE read == CHOOSE f : ReadIn(f, issues, frames, in_wire, n)
<1>1. ReadIn(read, issues, frames, in_wire, n)
  BY ReadExists
<1>2. Decoded(n) = [issues |-> read[n].issues, frames |-> read[n].frames,
                    rest |-> SubSeq(in_wire, n + 1, Len(in_wire))]
  BY DEF Decoded, ReadIn
<1> HIDE DEF read
<1> QED
  BY <1>1, <1>2

Arrived(x) == \/ \E i \in 1 .. Len(frames) : frames[i] = x
              \/ \E j \in 1 .. Len(in_wire) : in_wire[j] = x

LEMMA DecodedProperties ==
  ASSUME Typed, Sound, NEW n \in ChunkSizes
  PROVE  LET batch == Decoded(n)
         IN /\ n \in 0 .. Len(in_wire)
            /\ batch.issues \in Nat /\ batch.frames \in Seq(Answers)
            /\ batch.rest \in Seq(Answers)
            /\ batch.issues > 0 \/ batch.frames # <<>>
            /\ \A i \in 1 .. Len(batch.frames) :
                 Arrived(batch.frames[i]) /\ batch.frames[i].kind # "garbage"
<1> DEFINE batch == Decoded(n)
<1>1. /\ in_wire \in Seq(Answers) /\ frames \in Seq(Answers) /\ issues \in Nat
  BY DEF Typed
<1>2. n \in 0 .. Len(in_wire) /\ (n = 0 => issues > 0 \/ frames # <<>>)
  BY <1>1 DEF ChunkSizes
<1>3. PICK read : /\ ReadIn(read, issues, frames, in_wire, n)
                  /\ batch.issues = read[n].issues /\ batch.frames = read[n].frames
                  /\ batch.rest = SubSeq(in_wire, n + 1, Len(in_wire))
  BY <1>2, DecodedReads
<1> HIDE DEF batch
<1>4. PICK counted : Counts(counted, in_wire)
  BY <1>1, CountsExist
<1>5. /\ read[n].issues = issues + counted[n]
      /\ batch.frames \in Seq(Answers)
      /\ Len(batch.frames) = Len(frames) + (n - counted[n])
      /\ \A i \in 1 .. Len(batch.frames) :
           \/ i \in 1 .. Len(frames) /\ batch.frames[i] = frames[i]
           \/ \E j \in 1 .. n : /\ batch.frames[i] = in_wire[j]
                                /\ in_wire[j].kind # "garbage"
                                /\ i = Len(frames) + (j - counted[j])
  BY <1>1, <1>2, <1>3, <1>4, ReadProperties
<1>6. counted[n] \in Nat
  BY <1>1, <1>2, <1>4, CountsAreNatural
<1>7. batch.rest \in Seq(Answers)
  BY <1>1, <1>2, <1>3, SuffixIsRest
<1>8. batch.issues \in Nat /\ (batch.issues > 0 \/ batch.frames # <<>>)
  <2> DEFINE part == counted[n]
             size == Len(frames)
             gotten == Len(batch.frames)
             damage == batch.issues
  <2>1. /\ part \in Nat /\ size \in Nat /\ n \in Nat /\ gotten = size + (n - part)
        /\ damage = issues + part /\ (n = 0 => issues > 0 \/ size > 0)
    BY <1>1, <1>2, <1>3, <1>5, <1>6
  <2> HIDE DEF part, size, gotten, damage
  <2>2. damage \in Nat /\ (damage > 0 \/ gotten > 0)
    BY <1>1, <2>1
  <2> QED
    BY <1>5, <2>2 DEF gotten, damage
<1>9. ASSUME NEW i \in 1 .. Len(batch.frames)
      PROVE  Arrived(batch.frames[i]) /\ batch.frames[i].kind # "garbage"
  <2>1. CASE i \in 1 .. Len(frames) /\ batch.frames[i] = frames[i]
    BY <2>1 DEF Sound, Arrived
  <2>2. CASE \E j \in 1 .. n : /\ batch.frames[i] = in_wire[j]
                               /\ in_wire[j].kind # "garbage"
                               /\ i = Len(frames) + (j - counted[j])
    <3>1. PICK j \in 1 .. n : /\ batch.frames[i] = in_wire[j]
                              /\ in_wire[j].kind # "garbage"
      BY <2>2
    <3>2. j \in 1 .. Len(in_wire)
      BY <1>2
    <3> QED
      BY <3>1, <3>2 DEF Arrived
  <2> QED
    BY <1>5, <2>1, <2>2
<1> QED
  BY <1>2, <1>5, <1>7, <1>8, <1>9 DEF batch

\* What one Take leaves, and what the caller is told.
LEMMA TakeEnds ==
  ASSUME Typed, Sound, NEW c \in Tasks, NEW queue, NEW request \in Requests,
         NEW n \in ChunkSizes, Take(c, queue, request, n)
  PROVE  /\ in_wire' \in Seq(Answers) /\ frames' \in Seq(Answers) /\ issues' \in Nat
         /\ Sound'
         /\ \E outcome \in Outcomes, answered \in Ids \cup {NoId} :
              /\ Finish(c, queue, outcome, request.id, answered)
              /\ outcome \in {"receipt", "rejected"} =>
                   \E x : /\ Arrived(x) /\ Numbered(x) /\ x.sequence = request.sequence
                          /\ x.id = answered
<1> DEFINE batch == Decoded(n)
           answer == Head(batch.frames)
<1>1. /\ batch.issues \in Nat /\ batch.frames \in Seq(Answers)
      /\ batch.rest \in Seq(Answers)
      /\ batch.issues > 0 \/ batch.frames # <<>>
      /\ \A i \in 1 .. Len(batch.frames) :
           Arrived(batch.frames[i]) /\ batch.frames[i].kind # "garbage"
  BY DecodedProperties
<1>2. /\ in_wire' = batch.rest
      /\ \/ /\ batch.issues > 0
            /\ issues' = batch.issues - 1 /\ frames' = batch.frames
            /\ Finish(c, queue, "ack_failed", request.id, NoId)
         \/ /\ batch.issues = 0
            /\ issues' = 0 /\ frames' = Tail(batch.frames)
            /\ Finish(c, queue, Judgement(answer, request.sequence), request.id,
                      answer.id)
  BY DEF Take
<1> HIDE DEF batch
<1>3. CASE /\ batch.issues > 0
           /\ issues' = batch.issues - 1 /\ frames' = batch.frames
           /\ Finish(c, queue, "ack_failed", request.id, NoId)
  <2>1. Sound'
    BY <1>1, <1>3 DEF Sound
  <2>2. issues' \in Nat
    BY <1>1, <1>3
  <2>3. "ack_failed" \in Outcomes /\ NoId \in Ids \cup {NoId}
    BY DEF Outcomes
  <2> QED
    BY <1>1, <1>2, <1>3, <2>1, <2>2, <2>3
<1>4. CASE /\ batch.issues = 0
           /\ issues' = 0 /\ frames' = Tail(batch.frames)
           /\ Finish(c, queue, Judgement(answer, request.sequence), request.id,
                     answer.id)
  <2>1. batch.frames # <<>>
    BY <1>1, <1>4
  <2>2. /\ frames' \in Seq(Answers) /\ Len(batch.frames) \in Nat \ {0}
        /\ answer \in Answers /\ answer = batch.frames[1]
        /\ Len(frames') = Len(batch.frames) - 1
        /\ \A i \in 1 .. Len(frames') : frames'[i] = batch.frames[i + 1]
    BY <1>1, <1>4, <2>1, TailIsRest
  <2>3. Sound'
    <3>1. ASSUME NEW i \in 1 .. Len(frames')
          PROVE  frames'[i].kind # "garbage"
      <4>1. i + 1 \in 1 .. Len(batch.frames)
        BY <2>2
      <4> QED
        BY <1>1, <2>2, <4>1
    <3> QED
      BY <3>1 DEF Sound
  <2>4. Arrived(answer) /\ answer.kind # "garbage"
    <3>1. 1 \in 1 .. Len(batch.frames)
      BY <2>2
    <3> QED
      BY <1>1, <2>2, <3>1
  <2> HIDE DEF answer
  <2> DEFINE outcome == Judgement(answer, request.sequence)
  <2>5. /\ outcome \in Outcomes
        /\ outcome \in {"receipt", "rejected"} =>
             Numbered(answer) /\ answer.sequence = request.sequence
    BY <2>2, <2>4 DEF Judgement, Outcomes, Numbered, Answers
  <2>6. answer.id \in Ids \cup {NoId}
    BY <2>2 DEF Answers
  <2>7. Finish(c, queue, outcome, request.id, answer.id)
    BY <1>4
  <2> HIDE DEF outcome
  <2> QED
    BY <1>1, <1>2, <1>4, <2>2, <2>3, <2>4, <2>5, <2>6, <2>7
<1> QED
  BY <1>2, <1>3, <1>4

LEMMA TakeForward ==
  ASSUME Typed, Sound, NEW c, NEW queue, NEW request, NEW n \in ChunkSizes,
         Take(c, queue, request, n),
         NEW forth \in Seq(Requests), NEW next \in Sequences16,
         NEW taken \in {0, 1}, NEW slack \in Nat,
         Pipeline(issues, frames, in_wire, forth, next, taken, slack)
  PROVE  Pipeline(issues', frames', in_wire', forth, next, taken, slack - 1)
<1> DEFINE batch == Decoded(n)
           damage == batch.issues
           got == batch.frames
           rest == batch.rest
<1>1. /\ in_wire \in Seq(Answers) /\ frames \in Seq(Answers) /\ issues \in Nat
      /\ n \in 0 .. Len(in_wire)
      /\ damage > 0 \/ got # <<>>
  BY DecodedProperties DEF Typed
<1>2. /\ issues + Len(frames) + Len(in_wire) + Len(forth) + taken <= slack
      /\ AnswersWithin(issues, frames, in_wire, next, taken, slack)
      /\ RequestsWithin(issues + Len(frames) + Len(in_wire), forth, next, taken, slack)
  BY DEF Pipeline
<1>3. /\ damage \in Nat /\ got \in Seq(Answers) /\ rest \in Seq(Answers)
      /\ damage + Len(got) + Len(rest) = issues + Len(frames) + Len(in_wire)
      /\ AnswersWithin(damage, got, rest, next, taken, slack)
  <2>1. PICK read : /\ ReadIn(read, issues, frames, in_wire, n)
                    /\ damage = read[n].issues /\ got = read[n].frames
                    /\ rest = SubSeq(in_wire, n + 1, Len(in_wire))
    BY <1>1, DecodedReads
  <2> HIDE DEF damage, got, rest
  <2> DEFINE rest2 == SubSeq(in_wire, n + 1, Len(in_wire))
  <2>2. /\ read[n].issues \in Nat /\ read[n].frames \in Seq(Answers)
        /\ rest2 \in Seq(Answers)
        /\ read[n].issues + Len(read[n].frames) + Len(rest2)
             = issues + Len(frames) + Len(in_wire)
        /\ AnswersWithin(read[n].issues, read[n].frames, rest2, next, taken, slack)
    BY <1>1, <1>2, <2>1, ChunkRead
  <2> QED
    BY <2>1, <2>2
<1>4. /\ in_wire' = rest
      /\ \/ damage > 0 /\ issues' = damage - 1 /\ frames' = got
         \/ damage = 0 /\ issues' = 0 /\ frames' = Tail(got)
  BY DEF Take
<1> HIDE DEF batch, damage, got, rest
<1> DEFINE left2 == issues'
           ready2 == frames'
<1>5. /\ left2 \in Nat
      /\ \/ damage = left2 + 1 /\ ready2 = got
         \/ left2 = damage /\ got # <<>> /\ ready2 = Tail(got)
  <2>1. damage \in Nat
    BY <1>3
  <2>2. CASE damage > 0 /\ left2 = damage - 1 /\ ready2 = got
    <3>1. left2 \in Nat /\ damage = left2 + 1
      BY <2>1, <2>2
    <3> QED
      BY <2>2, <3>1
  <2>3. CASE damage = 0 /\ left2 = 0 /\ ready2 = Tail(got)
    <3>1. ~(damage > 0)
      BY <2>3
    <3> QED
      BY <1>1, <2>3, <3>1
  <2> QED
    BY <1>4, <2>2, <2>3
<1> HIDE DEF left2, ready2
<1>6. /\ ready2 \in Seq(Answers)
      /\ left2 + Len(ready2) = (damage + Len(got)) - 1
      /\ AnswersWithin(left2, ready2, rest, next, taken, slack - 1)
  <2>1. /\ damage \in Nat /\ got \in Seq(Answers) /\ rest \in Seq(Answers)
        /\ left2 \in Nat /\ AnswersWithin(damage, got, rest, next, taken, slack)
    BY <1>3, <1>5
  <2>2. FrontTaken(damage, got, left2, ready2)
    BY <1>5 DEF FrontTaken
  <2> QED
    BY <2>1, <2>2, AnswerTaken
<1> DEFINE ahead == issues + Len(frames) + Len(in_wire)
<1>7. /\ ahead \in Nat /\ left2 + Len(ready2) + Len(rest) = ahead - 1
      /\ ahead + Len(forth) + taken <= slack
  <2> DEFINE size == Len(got)
             size2 == Len(ready2)
             left == Len(rest)
             further == Len(forth)
  <2>1. /\ size \in Nat /\ size2 \in Nat /\ left \in Nat /\ ahead \in Nat
        /\ left2 + size2 = (damage + size) - 1 /\ damage + size + left = ahead
        /\ ahead + further + taken <= slack
    BY <1>1, <1>2, <1>3, <1>6
  <2>2. damage \in Nat /\ left2 \in Nat
    BY <1>3, <1>5
  <2> HIDE DEF size, size2, left, further, ahead
  <2>3. left2 + size2 + left = ahead - 1
    BY <2>1, <2>2
  <2> QED
    BY <2>1, <2>3 DEF size2, left, further
<1>8. RequestsWithin(ahead - 1, forth, next, taken, slack - 1)
  <2>1. RequestsWithin(ahead, forth, next, taken, slack)
    BY <1>2
  <2> HIDE DEF ahead
  <2> QED
    BY <1>7, <2>1, RequestsForward
<1>9. left2 + Len(ready2) + Len(rest) + Len(forth) + taken <= slack - 1
  <2> DEFINE further == Len(forth)
             now == left2 + Len(ready2) + Len(rest)
  <2>1. further \in Nat /\ now = ahead - 1 /\ ahead + further + taken <= slack
    BY <1>7
  <2> HIDE DEF further, now, ahead
  <2>2. now + further + taken <= slack - 1
    BY <1>7, <2>1
  <2> QED
    BY <2>2 DEF further, now
<1> HIDE DEF ahead
<1> QED
  BY <1>4, <1>6, <1>7, <1>8, <1>9 DEF Pipeline, left2, ready2

---------------------------------------------------------------------------
(* The lock.                                                               *)

\* The queue is the others' as it should be.
Held(c, queue) ==
  /\ queue \in Seq(Tasks) /\ Once(queue)
  /\ \A d \in Tasks \ {c} :
       /\ task[d].pc # "idle" <=> IsIn(d, queue)
       /\ Sending(d) \/ Receiving(d) =>
            queue # <<>> /\ queue[1] = d /\ task[d].id \in Ids

\* The task has the lock.
Runs(c, queue) ==
  /\ Held(c, queue) /\ queue # <<>> /\ queue[1] = c
  /\ \A d \in Tasks \ {c} : ~Sending(d) /\ ~Receiving(d)

LEMMA QueueIsHeld ==
  ASSUME Typed, Locked, NEW c \in Tasks
  PROVE  /\ Held(c, lock_queue)
         /\ lock_queue = <<>> => Runs(c, <<c>>)
         /\ lock_queue # <<>> /\ lock_queue[1] = c => Runs(c, lock_queue)
<1>1. Held(c, lock_queue)
  BY DEF Typed, Locked, Held
<1>2. ASSUME lock_queue = <<>> PROVE Runs(c, <<c>>)
  <2>1. \A d \in Tasks : task[d].pc = "idle"
    BY <1>2 DEF Locked, IsIn
  <2>2. \A d \in Tasks \ {c} : ~IsIn(d, <<c>>) /\ ~Sending(d) /\ ~Receiving(d)
    BY <2>1 DEF IsIn, Sending, Receiving
  <2>3. <<c>> \in Seq(Tasks) /\ Once(<<c>>) /\ <<c>> # <<>> /\ <<c>>[1] = c
    BY DEF Once
  <2> QED
    BY <2>1, <2>2, <2>3 DEF Runs, Held
<1>3. ASSUME lock_queue # <<>>, lock_queue[1] = c PROVE Runs(c, lock_queue)
  <2>1. \A d \in Tasks \ {c} : ~Sending(d) /\ ~Receiving(d)
    BY <1>3 DEF Locked
  <2> QED
    BY <1>1, <1>3, <2>1 DEF Runs
<1> QED
  BY <1>1, <1>2, <1>3

\* Whoever is not at rest finds the queue's head where Head looks for it.
LEMMA HeadIsFirst ==
  ASSUME Typed, Locked, NEW c \in Tasks, task[c].pc # "idle"
  PROVE  lock_queue # <<>> /\ Head(lock_queue) = lock_queue[1]
<1>1. PICK i \in 1 .. Len(lock_queue) : lock_queue[i] = c
  BY DEF Locked, IsIn
<1>2. lock_queue \in Seq(Tasks)
  BY DEF Typed
<1> QED
  BY <1>1, <1>2

LEMMA Finished ==
  ASSUME Typed, NEW c \in Tasks, NEW queue, Held(c, queue),
         NEW outcome \in Outcomes, NEW id \in Ids \cup {NoId},
         NEW answered \in Ids \cup {NoId}, Finish(c, queue, outcome, id, answered)
  PROVE  /\ lock_queue' \in Seq(Tasks) /\ task' \in [Tasks -> TaskStates] /\ Locked'
         /\ task'[c] = AtRest(outcome, id, answered)
         /\ \A d \in Tasks \ {c} : task'[d] = task[d]
<1> DEFINE r == RemoveFirst(queue, c)
<1>1. task' = [task EXCEPT ![c] = AtRest(outcome, id, answered)] /\ lock_queue' = r
  BY DEF Finish, Released
<1>2. task \in [Tasks -> TaskStates]
  BY DEF Typed
<1>3. AtRest(outcome, id, answered) \in TaskStates
  BY GatewayAssumption DEF AtRest, TaskStates, Sequences16
<1>4. /\ task' \in [Tasks -> TaskStates]
      /\ task'[c] = AtRest(outcome, id, answered)
      /\ \A d \in Tasks \ {c} : task'[d] = task[d]
  BY <1>1, <1>2, <1>3
<1>5. task'[c].pc = "idle"
  BY <1>4 DEF AtRest
<1>6. queue \in Seq(Tasks) /\ Once(queue)
  BY DEF Held
<1>7. /\ r \in Seq(Tasks) /\ Once(r)
      /\ \A j \in 1 .. Len(r) : r[j] # c
      /\ \A j \in 1 .. Len(r) : \E i \in 1 .. Len(queue) : r[j] = queue[i]
      /\ \A i \in 1 .. Len(queue) :
           queue[i] # c => \E j \in 1 .. Len(r) : r[j] = queue[i]
      /\ queue # <<>> /\ queue[1] # c => r # <<>> /\ r[1] = queue[1]
  BY <1>6, RemoveFirstProperties
<1> HIDE DEF r
<1>8. ASSUME NEW d \in Tasks
      PROVE  /\ task'[d].pc # "idle" <=> IsIn(d, r)
             /\ task'[d].pc \in {"sending", "receiving"} =>
                  r # <<>> /\ r[1] = d /\ task'[d].id \in Ids
  <2>1. CASE d = c
    BY <1>5, <1>7, <2>1 DEF IsIn
  <2>2. CASE d # c
    <3>1. IsIn(d, r) <=> IsIn(d, queue)
      <4>1. ASSUME IsIn(d, r) PROVE IsIn(d, queue)
        <5>1. PICK j \in 1 .. Len(r) : r[j] = d
          BY <4>1 DEF IsIn
        <5>2. PICK i \in 1 .. Len(queue) : r[j] = queue[i]
          BY <1>7
        <5> QED
          BY <5>1, <5>2 DEF IsIn
      <4>2. ASSUME IsIn(d, queue) PROVE IsIn(d, r)
        <5>1. PICK i \in 1 .. Len(queue) : queue[i] = d
          BY <4>2 DEF IsIn
        <5>2. PICK j \in 1 .. Len(r) : r[j] = queue[i]
          BY <1>7, <2>2, <5>1
        <5> QED
          BY <5>1, <5>2 DEF IsIn
      <4> QED
        BY <4>1, <4>2
    <3>2. /\ task'[d] = task[d]
          /\ task[d].pc # "idle" <=> IsIn(d, queue)
          /\ task[d].pc \in {"sending", "receiving"} =>
               queue # <<>> /\ queue[1] = d /\ task[d].id \in Ids
      BY <1>4, <2>2 DEF Held, Sending, Receiving
    <3> QED
      BY <1>7, <2>2, <3>1, <3>2
  <2> QED
    BY <2>1, <2>2
<1>9. Locked'
  BY <1>1, <1>7, <1>8 DEF Locked, IsIn, Sending, Receiving, Once
<1> QED
  BY <1>1, <1>4, <1>7, <1>9

LEMMA Waited ==
  ASSUME Typed, NEW c \in Tasks, NEW queue, Runs(c, queue),
         NEW pc \in {"sending", "receiving"}, NEW request \in Requests,
         Wait(c, queue, pc, request)
  PROVE  /\ lock_queue' \in Seq(Tasks) /\ task' \in [Tasks -> TaskStates] /\ Locked'
         /\ task'[c].pc = pc /\ task'[c].outcome = "none"
         /\ task'[c].sequence = request.sequence /\ task'[c].id = request.id
         /\ \A d \in Tasks \ {c} : task'[d] = task[d]
<1> DEFINE waiting == [pc |-> pc, sequence |-> request.sequence, id |-> request.id,
                       outcome |-> "none", answered |-> NoId]
<1>1. task' = [task EXCEPT ![c] = waiting] /\ lock_queue' = queue
  BY DEF Wait
<1>2. task \in [Tasks -> TaskStates]
  BY DEF Typed
<1>3. waiting \in TaskStates
  BY DEF TaskStates, Outcomes, Requests
<1> HIDE DEF waiting
<1>4. /\ task' \in [Tasks -> TaskStates] /\ task'[c] = waiting
      /\ \A d \in Tasks \ {c} : task'[d] = task[d]
  BY <1>1, <1>2, <1>3
<1>5. /\ task'[c].pc = pc /\ task'[c].outcome = "none"
      /\ task'[c].sequence = request.sequence /\ task'[c].id = request.id
  BY <1>4 DEF waiting
<1>6. /\ queue \in Seq(Tasks) /\ Once(queue) /\ queue # <<>> /\ queue[1] = c
      /\ \A d \in Tasks \ {c} : /\ task[d].pc # "idle" <=> IsIn(d, queue)
                                /\ task[d].pc \notin {"sending", "receiving"}
  BY DEF Runs, Held, Sending, Receiving
<1>7. IsIn(c, queue)
  <2>1. 1 \in 1 .. Len(queue)
    BY <1>6
  <2> QED
    BY <1>6, <2>1 DEF IsIn
<1>8. ASSUME NEW d \in Tasks
      PROVE  /\ task'[d].pc # "idle" <=> IsIn(d, queue)
             /\ task'[d].pc \in {"sending", "receiving"} =>
                  queue # <<>> /\ queue[1] = d /\ task'[d].id \in Ids
  BY <1>4, <1>5, <1>6, <1>7 DEF Requests
<1>9. Locked'
  BY <1>1, <1>6, <1>8 DEF Locked, IsIn, Sending, Receiving, Once
<1> QED
  BY <1>1, <1>4, <1>5, <1>6, <1>9

---------------------------------------------------------------------------
(* What holds whatever the numbers do.                                     *)

LEMMA NothingToTake ==
  ASSUME Typed, ChunkSizes = {}
  PROVE  issues = 0 /\ frames = <<>> /\ in_wire = <<>>
<1>1. issues \in Nat /\ frames \in Seq(Answers) /\ in_wire \in Seq(Answers)
  BY DEF Typed
<1>2. ~(issues > 0 \/ frames # <<>>) /\ 1 .. Len(in_wire) = {}
  BY DEF ChunkSizes
<1>3. issues = 0 /\ frames = <<>>
  BY <1>1, <1>2
<1>4. in_wire = <<>>
  <2>1. CASE in_wire # <<>>
    <3>1. 1 \in 1 .. Len(in_wire)
      BY <1>1, <2>1
    <3> QED
      BY <1>2, <3>1
  <2> QED
    BY <2>1
<1> QED
  BY <1>3, <1>4

LEMMA WrittenBase ==
  ASSUME Base, NEW c \in Tasks, NEW queue, Runs(c, queue), NEW request \in Requests,
         WriteThenReceive(c, queue, request), UNCHANGED <<link, disturbed>>,
         next_sequence' \in Sequences16, sent' \in Ids
  PROVE  Base'
<1>1. Typed /\ Sound /\ WaitsForNew /\ Held(c, queue) /\ request.id \in Ids \cup {NoId}
  BY DEF Base, Runs, Requests
<1>2. out_wire' \in Seq(Requests)
  BY <1>1, AppendIsLast DEF Typed, WriteThenReceive
<1>3. CASE /\ ChunkSizes = {}
           /\ Wait(c, queue, "receiving", request)
           /\ UNCHANGED received
  <2>1. lock_queue' \in Seq(Tasks) /\ task' \in [Tasks -> TaskStates] /\ Locked'
    BY <1>1, <1>3, Waited
  <2>2. in_wire' = in_wire /\ frames' = frames /\ issues' = issues
    BY <1>3 DEF received
  <2>3. Typed'
    BY <1>1, <1>2, <2>1, <2>2 DEF Typed
  <2>4. WaitsForNew'
    BY <1>1, <1>3, <2>2, NothingToTake DEF WaitsForNew
  <2>5. Sound'
    BY <1>1, <2>2 DEF Sound
  <2> QED
    BY <2>1, <2>3, <2>4, <2>5 DEF Base
<1>4. CASE \E n \in ChunkSizes : Take(c, queue, request, n)
  <2>1. PICK n \in ChunkSizes : Take(c, queue, request, n)
    BY <1>4
  <2>2. /\ in_wire' \in Seq(Answers) /\ frames' \in Seq(Answers) /\ issues' \in Nat
        /\ Sound'
        /\ \E outcome \in Outcomes, answered \in Ids \cup {NoId} :
             Finish(c, queue, outcome, request.id, answered)
    BY <1>1, <2>1, TakeEnds
  <2>3. PICK outcome \in Outcomes, answered \in Ids \cup {NoId} :
          Finish(c, queue, outcome, request.id, answered)
    BY <2>2
  <2>4. /\ lock_queue' \in Seq(Tasks) /\ task' \in [Tasks -> TaskStates] /\ Locked'
        /\ task'[c] = AtRest(outcome, request.id, answered)
        /\ \A d \in Tasks \ {c} : task'[d] = task[d]
    BY <1>1, <2>3, Finished
  <2>5. Typed'
    BY <1>1, <1>2, <2>2, <2>4 DEF Typed
  <2>6. \A d \in Tasks : task'[d].pc # "receiving"
    BY <2>4 DEF Runs, Sending, Receiving, AtRest
  <2>7. WaitsForNew'
    BY <2>6 DEF WaitsForNew, Receiving
  <2> QED
    BY <2>2, <2>4, <2>5, <2>7 DEF Base
<1> QED
  BY <1>3, <1>4 DEF WriteThenReceive

\* A request ends and touches nothing else.
LEMMA EndedBase ==
  ASSUME Base, NEW c \in Tasks, NEW queue, Held(c, queue), NEW outcome \in Outcomes,
         NEW id \in Ids \cup {NoId}, Finish(c, queue, outcome, id, NoId),
         UNCHANGED <<link, out_wire, received>>,
         next_sequence' \in Sequences16, sent' \in Ids,
         disturbed'.number \in 0 .. MaxDisturbances
  PROVE  Base'
<1>1. /\ lock_queue' \in Seq(Tasks) /\ task' \in [Tasks -> TaskStates] /\ Locked'
      /\ task'[c] = AtRest(outcome, id, NoId)
      /\ \A d \in Tasks \ {c} : task'[d] = task[d]
  BY Finished DEF Base
<1>2. in_wire' = in_wire /\ frames' = frames /\ issues' = issues
  BY DEF received
<1>3. Typed'
  BY <1>1, <1>2 DEF Typed, Base
<1>4. WaitsForNew'
  <2>1. \A d \in Tasks : Receiving(d)' => Receiving(d)
    BY <1>1 DEF Receiving, AtRest
  <2> QED
    BY <1>2, <2>1 DEF WaitsForNew, Base
<1>5. Sound'
  BY <1>2 DEF Sound, Base
<1> QED
  BY <1>1, <1>3, <1>4, <1>5 DEF Base

LEMMA IdsAreCounted == Cardinality(Ids) = 2 * SeqModulus
<1>1. 0 \in Int /\ 2 * SeqModulus - 1 \in Int /\ 0 <= 2 * SeqModulus - 1
  BY GatewayAssumption
<1>2. Cardinality(0 .. 2 * SeqModulus - 1) = (2 * SeqModulus - 1) - 0 + 1
  BY <1>1, FS_Interval
<1>3. (2 * SeqModulus - 1) - 0 + 1 = 2 * SeqModulus
  BY GatewayAssumption
<1> QED
  BY <1>2, <1>3 DEF Ids

LEMMA BegunBase ==
  ASSUME Base, NEW c \in Tasks, NEW queue, Runs(c, queue), RunLocked(c, queue)
  PROVE  Base'
<1> DEFINE request == [sequence |-> next_sequence, id |-> sent]
<1>1. /\ Typed /\ Held(c, queue) /\ next_sequence \in Sequences16 /\ sent \in Ids
      /\ disturbed.number \in 0 .. MaxDisturbances
  BY DEF Base, Typed, Runs
<1>2. request \in Requests /\ request.id \in Ids \cup {NoId}
  BY <1>1 DEF Requests
<1>3. next_sequence' \in Sequences16
  BY <1>1, NextNumber DEF RunLocked
<1>4. sent' \in Ids
  <2>1. sent' = (sent + 1) % (2 * SeqModulus)
    BY IdsAreCounted DEF RunLocked
  <2>2. 2 * SeqModulus \in Nat \ {0} /\ sent + 1 \in Int
    BY <1>1, GatewayAssumption DEF Ids
  <2>3. (sent + 1) % (2 * SeqModulus) \in 0 .. 2 * SeqModulus - 1
    BY <2>2
  <2> QED
    BY <2>1, <2>3 DEF Ids
<1>5. UNCHANGED <<link, disturbed>>
  BY DEF RunLocked
<1>6. \/ /\ Finish(c, queue, "send_failed", request.id, NoId)
         /\ UNCHANGED <<out_wire, received>>
      \/ /\ Wait(c, queue, "sending", request)
         /\ UNCHANGED <<out_wire, received>>
      \/ WriteThenReceive(c, queue, request)
  BY DEF RunLocked
<1> HIDE DEF request
<1>7. CASE /\ Finish(c, queue, "send_failed", request.id, NoId)
           /\ UNCHANGED <<out_wire, received>>
  <2>1. "send_failed" \in Outcomes
    BY DEF Outcomes
  <2> QED
    BY <1>1, <1>2, <1>3, <1>4, <1>5, <1>7, <2>1, EndedBase
<1>8. CASE /\ Wait(c, queue, "sending", request)
           /\ UNCHANGED <<out_wire, received>>
  <2>1. /\ lock_queue' \in Seq(Tasks) /\ task' \in [Tasks -> TaskStates] /\ Locked'
        /\ task'[c].pc = "sending" /\ \A d \in Tasks \ {c} : task'[d] = task[d]
    BY <1>1, <1>2, <1>8, Waited
  <2>2. in_wire' = in_wire /\ frames' = frames /\ issues' = issues
    BY <1>8 DEF received
  <2>3. Typed'
    BY <1>1, <1>3, <1>4, <1>5, <1>8, <2>1, <2>2 DEF Typed
  <2>4. WaitsForNew'
    <3>1. \A d \in Tasks : Receiving(d)' => Receiving(d)
      BY <2>1 DEF Receiving
    <3> QED
      BY <2>2, <3>1 DEF WaitsForNew, Base
  <2>5. Sound'
    BY <2>2 DEF Sound, Base
  <2> QED
    BY <2>1, <2>3, <2>4, <2>5 DEF Base
<1>9. CASE WriteThenReceive(c, queue, request)
  BY <1>2, <1>3, <1>4, <1>5, <1>9, WrittenBase
<1> QED
  BY <1>6, <1>7, <1>8, <1>9

LEMMA BaseHolds == Init => Base
<1> SUFFICES ASSUME Init PROVE Base
  OBVIOUS
<1>1. \A c \in Tasks : task[c].pc = "idle"
  BY DEF Init, AtRest
<1>2. Typed
  <2>1. AtRest("none", NoId, NoId) \in TaskStates
    BY GatewayAssumption DEF AtRest, TaskStates, Sequences16, Outcomes
  <2> QED
    BY <2>1, GatewayAssumption DEF Init, Typed, Sequences16, Ids
<1>3. Locked
  BY <1>1 DEF Init, Locked, Once, IsIn, Sending, Receiving
<1>4. WaitsForNew /\ Sound
  BY <1>1 DEF Init, WaitsForNew, Receiving, Sound
<1> QED
  BY <1>2, <1>3, <1>4 DEF Base

LEMMA BaseIsKept == Base /\ [Next]_vars => Base'
<1> SUFFICES ASSUME Base, [Next]_vars PROVE Base'
  OBVIOUS
<1>0. /\ Typed /\ Locked /\ WaitsForNew /\ Sound
      /\ next_sequence \in Sequences16 /\ sent \in Ids
      /\ disturbed.number \in 0 .. MaxDisturbances
      /\ \A c \in Tasks : task[c].id \in Ids \cup {NoId} /\ task[c].sequence \in Sequences16
      /\ task \in [Tasks -> TaskStates]
      /\ NoId \in Ids \cup {NoId}
  BY DEF Base, Typed, TaskStates
<1>1. ASSUME NEW kind, Disturb(kind) PROVE disturbed'.number \in 0 .. MaxDisturbances
  BY <1>0, <1>1, GatewayAssumption DEF Disturb
<1>2. ASSUME NEW c \in Tasks, CallClosed(c) PROVE Base'
  <2> DEFINE rest == AtRest("not_open", NoId, NoId)
  <2>1. rest \in TaskStates /\ rest.pc = "idle"
    BY GatewayAssumption DEF AtRest, TaskStates, Sequences16, Outcomes
  <2> HIDE DEF rest
  <2>2. /\ task' = [task EXCEPT ![c] = rest] /\ task[c].pc = "idle"
        /\ UNCHANGED <<next_sequence, lock_queue, link, out_wire, received, disturbed, sent>>
    BY <1>2 DEF CallClosed, rest
  <2>3. /\ task' \in [Tasks -> TaskStates]
        /\ task'[c].pc = "idle" /\ \A d \in Tasks \ {c} : task'[d] = task[d]
    BY <1>0, <2>1, <2>2
  <2>4. Typed'
    BY <1>0, <2>2, <2>3 DEF Typed, received
  <2>5. Locked' /\ WaitsForNew' /\ Sound'
    BY <1>0, <2>2, <2>3
       DEF Locked, WaitsForNew, Sound, IsIn, Sending, Receiving, received
  <2> QED
    BY <2>4, <2>5 DEF Base
<1>3. ASSUME NEW c \in Tasks, CallFree(c) PROVE Base'
  BY <1>0, <1>3, QueueIsHeld, BegunBase DEF CallFree
<1>4. ASSUME NEW c \in Tasks, CallContended(c) PROVE Base'
  <2> DEFINE waiting == [AtRest("none", NoId, NoId) EXCEPT !.pc = "queued"]
  <2>1. waiting \in TaskStates /\ waiting.pc = "queued"
    BY GatewayAssumption DEF AtRest, TaskStates, Sequences16, Outcomes
  <2> HIDE DEF waiting
  <2>2. /\ task' = [task EXCEPT ![c] = waiting] /\ task[c].pc = "idle"
        /\ lock_queue # <<>> /\ lock_queue' = Append(lock_queue, c)
        /\ UNCHANGED <<next_sequence, link, out_wire, received, disturbed, sent>>
    BY <1>4 DEF CallContended, waiting
  <2>3. /\ task' \in [Tasks -> TaskStates] /\ task'[c].pc = "queued"
        /\ \A d \in Tasks \ {c} : task'[d] = task[d]
    BY <1>0, <2>1, <2>2
  <2>4. /\ lock_queue \in Seq(Tasks) /\ lock_queue' \in Seq(Tasks)
        /\ Len(lock_queue) \in Nat /\ Len(lock_queue') = Len(lock_queue) + 1
        /\ \A i \in 1 .. Len(lock_queue) : lock_queue'[i] = lock_queue[i]
        /\ lock_queue'[Len(lock_queue) + 1] = c
        /\ lock_queue' # <<>>
    BY <1>0, <2>2, AppendIsLast DEF Typed
  <2>5. Typed'
    BY <1>0, <2>2, <2>3, <2>4 DEF Typed, received
  <2>6. ~IsIn(c, lock_queue)
    BY <1>0, <2>2 DEF Locked
  <2>7. \A d \in Tasks : IsIn(d, lock_queue') <=> d = c \/ IsIn(d, lock_queue)
    <3> TAKE d \in Tasks
    <3>1. ASSUME IsIn(d, lock_queue') PROVE d = c \/ IsIn(d, lock_queue)
      <4>1. PICK i \in 1 .. Len(lock_queue) + 1 : lock_queue'[i] = d
        BY <2>4, <3>1 DEF IsIn
      <4>2. i \in 1 .. Len(lock_queue) \/ i = Len(lock_queue) + 1
        BY <2>4
      <4> QED
        BY <2>4, <4>1, <4>2 DEF IsIn
    <3>2. ASSUME IsIn(d, lock_queue) PROVE IsIn(d, lock_queue')
      <4>1. PICK i \in 1 .. Len(lock_queue) : lock_queue[i] = d
        BY <3>2 DEF IsIn
      <4>2. i \in 1 .. Len(lock_queue') /\ lock_queue'[i] = d
        BY <2>4, <4>1
      <4> QED
        BY <4>2 DEF IsIn
    <3>3. ASSUME d = c PROVE IsIn(d, lock_queue')
      <4>1. Len(lock_queue) + 1 \in 1 .. Len(lock_queue')
        BY <2>4
      <4> QED
        BY <2>4, <3>3, <4>1 DEF IsIn
    <3> QED
      BY <3>1, <3>2, <3>3
  <2>8. Once(lock_queue')
    <3> SUFFICES ASSUME NEW i \in 1 .. Len(lock_queue) + 1,
                        NEW j \in 1 .. Len(lock_queue) + 1,
                        lock_queue'[i] = lock_queue'[j]
                 PROVE  i = j
      BY <2>4 DEF Once
    <3>1. \A k \in 1 .. Len(lock_queue) + 1 :
            k \in 1 .. Len(lock_queue) \/ k = Len(lock_queue) + 1
      BY <2>4
    <3>2. \A k \in 1 .. Len(lock_queue) : lock_queue[k] # c
      BY <2>6 DEF IsIn
    <3>3. Once(lock_queue)
      BY <1>0 DEF Locked
    <3> QED
      BY <2>4, <3>1, <3>2, <3>3 DEF Once
  <2>9. Locked'
    <3>1. lock_queue'[1] = lock_queue[1]
      <4>1. 1 \in 1 .. Len(lock_queue)
        BY <2>2, <2>4
      <4> QED
        BY <2>4, <4>1
    <3>2. ASSUME NEW d \in Tasks
          PROVE  /\ task'[d].pc # "idle" <=> IsIn(d, lock_queue')
                 /\ task'[d].pc \in {"sending", "receiving"} =>
                      lock_queue'[1] = d /\ task'[d].id \in Ids
      <4>1. /\ task[d].pc # "idle" <=> IsIn(d, lock_queue)
            /\ task[d].pc \in {"sending", "receiving"} =>
                 lock_queue[1] = d /\ task[d].id \in Ids
        BY <1>0 DEF Locked, Sending, Receiving
      <4> QED
        BY <2>3, <2>7, <3>1, <4>1
    <3> QED
      BY <2>4, <2>8, <3>2 DEF Locked, IsIn, Once, Sending, Receiving
  <2>10. WaitsForNew' /\ Sound'
    BY <1>0, <2>2, <2>3 DEF WaitsForNew, Sound, Receiving, received
  <2> QED
    BY <2>5, <2>9, <2>10 DEF Base
<1>5. ASSUME NEW c \in Tasks, ObtainLock(c) PROVE Base'
  <2>1. task[c].pc # "idle" /\ Head(lock_queue) = c /\ RunLocked(c, lock_queue)
    BY <1>5 DEF ObtainLock, HoldsLock
  <2>2. Runs(c, lock_queue)
    BY <1>0, <2>1, HeadIsFirst, QueueIsHeld
  <2> QED
    BY <2>1, <2>2, BegunBase
<1>6. ASSUME NEW c \in Tasks, ResumeWrite(c) PROVE Base'
  <2>1. Sending(c) /\ UNCHANGED <<next_sequence, link, disturbed, sent>>
    BY <1>6 DEF ResumeWrite, Sending
  <2>2. Runs(c, lock_queue)
    BY <1>0, <2>1, QueueIsHeld DEF Locked
  <2>3. CASE Finish(c, lock_queue, "send_failed", task[c].id, NoId)
             /\ UNCHANGED <<out_wire, received>>
    <3>1. "send_failed" \in Outcomes
      BY DEF Outcomes
    <3> QED
      BY <1>0, <2>1, <2>2, <2>3, <3>1, EndedBase DEF Runs
  <2>4. CASE WriteThenReceive(c, lock_queue, Request(c))
    <3>1. Request(c) \in Requests
      BY <1>0, <2>1 DEF Request, Requests, Locked
    <3> QED
      BY <1>0, <2>1, <2>2, <2>4, <3>1, WrittenBase
  <2> QED
    BY <1>6, <2>3, <2>4 DEF ResumeWrite
<1>7. ASSUME NEW c \in Tasks, ResumeRead(c) PROVE Base'
  <2>1. Receiving(c) /\ UNCHANGED <<next_sequence, link, out_wire, disturbed, sent>>
    BY <1>7 DEF ResumeRead, Receiving
  <2>2. Runs(c, lock_queue) /\ Held(c, lock_queue)
    BY <1>0, <2>1, QueueIsHeld DEF Locked
  <2>3. Request(c) \in Requests /\ Request(c).id = task[c].id
    BY <1>0, <2>1 DEF Request, Requests, Locked
  <2>4. CASE \E n \in ChunkSizes : Take(c, lock_queue, Request(c), n)
    <3>1. PICK n \in ChunkSizes : Take(c, lock_queue, Request(c), n)
      BY <2>4
    <3>2. /\ in_wire' \in Seq(Answers) /\ frames' \in Seq(Answers) /\ issues' \in Nat
          /\ Sound'
          /\ \E outcome \in Outcomes, answered \in Ids \cup {NoId} :
               Finish(c, lock_queue, outcome, Request(c).id, answered)
      BY <1>0, <2>3, <3>1, TakeEnds
    <3>3. PICK outcome \in Outcomes, answered \in Ids \cup {NoId} :
            Finish(c, lock_queue, outcome, task[c].id, answered)
      BY <2>3, <3>2
    <3>4. /\ lock_queue' \in Seq(Tasks) /\ task' \in [Tasks -> TaskStates] /\ Locked'
          /\ task'[c] = AtRest(outcome, task[c].id, answered)
          /\ \A d \in Tasks \ {c} : task'[d] = task[d]
      BY <1>0, <2>2, <3>3, Finished
    <3>5. Typed'
      BY <1>0, <2>1, <3>2, <3>4 DEF Typed
    <3>6. WaitsForNew'
      BY <2>2, <3>4 DEF WaitsForNew, Runs, Receiving, AtRest
    <3> QED
      BY <3>2, <3>4, <3>5, <3>6 DEF Base
  <2>5. CASE Finish(c, lock_queue, "ack_failed", task[c].id, NoId)
             /\ UNCHANGED received
    <3>1. "ack_failed" \in Outcomes
      BY DEF Outcomes
    <3> QED
      BY <1>0, <2>1, <2>2, <2>5, <3>1, EndedBase
  <2> QED
    BY <1>7, <2>4, <2>5 DEF ResumeRead
<1>8. ASSUME NEW c \in Tasks, TimeOut(c), disturbed'.number \in 0 .. MaxDisturbances
      PROVE  Base'
  <2>1. "ack_failed" \in Outcomes /\ Held(c, lock_queue)
    BY <1>0, QueueIsHeld DEF Outcomes
  <2> QED
    BY <1>0, <1>8, <2>1, EndedBase DEF TimeOut
<1>9. ASSUME NEW c \in Tasks, AnswerTimesOut(c) PROVE Base'
  BY <1>0, <1>8, <1>9 DEF AnswerTimesOut
<1>10. ASSUME NEW c \in Tasks, AnswerIsLate(c) PROVE Base'
  BY <1>1, <1>8, <1>10 DEF AnswerIsLate
<1>11. ASSUME NEW c \in Tasks, Cancel(c) PROVE Base'
  <2>1. "cancelled" \in Outcomes /\ Held(c, lock_queue)
    BY <1>0, QueueIsHeld DEF Outcomes
  <2>2. /\ Finish(c, lock_queue, "cancelled", task[c].id, NoId)
        /\ Disturb("cancelled")
        /\ UNCHANGED <<next_sequence, link, out_wire, received, sent>>
    BY <1>11 DEF Cancel
  <2>3. disturbed'.number \in 0 .. MaxDisturbances
    BY <1>1, <2>2
  <2> QED
    BY <1>0, <2>1, <2>2, <2>3, EndedBase
\* Nobody's task runs: the wires and the link change.
<1>12. ASSUME UNCHANGED <<gateway, frames, issues, sent>>,
              link' \in {"up", "hung_up", "closed"},
              out_wire' \in Seq(Requests), in_wire' \in Seq(Answers),
              disturbed'.number \in 0 .. MaxDisturbances
       PROVE  Base'
  BY <1>0, <1>12
     DEF Base, Typed, Locked, WaitsForNew, Sound, gateway, Sending, Receiving, IsIn
<1>13. link \in {"up", "hung_up", "closed"} /\ out_wire \in Seq(Requests)
       /\ in_wire \in Seq(Answers)
  BY <1>0 DEF Typed
<1>14. ASSUME NEW kind \in {"ack", "nack", "garbage"}, Respond(kind),
              disturbed'.number \in 0 .. MaxDisturbances
       PROVE  Base'
  <2>1. /\ Head(out_wire) \in Requests /\ Tail(out_wire) \in Seq(Requests)
    BY <1>13, <1>14, TailIsRest DEF Respond
  <2>2. [kind |-> kind, sequence |-> Head(out_wire).sequence,
         id |-> Head(out_wire).id] \in Answers
    BY <2>1 DEF Requests, Answers
  <2>3. in_wire' \in Seq(Answers)
    BY <1>13, <1>14, <2>2, AppendIsLast DEF Respond
  <2> QED
    BY <1>12, <1>13, <1>14, <2>1, <2>3 DEF Respond
<1>15. ASSUME RobotAnswers PROVE Base'
  BY <1>0, <1>14, <1>15 DEF RobotAnswers
<1>16. ASSUME AnswerGarbled PROVE Base'
  BY <1>1, <1>14, <1>16 DEF AnswerGarbled
<1>17. ASSUME AnswerLost PROVE Base'
  <2>1. Tail(out_wire) \in Seq(Requests)
    BY <1>13, <1>17, TailIsRest DEF AnswerLost
  <2> QED
    BY <1>1, <1>12, <1>13, <1>17, <2>1 DEF AnswerLost, received
<1>18. ASSUME StrayFrame PROVE Base'
  <2>1. [kind |-> "other", sequence |-> 0, id |-> NoId] \in Answers
    BY GatewayAssumption DEF Answers, Sequences16
  <2>2. in_wire' \in Seq(Answers)
    BY <1>13, <1>18, <2>1, AppendIsLast DEF StrayFrame
  <2> QED
    BY <1>1, <1>12, <1>13, <1>18, <2>2 DEF StrayFrame
<1>19. ASSUME Close \/ HangUp PROVE Base'
  BY <1>1, <1>12, <1>13, <1>19 DEF Close, HangUp, received
<1>20. CASE UNCHANGED vars
  BY <1>0, <1>12, <1>13, <1>20 DEF vars, received
<1> QED
  BY <1>2, <1>3, <1>4, <1>5, <1>6, <1>7, <1>9, <1>10, <1>11, <1>15, <1>16, <1>17,
     <1>18, <1>19, <1>20 DEF Next, Call

\* What can be said without counting sequence numbers: the state is sound, and the
\* request lock of robot_gateway.py is held by the task at the head of its queue and
\* by nobody else, whatever is cancelled, times out or is hung up.
OneAtATime == TypeOK /\ OneRequestAtATime

LEMMA BaseGivesTurns == Base => OneAtATime
<1> SUFFICES ASSUME Base PROVE OneAtATime
  OBVIOUS
<1>1. Typed /\ Locked
  BY DEF Base
<1>2. TypeOK
  BY <1>1 DEF Typed, TypeOK, TaskStates
<1>3. OneRequestAtATime
  BY <1>1, HeadIsFirst DEF OneRequestAtATime, Locked, IsIn, Sending, Receiving
<1> QED
  BY <1>2, <1>3 DEF OneAtATime

\* In every reachable state the gateway's values are well formed, one task at
\* most is between taking and releasing the request lock, and it stands at the
\* head of the lock's queue, whatever is cancelled, closed or late.
THEOREM LockIsOneTasks == Spec => []OneAtATime
<1>1. Init => Base
  BY BaseHolds
<1>2. Base /\ [Next]_vars => Base'
  BY BaseIsKept
<1>3. Base => OneAtATime
  BY BaseGivesTurns
<1> QED
  BY <1>1, <1>2, <1>3, PTL DEF Spec

---------------------------------------------------------------------------
(* What holds as long as the numbers can be told apart.                    *)

\* A step leaves the answers to their requests.
Kept == /\ Flow' /\ OwnNumber' /\ ReceiptIsGenuine'
        /\ link' # "up" => out_wire' = out_wire

LEMMA LastNumberIsLast ==
  ASSUME next_sequence \in Sequences16
  PROVE  Back(next_sequence, LastNumber) = 0
  BY GatewayAssumption DEF Back, LastNumber, Sequences16

LEMMA PipelineEmpty ==
  ASSUME NEW next \in Sequences16, NEW slack \in Nat
  PROVE  Pipeline(0, <<>>, <<>>, <<>>, next, 0, slack)
<1>1. Counts([j \in 0 .. 0 |-> 0], <<>>)
  BY DEF Counts
<1>2. AnswersWithin(0, <<>>, <<>>, next, 0, slack)
  BY <1>1 DEF AnswersWithin
<1>3. RequestsWithin(0 + Len(<<>>) + Len(<<>>), <<>>, next, 0, slack)
  BY DEF RequestsWithin
<1> QED
  BY <1>2, <1>3 DEF Pipeline

LEMMA WhoIsBusy ==
  /\ Taken \in {0, 1} /\ Busy \in {0, 1}
  /\ Taken = 1 <=> \E c \in Tasks : Sending(c)
  /\ Busy = 1 <=> \E c \in Tasks : Sending(c) \/ Receiving(c)
  BY DEF Taken, Busy

\* The same after a step.
LEMMA WhoIsBusyThen ==
  /\ Taken' \in {0, 1} /\ Busy' \in {0, 1}
  /\ Taken' = 1 <=> \E c \in Tasks : Sending(c)'
  /\ Busy' = 1 <=> \E c \in Tasks : Sending(c)' \/ Receiving(c)'
  BY DEF Taken, Busy

\* Nothing on the wires moves, and the slack is no less.
LEMMA FlowStill ==
  ASSUME Typed, Flow, UNCHANGED <<received, out_wire, next_sequence>>,
         link' = "up" => link = "up", Taken' \in {0, Taken},
         disturbed'.number \in Nat,
         disturbed.number + Busy <= disturbed'.number + Busy'
  PROVE  Flow'
<1> SUFFICES ASSUME link' = "up"
             PROVE  Pipeline(issues', frames', in_wire', out_wire', next_sequence',
                             Taken', disturbed'.number + Busy')
  BY DEF Flow
<1>1. Pipeline(issues, frames, in_wire, out_wire, next_sequence, Taken,
               disturbed.number + Busy)
  BY DEF Flow
<1> DEFINE slack == disturbed.number + Busy
           slack2 == disturbed'.number + Busy'
<1>2. slack \in Nat /\ slack2 \in Nat /\ slack <= slack2 /\ Taken \in {0, 1}
  BY WhoIsBusy, WhoIsBusyThen DEF Typed
<1>3. /\ issues \in Nat /\ frames \in Seq(Answers) /\ in_wire \in Seq(Answers)
      /\ out_wire \in Seq(Requests) /\ next_sequence \in Sequences16
  BY DEF Typed
<1>4. Pipeline(issues, frames, in_wire, out_wire, next_sequence, Taken, slack)
  BY <1>1
<1> HIDE DEF slack, slack2
<1>5. Pipeline(issues, frames, in_wire, out_wire, next_sequence, Taken', slack2)
  BY <1>2, <1>3, <1>4, PipelineStill
<1>6. /\ issues' = issues /\ frames' = frames /\ in_wire' = in_wire
      /\ out_wire' = out_wire /\ next_sequence' = next_sequence
  BY DEF received
<1> QED
  BY <1>5, <1>6 DEF slack2

\* A request ends without having taken anything.
LEMMA EndedKept ==
  ASSUME Inv, NEW c \in Tasks, NEW queue, Held(c, queue),
         NEW outcome \in Outcomes \ {"receipt", "rejected"},
         NEW id \in Ids \cup {NoId}, Finish(c, queue, outcome, id, NoId),
         UNCHANGED <<link, out_wire, received>>,
         \/ link # "up"
         \/ next_sequence' = next_sequence /\ disturbed'.number = disturbed.number + 1
  PROVE  Kept
<1>1. /\ Base /\ Typed /\ Flow /\ OwnNumber /\ ReceiptIsGenuine
      /\ disturbed.number \in Nat
  BY GatewayAssumption DEF Inv, Base, Typed
<1>2. /\ task'[c] = AtRest(outcome, id, NoId)
      /\ \A d \in Tasks \ {c} : task'[d] = task[d]
  BY <1>1, Finished DEF Base
<1>3. \A d \in Tasks : /\ Sending(d)' => Sending(d) /\ task'[d] = task[d]
                       /\ Receiving(d)' => Receiving(d) /\ task'[d] = task[d]
  BY <1>2 DEF Sending, Receiving, AtRest
<1>4. Flow'
  <2>1. CASE link # "up"
    BY <2>1 DEF Flow
  <2>2. CASE next_sequence' = next_sequence /\ disturbed'.number = disturbed.number + 1
    <3>1. Taken' \in {0, Taken}
      BY <1>3, WhoIsBusy, WhoIsBusyThen
    <3>2. disturbed'.number \in Nat /\ disturbed.number + Busy <= disturbed'.number + Busy'
      BY <1>1, <2>2, WhoIsBusy, WhoIsBusyThen
    <3> QED
      BY <1>1, <2>2, <3>1, <3>2, FlowStill
  <2> QED
    BY <2>1, <2>2
<1>5. OwnNumber'
  <2>1. in_wire' = in_wire /\ out_wire' = out_wire /\ link' = link
    BY DEF received
  <2>2. link = "up" => LastNumber' = LastNumber
    BY DEF LastNumber
  <2> QED
    BY <1>1, <1>3, <2>1, <2>2 DEF OwnNumber
<1>6. ReceiptIsGenuine'
  BY <1>1, <1>2 DEF ReceiptIsGenuine, AtRest
<1> QED
  BY <1>4, <1>5, <1>6 DEF Kept

\* A frame is written and an answer awaited or taken.
LEMMA WrittenKept ==
  ASSUME Base, ReceiptIsGenuine, NEW c \in Tasks, NEW queue, Runs(c, queue),
         NEW request \in Requests,
         WriteThenReceive(c, queue, request), UNCHANGED <<link, disturbed>>, link = "up",
         next_sequence' \in Sequences16, Back(next_sequence', request.sequence) = 0,
         Pipeline(issues, frames, in_wire, out_wire, next_sequence', 1,
                  disturbed.number + 1)
  PROVE  Kept
<1> DEFINE slack == disturbed.number + 1
           next == next_sequence'
<1>1. /\ Typed /\ Sound /\ Held(c, queue) /\ request.id \in Ids \cup {NoId}
      /\ issues \in Nat /\ frames \in Seq(Answers) /\ in_wire \in Seq(Answers)
      /\ out_wire \in Seq(Requests) /\ disturbed.number \in Nat
  BY GatewayAssumption DEF Base, Typed, Runs, Requests
<1>2. /\ slack \in Nat /\ next \in Sequences16 /\ Back(next, request.sequence) = 0
      /\ Pipeline(issues, frames, in_wire, out_wire, next, 1, slack)
  BY <1>1
<1>3. out_wire' = Append(out_wire, request)
  BY DEF WriteThenReceive
<1> HIDE DEF slack, next
<1>4. Pipeline(issues, frames, in_wire, out_wire', next, 0, slack)
  BY <1>1, <1>2, <1>3, FrameWritten
<1>5. /\ \A i \in 1 .. Len(frames) :
           Numbered(frames[i]) => frames[i].sequence # request.sequence
      /\ \A j \in 1 .. Len(in_wire) :
           Numbered(in_wire[j]) => in_wire[j].sequence # request.sequence
      /\ \A k \in 1 .. Len(out_wire) : out_wire[k].sequence # request.sequence
  BY <1>1, <1>2, NumberIsNew
<1>6. \A d \in Tasks \ {c} : ~Sending(d) /\ ~Receiving(d)
  BY DEF Runs
<1>7. /\ out_wire' \in Seq(Requests) /\ Len(out_wire) \in Nat
      /\ Len(out_wire') = Len(out_wire) + 1 /\ out_wire'[Len(out_wire) + 1] = request
      /\ \A i \in 1 .. Len(out_wire) : out_wire'[i] = out_wire[i]
  BY <1>1, <1>3, AppendIsLast
<1>8. CASE /\ ChunkSizes = {}
           /\ Wait(c, queue, "receiving", request)
           /\ UNCHANGED received
  <2>1. /\ task'[c].pc = "receiving" /\ task'[c].outcome = "none"
        /\ task'[c].sequence = request.sequence /\ task'[c].id = request.id
        /\ \A d \in Tasks \ {c} : task'[d] = task[d]
    BY <1>1, <1>8, Waited
  <2>2. /\ in_wire' = in_wire /\ frames' = frames /\ issues' = issues
        /\ in_wire = <<>>
    BY <1>1, <1>8, NothingToTake DEF received
  <2>3. \A d \in Tasks : ~Sending(d)' /\ (Receiving(d)' => d = c)
    BY <1>6, <2>1 DEF Sending, Receiving
  <2>4. Taken' = 0 /\ Busy' = 1
    BY <2>1, <2>3, WhoIsBusyThen DEF Receiving
  <2>5. Flow'
    BY <1>4, <2>2, <2>4 DEF Flow, slack, next
  <2>6. OwnNumber'
    <3>1. ASSUME NEW i \in 1 .. Len(out_wire'),
                 out_wire'[i].sequence = task'[c].sequence
          PROVE  out_wire'[i].id = task'[c].id
      <4>1. i \in 1 .. Len(out_wire) \/ i = Len(out_wire) + 1
        BY <1>7
      <4> QED
        BY <1>5, <1>7, <2>1, <3>1, <4>1
    <3>2. \A i \in 1 .. Len(in_wire') : FALSE
      BY <2>2
    <3> QED
      BY <2>3, <3>1, <3>2 DEF OwnNumber
  <2>7. ReceiptIsGenuine'
    BY <2>1 DEF ReceiptIsGenuine
  <2> QED
    BY <2>5, <2>6, <2>7 DEF Kept
<1>9. CASE \E n \in ChunkSizes : Take(c, queue, request, n)
  <2>1. PICK n \in ChunkSizes : Take(c, queue, request, n)
    BY <1>9
  <2>2. PICK outcome \in Outcomes, answered \in Ids \cup {NoId} :
          /\ Finish(c, queue, outcome, request.id, answered)
          /\ outcome \in {"receipt", "rejected"} =>
               \E x : /\ Arrived(x) /\ Numbered(x) /\ x.sequence = request.sequence
                      /\ x.id = answered
    BY <1>1, <2>1, TakeEnds
  <2>3. /\ task'[c] = AtRest(outcome, request.id, answered)
        /\ \A d \in Tasks \ {c} : task'[d] = task[d]
    BY <1>1, <2>2, Finished
  <2>4. \A d \in Tasks : ~Sending(d)' /\ ~Receiving(d)'
    BY <1>6, <2>3 DEF Sending, Receiving, AtRest
  <2>5. Taken' = 0 /\ Busy' = 0
    BY <2>4, WhoIsBusyThen
  <2>6. Pipeline(issues', frames', in_wire', out_wire', next, 0, slack - 1)
    BY <1>1, <1>2, <1>4, <1>7, <2>1, TakeForward
  <2>7. slack - 1 = disturbed'.number + Busy'
    BY <1>1, <2>5 DEF slack
  <2>8. Flow'
    BY <2>5, <2>6, <2>7 DEF Flow, next
  <2>9. OwnNumber'
    BY <2>4 DEF OwnNumber
  <2>10. outcome \notin {"receipt", "rejected"}
    BY <1>5, <2>2 DEF Arrived
  <2>11. ReceiptIsGenuine'
    BY <2>3, <2>10 DEF ReceiptIsGenuine, AtRest
  <2> QED
    BY <2>8, <2>9, <2>11 DEF Kept
<1> QED
  BY <1>8, <1>9 DEF WriteThenReceive

LEMMA BegunKept ==
  ASSUME Inv, SequenceIsLongEnough, NEW c \in Tasks, NEW queue, Runs(c, queue),
         ~Sending(c) /\ ~Receiving(c), RunLocked(c, queue)
  PROVE  Kept
<1> DEFINE request == [sequence |-> next_sequence, id |-> sent]
<1>1. /\ Base /\ Typed /\ Flow /\ OwnNumber /\ ReceiptIsGenuine /\ Held(c, queue)
      /\ next_sequence \in Sequences16 /\ sent \in Ids
      /\ disturbed.number \in Nat /\ disturbed.number + 2 <= SeqModulus
      /\ issues \in Nat /\ frames \in Seq(Answers) /\ in_wire \in Seq(Answers)
      /\ out_wire \in Seq(Requests)
  BY GatewayAssumption DEF Inv, Base, Typed, Runs, SequenceIsLongEnough
<1>2. request \in Requests /\ request.id \in Ids \cup {NoId}
  BY <1>1 DEF Requests
<1>3. /\ next_sequence' = SequenceAfter(next_sequence)
      /\ next_sequence' \in Sequences16
      /\ Back(next_sequence', next_sequence) = 0
      /\ UNCHANGED <<link, disturbed>>
  BY <1>1, NextNumber, BackOfLast DEF RunLocked
<1>4. \A d \in Tasks : ~Sending(d) /\ ~Receiving(d)
  BY DEF Runs
<1>5. Taken = 0 /\ Busy = 0
  BY <1>4, WhoIsBusy
<1>6. ASSUME link = "up"
      PROVE  Pipeline(issues, frames, in_wire, out_wire, next_sequence', 1,
                      disturbed.number + 1)
  <2>1. Pipeline(issues, frames, in_wire, out_wire, next_sequence, 0, disturbed.number)
    <3>1. disturbed.number + 0 = disturbed.number
      BY <1>1
    <3> QED
      BY <1>1, <1>5, <1>6, <3>1 DEF Flow
  <2>2. Pipeline(issues, frames, in_wire, out_wire, SequenceAfter(next_sequence), 1,
                 disturbed.number + 1)
    BY <1>1, <2>1, NumberTaken
  <2> QED
    BY <1>3, <2>2
<1>7. CASE /\ link # "up"
           /\ Finish(c, queue, "send_failed", request.id, NoId)
           /\ UNCHANGED <<out_wire, received>>
  <2>1. "send_failed" \in Outcomes \ {"receipt", "rejected"}
    BY DEF Outcomes
  <2> HIDE DEF request
  <2> QED
    BY <1>1, <1>2, <1>3, <1>7, <2>1, EndedKept
<1>8. CASE /\ link = "up"
           /\ Wait(c, queue, "sending", request)
           /\ UNCHANGED <<out_wire, received>>
  <2>1. /\ task'[c].pc = "sending" /\ task'[c].outcome = "none"
        /\ task'[c].sequence = next_sequence
        /\ \A d \in Tasks \ {c} : task'[d] = task[d]
    BY <1>1, <1>2, <1>8, Waited
  <2>2. \A d \in Tasks : ~Receiving(d)' /\ (Sending(d)' => d = c)
    BY <1>4, <2>1 DEF Sending, Receiving
  <2>3. Taken' = 1 /\ Busy' = 1
    BY <2>1, <2>2, WhoIsBusyThen DEF Sending
  <2>4. Flow'
    BY <1>3, <1>6, <1>8, <2>3 DEF Flow, received
  <2>5. LastNumber' = next_sequence
    <3>1. next_sequence' = IF next_sequence + 1 = SeqModulus THEN 0
                                                             ELSE next_sequence + 1
      BY <1>1, <1>3, NextNumber
    <3>2. next_sequence \in Nat /\ SeqModulus \in Nat
      BY <1>1, GatewayAssumption DEF Sequences16
    <3>3. LastNumber' = IF next_sequence' = 0 THEN SeqModulus - 1
                                              ELSE next_sequence' - 1
      BY DEF LastNumber
    <3>4. CASE next_sequence + 1 = SeqModulus
      <4>1. LastNumber' = SeqModulus - 1
        BY <3>1, <3>3, <3>4
      <4> QED
        BY <3>2, <3>4, <4>1
    <3>5. CASE next_sequence + 1 # SeqModulus
      <4>1. next_sequence' = next_sequence + 1
        BY <3>1, <3>5
      <4>2. LastNumber' = (next_sequence + 1) - 1
        BY <3>2, <3>3, <4>1
      <4> QED
        BY <3>2, <4>2
    <3> QED
      BY <3>4, <3>5
  <2>6. OwnNumber'
    BY <2>1, <2>2, <2>5 DEF OwnNumber
  <2>7. ReceiptIsGenuine'
    BY <1>1, <2>1 DEF ReceiptIsGenuine
  <2> QED
    BY <1>8, <2>4, <2>6, <2>7 DEF Kept
<1>9. CASE link = "up" /\ WriteThenReceive(c, queue, request)
  <2>1. request.sequence = next_sequence
    OBVIOUS
  <2> HIDE DEF request
  <2> QED
    BY <1>1, <1>2, <1>3, <1>6, <1>9, <2>1, WrittenKept
<1> QED
  BY <1>7, <1>8, <1>9 DEF RunLocked

\* The robot or the wire takes a frame off or puts an answer on.
LEMMA WiresKept ==
  ASSUME Inv, link = "up", UNCHANGED <<gateway, link, frames, issues, sent>>,
         Pipeline(issues, frames, in_wire', out_wire', next_sequence, Taken,
                  disturbed'.number + Busy),
         \A k \in 1 .. Len(out_wire') : \E i \in 1 .. Len(out_wire) :
           out_wire'[k] = out_wire[i],
         \A j \in 1 .. Len(in_wire') :
           \/ ~Numbered(in_wire'[j])
           \/ \E i \in 1 .. Len(in_wire) : in_wire'[j] = in_wire[i]
           \/ \E i \in 1 .. Len(out_wire) :
                /\ in_wire'[j].sequence = out_wire[i].sequence
                /\ in_wire'[j].id = out_wire[i].id
  PROVE  Kept
<1>1. /\ next_sequence' = next_sequence /\ task' = task
      /\ link' = "up" /\ frames' = frames /\ issues' = issues
  BY DEF gateway
<1>2. Taken' = Taken /\ Busy' = Busy /\ LastNumber' = LastNumber
  BY <1>1 DEF Taken, Busy, LastNumber, Sending, Receiving
<1>3. Flow'
  BY <1>1, <1>2 DEF Flow
<1>4. OwnNumber
  BY DEF Inv
<1>5. ASSUME NEW c \in Tasks
      PROVE  /\ Sending(c)' => task'[c].sequence = LastNumber'
             /\ Receiving(c)' =>
                  /\ \A j \in 1 .. Len(in_wire') :
                       Numbered(in_wire'[j]) /\ in_wire'[j].sequence = task'[c].sequence
                         => in_wire'[j].id = task'[c].id
                  /\ \A k \in 1 .. Len(out_wire') :
                       out_wire'[k].sequence = task'[c].sequence
                         => out_wire'[k].id = task'[c].id
  <2>1. /\ Sending(c)' => Sending(c)
        /\ Receiving(c)' => Receiving(c)
    BY <1>1 DEF Sending, Receiving
  <2>2. Sending(c)' => task'[c].sequence = LastNumber'
    BY <1>1, <1>2, <1>4, <2>1 DEF OwnNumber
  <2>3. ASSUME Receiving(c)'
        PROVE  /\ \A i \in 1 .. Len(in_wire) :
                    Numbered(in_wire[i]) /\ in_wire[i].sequence = task[c].sequence
                      => in_wire[i].id = task[c].id
               /\ \A i \in 1 .. Len(out_wire) :
                    out_wire[i].sequence = task[c].sequence
                      => out_wire[i].id = task[c].id
    BY <1>4, <2>1, <2>3 DEF OwnNumber
  <2>4. ASSUME Receiving(c)', NEW j \in 1 .. Len(in_wire'), Numbered(in_wire'[j]),
               in_wire'[j].sequence = task'[c].sequence
        PROVE  in_wire'[j].id = task'[c].id
    BY <1>1, <2>3, <2>4
  <2>5. ASSUME Receiving(c)', NEW k \in 1 .. Len(out_wire'),
               out_wire'[k].sequence = task'[c].sequence
        PROVE  out_wire'[k].id = task'[c].id
    BY <1>1, <2>3, <2>5
  <2> QED
    BY <2>2, <2>4, <2>5
<1>6. OwnNumber'
  BY <1>5 DEF OwnNumber, Numbered
<1>7. ReceiptIsGenuine'
  BY <1>1 DEF Inv, ReceiptIsGenuine
<1> QED
  BY <1>1, <1>3, <1>6, <1>7 DEF Kept

LEMMA AnswerKept ==
  ASSUME Inv, NEW kind \in {"ack", "nack", "garbage"}, Respond(kind),
         NEW more \in {0, 1}, kind = "garbage" => more = 1,
         disturbed'.number = disturbed.number + more
  PROVE  Kept
<1> DEFINE x == [kind |-> kind, sequence |-> Head(out_wire).sequence,
                 id |-> Head(out_wire).id]
           slack == disturbed.number + Busy
<1>1. /\ link = "up" /\ out_wire # <<>>
      /\ out_wire' = Tail(out_wire) /\ in_wire' = Append(in_wire, x)
      /\ UNCHANGED <<gateway, link, frames, issues, sent>>
  BY DEF Respond
<1>2. /\ issues \in Nat /\ frames \in Seq(Answers) /\ in_wire \in Seq(Answers)
      /\ out_wire \in Seq(Requests) /\ next_sequence \in Sequences16
      /\ disturbed.number \in Nat /\ slack \in Nat /\ Taken \in {0, 1}
      /\ Pipeline(issues, frames, in_wire, out_wire, next_sequence, Taken, slack)
  BY <1>1, WhoIsBusy, GatewayAssumption DEF Inv, Base, Typed, Flow
<1>3. /\ Head(out_wire) \in Requests /\ Len(out_wire) \in Nat \ {0}
      /\ Head(out_wire) = out_wire[1] /\ Len(Tail(out_wire)) = Len(out_wire) - 1
      /\ \A i \in 1 .. Len(Tail(out_wire)) : Tail(out_wire)[i] = out_wire[i + 1]
  BY <1>1, <1>2, TailIsRest
<1>4. /\ x \in Answers /\ x.kind = kind /\ x.sequence = Head(out_wire).sequence
      /\ x.sequence = out_wire[1].sequence /\ x.id = out_wire[1].id
  BY <1>3 DEF Answers, Requests
<1> HIDE DEF x
<1>5. slack + more \in {slack, slack + 1} /\ slack + more \in Nat
      /\ slack + more = disturbed'.number + Busy
  BY <1>2, WhoIsBusy
<1> HIDE DEF slack
<1>6. Pipeline(issues, frames, Append(in_wire, x), Tail(out_wire), next_sequence,
               Taken, slack + more)
  <2> DEFINE slack2 == slack + more
  <2>1. slack2 \in {slack, slack + 1} /\ (x.kind = "garbage" => slack2 = slack + 1)
    BY <1>4, <1>5
  <2> HIDE DEF slack2
  <2>2. Pipeline(issues, frames, Append(in_wire, x), Tail(out_wire), next_sequence,
                 Taken, slack2)
    BY <1>1, <1>2, <1>4, <2>1, FrameAnswered
  <2> QED
    BY <2>2 DEF slack2
<1>7. \A k \in 1 .. Len(out_wire') : \E i \in 1 .. Len(out_wire) :
        out_wire'[k] = out_wire[i]
  <2> TAKE k \in 1 .. Len(out_wire')
  <2>1. k + 1 \in 1 .. Len(out_wire) /\ out_wire'[k] = out_wire[k + 1]
    BY <1>1, <1>3
  <2> QED
    BY <2>1
<1>8. ASSUME NEW j \in 1 .. Len(in_wire')
      PROVE  \/ \E i \in 1 .. Len(in_wire) : in_wire'[j] = in_wire[i]
             \/ \E i \in 1 .. Len(out_wire) :
                  /\ in_wire'[j].sequence = out_wire[i].sequence
                  /\ in_wire'[j].id = out_wire[i].id
  <2>1. /\ Len(in_wire) \in Nat /\ Len(in_wire') = Len(in_wire) + 1
        /\ \A i \in 1 .. Len(in_wire) : in_wire'[i] = in_wire[i]
        /\ in_wire'[Len(in_wire) + 1] = x
    BY <1>1, <1>2, <1>4, AppendIsLast
  <2>2. j \in 1 .. Len(in_wire) \/ j = Len(in_wire) + 1
    BY <2>1
  <2>3. 1 \in 1 .. Len(out_wire)
    BY <1>3
  <2> QED
    BY <1>4, <2>1, <2>2, <2>3
<1> QED
  BY <1>1, <1>5, <1>6, <1>7, <1>8, WiresKept

LEMMA StepKept ==
  ASSUME Inv, SequenceIsLongEnough, [Next]_vars
  PROVE  Kept
<1>1. /\ Base /\ Typed /\ Locked /\ WaitsForNew /\ Flow /\ OwnNumber /\ ReceiptIsGenuine
      /\ issues \in Nat /\ frames \in Seq(Answers) /\ in_wire \in Seq(Answers)
      /\ out_wire \in Seq(Requests) /\ next_sequence \in Sequences16
      /\ disturbed.number \in Nat /\ Taken \in {0, 1} /\ Busy \in {0, 1}
      /\ \A c \in Tasks : task[c].id \in Ids \cup {NoId} /\ task[c].sequence \in Sequences16
  BY WhoIsBusy, GatewayAssumption DEF Inv, Base, Typed, TaskStates
<1>2. ASSUME NEW kind, Disturb(kind) PROVE disturbed'.number = disturbed.number + 1
  BY <1>2 DEF Disturb
\* A task at rest or in the queue changes its own record only.
<1>3. ASSUME NEW c \in Tasks, task[c].pc = "idle",
             task'[c].pc \in {"idle", "queued"},
             task'[c].outcome \notin {"receipt", "rejected"},
             \A d \in Tasks \ {c} : task'[d] = task[d],
             UNCHANGED <<next_sequence, link, out_wire, received, disturbed, sent>>
      PROVE  Kept
  <2>1. \A d \in Tasks : /\ Sending(d)' <=> Sending(d)
                         /\ Receiving(d)' <=> Receiving(d)
                         /\ Sending(d) \/ Receiving(d) => task'[d] = task[d]
    BY <1>3 DEF Sending, Receiving
  <2>2. Taken' = Taken /\ Busy' = Busy
    BY <2>1, <1>1, WhoIsBusy, WhoIsBusyThen
  <2>3. Flow'
    BY <1>1, <1>3, <2>2, FlowStill
  <2>4. OwnNumber'
    BY <1>1, <1>3, <2>1 DEF OwnNumber, LastNumber, received
  <2>5. ReceiptIsGenuine'
    BY <1>1, <1>3 DEF ReceiptIsGenuine
  <2> QED
    BY <1>3, <2>3, <2>4, <2>5 DEF Kept
<1>4. ASSUME NEW c \in Tasks, CallClosed(c) PROVE Kept
  <2>1. task \in [Tasks -> TaskStates]
    BY <1>1 DEF Typed
  <2>2. task'[c] = AtRest("not_open", NoId, NoId)
        /\ \A d \in Tasks \ {c} : task'[d] = task[d]
    BY <1>4, <2>1 DEF CallClosed
  <2>3. task'[c].pc \in {"idle", "queued"} /\ task'[c].outcome \notin {"receipt", "rejected"}
    BY <2>2 DEF AtRest
  <2> QED
    BY <1>3, <1>4, <2>2, <2>3 DEF CallClosed
<1>5. ASSUME NEW c \in Tasks, CallContended(c) PROVE Kept
  <2>1. task \in [Tasks -> TaskStates]
    BY <1>1 DEF Typed
  <2>2. task'[c] = [AtRest("none", NoId, NoId) EXCEPT !.pc = "queued"]
        /\ \A d \in Tasks \ {c} : task'[d] = task[d]
    BY <1>5, <2>1 DEF CallContended
  <2>3. task'[c].pc \in {"idle", "queued"} /\ task'[c].outcome \notin {"receipt", "rejected"}
    BY <2>2 DEF AtRest
  <2> QED
    BY <1>3, <1>5, <2>2, <2>3 DEF CallContended
<1>6. ASSUME NEW c \in Tasks, CallFree(c) PROVE Kept
  <2>1. Runs(c, <<c>>) /\ ~Sending(c) /\ ~Receiving(c) /\ RunLocked(c, <<c>>)
    BY <1>1, <1>6, QueueIsHeld DEF CallFree, Sending, Receiving
  <2> QED
    BY <2>1, BegunKept
<1>7. ASSUME NEW c \in Tasks, ObtainLock(c) PROVE Kept
  <2>1. /\ task[c].pc # "idle" /\ Head(lock_queue) = c /\ RunLocked(c, lock_queue)
        /\ ~Sending(c) /\ ~Receiving(c)
    BY <1>7 DEF ObtainLock, HoldsLock, Sending, Receiving
  <2>2. Runs(c, lock_queue)
    BY <1>1, <2>1, HeadIsFirst, QueueIsHeld
  <2> QED
    BY <2>1, <2>2, BegunKept
<1>8. ASSUME NEW c \in Tasks, ResumeWrite(c) PROVE Kept
  <2>1. Sending(c) /\ UNCHANGED <<next_sequence, link, disturbed, sent>>
    BY <1>8 DEF ResumeWrite, Sending
  <2>2. Runs(c, lock_queue) /\ Held(c, lock_queue)
    BY <1>1, <2>1, QueueIsHeld DEF Locked
  <2>3. CASE /\ link = "up"
             /\ WriteThenReceive(c, lock_queue, Request(c))
    <3>1. Request(c) \in Requests /\ Request(c).sequence = task[c].sequence
      BY <1>1, <2>1 DEF Request, Requests, Locked
    <3>2. Back(next_sequence', Request(c).sequence) = 0
      BY <1>1, <2>1, <2>3, <3>1, LastNumberIsLast DEF OwnNumber
    <3>3. Taken = 1 /\ Busy = 1
      BY <2>1, WhoIsBusy
    <3>4. Pipeline(issues, frames, in_wire, out_wire, next_sequence', 1,
                   disturbed.number + 1)
      BY <1>1, <2>1, <2>3, <3>3 DEF Flow
    <3> QED
      BY <1>1, <2>1, <2>2, <2>3, <3>1, <3>2, <3>4, WrittenKept
  <2>4. CASE /\ link # "up"
             /\ Finish(c, lock_queue, "send_failed", task[c].id, NoId)
             /\ UNCHANGED <<out_wire, received>>
    <3>1. "send_failed" \in Outcomes \ {"receipt", "rejected"}
      BY DEF Outcomes
    <3> QED
      BY <1>1, <2>1, <2>2, <2>4, <3>1, EndedKept
  <2> QED
    BY <1>8, <2>3, <2>4 DEF ResumeWrite
<1>9. ASSUME NEW c \in Tasks, ResumeRead(c) PROVE Kept
  <2>1. Receiving(c) /\ UNCHANGED <<next_sequence, link, out_wire, disturbed, sent>>
    BY <1>9 DEF ResumeRead, Receiving
  <2>2. Runs(c, lock_queue) /\ Held(c, lock_queue)
    BY <1>1, <2>1, QueueIsHeld DEF Locked
  <2>3. /\ Request(c) \in Requests /\ Request(c).id = task[c].id
        /\ Request(c).sequence = task[c].sequence
    BY <1>1, <2>1 DEF Request, Requests, Locked
  <2>4. CASE \E n \in ChunkSizes : Take(c, lock_queue, Request(c), n)
    <3>1. PICK n \in ChunkSizes : Take(c, lock_queue, Request(c), n)
      BY <2>4
    <3>2. PICK outcome \in Outcomes, answered \in Ids \cup {NoId} :
            /\ Finish(c, lock_queue, outcome, Request(c).id, answered)
            /\ outcome \in {"receipt", "rejected"} =>
                 \E x : /\ Arrived(x) /\ Numbered(x)
                        /\ x.sequence = Request(c).sequence /\ x.id = answered
      BY <1>1, <2>3, <3>1, TakeEnds DEF Base
    <3>3. /\ task'[c] = AtRest(outcome, task[c].id, answered)
          /\ \A d \in Tasks \ {c} : task'[d] = task[d]
      BY <1>1, <2>2, <2>3, <3>2, Finished
    <3>4. \A d \in Tasks : ~Sending(d)' /\ ~Receiving(d)'
      BY <2>2, <3>3 DEF Runs, Sending, Receiving, AtRest
    <3>5. Taken' = 0 /\ Busy' = 0
      BY <3>4, WhoIsBusyThen
    <3>6. Flow'
      <4>1. SUFFICES ASSUME link' = "up"
                     PROVE  Pipeline(issues', frames', in_wire', out_wire',
                                     next_sequence', 0, disturbed'.number + Busy')
        BY <3>5 DEF Flow
      <4>2. Taken = 0 /\ Busy = 1
        BY <2>1, <2>2, WhoIsBusy DEF Runs, Sending, Receiving
      <4> DEFINE slack == disturbed.number + 1
      <4>3. /\ slack \in Nat
            /\ Pipeline(issues, frames, in_wire, out_wire, next_sequence, 0, slack)
        BY <1>1, <2>1, <4>1, <4>2 DEF Flow
      <4>4. slack - 1 = disturbed'.number + Busy'
        BY <1>1, <2>1, <3>5
      <4> HIDE DEF slack
      <4>5. Pipeline(issues', frames', in_wire', out_wire, next_sequence, 0, slack - 1)
        BY <1>1, <3>1, <4>3, TakeForward DEF Base
      <4> QED
        BY <2>1, <4>4, <4>5
    <3>7. OwnNumber'
      BY <3>4 DEF OwnNumber
    <3>8. outcome \in {"receipt", "rejected"} => answered = task[c].id
      <4>1. SUFFICES ASSUME outcome \in {"receipt", "rejected"}
                     PROVE  answered = task[c].id
        OBVIOUS
      <4>2. PICK x : /\ Arrived(x) /\ Numbered(x)
                     /\ x.sequence = task[c].sequence /\ x.id = answered
        BY <2>3, <3>2, <4>1
      <4>3. \A i \in 1 .. Len(frames) : FALSE
        BY <1>1, <2>1 DEF WaitsForNew
      <4>4. PICK j \in 1 .. Len(in_wire) : in_wire[j] = x
        BY <4>2, <4>3 DEF Arrived
      <4> QED
        BY <1>1, <2>1, <4>2, <4>4 DEF OwnNumber
    <3>9. ReceiptIsGenuine'
      BY <1>1, <3>3, <3>8 DEF ReceiptIsGenuine, AtRest
    <3> QED
      BY <2>1, <3>6, <3>7, <3>9 DEF Kept
  <2>5. CASE /\ link # "up"
             /\ Finish(c, lock_queue, "ack_failed", task[c].id, NoId)
             /\ UNCHANGED received
    <3>1. "ack_failed" \in Outcomes \ {"receipt", "rejected"}
      BY DEF Outcomes
    <3> QED
      BY <1>1, <2>1, <2>2, <2>5, <3>1, EndedKept
  <2> QED
    BY <1>9, <2>4, <2>5 DEF ResumeRead
\* Nothing is on the wires, and nothing was left over: there is nothing to order.
<1>10. ASSUME NEW c \in Tasks, AnswerTimesOut(c) PROVE Kept
  <2>1. /\ Receiving(c) /\ out_wire = <<>> /\ in_wire = <<>>
        /\ Finish(c, lock_queue, "ack_failed", task[c].id, NoId)
        /\ UNCHANGED <<next_sequence, link, out_wire, received, sent, disturbed>>
    BY <1>10 DEF AnswerTimesOut, TimeOut, Receiving
  <2>2. Runs(c, lock_queue) /\ Held(c, lock_queue)
    BY <1>1, <2>1, QueueIsHeld DEF Locked
  <2>3. "ack_failed" \in Outcomes /\ NoId \in Ids \cup {NoId}
    BY DEF Outcomes
  <2>4. /\ task'[c] = AtRest("ack_failed", task[c].id, NoId)
        /\ \A d \in Tasks \ {c} : task'[d] = task[d]
    BY <1>1, <2>1, <2>2, <2>3, Finished
  <2>5. \A d \in Tasks : ~Sending(d)' /\ ~Receiving(d)'
    BY <2>2, <2>4 DEF Runs, Sending, Receiving, AtRest
  <2>6. Taken' = 0 /\ Busy' = 0
    BY <2>5, WhoIsBusyThen
  <2>7. /\ frames' = <<>> /\ issues' = 0 /\ in_wire' = <<>> /\ out_wire' = <<>>
        /\ next_sequence' \in Sequences16 /\ disturbed'.number + 0 \in Nat
    BY <1>1, <2>1 DEF WaitsForNew, received
  <2>8. Pipeline(0, <<>>, <<>>, <<>>, next_sequence', 0, disturbed'.number + 0)
    BY <2>7, PipelineEmpty
  <2>9. Flow'
    BY <2>6, <2>7, <2>8 DEF Flow
  <2>10. OwnNumber' /\ ReceiptIsGenuine'
    BY <1>1, <2>4, <2>5 DEF OwnNumber, ReceiptIsGenuine, AtRest
  <2> QED
    BY <2>1, <2>9, <2>10 DEF Kept
<1>11. ASSUME NEW c \in Tasks, AnswerIsLate(c) PROVE Kept
  <2>1. "ack_failed" \in Outcomes \ {"receipt", "rejected"} /\ Held(c, lock_queue)
    BY <1>1, QueueIsHeld DEF Outcomes
  <2>2. /\ Finish(c, lock_queue, "ack_failed", task[c].id, NoId) /\ Disturb("late")
        /\ UNCHANGED <<next_sequence, link, out_wire, received, sent>>
    BY <1>11 DEF AnswerIsLate, TimeOut
  <2>3. disturbed'.number = disturbed.number + 1
    BY <1>2, <2>2
  <2> QED
    BY <1>1, <2>1, <2>2, <2>3, EndedKept
<1>12. ASSUME NEW c \in Tasks, Cancel(c) PROVE Kept
  <2>1. "cancelled" \in Outcomes \ {"receipt", "rejected"} /\ Held(c, lock_queue)
    BY <1>1, QueueIsHeld DEF Outcomes
  <2>2. /\ Finish(c, lock_queue, "cancelled", task[c].id, NoId) /\ Disturb("cancelled")
        /\ UNCHANGED <<next_sequence, link, out_wire, received, sent>>
    BY <1>12 DEF Cancel
  <2>3. disturbed'.number = disturbed.number + 1
    BY <1>2, <2>2
  <2> QED
    BY <1>1, <2>1, <2>2, <2>3, EndedKept
<1>13. ASSUME RobotAnswers PROVE Kept
  <2>1. disturbed'.number = disturbed.number + 0
    BY <1>1, <1>13 DEF RobotAnswers
  <2>2. CASE Respond("ack")
    BY <1>1, <2>1, <2>2, AnswerKept DEF Inv
  <2>3. CASE Respond("nack")
    BY <1>1, <2>1, <2>3, AnswerKept DEF Inv
  <2> QED
    BY <1>13, <2>2, <2>3 DEF RobotAnswers
<1>14. ASSUME AnswerGarbled PROVE Kept
  <2>1. disturbed'.number = disturbed.number + 1 /\ Respond("garbage")
    BY <1>2, <1>14 DEF AnswerGarbled
  <2> QED
    BY <2>1, AnswerKept
<1> DEFINE slack == disturbed.number + Busy
<1>15. slack \in Nat /\ slack + 1 = (disturbed.number + 1) + Busy
  BY <1>1
<1>16. link = "up" => Pipeline(issues, frames, in_wire, out_wire, next_sequence, Taken,
                               slack)
  BY <1>1 DEF Flow
<1> HIDE DEF slack
<1>17. ASSUME AnswerLost PROVE Kept
  <2>1. /\ link = "up" /\ out_wire # <<>> /\ out_wire' = Tail(out_wire)
        /\ in_wire' = in_wire /\ frames' = frames /\ issues' = issues
        /\ UNCHANGED <<gateway, link, sent>>
        /\ disturbed'.number = disturbed.number + 1
    BY <1>2, <1>17 DEF AnswerLost, received
  <2>2. /\ Tail(out_wire) \in Seq(Requests)
        /\ \A i \in 1 .. Len(Tail(out_wire)) :
             Tail(out_wire)[i] = out_wire[i + 1] /\ i + 1 \in 1 .. Len(out_wire)
    BY <1>1, <2>1, TailIsRest
  <2>3. Pipeline(issues, frames, in_wire, Tail(out_wire), next_sequence, Taken, slack)
    BY <1>1, <1>15, <1>16, <2>1, FrameLost
  <2> DEFINE slack2 == slack + 1
             still == Taken
  <2>4. slack2 \in Nat /\ slack <= slack2 /\ slack2 = disturbed'.number + Busy
        /\ still \in {0, Taken}
    BY <1>1, <1>15, <2>1
  <2> HIDE DEF slack2, still
  <2>5. Pipeline(issues, frames, in_wire, Tail(out_wire), next_sequence, still, slack2)
    <3> DEFINE rest == Tail(out_wire)
    <3>1. rest \in Seq(Requests)
      BY <2>2
    <3>2. Pipeline(issues, frames, in_wire, rest, next_sequence, Taken, slack)
      BY <2>3
    <3> HIDE DEF rest
    <3>3. Pipeline(issues, frames, in_wire, rest, next_sequence, still, slack2)
      BY <1>1, <1>15, <2>4, <3>1, <3>2, PipelineStill
    <3> QED
      BY <3>3 DEF rest
  <2> QED
    BY <2>1, <2>2, <2>4, <2>5, WiresKept DEF still
<1>18. ASSUME StrayFrame PROVE Kept
  <2> DEFINE x == [kind |-> "other", sequence |-> 0, id |-> NoId]
  <2>1. /\ link = "up" /\ in_wire' = Append(in_wire, x) /\ out_wire' = out_wire
        /\ UNCHANGED <<gateway, link, frames, issues, sent>>
        /\ disturbed'.number = disturbed.number + 1
    BY <1>2, <1>18 DEF StrayFrame
  <2>2. x \in Answers /\ x.kind = "other" /\ ~Numbered(x)
    BY GatewayAssumption DEF Answers, Sequences16, Numbered
  <2> HIDE DEF x
  <2>3. Pipeline(issues, frames, Append(in_wire, x), out_wire, next_sequence, Taken,
                 slack + 1)
    BY <1>1, <1>15, <1>16, <2>1, <2>2, StrayWritten
  <2>4. slack + 1 = disturbed'.number + Busy
    BY <1>15, <2>1
  <2>5. ASSUME NEW j \in 1 .. Len(in_wire')
        PROVE  \/ ~Numbered(in_wire'[j])
               \/ \E i \in 1 .. Len(in_wire) : in_wire'[j] = in_wire[i]
    <3>1. /\ Len(in_wire) \in Nat /\ Len(in_wire') = Len(in_wire) + 1
          /\ \A i \in 1 .. Len(in_wire) : in_wire'[i] = in_wire[i]
          /\ in_wire'[Len(in_wire) + 1] = x
      BY <1>1, <2>1, <2>2, AppendIsLast
    <3>2. j \in 1 .. Len(in_wire) \/ j = Len(in_wire) + 1
      BY <3>1
    <3> QED
      BY <2>2, <3>1, <3>2
  <2> QED
    BY <2>1, <2>3, <2>4, <2>5, WiresKept
\* The link goes: what is on the wires stays.
<1>19. ASSUME UNCHANGED <<gateway, out_wire, received, sent>>,
              (link' = link /\ disturbed' = disturbed) \/ link' # "up"
       PROVE  Kept
  <2>1. \A d \in Tasks : /\ Sending(d)' <=> Sending(d)
                         /\ Receiving(d)' <=> Receiving(d)
                         /\ task'[d] = task[d]
    BY <1>19 DEF gateway, Sending, Receiving
  <2>2. Flow'
    <3>1. CASE link' # "up"
      BY <3>1 DEF Flow
    <3>2. CASE link' = link /\ disturbed' = disturbed
      <4>1. Taken' = Taken /\ Busy' = Busy
        BY <1>1, <2>1, WhoIsBusy, WhoIsBusyThen
      <4> QED
        BY <1>1, <1>19, <3>2, <4>1, FlowStill DEF gateway
    <3> QED
      BY <1>19, <3>1, <3>2
  <2>3. OwnNumber' /\ ReceiptIsGenuine'
    BY <1>1, <1>19, <2>1 DEF OwnNumber, ReceiptIsGenuine, LastNumber, gateway, received
  <2> QED
    BY <1>19, <2>2, <2>3 DEF Kept
<1>20. ASSUME Close \/ HangUp PROVE Kept
  BY <1>19, <1>20 DEF Close, HangUp
<1>21. CASE UNCHANGED vars
  BY <1>19, <1>21 DEF vars
<1> QED
  BY <1>4, <1>5, <1>6, <1>7, <1>8, <1>9, <1>10, <1>11, <1>12, <1>13, <1>14, <1>17,
     <1>18, <1>20, <1>21 DEF Next, Call

LEMMA InvIsKept == SequenceIsLongEnough /\ Inv /\ [Next]_vars => Inv'
<1> SUFFICES ASSUME SequenceIsLongEnough, Inv, [Next]_vars PROVE Inv'
  OBVIOUS
<1>1. Base'
  BY BaseIsKept DEF Inv
<1>2. Flow' /\ OwnNumber' /\ ReceiptIsGenuine' /\ (link' # "up" => out_wire' = out_wire)
  BY StepKept DEF Kept
<1>3. FramesLeaveInOrder'
  <2>1. CASE link' # "up"
    BY <1>2, <2>1 DEF FramesLeaveInOrder, Inv
  <2>2. CASE link' = "up"
    <3> DEFINE slack == disturbed'.number + Busy'
    <3>1. /\ issues' \in Nat /\ frames' \in Seq(Answers) /\ in_wire' \in Seq(Answers)
          /\ out_wire' \in Seq(Requests) /\ next_sequence' \in Sequences16
          /\ Taken' \in {0, 1} /\ slack \in Nat /\ slack + 2 <= SeqModulus
      BY <1>1, WhoIsBusyThen, GatewayAssumption DEF Base, Typed, SequenceIsLongEnough
    <3>2. Pipeline(issues', frames', in_wire', out_wire', next_sequence', Taken', slack)
      BY <1>2, <2>2 DEF Flow
    <3> HIDE DEF slack
    <3>3. \A i, j \in 1 .. Len(out_wire') :
            i < j => (out_wire'[j].sequence - out_wire'[i].sequence) % SeqModulus
                       \in 1 .. SeqModulus - 2
      BY <3>1, <3>2, PipelineIsOrdered
    <3> QED
      BY <3>3 DEF FramesLeaveInOrder
  <2> QED
    BY <2>1, <2>2
<1> QED
  BY <1>1, <1>2, <1>3 DEF Inv

LEMMA InvHolds == Init => Inv
<1> SUFFICES ASSUME Init PROVE Inv
  OBVIOUS
<1>1. Base
  BY BaseHolds
<1>2. \A c \in Tasks : ~Sending(c) /\ ~Receiving(c) /\ task[c].outcome = "none"
  BY DEF Init, AtRest, Sending, Receiving
<1>3. Taken = 0 /\ Busy = 0
  BY <1>2, WhoIsBusy
<1>4. Flow
  <2>1. next_sequence \in Sequences16 /\ disturbed.number + 0 \in Nat
    BY GatewayAssumption DEF Init, Sequences16
  <2>2. Pipeline(0, <<>>, <<>>, <<>>, next_sequence, 0, disturbed.number + 0)
    BY <2>1, PipelineEmpty
  <2> QED
    BY <1>3, <2>2 DEF Init, Flow
<1>5. OwnNumber /\ FramesLeaveInOrder /\ ReceiptIsGenuine
  BY <1>2 DEF Init, OwnNumber, FramesLeaveInOrder, ReceiptIsGenuine
<1> QED
  BY <1>1, <1>4, <1>5 DEF Inv

\* What is on the wires beside the request that is under way was left there by a
\* disturbance.
LEMMA FlowBoundsLeftovers == Inv => DisturbancesLeaveOne
<1> SUFFICES ASSUME Inv PROVE DisturbancesLeaveOne
  OBVIOUS
<1> DEFINE left == issues + Len(frames) + Len(in_wire) + Len(out_wire)
           number == disturbed.number
<1>1. /\ issues \in Nat /\ Len(frames) \in Nat /\ Len(in_wire) \in Nat
      /\ Len(out_wire) \in Nat /\ number \in Nat
  BY GatewayAssumption DEF Inv, Base, Typed
<1>2. link = "up" => left + Taken <= number + Busy
  BY DEF Inv, Flow, Pipeline
<1>3. \A c, d \in Tasks : ~(Sending(c) /\ Receiving(d))
  BY DEF Inv, Base, Locked, Sending, Receiving
<1> HIDE DEF left, number
<1>4. left \in Int
  BY <1>1 DEF left
<1>5. CASE \E c \in Tasks : Receiving(c)
  <2>1. Taken = 0 /\ Busy = 1 /\ ~\E c \in Tasks : Sending(c)
    BY <1>3, <1>5 DEF Taken, Busy
  <2>2. link = "up" => left <= number + 1
    BY <1>1, <1>2, <1>4, <2>1 DEF number
  <2> QED
    BY <1>5, <2>1, <2>2 DEF DisturbancesLeaveOne, Jammed, Sending, Receiving, left, number
<1>6. CASE ~\E c \in Tasks : Receiving(c)
  <2>1. Taken = Busy /\ Taken \in {0, 1}
    BY <1>6 DEF Taken, Busy
  <2>2. link = "up" => left <= number
    BY <1>1, <1>2, <1>4, <2>1 DEF number
  <2>3. Jammed => OutCapacity + InCapacity <= number
    BY <1>1, <2>2, GatewayAssumption DEF Jammed, left, number
  <2>4. link = "up" => left <= number + 0
    BY <1>1, <2>2 DEF number
  <2> QED
    BY <1>6, <2>3, <2>4 DEF DisturbancesLeaveOne, Receiving, left, number
<1> QED
  BY <1>5, <1>6

\* As long as there are more sequence numbers than disturbances, the state of
\* robot_gateway.py is sound, its requests hold the lock in turn, and their frames
\* leave in the order of their numbers however writers wait or are cancelled, and a
\* disturbance leaves at most one frame behind, so that as many as both channels hold
\* frames are needed to jam the link.
THEOREM TurnsAreTaken ==
  ASSUME SequenceIsLongEnough
  PROVE  Spec => []RequestsTakeTurns
<1>1. Init => Inv
  BY InvHolds
<1>2. Inv /\ [Next]_vars => Inv'
  BY InvIsKept
<1>3. Inv => RequestsTakeTurns
  BY BaseGivesTurns, FlowBoundsLeftovers DEF Inv, OneAtATime, RequestsTakeTurns
<1> QED
  BY <1>1, <1>2, <1>3, PTL DEF Spec

\* As long as there are more sequence numbers than disturbances, _request tells its
\* caller of a receipt or a rejection only on the robot's answer to that very
\* request, though it knows its answer by the sequence number alone, answers may be
\* late, lost, damaged or overtaken by a cancellation, and the numbers wrap.
THEOREM ReceiptsAreGenuine ==
  ASSUME SequenceIsLongEnough
  PROVE  Spec => []ReceiptIsGenuine
<1>1. Init => Inv
  BY InvHolds
<1>2. Inv /\ [Next]_vars => Inv'
  BY InvIsKept
<1>3. Inv => ReceiptIsGenuine
  BY DEF Inv
<1> QED
  BY <1>1, <1>2, <1>3, PTL DEF Spec
===========================================================================
