-------------------------- MODULE ProtocolProofs --------------------------
(***************************************************************************)
(* Theorems about the protocol: its frames and its decoders (FrameStream), *)
(* its payloads (Payloads), and the simulation runtime, which speaks it to *)
(* a digital twin (SimulationRuntime).  They hold for any number and size  *)
(* of frames, any damage, any messages and any byte base, and any number   *)
(* of callers, calls and disturbances.                                     *)
(*                                                                         *)
(* The stream: what is unread was sent, or is damage.  A checksum that is  *)
(* unread tells which frame it ends (Checks), so what a decoder accepts is *)
(* that frame and was not heard before (Hearing); behind the last fault    *)
(* everything is as it was sent (Clean), so nothing is passed over there   *)
(* (Prompt, Skipped).  Each turn of a decoder keeps this (TurnReading).    *)
(*                                                                         *)
(* The payloads: the bytes of a field give back its value, and the value   *)
(* gives back the bytes (FieldRound, FieldBack), each at its offset, in a  *)
(* layout with any number of joints (WholeIs).  So a message that fits is  *)
(* decoded to itself (EncodeDecode), what is accepted was encoded          *)
(* (DecodedIs), and the offsets the firmware reads are those of the layout *)
(* (MotionMeans).                                                          *)
(*                                                                         *)
(* The runtime: a caller that has the lock asked last, so its frame is the *)
(* last of its link: once the answer to it is there, nothing else is on    *)
(* the way to the twin (AnswerIsTheLast), and what it tells of the twin is *)
(* still true when it is read.  The rest is what a stop needs of the       *)
(* frames before it, and the count of the device tasks.                    *)
(***************************************************************************)
EXTENDS FrameStream, Payloads, SimulationRuntime, FiniteSetTheorems,
        SequenceTheorems, WellFoundedInduction, TLAPS

---------------------------------------------------------------------------
(* Numbers.                                                                *)


\* A set of numbers that is not empty has a least one.
LEMMA LeastNumber ==
  ASSUME NEW T \in SUBSET Nat, T # {}
  PROVE  \E x \in T : \A y \in T : x <= y
<1> DEFINE R == OpToRel(<, Nat)
<1>1. IsWellFoundedOn(R, Nat)
  BY NatLessThanWellFounded, Zenon
<1>2. R = {ss \in Nat \X Nat : ss[1] < ss[2]}
  BY Zenon DEF OpToRel
<1> HIDE DEF R
<1>3. PICK x \in T : \A y \in T : ~(<<y, x>> \in R)
  BY <1>1, WFMin, Zenon
<1>4. \A m, n \in Nat : m < n => <<m, n>> \in R
  BY <1>2
<1>5. \A y \in T : y \in Nat /\ x \in Nat /\ ~(y < x)
  BY <1>3, <1>4
<1>6. \A y \in T : x <= y
  BY <1>5
<1> QED
  BY <1>3, <1>6

\* Induction for a set: the library's theorem needs a predicate.
LEMMA EveryNumber ==
  ASSUME NEW T \in SUBSET Nat, 0 \in T, \A n \in T : n + 1 \in T
  PROVE  T = Nat
<1> SUFFICES ASSUME Nat \ T # {} PROVE FALSE
  OBVIOUS
<1>1. PICK x \in Nat \ T : \A y \in Nat \ T : x <= y
  BY LeastNumber
<1>2. x # 0 /\ x - 1 \in Nat /\ ~(x <= x - 1)
  BY <1>1
<1>3. x - 1 \in T
  BY <1>1, <1>2
<1> QED
  BY <1>1, <1>2, <1>3

---------------------------------------------------------------------------
(* Sequences of sequences.                                                 *)

\* The local function of FlattenSeq.
FlattenIn(flatten, seqs) ==
  flatten = [i \in 1 .. Len(seqs) |->
               IF i = 1 THEN seqs[i] ELSE flatten[i - 1] \o seqs[i]]

\* FlattenSeq is defined by CHOOSE; the function chosen exists.
LEMMA FlattenExists ==
  ASSUME NEW S, NEW seqs \in Seq(S)
  PROVE  \E flatten : FlattenIn(flatten, seqs)
<1> DEFINE Step(f, i) == IF i = 1 THEN seqs[i] ELSE f[i - 1] \o seqs[i]
           T == {n \in Nat : \E f : f = [i \in 1 .. n |-> Step(f, i)]}
<1>1. 0 \in T
  <2> DEFINE f == [i \in 1 .. 0 |-> <<>>]
  <2>1. f = [i \in 1 .. 0 |-> Step(f, i)]
    OBVIOUS
  <2> QED
    BY <2>1
<1>2. ASSUME NEW n \in T PROVE n + 1 \in T
  <2>1. PICK f : f = [i \in 1 .. n |-> Step(f, i)]
    OBVIOUS
  <2> DEFINE g == [i \in 1 .. n + 1 |-> IF i = n + 1 THEN Step(f, i) ELSE f[i]]
  <2>2. \A i \in 1 .. n + 1 : g[i] = Step(g, i)
    <3> TAKE i \in 1 .. n + 1
    <3>1. i # 1 => i - 1 \in 1 .. n /\ g[i - 1] = f[i - 1]
      OBVIOUS
    <3>2. g[i] = Step(f, i)
      <4>1. CASE i = n + 1
        BY <4>1
      <4>2. CASE i # n + 1
        <5>1. i \in 1 .. n
          BY <4>2
        <5> QED
          BY <2>1, <4>2, <5>1
      <4> QED
        BY <4>1, <4>2
    <3> QED
      BY <3>1, <3>2
  <2>3. g = [i \in 1 .. n + 1 |-> g[i]]
    OBVIOUS
  <2> HIDE DEF g, Step
  <2>4. g = [i \in 1 .. n + 1 |-> Step(g, i)]
    BY <2>2, <2>3
  <2> QED
    BY <2>4
<1>3. Len(seqs) \in T
  <2> HIDE DEF T
  <2>1. T \subseteq Nat
    BY DEF T
  <2>2. T = Nat
    BY <1>1, <1>2, <2>1, EveryNumber
  <2> QED
    BY <2>2
<1>4. PICK f : f = [i \in 1 .. Len(seqs) |-> Step(f, i)]
  <2> HIDE DEF Step
  <2> QED
    BY <1>3
<1>5. FlattenIn(f, seqs)
  BY <1>4 DEF FlattenIn
<1> QED
  BY <1>5

\* What FlattenSeq chooses.
LEMMA FlattenIs ==
  ASSUME NEW S, NEW seqs \in Seq(S), Len(seqs) # 0
  PROVE  \E flatten : FlattenIn(flatten, seqs) /\ FlattenSeq(seqs) = flatten[Len(seqs)]
<1> DEFINE f == CHOOSE flatten : FlattenIn(flatten, seqs)
<1>1. FlattenIn(f, seqs)
  BY FlattenExists
<1>2. FlattenSeq(seqs) = f[Len(seqs)]
  BY DEF FlattenSeq, FlattenIn
<1> QED
  BY <1>1, <1>2

\* Functions for a sequence and for a longer one agree where both are defined.
LEMMA FlattenUnique ==
  ASSUME NEW s, NEW t, NEW f, NEW g, FlattenIn(f, s), FlattenIn(g, t),
         Len(s) \in Nat, Len(t) \in Nat, Len(s) <= Len(t),
         \A i \in 1 .. Len(s) : s[i] = t[i]
  PROVE  \A i \in 1 .. Len(s) : f[i] = g[i]
<1> DEFINE T == {n \in Nat : n \in 1 .. Len(s) => f[n] = g[n]}
<1>1. 0 \in T
  OBVIOUS
<1>2. ASSUME NEW n \in T PROVE n + 1 \in T
  <2> SUFFICES ASSUME n + 1 \in 1 .. Len(s) PROVE f[n + 1] = g[n + 1]
    OBVIOUS
  <2>1. n \in Nat /\ n + 1 \in 1 .. Len(t) /\ (n + 1) - 1 = n
    OBVIOUS
  <2>2. f[n + 1] = IF n + 1 = 1 THEN s[n + 1] ELSE f[n] \o s[n + 1]
    BY <2>1 DEF FlattenIn
  <2>3. g[n + 1] = IF n + 1 = 1 THEN t[n + 1] ELSE g[n] \o t[n + 1]
    BY <2>1 DEF FlattenIn
  <2>4. n + 1 # 1 => f[n] = g[n]
    BY <2>1
  <2> QED
    BY <2>2, <2>3, <2>4
<1>3. T = Nat
  <2> HIDE DEF T
  <2>1. T \subseteq Nat
    BY DEF T
  <2> QED
    BY <1>1, <1>2, <2>1, EveryNumber
<1> QED
  BY <1>3

LEMMA FlattenEmpty == FlattenSeq(<<>>) = <<>>
  BY DEF FlattenSeq

LEMMA FlattenLonger ==
  ASSUME NEW S, NEW s \in Seq(S), NEW t \in Seq(S), s # <<>>, Len(t) = Len(s) + 1,
         \A i \in 1 .. Len(s) : s[i] = t[i]
  PROVE  FlattenSeq(t) = FlattenSeq(s) \o t[Len(t)]
<1>0. Len(s) \in Nat \ {0} /\ Len(t) \in Nat \ {0, 1} /\ Len(s) <= Len(t) /\ Len(t) - 1 = Len(s)
  OBVIOUS
<1>1. PICK f : FlattenIn(f, s) /\ FlattenSeq(s) = f[Len(s)]
  BY <1>0, FlattenIs
<1>2. PICK g : FlattenIn(g, t) /\ FlattenSeq(t) = g[Len(t)]
  BY <1>0, FlattenIs
<1>3. f[Len(s)] = g[Len(s)]
  <2>1. \A i \in 1 .. Len(s) : f[i] = g[i]
    BY <1>0, <1>1, <1>2, FlattenUnique
  <2> QED
    BY <1>0, <2>1
<1>4. g[Len(t)] = g[Len(s)] \o t[Len(t)]
  <2>1. Len(t) \in 1 .. Len(t) /\ Len(t) # 1
    BY <1>0
  <2>2. g[Len(t)] = IF Len(t) = 1 THEN t[Len(t)] ELSE g[Len(t) - 1] \o t[Len(t)]
    BY <1>2, <2>1 DEF FlattenIn
  <2> QED
    BY <1>0, <2>1, <2>2
<1> QED
  BY <1>0, <1>1, <1>2, <1>3, <1>4

LEMMA FlattenSingle ==
  ASSUME NEW x
  PROVE  FlattenSeq(<<x>>) = x
<1> DEFINE s == <<x>>
<1>1. s \in Seq({x}) /\ Len(s) = 1 /\ s[1] = x
  OBVIOUS
<1> HIDE DEF s
<1>2. PICK f : FlattenIn(f, s) /\ FlattenSeq(s) = f[Len(s)]
  <2> DEFINE Z == {x}
  <2>1. s \in Seq(Z) /\ Len(s) # 0
    BY <1>1
  <2> HIDE DEF Z
  <2> QED
    BY <2>1, FlattenIs
<1>3. f[1] = s[1]
  BY <1>1, <1>2 DEF FlattenIn
<1> QED
  BY <1>1, <1>2, <1>3 DEF s

\* The equation the proofs use: a text more is appended.
LEMMA FlattenAppend ==
  ASSUME NEW S, NEW seqs \in Seq(Seq(S)), NEW x \in Seq(S)
  PROVE  FlattenSeq(Append(seqs, x)) = FlattenSeq(seqs) \o x
<1>1. CASE seqs = <<>>
  <2>1. Append(seqs, x) = <<x>> /\ <<>> \o x = x
    BY <1>1
  <2> QED
    BY <1>1, <2>1, FlattenEmpty, FlattenSingle
<1>2. CASE seqs # <<>>
  <2> DEFINE Z == Seq(S)
  <2>1. seqs \in Seq(Z) /\ x \in Z
    OBVIOUS
  <2> HIDE DEF Z
  <2>2. /\ Append(seqs, x) \in Seq(Z) /\ Len(Append(seqs, x)) = Len(seqs) + 1
        /\ \A i \in 1 .. Len(seqs) : seqs[i] = Append(seqs, x)[i]
        /\ Append(seqs, x)[Len(seqs) + 1] = x
    BY <2>1, AppendProperties
  <2>3. FlattenSeq(Append(seqs, x)) = FlattenSeq(seqs) \o Append(seqs, x)[Len(Append(seqs, x))]
    BY <1>2, <2>1, <2>2, FlattenLonger
  <2> QED
    BY <2>2, <2>3
<1> QED
  BY <1>1, <1>2

---------------------------------------------------------------------------
(* Texts: sequences as the proofs below see them, by their size and by what *)
(* is at each place.  The names stay folded, which spares the provers the   *)
(* theory of sequences.                                                     *)

Text(S) == Seq(S)
Size(s) == Len(s)
At(s, i) == s[i]
Joins(r, s, t) == r = s \o t
Adds(r, s, x) == r = Append(s, x)
Parts(r, s, m, k) == r = SubSeq(s, m + 1, k)
Cuts(r, s, m) == r = SubSeq(s, m + 1, Len(s))
Fronts(r, s, m) == r = SubSeq(s, 1, m)

LEMMA TextIs ==
  ASSUME NEW S, NEW s \in Text(S)
  PROVE  Size(s) \in Nat /\ \A i \in 1 .. Size(s) : At(s, i) \in S
  BY DEF Text, Size, At

\* Two texts of one size with the same at each place are the same.
LEMMA TextEqual ==
  ASSUME NEW S, NEW s \in Text(S), NEW t \in Text(S), Size(s) = Size(t),
         \A i \in 1 .. Size(s) : At(s, i) = At(t, i)
  PROVE  s = t
  BY SeqEqual DEF Text, Size, At

LEMMA TextOf ==
  ASSUME NEW S, NEW T, NEW s \in Text(S), \A i \in 1 .. Size(s) : At(s, i) \in T
  PROVE  s \in Text(T)
  BY DEF Text, Size, At

LEMMA EmptyText ==
  /\ \A S : <<>> \in Text(S) /\ Size(<<>>) = 0
  /\ \A S : \A s \in Text(S) : Size(s) = 0 => s = <<>>
  BY DEF Text, Size

LEMMA JoinIs ==
  ASSUME NEW S, NEW s \in Text(S), NEW t \in Text(S), NEW r, Joins(r, s, t)
  PROVE  /\ r \in Text(S) /\ Size(s) \in Nat /\ Size(t) \in Nat /\ Size(r) = Size(s) + Size(t)
         /\ \A i \in 1 .. Size(s) : At(r, i) = At(s, i)
         /\ \A i \in 1 .. Size(t) : At(r, Size(s) + i) = At(t, i)
  BY DEF Joins, Text, Size, At

LEMMA AddIs ==
  ASSUME NEW S, NEW s \in Text(S), NEW x \in S, NEW r, Adds(r, s, x)
  PROVE  /\ r \in Text(S) /\ Size(s) \in Nat /\ Size(r) = Size(s) + 1
         /\ \A i \in 1 .. Size(s) : At(r, i) = At(s, i)
         /\ At(r, Size(s) + 1) = x
  BY DEF Adds, Text, Size, At

LEMMA PartIs ==
  ASSUME NEW S, NEW s \in Text(S), NEW m \in Nat, NEW k \in Nat, m <= k, k <= Size(s),
         NEW r, Parts(r, s, m, k)
  PROVE  /\ r \in Text(S) /\ Size(s) \in Nat /\ Size(r) = k - m
         /\ \A i \in 1 .. k - m : At(r, i) = At(s, m + i)
<1>1. s \in Seq(S) /\ Len(s) \in Nat /\ k <= Len(s)
  BY DEF Text, Size
<1>2. \A i \in m + 1 .. k : s[i] \in S
  BY <1>1
<1>3. /\ r \in Seq(S) /\ Len(r) = IF m + 1 <= k THEN k - (m + 1) + 1 ELSE 0
      /\ \A i \in 1 .. k - (m + 1) + 1 : r[i] = s[m + 1 + i - 1]
  BY <1>1, <1>2, SubSeqProperties DEF Parts
<1>4. Len(r) = k - m
  BY <1>1, <1>3
<1>5. \A i \in 1 .. k - m : r[i] = s[m + i]
  <2> TAKE i \in 1 .. k - m
  <2>1. i \in 1 .. k - (m + 1) + 1 /\ m + 1 + i - 1 = m + i
    BY <1>1
  <2> QED
    BY <1>3, <2>1
<1> QED
  BY <1>1, <1>3, <1>4, <1>5 DEF Text, Size, At

LEMMA CutIs ==
  ASSUME NEW S, NEW s \in Text(S), NEW m \in 0 .. Size(s), NEW r, Cuts(r, s, m)
  PROVE  /\ r \in Text(S) /\ Size(s) \in Nat /\ Size(r) = Size(s) - m
         /\ \A i \in 1 .. Size(r) : At(r, i) = At(s, m + i)
<1>1. Size(s) \in Nat /\ m \in Nat /\ m <= Size(s)
  BY TextIs
<1>2. Parts(r, s, m, Size(s))
  BY DEF Cuts, Parts, Size
<1> QED
  BY <1>1, <1>2, PartIs

LEMMA FrontIs ==
  ASSUME NEW S, NEW s \in Text(S), NEW m \in 0 .. Size(s), NEW r, Fronts(r, s, m)
  PROVE  /\ r \in Text(S) /\ Size(r) = m
         /\ \A i \in 1 .. m : At(r, i) = At(s, i)
<1>1. Size(s) \in Nat /\ m \in Nat /\ m <= Size(s) /\ 0 \in Nat /\ 0 <= m /\ m - 0 = m
  BY TextIs
<1>2. Parts(r, s, 0, m)
  BY DEF Fronts, Parts
<1>3. r \in Text(S) /\ Size(r) = m - 0 /\ \A i \in 1 .. m - 0 : At(r, i) = At(s, 0 + i)
  BY <1>1, <1>2, PartIs
<1>4. \A i \in 1 .. m : i \in 1 .. m - 0 /\ 0 + i = i
  BY <1>1
<1> QED
  BY <1>1, <1>3, <1>4

---------------------------------------------------------------------------
(* Symbols and frames.                                                     *)

\* What is a byte or a field of the header, and what may be on the line
Plain == {Symbol(n) : n \in Nat}
Symbols == Plain \cup {Crc(body) : body \in Seq(Plain)}

LEMMA Word == WORD \in Nat
  BY DEF WORD

\* A symbol tells its number.
LEMMA PlainSymbols ==
  /\ \A n \in Nat : Symbol(n) \in Plain /\ Value(Symbol(n)) = n
  /\ \A x \in Plain : Value(x) \in Nat /\ x = Symbol(Value(x))
  /\ Bytes \subseteq Plain
<1>1. \A n \in Nat : Symbol(n) \in Plain
  BY DEF Plain
<1>2. \A n \in Nat : Len(Symbol(n)) = 1 /\ Symbol(n)[1] = n
  BY DEF Symbol
<1>3. \A n \in Nat : Value(Symbol(n)) = n
  BY <1>2 DEF Value
<1>4. \A x \in Plain : Value(x) \in Nat /\ x = Symbol(Value(x))
  BY <1>3 DEF Plain
<1>5. Bytes \subseteq Plain
  BY <1>1, Word DEF Bytes
<1> QED
  BY <1>1, <1>3, <1>4, <1>5

\* A checksum is no byte and tells what it is taken of.
LEMMA Checksums ==
  /\ \A body : Crc(body) \notin Plain /\ Value(Crc(body)) = WORD + 1
  /\ \A a, b : Crc(a) = Crc(b) => a = b
  /\ \A body \in Seq(Plain) : Crc(body) \in Symbols
<1>1. \A body : Len(Crc(body)) = 2 /\ Crc(body)[2] = body
  BY DEF Crc
<1>2. \A x \in Plain : Len(x) = 1
  BY DEF Plain, Symbol
<1>3. \A body \in Seq(Plain) : Crc(body) \in Symbols
  BY DEF Symbols
<1>4. \A body : Value(Crc(body)) = WORD + 1
  BY <1>1 DEF Value
<1> HIDE DEF Crc
<1> QED
  BY <1>1, <1>2, <1>3, <1>4

LEMMA SymbolsHaveValues ==
  ASSUME NEW x \in Symbols
  PROVE  /\ Value(x) \in Nat
         /\ x \in Plain \/ \E body \in Seq(Plain) : x = Crc(body)
         /\ Value(x) <= WORD => x \in Plain
<1>1. CASE x \in Plain
  BY <1>1, PlainSymbols
<1>2. CASE x \notin Plain
  <2>1. PICK body \in Seq(Plain) : x = Crc(body)
    BY <1>2 DEF Symbols
  <2>2. Value(Crc(body)) = WORD + 1 /\ WORD \in Nat
    BY Checksums, Word
  <2>3. Value(x) = WORD + 1
    BY <2>1, <2>2
  <2> QED
    BY <2>1, <2>2, <2>3
<1> QED
  BY <1>1, <1>2

\* The magic is two bytes that differ.
LEMMA Magic ==
  /\ MAGIC \in Seq(Plain) /\ Len(MAGIC) = 2
  /\ MAGIC[1] \in Plain /\ MAGIC[2] \in Plain /\ MAGIC[1] # MAGIC[2]
<1>1. Symbol(82) \in Plain /\ Symbol(67) \in Plain /\ Symbol(82) # Symbol(67)
  <2>1. Value(Symbol(82)) = 82 /\ Value(Symbol(67)) = 67
    BY PlainSymbols
  <2> QED
    BY <2>1, PlainSymbols
<1> HIDE DEF Symbol
<1> QED
  BY <1>1 DEF MAGIC

\* A frame with any number for each field
WireFrames == [type : Nat, sequence : Nat, payload : Seq(Plain)]

\* Names that stay folded: a frame as sent, and what its checksum is of
Code(frame) == EncodeFrame(frame)
Body(frame) ==
  MAGIC \o <<Symbol(PROTOCOL_VERSION), Symbol(frame.type), Symbol(frame.sequence),
             Symbol(Len(frame.payload))>> \o frame.payload

\* The start of a frame
Headed(start, c, d, e, f) == start = MAGIC \o <<c, d, e, f>>

LEMMA HeaderIs ==
  ASSUME NEW c \in Plain, NEW d \in Plain, NEW e \in Plain, NEW f \in Plain,
         NEW start, Headed(start, c, d, e, f)
  PROVE  /\ start \in Text(Plain) /\ Size(start) = 6
         /\ At(start, 1) = At(MAGIC, 1) /\ At(start, 2) = At(MAGIC, 2)
         /\ At(start, 3) = c /\ At(start, 4) = d /\ At(start, 5) = e /\ At(start, 6) = f
<1> DEFINE t == <<c, d, e, f>>
           g == MAGIC
<1>1. t \in Text(Plain) /\ Size(t) = 4 /\ At(t, 1) = c /\ At(t, 2) = d /\ At(t, 3) = e /\ At(t, 4) = f
  BY DEF Text, Size, At
<1>2. g \in Text(Plain) /\ Size(g) = 2 /\ At(g, 1) = At(MAGIC, 1) /\ At(g, 2) = At(MAGIC, 2)
  BY Magic DEF Text, Size, At
<1>3. Joins(start, g, t)
  BY DEF Joins, Headed
<1> HIDE DEF t, g
<1>4. /\ start \in Text(Plain) /\ Size(start) = 2 + 4
      /\ \A i \in 1 .. 2 : At(start, i) = At(g, i)
      /\ \A i \in 1 .. 4 : At(start, 2 + i) = At(t, i)
  BY <1>1, <1>2, <1>3, JoinIs
<1>5. /\ At(start, 2 + 1) = At(t, 1) /\ At(start, 2 + 2) = At(t, 2)
      /\ At(start, 2 + 3) = At(t, 3) /\ At(start, 2 + 4) = At(t, 4)
  BY <1>4
<1> QED
  BY <1>1, <1>2, <1>4, <1>5

\* The header of a frame
Heads(frame, code) ==
  /\ At(code, 1) = At(MAGIC, 1) /\ At(code, 2) = At(MAGIC, 2)
  /\ At(code, 3) = Symbol(PROTOCOL_VERSION) /\ At(code, 4) = Symbol(frame.type)
  /\ At(code, 5) = Symbol(frame.sequence) /\ At(code, 6) = Symbol(Size(frame.payload))

LEMMA BodyIs ==
  ASSUME NEW frame \in WireFrames
  PROVE  LET n == Size(frame.payload)
             body == Body(frame)
         IN /\ body \in Text(Plain) /\ n \in Nat /\ Size(body) = 6 + n
            /\ Heads(frame, body)
            /\ \A i \in 1 .. n : At(body, 6 + i) = At(frame.payload, i)
<1> DEFINE p == frame.payload
           c == Symbol(PROTOCOL_VERSION)
           d == Symbol(frame.type)
           e == Symbol(frame.sequence)
           f == Symbol(Size(p))
           start == MAGIC \o <<c, d, e, f>>
           body == Body(frame)
<1>1. p \in Text(Plain) /\ Size(p) \in Nat
  BY DEF WireFrames, Text, Size
<1>2. c \in Plain /\ d \in Plain /\ e \in Plain /\ f \in Plain
  <2>1. PROTOCOL_VERSION \in Nat
    BY DEF PROTOCOL_VERSION
  <2> QED
    BY <1>1, <2>1, PlainSymbols DEF WireFrames
<1>3. Joins(body, start, p)
  BY DEF Body, Joins, Size
<1>4. Headed(start, c, d, e, f)
  BY DEF Headed
<1>8. Heads(frame, body) <=>
        /\ At(body, 1) = At(MAGIC, 1) /\ At(body, 2) = At(MAGIC, 2)
        /\ At(body, 3) = c /\ At(body, 4) = d /\ At(body, 5) = e /\ At(body, 6) = f
  BY DEF Heads
<1> HIDE DEF p, c, d, e, f, body, start
<1>5. /\ start \in Text(Plain) /\ Size(start) = 6
      /\ At(start, 1) = At(MAGIC, 1) /\ At(start, 2) = At(MAGIC, 2)
      /\ At(start, 3) = c /\ At(start, 4) = d /\ At(start, 5) = e /\ At(start, 6) = f
  BY <1>2, <1>4, HeaderIs
<1>6. /\ body \in Text(Plain) /\ Size(body) = 6 + Size(p)
      /\ \A i \in 1 .. 6 : At(body, i) = At(start, i)
      /\ \A i \in 1 .. Size(p) : At(body, 6 + i) = At(p, i)
  BY <1>1, <1>3, <1>5, JoinIs
<1>7. Heads(frame, body)
  BY <1>5, <1>6, <1>8
<1> QED
  BY <1>1, <1>6, <1>7 DEF p, body

\* A frame as sent: its header, its payload, its checksum.
LEMMA CodeIs ==
  ASSUME NEW frame \in WireFrames
  PROVE  LET n == Size(frame.payload)
             code == Code(frame)
         IN /\ code \in Text(Symbols) /\ n \in Nat /\ Size(code) = 7 + n
            /\ \A i \in 1 .. 6 + n : At(code, i) = At(Body(frame), i) /\ At(code, i) \in Plain
            /\ Heads(frame, code)
            /\ \A i \in 1 .. n : At(code, 6 + i) = At(frame.payload, i)
            /\ At(code, 7 + n) = Crc(Body(frame))
<1> DEFINE n == Size(frame.payload)
           p == frame.payload
           body == Body(frame)
           code == Code(frame)
           last == Crc(body)
<1>1. Adds(code, body, last)
  BY DEF EncodeFrame, Body, Adds, Code
<1>2. /\ body \in Text(Plain) /\ n \in Nat /\ Size(body) = 6 + n /\ Heads(frame, body)
      /\ \A i \in 1 .. n : At(body, 6 + i) = At(p, i)
  BY BodyIs
<1>3. body \in Text(Symbols) /\ last \in Symbols
  BY <1>2, Checksums, TextIs, TextOf DEF Symbols, Text
<1>4. Heads(frame, body) /\ At(code, 1) = At(body, 1) /\ At(code, 2) = At(body, 2) /\ At(code, 3) = At(body, 3)
      /\ At(code, 4) = At(body, 4) /\ At(code, 5) = At(body, 5) /\ At(code, 6) = At(body, 6)
      => Heads(frame, code)
  BY DEF Heads
<1> HIDE DEF n, p, body, code, last
<1>5. /\ code \in Text(Symbols) /\ Size(code) = 7 + n
      /\ \A i \in 1 .. 6 + n : At(code, i) = At(body, i)
      /\ At(code, 7 + n) = last
  BY <1>1, <1>2, <1>3, AddIs
<1>6. \A i \in 1 .. 6 + n : At(code, i) \in Plain
  BY <1>2, <1>5, TextIs
<1>7. Heads(frame, code)
  BY <1>2, <1>4, <1>5
<1>8. \A i \in 1 .. n : At(code, 6 + i) = At(p, i)
  BY <1>2, <1>5
<1> QED
  BY <1>2, <1>5, <1>6, <1>7, <1>8 DEF n, p, body, code, last

---------------------------------------------------------------------------
(* The line: where its frames end, and what lies between.                  *)

\* The symbols up to the end of frame k.
Mark(fs, k) == Size(Line(SubSeq(fs, 1, k)))

LEMMA LineEmpty == Line(<<>>) = <<>>
<1>1. [k \in DOMAIN <<>> |-> EncodeFrame(<<>>[k])] = <<>>
  OBVIOUS
<1> QED
  BY <1>1, FlattenEmpty DEF Line

\* One frame more adds what it is sent as to the line.
LEMMA LineGrows ==
  ASSUME NEW fs \in Seq(WireFrames), NEW f \in WireFrames
  PROVE  Joins(Line(Append(fs, f)), Line(fs), Code(f))
<1> DEFINE longer == Append(fs, f)
           n == Len(fs)
           Z == Seq(Symbols)
           codes == [k \in 1 .. n |-> Code(fs[k])]
           x == Code(f)
           C(k) == Code(longer[k])
           all == [k \in 1 .. n + 1 |-> C(k)]
           a == Append(codes, x)
<1>1. n \in Nat /\ DOMAIN fs = 1 .. n /\ DOMAIN longer = 1 .. n + 1
  OBVIOUS
<1>2. \A k \in 1 .. n + 1 : longer[k] = IF k <= n THEN fs[k] ELSE f
  OBVIOUS
<1>3. Line(fs) = FlattenSeq(codes) /\ Line(longer) = FlattenSeq(all)
  BY <1>1 DEF Line, Code
<1>4. \A g \in WireFrames : Code(g) \in Z
  BY CodeIs DEF Text
<1>5. (\A k \in 1 .. n : fs[k] \in WireFrames) /\ n + 1 \in 1 .. n + 1 /\ ~(n + 1 <= n)
  OBVIOUS
<1> HIDE DEF longer, n, Z
<1>6. \A k \in 1 .. n : C(k) = Code(fs[k]) /\ C(k) \in Z
  <2> TAKE k \in 1 .. n
  <2>1. k \in 1 .. n + 1 /\ k <= n
    BY <1>1
  <2> QED
    BY <1>2, <1>4, <1>5, <2>1
<1>7. C(n + 1) = x /\ x \in Z
  BY <1>2, <1>4, <1>5
<1> HIDE DEF C, x
<1>8. codes = [k \in 1 .. n |-> C(k)]
  BY <1>6
<1>9. codes \in Text(Z) /\ Size(codes) = n /\ \A k \in 1 .. n : At(codes, k) = C(k)
  BY <1>1, <1>6, <1>8 DEF Text, Size, At
<1>10. \A k \in 1 .. n + 1 : C(k) \in Z
  BY <1>1, <1>6, <1>7
<1>11. all \in Text(Z) /\ Size(all) = n + 1 /\ \A k \in 1 .. n + 1 : At(all, k) = C(k)
  BY <1>1, <1>10 DEF Text, Size, At
<1>12. Adds(a, codes, x)
  BY DEF Adds
<1> HIDE DEF codes, all, a
<1>13. a \in Text(Z) /\ Size(a) = n + 1 /\ At(a, n + 1) = x /\ \A k \in 1 .. n : At(a, k) = C(k)
  BY <1>1, <1>7, <1>9, <1>12, AddIs
<1>14. \A k \in 1 .. n + 1 : k \in 1 .. n \/ k = n + 1
  BY <1>1
<1>15. all = a
  BY <1>7, <1>11, <1>13, <1>14, TextEqual
<1>16. FlattenSeq(a) = FlattenSeq(codes) \o x
  BY <1>7, <1>9, FlattenAppend DEF Z, Text, a
<1> QED
  BY <1>3, <1>15, <1>16 DEF Joins, longer, x

LEMMA LineStep ==
  ASSUME NEW fs \in Seq(WireFrames), NEW k \in 1 .. Len(fs)
  PROVE  /\ Joins(Line(SubSeq(fs, 1, k)), Line(SubSeq(fs, 1, k - 1)), Code(fs[k]))
         /\ fs[k] \in WireFrames
<1>1. fs[k] \in WireFrames /\ SubSeq(fs, 1, k - 1) \in Seq(WireFrames)
  OBVIOUS
<1>2. SubSeq(fs, 1, k) = Append(SubSeq(fs, 1, k - 1), fs[k])
  OBVIOUS
<1> QED
  BY <1>1, <1>2, LineGrows

LEMMA LineText ==
  ASSUME NEW fs \in Seq(WireFrames)
  PROVE  \A k \in 0 .. Len(fs) : Line(SubSeq(fs, 1, k)) \in Text(Symbols)
<1> DEFINE T == {k \in Nat : k <= Len(fs) => Line(SubSeq(fs, 1, k)) \in Text(Symbols)}
<1>1. 0 \in T
  <2>1. SubSeq(fs, 1, 0) = <<>>
    OBVIOUS
  <2> QED
    BY <2>1, LineEmpty, EmptyText
<1>2. ASSUME NEW k \in T PROVE k + 1 \in T
  <2> SUFFICES ASSUME k + 1 <= Len(fs) PROVE Line(SubSeq(fs, 1, k + 1)) \in Text(Symbols)
    OBVIOUS
  <2>1. k + 1 \in 1 .. Len(fs) /\ (k + 1) - 1 = k
    OBVIOUS
  <2>2. Joins(Line(SubSeq(fs, 1, k + 1)), Line(SubSeq(fs, 1, k)), Code(fs[k + 1])) /\ fs[k + 1] \in WireFrames
    BY <2>1, LineStep
  <2>3. Line(SubSeq(fs, 1, k)) \in Text(Symbols) /\ Code(fs[k + 1]) \in Text(Symbols)
    BY <2>1, <2>2, CodeIs
  <2> QED
    BY <2>2, <2>3, JoinIs
<1>3. T = Nat
  <2> HIDE DEF T
  <2>1. T \subseteq Nat
    BY DEF T
  <2> QED
    BY <1>1, <1>2, <2>1, EveryNumber
<1> QED
  BY <1>3

\* The mark of a frame is behind the one before by the size of the frame.
LEMMA MarkStep ==
  ASSUME NEW fs \in Seq(WireFrames), NEW k \in 1 .. Len(fs)
  PROVE  LET code == Code(fs[k])
             line == Line(SubSeq(fs, 1, k))
             before == Line(SubSeq(fs, 1, k - 1))
         IN /\ fs[k] \in WireFrames /\ code \in Text(Symbols) /\ line \in Text(Symbols)
            /\ Size(code) \in Nat /\ Size(code) >= 7
            /\ Mark(fs, k - 1) \in Nat /\ Mark(fs, k) = Mark(fs, k - 1) + Size(code)
            /\ \A i \in 1 .. Mark(fs, k - 1) : At(line, i) = At(before, i)
            /\ \A i \in 1 .. Size(code) : At(line, Mark(fs, k - 1) + i) = At(code, i)
<1> DEFINE code == Code(fs[k])
           line == Line(SubSeq(fs, 1, k))
           before == Line(SubSeq(fs, 1, k - 1))
           n == Size(fs[k].payload)
<1>1. Joins(line, before, code) /\ fs[k] \in WireFrames
  BY LineStep
<1>2. code \in Text(Symbols) /\ n \in Nat /\ Size(code) = 7 + n
  BY <1>1, CodeIs
<1>3. k - 1 \in 0 .. Len(fs)
  OBVIOUS
<1>4. before \in Text(Symbols)
  BY <1>3, LineText
<1>5. Mark(fs, k) = Size(line) /\ Mark(fs, k - 1) = Size(before)
  BY DEF Mark
<1> HIDE DEF code, line, before, n
<1>6. /\ line \in Text(Symbols) /\ Size(before) \in Nat /\ Size(line) = Size(before) + Size(code)
      /\ \A i \in 1 .. Size(before) : At(line, i) = At(before, i)
      /\ \A i \in 1 .. Size(code) : At(line, Size(before) + i) = At(code, i)
  BY <1>1, <1>2, <1>4, JoinIs
<1>7. Size(code) \in Nat /\ Size(code) >= 7
  BY <1>2
<1> QED
  BY <1>1, <1>2, <1>5, <1>6, <1>7 DEF code, line, before

\* The marks grow, and a longer line begins with the shorter one.
LEMMA MarksGrow ==
  ASSUME NEW fs \in Seq(WireFrames)
  PROVE  /\ Mark(fs, 0) = 0
         /\ \A k \in 0 .. Len(fs) : Mark(fs, k) \in Nat
         /\ \A k \in 0 .. Len(fs) : \A j \in 0 .. k :
              /\ Mark(fs, j) <= Mark(fs, k)
              /\ \A i \in 1 .. Mark(fs, j) :
                   At(Line(SubSeq(fs, 1, k)), i) = At(Line(SubSeq(fs, 1, j)), i)
<1> DEFINE Good(k) == /\ Mark(fs, k) \in Nat
                      /\ \A j \in 0 .. k :
                           /\ Mark(fs, j) \in Nat /\ Mark(fs, j) <= Mark(fs, k)
                           /\ \A i \in 1 .. Mark(fs, j) :
                                At(Line(SubSeq(fs, 1, k)), i) = At(Line(SubSeq(fs, 1, j)), i)
           T == {k \in Nat : k <= Len(fs) => Good(k)}
<1>1. Mark(fs, 0) = 0
  <2>1. SubSeq(fs, 1, 0) = <<>>
    OBVIOUS
  <2> QED
    BY <2>1, LineEmpty, EmptyText DEF Mark
<1>2. 0 \in T
  <2>1. \A j \in 0 .. 0 : j = 0
    OBVIOUS
  <2> QED
    BY <1>1, <2>1
<1>3. ASSUME NEW k \in T PROVE k + 1 \in T
  <2> SUFFICES ASSUME k + 1 <= Len(fs) PROVE Good(k + 1)
    OBVIOUS
  <2>1. k \in Nat /\ k + 1 \in 1 .. Len(fs) /\ (k + 1) - 1 = k /\ k <= Len(fs)
    OBVIOUS
  <2>2. Good(k)
    BY <2>1
  <2> DEFINE n == Size(Code(fs[k + 1]))
  <2>3. /\ n \in Nat /\ n >= 7 /\ Mark(fs, k) \in Nat /\ Mark(fs, k + 1) = Mark(fs, k) + n
        /\ \A i \in 1 .. Mark(fs, k) :
             At(Line(SubSeq(fs, 1, k + 1)), i) = At(Line(SubSeq(fs, 1, k)), i)
    <3> DEFINE m == k + 1
    <3>1. m \in 1 .. Len(fs) /\ m - 1 = k
      BY <2>1
    <3> HIDE DEF m
    <3>2. /\ Size(Code(fs[m])) \in Nat /\ Size(Code(fs[m])) >= 7 /\ Mark(fs, m - 1) \in Nat
          /\ Mark(fs, m) = Mark(fs, m - 1) + Size(Code(fs[m]))
          /\ \A i \in 1 .. Mark(fs, m - 1) :
               At(Line(SubSeq(fs, 1, m)), i) = At(Line(SubSeq(fs, 1, m - 1)), i)
      BY <3>1, MarkStep
    <3> QED
      BY <3>1, <3>2 DEF m
  <2> HIDE DEF n
  <2>4. ASSUME NEW j \in 0 .. k + 1
        PROVE  /\ Mark(fs, j) \in Nat /\ Mark(fs, j) <= Mark(fs, k + 1)
               /\ \A i \in 1 .. Mark(fs, j) :
                    At(Line(SubSeq(fs, 1, k + 1)), i) = At(Line(SubSeq(fs, 1, j)), i)
    <3>1. CASE j = k + 1
      BY <2>3, <3>1
    <3>2. CASE j # k + 1
      <4>1. j \in 0 .. k
        BY <2>1, <3>2
      <4> QED
        BY <2>2, <2>3, <4>1
    <3> QED
      BY <3>1, <3>2
  <2> QED
    BY <2>3, <2>4
<1>4. T = Nat
  <2> HIDE DEF T
  <2>1. T \subseteq Nat
    BY DEF T
  <2> QED
    BY <1>2, <1>3, <2>1, EveryNumber
<1> QED
  BY <1>1, <1>4

\* The whole line, frame by frame.
LEMMA LineIs ==
  ASSUME NEW fs \in Seq(WireFrames)
  PROVE  /\ Line(fs) \in Text(Symbols) /\ Mark(fs, 0) = 0 /\ Mark(fs, Len(fs)) = Size(Line(fs))
         /\ \A k \in 0 .. Len(fs) : Mark(fs, k) \in Nat
         /\ \A k \in 0 .. Len(fs) : \A j \in 0 .. k : Mark(fs, j) <= Mark(fs, k)
         /\ \A k \in 1 .. Len(fs) :
              /\ fs[k] \in WireFrames
              /\ Mark(fs, k) = Mark(fs, k - 1) + Size(Code(fs[k]))
              /\ \A i \in 1 .. Size(Code(fs[k])) :
                   At(Line(fs), Mark(fs, k - 1) + i) = At(Code(fs[k]), i)
<1>1. SubSeq(fs, 1, Len(fs)) = fs /\ Len(fs) \in Nat
  OBVIOUS
<1>2. Line(fs) \in Text(Symbols) /\ Mark(fs, Len(fs)) = Size(Line(fs))
  <2>1. Len(fs) \in 0 .. Len(fs)
    BY <1>1
  <2>2. Line(SubSeq(fs, 1, Len(fs))) \in Text(Symbols)
    BY <2>1, LineText
  <2> QED
    BY <1>1, <2>2 DEF Mark
<1>3. ASSUME NEW k \in 1 .. Len(fs), NEW i \in 1 .. Size(Code(fs[k]))
      PROVE  At(Line(fs), Mark(fs, k - 1) + i) = At(Code(fs[k]), i)
  <2> DEFINE n == Size(Code(fs[k]))
  <2>1. /\ n \in Nat /\ Mark(fs, k - 1) \in Nat /\ Mark(fs, k) = Mark(fs, k - 1) + n
        /\ At(Line(SubSeq(fs, 1, k)), Mark(fs, k - 1) + i) = At(Code(fs[k]), i)
    BY MarkStep
  <2>2. Len(fs) \in 0 .. Len(fs) /\ k \in 0 .. Len(fs)
    BY <1>1
  <2> HIDE DEF n
  <2>3. Mark(fs, k - 1) + i \in 1 .. Mark(fs, k)
    BY <2>1 DEF n
  <2>4. At(Line(SubSeq(fs, 1, Len(fs))), Mark(fs, k - 1) + i) = At(Line(SubSeq(fs, 1, k)), Mark(fs, k - 1) + i)
    BY <2>2, <2>3, MarksGrow
  <2> QED
    BY <1>1, <2>1, <2>4
<1>4. \A k \in 1 .. Len(fs) : fs[k] \in WireFrames /\ Mark(fs, k) = Mark(fs, k - 1) + Size(Code(fs[k]))
  BY MarkStep
<1> QED
  BY <1>2, <1>3, <1>4, MarksGrow

\* Every place of the line is in a frame.
LEMMA LineCover ==
  ASSUME NEW fs \in Seq(WireFrames), NEW p \in 1 .. Size(Line(fs))
  PROVE  \E k \in 1 .. Len(fs) : Mark(fs, k - 1) < p /\ p <= Mark(fs, k)
<1> DEFINE T == {k \in 0 .. Len(fs) : p <= Mark(fs, k)}
<1>1. Len(fs) \in Nat /\ Size(Line(fs)) \in Nat
  BY LineIs, TextIs
<1>2. T # {} /\ T \in SUBSET Nat
  <2>1. Len(fs) \in T
    BY <1>1, LineIs
  <2> QED
    BY <2>1
<1>3. PICK k \in T : \A j \in T : k <= j
  <2> HIDE DEF T
  <2> QED
    BY <1>2, LeastNumber
<1>4. k # 0
  BY LineIs
<1>5. k \in 1 .. Len(fs) /\ k - 1 \in 0 .. Len(fs) /\ ~(k <= k - 1)
  BY <1>1, <1>4
<1>6. Mark(fs, k - 1) < p
  <2>1. k - 1 \notin T
    BY <1>3, <1>5
  <2>2. Mark(fs, k - 1) \in Nat
    BY <1>5, LineIs
  <2> QED
    BY <1>5, <2>1, <2>2
<1> QED
  BY <1>5, <1>6

---------------------------------------------------------------------------
(* What the decoders see of a frame.                                       *)

\* The bytes of the magic
First == At(MAGIC, 1)
Second == At(MAGIC, 2)

LEMMA FirstIs == First \in Plain /\ Second \in Plain /\ First # Second
  BY Magic DEF First, Second, At

\* MagicAt holds the places where both bytes of the magic are.
LEMMA MagicAtIs ==
  ASSUME NEW b \in Text(Symbols)
  PROVE  \A i : i \in MagicAt(b) <=> /\ i \in 1 .. Size(b) - 1
                                     /\ At(b, i) = First /\ At(b, i + 1) = Second
<1>1. b \in Seq(Symbols) /\ Size(b) = Len(b) /\ Len(b) \in Nat
  BY DEF Text, Size
<1>2. ASSUME NEW i \in 1 .. Len(b) - 1
      PROVE  SubSeq(b, i, i + 1) = MAGIC <=> b[i] = First /\ b[i + 1] = Second
  <2>1. i \in Int /\ i + 1 \in Int /\ i + 1 - i + 1 = 2
    OBVIOUS
  <2>2. \A j \in i .. i + 1 : b[j] \in Symbols
    BY <1>1
  <2> DEFINE r == SubSeq(b, i, i + 1)
  <2>3. /\ r \in Seq(Symbols) /\ Len(r) = IF i <= i + 1 THEN i + 1 - i + 1 ELSE 0
        /\ \A j \in 1 .. i + 1 - i + 1 : r[j] = b[i + j - 1]
    BY <2>1, <2>2, SubSeqProperties
  <2>4. Len(r) = 2
    BY <2>1, <2>3
  <2>5. r[1] = b[i] /\ r[2] = b[i + 1]
    <3>1. 1 \in 1 .. i + 1 - i + 1 /\ 2 \in 1 .. i + 1 - i + 1 /\ i + 1 - 1 = i /\ i + 2 - 1 = i + 1
      BY <2>1
    <3>2. r[1] = b[i + 1 - 1] /\ r[2] = b[i + 2 - 1]
      BY <2>3, <3>1
    <3> QED
      BY <3>1, <3>2
  <2>6. r \in Text(Symbols) /\ Size(r) = 2 /\ At(r, 1) = b[i] /\ At(r, 2) = b[i + 1]
    BY <2>3, <2>4, <2>5 DEF Text, Size, At
  <2>7. MAGIC \in Text(Symbols) /\ Size(MAGIC) = 2
    BY Magic, SeqMonotonic DEF Text, Size, Symbols
  <2>8. \A j \in 1 .. 2 : j = 1 \/ j = 2
    OBVIOUS
  <2>9. At(MAGIC, 1) = First /\ At(MAGIC, 2) = Second
    BY DEF First, Second
  <2> HIDE DEF r
  <2>10. r = MAGIC <=> b[i] = First /\ b[i + 1] = Second
    BY <2>6, <2>7, <2>8, <2>9, TextEqual
  <2> QED
    BY <2>10 DEF r
<1>3. \A i : i \in MagicAt(b) <=> i \in 1 .. Len(b) - 1 /\ SubSeq(b, i, i + 1) = MAGIC
  BY DEF MagicAt
<1> QED
  BY <1>1, <1>2, <1>3 DEF At

LEMMA MinIs ==
  ASSUME NEW T \in SUBSET Nat, T # {}
  PROVE  Min(T) \in T /\ \A x \in T : Min(T) <= x
  BY LeastNumber DEF Min

LEMMA Numbers ==
  /\ MaxPayload \in Nat /\ MaxPayload <= WORD /\ WORD \in Nat
  /\ MaxFrame = MaxPayload + 7 /\ MaxBuffer = MaxFrame + Headroom /\ Headroom \in Nat
  /\ HEADER_SIZE = 6 /\ FRAME_OVERHEAD = 7
  BY StreamAssumption, Word DEF MaxFrame, MaxBuffer, FRAME_OVERHEAD, HEADER_SIZE

LEMMA HeaderValidIs ==
  ASSUME NEW b
  PROVE  /\ HeaderValid(b) <=> /\ Value(At(b, 3)) = 1 /\ Value(At(b, 4)) \in 1 .. 7
                               /\ Value(At(b, 6)) <= MaxPayload
         /\ FrameSize(b) = 7 + Value(At(b, 6))
  BY Numbers DEF HeaderValid, FrameSize, At, PROTOCOL_VERSION, MessageTypes

LEMMA FieldsAreNumbers ==
  ASSUME NEW b \in Text(Symbols), Size(b) >= 6
  PROVE  /\ Value(At(b, 3)) \in Nat /\ Value(At(b, 4)) \in Nat
         /\ Value(At(b, 5)) \in Nat /\ Value(At(b, 6)) \in Nat
<1>1. At(b, 3) \in Symbols /\ At(b, 4) \in Symbols /\ At(b, 5) \in Symbols /\ At(b, 6) \in Symbols
  BY TextIs
<1> QED
  BY <1>1, SymbolsHaveValues

\* A frame this protocol sends: its type is one the decoders know.
Sendable(f) == f \in WireFrames /\ f.type = 2 /\ Size(f.payload) <= MaxPayload

\* As far as both go, they are the same.
Agree(b, code) == \A i \in 1 .. Size(b) : i <= Size(code) => At(b, i) = At(code, i)

\* A sent frame at the front of the buffer is recognised.
LEMMA Recognised ==
  ASSUME NEW b \in Text(Symbols), NEW f, Sendable(f), Agree(b, Code(f))
  PROVE  /\ Size(b) >= 1 => At(b, 1) = First
         /\ Size(b) >= 2 => 1 \in MagicAt(b)
         /\ Size(b) >= 6 => HeaderValid(b) /\ FrameSize(b) = Size(Code(f))
         /\ Size(b) >= Size(Code(f)) => ChecksumMatches(b) /\ FrameIn(b) = f
<1> DEFINE n == Size(f.payload)
           p == f.payload
           code == Code(f)
           sum == Crc(Body(f))
<1>1. f \in WireFrames /\ n \in Nat /\ n <= MaxPayload /\ f.type = 2 /\ p \in Text(Plain) /\ f.sequence \in Nat
  BY CodeIs DEF Sendable, WireFrames, Text
<1>2. /\ code \in Text(Symbols) /\ Size(code) = 7 + n
      /\ \A i \in 1 .. 6 + n : At(code, i) = At(Body(f), i) /\ At(code, i) \in Plain
      /\ \A i \in 1 .. n : At(code, 6 + i) = At(p, i)
      /\ At(code, 7 + n) = sum
  BY <1>1, CodeIs
<1>3. /\ At(code, 1) = First /\ At(code, 2) = Second /\ Value(At(code, 3)) = 1
      /\ Value(At(code, 4)) = 2 /\ Value(At(code, 5)) = f.sequence /\ Value(At(code, 6)) = n
  <2>1. Heads(f, code)
    BY <1>1, CodeIs
  <2>2. 1 \in Nat /\ 2 \in Nat
    OBVIOUS
  <2>3. PROTOCOL_VERSION = 1
    BY DEF PROTOCOL_VERSION
  <2> QED
    BY <1>1, <2>1, <2>2, <2>3, PlainSymbols DEF Heads, First, Second
<1>4. Size(b) \in Nat /\ \A i \in 1 .. Size(b) : i <= Size(code) => At(b, i) = At(code, i)
  BY TextIs DEF Agree
<1>5. Body(f) \in Text(Plain) /\ Size(Body(f)) = 6 + n
  BY <1>1, BodyIs
<1>6. f = [type |-> 2, sequence |-> f.sequence, payload |-> p]
  BY <1>1 DEF WireFrames
<1> HIDE DEF n, code, sum, p
<1>7. Size(b) >= 1 => At(b, 1) = First
  BY <1>1, <1>2, <1>3, <1>4
<1>8. Size(b) >= 2 => 1 \in MagicAt(b)
  <2>1. Size(b) >= 2 => At(b, 1) = First /\ At(b, 1 + 1) = Second /\ 1 \in 1 .. Size(b) - 1
    BY <1>1, <1>2, <1>3, <1>4
  <2> QED
    BY <2>1, MagicAtIs
<1>9. ASSUME Size(b) >= 6
      PROVE  /\ HeaderValid(b) /\ FrameSize(b) = Size(code)
             /\ Value(At(b, 4)) = 2 /\ Value(At(b, 5)) = f.sequence
  <2>1. /\ At(b, 3) = At(code, 3) /\ At(b, 4) = At(code, 4)
        /\ At(b, 5) = At(code, 5) /\ At(b, 6) = At(code, 6)
    BY <1>1, <1>2, <1>4, <1>9
  <2>2. Value(At(b, 3)) = 1 /\ Value(At(b, 4)) = 2 /\ Value(At(b, 6)) = n /\ Value(At(b, 5)) = f.sequence
    BY <1>3, <2>1
  <2> QED
    BY <1>1, <1>2, <2>2, HeaderValidIs
<1>10. ASSUME Size(b) >= Size(code)
       PROVE  ChecksumMatches(b) /\ FrameIn(b) = f
  <2>1. Size(b) >= 6 /\ FrameSize(b) = 7 + n /\ FrameSize(b) - 1 = 6 + n
    BY <1>1, <1>2, <1>4, <1>9, <1>10
  <2> DEFINE front == SubSeq(b, 1, FrameSize(b) - 1)
  <2>2. Fronts(front, b, 6 + n) /\ 6 + n \in 0 .. Size(b)
    BY <1>1, <1>2, <1>4, <1>10, <2>1 DEF Fronts
  <2> HIDE DEF front
  <2>3. front \in Text(Symbols) /\ Size(front) = 6 + n /\ \A i \in 1 .. 6 + n : At(front, i) = At(b, i)
    BY <2>2, FrontIs
  <2>4. \A i \in 1 .. 6 + n : At(front, i) = At(Body(f), i)
    <3> TAKE i \in 1 .. 6 + n
    <3>1. i \in 1 .. Size(b) /\ i <= Size(code)
      BY <1>1, <1>2, <1>4, <1>10
    <3> QED
      BY <1>2, <1>4, <2>3, <3>1
  <2>5. front = Body(f)
    <3>1. \A i \in 1 .. 6 + n : At(front, i) \in Plain
      BY <1>2, <2>4
    <3>2. front \in Text(Plain)
      BY <2>3, <3>1, TextOf
    <3> QED
      BY <1>5, <2>3, <2>4, <3>2, TextEqual
  <2>6. At(b, 7 + n) = sum
    BY <1>1, <1>2, <1>4, <1>10
  <2>7. ChecksumMatches(b)
    BY <2>1, <2>5, <2>6 DEF ChecksumMatches, At, sum, front
  <2>8. FrameIn(b) = f
    <3> DEFINE r == SubSeq(b, 7, 6 + n)
    <3>3. Parts(r, b, 6, 6 + n)
      BY DEF Parts
    <3> HIDE DEF r
    <3>4. r \in Text(Symbols) /\ Size(r) = n /\ \A i \in 1 .. n : At(r, i) = At(b, 6 + i)
      <4>1. n \in Nat /\ 6 + n \in Nat /\ 6 <= 6 + n /\ 6 + n <= Size(b) /\ 6 + n - 6 = n
        BY <1>1, <1>2, <1>4, <1>10
      <4> QED
        BY <3>3, <4>1, PartIs
    <3>1. r = p
      <4>1. \A i \in 1 .. n : At(r, i) = At(p, i)
        <5> TAKE i \in 1 .. n
        <5>1. 6 + i \in 1 .. Size(b) /\ 6 + i <= Size(code)
          BY <1>1, <1>2, <1>4, <1>10
        <5> QED
          BY <1>2, <1>4, <3>4, <5>1
      <4>2. Size(p) = n /\ \A i \in 1 .. n : At(p, i) \in Plain
        BY <1>1, TextIs DEF n, p
      <4>3. r \in Text(Plain)
        BY <3>4, <4>1, <4>2, TextOf
      <4> QED
        BY <1>1, <3>4, <4>1, <4>2, <4>3, TextEqual
    <3>2. FrameIn(b) = [type |-> Value(At(b, 4)), sequence |-> Value(At(b, 5)), payload |-> r]
      <4>1. HEADER_SIZE + 1 = 7
        BY Numbers
      <4> QED
        BY <2>1, <4>1 DEF FrameIn, At, r
    <3> QED
      BY <1>6, <1>9, <2>1, <3>1, <3>2
  <2> QED
    BY <2>7, <2>8
<1> QED
  BY <1>7, <1>8, <1>9, <1>10 DEF code

\* What passes the check is the frame whose checksum it ends in.
LEMMA Accepted ==
  ASSUME NEW b \in Text(Symbols), HeaderValid(b), Size(b) >= FrameSize(b), ChecksumMatches(b),
         Size(b) >= 6, NEW f, Sendable(f), At(b, FrameSize(b)) = Crc(Body(f))
  PROVE  FrameIn(b) = f /\ FrameSize(b) = Size(Code(f))
<1> DEFINE m == Value(At(b, 6))
           n == Size(f.payload)
           front == SubSeq(b, 1, FrameSize(b) - 1)
<1>1. m \in Nat /\ FrameSize(b) = 7 + m /\ Size(b) \in Nat
  BY FieldsAreNumbers, HeaderValidIs, TextIs
<1>2. f \in WireFrames /\ Body(f) \in Text(Plain) /\ n \in Nat /\ Size(Body(f)) = 6 + n
  BY BodyIs DEF Sendable
<1>3. /\ Size(Code(f)) = 7 + n /\ At(Code(f), 7 + n) = Crc(Body(f))
      /\ \A i \in 1 .. 6 + n : At(Code(f), i) = At(Body(f), i)
  BY <1>2, CodeIs
<1>4. front = Body(f)
  <2>1. At(b, FrameSize(b)) = Crc(front)
    BY DEF ChecksumMatches, At
  <2> QED
    BY <2>1, Checksums
<1>5. Fronts(front, b, 6 + m) /\ 6 + m \in 0 .. Size(b)
  <2>1. FrameSize(b) - 1 = 6 + m
    BY <1>1
  <2> QED
    BY <1>1, <2>1 DEF Fronts
<1> HIDE DEF m, n, front
<1>6. Size(front) = 6 + m /\ \A i \in 1 .. 6 + m : At(front, i) = At(b, i)
  BY <1>5, FrontIs
<1>7. m = n
  BY <1>1, <1>2, <1>4, <1>6
<1>8. Agree(b, Code(f))
  <2> SUFFICES ASSUME NEW i \in 1 .. Size(b), i <= Size(Code(f))
               PROVE  At(b, i) = At(Code(f), i)
    BY DEF Agree
  <2>1. CASE i = 7 + n
    BY <1>1, <1>3, <1>7, <2>1
  <2>2. CASE i # 7 + n
    <3>1. i \in 1 .. 6 + n
      BY <1>1, <1>2, <1>3, <2>2
    <3> QED
      BY <1>3, <1>4, <1>6, <1>7, <3>1
  <2> QED
    BY <2>1, <2>2
<1>9. Size(b) >= Size(Code(f))
  BY <1>1, <1>3, <1>7
<1> QED
  BY <1>1, <1>3, <1>7, <1>8, <1>9, Recognised

---------------------------------------------------------------------------
(* The frames of a line, in order.                                         *)

\* The checksum of a frame
Check(f) == Crc(Body(f))

\* The frames of a line are numbered in order.
OnLine(fs) ==
  /\ fs \in Text(WireFrames)
  /\ \A k \in 1 .. Size(fs) : Sendable(At(fs, k)) /\ At(fs, k).sequence = k - 1

LEMMA CodeSize ==
  ASSUME NEW f, Sendable(f)
  PROVE  Size(Code(f)) \in Nat /\ 7 <= Size(Code(f)) /\ Size(Code(f)) <= MaxFrame
  BY CodeIs, Numbers DEF Sendable

LEMMA TrackIs ==
  ASSUME NEW fs, OnLine(fs)
  PROVE  /\ Size(fs) \in Nat /\ Line(fs) \in Text(Symbols) /\ Size(Line(fs)) \in Nat
         /\ Mark(fs, 0) = 0 /\ Mark(fs, Size(fs)) = Size(Line(fs))
         /\ \A k \in 0 .. Size(fs) : Mark(fs, k) \in Nat
         /\ \A k \in 0 .. Size(fs) : \A j \in 0 .. k : Mark(fs, j) <= Mark(fs, k)
         /\ \A k \in 1 .. Size(fs) :
              /\ At(fs, k) \in WireFrames
              /\ Mark(fs, k) = Mark(fs, k - 1) + Size(Code(At(fs, k)))
              /\ \A i \in 1 .. Size(Code(At(fs, k))) :
                   At(Line(fs), Mark(fs, k - 1) + i) = At(Code(At(fs, k)), i)
         /\ \A p \in 1 .. Size(Line(fs)) :
              \E k \in 1 .. Size(fs) : Mark(fs, k - 1) < p /\ p <= Mark(fs, k)
<1>1. fs \in Seq(WireFrames) /\ Size(fs) = Len(fs) /\ \A k : At(fs, k) = fs[k]
  BY DEF OnLine, Text, Size, At
<1>2. Line(fs) \in Text(Symbols) /\ Size(Line(fs)) \in Nat /\ Size(fs) \in Nat
  BY <1>1, LineIs, TextIs DEF OnLine
<1>3. \A k \in 1 .. Len(fs) :
        /\ At(fs, k) \in WireFrames
        /\ Mark(fs, k) = Mark(fs, k - 1) + Size(Code(At(fs, k)))
        /\ \A i \in 1 .. Size(Code(At(fs, k))) :
             At(Line(fs), Mark(fs, k - 1) + i) = At(Code(At(fs, k)), i)
  <2> TAKE k \in 1 .. Len(fs)
  <2>1. At(fs, k) = fs[k]
    BY DEF At
  <2> DEFINE f == fs[k]
  <2>2. /\ f \in WireFrames /\ Mark(fs, k) = Mark(fs, k - 1) + Size(Code(f))
        /\ \A i \in 1 .. Size(Code(f)) : At(Line(fs), Mark(fs, k - 1) + i) = At(Code(f), i)
    BY <1>1, LineIs
  <2> HIDE DEF f
  <2>3. At(fs, k) = f
    BY <2>1 DEF f
  <2> QED
    BY <2>2, <2>3
<1>4. /\ Mark(fs, 0) = 0 /\ Mark(fs, Len(fs)) = Size(Line(fs))
      /\ \A k \in 0 .. Len(fs) : Mark(fs, k) \in Nat
      /\ \A k \in 0 .. Len(fs) : \A j \in 0 .. k : Mark(fs, j) <= Mark(fs, k)
  BY <1>1, LineIs
<1>5. \A p \in 1 .. Size(Line(fs)) :
        \E k \in 1 .. Len(fs) : Mark(fs, k - 1) < p /\ p <= Mark(fs, k)
  BY <1>1, LineCover
<1>6. Size(fs) = Len(fs)
  BY <1>1
<1> QED
  BY <1>2, <1>3, <1>4, <1>5, <1>6

\* A frame lies between two marks.
LEMMA FrameMarks ==
  ASSUME NEW fs, OnLine(fs), NEW k \in 1 .. Size(fs)
  PROVE  /\ Sendable(At(fs, k)) /\ At(fs, k) \in WireFrames /\ At(fs, k).sequence = k - 1
         /\ Mark(fs, k - 1) \in Nat /\ Mark(fs, k) \in Nat /\ Mark(fs, k) <= Size(Line(fs))
         /\ Mark(fs, k) = Mark(fs, k - 1) + Size(Code(At(fs, k)))
         /\ Size(Code(At(fs, k))) \in Nat /\ 7 <= Size(Code(At(fs, k)))
         /\ Size(Code(At(fs, k))) <= MaxFrame
<1>1. Sendable(At(fs, k)) /\ At(fs, k).sequence = k - 1
  BY DEF OnLine
<1>2. Size(fs) \in Nat
  BY TrackIs
<1>3. k - 1 \in 0 .. Size(fs) /\ k \in 0 .. Size(fs) /\ Size(fs) \in 0 .. Size(fs)
  BY <1>2
<1> QED
  BY <1>1, <1>3, TrackIs, CodeSize DEF Sendable

\* Marks tell frames apart.
LEMMA MarkOrder ==
  ASSUME NEW fs, OnLine(fs), NEW j \in 1 .. Size(fs), NEW k \in 1 .. Size(fs),
         Mark(fs, j - 1) < Mark(fs, k)
  PROVE  j <= k
<1>1. Size(fs) \in Nat
  BY TrackIs
<1> SUFFICES ASSUME k < j PROVE FALSE
  BY <1>1
<1>2. k \in 0 .. j - 1 /\ j - 1 \in 0 .. Size(fs) /\ k \in 0 .. Size(fs)
  BY <1>1
<1>3. Mark(fs, k) <= Mark(fs, j - 1) /\ Mark(fs, k) \in Nat /\ Mark(fs, j - 1) \in Nat
  BY <1>2, TrackIs
<1> QED
  BY <1>3

\* A checksum is of one frame of the line only.
LEMMA CheckUnique ==
  ASSUME NEW fs, OnLine(fs), NEW j \in 1 .. Size(fs), NEW k \in 1 .. Size(fs),
         Check(At(fs, j)) = Check(At(fs, k))
  PROVE  j = k
<1>1. /\ At(fs, j) \in WireFrames /\ At(fs, k) \in WireFrames
      /\ At(fs, j).sequence = j - 1 /\ At(fs, k).sequence = k - 1
  BY FrameMarks
<1>2. Body(At(fs, j)) = Body(At(fs, k))
  BY Checksums DEF Check
<1>3. /\ At(Body(At(fs, j)), 5) = Symbol(At(fs, j).sequence)
      /\ At(Body(At(fs, k)), 5) = Symbol(At(fs, k).sequence)
  BY <1>1, BodyIs DEF Heads
<1>4. Symbol(j - 1) = Symbol(k - 1) /\ j - 1 \in Nat /\ k - 1 \in Nat
  BY <1>1, <1>2, <1>3
<1>5. j - 1 = k - 1
  BY <1>4, PlainSymbols
<1> QED
  BY <1>5

\* A place of the line, in its frame.
LEMMA SpotIs ==
  ASSUME NEW fs, OnLine(fs), NEW p \in 1 .. Size(Line(fs))
  PROVE  \E k \in 1 .. Size(fs) : \E i \in 1 .. Size(Code(At(fs, k))) :
           /\ p = Mark(fs, k - 1) + i
           /\ At(Line(fs), p) = At(Code(At(fs, k)), i)
<1>1. PICK k \in 1 .. Size(fs) : Mark(fs, k - 1) < p /\ p <= Mark(fs, k)
  BY TrackIs
<1> DEFINE n == Size(Code(At(fs, k)))
           i == p - Mark(fs, k - 1)
<1>2. n \in Nat /\ Mark(fs, k - 1) \in Nat /\ Mark(fs, k) = Mark(fs, k - 1) + n /\ p \in Nat
  BY FrameMarks, TrackIs
<1>3. i \in 1 .. n /\ p = Mark(fs, k - 1) + i
  <2> HIDE DEF n
  <2> QED
    BY <1>1, <1>2
<1> HIDE DEF i
<1>4. At(Line(fs), Mark(fs, k - 1) + i) = At(Code(At(fs, k)), i)
  BY <1>3, TrackIs
<1> QED
  BY <1>3, <1>4

\* What is on the line is a byte, or the checksum of the frame that ends there.
LEMMA PlainOrCheck ==
  ASSUME NEW f, Sendable(f), NEW i \in 1 .. Size(Code(f))
  PROVE  /\ i < Size(Code(f)) => At(Code(f), i) \in Plain
         /\ i = Size(Code(f)) => At(Code(f), i) = Check(f)
         /\ Check(f) \notin Plain
<1> DEFINE n == Size(f.payload)
           c == Code(f)
<1>1. /\ n \in Nat /\ Size(c) = 7 + n /\ At(c, 7 + n) = Check(f)
      /\ \A j \in 1 .. 6 + n : At(c, j) \in Plain
  BY CodeIs DEF Sendable, Check
<1>2. Check(f) \notin Plain
  BY Checksums DEF Check
<1> HIDE DEF n, c
<1>3. i \in 1 .. Size(c)
  BY DEF c
<1>4. i < Size(c) => At(c, i) \in Plain
  BY <1>1, <1>3
<1>5. i = Size(c) => At(c, i) = Check(f)
  BY <1>1, <1>3
<1> QED
  BY <1>2, <1>4, <1>5 DEF c

\* A checksum is the last symbol of its frame.
LEMMA SumSpot ==
  ASSUME NEW fs, OnLine(fs), NEW p \in 1 .. Size(Line(fs))
  PROVE  \/ At(Line(fs), p) \in Plain
         \/ \E k \in 1 .. Size(fs) : p = Mark(fs, k) /\ At(Line(fs), p) = Check(At(fs, k))
<1>1. PICK k \in 1 .. Size(fs) : \E i \in 1 .. Size(Code(At(fs, k))) :
        p = Mark(fs, k - 1) + i /\ At(Line(fs), p) = At(Code(At(fs, k)), i)
  BY SpotIs
<1>5. PICK i \in 1 .. Size(Code(At(fs, k))) :
        p = Mark(fs, k - 1) + i /\ At(Line(fs), p) = At(Code(At(fs, k)), i)
  BY <1>1
<1>2. /\ Sendable(At(fs, k)) /\ Size(Code(At(fs, k))) \in Nat
      /\ Mark(fs, k) = Mark(fs, k - 1) + Size(Code(At(fs, k)))
  BY FrameMarks
<1>3. CASE i < Size(Code(At(fs, k)))
  BY <1>5, <1>2, <1>3, PlainOrCheck
<1>4. CASE ~(i < Size(Code(At(fs, k))))
  <2>1. i = Size(Code(At(fs, k)))
    BY <1>2, <1>4
  <2>2. p = Mark(fs, k) /\ At(Code(At(fs, k)), i) = Check(At(fs, k))
    BY <1>5, <1>2, <2>1, PlainOrCheck
  <2> QED
    BY <1>5, <2>2
<1> QED
  BY <1>3, <1>4

\* No payload holds a magic.
Unmistakable(fs) == \A k \in 1 .. Size(fs) : MagicAt(Code(At(fs, k))) = {1}

\* Then a magic on the line is the start of a frame.
LEMMA MagicStarts ==
  ASSUME NEW fs, OnLine(fs), Unmistakable(fs), NEW q \in Nat, q + 2 <= Size(Line(fs)),
         At(Line(fs), q + 1) = First, At(Line(fs), q + 2) = Second
  PROVE  \E k \in 1 .. Size(fs) : q = Mark(fs, k - 1)
<1>1. Size(Line(fs)) \in Nat
  BY TrackIs
<1>2. q + 1 \in 1 .. Size(Line(fs))
  BY <1>1
<1>12. PICK k \in 1 .. Size(fs) : \E i \in 1 .. Size(Code(At(fs, k))) :
        q + 1 = Mark(fs, k - 1) + i /\ At(Line(fs), q + 1) = At(Code(At(fs, k)), i)
  BY <1>2, SpotIs
<1>3. PICK i \in 1 .. Size(Code(At(fs, k))) :
        q + 1 = Mark(fs, k - 1) + i /\ At(Line(fs), q + 1) = At(Code(At(fs, k)), i)
  BY <1>12
<1> DEFINE c == Code(At(fs, k))
           m == Mark(fs, k - 1)
<1>4. Sendable(At(fs, k)) /\ Size(c) \in Nat /\ m \in Nat /\ At(fs, k) \in WireFrames
  BY FrameMarks
<1>5. c \in Text(Symbols)
  BY <1>4, CodeIs
<1>6. i # Size(c)
  BY <1>3, <1>4, PlainOrCheck, FirstIs
<1>7. \A j \in 1 .. Size(c) : At(Line(fs), m + j) = At(c, j)
  BY TrackIs
<1>8. \A j : j \in MagicAt(c) <=> j = 1
  BY DEF Unmistakable
<1> HIDE DEF c, m
<1>9. i \in 1 .. Size(c) - 1 /\ i + 1 \in 1 .. Size(c) /\ q + 1 = m + i /\ m + (i + 1) = q + 2
  BY <1>3, <1>4, <1>6 DEF c, m
<1>10. At(c, i) = First /\ At(c, i + 1) = Second
  <2>1. At(c, i) = First
    BY <1>3 DEF c
  <2>2. At(Line(fs), m + (i + 1)) = At(c, i + 1)
    BY <1>7, <1>9
  <2> QED
    BY <1>9, <2>1, <2>2
<1>11. i = 1
  BY <1>5, <1>8, <1>9, <1>10, MagicAtIs
<1> QED
  BY <1>4, <1>9, <1>11 DEF m

---------------------------------------------------------------------------
(* What a decoder knows in the middle of its work, when o symbols of the    *)
(* line are behind it, b is unread, h was heard, and last is the last place *)
(* of the line that a fault touched.                                        *)

\* A checksum is of a frame that has passed p, and checksums are in order.
Checks(fs, p, b) ==
  /\ \A i \in 1 .. Size(b) :
       At(b, i) \in Plain \/ \E k \in 1 .. Size(fs) : Mark(fs, k) <= p /\ At(b, i) = Check(At(fs, k))
  /\ \A i \in 1 .. Size(b), j \in 1 .. Size(b) : i < j =>
       \A k \in 1 .. Size(fs), l \in 1 .. Size(fs) :
         At(b, i) = Check(At(fs, k)) /\ At(b, j) = Check(At(fs, l)) => k < l

\* Every frame heard was sent before those whose checksums are unread.
Hearing(fs, p, b, h) ==
  /\ \A m \in 1 .. Size(h) : \E k \in 1 .. Size(fs) :
       /\ At(h, m) = At(fs, k) /\ Mark(fs, k) <= p
       /\ \A i \in 1 .. Size(b), l \in 1 .. Size(fs) : At(b, i) = Check(At(fs, l)) => k < l
  /\ \A m \in 1 .. Size(h), n \in 1 .. Size(h) : m < n => At(h, m).sequence < At(h, n).sequence

\* What came after the last fault is as it was sent.
Clean(fs, o, b, last) ==
  \A i \in 1 .. Size(b) : o + i > last => At(b, i) = At(Line(fs), o + i)

\* Without a fault, the reading stands at the end of the last frame heard.
Prompt(fs, o, h, last) ==
  last = 0 => /\ Size(h) <= Size(fs) /\ o = Mark(fs, Size(h))
              /\ \A k \in 1 .. Size(h) : At(h, k) = At(fs, k)

\* Well after the last fault, no frame is passed over.
Skipped(fs, o, h, last) ==
  last > 0 /\ Unmistakable(fs) =>
    \A k \in 1 .. Size(fs) :
      Mark(fs, k - 1) >= last + MaxFrame /\ Mark(fs, k - 1) < o
      => \E m \in 1 .. Size(h) : At(h, m) = At(fs, k)

\* All of them, and their types
Reading(fs, o, b, h, last) ==
  /\ OnLine(fs) /\ o \in Nat /\ last \in Nat /\ b \in Text(Symbols) /\ h \in Text(WireFrames)
  /\ o + Size(b) <= Size(Line(fs))
  /\ Checks(fs, o + Size(b), b) /\ Hearing(fs, o + Size(b), b, h)
  /\ Clean(fs, o, b, last) /\ Prompt(fs, o, h, last) /\ Skipped(fs, o, h, last)

LEMMA ReadingSizes ==
  ASSUME NEW fs, NEW o, NEW b, NEW h, NEW last, Reading(fs, o, b, h, last)
  PROVE  /\ Size(b) \in Nat /\ Size(h) \in Nat /\ Size(fs) \in Nat /\ Size(Line(fs)) \in Nat
         /\ o \in Nat /\ last \in Nat /\ OnLine(fs) /\ b \in Text(Symbols) /\ h \in Text(WireFrames)
         /\ o + Size(b) <= Size(Line(fs))
         /\ \A k \in 0 .. Size(fs) : Mark(fs, k) \in Nat
  BY TextIs, TrackIs DEF Reading

\* Symbols that arrive are those of the line, but for some that are damaged.
Comes(fs, p, data, last, now) ==
  /\ now \in Nat /\ (now = last \/ now > p)
  /\ \A i \in 1 .. Size(data) :
       \/ At(data, i) = At(Line(fs), p + i)
       \/ At(data, i) \in Plain /\ p + i <= now

\* Checks is kept when symbols arrive.
LEMMA ChecksGrow ==
  ASSUME NEW fs, OnLine(fs), NEW p \in Nat, NEW b \in Text(Symbols), NEW data \in Text(Symbols),
         NEW last, NEW now, Comes(fs, p, data, last, now), Checks(fs, p, b),
         p + Size(data) <= Size(Line(fs)), NEW c, Joins(c, b, data)
  PROVE  /\ Checks(fs, p + Size(data), c)
         /\ \A h : Hearing(fs, p, b, h) => Hearing(fs, p + Size(data), c, h)
<1> DEFINE n == Size(b)
           d == Size(data)
           F == 1 .. Size(fs)
           C(k) == Check(At(fs, k))
           M(k) == Mark(fs, k)
<1>1. n \in Nat /\ d \in Nat /\ Size(fs) \in Nat /\ Size(Line(fs)) \in Nat
  BY TextIs, TrackIs
<1>2. /\ c \in Text(Symbols) /\ Size(c) = n + d
      /\ \A i \in 1 .. n : At(c, i) = At(b, i)
      /\ \A i \in 1 .. d : At(c, n + i) = At(data, i)
  BY JoinIs
<1>3. \A k \in F : M(k) \in Nat
  BY FrameMarks
<1>4. \A i \in 1 .. d : \/ At(data, i) \in Plain
                        \/ \E k \in F : M(k) = p + i /\ At(data, i) = C(k)
  <2> TAKE i \in 1 .. d
  <2>1. p + i \in 1 .. Size(Line(fs))
    BY <1>1
  <2>2. \/ At(Line(fs), p + i) \in Plain
        \/ \E k \in F : p + i = M(k) /\ At(Line(fs), p + i) = C(k)
    BY <2>1, SumSpot
  <2>3. At(data, i) = At(Line(fs), p + i) \/ At(data, i) \in Plain
    BY DEF Comes
  <2> QED
    BY <2>2, <2>3
<1>5. \A k \in F : C(k) \notin Plain
  BY Checksums DEF Check
<1>6. \A j, k \in F : C(j) = C(k) => j = k
  BY CheckUnique
<1>7. \A j, k \in F : M(j) < M(k) => j < k
  <2> TAKE j, k \in F
  <2>1. M(k) <= M(j - 1) \/ ~(M(k - 1) < M(j)) \/ k <= j
    BY MarkOrder
  <2>2. Mark(fs, j - 1) <= Mark(fs, j) /\ Mark(fs, j - 1) \in Nat
    BY FrameMarks
  <2>3. ASSUME M(j) < M(k) PROVE j <= k
    BY <1>3, <2>2, <2>3, MarkOrder
  <2>4. M(j) < M(k) => j # k
    BY <1>3
  <2> QED
    BY <1>1, <2>3, <2>4
<1>8. \A i \in 1 .. n + d : i \in 1 .. n \/ (i - n \in 1 .. d /\ i = n + (i - n))
  BY <1>1
<1>9. /\ \A i \in 1 .. n : At(b, i) \in Plain \/ \E k \in F : M(k) <= p /\ At(b, i) = C(k)
      /\ \A i \in 1 .. n, j \in 1 .. n : i < j =>
           \A k \in F, l \in F : At(b, i) = C(k) /\ At(b, j) = C(l) => k < l
  BY DEF Checks
<1> HIDE DEF n, d, C, M, F
\* A checksum in the longer text: of a frame before p, or of one that ends where it is.
<1>10. \A i \in 1 .. n + d, k \in F : At(c, i) = C(k) =>
         \/ i \in 1 .. n /\ M(k) <= p /\ At(b, i) = C(k)
         \/ i - n \in 1 .. d /\ M(k) = p + (i - n)
  <2> TAKE i \in 1 .. n + d, k \in F
  <2> SUFFICES ASSUME At(c, i) = C(k)
               PROVE  \/ i \in 1 .. n /\ M(k) <= p /\ At(b, i) = C(k)
                      \/ i - n \in 1 .. d /\ M(k) = p + (i - n)
    OBVIOUS
  <2>1. CASE i \in 1 .. n
    BY <1>2, <1>5, <1>6, <1>9, <2>1
  <2>2. CASE i - n \in 1 .. d /\ i = n + (i - n)
    <3>1. At(data, i - n) = C(k)
      BY <1>2, <2>2
    <3> QED
      BY <1>4, <1>5, <1>6, <2>2, <3>1
  <2> QED
    BY <1>8, <2>1, <2>2
<1>11. Checks(fs, p + d, c)
  <2>1. ASSUME NEW i \in 1 .. n + d
        PROVE  At(c, i) \in Plain \/ \E k \in F : M(k) <= p + d /\ At(c, i) = C(k)
    <3>1. CASE i \in 1 .. n
      BY <1>1, <1>2, <1>3, <1>9, <3>1
    <3>2. CASE i - n \in 1 .. d /\ i = n + (i - n)
      <4>1. At(c, i) = At(data, i - n)
        BY <1>2, <3>2
      <4>2. p + (i - n) <= p + d
        BY <1>1, <3>2
      <4> QED
        BY <1>4, <3>2, <4>1, <4>2
    <3> QED
      BY <1>8, <3>1, <3>2
  <2>2. ASSUME NEW i \in 1 .. n + d, NEW j \in 1 .. n + d, i < j, NEW k \in F, NEW l \in F,
               At(c, i) = C(k), At(c, j) = C(l)
        PROVE  k < l
    <3>1. CASE i \in 1 .. n /\ j \in 1 .. n
      BY <1>2, <1>9, <2>2, <3>1
    <3>2. CASE j \notin 1 .. n
      <4>1. M(l) = p + (j - n) /\ j - n \in 1 .. d
        BY <1>10, <2>2, <3>2
      <4>2. M(k) <= p \/ (M(k) = p + (i - n) /\ i - n \in 1 .. d)
        BY <1>10, <2>2
      <4>3. M(k) < M(l)
        BY <1>1, <1>3, <2>2, <4>1, <4>2
      <4> QED
        BY <1>7, <4>3
    <3>3. CASE i \notin 1 .. n
      BY <1>1, <2>2, <3>2, <3>3
    <3> QED
      BY <3>1, <3>2, <3>3
  <2> QED
    BY <1>2, <2>1, <2>2 DEF Checks, C, M, F
<1>12. ASSUME NEW h, Hearing(fs, p, b, h) PROVE Hearing(fs, p + d, c, h)
  <2>1. ASSUME NEW m \in 1 .. Size(h)
        PROVE  \E k \in F : /\ At(h, m) = At(fs, k) /\ M(k) <= p + d
                            /\ \A i \in 1 .. n + d, l \in F : At(c, i) = C(l) => k < l
    <3>1. PICK k \in F : /\ At(h, m) = At(fs, k) /\ M(k) <= p
                         /\ \A i \in 1 .. n, l \in F : At(b, i) = C(l) => k < l
      BY <1>12 DEF Hearing, F, C, M, n
    <3>2. M(k) <= p + d
      BY <1>1, <1>3, <3>1
    <3>3. ASSUME NEW i \in 1 .. n + d, NEW l \in F, At(c, i) = C(l) PROVE k < l
      <4>1. CASE i \in 1 .. n /\ M(l) <= p /\ At(b, i) = C(l)
        BY <3>1, <4>1
      <4>2. CASE i - n \in 1 .. d /\ M(l) = p + (i - n)
        <5>1. M(k) < M(l)
          BY <1>1, <1>3, <3>1, <4>2
        <5> QED
          BY <1>7, <5>1
      <4> QED
        BY <1>10, <3>3, <4>1, <4>2
    <3> QED
      BY <3>1, <3>2, <3>3
  <2> QED
    BY <1>2, <1>12, <2>1 DEF Hearing, F, C, M
<1> QED
  BY <1>11, <1>12 DEF d

\* What has arrived is read on.
LEMMA GrowReading ==
  ASSUME NEW fs, NEW o, NEW b, NEW h, NEW last, Reading(fs, o, b, h, last),
         NEW data \in Text(Symbols), NEW now, Comes(fs, o + Size(b), data, last, now),
         o + Size(b) + Size(data) <= Size(Line(fs)), NEW c, Joins(c, b, data)
  PROVE  Reading(fs, o, c, h, now)
<1> DEFINE n == Size(b)
           d == Size(data)
           p == o + n
<1>1. /\ n \in Nat /\ d \in Nat /\ Size(fs) \in Nat /\ Size(Line(fs)) \in Nat /\ o \in Nat
      /\ last \in Nat /\ OnLine(fs) /\ b \in Text(Symbols) /\ h \in Text(WireFrames)
      /\ \A k \in 0 .. Size(fs) : Mark(fs, k) \in Nat
  BY ReadingSizes, TextIs
<1>2. /\ c \in Text(Symbols) /\ Size(c) = n + d
      /\ \A i \in 1 .. n : At(c, i) = At(b, i)
      /\ \A i \in 1 .. d : At(c, n + i) = At(data, i)
  BY <1>1, JoinIs
<1>3. /\ now \in Nat /\ (now = last \/ now > p)
      /\ \A i \in 1 .. d : At(data, i) = At(Line(fs), p + i) \/ p + i <= now
  BY DEF Comes
<1>4. Checks(fs, p + d, c) /\ Hearing(fs, p + d, c, h)
  <2>1. Checks(fs, p, b) /\ Hearing(fs, p, b, h) /\ p \in Nat /\ p + d <= Size(Line(fs))
    BY <1>1 DEF Reading
  <2> HIDE DEF p
  <2>2. Comes(fs, p, data, last, now)
    BY DEF p
  <2> QED
    BY <1>1, <2>1, <2>2, ChecksGrow
<1>5. \A i \in 1 .. n : o + i > last => At(b, i) = At(Line(fs), o + i)
  BY DEF Reading, Clean
<1>6. Prompt(fs, o, h, last) /\ Skipped(fs, o, h, last) /\ p + d <= Size(Line(fs))
  BY DEF Reading
<1> HIDE DEF n, d
<1>7. Clean(fs, o, c, now)
  <2> SUFFICES ASSUME NEW i \in 1 .. n + d, o + i > now PROVE At(c, i) = At(Line(fs), o + i)
    BY <1>2 DEF Clean
  <2>1. CASE i \in 1 .. n
    <3>1. o + i > last
      BY <1>1, <1>3, <2>1
    <3> QED
      BY <1>2, <1>5, <2>1, <3>1
  <2>2. CASE i \notin 1 .. n
    <3>1. i - n \in 1 .. d /\ n + (i - n) = i /\ p + (i - n) = o + i /\ ~(p + (i - n) <= now)
      BY <1>1, <1>3, <2>2
    <3> QED
      BY <1>2, <1>3, <3>1
  <2> QED
    BY <2>1, <2>2
<1>8. Prompt(fs, o, h, now)
  <2>1. now = 0 => last = 0
    BY <1>1, <1>3
  <2> QED
    BY <1>6, <2>1 DEF Prompt
<1>9. Skipped(fs, o, h, now)
  <2>1. CASE now = last
    BY <1>6, <2>1
  <2>2. CASE now > p
    <3>1. \A k \in 1 .. Size(fs) : ~(Mark(fs, k - 1) >= now + MaxFrame /\ Mark(fs, k - 1) < o)
      <4> TAKE k \in 1 .. Size(fs)
      <4>1. Mark(fs, k - 1) \in Nat /\ MaxFrame \in Nat
        BY <1>1, Numbers, FrameMarks
      <4> QED
        BY <1>1, <1>3, <2>2, <4>1
    <3> QED
      BY <3>1 DEF Skipped
  <2> QED
    BY <1>3, <2>1, <2>2
<1>10. p + d = o + Size(c) /\ o + Size(c) <= Size(Line(fs))
  BY <1>1, <1>2, <1>6
<1> QED
  BY <1>1, <1>2, <1>3, <1>4, <1>7, <1>8, <1>9, <1>10 DEF Reading

---------------------------------------------------------------------------
(* What a turn of a decoder does to a reading.                             *)

\* No start of a frame well after the last fault is among the next t symbols.
Barren(fs, o, t, last) ==
  /\ last = 0 => t = 0
  /\ last > 0 /\ Unmistakable(fs) =>
       \A k \in 1 .. Size(fs) :
         ~(Mark(fs, k - 1) >= last + MaxFrame /\ o <= Mark(fs, k - 1) /\ Mark(fs, k - 1) < o + t)

\* The unread text without its first t symbols: checksums stay in order.
LEMMA CutOrder ==
  ASSUME NEW fs, NEW p, NEW b \in Text(Symbols), NEW t \in 0 .. Size(b),
         NEW r, Cuts(r, b, t)
  PROVE  /\ r \in Text(Symbols) /\ Size(r) \in Nat /\ Size(r) = Size(b) - t
         /\ Checks(fs, p, b) => Checks(fs, p, r)
         /\ \A h : Hearing(fs, p, b, h) => Hearing(fs, p, r, h)
<1> DEFINE n == Size(b)
           d == Size(r)
<1>1. n \in Nat /\ t \in Nat /\ t <= n
  BY TextIs
<1>2. r \in Text(Symbols) /\ d = n - t /\ \A i \in 1 .. d : At(r, i) = At(b, t + i)
  BY CutIs
<1> HIDE DEF n, d
<1>3. \A i \in 1 .. d : t + i \in 1 .. n
  BY <1>1, <1>2
<1>4. \A i \in 1 .. d : \A j \in 1 .. d : i < j => t + i < t + j
  BY <1>1, <1>2
<1>5. ASSUME Checks(fs, p, b) PROVE Checks(fs, p, r)
  BY <1>2, <1>3, <1>4, <1>5 DEF Checks, n, d
<1>6. ASSUME NEW h, Hearing(fs, p, b, h) PROVE Hearing(fs, p, r, h)
  BY <1>2, <1>3, <1>6 DEF Hearing, n, d
<1> QED
  BY <1>1, <1>2, <1>5, <1>6 DEF n, d

\* Symbols that hold no start of a frame are passed over.
LEMMA DropReading ==
  ASSUME NEW fs, NEW o, NEW b, NEW h, NEW last, Reading(fs, o, b, h, last),
         NEW t \in 0 .. Size(b), NEW r, Cuts(r, b, t), Barren(fs, o, t, last)
  PROVE  Reading(fs, o + t, r, h, last)
<1> DEFINE n == Size(b)
           d == Size(r)
           p == o + n
<1>1. /\ n \in Nat /\ Size(fs) \in Nat /\ o \in Nat /\ last \in Nat /\ t \in Nat
      /\ OnLine(fs) /\ b \in Text(Symbols) /\ h \in Text(WireFrames) /\ p <= Size(Line(fs))
      /\ Size(Line(fs)) \in Nat
  BY ReadingSizes
<1>2. /\ Checks(fs, p, b) /\ Hearing(fs, p, b, h) /\ Clean(fs, o, b, last)
      /\ Prompt(fs, o, h, last) /\ Skipped(fs, o, h, last)
  BY DEF Reading
<1>3. /\ r \in Text(Symbols) /\ d \in Nat /\ d = n - t
      /\ Checks(fs, p, r) /\ Hearing(fs, p, r, h)
  <2> HIDE DEF p
  <2> QED
    BY <1>1, <1>2, CutOrder
<1>4. \A i \in 1 .. d : At(r, i) = At(b, t + i)
  BY <1>1, CutIs
<1>5. \A i \in 1 .. n : o + i > last => At(b, i) = At(Line(fs), o + i)
  BY <1>2 DEF Clean
<1>6. \A k \in 1 .. Size(fs) : Mark(fs, k - 1) \in Nat
  BY <1>1, FrameMarks
<1> HIDE DEF n, d
<1>7. (o + t) + d = p
  BY <1>1, <1>3
<1>8. Clean(fs, o + t, r, last)
  <2> SUFFICES ASSUME NEW i \in 1 .. d, (o + t) + i > last
               PROVE  At(r, i) = At(Line(fs), (o + t) + i)
    BY DEF Clean, d
  <2>1. t + i \in 1 .. n /\ o + (t + i) = (o + t) + i
    BY <1>1, <1>3
  <2> QED
    BY <1>4, <1>5, <2>1
<1>9. Prompt(fs, o + t, h, last)
  <2>1. last = 0 => o + t = o
    BY <1>1 DEF Barren
  <2> QED
    BY <1>2, <2>1 DEF Prompt
<1>10. Skipped(fs, o + t, h, last)
  <2> SUFFICES ASSUME last > 0, Unmistakable(fs), NEW k \in 1 .. Size(fs),
                      Mark(fs, k - 1) >= last + MaxFrame, Mark(fs, k - 1) < o + t
               PROVE  \E m \in 1 .. Size(h) : At(h, m) = At(fs, k)
    BY DEF Skipped
  <2>1. Mark(fs, k - 1) < o
    BY <1>1, <1>6 DEF Barren
  <2> QED
    BY <1>2, <2>1 DEF Skipped
<1> QED
  BY <1>1, <1>3, <1>7, <1>8, <1>9, <1>10 DEF Reading, d

\* Nothing is read: the reading is the same.
LEMMA CutNone ==
  ASSUME NEW S, NEW b \in Text(S)
  PROVE  Cuts(b, b, 0) /\ 0 \in 0 .. Size(b)
<1> DEFINE r == SubSeq(b, 0 + 1, Len(b))
<1>1. Cuts(r, b, 0)
  BY DEF Cuts
<1>2. Size(b) \in Nat /\ 0 \in 0 .. Size(b) /\ Size(b) - 0 = Size(b)
  BY TextIs
<1> HIDE DEF r
<1>3. r \in Text(S) /\ Size(r) = Size(b) /\ \A i \in 1 .. Size(r) : At(r, i) = At(b, 0 + i)
  BY <1>1, <1>2, CutIs
<1>4. \A i \in 1 .. Size(r) : 0 + i = i
  BY <1>2, <1>3
<1>5. r = b
  BY <1>3, <1>4, TextEqual
<1> QED
  BY <1>1, <1>2, <1>5

\* A frame that begins behind the last fault is unread as it was sent.
LEMMA Ahead ==
  ASSUME NEW fs, NEW o, NEW b, NEW h, NEW last, Reading(fs, o, b, h, last),
         NEW s \in 0 .. Size(b), NEW r, Cuts(r, b, s),
         NEW k \in 1 .. Size(fs), Mark(fs, k - 1) = o + s, last <= o + s
  PROVE  r \in Text(Symbols) /\ Size(r) = Size(b) - s /\ Agree(r, Code(At(fs, k)))
<1> DEFINE n == Size(b)
           d == Size(r)
           code == Code(At(fs, k))
           m == Mark(fs, k - 1)
<1>1. n \in Nat /\ o \in Nat /\ last \in Nat /\ s \in Nat /\ OnLine(fs) /\ b \in Text(Symbols)
  BY ReadingSizes
<1>2. r \in Text(Symbols) /\ d = n - s /\ \A i \in 1 .. d : At(r, i) = At(b, s + i)
  BY <1>1, CutIs
<1>3. \A i \in 1 .. n : o + i > last => At(b, i) = At(Line(fs), o + i)
  BY DEF Reading, Clean
<1>4. Size(code) \in Nat /\ \A i \in 1 .. Size(code) : At(Line(fs), m + i) = At(code, i)
  BY <1>1, FrameMarks, TrackIs
<1> HIDE DEF n, d, code, m
<1>5. ASSUME NEW i \in 1 .. d, i <= Size(code) PROVE At(r, i) = At(code, i)
  <2>1. s + i \in 1 .. n /\ o + (s + i) > last /\ i \in 1 .. Size(code)
    BY <1>1, <1>2, <1>4, <1>5
  <2>2. o + (s + i) = m + i
    BY <1>1, <2>1 DEF m
  <2> QED
    BY <1>2, <1>3, <1>4, <2>1, <2>2
<1> QED
  BY <1>2, <1>5 DEF n, d, code, Agree

\* So its magic is there.
LEMMA AheadMagic ==
  ASSUME NEW fs, NEW o, NEW b, NEW h, NEW last, Reading(fs, o, b, h, last),
         NEW s \in Nat, s < Size(b),
         NEW k \in 1 .. Size(fs), Mark(fs, k - 1) = o + s, last <= o + s
  PROVE  At(b, s + 1) = First /\ (s + 2 <= Size(b) => s + 1 \in MagicAt(b))
<1> DEFINE r == SubSeq(b, s + 1, Len(b))
           f == At(fs, k)
<1>1. Size(b) \in Nat /\ OnLine(fs) /\ b \in Text(Symbols) /\ Cuts(r, b, s)
  BY ReadingSizes DEF Cuts
<1>2. s \in 0 .. Size(b)
  BY <1>1
<1>3. Sendable(f)
  BY <1>1, FrameMarks
<1> HIDE DEF r, f
<1>4. r \in Text(Symbols) /\ Size(r) = Size(b) - s /\ Agree(r, Code(f))
  BY <1>1, <1>2, Ahead DEF f
<1>5. \A i \in 1 .. Size(r) : At(r, i) = At(b, s + i)
  BY <1>1, <1>2, CutIs
<1>6. /\ Size(r) >= 1 => At(r, 1) = First
      /\ Size(r) >= 2 => 1 \in MagicAt(r)
  BY <1>3, <1>4, Recognised
<1>7. At(b, s + 1) = First
  BY <1>1, <1>4, <1>5, <1>6
<1>8. ASSUME s + 2 <= Size(b) PROVE s + 1 \in MagicAt(b)
  <2>1. Size(r) >= 2 /\ 2 \in 1 .. Size(r)
    BY <1>1, <1>4, <1>8
  <2>2. At(r, 1 + 1) = Second
    BY <1>4, <1>6, <2>1, MagicAtIs
  <2>3. 1 + 1 = 2 /\ s + 2 = (s + 1) + 1 /\ s + 1 \in 1 .. Size(b) - 1
    BY <1>1, <1>8
  <2>4. At(b, (s + 1) + 1) = Second
    BY <1>5, <2>1, <2>2, <2>3
  <2> QED
    BY <1>1, <1>7, <2>3, <2>4, MagicAtIs
<1> QED
  BY <1>7, <1>8

\* Without a fault, the next frame is what is unread.
LEMMA NextFrame ==
  ASSUME NEW fs, NEW o, NEW b, NEW h, Reading(fs, o, b, h, 0), Size(b) >= 1
  PROVE  /\ Size(h) + 1 \in 1 .. Size(fs) /\ Size(h) \in Nat
         /\ Mark(fs, (Size(h) + 1) - 1) = o
         /\ Agree(b, Code(At(fs, Size(h) + 1)))
<1> DEFINE m == Size(h)
<1>1. /\ Size(b) \in Nat /\ m \in Nat /\ Size(fs) \in Nat /\ o \in Nat /\ OnLine(fs)
      /\ o + Size(b) <= Size(Line(fs)) /\ Size(Line(fs)) \in Nat /\ b \in Text(Symbols)
  BY ReadingSizes
<1>2. m <= Size(fs) /\ o = Mark(fs, m)
  BY DEF Reading, Prompt
<1>3. m # Size(fs)
  BY <1>1, <1>2, TrackIs
<1>4. m + 1 \in 1 .. Size(fs) /\ (m + 1) - 1 = m
  BY <1>1, <1>2, <1>3
<1>5. Cuts(b, b, 0) /\ 0 \in 0 .. Size(b) /\ o + 0 = o /\ 0 <= o + 0
  BY <1>1, CutNone
<1> HIDE DEF m
<1>6. Mark(fs, (m + 1) - 1) = o + 0
  BY <1>2, <1>4, <1>5
<1>7. Agree(b, Code(At(fs, m + 1)))
  BY <1>4, <1>5, <1>6, Ahead
<1> QED
  BY <1>1, <1>4, <1>5, <1>6, <1>7 DEF m

\* What comes before the first magic may go, a last symbol that begins one stays.
LEMMA Noise ==
  ASSUME NEW fs, NEW o, NEW b, NEW h, NEW last, Reading(fs, o, b, h, last),
         NEW t \in 0 .. Size(b), \A i \in MagicAt(b) : t < i,
         t = Size(b) /\ t > 0 => At(b, Size(b)) # First
  PROVE  Barren(fs, o, t, last)
<1>1. /\ Size(b) \in Nat /\ t \in Nat /\ t <= Size(b) /\ o \in Nat /\ last \in Nat /\ OnLine(fs)
      /\ Size(fs) \in Nat
  BY ReadingSizes
<1>2. ASSUME NEW k \in 1 .. Size(fs), NEW s \in Nat, s < t, Mark(fs, k - 1) = o + s, last <= o + s
      PROVE  FALSE
  <2>1. s < Size(b)
    BY <1>1, <1>2
  <2>2. At(b, s + 1) = First /\ (s + 2 <= Size(b) => s + 1 \in MagicAt(b))
    BY <1>2, <2>1, AheadMagic
  <2>3. ~(s + 2 <= Size(b))
    BY <1>1, <1>2, <2>2
  <2>4. s + 1 = Size(b) /\ t = Size(b) /\ t > 0
    BY <1>1, <1>2, <2>1, <2>3
  <2> QED
    BY <2>2, <2>4
<1>3. ASSUME last = 0 PROVE t = 0
  <2> SUFFICES ASSUME t # 0 PROVE FALSE
    OBVIOUS
  <2>1. Size(b) >= 1 /\ 0 \in Nat /\ 0 < t /\ o + 0 = o /\ last <= o + 0
    BY <1>1, <1>3
  <2>2. Size(h) + 1 \in 1 .. Size(fs) /\ Mark(fs, (Size(h) + 1) - 1) = o
    BY <1>3, <2>1, NextFrame
  <2> QED
    BY <1>2, <2>1, <2>2
<1>4. ASSUME last > 0, NEW k \in 1 .. Size(fs), Mark(fs, k - 1) >= last + MaxFrame,
             o <= Mark(fs, k - 1), Mark(fs, k - 1) < o + t
      PROVE  FALSE
  <2> DEFINE m == Mark(fs, k - 1)
             s == m - o
  <2>1. m \in Nat /\ MaxFrame \in Nat
    BY <1>1, FrameMarks, Numbers
  <2> HIDE DEF m
  <2>2. s \in Nat /\ s < t /\ m = o + s /\ last <= o + s
    BY <1>1, <1>4, <2>1 DEF m
  <2> QED
    BY <1>2, <2>2 DEF m
<1> QED
  BY <1>3, <1>4 DEF Barren

\* Well after the last fault a magic starts a frame that was sent, if no payload
\* holds one; and what is unread is that frame as it was sent.
LEMMA Resumed ==
  ASSUME NEW fs, NEW o, NEW b, NEW h, NEW last, Reading(fs, o, b, h, last),
         Unmistakable(fs), last <= o, 1 \in MagicAt(b)
  PROVE  \E j \in 1 .. Size(fs) : o = Mark(fs, j - 1) /\ Agree(b, Code(At(fs, j)))
<1>1. /\ Size(b) \in Nat /\ o \in Nat /\ last \in Nat /\ OnLine(fs) /\ b \in Text(Symbols)
      /\ o + Size(b) <= Size(Line(fs)) /\ Size(Line(fs)) \in Nat
  BY ReadingSizes
<1>2. 1 \in 1 .. Size(b) - 1 /\ At(b, 1) = First /\ At(b, 1 + 1) = Second
  BY <1>1, MagicAtIs
<1>3. 1 \in 1 .. Size(b) /\ 2 \in 1 .. Size(b) /\ 1 + 1 = 2 /\ o + 1 > last /\ o + 2 > last
      /\ o + 2 <= Size(Line(fs))
  BY <1>1, <1>2
<1>4. At(Line(fs), o + 1) = First /\ At(Line(fs), o + 2) = Second
  BY <1>2, <1>3 DEF Reading, Clean
<1>5. PICK j \in 1 .. Size(fs) : o = Mark(fs, j - 1)
  BY <1>1, <1>3, <1>4, MagicStarts
<1>6. Cuts(b, b, 0) /\ 0 \in 0 .. Size(b) /\ o + 0 = o /\ last <= o + 0
  BY <1>1, CutNone
<1>7. Mark(fs, j - 1) = o + 0
  BY <1>5, <1>6
<1>8. Agree(b, Code(At(fs, j)))
  BY <1>6, <1>7, Ahead
<1> QED
  BY <1>5, <1>8

\* What starts with a magic and is refused holds no frame well after the last fault.
LEMMA RefuseReading ==
  ASSUME NEW fs, NEW o, NEW b, NEW h, NEW last, Reading(fs, o, b, h, last),
         1 \in MagicAt(b), Size(b) >= 6, NEW t \in 1 .. Size(b), t <= MaxFrame,
         HeaderValid(b) => Size(b) >= FrameSize(b) /\ ~ChecksumMatches(b)
  PROVE  Barren(fs, o, t, last)
<1>1. /\ Size(b) \in Nat /\ o \in Nat /\ last \in Nat /\ OnLine(fs) /\ b \in Text(Symbols)
      /\ t \in Nat /\ MaxFrame \in Nat
  BY ReadingSizes, Numbers
<1>2. ASSUME NEW j \in 1 .. Size(fs), Agree(b, Code(At(fs, j))) PROVE FALSE
  <2>1. Sendable(At(fs, j))
    BY <1>1, FrameMarks
  <2>2. /\ HeaderValid(b) /\ FrameSize(b) = Size(Code(At(fs, j)))
        /\ Size(b) >= Size(Code(At(fs, j))) => ChecksumMatches(b)
    BY <1>1, <1>2, <2>1, Recognised
  <2> QED
    BY <2>2
<1>3. last # 0
  BY <1>1, <1>2, NextFrame
<1>4. ASSUME Unmistakable(fs), NEW k \in 1 .. Size(fs), Mark(fs, k - 1) >= last + MaxFrame,
             Mark(fs, k - 1) < o + t
      PROVE  FALSE
  <2>1. last <= o
    BY <1>1, <1>4, FrameMarks
  <2> QED
    BY <1>2, <1>4, <2>1, Resumed
<1> QED
  BY <1>3, <1>4 DEF Barren

\* A frame that passes its checks is one that was sent, and it is the next one
\* where nothing may be missed.
LEMMA AcceptReading ==
  ASSUME NEW fs, NEW o, NEW b, NEW h, NEW last, Reading(fs, o, b, h, last),
         1 \in MagicAt(b), HeaderValid(b), Size(b) >= 6, Size(b) >= FrameSize(b),
         ChecksumMatches(b),
         NEW r, Cuts(r, b, FrameSize(b)), NEW g, Adds(g, h, FrameIn(b))
  PROVE  /\ Reading(fs, o + FrameSize(b), r, g, last)
         /\ FrameIn(b) \in WireFrames /\ Size(Code(FrameIn(b))) = FrameSize(b)
<1> DEFINE n == Size(b)
           z == FrameSize(b)
           p == o + n
           d == Size(r)
           w == Size(h)
           F == 1 .. Size(fs)
           C(k) == Check(At(fs, k))
           frame == FrameIn(b)
<1>1. /\ n \in Nat /\ w \in Nat /\ Size(fs) \in Nat /\ Size(Line(fs)) \in Nat
      /\ o \in Nat /\ last \in Nat /\ OnLine(fs) /\ b \in Text(Symbols) /\ h \in Text(WireFrames)
      /\ p <= Size(Line(fs)) /\ MaxFrame \in Nat
  BY ReadingSizes, Numbers
<1>2. /\ Checks(fs, p, b) /\ Hearing(fs, p, b, h) /\ Clean(fs, o, b, last)
      /\ Prompt(fs, o, h, last) /\ Skipped(fs, o, h, last)
  BY DEF Reading
<1>3. z \in 0 .. n /\ z \in Nat /\ z >= 7 /\ z <= MaxFrame
  BY <1>1, FieldsAreNumbers, HeaderValidIs, Numbers
<1>4. \E k \in F : At(b, z) = C(k)
  <2>1. \E body : At(b, z) = Crc(body)
    BY DEF ChecksumMatches, At
  <2>2. At(b, z) \notin Plain
    BY <2>1, Checksums
  <2>3. z \in 1 .. n
    BY <1>1, <1>3
  <2> QED
    BY <1>2, <2>2, <2>3 DEF Checks
<1>5. PICK k \in F : At(b, z) = C(k)
  BY <1>4
<1>6. frame = At(fs, k) /\ z = Size(Code(frame)) /\ frame \in WireFrames /\ frame.sequence = k - 1
  <2>1. Sendable(At(fs, k)) /\ At(fs, k) \in WireFrames /\ At(fs, k).sequence = k - 1
    BY <1>1, FrameMarks
  <2>2. At(b, FrameSize(b)) = Crc(Body(At(fs, k)))
    BY <1>5 DEF Check
  <2>3. FrameIn(b) = At(fs, k) /\ FrameSize(b) = Size(Code(At(fs, k)))
    BY <1>1, <2>1, <2>2, Accepted
  <2> QED
    BY <2>1, <2>3
<1>7. /\ r \in Text(Symbols) /\ d \in Nat /\ d = n - z
      /\ Checks(fs, p, r) /\ Hearing(fs, p, r, h) /\ \A i \in 1 .. d : At(r, i) = At(b, z + i)
  <2>1. \A i \in 1 .. d : At(r, i) = At(b, z + i)
    BY <1>1, <1>3, CutIs
  <2> HIDE DEF p, z
  <2>2. Cuts(r, b, z) /\ z \in 0 .. Size(b)
    BY <1>3 DEF z
  <2> QED
    BY <1>1, <1>2, <2>1, <2>2, CutOrder
<1>8. /\ g \in Text(WireFrames) /\ Size(g) = w + 1
      /\ \A i \in 1 .. w : At(g, i) = At(h, i)
      /\ At(g, w + 1) = frame
  BY <1>1, <1>6, AddIs
\* Where nothing may be missed, it is the frame that stands there.
<1>9. ASSUME NEW j \in F, o = Mark(fs, j - 1), Agree(b, Code(At(fs, j)))
      PROVE  At(g, w + 1) = At(fs, j) /\ o + z = Mark(fs, j)
  <2>1. Sendable(At(fs, j)) /\ Mark(fs, j) = Mark(fs, j - 1) + Size(Code(At(fs, j)))
    BY <1>1, FrameMarks
  <2>2. z = Size(Code(At(fs, j))) /\ FrameIn(b) = At(fs, j)
    BY <1>1, <1>9, <2>1, Recognised
  <2> QED
    BY <1>8, <1>9, <2>1, <2>2
<1> HIDE DEF n, z, d, w, frame
<1>10. Hearing(fs, p, r, g)
  <2>1. ASSUME NEW m \in 1 .. w + 1
        PROVE  \E j \in F : /\ At(g, m) = At(fs, j) /\ Mark(fs, j) <= p
                            /\ \A i \in 1 .. d, l \in F : At(r, i) = C(l) => j < l
    <3>1. CASE m \in 1 .. w
      BY <1>7, <1>8, <3>1 DEF Hearing, d, w
    <3>2. CASE m \notin 1 .. w
      <4>1. m = w + 1
        BY <1>1, <3>2
      <4>2. Mark(fs, k) <= p
        <5>1. z \in 1 .. n /\ C(k) \notin Plain
          BY <1>1, <1>3, Checksums DEF Check
        <5>2. PICK j \in F : Mark(fs, j) <= p /\ At(b, z) = C(j)
          BY <1>2, <1>5, <5>1 DEF Checks, n
        <5>3. j = k
          BY <1>1, <1>5, <5>2, CheckUnique
        <5> QED
          BY <5>2, <5>3
      <4>3. ASSUME NEW i \in 1 .. d, NEW l \in F, At(r, i) = C(l) PROVE k < l
        <5>1. z \in 1 .. n /\ z + i \in 1 .. n /\ z < z + i
          BY <1>1, <1>3, <1>7
        <5>2. At(b, z + i) = C(l)
          BY <1>7, <4>3
        <5> QED
          BY <1>2, <1>5, <5>1, <5>2 DEF Checks, n
      <4> QED
        BY <1>6, <1>8, <4>1, <4>2, <4>3
    <3> QED
      BY <3>1, <3>2
  <2>2. ASSUME NEW i \in 1 .. w + 1, NEW m \in 1 .. w + 1, i < m
        PROVE  At(g, i).sequence < At(g, m).sequence
    <3>1. i \in 1 .. w
      BY <1>1, <2>2
    <3>2. CASE m \in 1 .. w
      BY <1>2, <1>8, <2>2, <3>1, <3>2 DEF Hearing, w
    <3>3. CASE m \notin 1 .. w
      <4>1. m = w + 1
        BY <1>1, <3>3
      <4>2. PICK j \in F : /\ At(h, i) = At(fs, j)
                           /\ \A q \in 1 .. n, l \in F : At(b, q) = C(l) => j < l
        BY <1>2, <3>1 DEF Hearing, n, w
      <4>3. z \in 1 .. n
        BY <1>1, <1>3
      <4>4. j < k
        BY <1>5, <4>2, <4>3
      <4>5. At(fs, j).sequence = j - 1
        BY <1>1, FrameMarks
      <4>6. At(g, i).sequence = j - 1 /\ At(g, m).sequence = k - 1
        BY <1>6, <1>8, <3>1, <4>1, <4>2, <4>5
      <4>7. k \in Nat /\ j \in Nat
        BY <1>1
      <4> QED
        BY <4>4, <4>6, <4>7
    <3> QED
      BY <3>2, <3>3
  <2> QED
    BY <1>8, <2>1, <2>2 DEF Hearing, d
<1>11. Clean(fs, o + z, r, last)
  <2> SUFFICES ASSUME NEW i \in 1 .. d, (o + z) + i > last
               PROVE  At(r, i) = At(Line(fs), (o + z) + i)
    BY DEF Clean, d
  <2>1. z + i \in 1 .. n /\ o + (z + i) = (o + z) + i
    BY <1>1, <1>3, <1>7
  <2> QED
    BY <1>2, <1>7, <2>1 DEF Clean, n
<1>12. Prompt(fs, o + z, g, last)
  <2> SUFFICES ASSUME last = 0
               PROVE  /\ w + 1 <= Size(fs) /\ o + z = Mark(fs, w + 1)
                      /\ \A i \in 1 .. w + 1 : At(g, i) = At(fs, i)
    BY <1>8 DEF Prompt
  <2>1. Size(b) >= 1
    BY <1>1, <1>3 DEF n
  <2>2. w + 1 \in F /\ Mark(fs, (w + 1) - 1) = o /\ Agree(b, Code(At(fs, w + 1)))
    BY <2>1, NextFrame DEF w
  <2>3. At(g, w + 1) = At(fs, w + 1) /\ o + z = Mark(fs, w + 1)
    BY <1>9, <2>2
  <2>4. \A i \in 1 .. w : At(g, i) = At(fs, i)
    BY <1>2, <1>8 DEF Prompt, w
  <2>5. \A i \in 1 .. w + 1 : i \in 1 .. w \/ i = w + 1
    BY <1>1
  <2> QED
    BY <1>1, <2>2, <2>3, <2>4, <2>5
<1>13. Skipped(fs, o + z, g, last)
  <2> SUFFICES ASSUME last > 0, Unmistakable(fs), NEW i \in F,
                      Mark(fs, i - 1) >= last + MaxFrame, Mark(fs, i - 1) < o + z
               PROVE  \E m \in 1 .. w + 1 : At(g, m) = At(fs, i)
    BY <1>8 DEF Skipped
  <2>1. Mark(fs, i - 1) \in Nat /\ Mark(fs, i) \in Nat /\ Mark(fs, i - 1) < Mark(fs, i)
    BY <1>1, FrameMarks
  <2>2. CASE Mark(fs, i - 1) < o
    <3>1. PICK m \in 1 .. w : At(h, m) = At(fs, i)
      BY <1>2, <2>2 DEF Skipped, w
    <3>2. m \in 1 .. w + 1
      BY <1>1
    <3> QED
      BY <1>8, <3>1, <3>2
  <2>3. CASE o <= Mark(fs, i - 1)
    <3>1. last <= o
      BY <1>1, <1>3, <2>1
    <3>2. PICK j \in F : o = Mark(fs, j - 1) /\ Agree(b, Code(At(fs, j)))
      BY <3>1, Resumed
    <3>3. At(g, w + 1) = At(fs, j) /\ o + z = Mark(fs, j)
      BY <1>9, <3>2
    <3>4. i <= j
      BY <1>1, <3>3, MarkOrder
    <3>5. j <= i
      BY <1>1, <2>1, <2>3, <3>2, MarkOrder
    <3>6. i = j /\ w + 1 \in 1 .. w + 1
      BY <1>1, <3>4, <3>5
    <3> QED
      BY <3>3, <3>6
  <2> QED
    BY <1>1, <2>1, <2>2, <2>3
<1>14. (o + z) + Size(r) = p /\ o + z \in Nat
  BY <1>1, <1>3, <1>7 DEF d
<1>15. Reading(fs, o + z, r, g, last)
  BY <1>1, <1>7, <1>8, <1>10, <1>11, <1>12, <1>13, <1>14 DEF Reading
<1> QED
  BY <1>6, <1>15 DEF z, frame

---------------------------------------------------------------------------
(* The host's loop.                                                        *)

\* What a decoder keeps until more arrives.
Pending(b) ==
  /\ Size(b) >= 2 => 1 \in MagicAt(b)
  /\ Size(b) >= 6 => Value(At(b, 6)) <= MaxPayload /\ Size(b) < FrameSize(b)

\* What is kept back is less than a frame.
LEMMA PendingIsShort ==
  ASSUME NEW b \in Text(Symbols), Pending(b)
  PROVE  Size(b) < MaxFrame
<1>1. Size(b) \in Nat /\ (Size(b) >= 6 => Value(At(b, 6)) \in Nat)
  BY TextIs, FieldsAreNumbers
<1>2. FrameSize(b) = 7 + Value(At(b, 6))
  BY HeaderValidIs
<1> QED
  BY <1>1, <1>2, Numbers DEF Pending

\* The checksum of a frame that is heard is behind; the line of the frames heard
\* is longer by it.
LEMMA HeardLine ==
  ASSUME NEW h \in Text(WireFrames), NEW f \in WireFrames, NEW g, Adds(g, h, f)
  PROVE  /\ Size(Line(h)) \in Nat /\ Size(Code(f)) \in Nat
         /\ Size(Line(g)) = Size(Line(h)) + Size(Code(f))
<1>1. Joins(Line(g), Line(h), Code(f))
  BY LineGrows DEF Adds, Text
<1>2. Line(h) \in Text(Symbols) /\ Code(f) \in Text(Symbols)
  BY LineIs, CodeIs DEF Text
<1> QED
  BY <1>1, <1>2, JoinIs

\* The cases of a turn: nothing yet, noise, a frame refused, a frame accepted.
LEMMA TurnIs ==
  ASSUME NEW b \in Text(Symbols)
  PROVE  /\ Size(b) < 2 => Turn(b) = Wait
         /\ Size(b) >= 2 /\ MagicAt(b) = {} => Turn(b) = Discard(Size(b) - Kept(b), FALSE)
         /\ MagicAt(b) # {} /\ Min(MagicAt(b)) > 1 =>
              Turn(b) = Discard(Min(MagicAt(b)) - 1, TRUE)
         /\ 1 \in MagicAt(b) /\ Size(b) < 6 => Turn(b) = Wait
         /\ 1 \in MagicAt(b) /\ Size(b) >= 6 =>
              /\ ~HeaderValid(b) => Turn(b) = Discard(1, TRUE)
              /\ HeaderValid(b) /\ Size(b) < FrameSize(b) => Turn(b) = Wait
              /\ HeaderValid(b) /\ Size(b) >= FrameSize(b) /\ ~ChecksumMatches(b) =>
                   Turn(b) = Discard(FrameSize(b), TRUE)
              /\ HeaderValid(b) /\ Size(b) >= FrameSize(b) /\ ChecksumMatches(b) =>
                   Turn(b) = [take |-> FrameSize(b), frames |-> <<FrameIn(b)>>,
                              issue |-> 0, again |-> TRUE]
<1> DEFINE n == Size(b)
           T == MagicAt(b)
           z == FrameSize(b)
<1>1. n \in Nat /\ T \in SUBSET (1 .. n - 1)
  BY TextIs, MagicAtIs
<1>2. T # {} => Min(T) \in T /\ n >= 2
  BY <1>1, MinIs
<1>3. 1 \in T => n >= 2 /\ ~(Min(T) > 1)
  <2>1. 1 \in T => T \in SUBSET Nat /\ T # {}
    BY <1>1
  <2>2. 1 \in T => Min(T) <= 1 /\ Min(T) \in Nat
    BY <2>1, MinIs
  <2> QED
    BY <1>1, <2>2
<1>4. HeaderValid(b) /\ n >= 6 => z \in Nat /\ ~(z > MaxBuffer)
  <2>1. n >= 6 => Value(At(b, 6)) \in Nat
    BY FieldsAreNumbers
  <2> QED
    BY <2>1, HeaderValidIs, Numbers
<1>5. Turn(b) =
        CASE n < 2 -> Wait
          [] n >= 2 /\ T = {} -> Discard(n - Kept(b), FALSE)
          [] T # {} /\ Min(T) > 1 -> Discard(Min(T) - 1, TRUE)
          [] 1 \in T /\ n < 6 -> Wait
          [] 1 \in T /\ n >= 6 ->
               IF ~HeaderValid(b) \/ z > MaxBuffer THEN Discard(1, TRUE)
               ELSE IF n < z THEN Wait
               ELSE IF ~ChecksumMatches(b) THEN Discard(z, TRUE)
               ELSE [take |-> z, frames |-> <<FrameIn(b)>>, issue |-> 0, again |-> TRUE]
  BY Numbers DEF Turn, Mismatch, Size
<1> DEFINE discard == Discard(n - Kept(b), FALSE)
           before == Discard(Min(T) - 1, TRUE)
           accept == [take |-> z, frames |-> <<FrameIn(b)>>, issue |-> 0, again |-> TRUE]
           one == Discard(1, TRUE)
           whole == Discard(z, TRUE)
           wait == Wait
           min == Min(T)
           ok == HeaderValid(b)
           sum == ChecksumMatches(b)
<1> HIDE DEF n, T, z, discard, before, accept, one, whole, wait, min
<1>6. Turn(b) =
        CASE n < 2 -> wait
          [] n >= 2 /\ T = {} -> discard
          [] T # {} /\ min > 1 -> before
          [] 1 \in T /\ n < 6 -> wait
          [] 1 \in T /\ n >= 6 ->
               IF ~ok \/ z > MaxBuffer THEN one
               ELSE IF n < z THEN wait
               ELSE IF ~sum THEN whole
               ELSE accept
  BY <1>5 DEF n, T, z, discard, before, accept, one, whole, wait, min
<1>7. /\ n \in Nat /\ (T # {} => min \in T /\ n >= 2) /\ (1 \in T => n >= 2 /\ ~(min > 1))
      /\ ok /\ n >= 6 => z \in Nat /\ ~(z > MaxBuffer)
  BY <1>1, <1>2, <1>3, <1>4 DEF min, n, T, z
<1> HIDE DEF ok, sum
<1>8. n < 2 => Turn(b) = wait
  BY <1>6, <1>7
<1>9. n >= 2 /\ T = {} => Turn(b) = discard
  BY <1>6, <1>7
<1>10. T # {} /\ min > 1 => Turn(b) = before
  BY <1>6, <1>7
<1>11. 1 \in T /\ n < 6 => Turn(b) = wait
  BY <1>6, <1>7
<1>12. 1 \in T /\ n >= 6 =>
        Turn(b) = IF ~ok \/ z > MaxBuffer THEN one
                  ELSE IF n < z THEN wait
                  ELSE IF ~sum THEN whole
                  ELSE accept
  BY <1>6, <1>7
<1>13. 1 \in T /\ n >= 6 =>
         /\ ~ok => Turn(b) = one
         /\ ok /\ n < z => Turn(b) = wait
         /\ ok /\ n >= z /\ ~sum => Turn(b) = whole
         /\ ok /\ n >= z /\ sum => Turn(b) = accept
  BY <1>7, <1>12
<1> QED
  BY <1>8, <1>9, <1>10, <1>11, <1>13 DEF n, T, z, discard, before, accept, one, whole, wait, min, ok, sum

\* What a turn of the loop makes of a reading.
Turns(fs, o, b, h, last, t, q, x, e) ==
  /\ t \in 0 .. Size(b) /\ q \in Text(WireFrames) /\ x \in Nat /\ e \in BOOLEAN
  /\ Turn(b) = [take |-> t, frames |-> q, issue |-> x, again |-> e]
  /\ e => t >= 1
  /\ \A r, g : Cuts(r, b, t) /\ Joins(g, h, q) =>
       /\ Reading(fs, o + t, r, g, last)
       /\ Size(Line(g)) \in Nat /\ Size(Line(g)) + x = Size(Line(h)) + t
       /\ ~e => Pending(r)

\* A turn that only discards keeps the reading, when no frame begins there.
LEMMA DiscardTurns ==
  ASSUME NEW fs, NEW o, NEW b, NEW h, NEW last, Reading(fs, o, b, h, last),
         NEW t \in 0 .. Size(b), Barren(fs, o, t, last), NEW e \in BOOLEAN, e => t >= 1,
         Turn(b) = Discard(t, e), \A r : Cuts(r, b, t) /\ ~e => Pending(r)
  PROVE  Turns(fs, o, b, h, last, t, <<>>, t, e)
<1>1. t \in Nat /\ <<>> \in Text(WireFrames) /\ h \in Text(WireFrames)
  BY ReadingSizes, EmptyText
<1>2. Turn(b) = [take |-> t, frames |-> <<>>, issue |-> t, again |-> e]
  BY DEF Discard
<1>3. \A g : Joins(g, h, <<>>) => g = h
  BY <1>1 DEF Joins, Text
<1>4. Size(Line(h)) \in Nat
  BY <1>1, LineIs, TextIs DEF Text
<1>5. \A r : Cuts(r, b, t) => Reading(fs, o + t, r, h, last)
  BY DropReading
<1> QED
  BY <1>1, <1>2, <1>3, <1>4, <1>5 DEF Turns

\* A turn that accepts a frame keeps the reading.
LEMMA AcceptTurns ==
  ASSUME NEW fs, NEW o, NEW b, NEW h, NEW last, Reading(fs, o, b, h, last),
         1 \in MagicAt(b), HeaderValid(b), Size(b) >= 6, Size(b) >= FrameSize(b),
         ChecksumMatches(b)
  PROVE  Turns(fs, o, b, h, last, FrameSize(b), <<FrameIn(b)>>, 0, TRUE)
<1> DEFINE f == FrameIn(b)
           z == FrameSize(b)
           q == <<FrameIn(b)>>
<1>1. h \in Text(WireFrames) /\ b \in Text(Symbols) /\ Size(b) \in Nat
  BY ReadingSizes
<1>2. z \in 0 .. Size(b) /\ z >= 1
  BY <1>1, FieldsAreNumbers, HeaderValidIs
<1>3. f \in WireFrames /\ Size(Code(f)) = z
  <2> DEFINE r == SubSeq(b, FrameSize(b) + 1, Len(b))
             g == Append(h, FrameIn(b))
  <2>1. Cuts(r, b, FrameSize(b)) /\ Adds(g, h, FrameIn(b))
    BY DEF Cuts, Adds
  <2> HIDE DEF r, g
  <2> QED
    BY <2>1, AcceptReading
<1>4. \A g : Joins(g, h, q) => Adds(g, h, f)
  <2> HIDE DEF f
  <2>1. q = <<f>>
    BY DEF f
  <2>2. h \o <<f>> = Append(h, f)
    BY <1>1, <1>3 DEF Text
  <2> QED
    BY <2>1, <2>2 DEF Joins, Adds
<1>5. q \in Text(WireFrames)
  BY <1>3 DEF Text
<1>6. Turn(b) = [take |-> z, frames |-> q, issue |-> 0, again |-> TRUE]
  BY <1>1, TurnIs
<1>7. ASSUME NEW r, NEW g, Cuts(r, b, z), Joins(g, h, q)
      PROVE  /\ Reading(fs, o + z, r, g, last)
             /\ Size(Line(g)) \in Nat /\ Size(Line(g)) + 0 = Size(Line(h)) + z
  <2>1. Adds(g, h, f)
    BY <1>4, <1>7
  <2>2. Reading(fs, o + z, r, g, last)
    BY <1>7, <2>1, AcceptReading
  <2>3. Size(Line(h)) \in Nat /\ Size(Code(f)) \in Nat /\ Size(Line(g)) = Size(Line(h)) + Size(Code(f))
    BY <1>1, <1>3, <2>1, HeardLine
  <2> HIDE DEF f, z
  <2> QED
    BY <1>3, <2>2, <2>3
<1> QED
  <2> HIDE DEF f, z, q
  <2>1. Turns(fs, o, b, h, last, z, q, 0, TRUE)
    BY <1>2, <1>5, <1>6, <1>7 DEF Turns
  <2> QED
    BY <2>1 DEF z, q

\* Each turn of the host's loop keeps the reading, and takes something or leaves
\* what is pending.
LEMMA TurnReading ==
  ASSUME NEW fs, NEW o, NEW b, NEW h, NEW last, Reading(fs, o, b, h, last)
  PROVE  \E t, q, x, e : Turns(fs, o, b, h, last, t, q, x, e)
<1> DEFINE n == Size(b)
           T == MagicAt(b)
<1>1. /\ n \in Nat /\ b \in Text(Symbols) /\ MaxFrame \in Nat /\ MaxFrame >= 7
  BY ReadingSizes, Numbers
<1>2. T \in SUBSET Nat /\ \A i : i \in T <=> i \in 1 .. n - 1 /\ At(b, i) = First /\ At(b, i + 1) = Second
  BY <1>1, MagicAtIs
<1>3. ASSUME Turn(b) = Wait, Pending(b) PROVE Turns(fs, o, b, h, last, 0, <<>>, 0, FALSE)
  <2>1. 0 \in 0 .. n /\ Turn(b) = Discard(0, FALSE)
    BY <1>1, <1>3 DEF Wait
  <2>2. \A i \in T : 0 < i
    BY <1>2
  <2>3. Barren(fs, o, 0, last)
    BY <2>1, <2>2, Noise
  <2>4. \A r : Cuts(r, b, 0) => r = b
    BY <1>1, CutNone DEF Cuts
  <2> QED
    BY <1>3, <2>1, <2>3, <2>4, DiscardTurns
<1>4. CASE n < 2
  <2>1. Pending(b)
    BY <1>1, <1>4 DEF Pending
  <2> QED
    BY <1>1, <1>3, <1>4, <2>1, TurnIs
<1>5. CASE n >= 2 /\ T = {}
  <2> DEFINE t == n - Kept(b)
  <2>1. \/ Kept(b) = 1 /\ At(b, n) = First
        \/ Kept(b) = 0 /\ At(b, n) # First
    BY DEF Kept, Last, First, At, Size
  <2>2. t \in 0 .. n /\ t >= n - 1 /\ (t = n => At(b, n) # First) /\ t \in Nat
    BY <1>1, <1>5, <2>1
  <2>3. Turn(b) = Discard(t, FALSE)
    BY <1>1, <1>5, TurnIs
  <2> HIDE DEF t
  <2>4. Barren(fs, o, t, last)
    BY <1>5, <2>2, Noise
  <2>5. ASSUME NEW r, Cuts(r, b, t) PROVE Pending(r)
    <3>1. Size(r) = n - t
      BY <1>1, <2>2, <2>5, CutIs
    <3>2. ~(Size(r) >= 2) /\ ~(Size(r) >= 6)
      BY <1>1, <2>2, <3>1
    <3> QED
      BY <3>2 DEF Pending
  <2> QED
    BY <2>2, <2>3, <2>4, <2>5, DiscardTurns
<1>6. CASE T # {} /\ Min(T) > 1
  <2> DEFINE m == Min(T)
             t == m - 1
  <2>1. m \in T /\ \A i \in T : m <= i
    BY <1>2, <1>6, MinIs
  <2>2. m \in 1 .. n - 1
    BY <1>2, <2>1
  <2>3. Turn(b) = Discard(t, TRUE)
    BY <1>1, <1>6, TurnIs
  <2>4. m > 1
    BY <1>6
  <2> HIDE DEF m
  <2>5. t \in 0 .. n /\ t >= 1 /\ t # n /\ \A i \in T : t < i
    BY <1>1, <1>2, <2>1, <2>2, <2>4
  <2> HIDE DEF t
  <2>6. Barren(fs, o, t, last)
    BY <2>5, Noise
  <2> QED
    BY <2>3, <2>5, <2>6, DiscardTurns
<1>7. CASE 1 \in T /\ n < 6
  <2>1. Pending(b)
    BY <1>1, <1>7 DEF Pending
  <2> QED
    BY <1>1, <1>3, <1>7, <2>1, TurnIs
<1>8. ASSUME 1 \in T, n >= 6, NEW t \in 1 .. n, t <= MaxFrame, Turn(b) = Discard(t, TRUE),
             HeaderValid(b) => n >= FrameSize(b) /\ ~ChecksumMatches(b)
      PROVE  Turns(fs, o, b, h, last, t, <<>>, t, TRUE)
  <2>1. t \in 0 .. n /\ t >= 1
    BY <1>1
  <2>2. Barren(fs, o, t, last)
    BY <1>8, RefuseReading
  <2> QED
    BY <1>8, <2>1, <2>2, DiscardTurns
<1>9. CASE 1 \in T /\ n >= 6 /\ ~HeaderValid(b)
  <2>1. 1 \in 1 .. n /\ 1 <= MaxFrame
    BY <1>1, <1>9
  <2> QED
    BY <1>1, <1>8, <1>9, <2>1, TurnIs
<1>10. n >= 6 /\ HeaderValid(b) =>
         FrameSize(b) \in Nat /\ FrameSize(b) >= 7 /\ FrameSize(b) <= MaxFrame /\ Value(At(b, 6)) <= MaxPayload
  BY <1>1, FieldsAreNumbers, HeaderValidIs, Numbers
<1>11. CASE 1 \in T /\ n >= 6 /\ HeaderValid(b) /\ n < FrameSize(b)
  <2>1. Pending(b)
    BY <1>1, <1>10, <1>11 DEF Pending
  <2> QED
    BY <1>1, <1>3, <1>11, <2>1, TurnIs
<1>12. CASE 1 \in T /\ n >= 6 /\ HeaderValid(b) /\ n >= FrameSize(b) /\ ~ChecksumMatches(b)
  <2>1. FrameSize(b) \in 1 .. n /\ FrameSize(b) <= MaxFrame
    BY <1>1, <1>10, <1>12
  <2> QED
    BY <1>1, <1>8, <1>12, <2>1, TurnIs
<1>13. CASE 1 \in T /\ n >= 6 /\ HeaderValid(b) /\ n >= FrameSize(b) /\ ChecksumMatches(b)
  BY <1>1, <1>13, AcceptTurns
<1>14. T # {} /\ ~(Min(T) > 1) => 1 \in T
  <2>1. T # {} => Min(T) \in T
    BY <1>2, MinIs
  <2>2. T # {} => Min(T) \in 1 .. n - 1
    BY <1>2, <2>1
  <2>3. T # {} /\ ~(Min(T) > 1) => Min(T) = 1
    BY <1>1, <2>2
  <2> QED
    BY <2>1, <2>3
<1> QED
  BY <1>1, <1>4, <1>5, <1>6, <1>7, <1>9, <1>10, <1>11, <1>12, <1>13, <1>14

\* The loop as a sequence of turns.
LEMMA DecodeIs ==
  ASSUME NEW b, Size(b) \in Nat
  PROVE  \E after : /\ after[0] = Unread(b)
                    /\ \A n \in 1 .. Size(b) : after[n] = AfterTurn(after[n - 1])
                    /\ DecodeBuffer(b) = after[Size(b)]
<1> DEFINE Step(f, n) == IF n = 0 THEN Unread(b) ELSE AfterTurn(f[n - 1])
           T == {m \in Nat : \E f : f = [n \in 0 .. m |-> Step(f, n)]}
<1>1. 0 \in T
  <2> DEFINE f == [n \in 0 .. 0 |-> Unread(b)]
  <2>1. f = [n \in 0 .. 0 |-> Step(f, n)]
    OBVIOUS
  <2> QED
    BY <2>1
<1>2. ASSUME NEW m \in T PROVE m + 1 \in T
  <2>1. PICK f : f = [n \in 0 .. m |-> Step(f, n)]
    OBVIOUS
  <2> DEFINE g == [n \in 0 .. m + 1 |-> IF n = m + 1 THEN Step(f, n) ELSE f[n]]
  <2>2. ASSUME NEW n \in 0 .. m + 1 PROVE g[n] = Step(g, n)
    <3>1. m \in Nat /\ n \in Nat
      OBVIOUS
    <3>2. n # 0 => n - 1 \in 0 .. m /\ n - 1 # m + 1 /\ g[n - 1] = f[n - 1]
      BY <3>1
    <3>3. Step(g, n) = Step(f, n)
      BY <3>2
    <3>4. n # m + 1 => n \in 0 .. m /\ f[n] = Step(f, n)
      BY <2>1, <3>1
    <3> HIDE DEF Step
    <3> QED
      BY <3>3, <3>4
  <2> HIDE DEF Step
  <2>3. g = [n \in 0 .. m + 1 |-> Step(g, n)]
    <3>1. g = [n \in 0 .. m + 1 |-> g[n]]
      OBVIOUS
    <3> HIDE DEF g
    <3>2. [n \in 0 .. m + 1 |-> g[n]] = [n \in 0 .. m + 1 |-> Step(g, n)]
      BY <2>2
    <3> QED
      BY <3>1, <3>2
  <2> HIDE DEF g
  <2> QED
    BY <2>3
<1>3. T = Nat
  <2> HIDE DEF T
  <2>1. T \subseteq Nat
    BY DEF T
  <2> QED
    BY <1>1, <1>2, <2>1, EveryNumber
<1>4. \E f : f = [n \in 0 .. Size(b) |-> Step(f, n)]
  BY <1>3
<1> DEFINE after == CHOOSE f : f = [n \in 0 .. Size(b) |-> Step(f, n)]
<1>5. after = [n \in 0 .. Size(b) |-> Step(after, n)]
  BY <1>4
<1>6. DecodeBuffer(b) = after[Size(b)]
  BY DEF DecodeBuffer, Size
<1> HIDE DEF after, Step
<1>7. \A n \in 0 .. Size(b) : after[n] = Step(after, n)
  BY <1>5
<1>8. after[0] = Unread(b) /\ \A n \in 1 .. Size(b) : after[n] = AfterTurn(after[n - 1])
  BY <1>7 DEF Step
<1> QED
  BY <1>6, <1>8

\* What the loop has made of the reading of c, whose symbols end at place p of the
\* line, and of which the frames in h were heard before.
Decoded(fs, p, h, last, total, batch) ==
  \E o, r, g, q, x, e :
    /\ batch = [rest |-> r, frames |-> q, discarded |-> x, again |-> e]
    /\ q \in Text(WireFrames) /\ x \in Nat /\ e \in BOOLEAN
    /\ Reading(fs, o, r, g, last) /\ o + Size(r) = p /\ Joins(g, h, q)
    /\ Size(Line(g)) \in Nat /\ Size(Line(g)) + Size(r) + x = total
    /\ ~e => Pending(r)

LEMMA JoinsTogether ==
  ASSUME NEW S, NEW a \in Text(S), NEW b \in Text(S), NEW c \in Text(S),
         NEW ab, Joins(ab, a, b), NEW bc, Joins(bc, b, c), NEW abc, Joins(abc, ab, c)
  PROVE  Joins(abc, a, bc) /\ bc \in Text(S)
  BY ConcatAssociative DEF Joins, Text

\* A turn more of the loop keeps Decoded.
LEMMA DecodeTurn ==
  ASSUME NEW fs, NEW p, NEW h \in Text(WireFrames), NEW last, NEW total \in Nat, NEW batch,
         Decoded(fs, p, h, last, total, batch)
  PROVE  /\ Decoded(fs, p, h, last, total, AfterTurn(batch))
         /\ Size(batch.rest) \in Nat /\ Size(AfterTurn(batch).rest) <= Size(batch.rest)
         /\ AfterTurn(batch).again =>
              batch.again /\ Size(AfterTurn(batch).rest) < Size(batch.rest)
<1>1. PICK o, r, g, q, x, e :
        /\ batch = [rest |-> r, frames |-> q, discarded |-> x, again |-> e]
        /\ q \in Text(WireFrames) /\ x \in Nat /\ e \in BOOLEAN
        /\ Reading(fs, o, r, g, last) /\ o + Size(r) = p /\ Joins(g, h, q)
        /\ Size(Line(g)) \in Nat /\ Size(Line(g)) + Size(r) + x = total
        /\ ~e => Pending(r)
  BY DEF Decoded
<1>2. batch.rest = r /\ batch.frames = q /\ batch.discarded = x /\ batch.again = e
  BY <1>1
<1>3. Size(r) \in Nat /\ o \in Nat /\ g \in Text(WireFrames) /\ r \in Text(Symbols)
  BY <1>1, ReadingSizes
<1>4. CASE ~e
  <2>1. AfterTurn(batch) = batch
    BY <1>2, <1>4 DEF AfterTurn
  <2> QED
    BY <1>2, <1>3, <1>4, <2>1
<1>5. CASE e
  <2>1. PICK t, k, y, a : Turns(fs, o, r, g, last, t, k, y, a)
    BY <1>1, TurnReading
  <2>2. /\ t \in 0 .. Size(r) /\ k \in Text(WireFrames) /\ y \in Nat /\ a \in BOOLEAN /\ t \in Nat
        /\ Turn(r) = [take |-> t, frames |-> k, issue |-> y, again |-> a]
        /\ a => t >= 1
    BY <2>1 DEF Turns
  <2> DEFINE s == SubSeq(r, t + 1, Len(r))
             u == q \o k
             w == g \o k
  <2>3. AfterTurn(batch) = [rest |-> s, frames |-> u, discarded |-> x + y, again |-> a]
    <3>1. /\ Turn(r).take = t /\ Turn(r).frames = k /\ Turn(r).issue = y /\ Turn(r).again = a
      BY <2>2
    <3> QED
      BY <1>2, <1>5, <3>1 DEF AfterTurn
  <2>4. Cuts(s, r, t) /\ Joins(w, g, k) /\ Joins(u, q, k)
    BY DEF Cuts, Joins
  <2> HIDE DEF s, u, w
  <2>5. /\ Reading(fs, o + t, s, w, last)
        /\ Size(Line(w)) \in Nat /\ Size(Line(w)) + y = Size(Line(g)) + t
        /\ ~a => Pending(s)
    BY <2>1, <2>4 DEF Turns
  <2>6. Joins(w, h, u) /\ u \in Text(WireFrames)
    BY <1>1, <2>2, <2>4, JoinsTogether
  <2>7. Size(s) = Size(r) - t
    BY <1>3, <2>2, <2>4, CutIs
  <2>8. /\ (o + t) + Size(s) = p /\ x + y \in Nat
        /\ Size(Line(w)) + Size(s) + (x + y) = total
    BY <1>1, <1>3, <2>2, <2>5, <2>7
  <2>9. Decoded(fs, p, h, last, total, AfterTurn(batch))
    BY <2>2, <2>3, <2>5, <2>6, <2>8 DEF Decoded
  <2>10. AfterTurn(batch).rest = s /\ AfterTurn(batch).again = a
    BY <2>3
  <2>11. Size(s) <= Size(r) /\ (a => Size(s) < Size(r))
    BY <1>3, <2>2, <2>7
  <2> QED
    BY <1>2, <1>3, <1>5, <2>9, <2>10, <2>11
<1> QED
  BY <1>1, <1>4, <1>5

\* The loop ends within as many turns as there are symbols, with a reading in which
\* only an unfinished frame is left.
LEMMA DecodeReading ==
  ASSUME NEW fs, NEW o, NEW b, NEW h, NEW last, Reading(fs, o, b, h, last)
  PROVE  \E r, g, q, x :
           /\ DecodeBuffer(b).rest = r /\ DecodeBuffer(b).frames = q
           /\ DecodeBuffer(b).discarded = x
           /\ Size(r) \in Nat /\ Size(r) <= Size(b) /\ x \in Nat /\ Joins(g, h, q)
           /\ Reading(fs, (o + Size(b)) - Size(r), r, g, last) /\ Pending(r)
           /\ Size(Line(g)) \in Nat /\ Size(Line(h)) \in Nat
           /\ Size(Line(g)) + Size(r) + x = Size(Line(h)) + Size(b)
<1> DEFINE N == Size(b)
           p == o + N
           total == Size(Line(h)) + N
<1>1. N \in Nat /\ o \in Nat /\ h \in Text(WireFrames) /\ b \in Text(Symbols) /\ Size(Line(h)) \in Nat
  BY ReadingSizes, LineIs, TextIs DEF Text
<1>2. PICK after : /\ after[0] = Unread(b)
                   /\ \A n \in 1 .. N : after[n] = AfterTurn(after[n - 1])
                   /\ DecodeBuffer(b) = after[N]
  BY <1>1, DecodeIs
<1>3. total \in Nat /\ p \in Nat
  BY <1>1
<1> DEFINE D(batch) == Decoded(fs, p, h, last, total, batch)
           T == {n \in Nat : n <= N => /\ D(after[n]) /\ Size(after[n].rest) \in 0 .. N
                                       /\ after[n].again => Size(after[n].rest) + n <= N}
<1>4. 0 \in T
  <2>1. Unread(b) = [rest |-> b, frames |-> <<>>, discarded |-> 0, again |-> TRUE]
    BY DEF Unread
  <2>2. Joins(h, h, <<>>) /\ <<>> \in Text(WireFrames)
    BY <1>1, EmptyText DEF Joins, Text
  <2>3. o + Size(b) = p /\ Size(Line(h)) + Size(b) + 0 = total
    BY <1>1
  <2> HIDE DEF p, total
  <2>4. D(Unread(b))
    BY <1>1, <2>1, <2>2, <2>3 DEF Decoded
  <2>5. Unread(b).rest = b
    BY <2>1
  <2> HIDE DEF D
  <2> QED
    BY <1>1, <1>2, <2>4, <2>5
<1>5. ASSUME NEW n \in T PROVE n + 1 \in T
  <2> SUFFICES ASSUME n + 1 <= N
               PROVE  /\ D(after[n + 1]) /\ Size(after[n + 1].rest) \in 0 .. N
                      /\ after[n + 1].again => Size(after[n + 1].rest) + (n + 1) <= N
    OBVIOUS
  <2> DEFINE batch == after[n]
             next == AfterTurn(batch)
  <2>1. n \in Nat /\ n <= N /\ n + 1 \in 1 .. N /\ (n + 1) - 1 = n
    BY <1>1
  <2>2. /\ D(batch) /\ Size(batch.rest) \in 0 .. N
        /\ batch.again => Size(batch.rest) + n <= N
    BY <2>1
  <2>3. after[n + 1] = next
    BY <1>2, <2>1
  <2> HIDE DEF p, total, batch, next
  <2>4. D(next) /\ (next.again => batch.again /\ Size(next.rest) < Size(batch.rest))
    BY <1>1, <1>3, <2>2, DecodeTurn DEF next
  <2>7. Size(next.rest) \in Nat
    BY <1>1, <1>3, <2>4, DecodeTurn
  <2>8. Size(next.rest) <= Size(batch.rest)
    BY <1>1, <1>3, <2>2, DecodeTurn DEF next
  <2>5. Size(next.rest) \in 0 .. N
    BY <1>1, <2>2, <2>7, <2>8
  <2> HIDE DEF D
  <2>6. next.again => Size(next.rest) + (n + 1) <= N
    BY <1>1, <2>1, <2>2, <2>4, <2>5
  <2> QED
    BY <2>3, <2>4, <2>5, <2>6
<1>6. T = Nat
  <2> HIDE DEF T
  <2>1. T \subseteq Nat
    BY DEF T
  <2> QED
    BY <1>4, <1>5, <2>1, EveryNumber
<1>7. /\ D(DecodeBuffer(b)) /\ Size(DecodeBuffer(b).rest) \in 0 .. N
      /\ DecodeBuffer(b).again => Size(DecodeBuffer(b).rest) + N <= N
  <2>1. N \in T /\ N <= N
    BY <1>1, <1>6
  <2> HIDE DEF D, N
  <2> QED
    BY <1>2, <2>1
<1> HIDE DEF T
<1> DEFINE batch == DecodeBuffer(b)
<1>8. PICK i, r, g, q, x, e :
        /\ batch = [rest |-> r, frames |-> q, discarded |-> x, again |-> e]
        /\ q \in Text(WireFrames) /\ x \in Nat /\ e \in BOOLEAN
        /\ Reading(fs, i, r, g, last) /\ i + Size(r) = p /\ Joins(g, h, q)
        /\ Size(Line(g)) \in Nat /\ Size(Line(g)) + Size(r) + x = total
        /\ ~e => Pending(r)
  BY <1>7 DEF Decoded
<1> HIDE DEF batch, D
<1>9. batch.rest = r /\ batch.frames = q /\ batch.discarded = x /\ batch.again = e
  BY <1>8
<1>10. Size(r) \in Nat /\ i \in Nat
  BY <1>8, ReadingSizes
<1>11. Pending(r)
  <2>1. CASE e
    <3>1. Size(r) + N <= N
      BY <1>7, <1>9, <2>1 DEF batch
    <3>2. ~(Size(r) >= 2) /\ ~(Size(r) >= 6)
      BY <1>1, <1>10, <3>1
    <3> QED
      BY <3>2 DEF Pending
  <2> QED
    BY <1>8, <2>1
<1>12. i = (o + N) - Size(r)
  BY <1>1, <1>8, <1>10
<1>13. Size(r) <= N
  BY <1>1, <1>7, <1>9 DEF batch
<1> QED
  BY <1>1, <1>8, <1>9, <1>10, <1>11, <1>12, <1>13 DEF batch

---------------------------------------------------------------------------
(* What the environment does to a reading.                                 *)

\* The buffer is lost, and perhaps symbols with it.
LEMMA RestartReading ==
  ASSUME NEW fs, NEW o, NEW b, NEW h, NEW last, Reading(fs, o, b, h, last),
         NEW q \in Nat, q > 0, o + Size(b) <= q, q <= Size(Line(fs))
  PROVE  Reading(fs, q, <<>>, h, q)
<1> DEFINE p == o + Size(b)
           none == <<>>
<1>1. /\ Size(b) \in Nat /\ o \in Nat /\ OnLine(fs) /\ h \in Text(WireFrames) /\ p \in Nat
      /\ none \in Text(Symbols) /\ Size(none) = 0 /\ MaxFrame \in Nat
  BY ReadingSizes, EmptyText, Numbers
<1>2. Hearing(fs, p, b, h)
  BY DEF Reading
<1> HIDE DEF p, none
<1>3. \A i : i \notin 1 .. Size(none)
  BY <1>1
<1>4. \A k \in 1 .. Size(fs) : Mark(fs, k) \in Nat /\ Mark(fs, k - 1) \in Nat
  BY <1>1, FrameMarks
<1>5. Hearing(fs, q, none, h)
  <2>1. \A k \in 1 .. Size(fs) : Mark(fs, k) <= p => Mark(fs, k) <= q
    BY <1>1, <1>4 DEF p
  <2> QED
    BY <1>2, <1>3, <2>1 DEF Hearing
<1>6. Skipped(fs, q, h, q)
  BY <1>1, <1>4 DEF Skipped
<1>7. q + Size(none) = q
  BY <1>1
<1> QED
  BY <1>1, <1>3, <1>5, <1>6, <1>7 DEF Reading, Checks, Clean, Prompt, none

\* A symbol is lost behind what is unread.
LEMMA LoseReading ==
  ASSUME NEW fs, NEW o, NEW b, NEW h, NEW last, Reading(fs, o, b, h, last),
         o + Size(b) + 1 <= Size(Line(fs))
  PROVE  Reading(fs, o + 1, b, h, o + Size(b) + 1)
<1> DEFINE n == Size(b)
           p == o + n
           q == p + 1
<1>1. /\ n \in Nat /\ o \in Nat /\ OnLine(fs) /\ h \in Text(WireFrames) /\ b \in Text(Symbols)
      /\ MaxFrame \in Nat /\ p \in Nat
  BY ReadingSizes, Numbers
<1>2. Checks(fs, p, b) /\ Hearing(fs, p, b, h)
  BY DEF Reading
<1>3. \A k \in 1 .. Size(fs) : Mark(fs, k) \in Nat /\ Mark(fs, k - 1) \in Nat
  BY <1>1, FrameMarks
<1> HIDE DEF n, p
<1>4. q \in Nat /\ q > 0 /\ (o + 1) + n = q /\ \A i \in 1 .. n : ~((o + 1) + i > q)
  BY <1>1 DEF p
<1>5. \A k \in 1 .. Size(fs) : Mark(fs, k) <= p => Mark(fs, k) <= q
  BY <1>1, <1>3
<1>6. Checks(fs, q, b) /\ Hearing(fs, q, b, h)
  <2> HIDE DEF q
  <2> QED
    BY <1>2, <1>5 DEF Checks, Hearing
<1>7. Skipped(fs, o + 1, h, q)
  BY <1>1, <1>3, <1>4 DEF Skipped, p
<1>8. Clean(fs, o + 1, b, q) /\ Prompt(fs, o + 1, h, q)
  <2> HIDE DEF q
  <2> QED
    BY <1>4 DEF Clean, Prompt, n
<1>9. Reading(fs, o + 1, b, h, q)
  <2>1. (o + 1) + Size(b) = q /\ q <= Size(Line(fs)) /\ o + 1 \in Nat
    BY <1>1, <1>4 DEF n, p
  <2> HIDE DEF q
  <2> QED
    BY <1>1, <1>4, <1>6, <1>7, <1>8, <2>1 DEF Reading
<1> QED
  BY <1>9 DEF n, p

\* A frame is added to the line; what was there stays where it was.
LEMMA LineExtends ==
  ASSUME NEW fs, OnLine(fs), NEW f, Sendable(f), f.sequence = Size(fs), NEW gs, Adds(gs, fs, f)
  PROVE  /\ OnLine(gs) /\ Size(gs) = Size(fs) + 1
         /\ \A k \in 1 .. Size(fs) : At(gs, k) = At(fs, k)
         /\ \A k \in 0 .. Size(fs) : Mark(gs, k) = Mark(fs, k)
         /\ Size(Line(fs)) <= Size(Line(gs))
         /\ \A i \in 1 .. Size(Line(fs)) : At(Line(gs), i) = At(Line(fs), i)
<1>1. fs \in Text(WireFrames) /\ f \in WireFrames /\ Size(fs) \in Nat
  BY TrackIs DEF OnLine, Sendable
<1>2. /\ gs \in Text(WireFrames) /\ Size(gs) = Size(fs) + 1
      /\ \A k \in 1 .. Size(fs) : At(gs, k) = At(fs, k)
      /\ At(gs, Size(fs) + 1) = f
  BY <1>1, AddIs
<1>3. OnLine(gs)
  <2> SUFFICES ASSUME NEW k \in 1 .. Size(gs)
               PROVE  Sendable(At(gs, k)) /\ At(gs, k).sequence = k - 1
    BY <1>2 DEF OnLine
  <2>1. CASE k \in 1 .. Size(fs)
    BY <1>2, <2>1 DEF OnLine
  <2>2. CASE k \notin 1 .. Size(fs)
    <3>1. k = Size(fs) + 1 /\ k - 1 = Size(fs)
      BY <1>1, <1>2, <2>2
    <3> QED
      BY <1>2, <3>1
  <2> QED
    BY <2>1, <2>2
<1>4. \A k \in 0 .. Size(fs) : Mark(gs, k) = Mark(fs, k)
  <2> TAKE k \in 0 .. Size(fs)
  <2>1. SubSeq(gs, 1, k) = SubSeq(fs, 1, k)
    <3>1. gs = Append(fs, f) /\ fs \in Seq(WireFrames) /\ f \in WireFrames /\ k \in 0 .. Len(fs)
      BY <1>1 DEF Adds, Text, Size
    <3> QED
      BY <3>1
  <2> QED
    BY <2>1 DEF Mark
<1>5. Joins(Line(gs), Line(fs), Code(f))
  BY <1>1, LineGrows DEF Adds, Text
<1>6. Line(fs) \in Text(Symbols) /\ Code(f) \in Text(Symbols)
  BY <1>1, TrackIs, CodeIs
<1> DEFINE old == Line(fs)
           new == Line(gs)
           code == Code(f)
<1> HIDE DEF old, new, code
<1>7. /\ Size(old) \in Nat /\ Size(code) \in Nat /\ Size(new) = Size(old) + Size(code)
      /\ \A i \in 1 .. Size(old) : At(new, i) = At(old, i)
  BY <1>5, <1>6, JoinIs DEF old, new, code
<1>8. Size(old) <= Size(new)
  BY <1>7
<1> QED
  BY <1>2, <1>3, <1>4, <1>7, <1>8 DEF old, new

\* A frame that is sent keeps the reading.
LEMMA SendReading ==
  ASSUME NEW fs, NEW o, NEW b, NEW h, NEW last, Reading(fs, o, b, h, last),
         NEW f, Sendable(f), f.sequence = Size(fs), NEW gs, Adds(gs, fs, f)
  PROVE  Reading(gs, o, b, h, last) /\ Size(Line(fs)) <= Size(Line(gs))
<1> DEFINE n == Size(b)
           p == o + n
           w == Size(fs)
           F == 1 .. w
           G == 1 .. w + 1
           M(k) == Mark(fs, k)
           L(k) == Mark(gs, k)
           old == Line(fs)
           new == Line(gs)
<1>1. /\ n \in Nat /\ w \in Nat /\ Size(old) \in Nat /\ o \in Nat /\ last \in Nat /\ OnLine(fs)
      /\ b \in Text(Symbols) /\ h \in Text(WireFrames) /\ p <= Size(old) /\ MaxFrame \in Nat
      /\ p \in Nat /\ Size(h) \in Nat
  BY ReadingSizes, Numbers
<1>2. /\ OnLine(gs) /\ Size(gs) = w + 1
      /\ \A k \in F : At(gs, k) = At(fs, k)
      /\ \A k \in 0 .. w : L(k) = M(k)
      /\ Size(old) <= Size(new)
      /\ \A i \in 1 .. Size(old) : At(new, i) = At(old, i)
  BY <1>1, LineExtends
<1>3. /\ Checks(fs, p, b) /\ Hearing(fs, p, b, h) /\ Clean(fs, o, b, last)
      /\ Prompt(fs, o, h, last) /\ Skipped(fs, o, h, last)
  BY DEF Reading
<1>4. M(w) = Size(old)
  BY <1>1, TrackIs
<1>5. Size(new) \in Nat
  BY <1>2, TrackIs
<1> DEFINE C(k) == Check(At(gs, k))
<1>6. /\ \A j, k \in G : C(j) = C(k) => j = k
      /\ \A k \in G : C(k) \notin Plain
  BY <1>2, CheckUnique, Checksums DEF Check
<1>7. \A k \in F : C(k) = Check(At(fs, k)) /\ M(k) = L(k) /\ k \in G /\ k \in 0 .. w
  BY <1>1, <1>2
\* Each checksum that is unread is of an old frame.
<1>8. ASSUME NEW i \in 1 .. n, NEW k \in G, At(b, i) = C(k)
      PROVE  k \in F
  <2>1. PICK j \in F : At(b, i) = Check(At(fs, j))
    BY <1>3, <1>6, <1>8 DEF Checks
  <2> QED
    BY <1>6, <1>7, <1>8, <2>1
<1> HIDE DEF n, p, w, F, G, M, L, old, new, C
<1>9. Checks(gs, p, b)
  <2>1. ASSUME NEW i \in 1 .. n PROVE At(b, i) \in Plain \/ \E k \in G : L(k) <= p /\ At(b, i) = C(k)
    BY <1>3, <1>7 DEF Checks, n, F, M, w
  <2>2. ASSUME NEW i \in 1 .. n, NEW j \in 1 .. n, i < j, NEW k \in G, NEW l \in G,
               At(b, i) = C(k), At(b, j) = C(l)
        PROVE  k < l
    <3>1. k \in F /\ l \in F
      BY <1>8, <2>2
    <3> QED
      BY <1>3, <1>7, <2>2, <3>1 DEF Checks, n, F, w
  <2> QED
    BY <1>2, <2>1, <2>2 DEF Checks, n, C, G, L
<1>10. Hearing(gs, p, b, h)
  <2>1. ASSUME NEW m \in 1 .. Size(h)
        PROVE  \E k \in G : /\ At(h, m) = At(gs, k) /\ L(k) <= p
                            /\ \A i \in 1 .. n, l \in G : At(b, i) = C(l) => k < l
    <3>1. PICK k \in F : /\ At(h, m) = At(fs, k) /\ M(k) <= p
                         /\ \A i \in 1 .. n, l \in F : At(b, i) = Check(At(fs, l)) => k < l
      BY <1>3 DEF Hearing, n, F, M, w
    <3>2. At(h, m) = At(gs, k) /\ L(k) <= p /\ k \in G
      BY <1>2, <1>7, <3>1
    <3>3. ASSUME NEW i \in 1 .. n, NEW l \in G, At(b, i) = C(l) PROVE k < l
      <4>1. l \in F
        BY <1>8, <3>3
      <4> QED
        BY <1>7, <3>1, <3>3, <4>1
    <3> QED
      BY <3>2, <3>3
  <2> QED
    BY <1>2, <1>3, <2>1 DEF Hearing, n, C, G, L
<1>11. Clean(gs, o, b, last)
  <2> SUFFICES ASSUME NEW i \in 1 .. n, o + i > last PROVE At(b, i) = At(new, o + i)
    BY DEF Clean, n, new
  <2>1. o + i \in 1 .. Size(old)
    BY <1>1 DEF p
  <2> QED
    BY <1>2, <1>3, <2>1 DEF Clean, n, old
<1>12. Prompt(gs, o, h, last)
  <2> SUFFICES ASSUME last = 0
               PROVE  /\ Size(h) <= w + 1 /\ o = L(Size(h))
                      /\ \A k \in 1 .. Size(h) : At(h, k) = At(gs, k)
    BY <1>2 DEF Prompt, L
  <2>1. /\ Size(h) <= w /\ o = M(Size(h))
        /\ \A k \in 1 .. Size(h) : At(h, k) = At(fs, k)
    BY <1>3 DEF Prompt, w, M
  <2>2. Size(h) \in 0 .. w /\ \A k \in 1 .. Size(h) : k \in F
    BY <1>1, <2>1 DEF F
  <2> QED
    BY <1>1, <1>2, <2>1, <2>2
<1>13. Skipped(gs, o, h, last)
  <2> SUFFICES ASSUME last > 0, Unmistakable(gs), NEW k \in G,
                      L(k - 1) >= last + MaxFrame, L(k - 1) < o
               PROVE  \E m \in 1 .. Size(h) : At(h, m) = At(gs, k)
    BY <1>2 DEF Skipped, G, L
  <2>1. Unmistakable(fs)
    BY <1>2, <1>7 DEF Unmistakable, F, G, w
  <2>2. k - 1 \in 0 .. w
    BY <1>1 DEF G
  <2>3. L(k - 1) = M(k - 1) /\ o <= M(w)
    BY <1>1, <1>2, <1>4, <2>2 DEF p
  <2>4. M(k - 1) \in Nat
    BY <1>1, <2>2, TrackIs DEF M, w
  <2>5. k \in F
    <3>1. k # w + 1
      <4> SUFFICES ASSUME k = w + 1 PROVE FALSE
        OBVIOUS
      <4>1. k - 1 = w
        BY <1>1
      <4> QED
        BY <1>1, <2>3, <2>4, <4>1
    <3> QED
      BY <1>1, <3>1 DEF F, G
  <2> QED
    BY <1>2, <1>3, <2>1, <2>3, <2>5 DEF Skipped, F, M, w
<1>14. o + Size(b) <= Size(new)
  BY <1>1, <1>2, <1>5 DEF p, n
<1> QED
  BY <1>1, <1>2, <1>9, <1>10, <1>11, <1>12, <1>13, <1>14 DEF Reading, p, n, new, old

---------------------------------------------------------------------------
(* The robot's decoder.                                                    *)

\* The cases of the robot's decoder.
LEMMA IngestIs ==
  ASSUME NEW b \in Text(Symbols), NEW value \in Symbols, NEW c, Adds(c, b, value)
  PROVE  /\ Size(b) = 0 /\ value # First => IngestByte(b, value) = Unfinished(<<>>)
         /\ Size(b) = 1 /\ value # Second /\ value = First =>
              IngestByte(b, value) = Unfinished(<<value>>)
         /\ Size(b) = 1 /\ value # Second /\ value # First =>
              IngestByte(b, value) = Unfinished(<<>>)
         /\ /\ Size(b) < MaxFrame
            /\ Size(b) = 0 => value = First
            /\ Size(b) = 1 => value = Second
            =>
            /\ Size(c) = 6 /\ Value(At(c, 6)) > MaxPayload =>
                 IngestByte(b, value) = Unfinished(<<>>)
            /\ Size(c) > 6 /\ Size(c) = FrameSize(c) => IngestByte(b, value) = Complete(c)
            /\ /\ ~(Size(c) = 6 /\ Value(At(c, 6)) > MaxPayload)
               /\ ~(Size(c) > 6 /\ Size(c) = FrameSize(c))
               => IngestByte(b, value) = Unfinished(c)
<1> DEFINE n == Size(b)
           d == Size(c)
           none == Unfinished(<<>>)
           again == Unfinished(IF value = First THEN <<value>> ELSE <<>>)
           wait == Unfinished(c)
           done == Complete(c)
           long == d = 6 /\ Value(At(c, 6)) > MaxPayload
           full == d > 6 /\ d = FrameSize(c)
           I == IngestByte(b, value)
<1>1. n \in Nat /\ d = n + 1 /\ MaxFrame \in Nat /\ MaxFrame >= 7 /\ (b = <<>> <=> n = 0)
  BY AddIs, EmptyText, Numbers
<1>2. I = CASE b = <<>> /\ value # First -> none
            [] n = 1 /\ value # Second -> again
            [] n >= MaxFrame -> none
            [] OTHER -> IF long THEN none ELSE IF full THEN done ELSE wait
  BY Numbers DEF IngestByte, Adds, Size, At, First, Second
<1> HIDE DEF none, again, wait, done, long, full, I
<1>3. n = 0 /\ value # First => I = none
  BY <1>1, <1>2
<1>4. n = 1 /\ value # Second => I = again
  BY <1>1, <1>2
<1>5. n < MaxFrame /\ (n = 0 => value = First) /\ (n = 1 => value = Second) =>
        I = IF long THEN none ELSE IF full THEN done ELSE wait
  BY <1>1, <1>2
<1>6. /\ value = First => again = Unfinished(<<value>>)
      /\ value # First => again = none
  BY DEF again, none
<1> QED
  BY <1>3, <1>4, <1>5, <1>6 DEF none, wait, done, long, full, I

\* What the robot made of its buffer's symbols c: it keeps r and passes q on.
Ingested(fs, p, h, last, taken) ==
  \E r, q, g :
    /\ taken = [buffer |-> r, frames |-> q] /\ Joins(g, h, q)
    /\ Size(r) \in Nat /\ Size(r) <= p /\ Reading(fs, p - Size(r), r, g, last)
    /\ Pending(r) /\ (Size(r) >= 1 => At(r, 1) = First)

\* The robot forgets what it has.
LEMMA DropIngested ==
  ASSUME NEW fs, NEW o, NEW b, NEW h, NEW last, Reading(fs, o, b, h, last),
         NEW t \in 0 .. Size(b), Barren(fs, o, t, last), NEW r, Cuts(r, b, t),
         Pending(r), Size(r) >= 1 => At(r, 1) = First
  PROVE  Ingested(fs, o + Size(b), h, last, Unfinished(r))
<1> DEFINE none == <<>>
           p == o + Size(b)
<1>1. Size(b) \in Nat /\ o \in Nat /\ t \in Nat /\ h \in Text(WireFrames) /\ b \in Text(Symbols)
  BY ReadingSizes
<1>2. Size(r) \in Nat /\ Size(r) = Size(b) - t
  BY <1>1, CutOrder
<1>3. Reading(fs, o + t, r, h, last)
  BY DropReading
<1>4. Joins(h, h, none)
  BY <1>1 DEF Joins, Text
<1>5. Size(r) <= p /\ p - Size(r) = o + t
  BY <1>1, <1>2
<1>6. Unfinished(r) = [buffer |-> r, frames |-> none]
  BY DEF Unfinished
<1> HIDE DEF none, p
<1>7. Ingested(fs, p, h, last, Unfinished(r))
  BY <1>2, <1>3, <1>4, <1>5, <1>6 DEF Ingested
<1> QED
  BY <1>7 DEF p

\* What is left behind the last symbol is nothing.
LEMMA EmptyCut ==
  ASSUME NEW b \in Text(Symbols)
  PROVE  /\ Cuts(<<>>, b, Size(b)) /\ Size(b) \in 0 .. Size(b) /\ Size(<<>>) = 0 /\ Pending(<<>>)
<1> DEFINE r == SubSeq(b, Size(b) + 1, Len(b))
<1>1. Size(b) \in Nat /\ Cuts(r, b, Size(b))
  BY TextIs DEF Cuts
<1>2. Size(b) \in 0 .. Size(b)
  BY <1>1
<1>3. r \in Text(Symbols) /\ Size(r) = 0
  <2> HIDE DEF r
  <2>1. r \in Text(Symbols) /\ Size(r) = Size(b) - Size(b)
    BY <1>1, <1>2, CutIs
  <2> QED
    BY <1>1, <2>1
<1>4. r = <<>>
  <2> HIDE DEF r
  <2> QED
    BY <1>3, EmptyText
<1>5. Size(<<>>) = 0
  BY EmptyText
<1>6. Pending(<<>>)
  BY <1>5 DEF Pending
<1> HIDE DEF r
<1> QED
  BY <1>1, <1>2, <1>4, <1>5, <1>6

\* A symbol keeps the robot's reading.
LEMMA IngestReading ==
  ASSUME NEW fs, NEW o, NEW c, NEW h, NEW last, Reading(fs, o, c, h, last),
         NEW b \in Text(Symbols), NEW value \in Symbols, Adds(c, b, value),
         Pending(b), Size(b) >= 1 => At(b, 1) = First
  PROVE  Ingested(fs, o + Size(c), h, last, IngestByte(b, value))
<1> DEFINE n == Size(b)
           d == Size(c)
           p == o + d
           I == IngestByte(b, value)
           none == <<>>
<1>1. /\ n \in Nat /\ d = n + 1 /\ o \in Nat /\ h \in Text(WireFrames) /\ c \in Text(Symbols)
      /\ d \in Nat
      /\ \A i \in 1 .. n : At(c, i) = At(b, i)
      /\ At(c, n + 1) = value
      /\ MaxFrame \in Nat /\ MaxFrame >= 7 /\ n < MaxFrame /\ d \in 0 .. d
  BY AddIs, ReadingSizes, Numbers, PendingIsShort
<1>2. \A i : i \in MagicAt(c) <=> i \in 1 .. d - 1 /\ At(c, i) = First /\ At(c, i + 1) = Second
  BY <1>1, MagicAtIs
<1>3. \A i : i \in MagicAt(b) <=> i \in 1 .. n - 1 /\ At(b, i) = First /\ At(b, i + 1) = Second
  BY MagicAtIs
<1>4. Cuts(none, c, d) /\ Size(none) = 0 /\ Pending(none)
  BY <1>1, EmptyCut
<1>5. ASSUME I = Unfinished(none), Barren(fs, o, d, last) PROVE Ingested(fs, p, h, last, I)
  <2>1. ~(Size(none) >= 1)
    BY <1>4
  <2> HIDE DEF none
  <2>2. Ingested(fs, o + Size(c), h, last, Unfinished(none))
    BY <1>1, <1>4, <1>5, <2>1, DropIngested
  <2> QED
    BY <1>5, <2>2
<1>6. ASSUME n = 0, value # First PROVE Ingested(fs, p, h, last, I)
  <2>1. I = Unfinished(none)
    BY <1>6, IngestIs
  <2>2. d = 1 /\ At(c, Size(c)) # First /\ \A i : i \notin MagicAt(c)
    BY <1>1, <1>2, <1>6
  <2>3. Barren(fs, o, d, last)
    BY <1>1, <2>2, Noise
  <2> QED
    BY <1>5, <2>1, <2>3
<1>7. ASSUME n = 1, value # Second PROVE Ingested(fs, p, h, last, I)
  <2>1. d = 2 /\ At(c, 2) = value /\ \A i : i \notin MagicAt(c)
    BY <1>1, <1>2, <1>7
  <2>2. CASE value # First
    <3>1. I = Unfinished(none)
      BY <1>7, <2>2, IngestIs
    <3>2. At(c, Size(c)) # First
      BY <2>1, <2>2
    <3>3. Barren(fs, o, d, last)
      BY <1>1, <2>1, <3>2, Noise
    <3> QED
      BY <1>5, <3>1, <3>3
  <2>3. CASE value = First
    <3> DEFINE r == SubSeq(c, 1 + 1, Len(c))
               s == <<value>>
    <3>1. I = Unfinished(s)
      BY <1>7, <2>3, IngestIs
    <3>2. 1 \in 0 .. Size(c) /\ 1 # Size(c)
      BY <2>1
    <3>3. Barren(fs, o, 1, last)
      BY <2>1, <3>2, Noise
    <3>4. Cuts(r, c, 1)
      BY DEF Cuts
    <3>5. s \in Text(Symbols) /\ Size(s) = 1 /\ At(s, 1) = value
      BY DEF Text, Size, At
    <3> HIDE DEF r, s
    <3>6. r \in Text(Symbols) /\ Size(r) = 1 /\ \A i \in 1 .. Size(r) : At(r, i) = At(c, 1 + i)
      BY <1>1, <2>1, <3>2, <3>4, CutIs
    <3>7. r = s
      <4>1. At(r, 1) = At(c, 2)
        BY <3>6
      <4>2. \A i \in 1 .. Size(r) : i = 1
        BY <3>6
      <4> QED
        BY <2>1, <3>5, <3>6, <4>1, <4>2, TextEqual
    <3>8. Pending(r)
      BY <3>6 DEF Pending
    <3>9. Size(r) >= 1 => At(r, 1) = First
      BY <2>3, <3>5, <3>7
    <3>10. Ingested(fs, o + Size(c), h, last, Unfinished(r))
      BY <3>2, <3>3, <3>4, <3>8, <3>9, DropIngested
    <3> QED
      BY <3>1, <3>7, <3>10
  <2> QED
    BY <2>2, <2>3
<1>8. ASSUME n = 0 => value = First, n = 1 => value = Second PROVE Ingested(fs, p, h, last, I)
  <2>1. At(c, 1) = First
    <3>1. CASE n = 0
      BY <1>1, <1>8, <3>1
    <3>2. CASE n # 0
      <4>1. 1 \in 1 .. n /\ n >= 1
        BY <1>1, <3>2
      <4> QED
        BY <1>1, <4>1
    <3> QED
      BY <3>1, <3>2
  <2>2. d >= 2 => 1 \in MagicAt(c)
    <3> SUFFICES ASSUME d >= 2 PROVE 1 \in MagicAt(c)
      OBVIOUS
    <3>1. At(c, 1 + 1) = Second
      <4>1. CASE n = 1
        BY <1>1, <1>8, <4>1
      <4>2. CASE n # 1
        <5>1. n >= 2 /\ 2 \in 1 .. n
          BY <1>1, <4>2
        <5>2. At(b, 1 + 1) = Second /\ 1 + 1 = 2
          BY <1>3, <5>1 DEF Pending
        <5> QED
          BY <1>1, <5>1, <5>2
      <4> QED
        BY <4>1, <4>2
    <3>2. 1 \in 1 .. d - 1
      BY <1>1
    <3> QED
      BY <1>2, <2>1, <3>1, <3>2
  <2>3. CASE d = 6 /\ Value(At(c, 6)) > MaxPayload
    <3>1. I = Unfinished(none)
      BY <1>1, <1>8, <2>3, IngestIs
    <3>2. ~HeaderValid(c)
      <4>1. Value(At(c, 6)) \in Nat
        BY <1>1, <2>3, FieldsAreNumbers
      <4> QED
        BY <2>3, <4>1, HeaderValidIs, Numbers
    <3>3. d \in 1 .. Size(c) /\ d <= MaxFrame /\ 1 \in MagicAt(c)
      BY <1>1, <2>2, <2>3
    <3>4. Barren(fs, o, d, last)
      BY <2>3, <3>2, <3>3, RefuseReading
    <3> QED
      BY <1>5, <3>1, <3>4
  <2>4. CASE d > 6 /\ d = FrameSize(c)
    <3>1. I = Complete(c)
      BY <1>1, <1>8, <2>4, IngestIs
    <3>2. 1 \in MagicAt(c) /\ d >= 6 /\ d \in 1 .. d /\ d <= MaxFrame
      BY <1>1, <2>2, <2>4
    <3>3. CASE ~(HeaderValid(c) /\ ChecksumMatches(c))
      <4>1. I = Unfinished(none)
        BY <3>1, <3>3 DEF Complete, Unfinished
      <4>2. Barren(fs, o, d, last)
        BY <1>1, <2>4, <3>2, <3>3, RefuseReading
      <4> QED
        BY <1>5, <4>1, <4>2
    <3>4. CASE HeaderValid(c) /\ ChecksumMatches(c)
      <4> DEFINE q == <<FrameIn(c)>>
                 g == Append(h, FrameIn(c))
      <4>1. I = [buffer |-> none, frames |-> q]
        BY <3>1, <3>4 DEF Complete
      <4>2. Adds(g, h, FrameIn(c)) /\ Cuts(none, c, FrameSize(c)) /\ d >= FrameSize(c)
        BY <1>1, <1>4, <2>4 DEF Adds
      <4> HIDE DEF none, q, g
      <4>3. Reading(fs, o + FrameSize(c), none, g, last) /\ FrameIn(c) \in WireFrames
        BY <3>2, <3>4, <4>2, AcceptReading
      <4>4. Joins(g, h, q)
        <5> DEFINE f == FrameIn(c)
        <5>1. q = <<f>> /\ g = Append(h, f) /\ f \in WireFrames /\ h \in Seq(WireFrames)
          BY <1>1, <4>3 DEF q, g, Text
        <5> HIDE DEF f
        <5> QED
          BY <5>1 DEF Joins
      <4>5. o + FrameSize(c) = p - Size(none) /\ Size(none) \in Nat /\ Size(none) <= p
            /\ ~(Size(none) >= 1)
        BY <1>1, <1>4, <2>4
      <4>6. Reading(fs, p - Size(none), none, g, last)
        BY <4>3, <4>5
      <4> HIDE DEF p, I
      <4> QED
        BY <1>4, <4>1, <4>4, <4>5, <4>6 DEF Ingested
    <3> QED
      BY <3>3, <3>4
  <2>5. CASE ~(d = 6 /\ Value(At(c, 6)) > MaxPayload) /\ ~(d > 6 /\ d = FrameSize(c))
    <3>1. I = Unfinished(c)
      BY <1>1, <1>8, <2>5, IngestIs
    <3>2. ASSUME d >= 6 PROVE Value(At(c, 6)) <= MaxPayload /\ d < FrameSize(c)
      <4>1. Value(At(c, 6)) \in Nat /\ FrameSize(c) = 7 + Value(At(c, 6)) /\ MaxPayload \in Nat
        BY <1>1, <3>2, FieldsAreNumbers, HeaderValidIs, Numbers
      <4>2. CASE d = 6
        BY <2>5, <4>1, <4>2
      <4>3. CASE d # 6
        <5>1. n >= 6 /\ 6 \in 1 .. n /\ d > 6
          BY <1>1, <3>2, <4>3
        <5>2. At(c, 6) = At(b, 6) /\ Value(At(b, 6)) <= MaxPayload /\ n < FrameSize(b)
          BY <1>1, <5>1 DEF Pending
        <5>3. FrameSize(b) = 7 + Value(At(b, 6))
          BY HeaderValidIs
        <5>4. d # FrameSize(c)
          BY <2>5, <5>1
        <5> QED
          BY <1>1, <4>1, <5>2, <5>3, <5>4
      <4> QED
        BY <4>2, <4>3
    <3>3. Pending(c)
      BY <2>2, <3>2 DEF Pending
    <3>4. Cuts(c, c, 0) /\ 0 \in 0 .. d
      BY <1>1, CutNone
    <3>5. Barren(fs, o, 0, last)
      <4>1. \A i \in MagicAt(c) : 0 < i
        BY <1>1, <1>2
      <4> QED
        BY <3>4, <4>1, Noise
    <3>6. Ingested(fs, o + Size(c), h, last, Unfinished(c))
      BY <2>1, <3>3, <3>4, <3>5, DropIngested
    <3> QED
      BY <3>1, <3>6
  <2> QED
    BY <2>3, <2>4, <2>5
<1> QED
  BY <1>6, <1>7, <1>8

---------------------------------------------------------------------------
(* The invariant of the stream.                                            *)

\* A listener at p, with b in its buffer, has heard h and reported x; number faults
\* have touched the line up to last, and hidden missing symbols from it.
Listens(at, fs, p, b, h, x, number, last, missing) ==
  /\ at \in {"host", "robot"} /\ p \in Nat /\ Size(b) <= p
  /\ Reading(fs, p - Size(b), b, h, last) /\ Pending(b)
  /\ at = "robot" => x = 0 /\ (Size(b) >= 1 => At(b, 1) = First)
  /\ number \in 0 .. MaxFaults /\ last <= p /\ missing \in Nat /\ x \in Nat
  /\ at = "host" => p = Size(Line(h)) + Size(b) + x + missing

\* The inductive invariant of the stream
StreamInv ==
  \E number, last, missing :
    /\ faults = [number |-> number, last |-> last, missing |-> missing]
    /\ Listens(end, sent, position, buffer, heard, reported, number, last, missing)

LEMMA ListensSizes ==
  ASSUME NEW at, NEW fs, NEW p, NEW b, NEW h, NEW x, NEW number, NEW last, NEW missing,
         Listens(at, fs, p, b, h, x, number, last, missing)
  PROVE  /\ Size(b) \in Nat /\ p \in Nat /\ Size(b) <= p /\ p - Size(b) \in Nat
         /\ (p - Size(b)) + Size(b) = p /\ p <= Size(Line(fs)) /\ Size(Line(fs)) \in Nat
         /\ OnLine(fs) /\ b \in Text(Symbols) /\ h \in Text(WireFrames) /\ Size(Line(h)) \in Nat
         /\ last \in Nat /\ last <= p /\ x \in Nat /\ missing \in Nat /\ Pending(b)
         /\ Reading(fs, p - Size(b), b, h, last) /\ Size(fs) \in Nat
<1>1. /\ Reading(fs, p - Size(b), b, h, last) /\ p \in Nat /\ Size(b) <= p
      /\ last <= p /\ x \in Nat /\ missing \in Nat /\ Pending(b)
  BY DEF Listens
<1> DEFINE o == p - Size(b)
<1>2. /\ Size(b) \in Nat /\ o \in Nat /\ OnLine(fs) /\ b \in Text(Symbols) /\ h \in Text(WireFrames)
      /\ o + Size(b) <= Size(Line(fs)) /\ Size(Line(fs)) \in Nat /\ last \in Nat /\ Size(fs) \in Nat
  <2> HIDE DEF o
  <2>1. Reading(fs, o, b, h, last)
    BY <1>1 DEF o
  <2> QED
    BY <2>1, ReadingSizes
<1>3. o + Size(b) = p
  BY <1>1, <1>2
<1>4. Size(Line(h)) \in Nat
  BY <1>2, LineIs, TextIs DEF Text
<1> QED
  BY <1>1, <1>2, <1>3, <1>4

\* At the start nothing is sent, heard or unread.
LEMMA EmptyListens ==
  ASSUME NEW at \in {"host", "robot"}
  PROVE  Listens(at, <<>>, 0, <<>>, <<>>, 0, 0, 0, 0)
<1> DEFINE none == <<>>
<1>1. /\ none \in Text(Symbols) /\ none \in Text(WireFrames) /\ Size(none) = 0
      /\ Line(none) = none /\ MaxFaults \in Nat
  BY EmptyText, LineEmpty, StreamAssumption
<1> HIDE DEF none
<1>2. \A i : i \notin 1 .. Size(none)
  BY <1>1
<1>3. OnLine(none)
  BY <1>1, <1>2 DEF OnLine
<1>4. Mark(none, 0) = 0
  BY <1>3, TrackIs
<1>5. Reading(none, 0, none, none, 0)
  <2>1. Checks(none, 0 + Size(none), none) /\ Hearing(none, 0 + Size(none), none, none)
    BY <1>2 DEF Checks, Hearing
  <2>2. Clean(none, 0, none, 0) /\ Prompt(none, 0, none, 0) /\ Skipped(none, 0, none, 0)
    BY <1>1, <1>2, <1>4 DEF Clean, Prompt, Skipped
  <2> QED
    BY <1>1, <1>3, <2>1, <2>2 DEF Reading
<1>6. 0 - Size(none) = 0 /\ Size(none) <= 0 /\ ~(Size(none) >= 1) /\ 0 \in 0 .. MaxFaults
      /\ 0 = 0 + Size(none) + 0 + 0 /\ 0 = Size(none) + Size(none) + 0 + 0
  BY <1>1
<1>7. Pending(none)
  BY <1>1 DEF Pending
<1>8. Listens(at, none, 0, none, none, 0, 0, 0, 0)
  BY <1>1, <1>5, <1>6, <1>7 DEF Listens
<1> QED
  BY <1>8 DEF none

\* Each action keeps Listens.
LEMMA SendListens ==
  ASSUME NEW at, NEW fs, NEW p, NEW b, NEW h, NEW x, NEW number, NEW last, NEW missing,
         Listens(at, fs, p, b, h, x, number, last, missing),
         NEW f, Sendable(f), f.sequence = Size(fs), NEW gs, Adds(gs, fs, f)
  PROVE  Listens(at, gs, p, b, h, x, number, last, missing)
<1>1. Reading(gs, p - Size(b), b, h, last)
  BY ListensSizes, SendReading
<1> QED
  BY <1>1 DEF Listens

LEMMA LoseListens ==
  ASSUME NEW at, NEW fs, NEW p, NEW b, NEW h, NEW x, NEW number, NEW last, NEW missing,
         Listens(at, fs, p, b, h, x, number, last, missing),
         p < Size(Line(fs)), number < MaxFaults
  PROVE  Listens(at, fs, p + 1, b, h, x, number + 1, p + 1, missing + 1)
<1> DEFINE o == p - Size(b)
<1>1. /\ Size(b) \in Nat /\ p \in Nat /\ Size(b) <= p /\ o \in Nat /\ o + Size(b) = p
      /\ Size(Line(fs)) \in Nat /\ Size(Line(h)) \in Nat /\ x \in Nat /\ missing \in Nat
      /\ Reading(fs, o, b, h, last)
  BY ListensSizes
<1> HIDE DEF o
<1>2. Reading(fs, o + 1, b, h, o + Size(b) + 1)
  BY <1>1, LoseReading
<1>3. o + 1 = (p + 1) - Size(b) /\ o + Size(b) + 1 = p + 1 /\ Size(b) <= p + 1 /\ p + 1 <= p + 1
  BY <1>1
<1>4. number + 1 \in 0 .. MaxFaults
  BY StreamAssumption DEF Listens
<1>5. at = "host" => p + 1 = Size(Line(h)) + Size(b) + x + (missing + 1)
  BY <1>1 DEF Listens
<1>6. Reading(fs, (p + 1) - Size(b), b, h, p + 1)
  BY <1>2, <1>3
<1> QED
  BY <1>1, <1>3, <1>4, <1>5, <1>6 DEF Listens

\* A reset and an overflow leave an empty buffer.
LEMMA EmptiedListens ==
  ASSUME NEW at, NEW fs, NEW p, NEW b, NEW h, NEW x, NEW number, NEW last, NEW missing,
         Listens(at, fs, p, b, h, x, number, last, missing),
         NEW q \in Nat, q > 0, p <= q, q <= Size(Line(fs)), NEW few \in 0 .. MaxFaults,
         NEW y \in Nat, NEW lost \in Nat, at = "robot" => y = 0,
         at = "host" => y + lost = x + missing + Size(b) + (q - p)
  PROVE  Listens(at, fs, q, <<>>, h, y, few, q, lost)
<1> DEFINE none == <<>>
           o == p - Size(b)
<1>1. /\ Size(b) \in Nat /\ p \in Nat /\ Size(b) <= p /\ o \in Nat /\ o + Size(b) = p
      /\ Size(Line(fs)) \in Nat /\ Size(Line(h)) \in Nat /\ x \in Nat /\ missing \in Nat
      /\ Reading(fs, o, b, h, last)
  BY ListensSizes
<1>2. Size(none) = 0 /\ Pending(none)
  BY EmptyText DEF Pending
<1> HIDE DEF o
<1>3. Reading(fs, q, <<>>, h, q)
  BY <1>1, RestartReading
<1> HIDE DEF none
<1>4. Reading(fs, q - Size(none), none, h, q)
  BY <1>2, <1>3 DEF none
<1>5. Size(none) <= q /\ ~(Size(none) >= 1) /\ q <= q
  BY <1>2
<1>6. at = "host" => q = Size(Line(h)) + Size(none) + y + lost
  BY <1>1, <1>2 DEF Listens
<1>7. Listens(at, fs, q, none, h, y, few, q, lost)
  BY <1>2, <1>4, <1>5, <1>6 DEF Listens
<1> QED
  BY <1>7 DEF none

\* The host's feed keeps Listens: an overflow is a fault.
LEMMA HostListens ==
  ASSUME NEW fs, NEW p, NEW b, NEW h, NEW x, NEW number, NEW last, NEW missing,
         Listens("host", fs, p, b, h, x, number, last, missing),
         NEW data \in Text(Symbols), NEW now, Comes(fs, p, data, last, now),
         p + Size(data) <= Size(Line(fs)), now <= p + Size(data),
         NEW few \in 0 .. MaxFaults, NEW c, Joins(c, b, data)
  PROVE  \A g : Joins(g, h, DecodeBuffer(c).frames) =>
           Listens("host", fs, p + Size(data), DecodeBuffer(c).rest, g,
                   x + DecodeBuffer(c).discarded, few, now, missing)
<1> DEFINE o == p - Size(b)
           d == Size(data)
           batch == DecodeBuffer(c)
<1>1. /\ Size(b) \in Nat /\ p \in Nat /\ Size(b) <= p /\ o \in Nat /\ o + Size(b) = p
      /\ Size(Line(fs)) \in Nat /\ Size(Line(h)) \in Nat /\ x \in Nat /\ missing \in Nat
      /\ Reading(fs, o, b, h, last) /\ b \in Text(Symbols) /\ d \in Nat /\ h \in Text(WireFrames)
  BY ListensSizes, TextIs
<1>2. Size(c) = Size(b) + d
  BY <1>1, JoinIs
<1> HIDE DEF o, d, batch
<1>3. Reading(fs, o, c, h, now)
  <2>1. /\ Comes(fs, o + Size(b), data, last, now)
        /\ o + Size(b) + Size(data) <= Size(Line(fs))
    BY <1>1
  <2> QED
    BY <1>1, <2>1, GrowReading
<1>4. PICK r, g, q, y :
        /\ batch.rest = r /\ batch.frames = q /\ batch.discarded = y
        /\ Size(r) \in Nat /\ Size(r) <= Size(c) /\ y \in Nat /\ Joins(g, h, q)
        /\ Reading(fs, (o + Size(c)) - Size(r), r, g, now) /\ Pending(r)
        /\ Size(Line(g)) \in Nat /\ Size(Line(h)) \in Nat
        /\ Size(Line(g)) + Size(r) + y = Size(Line(h)) + Size(c)
  BY <1>3, DecodeReading DEF batch
<1>5. /\ (o + Size(c)) - Size(r) = (p + d) - Size(r) /\ p + d \in Nat /\ Size(r) <= p + d
      /\ x + y \in Nat
  BY <1>1, <1>2, <1>4
<1>6. p + d = Size(Line(g)) + Size(r) + (x + y) + missing
  <2>1. p = Size(Line(h)) + Size(b) + x + missing
    BY DEF Listens
  <2> QED
    BY <1>1, <1>2, <1>4, <2>1
<1>7. Listens("host", fs, p + d, r, g, x + y, few, now, missing)
  <2>1. Reading(fs, (p + d) - Size(r), r, g, now)
    BY <1>4, <1>5
  <2>2. "host" # "robot" /\ now <= p + d
    BY DEF d
  <2> QED
    BY <1>1, <1>4, <1>5, <1>6, <2>1, <2>2 DEF Listens
<1>8. \A k : Joins(k, h, q) => k = g
  BY <1>4 DEF Joins
<1> QED
  BY <1>4, <1>7, <1>8 DEF batch, d

\* The robot's ingestion keeps Listens.
LEMMA RobotListens ==
  ASSUME NEW fs, NEW p, NEW b, NEW h, NEW x, NEW number, NEW last, NEW missing,
         Listens("robot", fs, p, b, h, x, number, last, missing),
         NEW data \in Text(Symbols), Size(data) = 1, NEW now, Comes(fs, p, data, last, now),
         p + 1 <= Size(Line(fs)), now <= p + 1,
         NEW few \in 0 .. MaxFaults
  PROVE  \A g : Joins(g, h, IngestByte(b, At(data, 1)).frames) =>
           Listens("robot", fs, p + 1, IngestByte(b, At(data, 1)).buffer, g, x, few, now, missing)
<1> DEFINE o == p - Size(b)
           value == At(data, 1)
           taken == IngestByte(b, value)
           c == Append(b, value)
<1>1. /\ Size(b) \in Nat /\ p \in Nat /\ Size(b) <= p /\ o \in Nat /\ o + Size(b) = p
      /\ Size(Line(fs)) \in Nat /\ x \in Nat /\ missing \in Nat /\ Pending(b)
      /\ Reading(fs, o, b, h, last) /\ b \in Text(Symbols) /\ h \in Text(WireFrames)
  BY ListensSizes
<1>2. value \in Symbols
  <2>1. 1 \in 1 .. Size(data)
    OBVIOUS
  <2> QED
    BY <2>1, TextIs
<1>3. data = <<value>>
  <2> DEFINE s == <<value>>
  <2>1. s \in Text(Symbols) /\ Size(s) = 1 /\ At(s, 1) = value
    BY <1>2 DEF Text, Size, At
  <2> HIDE DEF s
  <2>2. \A i \in 1 .. Size(data) : i = 1
    OBVIOUS
  <2>3. data = s
    BY <2>1, <2>2, TextEqual
  <2> QED
    BY <2>3 DEF s
<1>4. Adds(c, b, value) /\ Joins(c, b, data)
  <2> HIDE DEF value
  <2>1. Append(b, value) = b \o <<value>>
    BY <1>1, <1>2 DEF Text
  <2> QED
    BY <1>3, <2>1 DEF Adds, Joins
<1> HIDE DEF c, o
<1>5. Size(c) = Size(b) + 1
  BY <1>1, <1>2, <1>4, AddIs
<1>6. Reading(fs, o, c, h, now)
  <2>1. /\ Comes(fs, o + Size(b), data, last, now)
        /\ o + Size(b) + Size(data) <= Size(Line(fs))
    BY <1>1
  <2> QED
    BY <1>1, <1>4, <2>1, GrowReading
<1>7. Size(b) >= 1 => At(b, 1) = First
  BY DEF Listens
<1> HIDE DEF value, taken
<1>8. Ingested(fs, o + Size(c), h, now, taken)
  BY <1>1, <1>2, <1>4, <1>6, <1>7, IngestReading DEF taken
<1>9. o + Size(c) = p + 1
  BY <1>1, <1>5
<1>10. PICK r, q, g :
        /\ taken = [buffer |-> r, frames |-> q] /\ Joins(g, h, q)
        /\ Size(r) \in Nat /\ Size(r) <= p + 1 /\ Reading(fs, (p + 1) - Size(r), r, g, now)
        /\ Pending(r) /\ (Size(r) >= 1 => At(r, 1) = First)
  BY <1>8, <1>9 DEF Ingested
<1>11. Listens("robot", fs, p + 1, r, g, x, few, now, missing)
  <2>1. "robot" # "host" /\ x = 0 /\ p + 1 \in Nat
    BY <1>1 DEF Listens
  <2> QED
    BY <1>1, <1>10, <2>1 DEF Listens
<1>12. \A k : Joins(k, h, q) => k = g
  BY <1>10 DEF Joins
<1>13. taken.buffer = r /\ taken.frames = q
  BY <1>10
<1> QED
  BY <1>11, <1>12, <1>13 DEF taken, value

\* A chunk is the next symbols of the line.
LEMMA ChunkIs ==
  ASSUME StreamInv, NEW n \in ChunkSizes
  PROVE  /\ n \in Nat /\ n >= 1 /\ position + n <= Size(Line(sent)) /\ position \in Nat
         /\ end = "robot" => n = 1
         /\ Chunk(n) \in Text(Symbols) /\ Size(Chunk(n)) = n
         /\ \A i \in 1 .. n : At(Chunk(n), i) = At(Line(sent), position + i)
<1>1. PICK number, last, missing :
        Listens(end, sent, position, buffer, heard, reported, number, last, missing)
  BY DEF StreamInv
<1>2. /\ position \in Nat /\ Size(Line(sent)) \in Nat /\ position <= Size(Line(sent)) /\ OnLine(sent)
      /\ end \in {"host", "robot"}
  BY <1>1, ListensSizes DEF Listens
<1>3. Line(sent) \in Text(Symbols)
  BY <1>2, TrackIs
<1> DEFINE left == Size(Line(sent)) - position
           most == IF end = "host" THEN MaxChunk ELSE 1
           T == {left, most}
<1>4. left \in Nat /\ most \in Nat /\ MaxChunk \in Nat
  BY <1>2, StreamAssumption
<1>5. ChunkSizes = 1 .. Min(T)
  BY DEF ChunkSizes, Size
<1>6. Min(T) \in T /\ \A i \in T : Min(T) <= i
  <2>1. T \in SUBSET Nat /\ T # {}
    BY <1>4
  <2> HIDE DEF T
  <2> QED
    BY <2>1, MinIs
<1>7. left \in T /\ most \in T
  OBVIOUS
<1> HIDE DEF T
<1>8. Min(T) <= left /\ Min(T) <= most /\ Min(T) \in Nat
  <2>1. Min(T) = left \/ Min(T) = most
    BY <1>6 DEF T
  <2> QED
    BY <1>4, <1>6, <1>7, <2>1
<1> DEFINE m == Min(T)
<1>9. n \in 1 .. m
  BY <1>5
<1> HIDE DEF m
<1>10. n \in Nat /\ n >= 1 /\ n <= left /\ n <= most
  BY <1>4, <1>8, <1>9 DEF m
<1>11. position + n <= Size(Line(sent)) /\ (end = "robot" => n = 1)
  <2>1. end = "robot" => most = 1
    OBVIOUS
  <2> HIDE DEF most
  <2> QED
    BY <1>2, <1>10, <2>1
<1>12. Parts(Chunk(n), Line(sent), position, position + n)
  BY DEF Chunk, Parts
<1> HIDE DEF left, most
<1>13. /\ position + n \in Nat /\ position <= position + n /\ (position + n) - position = n
  BY <1>2, <1>10
<1> DEFINE line == Line(sent)
           r == Chunk(n)
           k == position + n
<1>14. line \in Text(Symbols) /\ Parts(r, line, position, k) /\ k <= Size(line)
  BY <1>3, <1>11, <1>12
<1> HIDE DEF line, r
<1>15. /\ r \in Text(Symbols) /\ Size(r) = k - position
       /\ \A i \in 1 .. k - position : At(r, i) = At(line, position + i)
  BY <1>2, <1>13, <1>14, PartIs
<1> QED
  BY <1>2, <1>10, <1>11, <1>13, <1>15 DEF line, r

LEMMA BytesAreSymbols == Bytes \subseteq Plain /\ Plain \subseteq Symbols
  BY PlainSymbols DEF Symbols

\* What arrives is read: symbols of the line, but for some that are damaged, of which
\* the last is at now.
LEMMA ArriveInv ==
  ASSUME NEW number, NEW last, NEW missing,
         Listens(end, sent, position, buffer, heard, reported, number, last, missing),
         NEW n \in Nat, n >= 1, position + n <= Size(Line(sent)), end = "robot" => n = 1,
         NEW data \in Text(Symbols), Size(data) = n,
         NEW near, Comes(sent, position, data, last, near), near <= position + n,
         NEW few \in 0 .. MaxFaults, Arrive(n, data),
         NEW now, now = IF end = "host" /\ Overflows(data) THEN position + n ELSE near
  PROVE  Listens(end', sent', position', buffer', heard', reported', few, now, missing)
<1>1. position' = position + n /\ end' = end /\ sent' = sent /\ end \in {"host", "robot"}
  BY DEF Arrive, Listens
<1>2. CASE end = "host" /\ Overflows(data)
  <2>1. /\ buffer' = <<>> /\ heard' = heard \o <<>>
        /\ reported' = reported + (Len(buffer) + Len(data))
    BY <1>2 DEF Arrive, Feed, Unread
  <2>2. heard \in Text(WireFrames) /\ Size(buffer) \in Nat /\ position \in Nat /\ reported \in Nat /\ missing \in Nat
    BY ListensSizes
  <2>3. heard' = heard
    BY <2>1, <2>2 DEF Text
  <2>4. reported' = reported + (Size(buffer) + n)
    BY <2>1 DEF Size
  <2> DEFINE q == position + n
             y == reported + (Size(buffer) + n)
  <2>5. /\ q \in Nat /\ q > 0 /\ position <= q /\ y \in Nat
        /\ y + missing = reported + missing + Size(buffer) + (q - position)
    BY <2>2
  <2>6. end # "robot" /\ q <= Size(Line(sent))
    BY <1>2
  <2> HIDE DEF q, y
  <2>7. Listens(end, sent, q, <<>>, heard, y, few, q, missing)
    BY <2>2, <2>5, <2>6, EmptiedListens
  <2> QED
    BY <1>1, <1>2, <2>1, <2>3, <2>4, <2>7 DEF q, y
<1>3. CASE end = "host" /\ ~Overflows(data)
  <2> DEFINE c == buffer \o data
  <2>1. /\ buffer' = DecodeBuffer(c).rest
        /\ heard' = heard \o DecodeBuffer(c).frames
        /\ reported' = reported + DecodeBuffer(c).discarded
    BY <1>3 DEF Arrive, Feed
  <2>2. Joins(c, buffer, data) /\ Joins(heard', heard, DecodeBuffer(c).frames)
    BY <2>1 DEF Joins
  <2> HIDE DEF c
  <2>3. Listens("host", sent, position, buffer, heard, reported, number, last, missing)
    BY <1>3
  <2>4. Listens("host", sent, position + Size(data), DecodeBuffer(c).rest, heard',
                reported + DecodeBuffer(c).discarded, few, near, missing)
    BY <2>2, <2>3, HostListens
  <2> QED
    BY <1>1, <1>3, <2>1, <2>4
<1>4. CASE end = "robot"
  <2> DEFINE taken == IngestByte(buffer, At(data, 1))
  <2>1. /\ buffer' = taken.buffer /\ heard' = heard \o taken.frames /\ reported' = reported
    BY <1>4 DEF Arrive, Ingest, At
  <2>2. Joins(heard', heard, taken.frames)
    BY <2>1 DEF Joins
  <2> HIDE DEF taken
  <2>3. Listens("robot", sent, position, buffer, heard, reported, number, last, missing)
    BY <1>4
  <2>4. Size(data) = 1 /\ position + 1 <= Size(Line(sent)) /\ near <= position + 1 /\ n = 1
    BY <1>4
  <2>5. Listens("robot", sent, position + 1, taken.buffer, heard', reported, few, near, missing)
    BY <2>2, <2>3, <2>4, RobotListens DEF taken
  <2> QED
    BY <1>1, <1>4, <2>1, <2>4, <2>5
<1> QED
  BY <1>1, <1>2, <1>3, <1>4

LEMMA StreamInit_Inv ==
  ASSUME StreamInit PROVE StreamInv
  BY EmptyListens DEF StreamInit, StreamInv

LEMMA SendInv ==
  ASSUME StreamInv, NEW text \in SentPayloads, Send(text)
  PROVE  StreamInv'
<1> DEFINE f == [type |-> 2, sequence |-> Len(sent), payload |-> text]
<1>1. PICK number, last, missing :
        /\ faults = [number |-> number, last |-> last, missing |-> missing]
        /\ Listens(end, sent, position, buffer, heard, reported, number, last, missing)
  BY DEF StreamInv
<1>2. OnLine(sent) /\ Size(sent) \in Nat
  BY <1>1, ListensSizes
<1>3. text \in Seq(Plain) /\ Size(text) <= MaxPayload
  <2>1. text \in Seq(Bytes) /\ Len(text) <= MaxPayload
    BY StreamAssumption
  <2> QED
    BY <2>1, BytesAreSymbols, SeqMonotonic DEF Size
<1>4. Sendable(f) /\ f.sequence = Size(sent)
  <2>1. f \in WireFrames /\ f.type = 2 /\ f.payload = text /\ f.sequence = Size(sent)
    BY <1>2, <1>3 DEF WireFrames, Size
  <2> QED
    BY <1>3, <2>1 DEF Sendable
<1>5. /\ Adds(sent', sent, f) /\ end' = end /\ position' = position /\ buffer' = buffer
      /\ heard' = heard /\ reported' = reported /\ faults' = faults
  BY DEF Send, Adds
<1> HIDE DEF f
<1>6. Listens(end, sent', position, buffer, heard, reported, number, last, missing)
  BY <1>1, <1>4, <1>5, SendListens
<1> QED
  BY <1>1, <1>5, <1>6 DEF StreamInv

LEMMA DeliverInv ==
  ASSUME StreamInv, NEW n \in ChunkSizes, Deliver(n)
  PROVE  StreamInv'
<1>1. PICK number, last, missing :
        /\ faults = [number |-> number, last |-> last, missing |-> missing]
        /\ Listens(end, sent, position, buffer, heard, reported, number, last, missing)
  BY DEF StreamInv
<1> DEFINE data == Chunk(n)
           now == IF end = "host" /\ Overflows(data) THEN position + n ELSE last
<1>2. /\ n \in Nat /\ n >= 1 /\ position + n <= Size(Line(sent)) /\ position \in Nat
      /\ end = "robot" => n = 1
      /\ data \in Text(Symbols) /\ Size(data) = n
      /\ \A i \in 1 .. n : At(data, i) = At(Line(sent), position + i)
  BY ChunkIs
<1>3. last \in Nat /\ last <= position /\ number \in 0 .. MaxFaults
  BY <1>1, ListensSizes DEF Listens
<1>4. Arrive(n, data) /\ faults' = [number |-> number, last |-> now, missing |-> missing]
  BY <1>1 DEF Deliver
<1> HIDE DEF data
<1>5. Comes(sent, position, data, last, last)
  BY <1>2, <1>3 DEF Comes
<1>6. last <= position + n
  BY <1>2, <1>3
<1>7. Listens(end', sent', position', buffer', heard', reported', number, now, missing)
  BY <1>1, <1>2, <1>3, <1>4, <1>5, <1>6, ArriveInv
<1> QED
  BY <1>4, <1>7 DEF StreamInv

LEMMA DeliverDamagedInv ==
  ASSUME StreamInv, NEW n \in ChunkSizes, NEW i \in 1 .. n, NEW value \in DamageValues,
         DeliverDamaged(n, i, value)
  PROVE  StreamInv'
<1>1. PICK number, last, missing :
        /\ faults = [number |-> number, last |-> last, missing |-> missing]
        /\ Listens(end, sent, position, buffer, heard, reported, number, last, missing)
  BY DEF StreamInv
<1> DEFINE chunk == Chunk(n)
           data == [chunk EXCEPT ![i] = value]
           near == position + i
           now == IF end = "host" /\ Overflows(data) THEN position + n ELSE near
<1>2. /\ n \in Nat /\ n >= 1 /\ position + n <= Size(Line(sent)) /\ position \in Nat
      /\ end = "robot" => n = 1
      /\ chunk \in Text(Symbols) /\ Size(chunk) = n
      /\ \A j \in 1 .. n : At(chunk, j) = At(Line(sent), position + j)
  BY ChunkIs
<1>3. last \in Nat /\ last <= position /\ number \in 0 .. MaxFaults /\ number < MaxFaults
  BY <1>1, ListensSizes DEF Listens, DeliverDamaged
<1>4. value \in Symbols /\ value \in Plain
  BY StreamAssumption, BytesAreSymbols
<1>5. /\ data \in Text(Symbols) /\ Size(data) = n /\ Len(data) = Len(chunk)
      /\ \A j \in 1 .. n : At(data, j) = IF j = i THEN value ELSE At(chunk, j)
  <2>1. chunk \in Seq(Symbols) /\ Len(chunk) = n
    BY <1>2 DEF Text, Size
  <2> HIDE DEF chunk
  <2> QED
    BY <1>4, <2>1 DEF Text, Size, At
<1>6. Arrive(n, data) /\ faults' = [number |-> number + 1, last |-> now, missing |-> missing]
  <2>1. Overflows(data) <=> Overflows(chunk)
    BY <1>5 DEF Overflows
  <2>2. Arrive(n, data)
    BY DEF DeliverDamaged
  <2>3. faults' = [faults EXCEPT !.number = number + 1, !.last = now]
    <3>1. faults' = [faults EXCEPT !.number = @ + 1,
                       !.last = position + IF end = "host" /\ Overflows(chunk) THEN n ELSE i]
      BY DEF DeliverDamaged
    <3>2. position + (IF end = "host" /\ Overflows(chunk) THEN n ELSE i) = now
      BY <2>1
    <3>3. faults.number = number
      BY <1>1
    <3> HIDE DEF now, chunk
    <3> QED
      BY <3>1, <3>2, <3>3
  <2> HIDE DEF data, now
  <2> QED
    BY <1>1, <2>2, <2>3
<1> HIDE DEF data, chunk
<1>7. near \in Nat /\ near > position /\ near <= position + n /\ \A j \in 1 .. n : j = i => position + j <= near
  BY <1>2
<1> HIDE DEF near
<1>8. Comes(sent, position, data, last, near)
  BY <1>2, <1>4, <1>5, <1>7 DEF Comes
<1>9. number + 1 \in 0 .. MaxFaults
  BY <1>3, StreamAssumption
<1>10. Listens(end', sent', position', buffer', heard', reported', number + 1, now, missing)
  BY <1>1, <1>2, <1>5, <1>6, <1>7, <1>8, <1>9, ArriveInv
<1> QED
  BY <1>6, <1>10 DEF StreamInv

LEMMA LoseByteInv ==
  ASSUME StreamInv, LoseByte
  PROVE  StreamInv'
<1>1. PICK number, last, missing :
        /\ faults = [number |-> number, last |-> last, missing |-> missing]
        /\ Listens(end, sent, position, buffer, heard, reported, number, last, missing)
  BY DEF StreamInv
<1>2. /\ number < MaxFaults /\ position < Size(Line(sent))
      /\ faults' = [number |-> number + 1, last |-> position + 1, missing |-> missing + 1]
      /\ position' = position + 1 /\ end' = end /\ sent' = sent /\ buffer' = buffer
      /\ heard' = heard /\ reported' = reported
  BY <1>1 DEF LoseByte, Size
<1>3. Listens(end, sent, position + 1, buffer, heard, reported, number + 1, position + 1, missing + 1)
  BY <1>1, <1>2, LoseListens
<1> QED
  BY <1>2, <1>3 DEF StreamInv

LEMMA ResetDecoderInv ==
  ASSUME StreamInv, ResetDecoder
  PROVE  StreamInv'
<1>1. PICK number, last, missing :
        /\ faults = [number |-> number, last |-> last, missing |-> missing]
        /\ Listens(end, sent, position, buffer, heard, reported, number, last, missing)
  BY DEF StreamInv
<1>2. /\ number < MaxFaults /\ buffer # <<>> /\ buffer' = <<>>
      /\ faults' = [number |-> number + 1, last |-> position, missing |-> missing + Size(buffer)]
      /\ position' = position /\ end' = end /\ sent' = sent
      /\ heard' = heard /\ reported' = reported
  BY <1>1 DEF ResetDecoder, Size
<1>3. /\ Size(buffer) \in Nat /\ position \in Nat /\ Size(buffer) <= position
      /\ position <= Size(Line(sent)) /\ buffer \in Text(Symbols) /\ reported \in Nat /\ missing \in Nat
  BY <1>1, ListensSizes
<1>4. Size(buffer) # 0
  BY <1>2, <1>3, EmptyText
<1>5. number + 1 \in 0 .. MaxFaults /\ (end = "robot" => reported = 0)
  BY <1>1, <1>2, StreamAssumption DEF Listens
<1>6. /\ position > 0 /\ position <= position /\ missing + Size(buffer) \in Nat
      /\ reported + (missing + Size(buffer)) = reported + missing + Size(buffer) + (position - position)
  BY <1>3, <1>4
<1>7. Listens(end, sent, position, <<>>, heard, reported, number + 1, position, missing + Size(buffer))
  BY <1>1, <1>3, <1>5, <1>6, EmptiedListens
<1> QED
  BY <1>2, <1>7 DEF StreamInv

\* The invariant of the stream holds in every state, for any damage.
THEOREM StreamInvAlways == StreamSpec => []StreamInv
<1>1. StreamInit => StreamInv
  BY StreamInit_Inv
<1>2. ASSUME StreamInv, [StreamNext]_stream PROVE StreamInv'
  <2>1. ASSUME NEW text \in SentPayloads, Send(text) PROVE StreamInv'
    BY <1>2, <2>1, SendInv
  <2>2. ASSUME NEW n \in ChunkSizes, Deliver(n) PROVE StreamInv'
    BY <1>2, <2>2, DeliverInv
  <2>3. ASSUME NEW n \in ChunkSizes, NEW i \in 1 .. n, NEW value \in DamageValues,
               DeliverDamaged(n, i, value)
        PROVE  StreamInv'
    BY <1>2, <2>3, DeliverDamagedInv
  <2>4. CASE LoseByte
    BY <1>2, <2>4, LoseByteInv
  <2>5. CASE ResetDecoder
    BY <1>2, <2>5, ResetDecoderInv
  <2>6. CASE UNCHANGED stream
    <3>1. /\ end' = end /\ sent' = sent /\ position' = position /\ buffer' = buffer
          /\ heard' = heard /\ reported' = reported /\ faults' = faults
      BY <2>6 DEF stream
    <3> QED
      BY <1>2, <3>1 DEF StreamInv
  <2> QED
    BY <1>2, <2>1, <2>2, <2>3, <2>4, <2>5, <2>6 DEF StreamNext
<1> QED
  BY <1>1, <1>2, PTL DEF StreamSpec

---------------------------------------------------------------------------
(* What the invariant says of the frames.                                  *)

\* The line of the first frames is the first part of the line.
LEMMA PrefixLine ==
  ASSUME NEW fs, OnLine(fs), NEW h \in Text(WireFrames), Size(h) <= Size(fs),
         \A k \in 1 .. Size(h) : At(h, k) = At(fs, k)
  PROVE  /\ Line(h) \in Text(Symbols) /\ Size(Line(h)) = Mark(fs, Size(h))
         /\ \A i \in 1 .. Size(Line(h)) : At(Line(h), i) = At(Line(fs), i)
<1> DEFINE m == Size(h)
           r == SubSeq(fs, 1, m)
<1>1. m \in Nat /\ Size(fs) \in Nat /\ fs \in Text(WireFrames) /\ m \in 0 .. Size(fs)
  BY TextIs, TrackIs DEF OnLine
<1>2. h = r
  <2>1. Fronts(r, fs, m)
    BY DEF Fronts
  <2> HIDE DEF r
  <2>2. r \in Text(WireFrames) /\ Size(r) = m /\ \A i \in 1 .. m : At(r, i) = At(fs, i)
    BY <1>1, <2>1, FrontIs
  <2> QED
    BY <2>2, TextEqual
<1>3. Size(Line(h)) = Mark(fs, m)
  BY <1>2 DEF Mark
<1>4. Line(h) \in Text(Symbols)
  BY LineIs DEF Text
<1>5. \A i \in 1 .. Mark(fs, m) : At(Line(fs), i) = At(Line(h), i)
  <2>1. fs \in Seq(WireFrames) /\ Size(fs) = Len(fs) /\ Len(fs) \in 0 .. Len(fs) /\ m \in 0 .. Len(fs)
    BY <1>1 DEF Text, Size
  <2>2. SubSeq(fs, 1, Len(fs)) = fs
    BY <2>1
  <2>3. \A i \in 1 .. Mark(fs, m) :
          At(Line(SubSeq(fs, 1, Len(fs))), i) = At(Line(SubSeq(fs, 1, m)), i)
    BY <2>1, MarksGrow
  <2> QED
    BY <1>2, <2>2, <2>3
<1> QED
  BY <1>3, <1>4, <1>5

\* Without a fault, all that has arrived is heard.
LEMMA AllHeard ==
  ASSUME NEW fs, NEW p, NEW b, NEW h, NEW o, Reading(fs, o, b, h, 0), o + Size(b) = p, Pending(b),
         NEW k \in 1 .. Size(fs), Mark(fs, k) <= p
  PROVE  k <= Size(h) /\ At(h, k) = At(fs, k)
<1> DEFINE m == Size(h)
           j == m + 1
<1>1. /\ Size(b) \in Nat /\ o \in Nat /\ m \in Nat /\ Size(fs) \in Nat /\ OnLine(fs)
      /\ b \in Text(Symbols)
  BY ReadingSizes
<1>2. m <= Size(fs) /\ o = Mark(fs, m) /\ \A i \in 1 .. m : At(h, i) = At(fs, i)
  BY DEF Reading, Prompt
<1>3. k <= m
  <2> SUFFICES ASSUME m < k PROVE FALSE
    BY <1>1
  <2>1. j \in 1 .. Size(fs) /\ j \in 0 .. k /\ k \in 0 .. Size(fs) /\ j - 1 = m
    BY <1>1
  <2> HIDE DEF m
  <2>2. /\ Sendable(At(fs, j)) /\ Mark(fs, j) = Mark(fs, j - 1) + Size(Code(At(fs, j)))
        /\ Size(Code(At(fs, j))) \in Nat /\ 7 <= Size(Code(At(fs, j)))
    BY <1>1, <2>1, FrameMarks
  <2>3. Mark(fs, j) <= Mark(fs, k) /\ Mark(fs, k) \in Nat
    BY <1>1, <2>1, TrackIs
  <2>4. Size(b) >= Size(Code(At(fs, j)))
    BY <1>1, <1>2, <2>1, <2>2, <2>3
  <2>5. Size(b) >= 1 /\ Size(b) >= 6
    BY <1>1, <2>2, <2>4
  <2>6. Agree(b, Code(At(fs, j)))
    BY <2>5, NextFrame DEF m
  <2>7. FrameSize(b) = Size(Code(At(fs, j)))
    BY <1>1, <2>2, <2>5, <2>6, Recognised
  <2>8. Size(b) < FrameSize(b)
    BY <2>5 DEF Pending
  <2> QED
    BY <1>1, <2>2, <2>4, <2>7, <2>8
<1>4. k \in 1 .. m
  BY <1>1, <1>3
<1> QED
  BY <1>2, <1>3, <1>4

\* After a fault, all that begins well behind it is heard.
LEMMA HeardAgain ==
  ASSUME NEW fs, NEW p, NEW b, NEW h, NEW o, NEW last, Reading(fs, o, b, h, last),
         o + Size(b) = p, Pending(b), last > 0, Unmistakable(fs),
         NEW k \in 1 .. Size(fs), Mark(fs, k) <= p, Mark(fs, k - 1) >= last + MaxFrame
  PROVE  \E m \in 1 .. Size(h) : At(h, m) = At(fs, k)
<1>1. /\ Size(b) \in Nat /\ o \in Nat /\ Size(fs) \in Nat /\ OnLine(fs) /\ last \in Nat
      /\ b \in Text(Symbols) /\ MaxFrame \in Nat /\ Size(b) < MaxFrame
  BY ReadingSizes, Numbers, PendingIsShort
<1>2. /\ Mark(fs, k - 1) \in Nat /\ Mark(fs, k) \in Nat
      /\ Mark(fs, k) = Mark(fs, k - 1) + Size(Code(At(fs, k)))
      /\ Size(Code(At(fs, k))) \in Nat /\ 7 <= Size(Code(At(fs, k)))
  BY <1>1, FrameMarks
<1>3. CASE Mark(fs, k - 1) < o
  BY <1>3 DEF Reading, Skipped
<1>4. CASE o <= Mark(fs, k - 1)
  <2>1. last <= o /\ Size(b) >= 2 /\ Size(b) >= 6
    BY <1>1, <1>2, <1>4
  <2>2. 1 \in MagicAt(b)
    BY <2>1 DEF Pending
  <2>3. PICK j \in 1 .. Size(fs) : o = Mark(fs, j - 1) /\ Agree(b, Code(At(fs, j)))
    BY <2>1, <2>2, Resumed
  <2>4. /\ Sendable(At(fs, j)) /\ Mark(fs, j) = Mark(fs, j - 1) + Size(Code(At(fs, j)))
        /\ Size(Code(At(fs, j))) \in Nat
    BY <1>1, FrameMarks
  <2>5. FrameSize(b) = Size(Code(At(fs, j))) /\ Size(b) < FrameSize(b)
    <3>1. Size(b) >= 6 => FrameSize(b) = Size(Code(At(fs, j)))
      BY <1>1, <2>3, <2>4, Recognised
    <3> QED
      BY <2>1, <3>1 DEF Pending
  <2>6. p < Mark(fs, j)
    BY <1>1, <2>3, <2>4, <2>5
  <2>7. Mark(fs, k - 1) < Mark(fs, j) /\ Mark(fs, j - 1) < Mark(fs, k) /\ Mark(fs, k) < Mark(fs, j)
    BY <1>1, <1>2, <1>4, <2>3, <2>4, <2>6
  <2>8. k <= j /\ j <= k
    BY <1>1, <2>7, MarkOrder
  <2>9. j = k
    BY <1>1, <2>8
  <2> QED
    BY <1>2, <2>7, <2>9
<1> QED
  BY <1>1, <1>2, <1>3, <1>4

\* What the invariant says of the types, of a line without faults, of a line with
\* faults, and of what is hidden.
LEMMA StreamInv_Types ==
  ASSUME StreamInv PROVE StreamTypeOK
<1>1. PICK number, last, missing :
        /\ faults = [number |-> number, last |-> last, missing |-> missing]
        /\ Listens(end, sent, position, buffer, heard, reported, number, last, missing)
  BY DEF StreamInv
<1>2. /\ Size(buffer) \in Nat /\ position \in Nat /\ reported \in Nat /\ missing \in Nat
      /\ Size(Line(heard)) \in Nat /\ position <= Size(Line(sent)) /\ Size(Line(sent)) \in Nat
      /\ last <= position /\ Size(buffer) < MaxFrame
  BY <1>1, ListensSizes, PendingIsShort
<1>3. /\ end \in {"host", "robot"} /\ number \in 0 .. MaxFaults
      /\ end = "robot" => reported = 0
      /\ end = "host" => position = Size(Line(heard)) + Size(buffer) + reported + missing
  BY <1>1 DEF Listens
<1>4. position \in 0 .. Len(Line(sent)) /\ Len(buffer) < MaxFrame
  BY <1>2 DEF Size
<1>5. reported \in 0 .. position
  BY <1>2, <1>3
<1>6. faults.last = last /\ faults.number = number
  BY <1>1
<1> QED
  BY <1>2, <1>3, <1>4, <1>5, <1>6 DEF StreamTypeOK

LEMMA StartIs ==
  ASSUME OnLine(sent), NEW k \in DOMAIN sent
  PROVE  /\ k \in 1 .. Size(sent) /\ Start(k) = Mark(sent, k - 1) /\ sent[k] = At(sent, k)
         /\ Arrived(k) => Mark(sent, k) <= position
<1>1. sent \in Seq(WireFrames)
  BY DEF OnLine, Text
<1>2. k \in 1 .. Size(sent) /\ sent[k] = At(sent, k) /\ Start(k) = Mark(sent, k - 1)
  BY <1>1 DEF Size, At, Start, Mark
<1>3. Mark(sent, k) = Mark(sent, k - 1) + Size(Code(At(sent, k)))
  BY <1>2, FrameMarks
<1>4. Arrived(k) => Mark(sent, k - 1) + Size(Code(At(sent, k))) <= position
  BY <1>2 DEF Arrived, Size, Code
<1> QED
  BY <1>2, <1>3, <1>4

LEMMA StreamInv_Undamaged ==
  ASSUME StreamInv PROVE UndamagedIsHeard
<1>1. PICK number, last, missing :
        /\ faults = [number |-> number, last |-> last, missing |-> missing]
        /\ Listens(end, sent, position, buffer, heard, reported, number, last, missing)
  BY DEF StreamInv
<1> SUFFICES ASSUME last = 0
             PROVE  /\ \A k \in DOMAIN sent : Arrived(k) => Len(heard) >= k
                    /\ Line(heard) \o buffer = SubSeq(Line(sent), 1, position)
  <2>1. faults.last = last
    BY <1>1
  <2> QED
    BY <2>1 DEF UndamagedIsHeard
<1> DEFINE o == position - Size(buffer)
<1>2. /\ Size(buffer) \in Nat /\ position \in Nat /\ o \in Nat /\ o + Size(buffer) = position
      /\ position <= Size(Line(sent)) /\ Size(Line(sent)) \in Nat /\ OnLine(sent)
      /\ buffer \in Text(Symbols) /\ heard \in Text(WireFrames) /\ Pending(buffer)
      /\ Reading(sent, o, buffer, heard, 0)
  BY <1>1, ListensSizes
<1> HIDE DEF o
<1>3. Size(heard) <= Size(sent) /\ o = Mark(sent, Size(heard))
      /\ \A k \in 1 .. Size(heard) : At(heard, k) = At(sent, k)
  BY <1>2 DEF Reading, Prompt
<1>4. ASSUME NEW k \in DOMAIN sent, Arrived(k) PROVE Len(heard) >= k
  <2>1. k \in 1 .. Size(sent) /\ Mark(sent, k) <= position
    BY <1>2, <1>4, StartIs
  <2>2. k <= Size(heard)
    BY <1>2, <2>1, AllHeard
  <2>3. Size(heard) \in Nat /\ Size(sent) \in Nat
    BY <1>2, TextIs, TrackIs
  <2> QED
    BY <2>1, <2>2, <2>3 DEF Size
<1>5. Line(heard) \o buffer = SubSeq(Line(sent), 1, position)
  <2> DEFINE a == Line(heard)
             line == Line(sent)
             r == a \o buffer
             s == SubSeq(line, 1, position)
  <2>1. a \in Text(Symbols) /\ Size(a) = o /\ \A i \in 1 .. Size(a) : At(a, i) = At(line, i)
    BY <1>2, <1>3, PrefixLine
  <2>2. line \in Text(Symbols)
    BY <1>2, TrackIs
  <2>3. Joins(r, a, buffer) /\ Fronts(s, line, position)
    BY DEF Joins, Fronts
  <2>4. \A i \in 1 .. Size(buffer) : At(buffer, i) = At(line, o + i)
    BY <1>2 DEF Reading, Clean
  <2>5. position \in 0 .. Size(line)
    BY <1>2
  <2> HIDE DEF a, r, s, line
  <2>6. /\ r \in Text(Symbols) /\ Size(r) = o + Size(buffer)
        /\ \A i \in 1 .. Size(a) : At(r, i) = At(a, i)
        /\ \A i \in 1 .. Size(buffer) : At(r, o + i) = At(buffer, i)
    BY <1>2, <2>1, <2>3, JoinIs
  <2>7. s \in Text(Symbols) /\ Size(s) = position /\ \A i \in 1 .. position : At(s, i) = At(line, i)
    BY <2>2, <2>3, <2>5, FrontIs
  <2>8. ASSUME NEW i \in 1 .. position PROVE At(r, i) = At(s, i)
    <3>1. CASE i \in 1 .. o
      BY <2>1, <2>6, <2>7, <3>1
    <3>2. CASE i \notin 1 .. o
      <4>1. i - o \in 1 .. Size(buffer) /\ o + (i - o) = i
        BY <1>2, <3>2
      <4> QED
        BY <2>4, <2>6, <2>7, <4>1
    <3> QED
      BY <3>1, <3>2
  <2>9. r = s
    BY <1>2, <2>6, <2>7, <2>8, TextEqual
  <2> QED
    BY <2>9 DEF r, s, a, line
<1> QED
  BY <1>4, <1>5

LEMMA StreamInv_Bounded ==
  ASSUME StreamInv PROVE DamageIsBounded
<1>1. PICK number, last, missing :
        /\ faults = [number |-> number, last |-> last, missing |-> missing]
        /\ Listens(end, sent, position, buffer, heard, reported, number, last, missing)
  BY DEF StreamInv
<1> DEFINE o == position - Size(buffer)
<1>2. /\ o + Size(buffer) = position /\ OnLine(sent) /\ Pending(buffer) /\ last \in Nat
      /\ Reading(sent, o, buffer, heard, last) /\ heard \in Text(WireFrames) /\ faults.last = last
  BY <1>1, ListensSizes
<1> HIDE DEF o
<1> SUFFICES ASSUME \A k \in DOMAIN sent : MagicOnlyAtStart(sent[k]),
                    NEW k \in DOMAIN sent,
                    Start(k) >= last + MaxFrame \/ last = 0, Arrived(k)
             PROVE  sent[k] \in ToSet(heard)
  BY <1>2 DEF DamageIsBounded
<1>3. /\ k \in 1 .. Size(sent) /\ Start(k) = Mark(sent, k - 1) /\ sent[k] = At(sent, k)
      /\ Mark(sent, k) <= position
  BY <1>2, StartIs
<1>4. Unmistakable(sent)
  <2>1. DOMAIN sent = 1 .. Size(sent)
    BY <1>2 DEF OnLine, Text, Size
  <2> QED
    BY <2>1 DEF Unmistakable, MagicOnlyAtStart, Code, At
<1>5. \E m \in 1 .. Size(heard) : At(heard, m) = At(sent, k)
  <2>1. CASE last = 0
    <3>1. k <= Size(heard) /\ At(heard, k) = At(sent, k)
      BY <1>2, <1>3, <2>1, AllHeard
    <3>2. k \in 1 .. Size(heard)
      <4>1. Size(heard) \in Nat /\ Size(sent) \in Nat
        BY <1>2, TextIs, TrackIs
      <4> QED
        BY <1>3, <3>1, <4>1
    <3> QED
      BY <3>1, <3>2
  <2>2. CASE last # 0
    <3>1. last > 0
      BY <1>2, <2>2
    <3>2. Mark(sent, k - 1) >= last + MaxFrame
      BY <1>3, <2>2
    <3> QED
      BY <1>2, <1>3, <1>4, <3>1, <3>2, HeardAgain
  <2> QED
    BY <2>1, <2>2
<1>6. DOMAIN heard = 1 .. Size(heard)
  BY <1>2 DEF Text, Size
<1> QED
  BY <1>3, <1>5, <1>6 DEF ToSet, At

LEMMA StreamInv_Hidden ==
  ASSUME StreamInv PROVE NothingHidden
<1>1. PICK number, last, missing :
        /\ faults = [number |-> number, last |-> last, missing |-> missing]
        /\ Listens(end, sent, position, buffer, heard, reported, number, last, missing)
  BY DEF StreamInv
<1> DEFINE o == position - Size(buffer)
<1>2. /\ Size(buffer) \in Nat /\ position \in Nat /\ reported \in Nat /\ missing \in Nat
      /\ Size(Line(heard)) \in Nat /\ OnLine(sent) /\ heard \in Text(WireFrames)
      /\ Reading(sent, o, buffer, heard, last)
  BY <1>1, ListensSizes
<1> HIDE DEF o
<1>3. DOMAIN heard = 1 .. Size(heard) /\ DOMAIN sent = 1 .. Size(sent)
  BY <1>2 DEF OnLine, Text, Size
<1>4. NothingInvented
  <2>1. \A m \in 1 .. Size(heard) : \E k \in 1 .. Size(sent) : At(heard, m) = At(sent, k)
    BY <1>2 DEF Reading, Hearing
  <2>2. \A m \in 1 .. Size(heard), n \in 1 .. Size(heard) :
          m < n => At(heard, m).sequence < At(heard, n).sequence
    BY <1>2 DEF Reading, Hearing
  <2>3. \A k \in DOMAIN heard : heard[k] \in ToSet(sent)
    BY <1>3, <2>1 DEF ToSet, At
  <2>4. \A j, k \in DOMAIN heard : j < k => heard[j].sequence < heard[k].sequence
    BY <1>3, <2>2 DEF At
  <2> QED
    BY <2>3, <2>4 DEF NothingInvented
<1>5. EveryByteAccounted
  <2> SUFFICES ASSUME end = "host"
               PROVE  position - missing = Size(Line(heard)) + Size(buffer) + reported
    <3>1. faults.missing = missing
      BY <1>1
    <3> QED
      BY <3>1 DEF EveryByteAccounted, Size
  <2>1. position = Size(Line(heard)) + Size(buffer) + reported + missing
    BY <1>1 DEF Listens
  <2> QED
    BY <1>2, <2>1
<1> QED
  BY <1>4, <1>5 DEF NothingHidden

\* Frames get through, for any size of payload, chunk and buffer: all of them without
\* a fault, and after a fault all that begin a frame's size behind it.
THEOREM FramesGetThroughAlways == StreamSpec => []FramesGetThrough
<1>1. StreamInv => FramesGetThrough
  BY StreamInv_Types, StreamInv_Undamaged, StreamInv_Bounded DEF FramesGetThrough
<1> QED
  BY <1>1, StreamInvAlways, PTL

\* What either decoder passes on was sent, once and in order, and the host accounts for
\* every byte.
THEOREM NothingHiddenAlways == StreamSpec => []NothingHidden
<1>1. StreamInv => NothingHidden
  BY StreamInv_Hidden
<1> QED
  BY <1>1, StreamInvAlways, PTL

---------------------------------------------------------------------------
(* Digits.                                                                 *)

\* What is assumed of the numbers.
LEMMA Base == ByteBase \in Nat /\ ByteBase >= 16 /\ ByteBase % 2 = 0 /\ MaxJoints \in 1 .. ByteBase - 1
  BY PayloadAssumption

\* Quotient and remainder, and products, said once for the provers.
LEMMA Divides ==
  ASSUME NEW b \in Nat \ {0}, NEW v \in Int
  PROVE  v \div b \in Int /\ v % b \in 0 .. b - 1 /\ v = b * (v \div b) + (v % b)
  OBVIOUS

LEMMA Products ==
  ASSUME NEW b \in Int, NEW x \in Int, NEW y \in Int
  PROVE  /\ b * x \in Int
         /\ b >= 0 /\ x <= y => b * x <= b * y
         /\ b * (x + y) = b * x + b * y
         /\ b * (x - y) = b * x - b * y
  OBVIOUS

LEMMA Multiples ==
  ASSUME NEW k \in Nat, NEW w \in Nat
  PROVE  /\ k * w \in Nat /\ (k + 1) * w = k * w + w
         /\ \A n \in Nat : k <= n => k * w <= n * w
         /\ \A n \in Nat : k + 1 <= n => k * w + w <= n * w
<1>1. k * w \in Nat
  <2>1. w * 0 <= w * k /\ w * k \in Int
    BY Products
  <2> QED
    BY <2>1
<1>2. (k + 1) * w = k * w + w
  BY Products
<1>3. \A l \in Nat, n \in Nat : l <= n => l * w <= n * w
  BY Products
<1>4. \A n \in Nat : k + 1 <= n => (k + 1) * w <= n * w
  BY <1>3
<1> QED
  BY <1>1, <1>2, <1>3, <1>4

\* A digit and the number it is put before.
LEMMA DigitFirst ==
  ASSUME NEW b \in Nat \ {0}, NEW d \in 0 .. b - 1, NEW x \in Int
  PROVE  (d + b * x) % b = d /\ (d + b * x) \div b = x
<1> DEFINE v == d + b * x
           q == v \div b
           r == v % b
<1>1. v \in Int /\ q \in Int /\ r \in 0 .. b - 1 /\ v = b * q + r
  BY Divides
<1> HIDE DEF q, r
<1>2. b * (q - x) = d - r
  BY <1>1, Products
<1>3. q = x
  <2>1. CASE q > x
    <3>1. b * 1 <= b * (q - x)
      BY <1>1, <2>1, Products
    <3> QED
      BY <1>1, <1>2, <3>1
  <2>2. CASE q < x
    <3>1. b * (q - x) <= b * (-1)
      BY <1>1, <2>2, Products
    <3> QED
      BY <1>1, <1>2, <3>1
  <2> QED
    BY <1>1, <2>1, <2>2
<1>4. r = d
  BY <1>1, <1>3
<1> QED
  BY <1>3, <1>4 DEF q, r

\* A number below b times n has a quotient below n.
\* A number below b * n has a quotient below n.
LEMMA QuotientIn ==
  ASSUME NEW b \in Nat \ {0}, NEW n \in Nat, NEW v \in 0 .. b * n - 1
  PROVE  v \div b \in 0 .. n - 1
<1> DEFINE q == v \div b
<1>1. b * n \in Int /\ v \in Int /\ 0 <= v /\ v < b * n
  BY Products
<1>2. q \in Int /\ v % b \in 0 .. b - 1 /\ v = b * q + (v % b)
  BY <1>1, Divides
<1> HIDE DEF q
<1>3. q < n
  <2> SUFFICES ASSUME q >= n PROVE FALSE
    BY <1>2
  <2>1. b * n <= b * q
    BY <1>2, Products
  <2> QED
    BY <1>1, <1>2, <2>1
<1>4. q >= 0
  <2> SUFFICES ASSUME q <= -1 PROVE FALSE
    BY <1>2
  <2>1. b * q <= b * (-1)
    BY <1>2, Products
  <2> QED
    BY <1>1, <1>2, <2>1
<1> QED
  BY <1>2, <1>3, <1>4 DEF q

---------------------------------------------------------------------------
(* Fields.                                                                 *)

\* The bytes, and the fields a layout may have.
Digit == 0 .. ByteBase - 1

\* The largest number in so many bytes
Largest(bytes) ==
  IF bytes = 1 THEN ByteBase - 1 ELSE IF bytes = 2 THEN WORDS - 1 ELSE WORDS * WORDS - 1

Fields ==
  {f \in [bytes : {1, 2, 4}, lo : Int, hi : Int] :
     /\ f.lo < 0 => f.bytes = 2 /\ f.lo = -(WORDS \div 2) /\ f.hi = WORDS \div 2 - 1
     /\ f.lo >= 0 => f.hi <= Largest(f.bytes)}

LEMMA Words ==
  /\ WORDS \in Nat /\ WORDS = ByteBase * ByteBase /\ WORDS \div 2 \in Nat
  /\ WORDS = 2 * (WORDS \div 2) /\ WORDS >= 256
  /\ WORDS * WORDS \in Nat /\ WORDS * WORDS = ByteBase * (ByteBase * (ByteBase * ByteBase))
<1> DEFINE h == ByteBase \div 2
<1>1. h \in Int /\ ByteBase = 2 * h
  BY Base, Divides
<1>2. WORDS = ByteBase * ByteBase
  BY DEF WORDS
<1>3. ByteBase * 16 <= ByteBase * ByteBase /\ ByteBase * ByteBase \in Int
  BY Base, Products
<1>4. WORDS \in Nat /\ WORDS >= 256
  BY <1>2, <1>3, Base
<1>5. WORDS = 0 + 2 * (h * ByteBase) /\ h * ByteBase \in Int
  <2> HIDE DEF h
  <2>1. h * ByteBase \in Int
    BY <1>1, Base, Products
  <2> QED
    BY <1>1, <1>2, <2>1, Base
<1>6. WORDS \div 2 = h * ByteBase
  <2>1. 0 \in 0 .. 2 - 1
    OBVIOUS
  <2> QED
    BY <1>5, <2>1, DigitFirst
<1>7. WORDS * WORDS \in Int /\ WORDS * WORDS >= 0
  <2>1. WORDS * 0 <= WORDS * WORDS /\ WORDS * WORDS \in Int
    BY <1>4, Products
  <2> QED
    BY <1>4, <2>1
<1>8. WORDS * WORDS = ByteBase * (ByteBase * (ByteBase * ByteBase))
  BY <1>2, Base
<1> HIDE DEF h
<1> QED
  BY <1>2, <1>4, <1>5, <1>6, <1>7, <1>8

\* The digits of a number, and what is beyond them.
\* What Digits, struct.pack for one number, makes of a number.
LEMMA DigitsAre ==
  ASSUME NEW v \in Int
  PROVE  \E q \in Int, r \in Int :
           /\ q = v \div ByteBase /\ r = q \div ByteBase
           /\ v % ByteBase \in Digit /\ q % ByteBase \in Digit
           /\ r % ByteBase \in Digit /\ (r \div ByteBase) % ByteBase \in Digit
           /\ r \div ByteBase \in Int
           /\ Digits(v) = <<v % ByteBase, q % ByteBase, r % ByteBase, (r \div ByteBase) % ByteBase>>
<1> DEFINE q == v \div ByteBase
           r == q \div ByteBase
<1>0. ByteBase \in Nat \ {0}
  BY Base
<1>1. q \in Int /\ v % ByteBase \in Digit
  BY <1>0, Divides DEF Digit
<1>2. r \in Int /\ q % ByteBase \in Digit
  <2> HIDE DEF q
  <2> QED
    BY <1>0, <1>1, Divides DEF Digit
<1>3. r \div ByteBase \in Int /\ r % ByteBase \in Digit
  <2> HIDE DEF r
  <2> QED
    BY <1>0, <1>2, Divides DEF Digit
<1>4. (r \div ByteBase) % ByteBase \in Digit
  <2> HIDE DEF r
  <2> QED
    BY <1>0, <1>3, Divides DEF Digit
<1>5. Digits(v) = <<v % ByteBase, q % ByteBase, r % ByteBase, (r \div ByteBase) % ByteBase>>
  BY DEF Digits
<1> HIDE DEF q, r
<1> QED
  BY <1>1, <1>2, <1>3, <1>4, <1>5 DEF q, r

LEMMA FieldIs ==
  ASSUME NEW f \in Fields
  PROVE  /\ f.bytes \in {1, 2, 4} /\ f.lo \in Int /\ f.hi \in Int
         /\ f.bytes # 2 => f.lo >= 0
         /\ f.lo < 0 => f.bytes = 2 /\ f.lo = -(WORDS \div 2) /\ f.hi = WORDS \div 2 - 1
         /\ f.lo >= 0 => f.hi <= Largest(f.bytes)
<1> DEFINE lo == f.lo
           bytes == f.bytes
<1>1. lo \in Int /\ (lo < 0 => bytes = 2)
  BY DEF Fields
<1> HIDE DEF lo, bytes
<1>2. bytes # 2 => lo >= 0
  BY <1>1
<1> QED
  BY <1>2 DEF Fields, lo, bytes

\* A field on the wire, by what is at each place.
\* The bytes of a packed field.
LEMMA PackedAre ==
  ASSUME NEW f \in Fields, NEW v \in Int
  PROVE  /\ PackField(f, v) \in Text(Digit) /\ Size(PackField(f, v)) = f.bytes
         /\ At(PackField(f, v), 1) = v % ByteBase
         /\ f.bytes >= 2 => At(PackField(f, v), 2) = (v \div ByteBase) % ByteBase
         /\ f.bytes = 4 =>
              /\ At(PackField(f, v), 3) = ((v \div ByteBase) \div ByteBase) % ByteBase
              /\ At(PackField(f, v), 4) = (((v \div ByteBase) \div ByteBase) \div ByteBase) % ByteBase
<1> DEFINE d == Digits(v)
           t == PackField(f, v)
<1>1. PICK q \in Int, r \in Int :
           /\ q = v \div ByteBase /\ r = q \div ByteBase
           /\ v % ByteBase \in Digit /\ q % ByteBase \in Digit
           /\ r % ByteBase \in Digit /\ (r \div ByteBase) % ByteBase \in Digit
           /\ r \div ByteBase \in Int
           /\ d = <<v % ByteBase, q % ByteBase, r % ByteBase, (r \div ByteBase) % ByteBase>>
  BY DigitsAre
<1>2. PICK d1 \in Digit, d2 \in Digit, d3 \in Digit, d4 \in Digit :
        /\ d1 = v % ByteBase /\ d2 = q % ByteBase
        /\ d3 = r % ByteBase /\ d4 = (r \div ByteBase) % ByteBase
  BY <1>1
<1>3. d = <<d1, d2, d3, d4>>
  BY <1>1, <1>2
<1> HIDE DEF d
<1>4. d \in Text(Digit) /\ Size(d) = 4 /\ At(d, 1) = d1 /\ At(d, 2) = d2 /\ At(d, 3) = d3 /\ At(d, 4) = d4
  <2>1. <<d1, d2, d3, d4>> \in Seq(Digit) /\ Len(<<d1, d2, d3, d4>>) = 4
    OBVIOUS
  <2> QED
    BY <1>3, <2>1 DEF Text, Size, At
<1>5. f.bytes \in {1, 2, 4}
  BY DEF Fields
<1>6. Fronts(t, d, f.bytes)
  BY DEF Fronts, PackField, d
<1> HIDE DEF t
<1>7. t \in Text(Digit) /\ Size(t) = f.bytes /\ \A i \in 1 .. f.bytes : At(t, i) = At(d, i)
  BY <1>4, <1>5, <1>6, FrontIs
<1>8. /\ At(t, 1) = d1 /\ (f.bytes >= 2 => At(t, 2) = d2)
      /\ f.bytes = 4 => At(t, 3) = d3 /\ At(t, 4) = d4
  <2>1. PICK n \in {1, 2, 4} : n = f.bytes
    BY <1>5
  <2>2. \A i \in 1 .. n : At(t, i) = At(d, i)
    BY <1>7, <2>1
  <2>3. At(t, 1) = d1 /\ (n >= 2 => At(t, 2) = d2) /\ (n = 4 => At(t, 3) = d3 /\ At(t, 4) = d4)
    BY <1>4, <2>2
  <2> QED
    BY <2>1, <2>3
<1> DEFINE e1 == v % ByteBase
           e2 == (v \div ByteBase) % ByteBase
           e3 == ((v \div ByteBase) \div ByteBase) % ByteBase
           e4 == (((v \div ByteBase) \div ByteBase) \div ByteBase) % ByteBase
<1>9. d1 = e1 /\ d2 = e2 /\ d3 = e3 /\ d4 = e4
  <2>1. q = v \div ByteBase /\ r = q \div ByteBase
    BY <1>1
  <2>2. r = (v \div ByteBase) \div ByteBase
    BY <2>1, Zenon
  <2>3. d1 = e1 /\ d2 = e2
    BY <1>2, <2>1, Zenon
  <2>4. d3 = e3
    BY <1>2, <2>2, Zenon
  <2>5. d4 = e4
    BY <1>2, <2>2, Zenon
  <2> QED
    BY <2>3, <2>4, <2>5
<1> HIDE DEF e1, e2, e3, e4
<1>10. /\ At(t, 1) = e1 /\ (f.bytes >= 2 => At(t, 2) = e2)
       /\ f.bytes = 4 => At(t, 3) = e3 /\ At(t, 4) = e4
  BY <1>8, <1>9
<1> QED
  BY <1>7, <1>10 DEF t, e1, e2, e3, e4

\* What a list of bytes stands for.
LEMMA UnsignedIs ==
  ASSUME NEW t \in Text(Digit), Size(t) \in {1, 2, 4}
  PROVE  /\ Size(t) = 1 => Unsigned(t) = At(t, 1)
         /\ Size(t) = 2 => Unsigned(t) = At(t, 1) + ByteBase * At(t, 2)
         /\ Size(t) = 4 => Unsigned(t) =
              At(t, 1) + ByteBase * (At(t, 2) + ByteBase * (At(t, 3) + ByteBase * At(t, 4)))
         /\ \A i \in 1 .. Size(t) : At(t, i) \in Digit
<1> DEFINE Byte(k) == IF k \in DOMAIN t THEN t[k] ELSE 0
<1>1. Unsigned(t) = Byte(1) + ByteBase * (Byte(2) + ByteBase * (Byte(3) + ByteBase * Byte(4)))
  BY DEF Unsigned
<1>2. DOMAIN t = 1 .. Size(t) /\ \A i \in 1 .. Size(t) : At(t, i) \in Digit
  BY TextIs DEF Size, Text
<1>3. \A k \in 1 .. Size(t) : Byte(k) = At(t, k)
  BY <1>2 DEF At
<1>4. \A k : k \notin 1 .. Size(t) => Byte(k) = 0
  BY <1>2
<1> HIDE DEF Byte
<1>5. ByteBase \in Nat /\ Digit \subseteq Nat /\ ByteBase * 0 = 0 /\ ByteBase * (0 + ByteBase * (0 + 0)) = 0
  BY Base DEF Digit
<1>6. CASE Size(t) = 1
  <2>1. Byte(1) = At(t, 1) /\ Byte(2) = 0 /\ Byte(3) = 0 /\ Byte(4) = 0
    BY <1>3, <1>4, <1>6
  <2>2. At(t, 1) \in Nat
    BY <1>2, <1>6, Base DEF Digit
  <2> QED
    BY <1>1, <1>2, <1>5, <1>6, <2>1, <2>2
<1>7. CASE Size(t) = 2
  <2>1. Byte(1) = At(t, 1) /\ Byte(2) = At(t, 2) /\ Byte(3) = 0 /\ Byte(4) = 0
    BY <1>3, <1>4, <1>7
  <2>2. At(t, 1) \in Nat /\ At(t, 2) \in Nat
    BY <1>2, <1>7, Base DEF Digit
  <2> QED
    BY <1>1, <1>2, <1>5, <1>7, <2>1, <2>2
<1>8. CASE Size(t) = 4
  <2>1. Byte(1) = At(t, 1) /\ Byte(2) = At(t, 2) /\ Byte(3) = At(t, 3) /\ Byte(4) = At(t, 4)
    BY <1>3, <1>4, <1>8
  <2> QED
    BY <1>1, <1>2, <1>8, <2>1
<1> QED
  BY <1>2, <1>6, <1>7, <1>8

\* Numbers with so many digits are below the power of the base.
LEMMA Fills ==
  ASSUME NEW n \in Nat, NEW d \in Digit, NEW x \in 0 .. n - 1
  PROVE  d + ByteBase * x \in 0 .. ByteBase * n - 1
<1>1. ByteBase \in Nat /\ d \in 0 .. ByteBase - 1 /\ x \in Int /\ 0 <= x /\ x <= n - 1
  BY Base DEF Digit
<1>2. /\ ByteBase * x \in Int /\ ByteBase * 0 <= ByteBase * x
      /\ ByteBase * x <= ByteBase * (n - 1) /\ ByteBase * (n - 1) = ByteBase * n - ByteBase * 1
      /\ ByteBase * n \in Int
  BY <1>1, Products
<1> QED
  BY <1>1, <1>2

\* What is read from so many bytes.
LEMMA UnsignedRange ==
  ASSUME NEW t \in Text(Digit), Size(t) \in {1, 2, 4}
  PROVE  Unsigned(t) \in 0 .. Largest(Size(t))
<1>0. ByteBase \in Nat /\ Digit = 0 .. ByteBase - 1 /\ \A i \in 1 .. Size(t) : At(t, i) \in Digit
  BY Base, UnsignedIs DEF Digit
<1>1. CASE Size(t) = 1
  <2>1. Unsigned(t) \in Digit /\ Largest(Size(t)) = ByteBase - 1
    BY <1>0, <1>1, UnsignedIs DEF Largest
  <2> QED
    BY <1>0, <2>1
<1>2. CASE Size(t) = 2
  <2>1. At(t, 1) \in Digit /\ At(t, 2) \in 0 .. ByteBase - 1
    BY <1>0, <1>2
  <2>2. At(t, 1) + ByteBase * At(t, 2) \in 0 .. ByteBase * ByteBase - 1
    BY <1>0, <2>1, Fills
  <2> QED
    BY <1>2, <2>2, UnsignedIs, Words DEF Largest
<1>3. CASE Size(t) = 4
  <2>1. At(t, 1) \in Digit /\ At(t, 2) \in Digit /\ At(t, 3) \in Digit /\ At(t, 4) \in 0 .. ByteBase - 1
    BY <1>0, <1>3
  <2> DEFINE x == At(t, 3) + ByteBase * At(t, 4)
             y == At(t, 2) + ByteBase * x
             m == ByteBase * ByteBase
             n == ByteBase * m
  <2>2. x \in 0 .. m - 1 /\ m \in Nat
    BY <1>0, <2>1, Fills, Words
  <2> HIDE DEF x, m
  <2>3. y \in 0 .. n - 1
    BY <1>0, <2>1, <2>2, Fills
  <2>4. n \in Nat
    <3>1. ByteBase * 0 <= ByteBase * m /\ ByteBase * m \in Int
      BY <1>0, <2>2, Products
    <3> QED
      BY <1>0, <3>1
  <2> HIDE DEF y, n
  <2>5. At(t, 1) + ByteBase * y \in 0 .. ByteBase * n - 1
    BY <1>0, <2>1, <2>3, <2>4, Fills
  <2>6. Unsigned(t) = At(t, 1) + ByteBase * y
    BY <1>3, UnsignedIs DEF x, y
  <2>7. ByteBase * n = WORDS * WORDS
    BY Words DEF m, n
  <2>8. Largest(Size(t)) = WORDS * WORDS - 1
    BY <1>3 DEF Largest
  <2> QED
    BY <2>5, <2>6, <2>7, <2>8
<1> QED
  BY <1>1, <1>2, <1>3

\* Bytes that are read and written again are the same.
\* Packing what was unpacked gives the same bytes back.
LEMMA FieldBack ==
  ASSUME NEW f \in Fields, NEW t \in Text(Digit), Size(t) = f.bytes
  PROVE  UnpackField(f, t) \in Int /\ PackField(f, UnpackField(f, t)) = t
<1> DEFINE v == UnpackField(f, t)
           u == Unsigned(t)
           s == PackField(f, v)
<1>0. Size(t) \in {1, 2, 4} /\ ByteBase \in Nat \ {0} /\ Digit = 0 .. ByteBase - 1
  BY Base DEF Fields, Digit
<1>1. u \in Nat
  BY <1>0, UnsignedRange
<1>2. v \in Int /\ (v = u \/ v = u - WORDS) /\ (f.lo >= 0 => v = u)
  <2>1. f.lo \in Int
    BY DEF Fields
  <2>2. v = IF f.lo < 0 /\ u > f.hi THEN u - WORDS ELSE u
    BY DEF UnpackField
  <2> HIDE DEF u, v
  <2> QED
    BY <1>1, <2>1, <2>2, Words
<1>3. \A i \in 1 .. Size(t) : At(t, i) \in Digit /\ At(t, i) \in Nat
  BY <1>0, UnsignedIs
<1>4. /\ s \in Text(Digit) /\ Size(s) = Size(t)
      /\ At(s, 1) = v % ByteBase
      /\ Size(t) >= 2 => At(s, 2) = (v \div ByteBase) % ByteBase
      /\ Size(t) = 4 =>
           /\ At(s, 3) = ((v \div ByteBase) \div ByteBase) % ByteBase
           /\ At(s, 4) = (((v \div ByteBase) \div ByteBase) \div ByteBase) % ByteBase
  BY <1>2, PackedAre
<1> SUFFICES s = t
  BY <1>2
<1> HIDE DEF s, v, u
<1>5. CASE Size(t) = 1
  <2>1. f.lo >= 0
    <3>1. f.bytes # 2
      BY <1>5
    <3> QED
      BY <3>1, FieldIs
  <2>2. v = At(t, 1) + ByteBase * 0 /\ At(t, 1) \in Digit
    BY <1>0, <1>2, <1>3, <1>5, <2>1, UnsignedIs DEF u
  <2>3. At(s, 1) = At(t, 1)
    BY <1>0, <1>4, <2>2, DigitFirst
  <2> QED
    BY <1>4, <1>5, <2>3, TextEqual
<1>6. CASE Size(t) = 2
  <2>1. /\ At(t, 1) \in 0 .. ByteBase - 1 /\ At(t, 2) \in 0 .. ByteBase - 1
        /\ u = At(t, 1) + ByteBase * At(t, 2)
    BY <1>0, <1>3, <1>6, UnsignedIs DEF u
  <2>2. PICK x \in Int : v = At(t, 1) + ByteBase * (At(t, 2) + ByteBase * x)
    <3>1. CASE v = u
      <4>1. v = At(t, 1) + ByteBase * (At(t, 2) + ByteBase * 0)
        BY <1>0, <2>1, <3>1
      <4> QED
        BY <4>1
    <3>2. CASE v = u - WORDS
      <4>0. WORDS = ByteBase * ByteBase
        BY Words
      <4>1. v = At(t, 1) + ByteBase * (At(t, 2) + ByteBase * (-1))
        BY <1>0, <2>1, <3>2, <4>0
      <4> QED
        BY <4>1
    <3> QED
      BY <1>2, <3>1, <3>2
  <2>3. At(t, 2) + ByteBase * x \in Int
    BY <1>0, <2>1
  <2>4. v % ByteBase = At(t, 1) /\ v \div ByteBase = At(t, 2) + ByteBase * x
    BY <1>0, <2>1, <2>2, <2>3, DigitFirst
  <2>5. (v \div ByteBase) % ByteBase = At(t, 2)
    BY <1>0, <2>1, <2>4, DigitFirst
  <2>6. Size(s) = 2 /\ At(s, 1) = At(t, 1) /\ At(s, 2) = At(t, 2)
    BY <1>4, <1>6, <2>4, <2>5
  <2>7. \A i \in 1 .. 2 : At(s, i) = At(t, i)
    BY <2>6
  <2> QED
    BY <1>4, <1>6, <2>6, <2>7, TextEqual
<1>7. CASE Size(t) = 4
  <2>0. f.lo >= 0
    <3>1. f.bytes # 2
      BY <1>7
    <3> QED
      BY <3>1, FieldIs
  <2> DEFINE x == At(t, 3) + ByteBase * (At(t, 4) + ByteBase * 0)
             y == At(t, 2) + ByteBase * x
  <2>1. /\ At(t, 1) \in 0 .. ByteBase - 1 /\ At(t, 2) \in 0 .. ByteBase - 1
        /\ At(t, 3) \in 0 .. ByteBase - 1 /\ At(t, 4) \in 0 .. ByteBase - 1
        /\ v = At(t, 1) + ByteBase * y
    BY <1>0, <1>2, <1>3, <1>7, <2>0, UnsignedIs DEF u
  <2>2. At(t, 4) + ByteBase * 0 \in Int /\ x \in Int
    BY <1>0, <2>1
  <2>3. y \in Int
    <3> HIDE DEF x
    <3> QED
      BY <1>0, <2>1, <2>2
  <2> HIDE DEF x, y
  <2>4. v % ByteBase = At(t, 1) /\ v \div ByteBase = y
    BY <1>0, <2>1, <2>3, DigitFirst
  <2>5. y % ByteBase = At(t, 2) /\ y \div ByteBase = x
    BY <1>0, <2>1, <2>2, DigitFirst DEF y
  <2>6. x % ByteBase = At(t, 3) /\ x \div ByteBase = At(t, 4) + ByteBase * 0
    BY <1>0, <2>1, <2>2, DigitFirst DEF x
  <2>7. (x \div ByteBase) % ByteBase = At(t, 4)
    BY <1>0, <2>1, <2>6, DigitFirst
  <2>8. Size(s) = 4 /\ At(s, 1) = At(t, 1) /\ At(s, 2) = At(t, 2) /\ At(s, 3) = At(t, 3) /\ At(s, 4) = At(t, 4)
    BY <1>4, <1>7, <2>4, <2>5, <2>6, <2>7
  <2>9. \A i \in 1 .. 4 : At(s, i) = At(t, i)
    BY <2>8
  <2> QED
    BY <1>4, <1>7, <2>8, <2>9, TextEqual
<1> QED
  BY <1>0, <1>5, <1>6, <1>7

LEMMA DigitAlone ==
  ASSUME NEW b \in Nat \ {0}, NEW d \in 0 .. b - 1
  PROVE  d % b = d
<1>1. d = d + b * 0 /\ 0 \in Int
  OBVIOUS
<1> QED
  BY <1>1, DigitFirst

LEMMA PowersAre ==
  ASSUME NEW b \in Nat
  PROVE  b * b \in Nat /\ b * (b * b) \in Nat
<1>1. b * 0 <= b * b /\ b * b \in Int
  BY Products
<1> DEFINE m == b * b
<1>2. m \in Nat
  BY <1>1
<1> HIDE DEF m
<1>3. b * 0 <= b * m /\ b * m \in Int
  BY <1>2, Products
<1>4. b * m \in Nat
  BY <1>3
<1> QED
  BY <1>2, <1>4 DEF m

\* A number that fits its field is the number read.
\* Unpacking what was packed gives the same number back, if it fits.
LEMMA FieldRound ==
  ASSUME NEW f \in Fields, NEW v \in f.lo .. f.hi
  PROVE  UnpackField(f, PackField(f, v)) = v
<1> DEFINE t == PackField(f, v)
           u == Unsigned(t)
           q == v \div ByteBase
<1>0. ByteBase \in Nat \ {0} /\ 1 \in Nat /\ f.lo \in Int /\ f.hi \in Int
  BY Base, FieldIs
<1>1. v \in Int /\ f.lo <= v /\ v <= f.hi
  BY <1>0
<1>2. /\ t \in Text(Digit) /\ Size(t) = f.bytes /\ f.bytes \in {1, 2, 4}
      /\ At(t, 1) = v % ByteBase
      /\ f.bytes >= 2 => At(t, 2) = q % ByteBase
      /\ f.bytes = 4 => At(t, 3) = (q \div ByteBase) % ByteBase
                        /\ At(t, 4) = ((q \div ByteBase) \div ByteBase) % ByteBase
  BY <1>1, PackedAre, FieldIs
<1>3. UnpackField(f, t) = IF f.lo < 0 /\ u > f.hi THEN u - WORDS ELSE u
  BY DEF UnpackField
<1> HIDE DEF t
<1>4. u \in Nat
  BY <1>2, UnsignedRange
<1>5. v % ByteBase \in 0 .. ByteBase - 1 /\ q \in Int /\ v = ByteBase * q + (v % ByteBase)
  BY <1>0, <1>1, Divides
<1>6. CASE f.lo >= 0
  <2>0. 0 <= v /\ v <= Largest(f.bytes)
    <3>1. f.hi <= Largest(f.bytes) /\ Largest(f.bytes) \in Int
      BY <1>0, <1>2, <1>6, FieldIs, Words DEF Largest
    <3> QED
      BY <1>0, <1>1, <1>6, <3>1
  <2>1. u = v
    <3>1. CASE Size(t) = 1
      <4>1. v \in 0 .. ByteBase * 1 - 1
        <5>1. v <= ByteBase - 1
          BY <1>2, <2>0, <3>1 DEF Largest
        <5> QED
          BY <1>0, <1>1, <2>0, <5>1
      <4>2. q \in 0 .. 1 - 1
        BY <1>0, <4>1, QuotientIn
      <4>3. q = 0
        BY <4>2
      <4> HIDE DEF q
      <4>4. v % ByteBase = v
        BY <1>0, <1>1, <1>5, <4>3
      <4> QED
        BY <1>2, <3>1, <4>4, UnsignedIs
    <3>2. CASE Size(t) = 2
      <4>1. v \in 0 .. ByteBase * ByteBase - 1
        <5>1. v <= ByteBase * ByteBase - 1
          BY <1>2, <2>0, <3>2, Words DEF Largest
        <5> QED
          BY <1>0, <1>1, <2>0, <5>1, Products
      <4>2. q \in 0 .. ByteBase - 1
        BY <1>0, <4>1, QuotientIn
      <4> HIDE DEF q
      <4>3. q % ByteBase = q
        BY <1>0, <4>2, DigitAlone
      <4>4. At(t, 1) = v % ByteBase /\ At(t, 2) = q /\ u = At(t, 1) + ByteBase * At(t, 2)
        BY <1>2, <3>2, <4>3, UnsignedIs
      <4> HIDE DEF u
      <4> QED
        BY <1>0, <1>1, <1>5, <4>4
    <3>3. CASE Size(t) = 4
      <4> DEFINE x == q \div ByteBase
                 y == x \div ByteBase
      <4>1. v \in 0 .. ByteBase * (ByteBase * (ByteBase * ByteBase)) - 1
        <5>1. v <= WORDS * WORDS - 1
          BY <1>2, <2>0, <3>3 DEF Largest
        <5> QED
          BY <1>1, <2>0, <5>1, Words
      <4>2. ByteBase * ByteBase \in Nat /\ ByteBase * (ByteBase * ByteBase) \in Nat
        BY <1>0, PowersAre
      <4>3. q \in 0 .. ByteBase * (ByteBase * ByteBase) - 1
        <5> DEFINE n == ByteBase * (ByteBase * ByteBase)
        <5>1. v \in 0 .. ByteBase * n - 1 /\ n \in Nat
          BY <4>1, <4>2
        <5> HIDE DEF n
        <5>2. v \div ByteBase \in 0 .. n - 1
          BY <1>0, <5>1, QuotientIn
        <5> QED
          BY <5>2 DEF n
      <4> HIDE DEF q
      <4>4. x \in 0 .. ByteBase * ByteBase - 1
        <5> DEFINE n == ByteBase * ByteBase
        <5>1. q \in 0 .. ByteBase * n - 1 /\ n \in Nat
          BY <4>2, <4>3
        <5> HIDE DEF n
        <5>2. q \div ByteBase \in 0 .. n - 1
          BY <1>0, <5>1, QuotientIn
        <5> QED
          BY <5>2 DEF n
      <4>5. q \in Int /\ q % ByteBase \in 0 .. ByteBase - 1 /\ q = ByteBase * x + (q % ByteBase)
        BY <1>0, <1>5, Divides
      <4> HIDE DEF x
      <4>6. y \in 0 .. ByteBase - 1
        BY <1>0, <4>4, QuotientIn
      <4>7. x \in Int /\ x % ByteBase \in 0 .. ByteBase - 1 /\ x = ByteBase * y + (x % ByteBase)
        <5>1. x \in Int
          BY <4>2, <4>4
        <5> QED
          BY <1>0, <5>1, Divides
      <4> HIDE DEF y
      <4>8. y % ByteBase = y
        BY <1>0, <4>6, DigitAlone
      <4> DEFINE a == v % ByteBase
                 b == q % ByteBase
                 c == x % ByteBase
      <4>9. /\ a \in Int /\ b \in Int /\ c \in Int /\ y \in Int
            /\ v = ByteBase * q + a /\ q = ByteBase * x + b /\ x = ByteBase * y + c
        BY <1>0, <1>5, <4>5, <4>6, <4>7
      <4>10. At(t, 1) = a /\ At(t, 2) = b /\ At(t, 3) = c /\ At(t, 4) = y
        BY <1>2, <3>3, <4>8 DEF x, y
      <4>11. u = At(t, 1) + ByteBase * (At(t, 2) + ByteBase * (At(t, 3) + ByteBase * At(t, 4)))
        BY <1>2, <3>3, UnsignedIs
      <4> HIDE DEF a, b, c, u
      <4>12. u = a + ByteBase * (b + ByteBase * (c + ByteBase * y))
        BY <4>10, <4>11
      <4>13. c + ByteBase * y = x
        BY <1>0, <4>9
      <4>14. b + ByteBase * x = q
        BY <1>0, <4>7, <4>9
      <4>15. a + ByteBase * q = v
        BY <1>0, <4>5, <4>9
      <4> QED
        BY <4>12, <4>13, <4>14, <4>15
    <3> QED
      BY <1>2, <3>1, <3>2, <3>3
  <2> HIDE DEF u
  <2> QED
    BY <1>0, <1>3, <1>6, <2>1 DEF t
<1>7. CASE f.lo < 0
  <2>0. f.bytes = 2 /\ f.lo = -(WORDS \div 2) /\ f.hi = WORDS \div 2 - 1
    BY <1>7, FieldIs
  <2> DEFINE h == WORDS \div 2
  <2>1. h \in Nat /\ WORDS = 2 * h /\ -h <= v /\ v <= h - 1 /\ WORDS = ByteBase * ByteBase
    BY <1>1, <2>0, Words
  <2> HIDE DEF h
  <2>2. At(t, 1) = v % ByteBase /\ At(t, 2) = q % ByteBase /\ u = At(t, 1) + ByteBase * At(t, 2)
    BY <1>2, <2>0, UnsignedIs
  <2>3. CASE v >= 0
    <3>1. v \in 0 .. ByteBase * ByteBase - 1
      BY <1>1, <2>1, <2>3
    <3>2. q \in 0 .. ByteBase - 1
      BY <1>0, <3>1, QuotientIn
    <3> HIDE DEF q, u
    <3>3. q % ByteBase = q
      BY <1>0, <3>2, DigitAlone
    <3>4. u = v
      <4> DEFINE a == v % ByteBase
      <4>1. a \in Int /\ q \in Int /\ v = ByteBase * q + a
        BY <1>0, <1>5
      <4>2. At(t, 1) = a /\ At(t, 2) = q
        BY <2>2, <3>3
      <4> HIDE DEF a
      <4>3. u = a + ByteBase * q
        BY <2>2, <4>2
      <4> QED
        BY <1>0, <4>1, <4>3
    <3> QED
      BY <1>3, <2>0, <2>1, <3>4 DEF h, t
  <2>4. CASE v < 0
    <3> DEFINE w == v + WORDS
               a == v % ByteBase
    <3>1. w \in 0 .. ByteBase * ByteBase - 1
      BY <1>1, <2>1, <2>4
    <3>2. w = a + ByteBase * (q + ByteBase) /\ a \in 0 .. ByteBase - 1 /\ q + ByteBase \in Int
      <4> HIDE DEF q
      <4> QED
        BY <1>0, <1>1, <1>5, <2>1
    <3> HIDE DEF w
    <3>3. w \div ByteBase = q + ByteBase
      BY <1>0, <3>2, DigitFirst
    <3>4. w \div ByteBase \in 0 .. ByteBase - 1
      BY <1>0, <3>1, QuotientIn
    <3>5. q + ByteBase \in 0 .. ByteBase - 1
      BY <3>3, <3>4
    <3> HIDE DEF q, a
    <3>6. q = (q + ByteBase) + ByteBase * (-1)
      BY <1>0, <1>5
    <3>7. q % ByteBase = q + ByteBase
      <4> DEFINE d == q + ByteBase
      <4>1. d \in 0 .. ByteBase - 1 /\ q = d + ByteBase * (-1) /\ -1 \in Int
        BY <3>5, <3>6
      <4> HIDE DEF d
      <4>2. q % ByteBase = d
        BY <1>0, <4>1, DigitFirst
      <4> QED
        BY <4>2 DEF d
    <3>8. u = w
      <4> HIDE DEF u
      <4> QED
        BY <2>2, <3>2, <3>7 DEF a
    <3> HIDE DEF u
    <3>9. u = v + WORDS
      BY <3>8 DEF w
    <3> QED
      BY <1>1, <1>3, <1>7, <2>0, <2>1, <2>4, <3>9 DEF h, t
  <2> QED
    BY <1>1, <2>3, <2>4
<1> QED
  BY <1>0, <1>6, <1>7

\* What is read from the bytes of a signed field fits it; other fields are read as
\* they are.
LEMMA FieldRange ==
  ASSUME NEW f \in Fields, NEW t \in Text(Digit), Size(t) = f.bytes
  PROVE  /\ f.lo < 0 => UnpackField(f, t) \in f.lo .. f.hi
         /\ f.lo >= 0 => UnpackField(f, t) = Unsigned(t) /\ Unsigned(t) \in 0 .. Largest(f.bytes)
<1> DEFINE u == Unsigned(t)
<1>0. f.lo \in Int /\ f.hi \in Int /\ f.bytes \in {1, 2, 4}
  BY FieldIs
<1>1. u \in 0 .. Largest(f.bytes)
  BY <1>0, UnsignedRange
<1>2. UnpackField(f, t) = IF f.lo < 0 /\ u > f.hi THEN u - WORDS ELSE u
  BY DEF UnpackField
<1> HIDE DEF u
<1>3. CASE f.lo < 0
  <2> DEFINE h == WORDS \div 2
  <2>1. f.bytes = 2 /\ f.lo = -h /\ f.hi = h - 1 /\ h \in Nat /\ WORDS = 2 * h
    BY <1>3, FieldIs, Words
  <2>2. u \in 0 .. WORDS - 1
    BY <1>1, <2>1 DEF Largest
  <2> HIDE DEF h
  <2> QED
    BY <1>2, <1>3, <2>1, <2>2
<1>4. CASE f.lo >= 0
  BY <1>0, <1>1, <1>2, <1>4 DEF u
<1> QED
  BY <1>0, <1>3, <1>4

---------------------------------------------------------------------------
(* Texts end to end.                                                       *)

\* The function at tells where the texts end.
Ends(at, texts) ==
  /\ At(at, 0) = 0
  /\ \A k \in 1 .. Size(texts) : At(at, k) = At(at, k - 1) + Size(At(texts, k))

\* What is at each place of the first n texts together
Places(S, at, texts, n, whole) ==
  /\ whole \in Text(S) /\ Size(whole) = At(at, n) /\ At(at, n) \in Nat
  /\ \A k \in 1 .. n : At(at, k - 1) \in Nat /\ At(at, k) \in Nat /\ At(at, k) <= At(at, n)
  /\ \A k \in 1 .. n : \A i \in 1 .. Size(At(texts, k)) :
       At(whole, At(at, k - 1) + i) = At(At(texts, k), i)

LEMMA NextPlaces ==
  ASSUME NEW S, NEW texts \in Text(Text(S)), NEW at, Ends(at, texts), NEW n \in Nat,
         n + 1 <= Size(texts), NEW whole, Places(S, at, texts, n, whole),
         NEW longer, Joins(longer, whole, At(texts, n + 1))
  PROVE  Places(S, at, texts, n + 1, longer)
<1> DEFINE t == At(texts, n + 1)
           a == At(at, n)
           b == At(at, n + 1)
<1>0. Size(texts) \in Nat /\ n + 1 \in 1 .. Size(texts) /\ (n + 1) - 1 = n /\ \A k \in 1 .. Size(texts) : At(texts, k) \in Text(S)
  BY TextIs
<1>1. t \in Text(S) /\ Size(t) \in Nat
  BY <1>0, TextIs
<1>2. a \in Nat /\ whole \in Text(S) /\ Size(whole) = a
  BY DEF Places
<1>3. b = a + Size(t)
  BY <1>0 DEF Ends
<1> HIDE DEF t, a, b
<1>4. /\ longer \in Text(S) /\ Size(longer) = b /\ b \in Nat /\ a <= b
      /\ \A i \in 1 .. a : At(longer, i) = At(whole, i)
      /\ \A i \in 1 .. Size(t) : At(longer, a + i) = At(t, i)
  BY <1>1, <1>2, <1>3, JoinIs DEF t
<1>5. ASSUME NEW k \in 1 .. n + 1
      PROVE  At(at, k - 1) \in Nat /\ At(at, k) \in Nat /\ At(at, k) <= b
  <2>1. CASE k = n + 1
    <3>1. k - 1 = n
      BY <2>1
    <3> QED
      BY <1>2, <1>4, <2>1, <3>1 DEF a, b
  <2>2. CASE k \in 1 .. n
    <3>1. At(at, k - 1) \in Nat /\ At(at, k) \in Nat /\ At(at, k) <= a
      BY <2>2 DEF Places, a
    <3> QED
      BY <1>2, <1>4, <3>1
  <2> QED
    BY <2>1, <2>2
<1>6. ASSUME NEW k \in 1 .. n + 1, NEW i \in 1 .. Size(At(texts, k))
      PROVE  At(longer, At(at, k - 1) + i) = At(At(texts, k), i)
  <2>1. CASE k = n + 1
    <3>1. k - 1 = n /\ At(at, k - 1) = a /\ At(texts, k) = t
      BY <2>1 DEF a, t
    <3> QED
      BY <1>4, <3>1
  <2>2. CASE k \in 1 .. n
    <3>1. k \in 1 .. Size(texts)
      BY <1>0, <2>2
    <3>2. At(at, k) = At(at, k - 1) + Size(At(texts, k)) /\ Size(At(texts, k)) \in Nat
      BY <1>0, <3>1, TextIs DEF Ends
    <3>3. At(at, k - 1) \in Nat /\ At(at, k) <= a
      BY <2>2 DEF Places, a
    <3>4. At(at, k - 1) + i \in 1 .. a
      BY <1>2, <3>2, <3>3
    <3>5. At(whole, At(at, k - 1) + i) = At(At(texts, k), i)
      BY <2>2 DEF Places
    <3> QED
      BY <1>4, <3>4, <3>5
  <2> QED
    BY <2>1, <2>2
<1>7. Size(longer) = At(at, n + 1) /\ At(at, n + 1) \in Nat /\ \A k \in 1 .. n + 1 : At(at, k) <= At(at, n + 1)
  BY <1>4, <1>5 DEF b
<1> QED
  BY <1>4, <1>5, <1>6, <1>7 DEF Places

\* Texts that are put together keep their places, and there is nothing between them.
LEMMA FlattenPlaces ==
  ASSUME NEW S, NEW texts \in Text(Text(S)), NEW at, Ends(at, texts)
  PROVE  Places(S, at, texts, Size(texts), FlattenSeq(texts))
<1> DEFINE T == {n \in Nat : n <= Size(texts) =>
                   Places(S, at, texts, n, FlattenSeq(SubSeq(texts, 1, n)))}
<1>0. Size(texts) \in Nat /\ texts \in Seq(Text(S)) /\ Len(texts) = Size(texts)
  BY TextIs DEF Text, Size
<1>1. 0 \in T
  <2>1. SubSeq(texts, 1, 0) = <<>>
    BY <1>0
  <2>2. <<>> \in Text(S) /\ Size(<<>>) = 0 /\ At(at, 0) = 0 /\ 0 \in Nat
    BY EmptyText DEF Ends
  <2>3. \A k \in 1 .. 0 : FALSE
    OBVIOUS
  <2>4. Places(S, at, texts, 0, <<>>)
    BY <2>2, <2>3 DEF Places
  <2>5. FlattenSeq(SubSeq(texts, 1, 0)) = <<>>
    BY <2>1, FlattenEmpty
  <2> QED
    BY <2>4, <2>5
<1>2. ASSUME NEW n \in T PROVE n + 1 \in T
  <2> SUFFICES ASSUME n + 1 <= Size(texts)
               PROVE  Places(S, at, texts, n + 1, FlattenSeq(SubSeq(texts, 1, n + 1)))
    OBVIOUS
  <2> DEFINE whole == FlattenSeq(SubSeq(texts, 1, n))
             longer == FlattenSeq(SubSeq(texts, 1, n + 1))
             t == At(texts, n + 1)
  <2>1. n \in Nat /\ n <= Size(texts) /\ n + 1 \in 1 .. Size(texts)
    BY <1>0
  <2>2. Places(S, at, texts, n, whole)
    BY <2>1
  <2>3. SubSeq(texts, 1, n) \in Seq(Text(S)) /\ t \in Text(S)
    BY <1>0, <2>1 DEF At
  <2>4. SubSeq(texts, 1, n + 1) = Append(SubSeq(texts, 1, n), t)
    BY <1>0, <2>1 DEF At
  <2>5. longer = whole \o t
    BY <2>3, <2>4, FlattenAppend DEF Text
  <2>6. Joins(longer, whole, t)
    BY <2>5 DEF Joins
  <2> HIDE DEF whole, longer
  <2>7. Places(S, at, texts, n + 1, longer)
    BY <2>1, <2>2, <2>6, NextPlaces
  <2> QED
    BY <2>7 DEF longer
<1>3. T = Nat
  <2> HIDE DEF T
  <2>1. T \subseteq Nat
    BY DEF T
  <2> QED
    BY <1>1, <1>2, <2>1, EveryNumber
<1>4. Places(S, at, texts, Size(texts), FlattenSeq(SubSeq(texts, 1, Size(texts))))
  BY <1>0, <1>3
<1>5. SubSeq(texts, 1, Size(texts)) = texts
  BY <1>0
<1> QED
  BY <1>4, <1>5

\* Every place belongs to a text.
LEMMA EveryPlace ==
  ASSUME NEW S, NEW texts \in Text(Text(S)), NEW at, Ends(at, texts)
  PROVE  \A p \in 1 .. At(at, Size(texts)) : \E k \in 1 .. Size(texts) :
           \E i \in 1 .. Size(At(texts, k)) : p = At(at, k - 1) + i
<1> DEFINE Found(p) == \E k \in 1 .. Size(texts) :
                         \E i \in 1 .. Size(At(texts, k)) : p = At(at, k - 1) + i
           T == {n \in Nat : n <= Size(texts) => \A p \in 1 .. At(at, n) : Found(p)}
<1>0. Size(texts) \in Nat /\ At(at, 0) = 0
  BY TextIs DEF Ends
<1> HIDE DEF Found
<1>1. 0 \in T
  BY <1>0
<1>2. ASSUME NEW n \in T PROVE n + 1 \in T
  <2> SUFFICES ASSUME n + 1 <= Size(texts), NEW p \in 1 .. At(at, n + 1) PROVE Found(p)
    OBVIOUS
  <2>1. n \in Nat /\ n <= Size(texts) /\ n + 1 \in 1 .. Size(texts) /\ (n + 1) - 1 = n
    BY <1>0
  <2>2. \A q \in 1 .. At(at, n) : Found(q)
    BY <2>1
  <2> HIDE DEF T
  <2> DEFINE a == At(at, n)
             b == At(at, n + 1)
             m == Size(At(texts, n + 1))
  <2>3. Places(S, at, texts, Size(texts), FlattenSeq(texts))
    BY FlattenPlaces
  <2>4. a \in Nat /\ b \in Nat /\ m \in Nat /\ b = a + m
    <3>1. At(at, (n + 1) - 1) \in Nat /\ b \in Nat
      BY <2>1, <2>3 DEF Places
    <3>2. m \in Nat
      BY <2>1, TextIs
    <3>3. b = At(at, (n + 1) - 1) + m
      BY <2>1 DEF Ends
    <3> QED
      BY <2>1, <3>1, <3>2, <3>3
  <2>5. CASE p \in 1 .. a
    BY <2>2, <2>5
  <2>6. CASE p \notin 1 .. a
    <3> HIDE DEF a, b, m
    <3>1. p \in Int /\ 1 <= p /\ p <= b
      BY <2>4 DEF b
    <3>2. p - a \in 1 .. m /\ p = a + (p - a)
      BY <2>4, <2>6, <3>1
    <3>3. \E i \in 1 .. m : p = a + i
      BY <3>2
    <3>4. \E i \in 1 .. Size(At(texts, n + 1)) : p = At(at, (n + 1) - 1) + i
      BY <2>1, <3>3 DEF a, m
    <3> QED
      BY <2>1, <3>4 DEF Found
  <2> QED
    BY <2>5, <2>6
<1>3. T = Nat
  <2> HIDE DEF T
  <2>1. T \subseteq Nat
    BY DEF T
  <2> QED
    BY <1>1, <1>2, <2>1, EveryNumber
<1> QED
  BY <1>0, <1>3 DEF Found

---------------------------------------------------------------------------
(* Layouts.                                                                *)

\* The local function of Offsets.
\* The offsets of a layout, which is a recursive function.
OffsetsIn(after, layout) ==
  after = [k \in 0 .. Len(layout) |-> IF k = 0 THEN 0 ELSE after[k - 1] + layout[k].bytes]

LEMMA OffsetsExist ==
  ASSUME NEW layout, Len(layout) \in Nat
  PROVE  OffsetsIn(Offsets(layout), layout)
<1> DEFINE Step(f, k) == IF k = 0 THEN 0 ELSE f[k - 1] + layout[k].bytes
           T == {n \in Nat : \E f : f = [k \in 0 .. n |-> Step(f, k)]}
<1>1. 0 \in T
  <2> DEFINE f == [k \in 0 .. 0 |-> 0]
  <2>1. f = [k \in 0 .. 0 |-> Step(f, k)]
    OBVIOUS
  <2> QED
    BY <2>1
<1>2. ASSUME NEW n \in T PROVE n + 1 \in T
  <2>1. PICK f : f = [k \in 0 .. n |-> Step(f, k)]
    OBVIOUS
  <2> DEFINE g == [k \in 0 .. n + 1 |-> IF k = n + 1 THEN Step(f, k) ELSE f[k]]
  <2>2. \A k \in 0 .. n + 1 : g[k] = Step(g, k)
    <3> TAKE k \in 0 .. n + 1
    <3>1. k # 0 => k - 1 \in 0 .. n /\ g[k - 1] = f[k - 1]
      OBVIOUS
    <3>2. g[k] = Step(f, k)
      <4>1. CASE k = n + 1
        BY <4>1
      <4>2. CASE k # n + 1
        <5>1. k \in 0 .. n
          BY <4>2
        <5> QED
          BY <2>1, <4>2, <5>1
      <4> QED
        BY <4>1, <4>2
    <3> QED
      BY <3>1, <3>2
  <2>3. g = [k \in 0 .. n + 1 |-> g[k]]
    OBVIOUS
  <2> HIDE DEF g, Step
  <2>4. g = [k \in 0 .. n + 1 |-> Step(g, k)]
    BY <2>2, <2>3
  <2> QED
    BY <2>4
<1>3. Len(layout) \in T
  <2> HIDE DEF T
  <2>1. T \subseteq Nat
    BY DEF T
  <2>2. T = Nat
    BY <1>1, <1>2, <2>1, EveryNumber
  <2> QED
    BY <2>2
<1>4. PICK f : OffsetsIn(f, layout)
  <2>1. PICK f : f = [k \in 0 .. Len(layout) |-> Step(f, k)]
    <3> HIDE DEF Step
    <3> QED
      BY <1>3
  <2> QED
    BY <2>1 DEF OffsetsIn
<1>5. Offsets(layout) = CHOOSE after : OffsetsIn(after, layout)
  BY DEF Offsets, OffsetsIn
<1> QED
  BY <1>4, <1>5

LEMMA OffsetsAre ==
  ASSUME NEW layout \in Text(Fields)
  PROVE  /\ At(Offsets(layout), 0) = 0
         /\ \A k \in 1 .. Size(layout) :
              /\ At(Offsets(layout), k) = At(Offsets(layout), k - 1) + At(layout, k).bytes
              /\ At(Offsets(layout), k - 1) \in Nat /\ At(layout, k).bytes \in Nat
              /\ At(layout, k) \in Fields
         /\ \A k \in 0 .. Size(layout) : At(Offsets(layout), k) \in Nat
         /\ SizeOf(layout) = At(Offsets(layout), Size(layout)) /\ Size(layout) \in Nat
<1> DEFINE f == Offsets(layout)
           T == {n \in Nat : n <= Size(layout) => At(f, n) \in Nat}
<1>0. Len(layout) \in Nat /\ Size(layout) = Len(layout) /\ \A k \in 1 .. Size(layout) : At(layout, k) \in Fields /\ At(layout, k).bytes \in Nat
  <2>1. \A k \in 1 .. Size(layout) : At(layout, k) \in Fields
    BY TextIs
  <2>2. \A x \in Fields : x.bytes \in Nat
    BY FieldIs
  <2> QED
    BY <2>1, <2>2, TextIs DEF Size
<1>1. OffsetsIn(f, layout)
  BY <1>0, OffsetsExist
<1> HIDE DEF f
<1>2. At(f, 0) = 0
  BY <1>0, <1>1 DEF OffsetsIn, At
<1>3. ASSUME NEW k \in 1 .. Size(layout)
      PROVE  At(f, k) = At(f, k - 1) + At(layout, k).bytes
  <2>1. k \in 0 .. Len(layout) /\ k # 0
    BY <1>0
  <2> QED
    BY <1>1, <2>1 DEF OffsetsIn, At
<1>4. T = Nat
  <2>1. 0 \in T
    BY <1>2
  <2>2. ASSUME NEW n \in T PROVE n + 1 \in T
    <3> SUFFICES ASSUME n + 1 <= Size(layout) PROVE At(f, n + 1) \in Nat
      OBVIOUS
    <3>1. n + 1 \in 1 .. Size(layout) /\ (n + 1) - 1 = n /\ At(f, n) \in Nat
      BY <1>0
    <3> QED
      BY <1>0, <1>3, <3>1
  <2> HIDE DEF T
  <2>3. T \subseteq Nat
    BY DEF T
  <2> QED
    BY <2>1, <2>2, <2>3, EveryNumber
<1>5. \A k \in 0 .. Size(layout) : At(f, k) \in Nat
  BY <1>0, <1>4
<1>6. \A k \in 1 .. Size(layout) : k - 1 \in 0 .. Size(layout)
  BY <1>0
<1>7. SizeOf(layout) = At(f, Size(layout))
  BY DEF SizeOf, f, At, Size
<1> QED
  BY <1>0, <1>2, <1>3, <1>5, <1>6, <1>7 DEF f

\* The fields of a list, on the wire.
Packed(layout, values) == [k \in DOMAIN layout |-> PackField(layout[k], values[k])]

\* A packed message: every byte belongs to one field.
LEMMA PackIs ==
  ASSUME NEW layout \in Text(Fields), NEW values \in Text(Int), Size(values) = Size(layout)
  PROVE  /\ Pack(layout, values) \in Text(Digit) /\ Size(Pack(layout, values)) = SizeOf(layout)
         /\ SizeOf(layout) \in Nat
         /\ \A k \in 1 .. Size(layout) :
              /\ At(Offsets(layout), k) <= SizeOf(layout)
              /\ \A i \in 1 .. At(layout, k).bytes :
                   At(Pack(layout, values), At(Offsets(layout), k - 1) + i)
                     = At(PackField(At(layout, k), At(values, k)), i)
         /\ \A p \in 1 .. SizeOf(layout) : \E k \in 1 .. Size(layout) :
              \E i \in 1 .. At(layout, k).bytes : p = At(Offsets(layout), k - 1) + i
<1> DEFINE texts == Packed(layout, values)
           at == Offsets(layout)
           n == Size(layout)
           whole == FlattenSeq(texts)
<1>0. n \in Nat /\ DOMAIN layout = 1 .. n /\ DOMAIN texts = 1 .. n
  BY DEF Size, Text, Packed
<1>1. ASSUME NEW k \in 1 .. n
      PROVE  /\ At(texts, k) = PackField(At(layout, k), At(values, k))
             /\ At(texts, k) \in Text(Digit) /\ Size(At(texts, k)) = At(layout, k).bytes
  <2>1. At(layout, k) \in Fields /\ At(values, k) \in Int
    BY TextIs
  <2>2. At(texts, k) = PackField(At(layout, k), At(values, k))
    BY <1>0 DEF At, Packed
  <2> QED
    BY <2>1, <2>2, PackedAre
<1>2. texts \in Text(Text(Digit)) /\ Size(texts) = n
  <2> DEFINE Z == Text(Digit)
  <2>1. texts = [k \in 1 .. n |-> texts[k]] /\ \A k \in 1 .. n : texts[k] \in Z
    BY <1>0, <1>1 DEF Packed, At
  <2> HIDE DEF texts, Z, n
  <2>2. texts \in Seq(Z) /\ Len(texts) = n
    BY <1>0, <2>1
  <2> QED
    BY <2>2 DEF Text, Size, Z
<1>3. Ends(at, texts)
  BY <1>1, <1>2, OffsetsAre DEF Ends
<1>4. Pack(layout, values) = whole
  BY DEF Pack, Packed
<1> HIDE DEF texts, at, n
<1>5. Places(Digit, at, texts, n, whole)
  BY <1>2, <1>3, FlattenPlaces
<1>6. SizeOf(layout) = At(at, n)
  BY OffsetsAre DEF at, n
<1>7. \A p \in 1 .. At(at, n) : \E k \in 1 .. n : \E i \in 1 .. Size(At(texts, k)) : p = At(at, k - 1) + i
  BY <1>2, <1>3, EveryPlace
<1> HIDE DEF whole
<1>8. whole \in Text(Digit) /\ Size(whole) = SizeOf(layout) /\ SizeOf(layout) \in Nat
  BY <1>5, <1>6 DEF Places
<1>9. ASSUME NEW k \in 1 .. n
      PROVE  /\ At(at, k) <= SizeOf(layout)
             /\ \A i \in 1 .. At(layout, k).bytes :
                  At(whole, At(at, k - 1) + i) = At(PackField(At(layout, k), At(values, k)), i)
  BY <1>1, <1>5, <1>6 DEF Places
<1>10. ASSUME NEW p \in 1 .. SizeOf(layout)
       PROVE  \E k \in 1 .. n : \E i \in 1 .. At(layout, k).bytes : p = At(at, k - 1) + i
  <2>1. PICK k \in 1 .. n : \E i \in 1 .. Size(At(texts, k)) : p = At(at, k - 1) + i
    BY <1>6, <1>7
  <2>2. Size(At(texts, k)) = At(layout, k).bytes
    BY <1>1
  <2> QED
    BY <2>1, <2>2
<1> QED
  BY <1>4, <1>8, <1>9, <1>10 DEF at, n

LEMMA OffsetsGrow ==
  ASSUME NEW layout \in Text(Fields), NEW k \in 1 .. Size(layout)
  PROVE  At(Offsets(layout), k) <= SizeOf(layout) /\ SizeOf(layout) \in Nat
<1> DEFINE n == Size(layout)
           values == [i \in 1 .. n |-> 0]
<1>1. n \in Nat
  BY TextIs
<1> HIDE DEF n
<1>2. values \in Text(Int) /\ Size(values) = n
  BY <1>1 DEF Text, Size
<1> QED
  BY <1>2, PackIs DEF n

\* The bytes of field k.
Piece(layout, t, k) == SubSeq(t, At(Offsets(layout), k - 1) + 1, At(Offsets(layout), k))

LEMMA PieceIs ==
  ASSUME NEW layout \in Text(Fields), NEW t \in Text(Digit), Size(t) = SizeOf(layout),
         NEW k \in 1 .. Size(layout)
  PROVE  /\ At(layout, k) \in Fields
         /\ Piece(layout, t, k) \in Text(Digit) /\ Size(Piece(layout, t, k)) = At(layout, k).bytes
         /\ \A i \in 1 .. At(layout, k).bytes :
              At(Piece(layout, t, k), i) = At(t, At(Offsets(layout), k - 1) + i)
<1> DEFINE a == At(Offsets(layout), k - 1)
           b == At(Offsets(layout), k)
           r == Piece(layout, t, k)
           w == At(layout, k).bytes
<1>1. a \in Nat /\ w \in Nat /\ b = a + w /\ At(layout, k) \in Fields
  BY OffsetsAre
<1>2. b <= SizeOf(layout) /\ SizeOf(layout) \in Nat
  BY OffsetsGrow
<1>3. Parts(r, t, a, b)
  BY DEF Parts, Piece
<1> HIDE DEF a, b, r, w
<1>4. a \in Nat /\ b \in Nat /\ a <= b /\ b <= Size(t) /\ b - a = w
  BY <1>1, <1>2
<1>5. r \in Text(Digit) /\ Size(r) = b - a /\ \A i \in 1 .. b - a : At(r, i) = At(t, a + i)
  BY <1>3, <1>4, PartIs
<1> QED
  BY <1>1, <1>4, <1>5 DEF a, r, w

\* Unpacking reads every field at its offset.
LEMMA UnpackIs ==
  ASSUME NEW layout \in Text(Fields), NEW t \in Text(Digit), Size(t) = SizeOf(layout)
  PROVE  /\ Unpack(layout, t) \in Text(Int) /\ Size(Unpack(layout, t)) = Size(layout)
         /\ \A k \in 1 .. Size(layout) :
              At(Unpack(layout, t), k) = UnpackField(At(layout, k), Piece(layout, t, k))
<1> DEFINE n == Size(layout)
           u == Unpack(layout, t)
           V(k) == UnpackField(At(layout, k), Piece(layout, t, k))
<1>1. n \in Nat /\ DOMAIN layout = 1 .. n
  BY DEF Text, Size
<1>2. u = [k \in 1 .. n |-> V(k)]
  BY <1>1 DEF Unpack, Piece, At
<1>3. \A k \in 1 .. n : V(k) \in Int
  BY PieceIs, FieldBack
<1> HIDE DEF n, u, V
<1>4. u \in Seq(Int) /\ Len(u) = n /\ \A k \in 1 .. n : u[k] = V(k)
  BY <1>1, <1>2, <1>3
<1> QED
  BY <1>4 DEF n, u, V, Text, Size, At

\* What fits its fields is read as it was written.
\* Values that fit survive packing and unpacking.
LEMMA PackUnpack ==
  ASSUME NEW layout \in Text(Fields), NEW values \in Text(Int), Size(values) = Size(layout),
         Fits(layout, values)
  PROVE  Unpack(layout, Pack(layout, values)) = values
<1> DEFINE t == Pack(layout, values)
           u == Unpack(layout, t)
<1>1. t \in Text(Digit) /\ Size(t) = SizeOf(layout)
  BY PackIs
<1>2. u \in Text(Int) /\ Size(u) = Size(values)
  BY <1>1, UnpackIs
<1>3. ASSUME NEW k \in 1 .. Size(layout) PROVE At(u, k) = At(values, k)
  <2> DEFINE f == At(layout, k)
             v == At(values, k)
             r == Piece(layout, t, k)
             p == PackField(f, v)
  <2>1. f \in Fields /\ v \in Int
    BY TextIs
  <2>2. v \in f.lo .. f.hi
    <3>1. k \in DOMAIN layout
      BY DEF Text, Size
    <3> QED
      BY <3>1 DEF Fits, At
  <2>3. r \in Text(Digit) /\ Size(r) = f.bytes /\ \A i \in 1 .. f.bytes : At(r, i) = At(t, At(Offsets(layout), k - 1) + i)
    BY <1>1, PieceIs
  <2>4. \A i \in 1 .. f.bytes : At(t, At(Offsets(layout), k - 1) + i) = At(p, i)
    BY PackIs
  <2>5. p \in Text(Digit) /\ Size(p) = f.bytes
    BY <2>1, PackedAre
  <2> HIDE DEF f, v, r, p
  <2>6. r = p
    BY <2>3, <2>4, <2>5, TextEqual
  <2>7. At(u, k) = UnpackField(f, r)
    BY <1>1, UnpackIs DEF f, r
  <2>8. UnpackField(f, p) = v
    BY <2>1, <2>2, FieldRound DEF p
  <2> QED
    BY <2>6, <2>7, <2>8 DEF v
<1> HIDE DEF u
<1>4. u = values
  BY <1>2, <1>3, TextEqual
<1> QED
  BY <1>4 DEF u

\* Bytes that are read as the fields of a layout are written the same.
\* Bytes of the right number survive unpacking and packing.
LEMMA UnpackPack ==
  ASSUME NEW layout \in Text(Fields), NEW t \in Text(Digit), Size(t) = SizeOf(layout)
  PROVE  Pack(layout, Unpack(layout, t)) = t
<1> DEFINE u == Unpack(layout, t)
           s == Pack(layout, u)
<1>1. u \in Text(Int) /\ Size(u) = Size(layout)
  BY UnpackIs
<1> HIDE DEF u
<1>2. s \in Text(Digit) /\ Size(s) = SizeOf(layout)
  BY <1>1, PackIs
<1>3. ASSUME NEW p \in 1 .. SizeOf(layout) PROVE At(s, p) = At(t, p)
  <2>1. PICK k \in 1 .. Size(layout) : \E i \in 1 .. At(layout, k).bytes :
               p = At(Offsets(layout), k - 1) + i
    BY <1>1, PackIs
  <2>2. PICK i \in 1 .. At(layout, k).bytes : p = At(Offsets(layout), k - 1) + i
    BY <2>1
  <2> DEFINE f == At(layout, k)
             r == Piece(layout, t, k)
  <2>3. At(s, p) = At(PackField(f, At(u, k)), i)
    BY <1>1, <2>2, PackIs
  <2>4. At(u, k) = UnpackField(f, r)
    BY UnpackIs DEF u
  <2>5. f \in Fields /\ r \in Text(Digit) /\ Size(r) = f.bytes /\ At(r, i) = At(t, p)
    BY <2>2, PieceIs
  <2>6. PackField(f, UnpackField(f, r)) = r
    <3> HIDE DEF f, r
    <3> QED
      BY <2>5, FieldBack
  <2> QED
    BY <2>3, <2>4, <2>5, <2>6
<1> HIDE DEF s
<1>4. s = t
  BY <1>2, <1>3, TextEqual
<1> QED
  BY <1>4 DEF s, u

\* Layouts one behind the other.
LEMMA OffsetsJoin ==
  ASSUME NEW a \in Text(Fields), NEW b \in Text(Fields), NEW c, Joins(c, a, b)
  PROVE  /\ c \in Text(Fields) /\ Size(c) = Size(a) + Size(b) /\ SizeOf(c) = SizeOf(a) + SizeOf(b)
         /\ \A k \in 1 .. Size(a) : At(c, k) = At(a, k)
         /\ \A k \in 1 .. Size(b) : At(c, Size(a) + k) = At(b, k)
         /\ \A k \in 0 .. Size(a) : At(Offsets(c), k) = At(Offsets(a), k)
         /\ \A k \in 0 .. Size(b) : At(Offsets(c), Size(a) + k) = SizeOf(a) + At(Offsets(b), k)
<1> DEFINE m == Size(a)
           n == Size(b)
           f == Offsets(a)
           g == Offsets(b)
           h == Offsets(c)
<1>1. /\ c \in Text(Fields) /\ m \in Nat /\ n \in Nat /\ Size(c) = m + n
      /\ \A k \in 1 .. m : At(c, k) = At(a, k)
      /\ \A k \in 1 .. n : At(c, m + k) = At(b, k)
  BY JoinIs
<1>2. /\ At(f, 0) = 0 /\ \A k \in 1 .. m : At(f, k) = At(f, k - 1) + At(a, k).bytes
      /\ \A k \in 0 .. m : At(f, k) \in Nat
      /\ SizeOf(a) = At(f, m)
  BY OffsetsAre
<1>3. /\ At(g, 0) = 0 /\ \A k \in 1 .. n : At(g, k) = At(g, k - 1) + At(b, k).bytes /\ At(b, k).bytes \in Nat
      /\ \A k \in 0 .. n : At(g, k) \in Nat
      /\ SizeOf(b) = At(g, n)
  BY OffsetsAre
<1>4. /\ At(h, 0) = 0 /\ \A k \in 1 .. m + n : At(h, k) = At(h, k - 1) + At(c, k).bytes
      /\ SizeOf(c) = At(h, m + n)
  BY <1>1, OffsetsAre
<1> HIDE DEF m, n, f, g, h
<1>5. \A k \in 0 .. m : At(h, k) = At(f, k)
  <2> DEFINE T == {k \in Nat : k <= m => At(h, k) = At(f, k)}
  <2>1. 0 \in T
    BY <1>2, <1>4
  <2>2. ASSUME NEW k \in T PROVE k + 1 \in T
    <3> SUFFICES ASSUME k + 1 <= m PROVE At(h, k + 1) = At(f, k + 1)
      OBVIOUS
    <3>1. k + 1 \in 1 .. m /\ k + 1 \in 1 .. m + n /\ (k + 1) - 1 = k /\ At(h, k) = At(f, k)
      BY <1>1
    <3>2. At(h, k + 1) = At(h, (k + 1) - 1) + At(c, k + 1).bytes
      BY <1>4, <3>1
    <3>3. At(f, k + 1) = At(f, (k + 1) - 1) + At(a, k + 1).bytes /\ At(c, k + 1) = At(a, k + 1)
      BY <1>1, <1>2, <3>1
    <3> QED
      BY <3>1, <3>2, <3>3
  <2>3. T = Nat
    <3> HIDE DEF T
    <3>1. T \subseteq Nat
      BY DEF T
    <3> QED
      BY <2>1, <2>2, <3>1, EveryNumber
  <2> QED
    BY <1>1, <2>3
<1>6. \A k \in 0 .. n : At(h, m + k) = At(f, m) + At(g, k)
  <2> DEFINE T == {k \in Nat : k <= n => At(h, m + k) = At(f, m) + At(g, k)}
  <2>1. 0 \in T
    <3>1. m + 0 = m /\ m \in 0 .. m
      BY <1>1
    <3>2. At(h, m) = At(f, m) /\ At(f, m) \in Nat
      BY <1>2, <1>5, <3>1
    <3> QED
      BY <1>3, <3>1, <3>2
  <2>2. ASSUME NEW k \in T PROVE k + 1 \in T
    <3> SUFFICES ASSUME k + 1 <= n PROVE At(h, m + (k + 1)) = At(f, m) + At(g, k + 1)
      OBVIOUS
    <3>1. /\ k \in Nat /\ k + 1 \in 1 .. n /\ (k + 1) - 1 = k /\ m + (k + 1) \in 1 .. m + n
          /\ (m + (k + 1)) - 1 = m + k /\ At(h, m + k) = At(f, m) + At(g, k)
      BY <1>1
    <3> HIDE DEF T
    <3>2. At(h, m + (k + 1)) = At(h, (m + (k + 1)) - 1) + At(c, m + (k + 1)).bytes
      BY <1>4, <3>1
    <3>3. /\ At(g, k + 1) = At(g, (k + 1) - 1) + At(b, k + 1).bytes
          /\ At(b, k + 1).bytes \in Nat /\ At(g, k) \in Nat
          /\ At(c, m + (k + 1)) = At(b, k + 1)
      BY <1>1, <1>3, <3>1
    <3>4. At(f, m) \in Nat
      BY <1>1, <1>2
    <3> QED
      BY <3>1, <3>2, <3>3, <3>4
  <2>3. T = Nat
    <3> HIDE DEF T
    <3>1. T \subseteq Nat
      BY DEF T
    <3> QED
      BY <2>1, <2>2, <3>1, EveryNumber
  <2> QED
    BY <1>1, <2>3
<1>7. SizeOf(c) = SizeOf(a) + SizeOf(b)
  <2>1. n \in 0 .. n
    BY <1>1
  <2> QED
    BY <1>2, <1>3, <1>4, <1>6, <2>1
<1> QED
  BY <1>1, <1>2, <1>5, <1>6, <1>7 DEF m, n, f, g, h

\* A list repeated n times.
\* The fields of n joints.
Copies(joint, n) == FlattenSeq([k \in 1 .. n |-> joint])

\* Copy i begins behind i - 1 times the list.
CopiesOf(joint, n, copies) ==
  /\ copies \in Text(Fields) /\ Size(copies) = n * Size(joint)
  /\ SizeOf(copies) = n * SizeOf(joint)
  /\ \A i \in 1 .. n : \A j \in 1 .. Size(joint) :
       /\ At(copies, (i - 1) * Size(joint) + j) = At(joint, j)
       /\ At(Offsets(copies), (i - 1) * Size(joint) + j)
            = (i - 1) * SizeOf(joint) + At(Offsets(joint), j)
       /\ At(Offsets(copies), (i - 1) * Size(joint) + (j - 1))
            = (i - 1) * SizeOf(joint) + At(Offsets(joint), j - 1)

LEMMA CopiesStep ==
  ASSUME NEW joint \in Text(Fields), NEW n \in Nat
  PROVE  Joins(Copies(joint, n + 1), Copies(joint, n), joint)
<1> DEFINE s == [k \in 1 .. n |-> joint]
           Z == Seq(Fields)
<1>1. joint \in Z
  BY DEF Text
<1> HIDE DEF Z
<1>2. s \in Seq(Z) /\ Append(s, joint) = [k \in 1 .. n + 1 |-> joint]
  <2> DEFINE r == [k \in 1 .. n + 1 |-> joint]
             q == Append(s, joint)
  <2>1. s \in Text(Z) /\ Size(s) = n /\ \A k \in 1 .. n : At(s, k) = joint
    BY <1>1 DEF Text, Size, At
  <2>2. r \in Text(Z) /\ Size(r) = n + 1 /\ \A k \in 1 .. n + 1 : At(r, k) = joint
    BY <1>1 DEF Text, Size, At
  <2>3. Adds(q, s, joint)
    BY DEF Adds
  <2> HIDE DEF s, r, q
  <2>4. q \in Text(Z) /\ Size(q) = n + 1 /\ At(q, n + 1) = joint /\ \A k \in 1 .. n : At(q, k) = joint
    BY <1>1, <2>1, <2>3, AddIs
  <2>5. \A k \in 1 .. n + 1 : k \in 1 .. n \/ k = n + 1
    OBVIOUS
  <2>6. q = r
    BY <2>2, <2>4, <2>5, TextEqual
  <2> QED
    BY <2>1, <2>6 DEF Text, q, r
<1> HIDE DEF s
<1>3. FlattenSeq(Append(s, joint)) = FlattenSeq(s) \o joint
  BY <1>1, <1>2, FlattenAppend DEF Z
<1> QED
  BY <1>2, <1>3 DEF Joins, Copies, s

LEMMA CopiesAre ==
  ASSUME NEW joint \in Text(Fields), NEW n \in Nat
  PROVE  CopiesOf(joint, n, Copies(joint, n))
<1> DEFINE T == {k \in Nat : CopiesOf(joint, k, Copies(joint, k))}
           w == Size(joint)
           s == SizeOf(joint)
<1>0. w \in Nat /\ s \in Nat
  <2>1. w \in Nat /\ w \in 0 .. w
    BY TextIs
  <2> QED
    BY <2>1, OffsetsAre
<1>1. 0 \in T
  <2>1. [k \in 1 .. 0 |-> joint] = <<>>
    OBVIOUS
  <2>2. Copies(joint, 0) = <<>>
    BY <2>1, FlattenEmpty DEF Copies
  <2>3. <<>> \in Text(Fields) /\ Size(<<>>) = 0
    BY EmptyText
  <2>4. SizeOf(<<>>) = 0
    BY <2>3, OffsetsAre
  <2>5. 0 * w = 0 /\ 0 * s = 0 /\ \A i \in 1 .. 0 : FALSE
    BY <1>0
  <2> HIDE DEF w, s
  <2>6. CopiesOf(joint, 0, <<>>)
    BY <2>3, <2>4, <2>5 DEF CopiesOf, w, s
  <2> QED
    BY <2>2, <2>6
<1>2. ASSUME NEW k \in T PROVE k + 1 \in T
  <2> DEFINE a == Copies(joint, k)
             c == Copies(joint, k + 1)
  <2>1. k \in Nat /\ CopiesOf(joint, k, a)
    OBVIOUS
  <2>2. Joins(c, a, joint)
    BY <2>1, CopiesStep
  <2> HIDE DEF T, a, c
  <2>3. a \in Text(Fields) /\ Size(a) = k * w /\ SizeOf(a) = k * s
    BY <2>1 DEF CopiesOf
  <2>4. /\ c \in Text(Fields) /\ Size(c) = Size(a) + w /\ SizeOf(c) = SizeOf(a) + s
        /\ \A j \in 1 .. Size(a) : At(c, j) = At(a, j)
        /\ \A j \in 1 .. w : At(c, Size(a) + j) = At(joint, j)
        /\ \A j \in 0 .. Size(a) : At(Offsets(c), j) = At(Offsets(a), j)
        /\ \A j \in 0 .. w : At(Offsets(c), Size(a) + j) = SizeOf(a) + At(Offsets(joint), j)
    BY <2>2, <2>3, OffsetsJoin
  <2> HIDE DEF w, s
  <2>5. k * w + w = (k + 1) * w /\ k * s + s = (k + 1) * s /\ k * w \in Nat /\ k * s \in Nat
    BY <1>0, <2>1, Multiples
  <2>6. ASSUME NEW i \in 1 .. k + 1, NEW j \in 1 .. w
        PROVE  /\ At(c, (i - 1) * w + j) = At(joint, j)
               /\ At(Offsets(c), (i - 1) * w + j) = (i - 1) * s + At(Offsets(joint), j)
               /\ At(Offsets(c), (i - 1) * w + (j - 1)) = (i - 1) * s + At(Offsets(joint), j - 1)
    <3>0. j \in 0 .. w /\ j - 1 \in 0 .. w
      BY <1>0
    <3>1. CASE i = k + 1
      <4>1. i - 1 = k
        BY <2>1, <3>1
      <4> QED
        BY <2>3, <2>4, <3>0, <4>1
    <3>2. CASE i \in 1 .. k
      <4> DEFINE p == (i - 1) * w + j
                 q == (i - 1) * w + (j - 1)
      <4>1. p \in 1 .. k * w /\ q \in 0 .. k * w
        <5>1. i - 1 \in Nat /\ (i - 1) + 1 <= k
          BY <2>1, <3>2
        <5>2. (i - 1) * w \in Nat /\ (i - 1) * w + w <= k * w
          BY <1>0, <2>1, <5>1, Multiples
        <5> QED
          BY <1>0, <2>5, <5>2
      <4>2. At(c, p) = At(a, p) /\ At(Offsets(c), p) = At(Offsets(a), p) /\ At(Offsets(c), q) = At(Offsets(a), q)
        <5> HIDE DEF p, q
        <5>1. p \in 1 .. Size(a) /\ p \in 0 .. Size(a) /\ q \in 0 .. Size(a)
          BY <2>3, <2>5, <4>1
        <5> QED
          BY <2>4, <5>1
      <4>3. /\ At(a, p) = At(joint, j)
            /\ At(Offsets(a), p) = (i - 1) * s + At(Offsets(joint), j)
            /\ At(Offsets(a), q) = (i - 1) * s + At(Offsets(joint), j - 1)
        BY <2>1, <3>2 DEF CopiesOf, w, s
      <4> QED
        BY <4>2, <4>3
    <3> QED
      BY <2>1, <3>1, <3>2
  <2>7. CopiesOf(joint, k + 1, c)
    <3>1. Size(c) = (k + 1) * w /\ SizeOf(c) = (k + 1) * s
      BY <2>3, <2>4, <2>5
    <3> QED
      BY <2>4, <2>6, <3>1 DEF CopiesOf, w, s
  <2> QED
    BY <2>1, <2>7 DEF T, c
<1>3. T = Nat
  <2> HIDE DEF T
  <2>1. T \subseteq Nat
    BY DEF T
  <2> QED
    BY <1>1, <1>2, <2>1, EveryNumber
<1> QED
  BY <1>3
---------------------------------------------------------------------------
(* Layouts.                                                                *)

\* What a field is.
LEMMA FieldIn ==
  ASSUME NEW bytes \in {1, 2, 4}, NEW lo \in Nat, NEW hi \in Int, hi <= Largest(bytes),
         NEW f, f = Field(bytes, lo, hi)
  PROVE  f \in Fields /\ f.bytes = bytes /\ f.lo = lo /\ f.hi = hi
<1>1. f = [bytes |-> bytes, lo |-> lo, hi |-> hi]
  BY DEF Field
<1>2. f.bytes = bytes /\ f.lo = lo /\ f.hi = hi
  BY <1>1
<1>3. f \in [bytes : {1, 2, 4}, lo : Int, hi : Int]
  BY <1>1
<1> QED
  BY <1>2, <1>3 DEF Fields

\* The field f has so many bytes, and these bounds.
IsField(f, bytes, lo, hi) == f \in Fields /\ f.bytes = bytes /\ f.lo = lo /\ f.hi = hi

LEMMA FieldsAre ==
  /\ IsField(U8, 1, 0, ByteBase - 1) /\ IsField(AtLeastOne(U8), 1, 1, ByteBase - 1)
  /\ IsField(U16, 2, 0, WORDS - 1) /\ IsField(AtLeastOne(U16), 2, 1, WORDS - 1)
  /\ IsField(S16, 2, -(WORDS \div 2), WORDS \div 2 - 1)
  /\ IsField(U32, 4, 0, WORDS * WORDS - 1)
  /\ IsField(DeviceSource, 1, 1, 4) /\ IsField(WireSystemState, 1, 1, 10)
  /\ IsField(MotionMode, 1, 1, 1) /\ IsField(EstopReason, 1, 1, 4)
  /\ IsField(AckStatus, 1, 0, 3) /\ IsField(JointCount, 1, 1, MaxJoints)
<1>1. /\ Largest(1) = ByteBase - 1 /\ Largest(2) = WORDS - 1 /\ Largest(4) = WORDS * WORDS - 1
      /\ ByteBase \in Nat /\ ByteBase >= 16 /\ WORDS \in Nat /\ WORDS * WORDS \in Nat
      /\ MaxJoints \in Nat /\ MaxJoints <= ByteBase - 1
  BY Base, Words DEF Largest
<1>2. /\ AtLeastOne(U8) = Field(1, 1, ByteBase - 1)
      /\ AtLeastOne(U16) = Field(2, 1, WORDS - 1)
  BY DEF AtLeastOne, U8, U16, Field
<1> HIDE DEF Largest
<1>3. WORDS - 1 \in Int /\ WORDS * WORDS - 1 \in Int /\ ByteBase - 1 \in Int
  BY <1>1
<1>4. IsField(U8, 1, 0, ByteBase - 1)
  BY <1>1, <1>3, FieldIn DEF IsField, U8
<1>5. IsField(AtLeastOne(U8), 1, 1, ByteBase - 1)
  BY <1>1, <1>2, <1>3, FieldIn DEF IsField
<1>6. IsField(U16, 2, 0, WORDS - 1)
  BY <1>1, <1>3, FieldIn DEF IsField, U16
<1>7. IsField(AtLeastOne(U16), 2, 1, WORDS - 1)
  BY <1>1, <1>2, <1>3, FieldIn DEF IsField
<1>8. IsField(U32, 4, 0, WORDS * WORDS - 1)
  BY <1>1, <1>3, FieldIn DEF IsField, U32
<1>9. IsField(S16, 2, -(WORDS \div 2), WORDS \div 2 - 1)
  <2> DEFINE h == WORDS \div 2
  <2>1. h \in Nat /\ h >= 1
    BY Words
  <2>2. S16 = [bytes |-> 2, lo |-> -h, hi |-> h - 1]
    BY DEF S16, Field
  <2>3. S16.bytes = 2 /\ S16.lo = -h /\ S16.hi = h - 1
    BY <2>2
  <2> HIDE DEF h
  <2>4. S16 \in [bytes : {1, 2, 4}, lo : Int, hi : Int] /\ -h < 0 /\ ~(-h >= 0)
    BY <2>1, <2>2
  <2> QED
    BY <2>3, <2>4 DEF IsField, Fields, h
<1>10. /\ IsField(DeviceSource, 1, 1, 4) /\ IsField(WireSystemState, 1, 1, 10)
       /\ IsField(MotionMode, 1, 1, 1) /\ IsField(EstopReason, 1, 1, 4)
       /\ IsField(AckStatus, 1, 0, 3)
  <2>1. 1 <= Largest(1) /\ 3 <= Largest(1) /\ 4 <= Largest(1) /\ 10 <= Largest(1)
    BY <1>1
  <2>2. IsField(DeviceSource, 1, 1, 4)
    BY <2>1, FieldIn DEF IsField, DeviceSource
  <2>3. IsField(WireSystemState, 1, 1, 10)
    BY <2>1, FieldIn DEF IsField, WireSystemState
  <2>4. IsField(MotionMode, 1, 1, 1)
    BY <2>1, FieldIn DEF IsField, MotionMode
  <2>5. IsField(EstopReason, 1, 1, 4)
    BY <2>1, FieldIn DEF IsField, EstopReason
  <2>6. IsField(AckStatus, 1, 0, 3)
    BY <2>1, FieldIn DEF IsField, AckStatus
  <2> QED
    BY <2>2, <2>3, <2>4, <2>5, <2>6
<1>11. IsField(JointCount, 1, 1, MaxJoints)
  BY <1>1, FieldIn DEF IsField, JointCount
<1> QED
  BY <1>4, <1>5, <1>6, <1>7, <1>8, <1>9, <1>10, <1>11

\* The three parts of a layout with joints.
HeadOf(kind) == JointLayout[kind].head
JointOf(kind) == JointLayout[kind].joint
TailOf(kind) == JointLayout[kind].tail

LEMMA KindsAre ==
  /\ DOMAIN Layout = {"glove", "heartbeat", "estop", "acknowledgement"}
  /\ DOMAIN JointLayout = {"motion", "telemetry"}
  /\ "motion" \notin DOMAIN Layout /\ "telemetry" \notin DOMAIN Layout
<1>1. DOMAIN Layout = {"glove", "heartbeat", "estop", "acknowledgement"}
  BY DEF Layout
<1>2. DOMAIN JointLayout = {"motion", "telemetry"}
  BY DEF JointLayout
<1> QED
  BY <1>1, <1>2

\* All layouts are lists of fields.
LEMMA LayoutsAre ==
  ASSUME NEW kind \in DOMAIN Layout
  PROVE  Layout[kind] \in Text(Fields)
<1> DEFINE P(f) == f \in Fields
<1>1. /\ P(U8) /\ P(U16) /\ P(S16) /\ P(U32) /\ P(DeviceSource) /\ P(WireSystemState)
      /\ P(EstopReason) /\ P(AckStatus)
  BY FieldsAre DEF IsField
<1>2. CASE kind = "glove"
  <2>1. Layout["glove"] = <<U16, S16, S16, S16, S16, S16, S16, S16, S16, U16, U8>>
    BY DEF Layout
  <2>2. \A a, b, c \in Fields : <<a, b, b, b, b, b, b, b, b, a, c>> \in Seq(Fields)
    OBVIOUS
  <2> QED
    BY <1>1, <1>2, <2>1, <2>2 DEF Text
<1>3. CASE kind = "heartbeat"
  <2>1. Layout["heartbeat"] = <<DeviceSource, U32, WireSystemState>>
    BY DEF Layout
  <2>2. \A a, b, c \in Fields : <<a, b, c>> \in Seq(Fields)
    OBVIOUS
  <2> QED
    BY <1>1, <1>3, <2>1, <2>2 DEF Text
<1>4. CASE kind = "estop"
  <2>1. Layout["estop"] = <<DeviceSource, EstopReason>>
    BY DEF Layout
  <2>2. \A a, b \in Fields : <<a, b>> \in Seq(Fields)
    OBVIOUS
  <2> QED
    BY <1>1, <1>4, <2>1, <2>2 DEF Text
<1>5. CASE kind = "acknowledgement"
  <2>1. Layout["acknowledgement"] = <<U16, AckStatus>>
    BY DEF Layout
  <2>2. \A a, b \in Fields : <<a, b>> \in Seq(Fields)
    OBVIOUS
  <2> QED
    BY <1>1, <1>5, <2>1, <2>2 DEF Text
<1> QED
  BY <1>2, <1>3, <1>4, <1>5, KindsAre

LEMMA MotionLayout ==
  /\ HeadOf("motion") \in Text(Fields) /\ Size(HeadOf("motion")) = 4 /\ SizeOf(HeadOf("motion")) = 5
  /\ At(HeadOf("motion"), 1) = U8 /\ At(HeadOf("motion"), 2) = AtLeastOne(U16)
  /\ At(HeadOf("motion"), 3) = MotionMode /\ At(HeadOf("motion"), 4) = JointCount
  /\ At(Offsets(HeadOf("motion")), 1) = 1 /\ At(Offsets(HeadOf("motion")), 2) = 3
  /\ At(Offsets(HeadOf("motion")), 3) = 4 /\ At(Offsets(HeadOf("motion")), 4) = 5
  /\ JointOf("motion") \in Text(Fields) /\ Size(JointOf("motion")) = 2 /\ SizeOf(JointOf("motion")) = 3
  /\ At(JointOf("motion"), 1) = U8 /\ At(JointOf("motion"), 2) = S16
  /\ At(Offsets(JointOf("motion")), 0) = 0 /\ At(Offsets(JointOf("motion")), 1) = 1
  /\ At(Offsets(JointOf("motion")), 2) = 3
  /\ TailOf("motion") \in Text(Fields) /\ Size(TailOf("motion")) = 2 /\ SizeOf(TailOf("motion")) = 4
  /\ At(TailOf("motion"), 1) = AtLeastOne(U16) /\ At(TailOf("motion"), 2) = AtLeastOne(U16)
  /\ At(Offsets(TailOf("motion")), 0) = 0 /\ At(Offsets(TailOf("motion")), 1) = 2
  /\ At(Offsets(TailOf("motion")), 2) = 4
<1> DEFINE h == HeadOf("motion")
           j == JointOf("motion")
           t == TailOf("motion")
<1>1. /\ U8 \in Fields /\ AtLeastOne(U16) \in Fields /\ MotionMode \in Fields /\ JointCount \in Fields
      /\ S16 \in Fields
      /\ U8.bytes = 1 /\ AtLeastOne(U16).bytes = 2 /\ MotionMode.bytes = 1 /\ JointCount.bytes = 1
      /\ S16.bytes = 2
  BY FieldsAre DEF IsField
<1>2. h = <<U8, AtLeastOne(U16), MotionMode, JointCount>>
  BY DEF HeadOf, JointLayout
<1>3. j = <<U8, S16>>
  BY DEF JointOf, JointLayout
<1>4. t = <<AtLeastOne(U16), AtLeastOne(U16)>>
  BY DEF TailOf, JointLayout
<1> HIDE DEF h, j, t
<1>5. /\ h \in Text(Fields) /\ Size(h) = 4 /\ At(h, 1) = U8 /\ At(h, 2) = AtLeastOne(U16)
      /\ At(h, 3) = MotionMode /\ At(h, 4) = JointCount
  BY <1>1, <1>2 DEF Text, Size, At
<1>6. j \in Text(Fields) /\ Size(j) = 2 /\ At(j, 1) = U8 /\ At(j, 2) = S16
  BY <1>1, <1>3 DEF Text, Size, At
<1>7. t \in Text(Fields) /\ Size(t) = 2 /\ At(t, 1) = AtLeastOne(U16) /\ At(t, 2) = AtLeastOne(U16)
  BY <1>1, <1>4 DEF Text, Size, At
<1>8. /\ SizeOf(h) = 5 /\ At(Offsets(h), 1) = 1 /\ At(Offsets(h), 2) = 3
      /\ At(Offsets(h), 3) = 4 /\ At(Offsets(h), 4) = 5
  <2>1. /\ At(Offsets(h), 0) = 0 /\ SizeOf(h) = At(Offsets(h), 4)
        /\ \A k \in 1 .. 4 : At(Offsets(h), k) = At(Offsets(h), k - 1) + At(h, k).bytes
    BY <1>5, OffsetsAre
  <2>2. /\ At(Offsets(h), 1) = At(Offsets(h), 0) + 1 /\ At(Offsets(h), 2) = At(Offsets(h), 1) + 2
        /\ At(Offsets(h), 3) = At(Offsets(h), 2) + 1 /\ At(Offsets(h), 4) = At(Offsets(h), 3) + 1
    BY <1>1, <1>5, <2>1
  <2> QED
    BY <2>1, <2>2
<1>9. SizeOf(j) = 3 /\ At(Offsets(j), 0) = 0 /\ At(Offsets(j), 1) = 1 /\ At(Offsets(j), 2) = 3
  <2>1. /\ At(Offsets(j), 0) = 0 /\ SizeOf(j) = At(Offsets(j), 2)
        /\ \A k \in 1 .. 2 : At(Offsets(j), k) = At(Offsets(j), k - 1) + At(j, k).bytes
    BY <1>6, OffsetsAre
  <2>2. At(Offsets(j), 1) = At(Offsets(j), 0) + 1 /\ At(Offsets(j), 2) = At(Offsets(j), 1) + 2
    BY <1>1, <1>6, <2>1
  <2> QED
    BY <2>1, <2>2
<1>10. SizeOf(t) = 4 /\ At(Offsets(t), 0) = 0 /\ At(Offsets(t), 1) = 2 /\ At(Offsets(t), 2) = 4
  <2>1. /\ At(Offsets(t), 0) = 0 /\ SizeOf(t) = At(Offsets(t), 2)
        /\ \A k \in 1 .. 2 : At(Offsets(t), k) = At(Offsets(t), k - 1) + At(t, k).bytes
    BY <1>7, OffsetsAre
  <2>2. At(Offsets(t), 1) = At(Offsets(t), 0) + 2 /\ At(Offsets(t), 2) = At(Offsets(t), 1) + 2
    BY <1>1, <1>7, <2>1
  <2> QED
    BY <2>1, <2>2
<1> QED
  BY <1>5, <1>6, <1>7, <1>8, <1>9, <1>10 DEF h, j, t

LEMMA TelemetryLayout ==
  /\ HeadOf("telemetry") \in Text(Fields) /\ Size(HeadOf("telemetry")) = 5
  /\ At(HeadOf("telemetry"), 1) = U32 /\ At(HeadOf("telemetry"), 2) = WireSystemState
  /\ At(HeadOf("telemetry"), 3) = U8 /\ At(HeadOf("telemetry"), 4) = U16
  /\ At(HeadOf("telemetry"), 5) = JointCount
  /\ JointOf("telemetry") \in Text(Fields) /\ Size(JointOf("telemetry")) = 4
  /\ At(JointOf("telemetry"), 1) = AtLeastOne(U8) /\ At(JointOf("telemetry"), 2) = S16
  /\ At(JointOf("telemetry"), 3) = S16 /\ At(JointOf("telemetry"), 4) = U16
  /\ TailOf("telemetry") \in Text(Fields) /\ Size(TailOf("telemetry")) = 0
<1> DEFINE h == HeadOf("telemetry")
           j == JointOf("telemetry")
           t == TailOf("telemetry")
<1>1. /\ U32 \in Fields /\ WireSystemState \in Fields /\ U8 \in Fields /\ U16 \in Fields
      /\ JointCount \in Fields /\ AtLeastOne(U8) \in Fields /\ S16 \in Fields
  BY FieldsAre DEF IsField
<1>2. h = <<U32, WireSystemState, U8, U16, JointCount>>
  BY DEF HeadOf, JointLayout
<1>3. j = <<AtLeastOne(U8), S16, S16, U16>>
  BY DEF JointOf, JointLayout
<1>4. t = <<>>
  BY DEF TailOf, JointLayout
<1> HIDE DEF h, j, t
<1>5. /\ h \in Text(Fields) /\ Size(h) = 5 /\ At(h, 1) = U32 /\ At(h, 2) = WireSystemState
      /\ At(h, 3) = U8 /\ At(h, 4) = U16 /\ At(h, 5) = JointCount
  BY <1>1, <1>2 DEF Text, Size, At
<1>6. /\ j \in Text(Fields) /\ Size(j) = 4 /\ At(j, 1) = AtLeastOne(U8) /\ At(j, 2) = S16
      /\ At(j, 3) = S16 /\ At(j, 4) = U16
  BY <1>1, <1>3 DEF Text, Size, At
<1>7. t \in Text(Fields) /\ Size(t) = 0
  BY <1>4, EmptyText
<1> QED
  BY <1>5, <1>6, <1>7 DEF h, j, t

LEMMA JointLayoutsAre ==
  ASSUME NEW kind \in DOMAIN JointLayout
  PROVE  /\ HeadOf(kind) \in Text(Fields) /\ JointOf(kind) \in Text(Fields)
         /\ TailOf(kind) \in Text(Fields)
         /\ Size(HeadOf(kind)) \in Nat /\ Size(HeadOf(kind)) >= 1
         /\ At(HeadOf(kind), Size(HeadOf(kind))) = JointCount
         /\ Size(JointOf(kind)) \in Nat /\ Size(JointOf(kind)) >= 1
<1>1. CASE kind = "motion"
  BY <1>1, MotionLayout
<1>2. CASE kind = "telemetry"
  BY <1>2, TelemetryLayout
<1> QED
  BY <1>1, <1>2, KindsAre

\* The layout of a message with n joints: the head, n times a joint, the tail
WholeOf(kind, n, whole) ==
  LET h == Size(HeadOf(kind))
      w == Size(JointOf(kind))
      m == Size(TailOf(kind))
      head == SizeOf(HeadOf(kind))
      joint == SizeOf(JointOf(kind))
      tail == SizeOf(TailOf(kind))
  IN /\ whole \in Text(Fields) /\ Size(whole) = h + n * w + m
     /\ SizeOf(whole) = head + n * joint + tail
     /\ \A k \in 1 .. h : At(whole, k) = At(HeadOf(kind), k)
     /\ \A k \in 0 .. h : At(Offsets(whole), k) = At(Offsets(HeadOf(kind)), k)
     /\ \A i \in 1 .. n : \A j \in 1 .. w :
          /\ At(whole, h + (i - 1) * w + j) = At(JointOf(kind), j)
          /\ At(Offsets(whole), h + (i - 1) * w + j)
               = head + (i - 1) * joint + At(Offsets(JointOf(kind)), j)
          /\ At(Offsets(whole), h + (i - 1) * w + (j - 1))
               = head + (i - 1) * joint + At(Offsets(JointOf(kind)), j - 1)
     /\ \A k \in 1 .. m : At(whole, h + n * w + k) = At(TailOf(kind), k)
     /\ \A k \in 0 .. m :
          At(Offsets(whole), h + n * w + k) = head + n * joint + At(Offsets(TailOf(kind)), k)

LEMMA WholeIs ==
  ASSUME NEW kind \in DOMAIN JointLayout, NEW n \in Nat
  PROVE  WholeOf(kind, n, WholeLayout(kind, n))
<1> DEFINE a == HeadOf(kind)
           c == Copies(JointOf(kind), n)
           t == TailOf(kind)
           x == a \o c
           y == WholeLayout(kind, n)
           h == Size(HeadOf(kind))
           w == Size(JointOf(kind))
           m == Size(TailOf(kind))
           head == SizeOf(HeadOf(kind))
           joint == SizeOf(JointOf(kind))
           tail == SizeOf(TailOf(kind))
<1>0. /\ a \in Text(Fields) /\ t \in Text(Fields) /\ JointOf(kind) \in Text(Fields)
      /\ h \in Nat /\ w \in Nat
  BY JointLayoutsAre
<1>1. y = x \o t
  <2>1. kind \notin DOMAIN Layout
    BY KindsAre
  <2> QED
    BY <2>1 DEF WholeLayout, HeadOf, JointOf, TailOf, Copies
<1>2. Joins(x, a, c) /\ Joins(y, x, t)
  BY <1>1 DEF Joins
<1>3. CopiesOf(JointOf(kind), n, c)
  BY <1>0, CopiesAre
<1>4. head \in Nat /\ joint \in Nat /\ tail \in Nat /\ m \in Nat
  <2>1. ASSUME NEW z \in Text(Fields) PROVE SizeOf(z) \in Nat /\ Size(z) \in Nat
    <3>1. Size(z) \in Nat /\ Size(z) \in 0 .. Size(z)
      BY TextIs
    <3> QED
      BY <3>1, OffsetsAre
  <2> QED
    BY <1>0, <2>1
<1> HIDE DEF x, y, c, a, t
<1>5. c \in Text(Fields) /\ Size(c) = n * w /\ SizeOf(c) = n * joint
  BY <1>3 DEF CopiesOf
<1>6. /\ x \in Text(Fields) /\ Size(x) = h + n * w /\ SizeOf(x) = head + n * joint
      /\ \A k \in 1 .. h : At(x, k) = At(a, k)
      /\ \A k \in 1 .. n * w : At(x, h + k) = At(c, k)
      /\ \A k \in 0 .. h : At(Offsets(x), k) = At(Offsets(a), k)
      /\ \A k \in 0 .. n * w : At(Offsets(x), h + k) = head + At(Offsets(c), k)
  <2>1. Size(a) = h /\ SizeOf(a) = head
    BY DEF a
  <2> QED
    BY <1>0, <1>2, <1>5, <2>1, OffsetsJoin
<1>7. /\ y \in Text(Fields) /\ Size(y) = h + n * w + m /\ SizeOf(y) = head + n * joint + tail
      /\ \A k \in 1 .. h + n * w : At(y, k) = At(x, k)
      /\ \A k \in 1 .. m : At(y, h + n * w + k) = At(t, k)
      /\ \A k \in 0 .. h + n * w : At(Offsets(y), k) = At(Offsets(x), k)
      /\ \A k \in 0 .. m : At(Offsets(y), h + n * w + k) = head + n * joint + At(Offsets(t), k)
  <2>1. Size(t) = m /\ SizeOf(t) = tail
    BY DEF t
  <2> QED
    BY <1>0, <1>2, <1>6, <2>1, OffsetsJoin
<1>8. ASSUME NEW i \in 1 .. n, NEW j \in 1 .. w
      PROVE  /\ At(y, h + (i - 1) * w + j) = At(JointOf(kind), j)
             /\ At(Offsets(y), h + (i - 1) * w + j)
                  = head + (i - 1) * joint + At(Offsets(JointOf(kind)), j)
             /\ At(Offsets(y), h + (i - 1) * w + (j - 1))
                  = head + (i - 1) * joint + At(Offsets(JointOf(kind)), j - 1)
  <2> DEFINE b == (i - 1) * w
             s == (i - 1) * joint
             o == n * w
             e == Offsets(JointOf(kind))
  <2>1. b \in Nat /\ b + w <= o /\ o \in Nat /\ s \in Nat
    <3>1. i - 1 \in Nat /\ (i - 1) + 1 <= n
      OBVIOUS
    <3> QED
      BY <1>0, <1>4, <3>1, Multiples
  <2>2. /\ At(c, b + j) = At(JointOf(kind), j)
        /\ At(Offsets(c), b + j) = s + At(e, j)
        /\ At(Offsets(c), b + (j - 1)) = s + At(e, j - 1)
    BY <1>3 DEF CopiesOf
  <2>3. At(e, j) \in Nat /\ At(e, j - 1) \in Nat
    <3>1. j \in 0 .. w /\ j - 1 \in 0 .. w
      BY <1>0
    <3> QED
      BY <1>0, <3>1, OffsetsAre
  <2>4. /\ b + j \in 1 .. o /\ b + j \in 0 .. o /\ b + (j - 1) \in 0 .. o
        /\ h + (b + j) \in 1 .. h + o /\ h + (b + j) \in 0 .. h + o
        /\ h + (b + (j - 1)) \in 0 .. h + o
        /\ h + (b + j) = h + b + j /\ h + (b + (j - 1)) = h + b + (j - 1)
    <3> HIDE DEF b, o
    <3> QED
      BY <1>0, <2>1
  <2> HIDE DEF b, s, o, e
  <2>5. /\ At(x, h + (b + j)) = At(c, b + j)
        /\ At(Offsets(x), h + (b + j)) = head + At(Offsets(c), b + j)
        /\ At(Offsets(x), h + (b + (j - 1))) = head + At(Offsets(c), b + (j - 1))
    BY <1>6, <2>4 DEF o
  <2>6. /\ At(y, h + (b + j)) = At(x, h + (b + j))
        /\ At(Offsets(y), h + (b + j)) = At(Offsets(x), h + (b + j))
        /\ At(Offsets(y), h + (b + (j - 1))) = At(Offsets(x), h + (b + (j - 1)))
    BY <1>7, <2>4 DEF o
  <2>7. head + (s + At(e, j)) = head + s + At(e, j) /\ head + (s + At(e, j - 1)) = head + s + At(e, j - 1)
    <3> HIDE DEF head
    <3> QED
      BY <1>4, <2>1, <2>3
  <2>8. /\ At(y, h + b + j) = At(JointOf(kind), j)
        /\ At(Offsets(y), h + b + j) = head + s + At(e, j)
        /\ At(Offsets(y), h + b + (j - 1)) = head + s + At(e, j - 1)
    BY <2>2, <2>4, <2>5, <2>6, <2>7
  <2> QED
    BY <2>8 DEF b, s, e
<1>9. /\ \A k \in 1 .. h : At(y, k) = At(a, k)
      /\ \A k \in 0 .. h : At(Offsets(y), k) = At(Offsets(a), k)
  <2> DEFINE o == n * w
  <2>1. o \in Nat
    BY <1>0, Multiples
  <2> HIDE DEF o, h
  <2>2. \A k \in 1 .. h : k \in 1 .. h + o
    BY <1>0, <2>1
  <2>3. \A k \in 0 .. h : k \in 0 .. h + o
    BY <1>0, <2>1
  <2> QED
    BY <1>6, <1>7, <2>2, <2>3 DEF o
<1> QED
  BY <1>7, <1>8, <1>9 DEF WholeOf, y, a, t

\* Every layout is a list of fields, and a longer list is a longer message.
LEMMA WholesAre ==
  ASSUME NEW kind \in Kinds, NEW n \in Nat
  PROVE  /\ WholeLayout(kind, n) \in Text(Fields) /\ SizeOf(WholeLayout(kind, n)) \in Nat
         /\ n >= 1 => SizeOf(WholeLayout(kind, 1)) <= SizeOf(WholeLayout(kind, n))
         /\ kind \in DOMAIN Layout => WholeLayout(kind, n) = Layout[kind]
         /\ kind \in DOMAIN JointLayout =>
              /\ kind \notin DOMAIN Layout
              /\ SizeOf(HeadOf(kind)) \in Nat
              /\ SizeOf(HeadOf(kind)) <= SizeOf(WholeLayout(kind, n))
<1>1. ASSUME NEW z \in Text(Fields) PROVE SizeOf(z) \in Nat
  <2>1. Size(z) \in Nat /\ Size(z) \in 0 .. Size(z)
    BY TextIs
  <2> QED
    BY <2>1, OffsetsAre
<1>2. CASE kind \in DOMAIN Layout
  <2>1. WholeLayout(kind, n) = Layout[kind] /\ WholeLayout(kind, 1) = Layout[kind]
    BY <1>2 DEF WholeLayout
  <2>2. Layout[kind] \in Text(Fields) /\ kind \notin DOMAIN JointLayout
    BY <1>2, LayoutsAre, KindsAre
  <2>3. SizeOf(Layout[kind]) \in Nat
    BY <1>1, <2>2
  <2>4. SizeOf(Layout[kind]) <= SizeOf(Layout[kind])
    <3> DEFINE z == SizeOf(Layout[kind])
    <3>1. z \in Nat
      BY <2>3
    <3> HIDE DEF z
    <3>2. z <= z
      BY <3>1
    <3> QED
      BY <3>2 DEF z
  <2> QED
    BY <2>1, <2>2, <2>3, <2>4
<1>3. CASE kind \in DOMAIN JointLayout
  <2> DEFINE head == SizeOf(HeadOf(kind))
             joint == SizeOf(JointOf(kind))
             tail == SizeOf(TailOf(kind))
  <2>1. HeadOf(kind) \in Text(Fields) /\ JointOf(kind) \in Text(Fields) /\ TailOf(kind) \in Text(Fields)
    BY <1>3, JointLayoutsAre
  <2>2. head \in Nat /\ joint \in Nat /\ tail \in Nat
    BY <1>1, <2>1
  <2>3. /\ WholeLayout(kind, n) \in Text(Fields)
        /\ SizeOf(WholeLayout(kind, n)) = head + n * joint + tail
        /\ SizeOf(WholeLayout(kind, 1)) = head + 1 * joint + tail
    <3>1. WholeOf(kind, n, WholeLayout(kind, n)) /\ WholeOf(kind, 1, WholeLayout(kind, 1))
      BY <1>3, WholeIs
    <3> QED
      BY <3>1 DEF WholeOf
  <2> HIDE DEF head, joint, tail
  <2>4. n * joint \in Nat /\ 1 * joint \in Nat /\ (1 <= n => 1 * joint <= n * joint)
    BY <2>2, Multiples
  <2>5. head + n * joint + tail \in Nat /\ head <= head + n * joint + tail
    BY <2>2, <2>4
  <2>6. n >= 1 => head + 1 * joint + tail <= head + n * joint + tail
    BY <2>2, <2>4
  <2>7. kind \notin DOMAIN Layout
    BY <1>3, KindsAre
  <2> QED
    BY <2>2, <2>3, <2>5, <2>6, <2>7 DEF head
<1> QED
  BY <1>2, <1>3 DEF Kinds

---------------------------------------------------------------------------
(* Messages.                                                               *)

LEMMA FitsIs ==
  ASSUME NEW layout \in Text(Fields), NEW values
  PROVE  Fits(layout, values) <=>
           \A k \in 1 .. Size(layout) : At(values, k) \in At(layout, k).lo .. At(layout, k).hi
  BY DEF Fits, Text, Size, At

\* What IsMessage says.
LEMMA MessageIs ==
  ASSUME NEW m, IsMessage(m)
  PROVE  LET n == JointsOf(m)
             layout == WholeLayout(m.kind, n)
         IN /\ m.kind \in Kinds /\ n \in Nat /\ m = [kind |-> m.kind, values |-> m.values]
            /\ m.values \in Text(Int) /\ layout \in Text(Fields)
            /\ Size(m.values) = Size(layout) /\ SizeOf(layout) \in Nat
<1>1. m \in [kind : Kinds, values : Seq(Int)] /\ JointsOf(m) \in Nat
  BY DEF IsMessage
<1>2. m.kind \in Kinds /\ m.values \in Text(Int) /\ m = [kind |-> m.kind, values |-> m.values]
  BY <1>1 DEF Text
<1>3. WholeLayout(m.kind, JointsOf(m)) \in Text(Fields) /\ SizeOf(WholeLayout(m.kind, JointsOf(m))) \in Nat
  BY <1>1, <1>2, WholesAre
<1>4. Size(m.values) = Size(WholeLayout(m.kind, JointsOf(m)))
  BY DEF IsMessage, Size
<1> QED
  BY <1>1, <1>2, <1>3, <1>4

\* The number of joints is the last value of the head, and of the encoding.
LEMMA JointsAre ==
  ASSUME NEW m, IsMessage(m), m.kind \in DOMAIN JointLayout
  PROVE  LET h == Size(HeadOf(m.kind))
             layout == WholeLayout(m.kind, JointsOf(m))
         IN /\ h \in 1 .. Size(layout) /\ At(layout, h) = JointCount
            /\ JointsOf(m) = At(m.values, h)
            /\ At(Offsets(layout), h) = SizeOf(HeadOf(m.kind))
<1> DEFINE kind == m.kind
           n == JointsOf(m)
           h == Size(HeadOf(kind))
           layout == WholeLayout(kind, n)
<1>1. n \in Nat /\ layout \in Text(Fields)
  BY MessageIs
<1>2. /\ h \in Nat /\ h >= 1 /\ At(HeadOf(kind), h) = JointCount /\ HeadOf(kind) \in Text(Fields)
      /\ JointOf(kind) \in Text(Fields) /\ TailOf(kind) \in Text(Fields)
  BY JointLayoutsAre
<1>3. /\ Size(layout) = h + n * Size(JointOf(kind)) + Size(TailOf(kind))
      /\ \A k \in 1 .. h : At(layout, k) = At(HeadOf(kind), k)
      /\ \A k \in 0 .. h : At(Offsets(layout), k) = At(Offsets(HeadOf(kind)), k)
  BY <1>1, WholeIs DEF WholeOf
<1>4. SizeOf(HeadOf(kind)) = At(Offsets(HeadOf(kind)), h)
  BY <1>2, OffsetsAre, h \in 0 .. h
<1>5. n = At(m.values, h)
  BY KindsAre DEF JointsOf, At, Size, HeadOf
<1>6. h \in 1 .. Size(layout)
  <2> DEFINE w == Size(JointOf(kind))
             e == Size(TailOf(kind))
  <2>1. w \in Nat /\ e \in Nat
    BY <1>2, TextIs
  <2> HIDE DEF h, w, e, n
  <2>2. n * w \in Nat
    BY <1>1, <2>1, Multiples
  <2>3. h <= h + n * w + e /\ h + n * w + e \in Nat
    BY <1>2, <2>1, <2>2
  <2> QED
    BY <1>2, <1>3, <2>3 DEF w, e
<1>7. h \in 1 .. h /\ h \in 0 .. h
  <2> HIDE DEF h
  <2> QED
    BY <1>2
<1>8. At(layout, h) = JointCount /\ At(Offsets(layout), h) = SizeOf(HeadOf(kind))
  BY <1>2, <1>3, <1>4, <1>7
<1> QED
  BY <1>5, <1>6, <1>8

\* What an encoding says of its message.
LEMMA EncodedIs ==
  ASSUME NEW m, IsMessage(m), NEW t \in Encode(m)
  PROVE  LET n == JointsOf(m)
             layout == WholeLayout(m.kind, n)
         IN /\ t \in Text(Digit) /\ Size(t) = SizeOf(layout) /\ t = Pack(layout, m.values)
            /\ n <= MaxJoints /\ Fits(layout, m.values) /\ IsInjective(JointIds(m))
            /\ CountIn(m.kind, t) = n
            /\ m.kind \in DOMAIN JointLayout => n >= 1
<1> DEFINE kind == m.kind
           n == JointsOf(m)
           layout == WholeLayout(kind, n)
           values == m.values
<1>1. /\ kind \in Kinds /\ n \in Nat /\ values \in Text(Int) /\ layout \in Text(Fields)
      /\ Size(values) = Size(layout)
  BY MessageIs
<1>2. /\ n <= MaxJoints /\ Fits(layout, values) /\ IsInjective(JointIds(m))
      /\ t = Pack(layout, values)
  BY DEF Encode
<1>3. /\ t \in Text(Digit) /\ Size(t) = SizeOf(layout)
      /\ \A k \in 1 .. Size(layout) : \A i \in 1 .. At(layout, k).bytes :
           At(t, At(Offsets(layout), k - 1) + i) = At(PackField(At(layout, k), At(values, k)), i)
  BY <1>1, <1>2, PackIs
<1>4. CASE kind \in DOMAIN Layout
  <2>1. CountIn(kind, t) = 0 /\ n = 0 /\ kind \notin DOMAIN JointLayout
    BY <1>4, KindsAre DEF CountIn, JointsOf
  <2> QED
    BY <1>2, <1>3, <2>1
<1>5. CASE kind \in DOMAIN JointLayout
  <2> DEFINE h == Size(HeadOf(kind))
             s == SizeOf(HeadOf(kind))
  <2>1. /\ h \in 1 .. Size(layout) /\ At(layout, h) = JointCount /\ n = At(values, h)
        /\ At(Offsets(layout), h) = s
    BY <1>5, JointsAre
  <2>2. IsField(JointCount, 1, 1, MaxJoints) /\ ByteBase \in Nat /\ MaxJoints \in 1 .. ByteBase - 1
    BY FieldsAre, Base
  <2>3. n \in 1 .. MaxJoints
    <3>1. At(values, h) \in At(layout, h).lo .. At(layout, h).hi
      BY <1>1, <1>2, <2>1, FitsIs
    <3> QED
      BY <2>1, <2>2, <3>1 DEF IsField
  <2>4. At(t, s) = n
    <3>1. At(Offsets(layout), h) = At(Offsets(layout), h - 1) + 1 /\ At(Offsets(layout), h - 1) \in Nat
      BY <1>1, <2>1, <2>2, OffsetsAre DEF IsField
    <3>2. At(t, At(Offsets(layout), h - 1) + 1) = At(PackField(JointCount, n), 1)
      <4>1. 1 \in 1 .. At(layout, h).bytes
        BY <2>1, <2>2 DEF IsField
      <4> QED
        BY <1>3, <2>1, <4>1
    <3>3. At(PackField(JointCount, n), 1) = n % ByteBase
      BY <1>1, <2>2, PackedAre DEF IsField
    <3>4. n % ByteBase = n
      <4> HIDE DEF n
      <4>1. n \in 0 .. ByteBase - 1 /\ ByteBase \in Nat \ {0}
        BY <1>1, <2>2, <2>3
      <4> QED
        BY <4>1, DigitAlone
    <3>5. s = At(Offsets(layout), h - 1) + 1
      BY <2>1, <3>1
    <3> QED
      BY <3>2, <3>3, <3>4, <3>5
  <2>5. CountIn(kind, t) = At(t, s)
    BY <1>5, KindsAre DEF CountIn, At, HeadOf
  <2>6. n >= 1
    <3> HIDE DEF n
    <3> QED
      BY <1>1, <2>2, <2>3
  <2> QED
    BY <1>2, <1>3, <2>4, <2>5, <2>6
<1> QED
  BY <1>1, <1>4, <1>5 DEF Kinds

\* What was encoded is decoded to the same.
LEMMA EncodeDecode ==
  ASSUME NEW m, IsMessage(m), NEW t \in Encode(m)
  PROVE  Decode(m.kind, t) = {m}
<1> DEFINE kind == m.kind
           n == JointsOf(m)
           layout == WholeLayout(kind, n)
           values == m.values
<1>1. /\ kind \in Kinds /\ n \in Nat /\ values \in Text(Int) /\ layout \in Text(Fields)
      /\ Size(values) = Size(layout) /\ m = [kind |-> kind, values |-> values]
      /\ SizeOf(layout) \in Nat
  BY MessageIs
<1>2. /\ t \in Text(Digit) /\ Size(t) = SizeOf(layout) /\ t = Pack(layout, values)
      /\ n <= MaxJoints /\ Fits(layout, values) /\ CountIn(kind, t) = n
      /\ kind \in DOMAIN JointLayout => n >= 1
  BY EncodedIs
<1>3. Unpack(layout, t) = values
  BY <1>1, <1>2, PackUnpack
<1>4. Len(t) = SizeOf(layout)
  BY <1>2 DEF Size
<1>5. SizeOf(WholeLayout(kind, 1)) <= SizeOf(layout)
  <2>1. CASE kind \in DOMAIN Layout
    <3>1. WholeLayout(kind, 1) = layout
      BY <2>1 DEF WholeLayout
    <3> DEFINE z == SizeOf(layout)
    <3>2. z \in Nat
      BY <1>1
    <3> HIDE DEF z, n, layout
    <3>3. z <= z
      BY <3>2
    <3> QED
      BY <3>1, <3>3 DEF z
  <2>2. CASE kind \in DOMAIN JointLayout
    BY <1>1, <1>2, <2>2, WholesAre
  <2> QED
    BY <1>1, <2>1, <2>2 DEF Kinds
<1>6. ~(Len(t) < SizeOf(WholeLayout(kind, 1)))
  <2> DEFINE one == SizeOf(WholeLayout(kind, 1))
             all == SizeOf(layout)
  <2>1. one \in Nat /\ all \in Nat /\ one <= all /\ Len(t) = all
    BY <1>1, <1>4, <1>5, WholesAre
  <2> HIDE DEF one, all
  <2>2. ~(all < one)
    BY <2>1
  <2> QED
    BY <2>1, <2>2 DEF one
<1>7. ~(n > MaxJoints)
  <2> HIDE DEF n
  <2> QED
    BY <1>1, <1>2, Base
<1>8. SizeIsRight(kind, t)
  BY <1>2, <1>4 DEF SizeIsRight
<1>9. Decode(kind, t) = {x \in {[kind |-> kind, values |-> Unpack(layout, t)]} : Encode(x) # {}}
  BY <1>2, <1>6, <1>7, <1>8 DEF Decode
<1>10. [kind |-> kind, values |-> Unpack(layout, t)] = m
  BY <1>1, <1>3
<1> HIDE DEF kind, n, layout, values
<1>11. Decode(kind, t) = {x \in {m} : Encode(x) # {}}
  BY <1>9, <1>10
<1> QED
  BY <1>11 DEF kind

\* What a decoder accepts
LEMMA DecodedIs ==
  ASSUME NEW kind \in Kinds, NEW t \in Text(Digit), NEW m \in Decode(kind, t)
  PROVE  LET n == CountIn(kind, t)
             layout == WholeLayout(kind, n)
         IN /\ IsMessage(m) /\ m = [kind |-> kind, values |-> Unpack(layout, t)]
            /\ n \in Nat /\ JointsOf(m) = n /\ n <= MaxJoints
            /\ Size(t) = SizeOf(layout) /\ Encode(m) = {t}
<1> DEFINE n == CountIn(kind, t)
           layout == WholeLayout(kind, n)
           values == Unpack(layout, t)
<1>1. /\ ~(Len(t) < SizeOf(WholeLayout(kind, 1))) /\ ~(n > MaxJoints) /\ SizeIsRight(kind, t)
      /\ m = [kind |-> kind, values |-> values] /\ Encode(m) # {}
  BY DEF Decode
<1>2. Size(t) = SizeOf(layout) /\ Size(t) \in Nat /\ m.kind = kind /\ m.values = values
  BY <1>1, TextIs DEF SizeIsRight, Size
<1>3. n \in Nat
  <2>1. CASE kind \in DOMAIN Layout
    BY <2>1 DEF CountIn
  <2>2. CASE kind \in DOMAIN JointLayout
    <3> DEFINE s == SizeOf(HeadOf(kind))
               one == SizeOf(WholeLayout(kind, 1))
    <3>1. n = At(t, s)
      BY <2>2, KindsAre DEF CountIn, At, HeadOf
    <3>2. s \in Nat /\ one \in Nat /\ s <= one
      BY <2>2, WholesAre
    <3>3. Size(t) >= one
      <4>1. Len(t) = Size(t) /\ ~(Len(t) < one)
        BY <1>1 DEF Size
      <4> HIDE DEF one
      <4> QED
        BY <1>2, <3>2, <4>1
    <3>4. s >= 1
      <4>1. /\ HeadOf(kind) \in Text(Fields) /\ Size(HeadOf(kind)) \in Nat
            /\ Size(HeadOf(kind)) >= 1 /\ At(HeadOf(kind), Size(HeadOf(kind))) = JointCount
        BY <2>2, JointLayoutsAre
      <4> DEFINE h == Size(HeadOf(kind))
                 o == Offsets(HeadOf(kind))
      <4>2. h \in 1 .. h
        BY <4>1
      <4>3. At(o, h) = At(o, h - 1) + JointCount.bytes /\ At(o, h - 1) \in Nat /\ s = At(o, h)
        BY <4>1, <4>2, OffsetsAre
      <4>4. JointCount.bytes = 1
        BY FieldsAre DEF IsField
      <4> HIDE DEF s, o, h
      <4> QED
        BY <4>3, <4>4
    <3> HIDE DEF s, one, n
    <3>5. s \in 1 .. Size(t)
      BY <1>2, <3>2, <3>3, <3>4
    <3>6. At(t, s) \in Digit
      BY <3>5, TextIs
    <3> QED
      BY <3>1, <3>6, Base DEF Digit
  <2> QED
    BY <2>1, <2>2 DEF Kinds
<1>4. layout \in Text(Fields) /\ SizeOf(layout) \in Nat
  BY <1>3, WholesAre
<1>5. /\ values \in Text(Int) /\ Size(values) = Size(layout)
      /\ \A k \in 1 .. Size(layout) :
           At(values, k) = UnpackField(At(layout, k), Piece(layout, t, k))
  BY <1>2, <1>4, UnpackIs
<1>6. JointsOf(m) = n
  <2>1. CASE kind \in DOMAIN Layout
    BY <1>2, <2>1 DEF CountIn, JointsOf
  <2>2. CASE kind \in DOMAIN JointLayout
    <3> DEFINE h == Size(HeadOf(kind))
               s == SizeOf(HeadOf(kind))
               head == HeadOf(kind)
               w == Size(JointOf(kind))
               e == Size(TailOf(kind))
    <3>1. n = At(t, s) /\ JointsOf(m) = At(values, h)
      BY <1>2, <2>2, KindsAre DEF CountIn, JointsOf, At, Size, HeadOf
    <3>2. /\ head \in Text(Fields) /\ h \in Nat /\ h >= 1 /\ At(head, h) = JointCount
          /\ w \in Nat /\ TailOf(kind) \in Text(Fields)
      BY <2>2, JointLayoutsAre
    <3>3. /\ Size(layout) = h + n * w + e
          /\ \A k \in 1 .. h : At(layout, k) = At(head, k)
          /\ \A k \in 0 .. h : At(Offsets(layout), k) = At(Offsets(head), k)
      BY <1>3, <2>2, WholeIs DEF WholeOf
    <3>4. e \in Nat
      BY <3>2, TextIs
    <3>5. h \in 1 .. h + n * w + e /\ h \in 1 .. h /\ h \in 0 .. h
      <4> HIDE DEF n, h, w, e
      <4>1. n * w \in Nat
        BY <1>3, <3>2, Multiples
      <4> QED
        BY <3>2, <3>4, <4>1
    <3>6. At(layout, h) = JointCount /\ h \in 1 .. Size(layout)
      BY <3>2, <3>3, <3>5
    <3>7. At(Offsets(layout), h) = s
      <4>1. At(Offsets(head), h) = s
        BY <3>2, OffsetsAre, TextIs
      <4> QED
        BY <3>3, <3>5, <4>1
    <3>8. At(Offsets(layout), h) = At(Offsets(layout), h - 1) + 1 /\ At(Offsets(layout), h - 1) \in Nat
      BY <1>4, <3>6, OffsetsAre, FieldsAre DEF IsField
    <3> DEFINE piece == Piece(layout, t, h)
    <3>9. piece \in Text(Digit) /\ Size(piece) = 1 /\ At(piece, 1) = At(t, s)
      <4>1. /\ piece \in Text(Digit) /\ Size(piece) = JointCount.bytes
            /\ \A i \in 1 .. JointCount.bytes : At(piece, i) = At(t, At(Offsets(layout), h - 1) + i)
        BY <1>2, <1>4, <3>6, PieceIs
      <4>2. JointCount.bytes = 1 /\ 1 \in 1 .. 1
        BY FieldsAre DEF IsField
      <4> QED
        BY <3>7, <3>8, <4>1, <4>2
    <3> HIDE DEF piece, s, h
    <3>10. UnpackField(JointCount, piece) = At(t, s)
      <4>1. IsField(JointCount, 1, 1, MaxJoints)
        BY FieldsAre
      <4>2. UnpackField(JointCount, piece) = Unsigned(piece)
        BY <3>9, <4>1, FieldRange DEF IsField
      <4>3. Unsigned(piece) = At(piece, 1)
        BY <3>9, UnsignedIs
      <4> QED
        BY <3>9, <4>2, <4>3
    <3>11. At(values, h) = UnpackField(JointCount, piece)
      BY <1>5, <3>6 DEF piece
    <3> QED
      BY <3>1, <3>10, <3>11
  <2> QED
    BY <2>1, <2>2 DEF Kinds
<1>7. IsMessage(m)
  <2>1. m \in [kind : Kinds, values : Seq(Int)]
    BY <1>1, <1>5 DEF Text
  <2>2. Len(m.values) = Len(WholeLayout(m.kind, JointsOf(m)))
    BY <1>2, <1>5, <1>6 DEF Size
  <2> QED
    BY <1>3, <1>6, <2>1, <2>2 DEF IsMessage
<1>8. Encode(m) = {Pack(layout, values)}
  <2>1. WholeLayout(m.kind, JointsOf(m)) = layout
    BY <1>2, <1>6
  <2> HIDE DEF layout, values
  <2> QED
    BY <1>1, <1>2, <2>1 DEF Encode
<1>9. Pack(layout, values) = t
  BY <1>2, <1>4, UnpackPack
<1>10. n <= MaxJoints
  <2> HIDE DEF n
  <2> QED
    BY <1>1, <1>3, Base
<1> QED
  BY <1>1, <1>2, <1>3, <1>6, <1>7, <1>8, <1>9, <1>10

---------------------------------------------------------------------------
(* The firmware.                                                           *)

\* What the firmware holds in a field fits it, but for the least value.
LEMMA RawIs ==
  ASSUME NEW f \in Fields, NEW v \in Raw(f)
  PROVE  /\ v \in Int
         /\ f.lo < 0 => v \in f.lo .. f.hi
         /\ f.lo >= 0 => v \in 0 .. Largest(f.bytes)
<1>0. f.lo \in Int /\ f.hi \in Int /\ f.bytes \in {1, 2, 4}
  BY FieldIs
<1>1. CASE f.lo < 0
  <2>1. v \in f.lo .. f.hi
    BY <1>1 DEF Raw
  <2> QED
    BY <1>0, <1>1, <2>1
<1>2. CASE f.lo >= 0
  <2> DEFINE x == [k \in 1 .. f.bytes |-> ByteBase - 1]
             u == Unsigned(x)
  <2>1. x \in Text(Digit) /\ Size(x) = f.bytes
    BY <1>0, Base DEF Text, Size, Digit
  <2>2. u \in 0 .. Largest(f.bytes)
    <3> HIDE DEF x
    <3> QED
      BY <1>0, <2>1, UnsignedRange
  <2>3. v \in 0 .. u
    BY <1>0, <1>2 DEF Raw
  <2>4. Largest(f.bytes) \in Int
    BY <1>0, Base, Words DEF Largest
  <2> HIDE DEF u
  <2>5. v \in 0 .. Largest(f.bytes) /\ v \in Int
    BY <2>2, <2>3, <2>4
  <2> QED
    BY <1>0, <1>2, <2>5
<1> QED
  BY <1>0, <1>1, <1>2

LEMMA RawFits ==
  /\ \A v \in Raw(U8) : v \in U8.lo .. U8.hi
  /\ \A v \in Raw(AtLeastOne(U8)) : v # 0 => v \in AtLeastOne(U8).lo .. AtLeastOne(U8).hi
  /\ \A v \in Raw(U16) : v \in U16.lo .. U16.hi
  /\ \A v \in Raw(S16) : v \in S16.lo .. S16.hi
  /\ \A v \in Raw(U32) : v \in U32.lo .. U32.hi
<1>1. /\ Largest(1) = ByteBase - 1 /\ Largest(2) = WORDS - 1 /\ Largest(4) = WORDS * WORDS - 1
      /\ ByteBase \in Nat /\ WORDS \in Nat /\ WORDS * WORDS \in Nat
      /\ WORDS \div 2 \in Nat /\ WORDS \div 2 >= 1
  <2>1. Largest(1) = ByteBase - 1 /\ Largest(2) = WORDS - 1 /\ Largest(4) = WORDS * WORDS - 1
    BY DEF Largest
  <2>2. WORDS \div 2 >= 1
    BY Words
  <2> QED
    BY <2>1, <2>2, Base, Words
<1>2. ASSUME NEW f \in Fields, NEW v \in Raw(f), f.lo = 0, f.hi = Largest(f.bytes)
      PROVE  v \in f.lo .. f.hi
  <2>1. v \in 0 .. Largest(f.bytes)
    <3>1. f.lo >= 0
      BY <1>2
    <3> QED
      BY <3>1, RawIs
  <2> QED
    BY <1>2, <2>1
<1>3. \A v \in Raw(U8) : v \in U8.lo .. U8.hi
  BY <1>1, <1>2, FieldsAre DEF IsField
<1>4. \A v \in Raw(U16) : v \in U16.lo .. U16.hi
  BY <1>1, <1>2, FieldsAre DEF IsField
<1>5. \A v \in Raw(U32) : v \in U32.lo .. U32.hi
  BY <1>1, <1>2, FieldsAre DEF IsField
<1>6. \A v \in Raw(S16) : v \in S16.lo .. S16.hi
  <2>1. S16 \in Fields /\ S16.lo = -(WORDS \div 2)
    BY FieldsAre DEF IsField
  <2>2. S16.lo < 0
    <3> DEFINE h == WORDS \div 2
    <3>1. h \in Nat /\ h >= 1 /\ S16.lo = -h
      BY <1>1, <2>1
    <3> HIDE DEF h
    <3> QED
      BY <3>1
  <2> QED
    BY <2>1, <2>2, RawIs
<1>7. ASSUME NEW v \in Raw(AtLeastOne(U8)), v # 0
      PROVE  v \in AtLeastOne(U8).lo .. AtLeastOne(U8).hi
  <2>1. IsField(AtLeastOne(U8), 1, 1, ByteBase - 1)
    BY FieldsAre
  <2>2. v \in 0 .. Largest(1)
    <3>1. AtLeastOne(U8).lo >= 0
      BY <2>1 DEF IsField
    <3> QED
      BY <2>1, <3>1, RawIs DEF IsField
  <2>3. v \in 1 .. ByteBase - 1
    BY <1>1, <1>7, <2>2
  <2> QED
    BY <2>1, <2>3 DEF IsField
<1> QED
  BY <1>3, <1>4, <1>5, <1>6, <1>7

\* Every field of a layout with joints is in the head, in a joint or in the tail.
LEMMA WholeCover ==
  ASSUME NEW kind \in DOMAIN JointLayout, NEW n \in Nat,
         NEW k \in 1 .. Size(WholeLayout(kind, n))
  PROVE  LET h == Size(HeadOf(kind))
             w == Size(JointOf(kind))
         IN \/ k \in 1 .. h
            \/ \E i \in 1 .. n : \E j \in 1 .. w : k = h + (i - 1) * w + j
            \/ \E j \in 1 .. Size(TailOf(kind)) : k = h + n * w + j
<1> DEFINE h == Size(HeadOf(kind))
           w == Size(JointOf(kind))
           m == Size(TailOf(kind))
           o == n * w
           d == k - h - 1
<1>1. /\ h \in Nat /\ w \in Nat /\ w >= 1 /\ TailOf(kind) \in Text(Fields)
  BY JointLayoutsAre
<1>2. m \in Nat
  BY <1>1, TextIs
<1>3. k \in 1 .. h + o + m
  BY WholeIs DEF WholeOf
<1> HIDE DEF h, w, m
<1>4. o \in Nat
  BY <1>1, Multiples
<1>5. CASE k > h /\ k <= h + o
  <2> DEFINE q == d \div w
             r == d % w
  <2>1. w \in Nat \ {0} /\ w * n = o
    BY <1>1
  <2>2. d \in 0 .. w * n - 1
    <3> HIDE DEF o
    <3> QED
      BY <1>1, <1>3, <1>4, <1>5, <2>1
  <2>3. q \in 0 .. n - 1
    <3> HIDE DEF d
    <3> QED
      BY <2>1, <2>2, QuotientIn
  <2>4. d \in Int /\ k = h + 1 + d
    BY <1>1, <1>2, <1>3, <1>4
  <2>5. r \in 0 .. w - 1 /\ d = w * q + r /\ q \in Int
    <3> HIDE DEF d
    <3> QED
      BY <2>1, <2>4, Divides
  <2> HIDE DEF d, q, r, o
  <2>6. q + 1 \in 1 .. n /\ r + 1 \in 1 .. w /\ (q + 1) - 1 = q
    BY <1>1, <2>3, <2>5
  <2>7. w * q = q * w /\ q * w \in Int
    BY <1>1, <2>5
  <2>8. k = h + ((q + 1) - 1) * w + (r + 1)
    <3> DEFINE z == q * w
    <3>1. d = z + r /\ z \in Int /\ ((q + 1) - 1) * w = z
      BY <2>5, <2>6, <2>7
    <3> HIDE DEF z
    <3>2. k = h + z + (r + 1)
      BY <1>1, <2>4, <2>5, <3>1
    <3> QED
      BY <3>1, <3>2
  <2>9. \E i \in 1 .. n : \E j \in 1 .. w : k = h + (i - 1) * w + j
    BY <2>6, <2>8
  <2> QED
    BY <2>9 DEF h, w
<1>6. CASE k > h + o
  <2> DEFINE e == k - (h + o)
  <2> HIDE DEF o
  <2>1. e \in 1 .. m /\ k = h + o + e
    BY <1>1, <1>2, <1>3, <1>4, <1>6
  <2> QED
    BY <2>1 DEF h, w, m, o
<1>7. CASE k <= h
  <2>1. k \in 1 .. h
    BY <1>1, <1>7
  <2> QED
    BY <2>1 DEF h
<1> HIDE DEF o
<1>8. (k > h /\ k <= h + o) \/ k > h + o \/ k <= h
  BY <1>1, <1>2, <1>3, <1>4
<1> QED
  BY <1>5, <1>6, <1>7, <1>8

\* The ids of a message are the first values of its joints.
LEMMA JointIdIs ==
  ASSUME NEW m, m.kind \in DOMAIN JointLayout, JointsOf(m) \in Nat
  PROVE  /\ DOMAIN JointIds(m) = 1 .. JointsOf(m) /\ Len(JointIds(m)) = JointsOf(m)
         /\ \A i \in 1 .. JointsOf(m) :
              JointIds(m)[i]
                = At(m.values, Size(HeadOf(m.kind)) + (i - 1) * Size(JointOf(m.kind)) + 1)
  BY DEF JointIds, IdAt, At, Size, HeadOf, JointOf

\* What the firmware sends is bytes, and the host decodes it to the same message,
\* unless the state is unknown or a joint is there twice.
LEMMA FirmwareDecoded ==
  ASSUME NEW m, IsFirmwareMessage(m), NEW t \in FirmwareEncode(m)
  PROVE  /\ t \in Text(Digit)
         /\ \/ Decode(m.kind, t) = {m}
            \/ /\ m.kind = "telemetry"
               /\ ~IsInjective(JointIds(m)) \/ m.values[2] \notin 1 .. 10
<1> DEFINE kind == m.kind
           n == JointsOf(m)
           layout == WholeLayout(kind, n)
           values == m.values
<1>1. IsMessage(m) /\ kind \in {"glove", "acknowledgement", "telemetry"}
  BY DEF IsFirmwareMessage
<1>2. /\ kind \in Kinds /\ n \in Nat /\ values \in Text(Int) /\ layout \in Text(Fields)
      /\ Size(values) = Size(layout)
  BY <1>1, MessageIs
<1>3. /\ n <= MaxJoints /\ t = Pack(layout, values)
      /\ kind = "telemetry" => n > 0 /\ 0 \notin ToSet(JointIds(m))
  BY DEF FirmwareEncode, FirmwareSends
<1>4. t \in Text(Digit)
  BY <1>2, <1>3, PackIs
<1>5. \A k \in 1 .. Size(layout) :
        \/ At(layout, k) = AckStatus /\ At(values, k) \in 0 .. 3
        \/ At(values, k) \in Raw(At(layout, k))
  <2>1. \A k \in DOMAIN layout :
          values[k] \in IF layout[k] = AckStatus THEN 0 .. 3 ELSE Raw(layout[k])
    BY DEF IsFirmwareMessage
  <2>2. DOMAIN layout = 1 .. Size(layout)
    BY <1>2 DEF Text, Size
  <2> QED
    BY <2>1, <2>2 DEF At
<1>6. SUFFICES ASSUME kind = "telemetry" => IsInjective(JointIds(m)) /\ values[2] \in 1 .. 10
               PROVE  Decode(kind, t) = {m}
  BY <1>4
<1>7. \A v \in 0 .. 3 : v \in AckStatus.lo .. AckStatus.hi
  BY FieldsAre DEF IsField
<1>8. CASE kind \in {"glove", "acknowledgement"}
  <2>1. kind \in DOMAIN Layout /\ layout = Layout[kind] /\ n = 0
    BY <1>8, KindsAre DEF WholeLayout, JointsOf
  <2>2. \A k \in 1 .. Size(layout) : At(layout, k) \in {U8, U16, S16, AckStatus}
    <3> DEFINE F == {U8, U16, S16, AckStatus}
    <3>1. U8 \in F /\ U16 \in F /\ S16 \in F /\ AckStatus \in F
      OBVIOUS
    <3> HIDE DEF F
    <3>2. layout \in Text(F)
      <4>1. CASE kind = "glove"
        <5>1. layout = <<U16, S16, S16, S16, S16, S16, S16, S16, S16, U16, U8>>
          BY <2>1, <4>1 DEF Layout
        <5>2. \A a, b, c \in F : <<a, b, b, b, b, b, b, b, b, a, c>> \in Seq(F)
          OBVIOUS
        <5> QED
          BY <3>1, <5>1, <5>2 DEF Text
      <4>2. CASE kind = "acknowledgement"
        <5>1. layout = <<U16, AckStatus>>
          BY <2>1, <4>2 DEF Layout
        <5>2. \A a, b \in F : <<a, b>> \in Seq(F)
          OBVIOUS
        <5> QED
          BY <3>1, <5>1, <5>2 DEF Text
      <4> QED
        BY <1>8, <4>1, <4>2
    <3>3. \A k \in 1 .. Size(layout) : At(layout, k) \in F
      BY <3>2, TextIs
    <3> QED
      BY <3>3 DEF F
  <2>3. ASSUME NEW k \in 1 .. Size(layout)
        PROVE  At(values, k) \in At(layout, k).lo .. At(layout, k).hi
    <3>1. At(layout, k) \in {U8, U16, S16, AckStatus}
      BY <2>2
    <3>2. CASE At(layout, k) = AckStatus /\ At(values, k) \in 0 .. 3
      BY <1>7, <3>2
    <3>3. CASE At(values, k) \in Raw(At(layout, k)) /\ At(layout, k) # AckStatus
      <4>1. At(layout, k) = U8 \/ At(layout, k) = U16 \/ At(layout, k) = S16
        BY <3>1, <3>3
      <4> HIDE DEF layout, values
      <4> QED
        BY <3>3, <4>1, RawFits
    <3>4. CASE At(values, k) \in Raw(At(layout, k)) /\ At(layout, k) = AckStatus
      <4>1. layout[k] = AckStatus /\ k \in DOMAIN layout
        BY <1>2, <3>4 DEF At, Text, Size
      <4>2. At(values, k) \in 0 .. 3
        BY <4>1 DEF IsFirmwareMessage, At
      <4> QED
        BY <1>7, <3>4, <4>2
    <3> QED
      BY <1>5, <3>2, <3>3, <3>4
  <2>4. Fits(layout, values)
    <3> HIDE DEF layout, values
    <3> QED
      BY <1>2, <2>3, FitsIs
  <2>5. IsInjective(JointIds(m))
    <3>1. DOMAIN JointIds(m) = {}
      BY <2>1 DEF JointIds
    <3> QED
      BY <3>1 DEF IsInjective
  <2>6. t \in Encode(m)
    BY <1>3, <2>4, <2>5 DEF Encode
  <2> QED
    BY <1>1, <2>6, EncodeDecode
<1>9. CASE kind = "telemetry"
  <2>1. kind \in DOMAIN JointLayout
    BY <1>9, KindsAre
  <2>2. WholeOf(kind, n, layout)
    BY <1>2, <2>1, WholeIs
  <2>3. ASSUME NEW k \in 1 .. 5
        PROVE  /\ At(layout, k) = At(HeadOf(kind), k) /\ k \in 1 .. Size(layout)
    <3>1. Size(HeadOf(kind)) = 5
      BY <1>9, TelemetryLayout
    <3>2. 5 \in 1 .. Size(layout)
      BY <1>1, <2>1, <3>1, JointsAre
    <3>3. Size(layout) \in Nat
      BY <1>2, TextIs
    <3>4. At(layout, k) = At(HeadOf(kind), k)
      BY <2>2, <3>1 DEF WholeOf
    <3> HIDE DEF layout
    <3> QED
      BY <3>2, <3>3, <3>4
  <2>4. /\ At(layout, 1) = U32 /\ At(layout, 2) = WireSystemState /\ At(layout, 3) = U8
        /\ At(layout, 4) = U16 /\ At(layout, 5) = JointCount
    <3> HIDE DEF layout
    <3> QED
      BY <1>9, <2>3, TelemetryLayout
  <2>5. At(values, 5) = n /\ At(values, 2) \in 1 .. 10 /\ n \in 1 .. MaxJoints
    <3>1. At(values, 5) = n
      BY <1>1, <1>9, <2>1, JointsAre, TelemetryLayout
    <3>2. At(values, 2) \in 1 .. 10
      BY <1>6, <1>9 DEF At
    <3>3. n > 0
      BY <1>3, <1>9
    <3> HIDE DEF n
    <3>4. n \in 1 .. MaxJoints
      BY <1>2, <1>3, <3>3, Base
    <3> QED
      BY <3>1, <3>2, <3>4
  <2>6. ASSUME NEW k \in 1 .. 5
        PROVE  At(values, k) \in At(layout, k).lo .. At(layout, k).hi
    <3>1. k \in 1 .. Size(layout) /\ (k = 1 \/ k = 2 \/ k = 3 \/ k = 4 \/ k = 5)
      BY <2>3
    <3>2. /\ IsField(WireSystemState, 1, 1, 10) /\ IsField(JointCount, 1, 1, MaxJoints)
          /\ U8.bytes = 1 /\ U8.hi = ByteBase - 1 /\ U16.bytes = 2 /\ U32.bytes = 4
          /\ AckStatus.bytes = 1 /\ AckStatus.hi = 3
      BY FieldsAre DEF IsField
    <3>3. U8 # AckStatus /\ U16 # AckStatus /\ U32 # AckStatus
      <4>1. U8.hi # AckStatus.hi
        BY <3>2, Base
      <4>2. U8 # AckStatus
        BY <4>1
      <4>3. U16 # AckStatus /\ U32 # AckStatus
        BY <3>2
      <4> QED
        BY <4>2, <4>3
    <3>4. CASE k = 2
      <4> HIDE DEF layout, values
      <4> QED
        BY <2>4, <2>5, <3>2, <3>4 DEF IsField
    <3>5. CASE k = 5
      <4> HIDE DEF layout, values, n
      <4> QED
        BY <2>4, <2>5, <3>2, <3>5 DEF IsField
    <3>6. CASE k = 1 \/ k = 3 \/ k = 4
      <4> HIDE DEF layout, values
      <4>1. At(layout, k) # AckStatus
        BY <2>4, <3>3, <3>6
      <4>2. At(values, k) \in Raw(At(layout, k))
        BY <1>5, <3>1, <4>1
      <4> QED
        BY <2>4, <3>6, <4>2, RawFits
    <3> QED
      BY <3>1, <3>4, <3>5, <3>6
  <2>7. ASSUME NEW i \in 1 .. n, NEW j \in 1 .. 4, NEW k \in 1 .. Size(layout),
               k = 5 + (i - 1) * 4 + j
        PROVE  At(values, k) \in At(layout, k).lo .. At(layout, k).hi
    <3>1. At(layout, k) = At(JointOf(kind), j)
      BY <1>9, <2>2, <2>7, TelemetryLayout DEF WholeOf
    <3>2. /\ IsField(AtLeastOne(U8), 1, 1, ByteBase - 1) /\ S16.bytes = 2 /\ U16.bytes = 2
          /\ AckStatus.bytes = 1 /\ AckStatus.lo = 0
      BY FieldsAre DEF IsField
    <3>3. AtLeastOne(U8) # AckStatus /\ S16 # AckStatus /\ U16 # AckStatus
      BY <3>2 DEF IsField
    <3>4. \/ j = 1 /\ At(layout, k) = AtLeastOne(U8)
          \/ At(layout, k) = S16 \/ At(layout, k) = U16
      <4>1. j = 1 \/ j = 2 \/ j = 3 \/ j = 4
        OBVIOUS
      <4> HIDE DEF layout
      <4> QED
        BY <1>9, <3>1, <4>1, TelemetryLayout
    <3>5. At(values, k) \in Raw(At(layout, k))
      <4> HIDE DEF layout, values
      <4> QED
        BY <1>5, <3>3, <3>4
    <3>6. CASE j = 1 /\ At(layout, k) = AtLeastOne(U8)
      <4>1. At(values, k) = JointIds(m)[i] /\ i \in DOMAIN JointIds(m)
        <5>1. Size(HeadOf(kind)) = 5 /\ Size(JointOf(kind)) = 4
          BY <1>9, TelemetryLayout
        <5>2. DOMAIN JointIds(m) = 1 .. n /\ JointIds(m)[i] = At(values, 5 + (i - 1) * 4 + 1)
          BY <1>2, <2>1, <5>1, JointIdIs
        <5>3. k = 5 + (i - 1) * 4 + 1
          BY <2>7, <3>6
        <5> HIDE DEF values
        <5> QED
          BY <5>2, <5>3
      <4>2. At(values, k) # 0
        BY <1>3, <1>9, <4>1 DEF ToSet
      <4> HIDE DEF layout, values
      <4> QED
        BY <3>5, <3>6, <4>2, RawFits
    <3>7. CASE At(layout, k) = S16 \/ At(layout, k) = U16
      <4> HIDE DEF layout, values
      <4> QED
        BY <3>5, <3>7, RawFits
    <3> QED
      BY <3>4, <3>6, <3>7
  <2>8. ASSUME NEW k \in 1 .. Size(layout)
        PROVE  At(values, k) \in At(layout, k).lo .. At(layout, k).hi
    <3>1. \/ k \in 1 .. 5
          \/ \E i \in 1 .. n : \E j \in 1 .. 4 : k = 5 + (i - 1) * 4 + j
          \/ \E j \in 1 .. 0 : TRUE
      <4>1. Size(HeadOf(kind)) = 5 /\ Size(JointOf(kind)) = 4 /\ Size(TailOf(kind)) = 0
        BY <1>9, TelemetryLayout
      <4>2. k \in 1 .. Size(WholeLayout(kind, n)) /\ kind \in DOMAIN JointLayout /\ n \in Nat
        BY <1>2, <2>1
      <4> HIDE DEF kind, n, layout, values
      <4>3. \/ k \in 1 .. Size(HeadOf(kind))
            \/ \E i \in 1 .. n : \E j \in 1 .. Size(JointOf(kind)) :
                 k = Size(HeadOf(kind)) + (i - 1) * Size(JointOf(kind)) + j
            \/ \E j \in 1 .. Size(TailOf(kind)) :
                 k = Size(HeadOf(kind)) + n * Size(JointOf(kind)) + j
        BY <4>2, WholeCover
      <4>4. CASE k \in 1 .. Size(HeadOf(kind))
        BY <4>1, <4>4
      <4>5. CASE \E i \in 1 .. n : \E j \in 1 .. Size(JointOf(kind)) :
                   k = Size(HeadOf(kind)) + (i - 1) * Size(JointOf(kind)) + j
        BY <4>1, <4>5
      <4>6. CASE \E j \in 1 .. Size(TailOf(kind)) :
                   k = Size(HeadOf(kind)) + n * Size(JointOf(kind)) + j
        BY <4>1, <4>6
      <4> QED
        BY <4>3, <4>4, <4>5, <4>6
    <3>2. CASE k \in 1 .. 5
      BY <2>6, <3>2
    <3>3. CASE \E i \in 1 .. n : \E j \in 1 .. 4 : k = 5 + (i - 1) * 4 + j
      BY <2>7, <3>3
    <3>4. ~\E j \in 1 .. 0 : TRUE
      OBVIOUS
    <3> QED
      BY <3>1, <3>2, <3>3, <3>4
  <2>9. Fits(layout, values)
    <3> HIDE DEF layout, values
    <3> QED
      BY <1>2, <2>8, FitsIs
  <2>10. t \in Encode(m)
    BY <1>3, <1>6, <1>9, <2>9 DEF Encode
  <2> QED
    BY <1>1, <2>10, EncodeDecode
<1> QED
  BY <1>1, <1>8, <1>9

---------------------------------------------------------------------------
(* The gateway.                                                            *)

\* The names in the order of their ids
Sorted(named, list) ==
  /\ list \in [1 .. Cardinality(named) -> named]
  /\ \A i, j \in DOMAIN list : i < j => JointProtocolIds[list[i]] < JointProtocolIds[list[j]]

\* What is assumed of the ids of the joints.
LEMMA ProtocolIds ==
  /\ IsFiniteSet(DOMAIN JointProtocolIds)
  /\ \A name \in DOMAIN JointProtocolIds : JointProtocolIds[name] \in 1 .. ByteBase - 1
  /\ \A a, b \in DOMAIN JointProtocolIds : a # b => JointProtocolIds[a] # JointProtocolIds[b]
  BY PayloadAssumption

\* There is such a list, so the names are sorted.
LEMMA SortedExists ==
  ASSUME NEW named \in SUBSET DOMAIN JointProtocolIds
  PROVE  /\ \E list : Sorted(named, list)
         /\ IsFiniteSet(named) /\ Cardinality(named) \in Nat
<1> DEFINE D == DOMAIN JointProtocolIds
           T == {c \in Nat : \A N \in SUBSET D : Cardinality(N) = c => \E list : Sorted(N, list)}
<1>1. \A N \in SUBSET D : IsFiniteSet(N) /\ Cardinality(N) \in Nat
  BY ProtocolIds, FS_Subset, FS_CardinalityType
<1>2. 0 \in T
  <2>1. ASSUME NEW N \in SUBSET D, Cardinality(N) = 0
        PROVE  \E list : Sorted(N, list)
    <3> DEFINE list == [i \in 1 .. 0 |-> CHOOSE x \in N : TRUE]
    <3>1. list \in [1 .. 0 -> N] /\ DOMAIN list = {}
      OBVIOUS
    <3> HIDE DEF list
    <3>2. Sorted(N, list)
      BY <2>1, <3>1 DEF Sorted
    <3> QED
      BY <3>2
  <2> QED
    BY <2>1
<1>3. ASSUME NEW c \in T PROVE c + 1 \in T
  <2>0. c \in Nat
    OBVIOUS
  <2>1. ASSUME NEW N \in SUBSET D, Cardinality(N) = c + 1
        PROVE  \E list : Sorted(N, list)
    <3>1. N # {}
      <4>1. Cardinality({}) = 0
        BY FS_EmptySet
      <4> QED
        BY <2>0, <2>1, <4>1
    <3>2. PICK x \in N : \A y \in N : y # x => JointProtocolIds[y] < JointProtocolIds[x]
      <4> DEFINE B == {ByteBase - JointProtocolIds[y] : y \in N}
      <4>1. B \in SUBSET Nat /\ B # {}
        BY <3>1, ProtocolIds, Base
      <4>2. PICK b \in B : \A z \in B : b <= z
        <5> HIDE DEF B
        <5> QED
          BY <4>1, LeastNumber
      <4>3. PICK x \in N : b = ByteBase - JointProtocolIds[x]
        OBVIOUS
      <4>4. ASSUME NEW y \in N, y # x PROVE JointProtocolIds[y] < JointProtocolIds[x]
        <5>1. /\ JointProtocolIds[y] \in 1 .. ByteBase - 1 /\ JointProtocolIds[x] \in 1 .. ByteBase - 1
              /\ JointProtocolIds[y] # JointProtocolIds[x]
          BY <4>4, ProtocolIds
        <5>2. ByteBase - JointProtocolIds[x] <= ByteBase - JointProtocolIds[y]
          BY <4>2, <4>3
        <5> QED
          BY <5>1, <5>2, Base
      <4> QED
        BY <4>4
    <3> DEFINE M == N \ {x}
    <3>3. M \in SUBSET D /\ Cardinality(M) = c
      <4>1. Cardinality(M) = Cardinality(N) - 1
        BY <1>1, FS_RemoveElement
      <4> QED
        BY <2>0, <2>1, <4>1
    <3>4. PICK short : Sorted(M, short)
      BY <3>3
    <3>5. /\ short \in [1 .. c -> M]
          /\ \A i, j \in 1 .. c : i < j => JointProtocolIds[short[i]] < JointProtocolIds[short[j]]
      BY <3>3, <3>4 DEF Sorted
    <3> DEFINE list == [i \in 1 .. c + 1 |-> IF i = c + 1 THEN x ELSE short[i]]
    <3>6. \A i \in 1 .. c + 1 : i = c + 1 \/ i \in 1 .. c
      BY <2>0
    <3>7. list \in [1 .. c + 1 -> N]
      BY <3>5, <3>6
    <3>8. ASSUME NEW i \in 1 .. c + 1, NEW j \in 1 .. c + 1, i < j
          PROVE  JointProtocolIds[list[i]] < JointProtocolIds[list[j]]
      <4>1. i \in 1 .. c /\ list[i] = short[i] /\ short[i] \in M
        BY <2>0, <3>5, <3>8
      <4>2. CASE j = c + 1
        <5>1. list[j] = x /\ short[i] \in N /\ short[i] # x
          BY <4>1, <4>2
        <5> QED
          BY <3>2, <4>1, <5>1
      <4>3. CASE j \in 1 .. c
        <5>1. list[j] = short[j]
          BY <2>0, <4>3
        <5> QED
          BY <3>5, <3>8, <4>1, <4>3, <5>1
      <4> QED
        BY <3>6, <4>2, <4>3
    <3> HIDE DEF list
    <3>9. Sorted(N, list)
      <4>1. DOMAIN list = 1 .. c + 1
        BY <3>7
      <4> QED
        BY <2>1, <3>7, <3>8, <4>1 DEF Sorted
    <3> QED
      BY <3>9
  <2> QED
    BY <2>0, <2>1
<1>4. T = Nat
  <2>1. T \subseteq Nat
    OBVIOUS
  <2> HIDE DEF T
  <2> QED
    BY <1>2, <1>3, <2>1, EveryNumber
<1>5. Cardinality(named) \in T
  BY <1>1, <1>4
<1> QED
  BY <1>1, <1>5

\* Every name is in the list, once.
LEMMA SortedHasAll ==
  ASSUME NEW named \in SUBSET DOMAIN JointProtocolIds, NEW list, Sorted(named, list)
  PROVE  /\ \A name \in named : \E i \in 1 .. Cardinality(named) : list[i] = name
         /\ \A i, j \in 1 .. Cardinality(named) :
              JointProtocolIds[list[i]] = JointProtocolIds[list[j]] => i = j
         /\ \A i \in 1 .. Cardinality(named) :
              list[i] \in named /\ JointProtocolIds[list[i]] \in 1 .. ByteBase - 1
<1> DEFINE n == Cardinality(named)
<1>1. IsFiniteSet(named) /\ n \in Nat
  BY SortedExists
<1>2. list \in [1 .. n -> named]
  BY DEF Sorted
<1>3. \A i \in 1 .. n : list[i] \in named /\ JointProtocolIds[list[i]] \in 1 .. ByteBase - 1
  BY <1>2, ProtocolIds
<1>4. ASSUME NEW i \in 1 .. n, NEW j \in 1 .. n, JointProtocolIds[list[i]] = JointProtocolIds[list[j]]
      PROVE  i = j
  <2>1. i < j => JointProtocolIds[list[i]] < JointProtocolIds[list[j]]
    BY <1>2 DEF Sorted
  <2>2. j < i => JointProtocolIds[list[j]] < JointProtocolIds[list[i]]
    BY <1>2 DEF Sorted
  <2>3. JointProtocolIds[list[i]] \in Int /\ JointProtocolIds[list[j]] \in Int
    BY <1>3, Base
  <2>4. ~(i < j) /\ ~(j < i)
    BY <1>4, <2>1, <2>2, <2>3
  <2> HIDE DEF n
  <2> QED
    BY <1>1, <2>4
<1>5. list \in Injection(1 .. n, named)
  BY <1>2, <1>4 DEF Injection, IsInjective
<1>6. Cardinality(1 .. n) = n
  BY <1>1, FS_Interval
<1>7. list \in Surjection(1 .. n, named)
  BY <1>1, <1>5, <1>6, FS_Injection
<1>8. \A name \in named : \E i \in 1 .. n : list[i] = name
  BY <1>2, <1>7 DEF Surjection
<1> QED
  BY <1>3, <1>4, <1>8

\* A number that is representable is exact.
LEMMA ExactIs ==
  ASSUME NEW value, NEW scale, NEW field \in Fields,
         NEW n \in ExactProtocolInteger(value, scale, field)
  PROVE  n \in Int /\ n * 1000 = value * scale /\ value # NotFinite
<1>1. n \in field.lo .. field.hi /\ n * 1000 = value * scale /\ value # NotFinite
  BY DEF ExactProtocolInteger
<1> QED
  BY <1>1, FieldIs

LEMMA TheIs ==
  ASSUME NEW results, results # {}
  PROVE  The(results) \in results
  BY DEF The

\* The parts of EncodeAuthorization.
Named(a) == DOMAIN a.targets
NamesOf(a) ==
  CHOOSE list \in [1 .. Cardinality(Named(a)) -> Named(a)] :
    \A i, j \in DOMAIN list : i < j => JointProtocolIds[list[i]] < JointProtocolIds[list[j]]
AngleOf(a, name) == ExactProtocolInteger(a.targets[name], 100, S16)
TtlOf(a) == ExactProtocolInteger(a.ttl, 1, AtLeastOne(U16))
RateOf(value) == ExactProtocolInteger(value, 100, AtLeastOne(U16))
TargetsOf(a) ==
  [k \in DOMAIN NamesOf(a) |-> <<JointProtocolIds[NamesOf(a)[k]], The(AngleOf(a, NamesOf(a)[k]))>>]

\* What is encoded, and of which numbers.
LEMMA AuthorizationIs ==
  ASSUME NEW a \in Authorizations, NEW m \in EncodeAuthorization(a)
  PROVE  /\ Named(a) \subseteq DOMAIN JointProtocolIds
         /\ \A name \in Named(a) : The(AngleOf(a, name)) \in AngleOf(a, name)
         /\ The(TtlOf(a)) \in TtlOf(a) /\ The(RateOf(a.velocity)) \in RateOf(a.velocity)
         /\ The(RateOf(a.acceleration)) \in RateOf(a.acceleration)
         /\ m.kind = "motion"
         /\ m.values = <<a.id, The(TtlOf(a)), 1, Len(NamesOf(a))>> \o FlattenSeq(TargetsOf(a))
                       \o <<The(RateOf(a.velocity)), The(RateOf(a.acceleration))>>
         /\ m \in [kind : {"motion"}, values : {m.values}]
<1>1. /\ Named(a) \subseteq DOMAIN JointProtocolIds
      /\ {} \notin {AngleOf(a, name) : name \in Named(a)}
      /\ {} \notin {TtlOf(a), RateOf(a.velocity), RateOf(a.acceleration)}
      /\ m = [kind |-> "motion",
              values |-> <<a.id, The(TtlOf(a)), 1, Len(NamesOf(a))>> \o FlattenSeq(TargetsOf(a))
                         \o <<The(RateOf(a.velocity)), The(RateOf(a.acceleration))>>]
  BY DEF EncodeAuthorization, Named, NamesOf, AngleOf, TtlOf, RateOf, TargetsOf
<1>2. \A name \in Named(a) : AngleOf(a, name) # {}
  BY <1>1
<1>3. TtlOf(a) # {} /\ RateOf(a.velocity) # {} /\ RateOf(a.acceleration) # {}
  BY <1>1
<1>4. m.kind = "motion" /\ m \in [kind : {"motion"}, values : {m.values}]
  BY <1>1
<1>5. m.values = <<a.id, The(TtlOf(a)), 1, Len(NamesOf(a))>> \o FlattenSeq(TargetsOf(a))
                 \o <<The(RateOf(a.velocity)), The(RateOf(a.acceleration))>>
  BY <1>1
<1> QED
  BY <1>1, <1>2, <1>3, <1>4, <1>5, TheIs

\* The values of the message: the head, two for each name, and the two rates.
GatewayValues(a, n, v) ==
  /\ v \in Text(Int) /\ Size(v) = 4 + n * 2 + 2 /\ At(v, 4) = n
  /\ At(v, 2) * 1000 = a.ttl
  /\ \A i \in 1 .. n :
       /\ At(v, 4 + (i - 1) * 2 + 1) = JointProtocolIds[NamesOf(a)[i]]
       /\ At(v, 4 + (i - 1) * 2 + 2) * 1000 = a.targets[NamesOf(a)[i]] * 100
  /\ At(v, 4 + n * 2 + 1) * 1000 = a.velocity * 100
  /\ At(v, 4 + n * 2 + 2) * 1000 = a.acceleration * 100

LEMMA GatewayValuesAre ==
  ASSUME NEW a \in Authorizations, NEW m \in EncodeAuthorization(a)
  PROVE  /\ Sorted(Named(a), NamesOf(a)) /\ Cardinality(Named(a)) \in Nat
         /\ Named(a) \in SUBSET DOMAIN JointProtocolIds
         /\ GatewayValues(a, Cardinality(Named(a)), m.values)
<1> DEFINE n == Cardinality(Named(a))
           list == NamesOf(a)
           texts == TargetsOf(a)
           flat == FlattenSeq(texts)
           at == [k \in 0 .. n |-> 2 * k]
           first == <<a.id, The(TtlOf(a)), 1, Len(list)>>
           last == <<The(RateOf(a.velocity)), The(RateOf(a.acceleration))>>
           x == first \o flat
           v == m.values
<1>1. /\ Named(a) \in SUBSET DOMAIN JointProtocolIds
      /\ \A name \in Named(a) : The(AngleOf(a, name)) \in AngleOf(a, name)
      /\ The(TtlOf(a)) \in TtlOf(a) /\ The(RateOf(a.velocity)) \in RateOf(a.velocity)
      /\ The(RateOf(a.acceleration)) \in RateOf(a.acceleration)
      /\ v = x \o last
  BY AuthorizationIs
<1>2. n \in Nat /\ \E some : Sorted(Named(a), some)
  BY <1>1, SortedExists
<1>3. Sorted(Named(a), list)
  BY <1>2 DEF Sorted, NamesOf
<1>4. list \in [1 .. n -> Named(a)] /\ DOMAIN list = 1 .. n /\ Len(list) = n
  BY <1>2, <1>3 DEF Sorted
<1>5. /\ \A name \in Named(a) : /\ The(AngleOf(a, name)) \in Int
                                /\ The(AngleOf(a, name)) * 1000 = a.targets[name] * 100
      /\ The(TtlOf(a)) \in Int /\ The(TtlOf(a)) * 1000 = a.ttl
      /\ The(RateOf(a.velocity)) \in Int /\ The(RateOf(a.velocity)) * 1000 = a.velocity * 100
      /\ The(RateOf(a.acceleration)) \in Int
      /\ The(RateOf(a.acceleration)) * 1000 = a.acceleration * 100
  <2>1. S16 \in Fields /\ AtLeastOne(U16) \in Fields
    BY FieldsAre DEF IsField
  <2>2. The(TtlOf(a)) \in Int /\ The(TtlOf(a)) * 1000 = a.ttl * 1 /\ a.ttl # NotFinite
    BY <1>1, <2>1, ExactIs DEF TtlOf
  <2>3. a.ttl \in Int
    BY <2>2, PayloadAssumption
  <2>4. a.ttl * 1 = a.ttl
    BY <2>3
  <2> QED
    BY <1>1, <2>1, <2>2, <2>4, ExactIs DEF AngleOf, RateOf
<1>6. /\ texts \in Text(Text(Int)) /\ Size(texts) = n
      /\ \A k \in 1 .. n : /\ Size(At(texts, k)) = 2
                           /\ At(At(texts, k), 1) = JointProtocolIds[list[k]]
                           /\ At(At(texts, k), 2) = The(AngleOf(a, list[k]))
  <2>1. texts = [k \in 1 .. n |-> <<JointProtocolIds[list[k]], The(AngleOf(a, list[k]))>>]
    BY <1>4 DEF TargetsOf
  <2>2. \A k \in 1 .. n : JointProtocolIds[list[k]] \in Int /\ The(AngleOf(a, list[k])) \in Int
    <3>1. \A k \in 1 .. n : JointProtocolIds[list[k]] \in 1 .. ByteBase - 1
      BY <1>1, <1>3, SortedHasAll
    <3>2. ByteBase - 1 \in Int
      BY Base
    <3>3. ASSUME NEW k \in 1 .. n PROVE list[k] \in Named(a)
      BY <1>4
    <3> HIDE DEF list, n
    <3>4. ASSUME NEW k \in 1 .. n
          PROVE  JointProtocolIds[list[k]] \in Int /\ The(AngleOf(a, list[k])) \in Int
      BY <1>5, <3>1, <3>2, <3>3
    <3> QED
      BY <3>4
  <2>3. texts \in Seq(Seq(Int)) /\ Len(texts) = n
    <3> HIDE DEF texts, list, n
    <3> QED
      BY <1>2, <2>1, <2>2
  <2> HIDE DEF texts, list, n
  <2> QED
    BY <2>1, <2>3 DEF Text, Size, At
<1> HIDE DEF texts, flat, first, last, x, v, list, n
<1>7. Ends(at, texts)
  <2>1. At(at, 0) = 0
    BY <1>2 DEF At
  <2>2. ASSUME NEW k \in 1 .. n PROVE At(at, k) = At(at, k - 1) + 2
    <3>1. at[k] = 2 * k /\ at[k - 1] = 2 * (k - 1)
      BY <1>2
    <3> QED
      BY <1>2, <3>1 DEF At
  <2> HIDE DEF at
  <2> QED
    BY <1>6, <2>1, <2>2 DEF Ends
<1>8. /\ flat \in Text(Int) /\ Size(flat) = 2 * n
      /\ \A k \in 1 .. n : \A i \in 1 .. 2 : At(flat, 2 * (k - 1) + i) = At(At(texts, k), i)
  <2>1. Places(Int, at, texts, n, flat)
    BY <1>6, <1>7, FlattenPlaces DEF flat
  <2>2. flat \in Text(Int) /\ Size(flat) = At(at, n)
    BY <2>1 DEF Places
  <2>3. At(at, n) = 2 * n
    BY <1>2 DEF At
  <2>4. ASSUME NEW k \in 1 .. n, NEW i \in 1 .. 2
        PROVE  At(flat, 2 * (k - 1) + i) = At(At(texts, k), i)
    <3>1. At(flat, At(at, k - 1) + i) = At(At(texts, k), i)
      BY <1>6, <2>1 DEF Places
    <3>2. At(at, k - 1) = 2 * (k - 1)
      BY <1>2 DEF At
    <3> QED
      BY <3>1, <3>2
  <2> QED
    BY <2>2, <2>3, <2>4
<1>9. /\ first \in Text(Int) /\ Size(first) = 4 /\ At(first, 2) = The(TtlOf(a)) /\ At(first, 4) = n
      /\ last \in Text(Int) /\ Size(last) = 2 /\ At(last, 1) = The(RateOf(a.velocity))
      /\ At(last, 2) = The(RateOf(a.acceleration))
  <2>1. a.id \in Int
    BY PayloadAssumption
  <2>2. first = <<a.id, The(TtlOf(a)), 1, n>>
    BY <1>4 DEF first
  <2> QED
    BY <1>2, <1>5, <2>1, <2>2 DEF last, Text, Size, At
<1>10. /\ x \in Text(Int) /\ Size(x) = 4 + 2 * n
       /\ \A i \in 1 .. 4 : At(x, i) = At(first, i)
       /\ \A i \in 1 .. 2 * n : At(x, 4 + i) = At(flat, i)
  <2>1. Joins(x, first, flat)
    BY DEF Joins, x
  <2> QED
    BY <1>8, <1>9, <2>1, JoinIs
<1>11. /\ v \in Text(Int) /\ Size(v) = 4 + 2 * n + 2
       /\ \A i \in 1 .. 4 + 2 * n : At(v, i) = At(x, i)
       /\ \A i \in 1 .. 2 : At(v, 4 + 2 * n + i) = At(last, i)
  <2>1. Joins(v, x, last)
    BY <1>1 DEF Joins
  <2> QED
    BY <1>9, <1>10, <2>1, JoinIs
<1>12. n * 2 = 2 * n /\ 2 * n \in Nat
  BY <1>2
<1>13. At(v, 2) * 1000 = a.ttl /\ At(v, 4) = n
  <2>1. 2 \in 1 .. 4 + 2 * n /\ 4 \in 1 .. 4 + 2 * n /\ 2 \in 1 .. 4 /\ 4 \in 1 .. 4
    BY <1>12
  <2>2. At(v, 2) = The(TtlOf(a)) /\ At(v, 4) = n
    BY <1>9, <1>10, <1>11, <2>1
  <2> QED
    BY <1>5, <2>2
<1>14. ASSUME NEW i \in 1 .. n
       PROVE  /\ At(v, 4 + (i - 1) * 2 + 1) = JointProtocolIds[list[i]]
              /\ At(v, 4 + (i - 1) * 2 + 2) * 1000 = a.targets[list[i]] * 100
  <2> DEFINE p == 2 * (i - 1)
  <2>1. (i - 1) * 2 = p /\ p \in Nat /\ p + 2 <= 2 * n
    BY <1>2
  <2>2. At(flat, p + 1) = At(At(texts, i), 1) /\ At(flat, p + 2) = At(At(texts, i), 2)
    BY <1>8, 1 \in 1 .. 2, 2 \in 1 .. 2
  <2> HIDE DEF p
  <2>3. /\ p + 1 \in 1 .. 2 * n /\ p + 2 \in 1 .. 2 * n
        /\ 4 + (p + 1) \in 1 .. 4 + 2 * n /\ 4 + (p + 2) \in 1 .. 4 + 2 * n
        /\ 4 + (p + 1) = 4 + p + 1 /\ 4 + (p + 2) = 4 + p + 2
    BY <1>12, <2>1
  <2>4. At(v, 4 + p + 1) = At(flat, p + 1) /\ At(v, 4 + p + 2) = At(flat, p + 2)
    <3>1. At(v, 4 + (p + 1)) = At(x, 4 + (p + 1)) /\ At(v, 4 + (p + 2)) = At(x, 4 + (p + 2))
      BY <1>11, <2>3
    <3>2. At(x, 4 + (p + 1)) = At(flat, p + 1) /\ At(x, 4 + (p + 2)) = At(flat, p + 2)
      BY <1>10, <2>3
    <3> QED
      BY <2>3, <3>1, <3>2
  <2>5. At(v, 4 + p + 1) = JointProtocolIds[list[i]] /\ At(v, 4 + p + 2) = The(AngleOf(a, list[i]))
    BY <1>6, <2>2, <2>4
  <2>6. list[i] \in Named(a)
    BY <1>4
  <2> QED
    BY <1>5, <2>1, <2>5, <2>6
<1>15. /\ At(v, 4 + n * 2 + 1) * 1000 = a.velocity * 100
       /\ At(v, 4 + n * 2 + 2) * 1000 = a.acceleration * 100
  <2>1. At(v, 4 + 2 * n + 1) = At(last, 1) /\ At(v, 4 + 2 * n + 2) = At(last, 2)
    BY <1>11, 1 \in 1 .. 2, 2 \in 1 .. 2
  <2> QED
    BY <1>5, <1>9, <1>12, <2>1
<1>16. Size(v) = 4 + n * 2 + 2
  BY <1>11, <1>12
<1>17. GatewayValues(a, n, v)
  BY <1>11, <1>13, <1>14, <1>15, <1>16 DEF GatewayValues, list
<1> QED
  BY <1>1, <1>2, <1>3, <1>17 DEF n, v, list

\* It is a motion with one joint for each name.
LEMMA GatewayMessage ==
  ASSUME NEW a \in Authorizations, NEW m \in EncodeAuthorization(a)
  PROVE  IsMessage(m) /\ m.kind = "motion" /\ JointsOf(m) = Cardinality(Named(a))
<1> DEFINE n == Cardinality(Named(a))
<1>1. n \in Nat /\ m.values \in Text(Int) /\ Size(m.values) = 4 + n * 2 + 2 /\ At(m.values, 4) = n
  BY GatewayValuesAre DEF GatewayValues
<1>2. m.kind = "motion" /\ m \in [kind : {"motion"}, values : {m.values}]
  BY AuthorizationIs
<1>3. JointsOf(m) = n
  <2>1. Len(JointLayout["motion"].head) = 4
    BY MotionLayout DEF HeadOf, Size
  <2> QED
    BY <1>1, <1>2, <2>1, KindsAre DEF JointsOf, At
<1>4. Size(WholeLayout("motion", n)) = 4 + n * 2 + 2
  <2>1. WholeOf("motion", n, WholeLayout("motion", n))
    BY <1>1, KindsAre, WholeIs
  <2> QED
    BY <2>1, MotionLayout DEF WholeOf
<1>5. m \in [kind : Kinds, values : Seq(Int)]
  <2>1. "motion" \in Kinds
    BY KindsAre DEF Kinds
  <2> QED
    BY <1>1, <1>2, <2>1 DEF Text
<1>6. Len(m.values) = Len(WholeLayout(m.kind, JointsOf(m)))
  BY <1>1, <1>2, <1>3, <1>4 DEF Size
<1> QED
  BY <1>1, <1>2, <1>3, <1>5, <1>6 DEF IsMessage

\* What the robot decodes is what was authorized.
LEMMA NothingQuantized ==
  ASSUME NEW a \in Authorizations, NEW m \in EncodeAuthorization(a)
  PROVE  LET n == Len(m.values)
             Angle(i) == m.values[IdAt("motion", i) + 1]
         IN /\ \A name \in DOMAIN a.targets :
                 \E i \in DOMAIN JointIds(m) :
                   /\ JointIds(m)[i] = JointProtocolIds[name]
                   /\ Angle(i) * 1000 = a.targets[name] * 100
            /\ Len(JointIds(m)) = Cardinality(DOMAIN a.targets)
            /\ m.values[2] * 1000 = a.ttl
            /\ m.values[n - 1] * 1000 = a.velocity * 100
            /\ m.values[n] * 1000 = a.acceleration * 100
<1> DEFINE n == Cardinality(Named(a))
           v == m.values
           ids == JointIds(m)
<1>1. /\ Sorted(Named(a), NamesOf(a)) /\ n \in Nat /\ Named(a) \in SUBSET DOMAIN JointProtocolIds
      /\ GatewayValues(a, n, v)
  BY GatewayValuesAre
<1>2. IsMessage(m) /\ m.kind = "motion" /\ JointsOf(m) = n
  BY GatewayMessage
<1>3. DOMAIN ids = 1 .. n /\ Len(ids) = n
  <2>1. m.kind \in DOMAIN JointLayout
    BY <1>2, KindsAre
  <2> QED
    BY <1>1, <1>2, <2>1, JointIdIs
<1>4. ASSUME NEW i \in 1 .. n
      PROVE  /\ ids[i] = At(v, 4 + (i - 1) * 2 + 1)
             /\ m.values[IdAt("motion", i) + 1] = At(v, 4 + (i - 1) * 2 + 2)
  <2>1. m.kind \in DOMAIN JointLayout
    BY <1>2, KindsAre
  <2>2. Size(HeadOf("motion")) = 4 /\ Size(JointOf("motion")) = 2
    BY MotionLayout
  <2>3. ids[i] = At(v, 4 + (i - 1) * 2 + 1)
    BY <1>1, <1>2, <2>1, <2>2, JointIdIs
  <2>4. IdAt("motion", i) = 4 + (i - 1) * 2 + 1
    BY <2>2 DEF IdAt, HeadOf, JointOf, Size
  <2>5. IdAt("motion", i) + 1 = 4 + (i - 1) * 2 + 2
    BY <1>1, <2>4
  <2> QED
    BY <2>3, <2>5 DEF At
<1>5. ASSUME NEW name \in Named(a)
      PROVE  \E i \in DOMAIN ids : /\ ids[i] = JointProtocolIds[name]
                                   /\ m.values[IdAt("motion", i) + 1] * 1000 = a.targets[name] * 100
  <2>1. PICK i \in 1 .. n : NamesOf(a)[i] = name
    BY <1>1, SortedHasAll
  <2>2. /\ At(v, 4 + (i - 1) * 2 + 1) = JointProtocolIds[name]
        /\ At(v, 4 + (i - 1) * 2 + 2) * 1000 = a.targets[name] * 100
    BY <1>1, <2>1 DEF GatewayValues
  <2>3. /\ ids[i] = At(v, 4 + (i - 1) * 2 + 1)
        /\ m.values[IdAt("motion", i) + 1] = At(v, 4 + (i - 1) * 2 + 2)
    BY <1>4, <2>1
  <2>4. i \in DOMAIN ids
    BY <1>3, <2>1
  <2>5. ids[i] = JointProtocolIds[name] /\ m.values[IdAt("motion", i) + 1] * 1000 = a.targets[name] * 100
    <3> HIDE DEF ids, v, n
    <3> QED
      BY <2>2, <2>3
  <2> HIDE DEF ids, v, n
  <2> QED
    BY <2>4, <2>5
<1>6. Len(v) = 4 + n * 2 + 2 /\ Len(v) - 1 = 4 + n * 2 + 1
  <2>1. Len(v) = 4 + n * 2 + 2
    BY <1>1 DEF GatewayValues, Size
  <2> HIDE DEF v, n
  <2> QED
    BY <1>1, <2>1
<1>7. /\ v[2] * 1000 = a.ttl /\ v[Len(v) - 1] * 1000 = a.velocity * 100
      /\ v[Len(v)] * 1000 = a.acceleration * 100
  <2>1. /\ v[2] * 1000 = a.ttl /\ v[4 + n * 2 + 1] * 1000 = a.velocity * 100
        /\ v[4 + n * 2 + 2] * 1000 = a.acceleration * 100
    BY <1>1 DEF GatewayValues, At
  <2> QED
    BY <1>6, <2>1
<1> QED
  BY <1>3, <1>5, <1>7 DEF Named

---------------------------------------------------------------------------
(* The two readers of a motion.                                            *)

\* What is read at field k, from the bytes behind the offset o
LEMMA ReadIs ==
  ASSUME NEW layout \in Text(Fields), NEW t \in Text(Digit), Size(t) = SizeOf(layout),
         NEW k \in 1 .. Size(layout), NEW o, o = At(Offsets(layout), k - 1)
  PROVE  LET f == At(layout, k)
             u == At(Unpack(layout, t), k)
         IN /\ f.lo < 0 => u \in f.lo .. f.hi
            /\ f.lo >= 0 => u \in 0 .. Largest(f.bytes)
            /\ f.lo >= 0 /\ f.bytes = 1 => u = At(t, o + 1)
            /\ f.lo >= 0 /\ f.bytes = 2 => u = At(t, o + 1) + ByteBase * At(t, o + 2)
<1> DEFINE f == At(layout, k)
           u == At(Unpack(layout, t), k)
           p == Piece(layout, t, k)
<1>1. /\ f \in Fields /\ p \in Text(Digit) /\ Size(p) = f.bytes
      /\ \A i \in 1 .. f.bytes : At(p, i) = At(t, o + i)
  BY PieceIs
<1>2. u = UnpackField(f, p)
  BY UnpackIs
<1>3. f.bytes \in {1, 2, 4} /\ f.lo \in Int /\ f.hi \in Int
  BY <1>1, FieldIs
<1> HIDE DEF f, u, p
<1>4. /\ f.lo < 0 => u \in f.lo .. f.hi
      /\ f.lo >= 0 => u = Unsigned(p) /\ u \in 0 .. Largest(f.bytes)
  BY <1>1, <1>2, FieldRange
<1>5. f.lo >= 0 /\ f.bytes = 1 => u = At(t, o + 1)
  <2>1. f.bytes = 1 => Unsigned(p) = At(p, 1) /\ At(p, 1) = At(t, o + 1)
    BY <1>1, UnsignedIs
  <2> QED
    BY <1>4, <2>1
<1>6. f.lo >= 0 /\ f.bytes = 2 => u = At(t, o + 1) + ByteBase * At(t, o + 2)
  <2>1. f.bytes = 2 => /\ Unsigned(p) = At(p, 1) + ByteBase * At(p, 2)
                       /\ At(p, 1) = At(t, o + 1) /\ At(p, 2) = At(t, o + 2)
    BY <1>1, UnsignedIs
  <2> QED
    BY <1>4, <2>1
<1> QED
  BY <1>4, <1>5, <1>6 DEF f, u

\* The values of a motion with n joints, and when they fit
MotionValues(n, t, v) ==
  /\ At(v, 2) = At(t, 2) + ByteBase * At(t, 3) /\ At(v, 3) = At(t, 4) /\ At(v, 4) = At(t, 5)
  /\ \A i \in 1 .. n : At(v, 4 + (i - 1) * 2 + 1) = At(t, 5 + (i - 1) * 3 + 1)
  /\ At(v, 4 + n * 2 + 1) = At(t, 5 + n * 3 + 1) + ByteBase * At(t, 5 + n * 3 + 2)
  /\ At(v, 4 + n * 2 + 2) = At(t, 5 + n * 3 + 3) + ByteBase * At(t, 5 + n * 3 + 4)

LEMMA MotionMeans ==
  ASSUME NEW n \in Nat, NEW t \in Text(Digit), Size(t) = SizeOf(WholeLayout("motion", n))
  PROVE  LET v == Unpack(WholeLayout("motion", n), t)
         IN /\ Size(t) = 5 + n * 3 + 4 /\ MotionValues(n, t, v)
            /\ Fits(WholeLayout("motion", n), v) <=>
                 /\ At(v, 2) # 0 /\ At(v, 3) = 1 /\ At(v, 4) \in 1 .. MaxJoints
                 /\ At(v, 4 + n * 2 + 1) > 0 /\ At(v, 4 + n * 2 + 2) > 0
<1> DEFINE layout == WholeLayout("motion", n)
           v == Unpack(layout, t)
           N == n * 2
           S == n * 3
<1>0. N \in Nat /\ S \in Nat
  OBVIOUS
<1>1. "motion" \in DOMAIN JointLayout /\ "motion" \in Kinds
  BY KindsAre DEF Kinds
<1>2. /\ layout \in Text(Fields) /\ Size(layout) = 4 + N + 2 /\ SizeOf(layout) = 5 + S + 4
      /\ \A k \in 1 .. 4 : At(layout, k) = At(HeadOf("motion"), k)
      /\ \A k \in 0 .. 4 : At(Offsets(layout), k) = At(Offsets(HeadOf("motion")), k)
      /\ \A i \in 1 .. n : \A j \in 1 .. 2 :
           /\ At(layout, 4 + (i - 1) * 2 + j) = At(JointOf("motion"), j)
           /\ At(Offsets(layout), 4 + (i - 1) * 2 + (j - 1))
                = 5 + (i - 1) * 3 + At(Offsets(JointOf("motion")), j - 1)
      /\ \A k \in 1 .. 2 : At(layout, 4 + N + k) = At(TailOf("motion"), k)
      /\ \A k \in 0 .. 2 : At(Offsets(layout), 4 + N + k) = 5 + S + At(Offsets(TailOf("motion")), k)
  <2>1. WholeOf("motion", n, layout)
    BY <1>1, WholeIs
  <2> QED
    BY <2>1, MotionLayout DEF WholeOf
<1> HIDE DEF layout, v, N, S
<1>3. Size(t) = SizeOf(layout) /\ v = Unpack(layout, t)
  BY DEF layout, v
<1>4. /\ IsField(U8, 1, 0, ByteBase - 1) /\ IsField(AtLeastOne(U16), 2, 1, WORDS - 1)
      /\ IsField(S16, 2, -(WORDS \div 2), WORDS \div 2 - 1)
      /\ IsField(MotionMode, 1, 1, 1) /\ IsField(JointCount, 1, 1, MaxJoints)
  BY FieldsAre
<1>5. /\ At(layout, 1) = U8 /\ At(layout, 2) = AtLeastOne(U16) /\ At(layout, 3) = MotionMode
      /\ At(layout, 4) = JointCount
      /\ At(layout, 4 + N + 1) = AtLeastOne(U16) /\ At(layout, 4 + N + 2) = AtLeastOne(U16)
      /\ \A i \in 1 .. n : At(layout, 4 + (i - 1) * 2 + 1) = U8 /\ At(layout, 4 + (i - 1) * 2 + 2) = S16
  BY <1>2, MotionLayout
<1>6. /\ At(Offsets(layout), 0) = 0 /\ At(Offsets(layout), 1) = 1 /\ At(Offsets(layout), 2) = 3
      /\ At(Offsets(layout), 3) = 4
      /\ At(Offsets(layout), 4 + N + 0) = 5 + S + 0 /\ At(Offsets(layout), 4 + N + 1) = 5 + S + 2
      /\ \A i \in 1 .. n : At(Offsets(layout), 4 + (i - 1) * 2 + 0) = 5 + (i - 1) * 3 + 0
  <2>1. At(Offsets(layout), 0) = 0
    BY <1>2, OffsetsAre
  <2>2. /\ At(Offsets(layout), 1) = 1 /\ At(Offsets(layout), 2) = 3 /\ At(Offsets(layout), 3) = 4
    BY <1>2, MotionLayout
  <2>3. At(Offsets(layout), 4 + N + 0) = 5 + S + 0 /\ At(Offsets(layout), 4 + N + 1) = 5 + S + 2
    BY <1>2, MotionLayout
  <2>4. ASSUME NEW i \in 1 .. n
        PROVE  At(Offsets(layout), 4 + (i - 1) * 2 + 0) = 5 + (i - 1) * 3 + 0
    <3>1. At(Offsets(layout), 4 + (i - 1) * 2 + (1 - 1))
            = 5 + (i - 1) * 3 + At(Offsets(JointOf("motion")), 1 - 1)
      BY <1>2, 1 \in 1 .. n, 1 \in 1 .. 2
    <3>2. 1 - 1 = 0
      OBVIOUS
    <3> QED
      BY <3>1, <3>2, MotionLayout
  <2> QED
    BY <2>1, <2>2, <2>3, <2>4
<1>7. ASSUME NEW k \in 1 .. Size(layout), NEW o, o = At(Offsets(layout), k - 1)
      PROVE  LET f == At(layout, k)
                 u == At(v, k)
             IN /\ f.lo < 0 => u \in f.lo .. f.hi
                /\ f.lo >= 0 => u \in 0 .. Largest(f.bytes)
                /\ f.lo >= 0 /\ f.bytes = 1 => u = At(t, o + 1)
                /\ f.lo >= 0 /\ f.bytes = 2 => u = At(t, o + 1) + ByteBase * At(t, o + 2)
  BY <1>2, <1>3, <1>7, ReadIs
<1>8. /\ 1 \in 1 .. Size(layout) /\ 2 \in 1 .. Size(layout) /\ 3 \in 1 .. Size(layout)
      /\ 4 \in 1 .. Size(layout)
      /\ 4 + N + 1 \in 1 .. Size(layout) /\ 4 + N + 2 \in 1 .. Size(layout)
      /\ (4 + N + 1) - 1 = 4 + N + 0 /\ (4 + N + 2) - 1 = 4 + N + 1
      /\ 5 + S + 0 = 5 + S
      /\ (5 + S + 2) + 1 = 5 + S + 3 /\ (5 + S + 2) + 2 = 5 + S + 4
  BY <1>0, <1>2
<1>9. ByteBase \in Nat /\ ByteBase >= 16 /\ WORDS \in Nat /\ MaxJoints \in Nat
      /\ Largest(1) = ByteBase - 1 /\ Largest(2) = WORDS - 1
  BY Base, Words DEF Largest
<1>10. At(v, 2) = At(t, 2) + ByteBase * At(t, 3) /\ At(v, 2) \in 0 .. WORDS - 1
  <2>1. At(Offsets(layout), 2 - 1) = 1
    BY <1>6
  <2>2. At(v, 2) \in 0 .. Largest(2) /\ At(v, 2) = At(t, 1 + 1) + ByteBase * At(t, 1 + 2)
    BY <1>4, <1>5, <1>7, <1>8, <2>1 DEF IsField
  <2> QED
    BY <1>9, <2>2
<1>11. At(v, 3) = At(t, 4) /\ At(v, 3) \in 0 .. ByteBase - 1
  <2>1. At(Offsets(layout), 3 - 1) = 3
    BY <1>6
  <2>2. At(v, 3) \in 0 .. Largest(1) /\ At(v, 3) = At(t, 3 + 1)
    BY <1>4, <1>5, <1>7, <1>8, <2>1 DEF IsField
  <2> QED
    BY <1>9, <2>2
<1>12. At(v, 4) = At(t, 5)
  <2>1. At(Offsets(layout), 4 - 1) = 4
    BY <1>6
  <2>2. At(v, 4) = At(t, 4 + 1)
    BY <1>4, <1>5, <1>7, <1>8, <2>1 DEF IsField
  <2> QED
    BY <2>2
<1>13. At(v, 1) \in 0 .. ByteBase - 1
  <2>1. At(v, 1) \in 0 .. Largest(1)
    BY <1>4, <1>5, <1>7, <1>8 DEF IsField
  <2> QED
    BY <1>9, <2>1
<1>14. /\ At(v, 4 + N + 1) = At(t, 5 + S + 1) + ByteBase * At(t, 5 + S + 2)
       /\ At(v, 4 + N + 1) \in 0 .. WORDS - 1
  <2>1. At(Offsets(layout), (4 + N + 1) - 1) = 5 + S
    BY <1>6, <1>8
  <2> DEFINE k == 4 + N + 1
             o == 5 + S
  <2> HIDE DEF k, o
  <2>2. k \in 1 .. Size(layout) /\ o = At(Offsets(layout), k - 1) /\ At(layout, k) = AtLeastOne(U16)
    BY <1>5, <1>8, <2>1 DEF k, o
  <2>3. At(v, k) \in 0 .. Largest(2) /\ At(v, k) = At(t, o + 1) + ByteBase * At(t, o + 2)
    BY <1>4, <1>7, <2>2 DEF IsField
  <2> QED
    BY <1>9, <2>3 DEF k, o
<1>15. /\ At(v, 4 + N + 2) = At(t, 5 + S + 3) + ByteBase * At(t, 5 + S + 4)
       /\ At(v, 4 + N + 2) \in 0 .. WORDS - 1
  <2>1. At(Offsets(layout), (4 + N + 2) - 1) = 5 + S + 2
    BY <1>6, <1>8
  <2> DEFINE k == 4 + N + 2
             o == 5 + S + 2
  <2> HIDE DEF k, o
  <2>2. k \in 1 .. Size(layout) /\ o = At(Offsets(layout), k - 1) /\ At(layout, k) = AtLeastOne(U16)
    BY <1>5, <1>8, <2>1 DEF k, o
  <2>3. At(v, k) \in 0 .. Largest(2) /\ At(v, k) = At(t, o + 1) + ByteBase * At(t, o + 2)
    BY <1>4, <1>7, <2>2 DEF IsField
  <2>4. o + 1 = 5 + S + 3 /\ o + 2 = 5 + S + 4
    BY <1>8 DEF o
  <2> QED
    BY <1>9, <2>3, <2>4 DEF k
<1>16. ASSUME NEW i \in 1 .. n
       PROVE  /\ At(v, 4 + (i - 1) * 2 + 1) = At(t, 5 + (i - 1) * 3 + 1)
              /\ At(v, 4 + (i - 1) * 2 + 1) \in 0 .. ByteBase - 1
              /\ At(v, 4 + (i - 1) * 2 + 2) \in S16.lo .. S16.hi
  <2> DEFINE k == 4 + (i - 1) * 2 + 1
             o == 5 + (i - 1) * 3
  <2>1. /\ k \in 1 .. Size(layout) /\ k + 1 \in 1 .. Size(layout) /\ k + 1 = 4 + (i - 1) * 2 + 2
        /\ k - 1 = 4 + (i - 1) * 2 + 0 /\ o + 0 = o
    BY <1>2 DEF N
  <2>2. At(layout, k) = U8 /\ At(layout, k + 1) = S16 /\ o = At(Offsets(layout), k - 1)
    <3>1. At(layout, k) = U8 /\ At(layout, 4 + (i - 1) * 2 + 2) = S16
      BY <1>5
    <3>2. At(Offsets(layout), 4 + (i - 1) * 2 + 0) = o + 0
      BY <1>6
    <3> QED
      BY <2>1, <3>1, <3>2
  <2> HIDE DEF k, o
  <2>3. At(v, k) \in 0 .. Largest(1) /\ At(v, k) = At(t, o + 1)
    BY <1>4, <1>7, <2>1, <2>2 DEF IsField
  <2>4. At(v, k + 1) \in S16.lo .. S16.hi
    <3>1. S16.lo < 0
      <4> DEFINE h == WORDS \div 2
      <4>1. h \in Nat /\ h >= 1 /\ S16.lo = -h
        BY <1>4, Words DEF IsField
      <4> HIDE DEF h
      <4> QED
        BY <4>1
    <3> QED
      BY <1>7, <2>1, <2>2, <3>1
  <2> QED
    BY <1>9, <2>1, <2>3, <2>4 DEF k, o
<1>17. MotionValues(n, t, v)
  BY <1>10, <1>11, <1>12, <1>14, <1>15, <1>16 DEF MotionValues, N, S
<1>18. Fits(layout, v) <=> \A k \in 1 .. Size(layout) : At(v, k) \in At(layout, k).lo .. At(layout, k).hi
  BY <1>2, FitsIs
<1>19. Fits(layout, v) => /\ At(v, 2) # 0 /\ At(v, 3) = 1 /\ At(v, 4) \in 1 .. MaxJoints
                          /\ At(v, 4 + N + 1) > 0 /\ At(v, 4 + N + 2) > 0
  <2>1. SUFFICES ASSUME Fits(layout, v)
                 PROVE  /\ At(v, 2) # 0 /\ At(v, 3) = 1 /\ At(v, 4) \in 1 .. MaxJoints
                        /\ At(v, 4 + N + 1) > 0 /\ At(v, 4 + N + 2) > 0
    OBVIOUS
  <2>2. /\ At(v, 2) \in 1 .. WORDS - 1 /\ At(v, 3) \in 1 .. 1 /\ At(v, 4) \in 1 .. MaxJoints
        /\ At(v, 4 + N + 1) \in 1 .. WORDS - 1 /\ At(v, 4 + N + 2) \in 1 .. WORDS - 1
    BY <1>4, <1>5, <1>8, <1>18, <2>1 DEF IsField
  <2> QED
    BY <1>9, <2>2
<1>20. ASSUME At(v, 2) # 0, At(v, 3) = 1, At(v, 4) \in 1 .. MaxJoints,
              At(v, 4 + N + 1) > 0, At(v, 4 + N + 2) > 0
       PROVE  Fits(layout, v)
  <2>1. ASSUME NEW k \in 1 .. Size(layout)
        PROVE  At(v, k) \in At(layout, k).lo .. At(layout, k).hi
    <3>1. \/ k \in 1 .. 4
          \/ \E i \in 1 .. n : \E j \in 1 .. 2 : k = 4 + (i - 1) * 2 + j
          \/ \E j \in 1 .. 2 : k = 4 + N + j
      <4>1. Size(HeadOf("motion")) = 4 /\ Size(JointOf("motion")) = 2 /\ Size(TailOf("motion")) = 2
        BY MotionLayout
      <4>2. \/ k \in 1 .. Size(HeadOf("motion"))
            \/ \E i \in 1 .. n : \E j \in 1 .. Size(JointOf("motion")) :
                 k = Size(HeadOf("motion")) + (i - 1) * Size(JointOf("motion")) + j
            \/ \E j \in 1 .. Size(TailOf("motion")) :
                 k = Size(HeadOf("motion")) + n * Size(JointOf("motion")) + j
        BY <1>1, WholeCover DEF layout
      <4>3. \/ k \in 1 .. 4
            \/ \E i \in 1 .. n : \E j \in 1 .. 2 : k = 4 + (i - 1) * 2 + j
            \/ \E j \in 1 .. 2 : k = 4 + n * 2 + j
        BY <4>1, <4>2
      <4> QED
        BY <4>3 DEF N
    <3>2. CASE k \in 1 .. 4
      <4>1. At(v, 2) \in 1 .. WORDS - 1 /\ At(v, 3) \in 1 .. 1
        BY <1>9, <1>10, <1>20
      <4>2. k = 1 \/ k = 2 \/ k = 3 \/ k = 4
        BY <3>2
      <4> QED
        BY <1>4, <1>5, <1>13, <1>20, <4>1, <4>2 DEF IsField
    <3>3. CASE \E i \in 1 .. n : \E j \in 1 .. 2 : k = 4 + (i - 1) * 2 + j
      <4>1. PICK i \in 1 .. n, j \in 1 .. 2 : k = 4 + (i - 1) * 2 + j
        BY <3>3
      <4>2. CASE j = 1
        <5>1. k = 4 + (i - 1) * 2 + 1
          BY <4>1, <4>2
        <5> QED
          BY <1>4, <1>5, <1>16, <5>1 DEF IsField
      <4>3. CASE j = 2
        <5>1. k = 4 + (i - 1) * 2 + 2
          BY <4>1, <4>3
        <5> QED
          BY <1>5, <1>16, <5>1
      <4> QED
        BY <4>2, <4>3
    <3>4. CASE \E j \in 1 .. 2 : k = 4 + N + j
      <4>1. PICK j \in 1 .. 2 : k = 4 + N + j
        BY <3>4
      <4>2. At(v, 4 + N + 1) \in 1 .. WORDS - 1 /\ At(v, 4 + N + 2) \in 1 .. WORDS - 1
        BY <1>9, <1>14, <1>15, <1>20
      <4>3. j = 1 \/ j = 2
        OBVIOUS
      <4>4. k = 4 + N + 1 \/ k = 4 + N + 2
        BY <4>1, <4>3
      <4> QED
        BY <1>4, <1>5, <4>2, <4>4 DEF IsField
    <3> QED
      BY <3>1, <3>2, <3>3, <3>4
  <2> QED
    BY <1>18, <2>1
<1>21. Size(t) = 5 + S + 4
  BY <1>2, <1>3
<1> QED
  BY <1>17, <1>19, <1>20, <1>21 DEF layout, v, N, S

\* The ids the firmware reads are those of the message.
LEMMA TargetIdsAre ==
  ASSUME NEW n \in Nat, NEW t, NEW m, m.kind = "motion", JointsOf(m) = n,
         MotionValues(n, t, m.values), At(t, 5) = n
  PROVE  TargetIdsOk(t) <=> IsInjective(JointIds(m)) /\ 0 \notin ToSet(JointIds(m))
<1> DEFINE ids == JointIds(m)
           Id(i) == At(t, 6 + i * 3)
<1>1. DOMAIN ids = 1 .. n
  BY KindsAre, JointIdIs
<1>2. ASSUME NEW i \in 1 .. n PROVE ids[i] = Id(i - 1)
  <2>1. ids[i] = At(m.values, 4 + (i - 1) * 2 + 1)
    <3>1. Size(HeadOf("motion")) = 4 /\ Size(JointOf("motion")) = 2
      BY MotionLayout
    <3>2. ids[i] = At(m.values, Size(HeadOf("motion")) + (i - 1) * Size(JointOf("motion")) + 1)
      BY KindsAre, JointIdIs
    <3> QED
      BY <3>1, <3>2
  <2>2. At(m.values, 4 + (i - 1) * 2 + 1) = At(t, 5 + (i - 1) * 3 + 1)
    BY DEF MotionValues
  <2>3. 5 + (i - 1) * 3 + 1 = 6 + (i - 1) * 3
    OBVIOUS
  <2> QED
    BY <2>1, <2>2, <2>3
<1>3. TargetIdsOk(t) <=> \A i \in 0 .. n - 1 : Id(i) # 0 /\ \A j \in 0 .. i - 1 : Id(j) # Id(i)
  BY DEF TargetIdsOk, JointTargetPayloadSize, At
<1> HIDE DEF ids, Id
<1>4. ASSUME TargetIdsOk(t) PROVE IsInjective(ids) /\ 0 \notin ToSet(ids)
  <2>1. ASSUME NEW a \in 1 .. n, NEW b \in 1 .. n, ids[a] = ids[b], a < b PROVE FALSE
    <3>1. b - 1 \in 0 .. n - 1 /\ a - 1 \in 0 .. (b - 1) - 1
      BY <2>1
    <3>2. Id(a - 1) # Id(b - 1)
      BY <1>3, <1>4, <3>1
    <3> QED
      BY <1>2, <2>1, <3>2
  <2>2. ASSUME NEW a \in 1 .. n, NEW b \in 1 .. n, ids[a] = ids[b] PROVE a = b
    <3>1. a < b \/ b < a \/ a = b
      OBVIOUS
    <3> QED
      BY <2>1, <2>2, <3>1
  <2>3. ASSUME NEW a \in 1 .. n PROVE ids[a] # 0
    <3>1. a - 1 \in 0 .. n - 1
      OBVIOUS
    <3> QED
      BY <1>2, <1>3, <1>4, <3>1
  <2> QED
    BY <1>1, <2>2, <2>3 DEF IsInjective, ToSet
<1>5. ASSUME IsInjective(ids), 0 \notin ToSet(ids) PROVE TargetIdsOk(t)
  <2>1. /\ \A a, b \in 1 .. n : ids[a] = ids[b] => a = b
        /\ \A a \in 1 .. n : ids[a] # 0
    BY <1>1, <1>5 DEF IsInjective, ToSet
  <2>2. ASSUME NEW i \in 0 .. n - 1 PROVE Id(i) # 0
    <3>1. i + 1 \in 1 .. n /\ (i + 1) - 1 = i
      OBVIOUS
    <3> QED
      BY <1>2, <2>1, <3>1
  <2>3. ASSUME NEW i \in 0 .. n - 1, NEW j \in 0 .. i - 1 PROVE Id(j) # Id(i)
    <3>1. /\ i + 1 \in 1 .. n /\ (i + 1) - 1 = i /\ j + 1 \in 1 .. n /\ (j + 1) - 1 = j
          /\ i + 1 # j + 1
      OBVIOUS
    <3>2. ids[i + 1] = Id(i) /\ ids[j + 1] = Id(j)
      BY <1>2, <3>1
    <3> QED
      BY <2>1, <3>1, <3>2
  <2> QED
    BY <1>3, <2>2, <2>3
<1> QED
  BY <1>4, <1>5 DEF ids

LEMMA MotionCount ==
  ASSUME NEW t
  PROVE  CountIn("motion", t) = At(t, 5)
<1>1. SizeOf(JointLayout["motion"].head) = 5
  BY MotionLayout DEF HeadOf
<1> QED
  BY <1>1, KindsAre DEF CountIn, At

\* The checks of the firmware, with the numbers of the layout
LEMMA ValidIs ==
  ASSUME NEW t \in Text(Digit)
  PROVE  LET n == At(t, 5)
         IN ValidateMotionPayload(t) <=>
              /\ Size(t) >= 12 /\ At(t, 2) + ByteBase * At(t, 3) # 0 /\ At(t, 4) = 1
              /\ n \in 1 .. MaxJoints /\ Size(t) = 9 + n * 3 /\ TargetIdsOk(t)
              /\ At(t, (5 + n * 3) + 1) + ByteBase * At(t, (5 + n * 3) + 2) > 0
              /\ At(t, (5 + n * 3 + 2) + 1) + ByteBase * At(t, (5 + n * 3 + 2) + 2) > 0
<1>1. ReadU16Le(t, 1) = At(t, 2) + ByteBase * At(t, 3)
  BY 1 + 1 = 2, 1 + 2 = 3 DEF ReadU16Le, At
<1>2. MotionFixedPayloadSize = 9 /\ JointTargetPayloadSize = 3 /\ 9 + 3 = 12
  BY DEF MotionFixedPayloadSize, JointTargetPayloadSize
<1> HIDE DEF ReadU16Le
<1>3. \A at : ReadU16Le(t, at) = At(t, at + 1) + ByteBase * At(t, at + 2)
  BY DEF ReadU16Le, At
<1> QED
  BY <1>1, <1>2, <1>3 DEF ValidateMotionPayload, At, Size

\* The firmware accepts what the host decodes, unless it has the joint id zero.
LEMMA ReadersAgree ==
  ASSUME NEW t \in Text(Digit)
  PROVE  ValidateMotionPayload(t) <=>
           \E m \in Decode("motion", t) : 0 \notin ToSet(JointIds(m))
<1> DEFINE n == At(t, 5)
           layout == WholeLayout("motion", n)
           v == Unpack(layout, t)
<1>0. "motion" \in Kinds /\ "motion" \in DOMAIN JointLayout /\ CountIn("motion", t) = n
  BY KindsAre, MotionCount DEF Kinds
<1>1. ASSUME NEW m \in Decode("motion", t), 0 \notin ToSet(JointIds(m))
      PROVE  ValidateMotionPayload(t)
  <2>1. /\ IsMessage(m) /\ m = [kind |-> "motion", values |-> v] /\ n \in Nat /\ JointsOf(m) = n
        /\ n <= MaxJoints /\ Size(t) = SizeOf(layout) /\ Encode(m) = {t}
    BY <1>0, DecodedIs
  <2>2. m.kind = "motion" /\ m.values = v
    BY <2>1
  <2>3. Fits(layout, v) /\ IsInjective(JointIds(m)) /\ n >= 1
    BY <1>0, <2>1, <2>2, EncodedIs
  <2>4. /\ Size(t) = 5 + n * 3 + 4 /\ MotionValues(n, t, v)
        /\ At(v, 2) # 0 /\ At(v, 3) = 1 /\ At(v, 4) \in 1 .. MaxJoints
        /\ At(v, 4 + n * 2 + 1) > 0 /\ At(v, 4 + n * 2 + 2) > 0
    BY <2>1, <2>3, MotionMeans
  <2>5. TargetIdsOk(t)
    BY <1>1, <2>1, <2>2, <2>3, <2>4, TargetIdsAre
  <2>6. /\ At(t, 2) + ByteBase * At(t, 3) # 0 /\ At(t, 4) = 1 /\ n \in 1 .. MaxJoints
        /\ At(t, 5 + n * 3 + 1) + ByteBase * At(t, 5 + n * 3 + 2) > 0
        /\ At(t, 5 + n * 3 + 3) + ByteBase * At(t, 5 + n * 3 + 4) > 0
    BY <2>4 DEF MotionValues
  <2> HIDE DEF n, layout, v
  <2>7. /\ Size(t) = 9 + n * 3 /\ Size(t) >= 12
        /\ (5 + n * 3 + 2) + 1 = 5 + n * 3 + 3 /\ (5 + n * 3 + 2) + 2 = 5 + n * 3 + 4
    BY <2>1, <2>3, <2>4
  <2> QED
    BY <2>5, <2>6, <2>7, ValidIs DEF n
<1>2. ASSUME ValidateMotionPayload(t)
      PROVE  \E m \in Decode("motion", t) : 0 \notin ToSet(JointIds(m))
  <2> DEFINE m == [kind |-> "motion", values |-> v]
  <2>1. /\ Size(t) >= 12 /\ At(t, 2) + ByteBase * At(t, 3) # 0 /\ At(t, 4) = 1
        /\ n \in 1 .. MaxJoints /\ Size(t) = 9 + n * 3 /\ TargetIdsOk(t)
        /\ At(t, (5 + n * 3) + 1) + ByteBase * At(t, (5 + n * 3) + 2) > 0
        /\ At(t, (5 + n * 3 + 2) + 1) + ByteBase * At(t, (5 + n * 3 + 2) + 2) > 0
    BY <1>2, ValidIs
  <2>2. n \in Nat /\ n >= 1 /\ n <= MaxJoints /\ ~(n > MaxJoints)
    <3> HIDE DEF n
    <3> QED
      BY <2>1, Base
  <2>3. SizeOf(layout) = 5 + n * 3 + 4
    <3>1. WholeOf("motion", n, layout)
      BY <1>0, <2>2, WholeIs
    <3> QED
      BY <3>1, MotionLayout DEF WholeOf
  <2>4. /\ Size(t) = SizeOf(layout)
        /\ (5 + n * 3 + 2) + 1 = 5 + n * 3 + 3 /\ (5 + n * 3 + 2) + 2 = 5 + n * 3 + 4
    <3> HIDE DEF n, layout
    <3> QED
      BY <2>1, <2>2, <2>3
  <2>5. /\ MotionValues(n, t, v)
        /\ Fits(layout, v) <=>
             /\ At(v, 2) # 0 /\ At(v, 3) = 1 /\ At(v, 4) \in 1 .. MaxJoints
             /\ At(v, 4 + n * 2 + 1) > 0 /\ At(v, 4 + n * 2 + 2) > 0
    BY <2>2, <2>4, MotionMeans
  <2>6. Fits(layout, v)
    <3>1. /\ At(v, 2) # 0 /\ At(v, 3) = 1 /\ At(v, 4) = n
          /\ At(v, 4 + n * 2 + 1) > 0 /\ At(v, 4 + n * 2 + 2) > 0
      BY <2>1, <2>4, <2>5 DEF MotionValues
    <3> HIDE DEF v, layout, n
    <3> QED
      BY <2>1, <2>5, <3>1
  <2>7. JointsOf(m) = n /\ m.kind = "motion" /\ m.values = v
    <3>1. JointsOf(m) = At(v, Size(HeadOf("motion")))
      BY KindsAre DEF JointsOf, At, Size, HeadOf
    <3>2. At(v, 4) = n
      BY <2>5 DEF MotionValues
    <3> HIDE DEF v, n
    <3> QED
      BY <3>1, <3>2, MotionLayout
  <2> HIDE DEF m
  <2>8. IsInjective(JointIds(m)) /\ 0 \notin ToSet(JointIds(m))
    BY <2>1, <2>2, <2>5, <2>7, TargetIdsAre
  <2>9. Encode(m) # {}
    BY <2>2, <2>6, <2>7, <2>8 DEF Encode
  <2>10. ~(Len(t) < SizeOf(WholeLayout("motion", 1)))
    <3> DEFINE one == SizeOf(WholeLayout("motion", 1))
               all == SizeOf(layout)
    <3>1. one \in Nat /\ all \in Nat /\ one <= all
      BY <1>0, <2>2, WholesAre
    <3>2. Len(t) = all
      BY <2>4 DEF Size
    <3> HIDE DEF one, all
    <3>3. ~(all < one)
      BY <3>1
    <3> QED
      BY <3>2, <3>3 DEF one
  <2>11. SizeIsRight("motion", t)
    BY <1>0, <2>4 DEF SizeIsRight, Size
  <2>12. m \in Decode("motion", t)
    <3>1. Decode("motion", t)
            = {x \in {[kind |-> "motion", values |-> Unpack(layout, t)]} : Encode(x) # {}}
      BY <1>0, <2>2, <2>10, <2>11 DEF Decode
    <3>2. Decode("motion", t) = {x \in {m} : Encode(x) # {}}
      BY <3>1 DEF m
    <3> QED
      BY <2>9, <3>2
  <2> QED
    BY <2>8, <2>12
<1> QED
  BY <1>1, <1>2

---------------------------------------------------------------------------
(* The payloads that are made.                                             *)

\* The payload is bytes, and unless it was altered it is what its maker makes of
\* what it was asked for.
PayloadsMade ==
  /\ payload \in Seq(Digit)
  /\ origin.by = "host" => origin.of \in HostMessages /\ payload \in Encode(origin.of)
  /\ origin.by = "firmware" => origin.of \in FirmwareMessages /\ payload \in FirmwareEncode(origin.of)
  /\ origin.by = "gateway" =>
       /\ origin.of \in Authorizations
       /\ \E m \in EncodeAuthorization(origin.of) : payload \in Encode(m)

LEMMA PayloadStart == PayloadInit => PayloadsMade
<1> SUFFICES ASSUME PayloadInit PROVE PayloadsMade
  OBVIOUS
<1>1. payload = <<>> /\ origin.by = "nobody"
  BY DEF PayloadInit, Nobody
<1> QED
  BY <1>1 DEF PayloadsMade

LEMMA AlteredKeeps ==
  ASSUME NEW bytes \in Seq(Digit), Altered(bytes)
  PROVE  PayloadsMade'
<1>1. payload' = bytes /\ origin'.by = "altered"
  BY DEF Altered, Nobody
<1> QED
  BY <1>1 DEF PayloadsMade

\* Every way to make or to alter a payload keeps that.
LEMMA PayloadStep == PayloadsMade /\ [PayloadNext]_payloads => PayloadsMade'
<1> SUFFICES ASSUME PayloadsMade, [PayloadNext]_payloads PROVE PayloadsMade'
  OBVIOUS
<1>0. payload \in Seq(Digit) /\ OtherBytes \subseteq Digit
  BY PayloadAssumption DEF PayloadsMade, Digit
<1>1. ASSUME NEW message \in HostMessages, HostMakes(message) PROVE PayloadsMade'
  <2>1. /\ payload' \in Encode(message) /\ origin'.by = "host" /\ origin'.of = message
    BY <1>1 DEF HostMakes, Made
  <2>2. payload' \in Seq(Digit)
    BY <2>1, EncodedIs, MessagesAssumption DEF Text
  <2> QED
    BY <2>1, <2>2 DEF PayloadsMade
<1>2. ASSUME NEW message \in FirmwareMessages, FirmwareMakes(message) PROVE PayloadsMade'
  <2>1. /\ payload' \in FirmwareEncode(message) /\ origin'.by = "firmware" /\ origin'.of = message
    BY <1>2 DEF FirmwareMakes, Made
  <2>2. payload' \in Seq(Digit)
    BY <2>1, FirmwareDecoded, MessagesAssumption DEF Text
  <2> QED
    BY <2>1, <2>2 DEF PayloadsMade
<1>3. ASSUME NEW a \in Authorizations, GatewayMakes(a) PROVE PayloadsMade'
  <2>1. /\ payload' \in UNION {Encode(message) : message \in EncodeAuthorization(a)}
        /\ origin'.by = "gateway" /\ origin'.of = a
    BY <1>3 DEF GatewayMakes, Made
  <2>2. PICK m \in EncodeAuthorization(a) : payload' \in Encode(m)
    BY <2>1
  <2>3. payload' \in Seq(Digit)
    BY <2>2, GatewayMessage, EncodedIs DEF Text
  <2> QED
    BY <2>1, <2>2, <2>3 DEF PayloadsMade
<1>4. ASSUME NEW i \in DOMAIN payload, NEW byte \in OtherBytes, Altered([payload EXCEPT ![i] = byte])
      PROVE  PayloadsMade'
  <2>1. [payload EXCEPT ![i] = byte] \in Seq(Digit)
    BY <1>0
  <2> QED
    BY <1>4, <2>1, AlteredKeeps
<1>5. ASSUME payload # <<>>, Altered(Front(payload)) PROVE PayloadsMade'
  <2>1. Front(payload) \in Seq(Digit)
    BY <1>0, <1>5 DEF Front
  <2> QED
    BY <1>5, <2>1, AlteredKeeps
<1>6. ASSUME NEW byte \in OtherBytes, Altered(Append(payload, byte)) PROVE PayloadsMade'
  <2>1. Append(payload, byte) \in Seq(Digit)
    BY <1>0
  <2> QED
    BY <1>6, <2>1, AlteredKeeps
<1>7. CASE UNCHANGED payloads
  BY <1>7 DEF payloads, PayloadsMade
<1> QED
  BY <1>1, <1>2, <1>3, <1>4, <1>5, <1>6, <1>7 DEF PayloadNext, Make

\* Every payload is bytes, and unless it was altered it is what the host, the
\* firmware or the gateway makes of a message or an authorization it was given
\* (encode_*, Encode*Payload, _encode_authorization).
THEOREM PayloadsMadeAlways == PayloadSpec => []PayloadsMade
<1>1. PayloadInit => PayloadsMade
  BY PayloadStart
<1>2. PayloadsMade /\ [PayloadNext]_payloads => PayloadsMade'
  BY PayloadStep
<1> QED
  BY <1>1, <1>2, PTL DEF PayloadSpec

\* The codecs of messages.py and protocol.h agree on every message and on every
\* payload, altered ones too: what the host encodes it decodes to the same, what it
\* accepts is the one encoding of what it returns, and what the firmware sends it
\* understands, but for an unknown state and repeated joint ids.
THEOREM CodecsAgreeAlways == PayloadSpec => []CodecsAgree
<1>1. PayloadsMade => CodecsAgree
  <2> SUFFICES ASSUME PayloadsMade PROVE CodecsAgree
    OBVIOUS
  <2>1. RoundTrip
    BY EncodeDecode, MessagesAssumption DEF PayloadsMade, RoundTrip
  <2>2. AcceptedIsCanonical
    <3>1. payload \in Text(Digit)
      BY DEF PayloadsMade, Text
    <3> QED
      BY <3>1, DecodedIs DEF AcceptedIsCanonical
  <2>3. FirmwareIsUnderstood
    BY FirmwareDecoded, MessagesAssumption DEF PayloadsMade, FirmwareIsUnderstood
  <2> QED
    BY <2>1, <2>2, <2>3 DEF CodecsAgree
<1> QED
  BY <1>1, PayloadsMadeAlways, PTL

\* What the gateway sends is decoded to the message of the authorization.
LEMMA GatewayDecoded ==
  ASSUME PayloadsMade, origin.by = "gateway"
  PROVE  /\ origin.of \in Authorizations
         /\ \E m \in EncodeAuthorization(origin.of) : Decode("motion", payload) = {m}
<1>1. PICK m \in EncodeAuthorization(origin.of) : payload \in Encode(m)
  BY DEF PayloadsMade
<1>2. origin.of \in Authorizations
  BY DEF PayloadsMade
<1>3. IsMessage(m) /\ m.kind = "motion"
  BY <1>2, GatewayMessage
<1>4. Decode("motion", payload) = {m}
  BY <1>1, <1>3, EncodeDecode
<1> QED
  BY <1>2, <1>4

\* No id of a motion the gateway sends is zero.
LEMMA GatewayIds ==
  ASSUME NEW a \in Authorizations, NEW m \in EncodeAuthorization(a)
  PROVE  0 \notin ToSet(JointIds(m))
<1> DEFINE n == Cardinality(Named(a))
<1>1. /\ Sorted(Named(a), NamesOf(a)) /\ n \in Nat /\ Named(a) \in SUBSET DOMAIN JointProtocolIds
      /\ GatewayValues(a, n, m.values)
  BY GatewayValuesAre
<1>2. m.kind = "motion" /\ m.kind \in DOMAIN JointLayout /\ JointsOf(m) = n
  BY GatewayMessage, KindsAre
<1>3. ASSUME NEW i \in 1 .. n PROVE JointIds(m)[i] # 0
  <2>1. Size(HeadOf("motion")) = 4 /\ Size(JointOf("motion")) = 2
    BY MotionLayout
  <2>2. JointIds(m)[i] = At(m.values, Size(HeadOf("motion")) + (i - 1) * Size(JointOf("motion")) + 1)
    BY <1>1, <1>2, JointIdIs
  <2>3. JointIds(m)[i] = At(m.values, 4 + (i - 1) * 2 + 1)
    BY <2>1, <2>2
  <2>4. JointIds(m)[i] = JointProtocolIds[NamesOf(a)[i]]
    BY <1>1, <2>3 DEF GatewayValues
  <2>5. JointProtocolIds[NamesOf(a)[i]] \in 1 .. ByteBase - 1 /\ ByteBase - 1 \in Int
    BY <1>1, SortedHasAll, Base
  <2> QED
    BY <2>4, <2>5
<1>4. DOMAIN JointIds(m) = 1 .. n
  BY <1>1, <1>2, JointIdIs
<1> QED
  BY <1>3, <1>4 DEF ToSet

\* The motion that reaches the robot is the motion that was authorized: both
\* readers accept the same payloads, but for the id zero, and the numbers the
\* robot reads are exactly those of the authorization (_exact_protocol_integer).
THEOREM MotionIsUnalteredAlways == PayloadSpec => []MotionIsUnaltered
<1>1. PayloadsMade => MotionIsUnaltered
  <2> SUFFICES ASSUME PayloadsMade PROVE MotionIsUnaltered
    OBVIOUS
  <2>1. /\ ValidateMotionPayload(payload) <=>
             \E m \in Decode("motion", payload) : 0 \notin ToSet(JointIds(m))
    <3>1. payload \in Text(Digit)
      BY DEF PayloadsMade, Text
    <3> QED
      BY <3>1, ReadersAgree
  <2>2. origin.by = "gateway" => ValidateMotionPayload(payload)
    <3> SUFFICES ASSUME origin.by = "gateway" PROVE ValidateMotionPayload(payload)
      OBVIOUS
    <3>1. PICK m \in EncodeAuthorization(origin.of) : Decode("motion", payload) = {m}
      BY GatewayDecoded
    <3>2. 0 \notin ToSet(JointIds(m))
      BY <3>1, GatewayDecoded, GatewayIds
    <3> QED
      BY <2>1, <3>1, <3>2
  <2>3. MotionReadersAgree
    BY <2>1, <2>2 DEF MotionReadersAgree
  <2>4. NoHiddenQuantization
    <3> SUFFICES ASSUME origin.by = "gateway" PROVE NoHiddenQuantization
      BY DEF NoHiddenQuantization
    <3>1. PICK m \in EncodeAuthorization(origin.of) : Decode("motion", payload) = {m}
      BY GatewayDecoded
    <3>2. origin.of \in Authorizations
      BY GatewayDecoded
    <3> HIDE DEF PayloadsMade
    <3> QED
      BY <3>1, <3>2, NothingQuantized DEF NoHiddenQuantization
  <2> QED
    BY <2>3, <2>4 DEF MotionIsUnaltered
<1> QED
  BY <1>1, PayloadsMadeAlways, PTL

---------------------------------------------------------------------------
(* The simulation runtime: queues.                                         *)

LP == INSTANCE SafetyLifecycleProofs
        WITH snapshot <- lifecycle, Ages <- {}, NonFinite <- NoAge, MaxSequence <- 0

LEMMA TailIsRest ==
  ASSUME NEW S, NEW s \in Seq(S), s # <<>>
  PROVE  /\ Head(s) \in S /\ Tail(s) \in Seq(S)
         /\ Len(s) \in Nat \ {0} /\ Head(s) = s[1]
         /\ Len(Tail(s)) = Len(s) - 1
         /\ \A i \in 1 .. Len(Tail(s)) : Tail(s)[i] = s[i + 1]
  OBVIOUS

LEMMA AppendIsLast ==
  ASSUME NEW S, NEW s \in Seq(S), NEW x \in S
  PROVE  /\ Append(s, x) \in Seq(S)
         /\ Len(s) \in Nat /\ Len(Append(s, x)) = Len(s) + 1
         /\ \A i \in 1 .. Len(s) : Append(s, x)[i] = s[i]
         /\ Append(s, x)[Len(s) + 1] = x
         /\ Append(s, x) # <<>>
  OBVIOUS

LEMMA RemoveAtProperties ==
  ASSUME NEW S, NEW s \in Seq(S), NEW i \in 1 .. Len(s)
  PROVE  /\ RemoveAt(s, i) \in Seq(S)
         /\ Len(RemoveAt(s, i)) = Len(s) - 1
         /\ \A j \in 1 .. Len(s) - 1 :
              RemoveAt(s, i)[j] = IF j < i THEN s[j] ELSE s[j + 1]
<1> DEFINE a == SubSeq(s, 1, i - 1)
           b == SubSeq(s, i + 1, Len(s))
<1>0. i \in Nat /\ Len(s) \in Nat /\ 1 <= i /\ i <= Len(s)
  OBVIOUS
<1>1. a \in Seq(S) /\ Len(a) = i - 1 /\ \A j \in 1 .. i - 1 : a[j] = s[j]
  OBVIOUS
<1>2. b \in Seq(S) /\ Len(b) = Len(s) - i /\ \A j \in 1 .. Len(s) - i : b[j] = s[i + j]
  OBVIOUS
<1>3. RemoveAt(s, i) = a \o b
  BY DEF RemoveAt
<1> HIDE DEF a, b
<1>4. /\ a \o b \in Seq(S) /\ Len(a \o b) = Len(a) + Len(b)
      /\ \A j \in 1 .. Len(a) + Len(b) :
           (a \o b)[j] = IF j <= Len(a) THEN a[j] ELSE b[j - Len(a)]
  BY <1>1, <1>2, ConcatProperties
<1>5. ASSUME NEW j \in 1 .. Len(s) - 1
      PROVE  (a \o b)[j] = IF j < i THEN s[j] ELSE s[j + 1]
  <2>1. j \in 1 .. Len(a) + Len(b)
    BY <1>0, <1>1, <1>2
  <2>2. CASE j < i
    BY <1>0, <1>1, <1>4, <2>1, <2>2
  <2>3. CASE ~(j < i)
    <3>1. ~(j <= Len(a)) /\ j - Len(a) \in 1 .. Len(s) - i
          /\ i + (j - Len(a)) = j + 1
      BY <1>0, <1>1, <2>3
    <3> QED
      BY <1>2, <1>4, <2>1, <2>3, <3>1
  <2> QED
    BY <2>2, <2>3
<1> QED
  BY <1>0, <1>1, <1>2, <1>3, <1>4, <1>5

\* A member that leaves lets the others stay, and the first one first.
LEMMA RemoveFirstKeepsHead ==
  ASSUME NEW S, NEW s \in Seq(S), NEW e
  PROVE  LET r == RemoveFirst(s, e)
         IN /\ r \in Seq(S)
            /\ s # <<>> /\ s[1] # e => r # <<>> /\ r[1] = s[1]
            /\ \A x : x # e /\ (\E i \in 1 .. Len(s) : s[i] = x)
                      => \E i \in 1 .. Len(r) : r[i] = x
<1>1. CASE ~\E i \in 1 .. Len(s) : s[i] = e
  BY <1>1 DEF RemoveFirst
<1>2. CASE \E i \in 1 .. Len(s) : s[i] = e
  <2> DEFINE I == {i \in 1 .. Len(s) : s[i] = e}
             m == CHOOSE x \in I : \A y \in I : x <= y
             r == RemoveAt(s, m)
  <2>1. I \subseteq Nat /\ I # {}
    BY <1>2
  <2>2. m \in I
    <3> HIDE DEF I
    <3> QED
      BY <2>1, LeastNumber
  <2>3. RemoveFirst(s, e) = r
    BY <1>2 DEF RemoveFirst, SelectInSeq, Min
  <2> HIDE DEF m
  <2>4. m \in 1 .. Len(s) /\ s[m] = e /\ Len(s) \in Nat
    BY <2>2
  <2>5. /\ r \in Seq(S) /\ Len(r) = Len(s) - 1
        /\ \A j \in 1 .. Len(s) - 1 : r[j] = IF j < m THEN s[j] ELSE s[j + 1]
    BY <2>4, RemoveAtProperties
  <2> HIDE DEF r, I
  <2>6. ASSUME s # <<>>, s[1] # e PROVE r # <<>> /\ r[1] = s[1]
    <3>1. 1 < m /\ 1 \in 1 .. Len(s) - 1
      BY <2>4, <2>6
    <3> QED
      BY <2>5, <3>1
  <2>7. ASSUME NEW x, x # e, NEW i \in 1 .. Len(s), s[i] = x
        PROVE  \E j \in 1 .. Len(r) : r[j] = x
    <3>1. i < m \/ m < i
      BY <2>4, <2>7
    <3>2. CASE i < m
      BY <2>4, <2>5, <2>7, <3>2
    <3>3. CASE m < i
      <4>1. i - 1 \in 1 .. Len(s) - 1 /\ ~(i - 1 < m) /\ (i - 1) + 1 = i
        BY <2>4, <3>3
      <4> QED
        BY <2>5, <2>7, <4>1
    <3> QED
      BY <3>1, <3>2, <3>3
  <2> QED
    BY <2>3, <2>5, <2>6, <2>7
<1> QED
  BY <1>1, <1>2

---------------------------------------------------------------------------
(* The invariant.                                                          *)

Answer == [sequence : Nat, status : {"OK", "INVALID"}]
CallerStates ==
  [pc : {"idle", "queued", "asking"},
   asks : {"none", "execute", "heartbeat", "motion", "estop"},
   id : Nat, sequence : Nat, outcome : Outcomes]

Typed ==
  /\ LP!Consistent(lifecycle) /\ twin \in {"IDLE", "EXECUTING", "ESTOP"}
  /\ lock_queue \in Seq(Callers) /\ call \in [Callers -> CallerStates]
  /\ link \in {"up", "down"} /\ next_sequence \in Nat /\ requests \in Nat
  /\ to_device \in Seq(Frames) /\ to_host \in Seq(Answer)
  /\ devices \subseteq Nat /\ IsFiniteSet(devices) /\ moved \subseteq Nat
  /\ stopped \in BOOLEAN /\ disturbances \in Nat

Asking(c) == call[c].pc = "asking"

IsIn(c, queue) == \E i \in 1 .. Len(queue) : queue[i] = c

\* Who asks has the lock, and who waits for it is in the queue.
Locked ==
  \A c \in Callers :
    /\ Asking(c) => /\ lock_queue # <<>> /\ lock_queue[1] = c
                    /\ call[c].asks \in {"heartbeat", "motion", "estop"}
                    /\ call[c].outcome = "none"
    /\ call[c].pc = "queued" => /\ call[c].asks \in {"execute", "estop"}
                                /\ IsIn(c, lock_queue)

\* The frames on a link have numbers that were given out on it, and there are as
\* many as device tasks that wait for one.
OnLink ==
  /\ \A i \in 1 .. Len(to_device) : to_device[i].sequence < next_sequence
  /\ Cardinality(devices) <= Len(to_device)
  /\ link = "down" => to_device = <<>>

OwnFrameIsTheLast ==
  \A c \in Callers, i \in 1 .. Len(to_device) :
    Asking(c) /\ to_device[i].sequence = call[c].sequence
      => i = Len(to_device) /\ to_device[i].kind = call[c].asks
                            /\ to_device[i].id = call[c].id

IsAnswered(c) == \E i \in 1 .. Len(to_host) : Matches(to_host[i], c)
IsGranted(c) ==
  \E i \in 1 .. Len(to_host) : Matches(to_host[i], c) /\ to_host[i].status = "OK"

AnswerIsTheLast ==
  \A c \in Callers :
    Asking(c) =>
      /\ IsAnswered(c) => to_device = <<>>
      /\ IsAnswered(c) /\ call[c].asks = "estop" => twin # "EXECUTING"
      /\ IsGranted(c) /\ call[c].asks = "motion" => call[c].id \in moved

\* After a stop no motion is asked for or on its way.
StopHolds ==
  stopped => /\ lifecycle.estop_latched /\ twin # "EXECUTING"
             /\ \A i \in 1 .. Len(to_device) : to_device[i].kind # "motion"
             /\ \A c \in Callers : Asking(c) => call[c].asks = "estop"

\* While nothing disturbs them, there is one frame, device task or answer for the
\* caller that asks and none for anyone else.
InStep ==
  disturbances = 0 =>
    /\ \A c \in Callers : call[c].outcome # "failed"
    /\ (\A c \in Callers : ~Asking(c))
         => to_device = <<>> /\ to_host = <<>> /\ devices = {}
    /\ \A c \in Callers :
         Asking(c) =>
           /\ link = "up"
           /\ \/ /\ Len(to_device) = 1 /\ to_host = <<>> /\ devices = {call[c].id}
                 /\ to_device[1].sequence = call[c].sequence
              \/ /\ to_device = <<>> /\ devices = {} /\ Len(to_host) = 1
                 /\ to_host[1].sequence = call[c].sequence

\* What a queue must be for its head to run: everyone who waits is in it.
Waiting(queue) == \A u \in Callers : call[u].pc = "queued" => IsIn(u, queue)

Inv ==
  /\ Typed /\ Locked /\ OnLink /\ OwnFrameIsTheLast /\ AnswerIsTheLast /\ StopHolds
  /\ ReportIsGenuine /\ InStep

---------------------------------------------------------------------------
(* The controller.                                                         *)

LEMMA ControllerAssumption ==
  /\ LP!TimeoutAssumption /\ LP!AgesAssumption /\ LP!MaxSequenceAssumption
  BY RuntimeAssumption
     DEF LP!TimeoutAssumption, LP!AgesAssumption, LP!MaxSequenceAssumption,
         HeartbeatTimeout

\* The controller of the runtime is the one of the theorems.
LEMMA SameController ==
  /\ \A s : LC!AfterArm(s) = LP!AfterArm(s)
  /\ \A s, age : LC!AfterHeartbeatAge(s, age) = LP!AfterHeartbeatAge(s, age)
  /\ \A s, active : LC!AfterPhysicalEstop(s, active) = LP!AfterPhysicalEstop(s, active)
  /\ \A s : LC!AfterSoftwareEstop(s) = LP!Latched(s, "SOFTWARE_ESTOP")
  /\ \A s : LC!AfterManualReset(s) = LP!AfterManualReset(s)
  /\ LC!InitialSnapshot = LP!InitialSnapshot /\ LC!Snapshots = LP!Snapshots
  BY DEF LC!AfterArm, LP!AfterArm, LC!Commit, LP!Commit, LC!Latched, LP!Latched,
         LC!AfterHeartbeatAge, LP!AfterHeartbeatAge, LC!AgeFresh, LP!AgeFresh,
         LC!AgeInvalid, LP!AgeInvalid, LC!AgeStale, LP!AgeStale,
         LC!AfterPhysicalEstop, LP!AfterPhysicalEstop, LC!AfterSoftwareEstop,
         LC!AfterManualReset, LP!AfterManualReset, LC!ResetDenials, LP!ResetDenials,
         LC!ManualResetDone, LP!ManualResetDone,
         LC!InitialSnapshot, LP!InitialSnapshot, LC!NoReason, LP!NoReason,
         LC!Snapshots, LP!Snapshots, LC!Causes, LP!Causes, LC!Reasons, LP!Reasons

LEMMA UnnumberedConsistent ==
  ASSUME NEW s, LP!Consistent(s)
  PROVE  /\ LP!Consistent(Unnumbered(s))
         /\ Unnumbered(s).estop_latched = s.estop_latched
  BY DEF LP!Consistent, LP!Explained, LP!Snapshots, Unnumbered

LEMMA EvaluationKeepsLatch ==
  ASSUME LP!Consistent(lifecycle)
  PROVE  /\ LP!Consistent(AfterEvaluation)
         /\ lifecycle.estop_latched => AfterEvaluation.estop_latched
         /\ MotionPermitted(AfterEvaluation) => ~lifecycle.estop_latched
<1> DEFINE p == LP!AfterPhysicalEstop(lifecycle, FALSE)
           h == LP!AfterHeartbeatAge(p, 10)
<1>1. LP!Consistent(p) /\ lifecycle.causes \subseteq p.causes
  BY ControllerAssumption, LP!PhysicalEstopConsistent
<1>2. LP!Consistent(h) /\ p.causes \subseteq h.causes
  BY <1>1, ControllerAssumption, LP!HeartbeatAgeConsistent
<1>3. lifecycle.estop_latched => h.estop_latched
  BY <1>1, <1>2 DEF LP!Consistent, LP!Explained
<1>4. AfterEvaluation = Unnumbered(h)
  BY SameController DEF AfterEvaluation
<1> HIDE DEF h
<1>5. /\ LP!Consistent(AfterEvaluation)
      /\ lifecycle.estop_latched => AfterEvaluation.estop_latched
  BY <1>2, <1>3, <1>4, UnnumberedConsistent
<1> QED
  BY <1>5 DEF MotionPermitted, LC!MotionBlocked

LEMMA StopLatches ==
  ASSUME LP!Consistent(lifecycle)
  PROVE  LET s == Unnumbered(LC!AfterSoftwareEstop(lifecycle))
         IN LP!Consistent(s) /\ s.estop_latched
<1> DEFINE l == LP!Latched(lifecycle, "SOFTWARE_ESTOP")
<1>1. "SOFTWARE_ESTOP" \in LP!Causes
  BY DEF LP!Causes
<1>2. LP!Consistent(l) /\ l.estop_latched
  BY <1>1, ControllerAssumption, LP!LatchedConsistent
<1>3. LC!AfterSoftwareEstop(lifecycle) = l
  BY SameController
<1> HIDE DEF l
<1> QED
  BY <1>2, <1>3, UnnumberedConsistent

LEMMA ResetConsistent ==
  ASSUME LP!Consistent(lifecycle)
  PROVE  LP!Consistent(Unnumbered(LC!AfterManualReset(LC!AfterHeartbeatAge(lifecycle, 0))))
<1> DEFINE h == LP!AfterHeartbeatAge(lifecycle, 0)
           r == LP!AfterManualReset(h)
<1>1. LP!Consistent(h)
  BY ControllerAssumption, LP!HeartbeatAgeConsistent
<1>2. LP!Consistent(r)
  BY <1>1, ControllerAssumption, LP!ManualResetConsistent
<1>3. LC!AfterManualReset(LC!AfterHeartbeatAge(lifecycle, 0)) = r
  BY SameController
<1> HIDE DEF r
<1> QED
  BY <1>2, <1>3, UnnumberedConsistent

---------------------------------------------------------------------------
(* Requests.                                                               *)

LEMMA OneAsks ==
  ASSUME Locked, NEW c \in Callers, lock_queue # <<>>, lock_queue[1] = c
  PROVE  \A u \in Callers \ {c} : ~Asking(u)
  BY DEF Locked

\* Whoever ends leaves nobody who asks.
LEMMA EndInv ==
  ASSUME Typed, Locked, NEW c \in Callers, NEW outcome \in Outcomes,
         NEW queue \in Seq(Callers), queue # <<>>, queue[1] = c, Waiting(queue),
         End(c, outcome, queue),
         \A u \in Callers \ {c} : ~Asking(u)
  PROVE  /\ lock_queue' \in Seq(Callers) /\ call' \in [Callers -> CallerStates]
         /\ \A u \in Callers : ~Asking(u)'
         /\ Locked' /\ OwnFrameIsTheLast' /\ AnswerIsTheLast'
         /\ \A u \in Callers \ {c} : call'[u] = call[u]
         /\ call'[c].outcome = outcome
         /\ outcome = "report" => call'[c].id = call[c].id
<1> DEFINE rest == AtRest(outcome, call[c].id)
<1>1. /\ rest \in CallerStates /\ rest.pc = "idle" /\ rest.outcome = outcome
      /\ outcome = "report" => rest.id = call[c].id
  BY DEF Typed, CallerStates, AtRest
<1>2. call' = [call EXCEPT ![c] = rest] /\ lock_queue' = Tail(queue)
  BY DEF End, Released
<1> HIDE DEF rest
<1>3. lock_queue' \in Seq(Callers)
  BY <1>2, TailIsRest
<1>4. /\ call' \in [Callers -> CallerStates] /\ call'[c] = rest
      /\ \A u \in Callers \ {c} : call'[u] = call[u]
  BY <1>1, <1>2 DEF Typed
<1>5. \A u \in Callers : ~Asking(u)'
  BY <1>1, <1>4 DEF Asking
<1>6. Locked'
  <2>1. ASSUME NEW u \in Callers, call'[u].pc = "queued"
        PROVE  call'[u].asks \in {"execute", "estop"} /\ IsIn(u, lock_queue')
    <3>1. u # c /\ call'[u] = call[u]
      BY <1>1, <1>4, <2>1
    <3>2. PICK i \in 1 .. Len(queue) : queue[i] = u
      BY <2>1, <3>1 DEF Waiting, IsIn
    <3>3. i - 1 \in 1 .. Len(Tail(queue)) /\ Tail(queue)[i - 1] = queue[i]
      BY <3>1, <3>2, TailIsRest
    <3> QED
      BY <1>2, <2>1, <3>1, <3>2, <3>3 DEF Locked, IsIn
  <2> QED
    BY <1>5, <2>1 DEF Locked
<1>7. OwnFrameIsTheLast' /\ AnswerIsTheLast'
  BY <1>5 DEF OwnFrameIsTheLast, AnswerIsTheLast
<1> QED
  BY <1>1, <1>3, <1>4, <1>5, <1>6, <1>7

\* What remains to be shown when a call ends: the rest of the state is sound.
LEMMA EndKeeps ==
  ASSUME Inv, NEW c \in Callers, NEW outcome \in Outcomes,
         NEW queue \in Seq(Callers), queue # <<>>, queue[1] = c, Waiting(queue),
         End(c, outcome, queue),
         \A u \in Callers \ {c} : ~Asking(u),
         LP!Consistent(lifecycle'), twin' \in {"IDLE", "EXECUTING", "ESTOP"},
         link' \in {"up", "down"}, next_sequence' \in Nat, requests' \in Nat,
         to_device' \in Seq(Frames), to_host' \in Seq(Answer),
         devices' \subseteq Nat, IsFiniteSet(devices'), UNCHANGED moved,
         stopped' \in BOOLEAN, UNCHANGED disturbances \/ disturbances' = disturbances + 1,
         OnLink',
         stopped' => /\ lifecycle'.estop_latched /\ twin' # "EXECUTING"
                     /\ \A i \in 1 .. Len(to_device') : to_device'[i].kind # "motion",
         outcome = "report" => call[c].id \in moved,
         disturbances' = 0 => /\ outcome # "failed"
                              /\ to_device' = <<>> /\ to_host' = <<>> /\ devices' = {}
  PROVE  Inv'
<1>1. /\ lock_queue' \in Seq(Callers) /\ call' \in [Callers -> CallerStates]
      /\ \A u \in Callers : ~Asking(u)'
      /\ Locked' /\ OwnFrameIsTheLast' /\ AnswerIsTheLast'
      /\ \A u \in Callers \ {c} : call'[u] = call[u]
      /\ call'[c].outcome = outcome
      /\ outcome = "report" => call'[c].id = call[c].id
  BY EndInv DEF Inv
<1>2. disturbances' \in Nat /\ (disturbances' = 0 => disturbances = 0)
  BY DEF Inv, Typed
<1>3. Typed'
  BY <1>1, <1>2 DEF Inv, Typed
<1>4. StopHolds'
  BY <1>1 DEF StopHolds
<1>5. ReportIsGenuine'
  BY <1>1 DEF Inv, ReportIsGenuine
<1>6. InStep'
  BY <1>1, <1>2 DEF Inv, InStep
<1> QED
  BY <1>1, <1>3, <1>4, <1>5, <1>6 DEF Inv

LEMMA BufferedTyped ==
  ASSUME Inv
  PROVE  /\ Buffered \in Seq(Answer) /\ FirstSequence \in Nat
         /\ \A i \in 1 .. Len(to_device) : to_device[i].sequence < FirstSequence
         /\ (\A u \in Callers : ~Asking(u)) /\ disturbances = 0
              => to_device = <<>> /\ Buffered = <<>> /\ devices = {}
<1>1. Buffered \in Seq(Answer) /\ FirstSequence \in Nat
  BY DEF Inv, Typed, Buffered, FirstSequence
<1>2. link = "down" => Len(to_device) = 0
  BY DEF Inv, OnLink
<1>3. \A i \in 1 .. Len(to_device) : to_device[i].sequence < FirstSequence
  BY <1>2 DEF Inv, OnLink, Typed, FirstSequence
<1> QED
  BY <1>1, <1>3 DEF Inv, InStep, Buffered

\* A request's frame goes behind all the others, under a number of its own.
LEMMA AskInv ==
  ASSUME Inv, NEW c \in Callers, NEW kind \in {"heartbeat", "motion", "estop"},
         NEW queue \in Seq(Callers), queue # <<>>, queue[1] = c, Waiting(queue),
         NEW answers \in Seq(Answer), Ask(c, kind, queue, answers),
         \A u \in Callers \ {c} : ~Asking(u),
         LP!Consistent(lifecycle'),
         lifecycle.estop_latched => lifecycle'.estop_latched,
         stopped => kind = "estop",
         UNCHANGED <<twin, moved, stopped, disturbances>>,
         disturbances = 0 => to_device = <<>> /\ answers = <<>> /\ devices = {}
  PROVE  Inv'
<1> DEFINE frame == Frame(kind, FirstSequence)
           last == Len(to_device) + 1
<1>1. /\ FirstSequence \in Nat
      /\ \A i \in 1 .. Len(to_device) : to_device[i].sequence < FirstSequence
  BY BufferedTyped
<1>2. /\ frame \in Frames /\ frame.kind = kind /\ frame.sequence = FirstSequence
      /\ frame.id = requests
  BY <1>1 DEF Frame, Frames, Inv, Typed
<1>3. /\ link' = "up" /\ requests' = requests + 1 /\ next_sequence' = FirstSequence + 1
      /\ to_device' = Append(to_device, frame)
  BY DEF Ask
<1> HIDE DEF frame
<1>4. /\ to_device' \in Seq(Frames) /\ Len(to_device) \in Nat /\ Len(to_device') = last
      /\ \A i \in 1 .. Len(to_device) : to_device'[i] = to_device[i]
      /\ to_device'[last] = frame
      /\ \A i \in 1 .. Len(to_device') : i \in 1 .. Len(to_device) \/ i = last
  <2>1. /\ to_device' \in Seq(Frames) /\ Len(to_device) \in Nat /\ Len(to_device') = last
        /\ \A i \in 1 .. Len(to_device) : to_device'[i] = to_device[i]
        /\ to_device'[last] = frame
    BY <1>2, <1>3, AppendIsLast DEF Inv, Typed
  <2>2. \A i \in 1 .. Len(to_device') : i \in 1 .. Len(to_device) \/ i = last
    BY <2>1
  <2> QED
    BY <2>1, <2>2
<1> HIDE DEF last
<1>5. \A i \in 1 .. Len(to_device') :
        /\ to_device'[i].sequence < next_sequence'
        /\ to_device'[i].sequence = FirstSequence => i = last
  <2>1. \A i \in 1 .. Len(to_device) : to_device[i] \in Frames
    BY DEF Inv, Typed
  <2>2. \A i \in 1 .. Len(to_device) : to_device[i].sequence \in Nat
    BY <2>1 DEF Frames
  <2> QED
    BY <1>1, <1>2, <1>3, <1>4, <2>2
<1>6. requests' \in Nat /\ next_sequence' \in Nat /\ requests \in Nat
  BY <1>1, <1>3 DEF Inv, Typed
<1>7. stopped' => /\ lifecycle'.estop_latched /\ twin' # "EXECUTING"
                  /\ \A i \in 1 .. Len(to_device') : to_device'[i].kind # "motion"
  BY <1>2, <1>4 DEF Inv, StopHolds
<1>8. CASE /\ answers = <<>>
           /\ devices' = devices \cup {requests} /\ to_host' = <<>>
           /\ call' = [call EXCEPT ![c] = [pc |-> "asking", asks |-> kind, id |-> requests,
                                           sequence |-> FirstSequence, outcome |-> "none"]]
           /\ lock_queue' = queue
  <2> DEFINE asking == [pc |-> "asking", asks |-> kind, id |-> requests,
                        sequence |-> FirstSequence, outcome |-> "none"]
  <2>1. /\ asking \in CallerStates /\ asking.pc = "asking" /\ asking.asks = kind
        /\ asking.id = requests /\ asking.sequence = FirstSequence
        /\ asking.outcome = "none"
    BY <1>1, <1>6 DEF CallerStates, Outcomes
  <2>2. call' = [call EXCEPT ![c] = asking]
    BY <1>8
  <2> HIDE DEF asking
  <2>3. /\ call' \in [Callers -> CallerStates] /\ call'[c] = asking
        /\ \A u \in Callers \ {c} : call'[u] = call[u]
    BY <2>1, <2>2 DEF Inv, Typed
  <2>4. /\ devices' \subseteq Nat /\ IsFiniteSet(devices')
        /\ Cardinality(devices') <= Cardinality(devices) + 1
    <3>1. /\ IsFiniteSet(devices) /\ Cardinality(devices) \in Nat
          /\ devices \subseteq Nat
      BY FS_CardinalityType DEF Inv, Typed
    <3>2. devices' = devices \cup {requests}
      BY <1>8
    <3>3. devices' \subseteq Nat
      BY <1>6, <3>1, <3>2
    <3>4. /\ IsFiniteSet(devices \cup {requests})
          /\ Cardinality(devices \cup {requests}) =
               IF requests \in devices THEN Cardinality(devices)
                                       ELSE Cardinality(devices) + 1
      BY <3>1, FS_AddElement
    <3>5. Cardinality(devices \cup {requests}) <= Cardinality(devices) + 1
      BY <3>1, <3>4
    <3> QED
      BY <3>2, <3>3, <3>4, <3>5
  <2>5. Typed'
    BY <1>3, <1>4, <1>6, <1>8, <2>3, <2>4 DEF Inv, Typed
  <2>6. \A u \in Callers : Asking(u)' => u = c
    BY <2>3 DEF Asking
  <2>7. Locked'
    <3>1. \A u \in Callers : call'[u].pc = "queued" =>
            call'[u].asks \in {"execute", "estop"} /\ IsIn(u, lock_queue')
      BY <1>8, <2>1, <2>3 DEF Inv, Locked, Waiting
    <3> QED
      BY <1>8, <2>1, <2>3, <2>6, <3>1 DEF Locked
  <2>8. OnLink'
    <3>1. Cardinality(devices) <= Len(to_device) /\ Cardinality(devices) \in Nat
          /\ Cardinality(devices') \in Nat
      BY <2>4, FS_CardinalityType DEF Inv, OnLink, Typed
    <3>2. Cardinality(devices') <= Len(to_device')
      BY <1>4, <2>4, <3>1 DEF last
    <3> QED
      BY <1>3, <1>5, <3>2 DEF OnLink
  <2>9. OwnFrameIsTheLast'
    BY <1>2, <1>4, <1>5, <2>1, <2>3, <2>6 DEF OwnFrameIsTheLast
  <2>10. Len(to_host') = 0
    BY <1>8
  <2>11. AnswerIsTheLast'
    BY <2>6, <2>10 DEF AnswerIsTheLast, IsAnswered, IsGranted
  <2>12. StopHolds'
    BY <1>7, <2>1, <2>3, <2>6 DEF StopHolds
  <2>13. ReportIsGenuine'
    BY <2>1, <2>3 DEF Inv, ReportIsGenuine
  <2>14. InStep'
    <3> SUFFICES ASSUME disturbances = 0 PROVE InStep'
      BY DEF InStep
    <3>1. to_device = <<>> /\ devices = {}
      OBVIOUS
    <3>2. /\ Len(to_device') = 1 /\ to_device'[1].sequence = FirstSequence
          /\ devices' = {requests}
      BY <1>2, <1>4, <1>8, <3>1 DEF last
    <3>3. \A u \in Callers : call'[u].outcome # "failed"
      BY <2>1, <2>3 DEF Inv, InStep
    <3>4. Asking(c)'
      BY <2>1, <2>3 DEF Asking
    <3> QED
      BY <1>3, <1>8, <2>1, <2>3, <2>6, <3>2, <3>3, <3>4 DEF InStep
  <2> QED
    BY <2>5, <2>7, <2>8, <2>9, <2>11, <2>12, <2>13, <2>14 DEF Inv
<1>9. CASE /\ answers # <<>>
           /\ to_host' = Tail(answers)
           /\ End(c, "failed", queue)
           /\ UNCHANGED devices
  <2>1. to_host' \in Seq(Answer) /\ "failed" \in Outcomes /\ "failed" # "report"
    BY <1>9, TailIsRest DEF Outcomes
  <2>2. devices' \subseteq Nat /\ IsFiniteSet(devices')
    BY <1>9 DEF Inv, Typed
  <2>3. OnLink'
    <3>1. Cardinality(devices') <= Len(to_device) /\ Cardinality(devices') \in Nat
      BY <1>9, <2>2, FS_CardinalityType DEF Inv, OnLink
    <3>2. Cardinality(devices') <= Len(to_device')
      BY <1>4, <3>1 DEF last
    <3> QED
      BY <1>3, <1>5, <3>2 DEF OnLink
  <2>4. twin' \in {"IDLE", "EXECUTING", "ESTOP"} /\ stopped' \in BOOLEAN
    BY DEF Inv, Typed
  <2>5. disturbances' # 0
    BY <1>9
  <2> QED
    BY <1>3, <1>4, <1>6, <1>7, <1>9, <2>1, <2>2, <2>3, <2>4, <2>5, EndKeeps
<1> QED
  BY <1>8, <1>9 DEF Ask

LEMMA RejectInv ==
  ASSUME Inv, NEW c \in Callers, NEW queue \in Seq(Callers), queue # <<>>,
         queue[1] = c, Waiting(queue), Reject(c, queue), \A u \in Callers : ~Asking(u),
         UNCHANGED <<stopped, plant, disturbances>>
  PROVE  Inv'
<1>1. /\ link' = "up" /\ next_sequence' = FirstSequence /\ to_host' = Buffered
      /\ lifecycle' \in {lifecycle, AfterEvaluation} /\ End(c, "rejected", queue)
      /\ UNCHANGED <<to_device, devices, requests>>
      /\ UNCHANGED <<stopped, twin, moved, disturbances>>
  BY DEF Reject, plant
<1>2. LP!Consistent(lifecycle') /\ (lifecycle.estop_latched => lifecycle'.estop_latched)
  BY <1>1, EvaluationKeepsLatch DEF Inv, Typed
<1>3. OnLink'
  BY <1>1, BufferedTyped DEF Inv, OnLink
<1>4. /\ next_sequence' \in Nat /\ to_host' \in Seq(Answer)
      /\ twin' \in {"IDLE", "EXECUTING", "ESTOP"} /\ requests' \in Nat
      /\ to_device' \in Seq(Frames) /\ devices' \subseteq Nat /\ IsFiniteSet(devices')
      /\ stopped' \in BOOLEAN
  BY <1>1, BufferedTyped DEF Inv, Typed
<1>5. stopped' => /\ lifecycle'.estop_latched /\ twin' # "EXECUTING"
                  /\ \A i \in 1 .. Len(to_device') : to_device'[i].kind # "motion"
  BY <1>1, <1>2 DEF Inv, StopHolds
<1>6. disturbances' = 0 => to_device' = <<>> /\ to_host' = <<>> /\ devices' = {}
  BY <1>1, BufferedTyped
<1>7. "rejected" \in Outcomes /\ "rejected" # "report" /\ "rejected" # "failed"
  BY DEF Outcomes
<1> QED
  BY <1>1, <1>2, <1>3, <1>4, <1>5, <1>6, <1>7, EndKeeps

LEMMA PerformInv ==
  ASSUME Inv, NEW c \in Callers, NEW queue \in Seq(Callers), queue # <<>>,
         queue[1] = c, Waiting(queue), NEW operation, Perform(c, operation, queue),
         \A u \in Callers : ~Asking(u), UNCHANGED disturbances
  PROVE  Inv'
<1>1. UNCHANGED <<stopped, twin, moved, disturbances>>
  BY DEF Perform, plant
<1>2. /\ Buffered \in Seq(Answer)
      /\ disturbances = 0 => to_device = <<>> /\ Buffered = <<>> /\ devices = {}
  BY BufferedTyped
<1>3. LP!Consistent(lifecycle)
  BY DEF Inv, Typed
<1>4. CASE Reject(c, queue)
  BY <1>4, RejectInv DEF Perform
<1>5. CASE /\ lifecycle' = AfterEvaluation /\ MotionPermitted(lifecycle')
           /\ Ask(c, "heartbeat", queue, Buffered)
  <2>1. /\ LP!Consistent(lifecycle') /\ ~lifecycle.estop_latched
    BY <1>3, <1>5, EvaluationKeepsLatch
  <2>2. ~stopped
    BY <2>1 DEF Inv, StopHolds
  <2>3. "heartbeat" \in {"heartbeat", "motion", "estop"}
    OBVIOUS
  <2>4. \A u \in Callers \ {c} : ~Asking(u)
    OBVIOUS
  <2> QED
    BY <1>1, <1>2, <1>5, <2>1, <2>2, <2>3, <2>4, AskInv
<1>6. CASE Ask(c, "estop", queue, Buffered) /\ UNCHANGED lifecycle
  <2>1. "estop" \in {"heartbeat", "motion", "estop"}
    OBVIOUS
  <2>2. \A u \in Callers \ {c} : ~Asking(u)
    OBVIOUS
  <2>3. LP!Consistent(lifecycle') /\ (lifecycle.estop_latched => lifecycle'.estop_latched)
    BY <1>3, <1>6
  <2> QED
    BY <1>1, <1>2, <1>6, <2>1, <2>2, <2>3, AskInv
<1> QED
  BY <1>4, <1>5, <1>6 DEF Perform, Execute

LEMMA CallInv ==
  ASSUME Inv, NEW c \in Callers, NEW operation \in {"execute", "estop"},
         Call(c, operation)
  PROVE  Inv'
<1>1. call[c].pc = "idle" /\ UNCHANGED disturbances
  BY DEF Call
<1>2. CASE LockFree /\ Perform(c, operation, <<c>> \o lock_queue)
  <2>1. lock_queue = <<>> /\ <<c>> \in Seq(Callers)
    BY <1>2 DEF LockFree
  <2>2. <<c>> \o lock_queue = <<c>>
    BY <2>1
  <2>3. <<c>> # <<>> /\ <<c>>[1] = c
    OBVIOUS
  <2>4. \A u \in Callers : ~Asking(u)
    BY <2>1 DEF Inv, Locked
  <2>5. Waiting(<<c>>)
    <3>1. Len(lock_queue) = 0
      BY <2>1
    <3> QED
      BY <3>1 DEF Waiting, IsIn, Inv, Locked
  <2> QED
    BY <1>1, <1>2, <2>1, <2>2, <2>3, <2>4, <2>5, PerformInv
<1>3. CASE /\ ~LockFree
           /\ lock_queue' = Append(lock_queue, c)
           /\ call' = [call EXCEPT ![c] = [AtRest("none", 0) EXCEPT !.pc = "queued",
                                                                     !.asks = operation]]
           /\ UNCHANGED <<safety, plant, wires>>
  <2> DEFINE waiting == [AtRest("none", 0) EXCEPT !.pc = "queued", !.asks = operation]
  <2>1. /\ waiting \in CallerStates /\ waiting.pc = "queued"
        /\ waiting.asks = operation /\ waiting.outcome = "none"
    BY DEF CallerStates, Outcomes, AtRest
  <2>2. call' = [call EXCEPT ![c] = waiting]
    BY <1>3
  <2> HIDE DEF waiting
  <2>3. /\ call' \in [Callers -> CallerStates] /\ call'[c] = waiting
        /\ \A u \in Callers \ {c} : call'[u] = call[u]
    BY <2>1, <2>2 DEF Inv, Typed
  <2>4. lock_queue \in Seq(Callers) /\ lock_queue # <<>>
    BY <1>3 DEF Inv, Typed, LockFree
  <2>5. /\ lock_queue' \in Seq(Callers) /\ lock_queue' # <<>>
        /\ lock_queue'[1] = lock_queue[1]
    BY <1>3, <2>4, AppendIsLast
  <2>6. \A u \in Callers : Asking(u)' <=> Asking(u) /\ u # c
    BY <1>1, <2>1, <2>3 DEF Asking
  <2>7. UNCHANGED <<lifecycle, stopped, twin, moved, link, next_sequence, to_device,
                    to_host, devices, requests, disturbances>>
    BY <1>1, <1>3 DEF safety, plant, wires
  <2>8. Typed'
    BY <2>3, <2>5, <2>7 DEF Inv, Typed
  <2>9. Locked'
    <3>1. ASSUME NEW u \in Callers, call'[u].pc = "queued"
          PROVE  call'[u].asks \in {"execute", "estop"} /\ IsIn(u, lock_queue')
      <4> DEFINE last == Len(lock_queue) + 1
      <4>1. last \in 1 .. Len(lock_queue') /\ lock_queue'[last] = c
        BY <1>3, <2>4, AppendIsLast
      <4>2. \A i \in 1 .. Len(lock_queue) :
              i \in 1 .. Len(lock_queue') /\ lock_queue'[i] = lock_queue[i]
        BY <1>3, <2>4, AppendIsLast
      <4> HIDE DEF last
      <4>3. CASE u = c
        BY <2>1, <2>3, <4>1, <4>3 DEF IsIn
      <4>4. CASE u # c
        BY <2>3, <3>1, <4>2, <4>4 DEF Inv, Locked, IsIn
      <4> QED
        BY <4>3, <4>4
    <3> QED
      BY <2>3, <2>4, <2>5, <2>6, <3>1 DEF Inv, Locked
  <2>10. ~Asking(c)
    BY <1>1 DEF Asking
  <2>11. OnLink'
    BY <2>7 DEF Inv, OnLink
  <2>12. OwnFrameIsTheLast'
    BY <2>3, <2>6, <2>7 DEF Inv, OwnFrameIsTheLast
  <2>13. AnswerIsTheLast'
    <3> SUFFICES ASSUME NEW u \in Callers, Asking(u)'
                 PROVE  /\ IsAnswered(u)' => to_device' = <<>>
                        /\ IsAnswered(u)' /\ call'[u].asks = "estop" => twin' # "EXECUTING"
                        /\ IsGranted(u)' /\ call'[u].asks = "motion" => call'[u].id \in moved'
      BY DEF AnswerIsTheLast
    <3>1. Asking(u) /\ call'[u] = call[u]
      BY <2>3, <2>6
    <3>2. (IsAnswered(u)' <=> IsAnswered(u)) /\ (IsGranted(u)' <=> IsGranted(u))
      BY <2>7, <3>1 DEF IsAnswered, IsGranted, Matches
    <3> QED
      BY <2>7, <3>1, <3>2 DEF Inv, AnswerIsTheLast
  <2>14. StopHolds'
    BY <2>3, <2>6, <2>7 DEF Inv, StopHolds
  <2>15. ReportIsGenuine'
    BY <2>1, <2>3, <2>7 DEF Inv, ReportIsGenuine
  <2>16. InStep'
    <3> SUFFICES ASSUME disturbances = 0 PROVE InStep'
      BY <2>7 DEF InStep
    <3>1. \A u \in Callers : call'[u].outcome # "failed"
      BY <2>1, <2>3 DEF Inv, InStep
    <3>2. (\A u \in Callers : ~Asking(u)') => \A u \in Callers : ~Asking(u)
      BY <2>6, <2>10
    <3>3. \A u \in Callers : Asking(u)' => Asking(u) /\ call'[u] = call[u]
      BY <2>3, <2>6
    <3> QED
      BY <2>7, <3>1, <3>2, <3>3 DEF Inv, InStep
  <2> QED
    BY <2>8, <2>9, <2>11, <2>12, <2>13, <2>14, <2>15, <2>16 DEF Inv
<1> QED
  BY <1>2, <1>3 DEF Call

LEMMA ObtainLockInv ==
  ASSUME Inv, NEW c \in Callers, ObtainLock(c)
  PROVE  Inv'
<1>1. /\ call[c].pc = "queued" /\ Head(lock_queue) = c
      /\ Perform(c, call[c].asks, lock_queue) /\ UNCHANGED disturbances
  BY DEF ObtainLock, counters
<1>2. lock_queue \in Seq(Callers) /\ lock_queue # <<>> /\ Waiting(lock_queue)
  <2>1. PICK i \in 1 .. Len(lock_queue) : lock_queue[i] = c
    BY <1>1 DEF Inv, Locked, IsIn
  <2>2. Len(lock_queue) # 0
    BY <2>1 DEF Inv, Typed
  <2> QED
    BY <2>2 DEF Inv, Typed, Locked, Waiting
<1>3. lock_queue[1] = c
  BY <1>1, <1>2, TailIsRest
<1>4. \A u \in Callers : ~Asking(u)
  BY <1>1, <1>3 DEF Inv, Locked, Asking
<1> QED
  BY <1>1, <1>2, <1>3, <1>4, PerformInv

---------------------------------------------------------------------------
(* The device task and the twin.                                           *)

LEMMA DispatchEffect ==
  ASSUME Typed, NEW frame \in Frames, NEW status \in {"OK", "INVALID"},
         Dispatch(frame, status)
  PROVE  /\ twin' \in {"IDLE", "EXECUTING", "ESTOP"}
         /\ moved' \subseteq Nat /\ moved \subseteq moved'
         /\ frame.kind = "estop" => twin' # "EXECUTING"
         /\ frame.kind # "motion" /\ twin # "EXECUTING" => twin' # "EXECUTING"
         /\ frame.kind = "motion" /\ status = "OK" => frame.id \in moved'
  BY DEF Typed, Frames, Dispatch

LEMMA DeviceLeaves ==
  ASSUME Typed, NEW d
  PROVE  /\ Others(d) \subseteq Nat /\ IsFiniteSet(Others(d))
         /\ Cardinality(Others(d)) = IF d \in devices THEN Cardinality(devices) - 1
                                                      ELSE Cardinality(devices)
         /\ Cardinality(devices) \in Nat /\ Cardinality(Others(d)) \in Nat
<1>1. IsFiniteSet(devices) /\ devices \subseteq Nat
  BY DEF Typed
<1>2. /\ IsFiniteSet(devices \ {d})
      /\ Cardinality(devices \ {d}) = IF d \in devices THEN Cardinality(devices) - 1
                                                      ELSE Cardinality(devices)
  BY <1>1, FS_RemoveElement
<1> QED
  BY <1>1, <1>2, FS_CardinalityType DEF Others

LEMMA ServeInv ==
  ASSUME Inv, NEW d \in devices, Serve(d)
  PROVE  Inv'
<1> DEFINE frame == Head(to_device)
<1>1. PICK status \in {"OK", "INVALID"} :
        /\ Dispatch(frame, status)
        /\ to_host' = Append(to_host, [sequence |-> frame.sequence, status |-> status])
  BY DEF Serve
<1> DEFINE answer == [sequence |-> frame.sequence, status |-> status]
           last == Len(to_host) + 1
<1>2. /\ to_device # <<>> /\ to_device' = Tail(to_device) /\ devices' = Others(d)
      /\ to_host' = Append(to_host, answer)
      /\ UNCHANGED <<lifecycle, stopped, lock_queue, call, link, next_sequence,
                     requests, calls, disturbances>>
  BY <1>1 DEF Serve, safety, counters
<1>3. /\ frame \in Frames /\ to_device' \in Seq(Frames)
      /\ Len(to_device) \in Nat \ {0} /\ frame = to_device[1]
      /\ Len(to_device') = Len(to_device) - 1
      /\ \A i \in 1 .. Len(to_device') : to_device'[i] = to_device[i + 1]
  BY <1>2, TailIsRest DEF Inv, Typed
<1> HIDE DEF frame
<1>4. answer \in Answer /\ answer.sequence = frame.sequence /\ answer.status = status
  BY <1>3 DEF Frames, Answer
<1> HIDE DEF answer
<1>5. /\ to_host' \in Seq(Answer) /\ Len(to_host) \in Nat /\ Len(to_host') = last
      /\ \A i \in 1 .. Len(to_host) : to_host'[i] = to_host[i]
      /\ to_host'[last] = answer
      /\ \A i \in 1 .. Len(to_host') : i \in 1 .. Len(to_host) \/ i = last
  <2>1. /\ to_host' \in Seq(Answer) /\ Len(to_host) \in Nat /\ Len(to_host') = last
        /\ \A i \in 1 .. Len(to_host) : to_host'[i] = to_host[i]
        /\ to_host'[last] = answer
    BY <1>2, <1>4, AppendIsLast DEF Inv, Typed
  <2> QED
    BY <2>1
<1>6. 1 \in 1 .. Len(to_device) /\ \A i \in 1 .. Len(to_device') : i + 1 \in 1 .. Len(to_device)
  BY <1>3
<1>7. /\ twin' \in {"IDLE", "EXECUTING", "ESTOP"}
      /\ moved' \subseteq Nat /\ moved \subseteq moved'
      /\ frame.kind = "estop" => twin' # "EXECUTING"
      /\ frame.kind # "motion" /\ twin # "EXECUTING" => twin' # "EXECUTING"
      /\ frame.kind = "motion" /\ status = "OK" => frame.id \in moved'
  BY <1>1, <1>3, DispatchEffect DEF Inv
<1>8. /\ devices' \subseteq Nat /\ IsFiniteSet(devices')
      /\ Cardinality(devices') = Cardinality(devices) - 1
      /\ Cardinality(devices) \in Nat /\ Cardinality(devices') \in Nat
  BY <1>2, DeviceLeaves DEF Inv
<1>9. Typed'
  BY <1>2, <1>3, <1>5, <1>7, <1>8 DEF Inv, Typed
<1>10. Locked'
  BY <1>2 DEF Inv, Locked, Asking
<1>11. OnLink'
  <2>1. \A i \in 1 .. Len(to_device') : to_device'[i].sequence < next_sequence'
    BY <1>2, <1>3, <1>6 DEF Inv, OnLink
  <2>2. Cardinality(devices') <= Len(to_device')
    BY <1>3, <1>8 DEF Inv, OnLink
  <2> QED
    BY <1>2, <2>1, <2>2 DEF Inv, OnLink
<1>12. OwnFrameIsTheLast'
  <2> SUFFICES ASSUME NEW u \in Callers, NEW i \in 1 .. Len(to_device'), Asking(u),
                      to_device'[i].sequence = call[u].sequence
               PROVE  i = Len(to_device') /\ to_device'[i].kind = call[u].asks
                                          /\ to_device'[i].id = call[u].id
    BY <1>2 DEF OwnFrameIsTheLast, Asking
  <2>1. i + 1 = Len(to_device) /\ to_device[i + 1].kind = call[u].asks
        /\ to_device[i + 1].id = call[u].id
    BY <1>3, <1>6 DEF Inv, OwnFrameIsTheLast
  <2> QED
    BY <1>3, <2>1
<1>13. AnswerIsTheLast'
  <2> SUFFICES ASSUME NEW u \in Callers, Asking(u)
               PROVE  /\ IsAnswered(u)' => to_device' = <<>>
                      /\ IsAnswered(u)' /\ call[u].asks = "estop" => twin' # "EXECUTING"
                      /\ IsGranted(u)' /\ call[u].asks = "motion" => call[u].id \in moved'
    BY <1>2 DEF AnswerIsTheLast, Asking
  <2>1. ~IsAnswered(u)
    BY <1>2 DEF Inv, AnswerIsTheLast
  <2>2. IsGranted(u)' => IsAnswered(u)'
    BY DEF IsGranted, IsAnswered
  <2>3. ASSUME IsAnswered(u)' PROVE frame.sequence = call[u].sequence
    <3>1. PICK i \in 1 .. Len(to_host') : to_host'[i].sequence = call[u].sequence
      BY <1>2, <2>3 DEF IsAnswered, Matches
    <3>2. i \notin 1 .. Len(to_host)
      BY <1>5, <2>1, <3>1 DEF IsAnswered, Matches
    <3> QED
      BY <1>4, <1>5, <3>1, <3>2
  <2>4. ASSUME IsAnswered(u)'
        PROVE  1 = Len(to_device) /\ frame.kind = call[u].asks /\ frame.id = call[u].id
    BY <1>3, <1>6, <2>3, <2>4 DEF Inv, OwnFrameIsTheLast
  <2>5. ASSUME IsGranted(u)' PROVE status = "OK"
    <3>1. PICK i \in 1 .. Len(to_host') : /\ to_host'[i].sequence = call[u].sequence
                                          /\ to_host'[i].status = "OK"
      BY <1>2, <2>5 DEF IsGranted, Matches
    <3>2. i \notin 1 .. Len(to_host)
      BY <1>5, <2>1, <3>1 DEF IsAnswered, Matches
    <3> QED
      BY <1>4, <1>5, <3>1, <3>2
  <2>6. ASSUME IsAnswered(u)' PROVE to_device' = <<>>
    <3>1. Len(to_device) = 1
      BY <2>4, <2>6
    <3>2. Len(to_device') = 0
      BY <1>3, <3>1
    <3> QED
      BY <1>3, <3>2
  <2> QED
    BY <1>7, <2>2, <2>4, <2>5, <2>6
<1>14. StopHolds'
  <2> SUFFICES ASSUME stopped
               PROVE  /\ lifecycle.estop_latched /\ twin' # "EXECUTING"
                      /\ \A i \in 1 .. Len(to_device') : to_device'[i].kind # "motion"
                      /\ \A u \in Callers : Asking(u) => call[u].asks = "estop"
    BY <1>2 DEF StopHolds, Asking
  <2> QED
    BY <1>3, <1>6, <1>7 DEF Inv, StopHolds
<1>15. ReportIsGenuine'
  BY <1>2, <1>7 DEF Inv, ReportIsGenuine
<1>16. InStep'
  <2> SUFFICES ASSUME disturbances = 0 PROVE InStep'
    BY <1>2 DEF InStep
  <2>1. PICK u \in Callers : Asking(u)
    BY <1>2 DEF Inv, InStep
  <2>2. /\ link = "up" /\ Len(to_device) = 1 /\ to_host = <<>> /\ devices = {call[u].id}
        /\ to_device[1].sequence = call[u].sequence
    BY <1>2, <2>1 DEF Inv, InStep
  <2>3. devices' = {}
    BY <1>2, <2>2 DEF Others
  <2>4. Len(to_device') = 0 /\ to_device' = <<>>
    BY <1>3, <2>2
  <2>5. Len(to_host') = 1 /\ to_host'[1].sequence = call[u].sequence
    BY <1>3, <1>4, <1>5, <2>2
  <2>6. \A v \in Callers : Asking(v) => v = u
    BY <2>1 DEF Inv, Locked
  <2> QED
    BY <1>2, <2>1, <2>2, <2>3, <2>4, <2>5, <2>6 DEF Inv, InStep, Asking
<1> QED
  BY <1>9, <1>10, <1>11, <1>12, <1>13, <1>14, <1>15, <1>16 DEF Inv

---------------------------------------------------------------------------
(* Answers.                                                                *)

\* Who asks runs at the head of the lock's queue.
LEMMA AskerHoldsLock ==
  ASSUME Inv, NEW c \in Callers, Asking(c)
  PROVE  /\ lock_queue \in Seq(Callers) /\ lock_queue # <<>> /\ lock_queue[1] = c
         /\ Waiting(lock_queue)
         /\ \A u \in Callers \ {c} : ~Asking(u)
  BY DEF Inv, Typed, Locked, Waiting

LEMMA FailInv ==
  ASSUME Inv, NEW c \in Callers, Asking(c), NEW outcome \in {"failed", "refused"},
         Fail(c, outcome), to_host' \in Seq(Answer),
         UNCHANGED disturbances \/ disturbances' = disturbances + 1,
         disturbances' = 0 => /\ outcome # "failed"
                              /\ to_device = <<>> /\ to_host' = <<>> /\ devices = {}
  PROVE  Inv'
<1>1. /\ End(c, outcome, lock_queue) /\ devices' = Others(call[c].id)
      /\ UNCHANGED <<lifecycle, stopped, twin, moved, link, next_sequence, to_device,
                     requests>>
  BY DEF Fail, safety, plant
<1>2. outcome \in Outcomes /\ outcome # "report"
  BY DEF Outcomes
<1>3. /\ devices' \subseteq Nat /\ IsFiniteSet(devices')
      /\ Cardinality(devices') <= Cardinality(devices)
      /\ Cardinality(devices') \in Nat /\ Cardinality(devices) \in Nat
  BY <1>1, DeviceLeaves DEF Inv
<1>4. OnLink'
  <2>1. Cardinality(devices') <= Len(to_device) /\ Len(to_device) \in Nat
    BY <1>3 DEF Inv, OnLink, Typed
  <2> QED
    BY <1>1, <2>1 DEF Inv, OnLink
<1>5. /\ LP!Consistent(lifecycle') /\ twin' \in {"IDLE", "EXECUTING", "ESTOP"}
      /\ link' \in {"up", "down"} /\ next_sequence' \in Nat /\ requests' \in Nat
      /\ to_device' \in Seq(Frames) /\ stopped' \in BOOLEAN
  BY <1>1 DEF Inv, Typed
<1>6. stopped' => /\ lifecycle'.estop_latched /\ twin' # "EXECUTING"
                  /\ \A i \in 1 .. Len(to_device') : to_device'[i].kind # "motion"
  BY <1>1 DEF Inv, StopHolds
<1>7. disturbances' = 0 => /\ outcome # "failed"
                           /\ to_device' = <<>> /\ to_host' = <<>> /\ devices' = {}
  BY <1>1 DEF Others
<1> QED
  BY <1>1, <1>2, <1>3, <1>4, <1>5, <1>6, <1>7, AskerHoldsLock, EndKeeps

\* A call that ends with the answer in hand, and leaves the wires alone.
LEMMA AnsweredInv ==
  ASSUME Inv, NEW c \in Callers, Asking(c), NEW outcome \in Outcomes,
         End(c, outcome, lock_queue), to_host' \in Seq(Answer),
         LP!Consistent(lifecycle'), twin' \in {"IDLE", "EXECUTING", "ESTOP"},
         stopped' \in BOOLEAN,
         UNCHANGED <<moved, link, next_sequence, to_device, devices, requests,
                     disturbances>>,
         stopped' => /\ lifecycle'.estop_latched /\ twin' # "EXECUTING"
                     /\ \A i \in 1 .. Len(to_device) : to_device[i].kind # "motion",
         outcome = "report" => call[c].id \in moved,
         disturbances = 0 => /\ outcome # "failed"
                             /\ to_device = <<>> /\ to_host' = <<>> /\ devices = {}
  PROVE  Inv'
<1>1. OnLink'
  BY DEF Inv, OnLink
<1>2. /\ link' \in {"up", "down"} /\ next_sequence' \in Nat /\ requests' \in Nat
      /\ to_device' \in Seq(Frames) /\ devices' \subseteq Nat /\ IsFiniteSet(devices')
  BY DEF Inv, Typed
<1>3. stopped' => /\ lifecycle'.estop_latched /\ twin' # "EXECUTING"
                  /\ \A i \in 1 .. Len(to_device') : to_device'[i].kind # "motion"
  OBVIOUS
<1>4. disturbances' = 0 => /\ outcome # "failed"
                           /\ to_device' = <<>> /\ to_host' = <<>> /\ devices' = {}
  OBVIOUS
<1> QED
  BY <1>1, <1>2, <1>3, <1>4, AskerHoldsLock, EndKeeps

LEMMA ReadAnswerInv ==
  ASSUME Inv, NEW c \in Callers, ReadAnswer(c)
  PROVE  Inv'
<1> DEFINE answer == Head(to_host)
<1>1. /\ Asking(c) /\ to_host # <<>> /\ UNCHANGED disturbances
      /\ \/ /\ \/ ~Matches(answer, c)
               \/ answer.status = "OK" /\ call[c].asks = "heartbeat" /\ link = "down"
            /\ to_host' = Tail(to_host) /\ Fail(c, "failed")
         \/ /\ Matches(answer, c) /\ answer.status = "INVALID"
            /\ to_host' = Tail(to_host) /\ Fail(c, "refused")
         \/ /\ Matches(answer, c) /\ answer.status = "OK"
            /\ (AskMotion(c) \/ Settle(c) \/ LatchSupervisor(c))
  BY DEF ReadAnswer, Asking, counters
<1>2. /\ answer \in Answer /\ Tail(to_host) \in Seq(Answer) /\ answer = to_host[1]
      /\ Len(to_host) \in Nat \ {0} /\ Len(Tail(to_host)) = Len(to_host) - 1
  BY <1>1, TailIsRest DEF Inv, Typed
<1> HIDE DEF answer
<1>3. 1 \in 1 .. Len(to_host)
  BY <1>2
<1>4. disturbances = 0 => /\ link = "up" /\ Matches(answer, c)
                          /\ to_device = <<>> /\ devices = {} /\ Tail(to_host) = <<>>
  <2> SUFFICES ASSUME disturbances = 0
               PROVE  /\ link = "up" /\ Matches(answer, c)
                      /\ to_device = <<>> /\ devices = {} /\ Tail(to_host) = <<>>
    OBVIOUS
  <2>1. /\ link = "up" /\ to_device = <<>> /\ devices = {} /\ Len(to_host) = 1
        /\ to_host[1].sequence = call[c].sequence
    BY <1>1 DEF Inv, InStep
  <2>2. Len(Tail(to_host)) = 0
    BY <1>2, <2>1
  <2>3. Tail(to_host) = <<>>
    <3> DEFINE rest == Tail(to_host)
    <3>1. rest \in Seq(Answer) /\ Len(rest) = 0
      BY <1>2, <2>2
    <3> HIDE DEF rest
    <3>2. rest = <<>>
      BY <3>1
    <3> QED
      BY <3>2 DEF rest
  <2>4. Matches(answer, c)
    BY <1>2, <2>1 DEF Matches
  <2> QED
    BY <2>1, <2>3, <2>4
<1>5. LP!Consistent(lifecycle) /\ stopped \in BOOLEAN
      /\ twin \in {"IDLE", "EXECUTING", "ESTOP"}
  BY DEF Inv, Typed
<1>6. CASE /\ \/ ~Matches(answer, c)
              \/ answer.status = "OK" /\ call[c].asks = "heartbeat" /\ link = "down"
           /\ to_host' = Tail(to_host) /\ Fail(c, "failed")
  <2>1. disturbances' # 0
    BY <1>1, <1>4, <1>6
  <2>2. "failed" \in {"failed", "refused"}
    OBVIOUS
  <2> QED
    BY <1>1, <1>2, <1>6, <2>1, <2>2, FailInv
<1>7. CASE /\ Matches(answer, c) /\ answer.status = "INVALID"
           /\ to_host' = Tail(to_host) /\ Fail(c, "refused")
  <2>1. "refused" \in {"failed", "refused"} /\ "refused" # "failed"
    OBVIOUS
  <2> QED
    BY <1>1, <1>2, <1>4, <1>7, <2>1, FailInv
<1>8. CASE /\ Matches(answer, c) /\ answer.status = "OK"
           /\ (AskMotion(c) \/ Settle(c) \/ LatchSupervisor(c))
  <2>1. IsAnswered(c) /\ IsGranted(c)
    BY <1>2, <1>3, <1>8 DEF IsAnswered, IsGranted
  <2>2. /\ to_device = <<>>
        /\ call[c].asks = "estop" => twin # "EXECUTING"
        /\ call[c].asks = "motion" => call[c].id \in moved
    BY <1>1, <2>1 DEF Inv, AnswerIsTheLast
  <2>3. stopped => call[c].asks = "estop"
    BY <1>1 DEF Inv, StopHolds
  <2>4. "rejected" \in Outcomes /\ "report" \in Outcomes /\ "unsettled" \in Outcomes
        /\ "receipt" \in Outcomes
    BY DEF Outcomes
  <2>5. CASE AskMotion(c)
    <3>1. ~stopped /\ UNCHANGED <<lifecycle, stopped, twin, moved, disturbances>>
      BY <1>1, <2>3, <2>5 DEF AskMotion, safety, plant
    <3>2. CASE Ask(c, "motion", lock_queue, Tail(to_host))
      <4>1. "motion" \in {"heartbeat", "motion", "estop"}
        OBVIOUS
      <4> QED
        BY <1>1, <1>2, <1>4, <1>5, <3>1, <3>2, <4>1, AskerHoldsLock, AskInv
    <3>3. CASE /\ End(c, "rejected", lock_queue) /\ to_host' = Tail(to_host)
               /\ UNCHANGED <<link, next_sequence, to_device, devices, requests>>
      <4>1. "rejected" # "report" /\ "rejected" # "failed" /\ ~stopped'
        BY <3>1
      <4> QED
        BY <1>1, <1>2, <1>4, <1>5, <2>4, <3>1, <3>3, <4>1, AnsweredInv
    <3> QED
      BY <2>5, <3>2, <3>3 DEF AskMotion
  <2>6. CASE Settle(c)
    <3>1. /\ call[c].asks = "motion" /\ to_host' = Tail(to_host)
          /\ UNCHANGED <<lifecycle, stopped, moved, link, next_sequence, to_device,
                         devices, requests>>
      BY <2>6 DEF Settle, safety
    <3>2. ~stopped' /\ call[c].id \in moved /\ stopped' \in BOOLEAN
      BY <1>5, <2>2, <2>3, <3>1
    <3>3. CASE twin # "ESTOP" /\ twin' = "IDLE" /\ End(c, "report", lock_queue)
      <4>1. "report" # "failed" /\ twin' \in {"IDLE", "EXECUTING", "ESTOP"}
        BY <3>3
      <4> QED
        BY <1>1, <1>2, <1>4, <1>5, <2>4, <3>1, <3>2, <3>3, <4>1, AnsweredInv
    <3>4. CASE twin # "IDLE" /\ UNCHANGED twin /\ End(c, "unsettled", lock_queue)
      <4>1. /\ "unsettled" # "failed" /\ "unsettled" # "report"
            /\ twin' \in {"IDLE", "EXECUTING", "ESTOP"}
        BY <1>5, <3>4
      <4> QED
        BY <1>1, <1>2, <1>4, <1>5, <2>4, <3>1, <3>2, <3>4, <4>1, AnsweredInv
    <3> QED
      BY <2>6, <3>3, <3>4 DEF Settle
  <2>7. CASE LatchSupervisor(c)
    <3>1. /\ call[c].asks = "estop" /\ to_host' = Tail(to_host) /\ stopped' = TRUE
          /\ lifecycle' = Unnumbered(LC!AfterSoftwareEstop(lifecycle))
          /\ End(c, "receipt", lock_queue)
          /\ UNCHANGED <<twin, moved, link, next_sequence, to_device, devices, requests>>
      BY <2>7 DEF LatchSupervisor, plant
    <3>2. LP!Consistent(lifecycle') /\ lifecycle'.estop_latched
      BY <1>5, <3>1, StopLatches
    <3>3. Len(to_device) = 0 /\ twin' # "EXECUTING"
          /\ twin' \in {"IDLE", "EXECUTING", "ESTOP"} /\ stopped' \in BOOLEAN
      BY <1>5, <2>2, <3>1
    <3>4. \A i \in 1 .. Len(to_device) : to_device[i].kind # "motion"
      BY <3>3
    <3>5. "receipt" # "failed" /\ "receipt" # "report"
      OBVIOUS
    <3> QED
      BY <1>1, <1>2, <1>4, <2>4, <3>1, <3>2, <3>3, <3>4, <3>5, AnsweredInv
  <2> QED
    BY <1>8, <2>5, <2>6, <2>7
<1> QED
  BY <1>1, <1>6, <1>7, <1>8

LEMMA LinkLostInv ==
  ASSUME Inv, NEW c \in Callers, LinkLost(c)
  PROVE  Inv'
<1>1. /\ Asking(c) /\ link = "down" /\ Fail(c, "failed")
      /\ UNCHANGED <<to_host, disturbances>>
  BY DEF LinkLost, Asking, counters
<1>2. disturbances' # 0
  BY <1>1 DEF Inv, InStep
<1>3. to_host' \in Seq(Answer) /\ "failed" \in {"failed", "refused"}
  BY <1>1 DEF Inv, Typed
<1> QED
  BY <1>1, <1>2, <1>3, FailInv

LEMMA AnswerTimesOutInv ==
  ASSUME Inv, NEW c \in Callers, AnswerTimesOut(c)
  PROVE  Inv'
<1>1. /\ Asking(c) /\ Fail(c, "failed") /\ UNCHANGED to_host
      /\ disturbances' = disturbances + 1
  BY DEF AnswerTimesOut, Asking, Disturb
<1>2. disturbances' # 0
  BY <1>1 DEF Inv, Typed
<1>3. to_host' \in Seq(Answer) /\ "failed" \in {"failed", "refused"}
  BY <1>1 DEF Inv, Typed
<1> QED
  BY <1>1, <1>2, <1>3, FailInv

---------------------------------------------------------------------------
(* Disturbances, and the reset.                                            *)

LEMMA CancelInv ==
  ASSUME Inv, NEW c \in Callers, Cancel(c)
  PROVE  Inv'
<1> DEFINE rest == AtRest("cancelled", 0)
<1>1. /\ call' = [call EXCEPT ![c] = rest] /\ lock_queue' = RemoveFirst(lock_queue, c)
      /\ UNCHANGED <<lifecycle, stopped, twin, moved, link, next_sequence, to_device,
                     to_host, devices, requests>>
      /\ disturbances' = disturbances + 1
  BY DEF Cancel, Disturb, safety, plant, wires
<1>2. rest \in CallerStates /\ rest.pc = "idle" /\ rest.outcome = "cancelled"
  BY DEF AtRest, CallerStates, Outcomes
<1> HIDE DEF rest
<1>3. /\ call' \in [Callers -> CallerStates] /\ call'[c] = rest
      /\ \A u \in Callers \ {c} : call'[u] = call[u]
  BY <1>1, <1>2 DEF Inv, Typed
<1>4. /\ lock_queue' \in Seq(Callers)
      /\ lock_queue # <<>> /\ lock_queue[1] # c
           => lock_queue' # <<>> /\ lock_queue'[1] = lock_queue[1]
      /\ \A u : u # c /\ IsIn(u, lock_queue) => IsIn(u, lock_queue')
  <2> DEFINE r == RemoveFirst(lock_queue, c)
  <2>1. lock_queue \in Seq(Callers) /\ lock_queue' = r
    BY <1>1 DEF Inv, Typed
  <2>2. /\ r \in Seq(Callers)
        /\ lock_queue # <<>> /\ lock_queue[1] # c => r # <<>> /\ r[1] = lock_queue[1]
        /\ \A u : u # c /\ (\E i \in 1 .. Len(lock_queue) : lock_queue[i] = u)
                 => \E i \in 1 .. Len(r) : r[i] = u
    BY <2>1, RemoveFirstKeepsHead
  <2> HIDE DEF r
  <2> QED
    BY <2>1, <2>2 DEF IsIn
<1>5. disturbances' \in Nat /\ disturbances' # 0
  BY <1>1 DEF Inv, Typed
<1>6. \A u \in Callers : Asking(u)' <=> Asking(u) /\ u # c
  BY <1>2, <1>3 DEF Asking
<1>7. Typed'
  BY <1>1, <1>3, <1>4, <1>5 DEF Inv, Typed
<1>8. Locked'
  <2>1. ASSUME NEW u \in Callers, call'[u].pc = "queued"
        PROVE  call'[u].asks \in {"execute", "estop"} /\ IsIn(u, lock_queue')
    <3>1. u # c /\ call'[u] = call[u]
      BY <1>2, <1>3, <2>1
    <3> QED
      BY <1>4, <2>1, <3>1 DEF Inv, Locked
  <2>2. ASSUME NEW u \in Callers, Asking(u)'
        PROVE  /\ lock_queue' # <<>> /\ lock_queue'[1] = u
               /\ call'[u].asks \in {"heartbeat", "motion", "estop"}
               /\ call'[u].outcome = "none"
    <3>1. u # c /\ call'[u] = call[u] /\ Asking(u)
      BY <1>3, <1>6, <2>2
    <3> QED
      BY <1>4, <3>1 DEF Inv, Locked
  <2> QED
    BY <2>1, <2>2 DEF Locked
<1>9. OnLink'
  BY <1>1 DEF Inv, OnLink
<1>10. OwnFrameIsTheLast'
  BY <1>1, <1>3, <1>6 DEF Inv, OwnFrameIsTheLast
<1>11. AnswerIsTheLast'
  <2> SUFFICES ASSUME NEW u \in Callers, Asking(u)'
               PROVE  /\ IsAnswered(u)' => to_device' = <<>>
                      /\ IsAnswered(u)' /\ call'[u].asks = "estop" => twin' # "EXECUTING"
                      /\ IsGranted(u)' /\ call'[u].asks = "motion" => call'[u].id \in moved'
    BY DEF AnswerIsTheLast
  <2>1. Asking(u) /\ call'[u] = call[u]
    BY <1>3, <1>6
  <2>2. (IsAnswered(u)' <=> IsAnswered(u)) /\ (IsGranted(u)' <=> IsGranted(u))
    BY <1>1, <2>1 DEF IsAnswered, IsGranted, Matches
  <2> QED
    BY <1>1, <2>1, <2>2 DEF Inv, AnswerIsTheLast
<1>12. StopHolds'
  BY <1>1, <1>3, <1>6 DEF Inv, StopHolds
<1>13. ReportIsGenuine'
  BY <1>1, <1>2, <1>3 DEF Inv, ReportIsGenuine
<1>14. InStep'
  BY <1>5 DEF InStep
<1> QED
  BY <1>7, <1>8, <1>9, <1>10, <1>11, <1>12, <1>13, <1>14 DEF Inv

LEMMA CloseInv ==
  ASSUME Inv, Close
  PROVE  Inv'
<1>1. /\ link' = "down" /\ to_device' = <<>> /\ devices' = {}
      /\ disturbances' = disturbances + 1
      /\ UNCHANGED <<lifecycle, stopped, lock_queue, call, next_sequence, to_host,
                     requests>>
  BY DEF Close, Disturb, safety
<1>2. disturbances' \in Nat /\ disturbances' # 0
  BY <1>1 DEF Inv, Typed
<1>3. /\ twin' \in {"IDLE", "EXECUTING", "ESTOP"} /\ moved' \subseteq Nat
      /\ moved \subseteq moved'
      /\ to_device = <<>> => twin' = twin
      /\ (\A i \in 1 .. Len(to_device) : to_device[i].kind # "motion")
           /\ twin # "EXECUTING" => twin' # "EXECUTING"
  <2>1. CASE UNCHANGED plant
    BY <2>1 DEF plant, Inv, Typed
  <2>2. CASE to_device # <<>> /\ Dispatch(Head(to_device), "OK")
    <3>1. /\ Head(to_device) \in Frames /\ Head(to_device) = to_device[1]
          /\ Len(to_device) \in Nat \ {0}
      BY <2>2, TailIsRest DEF Inv, Typed
    <3>2. 1 \in 1 .. Len(to_device) /\ "OK" \in {"OK", "INVALID"}
      BY <3>1
    <3>3. /\ twin' \in {"IDLE", "EXECUTING", "ESTOP"}
          /\ moved' \subseteq Nat /\ moved \subseteq moved'
          /\ Head(to_device).kind # "motion" /\ twin # "EXECUTING" => twin' # "EXECUTING"
      BY <2>2, <3>1, <3>2, DispatchEffect DEF Inv
    <3> QED
      BY <2>2, <3>1, <3>2, <3>3
  <2> QED
    BY <2>1, <2>2 DEF Close
<1>4. IsFiniteSet(devices') /\ Cardinality(devices') = 0
  BY <1>1, FS_EmptySet
<1>5. to_device' \in Seq(Frames) /\ Len(to_device') = 0
  BY <1>1
<1>6. Typed'
  BY <1>1, <1>2, <1>3, <1>4, <1>5 DEF Inv, Typed
<1>7. Locked'
  BY <1>1 DEF Inv, Locked, Asking
<1>8. OnLink'
  BY <1>1, <1>4, <1>5 DEF OnLink
<1>9. OwnFrameIsTheLast'
  BY <1>5 DEF OwnFrameIsTheLast
<1>10. AnswerIsTheLast'
  <2> SUFFICES ASSUME NEW u \in Callers, Asking(u)
               PROVE  /\ IsAnswered(u)' => to_device' = <<>>
                      /\ IsAnswered(u)' /\ call[u].asks = "estop" => twin' # "EXECUTING"
                      /\ IsGranted(u)' /\ call[u].asks = "motion" => call[u].id \in moved'
    BY <1>1 DEF AnswerIsTheLast, Asking
  <2>1. (IsAnswered(u)' <=> IsAnswered(u)) /\ (IsGranted(u)' <=> IsGranted(u))
    BY <1>1 DEF IsAnswered, IsGranted, Matches
  <2> QED
    BY <1>1, <1>3, <2>1 DEF Inv, AnswerIsTheLast
<1>11. StopHolds'
  BY <1>1, <1>3, <1>5 DEF Inv, StopHolds, Asking
<1>12. ReportIsGenuine'
  BY <1>1, <1>3 DEF Inv, ReportIsGenuine
<1>13. InStep'
  BY <1>2 DEF InStep
<1> QED
  BY <1>6, <1>7, <1>8, <1>9, <1>10, <1>11, <1>12, <1>13 DEF Inv

\* The supervisor and the twin may change, if the stop's promise is kept.
LEMMA SettledInv ==
  ASSUME Inv, LP!Consistent(lifecycle'), twin' \in {twin, "IDLE"},
         stopped' \in BOOLEAN,
         stopped' => stopped /\ UNCHANGED <<lifecycle, twin>>,
         UNCHANGED <<moved, lock_queue, call, link, next_sequence, to_device, to_host,
                     devices, requests, disturbances>>
  PROVE  Inv'
<1>1. Typed'
  BY DEF Inv, Typed
<1>2. Locked'
  BY DEF Inv, Locked, Asking
<1>3. OnLink'
  BY DEF Inv, OnLink
<1>4. OwnFrameIsTheLast'
  BY DEF Inv, OwnFrameIsTheLast, Asking
<1>5. AnswerIsTheLast'
  <2> SUFFICES ASSUME NEW u \in Callers, Asking(u)
               PROVE  /\ IsAnswered(u)' => to_device' = <<>>
                      /\ IsAnswered(u)' /\ call[u].asks = "estop" => twin' # "EXECUTING"
                      /\ IsGranted(u)' /\ call[u].asks = "motion" => call[u].id \in moved'
    BY DEF AnswerIsTheLast, Asking
  <2>1. (IsAnswered(u)' <=> IsAnswered(u)) /\ (IsGranted(u)' <=> IsGranted(u))
    BY DEF IsAnswered, IsGranted, Matches
  <2> QED
    BY <2>1 DEF Inv, AnswerIsTheLast
<1>6. StopHolds'
  BY DEF Inv, StopHolds, Asking
<1>7. ReportIsGenuine'
  BY DEF Inv, ReportIsGenuine
<1>8. InStep'
  BY DEF Inv, InStep, Asking
<1> QED
  BY <1>1, <1>2, <1>3, <1>4, <1>5, <1>6, <1>7, <1>8 DEF Inv

LEMMA ResetInv ==
  ASSUME Inv, Reset
  PROVE  Inv'
<1>1. UNCHANGED <<moved, lock_queue, call, link, next_sequence, to_device, to_host,
                  devices, requests, disturbances>>
  BY DEF Reset, wires, counters
<1>2. LP!Consistent(lifecycle) /\ stopped \in BOOLEAN
  BY DEF Inv, Typed
<1>3. CASE UNCHANGED <<lifecycle, twin, stopped>>
  BY <1>1, <1>2, <1>3, SettledInv
<1>4. CASE /\ twin' = "IDLE" /\ stopped' = FALSE
           /\ lifecycle' = Unnumbered(LC!AfterManualReset(LC!AfterHeartbeatAge(lifecycle, 0)))
  BY <1>1, <1>2, <1>4, ResetConsistent, SettledInv
<1> QED
  BY <1>3, <1>4 DEF Reset

LEMMA StutterInv ==
  ASSUME Inv, UNCHANGED vars
  PROVE  Inv'
<1>1. UNCHANGED <<moved, lock_queue, call, link, next_sequence, to_device, to_host,
                  devices, requests, disturbances>>
      /\ UNCHANGED <<lifecycle, stopped, twin>>
  BY DEF vars, safety, plant, wires, counters
<1> QED
  BY <1>1, SettledInv DEF Inv, Typed

LEMMA InitInv ==
  ASSUME Init
  PROVE  Inv
<1> DEFINE rest == AtRest("none", 0)
           armed == LP!AfterArm(LP!InitialSnapshot)
<1>1. rest \in CallerStates /\ rest.pc = "idle" /\ rest.outcome = "none"
  BY DEF AtRest, CallerStates, Outcomes
<1> HIDE DEF rest
<1>2. call = [u \in Callers |-> rest] /\ lifecycle = Unnumbered(armed)
  BY SameController DEF Init, rest
<1>3. LP!Consistent(armed)
  BY ControllerAssumption, LP!InitConsistent, LP!ArmConsistent
<1> HIDE DEF armed
<1>4. LP!Consistent(lifecycle)
  BY <1>2, <1>3, UnnumberedConsistent
<1>5. call \in [Callers -> CallerStates] /\ \A u \in Callers : call[u] = rest
  BY <1>1, <1>2
<1>6. \A u \in Callers : ~Asking(u)
  BY <1>1, <1>5 DEF Asking
<1>7. /\ IsFiniteSet(devices) /\ Cardinality(devices) = 0
      /\ to_device = <<>> /\ to_host = <<>> /\ devices = {} /\ lock_queue = <<>>
  BY FS_EmptySet DEF Init
<1>8. \A S : <<>> \in Seq(S)
  OBVIOUS
<1>9. Len(to_device) = 0
  BY <1>7
<1>10. Typed
  BY <1>4, <1>5, <1>7, <1>8 DEF Init, Typed
<1>11. Locked
  BY <1>1, <1>5, <1>6 DEF Locked
<1>12. OnLink
  BY <1>7, <1>9 DEF OnLink
<1>13. OwnFrameIsTheLast /\ AnswerIsTheLast
  BY <1>6 DEF OwnFrameIsTheLast, AnswerIsTheLast
<1>14. StopHolds
  BY DEF Init, StopHolds
<1>15. ReportIsGenuine
  BY <1>1, <1>5 DEF ReportIsGenuine
<1>16. InStep
  BY <1>1, <1>5, <1>6, <1>7 DEF InStep
<1> QED
  BY <1>10, <1>11, <1>12, <1>13, <1>14, <1>15, <1>16 DEF Inv

LEMMA NextInv ==
  ASSUME Inv, Next
  PROVE  Inv'
<1>1. ASSUME NEW c \in Callers, NEW operation \in {"execute", "estop"}, Call(c, operation)
      PROVE  Inv'
  BY <1>1, CallInv
<1>2. ASSUME NEW c \in Callers,
             \/ ObtainLock(c) \/ ReadAnswer(c) \/ LinkLost(c)
             \/ AnswerTimesOut(c) \/ Cancel(c)
      PROVE  Inv'
  BY <1>2, ObtainLockInv, ReadAnswerInv, LinkLostInv, AnswerTimesOutInv, CancelInv
<1>3. ASSUME NEW d \in devices, Serve(d) PROVE Inv'
  BY <1>3, ServeInv
<1> QED
  BY <1>1, <1>2, <1>3, CloseInv, ResetInv DEF Next

---------------------------------------------------------------------------
(* Theorems.                                                               *)

\* The runtime keeps its invariant: who holds the lock, what is on the wires, and
\* what an answer still tells about the twin, after any history of calls,
\* cancellations, timeouts, closes and resets.
THEOREM RuntimeKeepsOrder == Spec => []Inv
<1>1. Inv /\ [Next]_vars => Inv'
  BY NextInv, StutterInv
<1> QED
  BY <1>1, InitInv, PTL DEF Spec

\* From the receipt of emergency_stop() until reset_estop(), the supervisor is
\* latched and the twin does not move, for any number of concurrent HTTP requests and
\* wherever one of them was cancelled.
THEOREM StopsHold == Spec => []StoppedMeansStill
<1>1. Inv => StoppedMeansStill
  BY DEF Inv, StopHolds, StoppedMeansStill
<1> QED
  BY <1>1, RuntimeKeepsOrder, PTL

\* execute_behavior() reports an execution only if the twin accepted that request's
\* own motion; an answer to another one, left in the link by a caller that went away,
\* is never taken for it.
THEOREM ReportsAreGenuine == Spec => []ReportIsGenuine
<1>1. Inv => ReportIsGenuine
  BY DEF Inv
<1> QED
  BY <1>1, RuntimeKeepsOrder, PTL

\* Requests, answers and device tasks stay in step: undisturbed, no request fails for
\* want of its answer; and when an answer is there the device task that the request
\* is about to wait for has ended.
THEOREM RequestsKeepStep == Spec => []RequestsStayInStep
<1>1. Inv => TypeOK
  <2>1. \A s : LP!Consistent(s) => s \in LC!Snapshots
    BY SameController DEF LP!Consistent
  <2> QED
    BY <2>1 DEF Inv, Typed, TypeOK, CallerStates, Answer
<1>2. Inv => UndisturbedRequestsSucceed
  BY DEF Inv, InStep, UndisturbedRequestsSucceed
<1>3. ASSUME Inv, NEW c \in Callers, Asking(c), to_host # <<>>,
             Head(to_host).sequence = call[c].sequence
      PROVE  devices = {}
  <2>1. /\ Len(to_host) \in Nat \ {0} /\ Head(to_host) = to_host[1]
    BY <1>3, TailIsRest DEF Inv, Typed
  <2>2. 1 \in 1 .. Len(to_host)
    BY <2>1
  <2>3. IsAnswered(c)
    BY <1>3, <2>1, <2>2 DEF IsAnswered, Matches
  <2>4. to_device = <<>>
    BY <1>3, <2>3 DEF Inv, AnswerIsTheLast
  <2>5. IsFiniteSet(devices) /\ Cardinality(devices) \in Nat
    BY <1>3, FS_CardinalityType DEF Inv, Typed
  <2>6. Cardinality(devices) = 0
    BY <1>3, <2>4, <2>5 DEF Inv, OnLink
  <2> QED
    BY <2>5, <2>6, FS_EmptySet
<1>4. Inv => ReceiptFindsDeviceDone
  BY <1>3 DEF ReceiptFindsDeviceDone, Asking
<1>5. Inv => RequestsStayInStep
  BY <1>1, <1>2, <1>4 DEF RequestsStayInStep
<1> QED
  BY <1>5, RuntimeKeepsOrder, PTL

===========================================================================
