------------------------ MODULE Codec8Parser_proofs ------------------------
(***************************************************************************)
(* Theorems about the parser, for every buffer and every packet: where its *)
(* cursor is, what it makes of a read that ends before the records, and    *)
(* what becomes of the fields of a point between the encoder and the row.  *)
(***************************************************************************)
EXTENDS Codec8Parser, SequenceTheorems, FiniteSetTheorems, WellFoundedInduction, TLAPS

(* Sequences of bytes: what the encoder appends, and how to index it.      *)

(* What is appended comes after what was there.                            *)
LEMMA Concat ==
  ASSUME NEW S, NEW s \in Seq(S), NEW t \in Seq(S)
  PROVE  /\ s \o t \in Seq(S) /\ Len(s \o t) = Len(s) + Len(t)
         /\ \A i \in 1..Len(s) : (s \o t)[i] = s[i]
         /\ \A i \in 1..Len(t) : (s \o t)[Len(s) + i] = t[i]
<1>1. s \o t \in Seq(S) /\ Len(s \o t) = Len(s) + Len(t)
  BY ConcatProperties
<1>2. Len(s) \in Nat /\ Len(t) \in Nat
  OBVIOUS
<1> QED BY <1>1, <1>2, ConcatProperties

(* A byte is a number below 256.                                           *)
LEMMA Octets == \A b : b \in Bytes <=> b \in Int /\ 0 <= b /\ b < 256
BY DEF Bytes

(* Zeros are bytes.                                                        *)
LEMMA ZerosBytes ==
  ASSUME NEW n \in Nat
  PROVE  /\ Zeros(n) \in Seq(Bytes) /\ Len(Zeros(n)) = n
         /\ \A i \in 1..n : Zeros(n)[i] = 0
<1>1. 0 \in Bytes
  BY Octets
<1> QED BY <1>1 DEF Zeros

(* The two bytes of a number, the higher first ...                         *)
LEMMA Uint16Bytes ==
  ASSUME NEW x \in Int
  PROVE  /\ AppendUint16(x) \in Seq(Bytes) /\ Len(AppendUint16(x)) = 2
         /\ AppendUint16(x)[1] = (x \div 256) % 256 /\ AppendUint16(x)[2] = x % 256
<1>1. (x \div 256) % 256 \in Bytes /\ x % 256 \in Bytes
  <2>1. x \div 256 \in Int
    BY Z3
  <2>2. \A y \in Int : y % 256 \in Int /\ 0 <= y % 256 /\ y % 256 < 256
    BY Z3
  <2> QED BY <2>1, <2>2, Octets
<1> QED BY <1>1 DEF AppendUint16

(* ... and the four bytes of one.                                          *)
LEMMA Uint32Bytes ==
  ASSUME NEW x \in Int
  PROVE  /\ AppendUint32(x) \in Seq(Bytes) /\ Len(AppendUint32(x)) = 4
         /\ AppendUint32(x)[1] = (((x \div 65536) % 65536) \div 256) % 256
         /\ AppendUint32(x)[2] = ((x \div 65536) % 65536) % 256
         /\ AppendUint32(x)[3] = ((x % 65536) \div 256) % 256
         /\ AppendUint32(x)[4] = (x % 65536) % 256
<1> DEFINE hi == AppendUint16((x \div 65536) % 65536)
           lo == AppendUint16(x % 65536)
<1>1. (x \div 65536) % 65536 \in Int /\ x % 65536 \in Int
  BY Z3
<1>2. /\ hi \in Seq(Bytes) /\ Len(hi) = 2 /\ lo \in Seq(Bytes) /\ Len(lo) = 2
      /\ hi[1] = (((x \div 65536) % 65536) \div 256) % 256
      /\ hi[2] = ((x \div 65536) % 65536) % 256
      /\ lo[1] = ((x % 65536) \div 256) % 256 /\ lo[2] = (x % 65536) % 256
  BY <1>1, Uint16Bytes
<1>3. AppendUint32(x) = hi \o lo
  BY DEF AppendUint32
<1> HIDE DEF hi, lo
<1>4. /\ hi \o lo \in Seq(Bytes) /\ Len(hi \o lo) = 4
      /\ (hi \o lo)[1] = hi[1] /\ (hi \o lo)[2] = hi[2]
      /\ (hi \o lo)[3] = lo[1] /\ (hi \o lo)[4] = lo[2]
  <2>1. /\ hi \o lo \in Seq(Bytes) /\ Len(hi \o lo) = Len(hi) + Len(lo)
        /\ \A i \in 1..Len(hi) : (hi \o lo)[i] = hi[i]
        /\ \A i \in 1..Len(lo) : (hi \o lo)[Len(hi) + i] = lo[i]
    <3>1. hi \in Seq(Bytes) /\ lo \in Seq(Bytes)
      BY <1>2
    <3> QED BY <3>1, Concat
  <2> QED BY <1>2, <2>1
<1> QED BY <1>2, <1>3, <1>4

-----------------------------------------------------------------------------
(* What is read back of a number that was appended.                        *)

(* x agrees with y modulo 2^16, and the two bytes of x spell it.           *)
LEMMA TwoBytes ==
  ASSUME NEW x \in Int
  PROVE  /\ (((x \div 256) % 256) * 256) + (x % 256) = x % 65536
         /\ x % 65536 \in Int /\ 0 <= x % 65536 /\ x % 65536 < 65536
         /\ ((x % 65536) < 32768) <=> (((x \div 256) % 256) < 128)
BY Z3

(* Two bytes read give the number modulo 2^16 ...                          *)
LEMMA Uint16Back ==
  ASSUME NEW x \in Int
  PROVE  Uint16(AppendUint16(x)) = x % 65536
<1>1. /\ AppendUint16(x)[1] = (x \div 256) % 256 /\ AppendUint16(x)[2] = x % 256
  BY Uint16Bytes
<1> QED BY <1>1, TwoBytes DEF Uint16

(* ... and four give a signed number back, negative ones too.              *)
Int32s == {x \in Int : -(32768 * 65536) <= x /\ x < 32768 * 65536}

(* The parser's conversion to int32 undoes the encoder's to uint32.        *)
LEMMA Int32Back ==
  ASSUME NEW x \in Int32s
  PROVE  Int32(AppendUint32(x)) = x
<1> DEFINE hi == (x \div 65536) % 65536
           lo == x % 65536
           b == AppendUint32(x)
<1>1. x \in Int /\ -2147483648 <= x /\ x < 2147483648
  BY DEF Int32s
<1>2. /\ b[1] = (hi \div 256) % 256 /\ b[2] = hi % 256
      /\ b[3] = (lo \div 256) % 256 /\ b[4] = lo % 256
  BY <1>1, Uint32Bytes
<1>3. /\ hi \in Int /\ 0 <= hi /\ hi < 65536 /\ lo \in Int /\ 0 <= lo /\ lo < 65536
      /\ hi < 32768 => x = (hi * 65536) + lo
      /\ ~(hi < 32768) => x = ((hi - 65536) * 65536) + lo
  BY <1>1, Z3
<1> HIDE DEF hi, lo, b
<1>4. /\ b[1] \in Int /\ b[2] \in Int /\ b[3] \in Int /\ b[4] \in Int
      /\ (b[1] * 256) + b[2] = hi /\ (b[3] * 256) + b[4] = lo
      /\ (hi < 32768) <=> (b[1] < 128)
  <2>1. /\ ((hi \div 256) % 256) * 256 + (hi % 256) = hi
        /\ ((lo \div 256) % 256) * 256 + (lo % 256) = lo
        /\ (hi \div 256) % 256 \in Int /\ hi % 256 \in Int
        /\ (lo \div 256) % 256 \in Int /\ lo % 256 \in Int
        /\ (hi < 32768) <=> (((hi \div 256) % 256) < 128)
    BY <1>3, Z3
  <2> QED BY <1>2, <2>1
<1>5. Int32(b) = x
  <2>1. CASE b[1] < 128
    BY <1>3, <1>4, <2>1, Z3 DEF Int32
  <2>2. CASE ~(b[1] < 128)
    BY <1>3, <1>4, <2>2, Z3 DEF Int32
  <2> QED BY <2>1, <2>2
<1> QED BY <1>5 DEF b

-----------------------------------------------------------------------------
(* Sequences of sequences, flattened.                                      *)

(* Induction, from the well-foundedness of the naturals: a set of them has *)
(* a least member.                                                         *)
LEMMA Least ==
  ASSUME NEW T \in SUBSET Nat, T # {}
  PROVE  \E n \in T : \A m \in T : n <= m
<1> DEFINE R == OpToRel(<, Nat)
<1>1. IsWellFoundedOn(R, Nat)
  BY NatLessThanWellFounded
<1>2. \A m, n \in Nat : ~(n <= m) => <<m, n>> \in R
  BY DEF OpToRel
<1> HIDE DEF R
<1>3. PICK x \in T : \A y \in T : ~ (<<y, x>> \in R)
  BY <1>1, WFMin
<1>4. \A y \in T : x <= y
  <2> SUFFICES ASSUME NEW y \in T PROVE x <= y
    OBVIOUS
  <2>1. x \in Nat /\ y \in Nat
    OBVIOUS
  <2> QED BY <1>2, <1>3, <2>1
<1> QED BY <1>4

(* What holds of 0, and of n + 1 when it holds of n, holds of every        *)
(* number: stated of a set, since no prover here instantiates an operator. *)
LEMMA Induction ==
  ASSUME NEW G, 0 \in G, \A n \in Nat : n \in G => n + 1 \in G
  PROVE  \A n \in Nat : n \in G
<1> SUFFICES ASSUME NEW a \in Nat, a \notin G PROVE FALSE
  OBVIOUS
<1> DEFINE T == Nat \ G
<1>1. PICK n \in T : \A m \in T : n <= m
  BY Least
<1>2. n \in Nat /\ n # 0
  OBVIOUS
<1>3. n - 1 \in Nat /\ ~(n <= n - 1)
  BY <1>2
<1>4. n - 1 \in G
  BY <1>1, <1>3
<1>5. (n - 1) + 1 = n
  BY <1>2
<1> QED BY <1>3, <1>4, <1>5

(* f[i] is the first i of the sequences, one after the other.              *)
Flattens(f, S, seqs, n) ==
  /\ f \in [0..n -> Seq(S)]
  /\ f[0] = <<>>
  /\ \A i \in 1..n : f[i] = f[i - 1] \o seqs[i]

(* There is such a function for every sequence of sequences.               *)
LEMMA JoinedExists ==
  ASSUME NEW S, NEW seqs \in Seq(Seq(S))
  PROVE  \E f : Flattens(f, S, seqs, Len(seqs))
<1> DEFINE G == {n \in Nat : n <= Len(seqs) => \E f : Flattens(f, S, seqs, n)}
<1>0. Len(seqs) \in Nat
  OBVIOUS
<1>1. 0 \in G
  <2> DEFINE f == [i \in 0..0 |-> <<>>]
  <2>1. <<>> \in Seq(S) /\ 0 \in 0..0 /\ ~(\E i \in 1..0 : TRUE)
    OBVIOUS
  <2>2. Flattens(f, S, seqs, 0)
    BY <2>1 DEF Flattens
  <2> QED BY <2>2
<1>2. ASSUME NEW n \in Nat, n \in G PROVE n + 1 \in G
  <2> SUFFICES ASSUME n + 1 <= Len(seqs) PROVE \E f : Flattens(f, S, seqs, n + 1)
    BY <1>2
  <2>1. n <= Len(seqs) /\ n + 1 \in 1..Len(seqs)
    BY <1>0
  <2>2. PICK f : Flattens(f, S, seqs, n)
    BY <1>2, <2>1
  <2> DEFINE next == f[n] \o seqs[n + 1]
             g == [i \in 0..(n + 1) |-> IF i = n + 1 THEN next ELSE f[i]]
  <2>3. seqs[n + 1] \in Seq(S) /\ f[n] \in Seq(S)
    BY <2>1, <2>2 DEF Flattens
  <2>4. next \in Seq(S)
    BY <2>3, ConcatProperties
  <2>5. g \in [0..(n + 1) -> Seq(S)]
    <3> HIDE DEF next
    <3>1. \A i \in 0..(n + 1) : i # n + 1 => f[i] \in Seq(S)
      BY <2>2 DEF Flattens
    <3> QED BY <2>4, <3>1
  <2>6. g[0] = <<>> /\ g[n + 1] = next /\ \A i \in 0..n : g[i] = f[i]
    <3> HIDE DEF next
    <3> QED BY <2>2 DEF Flattens
  <2>7. \A i \in 1..(n + 1) : g[i] = g[i - 1] \o seqs[i]
    <3> TAKE i \in 1..(n + 1)
    <3> HIDE DEF g
    <3>0. i = n + 1 \/ i \in 1..n
      OBVIOUS
    <3>1. CASE i = n + 1
      <4>1. i - 1 = n /\ n \in 0..n
        BY <3>1
      <4>2. g[i - 1] = f[n]
        BY <2>6, <4>1
      <4> QED BY <2>6, <3>1, <4>2
    <3>2. CASE i \in 1..n
      <4>1. i \in 0..n /\ i - 1 \in 0..n
        BY <3>2
      <4>2. g[i] = f[i] /\ g[i - 1] = f[i - 1]
        BY <2>6, <4>1
      <4>3. f[i] = f[i - 1] \o seqs[i]
        BY <2>2, <3>2 DEF Flattens
      <4> QED BY <4>2, <4>3
    <3> QED BY <3>0, <3>1, <3>2
  <2> QED BY <2>5, <2>6, <2>7 DEF Flattens
<1> HIDE DEF G
<1>3. Len(seqs) \in G
  BY <1>0, <1>1, <1>2, Induction
<1> QED BY <1>3 DEF G

(* FlattenSeq, which is a recursive function of the library, is its last   *)
(* value.                                                                  *)
LEMMA FlattenSeqIs ==
  ASSUME NEW S, NEW seqs \in Seq(Seq(S)), NEW f, Flattens(f, S, seqs, Len(seqs))
  PROVE  FlattenSeq(seqs) = f[Len(seqs)]
<1> DEFINE n == Len(seqs)
           Def(g) == [i \in 1..n |-> IF i = 1 THEN seqs[i] ELSE g[i - 1] \o seqs[i]]
           h == [i \in 1..n |-> f[i]]
           F == CHOOSE g : g = Def(g)
<1>0. n \in Nat
  OBVIOUS
<1>1. CASE n = 0
  <2>1. seqs = <<>>
    BY <1>1
  <2>2. FlattenSeq(seqs) = seqs
    BY <1>1 DEF FlattenSeq
  <2> QED BY <1>1, <2>1, <2>2 DEF Flattens
<1>2. CASE n > 0
  <2>1. h = Def(h)
    <3>1. \A i \in 1..n : h[i] = Def(h)[i]
      <4> TAKE i \in 1..n
      <4>1. seqs[i] \in Seq(S) /\ f[i] = f[i - 1] \o seqs[i]
        BY DEF Flattens
      <4>2. CASE i = 1
        <5>1. i - 1 = 0 /\ f[0] = <<>>
          BY <4>2 DEF Flattens
        <5>2. <<>> \o seqs[i] = seqs[i]
          BY <4>1, ConcatEmptySeq
        <5>3. h[i] = seqs[i]
          BY <4>1, <5>1, <5>2
        <5> QED BY <4>2, <5>3
      <4>3. CASE i # 1
        <5>1. i - 1 \in 1..n
          BY <4>3
        <5> QED BY <4>1, <4>3, <5>1
      <4> QED BY <4>2, <4>3
    <3> HIDE DEF n
    <3> QED BY <3>1
  <2>2. F = Def(F)
    <3> HIDE DEF Def, h
    <3> QED BY <2>1
  <2>3. \A i \in 1..n : F[i] = f[i]
    <3> DEFINE G == {i \in Nat : i + 1 <= n => F[i + 1] = f[i + 1]}
    <3> HIDE DEF F, n
    <3>1. 0 \in G
      <4>1. 1 \in 1..n /\ seqs[1] \in Seq(S)
        BY <1>0, <1>2 DEF n
      <4>2. F[1] = seqs[1]
        BY <2>2, <4>1
      <4>3. f[1] = <<>> \o seqs[1]
        <5>1. f[1] = f[1 - 1] \o seqs[1] /\ f[0] = <<>>
          BY <4>1 DEF Flattens, n
        <5>2. 1 - 1 = 0
          OBVIOUS
        <5> QED BY <5>1, <5>2, Zenon
      <4>4. <<>> \o seqs[1] = seqs[1]
        BY <4>1, ConcatEmptySeq
      <4>5. f[1] = seqs[1]
        BY <4>3, <4>4
      <4> QED BY <4>2, <4>5
    <3>2. ASSUME NEW i \in Nat, i \in G PROVE i + 1 \in G
      <4> SUFFICES ASSUME i + 2 <= n PROVE F[i + 2] = f[i + 2]
        BY <1>0
      <4>1. i + 2 \in 1..n /\ i + 1 <= n /\ i + 2 # 1 /\ (i + 2) - 1 = i + 1
        BY <1>0
      <4>2. F[i + 2] = F[i + 1] \o seqs[i + 2]
        BY <2>2, <4>1
      <4>3. f[i + 2] = f[i + 1] \o seqs[i + 2]
        BY <4>1 DEF Flattens, n
      <4> QED BY <3>2, <4>1, <4>2, <4>3
    <3> HIDE DEF G
    <3>3. \A i \in Nat : i \in G
      BY <3>1, <3>2, Induction
    <3> SUFFICES ASSUME NEW i \in 1..n PROVE F[i] = f[i]
      OBVIOUS
    <3>4. i - 1 \in Nat /\ (i - 1) + 1 = i /\ i <= n
      BY <1>0
    <3> QED BY <3>3, <3>4 DEF G
  <2>4. FlattenSeq(seqs) = F[n]
    BY <1>2 DEF FlattenSeq
  <2> HIDE DEF F
  <2> QED BY <1>0, <1>2, <2>3, <2>4
<1> QED BY <1>0, <1>1, <1>2

-----------------------------------------------------------------------------
(* A sequence that spells another from a place on.                         *)

(* s is written in b, from the place o on.                                 *)
Spells(b, o, s) ==
  o \in Nat /\ o + Len(s) <= Len(b) /\ \A j \in 1..Len(s) : b[o + j] = s[j]

(* What is spelled within what is spelled, is spelled.                     *)
LEMMA SpellsWithin ==
  ASSUME NEW S, NEW b \in Seq(S), NEW s \in Seq(S), NEW t \in Seq(S), NEW o, NEW i,
         Spells(b, o, s), Spells(s, i, t)
  PROVE  Spells(b, o + i, t)
<1>1. /\ o \in Nat /\ i \in Nat /\ o + Len(s) <= Len(b) /\ i + Len(t) <= Len(s)
      /\ Len(b) \in Nat /\ Len(s) \in Nat /\ Len(t) \in Nat
  BY DEF Spells
<1>2. o + i \in Nat /\ (o + i) + Len(t) <= Len(b)
  BY <1>1
<1>3. ASSUME NEW j \in 1..Len(t) PROVE b[(o + i) + j] = t[j]
  <2>1. i + j \in 1..Len(s) /\ (o + i) + j = o + (i + j)
    BY <1>1
  <2>2. b[o + (i + j)] = s[i + j] /\ s[i + j] = t[j]
    BY <2>1 DEF Spells
  <2> QED BY <2>1, <2>2
<1> QED BY <1>2, <1>3 DEF Spells

(* Two sequences are spelled one after the other.                          *)
LEMMA SpellsConcat ==
  ASSUME NEW S, NEW s \in Seq(S), NEW t \in Seq(S)
  PROVE  /\ s \o t \in Seq(S) /\ Len(s \o t) = Len(s) + Len(t)
         /\ Spells(s \o t, 0, s) /\ Spells(s \o t, Len(s), t)
<1> DEFINE c == s \o t
<1>1. /\ c \in Seq(S) /\ Len(c) = Len(s) + Len(t)
      /\ \A i \in 1..Len(s) : c[i] = s[i]
      /\ \A i \in 1..Len(t) : c[Len(s) + i] = t[i]
  BY Concat
<1>2. Len(s) \in Nat /\ Len(t) \in Nat
  OBVIOUS
<1> HIDE DEF c
<1>3. Spells(c, 0, s) /\ Spells(c, Len(s), t)
  BY <1>1, <1>2 DEF Spells
<1> QED BY <1>1, <1>3 DEF c

(* A sequence spells itself.                                               *)
LEMMA SpellsAll ==
  ASSUME NEW S, NEW s \in Seq(S)
  PROVE  Spells(s, 0, s)
<1>1. Len(s) \in Nat
  OBVIOUS
<1> QED BY <1>1 DEF Spells

(* What is spelled is what is read.                                        *)
LEMMA SpellsSubSeq ==
  ASSUME NEW S, NEW b \in Seq(S), NEW s \in Seq(S), NEW o, Spells(b, o, s)
  PROVE  SubSeq(b, o + 1, o + Len(s)) = s
<1>1. o \in Nat /\ Len(s) \in Nat /\ o + Len(s) <= Len(b)
  BY DEF Spells
<1> DEFINE m == o + 1
           n == o + Len(s)
           r == SubSeq(b, m, n)
<1>2. /\ Len(r) = Len(s)
      /\ \A j \in 1..Len(s) : r[j] = b[o + j]
      /\ r \in Seq(S)
  <2>1. /\ r = [j \in 1..Len(s) |-> b[o + j]]
    BY <1>1
  <2>2. \A j \in 1..Len(s) : b[o + j] \in S
    BY <1>1
  <2> HIDE DEF r
  <2> QED BY <1>1, <2>1, <2>2
<1>3. \A j \in 1..Len(s) : b[o + j] = s[j]
  BY DEF Spells
<1> HIDE DEF r
<1>4. r = s
  BY <1>1, <1>2, <1>3
<1> QED BY <1>4 DEF r

(* The beginnings of a sequence of sequences that is flattened: of none of *)
(* them, of the first one, of the first two, and so on.                    *)
Joined(S, seqs) == CHOOSE f : Flattens(f, S, seqs, Len(seqs))

(* Flattened, each of them is where those before it end.                   *)
LEMMA JoinedSpell ==
  ASSUME NEW S, NEW seqs \in Seq(Seq(S))
  PROVE  LET f == Joined(S, seqs)
         IN /\ f[0] = <<>>
            /\ \A i \in 0..Len(seqs) :
                 f[i] \in Seq(S) /\ Len(f[i]) \in Nat /\ Len(f[i]) <= Len(f[Len(seqs)])
            /\ \A i \in 1..Len(seqs) : /\ f[i] = f[i - 1] \o seqs[i]
                                       /\ Len(f[i]) = Len(f[i - 1]) + Len(seqs[i])
                                       /\ Spells(f[Len(seqs)], Len(f[i - 1]), seqs[i])
            /\ FlattenSeq(seqs) = f[Len(seqs)]
            /\ FlattenSeq(seqs) \in Seq(S)
<1> DEFINE f == Joined(S, seqs)
           n == Len(seqs)
<1>0. n \in Nat /\ \A i \in 1..n : seqs[i] \in Seq(S)
  OBVIOUS
<1>1. Flattens(f, S, seqs, n)
  BY JoinedExists DEF Joined
<1>2. FlattenSeq(seqs) = f[n]
  BY <1>1, FlattenSeqIs
<1> HIDE DEF f, n
<1>3. /\ f[0] = <<>>
      /\ \A i \in 0..n : f[i] \in Seq(S)
      /\ \A i \in 1..n : f[i] = f[i - 1] \o seqs[i]
  BY <1>1 DEF Flattens
<1>4. \A i \in 1..n : /\ Len(f[i]) = Len(f[i - 1]) + Len(seqs[i])
                      /\ Spells(f[i], 0, f[i - 1])
                      /\ Spells(f[i], Len(f[i - 1]), seqs[i])
  <2> TAKE i \in 1..n
  <2>1. i - 1 \in 0..n /\ seqs[i] \in Seq(S)
    BY <1>0
  <2>2. f[i - 1] \in Seq(S) /\ f[i] = f[i - 1] \o seqs[i]
    BY <1>3, <2>1
  <2> QED BY <2>1, <2>2, SpellsConcat
<1>5. ASSUME NEW i \in 0..n
      PROVE  Spells(f[n], 0, f[i])
  <2> DEFINE G == {d \in Nat : d <= n - i => Spells(f[i + d], 0, f[i])}
  <2>0. i \in Nat /\ i <= n
    BY <1>0
  <2>1. 0 \in G
    <3>1. i + 0 = i /\ Spells(f[i], 0, f[i])
      BY <1>3, <2>0, SpellsAll
    <3> QED BY <3>1
  <2>2. ASSUME NEW d \in Nat, d \in G PROVE d + 1 \in G
    <3> SUFFICES ASSUME d + 1 <= n - i PROVE Spells(f[i + (d + 1)], 0, f[i])
      OBVIOUS
    <3>1. /\ d <= n - i /\ i + (d + 1) \in 1..n /\ (i + (d + 1)) - 1 = i + d
          /\ i + d \in 0..n /\ i + (d + 1) \in 0..n
      BY <1>0, <2>0
    <3>2. Spells(f[i + d], 0, f[i])
      BY <2>2, <3>1
    <3>3. Spells(f[i + (d + 1)], 0, f[i + d])
      BY <1>4, <3>1
    <3>4. f[i] \in Seq(S) /\ f[i + d] \in Seq(S) /\ f[i + (d + 1)] \in Seq(S)
      BY <1>3, <3>1
    <3>5. Spells(f[i + (d + 1)], 0 + 0, f[i])
      BY <3>2, <3>3, <3>4, SpellsWithin
    <3> QED BY <3>5
  <2> HIDE DEF G
  <2>3. n - i \in Nat /\ i + (n - i) = n
    BY <1>0, <2>0
  <2>4. n - i \in G
    BY <2>1, <2>2, <2>3, Induction
  <2>5. n - i <= n - i
    BY <2>3
  <2> QED BY <2>3, <2>4, <2>5 DEF G
<1>6. \A i \in 0..n : Len(f[i]) \in Nat /\ Len(f[i]) <= Len(f[n])
  <2> TAKE i \in 0..n
  <2>1. f[i] \in Seq(S) /\ f[n] \in Seq(S)
    BY <1>0, <1>3
  <2>2. Len(f[i]) \in Nat /\ Len(f[n]) \in Nat
    BY <2>1
  <2>3. 0 + Len(f[i]) <= Len(f[n])
    BY <1>5 DEF Spells
  <2> QED BY <2>2, <2>3
<1>7. ASSUME NEW i \in 1..n PROVE Spells(f[n], Len(f[i - 1]), seqs[i])
  <2>1. i \in 0..n /\ i - 1 \in 0..n /\ n \in 0..n
    BY <1>0
  <2>2. Spells(f[n], 0, f[i]) /\ Spells(f[i], Len(f[i - 1]), seqs[i])
    BY <1>4, <1>5, <2>1
  <2>3. f[i] \in Seq(S) /\ f[n] \in Seq(S) /\ seqs[i] \in Seq(S) /\ Len(f[i - 1]) \in Nat
    BY <1>0, <1>3, <1>6, <2>1
  <2>4. Spells(f[n], 0 + Len(f[i - 1]), seqs[i])
    BY <2>2, <2>3, SpellsWithin
  <2> QED BY <2>3, <2>4
<1>8. f[n] \in Seq(S)
  BY <1>0, <1>3
<1> QED BY <1>2, <1>3, <1>4, <1>6, <1>7, <1>8 DEF f, n

-----------------------------------------------------------------------------
(* The fields of a record.                                                 *)

(* To append to a sequence leaves what it spells where it is.              *)
LEMMA Extend ==
  ASSUME NEW S, NEW s \in Seq(S), NEW t \in Seq(S)
  PROVE  /\ s \o t \in Seq(S) /\ Len(s \o t) = Len(s) + Len(t)
         /\ Spells(s \o t, Len(s), t)
         /\ \A o, u : u \in Seq(S) /\ Spells(s, o, u) => Spells(s \o t, o, u)
<1> DEFINE c == s \o t
<1>1. c \in Seq(S) /\ Len(c) = Len(s) + Len(t) /\ Spells(c, 0, s) /\ Spells(c, Len(s), t)
  BY SpellsConcat
<1> HIDE DEF c
<1>2. ASSUME NEW o, NEW u \in Seq(S), Spells(s, o, u) PROVE Spells(c, o, u)
  <2>1. Spells(c, 0 + o, u)
    BY <1>1, <1>2, SpellsWithin
  <2>2. 0 + o = o
    BY <1>2 DEF Spells
  <2> QED BY <2>1, <2>2
<1>3. \A o, u : u \in Seq(S) /\ Spells(s, o, u) => Spells(c, o, u)
  BY <1>2
<1> QED BY <1>1, <1>3 DEF c

(* A byte alone.                                                           *)
LEMMA Singles == \A b \in Bytes : <<b>> \in Seq(Bytes) /\ Len(<<b>>) = 1 /\ <<b>>[1] = b
<1> HIDE DEF Bytes
<1> QED OBVIOUS

(* The numbers of the encoder's types.                                     *)
Uint16s == {x \in Nat : x < 65536}
Int16s == {x \in Int : -32768 <= x /\ x < 32768}
Vals == [id : Nat, stream : Seq(Bytes)]

(* The fields of a record, each in its type, the coordinates as they are   *)
(* written.                                                                *)
LEMMA AVLDataTypes ==
  ASSUME NEW p, IsAVLData(p)
  PROVE  /\ p.time \in Seq(Bytes) /\ Len(p.time) = 8
         /\ p.priority \in Bytes /\ p.satellites \in Bytes
         /\ Truncated(p.longitude) \in Int32s /\ Truncated(p.latitude) \in Int32s
         /\ p.altitude \in Int16s
         /\ p.angle \in Uint16s /\ p.speed \in Uint16s /\ p.event \in Uint16s
         /\ p.slots \in Uint16s /\ Len(p.vals) \in Uint16s
         /\ p.vals \in Seq(Vals)
         /\ \A i \in DOMAIN p.vals : p.vals[i].id \in Uint16s
<1>1. \A x : Fits(x, -2147483647 - 1, 2147483647) => x \in Int32s
  BY Z3 DEF Fits, Int32s
<1>2. \A x : Fits(x, -32768, 32767) => x \in Int16s
  BY Z3 DEF Fits, Int16s
<1>3. \A x : Fits(x, 0, 65535) => x \in Uint16s
  BY Z3 DEF Fits, Uint16s
<1>4. Truncated(p.longitude) \in Int32s /\ Truncated(p.latitude) \in Int32s
  <2>1. \A c : c.floor \in Int32s => Truncated(c) \in Int32s
    BY Z3 DEF Truncated, Int32s
  <2>2. p.longitude.floor \in Int32s /\ p.latitude.floor \in Int32s
    BY <1>1, Z3 DEF IsAVLData
  <2> QED BY <2>1, <2>2
<1>5. p.altitude \in Int16s
  BY <1>2, Z3 DEF IsAVLData
<1>6. p.angle \in Uint16s /\ p.speed \in Uint16s /\ p.event \in Uint16s
  BY <1>3, Z3 DEF IsAVLData
<1>7. p.slots \in Uint16s /\ Len(p.vals) \in Uint16s
  BY <1>3, Z3 DEF IsAVLData
<1>8. \A i \in DOMAIN p.vals : p.vals[i].id \in Uint16s
  BY <1>3, Z3 DEF IsAVLData
<1>9. /\ p.time \in Seq(Bytes) /\ Len(p.time) = 8
      /\ p.priority \in Bytes /\ p.satellites \in Bytes
      /\ p.vals \in Seq(Vals)
  BY DEF IsAVLData, Vals
<1> QED BY <1>4, <1>5, <1>6, <1>7, <1>8, <1>9

(* All but the time are integers.                                          *)
LEMMA FieldsAreInts ==
  ASSUME NEW p, IsAVLData(p)
  PROVE  Truncated(p.longitude) \in Int /\ Truncated(p.latitude) \in Int /\ p.altitude \in Int
         /\ p.angle \in Int /\ p.speed \in Int /\ p.event \in Int /\ p.slots \in Int
<1>1. \A x : (x \in Int32s \/ x \in Int16s \/ x \in Uint16s) => x \in Int
  BY Z3 DEF Int32s, Int16s, Uint16s
<1> QED BY <1>1, AVLDataTypes

(* The lengths of what is appended.                                        *)
LEMMA TwoBytesLong == \A x \in Int : AppendUint16(x) \in Seq(Bytes) /\ Len(AppendUint16(x)) = 2
BY Uint16Bytes

(* The same of four bytes.                                                 *)
LEMMA FourBytesLong == \A x \in Int : AppendUint32(x) \in Seq(Bytes) /\ Len(AppendUint32(x)) = 4
BY Uint32Bytes

(* The 26 bytes of the fields, and where each of them is (encoder.go       *)
(* 60-86).                                                                 *)
LEMMA FieldsLayout ==
  ASSUME NEW p, IsAVLData(p)
  PROVE  LET b == EncodeFields(p)
         IN /\ b \in Seq(Bytes) /\ Len(b) = 26
            /\ Spells(b, 0, p.time) /\ Spells(b, 8, <<p.priority>>)
            /\ Spells(b, 9, AppendUint32(Truncated(p.longitude)))
            /\ Spells(b, 13, AppendUint32(Truncated(p.latitude)))
            /\ Spells(b, 17, AppendUint16(p.altitude)) /\ Spells(b, 19, AppendUint16(p.angle))
            /\ Spells(b, 21, <<p.satellites>>) /\ Spells(b, 22, AppendUint16(p.speed))
            /\ Spells(b, 24, AppendUint16(p.event))
<1> DEFINE b1 == p.time
           b2 == b1 \o <<p.priority>>
           b3 == b2 \o AppendUint32(Truncated(p.longitude))
           b4 == b3 \o AppendUint32(Truncated(p.latitude))
           b5 == b4 \o AppendUint16(p.altitude)
           b6 == b5 \o AppendUint16(p.angle)
           b7 == b6 \o <<p.satellites>>
           b8 == b7 \o AppendUint16(p.speed)
           b9 == b8 \o AppendUint16(p.event)
           lon == AppendUint32(Truncated(p.longitude))
           lat == AppendUint32(Truncated(p.latitude))
           alt == AppendUint16(p.altitude)
           ang == AppendUint16(p.angle)
           spd == AppendUint16(p.speed)
           evt == AppendUint16(p.event)
           pri == <<p.priority>>
           sat == <<p.satellites>>
<1>1. EncodeFields(p) = b9
  BY DEF EncodeFields
<1>2. Truncated(p.longitude) \in Int /\ Truncated(p.latitude) \in Int /\ p.altitude \in Int
      /\ p.angle \in Int /\ p.speed \in Int /\ p.event \in Int
  BY FieldsAreInts
<1>4. /\ b1 \in Seq(Bytes) /\ Len(b1) = 8
  BY AVLDataTypes, Zenon
<1>5. pri \in Seq(Bytes) /\ Len(pri) = 1 /\ sat \in Seq(Bytes) /\ Len(sat) = 1
  BY AVLDataTypes, Singles, Zenon
<1>6. lon \in Seq(Bytes) /\ Len(lon) = 4 /\ lat \in Seq(Bytes) /\ Len(lat) = 4
  BY <1>2, FourBytesLong, Zenon
<1>7. alt \in Seq(Bytes) /\ Len(alt) = 2 /\ ang \in Seq(Bytes) /\ Len(ang) = 2
  BY <1>2, TwoBytesLong, Zenon
<1>8. spd \in Seq(Bytes) /\ Len(spd) = 2 /\ evt \in Seq(Bytes) /\ Len(evt) = 2
  BY <1>2, TwoBytesLong, Zenon
<1>3. /\ b2 = b1 \o pri /\ b3 = b2 \o lon /\ b4 = b3 \o lat /\ b5 = b4 \o alt
      /\ b6 = b5 \o ang /\ b7 = b6 \o sat /\ b8 = b7 \o spd /\ b9 = b8 \o evt
  OBVIOUS
<1> HIDE DEF Bytes, b1, b2, b3, b4, b5, b6, b7, b8, b9, lon, lat, alt, ang, spd, evt, pri, sat
<1>12. /\ b2 \in Seq(Bytes) /\ Len(b2) = 9 /\ Spells(b2, 8, pri)
       /\ \A o, u : u \in Seq(Bytes) /\ Spells(b1, o, u) => Spells(b2, o, u)
  <2>1. b1 \in Seq(Bytes) /\ Len(b1) = 8 /\ pri \in Seq(Bytes) /\ Len(pri) = 1
    BY <1>4, <1>5
  <2>2. b2 = b1 \o pri
    BY <1>3
  <2>3. /\ b2 \in Seq(Bytes) /\ Len(b2) = Len(b1) + Len(pri)
        /\ Spells(b2, Len(b1), pri)
        /\ \A o, u : u \in Seq(Bytes) /\ Spells(b1, o, u) => Spells(b2, o, u)
    BY <2>1, <2>2, Extend, Zenon
  <2> QED BY <2>1, <2>3
<1>13. /\ b3 \in Seq(Bytes) /\ Len(b3) = 13 /\ Spells(b3, 9, lon)
       /\ \A o, u : u \in Seq(Bytes) /\ Spells(b2, o, u) => Spells(b3, o, u)
  <2>1. b2 \in Seq(Bytes) /\ Len(b2) = 9 /\ lon \in Seq(Bytes) /\ Len(lon) = 4
    BY <1>12, <1>6
  <2>2. b3 = b2 \o lon
    BY <1>3
  <2>3. /\ b3 \in Seq(Bytes) /\ Len(b3) = Len(b2) + Len(lon)
        /\ Spells(b3, Len(b2), lon)
        /\ \A o, u : u \in Seq(Bytes) /\ Spells(b2, o, u) => Spells(b3, o, u)
    BY <2>1, <2>2, Extend, Zenon
  <2> QED BY <2>1, <2>3
<1>14. /\ b4 \in Seq(Bytes) /\ Len(b4) = 17 /\ Spells(b4, 13, lat)
       /\ \A o, u : u \in Seq(Bytes) /\ Spells(b3, o, u) => Spells(b4, o, u)
  <2>1. b3 \in Seq(Bytes) /\ Len(b3) = 13 /\ lat \in Seq(Bytes) /\ Len(lat) = 4
    BY <1>13, <1>6
  <2>2. b4 = b3 \o lat
    BY <1>3
  <2>3. /\ b4 \in Seq(Bytes) /\ Len(b4) = Len(b3) + Len(lat)
        /\ Spells(b4, Len(b3), lat)
        /\ \A o, u : u \in Seq(Bytes) /\ Spells(b3, o, u) => Spells(b4, o, u)
    BY <2>1, <2>2, Extend, Zenon
  <2> QED BY <2>1, <2>3
<1>15. /\ b5 \in Seq(Bytes) /\ Len(b5) = 19 /\ Spells(b5, 17, alt)
       /\ \A o, u : u \in Seq(Bytes) /\ Spells(b4, o, u) => Spells(b5, o, u)
  <2>1. b4 \in Seq(Bytes) /\ Len(b4) = 17 /\ alt \in Seq(Bytes) /\ Len(alt) = 2
    BY <1>14, <1>7
  <2>2. b5 = b4 \o alt
    BY <1>3
  <2>3. /\ b5 \in Seq(Bytes) /\ Len(b5) = Len(b4) + Len(alt)
        /\ Spells(b5, Len(b4), alt)
        /\ \A o, u : u \in Seq(Bytes) /\ Spells(b4, o, u) => Spells(b5, o, u)
    BY <2>1, <2>2, Extend, Zenon
  <2> QED BY <2>1, <2>3
<1>16. /\ b6 \in Seq(Bytes) /\ Len(b6) = 21 /\ Spells(b6, 19, ang)
       /\ \A o, u : u \in Seq(Bytes) /\ Spells(b5, o, u) => Spells(b6, o, u)
  <2>1. b5 \in Seq(Bytes) /\ Len(b5) = 19 /\ ang \in Seq(Bytes) /\ Len(ang) = 2
    BY <1>15, <1>7
  <2>2. b6 = b5 \o ang
    BY <1>3
  <2>3. /\ b6 \in Seq(Bytes) /\ Len(b6) = Len(b5) + Len(ang)
        /\ Spells(b6, Len(b5), ang)
        /\ \A o, u : u \in Seq(Bytes) /\ Spells(b5, o, u) => Spells(b6, o, u)
    BY <2>1, <2>2, Extend, Zenon
  <2> QED BY <2>1, <2>3
<1>17. /\ b7 \in Seq(Bytes) /\ Len(b7) = 22 /\ Spells(b7, 21, sat)
       /\ \A o, u : u \in Seq(Bytes) /\ Spells(b6, o, u) => Spells(b7, o, u)
  <2>1. b6 \in Seq(Bytes) /\ Len(b6) = 21 /\ sat \in Seq(Bytes) /\ Len(sat) = 1
    BY <1>16, <1>5
  <2>2. b7 = b6 \o sat
    BY <1>3
  <2>3. /\ b7 \in Seq(Bytes) /\ Len(b7) = Len(b6) + Len(sat)
        /\ Spells(b7, Len(b6), sat)
        /\ \A o, u : u \in Seq(Bytes) /\ Spells(b6, o, u) => Spells(b7, o, u)
    BY <2>1, <2>2, Extend, Zenon
  <2> QED BY <2>1, <2>3
<1>18. /\ b8 \in Seq(Bytes) /\ Len(b8) = 24 /\ Spells(b8, 22, spd)
       /\ \A o, u : u \in Seq(Bytes) /\ Spells(b7, o, u) => Spells(b8, o, u)
  <2>1. b7 \in Seq(Bytes) /\ Len(b7) = 22 /\ spd \in Seq(Bytes) /\ Len(spd) = 2
    BY <1>17, <1>8
  <2>2. b8 = b7 \o spd
    BY <1>3
  <2>3. /\ b8 \in Seq(Bytes) /\ Len(b8) = Len(b7) + Len(spd)
        /\ Spells(b8, Len(b7), spd)
        /\ \A o, u : u \in Seq(Bytes) /\ Spells(b7, o, u) => Spells(b8, o, u)
    BY <2>1, <2>2, Extend, Zenon
  <2> QED BY <2>1, <2>3
<1>19. /\ b9 \in Seq(Bytes) /\ Len(b9) = 26 /\ Spells(b9, 24, evt)
       /\ \A o, u : u \in Seq(Bytes) /\ Spells(b8, o, u) => Spells(b9, o, u)
  <2>1. b8 \in Seq(Bytes) /\ Len(b8) = 24 /\ evt \in Seq(Bytes) /\ Len(evt) = 2
    BY <1>18, <1>8
  <2>2. b9 = b8 \o evt
    BY <1>3
  <2>3. /\ b9 \in Seq(Bytes) /\ Len(b9) = Len(b8) + Len(evt)
        /\ Spells(b9, Len(b8), evt)
        /\ \A o, u : u \in Seq(Bytes) /\ Spells(b8, o, u) => Spells(b9, o, u)
    BY <2>1, <2>2, Extend, Zenon
  <2> QED BY <2>1, <2>3
<1>20. Spells(b1, 0, b1)
  BY <1>4, SpellsAll
<1>21. Spells(b9, 0, b1)
  BY <1>20, <1>4, <1>12, <1>13, <1>14, <1>15, <1>16, <1>17, <1>18, <1>19, Zenon
<1>22. Spells(b9, 8, pri)
  BY <1>5, <1>12, <1>13, <1>14, <1>15, <1>16, <1>17, <1>18, <1>19, Zenon
<1>23. Spells(b9, 9, lon)
  BY <1>6, <1>13, <1>14, <1>15, <1>16, <1>17, <1>18, <1>19, Zenon
<1>24. Spells(b9, 13, lat)
  BY <1>6, <1>14, <1>15, <1>16, <1>17, <1>18, <1>19, Zenon
<1>25. Spells(b9, 17, alt)
  BY <1>7, <1>15, <1>16, <1>17, <1>18, <1>19, Zenon
<1>26. Spells(b9, 19, ang)
  BY <1>7, <1>16, <1>17, <1>18, <1>19, Zenon
<1>27. Spells(b9, 21, sat)
  BY <1>5, <1>17, <1>18, <1>19, Zenon
<1>28. Spells(b9, 22, spd)
  BY <1>8, <1>18, <1>19, Zenon
<1> QED BY <1>1, <1>19, <1>21, <1>22, <1>23, <1>24, <1>25, <1>26, <1>27, <1>28, Zenon
          DEF b1, lon, lat, alt, ang, spd, evt, pri, sat

(* What is spelled of one byte.                                            *)
LEMMA SpellsOne ==
  ASSUME NEW b, NEW x, NEW o, Spells(b, o, <<x>>)
  PROVE  b[o + 1] = x
<1>1. Len(<<x>>) = 1 /\ <<x>>[1] = x
  OBVIOUS
<1>2. 1 \in 1..Len(<<x>>)
  BY <1>1
<1> QED BY <1>1, <1>2 DEF Spells

(* The fields of a point come out as they went in, the altitude without    *)
(* its sign.                                                               *)
LEMMA FieldsBack ==
  ASSUME NEW p, IsAVLData(p)
  PROVE  Fields26(EncodeFields(p)) = [SentFields(p) EXCEPT !.altitude = @ % 65536]
<1> DEFINE b == EncodeFields(p)
           lon == AppendUint32(Truncated(p.longitude))
           lat == AppendUint32(Truncated(p.latitude))
           alt == AppendUint16(p.altitude)
           ang == AppendUint16(p.angle)
           spd == AppendUint16(p.speed)
           evt == AppendUint16(p.event)
           altitude == p.altitude % 65536
<1>0. b \in Seq(Bytes)
  BY FieldsLayout
<1>1. /\ Truncated(p.longitude) \in Int /\ Truncated(p.latitude) \in Int /\ p.altitude \in Int
      /\ p.angle \in Int /\ p.speed \in Int /\ p.event \in Int
  BY FieldsAreInts
<1>2. SubSeq(b, 1, 8) = p.time
  <2>1. p.time \in Seq(Bytes) /\ Len(p.time) = 8 /\ Spells(b, 0, p.time)
    BY AVLDataTypes, FieldsLayout
  <2>2. 1 = 0 + 1 /\ 8 = 0 + Len(p.time)
    BY <2>1
  <2> HIDE DEF b
  <2>3. SubSeq(b, 0 + 1, 0 + Len(p.time)) = p.time
    BY <1>0, <2>1, SpellsSubSeq, Zenon
  <2> QED BY <2>2, <2>3
<1>3. b[9] = p.priority
  <2>1. Spells(b, 8, <<p.priority>>)
    BY FieldsLayout
  <2>2. b[8 + 1] = p.priority
    BY <2>1, SpellsOne, Zenon
  <2> QED BY <2>2
<1>4. b[22] = p.satellites
  <2>1. Spells(b, 21, <<p.satellites>>)
    BY FieldsLayout
  <2>2. b[21 + 1] = p.satellites
    BY <2>1, SpellsOne, Zenon
  <2> QED BY <2>2
<1>5. SubSeq(b, 10, 13) = lon
  <2>1. lon \in Seq(Bytes) /\ Len(lon) = 4 /\ Spells(b, 9, lon)
    BY <1>1, FourBytesLong, FieldsLayout, Zenon
  <2>2. 10 = 9 + 1 /\ 13 = 9 + Len(lon)
    BY <2>1
  <2> HIDE DEF b, lon
  <2>3. SubSeq(b, 9 + 1, 9 + Len(lon)) = lon
    BY <1>0, <2>1, SpellsSubSeq, Zenon
  <2> QED BY <2>2, <2>3
<1>6. SubSeq(b, 14, 17) = lat
  <2>1. lat \in Seq(Bytes) /\ Len(lat) = 4 /\ Spells(b, 13, lat)
    BY <1>1, FourBytesLong, FieldsLayout, Zenon
  <2>2. 14 = 13 + 1 /\ 17 = 13 + Len(lat)
    BY <2>1
  <2> HIDE DEF b, lat
  <2>3. SubSeq(b, 13 + 1, 13 + Len(lat)) = lat
    BY <1>0, <2>1, SpellsSubSeq, Zenon
  <2> QED BY <2>2, <2>3
<1>7. SubSeq(b, 18, 19) = alt
  <2>1. alt \in Seq(Bytes) /\ Len(alt) = 2 /\ Spells(b, 17, alt)
    BY <1>1, TwoBytesLong, FieldsLayout, Zenon
  <2>2. 18 = 17 + 1 /\ 19 = 17 + Len(alt)
    BY <2>1
  <2> HIDE DEF b, alt
  <2>3. SubSeq(b, 17 + 1, 17 + Len(alt)) = alt
    BY <1>0, <2>1, SpellsSubSeq, Zenon
  <2> QED BY <2>2, <2>3
<1>8. SubSeq(b, 20, 21) = ang
  <2>1. ang \in Seq(Bytes) /\ Len(ang) = 2 /\ Spells(b, 19, ang)
    BY <1>1, TwoBytesLong, FieldsLayout, Zenon
  <2>2. 20 = 19 + 1 /\ 21 = 19 + Len(ang)
    BY <2>1
  <2> HIDE DEF b, ang
  <2>3. SubSeq(b, 19 + 1, 19 + Len(ang)) = ang
    BY <1>0, <2>1, SpellsSubSeq, Zenon
  <2> QED BY <2>2, <2>3
<1>9. SubSeq(b, 23, 24) = spd
  <2>1. spd \in Seq(Bytes) /\ Len(spd) = 2 /\ Spells(b, 22, spd)
    BY <1>1, TwoBytesLong, FieldsLayout, Zenon
  <2>2. 23 = 22 + 1 /\ 24 = 22 + Len(spd)
    BY <2>1
  <2> HIDE DEF b, spd
  <2>3. SubSeq(b, 22 + 1, 22 + Len(spd)) = spd
    BY <1>0, <2>1, SpellsSubSeq, Zenon
  <2> QED BY <2>2, <2>3
<1>10. SubSeq(b, 25, 26) = evt
  <2>1. evt \in Seq(Bytes) /\ Len(evt) = 2 /\ Spells(b, 24, evt)
    BY <1>1, TwoBytesLong, FieldsLayout, Zenon
  <2>2. 25 = 24 + 1 /\ 26 = 24 + Len(evt)
    BY <2>1
  <2> HIDE DEF b, evt
  <2>3. SubSeq(b, 24 + 1, 24 + Len(evt)) = evt
    BY <1>0, <2>1, SpellsSubSeq, Zenon
  <2> QED BY <2>2, <2>3
<1>11. Int32(lon) = Truncated(p.longitude) /\ Int32(lat) = Truncated(p.latitude)
  BY AVLDataTypes, Int32Back
<1>12. Uint16(alt) = altitude
  BY <1>1, Uint16Back
<1>13. Uint16(ang) = p.angle /\ Uint16(spd) = p.speed /\ Uint16(evt) = p.event
  <2>1. \A x \in Uint16s : x \in Int /\ x % 65536 = x
    BY Z3 DEF Uint16s
  <2>2. p.angle \in Uint16s /\ p.speed \in Uint16s /\ p.event \in Uint16s
    BY AVLDataTypes
  <2> QED BY <2>1, <2>2, Uint16Back
<1> HIDE DEF b, lon, lat, alt, ang, spd, evt, altitude
<1>14. Fields26(b) =
         [date |-> convertToDate(p.time), priority |-> p.priority,
          longitude |-> Truncated(p.longitude), latitude |-> Truncated(p.latitude),
          altitude |-> altitude,
          angle |-> p.angle, satellites |-> p.satellites, speed |-> p.speed, event |-> p.event]
  <2>1. convertToDate(SubSeq(b, 1, 8)) = convertToDate(p.time)
    BY <1>2, Zenon
  <2>2. /\ Int32(SubSeq(b, 10, 13)) = Truncated(p.longitude)
        /\ Int32(SubSeq(b, 14, 17)) = Truncated(p.latitude)
    BY <1>5, <1>6, <1>11
  <2>3. Uint16(SubSeq(b, 18, 19)) = altitude
    BY <1>7, <1>12
  <2>4. /\ Uint16(SubSeq(b, 20, 21)) = p.angle
        /\ Uint16(SubSeq(b, 23, 24)) = p.speed
        /\ Uint16(SubSeq(b, 25, 26)) = p.event
    BY <1>8, <1>9, <1>10, <1>13
  <2> DEFINE date == convertToDate(SubSeq(b, 1, 8))
             date0 == convertToDate(p.time)
             longitude == Int32(SubSeq(b, 10, 13))
             latitude == Int32(SubSeq(b, 14, 17))
             height == Uint16(SubSeq(b, 18, 19))
             angle == Uint16(SubSeq(b, 20, 21))
             speed == Uint16(SubSeq(b, 23, 24))
             event == Uint16(SubSeq(b, 25, 26))
  <2>5. Fields26(b) =
          [date |-> date, priority |-> b[9], longitude |-> longitude, latitude |-> latitude,
           altitude |-> height, angle |-> angle, satellites |-> b[22], speed |-> speed,
           event |-> event]
    BY DEF Fields26
  <2>6. /\ date = date0 /\ longitude = Truncated(p.longitude) /\ latitude = Truncated(p.latitude)
        /\ height = altitude /\ angle = p.angle /\ speed = p.speed /\ event = p.event
    BY <2>1, <2>2, <2>3, <2>4
  <2> HIDE DEF date, date0, longitude, latitude, height, angle, speed, event
  <2>7. Fields26(b) =
          [date |-> date0, priority |-> p.priority,
           longitude |-> Truncated(p.longitude), latitude |-> Truncated(p.latitude),
           altitude |-> altitude,
           angle |-> p.angle, satellites |-> p.satellites, speed |-> p.speed, event |-> p.event]
    BY <1>3, <1>4, <2>5, <2>6
  <2> QED BY <2>7 DEF date0
<1>15. [SentFields(p) EXCEPT !.altitude = @ % 65536] =
         [date |-> convertToDate(p.time), priority |-> p.priority,
          longitude |-> Truncated(p.longitude), latitude |-> Truncated(p.latitude),
          altitude |-> altitude,
          angle |-> p.angle, satellites |-> p.satellites, speed |-> p.speed, event |-> p.event]
  BY DEF SentFields, altitude
<1> QED BY <1>14, <1>15 DEF b

(* ... and the row narrows them back to what was measured.                 *)
LEMMA RowBack ==
  ASSUME NEW p, NEW es
  PROVE  IsAVLData(p) /\ p.angle < 32768 /\ p.speed < 32768 =>
           Row([gps |-> [SentFields(p) EXCEPT !.altitude = @ % 65536], elements |-> es])
             = SentFields(p)
<1>1. \A x \in Int16s : Int16(x % 65536) = x
  BY Z3 DEF Int16s, Int16
<1>2. \A x \in Uint16s : x < 32768 => Int16(x) = x
  BY Z3 DEF Uint16s, Int16
<1>3. \A x \in Uint16s : x % 65536 = x
  BY Z3 DEF Uint16s
<1>4. \A x \in Bytes : x % 256 = x
  BY Octets, Z3
<1>5. IsAVLData(p) /\ p.angle < 32768 /\ p.speed < 32768 =>
        /\ Int16(p.altitude % 65536) = p.altitude /\ Int16(p.angle) = p.angle
        /\ Int16(p.speed) = p.speed /\ p.satellites % 256 = p.satellites
        /\ p.event % 65536 = p.event
  BY <1>1, <1>2, <1>3, <1>4, AVLDataTypes
<1> DEFINE sent == SentFields(p)
           gotten == [sent EXCEPT !.altitude = @ % 65536]
           date == convertToDate(p.time)
           altitude == p.altitude % 65536
           satellites == p.satellites % 256
           event == p.event % 65536
<1>6. sent = [date |-> date, priority |-> p.priority,
          longitude |-> Truncated(p.longitude), latitude |-> Truncated(p.latitude),
          altitude |-> p.altitude,
          angle |-> p.angle, satellites |-> p.satellites, speed |-> p.speed, event |-> p.event]
  BY DEF SentFields
<1> HIDE DEF sent, date
<1>7. gotten = [date |-> date, priority |-> p.priority,
          longitude |-> Truncated(p.longitude), latitude |-> Truncated(p.latitude),
          altitude |-> altitude,
          angle |-> p.angle, satellites |-> p.satellites, speed |-> p.speed, event |-> p.event]
  BY <1>6
<1> HIDE DEF gotten
<1>8. Row([gps |-> gotten, elements |-> es]) =
        [gotten EXCEPT !.altitude = Int16(gotten.altitude), !.angle = Int16(gotten.angle),
                       !.speed = Int16(gotten.speed), !.satellites = gotten.satellites % 256,
                       !.event = gotten.event % 65536]
  BY DEF Row
<1>9. /\ gotten.altitude = altitude /\ gotten.angle = p.angle /\ gotten.speed = p.speed
      /\ gotten.satellites = p.satellites /\ gotten.event = p.event
  BY <1>7
<1> DEFINE e == gotten.event % 65536
           n == gotten.satellites % 256
           a == Int16(gotten.altitude)
           g == Int16(gotten.angle)
           v == Int16(gotten.speed)
           row == [gotten EXCEPT !.altitude = a, !.angle = g, !.speed = v,
                                 !.satellites = n, !.event = e]
<1>11. Row([gps |-> gotten, elements |-> es]) = row
  BY <1>8
<1>12. IsAVLData(p) /\ p.angle < 32768 /\ p.speed < 32768 =>
         e = p.event /\ n = p.satellites /\ a = p.altitude /\ g = p.angle /\ v = p.speed
  BY <1>5, <1>9
<1> HIDE DEF altitude, satellites, event, e, n, a, g, v
<1>14. row = [date |-> date, priority |-> p.priority,
              longitude |-> Truncated(p.longitude), latitude |-> Truncated(p.latitude),
              altitude |-> a,
              angle |-> g, satellites |-> n, speed |-> v, event |-> e]
  <2>1. DOMAIN gotten = {"date", "priority", "longitude", "latitude", "altitude", "angle",
                         "satellites", "speed", "event"}
    BY <1>7
  <2>2. row = [f \in DOMAIN gotten |-> row[f]]
    OBVIOUS
  <2>3. /\ row.date = date /\ row.priority = p.priority
        /\ row.longitude = Truncated(p.longitude) /\ row.latitude = Truncated(p.latitude)
        /\ row.altitude = a /\ row.angle = g /\ row.satellites = n
        /\ row.speed = v /\ row.event = e
    BY <1>7
  <2> HIDE DEF row
  <2> QED BY <2>1, <2>2, <2>3
<1>15. IsAVLData(p) /\ p.angle < 32768 /\ p.speed < 32768 => row = sent
  <2> HIDE DEF row
  <2> QED BY <1>6, <1>12, <1>14
<1> QED BY <1>11, <1>15 DEF sent, gotten

-----------------------------------------------------------------------------
(* The date of a record.                                                   *)

(* Four words of 16 bits, and the number that they are.                    *)
Halves == {x \in Int : 0 <= x /\ x < 65536}
Quads == {w \in Seq(Halves) : Len(w) = 4}
Spelling(a, b, c, d) == ((a * 65536 + b) * 65536 + c) * 65536 + d
Value(w) == Spelling(w[1], w[2], w[3], w[4])

(* A word is a number below 65536.                                         *)
LEMMA HalfWords == \A x : x \in Halves <=> x \in Int /\ 0 <= x /\ x < 65536
BY DEF Halves

(* The words of a quad.                                                    *)
LEMMA QuadWords ==
  ASSUME NEW w \in Quads
  PROVE  /\ w \in Seq(Halves) /\ Len(w) = 4
         /\ w[1] \in Int /\ 0 <= w[1] /\ w[1] < 65536 /\ w[2] \in Int /\ 0 <= w[2] /\ w[2] < 65536
         /\ w[3] \in Int /\ 0 <= w[3] /\ w[3] < 65536 /\ w[4] \in Int /\ 0 <= w[4] /\ w[4] < 65536
<1>1. w \in Seq(Halves) /\ Len(w) = 4
  BY DEF Quads
<1>2. \A i \in 1..Len(w) : w[i] \in Halves
  BY <1>1, ElementOfSeq
<1> HIDE DEF Halves
<1>3. \A i \in 1..4 : w[i] \in Int /\ 0 <= w[i] /\ w[i] < 65536
  BY <1>1, <1>2, HalfWords
<1> QED BY <1>1, <1>3

(* A quad is made of its words.                                            *)
LEMMA QuadOf ==
  ASSUME NEW a \in Halves, NEW b \in Halves, NEW c \in Halves, NEW d \in Halves
  PROVE  /\ <<a, b, c, d>> \in Quads
         /\ Value(<<a, b, c, d>>) = Spelling(a, b, c, d)
<1> HIDE DEF Halves
<1>1. <<a, b, c, d>> \in Seq(Halves) /\ Len(<<a, b, c, d>>) = 4
  OBVIOUS
<1> QED BY <1>1 DEF Quads, Value

(* The value of a quad is a number of 64 bits.                             *)
LEMMA ValueIs ==
  ASSUME NEW w \in Quads
  PROVE  Value(w) \in Int /\ 0 <= Value(w) /\ Value(w) < 18446744073709551616
<1> DEFINE a == w[1]
           b == w[2]
           c == w[3]
           d == w[4]
<1>1. /\ a \in Int /\ 0 <= a /\ a < 65536 /\ b \in Int /\ 0 <= b /\ b < 65536
      /\ c \in Int /\ 0 <= c /\ c < 65536 /\ d \in Int /\ 0 <= d /\ d < 65536
  BY QuadWords
<1>2. Value(w) = Spelling(a, b, c, d)
  BY DEF Value
<1> HIDE DEF a, b, c, d
<1>3. Value(w) = ((a * 65536 + b) * 65536 + c) * 65536 + d
  BY <1>2 DEF Spelling
<1> QED BY <1>1, <1>3

(* The least values have no high bits.                                     *)
LEMMA HighWord ==
  ASSUME NEW w \in Quads, Value(w) < 9223372036854775808
  PROVE  w[1] \in Int /\ w[1] < 32768
<1> DEFINE a == w[1]
           b == w[2]
           c == w[3]
           d == w[4]
<1>1. a \in Int /\ 0 <= a /\ b \in Int /\ 0 <= b /\ c \in Int /\ 0 <= c /\ d \in Int /\ 0 <= d
  BY QuadWords
<1>2. Value(w) = Spelling(a, b, c, d)
  BY DEF Value
<1> HIDE DEF a, b, c, d
<1>3. ((a * 65536 + b) * 65536 + c) * 65536 + d < 9223372036854775808
  BY <1>2 DEF Spelling
<1> QED BY <1>1, <1>3 DEF a

(* Values compare word by word.                                            *)
QuadLess(w, u) == \/ w[1] < u[1]
                  \/ w[1] = u[1] /\ w[2] < u[2]
                  \/ w[1] = u[1] /\ w[2] = u[2] /\ w[3] < u[3]
                  \/ w[1] = u[1] /\ w[2] = u[2] /\ w[3] = u[3] /\ w[4] < u[4]

(* ... as their words do.                                                  *)
LEMMA QuadsCompare ==
  ASSUME NEW w \in Quads, NEW u \in Quads
  PROVE  /\ QuadLess(w, u) <=> Value(w) < Value(u)
         /\ Value(w) = Value(u) => w[1] = u[1] /\ w[2] = u[2] /\ w[3] = u[3] /\ w[4] = u[4]
<1> DEFINE a == w[1]
           b == w[2]
           c == w[3]
           d == w[4]
           e == u[1]
           f == u[2]
           g == u[3]
           h == u[4]
<1>1. /\ a \in Int /\ 0 <= a /\ a < 65536 /\ b \in Int /\ 0 <= b /\ b < 65536
      /\ c \in Int /\ 0 <= c /\ c < 65536 /\ d \in Int /\ 0 <= d /\ d < 65536
  BY QuadWords
<1>2. /\ e \in Int /\ 0 <= e /\ e < 65536 /\ f \in Int /\ 0 <= f /\ f < 65536
      /\ g \in Int /\ 0 <= g /\ g < 65536 /\ h \in Int /\ 0 <= h /\ h < 65536
  BY QuadWords
<1>3. Value(w) = Spelling(a, b, c, d) /\ Value(u) = Spelling(e, f, g, h)
  BY DEF Value
<1>4. QuadLess(w, u) <=> a < e \/ (a = e /\ b < f) \/ (a = e /\ b = f /\ c < g)
                               \/ (a = e /\ b = f /\ c = g /\ d < h)
  BY DEF QuadLess
<1> HIDE DEF a, b, c, d, e, f, g, h
<1> DEFINE x == ((a * 65536 + b) * 65536 + c) * 65536 + d
           y == ((e * 65536 + f) * 65536 + g) * 65536 + h
<1>5. Value(w) = x /\ Value(u) = y
  BY <1>3 DEF Spelling
<1>6. (a < e \/ (a = e /\ b < f) \/ (a = e /\ b = f /\ c < g)
             \/ (a = e /\ b = f /\ c = g /\ d < h)) <=> x < y
  BY <1>1, <1>2
<1>7. x = y => a = e /\ b = f /\ c = g /\ d = h
  BY <1>1, <1>2
<1> HIDE DEF x, y
<1> QED BY <1>4, <1>5, <1>6, <1>7 DEF a, b, c, d, e, f, g, h

(* Two quads of one value are one.                                         *)
LEMMA OneQuad ==
  ASSUME NEW w \in Quads, NEW u \in Quads, Value(w) = Value(u)
  PROVE  w = u
<1>1. w[1] = u[1] /\ w[2] = u[2] /\ w[3] = u[3] /\ w[4] = u[4]
  BY QuadsCompare
<1>2. w \in Seq(Halves) /\ u \in Seq(Halves) /\ Len(w) = 4 /\ Len(u) = 4
  BY QuadWords
<1> HIDE DEF Halves
<1>3. \A i \in 1..4 : w[i] = u[i]
  BY <1>1
<1> QED BY <1>2, <1>3, SeqEqual

(* AtMost compares the values.                                             *)
LEMMA AtMostIs ==
  ASSUME NEW w \in Quads, NEW u \in Quads
  PROVE  AtMost(w, u) <=> Value(w) <= Value(u)
<1> DEFINE Less == QuadLess(w, u)
<1>1. Less <=> Value(w) < Value(u)
  BY QuadsCompare
<1>2. (\E i \in 1..4 : w[i] < u[i] /\ \A j \in 1..(i - 1) : w[j] = u[j]) <=> Less
  <2>1. ASSUME NEW i \in 1..4, w[i] < u[i], \A j \in 1..(i - 1) : w[j] = u[j] PROVE Less
    <3> USE DEF QuadLess
    <3>1. i = 1 \/ i = 2 \/ i = 3 \/ i = 4
      OBVIOUS
    <3>2. /\ i > 1 => w[1] = u[1]
          /\ i > 2 => w[2] = u[2]
          /\ i > 3 => w[3] = u[3]
      BY <2>1
    <3> QED BY <2>1, <3>1, <3>2
  <2>2. ASSUME Less PROVE \E i \in 1..4 : w[i] < u[i] /\ \A j \in 1..(i - 1) : w[j] = u[j]
    <3> USE DEF QuadLess
    <3>1. CASE w[1] < u[1]
      <4>1. \A j \in 1..(1 - 1) : w[j] = u[j]
        OBVIOUS
      <4> QED BY <3>1, <4>1
    <3>2. CASE w[1] = u[1] /\ w[2] < u[2]
      <4>1. \A j \in 1..(2 - 1) : j = 1
        OBVIOUS
      <4> QED BY <3>2, <4>1
    <3>3. CASE w[1] = u[1] /\ w[2] = u[2] /\ w[3] < u[3]
      <4>1. \A j \in 1..(3 - 1) : j = 1 \/ j = 2
        OBVIOUS
      <4> QED BY <3>3, <4>1
    <3>4. CASE w[1] = u[1] /\ w[2] = u[2] /\ w[3] = u[3] /\ w[4] < u[4]
      <4>1. \A j \in 1..(4 - 1) : j = 1 \/ j = 2 \/ j = 3
        OBVIOUS
      <4> QED BY <3>4, <4>1
    <3> QED BY <2>2, <3>1, <3>2, <3>3, <3>4
  <2> QED BY <2>1, <2>2
<1>3. Value(w) = Value(u) <=> w = u
  BY OneQuad
<1>4. Value(w) \in Int /\ Value(u) \in Int
  BY ValueIs
<1> HIDE DEF Less
<1>5. AtMost(w, u) <=> w = u \/ Less
  BY <1>2 DEF AtMost
<1> QED BY <1>1, <1>3, <1>4, <1>5

(* The words of a time are a quad.                                         *)
LEMMA TimeWords ==
  ASSUME NEW time \in Seq(Bytes), Len(time) = 8
  PROVE  Words(time) \in Quads
<1>1. \A i \in 1..8 : time[i] \in Bytes
  BY ElementOfSeq
<1>2. \A i \in 1..4 : 2 * i - 1 \in 1..8 /\ 2 * i \in 1..8
  OBVIOUS
<1>3. ASSUME NEW i \in 1..4 PROVE time[2 * i - 1] * 256 + time[2 * i] \in Halves
  <2> DEFINE x == time[2 * i - 1]
             y == time[2 * i]
  <2>1. x \in Bytes /\ y \in Bytes
    BY <1>1, <1>2
  <2> HIDE DEF x, y
  <2>2. x \in Int /\ 0 <= x /\ x < 256 /\ y \in Int /\ 0 <= y /\ y < 256
    BY <2>1, Octets
  <2>3. x * 256 + y \in Halves
    BY <2>2, HalfWords
  <2> QED BY <2>3 DEF x, y
<1>4. \A i \in 1..4 : time[2 * i - 1] * 256 + time[2 * i] \in Halves
  BY <1>3
<1> DEFINE word(i) == time[2 * i - 1] * 256 + time[2 * i]
<1>5. \A i \in 1..4 : word(i) \in Halves
  BY <1>4
<1>6. Words(time) = [i \in 1..4 |-> word(i)]
  BY DEF Words
<1> HIDE DEF word, Halves
<1>7. [i \in 1..4 |-> word(i)] \in Seq(Halves) /\ Len([i \in 1..4 |-> word(i)]) = 4
  BY <1>5
<1> QED BY <1>6, <1>7 DEF Quads

(* Division by 65536 and by 1000.                                          *)
LEMMA Divides ==
  \A x \in Int :
    /\ x % 65536 \in Int /\ 0 <= x % 65536 /\ x % 65536 < 65536
    /\ x \div 65536 \in Int /\ x = 65536 * (x \div 65536) + (x % 65536)
    /\ x % 1000 \in Int /\ 0 <= x % 1000 /\ x % 1000 < 1000
    /\ x \div 1000 \in Int /\ x = 1000 * (x \div 1000) + (x % 1000)
BY Z3

(* A product of 1000 that fits in 64 bits, in words ...                    *)
LEMMA ThousandfoldIs ==
  ASSUME NEW w \in Quads, 1000 * Value(w) < 18446744073709551616
  PROVE  Thousandfold(w) \in Quads /\ Value(Thousandfold(w)) = 1000 * Value(w)
<1> DEFINE p == w[1]
           q == w[2]
           r == w[3]
           s == w[4]
           d == 1000 * s
           c == 1000 * r + d \div 65536
           b == 1000 * q + c \div 65536
           a == 1000 * p + b \div 65536
<1>1. p \in Int /\ q \in Int /\ r \in Int /\ s \in Int
  BY QuadWords
<1>2. Value(w) = Spelling(p, q, r, s) /\ Value(w) \in Int /\ 0 <= Value(w)
  BY ValueIs DEF Value
<1>3. Thousandfold(w) = << a % 65536, b % 65536, c % 65536, d % 65536 >>
  BY DEF Thousandfold
<1> HIDE DEF p, q, r, s
<1>4. d \in Int /\ d = 1000 * s
  BY <1>1
<1> HIDE DEF d
<1>5. d \div 65536 \in Int /\ d % 65536 \in Int /\ d = 65536 * (d \div 65536) + (d % 65536)
  BY <1>4, Divides
<1>6. c \in Int /\ c = 1000 * r + d \div 65536
  BY <1>1, <1>5
<1> HIDE DEF c
<1>7. c \div 65536 \in Int /\ c % 65536 \in Int /\ c = 65536 * (c \div 65536) + (c % 65536)
  BY <1>6, Divides
<1>8. b \in Int /\ b = 1000 * q + c \div 65536
  BY <1>1, <1>7
<1> HIDE DEF b
<1>9. b \div 65536 \in Int /\ b % 65536 \in Int /\ b = 65536 * (b \div 65536) + (b % 65536)
  BY <1>8, Divides
<1>10. a \in Int /\ a = 1000 * p + b \div 65536
  BY <1>1, <1>9
<1> HIDE DEF a
<1>11. a \div 65536 \in Int /\ a % 65536 \in Int /\ a = 65536 * (a \div 65536) + (a % 65536)
  BY <1>10, Divides
<1> DEFINE qa == a \div 65536
           qb == b \div 65536
           qc == c \div 65536
           qd == d \div 65536
           ra == a % 65536
           rb == b % 65536
           rc == c % 65536
           rd == d % 65536
<1>12. ra \in Halves /\ rb \in Halves /\ rc \in Halves /\ rd \in Halves
  BY <1>4, <1>6, <1>8, <1>10, Divides, HalfWords
<1>13. /\ qa \in Int /\ qb \in Int /\ qc \in Int /\ qd \in Int
       /\ 1000 * s = 65536 * qd + rd /\ 1000 * r + qd = 65536 * qc + rc
       /\ 1000 * q + qc = 65536 * qb + rb /\ 1000 * p + qb = 65536 * qa + ra
  <2>1. qa \in Int /\ qb \in Int /\ qc \in Int /\ qd \in Int
    BY <1>5, <1>7, <1>9, <1>11
  <2>2. 1000 * s = 65536 * qd + rd
    BY <1>4, <1>5
  <2>3. 1000 * r + qd = 65536 * qc + rc
    BY <1>6, <1>7
  <2>4. 1000 * q + qc = 65536 * qb + rb
    BY <1>8, <1>9
  <2>5. 1000 * p + qb = 65536 * qa + ra
    BY <1>10, <1>11
  <2> QED BY <2>1, <2>2, <2>3, <2>4, <2>5
<1>14. Thousandfold(w) = <<ra, rb, rc, rd>>
  BY <1>3
<1> HIDE DEF qa, qb, qc, qd, ra, rb, rc, rd
<1> DEFINE x == Spelling(p, q, r, s)
           y == Spelling(ra, rb, rc, rd)
<1>15. 1000 * x = y + 18446744073709551616 * qa
  <2>1. ra \in Int /\ rb \in Int /\ rc \in Int /\ rd \in Int
    BY <1>12, HalfWords
  <2>2. /\ x = ((p * 65536 + q) * 65536 + r) * 65536 + s
        /\ y = ((ra * 65536 + rb) * 65536 + rc) * 65536 + rd
    BY DEF Spelling
  <2> HIDE DEF x, y
  <2> QED BY <1>1, <1>13, <2>1, <2>2
<1>16. Thousandfold(w) \in Quads /\ Value(Thousandfold(w)) = y
  BY <1>12, <1>14, QuadOf
<1>17. y \in Int /\ 0 <= y /\ y < 18446744073709551616
  BY <1>16, ValueIs
<1>18. x \in Int /\ 0 <= x /\ 1000 * x < 18446744073709551616 /\ Value(w) = x
  BY <1>2
<1> HIDE DEF x, y
<1>19. qa = 0
  BY <1>13, <1>15, <1>17, <1>18, Z3
<1>20. y = 1000 * x
  BY <1>15, <1>17, <1>18, <1>19
<1> QED BY <1>16, <1>18, <1>20

(* ... and the quotient.                                                   *)
LEMMA WholeThousandsIs ==
  ASSUME NEW w \in Quads
  PROVE  LET v == Value(WholeThousands(w))
         IN /\ WholeThousands(w) \in Quads
            /\ v \in Int /\ 1000 * v <= Value(w) /\ Value(w) < 1000 * v + 1000
<1> DEFINE a == w[1]
           q == w[2]
           r == w[3]
           s == w[4]
           b == (a % 1000) * 65536 + q
           c == (b % 1000) * 65536 + r
           d == (c % 1000) * 65536 + s
           qa == a \div 1000
           qb == b \div 1000
           qc == c \div 1000
           qd == d \div 1000
           rd == d % 1000
<1>1. /\ a \in Int /\ 0 <= a /\ a < 65536 /\ q \in Int /\ 0 <= q /\ q < 65536
      /\ r \in Int /\ 0 <= r /\ r < 65536 /\ s \in Int /\ 0 <= s /\ s < 65536
  BY QuadWords
<1>2. Value(w) = Spelling(a, q, r, s)
  BY DEF Value
<1>3. WholeThousands(w) = <<qa, qb, qc, qd>>
  BY DEF WholeThousands
<1>4. \A x, y \in Int : 0 <= x /\ x < 1000 /\ 0 <= y /\ y < 65536 =>
        x * 65536 + y \in Int /\ 0 <= x * 65536 + y /\ x * 65536 + y < 65536000
  BY Z3
<1>5. \A x \in Int : 0 <= x /\ x < 65536000 =>
        x \div 1000 \in Int /\ 0 <= x \div 1000 /\ x \div 1000 < 65536
  BY Z3
<1> HIDE DEF a, q, r, s
<1>6. 0 <= a /\ a < 65536000
  BY <1>1
<1>7. b \in Int /\ 0 <= b /\ b < 65536000 /\ b = (a % 1000) * 65536 + q
  BY <1>1, <1>4, Divides
<1> HIDE DEF b
<1>8. c \in Int /\ 0 <= c /\ c < 65536000 /\ c = (b % 1000) * 65536 + r
  BY <1>1, <1>4, <1>7, Divides
<1> HIDE DEF c
<1>9. d \in Int /\ 0 <= d /\ d < 65536000 /\ d = (c % 1000) * 65536 + s
  BY <1>1, <1>4, <1>8, Divides
<1> HIDE DEF d
<1>10. qa \in Halves /\ qb \in Halves /\ qc \in Halves /\ qd \in Halves
  BY <1>1, <1>5, <1>6, <1>7, <1>8, <1>9, HalfWords
<1> DEFINE ra == a % 1000
           rb == b % 1000
           rc == c % 1000
<1>11. /\ ra \in Int /\ a = 1000 * qa + ra
       /\ rb \in Int /\ ra * 65536 + q = 1000 * qb + rb
       /\ rc \in Int /\ rb * 65536 + r = 1000 * qc + rc
       /\ rd \in Int /\ rc * 65536 + s = 1000 * qd + rd /\ 0 <= rd /\ rd < 1000
  <2>1. ra \in Int /\ a = 1000 * qa + ra
    BY <1>1, Divides
  <2>2. rb \in Int /\ ra * 65536 + q = 1000 * qb + rb
    BY <1>7, Divides
  <2>3. rc \in Int /\ rb * 65536 + r = 1000 * qc + rc
    BY <1>8, Divides
  <2>4. rd \in Int /\ rc * 65536 + s = 1000 * qd + rd /\ 0 <= rd /\ rd < 1000
    BY <1>9, Divides
  <2> QED BY <2>1, <2>2, <2>3, <2>4
<1> HIDE DEF qa, qb, qc, qd, ra, rb, rc, rd
<1>12. /\ WholeThousands(w) \in Quads
       /\ Value(WholeThousands(w)) = Spelling(qa, qb, qc, qd)
  BY <1>3, <1>10, QuadOf
<1> DEFINE v == Value(WholeThousands(w))
           x == Value(w)
<1>13. x = 1000 * v + rd
  <2>1. qa \in Int /\ qb \in Int /\ qc \in Int /\ qd \in Int
    BY <1>10, HalfWords
  <2>2. /\ x = ((a * 65536 + q) * 65536 + r) * 65536 + s
        /\ v = ((qa * 65536 + qb) * 65536 + qc) * 65536 + qd
    BY <1>2, <1>12 DEF Spelling
  <2> HIDE DEF v, x
  <2> QED BY <1>1, <1>11, <2>1, <2>2
<1>14. v \in Int
  BY <1>12, ValueIs
<1> HIDE DEF v, x
<1>15. 1000 * v <= x /\ x < 1000 * v + 1000
  BY <1>11, <1>13, <1>14
<1> QED BY <1>12, <1>14, <1>15 DEF v, x

(* The quotient takes back the product.                                    *)
LEMMA ThousandfoldBack ==
  ASSUME NEW w \in Quads, 1000 * Value(w) < 18446744073709551616
  PROVE  WholeThousands(Thousandfold(w)) = w
<1> DEFINE t == Thousandfold(w)
           u == WholeThousands(t)
<1>1. t \in Quads /\ Value(t) = 1000 * Value(w)
  BY ThousandfoldIs
<1> HIDE DEF t
<1>2. /\ u \in Quads /\ Value(u) \in Int
      /\ 1000 * Value(u) <= Value(t) /\ Value(t) < 1000 * Value(u) + 1000
  BY <1>1, WholeThousandsIs
<1> HIDE DEF u
<1>3. Value(w) \in Int
  BY ValueIs
<1>4. Value(u) = Value(w)
  <2> DEFINE x == Value(u)
             y == Value(w)
  <2>1. x \in Int /\ y \in Int /\ 1000 * x <= 1000 * y /\ 1000 * y < 1000 * x + 1000
    BY <1>1, <1>2, <1>3
  <2> HIDE DEF x, y
  <2>2. x = y
    BY <2>1
  <2> QED BY <2>2 DEF x, y
<1> QED BY <1>2, <1>4, OneQuad DEF u, t

(* The three numbers that bound a date.                                    *)
LEMMA Bounds ==
  /\ TenDigits \in Quads /\ Value(TenDigits) = 9999999999
  /\ LastSecond \in Quads /\ Value(LastSecond) = 9223372036
  /\ LastMillisecond \in Quads /\ Value(LastMillisecond) = 9223372036854
<1>1. /\ TenDigits = <<0, 2, 21515, 58367>> /\ LastSecond = <<0, 2, 9665, 32004>>
      /\ LastMillisecond = <<0, 2147, 31696, 23286>>
  BY DEF TenDigits, LastSecond, LastMillisecond
<1>2. /\ 0 \in Halves /\ 2 \in Halves /\ 21515 \in Halves /\ 58367 \in Halves
      /\ 9665 \in Halves /\ 32004 \in Halves /\ 2147 \in Halves
      /\ 31696 \in Halves /\ 23286 \in Halves
  BY DEF Halves
<1>3. TenDigits \in Quads /\ LastSecond \in Quads /\ LastMillisecond \in Quads
  BY <1>1, <1>2, QuadOf
<1>4. /\ Value(TenDigits) = 9999999999 /\ Value(LastSecond) = 9223372036
      /\ Value(LastMillisecond) = 9223372036854
  <2>1. /\ Spelling(0, 2, 21515, 58367) = 9999999999 /\ Spelling(0, 2, 9665, 32004) = 9223372036
        /\ Spelling(0, 2147, 31696, 23286) = 9223372036854
    BY Z3 DEF Spelling
  <2> QED BY <1>1, <1>2, <2>1, QuadOf
<1> QED BY <1>3, <1>4

(* The second of nanoseconds that are not negative.                        *)
LEMMA SecondOf ==
  ASSUME NEW w \in Quads, Value(w) < 9223372036854775808
  PROVE  Second(w) = WholeThousands(WholeThousands(WholeThousands(w)))
<1>1. w[1] < 32768 /\ w[1] \in Int
  BY HighWord, QuadWords
<1>2. ~Negative(w)
  BY <1>1 DEF Negative
<1> QED BY <1>2 DEF Second

(* The date of a record is the second that it tells, whether its time      *)
(* counts seconds or milliseconds, as long as nanoseconds can count it.    *)
LEMMA DateMeasured ==
  ASSUME NEW p, IsAVLData(p), Datable(p)
  PROVE  convertToDate(p.time) = MeasuredSecond(p)
<1> DEFINE e == Words(p.time)
           last == IF TenDigitsOrLess(p) THEN LastSecond ELSE LastMillisecond
<1>1. e \in Quads
  BY AVLDataTypes, TimeWords
<1>2. Value(e) \in Int /\ 0 <= Value(e)
  BY <1>1, ValueIs
<1>3. Value(e) <= Value(last)
  <2>1. last \in Quads
    BY Bounds
  <2>2. AtMost(e, last)
    BY DEF Datable
  <2> HIDE DEF e, last
  <2> QED BY <1>1, <2>1, <2>2, AtMostIs
<1>4. ~Negative(e)
  <2>1. Value(e) <= 9223372036854
    BY <1>2, <1>3, Bounds
  <2> HIDE DEF e
  <2>2. e[1] < 32768 /\ e[1] \in Int
    <3>1. Value(e) < 9223372036854775808
      BY <1>2, <2>1
    <3> QED BY <1>1, <3>1, HighWord, QuadWords
  <2> QED BY <2>2 DEF Negative
<1> DEFINE millis == IF AtMost(e, TenDigits) THEN Thousandfold(e) ELSE e
           micros == Thousandfold(millis)
           nanos == Thousandfold(micros)
<1>5. convertToDate(p.time) = Second(nanos)
  BY <1>4 DEF convertToDate
<1>6. /\ millis \in Quads
      /\ Value(millis) = IF TenDigitsOrLess(p) THEN 1000 * Value(e) ELSE Value(e)
      /\ Value(millis) \in Int /\ 0 <= Value(millis) /\ Value(millis) <= 9223372036854
  <2>1. CASE TenDigitsOrLess(p)
    <3>1. Value(e) <= 9223372036
      BY <1>3, <2>1, Bounds
    <3>2. millis = Thousandfold(e)
      BY <2>1 DEF TenDigitsOrLess
    <3> HIDE DEF e, millis
    <3>3. 1000 * Value(e) < 18446744073709551616
      BY <1>2, <3>1
    <3>4. millis \in Quads /\ Value(millis) = 1000 * Value(e)
      BY <1>1, <3>2, <3>3, ThousandfoldIs
    <3> QED BY <1>2, <2>1, <3>1, <3>4
  <2>2. CASE ~TenDigitsOrLess(p)
    <3>1. Value(e) <= 9223372036854
      BY <1>3, <2>2, Bounds
    <3>2. millis = e
      BY <2>2 DEF TenDigitsOrLess
    <3> HIDE DEF e, millis
    <3> QED BY <1>1, <1>2, <2>2, <3>1, <3>2
  <2> QED BY <2>1, <2>2
<1> HIDE DEF e, millis
<1>7. 1000 * Value(millis) < 18446744073709551616
  BY <1>6
<1>8. /\ micros \in Quads /\ Value(micros) = 1000 * Value(millis)
      /\ WholeThousands(micros) = millis
  BY <1>6, <1>7, ThousandfoldIs, ThousandfoldBack
<1> HIDE DEF micros
<1>9. 1000 * Value(micros) <= 9223372036854000000 /\ Value(micros) \in Int
  BY <1>6, <1>8
<1>10. 1000 * Value(micros) < 18446744073709551616
  BY <1>9
<1>11. /\ nanos \in Quads /\ Value(nanos) = 1000 * Value(micros)
       /\ WholeThousands(nanos) = micros
  BY <1>8, <1>10, ThousandfoldIs, ThousandfoldBack
<1>12. Value(nanos) < 9223372036854775808
  BY <1>9, <1>11
<1> HIDE DEF nanos
<1>13. Second(nanos) = WholeThousands(millis)
  BY <1>8, <1>11, <1>12, SecondOf
<1>14. CASE TenDigitsOrLess(p)
  <2>1. millis = Thousandfold(e)
    BY <1>14 DEF TenDigitsOrLess, millis, e
  <2>2. 1000 * Value(e) < 18446744073709551616
    BY <1>6, <1>14
  <2>3. WholeThousands(millis) = e
    BY <1>1, <2>1, <2>2, ThousandfoldBack
  <2> QED BY <1>5, <1>13, <1>14, <2>3 DEF MeasuredSecond, e
<1>15. CASE ~TenDigitsOrLess(p)
  <2>1. millis = e
    BY <1>15 DEF TenDigitsOrLess, millis, e
  <2> QED BY <1>5, <1>13, <1>15, <2>1 DEF MeasuredSecond, e
<1> QED BY <1>14, <1>15

(* What is written of a coordinate is less than a unit away from it.       *)
LEMMA TruncatedNear == \A c : Near(Truncated(c), c)
BY DEF Near, Truncated

-----------------------------------------------------------------------------
(* The elements of a stage.                                                *)

(* The elements that a stage takes: those of its length.                   *)
Filling(s) == {v \in Vals : Len(v.stream) = Streams[s] /\ v.id \in Uint16s}

(* The elements chosen for a stage are of its length, and few enough for   *)
(* 16 bits to count.                                                       *)
LEMMA ChosenFill ==
  ASSUME NEW p, IsAVLData(p), NEW s \in 1..4
  PROVE  /\ Chosen(p.vals, s) \in Seq(Filling(s))
         /\ Len(Chosen(p.vals, s)) \in Uint16s
<1> DEFINE vals == p.vals
           one(i) == IF Len(vals[i].stream) = Streams[s] THEN <<vals[i]>> ELSE <<>>
           seqs == [i \in DOMAIN vals |-> one(i)]
           S == Filling(s)
           f == Joined(S, seqs)
           n == Len(vals)
<1>1. vals \in Seq(Vals) /\ n \in Nat /\ DOMAIN vals = 1..n /\ n \in Uint16s
      /\ \A i \in 1..n : vals[i] \in Vals /\ vals[i].id \in Uint16s
  BY AVLDataTypes
<1>2. \A i \in 1..n : one(i) \in Seq(S) /\ Len(one(i)) <= 1
  <2> TAKE i \in 1..n
  <2>1. CASE Len(vals[i].stream) = Streams[s]
    <3>1. vals[i] \in S
      BY <1>1, <2>1 DEF Filling
    <3> HIDE DEF S
    <3>2. <<vals[i]>> \in Seq(S) /\ Len(<<vals[i]>>) <= 1
      BY <3>1
    <3> QED BY <2>1, <3>2
  <2>2. CASE Len(vals[i].stream) # Streams[s]
    <3> HIDE DEF S
    <3>1. <<>> \in Seq(S) /\ Len(<<>>) <= 1
      OBVIOUS
    <3> QED BY <2>2, <3>1
  <2> QED BY <2>1, <2>2
<1>3. Chosen(vals, s) = FlattenSeq(seqs)
  BY DEF Chosen
<1> HIDE DEF vals, n, S, one
<1>4. seqs \in Seq(Seq(S)) /\ Len(seqs) = n /\ \A i \in 1..n : seqs[i] = one(i)
  BY <1>1, <1>2
<1> HIDE DEF seqs
<1>5. /\ f[0] = <<>>
      /\ \A i \in 0..n : Len(f[i]) \in Nat
      /\ \A i \in 1..n : Len(f[i]) = Len(f[i - 1]) + Len(seqs[i])
      /\ FlattenSeq(seqs) = f[n] /\ FlattenSeq(seqs) \in Seq(S)
  BY <1>4, JoinedSpell
<1> HIDE DEF f
<1>6. Len(f[n]) <= n
  <2> DEFINE G == {i \in Nat : i <= n => Len(f[i]) <= i}
  <2>1. 0 \in G
    BY <1>5
  <2>2. ASSUME NEW i \in Nat, i \in G PROVE i + 1 \in G
    <3> SUFFICES ASSUME i + 1 <= n PROVE Len(f[i + 1]) <= i + 1
      OBVIOUS
    <3>1. i \in 0..n /\ i + 1 \in 1..n /\ i + 1 \in 0..n /\ (i + 1) - 1 = i /\ i <= n
      BY <1>1
    <3>2. Len(f[i]) <= i
      BY <2>2, <3>1
    <3>3. Len(f[i + 1]) = Len(f[i]) + Len(seqs[i + 1]) /\ Len(f[i]) \in Nat
          /\ Len(f[i + 1]) \in Nat
      BY <1>5, <3>1
    <3>4. Len(seqs[i + 1]) <= 1 /\ Len(seqs[i + 1]) \in Nat
      BY <1>2, <1>4, <3>1
    <3> DEFINE before == Len(f[i])
               more == Len(seqs[i + 1])
               after == Len(f[i + 1])
    <3>5. before <= i /\ before \in Nat /\ more \in Nat /\ more <= 1 /\ after = before + more
      BY <3>2, <3>3, <3>4, Zenon
    <3> HIDE DEF before, more, after
    <3>6. after <= i + 1
      BY <3>5
    <3> QED BY <3>6, Zenon DEF after
  <2> HIDE DEF G
  <2>3. n \in G
    BY <1>1, <2>1, <2>2, Induction
  <2>4. n <= n
    BY <1>1
  <2> QED BY <2>3, <2>4 DEF G
<1>7. Len(f[n]) \in Uint16s
  <2>1. n \in 0..n
    BY <1>1
  <2>2. Len(f[n]) \in Nat
    BY <1>5, <2>1
  <2> QED BY <1>1, <1>6, <2>2, Z3 DEF Uint16s
<1> QED BY <1>3, <1>5, <1>7 DEF vals, S

(* Elements have a byte at least.                                          *)
LEMMA StreamsAre == \A s \in 1..4 : Streams[s] \in Nat /\ Streams[s] >= 1
BY DEF Streams

(* An element is its ID, in two bytes, and its own bytes.                  *)
LEMMA ElementLayout ==
  ASSUME NEW s \in 1..4, NEW v \in Filling(s)
  PROVE  /\ EncodeElement(v) \in Seq(Bytes) /\ Len(EncodeElement(v)) = 2 + Streams[s]
         /\ AppendUint16(v.id) \in Seq(Bytes) /\ Len(AppendUint16(v.id)) = 2
         /\ v.stream \in Seq(Bytes) /\ Len(v.stream) = Streams[s]
         /\ Spells(EncodeElement(v), 0, AppendUint16(v.id))
         /\ Spells(EncodeElement(v), 2, v.stream)
<1> DEFINE d == AppendUint16(v.id)
           t == v.stream
<1>1. v.id \in Uint16s /\ t \in Seq(Bytes) /\ Len(t) = Streams[s]
  BY DEF Filling, Vals
<1>2. v.id \in Int
  BY <1>1, Z3 DEF Uint16s
<1>3. d \in Seq(Bytes) /\ Len(d) = 2
  BY <1>2, TwoBytesLong, Zenon
<1>4. EncodeElement(v) = d \o t
  BY DEF EncodeElement
<1> HIDE DEF d, t
<1>5. /\ d \o t \in Seq(Bytes) /\ Len(d \o t) = Len(d) + Len(t)
      /\ Spells(d \o t, 0, d) /\ Spells(d \o t, Len(d), t)
  BY <1>1, <1>3, SpellsConcat, Zenon
<1>6. /\ EncodeElement(v) \in Seq(Bytes) /\ Len(EncodeElement(v)) = 2 + Streams[s]
      /\ Spells(EncodeElement(v), 0, d) /\ Spells(EncodeElement(v), 2, t)
  BY <1>1, <1>3, <1>4, <1>5
<1> QED BY <1>1, <1>3, <1>6 DEF d, t

(* The elements of a stage, encoded, and where the first k of them end.    *)
Encoded(p, s) == [i \in 1..Len(Chosen(p.vals, s)) |-> EncodeElement(Chosen(p.vals, s)[i])]
ElementOffset(p, s, k) == 2 + Len(Joined(Bytes, Encoded(p, s))[k])

(* A stage is its count and its elements, one after the other (encoder.go  *)
(* 91-117).                                                                *)
LEMMA StageLayout ==
  ASSUME NEW p, IsAVLData(p), NEW s \in 1..4
  PROVE  LET count == Len(Chosen(p.vals, s))
             b == EncodeStage(p.vals, s)
         IN /\ b \in Seq(Bytes) /\ Len(b) = ElementOffset(p, s, count)
            /\ Spells(b, 0, AppendUint16(count))
            /\ ElementOffset(p, s, 0) = 2
            /\ \A k \in 0..count : ElementOffset(p, s, k) \in Nat /\ 2 <= ElementOffset(p, s, k)
            /\ \A k \in 1..count :
                 /\ ElementOffset(p, s, k) = ElementOffset(p, s, k - 1) + (2 + Streams[s])
                 /\ Spells(b, ElementOffset(p, s, k - 1), EncodeElement(Chosen(p.vals, s)[k]))
<1> DEFINE chosen == Chosen(p.vals, s)
           count == Len(chosen)
           es == Encoded(p, s)
           f == Joined(Bytes, es)
           flat == FlattenSeq(es)
           c == AppendUint16(count)
           b == EncodeStage(p.vals, s)
<1>1. chosen \in Seq(Filling(s)) /\ count \in Uint16s
  BY ChosenFill
<1>2. count \in Nat /\ count \in Int /\ DOMAIN chosen = 1..count
      /\ \A k \in 1..count : chosen[k] \in Filling(s)
  BY <1>1
<1>3. b = c \o flat
  <2>1. es = [i \in DOMAIN chosen |-> EncodeElement(chosen[i])]
    BY <1>2 DEF Encoded
  <2> QED BY <2>1 DEF EncodeStage
<1>4. es = [i \in 1..count |-> EncodeElement(chosen[i])]
  BY DEF Encoded
<1>5. c \in Seq(Bytes) /\ Len(c) = 2
  BY <1>2, TwoBytesLong, Zenon
<1> HIDE DEF chosen, count, es, c, b
<1>6. \A k \in 1..count : EncodeElement(chosen[k]) \in Seq(Bytes)
                          /\ Len(EncodeElement(chosen[k])) = 2 + Streams[s]
  BY <1>2, ElementLayout
<1>7. es \in Seq(Seq(Bytes)) /\ Len(es) = count
      /\ \A k \in 1..count : es[k] = EncodeElement(chosen[k])
  <2> HIDE DEF Bytes
  <2> QED BY <1>2, <1>4, <1>6
<1>8. /\ f[0] = <<>> /\ flat = f[count] /\ flat \in Seq(Bytes)
      /\ \A k \in 0..count : Len(f[k]) \in Nat
      /\ \A k \in 1..count : /\ Len(f[k]) = Len(f[k - 1]) + Len(es[k])
                             /\ Spells(flat, Len(f[k - 1]), es[k])
  BY <1>7, JoinedSpell
<1>9. /\ ElementOffset(p, s, 0) = 2 + Len(f[0])
      /\ \A k : ElementOffset(p, s, k) = 2 + Len(f[k])
  BY DEF ElementOffset, es
<1> HIDE DEF f, flat
<1>10. /\ b \in Seq(Bytes) /\ Len(b) = 2 + Len(flat)
       /\ Spells(b, 0, c) /\ Spells(b, 2, flat)
  <2>1. /\ c \o flat \in Seq(Bytes) /\ Len(c \o flat) = Len(c) + Len(flat)
        /\ Spells(c \o flat, 0, c) /\ Spells(c \o flat, Len(c), flat)
    BY <1>5, <1>8, SpellsConcat, Zenon
  <2> QED BY <1>3, <1>5, <2>1
<1>11. ElementOffset(p, s, 0) = 2
  BY <1>8, <1>9
<1>12. \A k \in 0..count : ElementOffset(p, s, k) \in Nat /\ 2 <= ElementOffset(p, s, k)
  BY <1>8, <1>9
<1>13. Len(b) = ElementOffset(p, s, count)
  BY <1>8, <1>9, <1>10
<1>14. ASSUME NEW k \in 1..count
       PROVE  /\ ElementOffset(p, s, k) = ElementOffset(p, s, k - 1) + (2 + Streams[s])
              /\ Spells(b, ElementOffset(p, s, k - 1), EncodeElement(chosen[k]))
  <2>1. k \in 0..count /\ k - 1 \in 0..count
    BY <1>2
  <2>2. Len(es[k]) = 2 + Streams[s] /\ es[k] = EncodeElement(chosen[k]) /\ es[k] \in Seq(Bytes)
        /\ Streams[s] \in Nat
    BY <1>6, <1>7, StreamsAre
  <2>3. Len(f[k]) = Len(f[k - 1]) + Len(es[k]) /\ Len(f[k]) \in Nat /\ Len(f[k - 1]) \in Nat
    BY <1>8, <2>1
  <2>4. Spells(b, 2 + Len(f[k - 1]), es[k])
    BY <1>8, <1>10, <2>2, SpellsWithin, Zenon
  <2>5. ElementOffset(p, s, k) = 2 + Len(f[k]) /\ ElementOffset(p, s, k - 1) = 2 + Len(f[k - 1])
    BY <1>9
  <2>6. Spells(b, ElementOffset(p, s, k - 1), EncodeElement(chosen[k]))
    BY <2>2, <2>4, <2>5, Zenon
  <2> DEFINE x == Len(f[k - 1])
             y == Len(f[k])
             z == Streams[s]
  <2>7. ElementOffset(p, s, k) = 2 + y /\ ElementOffset(p, s, k - 1) = 2 + x
        /\ y = x + (2 + z) /\ x \in Nat /\ z \in Nat
    BY <2>2, <2>3, <2>5, Zenon
  <2> HIDE DEF x, y, z
  <2>8. ElementOffset(p, s, k) = ElementOffset(p, s, k - 1) + (2 + z)
    BY <2>7
  <2> QED BY <2>6, <2>8, Zenon DEF z
<1> QED BY <1>10, <1>11, <1>12, <1>13, <1>14 DEF chosen, count, c, b

-----------------------------------------------------------------------------
(* Records, and the body of a packet.                                      *)

(* The stages of a point, encoded, and where they begin in it; the fifth   *)
(* place is the end of the last one.                                       *)
Stages(p) == [s \in 1..4 |-> EncodeStage(p.vals, s)]
StageOffset(p, s) == 28 + Len(Joined(Bytes, Stages(p))[s - 1])

(* A record is its fields, two bytes, its four stages and two bytes more.  *)
LEMMA PointLayout ==
  ASSUME NEW p, IsAVLData(p)
  PROVE  LET e == EncodePoint(p)
         IN /\ e \in Seq(Bytes) /\ Len(e) = StageOffset(p, 5) + 2
            /\ Spells(e, 0, EncodeFields(p))
            /\ StageOffset(p, 1) = 28
            /\ \A s \in 1..5 : StageOffset(p, s) \in Nat
            /\ \A s \in 1..4 :
                 /\ StageOffset(p, s + 1) = StageOffset(p, s) + Len(EncodeStage(p.vals, s))
                 /\ Spells(e, StageOffset(p, s), EncodeStage(p.vals, s))
<1> DEFINE fields == EncodeFields(p)
           slots == AppendUint16(p.slots)
           stages == Stages(p)
           flat == FlattenSeq(stages)
           last == AppendUint16(0)
           f == Joined(Bytes, stages)
           e == EncodePoint(p)
           c1 == fields \o slots
           c2 == c1 \o flat
<1>1. fields \in Seq(Bytes) /\ Len(fields) = 26
  BY FieldsLayout, Zenon
<1>2. slots \in Seq(Bytes) /\ Len(slots) = 2
  <2>1. p.slots \in Int
    BY FieldsAreInts
  <2> QED BY <2>1, TwoBytesLong, Zenon
<1>3. last \in Seq(Bytes) /\ Len(last) = 2
  <2>1. 0 \in Int
    OBVIOUS
  <2> QED BY <2>1, TwoBytesLong, Zenon
<1>4. stages \in Seq(Seq(Bytes)) /\ Len(stages) = 4
      /\ \A s \in 1..4 : stages[s] = EncodeStage(p.vals, s)
  <2>1. \A s \in 1..4 : EncodeStage(p.vals, s) \in Seq(Bytes)
    BY StageLayout
  <2> HIDE DEF Bytes
  <2> QED BY <2>1 DEF Stages
<1>5. e = c2 \o last
  <2>1. stages = [s \in 1..4 |-> EncodeStage(p.vals, s)]
    BY DEF Stages
  <2> QED BY <2>1 DEF EncodePoint
<1>6. \A i : StageOffset(p, i) = 28 + Len(f[i - 1])
  BY DEF StageOffset
<1> HIDE DEF fields, slots, stages, last, e
<1>7. /\ f[0] = <<>> /\ flat = f[4] /\ flat \in Seq(Bytes)
      /\ \A i \in 0..4 : Len(f[i]) \in Nat
      /\ \A i \in 1..4 : /\ Len(f[i]) = Len(f[i - 1]) + Len(stages[i])
                         /\ Spells(flat, Len(f[i - 1]), stages[i])
  <2> DEFINE n == Len(stages)
  <2>1. /\ f[0] = <<>> /\ flat = f[n] /\ flat \in Seq(Bytes)
        /\ \A i \in 0..n : Len(f[i]) \in Nat
        /\ \A i \in 1..n : /\ Len(f[i]) = Len(f[i - 1]) + Len(stages[i])
                           /\ Spells(flat, Len(f[i - 1]), stages[i])
    BY <1>4, JoinedSpell
  <2>2. n = 4
    BY <1>4
  <2> HIDE DEF n, f, flat
  <2> QED BY <2>1, <2>2
<1> HIDE DEF flat, f
<1>8. /\ c1 \in Seq(Bytes) /\ Len(c1) = Len(fields) + Len(slots) /\ Spells(c1, 0, fields)
  BY <1>1, <1>2, SpellsConcat, Zenon
<1>9. Len(c1) = 28
  BY <1>1, <1>2, <1>8
<1> HIDE DEF c1
<1>10. /\ c2 \in Seq(Bytes) /\ Len(c2) = Len(c1) + Len(flat)
       /\ Spells(c2, Len(c1), flat) /\ Spells(c2, 0, fields)
  BY <1>1, <1>7, <1>8, Extend, Zenon
<1> HIDE DEF c2
<1>11. /\ e \in Seq(Bytes) /\ Len(e) = Len(c2) + Len(last)
       /\ Spells(e, Len(c1), flat) /\ Spells(e, 0, fields)
  BY <1>1, <1>3, <1>5, <1>7, <1>10, Extend, Zenon
<1>12. Spells(e, 28, flat)
  BY <1>9, <1>11, Zenon
<1>13. StageOffset(p, 1) = 28
  <2>1. 1 - 1 = 0 /\ Len(<<>>) = 0 /\ 28 + 0 = 28
    OBVIOUS
  <2>2. StageOffset(p, 1) = 28 + Len(f[1 - 1])
    BY <1>6, Zenon
  <2> QED BY <1>7, <2>1, <2>2, Zenon
<1>14. \A s \in 1..5 : StageOffset(p, s) \in Nat
  <2> TAKE s \in 1..5
  <2>1. s - 1 \in 0..4
    OBVIOUS
  <2>2. Len(f[s - 1]) \in Nat
    BY <1>7, <2>1
  <2> QED BY <1>6, <2>2
<1>15. Len(e) = StageOffset(p, 5) + 2
  <2>1. 5 - 1 = 4 /\ 4 \in 0..4
    OBVIOUS
  <2>2. StageOffset(p, 5) = 28 + Len(f[4])
    BY <1>6, <2>1, Zenon
  <2>3. Len(f[4]) \in Nat
    BY <1>7, <2>1
  <2>4. Len(e) = (28 + Len(f[4])) + 2
    BY <1>3, <1>7, <1>9, <1>10, <1>11, Zenon
  <2> QED BY <2>2, <2>4, Zenon
<1>16. ASSUME NEW s \in 1..4
       PROVE  /\ StageOffset(p, s + 1) = StageOffset(p, s) + Len(stages[s])
              /\ Spells(e, StageOffset(p, s), stages[s])
  <2>1. (s + 1) - 1 = s /\ s - 1 \in 0..4 /\ s \in 0..4
    OBVIOUS
  <2>2. StageOffset(p, s + 1) = 28 + Len(f[s]) /\ StageOffset(p, s) = 28 + Len(f[s - 1])
    BY <1>6, <2>1, Zenon
  <2>3. Len(f[s]) = Len(f[s - 1]) + Len(stages[s])
    BY <1>7
  <2>4. Len(f[s]) \in Nat /\ Len(f[s - 1]) \in Nat /\ Len(stages[s]) \in Nat
    BY <1>4, <1>7, <2>1
  <2>5. Spells(flat, Len(f[s - 1]), stages[s]) /\ stages[s] \in Seq(Bytes)
    <3>1. stages[s] \in Seq(Bytes)
      <4>1. s \in 1..Len(stages)
        BY <1>4
      <4> HIDE DEF Bytes
      <4> QED BY <1>4, <4>1, ElementOfSeq, Zenon
    <3> QED BY <1>7, <3>1, Zenon
  <2>6. Spells(e, 28 + Len(f[s - 1]), stages[s])
    BY <1>7, <1>11, <1>12, <2>5, SpellsWithin, Zenon
  <2>7. Spells(e, StageOffset(p, s), stages[s])
    BY <2>2, <2>6, Zenon
  <2> DEFINE x == Len(f[s - 1])
             y == Len(f[s])
             z == Len(stages[s])
  <2>8. /\ StageOffset(p, s + 1) = 28 + y /\ StageOffset(p, s) = 28 + x
        /\ y = x + z /\ x \in Nat /\ y \in Nat /\ z \in Nat
    BY <2>2, <2>3, <2>4, Zenon
  <2> HIDE DEF x, y, z
  <2>9. StageOffset(p, s + 1) = StageOffset(p, s) + z
    BY <2>8
  <2> QED BY <2>7, <2>9, Zenon DEF z
<1>17. \A s \in 1..4 :
         /\ StageOffset(p, s + 1) = StageOffset(p, s) + Len(EncodeStage(p.vals, s))
         /\ Spells(e, StageOffset(p, s), EncodeStage(p.vals, s))
  BY <1>4, <1>16, Zenon
<1> QED BY <1>11, <1>13, <1>14, <1>15, <1>17, Zenon DEF e, fields

(* The records, encoded, and where each of them begins in the body.        *)
Records(ps) == [i \in 1..Len(ps) |-> EncodePoint(ps[i])]
RecordOffset(ps, i) == Len(Joined(Bytes, Records(ps))[i - 1])
AreRecords(ps) ==
  /\ ps \in Seq(ToSet(ps))
  /\ \A i \in 1..Len(ps) : IsAVLData(ps[i])

(* The body of a packet is its records, one after the other.               *)
LEMMA BodyLayout ==
  ASSUME NEW ps, AreRecords(ps)
  PROVE  LET body == EncodeCodec8ExtendedAVLData(ps)
             n == Len(ps)
         IN /\ body \in Seq(Bytes)
            /\ RecordOffset(ps, 1) = 0
            /\ RecordOffset(ps, n + 1) = Len(body)
            /\ \A i \in 1..(n + 1) : RecordOffset(ps, i) \in Nat
            /\ \A i \in 1..n :
                 /\ RecordOffset(ps, i + 1)
                      = RecordOffset(ps, i) + Len(EncodePoint(ps[i]))
                 /\ Spells(body, RecordOffset(ps, i), EncodePoint(ps[i]))
<1> DEFINE n == Len(ps)
           records == Records(ps)
           body == EncodeCodec8ExtendedAVLData(ps)
           f == Joined(Bytes, records)
<1>1. n \in Nat /\ DOMAIN ps = 1..n
  BY DEF AreRecords
<1>2. \A i \in 1..n : EncodePoint(ps[i]) \in Seq(Bytes)
  BY PointLayout DEF AreRecords
<1>3. records = [i \in 1..n |-> EncodePoint(ps[i])]
  BY DEF Records
<1>4. body = FlattenSeq(records)
  BY <1>1, <1>3 DEF EncodeCodec8ExtendedAVLData
<1>5. \A i : RecordOffset(ps, i) = Len(f[i - 1])
  BY DEF RecordOffset
<1> HIDE DEF n, records, body
<1>6. records \in Seq(Seq(Bytes)) /\ Len(records) = n
      /\ \A i \in 1..n : records[i] = EncodePoint(ps[i])
  <2> HIDE DEF Bytes
  <2> QED BY <1>1, <1>2, <1>3
<1>7. /\ f[0] = <<>> /\ body = f[n] /\ body \in Seq(Bytes)
      /\ \A i \in 0..n : Len(f[i]) \in Nat
      /\ \A i \in 1..n : /\ Len(f[i]) = Len(f[i - 1]) + Len(records[i])
                         /\ Spells(body, Len(f[i - 1]), records[i])
  BY <1>4, <1>6, JoinedSpell
<1> HIDE DEF f
<1>8. RecordOffset(ps, 1) = 0
  <2>1. 1 - 1 = 0 /\ Len(<<>>) = 0
    OBVIOUS
  <2> QED BY <1>5, <1>7, <2>1, Zenon
<1>9. RecordOffset(ps, n + 1) = Len(body)
  <2>1. (n + 1) - 1 = n
    BY <1>1
  <2> QED BY <1>5, <1>7, <2>1, Zenon
<1>10. \A i \in 1..(n + 1) : RecordOffset(ps, i) \in Nat
  <2> TAKE i \in 1..(n + 1)
  <2>1. i - 1 \in 0..n
    BY <1>1
  <2> QED BY <1>5, <1>7, <2>1, Zenon
<1>11. \A i \in 1..n : /\ RecordOffset(ps, i + 1)
                            = RecordOffset(ps, i) + Len(EncodePoint(ps[i]))
                       /\ Spells(body, RecordOffset(ps, i), EncodePoint(ps[i]))
  <2> TAKE i \in 1..n
  <2>1. (i + 1) - 1 = i
    BY <1>1
  <2> QED BY <1>5, <1>6, <1>7, <2>1, Zenon
<1> QED BY <1>7, <1>8, <1>9, <1>10, <1>11, Zenon DEF n, body

-----------------------------------------------------------------------------
(* What the elements are decoded to.                                       *)

(* Every table of fields is a list.                                        *)
LEMMA FieldLists == \A id \in DOMAIN Fields : \E m \in Nat : DOMAIN Fields[id] = 1..m
<1>10. DOMAIN Fields145 = 1..10
  BY DEF Fields145
<1>11. DOMAIN Fields146 = 1..22
  BY DEF Fields146
<1>12. DOMAIN Fields147 = 1..5
  BY DEF Fields147
<1>13. DOMAIN Fields148 = 1..6
  BY DEF Fields148
<1>14. DOMAIN Fields149 = 1..8
  BY DEF Fields149
<1>15. DOMAIN Fields150 = 1..4
  BY DEF Fields150
<1>16. DOMAIN Fields151 = 1..4
  BY DEF Fields151
<1>17. DOMAIN Fields152 = 1..4
  BY DEF Fields152
<1>18. DOMAIN Fields153 = 1..4
  BY DEF Fields153
<1>19. DOMAIN Fields154 = 1..3
  BY DEF Fields154
<1> SUFFICES ASSUME NEW id \in DOMAIN Fields PROVE \E m \in Nat : DOMAIN Fields[id] = 1..m
  OBVIOUS
<1>3. id \in 145..154
  BY DEF Fields
<1>4. Fields[id] \in {Fields145, Fields146, Fields147, Fields148, Fields149,
                      Fields150, Fields151, Fields152, Fields153, Fields154}
  BY <1>3 DEF Fields
<1>5. \E m \in {3, 4, 5, 6, 8, 10, 22} : DOMAIN Fields[id] = 1..m
  BY <1>10, <1>11, <1>12, <1>13, <1>14, <1>15, <1>16, <1>17, <1>18, <1>19,
     <1>4, Zenon
<1> QED BY <1>5

(* A sequence, whatever it holds.                                          *)
IsList(x) == x \in Seq({x[i] : i \in DOMAIN x})

(* What an element is decoded to is a list.                                *)
LEMMA DecodeLists ==
  ASSUME NEW s \in 1..4, NEW id, NEW bytes
  PROVE  IsList(Decode(s, id, bytes))
<1>1. \A x : IsList(<<x>>)
  BY DEF IsList
<1>2. CASE s = 1
  BY <1>1, <1>2 DEF Decode
<1>3. CASE s = 2
  BY <1>1, <1>3 DEF Decode
<1>4. CASE s = 3
  BY <1>1, <1>4 DEF Decode
<1>5. CASE s = 4
  <2>1. Decode(s, id, bytes) = parseNEightValue(bytes, id)
    BY <1>5 DEF Decode
  <2>2. CASE id \in DOMAIN Fields
    <3>1. PICK m \in Nat : DOMAIN Fields[id] = 1..m
      BY <2>2, FieldLists
    <3> DEFINE one(k) == FieldElement(Fields[id][k], bytes)
               d == [k \in 1..m |-> one(k)]
    <3>2. parseNEightValue(bytes, id) = d
      BY <2>2, <3>1 DEF parseNEightValue
    <3> HIDE DEF one
    <3>3. IsList(d)
      BY DEF IsList
    <3> QED BY <2>1, <3>2, <3>3
  <2>3. CASE id \notin DOMAIN Fields
    BY <1>1, <2>1, <2>3 DEF parseNEightValue
  <2> QED BY <2>2, <2>3
<1> QED BY <1>2, <1>3, <1>4, <1>5

(* The elements of a point, decoded, and those of them that are known when *)
(* k elements of stage s have been read.                                   *)
Decoded(p, s) ==
  [i \in 1..Len(Chosen(p.vals, s)) |->
     Decode(s, Chosen(p.vals, s)[i].id, Chosen(p.vals, s)[i].stream)]
Meanings(p) == [s \in 1..4 |-> FlattenSeq(Decoded(p, s))]
Items(d) == {d[j] : j \in DOMAIN d}
Parsed(p) == UNION {UNION {Items(Decoded(p, s)[i]) : i \in DOMAIN Decoded(p, s)} : s \in 1..4}
Known(p, s, k) == Joined(Parsed(p), Meanings(p))[s - 1] \o Joined(Parsed(p), Decoded(p, s))[k]

(* What is known when the stages end is all of it; an element adds what it *)
(* is decoded to.                                                          *)
LEMMA KnownGrows ==
  ASSUME NEW p, IsAVLData(p)
  PROVE  /\ Known(p, 1, 0) = <<>>
         /\ Known(p, 4, Len(Chosen(p.vals, 4))) = SentElements(p)
         /\ \A s \in 1..3 : Known(p, s, Len(Chosen(p.vals, s))) = Known(p, s + 1, 0)
         /\ \A s \in 1..4 : \A k \in 1..Len(Chosen(p.vals, s)) :
              Known(p, s, k)
                = Known(p, s, k - 1)
                    \o Decode(s, Chosen(p.vals, s)[k].id, Chosen(p.vals, s)[k].stream)
         /\ SentElements(p) \in Seq(Parsed(p))
<1> DEFINE S == Parsed(p)
           all == Meanings(p)
           count(s) == Len(Chosen(p.vals, s))
           f == Joined(S, all)
           g(s) == Joined(S, Decoded(p, s))
<1>1. \A s \in 1..4 : count(s) \in Nat
  BY ChosenFill
<1>2. ASSUME NEW s \in 1..4 PROVE Decoded(p, s) \in Seq(Seq(S)) /\ Len(Decoded(p, s)) = count(s)
  <2> DEFINE d == Decoded(p, s)
             item(i) == Decode(s, Chosen(p.vals, s)[i].id, Chosen(p.vals, s)[i].stream)
  <2>1. d = [i \in 1..count(s) |-> item(i)]
    BY DEF Decoded
  <2>2. \A i \in 1..count(s) : d[i] \in Seq(Items(d[i]))
    <3> TAKE i \in 1..count(s)
    <3>1. d[i] = item(i)
      BY <2>1
    <3>2. IsList(item(i))
      BY DecodeLists, Zenon
    <3> QED BY <3>1, <3>2 DEF IsList, Items
  <2>3. \A i \in 1..count(s) : Items(d[i]) \subseteq S
    <3>1. DOMAIN d = 1..count(s)
      BY <2>1
    <3> QED BY <3>1 DEF Parsed
  <2> HIDE DEF d, S, count, item
  <2>4. \A i \in 1..count(s) : d[i] \in Seq(S)
    <3> TAKE i \in 1..count(s)
    <3>1. d[i] \in Seq(Items(d[i])) /\ Items(d[i]) \subseteq S
      BY <2>2, <2>3
    <3> QED BY <3>1, SeqMonotonic, Zenon
  <2>5. count(s) \in Nat
    BY <1>1
  <2> USE DEF count
  <2>6. d \in Seq(Seq(S)) /\ Len(d) = count(s)
    <3> HIDE DEF count
    <3>1. d = [i \in 1..count(s) |-> d[i]]
      BY <2>1
    <3>2. d \in [1..count(s) -> Seq(S)]
      BY <2>4, <3>1
    <3>3. d \in Seq(Seq(S))
      BY <2>5, <3>2
    <3>4. Len(d) = count(s)
      BY <2>5, <3>2
    <3> QED BY <3>3, <3>4
  <2> QED BY <2>6 DEF d
<1>3. \A s \in 1..4 : \A k \in 1..count(s) :
        Decoded(p, s)[k] = Decode(s, Chosen(p.vals, s)[k].id, Chosen(p.vals, s)[k].stream)
  BY DEF Decoded
<1>4. \A s \in 1..4 : /\ g(s)[0] = <<>>
                      /\ \A k \in 0..count(s) : g(s)[k] \in Seq(S)
                      /\ \A k \in 1..count(s) : g(s)[k] = g(s)[k - 1] \o Decoded(p, s)[k]
                      /\ FlattenSeq(Decoded(p, s)) = g(s)[count(s)]
                      /\ FlattenSeq(Decoded(p, s)) \in Seq(S)
  <2> TAKE s \in 1..4
  <2> DEFINE d == Decoded(p, s)
             n == Len(d)
             h == Joined(S, d)
  <2>1. d \in Seq(Seq(S)) /\ n = count(s)
    BY <1>2
  <2> HIDE DEF S, d
  <2>2. /\ h[0] = <<>>
        /\ \A k \in 0..n : h[k] \in Seq(S)
        /\ \A k \in 1..n : h[k] = h[k - 1] \o d[k]
        /\ FlattenSeq(d) = h[n] /\ FlattenSeq(d) \in Seq(S)
    BY <2>1, JoinedSpell
  <2> HIDE DEF n, count
  <2> QED BY <2>1, <2>2 DEF d
<1>5. all \in Seq(Seq(S)) /\ Len(all) = 4 /\ \A s \in 1..4 : all[s] = FlattenSeq(Decoded(p, s))
  <2> HIDE DEF S
  <2> QED BY <1>4 DEF Meanings
<1>6. SentElements(p) = FlattenSeq(all)
  <2>1. \A s \in 1..4 : DOMAIN Chosen(p.vals, s) = 1..count(s)
    BY ChosenFill
  <2>2. \A s \in 1..4 :
          FlattenSeq([i \in DOMAIN Chosen(p.vals, s) |->
                        Decode(s, Chosen(p.vals, s)[i].id, Chosen(p.vals, s)[i].stream)])
            = FlattenSeq(Decoded(p, s))
    BY <2>1 DEF Decoded
  <2>3. all = [s \in 1..4 |->
          FlattenSeq([i \in DOMAIN Chosen(p.vals, s) |->
                        Decode(s, Chosen(p.vals, s)[i].id, Chosen(p.vals, s)[i].stream)])]
    BY <2>2 DEF Meanings
  <2> QED BY <2>3 DEF SentElements
<1>7. /\ f[0] = <<>>
      /\ \A s \in 0..4 : f[s] \in Seq(S)
      /\ \A s \in 1..4 : f[s] = f[s - 1] \o all[s]
      /\ FlattenSeq(all) = f[4]
  <2> DEFINE n == Len(all)
  <2> HIDE DEF S, all
  <2>1. /\ f[0] = <<>>
        /\ \A s \in 0..n : f[s] \in Seq(S)
        /\ \A s \in 1..n : f[s] = f[s - 1] \o all[s]
        /\ FlattenSeq(all) = f[n]
    BY <1>5, JoinedSpell
  <2>2. n = 4
    BY <1>5
  <2> HIDE DEF n, f
  <2> QED BY <2>1, <2>2
<1>8. \A s, k : Known(p, s, k) = f[s - 1] \o g(s)[k]
  BY DEF Known
<1> HIDE DEF S, all, f, g, count
<1>9. <<>> \in Seq(S)
  OBVIOUS
<1>10. Known(p, 1, 0) = <<>>
  <2>1. 1 - 1 = 0 /\ 1 \in 1..4
    OBVIOUS
  <2>2. Known(p, 1, 0) = f[1 - 1] \o g(1)[0]
    BY <1>8, Zenon
  <2>3. f[1 - 1] = <<>>
    BY <1>7, <2>1, Zenon
  <2>4. g(1)[0] = <<>>
    BY <1>4, <2>1, Zenon
  <2>5. Known(p, 1, 0) = <<>> \o <<>>
    BY <2>2, <2>3, <2>4, Zenon
  <2>6. <<>> \o <<>> = <<>>
    OBVIOUS
  <2> QED BY <2>5, <2>6, Zenon
<1>11. \A s \in 1..4 : Known(p, s, count(s)) = f[s]
  <2> TAKE s \in 1..4
  <2>1. g(s)[count(s)] = all[s]
    BY <1>4, <1>5, Zenon
  <2>2. Known(p, s, count(s)) = f[s - 1] \o g(s)[count(s)]
    BY <1>8, Zenon
  <2>3. f[s] = f[s - 1] \o all[s]
    BY <1>7, Zenon
  <2> QED BY <2>1, <2>2, <2>3, Zenon
<1>12. \A s \in 1..3 : Known(p, s + 1, 0) = f[s]
  <2> TAKE s \in 1..3
  <2>1. (s + 1) - 1 = s /\ s + 1 \in 1..4 /\ s \in 0..4
    OBVIOUS
  <2>2. Known(p, s + 1, 0) = f[s] \o g(s + 1)[0]
    <3>1. Known(p, s + 1, 0) = f[(s + 1) - 1] \o g(s + 1)[0]
      BY <1>8, <2>1, Zenon
    <3>2. f[(s + 1) - 1] = f[s]
      BY <2>1, Zenon
    <3> QED BY <3>1, <3>2, Zenon
  <2> DEFINE h == f[s]
  <2>3. h \in Seq(S)
    BY <1>7, <2>1, Zenon
  <2>4. g(s + 1)[0] = <<>>
    BY <1>4, <2>1, Zenon
  <2>5. Known(p, s + 1, 0) = h \o <<>>
    BY <2>2, <2>4, Zenon
  <2> HIDE DEF h
  <2>6. h \o <<>> = h
    BY <2>3, ConcatEmptySeq
  <2> QED BY <2>5, <2>6, Zenon DEF h
<1>13. Known(p, 4, count(4)) = SentElements(p)
  <2>1. 4 \in 1..4
    OBVIOUS
  <2> QED BY <1>6, <1>7, <1>11, <2>1, Zenon
<1>14. ASSUME NEW s \in 1..4, NEW k \in 1..count(s)
       PROVE  Known(p, s, k) = Known(p, s, k - 1) \o Decoded(p, s)[k]
  <2>1. s - 1 \in 0..4 /\ k - 1 \in 0..count(s) /\ k \in 1..Len(Decoded(p, s))
    BY <1>1, <1>2
  <2>2. f[s - 1] \in Seq(S) /\ g(s)[k - 1] \in Seq(S)
    BY <1>4, <1>7, <2>1
  <2>3. Decoded(p, s) \in Seq(Seq(S))
    BY <1>2
  <2>4. Decoded(p, s)[k] \in Seq(S)
    BY <2>1, <2>3, ElementOfSeq, Zenon
  <2> DEFINE before == f[s - 1]
             read == g(s)[k - 1]
             new == Decoded(p, s)[k]
  <2>5. before \in Seq(S) /\ read \in Seq(S) /\ new \in Seq(S)
    BY <2>2, <2>4, Zenon
  <2>6. Known(p, s, k) = before \o g(s)[k] /\ Known(p, s, k - 1) = before \o read
    BY <1>8, Zenon
  <2>7. g(s)[k] = read \o new
    BY <1>4, Zenon
  <2> HIDE DEF before, read, new
  <2>8. (before \o read) \o new = before \o (read \o new)
    BY <2>5, ConcatAssociative
  <2>9. Known(p, s, k) = (before \o read) \o new
    BY <2>6, <2>7, <2>8, Zenon
  <2> QED BY <2>6, <2>9, Zenon DEF new
<1>15. \A s \in 1..3 : Known(p, s, count(s)) = Known(p, s + 1, 0)
  <2>1. \A s \in 1..3 : s \in 1..4
    OBVIOUS
  <2> QED BY <1>11, <1>12, <2>1, Zenon
<1>16. \A s \in 1..4 : \A k \in 1..count(s) :
         Known(p, s, k)
           = Known(p, s, k - 1)
               \o Decode(s, Chosen(p.vals, s)[k].id, Chosen(p.vals, s)[k].stream)
  <2> TAKE s \in 1..4
  <2> TAKE k \in 1..count(s)
  <2> QED BY <1>3, <1>14, Zenon
<1>17. SentElements(p) \in Seq(S)
  <2>1. 4 \in 0..4
    OBVIOUS
  <2> QED BY <1>6, <1>7, <2>1, Zenon
<1> QED BY <1>10, <1>13, <1>15, <1>16, <1>17, Zenon DEF count, S

-----------------------------------------------------------------------------
(* The packet on the wire.                                                 *)

(* A count as the packet has it.                                           *)
LowByte(x) == x % 256

(* The packet around the records.                                          *)
LEMMA PacketLayout ==
  ASSUME NEW codec \in Bytes, NEW count \in Nat, NEW closing \in Nat,
         NEW ps, AreRecords(ps)
  PROVE  LET body == EncodeCodec8ExtendedAVLData(ps)
             w == MakePacket(codec, count, ps, closing)
         IN /\ w \in Seq(Bytes) /\ Len(w) = Len(body) + 15
            /\ Spells(w, 0, Zeros(4))
            /\ w[9] = codec /\ w[10] = LowByte(count)
            /\ Spells(w, 10, body)
            /\ w[Len(body) + 11] = LowByte(closing)
<1> DEFINE body == EncodeCodec8ExtendedAVLData(ps)
           size == AppendUint32(Len(body) + 1)
           head == <<codec, count % 256>>
           closes == <<closing % 256>>
           zeros == Zeros(4)
           w1 == zeros \o size
           w2 == w1 \o head
           w3 == w2 \o body
           w4 == w3 \o closes
           w == w4 \o zeros
<1>1. body \in Seq(Bytes)
  BY BodyLayout
<1>2. size \in Seq(Bytes) /\ Len(size) = 4
  <2>1. Len(body) + 1 \in Int
    <3> HIDE DEF body
    <3> QED BY <1>1
  <2> QED BY <2>1, FourBytesLong, Zenon
<1>3. zeros \in Seq(Bytes) /\ Len(zeros) = 4
  <2>1. 4 \in Nat
    OBVIOUS
  <2> QED BY <2>1, ZerosBytes, Zenon
<1>4. \A x \in Nat : x % 256 \in Bytes
  BY Octets, Z3
<1>5. head \in Seq(Bytes) /\ Len(head) = 2 /\ head[1] = codec /\ head[2] = count % 256
  <2>1. count % 256 \in Bytes
    BY <1>4
  <2> DEFINE c == count % 256
  <2>2. c \in Bytes
    BY <2>1
  <2> HIDE DEF c, Bytes
  <2>3. <<codec, c>> \in Seq(Bytes) /\ Len(<<codec, c>>) = 2
        /\ <<codec, c>>[1] = codec /\ <<codec, c>>[2] = c
    BY <2>2
  <2> QED BY <2>3 DEF c
<1>6. closes \in Seq(Bytes) /\ Len(closes) = 1 /\ closes[1] = closing % 256
  <2>1. closing % 256 \in Bytes
    BY <1>4
  <2> QED BY <2>1, Singles, Zenon
<1>7. MakePacket(codec, count, ps, closing) = w
  BY DEF MakePacket
<1> DEFINE m == Len(body)
<1>8. m \in Nat
  <2> HIDE DEF body
  <2> QED BY <1>1
<1> HIDE DEF body, size, head, closes, zeros
<1>9. /\ w1 \in Seq(Bytes) /\ Len(w1) = Len(zeros) + Len(size) /\ Spells(w1, 0, zeros)
  BY <1>2, <1>3, SpellsConcat, Zenon
<1>10. Len(w1) = 8
  BY <1>2, <1>3, <1>9
<1> HIDE DEF w1
<1>11. /\ w2 \in Seq(Bytes) /\ Len(w2) = Len(w1) + Len(head)
       /\ Spells(w2, Len(w1), head) /\ Spells(w2, 0, zeros)
  BY <1>3, <1>5, <1>9, Extend, Zenon
<1>12. Len(w2) = 10
  BY <1>5, <1>10, <1>11
<1> HIDE DEF w2
<1>13. /\ w3 \in Seq(Bytes) /\ Len(w3) = Len(w2) + m
       /\ Spells(w3, Len(w2), body) /\ Spells(w3, Len(w1), head) /\ Spells(w3, 0, zeros)
  <2>1. /\ w3 \in Seq(Bytes) /\ Len(w3) = Len(w2) + m /\ Spells(w3, Len(w2), body)
        /\ \A o, u : u \in Seq(Bytes) /\ Spells(w2, o, u) => Spells(w3, o, u)
    BY <1>1, <1>11, Extend, Zenon
  <2> HIDE DEF w3
  <2> QED BY <1>3, <1>5, <1>11, <2>1, Zenon
<1> HIDE DEF w3
<1>14. /\ w4 \in Seq(Bytes) /\ Len(w4) = Len(w3) + Len(closes)
       /\ Spells(w4, Len(w3), closes) /\ Spells(w4, Len(w2), body)
       /\ Spells(w4, Len(w1), head) /\ Spells(w4, 0, zeros)
  <2>1. /\ w4 \in Seq(Bytes) /\ Len(w4) = Len(w3) + Len(closes) /\ Spells(w4, Len(w3), closes)
        /\ \A o, u : u \in Seq(Bytes) /\ Spells(w3, o, u) => Spells(w4, o, u)
    BY <1>6, <1>13, Extend, Zenon
  <2> HIDE DEF w4
  <2>2. Spells(w4, Len(w2), body)
    BY <1>1, <1>13, <2>1, Zenon
  <2>3. Spells(w4, Len(w1), head) /\ Spells(w4, 0, zeros)
    BY <1>3, <1>5, <1>13, <2>1, Zenon
  <2> QED BY <2>1, <2>2, <2>3, Zenon
<1> HIDE DEF w4
<1>15. /\ w \in Seq(Bytes) /\ Len(w) = Len(w4) + Len(zeros)
       /\ Spells(w, Len(w3), closes) /\ Spells(w, Len(w2), body)
       /\ Spells(w, Len(w1), head) /\ Spells(w, 0, zeros)
  <2>1. /\ w \in Seq(Bytes) /\ Len(w) = Len(w4) + Len(zeros)
        /\ \A o, u : u \in Seq(Bytes) /\ Spells(w4, o, u) => Spells(w, o, u)
    BY <1>3, <1>14, Extend, Zenon
  <2> HIDE DEF w
  <2>2. Spells(w, Len(w3), closes) /\ Spells(w, Len(w2), body)
    BY <1>1, <1>6, <1>14, <2>1, Zenon
  <2>3. Spells(w, Len(w1), head) /\ Spells(w, 0, zeros)
    BY <1>3, <1>5, <1>14, <2>1, Zenon
  <2> QED BY <2>1, <2>2, <2>3, Zenon
<1> HIDE DEF w
<1>16. Len(w3) = m + 10 /\ Len(w) = m + 15 /\ Len(w3) + 1 = m + 11
  <2> HIDE DEF m
  <2> QED BY <1>3, <1>6, <1>8, <1>12, <1>13, <1>14, <1>15
<1>17. Spells(w, 10, body) /\ Spells(w, 8, head)
  BY <1>10, <1>12, <1>15, Zenon
<1>18. w[9] = codec /\ w[10] = count % 256
  <2> DEFINE c == count % 256
  <2>1. head[1] = codec /\ head[2] = c /\ Len(head) = 2
    BY <1>5
  <2> HIDE DEF c
  <2>2. w[8 + 1] = codec /\ w[8 + 2] = c
    <3>1. 1 \in 1..Len(head) /\ 2 \in 1..Len(head)
      BY <2>1
    <3>2. \A j \in 1..Len(head) : w[8 + j] = head[j]
      BY <1>17 DEF Spells
    <3> QED BY <2>1, <3>1, <3>2, Zenon
  <2>3. 8 + 1 = 9 /\ 8 + 2 = 10
    OBVIOUS
  <2> QED BY <2>2, <2>3, Zenon DEF c
<1>19. w[m + 11] = closing % 256
  <2>1. Spells(w, Len(w3), <<closing % 256>>)
    BY <1>15 DEF closes
  <2>2. w[Len(w3) + 1] = closing % 256
    BY <2>1, SpellsOne, Zenon
  <2> QED BY <1>16, <2>2, Zenon
<1>20. count % 256 = LowByte(count) /\ closing % 256 = LowByte(closing)
  BY DEF LowByte
<1>21. w[10] = LowByte(count) /\ w[m + 11] = LowByte(closing)
  BY <1>18, <1>19, <1>20
<1> QED BY <1>7, <1>15, <1>16, <1>17, <1>18, <1>21, Zenon DEF body, zeros

(* The places of a packet on the wire.                                     *)
PacketWire(q) == Wire(PacketMessage(q))
RecordAt(q, i) == 10 + RecordOffset(q.points, i)
StageAt(q, i, s) == RecordAt(q, i) + StageOffset(q.points[i], s)
ElementAt(q, i, s, k) == StageAt(q, i, s) + ElementOffset(q.points[i], s, k)

(* The elements of stage s of point i.                                     *)
InStage(q, i, s) == Chosen(q.points[i].vals, s)

(* The codec of a packet, and its two counts.                              *)
CodecOf(q) == IF q.form = "otherCodec" THEN 8 ELSE Codec8Extended
CountOf(q) == IF q.form = "wrapped" THEN 256 ELSE Len(q.points)
ClosingOf(q) ==
  CASE q.form = "wrapped" -> 256
    [] q.form = "miscounted" -> Len(q.points) + 1
    [] OTHER -> Len(q.points)

(* What the assumptions say of a packet.                                   *)
LEMMA PacketsHaveRecords ==
  ASSUME NEW q \in Packets
  PROVE  /\ AreRecords(q.points) /\ q.form \in Forms
         /\ Len(q.points) \in Nat /\ 1 <= Len(q.points) /\ Len(q.points) < 256
         /\ DOMAIN q.points = 1..Len(q.points)
         /\ \A i \in 1..Len(q.points) : IsAVLData(q.points[i])
<1>1. q.form \in Forms /\ q.points \in Seq(ToSet(q.points)) /\ Len(q.points) \in 1..255
  BY PointsAssumption
<1>2. \A i \in 1..Len(q.points) : IsAVLData(q.points[i])
  BY RecordsAssumption
<1>3. AreRecords(q.points)
  BY <1>1, <1>2 DEF AreRecords
<1>4. \A x \in 1..255 : x \in Nat /\ 1 <= x /\ x < 256
  OBVIOUS
<1>5. Len(q.points) \in Nat /\ 1 <= Len(q.points) /\ Len(q.points) < 256
  BY <1>1, <1>4, Zenon
<1>6. DOMAIN q.points = 1..Len(q.points)
  <2> DEFINE ps == q.points
             S == ToSet(ps)
  <2>1. ps \in Seq(S)
    BY <1>1
  <2> HIDE DEF ps, S
  <2>2. DOMAIN ps = 1..Len(ps)
    BY <2>1
  <2> QED BY <2>2 DEF ps
<1> QED BY <1>1, <1>2, <1>3, <1>5, <1>6, Zenon

(* The packets of every form are packets of MakePacket.                    *)
LEMMA WireIs ==
  ASSUME NEW q \in Packets
  PROVE  PacketWire(q) = MakePacket(CodecOf(q), CountOf(q), q.points, ClosingOf(q))
<1>1. PacketMessage(q).kind = "packet" /\ PacketMessage(q).packet = q
  BY DEF PacketMessage
<1>2. "packet" # "imei"
  OBVIOUS
<1> DEFINE n == Len(q.points)
<1>3. PacketWire(q) =
        CASE q.form = "otherCodec" -> MakePacket(8, n, q.points, n)
          [] q.form = "miscounted" -> MakePacket(Codec8Extended, n, q.points, n + 1)
          [] q.form = "wrapped" -> MakePacket(Codec8Extended, 256, q.points, 256)
          [] OTHER -> MakeCodec8Packet(q.points)
  BY <1>1 DEF PacketWire, Wire
<1>4. MakeCodec8Packet(q.points) = MakePacket(Codec8Extended, n, q.points, n)
  BY DEF MakeCodec8Packet
<1> HIDE DEF n
<1>5. CASE q.form = "otherCodec"
  BY <1>3, <1>5 DEF CodecOf, CountOf, ClosingOf, n
<1>6. CASE q.form = "miscounted"
  BY <1>3, <1>6 DEF CodecOf, CountOf, ClosingOf, n
<1>7. CASE q.form = "wrapped"
  BY <1>3, <1>7 DEF CodecOf, CountOf, ClosingOf, n
<1>8. CASE q.form \notin {"otherCodec", "miscounted", "wrapped"}
  BY <1>3, <1>4, <1>8 DEF CodecOf, CountOf, ClosingOf, n
<1> QED BY <1>5, <1>6, <1>7, <1>8

(* Where the records are, and what frames them.                            *)
LEMMA RecordsLayout ==
  ASSUME NEW q \in Packets
  PROVE  LET w == PacketWire(q)
             n == Len(q.points)
         IN /\ w \in Seq(Bytes) /\ Len(w) \in Nat
            /\ \A j \in 1..4 : w[j] = 0
            /\ w[9] = CodecOf(q) /\ w[10] = LowByte(CountOf(q))
            /\ w[Len(w) - 4] = LowByte(ClosingOf(q))
            /\ RecordAt(q, 1) = 10
            /\ RecordAt(q, n + 1) = Len(w) - 5
            /\ \A i \in 1..(n + 1) : RecordAt(q, i) \in Nat
            /\ \A i \in 1..n :
                 /\ RecordAt(q, i + 1) = RecordAt(q, i) + Len(EncodePoint(q.points[i]))
                 /\ RecordAt(q, i + 1) <= Len(w) - 5
                 /\ Spells(w, RecordAt(q, i), EncodePoint(q.points[i]))
<1> DEFINE w == PacketWire(q)
           ps == q.points
           n == Len(ps)
           body == EncodeCodec8ExtendedAVLData(ps)
           m == Len(body)
<1>1. AreRecords(ps) /\ n \in Nat
  BY PacketsHaveRecords
<1>2. CodecOf(q) \in Bytes /\ CountOf(q) \in Nat /\ ClosingOf(q) \in Nat
  <2>1. 8 \in Bytes /\ 142 \in Bytes
    BY Octets
  <2> QED BY <1>1, <2>1 DEF CodecOf, CountOf, ClosingOf, Codec8Extended
<1>3. w = MakePacket(CodecOf(q), CountOf(q), ps, ClosingOf(q))
  BY WireIs
<1> HIDE DEF w, ps
<1> DEFINE mp == MakePacket(CodecOf(q), CountOf(q), ps, ClosingOf(q))
<1>0. /\ mp \in Seq(Bytes) /\ Len(mp) = m + 15
      /\ Spells(mp, 0, Zeros(4))
      /\ mp[9] = CodecOf(q) /\ mp[10] = LowByte(CountOf(q))
      /\ Spells(mp, 10, body)
      /\ mp[m + 11] = LowByte(ClosingOf(q))
  <2> DEFINE c == CodecOf(q)
             a == CountOf(q)
             z == ClosingOf(q)
  <2>1. c \in Bytes /\ a \in Nat /\ z \in Nat /\ AreRecords(ps)
    BY <1>1, <1>2
  <2> HIDE DEF c, a, z, mp, body, m
  <2>2. LET bs == EncodeCodec8ExtendedAVLData(ps)
            v == MakePacket(c, a, ps, z)
        IN /\ v \in Seq(Bytes) /\ Len(v) = Len(bs) + 15
           /\ Spells(v, 0, Zeros(4))
           /\ v[9] = c /\ v[10] = LowByte(a)
           /\ Spells(v, 10, bs)
           /\ v[Len(bs) + 11] = LowByte(z)
    BY <2>1, PacketLayout
  <2> QED BY <2>2, Zenon DEF c, a, z, mp, body, m
<1>4. /\ w \in Seq(Bytes) /\ Len(w) = m + 15
      /\ Spells(w, 0, Zeros(4))
      /\ w[9] = CodecOf(q) /\ w[10] = LowByte(CountOf(q))
      /\ Spells(w, 10, body)
      /\ w[m + 11] = LowByte(ClosingOf(q))
  BY <1>3, <1>0, Zenon
<1>5. /\ body \in Seq(Bytes)
      /\ RecordOffset(ps, 1) = 0 /\ RecordOffset(ps, n + 1) = m
      /\ \A i \in 1..(n + 1) : RecordOffset(ps, i) \in Nat
      /\ \A i \in 1..n :
           /\ RecordOffset(ps, i + 1) = RecordOffset(ps, i) + Len(EncodePoint(ps[i]))
           /\ Spells(body, RecordOffset(ps, i), EncodePoint(ps[i]))
  BY <1>1, BodyLayout
<1>6. \A i : RecordAt(q, i) = 10 + RecordOffset(ps, i)
  BY DEF RecordAt, ps
<1> HIDE DEF body
<1>7. m \in Nat
  BY <1>5
<1> HIDE DEF m
<1>8. \A j \in 1..4 : w[j] = 0
  <2>1. Len(Zeros(4)) = 4 /\ \A j \in 1..4 : Zeros(4)[j] = 0
    BY DEF Zeros
  <2>2. \A j \in 1..Len(Zeros(4)) : w[0 + j] = Zeros(4)[j]
    BY <1>4 DEF Spells
  <2>3. \A j \in 1..4 : 0 + j = j
    OBVIOUS
  <2> QED BY <2>1, <2>2, <2>3
<1>9. w[Len(w) - 4] = LowByte(ClosingOf(q))
  <2>1. Len(w) - 4 = m + 11
    BY <1>4, <1>7
  <2> QED BY <1>4, <2>1, Zenon
<1>10. RecordAt(q, 1) = 10 /\ RecordAt(q, n + 1) = Len(w) - 5 /\ Len(w) \in Nat
  BY <1>4, <1>5, <1>6, <1>7
<1>11. \A i \in 1..(n + 1) : RecordAt(q, i) \in Nat
  BY <1>5, <1>6
<1>12. ASSUME NEW i \in 1..n
       PROVE  /\ RecordAt(q, i + 1) = RecordAt(q, i) + Len(EncodePoint(ps[i]))
              /\ RecordAt(q, i + 1) <= Len(w) - 5
              /\ Spells(w, RecordAt(q, i), EncodePoint(ps[i]))
  <2> DEFINE o == RecordOffset(ps, i)
             o2 == RecordOffset(ps, i + 1)
             e == EncodePoint(ps[i])
             k == Len(e)
  <2>1. e \in Seq(Bytes)
    BY <1>1, PointLayout DEF AreRecords
  <2>2. o \in Nat /\ o2 = o + k /\ Spells(body, o, e)
    <3>1. i \in 1..(n + 1)
      BY <1>1
    <3> QED BY <1>5, <3>1, Zenon
  <2>3. Spells(w, 10 + o, e)
    BY <1>4, <1>5, <2>1, <2>2, SpellsWithin, Zenon
  <2>4. o + k <= m /\ k \in Nat
    BY <2>2 DEF Spells, m
  <2>5. RecordAt(q, i) = 10 + o /\ RecordAt(q, i + 1) = 10 + o2
    BY <1>6, Zenon
  <2> HIDE DEF o, o2, k
  <2>6. RecordAt(q, i + 1) = RecordAt(q, i) + k /\ RecordAt(q, i + 1) <= Len(w) - 5
    BY <1>4, <1>7, <2>2, <2>4, <2>5
  <2>7. Spells(w, RecordAt(q, i), e)
    BY <2>3, <2>5, Zenon
  <2> QED BY <2>6, <2>7 DEF k
<1> QED BY <1>4, <1>8, <1>9, <1>10, <1>11, <1>12, Zenon DEF w, n, ps

(* Where the fields, the stages and the elements of a record are.          *)
LEMMA StagesLayout ==
  ASSUME NEW q \in Packets, NEW i \in 1..Len(q.points)
  PROVE  LET w == PacketWire(q)
         IN /\ Spells(w, RecordAt(q, i), EncodeFields(q.points[i]))
            /\ StageAt(q, i, 1) = RecordAt(q, i) + 28
            /\ StageAt(q, i, 5) + 2 = RecordAt(q, i + 1)
            /\ \A s \in 1..5 : StageAt(q, i, s) \in Nat
            /\ \A s \in 1..4 :
                 /\ Spells(w, StageAt(q, i, s), EncodeStage(q.points[i].vals, s))
                 /\ StageAt(q, i, s + 1)
                      = StageAt(q, i, s) + Len(EncodeStage(q.points[i].vals, s))
<1> DEFINE w == PacketWire(q)
           p == q.points[i]
           e == EncodePoint(p)
           r == RecordAt(q, i)
           fields == EncodeFields(p)
           d(s) == StageOffset(p, s)
           c(s) == EncodeStage(p.vals, s)
<1>1. IsAVLData(p) /\ i \in 1..(Len(q.points) + 1)
  BY PacketsHaveRecords
<1>2. /\ w \in Seq(Bytes) /\ r \in Nat
      /\ RecordAt(q, i + 1) = r + Len(e) /\ Spells(w, r, e)
  BY <1>1, RecordsLayout
<1>3. /\ e \in Seq(Bytes) /\ Len(e) = d(5) + 2 /\ Spells(e, 0, fields) /\ d(1) = 28
      /\ \A s \in 1..5 : d(s) \in Nat
      /\ \A s \in 1..4 : d(s + 1) = d(s) + Len(c(s)) /\ Spells(e, d(s), c(s))
  BY <1>1, PointLayout
<1>4. fields \in Seq(Bytes) /\ \A s \in 1..4 : c(s) \in Seq(Bytes)
  BY <1>1, FieldsLayout, StageLayout
<1>5. \A s : StageAt(q, i, s) = r + d(s)
  BY DEF StageAt
<1> HIDE DEF w, p, e, r, fields, d, c
<1>6. Spells(w, r, fields)
  <2>1. Spells(w, r + 0, fields)
    BY <1>2, <1>3, <1>4, SpellsWithin, Zenon
  <2>2. r + 0 = r
    BY <1>2
  <2> QED BY <2>1, <2>2, Zenon
<1>7. StageAt(q, i, 1) = r + 28 /\ \A s \in 1..5 : StageAt(q, i, s) \in Nat
  <2>1. \A s \in 1..5 : d(s) \in Nat /\ StageAt(q, i, s) = r + d(s)
    BY <1>3, <1>5, Zenon
  <2>2. \A x \in Nat : r + x \in Nat
    BY <1>2
  <2>3. StageAt(q, i, 1) = r + 28
    BY <1>3, <1>5, Zenon
  <2> QED BY <2>1, <2>2, <2>3, Zenon
<1>8. StageAt(q, i, 5) + 2 = RecordAt(q, i + 1)
  <2>1. 5 \in 1..5
    OBVIOUS
  <2> DEFINE o == d(5)
             l == Len(e)
  <2>2. o \in Nat /\ l = o + 2 /\ StageAt(q, i, 5) = r + o /\ RecordAt(q, i + 1) = r + l
    BY <1>2, <1>3, <1>5, <2>1, Zenon
  <2> HIDE DEF o, l
  <2> QED BY <1>2, <2>2
<1>9. ASSUME NEW s \in 1..4
      PROVE  /\ Spells(w, StageAt(q, i, s), c(s))
             /\ StageAt(q, i, s + 1) = StageAt(q, i, s) + Len(c(s))
  <2>1. s \in 1..5 /\ s + 1 \in 1..5
    OBVIOUS
  <2>2. Spells(w, r + d(s), c(s))
    BY <1>2, <1>3, <1>4, SpellsWithin, Zenon
  <2>3. StageAt(q, i, s) = r + d(s) /\ StageAt(q, i, s + 1) = r + d(s + 1)
    BY <1>5, Zenon
  <2>4. d(s + 1) = d(s) + Len(c(s)) /\ d(s) \in Nat /\ d(s + 1) \in Nat
    BY <1>3, <2>1, Zenon
  <2>5. Len(c(s)) \in Nat
    BY <1>4
  <2> DEFINE x == d(s)
             y == d(s + 1)
             z == Len(c(s))
  <2>6. /\ StageAt(q, i, s) = r + x /\ StageAt(q, i, s + 1) = r + y
        /\ y = x + z /\ x \in Nat /\ z \in Nat
    BY <2>3, <2>4, <2>5, Zenon
  <2> HIDE DEF x, y, z
  <2>7. StageAt(q, i, s + 1) = StageAt(q, i, s) + z
    BY <1>2, <2>6
  <2> QED BY <2>2, <2>3, <2>7, Zenon DEF z
<1>10. \A s \in 1..4 : /\ Spells(w, StageAt(q, i, s), c(s))
                       /\ StageAt(q, i, s + 1) = StageAt(q, i, s) + Len(c(s))
  BY <1>9, Zenon
<1> QED BY <1>6, <1>7, <1>8, <1>10, Zenon DEF w, p, fields, r, c

(* Where the elements of a stage are.                                      *)
LEMMA ElementsLayout ==
  ASSUME NEW q \in Packets, NEW i \in 1..Len(q.points), NEW s \in 1..4
  PROVE  LET w == PacketWire(q)
             count == Len(InStage(q, i, s))
         IN /\ Spells(w, StageAt(q, i, s), AppendUint16(count))
            /\ ElementAt(q, i, s, 0) = StageAt(q, i, s) + 2
            /\ ElementAt(q, i, s, count) = StageAt(q, i, s + 1)
            /\ \A k \in 0..count :
                 /\ ElementAt(q, i, s, k) \in Nat
                 /\ StageAt(q, i, s) + 2 <= ElementAt(q, i, s, k)
            /\ \A k \in 1..count :
                 /\ ElementAt(q, i, s, k) = ElementAt(q, i, s, k - 1) + (2 + Streams[s])
                 /\ Spells(w, ElementAt(q, i, s, k - 1), EncodeElement(InStage(q, i, s)[k]))
<1> DEFINE w == PacketWire(q)
           p == q.points[i]
           chosen == Chosen(p.vals, s)
           count == Len(chosen)
           number0 == AppendUint16(count)
           b == EncodeStage(p.vals, s)
           a == StageAt(q, i, s)
           d(k) == ElementOffset(p, s, k)
           e(k) == EncodeElement(chosen[k])
<1>1. IsAVLData(p)
  BY PacketsHaveRecords
<1>2. w \in Seq(Bytes) /\ InStage(q, i, s) = chosen
  BY RecordsLayout DEF InStage
<1>3. Spells(w, a, b) /\ StageAt(q, i, s + 1) = a + Len(b) /\ a \in Nat
  <2>1. s \in 1..5
    OBVIOUS
  <2> QED BY <2>1, StagesLayout
<1>4. /\ b \in Seq(Bytes) /\ Len(b) = d(count) /\ Spells(b, 0, number0) /\ d(0) = 2
      /\ \A k \in 0..count : d(k) \in Nat /\ 2 <= d(k)
      /\ \A k \in 1..count : d(k) = d(k - 1) + (2 + Streams[s]) /\ Spells(b, d(k - 1), e(k))
  BY <1>1, StageLayout
<1>5. chosen \in Seq(Filling(s)) /\ count \in Nat
  <2>1. chosen \in Seq(Filling(s))
    BY <1>1, ChosenFill
  <2> HIDE DEF chosen
  <2> QED BY <2>1
<1>6. number0 \in Seq(Bytes)
  <2>1. count \in Int
    BY <1>5
  <2> QED BY <2>1, TwoBytesLong
<1>7. \A k \in 1..count : e(k) \in Seq(Bytes)
  <2> TAKE k \in 1..count
  <2>1. chosen[k] \in Filling(s)
    <3> HIDE DEF chosen
    <3> QED BY <1>5
  <2> QED BY <2>1, ElementLayout
<1>8. \A k : ElementAt(q, i, s, k) = a + d(k)
  BY DEF ElementAt
<1>9. Streams[s] \in Nat
  BY StreamsAre
<1> HIDE DEF w, p, chosen, count, number0, b, a, d, e
<1>10. Spells(w, a, number0)
  <2>1. Spells(w, a + 0, number0)
    BY <1>2, <1>3, <1>4, <1>6, SpellsWithin, Zenon
  <2>2. a + 0 = a
    BY <1>3
  <2> QED BY <2>1, <2>2, Zenon
<1>11. ElementAt(q, i, s, 0) = a + 2 /\ ElementAt(q, i, s, count) = StageAt(q, i, s + 1)
  BY <1>3, <1>4, <1>8, Zenon
<1>12. \A k \in 0..count : ElementAt(q, i, s, k) \in Nat /\ a + 2 <= ElementAt(q, i, s, k)
  BY <1>3, <1>4, <1>8
<1>13. ASSUME NEW k \in 1..count
       PROVE  /\ ElementAt(q, i, s, k) = ElementAt(q, i, s, k - 1) + (2 + Streams[s])
              /\ Spells(w, ElementAt(q, i, s, k - 1), e(k))
  <2>1. k - 1 \in 0..count /\ k \in 0..count
    BY <1>5
  <2>2. d(k) = d(k - 1) + (2 + Streams[s]) /\ Spells(b, d(k - 1), e(k)) /\ e(k) \in Seq(Bytes)
    BY <1>4, <1>7, Zenon
  <2>3. Spells(w, a + d(k - 1), e(k))
    BY <1>2, <1>3, <1>4, <2>2, SpellsWithin, Zenon
  <2>4. ElementAt(q, i, s, k) = a + d(k) /\ ElementAt(q, i, s, k - 1) = a + d(k - 1)
    BY <1>8, Zenon
  <2>5. d(k - 1) \in Nat
    BY <1>4, <2>1, Zenon
  <2> DEFINE x == d(k - 1)
             y == d(k)
             z == Streams[s]
  <2>6. /\ ElementAt(q, i, s, k - 1) = a + x /\ ElementAt(q, i, s, k) = a + y
        /\ y = x + (2 + z) /\ x \in Nat /\ z \in Nat
    BY <1>9, <2>2, <2>4, <2>5, Zenon
  <2> HIDE DEF x, y, z
  <2>7. ElementAt(q, i, s, k) = ElementAt(q, i, s, k - 1) + (2 + z)
    BY <1>3, <2>6
  <2> QED BY <2>3, <2>4, <2>7, Zenon DEF z
<1>14. \A k \in 1..count :
         /\ ElementAt(q, i, s, k) = ElementAt(q, i, s, k - 1) + (2 + Streams[s])
         /\ Spells(w, ElementAt(q, i, s, k - 1), e(k))
  BY <1>13, Zenon
<1> QED BY <1>2, <1>10, <1>11, <1>12, <1>14, Zenon DEF w, count, number0, a, e

-----------------------------------------------------------------------------
(* What the parser is given.                                               *)

(* What the parser is given.                                               *)
Inputs ==
  /\ message \in {IMEIMessage(d) : d \in IMEIs} \cup {PacketMessage(p) : p \in Packets}
  /\ from \in Starts(message)
  /\ to \in Ends(message, from)
  /\ data = Given(message, from, to)

(* What SubSeq takes from a sequence of bytes.                             *)
LEMMA Stretch ==
  ASSUME NEW w \in Seq(Bytes), NEW f \in Nat, NEW l \in Nat, 1 <= f, f <= l, l <= Len(w)
  PROVE  LET b == SubSeq(w, f, l)
         IN /\ b \in Seq(Bytes) /\ Len(b) = (l - f) + 1
            /\ \A j \in 1..Len(b) : b[j] = w[(f + j) - 1]
<1> HIDE DEF Bytes
<1> DEFINE b == SubSeq(w, f, l)
           c == [j \in 1..((l - f) + 1) |-> w[(f + j) - 1]]
<1>1. b = c
  OBVIOUS
<1>2. \A j \in 1..((l - f) + 1) : w[(f + j) - 1] \in Bytes
  <2> TAKE j \in 1..((l - f) + 1)
  <2>1. (f + j) - 1 \in 1..Len(w)
    OBVIOUS
  <2> QED BY <2>1, ElementOfSeq, Zenon
<1>3. (l - f) + 1 \in Nat
  OBVIOUS
<1>4. c \in Seq(Bytes) /\ Len(c) = (l - f) + 1
      /\ \A j \in 1..((l - f) + 1) : c[j] = w[(f + j) - 1]
  BY <1>2, <1>3
<1> HIDE DEF b, c
<1> QED BY <1>1, <1>4 DEF b

(* A stretch of bytes in a buffer of zeros.                                *)
LEMMA Padded ==
  ASSUME NEW w \in Seq(Bytes), NEW f \in Nat, NEW l \in Nat, 1 <= f, f <= l, l <= Len(w),
         l - f < BufferSize
  PROVE  LET b == SubSeq(w, f, l)
             d == b \o Zeros(BufferSize - Len(b))
         IN /\ d \in Seq(Bytes) /\ Len(d) = BufferSize
            /\ \A j \in 1..((l - f) + 1) : d[j] = w[(f + j) - 1]
            /\ \A j \in 1..BufferSize : (l - f) + 1 < j => d[j] = 0
<1> DEFINE b == SubSeq(w, f, l)
           n == Len(b)
           z == Zeros(BufferSize - n)
           d == b \o z
<1>1. b \in Seq(Bytes) /\ n = (l - f) + 1 /\ \A j \in 1..n : b[j] = w[(f + j) - 1]
  BY Stretch
<1>2. n \in Nat /\ BufferSize - n \in Nat /\ BufferSize \in Nat
  <2>1. BufferSize \in Nat
    BY BufferSizeAssumption
  <2> HIDE DEF n
  <2> QED BY <1>1, <2>1
<1>3. z \in Seq(Bytes) /\ Len(z) = BufferSize - n /\ \A j \in 1..(BufferSize - n) : z[j] = 0
  BY <1>2, ZerosBytes
<1> HIDE DEF b, z
<1>4. /\ d \in Seq(Bytes) /\ Len(d) = Len(b) + Len(z)
      /\ \A j \in 1..Len(b) : d[j] = b[j]
      /\ \A j \in 1..Len(z) : d[Len(b) + j] = z[j]
  <2>1. b \in Seq(Bytes) /\ z \in Seq(Bytes)
    BY <1>1, <1>3, Zenon
  <2> HIDE DEF n
  <2> QED BY <2>1, Concat
<1> HIDE DEF d
<1>5. /\ Len(d) = n + Len(z)
      /\ \A j \in 1..n : d[j] = b[j]
      /\ \A j \in 1..Len(z) : d[n + j] = z[j]
  BY <1>4
<1> HIDE DEF n
<1>6. Len(d) = BufferSize
  BY <1>2, <1>3, <1>5
<1>7. \A j \in 1..((l - f) + 1) : d[j] = w[(f + j) - 1]
  BY <1>1, <1>5
<1>8. ASSUME NEW j \in 1..BufferSize, (l - f) + 1 < j PROVE d[j] = 0
  <2> DEFINE i == j - n
  <2>1. i \in 1..(BufferSize - n) /\ n + i = j
    BY <1>1, <1>2, <1>8
  <2> HIDE DEF i
  <2>2. d[n + i] = z[i] /\ z[i] = 0
    BY <1>3, <1>5, <2>1
  <2> QED BY <2>1, <2>2
<1> QED BY <1>4, <1>6, <1>7, <1>8 DEF d, z, n, b

(* A packet is longer than its header and its trailer.                     *)
LEMMA PacketsAreLong ==
  ASSUME NEW q \in Packets
  PROVE  Len(PacketWire(q)) \in Nat /\ 15 <= Len(PacketWire(q)) /\ PacketWire(q) \in Seq(Bytes)
<1> DEFINE l == Len(PacketWire(q))
           m == Len(EncodePoint(q.points[1]))
<1>1. 1 \in 1..Len(q.points) /\ Len(q.points) \in Nat /\ IsAVLData(q.points[1])
  BY PacketsHaveRecords
<1>2. l \in Nat /\ RecordAt(q, 1) = 10 /\ PacketWire(q) \in Seq(Bytes)
      /\ RecordAt(q, 1 + 1) = RecordAt(q, 1) + m /\ RecordAt(q, 1 + 1) <= l - 5
  BY <1>1, RecordsLayout, Zenon
<1>3. m \in Nat
  BY <1>1, PointLayout
<1> HIDE DEF l, m
<1>4. 15 <= l
  BY <1>2, <1>3
<1> QED BY <1>2, <1>4 DEF l

(* The two kinds of messages.                                              *)
LEMMA Kinds ==
  /\ \A d : IMEIMessage(d).kind = "imei" /\ IMEIMessage(d).digits = d
  /\ \A q : PacketMessage(q).kind = "packet" /\ PacketMessage(q).packet = q
BY DEF IMEIMessage, PacketMessage

(* What DecodeIMEI is given: as many bytes as were read, of the 17.        *)
LEMMA IMEIGiven ==
  ASSUME Inputs, message.kind = "imei"
  PROVE  /\ from = 1 /\ Length = 17 /\ to \in 1..17
         /\ data \in Seq(Bytes) /\ Len(data) = to
         /\ to >= 2 => Uint16(data) = 15
<1>1. PICK d \in IMEIs : message = IMEIMessage(d)
  BY Kinds DEF Inputs
<1> DEFINE w == Wire(message)
           two == <<0, 15>>
<1>2. w = two \o d
  BY <1>1, Kinds DEF Wire, EncodeIMEIToHex
<1>3. d \in Seq(Bytes) /\ Len(d) = 15
  BY DigitsAssumption
<1>4. two \in Seq(Bytes) /\ Len(two) = 2 /\ two[1] = 0 /\ two[2] = 15
  <2>1. 0 \in Bytes /\ 15 \in Bytes
    BY Octets
  <2> HIDE DEF Bytes
  <2> QED BY <2>1
<1> HIDE DEF two
<1>5. /\ two \o d \in Seq(Bytes) /\ Len(two \o d) = Len(two) + Len(d)
      /\ \A i \in 1..Len(two) : (two \o d)[i] = two[i]
  <2>1. two \in Seq(Bytes) /\ d \in Seq(Bytes)
    BY <1>3, <1>4, Zenon
  <2> QED BY <2>1, Concat
<1>6. w \in Seq(Bytes) /\ Len(w) = 17 /\ w[1] = 0 /\ w[2] = 15
  <2>1. Len(w) = 17
    BY <1>2, <1>3, <1>4, <1>5
  <2>2. 1 \in 1..Len(two) /\ 2 \in 1..Len(two)
    BY <1>4
  <2> QED BY <1>2, <1>4, <1>5, <2>1, <2>2, Zenon
<1>7. from = 1
  BY DEF Inputs, Starts
<1>8. to \in 1..17
  <2>1. to \in 1..Lesser(17, BufferSize)
    BY <1>6, <1>7 DEF Inputs, Ends, w
  <2> QED BY <2>1, BufferSizeAssumption DEF Lesser
<1>9. data = SubSeq(w, 1, to)
  BY <1>7 DEF Inputs, Given
<1> HIDE DEF w
<1>10. /\ SubSeq(w, 1, to) \in Seq(Bytes) /\ Len(SubSeq(w, 1, to)) = (to - 1) + 1
       /\ \A j \in 1..Len(SubSeq(w, 1, to)) : SubSeq(w, 1, to)[j] = w[(1 + j) - 1]
  <2>1. 1 \in Nat /\ to \in Nat /\ 1 <= 1 /\ 1 <= to /\ to <= Len(w)
    BY <1>6, <1>8
  <2> QED BY <1>6, <2>1, Stretch, Zenon
<1>11. data \in Seq(Bytes) /\ Len(data) = to
  BY <1>8, <1>9, <1>10
<1>12. ASSUME to >= 2 PROVE Uint16(data) = 15
  <2>1. 1 \in 1..Len(data) /\ 2 \in 1..Len(data) /\ (1 + 1) - 1 = 1 /\ (1 + 2) - 1 = 2
    BY <1>8, <1>11, <1>12
  <2>2. data[1] = 0 /\ data[2] = 15
    BY <1>6, <1>9, <1>10, <2>1, Zenon
  <2> QED BY <2>2 DEF Uint16
<1> QED BY <1>6, <1>7, <1>8, <1>11, <1>12 DEF Length, w

(* The packet that is parsed, and the stretch of it in the buffer.         *)
Packet == message.packet
W == PacketWire(Packet)

(* What ParsePacket is given: the buffer, with the bytes that were read    *)
(* and zeros after them.                                                   *)
LEMMA PacketGiven ==
  ASSUME Inputs, message.kind = "packet"
  PROVE  /\ Packet \in Packets /\ Wire(message) = W /\ Length = Len(W)
         /\ data \in Seq(Bytes) /\ Len(data) = BufferSize
         /\ from = 1 =>
              /\ to \in Nat /\ 1 <= to /\ to <= Length /\ to <= BufferSize
              /\ \A j \in 1..to : data[j] = W[j]
              /\ \A j \in 1..BufferSize : to < j => data[j] = 0
         /\ from # 1 =>
              /\ from > 1 /\ Packet.form = "codec8e"
              /\ data[9] = 0
<1>1. PICK q \in Packets : message = PacketMessage(q)
  BY Kinds DEF Inputs
<1>2. Packet = q /\ message = PacketMessage(Packet) /\ Wire(message) = W /\ Length = Len(W)
  BY <1>1, Kinds DEF Packet, W, PacketWire, Length
<1>3. W \in Seq(Bytes) /\ Len(W) \in Nat /\ 15 <= Len(W)
  BY <1>2, PacketsAreLong DEF W
<1>4. BufferSize \in Nat /\ 15 <= BufferSize
  BY BufferSizeAssumption
<1> DEFINE w == W
           n == Len(w)
           b == SubSeq(w, from, to)
           d == b \o Zeros(BufferSize - Len(b))
<1>5. data = d
  BY <1>2 DEF Inputs, Given
<1> HIDE DEF d
<1>6. CASE from = 1
  <2>1. to \in 1..Lesser(n, BufferSize)
    BY <1>2, <1>6 DEF Inputs, Ends
  <2>2. to \in Nat /\ 1 <= to /\ to <= n /\ to <= BufferSize
    <3> HIDE DEF w, n
    <3>1. n \in Nat
      BY <1>3 DEF w, n
    <3> QED BY <1>4, <2>1, <3>1 DEF Lesser
  <2> HIDE DEF w
  <2>3. /\ d \in Seq(Bytes) /\ Len(d) = BufferSize
        /\ \A j \in 1..((to - from) + 1) : d[j] = w[(from + j) - 1]
        /\ \A j \in 1..BufferSize : (to - from) + 1 < j => d[j] = 0
    <3>1. from \in Nat /\ 1 <= from /\ from <= to /\ to - from < BufferSize /\ w \in Seq(Bytes)
      <4>1. w \in Seq(Bytes)
        BY <1>3 DEF w
      <4> HIDE DEF n
      <4> QED BY <1>4, <1>6, <2>2, <4>1
    <3> QED BY <2>2, <3>1, Padded, Zenon DEF d, n
  <2>4. /\ \A j \in 1..to : data[j] = w[j]
        /\ \A j \in 1..BufferSize : to < j => data[j] = 0
    <3>1. (to - from) + 1 = to /\ \A j \in 1..to : (from + j) - 1 = j
      BY <1>6, <2>2
    <3> QED BY <1>5, <2>3, <3>1, Zenon
  <2> QED BY <1>1, <1>2, <1>3, <1>5, <1>6, <2>2, <2>3, <2>4 DEF w
<1>7. CASE from # 1
  <2>1. Packet.form = "codec8e" /\ from \in (n - 3)..n /\ to \in {n}
    BY <1>2, <1>7 DEF Inputs, Starts, Ends, Packet
  <2> HIDE DEF w
  <2>2. n \in Nat /\ 15 <= n
    BY <1>3 DEF w
  <2> HIDE DEF n
  <2>3. /\ from \in Nat /\ to \in Nat /\ 1 <= from /\ from <= to /\ to - from < 4
        /\ to - from < BufferSize /\ from > 1 /\ to = n /\ to <= n
    BY <1>4, <2>1, <2>2
  <2>4. /\ d \in Seq(Bytes) /\ Len(d) = BufferSize
        /\ \A j \in 1..BufferSize : (to - from) + 1 < j => d[j] = 0
    <3>1. w \in Seq(Bytes)
      BY <1>3 DEF w
    <3> QED BY <2>3, <3>1, Padded, Zenon DEF d, n
  <2>5. 9 \in 1..BufferSize /\ (to - from) + 1 < 9
    BY <1>4, <2>3
  <2>6. data[9] = 0
    BY <1>5, <2>4, <2>5, Zenon
  <2> QED BY <1>1, <1>2, <1>5, <1>7, <2>1, <2>3, <2>4, <2>6
<1> QED BY <1>6, <1>7

-----------------------------------------------------------------------------
(* Where the parser is.                                                    *)

(* What a reader is given, when there is enough of it.                     *)
LEMMA NextIs ==
  ASSUME data \in Seq(Bytes), pos \in Nat, NEW n \in Nat, 1 <= n, pos + n <= Len(data)
  PROVE  /\ NextBytes(n) = SubSeq(data, pos + 1, pos + n)
         /\ NextBytes(n) \in Seq(Bytes) /\ Len(NextBytes(n)) = n
         /\ \A j \in 1..n : NextBytes(n)[j] = data[pos + j]
<1> DEFINE f == pos + 1
           l == pos + n
           b == SubSeq(data, f, l)
<1> HIDE DEF Bytes
<1>1. f \in Nat /\ l \in Nat /\ 1 <= f /\ f <= l /\ l <= Len(data) /\ (l - f) + 1 = n
      /\ \A j \in 1..n : (f + j) - 1 = pos + j
  OBVIOUS
<1>2. NextBytes(n) = b
  <2>1. Lesser(l, Len(data)) = l
    BY <1>1 DEF Lesser
  <2> QED BY <2>1 DEF NextBytes
<1> HIDE DEF f, l
<1>3. /\ b \in Seq(Bytes) /\ Len(b) = (l - f) + 1
      /\ \A j \in 1..Len(b) : b[j] = data[(f + j) - 1]
  BY <1>1, Stretch, Zenon
<1>4. Len(b) = n /\ \A j \in 1..n : b[j] = data[pos + j]
  BY <1>1, <1>3
<1> QED BY <1>2, <1>3, <1>4 DEF f, l

(* The numbers of two bytes.                                               *)
Small(x) == x \in Nat /\ x < 65536

(* Two bytes read as such a number.                                        *)
LEMMA TwoRead ==
  ASSUME NEW b \in Seq(Bytes), Len(b) >= 2
  PROVE  Small(Uint16(b))
<1>1. b[1] \in Bytes /\ b[2] \in Bytes
  <2> HIDE DEF Bytes
  <2>1. 1 \in 1..Len(b) /\ 2 \in 1..Len(b)
    OBVIOUS
  <2> QED BY <2>1, ElementOfSeq, Zenon
<1>2. b[1] \in Int /\ 0 <= b[1] /\ b[1] < 256 /\ b[2] \in Int /\ 0 <= b[2] /\ b[2] < 256
  BY <1>1, Octets
<1> QED BY <1>2, Z3 DEF Uint16, Small

(* The parser is where its variables say.                                  *)
Reading == {"header", "records", "stage", "elements"}
Cursor ==
  /\ Inputs
  /\ ParserTypeOK
  /\ \E S : points \in Seq(S)
  /\ at = "imei" => message.kind = "imei"
  /\ at \in Reading => message.kind = "packet"
  /\ at \in {"imei", "header"} => pos = 0 /\ points = <<>>
  /\ at \in {"stage", "elements"} => Len(points) < number /\ stage \in 1..4

(* The bytes that either of the two is given.                              *)
LEMMA DataGiven ==
  ASSUME Inputs
  PROVE  /\ data \in Seq(Bytes) /\ Len(data) \in Nat
         /\ \A i \in DOMAIN data : data[i] \in Bytes
         /\ message.kind \in {"imei", "packet"}
         /\ message.kind = "packet" => Len(data) = BufferSize
<1>1. message.kind \in {"imei", "packet"}
  BY Kinds DEF Inputs
<1>2. data \in Seq(Bytes)
  BY <1>1, IMEIGiven, PacketGiven
<1>3. message.kind = "packet" => Len(data) = BufferSize
  BY PacketGiven
<1>4. Len(data) \in Nat /\ \A i \in DOMAIN data : data[i] \in Bytes
  <2> HIDE DEF Bytes
  <2> QED BY <1>2
<1> QED BY <1>1, <1>2, <1>3, <1>4

(* How many bytes the next reads want, place by place.                     *)
LEMMA WantedIs ==
  /\ at = "header" => Wanted = 10
  /\ at = "records" /\ Len(points) < number => Wanted = 28
  /\ at = "records" /\ ~(Len(points) < number) /\ Len(points) = number =>
       Wanted = IF ClosingMatches THEN 5 ELSE 1
  /\ at = "stage" => Wanted = 2
  /\ at = "elements" /\ left > 0 => Wanted = 2 + Streams[stage]
  /\ at = "elements" /\ ~(left > 0) => Wanted = 0
  /\ at \in Outcomes \cup {"imei"} => Wanted = 0
<1> HIDE DEF ClosingMatches
<1>1. at = "header" => Wanted = 10
  BY DEF Wanted, HeaderLength
<1>2. at = "records" /\ Len(points) < number => Wanted = 28
  BY DEF Wanted, PointLength
<1>3. at = "records" /\ ~(Len(points) < number) /\ Len(points) = number =>
       Wanted = IF ClosingMatches THEN 5 ELSE 1
  BY DEF Wanted
<1>4. at = "stage" => Wanted = 2
  BY DEF Wanted
<1>5. at = "elements" /\ left > 0 => Wanted = 2 + Streams[stage]
  BY DEF Wanted
<1>6. at \in Outcomes \cup {"imei"} => Wanted = 0
  BY DEF Wanted, Outcomes
<1>7. at = "elements" /\ ~(left > 0) => Wanted = 0
  BY DEF Wanted
<1> QED BY <1>1, <1>2, <1>3, <1>4, <1>5, <1>6, <1>7

(* The type of left, without its literal.                                  *)
LEMMA SmallLeft == \A x : Small(x) <=> x \in 0..(256 * 256 - 1)
<1> DEFINE m == 256 * 256 - 1
<1>1. m \in Int /\ m + 1 = 65536
  BY Z3
<1>2. \A x : Small(x) <=> x \in Int /\ 0 <= x /\ x < 65536
  BY Z3 DEF Small
<1> HIDE DEF m
<1>3. \A x \in Int : x < 65536 <=> x <= m
  BY <1>1, Z3
<1>4. \A x : x \in 0..m <=> x \in Int /\ 0 <= x /\ x <= m
  BY <1>1
<1>5. \A x : Small(x) <=> x \in 0..m
  BY <1>2, <1>3, <1>4
<1> QED BY <1>5 DEF m

(* It is so at the start ...                                               *)
LEMMA CursorInit == Init => Cursor
<1> SUFFICES ASSUME Init PROVE Cursor
  OBVIOUS
<1>1. Inputs
  BY DEF Init, Inputs
<1>2. /\ at = IF message.kind = "imei" THEN "imei" ELSE "header"
      /\ pos = 0 /\ number = 0 /\ points = <<>> /\ stage = 0 /\ left = 0
  BY DEF Init
<1>3. Small(0)
  BY DEF Small
<1>4. ParserTypeOK
  <2>1. left \in 0..(256 * 256 - 1)
    BY <1>2, <1>3, SmallLeft, Zenon
  <2>2. number \in Bytes
    BY <1>2, Octets
  <2>3. /\ at \in {"imei", "header", "records", "stage", "elements"} \cup Outcomes
        /\ pos \in 0..Len(data) /\ stage \in 0..4 /\ Len(points) <= number
        /\ \A i \in DOMAIN data : data[i] \in Bytes
    <3> HIDE DEF Bytes
    <3> QED BY <1>1, <1>2, DataGiven
  <2> QED BY <2>1, <2>2, <2>3 DEF ParserTypeOK
<1>5. points \in Seq({})
  BY <1>2
<1>6. at = "imei" \/ at = "header"
  BY <1>2
<1>7. at = "imei" => message.kind = "imei"
  BY <1>2
<1>8. at = "header" => message.kind = "packet"
  BY <1>1, <1>2, DataGiven
<1> QED BY <1>1, <1>2, <1>4, <1>5, <1>6, <1>7, <1>8 DEF Cursor, Reading

(* No step changes what the parser was given.                              *)
LEMMA InputsStay == Inputs /\ UNCHANGED inputVars => Inputs'
BY DEF Inputs, inputVars

(* ... and after every step.                                               *)
LEMMA CursorStep == Cursor /\ [Next]_vars => Cursor'
<1> SUFFICES ASSUME Cursor, [Next]_vars PROVE Cursor'
  OBVIOUS
<1>1. /\ Inputs /\ data \in Seq(Bytes) /\ Len(data) \in Nat
      /\ \A i \in DOMAIN data : data[i] \in Bytes
      /\ message.kind = "packet" => Len(data) = BufferSize
  BY DataGiven DEF Cursor
<1>2. /\ at \in {"imei", "header", "records", "stage", "elements"} \cup Outcomes
      /\ pos \in 0..Len(data) /\ number \in Bytes /\ Len(points) <= number
      /\ stage \in 0..4 /\ Small(left)
  BY SmallLeft DEF Cursor, ParserTypeOK
<1>3. PICK S : points \in Seq(S)
  BY DEF Cursor
<1>4. /\ at = "imei" => message.kind = "imei"
      /\ at \in Reading => message.kind = "packet"
      /\ at \in {"imei", "header"} => pos = 0 /\ points = <<>>
      /\ at \in {"stage", "elements"} => Len(points) < number /\ stage \in 1..4
  BY DEF Cursor
<1>5. Len(points) \in Nat /\ number \in Nat /\ pos \in Nat
  <2>1. number \in Nat
    BY <1>2, Octets
  <2> HIDE DEF Bytes
  <2> QED BY <1>2, <1>3, <2>1
(* What is left to show of a step that leaves the inputs alone.            *)
<1>6. ASSUME UNCHANGED inputVars,
             at' \in Reading \cup Outcomes,
             at' \in Reading => at \in Reading,
             pos' \in Nat, pos' <= Len(data),
             number' \in Bytes, \E T : points' \in Seq(T), Len(points') <= number',
             stage' \in 0..4, Small(left'),
             at' # "header",
             at' \in {"stage", "elements"} => Len(points') < number' /\ stage' \in 1..4
      PROVE  Cursor'
  <2>1. message' = message /\ data' = data
    BY <1>6 DEF inputVars
  <2>2. Inputs'
    BY <1>1, <1>6, InputsStay
  <2>3. ParserTypeOK'
    <3>1. left' \in 0..(256 * 256 - 1)
      BY <1>6, SmallLeft, Zenon
    <3>2. \A i \in DOMAIN data' : data'[i] \in Bytes
      BY <1>1, <2>1
    <3>3. at' \in {"imei", "header", "records", "stage", "elements"} \cup Outcomes
      BY <1>6 DEF Reading
    <3>4. pos' \in 0..Len(data')
      <4> HIDE DEF Bytes
      <4> QED BY <1>1, <1>6, <2>1
    <3> QED BY <1>6, <3>1, <3>2, <3>3, <3>4 DEF ParserTypeOK
  <2>4. at' # "imei"
    BY <1>6 DEF Reading, Outcomes
  <2>5. at' \in Reading => message'.kind = "packet"
    BY <1>4, <1>6, <2>1
  <2> QED BY <1>6, <2>2, <2>3, <2>4, <2>5 DEF Cursor
<1> HIDE DEF Bytes
<1>10. CASE DecodeIMEI
  <2>1. /\ UNCHANGED inputVars /\ at' \in {"accepted", "refused"} /\ pos' = pos
        /\ number' = number /\ points' = points /\ stage' = stage /\ left' = left
    BY <1>10 DEF DecodeIMEI
  <2> QED BY <1>1, <1>2, <1>3, <1>5, <1>6, <2>1 DEF Outcomes, Reading
<1>11. CASE ParseHeader
  <2>1. /\ UNCHANGED inputVars /\ at = "header" /\ Enough /\ pos' = pos + Wanted
        /\ number' = NextBytes(10)[10] /\ at' \in {"records", "refused"}
        /\ points' = points /\ stage' = stage /\ left' = left
    BY <1>11 DEF ParseHeader, Consume, HeaderLength
  <2>2. Wanted = 10 /\ pos = 0 /\ points = <<>>
    BY <1>4, <2>1, WantedIs
  <2>3. pos + 10 <= Len(data)
    BY <2>1, <2>2 DEF Enough
  <2>4. NextBytes(10) \in Seq(Bytes) /\ Len(NextBytes(10)) = 10
    <3>1. 10 \in Nat /\ 1 <= 10
      OBVIOUS
    <3> QED BY <1>1, <1>5, <2>3, <3>1, NextIs, Zenon
  <2>5. number' \in Bytes
    <3>1. 10 \in 1..Len(NextBytes(10))
      <4>1. 10 \in 1..10
        OBVIOUS
      <4> QED BY <2>4, <4>1, Zenon
    <3> QED BY <2>1, <2>4, <3>1, ElementOfSeq, Zenon
  <2>6. number' \in Nat
    BY <2>5, Octets
  <2> QED BY <1>1, <1>2, <1>3, <1>5, <1>6, <2>1, <2>2, <2>3, <2>5, <2>6
          DEF Outcomes, Reading
<1>12. CASE ReadPoint
  <2>1. /\ UNCHANGED inputVars /\ at = "records" /\ Len(points) < number /\ Enough
        /\ pos' = pos + Wanted /\ at' = "stage" /\ stage' = 1
        /\ number' = number /\ points' = points /\ left' = left
    BY <1>12 DEF ReadPoint, Consume
  <2>2. pos' = pos + 28 /\ pos + 28 <= Len(data)
    BY <2>1, WantedIs DEF Enough
  <2> QED BY <1>1, <1>2, <1>3, <1>5, <1>6, <2>1, <2>2 DEF Outcomes, Reading
<1>13. CASE ReadStageCount
  <2>1. /\ UNCHANGED inputVars /\ at = "stage" /\ Enough /\ pos' = pos + Wanted
        /\ left' = Uint16(NextBytes(2)) /\ at' = "elements"
        /\ number' = number /\ points' = points /\ stage' = stage
    BY <1>13 DEF ReadStageCount, Consume
  <2>2. pos' = pos + 2 /\ pos + 2 <= Len(data)
    BY <2>1, WantedIs DEF Enough
  <2>3. NextBytes(2) \in Seq(Bytes) /\ Len(NextBytes(2)) = 2
    <3>1. 2 \in Nat /\ 1 <= 2
      OBVIOUS
    <3> QED BY <1>1, <1>5, <2>2, <3>1, NextIs, Zenon
  <2>4. Small(left')
    <3>1. 2 >= 2
      OBVIOUS
    <3> QED BY <2>1, <2>3, <3>1, TwoRead, Zenon
  <2> QED BY <1>1, <1>2, <1>3, <1>4, <1>5, <1>6, <2>1, <2>2, <2>4 DEF Outcomes, Reading
<1>14. CASE ReadElement
  <2>1. /\ UNCHANGED inputVars /\ at = "elements" /\ left > 0 /\ Enough
        /\ pos' = pos + Wanted /\ left' = left - 1 /\ at' = at
        /\ number' = number /\ points' = points /\ stage' = stage
    BY <1>14 DEF ReadElement, Consume
  <2>2. Wanted = 2 + Streams[stage] /\ Streams[stage] \in Nat
    BY <1>4, <2>1, WantedIs, StreamsAre
  <2>3. pos' \in Nat /\ pos' <= Len(data)
    BY <1>5, <2>1, <2>2 DEF Enough
  <2>4. Small(left')
    BY <1>2, <2>1, Z3 DEF Small
  <2> QED BY <1>1, <1>2, <1>3, <1>4, <1>5, <1>6, <2>1, <2>3, <2>4 DEF Outcomes, Reading
<1>15. CASE EndStage
  <2>1. /\ UNCHANGED inputVars /\ at = "elements" /\ left = 0
        /\ number' = number /\ left' = left
    BY <1>15 DEF EndStage
  <2>2. CASE stage < 4
    <3>1. at' = "stage" /\ stage' = stage + 1 /\ pos' = pos /\ points' = points
      BY <1>15, <2>2 DEF EndStage
    <3>2. stage + 1 \in 1..4 /\ stage + 1 \in 0..4
      BY <1>2, <2>2
    <3> QED BY <1>1, <1>2, <1>3, <1>4, <1>5, <1>6, <2>1, <3>1, <3>2 DEF Outcomes, Reading
  <2>3. CASE ~(stage < 4)
    <3> DEFINE x == [gps |-> gps, elements |-> elements]
    <3>1. /\ at' = "records" /\ stage' = stage /\ pos' = Lesser(pos + 2, Len(data))
          /\ points' = Append(points, x)
      BY <1>15, <2>3 DEF EndStage
    <3> HIDE DEF x
    <3>2. pos' \in Nat /\ pos' <= Len(data)
      BY <1>1, <1>5, <3>1 DEF Lesser
    <3>3. points \in Seq(S \cup {x}) /\ x \in S \cup {x}
      BY <1>3, SeqMonotonic
    <3>4. points' \in Seq(S \cup {x}) /\ Len(points') = Len(points) + 1
      BY <3>1, <3>3
    <3>5. Len(points') <= number'
      BY <1>4, <1>5, <2>1, <3>4
    <3> QED BY <1>1, <1>2, <1>5, <1>6, <2>1, <3>1, <3>2, <3>4, <3>5 DEF Outcomes, Reading
  <2> QED BY <2>2, <2>3
<1>16. CASE EndRecords
  <2>1. /\ UNCHANGED inputVars /\ at = "records" /\ Len(points) = number /\ Enough
        /\ pos' = pos + Wanted /\ at' \in {"accepted", "refused"}
        /\ number' = number /\ points' = points /\ stage' = stage /\ left' = left
    BY <1>16 DEF EndRecords, Consume
  <2>2. Wanted = 5 \/ Wanted = 1
    BY <1>5, <2>1, WantedIs
  <2>3. pos' \in Nat /\ pos' <= Len(data)
    BY <1>5, <2>1, <2>2 DEF Enough
  <2> QED BY <1>1, <1>2, <1>3, <1>5, <1>6, <2>1, <2>3 DEF Outcomes, Reading
<1>17. CASE ReadPanics
  <2>1. /\ UNCHANGED inputVars /\ at' = "panicked" /\ pos' = pos
        /\ number' = number /\ points' = points /\ stage' = stage /\ left' = left
    BY <1>17 DEF ReadPanics
  <2> QED BY <1>1, <1>2, <1>3, <1>5, <1>6, <2>1 DEF Outcomes, Reading
<1>18. CASE UNCHANGED vars
  <2>1. /\ message' = message /\ from' = from /\ to' = to /\ data' = data
        /\ at' = at /\ pos' = pos /\ number' = number /\ points' = points
        /\ stage' = stage /\ left' = left
    BY <1>18 DEF vars, inputVars
  <2>2. Inputs'
    BY <1>1, <2>1 DEF Inputs
  <2>3. ParserTypeOK'
    BY <2>1 DEF Cursor, ParserTypeOK
  <2> QED BY <1>3, <1>4, <2>1, <2>2, <2>3 DEF Cursor
<1> QED BY <1>10, <1>11, <1>12, <1>13, <1>14, <1>15, <1>16, <1>17, <1>18
        DEF Next, Returned

(* The parser's variables are where they should be, with what it was given *)
(* and where it is in it.                                                  *)
THEOREM CursorInvariant == Spec => []Cursor
<1> QED BY CursorInit, CursorStep, PTL DEF Spec

(* The types of the parser's variables, for every message, buffer and cut: *)
(* in particular the cursor never leaves the bytes given, so that the only *)
(* way to fail is the panic of a reader (parser.go 40-140).                *)
THEOREM ParserTypeCorrect == Spec => []ParserTypeOK
<1>1. Cursor => ParserTypeOK
  BY DEF Cursor
<1> QED BY <1>1, CursorInvariant, PTL

-----------------------------------------------------------------------------
(* The parser in step with the packet.                                     *)

(* The beginning of a packet is in the buffer, the record count included,  *)
(* and the count is that of the records.                                   *)
Tracked ==
  /\ message.kind = "packet" /\ from = 1 /\ 10 <= to
  /\ Packet.form \in {"codec8e", "miscounted", "oversize"}

(* What was received reads as it was written.                              *)
LEMMA Received ==
  ASSUME Inputs, Tracked, pos \in Nat,
         NEW t \in Seq(Bytes), NEW n \in Nat, Len(t) = n, 1 <= n, pos + n <= to,
         Spells(W, pos, t)
  PROVE  NextBytes(n) = t
<1>1. /\ data \in Seq(Bytes) /\ Len(data) = BufferSize /\ BufferSize \in Nat
      /\ to \in Nat /\ to <= BufferSize /\ \A j \in 1..to : data[j] = W[j]
  BY PacketGiven, BufferSizeAssumption DEF Tracked
<1>2. pos + n <= Len(data)
  BY <1>1
<1>3. NextBytes(n) = SubSeq(data, pos + 1, pos + n)
  BY <1>1, <1>2, NextIs, Zenon
<1>4. Spells(data, pos, t)
  <2>1. \A j \in 1..Len(t) : W[pos + j] = t[j]
    BY DEF Spells
  <2>2. \A j \in 1..Len(t) : pos + j \in 1..to
    BY <1>1
  <2>3. \A j \in 1..Len(t) : data[pos + j] = t[j]
    BY <1>1, <2>1, <2>2, Zenon
  <2> QED BY <1>2, <2>3 DEF Spells
<1>5. SubSeq(data, pos + 1, pos + Len(t)) = t
  BY <1>1, <1>4, SpellsSubSeq, Zenon
<1> QED BY <1>3, <1>5

(* Two bytes appended and read again.                                      *)
LEMMA Uint16sBack == \A x \in Uint16s : Uint16(AppendUint16(x)) = x
<1>1. \A x \in Uint16s : x \in Int /\ x % 65536 = x
  BY Z3 DEF Uint16s
<1> QED BY <1>1, Uint16Back

(* A count that the end of the read cuts in two is less, never more.       *)
LEMMA CountReceived ==
  ASSUME Inputs, Tracked, pos \in Nat, pos + 2 <= Len(data), NEW count \in Uint16s,
         Spells(W, pos, AppendUint16(count)) \/ to <= pos
  PROVE  /\ Uint16(NextBytes(2)) <= count
         /\ pos + 2 <= to => Uint16(NextBytes(2)) = count
<1> DEFINE t == AppendUint16(count)
           b == NextBytes(2)
<1>1. /\ data \in Seq(Bytes) /\ Len(data) = BufferSize /\ BufferSize \in Nat
      /\ to \in Nat /\ 1 <= to /\ to <= BufferSize /\ \A j \in 1..to : data[j] = W[j]
      /\ \A j \in 1..BufferSize : to < j => data[j] = 0
  BY PacketGiven, BufferSizeAssumption DEF Tracked
<1>2. count \in Int /\ 0 <= count
  BY Z3 DEF Uint16s
<1>3. t \in Seq(Bytes) /\ Len(t) = 2 /\ t[1] \in Nat /\ t[2] \in Nat
  <2>1. t \in Seq(Bytes) /\ Len(t) = 2
    BY <1>2, TwoBytesLong, Zenon
  <2> HIDE DEF t, Bytes
  <2>2. t[1] \in Bytes /\ t[2] \in Bytes
    <3>1. 1 \in 1..Len(t) /\ 2 \in 1..Len(t)
      BY <2>1
    <3> QED BY <2>1, <3>1, ElementOfSeq, Zenon
  <2> QED BY <2>1, <2>2, Octets
<1>4. count = (t[1] * 256) + t[2]
  BY Uint16sBack DEF Uint16
<1>5. b[1] = data[pos + 1] /\ b[2] = data[pos + 2]
  <2>1. \A j \in 1..2 : b[j] = data[pos + j]
    <3>1. 2 \in Nat /\ 1 <= 2
      OBVIOUS
    <3> QED BY <1>1, <3>1, NextIs, Zenon
  <2>2. 1 \in 1..2 /\ 2 \in 1..2
    OBVIOUS
  <2> QED BY <2>1, <2>2, Zenon
<1>6. Uint16(b) = (data[pos + 1] * 256) + data[pos + 2]
  BY <1>5 DEF Uint16
<1> HIDE DEF t, b
<1>7. CASE to <= pos
  <2>1. data[pos + 1] = 0 /\ data[pos + 2] = 0
    <3>1. pos + 1 \in 1..BufferSize /\ pos + 2 \in 1..BufferSize /\ to < pos + 1 /\ to < pos + 2
      BY <1>1, <1>7
    <3> QED BY <1>1, <3>1
  <2> QED BY <1>1, <1>2, <1>6, <1>7, <2>1 DEF b
<1>8. CASE ~(to <= pos)
  <2>1. Spells(W, pos, t)
    BY <1>8 DEF t
  <2>2. W[pos + 1] = t[1] /\ W[pos + 2] = t[2]
    <3>1. 1 \in 1..Len(t) /\ 2 \in 1..Len(t)
      BY <1>3
    <3> QED BY <2>1, <3>1 DEF Spells
  <2>3. data[pos + 1] = t[1]
    <3>1. pos + 1 \in 1..to
      BY <1>1, <1>8
    <3> QED BY <1>1, <2>2, <3>1
  <2>4. CASE pos + 2 <= to
    <3>1. data[pos + 2] = t[2]
      <4>1. pos + 2 \in 1..to
        BY <1>1, <2>4
      <4> QED BY <1>1, <2>2, <4>1
    <3>2. Uint16(b) = count
      BY <1>4, <1>6, <2>3, <3>1
    <3> QED BY <1>2, <3>2 DEF b
  <2>5. CASE ~(pos + 2 <= to)
    <3>1. data[pos + 2] = 0
      <4>1. pos + 2 \in 1..BufferSize /\ to < pos + 2
        BY <1>1, <2>5
      <4> QED BY <1>1, <4>1
    <3>2. Uint16(b) = t[1] * 256
      BY <1>3, <1>6, <2>3, <3>1
    <3>3. Uint16(b) <= count
      BY <1>3, <1>4, <3>2
    <3> QED BY <2>5, <3>3 DEF b
  <2> QED BY <2>4, <2>5
<1> QED BY <1>7, <1>8

(* An element is its ID, and its bytes.                                    *)
LEMMA ElementBack ==
  ASSUME NEW s \in 1..4, NEW v \in Filling(s)
  PROVE  LET b == EncodeElement(v)
         IN Uint16(b) = v.id /\ SubSeq(b, 3, Len(b)) = v.stream
<1> DEFINE b == EncodeElement(v)
           d == AppendUint16(v.id)
           t == v.stream
           n == Streams[s]
<1>1. /\ b \in Seq(Bytes) /\ Len(b) = 2 + n /\ d \in Seq(Bytes) /\ Len(d) = 2
      /\ t \in Seq(Bytes) /\ Len(t) = n /\ Spells(b, 0, d) /\ Spells(b, 2, t)
  BY ElementLayout
<1>2. Uint16(d) = v.id
  <2>1. v.id \in Uint16s
    BY DEF Filling
  <2> QED BY <2>1, Uint16sBack
<1>3. n \in Nat
  BY StreamsAre
<1> HIDE DEF b, d, t, n
<1>4. b[1] = d[1] /\ b[2] = d[2]
  <2>1. 1 \in 1..Len(d) /\ 2 \in 1..Len(d) /\ 0 + 1 = 1 /\ 0 + 2 = 2
    BY <1>1
  <2>2. \A j \in 1..Len(d) : b[0 + j] = d[j]
    BY <1>1 DEF Spells
  <2> QED BY <2>1, <2>2
<1>5. Uint16(b) = v.id
  BY <1>2, <1>4 DEF Uint16
<1>6. SubSeq(b, 2 + 1, 2 + Len(t)) = t
  BY <1>1, SpellsSubSeq, Zenon
<1>7. 2 + 1 = 3 /\ 2 + Len(t) = Len(b)
  BY <1>1, <1>3
<1>8. SubSeq(b, 3, Len(b)) = t
  BY <1>6, <1>7
<1> QED BY <1>5, <1>8 DEF b, t

(* The point in hand, and how its fields and the whole of it come out.     *)
InHand == Packet.points[Len(points) + 1]
FieldsOf(p) == [SentFields(p) EXCEPT !.altitude = @ % 65536]
PointOf(p) == [gps |-> FieldsOf(p), elements |-> SentElements(p)]
CountIn == Len(InStage(Packet, Len(points) + 1, stage))

(* The cursor is never ahead of the place that the parser takes it to be   *)
(* at, and it is there as long as what was read was received.              *)
AtPlace(place) == pos <= place /\ (pos < to => pos = place)

(* The parser in step with the packet: it counts the records that were     *)
(* written, the points parsed are theirs, and it is where they say, with   *)
(* the fields and the elements read so far. None of it is claimed past the *)
(* end of what was received, where it reads zeros; there it is only never  *)
(* ahead.                                                                  *)
InStep ==
  /\ number = Len(Packet.points)
  /\ pos < to => \A j \in 1..Len(points) : points[j] = PointOf(Packet.points[j])
  /\ at = "records" => AtPlace(RecordAt(Packet, Len(points) + 1))
  /\ at = "stage" =>
       /\ AtPlace(StageAt(Packet, Len(points) + 1, stage))
       /\ pos < to => gps = FieldsOf(InHand) /\ elements = Known(InHand, stage, 0)
  /\ at = "elements" =>
       /\ left <= CountIn
       /\ AtPlace(ElementAt(Packet, Len(points) + 1, stage, CountIn - left))
       /\ pos < to =>
            gps = FieldsOf(InHand) /\ elements = Known(InHand, stage, CountIn - left)

(* The facts of a packet that is tracked.                                  *)
LEMMA PacketFacts ==
  ASSUME Cursor, Tracked
  PROVE  /\ Packet \in Packets /\ Inputs
         /\ W \in Seq(Bytes) /\ Length = Len(W) /\ Length \in Nat /\ 15 <= Length
         /\ data \in Seq(Bytes) /\ Len(data) = BufferSize /\ BufferSize \in Nat
         /\ to \in Nat /\ 10 <= to /\ to <= Length /\ to <= BufferSize
         /\ pos \in Nat /\ pos <= BufferSize
         /\ Len(Packet.points) \in Nat
<1>1. Inputs /\ pos \in 0..Len(data)
  BY DEF Cursor, ParserTypeOK
<1>2. /\ Packet \in Packets /\ Length = Len(W)
      /\ data \in Seq(Bytes) /\ Len(data) = BufferSize
      /\ to \in Nat /\ to <= Length /\ to <= BufferSize
  BY <1>1, PacketGiven DEF Tracked
<1>3. W \in Seq(Bytes) /\ Len(W) \in Nat /\ 15 <= Len(W)
  BY <1>2, PacketsAreLong DEF W
<1>4. BufferSize \in Nat /\ pos \in Nat /\ pos <= BufferSize
  BY <1>1, <1>2, BufferSizeAssumption
<1> QED BY <1>1, <1>2, <1>3, <1>4, PacketsHaveRecords DEF Tracked

(* A step leaves the packet, and what was received of it, alone.           *)
LEMMA PacketStays ==
  ASSUME UNCHANGED inputVars
  PROVE  /\ Packet' = Packet /\ W' = W /\ to' = to /\ data' = data /\ (Tracked' <=> Tracked)
         /\ Got' = Got
BY DEF inputVars, Packet, W, Tracked, Got, PartRead, Length

(* ReadPoint keeps in step: the fields are those of the next record.       *)
LEMMA StepPoint ==
  ASSUME Cursor, Tracked, InStep, ReadPoint
  PROVE  InStep'
<1> DEFINE i == Len(points) + 1
           p == InHand
           fields == EncodeFields(p)
           r == RecordAt(Packet, i)
<1>1. /\ UNCHANGED inputVars /\ at = "records" /\ Len(points) < number /\ Enough
      /\ pos' = pos + Wanted /\ gps' = Fields26(NextBytes(26))
      /\ at' = "stage" /\ stage' = 1 /\ elements' = <<>>
      /\ number' = number /\ points' = points /\ left' = left
  BY DEF ReadPoint, Consume
<1>2. pos' = pos + 28 /\ pos + 28 <= Len(data)
  BY <1>1, WantedIs DEF Enough
<1>3. /\ Packet \in Packets /\ Inputs /\ W \in Seq(Bytes)
      /\ Len(data) = BufferSize /\ to \in Nat /\ pos \in Nat /\ Len(Packet.points) \in Nat
  BY PacketFacts
<1>4. Packet' = Packet /\ to' = to
  BY <1>1, PacketStays
<1>5. i \in 1..Len(Packet.points)
  <2>1. PICK S : points \in Seq(S)
    BY DEF Cursor
  <2>2. Len(points) \in Nat
    BY <2>1
  <2> QED BY <1>1, <1>3, <2>2 DEF InStep
<1>6. IsAVLData(p)
  BY <1>3, <1>5, PacketsHaveRecords DEF InHand
<1>7. /\ Spells(W, r, fields) /\ StageAt(Packet, i, 1) = r + 28
  BY <1>3, <1>5, StagesLayout DEF W, InHand
<1>8. r \in Nat
  <2>1. i \in 1..(Len(Packet.points) + 1)
    BY <1>3, <1>5
  <2> QED BY <1>3, <2>1, RecordsLayout
<1>9. pos <= r /\ (pos < to => pos = r)
  BY <1>1 DEF InStep, AtPlace
<1>10. fields \in Seq(Bytes) /\ Len(fields) = 26
  BY <1>6, FieldsLayout
<1> HIDE DEF i, p, fields, r
<1>11. ASSUME pos' < to
       PROVE  gps' = FieldsOf(p) /\ elements' = Known(p, 1, 0)
  <2>1. pos < to /\ pos + 26 <= to /\ 26 \in Nat /\ 1 <= 26
    BY <1>2, <1>3, <1>11
  <2>2. Spells(W, pos, fields)
    BY <1>7, <1>9, <2>1
  <2>3. NextBytes(26) = fields
    BY <1>3, <1>10, <2>1, <2>2, Received, Zenon
  <2>4. Fields26(fields) = FieldsOf(p)
    BY <1>6, FieldsBack DEF fields, FieldsOf
  <2>5. elements' = Known(p, 1, 0)
    BY <1>1, <1>6, KnownGrows
  <2> QED BY <1>1, <2>3, <2>4, <2>5
<1>12. pos' <= r + 28 /\ (pos' < to => pos' = r + 28 /\ pos < to)
  BY <1>2, <1>3, <1>8, <1>9
<1>13. InHand' = p /\ StageAt(Packet, Len(points) + 1, 1) = r + 28
  BY <1>1, <1>4, <1>7 DEF InHand, p, i
<1>14. /\ number' = Len(Packet'.points)
       /\ pos' < to' => \A j \in 1..Len(points') : points'[j] = PointOf(Packet'.points[j])
  BY <1>1, <1>4, <1>12 DEF InStep
<1>15. AtPlace(StageAt(Packet, Len(points) + 1, stage))'
  BY <1>1, <1>4, <1>12, <1>13 DEF AtPlace
<1>16. pos' < to' => gps' = FieldsOf(InHand') /\ elements' = Known(InHand', stage', 0)
  BY <1>1, <1>4, <1>11, <1>13
<1> QED BY <1>1, <1>14, <1>15, <1>16 DEF InStep

(* The point in hand is one of the packet, and its stage has a count.      *)
LEMMA HandFacts ==
  ASSUME Cursor, Tracked, InStep, at \in {"stage", "elements"}
  PROVE  /\ Len(points) \in Nat /\ Len(points) + 1 \in 1..Len(Packet.points)
         /\ stage \in 1..4 /\ IsAVLData(InHand)
         /\ InStage(Packet, Len(points) + 1, stage) = Chosen(InHand.vals, stage)
         /\ CountIn \in Uint16s /\ CountIn \in Nat
         /\ StageAt(Packet, Len(points) + 1, stage) \in Nat
         /\ left \in Nat
<1>1. Packet \in Packets /\ Len(Packet.points) \in Nat
  BY PacketFacts
<1>2. PICK S : points \in Seq(S)
  BY DEF Cursor
<1>3. Len(points) < number /\ stage \in 1..4
  BY DEF Cursor
<1>4. Len(points) \in Nat
  BY <1>2
<1>5. Len(points) + 1 \in 1..Len(Packet.points)
  BY <1>1, <1>3, <1>4 DEF InStep
<1>6. IsAVLData(InHand)
  BY <1>1, <1>5, PacketsHaveRecords DEF InHand
<1>7. InStage(Packet, Len(points) + 1, stage) = Chosen(InHand.vals, stage)
  BY DEF InStage, InHand
<1>8. CountIn \in Uint16s
  BY <1>3, <1>6, <1>7, ChosenFill DEF CountIn
<1>9. CountIn \in Nat
  BY <1>8, Z3 DEF Uint16s
<1>10. StageAt(Packet, Len(points) + 1, stage) \in Nat
  <2>1. stage \in 1..5
    BY <1>3
  <2> QED BY <1>1, <1>5, <2>1, StagesLayout
<1>11. left \in Nat
  <2>1. left \in 0..(256 * 256 - 1)
    BY DEF Cursor, ParserTypeOK
  <2>2. Small(left)
    BY <2>1, SmallLeft, Zenon
  <2> QED BY <2>2 DEF Small
<1> QED BY <1>3, <1>4, <1>5, <1>6, <1>7, <1>8, <1>9, <1>10, <1>11

(* ReadStageCount keeps in step: the count is that of the stage.           *)
LEMMA StepCount ==
  ASSUME Cursor, Tracked, InStep, ReadStageCount
  PROVE  InStep'
<1> DEFINE i == Len(points) + 1
           a == StageAt(Packet, i, stage)
           count == CountIn
           e(k) == ElementAt(Packet, i, stage, k)
<1>1. /\ UNCHANGED inputVars /\ at = "stage" /\ Enough
      /\ pos' = pos + Wanted /\ left' = Uint16(NextBytes(2)) /\ at' = "elements"
      /\ number' = number /\ points' = points /\ gps' = gps /\ stage' = stage
      /\ elements' = elements
  BY DEF ReadStageCount, Consume
<1>2. pos' = pos + 2 /\ pos + 2 <= Len(data)
  BY <1>1, WantedIs DEF Enough
<1>3. /\ Packet \in Packets /\ Inputs /\ W \in Seq(Bytes)
      /\ Len(data) = BufferSize /\ to \in Nat /\ pos \in Nat
  BY PacketFacts
<1>4. Packet' = Packet /\ to' = to
  BY <1>1, PacketStays
<1>5. /\ i \in 1..Len(Packet.points) /\ stage \in 1..4
      /\ count \in Uint16s /\ count \in Nat /\ a \in Nat
  BY <1>1, HandFacts
<1>6. /\ Spells(W, a, AppendUint16(count)) /\ e(0) = a + 2
      /\ \A k \in 0..count : e(k) \in Nat /\ a + 2 <= e(k)
  BY <1>3, <1>5, ElementsLayout DEF W, CountIn
<1>7. /\ pos <= a /\ (pos < to => pos = a)
      /\ pos < to => gps = FieldsOf(InHand) /\ elements = Known(InHand, stage, 0)
  BY <1>1 DEF InStep, AtPlace
<1>8. InHand' = InHand /\ CountIn' = count
  BY <1>1, <1>4 DEF InHand, CountIn
<1> HIDE DEF i, a, count, e
<1>9. /\ left' <= count
      /\ pos + 2 <= to => left' = count
  <2>1. Spells(W, pos, AppendUint16(count)) \/ to <= pos
    BY <1>3, <1>6, <1>7
  <2>2. Tracked
    OBVIOUS
  <2> QED BY <1>1, <1>2, <1>3, <1>5, <2>1, <2>2, CountReceived, Zenon
<1>10. left' \in Nat
  <2>1. data \in Seq(Bytes)
    BY PacketFacts
  <2>2. 2 \in Nat /\ 1 <= 2 /\ 2 >= 2
    OBVIOUS
  <2>3. NextBytes(2) \in Seq(Bytes) /\ Len(NextBytes(2)) = 2
    BY <1>2, <1>3, <2>1, <2>2, NextIs, Zenon
  <2>4. Small(left')
    BY <1>1, <2>2, <2>3, TwoRead, Zenon
  <2> QED BY <2>4 DEF Small
<1>11. count - left' \in 0..count
  <2> DEFINE l == left'
  <2>1. l <= count /\ l \in Nat
    BY <1>9, <1>10
  <2> HIDE DEF l
  <2>2. count - l \in 0..count
    BY <1>5, <2>1
  <2> QED BY <2>2 DEF l
<1>12. pos' <= e(count - left')
  <2> DEFINE x == e(count - left')
  <2>1. x \in Nat /\ a + 2 <= x
    BY <1>6, <1>11
  <2> HIDE DEF x
  <2>2. pos' <= x
    BY <1>2, <1>3, <1>5, <1>7, <2>1
  <2> QED BY <2>2 DEF x
<1>13. ASSUME pos' < to
       PROVE  pos < to /\ count - left' = 0 /\ pos' = e(count - left')
  <2>1. pos < to /\ pos + 2 <= to
    BY <1>2, <1>3, <1>13
  <2>2. count - left' = 0
    BY <1>5, <1>9, <2>1
  <2>3. pos' = a + 2
    BY <1>2, <1>7, <2>1
  <2> QED BY <1>6, <2>1, <2>2, <2>3
<1>14. /\ number' = Len(Packet'.points)
       /\ pos' < to' => \A j \in 1..Len(points') : points'[j] = PointOf(Packet'.points[j])
  BY <1>1, <1>4, <1>13 DEF InStep
<1>15. AtPlace(ElementAt(Packet, Len(points) + 1, stage, CountIn - left))'
  BY <1>1, <1>4, <1>8, <1>12, <1>13 DEF AtPlace, e, i
<1>16. pos' < to' => /\ gps' = FieldsOf(InHand')
                     /\ elements' = Known(InHand', stage', CountIn' - left')
  BY <1>1, <1>4, <1>7, <1>8, <1>13
<1> QED BY <1>1, <1>8, <1>9, <1>14, <1>15, <1>16 DEF InStep

(* ReadElement keeps in step: the element is the next one of the stage,    *)
(* decoded.                                                                *)
LEMMA StepElement ==
  ASSUME Cursor, Tracked, InStep, ReadElement
  PROVE  InStep'
<1> DEFINE i == Len(points) + 1
           count == CountIn
           k == (count - left) + 1
           e(j) == ElementAt(Packet, i, stage, j)
           v == InStage(Packet, i, stage)[k]
           b == NextBytes(Wanted)
           c == EncodeElement(v)
           n == 2 + Streams[stage]
<1>1. /\ UNCHANGED inputVars /\ at = "elements" /\ left > 0 /\ Enough
      /\ pos' = pos + Wanted /\ left' = left - 1
      /\ elements' = elements \o Decode(stage, Uint16(b), SubSeq(b, 3, Len(b)))
      /\ at' = at /\ number' = number /\ points' = points /\ gps' = gps /\ stage' = stage
  BY DEF ReadElement, Consume
<1>2. /\ Packet \in Packets /\ Inputs /\ W \in Seq(Bytes)
      /\ Len(data) = BufferSize /\ to \in Nat /\ pos \in Nat
  BY PacketFacts
<1>3. Packet' = Packet /\ to' = to
  BY <1>1, PacketStays
<1>4. /\ i \in 1..Len(Packet.points) /\ stage \in 1..4 /\ IsAVLData(InHand)
      /\ InStage(Packet, i, stage) = Chosen(InHand.vals, stage)
      /\ count \in Nat /\ left \in Nat
  BY <1>1, HandFacts
<1>5. Wanted = n /\ n \in Nat /\ 1 <= n
  <2>1. Streams[stage] \in Nat
    BY <1>4, StreamsAre
  <2> QED BY <1>1, <2>1, WantedIs
<1>6. /\ left <= count
      /\ pos <= e(count - left) /\ (pos < to => pos = e(count - left))
      /\ pos < to => gps = FieldsOf(InHand) /\ elements = Known(InHand, stage, count - left)
  BY <1>1 DEF InStep, AtPlace
<1>7. k \in 1..count /\ k - 1 = count - left /\ count - left' = k /\ left' <= count
      /\ count - left \in 0..count
  <2> HIDE DEF count
  <2> QED BY <1>1, <1>4, <1>6
<1>8. /\ e(k) = e(k - 1) + n /\ Spells(W, e(k - 1), c) /\ e(k - 1) \in Nat
  <2>1. /\ \A j \in 0..count : e(j) \in Nat
        /\ \A j \in 1..count : /\ e(j) = e(j - 1) + n
                               /\ Spells(W, e(j - 1), EncodeElement(InStage(Packet, i, stage)[j]))
    BY <1>2, <1>4, ElementsLayout DEF W, CountIn
  <2> HIDE DEF count, k, e, n
  <2> QED BY <1>7, <2>1
<1>9. v \in Filling(stage) /\ v = Chosen(InHand.vals, stage)[k]
      /\ count = Len(Chosen(InHand.vals, stage))
  <2> DEFINE chosen == Chosen(InHand.vals, stage)
  <2>1. chosen \in Seq(Filling(stage)) /\ count = Len(chosen) /\ v = chosen[k]
    BY <1>4, ChosenFill DEF CountIn
  <2> HIDE DEF chosen, count, k, v
  <2>2. v \in Filling(stage)
    BY <1>7, <2>1, ElementOfSeq
  <2> QED BY <2>1, <2>2 DEF chosen
<1>10. InHand' = InHand /\ CountIn' = count
  BY <1>1, <1>3 DEF InHand, CountIn
<1>11. c \in Seq(Bytes) /\ Len(c) = n
  BY <1>4, <1>9, ElementLayout
<1>12. Uint16(c) = v.id /\ SubSeq(c, 3, Len(c)) = v.stream
  BY <1>4, <1>9, ElementBack
<1> HIDE DEF i, count, k, e, v, b, c, n
<1>13. pos' = pos + n
  BY <1>1, <1>5
<1>14. pos' <= e(k) /\ (pos' < to => pos' = e(k) /\ pos < to)
  <2> DEFINE x == e(k - 1)
             y == e(k)
  <2>1. pos <= x /\ (pos < to => pos = x) /\ y = x + n /\ x \in Nat
    BY <1>6, <1>7, <1>8
  <2> HIDE DEF x, y
  <2>2. pos' <= y /\ (pos' < to => pos' = y /\ pos < to)
    BY <1>2, <1>5, <1>13, <2>1
  <2> QED BY <2>2 DEF y
<1>15. ASSUME pos' < to
       PROVE  elements' = Known(InHand, stage, k)
  <2>1. pos < to /\ pos + n <= to
    BY <1>2, <1>5, <1>13, <1>15
  <2>2. Spells(W, pos, c)
    BY <1>6, <1>7, <1>8, <2>1
  <2>3. b = c
    <3>1. NextBytes(n) = c
      BY <1>2, <1>5, <1>11, <2>1, <2>2, Received, Zenon
    <3> QED BY <1>5, <3>1 DEF b
  <2>4. elements' = elements \o Decode(stage, v.id, v.stream)
    BY <1>1, <1>12, <2>3, Zenon
  <2>5. elements = Known(InHand, stage, k - 1)
    BY <1>6, <1>7, <2>1
  <2>6. k \in 1..Len(Chosen(InHand.vals, stage))
    BY <1>7, <1>9
  <2>7. Known(InHand, stage, k)
          = Known(InHand, stage, k - 1)
              \o Decode(stage, Chosen(InHand.vals, stage)[k].id,
                        Chosen(InHand.vals, stage)[k].stream)
    BY <1>4, <2>6, KnownGrows, Zenon
  <2> QED BY <1>9, <2>4, <2>5, <2>7, Zenon
<1>16. /\ number' = Len(Packet'.points)
       /\ pos' < to' => \A j \in 1..Len(points') : points'[j] = PointOf(Packet'.points[j])
  BY <1>1, <1>3, <1>14 DEF InStep
<1>17. CountIn' - left' = k /\ left' <= CountIn'
  BY <1>7, <1>10
<1>18. AtPlace(ElementAt(Packet, Len(points) + 1, stage, CountIn - left))'
  BY <1>1, <1>3, <1>14, <1>17 DEF AtPlace, e, i
<1>19. pos' < to' => /\ gps' = FieldsOf(InHand')
                     /\ elements' = Known(InHand', stage', CountIn' - left')
  BY <1>1, <1>3, <1>6, <1>10, <1>14, <1>15, <1>17
<1> QED BY <1>1, <1>16, <1>17, <1>18, <1>19 DEF InStep

(* EndStage keeps in step, within a point and at its end.                  *)
LEMMA StepStage ==
  ASSUME Cursor, Tracked, InStep, EndStage
  PROVE  InStep'
<1> DEFINE i == Len(points) + 1
           p == InHand
           count == CountIn
           e(k) == ElementAt(Packet, i, stage, k)
           point == [gps |-> gps, elements |-> elements]
<1>1. /\ UNCHANGED inputVars /\ at = "elements" /\ left = 0
      /\ number' = number /\ gps' = gps /\ left' = left /\ elements' = elements
  BY DEF EndStage
<1>2. /\ Packet \in Packets /\ Inputs /\ W \in Seq(Bytes)
      /\ Len(data) = BufferSize /\ BufferSize \in Nat
      /\ to \in Nat /\ to <= BufferSize /\ pos \in Nat
  BY PacketFacts
<1>3. Packet' = Packet /\ to' = to
  BY <1>1, PacketStays
<1>4. /\ i \in 1..Len(Packet.points) /\ stage \in 1..4 /\ IsAVLData(p) /\ Len(points) \in Nat
      /\ InStage(Packet, i, stage) = Chosen(p.vals, stage)
      /\ count \in Nat
  BY <1>1, HandFacts
<1>5. count - left = count
  <2> HIDE DEF count
  <2> QED BY <1>1, <1>4
<1>6. /\ pos <= e(count) /\ (pos < to => pos = e(count))
      /\ pos < to => gps = FieldsOf(p) /\ elements = Known(p, stage, count)
      /\ pos < to => \A j \in 1..Len(points) : points[j] = PointOf(Packet.points[j])
  BY <1>1, <1>5 DEF InStep, AtPlace
<1>7. e(count) = StageAt(Packet, i, stage + 1)
  BY <1>2, <1>4, ElementsLayout DEF CountIn
<1>8. count = Len(Chosen(p.vals, stage))
  BY <1>4 DEF CountIn
<1> HIDE DEF i, p, count, e, point
<1>9. CASE stage < 4
  <2>1. at' = "stage" /\ stage' = stage + 1 /\ pos' = pos /\ points' = points
    BY <1>9 DEF EndStage
  <2>2. InHand' = p
    BY <1>3, <2>1 DEF InHand, p
  <2>3. Known(p, stage, count) = Known(p, stage + 1, 0)
    <3>1. stage \in 1..3
      BY <1>4, <1>9
    <3> QED BY <1>4, <1>8, <3>1, KnownGrows, Zenon
  <2>4. /\ number' = Len(Packet'.points)
        /\ pos' < to' => \A j \in 1..Len(points') : points'[j] = PointOf(Packet'.points[j])
    BY <1>1, <1>3, <2>1 DEF InStep
  <2>5. AtPlace(StageAt(Packet, Len(points) + 1, stage))'
    BY <1>3, <1>6, <1>7, <2>1 DEF AtPlace, i
  <2>6. pos' < to' => gps' = FieldsOf(InHand') /\ elements' = Known(InHand', stage', 0)
    BY <1>1, <1>3, <1>6, <2>1, <2>2, <2>3
  <2> QED BY <2>1, <2>4, <2>5, <2>6 DEF InStep
<1>10. CASE ~(stage < 4)
  <2>0. stage = 4
    BY <1>4, <1>10
  <2>1. /\ at' = "records" /\ pos' = Lesser(pos + 2, Len(data))
        /\ points' = Append(points, point)
    BY <1>10 DEF EndStage, point
  <2>2. PICK S : points \in Seq(S)
    BY DEF Cursor
  <2>3. /\ Len(points') = i
        /\ \A j \in 1..Len(points) : points'[j] = points[j]
        /\ points'[i] = point
    BY <2>1, <2>2 DEF i
  <2>4. RecordAt(Packet, i + 1) = e(count) + 2
    <3>1. stage + 1 = 5
      BY <2>0
    <3> QED BY <1>2, <1>4, <1>7, <3>1, StagesLayout
  <2>5. e(count) \in Nat
    <3>1. stage + 1 \in 1..5
      BY <2>0
    <3> QED BY <1>2, <1>4, <1>7, <3>1, StagesLayout
  <2>6. /\ pos' <= e(count) + 2
        /\ pos' < to => pos' = e(count) + 2 /\ pos < to
    <3> DEFINE x == e(count)
    <3>1. pos <= x /\ (pos < to => pos = x) /\ x \in Nat
      BY <1>6, <2>5
    <3> HIDE DEF x
    <3>2. /\ pos' <= x + 2
          /\ pos' < to => pos' = x + 2 /\ pos < to
      BY <1>2, <2>1, <3>1 DEF Lesser
    <3> QED BY <3>2 DEF x
  <2>7. ASSUME pos < to PROVE point = PointOf(Packet.points[i])
    <3>1. gps = FieldsOf(p) /\ elements = Known(p, 4, count)
      BY <1>6, <2>0, <2>7
    <3>2. Known(p, 4, count) = SentElements(p)
      BY <1>4, <1>8, <2>0, KnownGrows
    <3>3. p = Packet.points[i]
      BY DEF p, i, InHand
    <3>4. point = PointOf(p)
      BY <3>1, <3>2 DEF point, PointOf
    <3> QED BY <3>3, <3>4
  <2>8. pos' < to' => \A j \in 1..Len(points') : points'[j] = PointOf(Packet'.points[j])
    <3> SUFFICES ASSUME pos' < to, NEW j \in 1..i
                 PROVE  points'[j] = PointOf(Packet.points[j])
      BY <1>3, <2>3
    <3>1. pos < to
      BY <2>6
    <3>2. CASE j = i
      BY <2>3, <2>7, <3>1, <3>2
    <3>3. CASE j # i
      <4>1. j \in 1..Len(points)
        BY <1>4, <3>3 DEF i
      <4> QED BY <1>6, <2>3, <3>1, <4>1
    <3> QED BY <3>2, <3>3
  <2>9. number' = Len(Packet'.points)
    BY <1>1, <1>3 DEF InStep
  <2>10. AtPlace(RecordAt(Packet, Len(points) + 1))'
    BY <1>3, <2>3, <2>4, <2>6 DEF AtPlace
  <2> QED BY <2>1, <2>8, <2>9, <2>10 DEF InStep
<1> QED BY <1>9, <1>10

(* The header is the first ten bytes.                                      *)
LEMMA HeaderIs ==
  ASSUME Cursor, at = "header"
  PROVE  LET h == NextBytes(10)
         IN /\ \A j \in 1..10 : h[j] = data[j]
            /\ (\A j \in 1..4 : data[j] = 0) => SubSeq(h, 1, 4) = Zeros(4)
            /\ pos = 0 /\ Wanted = 10 /\ Enough
<1> DEFINE h == NextBytes(10)
<1>1. message.kind = "packet" /\ Inputs /\ pos = 0
  BY DEF Cursor, Reading
<1>2. data \in Seq(Bytes) /\ Len(data) = BufferSize /\ BufferSize \in Nat /\ 15 <= BufferSize
  BY <1>1, PacketGiven, BufferSizeAssumption
<1>3. Wanted = 10
  BY WantedIs
<1>4. Enough
  BY <1>1, <1>2, <1>3 DEF Enough
<1>5. /\ h \in Seq(Bytes) /\ Len(h) = 10 /\ \A j \in 1..10 : h[j] = data[pos + j]
  <2>1. pos \in Nat /\ 10 \in Nat /\ 1 <= 10 /\ pos + 10 <= Len(data)
    BY <1>1, <1>2
  <2> QED BY <1>2, <2>1, NextIs
<1>6. \A j \in 1..10 : h[j] = data[j]
  <2>1. \A j \in 1..10 : pos + j = j
    BY <1>1
  <2> QED BY <1>5, <2>1
<1> HIDE DEF h
<1>7. ASSUME \A j \in 1..4 : data[j] = 0 PROVE SubSeq(h, 1, 4) = Zeros(4)
  <2> DEFINE r == SubSeq(h, 1, 4)
  <2>1. r \in Seq(Bytes) /\ Len(r) = (4 - 1) + 1 /\ \A j \in 1..Len(r) : r[j] = h[(1 + j) - 1]
    <3>1. 1 \in Nat /\ 4 \in Nat /\ 1 <= 1 /\ 1 <= 4 /\ 4 <= Len(h)
      BY <1>5
    <3> QED BY <1>5, <3>1, Stretch
  <2> HIDE DEF r, Bytes
  <2>2. Len(r) = 4 /\ DOMAIN r = 1..4
    BY <2>1
  <2>3. \A j \in 1..4 : r[j] = 0
    <3> TAKE j \in 1..4
    <3>1. j \in 1..10 /\ (1 + j) - 1 = j
      OBVIOUS
    <3>2. r[j] = h[(1 + j) - 1]
      BY <2>1, <2>2
    <3>3. h[j] = 0
      BY <1>6, <1>7, <3>1
    <3> QED BY <3>1, <3>2, <3>3
  <2>4. r = [j \in 1..4 |-> r[j]]
    BY <2>1, <2>2
  <2>5. r = [j \in 1..4 |-> 0]
    BY <2>3, <2>4
  <2> QED BY <2>5 DEF r, Zeros
<1> QED BY <1>1, <1>3, <1>4, <1>6, <1>7 DEF h

-----------------------------------------------------------------------------
(* What the parser returns.                                                *)

(* Where the parser is past the header.                                    *)
Past == {"records", "stage", "elements"}

(* The parser was told that there are no records: the count is not there,  *)
(* or it was cut to a byte of zero.                                        *)
Uncounted ==
  /\ at = "records" /\ number = 0 /\ points = <<>> /\ pos = 10 /\ data[11] = 0
  /\ CodecSeen(Got) /\ ReadsNoRecords(Got)

(* What the parser returned, and when it may. The points of a packet that  *)
(* is accepted with its count are those that were written.                 *)
Verdict ==
  IF message.kind = "imei"
  THEN /\ at = "accepted" => PartRead = "whole"
       /\ at = "refused" => PartRead # "whole"
  ELSE /\ at = "accepted" =>
            /\ Accepts(Got) /\ Len(points) = Count(Got)
            /\ CountSeen(Got) =>
                 \A j \in 1..Len(Packet.points) : points[j] = PointOf(Packet.points[j])
       /\ at = "refused" => Refuses(Got)
       /\ at = "panicked" /\ ZoneInfo => Overruns(Got)

(* The inductive invariant.                                                *)
Course ==
  /\ Cursor
  /\ Tracked /\ at \in Past => InStep
  /\ message.kind = "packet" /\ ~Tracked /\ at \in Past => Uncounted
  /\ Verdict

(* The parts of a packet, by the place where the read ends.                *)
LEMMA PartsRead ==
  ASSUME Inputs, message.kind = "packet"
  PROVE  /\ Got.packet.form = Packet.form /\ Got.packet.n = Len(Packet.points)
         /\ from # 1 => Got.part = "rest"
         /\ from = 1 /\ to <= 8 => Got.part = "header"
         /\ from = 1 /\ to = 9 => Got.part = "codec"
         /\ from = 1 /\ 10 <= to /\ to <= Length - 5 => Got.part = "body"
         /\ from = 1 /\ Length - 5 < to => Got.part \in {"counted", "whole"}
<1>1. Length \in Nat /\ 15 <= Length
  BY PacketGiven, PacketsAreLong DEF W
<1>2. Got.packet.form = Packet.form /\ Got.packet.n = Len(Packet.points) /\ Got.part = PartRead
  BY DEF Got, Packet
<1>3. from # 1 => from > 1
  BY PacketGiven
<1>4. from = 1 => to \in Nat /\ 1 <= to /\ to <= Length
  BY PacketGiven
<1> DEFINE l == Length
<1>5. PartRead =
        CASE from > 1 -> "rest"
          [] from = 1 /\ to = l -> "whole"
          [] from = 1 /\ to <= 8 -> "header"
          [] from = 1 /\ to = 9 -> "codec"
          [] from = 1 /\ to \in 10..(l - 5) -> "body"
          [] OTHER -> "counted"
  BY DEF PartRead
<1> HIDE DEF l
<1>6. l \in Nat /\ 15 <= l /\ (from = 1 => to \in Nat /\ 1 <= to /\ to <= l)
  BY <1>1, <1>4 DEF l
<1>7. from # 1 => PartRead = "rest"
  BY <1>3, <1>5
<1>8. from = 1 /\ to <= 8 => PartRead = "header"
  BY <1>5, <1>6
<1>9. from = 1 /\ to = 9 => PartRead = "codec"
  BY <1>5, <1>6
<1>10. from = 1 /\ 10 <= to /\ to <= l - 5 => PartRead = "body"
  BY <1>5, <1>6
<1>11. from = 1 /\ l - 5 < to => PartRead \in {"counted", "whole"}
  BY <1>5, <1>6
<1> QED BY <1>2, <1>7, <1>8, <1>9, <1>10, <1>11 DEF l

(* Which packets fit in the buffer.                                        *)
LEMMA Sizes ==
  ASSUME Inputs, message.kind = "packet"
  PROVE  /\ Packet.form \in {"oversize", "wrapped"} <=> BufferSize < Length
         /\ Packet.form = "wrapped" => BufferSize <= Length - 5
         /\ Packet.form \in Forms
<1>1. Packet \in Packets /\ Length = Len(PacketWire(Packet)) /\ Length \in Nat
  BY PacketGiven, PacketsAreLong DEF W
<1>2. /\ Packet.form \in {"oversize", "wrapped"} <=> Len(Wire(PacketMessage(Packet))) > BufferSize
      /\ Packet.form = "wrapped" => Len(Wire(PacketMessage(Packet))) - 5 >= BufferSize
  BY <1>1, SizesAssumption
<1>3. Wire(PacketMessage(Packet)) = PacketWire(Packet)
  BY DEF PacketWire
<1>4. Packet.form \in Forms
  BY <1>1, PacketsHaveRecords
<1> DEFINE l == Length
           f == Packet.form
<1>5. /\ f \in {"oversize", "wrapped"} <=> l > BufferSize
      /\ f = "wrapped" => l - 5 >= BufferSize
      /\ l \in Nat
  BY <1>1, <1>2, <1>3
<1> HIDE DEF l, f
<1>6. /\ f \in {"oversize", "wrapped"} <=> BufferSize < l
      /\ f = "wrapped" => BufferSize <= l - 5
  BY <1>5, BufferSizeAssumption
<1> QED BY <1>4, <1>6 DEF l, f

(* The first bytes of a packet in the buffer.                              *)
LEMMA HeadReceived ==
  ASSUME Inputs, message.kind = "packet", from = 1
  PROVE  /\ 9 <= to => /\ \A j \in 1..4 : data[j] = 0
                       /\ data[9] = CodecOf(Packet)
         /\ 10 <= to => data[10] = LowByte(CountOf(Packet))
         /\ to <= 8 => data[9] = 0
         /\ to <= 9 => data[10] = 0
         /\ data[11] = 0
<1>1. /\ Packet \in Packets /\ BufferSize \in Nat /\ 15 <= BufferSize
      /\ to \in Nat /\ 1 <= to
      /\ \A j \in 1..to : data[j] = W[j]
      /\ \A j \in 1..BufferSize : to < j => data[j] = 0
  BY PacketGiven, BufferSizeAssumption
<1>2. /\ W \in Seq(Bytes)
      /\ \A j \in 1..4 : W[j] = 0
      /\ W[9] = CodecOf(Packet) /\ W[10] = LowByte(CountOf(Packet))
      /\ RecordAt(Packet, 1) = 10
  BY <1>1, RecordsLayout DEF W
<1>3. 9 <= to => (\A j \in 1..4 : data[j] = 0) /\ data[9] = CodecOf(Packet)
  <2> SUFFICES ASSUME 9 <= to
               PROVE  (\A j \in 1..4 : data[j] = 0) /\ data[9] = CodecOf(Packet)
    OBVIOUS
  <2>1. 9 \in 1..to /\ \A j \in 1..4 : j \in 1..to
    BY <1>1
  <2> QED BY <1>1, <1>2, <2>1, Zenon
<1>4. 10 <= to => data[10] = LowByte(CountOf(Packet))
  <2>1. 10 <= to => 10 \in 1..to
    BY <1>1
  <2> QED BY <1>1, <1>2, <2>1, Zenon
<1>5. to <= 8 => data[9] = 0
  <2>1. to <= 8 => 9 \in 1..BufferSize /\ to < 9
    BY <1>1
  <2> QED BY <1>1, <2>1, Zenon
<1>6. to <= 9 => data[10] = 0
  <2>1. to <= 9 => 10 \in 1..BufferSize /\ to < 10
    BY <1>1
  <2> QED BY <1>1, <2>1, Zenon
<1>7. data[11] = 0
  <2>1. CASE to < 11
    <3>1. 11 \in 1..BufferSize
      BY <1>1
    <3> QED BY <1>1, <2>1, <3>1, Zenon
  <2>2. CASE ~(to < 11)
    <3> DEFINE p == Packet.points[1]
               fields == EncodeFields(p)
    <3>1. 1 \in 1..Len(Packet.points)
      BY <1>1, PacketsHaveRecords
    <3>2. IsAVLData(p)
      BY <1>1, <3>1, PacketsHaveRecords
    <3>3. p.time[1] = 0
      BY <1>1, <3>1, RecordsAssumption
    <3>4. Spells(W, 10, fields)
      BY <1>1, <1>2, <3>1, StagesLayout DEF W
    <3>5. fields \in Seq(Bytes) /\ Spells(fields, 0, p.time)
      BY <3>2, FieldsLayout
    <3>6. p.time \in Seq(Bytes) /\ Len(p.time) = 8
      BY <3>2, AVLDataTypes
    <3> HIDE DEF p, fields
    <3>7. Spells(W, 10 + 0, p.time)
      BY <1>2, <3>4, <3>5, <3>6, SpellsWithin, Zenon
    <3>8. W[11] = 0
      <4>1. 1 \in 1..Len(p.time) /\ (10 + 0) + 1 = 11
        BY <3>6
      <4>2. \A j \in 1..Len(p.time) : W[(10 + 0) + j] = p.time[j]
        BY <3>7 DEF Spells
      <4> QED BY <3>3, <4>1, <4>2
    <3>9. 11 \in 1..to
      BY <1>1, <2>2
    <3> QED BY <1>1, <3>8, <3>9
  <2> QED BY <2>1, <2>2
<1> QED BY <1>3, <1>4, <1>5, <1>6, <1>7

(* The two counts of a packet, cut to a byte: 256 records are none, and    *)
(* one more than n is not n.                                               *)
LEMMA Counts ==
  ASSUME NEW q \in Packets
  PROVE  /\ q.form # "wrapped" => LowByte(CountOf(q)) = Len(q.points)
         /\ q.form = "wrapped" => LowByte(CountOf(q)) = 0
         /\ q.form \in {"codec8e", "oversize"} => LowByte(ClosingOf(q)) = Len(q.points)
         /\ q.form = "miscounted" => LowByte(ClosingOf(q)) # Len(q.points)
<1> DEFINE n == Len(q.points)
<1>1. n \in Nat /\ 1 <= n /\ n < 256
  BY PacketsHaveRecords
<1> HIDE DEF n
<1>2. n % 256 = n /\ (n + 1) % 256 # n /\ 256 % 256 = 0
  BY <1>1, Z3
<1>3. /\ CountOf(q) = IF q.form = "wrapped" THEN 256 ELSE n
      /\ q.form \in {"codec8e", "oversize"} => ClosingOf(q) = n
      /\ q.form = "miscounted" => ClosingOf(q) = n + 1
  BY DEF CountOf, ClosingOf, n
<1>4. LowByte(n) = n /\ LowByte(n + 1) # n /\ LowByte(256) = 0
  BY <1>2 DEF LowByte
<1> QED BY <1>3, <1>4 DEF n

(* The codec that is parsed, and others.                                   *)
LEMMA CodecsDiffer ==
  ASSUME NEW q
  PROVE  /\ q.form = "otherCodec" => CodecOf(q) # Codec8Extended
         /\ q.form # "otherCodec" => CodecOf(q) = Codec8Extended
         /\ 0 # Codec8Extended
BY DEF CodecOf, Codec8Extended

(* The header of a packet that is tracked leads to its first record.       *)
LEMMA HeadTracked ==
  ASSUME Cursor, Tracked, ParseHeader
  PROVE  at' = "records" /\ InStep'
<1>1. /\ UNCHANGED inputVars /\ at = "header" /\ pos' = pos + Wanted
      /\ number' = NextBytes(10)[10]
      /\ at' = IF SubSeq(NextBytes(10), 1, 4) = Zeros(4) /\ NextBytes(10)[9] = Codec8Extended
               THEN "records" ELSE "refused"
      /\ points' = points
  BY DEF ParseHeader, Consume, HeaderLength
<1>2. points = <<>> /\ Inputs
  BY <1>1 DEF Cursor
<1>3. /\ \A j \in 1..10 : NextBytes(10)[j] = data[j]
      /\ (\A j \in 1..4 : data[j] = 0) => SubSeq(NextBytes(10), 1, 4) = Zeros(4)
      /\ pos = 0 /\ Wanted = 10
  BY <1>1, HeaderIs
<1>4. /\ Packet \in Packets /\ W \in Seq(Bytes) /\ to \in Nat /\ 10 <= to
      /\ Len(Packet.points) \in Nat
  BY PacketFacts
<1>5. /\ \A j \in 1..4 : data[j] = 0
      /\ data[9] = CodecOf(Packet) /\ data[10] = LowByte(CountOf(Packet))
  <2>1. 9 <= to
    BY <1>4
  <2> QED BY <1>2, <1>4, <2>1, HeadReceived DEF Tracked
<1>6. CodecOf(Packet) = Codec8Extended /\ LowByte(CountOf(Packet)) = Len(Packet.points)
  BY <1>4, CodecsDiffer, Counts DEF Tracked
<1>7. NextBytes(10)[9] = data[9] /\ NextBytes(10)[10] = data[10]
  <2>1. 9 \in 1..10 /\ 10 \in 1..10
    OBVIOUS
  <2> QED BY <1>3, <2>1, Zenon
<1>8. at' = "records" /\ number' = Len(Packet.points)
  BY <1>1, <1>3, <1>5, <1>6, <1>7
<1>9. Packet' = Packet /\ to' = to
  BY <1>1, PacketStays
<1>10. pos' = 10 /\ points' = <<>> /\ Len(points') = 0
  BY <1>1, <1>2, <1>3
<1>11. RecordAt(Packet, Len(points') + 1) = 10
  <2>1. Len(points') + 1 = 1
    BY <1>10
  <2>2. RecordAt(Packet, 1) = 10
    BY <1>4, RecordsLayout DEF W
  <2> QED BY <2>1, <2>2
<1>12. AtPlace(RecordAt(Packet, Len(points) + 1))'
  BY <1>9, <1>10, <1>11 DEF AtPlace
<1>13. \A j \in 1..Len(points') : points'[j] = PointOf(Packet'.points[j])
  BY <1>10
<1> QED BY <1>8, <1>9, <1>12, <1>13 DEF InStep

(* Any other one is refused, or taken for a packet without records.        *)
LEMMA HeadUntracked ==
  ASSUME Cursor, ~Tracked, ParseHeader
  PROVE  \/ at' = "refused" /\ Refuses(Got)
         \/ at' = "records" /\ Uncounted'
<1>1. /\ UNCHANGED inputVars /\ at = "header" /\ pos' = pos + Wanted
      /\ number' = NextBytes(10)[10]
      /\ at' = IF SubSeq(NextBytes(10), 1, 4) = Zeros(4) /\ NextBytes(10)[9] = Codec8Extended
               THEN "records" ELSE "refused"
      /\ points' = points
  BY DEF ParseHeader, Consume, HeaderLength
<1>2. points = <<>> /\ Inputs /\ message.kind = "packet"
  BY <1>1 DEF Cursor, Reading
<1>3. /\ \A j \in 1..10 : NextBytes(10)[j] = data[j]
      /\ (\A j \in 1..4 : data[j] = 0) => SubSeq(NextBytes(10), 1, 4) = Zeros(4)
      /\ pos = 0 /\ Wanted = 10
  BY <1>1, HeaderIs
<1>4. NextBytes(10)[9] = data[9] /\ NextBytes(10)[10] = data[10]
  <2>1. 9 \in 1..10 /\ 10 \in 1..10
    OBVIOUS
  <2> QED BY <1>3, <2>1, Zenon
<1>5. /\ Packet \in Packets
      /\ from # 1 => data[9] = 0
      /\ from = 1 => to \in Nat /\ 1 <= to
  BY <1>2, PacketGiven
<1>6. /\ Packet.form # "otherCodec" => CodecOf(Packet) = Codec8Extended
      /\ Packet.form = "otherCodec" => CodecOf(Packet) # Codec8Extended
      /\ 0 # Codec8Extended
  BY CodecsDiffer
<1>7. data[9] # Codec8Extended => at' = "refused"
  BY <1>1, <1>4
<1>8. CASE from # 1
  <2>1. Got.part = "rest"
    BY <1>2, <1>8, PartsRead
  <2>2. Refuses(Got)
    BY <2>1 DEF Refuses, Accepts, Overruns, CodecSeen
  <2> QED BY <1>5, <1>6, <1>7, <1>8, <2>2
<1>9. CASE from = 1 /\ to <= 8
  <2>1. Got.part = "header" /\ data[9] = 0
    BY <1>2, <1>9, PartsRead, HeadReceived
  <2>2. Refuses(Got)
    BY <2>1 DEF Refuses, Accepts, Overruns, CodecSeen
  <2> QED BY <1>6, <1>7, <2>1, <2>2
<1>10. CASE from = 1 /\ 9 <= to /\ Packet.form = "otherCodec"
  <2>1. data[9] = CodecOf(Packet)
    BY <1>2, <1>10, HeadReceived
  <2>2. Got.packet.form = "otherCodec"
    BY <1>2, <1>10, PartsRead
  <2>3. Refuses(Got)
    BY <2>2 DEF Refuses, Accepts, Overruns, CodecSeen
  <2> QED BY <1>6, <1>7, <1>10, <2>1, <2>3
<1>11. CASE from = 1 /\ 9 <= to /\ Packet.form # "otherCodec"
  <2>1. Packet.form \in Forms
    BY <1>2, Sizes
  <2>2. to = 9 \/ (10 <= to /\ Packet.form = "wrapped")
    <3>1. to = 9 \/ 10 <= to
      BY <1>5, <1>11
    <3> QED BY <1>2, <1>11, <2>1, <3>1 DEF Tracked, Forms
  <2>3. /\ \A j \in 1..4 : data[j] = 0
        /\ data[9] = CodecOf(Packet) /\ data[11] = 0
    BY <1>2, <1>11, HeadReceived
  <2>4. data[10] = 0
    <3>1. CASE to = 9
      <4>1. to <= 9
        BY <3>1
      <4> QED BY <1>2, <1>11, <4>1, HeadReceived
    <3>2. CASE 10 <= to /\ Packet.form = "wrapped"
      BY <1>2, <1>5, <1>11, <3>2, HeadReceived, Counts
    <3> QED BY <2>2, <3>1, <3>2
  <2>5. at' = "records" /\ number' = 0
    BY <1>1, <1>3, <1>4, <1>6, <1>11, <2>3, <2>4
  <2>6. Got.packet.form = Packet.form /\ Got.part \in {"codec", "body"}
        /\ (to = 9 => Got.part = "codec")
    <3>1. to = 9 => Got.part = "codec"
      BY <1>2, <1>11, PartsRead
    <3>2. Packet.form = "wrapped" /\ 10 <= to => Got.part = "body"
      <4>1. /\ Packet.form = "wrapped" => BufferSize <= Length - 5
            /\ to <= BufferSize /\ BufferSize \in Nat /\ Length \in Nat /\ to \in Nat
        BY <1>2, <1>11, Sizes, PacketGiven, PacketsAreLong, BufferSizeAssumption DEF W
      <4> DEFINE l == Length
      <4>2. Packet.form = "wrapped" => to <= l - 5
        <5>1. /\ Packet.form = "wrapped" => BufferSize <= l - 5
              /\ to <= BufferSize /\ BufferSize \in Nat /\ l \in Nat /\ to \in Nat
          BY <4>1
        <5> HIDE DEF l
        <5> QED BY <5>1
      <4> QED BY <1>2, <1>11, <4>2, PartsRead DEF l
    <3> QED BY <1>2, <2>2, <3>1, <3>2, PartsRead
  <2>7. CodecSeen(Got) /\ ReadsNoRecords(Got)
    BY <1>11, <2>2, <2>6 DEF CodecSeen, ReadsNoRecords
  <2>8. Got' = Got /\ data' = data
    BY <1>1, PacketStays
  <2>9. pos' = 10 /\ points' = <<>>
    BY <1>1, <1>2, <1>3
  <2> QED BY <2>3, <2>5, <2>7, <2>8, <2>9 DEF Uncounted
<1>12. from = 1 => to <= 8 \/ 9 <= to
  BY <1>5
<1> QED BY <1>8, <1>9, <1>10, <1>11, <1>12

(* The closing count is one byte.                                          *)
LEMMA ClosingByte ==
  ASSUME Cursor, message.kind = "packet", pos + 1 <= Len(data)
  PROVE  ClosingMatches <=> data[pos + 1] = number
<1>1. data \in Seq(Bytes) /\ pos \in Nat
  <2>1. data \in Seq(Bytes) /\ Len(data) \in Nat /\ pos \in 0..Len(data)
    BY DataGiven DEF Cursor, ParserTypeOK
  <2> HIDE DEF Bytes
  <2> QED BY <2>1
<1> DEFINE b == NextBytes(1)
<1>2. b \in Seq(Bytes) /\ Len(b) = 1 /\ b[1] = data[pos + 1]
  <2>1. 1 \in Nat /\ 1 <= 1 /\ 1 \in 1..1
    OBVIOUS
  <2> QED BY <1>1, <2>1, NextIs, Zenon
<1> HIDE DEF b, Bytes
<1>3. b = <<data[pos + 1]>>
  BY <1>2
<1>4. b = <<number>> <=> data[pos + 1] = number
  <2> DEFINE x == data[pos + 1]
  <2>1. b = <<x>>
    BY <1>3
  <2> HIDE DEF x
  <2>2. <<x>>[1] = x /\ <<number>>[1] = number
    OBVIOUS
  <2>3. b = <<number>> <=> x = number
    BY <2>1, <2>2, Zenon
  <2> QED BY <2>3 DEF x
<1> QED BY <1>4 DEF ClosingMatches, b

(* The end of the records of a packet that is tracked.                     *)
LEMMA EndTracked ==
  ASSUME Cursor, Tracked, InStep, EndRecords
  PROVE  IF at' = "accepted"
         THEN /\ Accepts(Got) /\ Len(points) = Count(Got)
              /\ \A j \in 1..Len(Packet.points) : points[j] = PointOf(Packet.points[j])
         ELSE Refuses(Got)
<1> DEFINE n == Len(Packet.points)
           l == Length
<1>1. /\ at = "records" /\ Len(points) = number /\ Enough
      /\ at' = IF ClosingMatches THEN "accepted" ELSE "refused"
  BY DEF EndRecords, Consume
<1>2. /\ Packet \in Packets /\ Inputs
      /\ W \in Seq(Bytes) /\ l = Len(W) /\ l \in Nat /\ 15 <= l
      /\ Len(data) = BufferSize /\ BufferSize \in Nat
      /\ to \in Nat /\ 10 <= to /\ to <= l /\ to <= BufferSize /\ pos \in Nat
  BY PacketFacts
<1>3. n \in Nat /\ 1 <= n /\ n < 256
  BY <1>2, PacketsHaveRecords
<1>4. /\ message.kind = "packet" /\ from = 1
      /\ Packet.form \in {"codec8e", "miscounted", "oversize"}
  BY DEF Tracked
<1>5. RecordAt(Packet, n + 1) = l - 5 /\ W[l - 4] = LowByte(ClosingOf(Packet))
  BY <1>2, RecordsLayout DEF W
<1>6. number = n /\ Len(points) = n /\ pos <= l - 5 /\ (pos < to => pos = l - 5)
      /\ (pos < to => \A j \in 1..n : points[j] = PointOf(Packet.points[j]))
  <2>1. number = n /\ AtPlace(RecordAt(Packet, Len(points) + 1))
    BY <1>1 DEF InStep
  <2>2. Len(points) = n
    BY <1>1, <2>1
  <2>3. pos < to => \A j \in 1..Len(points) : points[j] = PointOf(Packet.points[j])
    BY DEF InStep
  <2> HIDE DEF n, l
  <2> QED BY <1>5, <2>1, <2>2, <2>3 DEF AtPlace
<1>7. Got.packet.form = Packet.form /\ Got.packet.n = n
  BY <1>2, <1>4, PartsRead
<1>8. Wanted = (IF ClosingMatches THEN 5 ELSE 1) /\ pos + Wanted <= BufferSize
  <2>1. ~(Len(points) < number)
    <3> HIDE DEF n
    <3> QED BY <1>3, <1>6
  <2>2. Wanted = IF ClosingMatches THEN 5 ELSE 1
    BY <1>1, <2>1, WantedIs
  <2> QED BY <1>1, <1>2, <2>2 DEF Enough
<1> HIDE DEF n, l
<1>9. ClosingMatches <=> data[pos + 1] = number
  <2>1. pos + 1 <= Len(data)
    BY <1>2, <1>8
  <2> QED BY <1>4, <2>1, ClosingByte
<1>10. CASE to <= l - 5
  <2>1. ~(pos < to)
    BY <1>2, <1>6, <1>10
  <2>2. data[pos + 1] = 0
    <3>1. pos + 1 \in 1..BufferSize /\ to < pos + 1
      BY <1>2, <1>8, <2>1
    <3> QED BY <1>2, <1>4, <3>1, PacketGiven
  <2>3. ~ClosingMatches
    BY <1>3, <1>6, <1>9, <2>2
  <2>4. Got.part = "body"
    BY <1>2, <1>4, <1>10, PartsRead DEF l
  <2>5. Refuses(Got)
    BY <1>4, <1>7, <2>4
       DEF Refuses, Accepts, Overruns, CodecSeen, CountSeen, ReadsNoRecords
  <2> QED BY <1>1, <2>3, <2>5
<1>11. CASE ~(to <= l - 5)
  <2>1. pos = l - 5 /\ pos < to
    BY <1>2, <1>6, <1>11
  <2>2. data[pos + 1] = LowByte(ClosingOf(Packet))
    <3>1. pos + 1 \in 1..to /\ pos + 1 = l - 4
      BY <1>2, <2>1
    <3>2. data[pos + 1] = W[pos + 1]
      BY <1>2, <1>4, <3>1, PacketGiven
    <3> QED BY <1>5, <3>1, <3>2
  <2>3. Got.part \in {"counted", "whole"}
    <3>1. l - 5 < to
      BY <1>2, <1>11
    <3> QED BY <1>2, <1>4, <3>1, PartsRead DEF l
  <2>4. CASE Packet.form = "miscounted"
    <3>1. ~ClosingMatches
      BY <1>2, <1>6, <1>9, <2>2, <2>4, Counts DEF n
    <3>2. Refuses(Got)
      BY <1>7, <2>3, <2>4
         DEF Refuses, Accepts, Overruns, CodecSeen, CountSeen, ReadsNoRecords
    <3> QED BY <1>1, <3>1, <3>2
  <2>5. CASE Packet.form = "codec8e"
    <3>1. ClosingMatches
      BY <1>2, <1>6, <1>9, <2>2, <2>5, Counts DEF n
    <3>2. Accepts(Got) /\ Count(Got) = n
      BY <1>7, <2>3, <2>5
         DEF Accepts, Count, CodecSeen, CountSeen, ReadsNoRecords
    <3> QED BY <1>1, <1>6, <2>1, <3>1, <3>2 DEF n
  <2>6. CASE Packet.form = "oversize"
    <3>1. ClosingMatches
      BY <1>2, <1>6, <1>9, <2>2, <2>6, Counts DEF n
    <3>2. BufferSize < l
      BY <1>2, <1>4, <2>6, Sizes DEF l
    <3> QED BY <1>2, <1>8, <2>1, <3>1, <3>2
  <2> QED BY <1>4, <2>4, <2>5, <2>6
<1> QED BY <1>10, <1>11

(* No reader lacks what it wants of a packet that fits in the buffer.      *)
LEMMA EnoughTracked ==
  ASSUME Cursor, Tracked, InStep, at \in Past, Packet.form # "oversize"
  PROVE  Enough
<1> DEFINE n == Len(Packet.points)
           l == Length
           i == Len(points) + 1
<1>1. /\ Packet \in Packets /\ Inputs
      /\ W \in Seq(Bytes) /\ l = Len(W) /\ l \in Nat /\ 15 <= l
      /\ Len(data) = BufferSize /\ BufferSize \in Nat /\ pos \in Nat /\ pos <= BufferSize
  BY PacketFacts
<1>2. l <= BufferSize
  <2>1. message.kind = "packet" /\ Packet.form \notin {"oversize", "wrapped"}
    BY DEF Tracked
  <2>2. ~(BufferSize < Length)
    BY <1>1, <2>1, Sizes
  <2> QED BY <1>1, <2>2
<1>3. n \in Nat /\ number = n /\ Len(points) <= number /\ Len(points) \in Nat
  <2>1. PICK S : points \in Seq(S)
    BY DEF Cursor
  <2>2. Len(points) \in Nat
    BY <2>1
  <2> QED BY <1>1, <2>2, PacketsHaveRecords DEF InStep, Cursor, ParserTypeOK
<1>4. SUFFICES pos + Wanted <= l
  <2> HIDE DEF l
  <2>1. Wanted \in Nat
    <3>1. at = "elements" /\ left > 0 => Streams[stage] \in Nat
      BY StreamsAre DEF Cursor
    <3>2. at \in {"records", "stage", "elements"}
      BY DEF Past
    <3> HIDE DEF ClosingMatches
    <3>3. at = "records" => Wanted \in {28, 5, 1}
      BY <1>3, WantedIs
    <3>4. at = "elements" => Wanted \in Nat
      BY <3>1, WantedIs
    <3> QED BY <3>2, <3>3, <3>4, WantedIs
  <2> QED BY <1>1, <1>2, <2>1 DEF Enough
<1>5. CASE at = "records" /\ Len(points) < number
  <2>1. i \in 1..n
    BY <1>3, <1>5
  <2>2. 1 \in 1..4 /\ 1 \in 1..5
    OBVIOUS
  <2> DEFINE r == RecordAt(Packet, i)
             b == EncodeStage(InHand.vals, 1)
  <2>3. StageAt(Packet, i, 1) = r + 28 /\ Spells(W, StageAt(Packet, i, 1), b)
    BY <1>1, <2>1, <2>2, StagesLayout DEF W, InHand
  <2>4. IsAVLData(InHand)
    BY <1>1, <2>1, PacketsHaveRecords DEF InHand
  <2>5. Len(b) \in Nat
    BY <2>2, <2>4, StageLayout
  <2>6. pos <= r
    BY <1>5 DEF InStep, AtPlace
  <2>7. r \in Nat
    <3>1. i \in 1..(n + 1)
      <4> HIDE DEF i, n
      <4> QED BY <1>3, <2>1
    <3> QED BY <1>1, <3>1, RecordsLayout
  <2>8. Wanted = 28
    BY <1>5, WantedIs
  <2>9. (r + 28) + Len(b) <= Len(W)
    BY <2>3 DEF Spells
  <2> HIDE DEF r, b, l
  <2> QED BY <1>1, <2>5, <2>6, <2>7, <2>8, <2>9
<1>6. CASE at = "records" /\ ~(Len(points) < number)
  <2>1. Len(points) = number /\ i = n + 1
    BY <1>3, <1>6
  <2> DEFINE r == RecordAt(Packet, i)
  <2>2. r = l - 5
    BY <1>1, <2>1, RecordsLayout DEF W
  <2>3. pos <= r
    BY <1>6 DEF InStep, AtPlace
  <2>4. Wanted = 5 \/ Wanted = 1
    <3> HIDE DEF ClosingMatches
    <3> QED BY <1>6, <2>1, WantedIs
  <2> HIDE DEF r, l
  <2> QED BY <1>1, <2>2, <2>3, <2>4
<1>7. CASE at = "stage"
  <2>1. i \in 1..n /\ stage \in 1..4 /\ CountIn \in Nat
    BY <1>7, HandFacts
  <2> DEFINE a == StageAt(Packet, i, stage)
             t == AppendUint16(CountIn)
  <2>2. Spells(W, a, t)
    BY <1>1, <2>1, ElementsLayout DEF W, CountIn
  <2>3. Len(t) = 2
    <3>1. CountIn \in Int
      BY <2>1
    <3> QED BY <3>1, TwoBytesLong, Zenon
  <2>4. a \in Nat /\ a + Len(t) <= Len(W)
    BY <2>2 DEF Spells
  <2>5. pos <= a
    BY <1>7 DEF InStep, AtPlace
  <2>6. Wanted = 2
    BY <1>7, WantedIs
  <2> HIDE DEF a, t, l
  <2> QED BY <1>1, <2>3, <2>4, <2>5, <2>6
<1>8. CASE at = "elements" /\ left > 0
  <2>1. /\ i \in 1..n /\ stage \in 1..4 /\ CountIn \in Nat /\ left \in Nat /\ IsAVLData(InHand)
        /\ InStage(Packet, i, stage) = Chosen(InHand.vals, stage)
    BY <1>8, HandFacts
  <2>2. /\ left <= CountIn
        /\ pos <= ElementAt(Packet, i, stage, CountIn - left)
    BY <1>8 DEF InStep, AtPlace
  <2> DEFINE count == CountIn
             k == (count - left) + 1
             chosen == InStage(Packet, i, stage)
             c == EncodeElement(chosen[k])
             e == ElementAt(Packet, i, stage, k - 1)
  <2>3. k \in 1..count /\ k - 1 = count - left
    <3>1. count \in Nat /\ left <= count /\ left \in Nat
      BY <2>1, <2>2
    <3> HIDE DEF count
    <3> QED BY <1>8, <3>1
  <2>4. Spells(W, e, c)
    <3>1. \A j \in 1..count : Spells(W, ElementAt(Packet, i, stage, j - 1),
                                     EncodeElement(chosen[j]))
      BY <1>1, <2>1, ElementsLayout DEF W, CountIn
    <3> HIDE DEF count, k, chosen
    <3> QED BY <2>3, <3>1
  <2>5. chosen \in Seq(Filling(stage)) /\ Len(chosen) = count
    BY <2>1, ChosenFill DEF CountIn
  <2>6. Len(c) = 2 + Streams[stage] /\ Streams[stage] \in Nat
    <3> HIDE DEF chosen, count, k
    <3>1. chosen[k] \in Filling(stage)
      BY <2>3, <2>5, ElementOfSeq
    <3> QED BY <2>1, <3>1, ElementLayout, StreamsAre
  <2>7. e \in Nat /\ e + Len(c) <= Len(W)
    BY <2>4 DEF Spells
  <2>8. pos <= e
    <3> HIDE DEF count, k
    <3> QED BY <2>2, <2>3 DEF count
  <2>9. Wanted = 2 + Streams[stage]
    BY <1>8, WantedIs
  <2> HIDE DEF e, c, l
  <2> QED BY <1>1, <2>6, <2>7, <2>8, <2>9
<1>9. CASE at = "elements" /\ ~(left > 0)
  <2>1. i \in 1..n /\ stage \in 1..4 /\ CountIn \in Nat /\ left \in Nat
    BY <1>9, HandFacts
  <2>2. /\ left <= CountIn
        /\ pos <= ElementAt(Packet, i, stage, CountIn - left)
    BY <1>9 DEF InStep, AtPlace
  <2>3. CountIn - left = CountIn
    BY <1>9, <2>1
  <2>4. ElementAt(Packet, i, stage, CountIn) = StageAt(Packet, i, stage + 1)
    BY <1>1, <2>1, ElementsLayout DEF CountIn
  <2> DEFINE a == StageAt(Packet, i, stage + 1)
  <2>5. a <= l
    <3> DEFINE x == StageAt(Packet, i, stage)
               b == EncodeStage(InHand.vals, stage)
    <3>1. a = x + Len(b) /\ Spells(W, x, b)
      BY <1>1, <2>1, StagesLayout DEF W, InHand
    <3>2. a <= Len(W)
      BY <3>1 DEF Spells
    <3> QED BY <1>1, <3>2
  <2>6. a \in Nat
    <3>1. stage + 1 \in 1..5
      BY <2>1
    <3> QED BY <1>1, <2>1, <3>1, StagesLayout
  <2>7. pos <= a /\ Wanted = 0
    BY <1>9, <2>2, <2>3, <2>4, WantedIs
  <2> HIDE DEF a, l
  <2> QED BY <1>1, <2>5, <2>6, <2>7
<1> QED BY <1>5, <1>6, <1>7, <1>8, <1>9 DEF Past

-----------------------------------------------------------------------------
(* The invariant, and the theorems.                                        *)

(* The invariant holds at the start, where nothing is past the header ...  *)
LEMMA CourseInit == Init => Course
<1> SUFFICES ASSUME Init PROVE Course
  OBVIOUS
<1>1. Cursor
  BY CursorInit
<1>2. at \in {"imei", "header"}
  BY DEF Init
<1>3. at \notin Past /\ at # "accepted" /\ at # "refused" /\ at # "panicked"
  BY <1>2 DEF Past
<1> QED BY <1>1, <1>3 DEF Course, Verdict

(* DecodeIMEI takes the whole message, and nothing less, for an IMEI.      *)
LEMMA WholeIMEI ==
  ASSUME Cursor, at = "imei"
  PROVE  message.kind = "imei" /\ (DecodesIMEI(data) <=> PartRead = "whole")
<1>1. message.kind = "imei" /\ Inputs
  BY DEF Cursor
<1>2. /\ from = 1 /\ Length = 17 /\ to \in 1..17
      /\ Len(data) = to
      /\ to >= 2 => Uint16(data) = 15
  BY <1>1, IMEIGiven
<1>3. DecodesIMEI(data) <=> to = 17
  BY <1>2 DEF DecodesIMEI
<1>4. PartRead = "whole" <=> to = 17
  <2>1. PartRead =
          CASE from > 1 -> "rest"
            [] from = 1 /\ to = 17 -> "whole"
            [] from = 1 /\ to <= 8 -> "header"
            [] from = 1 /\ to = 9 -> "codec"
            [] from = 1 /\ to \in 10..(17 - 5) -> "body"
            [] OTHER -> "counted"
    BY <1>2 DEF PartRead
  <2> QED BY <1>2, <2>1
<1> QED BY <1>1, <1>3, <1>4

(* What a panic tells of the packet.                                       *)
LEMMA PanicOverruns ==
  ASSUME Course, ReadPanics, ZoneInfo
  PROVE  message.kind = "packet" /\ Overruns(Got)
<1>1. Cursor /\ Inputs /\ ParserTypeOK
  BY DEF Course, Cursor
<1>2. ~Enough
  BY DEF ReadPanics
<1>3. pos \in Nat /\ Len(data) \in Nat /\ pos <= Len(data)
  <2>1. pos \in 0..Len(data) /\ Len(data) \in Nat
    BY <1>1, DataGiven DEF ParserTypeOK
  <2> QED BY <2>1
<1>4. at \notin Outcomes \cup {"imei"}
  <2> SUFFICES ASSUME at \in Outcomes \cup {"imei"} PROVE FALSE
    OBVIOUS
  <2>1. Wanted = 0
    BY WantedIs
  <2> QED BY <1>2, <1>3, <2>1 DEF Enough
<1>5. at # "header"
  BY <1>1, <1>2, HeaderIs
<1>6. at \in Past /\ message.kind = "packet"
  <2>1. at \in Past
    BY <1>1, <1>4, <1>5 DEF ParserTypeOK, Past
  <2> QED BY <1>1, <2>1 DEF Cursor, Past, Reading
<1>7. CASE ~Tracked
  <2>1. Uncounted
    BY <1>6, <1>7 DEF Course
  <2>2. Len(data) = BufferSize /\ 15 <= BufferSize /\ BufferSize \in Nat
    BY <1>1, <1>6, PacketGiven, BufferSizeAssumption
  <2>3. Wanted \in {1, 5}
    <3>1. at = "records" /\ Len(points) = number /\ ~(Len(points) < number)
      BY <2>1 DEF Uncounted
    <3> HIDE DEF ClosingMatches
    <3> QED BY <3>1, WantedIs
  <2>4. pos = 10
    BY <2>1 DEF Uncounted
  <2> QED BY <1>2, <2>2, <2>3, <2>4 DEF Enough
<1>8. CASE Tracked
  <2>1. InStep
    BY <1>6, <1>8 DEF Course
  <2>2. Packet.form = "oversize"
    BY <1>1, <1>2, <1>6, <1>8, <2>1, EnoughTracked
  <2>3. from = 1 /\ 10 <= to /\ to \in Nat /\ Length \in Nat
    BY <1>1, <1>8, PacketFacts DEF Tracked
  <2>4. Got.part \in {"body", "counted", "whole"} /\ Got.packet.form = "oversize"
    <3>1. to <= Length - 5 \/ Length - 5 < to
      BY <2>3
    <3> QED BY <1>1, <1>6, <2>2, <2>3, <3>1, PartsRead
  <2> QED BY <1>6, <2>4 DEF Overruns, CodecSeen
<1> QED BY <1>7, <1>8

(* The end of the records where there are none.                            *)
LEMMA EndUncounted ==
  ASSUME Cursor, message.kind = "packet", Uncounted, EndRecords
  PROVE  at' = "accepted" /\ Accepts(Got) /\ Len(points) = Count(Got) /\ ~CountSeen(Got)
<1>1. /\ at = "records" /\ Len(points) = number /\ Enough
      /\ at' = IF ClosingMatches THEN "accepted" ELSE "refused"
  BY DEF EndRecords, Consume
<1>2. /\ number = 0 /\ points = <<>> /\ pos = 10 /\ data[11] = 0
      /\ CodecSeen(Got) /\ ReadsNoRecords(Got)
  BY DEF Uncounted
<1>3. Len(data) = BufferSize /\ 15 <= BufferSize /\ BufferSize \in Nat
  BY PacketGiven, BufferSizeAssumption DEF Cursor
<1>4. pos + 1 <= Len(data) /\ pos + 1 = 11
  BY <1>2, <1>3
<1>5. ClosingMatches
  BY <1>2, <1>4, ClosingByte
<1>6. Accepts(Got) /\ Len(points) = Count(Got)
  BY <1>2 DEF Accepts, Count
<1>7. ~CountSeen(Got)
  BY <1>2 DEF ReadsNoRecords, CountSeen
<1> QED BY <1>1, <1>5, <1>6, <1>7

(* ... and after every step.                                               *)
LEMMA CourseStep == Course /\ [Next]_vars => Course'
<1> SUFFICES ASSUME Course, [Next]_vars PROVE Course'
  OBVIOUS
<1>1. Cursor /\ Cursor'
  BY CursorStep DEF Course
<1>2. Inputs
  BY <1>1 DEF Cursor
<1>3. ASSUME UNCHANGED inputVars
      PROVE  /\ message' = message /\ Packet' = Packet /\ (Tracked' <=> Tracked)
             /\ Got' = Got /\ PartRead' = PartRead /\ data' = data
  BY <1>3, PacketStays DEF inputVars, PartRead, Length
(* A step within the records, where there are any.                         *)
<1>4. ASSUME UNCHANGED inputVars, message.kind = "packet", at' \in Past, Tracked, InStep'
      PROVE  Course'
  <2>1. message'.kind = "packet" /\ Tracked'
    BY <1>3, <1>4
  <2>2. at' \notin {"accepted", "refused", "panicked"}
    BY <1>4 DEF Past
  <2>3. Verdict'
    BY <2>1, <2>2 DEF Verdict
  <2> QED BY <1>1, <1>4, <2>1, <2>3 DEF Course
<1>5. ASSUME at \in {"stage", "elements"} \/ (at = "records" /\ Len(points) < number)
      PROVE  message.kind = "packet" /\ Tracked /\ InStep
  <2>1. at \in Past /\ at \in Reading
    BY <1>5 DEF Past, Reading
  <2>2. message.kind = "packet"
    BY <1>1, <2>1 DEF Cursor
  <2>3. ~Uncounted
    BY <1>5 DEF Uncounted
  <2> QED BY <2>1, <2>2, <2>3 DEF Course
<1>10. CASE DecodeIMEI
  <2>1. /\ UNCHANGED inputVars /\ at = "imei"
        /\ at' = IF DecodesIMEI(data) THEN "accepted" ELSE "refused"
    BY <1>10 DEF DecodeIMEI
  <2>2. message.kind = "imei" /\ (DecodesIMEI(data) <=> PartRead = "whole")
    BY <1>1, <2>1, WholeIMEI
  <2>3. message'.kind = "imei" /\ PartRead' = PartRead
    BY <1>3, <2>1, <2>2
  <2>4. Verdict'
    BY <2>1, <2>2, <2>3 DEF Verdict
  <2>5. at' \notin Past
    BY <2>1 DEF Past
  <2> QED BY <1>1, <2>4, <2>5 DEF Course
<1>11. CASE ParseHeader
  <2>1. UNCHANGED inputVars /\ at = "header"
    BY <1>11 DEF ParseHeader
  <2>2. message.kind = "packet"
    BY <1>1, <2>1 DEF Cursor, Reading
  <2>3. CASE Tracked
    <3>1. at' = "records" /\ InStep'
      BY <1>1, <1>11, <2>3, HeadTracked
    <3>2. at' \in Past
      BY <3>1 DEF Past
    <3> QED BY <1>4, <2>1, <2>2, <2>3, <3>1, <3>2
  <2>4. CASE ~Tracked
    <3>1. \/ at' = "refused" /\ Refuses(Got)
          \/ at' = "records" /\ Uncounted'
      BY <1>1, <1>11, <2>4, HeadUntracked
    <3>2. message'.kind = "packet" /\ ~Tracked' /\ Got' = Got
      BY <1>3, <2>1, <2>2, <2>4
    <3>3. Verdict'
      BY <3>1, <3>2 DEF Verdict
    <3>4. at' \in Past => Uncounted'
      BY <3>1 DEF Past
    <3> QED BY <1>1, <3>2, <3>3, <3>4 DEF Course
  <2> QED BY <2>3, <2>4
<1>12. CASE ReadPoint
  <2>1. UNCHANGED inputVars /\ at = "records" /\ Len(points) < number /\ at' \in Past
    BY <1>12 DEF ReadPoint, Past
  <2>2. InStep'
    BY <1>1, <1>5, <1>12, <2>1, StepPoint
  <2> QED BY <1>4, <1>5, <2>1, <2>2
<1>13. CASE ReadStageCount
  <2>1. UNCHANGED inputVars /\ at = "stage" /\ at' \in Past
    BY <1>13 DEF ReadStageCount, Past
  <2>2. InStep'
    BY <1>1, <1>5, <1>13, <2>1, StepCount
  <2> QED BY <1>4, <1>5, <2>1, <2>2
<1>14. CASE ReadElement
  <2>1. UNCHANGED inputVars /\ at = "elements" /\ at' \in Past
    BY <1>14 DEF ReadElement, Past
  <2>2. InStep'
    BY <1>1, <1>5, <1>14, <2>1, StepElement
  <2> QED BY <1>4, <1>5, <2>1, <2>2
<1>15. CASE EndStage
  <2>1. UNCHANGED inputVars /\ at = "elements" /\ at' \in Past
    BY <1>15 DEF EndStage, Past
  <2>2. InStep'
    BY <1>1, <1>5, <1>15, <2>1, StepStage
  <2> QED BY <1>4, <1>5, <2>1, <2>2
<1>16. CASE EndRecords
  <2>1. /\ UNCHANGED inputVars /\ at = "records" /\ at' \in {"accepted", "refused"}
        /\ points' = points
    BY <1>16 DEF EndRecords
  <2>2. message.kind = "packet" /\ at \in Past
    BY <1>1, <2>1 DEF Cursor, Reading, Past
  <2>3. message'.kind = "packet" /\ Got' = Got /\ Packet' = Packet
    BY <1>3, <2>1, <2>2
  <2>4. at' \notin Past
    BY <2>1 DEF Past
  <2>5. CASE Tracked
    <3>1. InStep
      BY <2>2, <2>5 DEF Course
    <3>2. IF at' = "accepted"
          THEN /\ Accepts(Got) /\ Len(points) = Count(Got)
               /\ \A j \in 1..Len(Packet.points) : points[j] = PointOf(Packet.points[j])
          ELSE Refuses(Got)
      BY <1>1, <1>16, <2>5, <3>1, EndTracked
    <3>3. Verdict'
      BY <2>1, <2>3, <3>2 DEF Verdict
    <3> QED BY <1>1, <2>4, <3>3 DEF Course
  <2>6. CASE ~Tracked
    <3>1. Uncounted
      BY <2>2, <2>6 DEF Course
    <3>2. at' = "accepted" /\ Accepts(Got) /\ Len(points) = Count(Got) /\ ~CountSeen(Got)
      BY <1>1, <1>16, <2>2, <3>1, EndUncounted
    <3>3. Verdict'
      BY <2>1, <2>3, <3>2 DEF Verdict
    <3> QED BY <1>1, <2>4, <3>3 DEF Course
  <2> QED BY <2>5, <2>6
<1>17. CASE ReadPanics
  <2>1. UNCHANGED inputVars /\ at' = "panicked"
    BY <1>17 DEF ReadPanics
  <2>2. ZoneInfo => message.kind = "packet" /\ Overruns(Got)
    BY <1>17, PanicOverruns
  <2>3. message' = message /\ Got' = Got
    BY <1>3, <2>1
  <2>4. Verdict'
    BY <2>1, <2>2, <2>3 DEF Verdict
  <2>5. at' \notin Past
    BY <2>1 DEF Past
  <2> QED BY <1>1, <2>4, <2>5 DEF Course
<1>18. CASE UNCHANGED vars
  <2>1. /\ UNCHANGED inputVars /\ at' = at /\ pos' = pos /\ number' = number
        /\ points' = points /\ gps' = gps /\ stage' = stage /\ left' = left
        /\ elements' = elements
    BY <1>18 DEF vars
  <2>2. /\ message' = message /\ Packet' = Packet /\ (Tracked' <=> Tracked)
        /\ Got' = Got /\ PartRead' = PartRead /\ data' = data /\ to' = to
    BY <1>3, <2>1 DEF inputVars
  <2>3. InHand' = InHand /\ CountIn' = CountIn
    BY <2>1, <2>2 DEF InHand, CountIn
  <2>4. InStep => InStep'
    BY <2>1, <2>2, <2>3 DEF InStep, AtPlace
  <2>5. Uncounted => Uncounted'
    BY <2>1, <2>2 DEF Uncounted
  <2>6. Verdict'
    BY <2>1, <2>2 DEF Course, Verdict
  <2>7. Tracked' /\ at' \in Past => InStep'
    BY <2>1, <2>2, <2>4 DEF Course
  <2>8. message'.kind = "packet" /\ ~Tracked' /\ at' \in Past => Uncounted'
    BY <2>1, <2>2, <2>5 DEF Course
  <2> QED BY <1>1, <2>6, <2>7, <2>8 DEF Course
<1> QED BY <1>10, <1>11, <1>12, <1>13, <1>14, <1>15, <1>16, <1>17, <1>18
        DEF Next, Returned

(* The invariant of the parser.                                            *)
THEOREM CourseInvariant == Spec => []Course
<1> QED BY CourseInit, CourseStep, PTL DEF Spec

(* Its verdict is the classification of the cuts.                          *)
LEMMA CourseClassifies == Course /\ ZoneInfo => CutsClassified
<1> QED BY DEF Course, Verdict, CutsClassified

(* Wherever a read cuts any IMEI message or packet, for any number of      *)
(* records of any size and elements, DecodeIMEI and ParsePacket return     *)
(* what PacketParts says, which is what the handler's model takes for      *)
(* granted. A machine without the database of time zones panics over every *)
(* record (parser.go 77-79), hence the hypothesis.                         *)
THEOREM EveryCutClassified ==
  ASSUME ZoneInfo
  PROVE  Spec => []CutsClassified
<1>1. Course => CutsClassified
  BY CourseClassifies
<1> QED BY <1>1, CourseInvariant, PTL

(* A packet that is accepted with its closing count is a whole one.        *)
LEMMA AcceptedWhole ==
  ASSUME Course, Accepted
  PROVE  /\ Packet \in Packets
         /\ \A j \in 1..Len(Sent) : points[j] = PointOf(Sent[j])
         /\ DOMAIN Sent = 1..Len(Sent)
<1>1. /\ at = "accepted" /\ message.kind = "packet" /\ PartRead \in {"counted", "whole"}
      /\ Inputs
  BY DEF Accepted, Course, Cursor
<1>2. message.kind # "imei" /\ Got.part = PartRead
  BY <1>1 DEF Got
<1>3. /\ Accepts(Got)
      /\ CountSeen(Got) =>
           \A j \in 1..Len(Packet.points) : points[j] = PointOf(Packet.points[j])
  BY <1>1, <1>2 DEF Course, Verdict
<1>4. Got.packet.form = Packet.form
  BY <1>1, PartsRead
<1>5. Packet.form # "wrapped"
  <2> SUFFICES ASSUME Packet.form = "wrapped" PROVE FALSE
    OBVIOUS
  <2>1. from = 1
    BY <1>1, <1>2, PartsRead
  <2> DEFINE l == Length
  <2>2. /\ BufferSize <= l - 5 /\ to <= BufferSize /\ to \in Nat /\ 1 <= to
        /\ BufferSize \in Nat /\ l \in Nat /\ 15 <= l
    BY <1>1, <2>1, Sizes, PacketGiven, PacketsAreLong, BufferSizeAssumption DEF W
  <2>3. to <= 8 \/ to = 9 \/ (10 <= to /\ to <= l - 5)
    <3> HIDE DEF l
    <3> QED BY <2>2
  <2> QED BY <1>1, <1>2, <2>1, <2>3, PartsRead
<1>6. CountSeen(Got)
  BY <1>1, <1>2, <1>3, <1>4, <1>5 DEF Accepts, ReadsNoRecords
<1>7. Packet \in Packets /\ Sent = Packet.points
  BY <1>1, PacketGiven DEF Sent, Packet
<1>8. DOMAIN Sent = 1..Len(Sent)
  BY <1>7, PacketsHaveRecords
<1> QED BY <1>3, <1>6, <1>7, <1>8

(* The points of an accepted packet are the records that were written,     *)
(* fields and elements, whatever their number and their elements: parser   *)
(* and encoder agree on every offset (parser.go 83-140, encoder.go         *)
(* 57-126).                                                                *)
THEOREM RecordsRead == Spec => []RecordsInStep
<1>1. Course => RecordsInStep
  <2> SUFFICES ASSUME Course, Accepted, NEW i \in DOMAIN Sent
               PROVE  points[i] = [gps |-> [SentFields(Sent[i]) EXCEPT !.altitude = @ % 65536],
                                   elements |-> SentElements(Sent[i])]
    BY DEF RecordsInStep
  <2> QED BY AcceptedWhole DEF PointOf, FieldsOf
<1> QED BY <1>1, CourseInvariant, PTL

(* ... and their rows hold what was measured: narrowing to int16 gives the *)
(* altitude the sign that the parser dropped, and the date is the whole    *)
(* second of the time (parser.go 71-86, save_points.go 42-58).             *)
THEOREM RowsMeasured == Spec => []RowsAsMeasured
<1>1. Course => RowsAsMeasured
  <2> SUFFICES ASSUME Course, Accepted, NEW i \in DOMAIN Sent,
                      Measurable(Sent[i])
               PROVE  LET row == Row(points[i])
                          sent == Sent[i]
                      IN /\ row.date = MeasuredSecond(sent)
                         /\ Near(row.longitude, sent.longitude)
                         /\ Near(row.latitude, sent.latitude)
                         /\ row.altitude = sent.altitude /\ row.angle = sent.angle
                         /\ row.speed = sent.speed /\ row.satellites = sent.satellites
                         /\ row.priority = sent.priority /\ row.event = sent.event
    BY DEF RowsAsMeasured
  <2> DEFINE p == Sent[i]
             row == Row(points[i])
  <2>1. Packet \in Packets /\ Sent = Packet.points /\ i \in 1..Len(Packet.points)
        /\ points[i] = PointOf(p)
    BY AcceptedWhole DEF Sent, Packet
  <2>2. IsAVLData(p) /\ p.angle < 32768 /\ p.speed < 32768 /\ Datable(p)
    BY <2>1, PacketsHaveRecords DEF Measurable
  <2> HIDE DEF p
  <2>3. Row([gps |-> [SentFields(p) EXCEPT !.altitude = @ % 65536],
             elements |-> SentElements(p)]) = SentFields(p)
    BY <2>2, RowBack
  <2>4. row = SentFields(p)
    BY <2>1, <2>3 DEF PointOf, FieldsOf
  <2> HIDE DEF row
  <2>5. /\ row.date = convertToDate(p.time)
        /\ row.longitude = Truncated(p.longitude) /\ row.latitude = Truncated(p.latitude)
        /\ row.altitude = p.altitude /\ row.angle = p.angle /\ row.speed = p.speed
        /\ row.satellites = p.satellites /\ row.priority = p.priority /\ row.event = p.event
    BY <2>4 DEF SentFields
  <2>6. row.date = MeasuredSecond(p)
    BY <2>2, <2>5, DateMeasured
  <2>7. Near(row.longitude, p.longitude) /\ Near(row.latitude, p.latitude)
    BY <2>5, TruncatedNear
  <2> QED BY <2>5, <2>6, <2>7 DEF p, row
<1> QED BY <1>1, CourseInvariant, PTL

-----------------------------------------------------------------------------
(* Frames of eight bytes: which bits each field reads, and what its name   *)
(* stands for.                                                             *)

(* A byte with a bit of it flipped.                                        *)
FlipBy(x, p) == IF (x \div p) % 2 = 0 THEN x + p ELSE x - p

(* The powers that masks are made of.                                      *)
LEMMA Powers ==
  /\ Pow2[0] = 1 /\ Pow2[1] = 2 /\ Pow2[2] = 4 /\ Pow2[3] = 8 /\ Pow2[4] = 16
  /\ Pow2[5] = 32 /\ Pow2[6] = 64 /\ Pow2[7] = 128 /\ Pow2[8] = 256
BY DEF Pow2

(* To flip a bit changes nothing above it, and nothing below it.           *)
LEMMA BitAlone ==
  ASSUME NEW x \in Int, NEW bit \in 0..7, NEW c \in 0..8
  PROVE  /\ bit < c => FlipBy(x, Pow2[bit]) \div Pow2[c] = x \div Pow2[c]
         /\ c <= bit => FlipBy(x, Pow2[bit]) % Pow2[c] = x % Pow2[c]
<1>0. CASE bit = 0
  <2>1. /\ FlipBy(x, 1) \div 2 = x \div 2
        /\ FlipBy(x, 1) \div 4 = x \div 4
        /\ FlipBy(x, 1) \div 8 = x \div 8
        /\ FlipBy(x, 1) \div 16 = x \div 16
        /\ FlipBy(x, 1) \div 32 = x \div 32
        /\ FlipBy(x, 1) \div 64 = x \div 64
        /\ FlipBy(x, 1) \div 128 = x \div 128
        /\ FlipBy(x, 1) \div 256 = x \div 256
    BY Z3 DEF FlipBy
  <2>2. /\ FlipBy(x, 1) % 1 = x % 1
    BY Z3 DEF FlipBy
  <2>3. c \in {0, 1, 2, 3, 4, 5, 6, 7, 8}
    OBVIOUS
  <2> QED BY <1>0, <2>1, <2>2, <2>3, Powers
<1>1. CASE bit = 1
  <2>1. /\ FlipBy(x, 2) \div 4 = x \div 4
        /\ FlipBy(x, 2) \div 8 = x \div 8
        /\ FlipBy(x, 2) \div 16 = x \div 16
        /\ FlipBy(x, 2) \div 32 = x \div 32
        /\ FlipBy(x, 2) \div 64 = x \div 64
        /\ FlipBy(x, 2) \div 128 = x \div 128
        /\ FlipBy(x, 2) \div 256 = x \div 256
    BY Z3 DEF FlipBy
  <2>2. /\ FlipBy(x, 2) % 1 = x % 1
        /\ FlipBy(x, 2) % 2 = x % 2
    BY Z3 DEF FlipBy
  <2>3. c \in {0, 1, 2, 3, 4, 5, 6, 7, 8}
    OBVIOUS
  <2> QED BY <1>1, <2>1, <2>2, <2>3, Powers
<1>2. CASE bit = 2
  <2>1. /\ FlipBy(x, 4) \div 8 = x \div 8
        /\ FlipBy(x, 4) \div 16 = x \div 16
        /\ FlipBy(x, 4) \div 32 = x \div 32
        /\ FlipBy(x, 4) \div 64 = x \div 64
        /\ FlipBy(x, 4) \div 128 = x \div 128
        /\ FlipBy(x, 4) \div 256 = x \div 256
    BY Z3 DEF FlipBy
  <2>2. /\ FlipBy(x, 4) % 1 = x % 1
        /\ FlipBy(x, 4) % 2 = x % 2
        /\ FlipBy(x, 4) % 4 = x % 4
    BY Z3 DEF FlipBy
  <2>3. c \in {0, 1, 2, 3, 4, 5, 6, 7, 8}
    OBVIOUS
  <2> QED BY <1>2, <2>1, <2>2, <2>3, Powers
<1>3. CASE bit = 3
  <2>1. /\ FlipBy(x, 8) \div 16 = x \div 16
        /\ FlipBy(x, 8) \div 32 = x \div 32
        /\ FlipBy(x, 8) \div 64 = x \div 64
        /\ FlipBy(x, 8) \div 128 = x \div 128
        /\ FlipBy(x, 8) \div 256 = x \div 256
    BY Z3 DEF FlipBy
  <2>2. /\ FlipBy(x, 8) % 1 = x % 1
        /\ FlipBy(x, 8) % 2 = x % 2
        /\ FlipBy(x, 8) % 4 = x % 4
        /\ FlipBy(x, 8) % 8 = x % 8
    BY Z3 DEF FlipBy
  <2>3. c \in {0, 1, 2, 3, 4, 5, 6, 7, 8}
    OBVIOUS
  <2> QED BY <1>3, <2>1, <2>2, <2>3, Powers
<1>4. CASE bit = 4
  <2>1. /\ FlipBy(x, 16) \div 32 = x \div 32
        /\ FlipBy(x, 16) \div 64 = x \div 64
        /\ FlipBy(x, 16) \div 128 = x \div 128
        /\ FlipBy(x, 16) \div 256 = x \div 256
    BY Z3 DEF FlipBy
  <2>2. /\ FlipBy(x, 16) % 1 = x % 1
        /\ FlipBy(x, 16) % 2 = x % 2
        /\ FlipBy(x, 16) % 4 = x % 4
        /\ FlipBy(x, 16) % 8 = x % 8
        /\ FlipBy(x, 16) % 16 = x % 16
    BY Z3 DEF FlipBy
  <2>3. c \in {0, 1, 2, 3, 4, 5, 6, 7, 8}
    OBVIOUS
  <2> QED BY <1>4, <2>1, <2>2, <2>3, Powers
<1>5. CASE bit = 5
  <2>1. /\ FlipBy(x, 32) \div 64 = x \div 64
        /\ FlipBy(x, 32) \div 128 = x \div 128
        /\ FlipBy(x, 32) \div 256 = x \div 256
    BY Z3 DEF FlipBy
  <2>2. /\ FlipBy(x, 32) % 1 = x % 1
        /\ FlipBy(x, 32) % 2 = x % 2
        /\ FlipBy(x, 32) % 4 = x % 4
        /\ FlipBy(x, 32) % 8 = x % 8
        /\ FlipBy(x, 32) % 16 = x % 16
        /\ FlipBy(x, 32) % 32 = x % 32
    BY Z3 DEF FlipBy
  <2>3. c \in {0, 1, 2, 3, 4, 5, 6, 7, 8}
    OBVIOUS
  <2> QED BY <1>5, <2>1, <2>2, <2>3, Powers
<1>6. CASE bit = 6
  <2>1. /\ FlipBy(x, 64) \div 128 = x \div 128
        /\ FlipBy(x, 64) \div 256 = x \div 256
    BY Z3 DEF FlipBy
  <2>2. /\ FlipBy(x, 64) % 1 = x % 1
        /\ FlipBy(x, 64) % 2 = x % 2
        /\ FlipBy(x, 64) % 4 = x % 4
        /\ FlipBy(x, 64) % 8 = x % 8
        /\ FlipBy(x, 64) % 16 = x % 16
        /\ FlipBy(x, 64) % 32 = x % 32
        /\ FlipBy(x, 64) % 64 = x % 64
    BY Z3 DEF FlipBy
  <2>3. c \in {0, 1, 2, 3, 4, 5, 6, 7, 8}
    OBVIOUS
  <2> QED BY <1>6, <2>1, <2>2, <2>3, Powers
<1>7. CASE bit = 7
  <2>1. /\ FlipBy(x, 128) \div 256 = x \div 256
    BY Z3 DEF FlipBy
  <2>2. /\ FlipBy(x, 128) % 1 = x % 1
        /\ FlipBy(x, 128) % 2 = x % 2
        /\ FlipBy(x, 128) % 4 = x % 4
        /\ FlipBy(x, 128) % 8 = x % 8
        /\ FlipBy(x, 128) % 16 = x % 16
        /\ FlipBy(x, 128) % 32 = x % 32
        /\ FlipBy(x, 128) % 64 = x % 64
        /\ FlipBy(x, 128) % 128 = x % 128
    BY Z3 DEF FlipBy
  <2>3. c \in {0, 1, 2, 3, 4, 5, 6, 7, 8}
    OBVIOUS
  <2> QED BY <1>7, <2>1, <2>2, <2>3, Powers
<1>8. bit \in {0, 1, 2, 3, 4, 5, 6, 7}
  OBVIOUS
<1> QED BY <1>0, <1>1, <1>2, <1>3, <1>4, <1>5, <1>6, <1>7, <1>8

(* What is masked and shifted down, is shifted down and masked.            *)
LEMMA MaskShift ==
  ASSUME NEW x \in Int, NEW lo \in 0..7, NEW width \in 1..8, lo + width <= 8
  PROVE  (x % Pow2[lo + width]) \div Pow2[lo] = (x \div Pow2[lo]) % Pow2[width]
<1>0. CASE lo = 0
  <2>1. /\ (x % 2) \div 1 = (x \div 1) % 2
        /\ (x % 4) \div 1 = (x \div 1) % 4
        /\ (x % 8) \div 1 = (x \div 1) % 8
        /\ (x % 16) \div 1 = (x \div 1) % 16
        /\ (x % 32) \div 1 = (x \div 1) % 32
        /\ (x % 64) \div 1 = (x \div 1) % 64
        /\ (x % 128) \div 1 = (x \div 1) % 128
        /\ (x % 256) \div 1 = (x \div 1) % 256
    BY Z3
  <2>2. width \in {1, 2, 3, 4, 5, 6, 7, 8}
    BY <1>0
  <2>3. CASE width = 1
    <3>1. lo + width = 1
      BY <1>0, <2>3
    <3> QED BY <1>0, <2>1, <2>3, <3>1, Powers
  <2>4. CASE width = 2
    <3>1. lo + width = 2
      BY <1>0, <2>4
    <3> QED BY <1>0, <2>1, <2>4, <3>1, Powers
  <2>5. CASE width = 3
    <3>1. lo + width = 3
      BY <1>0, <2>5
    <3> QED BY <1>0, <2>1, <2>5, <3>1, Powers
  <2>6. CASE width = 4
    <3>1. lo + width = 4
      BY <1>0, <2>6
    <3> QED BY <1>0, <2>1, <2>6, <3>1, Powers
  <2>7. CASE width = 5
    <3>1. lo + width = 5
      BY <1>0, <2>7
    <3> QED BY <1>0, <2>1, <2>7, <3>1, Powers
  <2>8. CASE width = 6
    <3>1. lo + width = 6
      BY <1>0, <2>8
    <3> QED BY <1>0, <2>1, <2>8, <3>1, Powers
  <2>9. CASE width = 7
    <3>1. lo + width = 7
      BY <1>0, <2>9
    <3> QED BY <1>0, <2>1, <2>9, <3>1, Powers
  <2>10. CASE width = 8
    <3>1. lo + width = 8
      BY <1>0, <2>10
    <3> QED BY <1>0, <2>1, <2>10, <3>1, Powers
  <2> QED BY <2>2, <2>3, <2>4, <2>5, <2>6, <2>7, <2>8, <2>9, <2>10
<1>1. CASE lo = 1
  <2>1. /\ (x % 4) \div 2 = (x \div 2) % 2
        /\ (x % 8) \div 2 = (x \div 2) % 4
        /\ (x % 16) \div 2 = (x \div 2) % 8
        /\ (x % 32) \div 2 = (x \div 2) % 16
        /\ (x % 64) \div 2 = (x \div 2) % 32
        /\ (x % 128) \div 2 = (x \div 2) % 64
        /\ (x % 256) \div 2 = (x \div 2) % 128
    BY Z3
  <2>2. width \in {1, 2, 3, 4, 5, 6, 7}
    BY <1>1
  <2>3. CASE width = 1
    <3>1. lo + width = 2
      BY <1>1, <2>3
    <3> QED BY <1>1, <2>1, <2>3, <3>1, Powers
  <2>4. CASE width = 2
    <3>1. lo + width = 3
      BY <1>1, <2>4
    <3> QED BY <1>1, <2>1, <2>4, <3>1, Powers
  <2>5. CASE width = 3
    <3>1. lo + width = 4
      BY <1>1, <2>5
    <3> QED BY <1>1, <2>1, <2>5, <3>1, Powers
  <2>6. CASE width = 4
    <3>1. lo + width = 5
      BY <1>1, <2>6
    <3> QED BY <1>1, <2>1, <2>6, <3>1, Powers
  <2>7. CASE width = 5
    <3>1. lo + width = 6
      BY <1>1, <2>7
    <3> QED BY <1>1, <2>1, <2>7, <3>1, Powers
  <2>8. CASE width = 6
    <3>1. lo + width = 7
      BY <1>1, <2>8
    <3> QED BY <1>1, <2>1, <2>8, <3>1, Powers
  <2>9. CASE width = 7
    <3>1. lo + width = 8
      BY <1>1, <2>9
    <3> QED BY <1>1, <2>1, <2>9, <3>1, Powers
  <2> QED BY <2>2, <2>3, <2>4, <2>5, <2>6, <2>7, <2>8, <2>9
<1>2. CASE lo = 2
  <2>1. /\ (x % 8) \div 4 = (x \div 4) % 2
        /\ (x % 16) \div 4 = (x \div 4) % 4
        /\ (x % 32) \div 4 = (x \div 4) % 8
        /\ (x % 64) \div 4 = (x \div 4) % 16
        /\ (x % 128) \div 4 = (x \div 4) % 32
        /\ (x % 256) \div 4 = (x \div 4) % 64
    BY Z3
  <2>2. width \in {1, 2, 3, 4, 5, 6}
    BY <1>2
  <2>3. CASE width = 1
    <3>1. lo + width = 3
      BY <1>2, <2>3
    <3> QED BY <1>2, <2>1, <2>3, <3>1, Powers
  <2>4. CASE width = 2
    <3>1. lo + width = 4
      BY <1>2, <2>4
    <3> QED BY <1>2, <2>1, <2>4, <3>1, Powers
  <2>5. CASE width = 3
    <3>1. lo + width = 5
      BY <1>2, <2>5
    <3> QED BY <1>2, <2>1, <2>5, <3>1, Powers
  <2>6. CASE width = 4
    <3>1. lo + width = 6
      BY <1>2, <2>6
    <3> QED BY <1>2, <2>1, <2>6, <3>1, Powers
  <2>7. CASE width = 5
    <3>1. lo + width = 7
      BY <1>2, <2>7
    <3> QED BY <1>2, <2>1, <2>7, <3>1, Powers
  <2>8. CASE width = 6
    <3>1. lo + width = 8
      BY <1>2, <2>8
    <3> QED BY <1>2, <2>1, <2>8, <3>1, Powers
  <2> QED BY <2>2, <2>3, <2>4, <2>5, <2>6, <2>7, <2>8
<1>3. CASE lo = 3
  <2>1. /\ (x % 16) \div 8 = (x \div 8) % 2
        /\ (x % 32) \div 8 = (x \div 8) % 4
        /\ (x % 64) \div 8 = (x \div 8) % 8
        /\ (x % 128) \div 8 = (x \div 8) % 16
        /\ (x % 256) \div 8 = (x \div 8) % 32
    BY Z3
  <2>2. width \in {1, 2, 3, 4, 5}
    BY <1>3
  <2>3. CASE width = 1
    <3>1. lo + width = 4
      BY <1>3, <2>3
    <3> QED BY <1>3, <2>1, <2>3, <3>1, Powers
  <2>4. CASE width = 2
    <3>1. lo + width = 5
      BY <1>3, <2>4
    <3> QED BY <1>3, <2>1, <2>4, <3>1, Powers
  <2>5. CASE width = 3
    <3>1. lo + width = 6
      BY <1>3, <2>5
    <3> QED BY <1>3, <2>1, <2>5, <3>1, Powers
  <2>6. CASE width = 4
    <3>1. lo + width = 7
      BY <1>3, <2>6
    <3> QED BY <1>3, <2>1, <2>6, <3>1, Powers
  <2>7. CASE width = 5
    <3>1. lo + width = 8
      BY <1>3, <2>7
    <3> QED BY <1>3, <2>1, <2>7, <3>1, Powers
  <2> QED BY <2>2, <2>3, <2>4, <2>5, <2>6, <2>7
<1>4. CASE lo = 4
  <2>1. /\ (x % 32) \div 16 = (x \div 16) % 2
        /\ (x % 64) \div 16 = (x \div 16) % 4
        /\ (x % 128) \div 16 = (x \div 16) % 8
        /\ (x % 256) \div 16 = (x \div 16) % 16
    BY Z3
  <2>2. width \in {1, 2, 3, 4}
    BY <1>4
  <2>3. CASE width = 1
    <3>1. lo + width = 5
      BY <1>4, <2>3
    <3> QED BY <1>4, <2>1, <2>3, <3>1, Powers
  <2>4. CASE width = 2
    <3>1. lo + width = 6
      BY <1>4, <2>4
    <3> QED BY <1>4, <2>1, <2>4, <3>1, Powers
  <2>5. CASE width = 3
    <3>1. lo + width = 7
      BY <1>4, <2>5
    <3> QED BY <1>4, <2>1, <2>5, <3>1, Powers
  <2>6. CASE width = 4
    <3>1. lo + width = 8
      BY <1>4, <2>6
    <3> QED BY <1>4, <2>1, <2>6, <3>1, Powers
  <2> QED BY <2>2, <2>3, <2>4, <2>5, <2>6
<1>5. CASE lo = 5
  <2>1. /\ (x % 64) \div 32 = (x \div 32) % 2
        /\ (x % 128) \div 32 = (x \div 32) % 4
        /\ (x % 256) \div 32 = (x \div 32) % 8
    BY Z3
  <2>2. width \in {1, 2, 3}
    BY <1>5
  <2>3. CASE width = 1
    <3>1. lo + width = 6
      BY <1>5, <2>3
    <3> QED BY <1>5, <2>1, <2>3, <3>1, Powers
  <2>4. CASE width = 2
    <3>1. lo + width = 7
      BY <1>5, <2>4
    <3> QED BY <1>5, <2>1, <2>4, <3>1, Powers
  <2>5. CASE width = 3
    <3>1. lo + width = 8
      BY <1>5, <2>5
    <3> QED BY <1>5, <2>1, <2>5, <3>1, Powers
  <2> QED BY <2>2, <2>3, <2>4, <2>5
<1>6. CASE lo = 6
  <2>1. /\ (x % 128) \div 64 = (x \div 64) % 2
        /\ (x % 256) \div 64 = (x \div 64) % 4
    BY Z3
  <2>2. width \in {1, 2}
    BY <1>6
  <2>3. CASE width = 1
    <3>1. lo + width = 7
      BY <1>6, <2>3
    <3> QED BY <1>6, <2>1, <2>3, <3>1, Powers
  <2>4. CASE width = 2
    <3>1. lo + width = 8
      BY <1>6, <2>4
    <3> QED BY <1>6, <2>1, <2>4, <3>1, Powers
  <2> QED BY <2>2, <2>3, <2>4
<1>7. CASE lo = 7
  <2>1. /\ (x % 256) \div 128 = (x \div 128) % 2
    BY Z3
  <2>2. width \in {1}
    BY <1>7
  <2>3. CASE width = 1
    <3>1. lo + width = 8
      BY <1>7, <2>3
    <3> QED BY <1>7, <2>1, <2>3, <3>1, Powers
  <2> QED BY <2>2, <2>3
<1>8. lo \in {0, 1, 2, 3, 4, 5, 6, 7}
  OBVIOUS
<1> QED BY <1>0, <1>1, <1>2, <1>3, <1>4, <1>5, <1>6, <1>7, <1>8

(* A field reads whole bytes of a frame, or some bits of one.              *)
IsField(field) ==
  /\ field.from \in Seq(0..7)
  /\ field.width # 0 =>
       /\ DOMAIN field.from = {1}
       /\ field.lo \in 0..7 /\ field.width \in 1..8 /\ field.lo + field.width <= 8

(* It reads this bit of the i-th byte on the wire.                         *)
Reads(field, i, bit) ==
  /\ \E j \in DOMAIN field.from : field.from[j] = 8 - i
  /\ field.width # 0 => field.lo <= bit /\ bit < field.lo + field.width

(* To flip a bit of a frame changes that byte, and no other.               *)
LEMMA FlippedIs ==
  ASSUME NEW stream \in Seq(Bytes), Len(stream) = 8, NEW i \in 1..8, NEW bit \in 0..7
  PROVE  LET other == Flipped(stream, i, bit)
         IN /\ other[i] = FlipBy(stream[i], Pow2[bit]) /\ stream[i] \in Int
            /\ \A j \in 1..8 \ {i} : other[j] = stream[j]
<1>1. DOMAIN stream = 1..8 /\ stream[i] \in Int
  <2>1. DOMAIN stream = 1..8
    OBVIOUS
  <2>2. stream[i] \in Bytes
    BY <2>1, ElementOfSeq
  <2> QED BY <2>1, <2>2, Octets
<1> QED BY <1>1 DEF Flipped, FlipBy

(* What a field does not read, it does not tell.                           *)
LEMMA Unread ==
  ASSUME NEW stream \in Seq(Bytes), Len(stream) = 8, NEW i \in 1..8, NEW bit \in 0..7,
         NEW field, IsField(field), ~Reads(field, i, bit)
  PROVE  Raw(field, Flipped(stream, i, bit)) = Raw(field, stream)
<1> DEFINE other == Flipped(stream, i, bit)
<1>1. /\ other[i] = FlipBy(stream[i], Pow2[bit]) /\ stream[i] \in Int
      /\ \A j \in 1..8 \ {i} : other[j] = stream[j]
  BY FlippedIs
<1> HIDE DEF other
<1>2. \A j \in DOMAIN field.from : field.from[j] \in 0..7 /\ 8 - field.from[j] \in 1..8
  BY DEF IsField
<1>3. \A j \in DOMAIN field.from :
        field.from[j] # 8 - i => other[8 - field.from[j]] = stream[8 - field.from[j]]
  <2> TAKE j \in DOMAIN field.from
  <2> HAVE field.from[j] # 8 - i
  <2>1. 8 - field.from[j] # i
    BY <1>2
  <2> QED BY <1>1, <1>2, <2>1
<1>4. CASE field.width = 0
  <2>1. \A j \in DOMAIN field.from : other[8 - field.from[j]] = stream[8 - field.from[j]]
    BY <1>3, <1>4 DEF Reads
  <2>2. [j \in DOMAIN field.from |-> other[8 - field.from[j]]]
          = [j \in DOMAIN field.from |-> stream[8 - field.from[j]]]
    BY <2>1
  <2> QED BY <1>4, <2>2, Zenon DEF Raw, other
<1>5. CASE field.width # 0
  <2> DEFINE b == 8 - field.from[1]
             lo == field.lo
             width == field.width
             hi == lo + width
  <2>1. /\ 1 \in DOMAIN field.from /\ DOMAIN field.from = {1}
        /\ lo \in 0..7 /\ width \in 1..8 /\ hi <= 8 /\ hi \in 0..8 /\ b \in 1..8
    <3>1. /\ DOMAIN field.from = {1} /\ lo \in 0..7 /\ width \in 1..8 /\ hi <= 8
      BY <1>5 DEF IsField
    <3> QED BY <1>2, <3>1
  <2>2. (other[b] % Pow2[hi]) \div Pow2[lo] = (stream[b] % Pow2[hi]) \div Pow2[lo]
    <3>1. CASE b # i
      <4>1. other[b] = stream[b]
        BY <1>1, <2>1, <3>1
      <4> QED BY <4>1
    <3>2. CASE b = i
      <4>1. field.from[1] = 8 - i
        BY <1>2, <2>1, <3>2
      <4>2. ~(lo <= bit /\ bit < hi)
        BY <1>5, <2>1, <4>1 DEF Reads
      <4>3. other[b] = FlipBy(stream[b], Pow2[bit]) /\ stream[b] \in Int
        BY <1>1, <3>2
      <4>4. bit < lo \/ hi <= bit
        BY <2>1, <4>2
      <4>5. CASE bit < lo
        <5>1. other[b] \div Pow2[lo] = stream[b] \div Pow2[lo]
          <6>1. lo \in 0..8
            BY <2>1
          <6>2. FlipBy(stream[b], Pow2[bit]) \div Pow2[lo] = stream[b] \div Pow2[lo]
            BY <4>3, <4>5, <6>1, BitAlone, Zenon
          <6> QED BY <4>3, <6>2, Zenon
        <5>2. other[b] \in Int
          <6>1. Pow2[bit] \in Int
            BY DEF Pow2
          <6> HIDE DEF b
          <6> QED BY <4>3, <6>1 DEF FlipBy
        <5> HIDE DEF b, lo, width, hi
        <5>3. (other[b] % Pow2[lo + width]) \div Pow2[lo] = (other[b] \div Pow2[lo]) % Pow2[width]
          BY <2>1, <5>2, MaskShift DEF hi
        <5>4. (stream[b] % Pow2[lo + width]) \div Pow2[lo] = (stream[b] \div Pow2[lo]) % Pow2[width]
          BY <2>1, <4>3, MaskShift DEF hi
        <5> QED BY <5>1, <5>3, <5>4, Zenon DEF hi
      <4>6. CASE hi <= bit
        <5>0. hi \in 0..8
          BY <2>1
        <5>1. FlipBy(stream[b], Pow2[bit]) % Pow2[hi] = stream[b] % Pow2[hi]
          BY <4>3, <4>6, <5>0, BitAlone, Zenon
        <5> QED BY <4>3, <5>1, Zenon
      <4> QED BY <4>4, <4>5, <4>6
    <3> QED BY <3>1, <3>2
  <2> QED BY <1>5, <2>2, Zenon DEF Raw, other
<1> QED BY <1>4, <1>5 DEF other

(* The bits of a frame, numbered read the lowest one of byte 0 on; a field *)
(* keeps to a stretch of them.                                             *)
Place(i, bit) == (8 * (8 - i)) + bit
Within(field, least, past) ==
  /\ IsField(field)
  /\ \A i \in 1..8, bit \in 0..7 :
       Reads(field, i, bit) => least <= Place(i, bit) /\ Place(i, bit) < past

(* What a field of some bits is made of...                                 *)
LEMMA ShiftedIs ==
  ASSUME NEW text, NEW byte, NEW lo, NEW width, NEW shift
  PROVE  LET f == Shifted(text, byte, lo, width, shift)
         IN f.from = <<byte>> /\ f.lo = lo /\ f.width = width /\ f.name = Text(text)
BY DEF Shifted, Unit, Scaled

(* ... and one of whole bytes.                                             *)
LEMMA ScaledIs ==
  ASSUME NEW text, NEW read, NEW scale, NEW offset
  PROVE  LET f == Scaled(text, read, scale, offset)
         IN f.from = read /\ f.width = 0 /\ f.name = Text(text)
BY DEF Scaled

(* Some bits of a byte are told by a field of those bits alone.            *)
LEMMA ShiftedWithin ==
  ASSUME NEW text, NEW byte \in 0..7, NEW lo \in 0..7, NEW width \in 1..8, lo + width <= 8,
         NEW shift
  PROVE  Within(Shifted(text, byte, lo, width, shift), (8 * byte) + lo, (8 * byte) + lo + width)
<1> DEFINE f == Shifted(text, byte, lo, width, shift)
<1>1. f.from = <<byte>> /\ f.lo = lo /\ f.width = width
  BY ShiftedIs
<1> HIDE DEF f
<1>2. DOMAIN f.from = {1} /\ f.from[1] = byte /\ f.from \in Seq(0..7)
  BY <1>1
<1>3. IsField(f)
  BY <1>1, <1>2 DEF IsField
<1>4. ASSUME NEW i \in 1..8, NEW bit \in 0..7, Reads(f, i, bit)
      PROVE  (8 * byte) + lo <= Place(i, bit) /\ Place(i, bit) < (8 * byte) + lo + width
  <2>1. byte = 8 - i /\ lo <= bit /\ bit < lo + width
    BY <1>1, <1>2, <1>4 DEF Reads
  <2> QED BY <2>1 DEF Place
<1> QED BY <1>3, <1>4 DEF Within, f

(* Whole bytes, the lowest of them last.                                   *)
LEMMA ScaledWithin ==
  ASSUME NEW text, NEW scale, NEW offset, NEW read \in Seq(0..7), NEW least \in 0..7,
         \A j \in DOMAIN read : least <= read[j] /\ read[j] < least + Len(read)
  PROVE  Within(Scaled(text, read, scale, offset), 8 * least, 8 * (least + Len(read)))
<1> DEFINE f == Scaled(text, read, scale, offset)
<1>1. f.from = read /\ f.width = 0
  BY ScaledIs
<1> HIDE DEF f
<1>2. IsField(f)
  BY <1>1 DEF IsField
<1>3. ASSUME NEW i \in 1..8, NEW bit \in 0..7, Reads(f, i, bit)
      PROVE  8 * least <= Place(i, bit) /\ Place(i, bit) < 8 * (least + Len(read))
  <2>1. PICK j \in DOMAIN read : read[j] = 8 - i
    BY <1>1, <1>3 DEF Reads
  <2>2. least <= 8 - i /\ 8 - i < least + Len(read) /\ Len(read) \in Nat
    BY <2>1
  <2> DEFINE n == Len(read)
  <2> HIDE DEF n
  <2> QED BY <2>2 DEF Place, n
<1> QED BY <1>2, <1>3 DEF Within, f

(* Of one byte...                                                          *)
LEMMA OneByteWithin ==
  ASSUME NEW text, NEW scale, NEW offset, NEW b \in 0..7
  PROVE  Within(Scaled(text, <<b>>, scale, offset), 8 * b, 8 * (b + 1))
<1>1. <<b>> \in Seq(0..7) /\ Len(<<b>>) = 1 /\ DOMAIN <<b>> = {1} /\ <<b>>[1] = b
  OBVIOUS
<1>2. \A j \in DOMAIN <<b>> : b <= <<b>>[j] /\ <<b>>[j] < b + Len(<<b>>)
  BY <1>1
<1> QED BY <1>1, <1>2, ScaledWithin

(* ... and of two.                                                         *)
LEMMA TwoBytesWithin ==
  ASSUME NEW text, NEW scale, NEW offset, NEW b \in 0..6
  PROVE  Within(Scaled(text, <<b + 1, b>>, scale, offset), 8 * b, 8 * (b + 2))
<1> DEFINE read == <<b + 1, b>>
<1>1. /\ read \in Seq(0..7) /\ Len(read) = 2 /\ DOMAIN read = {1, 2}
      /\ read[1] = b + 1 /\ read[2] = b
  OBVIOUS
<1> HIDE DEF read
<1>2. \A j \in DOMAIN read : b <= read[j] /\ read[j] < b + Len(read)
  BY <1>1
<1>3. b \in 0..7
  OBVIOUS
<1>4. Within(Scaled(text, read, scale, offset), 8 * b, 8 * (b + Len(read)))
  BY <1>1, <1>2, <1>3, ScaledWithin, Zenon
<1> QED BY <1>1, <1>4, Zenon DEF read

(* The k-th sensor of a frame reads the k-th pair of its bytes.            *)
LEMMA SensorWithin ==
  ASSUME NEW n, NEW k \in 1..4, NEW scale, NEW offset
  PROVE  /\ Within(Sensor(n, k - 1, scale, offset), 16 * (k - 1), 16 * k)
         /\ Sensor(n, k - 1, scale, offset).name = Numbered("Sensor", n)
<1> DEFINE b == 2 * (k - 1)
           f == Scaled("Sensor", <<b + 1, b>>, scale, offset)
           g == Sensor(n, k - 1, scale, offset)
<1>1. b \in 0..6 /\ 8 * b = 16 * (k - 1) /\ 8 * (b + 2) = 16 * k
  OBVIOUS
<1>2. g = [f EXCEPT !.name = Numbered("Sensor", n)]
  BY DEF Sensor
<1>3. g.from = f.from /\ g.lo = f.lo /\ g.width = f.width /\ g.name = Numbered("Sensor", n)
  BY <1>2 DEF Scaled
<1> HIDE DEF g
<1>4. Within(f, 16 * (k - 1), 16 * k)
  <2>1. Within(f, 8 * b, 8 * (b + 2))
    <3> HIDE DEF b
    <3> QED BY <1>1, TwoBytesWithin
  <2> QED BY <1>1, <2>1
<1> HIDE DEF f
<1> QED BY <1>3, <1>4 DEF Within, IsField, Reads, g

(* The field that shares its bits.                                         *)
Sharing(field) == field.name = Text("TCU_GearShiftPosition")
(* One of the fields that a frame has no use for.                          *)
Reserved(field) == field.name.text = "Reserve"

(* A field that is not numbered is known by its text.                      *)
LEMMA Texts == \A s, t : (Text(s) = Text(t) <=> s = t) /\ Text(s).text = s
BY DEF Text, Numbered

(* A place is a number.                                                    *)
LEMMA PlaceInt == \A i \in 1..8, bit \in 0..7 : Place(i, bit) \in Int
BY DEF Place

(* The ways in which the tables build a field, and the stretch of each...  *)
LEMMA SpansOf ==
  /\ \A t, s, o : \A b \in 0..7 : Within(Scaled(t, <<b>>, s, o), 8 * b, 8 * (b + 1))
  /\ \A t, s, o : \A b \in 0..6 : Within(Scaled(t, <<b + 1, b>>, s, o), 8 * b, 8 * (b + 2))
  /\ \A t, s : \A b \in 0..7, lo \in 0..7, w \in 1..8 :
        lo + w <= 8 => Within(Shifted(t, b, lo, w, s), (8 * b) + lo, (8 * b) + lo + w)
BY OneByteWithin, TwoBytesWithin, ShiftedWithin

(* ... and its name.                                                       *)
LEMMA NamesOf ==
  /\ \A t, f, s, o : Scaled(t, f, s, o).name = Text(t)
  /\ \A t, b, l, w, s : Shifted(t, b, l, w, s).name = Text(t)
BY ScaledIs, ShiftedIs

(* Which element a name stands for: its ID, and which of the fields of     *)
(* that ID it is. A number alone is an ID; sensors are counted by frames   *)
(* of four, from 150 on.                                                   *)
Owner(name) ==
  CASE name.text = "" -> <<name.number, 1>>
    [] name.text = "Sensor" ->
         << 150 + ((name.number - 1) \div 4), 1 + ((name.number - 1) % 4) >>
    [] name.text = "DigitalInput1" -> <<1, 1>>
    [] name.text = "DigitalInput2" -> <<2, 1>>
    [] name.text = "GSMSignal" -> <<21, 1>>
    [] name.text = "SDStatus" -> <<144, 1>>
    [] name.text = "DigitalOutput1" -> <<179, 1>>
    [] name.text = "DigitalOutput2" -> <<180, 1>>
    [] name.text = "Ignition" -> <<239, 1>>
    [] name.text = "CrashDetection" -> <<247, 1>>
    [] name.text = "OverSpeeding" -> <<255, 1>>
    [] name.text = "AnalogInput1" -> <<9, 1>>
    [] name.text = "AnalogInput2" -> <<10, 1>>
    [] name.text = "AnalogInput3" -> <<11, 1>>
    [] name.text = "ExternalVoltage" -> <<66, 1>>
    [] name.text = "BatteryVoltage" -> <<67, 1>>
    [] name.text = "PCBTemperature" -> <<70, 1>>
    [] name.text = "AnalogInput4" -> <<245, 1>>
    [] name.text = "VehicleSpeed" -> <<145, 1>>
    [] name.text = "EngineSpeed_RPM" -> <<145, 2>>
    [] name.text = "EngineCoolantTemperature" -> <<145, 3>>
    [] name.text = "FuelLevelinTank" -> <<145, 4>>
    [] name.text = "CheckEngine" -> <<145, 5>>
    [] name.text = "AirConditionPressureSwitch1" -> <<145, 6>>
    [] name.text = "AirConditionPressureSwitch2" -> <<145, 7>>
    [] name.text = "GearShiftindicator" -> <<145, 8>>
    [] name.text = "DesiredGearValue" -> <<145, 9>>
    [] name.text = "VehicleType" -> <<145, 10>>
    [] name.text = "ConditionImmobilizer" -> <<146, 1>>
    [] name.text = "BrakePedalStatus" -> <<146, 2>>
    [] name.text = "ClutchPedalStatus" -> <<146, 3>>
    [] name.text = "GearEngagedStatus" -> <<146, 4>>
    [] name.text = "ActualAccPedal" -> <<146, 5>>
    [] name.text = "EngineThrottlePosition" -> <<146, 6>>
    [] name.text = "IndicatedEngineTorque" -> <<146, 7>>
    [] name.text = "EngineFrictionTorque" -> <<146, 8>>
    [] name.text = "EngineActualTorque" -> <<146, 9>>
    [] name.text = "CruiseControlOn_Off" -> <<146, 10>>
    [] name.text = "SpeedLimiterOn_Off" -> <<146, 11>>
    [] name.text = "conditionCruisControlLamp" -> <<146, 12>>
    [] name.text = "EngineFuleCutOff" -> <<146, 13>>
    [] name.text = "ConditionCatalystHeatingActivated" -> <<146, 14>>
    [] name.text = "ACCompressorStatus" -> <<146, 15>>
    [] name.text = "ConditionMainRelay" -> <<146, 16>>
    [] name.text = "TCU_GearShiftPosition" -> <<146, 18>>
    [] name.text = "distance" -> <<147, 1>>
    [] name.text = "VirtualAccPedal" -> <<147, 4>>
    [] name.text = "IntakeAirTemperature" -> <<147, 5>>
    [] name.text = "DesiredSpeed" -> <<148, 1>>
    [] name.text = "OilTemperature(TCU)" -> <<148, 2>>
    [] name.text = "AmbientAirTemperature" -> <<148, 3>>
    [] name.text = "EMS_DTC" -> <<148, 4>>
    [] name.text = "ABS_DTC" -> <<148, 5>>
    [] name.text = "BCM_DTC" -> <<148, 6>>
    [] name.text = "ACU_DTC" -> <<149, 1>>
    [] name.text = "ESC_DTC" -> <<149, 2>>
    [] name.text = "ICN_DTC" -> <<149, 3>>
    [] name.text = "EPS_DTC" -> <<149, 4>>
    [] name.text = "CAS_DTC" -> <<149, 5>>
    [] name.text = "FCM/FN_DTC" -> <<149, 6>>
    [] name.text = "ICU_DTC" -> <<149, 7>>
    [] name.text = "Reserve_DTC" -> <<149, 8>>

(* Whose the names of the tables are.                                      *)
LEMMA OwnersOfTexts ==
  /\ Owner(Text("DigitalInput1")) = <<1, 1>>
  /\ Owner(Text("DigitalInput2")) = <<2, 1>>
  /\ Owner(Text("GSMSignal")) = <<21, 1>>
  /\ Owner(Text("SDStatus")) = <<144, 1>>
  /\ Owner(Text("DigitalOutput1")) = <<179, 1>>
  /\ Owner(Text("DigitalOutput2")) = <<180, 1>>
  /\ Owner(Text("Ignition")) = <<239, 1>>
  /\ Owner(Text("CrashDetection")) = <<247, 1>>
  /\ Owner(Text("OverSpeeding")) = <<255, 1>>
  /\ Owner(Text("AnalogInput1")) = <<9, 1>>
  /\ Owner(Text("AnalogInput2")) = <<10, 1>>
  /\ Owner(Text("AnalogInput3")) = <<11, 1>>
  /\ Owner(Text("ExternalVoltage")) = <<66, 1>>
  /\ Owner(Text("BatteryVoltage")) = <<67, 1>>
  /\ Owner(Text("PCBTemperature")) = <<70, 1>>
  /\ Owner(Text("AnalogInput4")) = <<245, 1>>
  /\ Owner(Text("VehicleSpeed")) = <<145, 1>>
  /\ Owner(Text("EngineSpeed_RPM")) = <<145, 2>>
  /\ Owner(Text("EngineCoolantTemperature")) = <<145, 3>>
  /\ Owner(Text("FuelLevelinTank")) = <<145, 4>>
  /\ Owner(Text("CheckEngine")) = <<145, 5>>
  /\ Owner(Text("AirConditionPressureSwitch1")) = <<145, 6>>
  /\ Owner(Text("AirConditionPressureSwitch2")) = <<145, 7>>
  /\ Owner(Text("GearShiftindicator")) = <<145, 8>>
  /\ Owner(Text("DesiredGearValue")) = <<145, 9>>
  /\ Owner(Text("VehicleType")) = <<145, 10>>
  /\ Owner(Text("ConditionImmobilizer")) = <<146, 1>>
  /\ Owner(Text("BrakePedalStatus")) = <<146, 2>>
  /\ Owner(Text("ClutchPedalStatus")) = <<146, 3>>
  /\ Owner(Text("GearEngagedStatus")) = <<146, 4>>
  /\ Owner(Text("ActualAccPedal")) = <<146, 5>>
  /\ Owner(Text("EngineThrottlePosition")) = <<146, 6>>
  /\ Owner(Text("IndicatedEngineTorque")) = <<146, 7>>
  /\ Owner(Text("EngineFrictionTorque")) = <<146, 8>>
  /\ Owner(Text("EngineActualTorque")) = <<146, 9>>
  /\ Owner(Text("CruiseControlOn_Off")) = <<146, 10>>
  /\ Owner(Text("SpeedLimiterOn_Off")) = <<146, 11>>
  /\ Owner(Text("conditionCruisControlLamp")) = <<146, 12>>
  /\ Owner(Text("EngineFuleCutOff")) = <<146, 13>>
  /\ Owner(Text("ConditionCatalystHeatingActivated")) = <<146, 14>>
  /\ Owner(Text("ACCompressorStatus")) = <<146, 15>>
  /\ Owner(Text("ConditionMainRelay")) = <<146, 16>>
  /\ Owner(Text("TCU_GearShiftPosition")) = <<146, 18>>
  /\ Owner(Text("distance")) = <<147, 1>>
  /\ Owner(Text("VirtualAccPedal")) = <<147, 4>>
  /\ Owner(Text("IntakeAirTemperature")) = <<147, 5>>
  /\ Owner(Text("DesiredSpeed")) = <<148, 1>>
  /\ Owner(Text("OilTemperature(TCU)")) = <<148, 2>>
  /\ Owner(Text("AmbientAirTemperature")) = <<148, 3>>
  /\ Owner(Text("EMS_DTC")) = <<148, 4>>
  /\ Owner(Text("ABS_DTC")) = <<148, 5>>
  /\ Owner(Text("BCM_DTC")) = <<148, 6>>
  /\ Owner(Text("ACU_DTC")) = <<149, 1>>
  /\ Owner(Text("ESC_DTC")) = <<149, 2>>
  /\ Owner(Text("ICN_DTC")) = <<149, 3>>
  /\ Owner(Text("EPS_DTC")) = <<149, 4>>
  /\ Owner(Text("CAS_DTC")) = <<149, 5>>
  /\ Owner(Text("FCM/FN_DTC")) = <<149, 6>>
  /\ Owner(Text("ICU_DTC")) = <<149, 7>>
  /\ Owner(Text("Reserve_DTC")) = <<149, 8>>
<1>1. /\ Owner(Text("DigitalInput1")) = <<1, 1>>
      /\ Owner(Text("DigitalInput2")) = <<2, 1>>
      /\ Owner(Text("GSMSignal")) = <<21, 1>>
      /\ Owner(Text("SDStatus")) = <<144, 1>>
      /\ Owner(Text("DigitalOutput1")) = <<179, 1>>
      /\ Owner(Text("DigitalOutput2")) = <<180, 1>>
      /\ Owner(Text("Ignition")) = <<239, 1>>
      /\ Owner(Text("CrashDetection")) = <<247, 1>>
      /\ Owner(Text("OverSpeeding")) = <<255, 1>>
      /\ Owner(Text("AnalogInput1")) = <<9, 1>>
  BY DEF Owner, Text, Numbered
<1>2. /\ Owner(Text("AnalogInput2")) = <<10, 1>>
      /\ Owner(Text("AnalogInput3")) = <<11, 1>>
      /\ Owner(Text("ExternalVoltage")) = <<66, 1>>
      /\ Owner(Text("BatteryVoltage")) = <<67, 1>>
      /\ Owner(Text("PCBTemperature")) = <<70, 1>>
      /\ Owner(Text("AnalogInput4")) = <<245, 1>>
      /\ Owner(Text("VehicleSpeed")) = <<145, 1>>
      /\ Owner(Text("EngineSpeed_RPM")) = <<145, 2>>
      /\ Owner(Text("EngineCoolantTemperature")) = <<145, 3>>
      /\ Owner(Text("FuelLevelinTank")) = <<145, 4>>
  BY DEF Owner, Text, Numbered
<1>3. /\ Owner(Text("CheckEngine")) = <<145, 5>>
      /\ Owner(Text("AirConditionPressureSwitch1")) = <<145, 6>>
      /\ Owner(Text("AirConditionPressureSwitch2")) = <<145, 7>>
      /\ Owner(Text("GearShiftindicator")) = <<145, 8>>
      /\ Owner(Text("DesiredGearValue")) = <<145, 9>>
      /\ Owner(Text("VehicleType")) = <<145, 10>>
      /\ Owner(Text("ConditionImmobilizer")) = <<146, 1>>
      /\ Owner(Text("BrakePedalStatus")) = <<146, 2>>
      /\ Owner(Text("ClutchPedalStatus")) = <<146, 3>>
      /\ Owner(Text("GearEngagedStatus")) = <<146, 4>>
  BY DEF Owner, Text, Numbered
<1>4. /\ Owner(Text("ActualAccPedal")) = <<146, 5>>
      /\ Owner(Text("EngineThrottlePosition")) = <<146, 6>>
      /\ Owner(Text("IndicatedEngineTorque")) = <<146, 7>>
      /\ Owner(Text("EngineFrictionTorque")) = <<146, 8>>
      /\ Owner(Text("EngineActualTorque")) = <<146, 9>>
      /\ Owner(Text("CruiseControlOn_Off")) = <<146, 10>>
      /\ Owner(Text("SpeedLimiterOn_Off")) = <<146, 11>>
      /\ Owner(Text("conditionCruisControlLamp")) = <<146, 12>>
      /\ Owner(Text("EngineFuleCutOff")) = <<146, 13>>
      /\ Owner(Text("ConditionCatalystHeatingActivated")) = <<146, 14>>
  BY DEF Owner, Text, Numbered
<1>5. /\ Owner(Text("ACCompressorStatus")) = <<146, 15>>
      /\ Owner(Text("ConditionMainRelay")) = <<146, 16>>
      /\ Owner(Text("TCU_GearShiftPosition")) = <<146, 18>>
      /\ Owner(Text("distance")) = <<147, 1>>
      /\ Owner(Text("VirtualAccPedal")) = <<147, 4>>
      /\ Owner(Text("IntakeAirTemperature")) = <<147, 5>>
      /\ Owner(Text("DesiredSpeed")) = <<148, 1>>
      /\ Owner(Text("OilTemperature(TCU)")) = <<148, 2>>
      /\ Owner(Text("AmbientAirTemperature")) = <<148, 3>>
      /\ Owner(Text("EMS_DTC")) = <<148, 4>>
  BY DEF Owner, Text, Numbered
<1>6. /\ Owner(Text("ABS_DTC")) = <<148, 5>>
      /\ Owner(Text("BCM_DTC")) = <<148, 6>>
      /\ Owner(Text("ACU_DTC")) = <<149, 1>>
      /\ Owner(Text("ESC_DTC")) = <<149, 2>>
      /\ Owner(Text("ICN_DTC")) = <<149, 3>>
      /\ Owner(Text("EPS_DTC")) = <<149, 4>>
      /\ Owner(Text("CAS_DTC")) = <<149, 5>>
      /\ Owner(Text("FCM/FN_DTC")) = <<149, 6>>
      /\ Owner(Text("ICU_DTC")) = <<149, 7>>
      /\ Owner(Text("Reserve_DTC")) = <<149, 8>>
  BY DEF Owner, Text, Numbered
<1> QED BY <1>1, <1>2, <1>3, <1>4, <1>5, <1>6, Zenon

(* No bit is told by two fields, and the names are those of this ID's      *)
(* fields.                                                                 *)
Tabulated(id, fields) ==
  /\ \A k \in DOMAIN fields : IsField(fields[k])
  /\ \A k, m \in DOMAIN fields : ~Sharing(fields[k]) /\ ~Sharing(fields[m]) =>
       \A i \in 1..8, bit \in 0..7 :
         Reads(fields[k], i, bit) /\ Reads(fields[m], i, bit) => k = m
  /\ \A k \in DOMAIN fields : ~Reserved(fields[k]) => Owner(fields[k].name) = <<id, k>>

(* The frame of ID 145 (parser.go 247-331): its bits, from the lowest on,  *)
(* are those of ten fields, one after the other.                           *)
LEMMA Table145 == Tabulated(145, Fields145)
<1>1. DOMAIN Fields145 = 1..10
  BY DEF Fields145
<1>2. /\ Within(Fields145[5], 48, 49)
      /\ Within(Fields145[6], 49, 50)
      /\ Within(Fields145[7], 50, 51)
      /\ Within(Fields145[8], 51, 53)
  BY SpansOf DEF Fields145, getBit, Bits
<1>3. /\ Fields145[5].name = Text("CheckEngine")
      /\ Fields145[6].name = Text("AirConditionPressureSwitch1")
      /\ Fields145[7].name = Text("AirConditionPressureSwitch2")
      /\ Fields145[8].name = Text("GearShiftindicator")
  BY NamesOf DEF Fields145, getBit, Bits
<1>4. /\ Within(Fields145[9], 53, 56)
  BY SpansOf DEF Fields145, getBit, Bits
<1>5. /\ Fields145[9].name = Text("DesiredGearValue")
  BY NamesOf DEF Fields145, getBit, Bits
<1>6. /\ Within(Fields145[1], 0, 16)
      /\ Within(Fields145[2], 16, 32)
      /\ Within(Fields145[3], 32, 40)
      /\ Within(Fields145[4], 40, 48)
  BY SpansOf DEF Fields145, Percent, Unit
<1>7. /\ Fields145[1].name = Text("VehicleSpeed")
      /\ Fields145[2].name = Text("EngineSpeed_RPM")
      /\ Fields145[3].name = Text("EngineCoolantTemperature")
      /\ Fields145[4].name = Text("FuelLevelinTank")
  BY NamesOf DEF Fields145, Percent, Unit
<1>8. /\ Within(Fields145[10], 56, 64)
  BY SpansOf DEF Fields145, Percent, Unit
<1>9. /\ Fields145[10].name = Text("VehicleType")
  BY NamesOf DEF Fields145, Percent, Unit
<1>10. \A k \in 1..10 : IsField(Fields145[k])
  BY <1>2, <1>3, <1>4, <1>5, <1>6, <1>7, <1>8, <1>9 DEF Within
<1> DEFINE Teller(p) ==
         CASE 0 <= p /\ p < 16 -> 1
           [] 16 <= p /\ p < 32 -> 2
           [] 32 <= p /\ p < 40 -> 3
           [] 40 <= p /\ p < 48 -> 4
           [] 48 <= p /\ p < 49 -> 5
           [] 49 <= p /\ p < 50 -> 6
           [] 50 <= p /\ p < 51 -> 7
           [] 51 <= p /\ p < 53 -> 8
           [] 53 <= p /\ p < 56 -> 9
           [] 56 <= p /\ p < 64 -> 10
<1>11. \A k \in 1..10, i \in 1..8, bit \in 0..7 :
       Reads(Fields145[k], i, bit) /\ ~Sharing(Fields145[k]) => k = Teller(Place(i, bit))
  BY <1>2, <1>3, <1>4, <1>5, <1>6, <1>7, <1>8, <1>9, PlaceInt DEF Within, Sharing
<1> HIDE DEF Teller
<1>12. \A k, m \in 1..10 : ~Sharing(Fields145[k]) /\ ~Sharing(Fields145[m]) =>
       \A i \in 1..8, bit \in 0..7 :
         Reads(Fields145[k], i, bit) /\ Reads(Fields145[m], i, bit) => k = m
  BY <1>11
<1>13. \A k \in 1..10 : ~Reserved(Fields145[k]) => Owner(Fields145[k].name) = <<145, k>>
  BY <1>2, <1>3, <1>4, <1>5, <1>6, <1>7, <1>8, <1>9, Texts, OwnersOfTexts DEF Reserved
<1> QED BY <1>1, <1>10, <1>12, <1>13 DEF Tabulated

(* That of ID 146 (parser.go 332-504). The gear takes the bits that the    *)
(* immobilizer, the pedal and the clutch were told by: it is the one that  *)
(* shares.                                                                 *)
LEMMA Table146 == Tabulated(146, Fields146)
<1>1. DOMAIN Fields146 = 1..22
  BY DEF Fields146
<1>2. /\ Within(Fields146[1], 0, 3)
      /\ Within(Fields146[2], 3, 5)
      /\ Within(Fields146[3], 5, 6)
      /\ Within(Fields146[4], 6, 8)
  BY SpansOf DEF Fields146, getBit, Bits
<1>3. /\ Fields146[1].name = Text("ConditionImmobilizer")
      /\ Fields146[2].name = Text("BrakePedalStatus")
      /\ Fields146[3].name = Text("ClutchPedalStatus")
      /\ Fields146[4].name = Text("GearEngagedStatus")
  BY NamesOf DEF Fields146, getBit, Bits
<1>4. /\ Within(Fields146[10], 48, 49)
      /\ Within(Fields146[11], 49, 50)
      /\ Within(Fields146[12], 50, 51)
      /\ Within(Fields146[13], 51, 52)
  BY SpansOf DEF Fields146, getBit, Bits
<1>5. /\ Fields146[10].name = Text("CruiseControlOn_Off")
      /\ Fields146[11].name = Text("SpeedLimiterOn_Off")
      /\ Fields146[12].name = Text("conditionCruisControlLamp")
      /\ Fields146[13].name = Text("EngineFuleCutOff")
  BY NamesOf DEF Fields146, getBit, Bits
<1>6. /\ Within(Fields146[14], 52, 53)
      /\ Within(Fields146[15], 53, 54)
      /\ Within(Fields146[16], 54, 55)
      /\ Within(Fields146[17], 55, 56)
  BY SpansOf DEF Fields146, getBit, Bits
<1>7. /\ Fields146[14].name = Text("ConditionCatalystHeatingActivated")
      /\ Fields146[15].name = Text("ACCompressorStatus")
      /\ Fields146[16].name = Text("ConditionMainRelay")
      /\ Fields146[17].name = Text("Reserve")
  BY NamesOf DEF Fields146, getBit, Bits
<1>8. /\ Within(Fields146[18], 0, 4)
      /\ Within(Fields146[19], 60, 61)
      /\ Within(Fields146[20], 61, 62)
      /\ Within(Fields146[21], 62, 63)
  BY SpansOf DEF Fields146, getBit, Bits
<1>9. /\ Fields146[18].name = Text("TCU_GearShiftPosition")
      /\ Fields146[19].name = Text("Reserve")
      /\ Fields146[20].name = Text("Reserve")
      /\ Fields146[21].name = Text("Reserve")
  BY NamesOf DEF Fields146, getBit, Bits
<1>10. /\ Within(Fields146[22], 63, 64)
  BY SpansOf DEF Fields146, getBit, Bits
<1>11. /\ Fields146[22].name = Text("Reserve")
  BY NamesOf DEF Fields146, getBit, Bits
<1>12. /\ Within(Fields146[5], 8, 16)
      /\ Within(Fields146[6], 16, 24)
      /\ Within(Fields146[7], 24, 32)
      /\ Within(Fields146[8], 32, 40)
  BY SpansOf DEF Fields146, Percent, Unit
<1>13. /\ Fields146[5].name = Text("ActualAccPedal")
      /\ Fields146[6].name = Text("EngineThrottlePosition")
      /\ Fields146[7].name = Text("IndicatedEngineTorque")
      /\ Fields146[8].name = Text("EngineFrictionTorque")
  BY NamesOf DEF Fields146, Percent, Unit
<1>14. /\ Within(Fields146[9], 40, 48)
  BY SpansOf DEF Fields146, Percent, Unit
<1>15. /\ Fields146[9].name = Text("EngineActualTorque")
  BY NamesOf DEF Fields146, Percent, Unit
<1>16. \A k \in 1..22 : IsField(Fields146[k])
  <2>1. \A field, least, past : Within(field, least, past) => IsField(field)
    BY Zenon DEF Within
  <2>2. \A k \in 1..4 : IsField(Fields146[k])
    BY <1>2, <2>1
  <2>3. \A k \in 5..9 : IsField(Fields146[k])
    BY <1>12, <1>14, <2>1
  <2>4. \A k \in 10..13 : IsField(Fields146[k])
    BY <1>4, <2>1
  <2>5. \A k \in 14..17 : IsField(Fields146[k])
    BY <1>6, <2>1
  <2>6. \A k \in 18..22 : IsField(Fields146[k])
    BY <1>8, <1>10, <2>1
  <2> QED BY <2>2, <2>3, <2>4, <2>5, <2>6
<1> DEFINE Portion(k, p) ==
         \/ k = 1 /\ 0 <= p /\ p < 3
         \/ k = 2 /\ 3 <= p /\ p < 5
         \/ k = 3 /\ 5 <= p /\ p < 6
         \/ k = 4 /\ 6 <= p /\ p < 8
         \/ k \in 5..9 /\ 8 * (k - 4) <= p /\ p < 8 * (k - 3)
         \/ k \in 10..17 /\ k + 38 <= p /\ p < k + 39
         \/ k \in 19..22 /\ k + 41 <= p /\ p < k + 42
<1>17. ASSUME NEW k \in 1..22, NEW i \in 1..8, NEW bit \in 0..7,
              Reads(Fields146[k], i, bit), ~Sharing(Fields146[k])
       PROVE  Portion(k, Place(i, bit))
  <2> DEFINE p == Place(i, bit)
  <2>1. \A least, past : Within(Fields146[k], least, past) => least <= p /\ p < past
    BY <1>17 DEF Within
  <2>2. k # 18
    BY <1>9, <1>17 DEF Sharing
  <2> HIDE DEF p
  <2>3. k \in 1..4 => \/ k = 1 /\ 0 <= p /\ p < 3
                      \/ k = 2 /\ 3 <= p /\ p < 5
                      \/ k = 3 /\ 5 <= p /\ p < 6
                      \/ k = 4 /\ 6 <= p /\ p < 8
    BY <1>2, <2>1
  <2>4. k \in 5..9 => 8 * (k - 4) <= p /\ p < 8 * (k - 3)
    BY <1>12, <1>14, <2>1
  <2>5. k \in 10..13 => k + 38 <= p /\ p < k + 39
    BY <1>4, <2>1
  <2>6. k \in 14..17 => k + 38 <= p /\ p < k + 39
    BY <1>6, <2>1
  <2>7. k \in 19..22 => k + 41 <= p /\ p < k + 42
    BY <1>8, <1>10, <2>1
  <2> QED BY <2>2, <2>3, <2>4, <2>5, <2>6, <2>7 DEF p
<1>18. ASSUME NEW k \in 1..22, NEW m \in 1..22,
              ~Sharing(Fields146[k]), ~Sharing(Fields146[m]), NEW i \in 1..8, NEW bit \in 0..7,
              Reads(Fields146[k], i, bit), Reads(Fields146[m], i, bit)
       PROVE  k = m
  <2> DEFINE p == Place(i, bit)
  <2>1. p \in Int /\ Portion(k, p) /\ Portion(m, p)
    BY <1>17, <1>18, PlaceInt
  <2> HIDE DEF p
  <2> QED BY <2>1
<1>19. \A k \in 1..22 : ~Reserved(Fields146[k]) => Owner(Fields146[k].name) = <<146, k>>
  <2> SUFFICES ASSUME NEW k \in 1..22, ~Reserved(Fields146[k])
               PROVE  Owner(Fields146[k].name) = <<146, k>>
    OBVIOUS
  <2>1. CASE k \in 1..4
    BY <1>3, <2>1, OwnersOfTexts
  <2>2. CASE k \in 5..9
    BY <1>13, <1>15, <2>2, OwnersOfTexts
  <2>3. CASE k \in 10..13
    BY <1>5, <2>3, OwnersOfTexts
  <2>4. CASE k \in 14..16
    BY <1>7, <2>4, OwnersOfTexts
  <2>5. CASE k \in 17..22
    BY <1>7, <1>9, <1>11, <2>5, Texts, OwnersOfTexts DEF Reserved
  <2>6. k \in 1..4 \/ k \in 5..9 \/ k \in 10..13 \/ k \in 14..16 \/ k \in 17..22
    OBVIOUS
  <2> QED BY <2>1, <2>2, <2>3, <2>4, <2>5, <2>6
<1> QED BY <1>1, <1>16, <1>18, <1>19 DEF Tabulated

(* That of ID 147 (parser.go 505-556).                                     *)
LEMMA Table147 == Tabulated(147, Fields147)
<1>1. DOMAIN Fields147 = 1..5
  BY DEF Fields147
<1>2. /\ Within(Fields147[2], 32, 40)
      /\ Within(Fields147[3], 40, 48)
      /\ Within(Fields147[4], 48, 56)
      /\ Within(Fields147[5], 56, 64)
  BY SpansOf DEF Fields147, Percent, Unit
<1>3. /\ Fields147[2].name = Text("Reserve")
      /\ Fields147[3].name = Text("Reserve")
      /\ Fields147[4].name = Text("VirtualAccPedal")
      /\ Fields147[5].name = Text("IntakeAirTemperature")
  BY NamesOf DEF Fields147, Percent, Unit
<1>4. Within(Fields147[1], 0, 32) /\ Fields147[1].name = Text("distance")
  <2> DEFINE read == <<3, 2, 1, 0>>
  <2>1. /\ read \in Seq(0..7) /\ Len(read) = 4 /\ 0 \in 0..7 /\ DOMAIN read = 1..4
        /\ \A j \in 1..4 : 0 <= read[j] /\ read[j] < 4
    OBVIOUS
  <2>2. Fields147[1] = Scaled("distance", read, One, 0)
    BY DEF Fields147, Unit
  <2> HIDE DEF read
  <2>3. \A j \in DOMAIN read : 0 <= read[j] /\ read[j] < 0 + Len(read)
    BY <2>1
  <2>4. Within(Scaled("distance", read, One, 0), 8 * 0, 8 * (0 + Len(read)))
    BY <2>1, <2>3, ScaledWithin, Zenon
  <2>5. 8 * 0 = 0 /\ 8 * (0 + Len(read)) = 32
    BY <2>1
  <2> QED BY <2>2, <2>4, <2>5, NamesOf
<1>5. \A k \in 1..5 : IsField(Fields147[k])
  BY <1>2, <1>3, <1>4 DEF Within
<1> DEFINE Teller(p) ==
         CASE 0 <= p /\ p < 32 -> 1
           [] 32 <= p /\ p < 40 -> 2
           [] 40 <= p /\ p < 48 -> 3
           [] 48 <= p /\ p < 56 -> 4
           [] 56 <= p /\ p < 64 -> 5
<1>6. \A k \in 1..5, i \in 1..8, bit \in 0..7 :
       Reads(Fields147[k], i, bit) /\ ~Sharing(Fields147[k]) => k = Teller(Place(i, bit))
  BY <1>2, <1>3, <1>4, PlaceInt DEF Within, Sharing
<1> HIDE DEF Teller
<1>7. \A k, m \in 1..5 : ~Sharing(Fields147[k]) /\ ~Sharing(Fields147[m]) =>
       \A i \in 1..8, bit \in 0..7 :
         Reads(Fields147[k], i, bit) /\ Reads(Fields147[m], i, bit) => k = m
  BY <1>6
<1>8. \A k \in 1..5 : ~Reserved(Fields147[k]) => Owner(Fields147[k].name) = <<147, k>>
  BY <1>2, <1>3, <1>4, Texts, OwnersOfTexts DEF Reserved
<1> QED BY <1>1, <1>5, <1>7, <1>8 DEF Tabulated

(* That of ID 148 (parser.go 557-620).                                     *)
LEMMA Table148 == Tabulated(148, Fields148)
<1>1. DOMAIN Fields148 = 1..6
  BY DEF Fields148
<1>2. /\ Within(Fields148[1], 0, 16)
      /\ Within(Fields148[2], 16, 24)
      /\ Within(Fields148[3], 24, 32)
      /\ Within(Fields148[4], 32, 48)
  BY SpansOf DEF Fields148, Percent, Unit
<1>3. /\ Fields148[1].name = Text("DesiredSpeed")
      /\ Fields148[2].name = Text("OilTemperature(TCU)")
      /\ Fields148[3].name = Text("AmbientAirTemperature")
      /\ Fields148[4].name = Text("EMS_DTC")
  BY NamesOf DEF Fields148, Percent, Unit
<1>4. /\ Within(Fields148[5], 48, 56)
      /\ Within(Fields148[6], 56, 64)
  BY SpansOf DEF Fields148, Percent, Unit
<1>5. /\ Fields148[5].name = Text("ABS_DTC")
      /\ Fields148[6].name = Text("BCM_DTC")
  BY NamesOf DEF Fields148, Percent, Unit
<1>6. \A k \in 1..6 : IsField(Fields148[k])
  BY <1>2, <1>3, <1>4, <1>5 DEF Within
<1> DEFINE Teller(p) ==
         CASE 0 <= p /\ p < 16 -> 1
           [] 16 <= p /\ p < 24 -> 2
           [] 24 <= p /\ p < 32 -> 3
           [] 32 <= p /\ p < 48 -> 4
           [] 48 <= p /\ p < 56 -> 5
           [] 56 <= p /\ p < 64 -> 6
<1>7. \A k \in 1..6, i \in 1..8, bit \in 0..7 :
       Reads(Fields148[k], i, bit) /\ ~Sharing(Fields148[k]) => k = Teller(Place(i, bit))
  BY <1>2, <1>3, <1>4, <1>5, PlaceInt DEF Within, Sharing
<1> HIDE DEF Teller
<1>8. \A k, m \in 1..6 : ~Sharing(Fields148[k]) /\ ~Sharing(Fields148[m]) =>
       \A i \in 1..8, bit \in 0..7 :
         Reads(Fields148[k], i, bit) /\ Reads(Fields148[m], i, bit) => k = m
  BY <1>7
<1>9. \A k \in 1..6 : ~Reserved(Fields148[k]) => Owner(Fields148[k].name) = <<148, k>>
  BY <1>2, <1>3, <1>4, <1>5, Texts, OwnersOfTexts DEF Reserved
<1> QED BY <1>1, <1>6, <1>8, <1>9 DEF Tabulated

(* That of ID 149 (parser.go 621-694): one code for each byte.             *)
LEMMA Table149 == Tabulated(149, Fields149)
<1>1. DOMAIN Fields149 = 1..8
  BY DEF Fields149
<1>2. ASSUME NEW k \in 1..8
      PROVE  /\ Within(Fields149[k], 8 * (k - 1), 8 * k)
             /\ Fields149[k].name = Text(Codes149[k - 1])
  <2>1. Fields149[k] = Scaled(Codes149[k - 1], <<k - 1>>, One, 0)
    BY DEF Fields149, Unit
  <2>2. k - 1 \in 0..7 /\ 8 * ((k - 1) + 1) = 8 * k
    OBVIOUS
  <2> DEFINE b == k - 1
  <2>3. Within(Scaled(Codes149[b], <<b>>, One, 0), 8 * b, 8 * (b + 1))
    <3> b \in 0..7
      BY <2>2
    <3> HIDE DEF b
    <3> QED BY SpansOf
  <2> QED BY <2>1, <2>2, <2>3, NamesOf
<1>3. \A k \in 1..8, i \in 1..8, bit \in 0..7 :
        Reads(Fields149[k], i, bit) =>
          8 * (k - 1) <= Place(i, bit) /\ Place(i, bit) < 8 * k
  BY <1>2 DEF Within
<1>4. \A k, m \in 1..8, i \in 1..8, bit \in 0..7 :
        Reads(Fields149[k], i, bit) /\ Reads(Fields149[m], i, bit) => k = m
  BY <1>3, PlaceInt
<1>5. \A k \in 1..8 : Owner(Text(Codes149[k - 1])) = <<149, k>>
  <2>1. /\ Codes149[0] = "ACU_DTC" /\ Codes149[1] = "ESC_DTC" /\ Codes149[2] = "ICN_DTC"
        /\ Codes149[3] = "EPS_DTC" /\ Codes149[4] = "CAS_DTC" /\ Codes149[5] = "FCM/FN_DTC"
        /\ Codes149[6] = "ICU_DTC" /\ Codes149[7] = "Reserve_DTC"
    BY DEF Codes149
  <2> TAKE k \in 1..8
  <2>2. k \in {1, 2, 3, 4, 5, 6, 7, 8}
    OBVIOUS
  <2> QED BY <2>1, <2>2, OwnersOfTexts
<1>6. \A k \in 1..8 : IsField(Fields149[k])
  BY <1>2 DEF Within
<1>7. \A k \in 1..8 : Owner(Fields149[k].name) = <<149, k>>
  BY <1>2, <1>5
<1> QED BY <1>1, <1>4, <1>6, <1>7 DEF Tabulated

(* Sensors, so many of a frame, the k-th in the k-th pair of bytes from    *)
(* byte 0, numbered from one on.                                           *)
SensorsFrom(fields, frame, n) ==
  /\ DOMAIN fields = 1..n
  /\ \A k \in 1..n :
       \E scale, offset : fields[k] = Sensor(k + (4 * frame), k - 1, scale, offset)

(* Their bits and their names.                                             *)
LEMMA SensorTable ==
  ASSUME NEW fields, NEW n \in 1..4, NEW frame \in Nat, SensorsFrom(fields, frame, n),
         NEW id, id = 150 + frame
  PROVE  Tabulated(id, fields)
<1>1. \A k \in 1..n : /\ Within(fields[k], 16 * (k - 1), 16 * k)
                      /\ fields[k].name = Numbered("Sensor", k + (4 * frame))
  <2> TAKE k \in 1..n
  <2>1. PICK scale, offset : fields[k] = Sensor(k + (4 * frame), k - 1, scale, offset)
    BY Zenon DEF SensorsFrom
  <2>2. k \in 1..4
    OBVIOUS
  <2>3. /\ Within(Sensor(k + (4 * frame), k - 1, scale, offset), 16 * (k - 1), 16 * k)
        /\ Sensor(k + (4 * frame), k - 1, scale, offset).name = Numbered("Sensor", k + (4 * frame))
    BY <2>2, SensorWithin
  <2> QED BY <2>1, <2>3, Zenon
<1>2. \A k \in 1..n, i \in 1..8, bit \in 0..7 :
        Reads(fields[k], i, bit) =>
          16 * (k - 1) <= Place(i, bit) /\ Place(i, bit) < 16 * k
  BY <1>1 DEF Within
<1>3. ASSUME NEW k \in 1..n, NEW m \in 1..n, NEW i \in 1..8, NEW bit \in 0..7,
             Reads(fields[k], i, bit), Reads(fields[m], i, bit)
      PROVE  k = m
  <2> DEFINE p == Place(i, bit)
  <2>0. k \in Int /\ m \in Int
    OBVIOUS
  <2>1. p \in Int
    BY PlaceInt
  <2>2. 16 * (k - 1) <= p /\ p < 16 * k /\ 16 * (m - 1) <= p /\ p < 16 * m
    BY <1>2, <1>3
  <2> HIDE DEF p
  <2> QED BY <2>0, <2>1, <2>2
<1>4. \A k \in 1..n : Owner(fields[k].name) = <<id, k>>
  <2> TAKE k \in 1..n
  <2>1. Owner(Numbered("Sensor", k + (4 * frame)))
          = << 150 + (((k + (4 * frame)) - 1) \div 4), 1 + (((k + (4 * frame)) - 1) % 4) >>
    BY DEF Owner, Numbered
  <2>2. ((k + (4 * frame)) - 1) \div 4 = frame /\ 1 + (((k + (4 * frame)) - 1) % 4) = k
    OBVIOUS
  <2> QED BY <1>1, <2>1, <2>2
<1>5. \A k \in 1..n : IsField(fields[k])
  BY <1>1 DEF Within
<1>6. DOMAIN fields = 1..n
  BY DEF SensorsFrom
<1> QED BY <1>3, <1>4, <1>5, <1>6, Zenon DEF Tabulated

(* The frames of the sensors (parser.go 695-900).                          *)
LEMMA SensorTables ==
  /\ Tabulated(150, Fields150)
  /\ Tabulated(151, Fields151)
  /\ Tabulated(152, Fields152)
  /\ Tabulated(153, Fields153)
  /\ Tabulated(154, Fields154)
<1>1. Tabulated(150, Fields150)
  <2>1. 0 \in Nat /\ 4 \in 1..4 /\ 150 = 150 + 0
    OBVIOUS
  <2>2. SensorsFrom(Fields150, 0, 4)
    BY DEF SensorsFrom, Fields150
  <2> QED BY <2>1, <2>2, SensorTable, Zenon
<1>2. Tabulated(151, Fields151)
  <2>1. 1 \in Nat /\ 4 \in 1..4 /\ 151 = 150 + 1
    OBVIOUS
  <2>2. SensorsFrom(Fields151, 1, 4)
    BY DEF SensorsFrom, Fields151
  <2> QED BY <2>1, <2>2, SensorTable, Zenon
<1>3. Tabulated(152, Fields152)
  <2>1. 2 \in Nat /\ 4 \in 1..4 /\ 152 = 150 + 2
    OBVIOUS
  <2>2. SensorsFrom(Fields152, 2, 4)
    BY DEF SensorsFrom, Fields152
  <2> QED BY <2>1, <2>2, SensorTable, Zenon
<1>4. Tabulated(153, Fields153)
  <2>1. 3 \in Nat /\ 4 \in 1..4 /\ 153 = 150 + 3
    OBVIOUS
  <2>2. SensorsFrom(Fields153, 3, 4)
    BY DEF SensorsFrom, Fields153
  <2> QED BY <2>1, <2>2, SensorTable, Zenon
<1>5. Tabulated(154, Fields154)
  <2>1. 4 \in Nat /\ 3 \in 1..4 /\ 154 = 150 + 4
    OBVIOUS
  <2>2. SensorsFrom(Fields154, 4, 3)
    BY DEF SensorsFrom, Fields154
  <2> QED BY <2>1, <2>2, SensorTable, Zenon
<1> QED BY <1>1, <1>2, <1>3, <1>4, <1>5, Zenon

(* Which table an ID is read by.                                           *)
LEMMA TableOf ==
  /\ DOMAIN Fields = 145..154
  /\ Fields[145] = Fields145 /\ Fields[146] = Fields146 /\ Fields[147] = Fields147
  /\ Fields[148] = Fields148 /\ Fields[149] = Fields149 /\ Fields[150] = Fields150
  /\ Fields[151] = Fields151 /\ Fields[152] = Fields152 /\ Fields[153] = Fields153
  /\ Fields[154] = Fields154
BY DEF Fields

(* All the frames that the parser knows.                                   *)
LEMMA Tables == \A id \in DOMAIN Fields : Tabulated(id, Fields[id])
<1>1. \A id \in DOMAIN Fields :
        id \in {145, 146, 147, 148, 149, 150, 151, 152, 153, 154}
  BY TableOf
<1> QED BY <1>1, TableOf, Table145, Table146, Table147, Table148, Table149, SensorTables

(* The value of a field that does not read a bit does not depend on it.    *)
LEMMA UnreadValue ==
  ASSUME NEW stream \in Seq(Bytes), Len(stream) = 8, NEW i \in 1..8, NEW bit \in 0..7,
         NEW field, IsField(field), ~Reads(field, i, bit)
  PROVE  FieldValue(field, Flipped(stream, i, bit)) = FieldValue(field, stream)
<1>1. Raw(field, Flipped(stream, i, bit)) = Raw(field, stream)
  BY Unread
<1>2. Rounded(field, Flipped(stream, i, bit)) = Rounded(field, stream)
  BY <1>1, Zenon DEF Rounded
<1> QED BY <1>2, Zenon DEF FieldValue

(* The values of a frame, field by field.                                  *)
LEMMA FrameValues ==
  ASSUME NEW id \in DOMAIN Fields, NEW stream
  PROVE  /\ DOMAIN parseNEightValue(stream, id) = DOMAIN Fields[id]
         /\ \A k \in DOMAIN Fields[id] :
              /\ parseNEightValue(stream, id)[k].value = FieldValue(Fields[id][k], stream)
              /\ parseNEightValue(stream, id)[k].name = Fields[id][k].name
<1>1. parseNEightValue(stream, id) =
        [k \in DOMAIN Fields[id] |-> FieldElement(Fields[id][k], stream)]
  BY Zenon DEF parseNEightValue
<1>2. \A k : /\ FieldElement(Fields[id][k], stream).value = FieldValue(Fields[id][k], stream)
             /\ FieldElement(Fields[id][k], stream).name = Fields[id][k].name
  BY DEF FieldElement, Plain
<1> QED BY <1>1, <1>2, Zenon

(* To flip one bit of a frame changes one field at most, the one that      *)
(* shares its bits apart: the others read no bit in common.                *)
LEMMA BitToldOnce ==
  ASSUME NEW id \in DOMAIN Fields, NEW stream \in Seq(Bytes), Len(stream) = 8,
         NEW i \in 1..8, NEW bit \in 0..7
  PROVE  Cardinality({k \in Differing(id, stream, Flipped(stream, i, bit)) :
                        Fields[id][k].name.text # "TCU_GearShiftPosition"}) <= 1
<1> DEFINE other == Flipped(stream, i, bit)
           told == {k \in Differing(id, stream, other) :
                      Fields[id][k].name.text # "TCU_GearShiftPosition"}
<1>1. Tabulated(id, Fields[id])
  BY Tables
<1>2. \A k \in told : /\ k \in DOMAIN Fields[id]
                      /\ FieldValue(Fields[id][k], stream) # FieldValue(Fields[id][k], other)
                      /\ ~Sharing(Fields[id][k])
  <2> TAKE k \in told
  <2>1. k \in Differing(id, stream, other) /\ Fields[id][k].name.text # "TCU_GearShiftPosition"
    OBVIOUS
  <2>2. ~Sharing(Fields[id][k])
    BY <2>1, Texts DEF Sharing
  <2> HIDE DEF other
  <2>3. /\ k \in DOMAIN parseNEightValue(stream, id)
        /\ parseNEightValue(stream, id)[k].value # parseNEightValue(other, id)[k].value
    BY <2>1, Zenon DEF Differing
  <2>4. /\ k \in DOMAIN Fields[id]
        /\ parseNEightValue(stream, id)[k].value = FieldValue(Fields[id][k], stream)
        /\ parseNEightValue(other, id)[k].value = FieldValue(Fields[id][k], other)
    BY <2>3, FrameValues
  <2> QED BY <2>2, <2>3, <2>4, Zenon
<1>3. \A k \in told : Reads(Fields[id][k], i, bit)
  <2> SUFFICES ASSUME NEW k \in told, ~Reads(Fields[id][k], i, bit) PROVE FALSE
    OBVIOUS
  <2>1. IsField(Fields[id][k])
    BY <1>1, <1>2 DEF Tabulated
  <2> QED BY <1>2, <2>1, UnreadValue
<1>4. \A k, m \in told : k = m
  BY <1>1, <1>2, <1>3 DEF Tabulated
<1> HIDE DEF told
<1>5. CASE told = {}
  <2>1. Cardinality(told) = 0
    BY <1>5, FS_EmptySet
  <2> QED BY <2>1 DEF told
<1>6. CASE told # {}
  <2>1. PICK k : k \in told
    BY <1>6
  <2>2. told = {k}
    BY <1>4, <2>1
  <2>3. Cardinality(told) = 1
    BY <2>2, FS_Singleton
  <2> QED BY <2>3 DEF told
<1> QED BY <1>5, <1>6

(* The elements of a record of an accepted packet.                         *)
LEMMA RecordVals ==
  ASSUME Course, Accepted, NEW p \in ToSet(Sent)
  PROVE  /\ IsAVLData(p)
         /\ \A v \in ToSet(p.vals) : v \in Vals
<1>1. PICK j \in DOMAIN Sent : p = Sent[j]
  BY DEF ToSet
<1>2. Packet \in Packets /\ Sent = Packet.points /\ j \in 1..Len(Packet.points)
  BY AcceptedWhole DEF Sent, Packet
<1>3. IsAVLData(p)
  BY <1>1, <1>2, PacketsHaveRecords
<1>4. p.vals \in Seq(Vals)
  BY <1>3, AVLDataTypes
<1>5. \A v \in ToSet(p.vals) : v \in Vals
  BY <1>4 DEF ToSet
<1> QED BY <1>3, <1>5

(* A bit of a frame of eight bytes is told by one field at most, the one   *)
(* known to share its bits apart (parser.go 247-900): no mask or byte      *)
(* index of the tables reaches into a neighbour's bits.                    *)
THEOREM BitsToldOnce == Spec => []OneBitOneField
<1>1. Course => OneBitOneField
  <2> SUFFICES ASSUME Course, Accepted, NEW p \in ToSet(Sent), NEW v \in ToSet(p.vals),
                      v.id \in DOMAIN Fields, Len(v.stream) = 8,
                      NEW i \in 1..8 \ (IF v.id = 147 THEN {5} ELSE {}), NEW bit \in 0..7
               PROVE  Cardinality({k \in Differing(v.id, v.stream, Flipped(v.stream, i, bit)) :
                         Fields[v.id][k].name.text # "TCU_GearShiftPosition"}) <= 1
    BY DEF OneBitOneField
  <2>1. v.stream \in Seq(Bytes)
    BY RecordVals DEF Vals
  <2>2. i \in 1..8
    OBVIOUS
  <2> QED BY <2>1, <2>2, BitToldOnce
<1> QED BY <1>1, CourseInvariant, PTL

(* The elements of a record that are of the length of a stage...           *)
Holding(p, s) == {v \in ToSet(p.vals) : Len(v.stream) = Streams[s]}

(* ... and what is chosen for it are those.                                *)
LEMMA ChosenHeld ==
  ASSUME NEW p, IsAVLData(p), NEW s \in 1..4
  PROVE  Chosen(p.vals, s) \in Seq(Holding(p, s))
<1> DEFINE vals == p.vals
           one(i) == IF Len(vals[i].stream) = Streams[s] THEN <<vals[i]>> ELSE <<>>
           seqs == [i \in DOMAIN vals |-> one(i)]
           S == Holding(p, s)
           n == Len(vals)
<1>1. n \in Nat /\ DOMAIN vals = 1..n /\ \A i \in 1..n : vals[i] \in ToSet(vals)
  <2>1. vals \in Seq(Vals)
    BY AVLDataTypes
  <2>2. n \in Nat /\ DOMAIN vals = 1..n
    BY <2>1
  <2> QED BY <2>2 DEF ToSet
<1>2. \A i \in 1..n : one(i) \in Seq(S)
  <2> TAKE i \in 1..n
  <2>1. CASE Len(vals[i].stream) = Streams[s]
    <3>1. vals[i] \in S
      BY <1>1, <2>1 DEF Holding
    <3> HIDE DEF S
    <3>2. <<vals[i]>> \in Seq(S)
      BY <3>1
    <3> QED BY <2>1, <3>2
  <2>2. CASE Len(vals[i].stream) # Streams[s]
    <3> HIDE DEF S
    <3>1. <<>> \in Seq(S)
      OBVIOUS
    <3> QED BY <2>2, <3>1
  <2> QED BY <2>1, <2>2
<1>3. Chosen(vals, s) = FlattenSeq(seqs)
  BY DEF Chosen
<1> HIDE DEF vals, n, S, one
<1>4. seqs \in Seq(Seq(S))
  BY <1>1, <1>2
<1> HIDE DEF seqs
<1>5. FlattenSeq(seqs) \in Seq(S)
  BY <1>4, JoinedSpell
<1> QED BY <1>3, <1>5 DEF vals, S

(* It is the k-th that some element of the record is decoded to.           *)
DecodedFrom(p, e) ==
  \E s \in 1..4 : \E v \in Holding(p, s) :
    \E k \in DOMAIN Decode(s, v.id, v.stream) : e = Decode(s, v.id, v.stream)[k]

(* So is each of the elements of a point.                                  *)
LEMMA ElementsFrom ==
  ASSUME NEW p, IsAVLData(p), NEW j \in DOMAIN SentElements(p)
  PROVE  DecodedFrom(p, SentElements(p)[j])
<1> DEFINE es == SentElements(p)
<1>1. es \in Seq(Parsed(p))
  BY KnownGrows
<1> HIDE DEF es
<1>2. es[j] \in Parsed(p)
  <2>1. j \in 1..Len(es)
    BY <1>1 DEF es
  <2> QED BY <1>1, <2>1, ElementOfSeq
<1>3. PICK s \in 1..4 : es[j] \in UNION {Items(Decoded(p, s)[i]) : i \in DOMAIN Decoded(p, s)}
  BY <1>2 DEF Parsed
<1>4. PICK i \in DOMAIN Decoded(p, s) : es[j] \in Items(Decoded(p, s)[i])
  BY <1>3
<1> DEFINE chosen == Chosen(p.vals, s)
           v == chosen[i]
<1>5. i \in 1..Len(chosen) /\ Decoded(p, s)[i] = Decode(s, v.id, v.stream)
  BY <1>4 DEF Decoded
<1>6. v \in Holding(p, s)
  <2>1. chosen \in Seq(Holding(p, s))
    BY ChosenHeld
  <2> HIDE DEF chosen
  <2> QED BY <1>5, <2>1, ElementOfSeq
<1>7. PICK k \in DOMAIN Decode(s, v.id, v.stream) : es[j] = Decode(s, v.id, v.stream)[k]
  BY <1>4, <1>5 DEF Items
<1> HIDE DEF v
<1>8. DecodedFrom(p, es[j])
  BY <1>6, <1>7, Zenon DEF DecodedFrom
<1> QED BY <1>8 DEF es

(* A name that an element is given stands for it alone.                    *)
LEMMA DecodedOwner ==
  ASSUME NEW s \in 1..4, NEW id \in Nat, NEW bytes, NEW k \in DOMAIN Decode(s, id, bytes),
         Decode(s, id, bytes)[k].name.text # "Reserve"
  PROVE  Owner(Decode(s, id, bytes)[k].name) = <<id, k>>
<1>1. Owner(Itoa(id)) = <<id, 1>>
  BY DEF Owner, Itoa, Numbered
<1>2. Owner(OneByteName(id)) = <<id, 1>>
  BY <1>1, OwnersOfTexts DEF OneByteName
<1>3. Owner(TwoByteName(id)) = <<id, 1>>
  BY <1>1, OwnersOfTexts DEF TwoByteName
<1>4. \A x : DOMAIN <<x>> = {1} /\ <<x>>[1] = x
  OBVIOUS
<1>5. \A name, value : Plain(name, value).name = name
  BY DEF Plain
<1>6. CASE s = 1
  <2>1. Decode(s, id, bytes) = <<Plain(OneByteName(id), Number(bytes) * Hundred)>>
    BY <1>6 DEF Decode, parseNOneValue
  <2> QED BY <1>2, <1>4, <1>5, <2>1
<1>7. CASE s = 2
  <2>1. Decode(s, id, bytes) = <<Plain(TwoByteName(id), Number(bytes) * Hundred)>>
    BY <1>7 DEF Decode, parseNTowValue
  <2> QED BY <1>3, <1>4, <1>5, <2>1
<1>8. CASE s = 3
  <2>1. Decode(s, id, bytes) = <<Plain(Itoa(id), Number(bytes) * Hundred)>>
    BY <1>8 DEF Decode, parseNFourValue
  <2> QED BY <1>1, <1>4, <1>5, <2>1
<1>9. CASE s = 4 /\ id \notin DOMAIN Fields
  <2>1. Decode(s, id, bytes) = <<Plain(Itoa(id), 999 * Hundred)>>
    BY <1>9 DEF Decode, parseNEightValue
  <2> QED BY <1>1, <1>4, <1>5, <2>1
<1>10. CASE s = 4 /\ id \in DOMAIN Fields
  <2>1. Decode(s, id, bytes) = parseNEightValue(bytes, id)
    BY <1>10 DEF Decode
  <2>2. k \in DOMAIN Fields[id] /\ Decode(s, id, bytes)[k].name = Fields[id][k].name
    BY <1>10, <2>1, FrameValues
  <2>3. ~Reserved(Fields[id][k])
    BY <2>2 DEF Reserved
  <2>4. Tabulated(id, Fields[id])
    BY <1>10, Tables
  <2> QED BY <2>2, <2>3, <2>4 DEF Tabulated
<1> QED BY <1>6, <1>7, <1>8, <1>9, <1>10

(* Two elements of a point that have one name are one: the name says which *)
(* ID and which field, and the record tells the ID once.                   *)
LEMMA SameName ==
  ASSUME NEW p, IsAVLData(p), TellsOnce(p),
         NEW i \in DOMAIN SentElements(p), NEW j \in DOMAIN SentElements(p),
         SentElements(p)[i].name = SentElements(p)[j].name,
         SentElements(p)[i].name.text # "Reserve"
  PROVE  SentElements(p)[i] = SentElements(p)[j]
<1> DEFINE e == SentElements(p)[i]
           f == SentElements(p)[j]
<1>0. DecodedFrom(p, e) /\ DecodedFrom(p, f)
  BY ElementsFrom
<1> HIDE DEF e, f
<1>1. PICK s \in 1..4 : \E v \in Holding(p, s) :
        \E k \in DOMAIN Decode(s, v.id, v.stream) : e = Decode(s, v.id, v.stream)[k]
  BY <1>0, Zenon DEF DecodedFrom
<1>2. PICK v \in Holding(p, s) :
        \E k \in DOMAIN Decode(s, v.id, v.stream) : e = Decode(s, v.id, v.stream)[k]
  BY <1>1, Zenon
<1>3. PICK k \in DOMAIN Decode(s, v.id, v.stream) : e = Decode(s, v.id, v.stream)[k]
  BY <1>2, Zenon
<1>4. PICK t \in 1..4 : \E w \in Holding(p, t) :
        \E m \in DOMAIN Decode(t, w.id, w.stream) : f = Decode(t, w.id, w.stream)[m]
  BY <1>0, Zenon DEF DecodedFrom
<1>5. PICK w \in Holding(p, t) :
        \E m \in DOMAIN Decode(t, w.id, w.stream) : f = Decode(t, w.id, w.stream)[m]
  BY <1>4, Zenon
<1>6. PICK m \in DOMAIN Decode(t, w.id, w.stream) : f = Decode(t, w.id, w.stream)[m]
  BY <1>5, Zenon
<1>7. /\ v \in ToSet(p.vals) /\ Len(v.stream) = Streams[s] /\ v.id \in Nat
      /\ w \in ToSet(p.vals) /\ Len(w.stream) = Streams[t] /\ w.id \in Nat
  <2>1. p.vals \in Seq(Vals)
    BY AVLDataTypes
  <2>2. \A x \in ToSet(p.vals) : x \in Vals
    BY <2>1 DEF ToSet
  <2>3. \A x \in Vals : x.id \in Nat
    BY DEF Vals
  <2> QED BY <2>2, <2>3 DEF Holding
<1>8. e.name = f.name /\ e.name.text # "Reserve"
  BY DEF e, f
<1>9. Owner(e.name) = <<v.id, k>>
  BY <1>3, <1>7, <1>8, DecodedOwner
<1>10. Owner(f.name) = <<w.id, m>>
  BY <1>6, <1>7, <1>8, DecodedOwner
<1>11. v.id = w.id /\ k = m
  <2>1. <<v.id, k>> = <<w.id, m>>
    BY <1>8, <1>9, <1>10
  <2> QED BY <2>1
<1>12. v = w
  BY <1>7, <1>11 DEF TellsOnce
<1>13. s = t
  <2>1. \A x, y \in 1..4 : Streams[x] = Streams[y] => x = y
    BY DEF Streams
  <2> QED BY <1>7, <1>12, <2>1
<1> QED BY <1>3, <1>6, <1>11, <1>12, <1>13 DEF e, f

(* The map keeps the last value of a name: one there always is.            *)
LEMMA LastOfName ==
  ASSUME NEW es, NEW n \in Nat, DOMAIN es = 1..n, NEW k \in 1..n
  PROVE  \E i \in 1..n : /\ es[i].name = es[k].name
                         /\ ElementMap(es)[es[k].name] = es[i].value
<1> DEFINE name == es[k].name
           Named == {i \in 1..n : es[i].name = name}
           last == CHOOSE i \in DOMAIN es :
                     es[i].name = name /\ \A j \in DOMAIN es : es[j].name = name => j <= i
           T == {n - i : i \in Named}
<1>1. T \in SUBSET Nat /\ T # {}
  <2>1. \A i \in 1..n : n - i \in Nat
    OBVIOUS
  <2>2. k \in Named
    OBVIOUS
  <2> QED BY <2>1, <2>2
<1>2. PICK x \in T : \A y \in T : x <= y
  BY <1>1, Least
<1>3. PICK i \in Named : x = n - i
  BY <1>2
<1>4. \A j \in 1..n : es[j].name = name => j <= i
  <2> SUFFICES ASSUME NEW j \in 1..n, es[j].name = name PROVE j <= i
    OBVIOUS
  <2>1. n - j \in T
    OBVIOUS
  <2>2. n - i <= n - j /\ i \in 1..n
    BY <1>2, <1>3, <2>1
  <2> QED BY <2>2
<1>5. last \in 1..n /\ es[last].name = name
  <2>1. i \in DOMAIN es /\ es[i].name = name /\ \A j \in DOMAIN es : es[j].name = name => j <= i
    BY <1>3, <1>4
  <2> HIDE DEF name
  <2>2. last \in DOMAIN es /\ es[last].name = name
    BY <2>1
  <2> QED BY <2>2
<1>6. name \in {es[j].name : j \in DOMAIN es}
  OBVIOUS
<1>7. ElementMap(es)[name] = es[last].value
  <2> HIDE DEF name
  <2> QED BY <1>6, Zenon DEF ElementMap
<1> QED BY <1>5, <1>7

(* Nothing that the parser decoded is lost when the elements of a point    *)
(* become the map of its row (save_points.go 60-70), the reserved fields   *)
(* apart: no two elements of a record have one name, since a name stands   *)
(* for one field of one ID and a record tells an ID once.                  *)
THEOREM RowsKeep == Spec => []RowsKeepElements
<1>1. Course => RowsKeepElements
  <2> SUFFICES ASSUME Course, Accepted, NEW i \in DOMAIN Sent, TellsOnce(Sent[i]),
                      NEW k \in DOMAIN points[i].elements,
                      points[i].elements[k].name.text # "Reserve"
               PROVE  ElementMap(points[i].elements)[points[i].elements[k].name]
                        = points[i].elements[k].value
    BY DEF RowsKeepElements
  <2> DEFINE p == Sent[i]
             es == SentElements(p)
             n == Len(es)
  <2>1. /\ Packet \in Packets /\ Sent = Packet.points /\ i \in 1..Len(Packet.points)
        /\ points[i] = PointOf(p)
    BY AcceptedWhole DEF Sent, Packet
  <2>2. IsAVLData(p) /\ TellsOnce(p)
    BY <2>1, PacketsHaveRecords
  <2>3. points[i].elements = es
    BY <2>1 DEF PointOf
  <2> HIDE DEF p
  <2>4. es \in Seq(Parsed(p))
    BY <2>2, KnownGrows
  <2>5. n \in Nat /\ DOMAIN es = 1..n
    <3> HIDE DEF es
    <3> QED BY <2>4
  <2>6. k \in 1..n /\ es[k].name.text # "Reserve"
    BY <2>3, <2>5
  <2>7. PICK j \in 1..n : es[j].name = es[k].name /\ ElementMap(es)[es[k].name] = es[j].value
    <3> HIDE DEF es, n
    <3> QED BY <2>5, <2>6, LastOfName
  <2>8. es[j] = es[k]
    BY <2>2, <2>5, <2>6, <2>7, SameName
  <2> QED BY <2>3, <2>7, <2>8
<1> QED BY <1>1, CourseInvariant, PTL

(* The exceptions, each alone.                                             *)

(* A read of an IMEI message never reaches the readers that panic.         *)
IMEIKept == message.kind = "imei" => at \in {"imei", "accepted", "refused"}

(* No step of the parser takes an IMEI message anywhere else.              *)
LEMMA IMEIStep ==
  ASSUME ZoneInfo, Course, IMEIKept, [Next]_vars
  PROVE  IMEIKept'
<1>1. CASE DecodeIMEI
  BY <1>1 DEF DecodeIMEI, IMEIKept, inputVars
<1>2. ASSUME at \notin {"imei", "accepted", "refused"}, message' = message PROVE IMEIKept'
  BY <1>2 DEF IMEIKept
<1>3. CASE ParseHeader \/ ReadPoint \/ EndRecords
  BY <1>2, <1>3, Zenon DEF ParseHeader, ReadPoint, EndRecords, inputVars
<1>4. CASE ReadStageCount \/ ReadElement \/ EndStage
  BY <1>2, <1>4, Zenon DEF ReadStageCount, ReadElement, EndStage, inputVars
<1>5. CASE ReadPanics
  <2>1. message.kind = "packet"
    BY <1>5, PanicOverruns
  <2>2. message' = message
    BY <1>5, Zenon DEF ReadPanics, inputVars
  <2> QED BY <2>1, <2>2 DEF IMEIKept
<1>6. CASE Returned \/ UNCHANGED vars
  BY <1>6 DEF Returned, IMEIKept, vars, inputVars
<1> QED BY <1>1, <1>3, <1>4, <1>5, <1>6 DEF Next

(* With the database of time zones, the parser panics over records that do *)
(* not fit in the buffer, and over no others, wherever the read ends: the  *)
(* zone that is not there is the one other cause (parser.go 77-79).        *)
THEOREM ZoneSuffices ==
  ASSUME ZoneInfo
  PROVE  Spec => []GoodRecordsAreParsed
<1>1. Init => IMEIKept
  BY DEF Init, IMEIKept
<1>2. Course /\ IMEIKept => GoodRecordsAreParsed
  <2> SUFFICES ASSUME Course, IMEIKept, at = "panicked" PROVE message.packet.form = "oversize"
    BY DEF GoodRecordsAreParsed
  <2>1. message.kind # "imei"
    BY DEF IMEIKept
  <2>2. Overruns(Got)
    BY <2>1, CourseClassifies DEF CutsClassified
  <2> QED BY <2>2 DEF Overruns, Got
<1> QED BY <1>1, <1>2, IMEIStep, CourseInvariant, PTL DEF Spec

(* The second of a date is that of a time which counts seconds, up to ten  *)
(* digits of them, or else the whole second of its milliseconds.           *)
SecondIsOf(date, time) ==
  LET second == Value(date)
      told == Value(Words(time))
  IN IF told <= 9999999999 THEN second = told
     ELSE 1000 * second <= told /\ told < 1000 * second + 1000

(* What encoder and parser leave of a point: a coordinate to a unit of the *)
(* wire, the whole second of a time that nanoseconds can count, an         *)
(* altitude below the sea 65536 too high, and the other fields.            *)
PointsToTheUnit ==
  Accepted => \A i \in DOMAIN Sent :
    LET got == points[i].gps
        sent == Sent[i]
    IN /\ Datable(sent) => SecondIsOf(got.date, sent.time)
       /\ Near(got.longitude, sent.longitude) /\ Near(got.latitude, sent.latitude)
       /\ got.altitude = IF sent.altitude >= 0 THEN sent.altitude ELSE sent.altitude + 65536
       /\ got.priority = sent.priority /\ got.angle = sent.angle
       /\ got.satellites = sent.satellites /\ got.speed = sent.speed
       /\ got.event = sent.event

(* The date of a record, in numbers.                                       *)
LEMMA DateToTheSecond ==
  ASSUME NEW p, IsAVLData(p), Datable(p)
  PROVE  SecondIsOf(convertToDate(p.time), p.time)
<1> DEFINE e == Words(p.time)
           date == convertToDate(p.time)
<1>1. e \in Quads
  BY AVLDataTypes, TimeWords
<1>2. TenDigitsOrLess(p) <=> Value(e) <= 9999999999
  <2>1. TenDigitsOrLess(p) <=> AtMost(e, TenDigits)
    BY DEF TenDigitsOrLess
  <2> HIDE DEF e
  <2> QED BY <1>1, <2>1, Bounds, AtMostIs
<1>3. date = MeasuredSecond(p)
  BY DateMeasured
<1>4. CASE TenDigitsOrLess(p)
  <2>1. date = e
    BY <1>3, <1>4 DEF MeasuredSecond
  <2> QED BY <1>2, <1>4, <2>1 DEF SecondIsOf
<1>5. CASE ~TenDigitsOrLess(p)
  <2>1. date = WholeThousands(e)
    BY <1>3, <1>5 DEF MeasuredSecond
  <2> HIDE DEF e
  <2>2. 1000 * Value(date) <= Value(e) /\ Value(e) < 1000 * Value(date) + 1000
    BY <1>1, <2>1, WholeThousandsIs
  <2> HIDE DEF date
  <2>3. ~(Value(e) <= 9999999999)
    BY <1>2, <1>5
  <2>4. SecondIsOf(date, p.time)
    BY <2>2, <2>3 DEF SecondIsOf, e
  <2> QED BY <2>4 DEF date
<1> QED BY <1>4, <1>5

(* So a packet comes back from encoder and parser to the unit and to the   *)
(* second, of any number of records and elements, altitudes at or above    *)
(* the sea as they were: no other field can fail encoder_test.go 148.      *)
THEOREM PointsComeBack == Spec => []PointsToTheUnit
<1>1. Course => PointsToTheUnit
  <2> SUFFICES ASSUME Course, Accepted, NEW i \in DOMAIN Sent
               PROVE  LET got == points[i].gps
                          sent == Sent[i]
                      IN /\ Datable(sent) => SecondIsOf(got.date, sent.time)
                         /\ Near(got.longitude, sent.longitude)
                         /\ Near(got.latitude, sent.latitude)
                         /\ got.altitude = IF sent.altitude >= 0 THEN sent.altitude
                                           ELSE sent.altitude + 65536
                         /\ got.priority = sent.priority /\ got.angle = sent.angle
                         /\ got.satellites = sent.satellites /\ got.speed = sent.speed
                         /\ got.event = sent.event
    BY DEF PointsToTheUnit
  <2> DEFINE p == Sent[i]
             got == points[i].gps
  <2>1. Packet \in Packets /\ Sent = Packet.points /\ i \in 1..Len(Packet.points)
        /\ points[i] = PointOf(p)
    BY AcceptedWhole DEF Sent, Packet
  <2>2. IsAVLData(p)
    BY <2>1, PacketsHaveRecords
  <2> HIDE DEF p
  <2>3. got = [SentFields(p) EXCEPT !.altitude = @ % 65536]
    BY <2>1 DEF PointOf, FieldsOf
  <2> HIDE DEF got
  <2>4. /\ got.date = convertToDate(p.time)
        /\ got.longitude = Truncated(p.longitude) /\ got.latitude = Truncated(p.latitude)
        /\ got.altitude = p.altitude % 65536 /\ got.angle = p.angle /\ got.speed = p.speed
        /\ got.satellites = p.satellites /\ got.priority = p.priority /\ got.event = p.event
    BY <2>3 DEF SentFields
  <2>5. Datable(p) => SecondIsOf(got.date, p.time)
    BY <2>2, <2>4, DateToTheSecond
  <2>6. Near(got.longitude, p.longitude) /\ Near(got.latitude, p.latitude)
    BY <2>4, TruncatedNear
  <2>7. got.altitude = IF p.altitude >= 0 THEN p.altitude ELSE p.altitude + 65536
    <3>1. \A x \in Int16s : x % 65536 = IF x >= 0 THEN x ELSE x + 65536
      BY Z3 DEF Int16s
    <3> QED BY <2>2, <2>4, <3>1, AVLDataTypes
  <2> QED BY <2>4, <2>5, <2>6, <2>7 DEF p, got
<1> QED BY <1>1, CourseInvariant, PTL

-----------------------------------------------------------------------------

(* The shift of a bit field takes back the place of its mask...            *)
LEMMA ShiftedBack == \A y \in Int, lo \in 0..7 : (y * Pow2[lo]) \div Pow2[lo] = y
<1> SUFFICES ASSUME NEW y \in Int, NEW lo \in 0..7 PROVE (y * Pow2[lo]) \div Pow2[lo] = y
  OBVIOUS
<1>1. /\ (y * 1) \div 1 = y /\ (y * 2) \div 2 = y /\ (y * 4) \div 4 = y /\ (y * 8) \div 8 = y
      /\ (y * 16) \div 16 = y /\ (y * 32) \div 32 = y /\ (y * 64) \div 64 = y
      /\ (y * 128) \div 128 = y
  BY Z3
<1>2. lo \in {0, 1, 2, 3, 4, 5, 6, 7}
  OBVIOUS
<1> QED BY <1>1, <1>2, Powers

(* The value of a field is the number that these bits of a byte spell.     *)
Spelled(field, stream, byte, lo, width) ==
  FieldValue(field, stream) = Hundred * ((stream[8 - byte] \div Pow2[lo]) % Pow2[width])

(* The bits of a byte that a mask leaves, as far down as they are shifted. *)
ShiftedDown(stream, byte, lo, width, shift) ==
  (((stream[8 - byte] \div Pow2[lo]) % Pow2[width]) * Pow2[lo]) \div Pow2[shift]

(* The value of a field is this number, in hundredths.                     *)
Worth(field, stream, z) == FieldValue(field, stream) = Hundred * z

(* A bit field is worth the bits of its mask ...                           *)
LEMMA BitFieldIs ==
  ASSUME NEW text, text # "VehicleSpeed", NEW byte \in 0..7, NEW lo \in 0..7,
         NEW width \in 1..8, lo + width <= 8, NEW shift \in 0..7,
         NEW stream, stream[8 - byte] \in Int
  PROVE  Worth(Shifted(text, byte, lo, width, shift), stream,
               ShiftedDown(stream, byte, lo, width, shift))
<1> DEFINE f == Shifted(text, byte, lo, width, shift)
           x == stream[8 - byte]
           y == (x \div Pow2[lo]) % Pow2[width]
           z == (y * Pow2[lo]) \div Pow2[shift]
<1>1. /\ f.from = <<byte>> /\ f.lo = lo /\ f.width = width /\ f.shift = shift
      /\ f.scale = One /\ f.offset = 0 /\ f.name = Text(text)
  BY DEF Shifted, Unit, Scaled
<1> HIDE DEF f
<1>2. f.from[1] = byte /\ f.width # 0
  BY <1>1
<1>3. z \in Int
  <2>1. \A k \in 0..8 : Pow2[k] \in Int /\ Pow2[k] > 0
    BY DEF Pow2
  <2> HIDE DEF x
  <2>2. y \in Int
    BY <2>1 DEF x
  <2> HIDE DEF y
  <2> QED BY <2>1, <2>2
<1>4. Raw(f, stream) = (((x % Pow2[lo + width]) \div Pow2[lo]) * Pow2[lo]) \div Pow2[shift]
  BY <1>1, <1>2, Zenon DEF Raw
<1>5. Raw(f, stream) = z
  <2>1. (x % Pow2[lo + width]) \div Pow2[lo] = y
    BY MaskShift
  <2> HIDE DEF x, y
  <2> QED BY <1>4, <2>1, Zenon
<1> HIDE DEF x, y, z
<1>6. Rounded(f, stream) = (2 * z * One[1] + One[2]) \div (2 * One[2]) + 0 * Hundred
  BY <1>1, <1>5, Zenon DEF Rounded
<1>7. Rounded(f, stream) = Hundred * z
  <2>1. One[1] = 100 /\ One[2] = 1 /\ Hundred = 100
    BY DEF One, Hundred
  <2>2. (2 * z * 100 + 1) \div 2 = 100 * z
    BY <1>3
  <2> QED BY <1>3, <1>6, <2>1, <2>2
<1>8. f.name # Text("VehicleSpeed")
  BY <1>1, Texts
<1>9. FieldValue(f, stream) = Hundred * z
  BY <1>7, <1>8, Zenon DEF FieldValue
<1> QED BY <1>9, Zenon DEF Worth, f, x, y, z, ShiftedDown

(* ... and is the number that they spell when that is all the way.         *)
LEMMA BitsSpell ==
  ASSUME NEW text, text # "VehicleSpeed", NEW byte \in 0..7, NEW lo \in 0..7,
         NEW width \in 1..8, lo + width <= 8,
         NEW stream, stream[8 - byte] \in Int
  PROVE  Spelled(Bits(text, byte, lo, width), stream, byte, lo, width)
<1> DEFINE y == (stream[8 - byte] \div Pow2[lo]) % Pow2[width]
<1>1. y \in Int
  <2>1. \A k \in 0..8 : Pow2[k] \in Int /\ Pow2[k] > 0
    BY DEF Pow2
  <2> QED BY <2>1
<1>2. y = (y * Pow2[lo]) \div Pow2[lo]
  <2> HIDE DEF y
  <2> QED BY <1>1, ShiftedBack, Zenon
<1>3. Worth(Shifted(text, byte, lo, width, lo), stream, ShiftedDown(stream, byte, lo, width, lo))
  BY BitFieldIs
<1>4. FieldValue(Shifted(text, byte, lo, width, lo), stream) = Hundred * y
  <2>1. ShiftedDown(stream, byte, lo, width, lo) = (y * Pow2[lo]) \div Pow2[lo]
    BY DEF ShiftedDown
  <2> HIDE DEF y
  <2> QED BY <1>2, <1>3, <2>1, Zenon DEF Worth
<1> QED BY <1>4, Zenon DEF Spelled, Bits

(* Which bits the comments name.                                           *)
LEMMA AnnotatedAre ==
  /\ DOMAIN Annotated = {"ConditionImmobilizer", "BrakePedalStatus", "ClutchPedalStatus",
                         "GearEngagedStatus", "TCU_GearShiftPosition"}
  /\ Annotated["ConditionImmobilizer"] = <<0, 0, 3>>
  /\ Annotated["BrakePedalStatus"] = <<0, 3, 2>>
  /\ Annotated["ClutchPedalStatus"] = <<0, 5, 1>>
  /\ Annotated["GearEngagedStatus"] = <<0, 6, 2>>
  /\ Annotated["TCU_GearShiftPosition"] = <<0, 0, 3>>
BY DEF Annotated

(* The names of one, two and four bytes, and the numbers, are none of      *)
(* these.                                                                  *)
LEMMA OnlyFrames ==
  ASSUME NEW s \in 1..4, NEW id \in Nat, id = 146, NEW bytes,
         NEW k \in DOMAIN Decode(s, id, bytes),
         Decode(s, id, bytes)[k].name # Itoa(id)
  PROVE  s = 4 /\ Decode(s, id, bytes) = parseNEightValue(bytes, id)
<1>1. OneByteName(id) = Itoa(id) /\ TwoByteName(id) = Itoa(id)
  <2>1. OneByteName(id) = Itoa(id)
    BY DEF OneByteName
  <2>2. TwoByteName(id) = Itoa(id)
    BY DEF TwoByteName
  <2> QED BY <2>1, <2>2
<1>2. \A x : DOMAIN <<x>> = {1} /\ <<x>>[1] = x
  OBVIOUS
<1>3. \A name, value : Plain(name, value).name = name
  BY DEF Plain
<1>4. CASE s = 1
  <2>1. Decode(s, id, bytes) = <<Plain(OneByteName(id), Number(bytes) * Hundred)>>
    BY <1>4 DEF Decode, parseNOneValue
  <2> QED BY <1>1, <1>2, <1>3, <2>1
<1>5. CASE s = 2
  <2>1. Decode(s, id, bytes) = <<Plain(TwoByteName(id), Number(bytes) * Hundred)>>
    BY <1>5 DEF Decode, parseNTowValue
  <2> QED BY <1>1, <1>2, <1>3, <2>1
<1>6. CASE s = 3
  <2>1. Decode(s, id, bytes) = <<Plain(Itoa(id), Number(bytes) * Hundred)>>
    BY <1>6 DEF Decode, parseNFourValue
  <2> QED BY <1>1, <1>2, <1>3, <2>1
<1>7. CASE s = 4
  BY <1>7 DEF Decode
<1> QED BY <1>4, <1>5, <1>6, <1>7

(* The five fields of element 146 with a comment on their bits: three mask *)
(* and shift what it says, the gear that is engaged is shifted one bit     *)
(* less than its mask, and the position of the gear shift has a mask of    *)
(* four bits (parser.go 336-358 and 471).                                  *)
LEMMA AnnotatedValues ==
  ASSUME NEW stream \in Seq(Bytes), Len(stream) = 8
  PROVE  /\ Spelled(Fields[146][1], stream, 0, 0, 3)
         /\ Spelled(Fields[146][2], stream, 0, 3, 2)
         /\ Spelled(Fields[146][3], stream, 0, 5, 1)
         /\ FieldValue(Fields[146][4], stream)
              = 2 * (Hundred * ((stream[8 - 0] \div Pow2[6]) % Pow2[2]))
         /\ Spelled(Fields[146][18], stream, 0, 0, 4)
<1>1. stream[8 - 0] \in Int
  <2> DEFINE n == 8 - 0
  <2>1. n \in 1..Len(stream)
    OBVIOUS
  <2> HIDE DEF n
  <2>2. stream[n] \in Bytes
    BY <2>1, ElementOfSeq
  <2> QED BY <2>2, Octets DEF n
<1>2. /\ Fields[146][1] = Bits("ConditionImmobilizer", 0, 0, 3)
      /\ Fields[146][2] = Bits("BrakePedalStatus", 0, 3, 2)
      /\ Fields[146][3] = Bits("ClutchPedalStatus", 0, 5, 1)
  BY TableOf DEF Fields146, getBit
<1>3. Fields[146][4] = Shifted("GearEngagedStatus", 0, 6, 2, 5)
  BY TableOf DEF Fields146
<1>4. Fields[146][18] = Bits("TCU_GearShiftPosition", 0, 0, 4)
  BY TableOf DEF Fields146
<1>5. Spelled(Bits("ConditionImmobilizer", 0, 0, 3), stream, 0, 0, 3)
  <2>1. "ConditionImmobilizer" # "VehicleSpeed" /\ 0 \in 0..7 /\ 3 \in 1..8 /\ 0 + 3 <= 8
    OBVIOUS
  <2> QED BY <1>1, <2>1, BitsSpell
<1>6. Spelled(Bits("BrakePedalStatus", 0, 3, 2), stream, 0, 3, 2)
  <2>1. /\ "BrakePedalStatus" # "VehicleSpeed" /\ 0 \in 0..7 /\ 3 \in 0..7 /\ 2 \in 1..8
        /\ 3 + 2 <= 8
    OBVIOUS
  <2> QED BY <1>1, <2>1, BitsSpell
<1>7. Spelled(Bits("ClutchPedalStatus", 0, 5, 1), stream, 0, 5, 1)
  <2>1. /\ "ClutchPedalStatus" # "VehicleSpeed" /\ 0 \in 0..7 /\ 5 \in 0..7 /\ 1 \in 1..8
        /\ 5 + 1 <= 8
    OBVIOUS
  <2> QED BY <1>1, <2>1, BitsSpell
<1>8. FieldValue(Shifted("GearEngagedStatus", 0, 6, 2, 5), stream)
        = 2 * (Hundred * ((stream[8 - 0] \div Pow2[6]) % Pow2[2]))
  <2> DEFINE y == (stream[8 - 0] \div Pow2[6]) % Pow2[2]
             z == (y * Pow2[6]) \div Pow2[5]
  <2>1. Pow2[6] = 64 /\ Pow2[2] = 4 /\ Pow2[5] = 32
    BY DEF Pow2
  <2>2. y \in Int
    BY <1>1, <2>1
  <2> HIDE DEF y
  <2>3. z = 2 * y /\ z \in Int
    BY <2>1, <2>2
  <2>4. /\ "GearEngagedStatus" # "VehicleSpeed" /\ 0 \in 0..7 /\ 6 \in 0..7 /\ 2 \in 1..8
        /\ 6 + 2 <= 8 /\ 5 \in 0..7
    OBVIOUS
  <2>5. Worth(Shifted("GearEngagedStatus", 0, 6, 2, 5), stream, ShiftedDown(stream, 0, 6, 2, 5))
    BY <1>1, <2>4, BitFieldIs
  <2>6. FieldValue(Shifted("GearEngagedStatus", 0, 6, 2, 5), stream) = Hundred * z
    BY <2>5 DEF y, ShiftedDown, Worth
  <2> HIDE DEF z
  <2>7. Hundred * z = 2 * (Hundred * y)
    BY <2>2, <2>3 DEF Hundred
  <2> QED BY <2>6, <2>7 DEF y
<1>9. Spelled(Bits("TCU_GearShiftPosition", 0, 0, 4), stream, 0, 0, 4)
  <2>1. "TCU_GearShiftPosition" # "VehicleSpeed" /\ 0 \in 0..7 /\ 4 \in 1..8 /\ 0 + 4 <= 8
    OBVIOUS
  <2> QED BY <1>1, <2>1, BitsSpell
<1> QED BY <1>2, <1>3, <1>4, <1>5, <1>6, <1>7, <1>8, <1>9, Zenon

(* The number that the bits named by a comment spell, and how an element   *)
(* of that name relates to it: the gear that is engaged is twice the       *)
(* number, the position of the gear shift has one bit more on top of it,   *)
(* and the others are the number.                                          *)
Annotation(text, stream) ==
  LET a == Annotated[text]
  IN Hundred * ((stream[8 - a[1]] \div Pow2[a[2]]) % Pow2[a[3]])
ButTwoAnnotated(e, stream) ==
  LET annotated == Annotation(e.name.text, stream)
  IN CASE e.name.text = "GearEngagedStatus" -> e.value = 2 * annotated
       [] e.name.text = "TCU_GearShiftPosition" -> e.value \in {annotated, annotated + 8 * Hundred}
       [] OTHER -> e.value = annotated

(* This is FieldsAsAnnotated but for these two, in a record that tells     *)
(* element 146 once.                                                       *)
AnnotatedButTwo ==
  Accepted =>
    \A i \in DOMAIN Sent : TellsOnce(Sent[i]) =>
      \A v \in ToSet(Sent[i].vals) : v.id = 146 =>
        \A e \in ToSet(points[i].elements) :
          e.name.text \in DOMAIN Annotated => ButTwoAnnotated(e, v.stream)

(* An element of one of these names comes from that frame.                 *)
LEMMA AnnotatedElement ==
  ASSUME NEW p, IsAVLData(p), TellsOnce(p), NEW u \in ToSet(p.vals), u.id = 146,
         NEW j \in DOMAIN SentElements(p),
         SentElements(p)[j].name.text \in DOMAIN Annotated
  PROVE  ButTwoAnnotated(SentElements(p)[j], u.stream)
<1> DEFINE e == SentElements(p)[j]
           text == e.name.text
<1>0. DecodedFrom(p, e)
  BY ElementsFrom
<1> HIDE DEF e
<1>1. PICK s \in 1..4 : \E w \in Holding(p, s) :
        \E k \in DOMAIN Decode(s, w.id, w.stream) : e = Decode(s, w.id, w.stream)[k]
  BY <1>0, Zenon DEF DecodedFrom
<1>2. PICK w \in Holding(p, s) :
        \E k \in DOMAIN Decode(s, w.id, w.stream) : e = Decode(s, w.id, w.stream)[k]
  BY <1>1, Zenon
<1>3. PICK k \in DOMAIN Decode(s, w.id, w.stream) : e = Decode(s, w.id, w.stream)[k]
  BY <1>2, Zenon
<1>4. w \in ToSet(p.vals) /\ Len(w.stream) = Streams[s] /\ w.id \in Nat /\ w.stream \in Seq(Bytes)
  <2>1. p.vals \in Seq(Vals)
    BY AVLDataTypes
  <2>2. \A x \in ToSet(p.vals) : x \in Vals
    BY <2>1 DEF ToSet
  <2>3. \A x \in Vals : x.id \in Nat /\ x.stream \in Seq(Bytes)
    BY DEF Vals
  <2> QED BY <2>2, <2>3 DEF Holding
<1>5. text \in {"ConditionImmobilizer", "BrakePedalStatus", "ClutchPedalStatus",
                "GearEngagedStatus", "TCU_GearShiftPosition"}
  BY AnnotatedAre DEF e
<1>6. Owner(e.name) = CASE text = "ConditionImmobilizer" -> <<146, 1>>
                        [] text = "BrakePedalStatus" -> <<146, 2>>
                        [] text = "ClutchPedalStatus" -> <<146, 3>>
                        [] text = "GearEngagedStatus" -> <<146, 4>>
                        [] text = "TCU_GearShiftPosition" -> <<146, 18>>
  <2>1. CASE text = "ConditionImmobilizer"
    BY <2>1 DEF Owner
  <2>2. CASE text = "BrakePedalStatus"
    BY <2>2 DEF Owner
  <2>3. CASE text = "ClutchPedalStatus"
    BY <2>3 DEF Owner
  <2>4. CASE text = "GearEngagedStatus"
    BY <2>4 DEF Owner
  <2>5. CASE text = "TCU_GearShiftPosition"
    BY <2>5 DEF Owner
  <2> QED BY <1>5, <2>1, <2>2, <2>3, <2>4, <2>5
<1>7. Owner(e.name) = <<w.id, k>>
  BY <1>3, <1>4, <1>5, DecodedOwner
<1>8. w.id = 146 /\ k = CASE text = "ConditionImmobilizer" -> 1
                          [] text = "BrakePedalStatus" -> 2
                          [] text = "ClutchPedalStatus" -> 3
                          [] text = "GearEngagedStatus" -> 4
                          [] text = "TCU_GearShiftPosition" -> 18
  BY <1>5, <1>6, <1>7
<1>9. w = u
  BY <1>4, <1>8 DEF TellsOnce
<1>10. s = 4 /\ Decode(s, w.id, w.stream) = parseNEightValue(w.stream, w.id)
  <2>1. e.name # Itoa(w.id)
    <3>1. \A n : Itoa(n).text = ""
      BY DEF Itoa, Numbered
    <3> QED BY <1>5, <3>1
  <2>2. Decode(s, w.id, w.stream)[k].name # Itoa(w.id)
    BY <1>3, <2>1, Zenon
  <2>3. w.id = 146
    BY <1>8
  <2> QED BY <1>4, <2>2, <2>3, OnlyFrames
<1>11. e.value = FieldValue(Fields[146][k], u.stream)
  <2>1. w.id \in DOMAIN Fields
    BY <1>8, TableOf
  <2>2. k \in DOMAIN Fields[w.id] /\ e.value = FieldValue(Fields[w.id][k], w.stream)
    <3>1. /\ DOMAIN parseNEightValue(w.stream, w.id) = DOMAIN Fields[w.id]
          /\ \A m \in DOMAIN Fields[w.id] :
               parseNEightValue(w.stream, w.id)[m].value = FieldValue(Fields[w.id][m], w.stream)
      BY <2>1, FrameValues
    <3>2. k \in DOMAIN parseNEightValue(w.stream, w.id) /\ e = parseNEightValue(w.stream, w.id)[k]
      BY <1>3, <1>10, Zenon
    <3> QED BY <3>1, <3>2, Zenon
  <2> QED BY <1>8, <1>9, <2>2
<1>12. Len(u.stream) = 8 /\ u.stream \in Seq(Bytes)
  BY <1>4, <1>9, <1>10 DEF Streams
<1>13. ASSUME NEW field, NEW byte, NEW lo, NEW width,
              Spelled(field, u.stream, byte, lo, width), e.value = FieldValue(field, u.stream),
              Annotated[text] = <<byte, lo, width>>,
              text # "GearEngagedStatus", text # "TCU_GearShiftPosition"
       PROVE  ButTwoAnnotated(e, u.stream)
  BY <1>13 DEF Spelled, ButTwoAnnotated, Annotation
<1> HIDE DEF text
<1>14. ASSUME text = "ConditionImmobilizer"
       PROVE  ButTwoAnnotated(e, u.stream)
  <2>1. k = 1
    BY <1>8, <1>14
  <2>2. Annotated[text] = <<0, 0, 3>>
    BY <1>14, AnnotatedAre
  <2>3. Spelled(Fields[146][1], u.stream, 0, 0, 3)
    BY <1>12, AnnotatedValues
  <2>4. e.value = FieldValue(Fields[146][1], u.stream)
    BY <1>11, <2>1
  <2> QED BY <1>13, <1>14, <2>2, <2>3, <2>4
<1>15. ASSUME text = "BrakePedalStatus"
       PROVE  ButTwoAnnotated(e, u.stream)
  <2>1. k = 2
    BY <1>8, <1>15
  <2>2. Annotated[text] = <<0, 3, 2>>
    BY <1>15, AnnotatedAre
  <2>3. Spelled(Fields[146][2], u.stream, 0, 3, 2)
    BY <1>12, AnnotatedValues
  <2>4. e.value = FieldValue(Fields[146][2], u.stream)
    BY <1>11, <2>1
  <2> QED BY <1>13, <1>15, <2>2, <2>3, <2>4
<1>16. ASSUME text = "ClutchPedalStatus"
       PROVE  ButTwoAnnotated(e, u.stream)
  <2>1. k = 3
    BY <1>8, <1>16
  <2>2. Annotated[text] = <<0, 5, 1>>
    BY <1>16, AnnotatedAre
  <2>3. Spelled(Fields[146][3], u.stream, 0, 5, 1)
    BY <1>12, AnnotatedValues
  <2>4. e.value = FieldValue(Fields[146][3], u.stream)
    BY <1>11, <2>1
  <2> QED BY <1>13, <1>16, <2>2, <2>3, <2>4
<1>17. ASSUME text = "GearEngagedStatus"
       PROVE  ButTwoAnnotated(e, u.stream)
  <2>1. k = 4
    BY <1>8, <1>17
  <2>2. Annotated[text] = <<0, 6, 2>>
    BY <1>17, AnnotatedAre
  <2>3. e.value = FieldValue(Fields[146][4], u.stream)
    BY <1>11, <2>1
  <2>4. Annotation(text, u.stream) = Hundred * ((u.stream[8 - 0] \div Pow2[6]) % Pow2[2])
    BY <2>2 DEF Annotation
  <2>5. e.value = 2 * Annotation(text, u.stream)
    BY <1>12, <2>3, <2>4, AnnotatedValues
  <2> QED BY <1>17, <2>5 DEF ButTwoAnnotated, text
<1>18. ASSUME text = "TCU_GearShiftPosition"
       PROVE  ButTwoAnnotated(e, u.stream)
  <2>1. k = 18
    BY <1>8, <1>18
  <2>2. Annotated[text] = <<0, 0, 3>>
    BY <1>18, AnnotatedAre
  <2>3. e.value = FieldValue(Fields[146][18], u.stream)
    BY <1>11, <2>1
  <2> DEFINE x == u.stream[8 - 0]
  <2>4. Annotation(text, u.stream) = Hundred * ((x \div Pow2[0]) % Pow2[3])
    BY <2>2 DEF Annotation
  <2>5. e.value = Hundred * ((x \div Pow2[0]) % Pow2[4])
    <3>1. Spelled(Fields[146][18], u.stream, 0, 0, 4)
      BY <1>12, AnnotatedValues
    <3> QED BY <2>3, <3>1 DEF Spelled
  <2>6. x \in Int
    <3> DEFINE n == 8 - 0
    <3>1. n \in 1..Len(u.stream)
      BY <1>12
    <3> HIDE DEF n
    <3>2. u.stream[n] \in Bytes
      BY <1>12, <3>1, ElementOfSeq
    <3> QED BY <3>2, Octets DEF n
  <2> HIDE DEF x
  <2>7. Pow2[0] = 1 /\ Pow2[3] = 8 /\ Pow2[4] = 16 /\ Hundred = 100
    BY DEF Pow2, Hundred
  <2>8. Annotation(text, u.stream) = 100 * (x % 8) /\ e.value = 100 * (x % 16)
    BY <2>4, <2>5, <2>6, <2>7
  <2>9. x % 16 = x % 8 \/ x % 16 = (x % 8) + 8
    BY <2>6
  <2>10. e.value \in {Annotation(text, u.stream), Annotation(text, u.stream) + 8 * Hundred}
    BY <2>6, <2>7, <2>8, <2>9
  <2> QED BY <1>18, <2>10 DEF ButTwoAnnotated, text
<1>19. ButTwoAnnotated(e, u.stream)
  BY <1>5, <1>14, <1>15, <1>16, <1>17, <1>18
<1> QED BY <1>19 DEF e

(* So of the fields of element 146 whose bits a comment names, two are not *)
(* what it says of them, and in this way alone (parser.go 334-358, 471).   *)
THEOREM TwoFieldsAskew == Spec => []AnnotatedButTwo
<1>1. Course => AnnotatedButTwo
  <2> SUFFICES ASSUME Course, Accepted, NEW i \in DOMAIN Sent, TellsOnce(Sent[i]),
                      NEW v \in ToSet(Sent[i].vals), v.id = 146,
                      NEW e \in ToSet(points[i].elements),
                      e.name.text \in DOMAIN Annotated
               PROVE  ButTwoAnnotated(e, v.stream)
    BY DEF AnnotatedButTwo
  <2> DEFINE p == Sent[i]
  <2>1. Packet \in Packets /\ Sent = Packet.points /\ i \in 1..Len(Packet.points)
        /\ points[i] = PointOf(p)
    BY AcceptedWhole DEF Sent, Packet
  <2>2. IsAVLData(p) /\ TellsOnce(p)
    BY <2>1, PacketsHaveRecords
  <2>3. points[i].elements = SentElements(p)
    BY <2>1 DEF PointOf
  <2>4. PICK j \in DOMAIN SentElements(p) : e = SentElements(p)[j]
    BY <2>3 DEF ToSet
  <2>5. v \in ToSet(p.vals)
    OBVIOUS
  <2>6. SentElements(p)[j].name.text \in DOMAIN Annotated
    BY <2>4, Zenon
  <2> HIDE DEF p
  <2>7. ButTwoAnnotated(SentElements(p)[j], v.stream)
    <3>1. j \in DOMAIN SentElements(p) /\ v.id = 146
      BY <2>4
    <3> QED BY <2>2, <2>5, <2>6, <3>1, AnnotatedElement
  <2> QED BY <2>4, <2>7, Zenon
<1> QED BY <1>1, CourseInvariant, PTL
=============================================================================
