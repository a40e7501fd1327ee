------------------------------ MODULE WireProofs ------------------------------
(***************************************************************************)
(* The connection for any number of senders, any scripts of the server and *)
(* any breakdown: frames stay whole in both directions, packets are sealed *)
(* as the handshake has agreed, and the application is told what was said. *)
(* Then the conversions, for any widths and inputs: the parts and texts of *)
(* a SteamID, packets cut short, padding, and the keys of descriptions.    *)
(***************************************************************************)
EXTENDS Wire, Codecs, SequenceTheorems, WellFoundedInduction, TLAPS

-----------------------------------------------------------------------------
(* Flattening.                                                             *)

\* What holds of 0, and of n + 1 when it does of n, holds of every number.
LEMMA Counting ==
  ASSUME NEW S, 0 \in S, \A n \in Nat : n \in S => n + 1 \in S
  PROVE  \A n \in Nat : n \in S
<1> DEFINE T == {n \in Nat : n \notin S}
<1> SUFFICES ASSUME T # {} PROVE FALSE
  OBVIOUS
<1>1. IsWellFoundedOn(OpToRel(<, Nat), Nat) BY NatLessThanWellFounded
<1>2. PICK x \in T : \A y \in T : ~(<<y, x>> \in OpToRel(<, Nat))
  <2>1. T \subseteq Nat OBVIOUS
  <2> HIDE DEF T
  <2> QED BY <1>1, <2>1, WFMin
<1>3. x \in Nat /\ x # 0 /\ x - 1 \in Nat OBVIOUS
<1>4. x - 1 \in T BY <1>3
<1>5. <<x - 1, x>> \in OpToRel(<, Nat)
  <2>1. <<x - 1, x>> \in Nat \X Nat BY <1>3
  <2>2. <<x - 1, x>>[1] < <<x - 1, x>>[2] BY <1>3
  <2> QED BY <2>1, <2>2 DEF OpToRel
<1> QED BY <1>2, <1>4, <1>5

\* The partial results of FlattenSeq: F[n] is the first n of the sequences in one.
Partial(F, ss, n) == F[1] = ss[1] /\ \A i \in 2..n : F[i] = F[i - 1] \o ss[i]

\* There are partial results, up to any length.
LEMMA PartialsExist ==
  ASSUME NEW S, NEW ss \in Seq(Seq(S)), ss # <<>>
  PROVE  \E F \in [1..Len(ss) -> Seq(S)] : Partial(F, ss, Len(ss))
<1> DEFINE N == Len(ss)
           T == {m \in Nat : m < N => \E F \in [1..(m + 1) -> Seq(S)] : Partial(F, ss, m + 1)}
<1>0. N \in Nat \ {0} /\ \A i \in 1..N : ss[i] \in Seq(S) BY EmptySeq, ElementOfSeq
<1> HIDE DEF N
<1>1. 0 \in T
  <2> DEFINE F == [i \in 1..1 |-> ss[1]]
  <2>1. F \in [1..(0 + 1) -> Seq(S)] BY <1>0
  <2>2. Partial(F, ss, 0 + 1) BY DEF Partial
  <2> HIDE DEF F
  <2> QED BY <2>1, <2>2
<1>2. ASSUME NEW m \in Nat, m \in T PROVE m + 1 \in T
  <2> SUFFICES ASSUME m + 1 < N
               PROVE  \E F \in [1..(m + 1 + 1) -> Seq(S)] : Partial(F, ss, m + 1 + 1)
    OBVIOUS
  <2>1. PICK F \in [1..(m + 1) -> Seq(S)] : Partial(F, ss, m + 1) BY <1>0, <1>2
  <2> DEFINE G == [i \in 1..(m + 2) |-> IF i = m + 2 THEN F[m + 1] \o ss[i] ELSE F[i]]
  <2>2. F[m + 1] \o ss[m + 2] \in Seq(S)
    <3>1. F[m + 1] \in Seq(S) /\ ss[m + 2] \in Seq(S) BY <1>0
    <3> QED BY <3>1, ConcatProperties
  <2>3. G \in [1..(m + 1 + 1) -> Seq(S)] BY <2>2
  <2>4. G[1] = ss[1] BY <2>1 DEF Partial
  <2>5. ASSUME NEW i \in 2..(m + 1 + 1) PROVE G[i] = G[i - 1] \o ss[i]
    <3>1. CASE i = m + 2
      <4>1. i - 1 = m + 1 /\ i - 1 # m + 2 /\ i - 1 \in 1..(m + 2) BY <3>1
      <4>2. i \in 1..(m + 2) BY <3>1
      <4>3. G[i] = F[m + 1] \o ss[i] BY <3>1, <4>2, Zenon
      <4>4. G[i - 1] = F[m + 1] BY <4>1
      <4> QED BY <4>3, <4>4
    <3>2. CASE i # m + 2
      <4>1. i \in 2..(m + 1) /\ G[i] = F[i] /\ G[i - 1] = F[i - 1] BY <3>2
      <4> QED BY <2>1, <4>1 DEF Partial
    <3> QED BY <3>1, <3>2
  <2> HIDE DEF G
  <2>6. Partial(G, ss, m + 1 + 1) BY <2>4, <2>5 DEF Partial
  <2> QED BY <2>3, <2>6
<1> HIDE DEF T
<1>3. N - 1 \in T
  <2>1. N - 1 \in Nat BY <1>0
  <2> QED BY <1>1, <1>2, <2>1, Counting
<1>4. N - 1 < N /\ N - 1 + 1 = N BY <1>0
<1> QED BY <1>3, <1>4 DEF T, N

\* FlattenSeq gives the last of them.
LEMMA FlattenIsPartial ==
  ASSUME NEW S, NEW ss \in Seq(Seq(S)), ss # <<>>
  PROVE  \E F \in [1..Len(ss) -> Seq(S)] : Partial(F, ss, Len(ss)) /\ FlattenSeq(ss) = F[Len(ss)]
<1> DEFINE N == Len(ss)
           Made(g) == g = [i \in 1..N |-> IF i = 1 THEN ss[i] ELSE g[i - 1] \o ss[i]]
<1>0. N \in Nat \ {0} BY EmptySeq
<1>1. PICK F \in [1..N -> Seq(S)] : Partial(F, ss, N) BY PartialsExist
<1>2. FlattenSeq(ss) = (CHOOSE g : Made(g))[N] BY <1>0 DEF FlattenSeq
<1> HIDE DEF N
<1>3. Made(F)
  <2>1. ASSUME NEW i \in 1..N PROVE F[i] = IF i = 1 THEN ss[i] ELSE F[i - 1] \o ss[i]
    <3>1. CASE i = 1 BY <1>1, <3>1 DEF Partial
    <3>2. CASE i # 1
      <4>1. i \in 2..N BY <1>0, <3>2
      <4> QED BY <1>1, <3>2, <4>1 DEF Partial
    <3> QED BY <3>1, <3>2
  <2> QED BY <1>1, <2>1
<1> HIDE DEF Made
<1>4. PICK g : g = CHOOSE h : Made(h) OBVIOUS
<1>5. Made(g) BY <1>3, <1>4, Zenon
<1>6. ASSUME NEW i \in 1..N PROVE g[i] = IF i = 1 THEN ss[i] ELSE g[i - 1] \o ss[i]
  BY <1>5 DEF Made
<1>7. \A i \in 1..N : g[i] = F[i]
  <2> DEFINE T == {m \in Nat : m < N => g[m + 1] = F[m + 1]}
  <2>1. 0 \in T
    <3>1. 1 \in 1..N BY <1>0
    <3> QED BY <1>1, <1>6, <3>1 DEF Partial
  <2>2. ASSUME NEW m \in Nat, m \in T PROVE m + 1 \in T
    <3> SUFFICES ASSUME m + 1 < N PROVE g[m + 2] = F[m + 2]
      OBVIOUS
    <3>1. g[m + 1] = F[m + 1] BY <1>0, <2>2
    <3>2. PICK k \in 2..N : k = m + 2 BY <1>0
    <3>3. k \in 1..N /\ k # 1 /\ k - 1 = m + 1 BY <3>2
    <3>4. g[k] = g[k - 1] \o ss[k] BY <1>6, <3>3
    <3>5. F[k] = F[k - 1] \o ss[k] BY <1>1, <3>2 DEF Partial
    <3> QED BY <3>1, <3>2, <3>3, <3>4, <3>5
  <2> HIDE DEF T
  <2>3. \A m \in Nat : m \in T BY <2>1, <2>2, Counting
  <2>4. ASSUME NEW i \in 1..N PROVE g[i] = F[i]
    <3>1. i - 1 \in Nat /\ i - 1 < N /\ i - 1 + 1 = i BY <1>0
    <3> QED BY <2>3, <3>1 DEF T
  <2> QED BY <2>4
<1>8. g[N] = F[N] BY <1>0, <1>7
<1> QED BY <1>1, <1>2, <1>4, <1>8 DEF N

\* A sequence added at the end is added to the result.
LEMMA FlattenAppend ==
  ASSUME NEW S, NEW ss \in Seq(Seq(S)), NEW s \in Seq(S)
  PROVE  /\ FlattenSeq(ss) \in Seq(S)
         /\ FlattenSeq(Append(ss, s)) = FlattenSeq(ss) \o s
<1> DEFINE N == Len(ss)
           tt == Append(ss, s)
<1>0. N \in Nat BY EmptySeq
<1>1. /\ tt \in Seq(Seq(S)) /\ tt # <<>> /\ Len(tt) = N + 1
      /\ \A i \in 1..N : tt[i] = ss[i] /\ tt[N + 1] = s
  BY AppendProperties
<1>2. tt[N + 1] = s BY AppendProperties
<1>3. PICK G \in [1..(N + 1) -> Seq(S)] :
        Partial(G, tt, N + 1) /\ FlattenSeq(tt) = G[N + 1]
  BY <1>1, FlattenIsPartial
<1> HIDE DEF tt
<1>4. CASE ss = <<>>
  <2>1. FlattenSeq(ss) = <<>> BY <1>4, EmptySeq DEF FlattenSeq
  <2>2. N = 0 BY <1>4, EmptySeq
  <2>3. FlattenSeq(tt) = s BY <1>2, <1>3, <2>2 DEF Partial
  <2> QED BY <2>1, <2>3, ConcatEmptySeq, EmptySeq DEF tt
<1>5. CASE ss # <<>>
  <2>0. N # 0 BY <1>5, EmptySeq
  <2>1. PICK F \in [1..N -> Seq(S)] : Partial(F, ss, N) /\ FlattenSeq(ss) = F[N]
    BY <1>5, FlattenIsPartial
  <2> HIDE DEF N
  <2> DEFINE T == {m \in Nat : m < N => G[m + 1] = F[m + 1]}
  <2>2. 0 \in T
    <3>1. 1 \in 1..N BY <1>0, <2>0
    <3> QED BY <1>1, <1>3, <2>1, <3>1 DEF Partial
  <2>3. ASSUME NEW m \in Nat, m \in T PROVE m + 1 \in T
    <3> SUFFICES ASSUME m + 1 < N PROVE G[m + 2] = F[m + 2]
      OBVIOUS
    <3>1. G[m + 1] = F[m + 1] BY <1>0, <2>3
    <3>2. PICK k \in 2..N : k = m + 2 BY <1>0
    <3>3. k \in 1..N /\ k \in 2..(N + 1) /\ k - 1 = m + 1 BY <1>0, <3>2
    <3>4. G[k] = G[k - 1] \o ss[k] BY <1>1, <1>3, <3>3 DEF Partial
    <3>5. F[k] = F[k - 1] \o ss[k] BY <2>1, <3>2 DEF Partial
    <3> QED BY <3>1, <3>2, <3>3, <3>4, <3>5
  <2> HIDE DEF T
  <2>4. N - 1 \in Nat BY <1>0, <2>0
  <2>5. N - 1 \in T BY <2>2, <2>3, <2>4, Counting
  <2>6. G[N] = F[N]
    <3>1. N - 1 < N /\ N - 1 + 1 = N BY <1>0
    <3> QED BY <2>5, <3>1 DEF T
  <2>7. G[N + 1] = G[N] \o s
    <3>1. PICK k \in 2..(N + 1) : k = N + 1 BY <1>0, <2>0
    <3>2. G[k] = G[k - 1] \o tt[k] BY <1>3, <3>1 DEF Partial
    <3>3. k - 1 = N BY <1>0, <3>1
    <3> QED BY <1>2, <3>1, <3>2, <3>3
  <2>8. F[N] \in Seq(S) BY <1>0, <2>0
  <2> QED BY <1>3, <2>1, <2>6, <2>7, <2>8 DEF tt
<1> QED BY <1>4, <1>5

\* A sequence is a prefix of itself with more after it.
LEMMA PrefixOfJoin ==
  ASSUME NEW S, NEW s \in Seq(S), NEW rest \in Seq(S)
  PROVE  IsPrefix(s, s \o rest)
<1>1. PICK t \in Seq(S) : t = s \o rest BY ConcatProperties
<1>2. PICK n \in Nat : n = Len(s) BY LenProperties
<1>3. Len(s) <= Len(t)
  <2>1. Len(t) = Len(s) + Len(rest) /\ Len(rest) \in Nat /\ Len(s) \in Nat
    BY <1>1, ConcatProperties, LenProperties
  <2> QED BY <2>1
<1>4. SubSeq(s, 1, n) = SubSeq(t, 1, n)
  <2>1. CASE n = 0 BY <2>1, SubSeqEmpty
  <2>2. CASE n # 0
    <3>1. 1 \in 1..n /\ n \in 1..n BY <2>2
    <3> QED BY <1>1, <1>2, <3>1, SubSeqOfConcat1
  <2> QED BY <2>1, <2>2
<1> QED BY <1>1, <1>2, <1>3, <1>4 DEF IsPrefix

\* Functions to sequences.
Makers(P, S) == [P -> Seq(S)]

\* Each adds F of an element that is added.
LEMMA EachAppend ==
  ASSUME NEW P, NEW S, NEW F \in Makers(P, S), NEW w \in Seq(P), NEW p \in P
  PROVE  /\ Each(F, w) \in Seq(S)
         /\ Each(F, Append(w, p)) = Each(F, w) \o F[p]
<1> USE DEF Makers
<1> DEFINE ss == [i \in DOMAIN w |-> F[w[i]]]
<1>0. PICK n \in Nat : n = Len(w) /\ DOMAIN w = 1..n BY LenProperties
<1>1. ss \in [1..n -> Seq(S)] BY <1>0, ElementOfSeq
<1>2. ss \in Seq(Seq(S)) /\ Len(ss) = n BY <1>0, <1>1, SeqDef, LenProperties
<1>3. F[p] \in Seq(S) OBVIOUS
<1>4. PICK v \in Seq(P) : v = Append(w, p) BY AppendProperties
<1>5. /\ Len(v) = n + 1 /\ DOMAIN v = 1..(n + 1)
      /\ \A i \in 1..n : v[i] = w[i] /\ v[n + 1] = p
  BY <1>0, <1>4, AppendProperties, LenProperties
<1>6. v[n + 1] = p BY <1>0, <1>4, AppendProperties
<1>7. [i \in DOMAIN v |-> F[v[i]]] = Append(ss, F[p])
  <2> DEFINE tt == [i \in DOMAIN v |-> F[v[i]]]
             uu == Append(ss, F[p])
  <2>1. tt \in [1..(n + 1) -> Seq(S)] BY <1>5, ElementOfSeq
  <2>2. tt \in Seq(Seq(S)) /\ Len(tt) = n + 1 BY <2>1, SeqDef, LenProperties
  <2>3. /\ uu \in Seq(Seq(S)) /\ Len(uu) = n + 1
        /\ \A i \in 1..n : uu[i] = ss[i]
        /\ uu[n + 1] = F[p]
    BY <1>2, <1>3, AppendProperties
  <2>4. ASSUME NEW i \in 1..(n + 1) PROVE tt[i] = uu[i]
    <3>1. tt[i] = F[v[i]] BY <1>5
    <3>2. CASE i = n + 1 BY <1>6, <2>3, <3>1, <3>2
    <3>3. CASE i # n + 1
      <4>1. i \in 1..n /\ v[i] = w[i] BY <1>5, <3>3
      <4>2. ss[i] = F[w[i]] BY <1>0, <4>1
      <4> QED BY <2>3, <3>1, <4>1, <4>2
    <3> QED BY <3>2, <3>3
  <2> HIDE DEF tt, uu
  <2>5. tt = uu BY <2>2, <2>3, <2>4, SeqEqual
  <2> QED BY <2>5 DEF tt, uu
<1> HIDE DEF ss
<1>8. FlattenSeq(ss) \in Seq(S) /\ FlattenSeq(Append(ss, F[p])) = FlattenSeq(ss) \o F[p]
  BY <1>2, <1>3, FlattenAppend
<1> QED BY <1>4, <1>7, <1>8 DEF Each, ss

\* Each of the empty sequence is empty.
LEMMA EachEmpty ==
  ASSUME NEW F
  PROVE  Each(F, <<>>) = <<>>
<1> DEFINE ss == [i \in DOMAIN <<>> |-> F[<<>>[i]]]
<1>1. DOMAIN <<>> = {} OBVIOUS
<1>2. ss = <<>> BY <1>1
<1>3. FlattenSeq(<<>>) = <<>> BY EmptySeq DEF FlattenSeq
<1> HIDE DEF ss
<1>4. FlattenSeq(ss) = <<>> BY <1>2, <1>3
<1> QED BY <1>4 DEF Each, ss

\* Each of one element is F of it.
LEMMA EachOne ==
  ASSUME NEW P, NEW S, NEW F \in Makers(P, S), NEW p \in P
  PROVE  Each(F, <<p>>) = F[p]
<1>1. PICK e \in Seq(P) : e = <<>> BY EmptySeq
<1>2. Append(e, p) = <<p>> BY <1>1, AppendIsConcat, ConcatEmptySeq
<1>3. Each(F, Append(e, p)) = Each(F, e) \o F[p] BY EachAppend
<1>4. Each(F, e) = <<>> BY <1>1, EachEmpty
<1>5. F[p] \in Seq(S) BY DEF Makers
<1>6. <<>> \o F[p] = F[p] BY <1>5, ConcatEmptySeq
<1> QED BY <1>2, <1>3, <1>4, <1>6

\* What is added to the second of two sequences is added to both.
LEMMA AppendLast ==
  ASSUME NEW P, NEW a \in Seq(P), NEW d \in Seq(P), NEW e \in P
  PROVE  a \o Append(d, e) = Append(a \o d, e)
<1>1. <<e>> \in Seq(P) OBVIOUS
<1>2. PICK u \in Seq(P) : u = <<e>> BY <1>1
<1>3. \A x, y, z \in Seq(P) : (x \o y) \o z = x \o (y \o z) BY ConcatAssociative, SMTT(30)
<1>4. (a \o d) \o u = a \o (d \o u) BY <1>3, Zenon
<1>5. PICK v \in Seq(P) : v = a \o d BY ConcatProperties
<1>6. Append(v, e) = v \o u BY <1>2, AppendIsConcat
<1>7. Append(d, e) = d \o u BY <1>2, AppendIsConcat
<1> QED BY <1>4, <1>5, <1>6, <1>7

\* Each of two sequences is that of one after that of the other.
LEMMA EachJoin ==
  ASSUME NEW P, NEW S, NEW F \in Makers(P, S), NEW a \in Seq(P), NEW b \in Seq(P)
  PROVE  /\ Each(F, a) \in Seq(S)
         /\ Each(F, a \o b) = Each(F, a) \o Each(F, b)
<1>5. \A x, y, z \in Seq(S) : (x \o y) \o z = x \o (y \o z) BY ConcatAssociative, SMTT(30)
<1> DEFINE T == {m \in Nat : \A c \in Seq(P) :
                   Len(c) = m => Each(F, a \o c) = Each(F, a) \o Each(F, c)}
<1>0. \A w \in Seq(P) : Each(F, w) \in Seq(S)
  <2> TAKE w \in Seq(P)
  <2>1. CASE w = <<>> BY <2>1, EachEmpty, EmptySeq
  <2>2. CASE w # <<>>
    <3>1. PICK d \in Seq(P), e \in P : w = Append(d, e) BY <2>2, SequenceEmptyOrAppend
    <3>2. Each(F, d) \in Seq(S) /\ F[e] \in Seq(S) BY EachAppend DEF Makers
    <3>3. Each(F, Append(d, e)) = Each(F, d) \o F[e] BY EachAppend
    <3> QED BY <3>1, <3>2, <3>3, ConcatProperties
  <2> QED BY <2>1, <2>2
<1>1. 0 \in T
  <2> SUFFICES ASSUME NEW c \in Seq(P), Len(c) = 0
               PROVE  Each(F, a \o c) = Each(F, a) \o Each(F, c)
    OBVIOUS
  <2>1. c = <<>> BY EmptySeq
  <2>2. a \o c = a /\ Each(F, c) = <<>> BY <2>1, ConcatEmptySeq, EachEmpty
  <2>3. Each(F, a) \in Seq(S) BY <1>0
  <2> QED BY <2>2, <2>3, ConcatEmptySeq
<1>2. ASSUME NEW m \in Nat, m \in T PROVE m + 1 \in T
  <2> SUFFICES ASSUME NEW c \in Seq(P), Len(c) = m + 1
               PROVE  Each(F, a \o c) = Each(F, a) \o Each(F, c)
    OBVIOUS
  <2>1. c # <<>> BY EmptySeq
  <2>2. PICK d \in Seq(P), e \in P : c = Append(d, e) BY <2>1, SequenceEmptyOrAppend
  <2>3. Len(d) = m BY <2>2, AppendProperties, LenProperties
  <2>4. Each(F, a \o d) = Each(F, a) \o Each(F, d) BY <1>2, <2>3
  <2>5. PICK x \in Seq(P) : x = a \o d BY ConcatProperties
  <2>6. a \o c = Append(x, e) BY <2>2, <2>5, AppendLast
  <2>7. PICK r \in Seq(S) : r = Each(F, a) BY <1>0
  <2>8. PICK s \in Seq(S) : s = Each(F, d) BY <1>0
  <2>9. PICK t \in Seq(S) : t = F[e] BY DEF Makers
  <2>10. Each(F, Append(x, e)) = Each(F, x) \o t
    <3>1. Each(F, Append(x, e)) = Each(F, x) \o F[e] BY EachAppend
    <3> QED BY <2>9, <3>1, Zenon
  <2>11. Each(F, a \o c) = (r \o s) \o t BY <2>4, <2>5, <2>6, <2>7, <2>8, <2>10
  <2>12. Each(F, Append(d, e)) = s \o t
    <3>1. Each(F, Append(d, e)) = Each(F, d) \o F[e] BY EachAppend
    <3> QED BY <2>8, <2>9, <3>1, Zenon
  <2>13. (r \o s) \o t = r \o (s \o t) BY <1>5, Zenon
  <2> QED BY <2>2, <2>7, <2>11, <2>12, <2>13
<1> HIDE DEF T
<1>3. Len(b) \in Nat BY LenProperties
<1>4. Len(b) \in T BY <1>1, <1>2, <1>3, Counting
<1> QED BY <1>0, <1>4 DEF T

-----------------------------------------------------------------------------
(* Frames and their cells.                                                 *)

Bodies == BodyLengths \cup {1, 2, <<>>} \cup Packets
Kinds == {"none", "packet", "response", "request", "result", "message"}
Frames == [what : Kinds, mode : Modes, size : 0..2, body : Bodies]
CellSet == Frames \X Nat

\* The cells of frames, one frame after the other.
Flat(fs) == FlattenSeq([i \in DOMAIN fs |-> Cells(fs[i])])

\* What is made by Frame is a frame.
LEMMA FrameTypes ==
  ASSUME NEW what \in Kinds, NEW mode \in Modes, NEW size \in 0..2, NEW body \in Bodies
  PROVE  /\ Frame(what, mode, size, body) \in Frames
         /\ Frame(what, mode, size, body).what = what
         /\ Frame(what, mode, size, body).mode = mode
         /\ Frame(what, mode, size, body).body = body
BY DEF Frame, Frames

\* The cells of a frame are numbered.
LEMMA CellsAre ==
  ASSUME NEW f \in Frames
  PROVE  /\ Cells(f) \in Seq(CellSet)
         /\ Len(Cells(f)) = 2 + f.size
         /\ \A i \in 1..(2 + f.size) : Cells(f)[i] = <<f, i>>
         /\ f.size \in 0..2
<1>1. f.size \in 0..2 /\ 2 + f.size \in Nat BY DEF Frames
<1>2. Cells(f) \in [1..(2 + f.size) -> CellSet]
  BY <1>1 DEF Cells, CellSet
<1>3. PICK n \in Nat : n = 2 + f.size BY <1>1
<1>4. Cells(f) \in Seq(CellSet) BY <1>2, <1>3, SeqDef
<1> HIDE DEF Frames, CellSet
<1> QED BY <1>1, <1>2, <1>4, LenProperties DEF Cells

\* It is all one in which order sequences of cells are joined.
LEMMA CellsJoin == \A a, b, c \in Seq(CellSet) : (a \o b) \o c = a \o (b \o c)
BY ConcatAssociative, SMTT(30)

\* The cells of frames are those of each of them.
CellsOf == [f \in Frames |-> Cells(f)]

LEMMA FlatIsEach ==
  ASSUME NEW fs \in Seq(Frames)
  PROVE  Flat(fs) = Each(CellsOf, fs) /\ CellsOf \in Makers(Frames, CellSet)
<1>1. \A i \in DOMAIN fs : fs[i] \in Frames BY LenProperties, ElementOfSeq
<1>2. [i \in DOMAIN fs |-> Cells(fs[i])] = [i \in DOMAIN fs |-> CellsOf[fs[i]]]
  BY <1>1 DEF CellsOf
<1>3. CellsOf \in Makers(Frames, CellSet) BY CellsAre DEF CellsOf, Makers
<1> QED BY <1>2, <1>3 DEF Flat, Each

\* Flat is a sequence of cells, and grows by those of a frame added to it.
LEMMA FlatAppend ==
  ASSUME NEW fs \in Seq(Frames), NEW f \in Frames
  PROVE  /\ Flat(fs) \in Seq(CellSet)
         /\ Flat(Append(fs, f)) = Flat(fs) \o Cells(f)
<1>1. CellsOf \in Makers(Frames, CellSet) /\ CellsOf[f] = Cells(f) BY FlatIsEach DEF CellsOf
<1>2. PICK gs \in Seq(Frames) : gs = Append(fs, f) BY AppendProperties
<1>3. Flat(fs) = Each(CellsOf, fs) /\ Flat(gs) = Each(CellsOf, gs) BY FlatIsEach
<1> HIDE DEF Flat, Each, CellsOf, Frames, CellSet
<1>4. Each(CellsOf, fs) \in Seq(CellSet) BY <1>1, EachAppend
<1>5. Each(CellsOf, Append(fs, f)) = Each(CellsOf, fs) \o CellsOf[f]
  <2>1. PICK F \in Makers(Frames, CellSet) : F = CellsOf BY <1>1
  <2>2. Each(F, Append(fs, f)) = Each(F, fs) \o F[f] BY EachAppend
  <2> QED BY <2>1, <2>2
<1> QED BY <1>1, <1>2, <1>3, <1>4, <1>5, Zenon

\* No frames have no cells.
LEMMA FlatEmpty == Flat(<<>>) = <<>>
<1>1. PICK e \in Seq(Frames) : e = <<>> BY EmptySeq
<1> QED BY <1>1, FlatIsEach, EachEmpty

\* The first frame's cells come first.
LEMMA FlatFirst ==
  ASSUME NEW fs \in Seq(Frames), fs # <<>>
  PROVE  Flat(fs) = Cells(fs[1]) \o Flat(Tail(fs))
<1>0. Head(fs) \in Frames /\ Tail(fs) \in Seq(Frames) /\ Head(fs) = fs[1]
  BY HeadTailProperties, EmptySeq
<1>1. PICK f \in Frames, r \in Seq(Frames) : f = fs[1] /\ r = Tail(fs) BY <1>0
<1>2. <<f>> \in Seq(Frames) BY <1>1
<1>3. PICK a \in Seq(Frames) : a = <<f>> BY <1>2
<1>4. fs = a \o r BY <1>1, <1>3
<1>5. CellsOf \in Makers(Frames, CellSet) /\ CellsOf[f] = Cells(f) BY FlatIsEach DEF CellsOf
<1>6. Flat(fs) = Each(CellsOf, fs) /\ Flat(r) = Each(CellsOf, r) BY FlatIsEach
<1> HIDE DEF Flat, Each, CellsOf, Frames, CellSet
<1>7. Each(CellsOf, a \o r) = Each(CellsOf, a) \o Each(CellsOf, r) BY <1>5, EachJoin
<1>8. Each(CellsOf, <<f>>) = Cells(f) BY <1>5, EachOne
<1> QED BY <1>1, <1>3, <1>4, <1>6, <1>7, <1>8

-----------------------------------------------------------------------------
(* Types.                                                                  *)

LinkTypes ==
  /\ link \in {"up", "stalled", "broken", "closed"}
  /\ hs \in {"request", "respond", "result", "secured", "connected", "failed"}
  /\ cipher \in Modes /\ useHMAC \in BOOLEAN /\ conn \in BOOLEAN /\ challenge \in BOOLEAN
  /\ readErr \in {"no", "closed", "magic", "decrypt"}
  /\ srv \in {"start", "asked", "open", "over"}

WriteTypes ==
  /\ mu \in Senders \cup {NoOne}
  /\ pc \in [Senders -> {"idle", "lock", "write", "ok", "err"}]
  /\ out \in [Senders -> Frames]
  /\ put \in [Senders -> Nat]
  /\ begun \in Seq(Frames)

StreamTypes ==
  /\ toServer \in Seq(CellSet) /\ toClient \in Seq(CellSet) /\ got \in Seq(CellSet)
  /\ script \in Seq(Packets)

Types == LinkTypes /\ WriteTypes /\ StreamTypes

\* The steps of the goroutines, the network and the server, one by one.
LEMMA Steps ==
  ASSUME [Next]_vars
  PROVE  \/ \E p \in Senders : Lock(p) \/ WriteCell(p) \/ Written(p) \/ WriteFails(p)
         \/ \E w \in Writers : SendPacket(w)
         \/ Leave \/ GetRequest \/ Respond \/ ResponseSent \/ GetResult \/ Publish
         \/ ReadCell \/ ReadFails
         \/ ServerRequests \/ ServerResults \/ ServerSends \/ Stall \/ Break
         \/ ReadPacket \/ HandleMulti \/ HandlePacket \/ HandleLoggedOff
         \/ UNCHANGED vars
BY DEF Next, Writes, Handshake, Reads, Outside, ReadLoop

\* What is sent are frames.
LEMMA FramesSent ==
  /\ Frame("packet", "clear", 2, <<>>) \in Frames
  /\ Frame("response", "clear", 1, <<>>) \in Frames
  /\ NoFrame \in Frames
  /\ \A n \in BodyLengths, what \in {"request", "result"} : Frame(what, "clear", 1, n) \in Frames
  /\ \A n \in {1, 2}, what \in {"request", "result"} : Frame(what, "clear", 1, n) \in Frames
  /\ \A mode \in Modes, m \in Packets : Frame("message", mode, 2, m) \in Frames
<1> DEFINE Small == {1, 2, <<>>} \cup BodyLengths
<1>1. Bodies = Small \cup Packets BY DEF Bodies
<1>2. <<>> \in Bodies /\ 1 \in Bodies /\ 2 \in Bodies BY <1>1
<1>3. "clear" \in Modes BY DEF Modes
<1> HIDE DEF Small
<1>4. BodyLengths \subseteq Bodies /\ Packets \subseteq Bodies BY DEF Bodies
<1> QED BY <1>2, <1>3, <1>4, FrameTypes DEF NoFrame, Kinds

\* Sealing a frame changes its mode.
LEMMA SealedIs ==
  ASSUME NEW f \in Frames, cipher \in Modes
  PROVE  Sealed(f) \in Frames /\ Sealed(f).mode = cipher /\ Sealed(f).what = f.what
BY DEF Sealed, Frames

\* Every step keeps the types of the connection's state.
LEMMA LinkTypesKept ==
  ASSUME Types, [Next]_vars
  PROVE  LinkTypes'
<1> USE DEF LinkTypes, Modes, link_vars, write_vars, read_vars, srv_vars
<1>0. LinkTypes BY DEF Types
<1>1. ASSUME NEW p \in Senders, Lock(p) \/ WriteCell(p) \/ Written(p) \/ WriteFails(p)
      PROVE  LinkTypes'
  BY <1>0, <1>1 DEF Lock, WriteCell, Written, WriteFails
<1>2. ASSUME NEW w \in Writers, SendPacket(w) PROVE LinkTypes'
  BY <1>0, <1>2 DEF SendPacket, Encrypt
<1>3. CASE Leave BY <1>0, <1>3 DEF Leave
<1>4. CASE GetRequest
  <2>1. HasChallenge(Incoming.body) \in BOOLEAN BY DEF HasChallenge
  <2> QED BY <1>0, <1>4, <2>1 DEF GetRequest, Receive, Fails
<1>5. CASE Respond BY <1>0, <1>5 DEF Respond, Encrypt
<1>6. CASE ResponseSent BY <1>0, <1>6 DEF ResponseSent, Fails
<1>7. CASE GetResult BY <1>0, <1>7 DEF GetResult, Receive, Fails, CipherFor
<1>8. CASE Publish BY <1>0, <1>8 DEF Publish
<1>9. CASE ReadCell BY <1>0, <1>9 DEF ReadCell
<1>10. CASE ReadFails BY <1>0, <1>10 DEF ReadFails, Fails
<1>11. CASE ServerRequests
  <2>1. \A n : (n >= 24) \in BOOLEAN OBVIOUS
  <2> QED BY <1>0, <1>11, <2>1 DEF ServerRequests, ServerWrites
<1>12. CASE ServerResults BY <1>0, <1>12 DEF ServerResults, ServerWrites
<1>13. CASE ServerSends BY <1>0, <1>13 DEF ServerSends, ServerWrites
<1>14. CASE Stall \/ Break BY <1>0, <1>14 DEF Stall, Break
<1>15. CASE ReadPacket BY <1>0, <1>15 DEF ReadPacket, Receive
<1>16. CASE HandleMulti \/ HandlePacket \/ HandleLoggedOff
  BY <1>0, <1>16 DEF HandleMulti, HandlePacket, HandleLoggedOff, AfterLogOff
<1>17. CASE UNCHANGED vars BY <1>0, <1>17 DEF vars
<1> QED
  BY <1>1, <1>2, <1>3, <1>4, <1>5, <1>6, <1>7, <1>8, <1>9, <1>10, <1>11, <1>12, <1>13, <1>14,
     <1>15, <1>16, <1>17, Steps

\* Encrypt gives its goroutine a frame.
LEMMA EncryptTypes ==
  ASSUME Types, NEW p \in Senders, NEW f \in Frames, Encrypt(p, f)
  PROVE  WriteTypes'
<1>1. Sealed(f) \in Frames BY SealedIs DEF Types, LinkTypes
<1> HIDE DEF Frames
<1> QED BY <1>1 DEF Types, WriteTypes, Encrypt

\* Every step keeps the types of the senders' state.
LEMMA WriteTypesKept ==
  ASSUME Types, [Next]_vars
  PROVE  WriteTypes'
<1> USE DEF write_vars
<1>0. WriteTypes BY DEF Types
<1>1. ASSUME NEW p \in Senders, Lock(p) \/ WriteCell(p) \/ Written(p) \/ WriteFails(p)
      PROVE  WriteTypes'
  <2>1. CASE Lock(p)
    <3>1. out[p] \in Frames BY <1>0 DEF WriteTypes
    <3>2. Append(begun, out[p]) \in Seq(Frames) BY <1>0, <3>1, AppendProperties DEF WriteTypes
    <3> QED BY <1>0, <2>1, <3>2 DEF WriteTypes, Lock
  <2>2. CASE WriteCell(p) BY <1>0, <2>2 DEF WriteTypes, WriteCell
  <2>3. CASE Written(p) BY <1>0, <2>3 DEF WriteTypes, Written, Unlocked
  <2>4. CASE WriteFails(p) BY <1>0, <2>4 DEF WriteTypes, WriteFails, Unlocked
  <2> QED BY <1>1, <2>1, <2>2, <2>3, <2>4
<1>2. ASSUME NEW w \in Writers, SendPacket(w) PROVE WriteTypes'
  BY <1>2, EncryptTypes, FramesSent DEF SendPacket, Senders
<1>3. CASE Respond BY <1>3, EncryptTypes, FramesSent DEF Respond, Senders
<1>4. ASSUME UNCHANGED write_vars PROVE WriteTypes'
  BY <1>0, <1>4 DEF WriteTypes
<1>5. CASE Leave \/ GetRequest \/ ResponseSent \/ GetResult \/ Publish \/ ReadCell \/ ReadFails
  BY <1>4, <1>5 DEF Leave, GetRequest, ResponseSent, GetResult, Publish, ReadCell, ReadFails
<1>6. CASE ServerRequests \/ ServerResults \/ ServerSends \/ Stall \/ Break
  BY <1>4, <1>6 DEF ServerRequests, ServerResults, ServerSends, Stall, Break
<1>7. CASE ReadPacket \/ HandleMulti \/ HandlePacket \/ HandleLoggedOff
  BY <1>4, <1>7 DEF ReadPacket, HandleMulti, HandlePacket, HandleLoggedOff
<1>8. CASE UNCHANGED vars BY <1>4, <1>8 DEF vars
<1> QED BY <1>1, <1>2, <1>3, <1>5, <1>6, <1>7, <1>8, Steps

\* The server writes cells.
LEMMA ServerTypes ==
  ASSUME toClient \in Seq(CellSet), NEW f \in Frames, ServerWrites(f)
  PROVE  toClient' \in Seq(CellSet)
BY CellsAre, ConcatProperties DEF ServerWrites

\* Every step keeps the types of what is on its way.
LEMMA StreamTypesKept ==
  ASSUME Types, [Next]_vars
  PROVE  StreamTypes'
<1> USE DEF StreamTypes, read_vars, srv_vars, write_vars
<1>0. StreamTypes BY DEF Types
<1>1. ASSUME NEW p \in Senders, Lock(p) \/ WriteCell(p) \/ Written(p) \/ WriteFails(p)
      PROVE  StreamTypes'
  <2>1. CASE WriteCell(p)
    <3>1. out[p] \in Frames /\ put[p] \in Nat /\ put'[p] = put[p] + 1 /\ put[p] < 2 + out[p].size
      BY <2>1 DEF Types, WriteTypes, WriteCell
    <3>2. PICK k : k = put'[p] OBVIOUS
    <3>3. k \in 1..(2 + out[p].size) BY <3>1, <3>2, CellsAre
    <3>4. Cells(out[p])[k] \in CellSet BY <3>1, <3>3, CellsAre, ElementOfSeq
    <3>5. toServer' = Append(toServer, Cells(out[p])[k]) BY <2>1, <3>2 DEF WriteCell
    <3>6. toServer' \in Seq(CellSet) BY <1>0, <3>4, <3>5, AppendProperties
    <3> QED BY <1>0, <2>1, <3>6 DEF WriteCell
  <2>2. CASE Lock(p) \/ Written(p) \/ WriteFails(p)
    BY <1>0, <2>2 DEF Lock, Written, WriteFails
  <2> QED BY <1>1, <2>1, <2>2
<1>2. ASSUME NEW w \in Writers, SendPacket(w) PROVE StreamTypes'
  BY <1>0, <1>2 DEF SendPacket, Encrypt
<1>3. CASE Leave \/ ResponseSent \/ Publish \/ Respond \/ ReadFails
  BY <1>0, <1>3 DEF Leave, ResponseSent, Publish, Respond, Encrypt, ReadFails
<1>4. CASE GetRequest \/ GetResult \/ ReadPacket
  BY <1>0, <1>4, EmptySeq DEF GetRequest, GetResult, ReadPacket, Receive
<1>5. CASE ReadCell
  <2>1. Head(toClient) \in CellSet /\ Tail(toClient) \in Seq(CellSet)
    BY <1>0, <1>5, HeadTailProperties DEF ReadCell
  <2>2. Append(got, Head(toClient)) \in Seq(CellSet) BY <1>0, <2>1, AppendProperties
  <2> QED BY <1>0, <1>5, <2>1, <2>2 DEF ReadCell
<1>6. CASE ServerRequests
  <2>1. toClient' \in Seq(CellSet) BY <1>0, <1>6, FramesSent, ServerTypes DEF ServerRequests
  <2> QED BY <1>0, <1>6, <2>1 DEF ServerRequests, ServerWrites
<1>7. CASE ServerResults
  <2>1. toClient' \in Seq(CellSet) BY <1>0, <1>7, FramesSent, ServerTypes DEF ServerResults
  <2> QED BY <1>0, <1>7, <2>1 DEF ServerResults, ServerWrites
<1>8. CASE ServerSends
  <2>1. CipherFor(challenge) \in Modes BY DEF CipherFor, Modes
  <2>2. Head(script) \in Packets /\ Tail(script) \in Seq(Packets)
    BY <1>0, <1>8, HeadTailProperties DEF ServerSends
  <2>3. toClient' \in Seq(CellSet)
    BY <1>0, <1>8, <2>1, <2>2, FramesSent, ServerTypes DEF ServerSends
  <2> QED BY <1>0, <1>8, <2>2, <2>3 DEF ServerSends, ServerWrites
<1>9. CASE Stall \/ Break \/ HandleMulti \/ HandlePacket \/ HandleLoggedOff \/ UNCHANGED vars
  BY <1>0, <1>9 DEF Stall, Break, HandleMulti, HandlePacket, HandleLoggedOff, vars
<1> QED BY <1>1, <1>2, <1>3, <1>4, <1>5, <1>6, <1>7, <1>8, <1>9, Steps

\* The types hold at the start: scripts are sequences.
LEMMA TypesInit ==
  ASSUME Init
  PROVE  Types
<1>1. LinkTypes BY DEF Init, TransportInit, LinkTypes, Modes
<1>2. WriteTypes BY FramesSent, EmptySeq DEF Init, TransportInit, WriteTypes
<1>3. script \in Seq(Packets) BY PacketsAssumption DEF Init, TransportInit
<1>4. StreamTypes BY <1>3, EmptySeq DEF Init, TransportInit, StreamTypes
<1> QED BY <1>1, <1>2, <1>4 DEF Types

-----------------------------------------------------------------------------
(* Reading.                                                                *)

\* What is got and what is on its way are the cells of whole frames; no more
\* is got than the first of them.
Stream(fs) ==
  /\ got \o toClient = Flat(fs)
  /\ fs # <<>> => Len(got) <= 2 + fs[1].size

\* Which frames can be on their way, at each stage of the handshake.
Coming(fs) ==
  /\ \A i \in 1..Len(fs) :
       fs[i].mode = IF fs[i].what = "message" THEN CipherFor(challenge) ELSE "clear"
  /\ srv = "start" => fs = <<>>
  /\ hs = "request" =>
       /\ Len(fs) <= 1
       /\ \A i \in 1..Len(fs) : fs[i].what # "message" /\ HasChallenge(fs[i].body) = challenge
  /\ hs \in {"respond", "result"} =>
       /\ srv = "asked" => fs = <<>>
       /\ srv \in {"open", "over"} =>
            /\ fs # <<>> /\ fs[1].what # "message"
            /\ fs[1].what = "result" /\ fs[1].body = 1 => srv = "open"
            /\ \A i \in 2..Len(fs) : fs[i].what = "message"
  /\ hs \in {"secured", "connected"} => \A i \in 1..Len(fs) : fs[i].what = "message"

Readable ==
  /\ \E fs \in Seq(Frames) : Stream(fs) /\ Coming(fs)
  /\ readErr \notin {"magic", "decrypt"}

\* What is got are the first cells of the first frame.
LEMMA GotIsFirst ==
  ASSUME Types, NEW fs \in Seq(Frames), Stream(fs), got # <<>>
  PROVE  /\ fs # <<>> /\ fs[1] \in Frames
         /\ \A i \in 1..Len(got) : got[i] = <<fs[1], i>>
<1>1. got \in Seq(CellSet) /\ toClient \in Seq(CellSet) BY DEF Types, StreamTypes
<1>2. fs # <<>> BY <1>1, FlatEmpty, ConcatEqualIffEmpty DEF Stream
<1>3. fs[1] \in Frames
  <2>1. 1 \in 1..Len(fs) BY <1>2, EmptySeq
  <2> QED BY <2>1, ElementOfSeq
<1>4. PICK f \in Frames : f = fs[1] BY <1>3
<1>5. Cells(f) \in Seq(CellSet) /\ Len(Cells(f)) = 2 + f.size /\ f.size \in 0..2
      /\ \A i \in 1..(2 + f.size) : Cells(f)[i] = <<f, i>>
  BY CellsAre
<1>6. PICK r \in Seq(Frames) : r = Tail(fs) BY <1>2, HeadTailProperties
<1>7. Flat(r) \in Seq(CellSet) BY <1>5, FlatAppend
<1>8. got \o toClient = Cells(f) \o Flat(r) BY <1>2, <1>4, <1>6, FlatFirst DEF Stream
<1>9. PICK n \in Nat : n = Len(got) BY <1>1, LenProperties
<1>10. n <= 2 + f.size BY <1>2, <1>4, <1>9 DEF Stream
<1>11. ASSUME NEW i \in 1..n PROVE got[i] = <<f, i>>
  <2>1. i \in 1..(2 + f.size) BY <1>5, <1>10
  <2>2. PICK x : x = got \o toClient OBVIOUS
  <2>3. x[i] = got[i] BY <1>1, <1>9, <2>2, ConcatProperties
  <2>4. x = Cells(f) \o Flat(r) BY <1>8, <2>2
  <2>5. x[i] = Cells(f)[i] BY <1>5, <1>7, <2>1, <2>4, ConcatProperties
  <2> QED BY <1>5, <2>1, <2>3, <2>5
<1> QED BY <1>2, <1>3, <1>4, <1>9, <1>11

\* A frame that is read is the first one, and leaves the others on their way.
LEMMA ReadIsFirst ==
  ASSUME Types, NEW fs \in Seq(Frames), Stream(fs), FrameRead
  PROVE  /\ fs # <<>> /\ fs[1] \in Frames /\ Incoming = fs[1]
         /\ Tail(fs) \in Seq(Frames) /\ toClient = Flat(Tail(fs))
<1>1. got \in Seq(CellSet) /\ toClient \in Seq(CellSet) BY DEF Types, StreamTypes
<1>2. PICK n \in Nat : n = Len(got) BY <1>1, LenProperties
<1>3. n >= 2 /\ ValidMagic /\ Lacks = 0 BY <1>2 DEF FrameRead
<1>4. got # <<>> BY <1>1, <1>2, <1>3, EmptySeq
<1>5. fs # <<>> /\ fs[1] \in Frames /\ \A i \in 1..Len(got) : got[i] = <<fs[1], i>>
  BY <1>4, GotIsFirst
<1>6. PICK f \in Frames : f = fs[1] BY <1>5
<1>7. got[1] = <<f, 1>> BY <1>2, <1>3, <1>5, <1>6
<1>8. Incoming = f BY <1>7 DEF Incoming
<1>9. Cells(f) \in Seq(CellSet) /\ Len(Cells(f)) = 2 + f.size /\ f.size \in 0..2
      /\ \A i \in 1..(2 + f.size) : Cells(f)[i] = <<f, i>>
  BY CellsAre
<1>10. n = 2 + f.size BY <1>2, <1>3, <1>7, <1>9 DEF Lacks
<1>11. got = Cells(f)
  <2>1. Len(got) = Len(Cells(f)) BY <1>2, <1>9, <1>10
  <2>2. \A i \in 1..Len(got) : got[i] = Cells(f)[i] BY <1>2, <1>5, <1>6, <1>9, <1>10
  <2> QED BY <1>1, <1>9, <2>1, <2>2, SeqEqual
<1>12. PICK r \in Seq(Frames) : r = Tail(fs) BY <1>5, HeadTailProperties
<1>13. Flat(r) \in Seq(CellSet) BY <1>6, FlatAppend
<1>14. got \o toClient = got \o Flat(r) BY <1>5, <1>6, <1>11, <1>12, FlatFirst DEF Stream
<1>15. toClient = Flat(r)
  <2>1. \A s, t, v \in Seq(CellSet) : s \o t = s \o v => t = v BY ConcatSimplifications
  <2> QED BY <1>1, <1>13, <1>14, <2>1
<1> QED BY <1>5, <1>6, <1>8, <1>12, <1>15

\* A frame the server writes comes after the others.
LEMMA StreamGrows ==
  ASSUME Types, NEW fs \in Seq(Frames), Stream(fs), NEW f \in Frames, ServerWrites(f)
  PROVE  Append(fs, f) \in Seq(Frames) /\ Stream(Append(fs, f))'
<1>1. got \in Seq(CellSet) /\ toClient \in Seq(CellSet) BY DEF Types, StreamTypes
<1>2. Cells(f) \in Seq(CellSet) /\ f.size \in 0..2 BY CellsAre
<1>3. PICK gs \in Seq(Frames) : gs = Append(fs, f) BY AppendProperties
<1>4. got' = got /\ toClient' = toClient \o Cells(f) BY DEF ServerWrites
<1>5. got' \o toClient' = Flat(gs)
  <2>1. got \o (toClient \o Cells(f)) = (got \o toClient) \o Cells(f)
    BY <1>1, <1>2, CellsJoin, Zenon
  <2> QED BY <1>3, <1>4, <2>1, FlatAppend DEF Stream
<1>6. Len(got) <= 2 + gs[1].size
  <2>1. CASE fs = <<>>
    <3>1. got = <<>> BY <1>1, <2>1, FlatEmpty, ConcatEqualIffEmpty DEF Stream
    <3>2. gs[1] = f BY <1>3, <2>1, AppendProperties, EmptySeq
    <3> QED BY <1>2, <3>1, <3>2, EmptySeq
  <2>2. CASE fs # <<>>
    <3>1. gs[1] = fs[1] BY <1>3, <2>2, AppendProperties, EmptySeq
    <3> QED BY <2>2, <3>1 DEF Stream
  <2> QED BY <2>1, <2>2
<1>7. Stream(gs)' BY <1>4, <1>5, <1>6 DEF Stream
<1> QED BY <1>3, <1>7

\* Receiving the first frame leaves the others.
LEMMA StreamShrinks ==
  ASSUME Types, NEW fs \in Seq(Frames), Stream(fs), NEW what, Receive(what)
  PROVE  /\ fs # <<>> /\ fs[1] \in Frames /\ Incoming = fs[1] /\ fs[1].what = what
         /\ Tail(fs) \in Seq(Frames) /\ Stream(Tail(fs))'
<1>1. FrameRead /\ what = Incoming.what /\ got' = <<>> /\ toClient' = toClient BY DEF Receive
<1>2. /\ fs # <<>> /\ fs[1] \in Frames /\ Incoming = fs[1]
      /\ Tail(fs) \in Seq(Frames) /\ toClient = Flat(Tail(fs))
  BY <1>1, ReadIsFirst
<1>3. PICK r \in Seq(Frames) : r = Tail(fs) BY <1>2
<1>4. toClient \in Seq(CellSet) BY DEF Types, StreamTypes
<1>5. got' \o toClient' = Flat(r) BY <1>1, <1>2, <1>3, <1>4, ConcatEmptySeq
<1>6. r # <<>> => Len(got') <= 2 + r[1].size
  <2> SUFFICES ASSUME r # <<>> PROVE 0 <= 2 + r[1].size
    BY <1>1, EmptySeq
  <2>1. 1 \in 1..Len(r) BY <1>3, EmptySeq
  <2>2. r[1] \in Frames BY <1>3, <2>1, ElementOfSeq
  <2> QED BY <2>2, CellsAre
<1>7. Stream(r)' BY <1>5, <1>6 DEF Stream
<1> QED BY <1>1, <1>2, <1>3, <1>7

\* Reading a cell moves it.
LEMMA StreamMoves ==
  ASSUME Types, NEW fs \in Seq(Frames), Stream(fs), ReadCell
  PROVE  Stream(fs)'
<1>1. got \in Seq(CellSet) /\ toClient \in Seq(CellSet) BY DEF Types, StreamTypes
<1>2. /\ toClient # <<>> /\ Lacks > 0
      /\ got' = Append(got, Head(toClient)) /\ toClient' = Tail(toClient)
  BY DEF ReadCell
<1>3. PICK c \in CellSet, r \in Seq(CellSet) : c = Head(toClient) /\ r = Tail(toClient)
  BY <1>1, <1>2, HeadTailProperties
<1>4. toClient = <<c>> \o r BY <1>1, <1>2, <1>3
<1>5. <<c>> \in Seq(CellSet) BY <1>3
<1>6. got' = got \o <<c>> BY <1>1, <1>2, <1>3, AppendIsConcat
<1>7. got' \o toClient' = got \o toClient
  <2>1. (got \o <<c>>) \o r = got \o (<<c>> \o r) BY <1>1, <1>3, <1>5, CellsJoin, Zenon
  <2> QED BY <1>2, <1>3, <1>4, <1>6, <2>1
<1>8. fs # <<>> => Len(got') <= 2 + fs[1].size
  <2> SUFFICES ASSUME fs # <<>> PROVE Len(got') <= 2 + fs[1].size
    OBVIOUS
  <2>1. PICK n \in Nat : n = Len(got) BY <1>1, LenProperties
  <2>2. Len(got') = n + 1 BY <1>1, <1>3, <1>2, <2>1, AppendProperties
  <2>3. fs[1] \in Frames
    <3>1. 1 \in 1..Len(fs) BY EmptySeq
    <3> QED BY <3>1, ElementOfSeq
  <2>4. fs[1].size \in 0..2 BY <2>3, CellsAre
  <2>5. CASE n < 2 BY <2>2, <2>4, <2>5
  <2>6. CASE n >= 2
    <3>1. got # <<>> BY <1>1, <2>1, <2>6, EmptySeq
    <3>2. got[1] = <<fs[1], 1>> BY <2>1, <2>6, <3>1, GotIsFirst
    <3>3. got[1][1] = fs[1] BY <3>2
    <3> QED BY <1>2, <2>1, <2>2, <2>4, <2>6, <3>3 DEF Lacks
  <2> QED BY <2>1, <2>5, <2>6
<1> QED BY <1>7, <1>8 DEF Stream

-----------------------------------------------------------------------------
(* The stages of the handshake, and what is sent in each.                  *)

Stages ==
  /\ conn <=> hs = "connected"
  /\ hs \in {"secured", "connected"} => cipher = CipherFor(challenge) /\ srv = "open"
  /\ hs \in {"request", "respond", "result"} => cipher = "clear"
  /\ hs \in {"respond", "result"} => useHMAC = challenge /\ srv # "start"
  /\ hs = "request" => srv \in {"start", "asked"}
  /\ srv = "start" => hs \in {"request", "failed"}

Sending ==
  /\ hs = "request" \/ srv = "start" => begun = <<>> /\ pc[Connector] = "idle"
  /\ \A w \in Writers : pc[w] # "idle" =>
       conn /\ out[w].what = "packet" /\ out[w].mode = CipherFor(challenge)
  /\ pc[Connector] # "idle" => out[Connector].what = "response"
  /\ \A i \in DOMAIN begun : begun[i].what = "packet" => begun[i].mode = CipherFor(challenge)

\* What the client learns in the handshake is what the server meant.
LEMMA HandshakeAgrees ==
  ASSUME Types, Stages, Readable
  PROVE  /\ GetRequest =>
              srv = "asked" /\ (Receive("request") => HasChallenge(Incoming.body) = challenge)
         /\ GetResult /\ Incoming.body = 1 /\ Receive("result") => srv = "open"
<1>1. PICK fs \in Seq(Frames) : Stream(fs) /\ Coming(fs) BY DEF Readable
<1>2. ASSUME GetRequest
      PROVE  srv = "asked" /\ (Receive("request") => HasChallenge(Incoming.body) = challenge)
  <2>1. hs = "request" /\ (Receive("request") \/ Receive("result")) BY <1>2 DEF GetRequest
  <2>2. fs # <<>> /\ Incoming = fs[1] BY <1>1, <2>1, StreamShrinks
  <2>3. srv \in {"start", "asked"} /\ srv # "start" BY <1>1, <2>1, <2>2 DEF Stages, Coming
  <2>4. 1 \in 1..Len(fs) BY <2>2, EmptySeq
  <2>5. HasChallenge(fs[1].body) = challenge BY <1>1, <2>1, <2>4 DEF Coming
  <2> QED BY <2>2, <2>3, <2>5
<1>3. ASSUME GetResult, Incoming.body = 1, Receive("result") PROVE srv = "open"
  <2>1. hs = "result" BY <1>3 DEF GetResult
  <2>2. fs # <<>> /\ Incoming = fs[1] /\ fs[1].what = "result" BY <1>1, <1>3, StreamShrinks
  <2>3. srv \in {"open", "over"}
    BY <1>1, <2>1, <2>2 DEF Stages, Coming, Types, LinkTypes
  <2> QED BY <1>1, <1>3, <2>1, <2>2, <2>3 DEF Coming
<1> QED BY <1>2, <1>3

\* Every step keeps the stages.
LEMMA StagesKept ==
  ASSUME Types, Stages, Sending, Readable, [Next]_vars
  PROVE  Stages'
<1> USE DEF link_vars, write_vars, read_vars, srv_vars
<1>1. ASSUME UNCHANGED <<hs, cipher, useHMAC, conn, srv, challenge>> PROVE Stages'
  BY <1>1 DEF Stages
<1>2. ASSUME NEW p \in Senders, Lock(p) \/ WriteCell(p) \/ Written(p) \/ WriteFails(p)
      PROVE  Stages'
  BY <1>1, <1>2 DEF Lock, WriteCell, Written, WriteFails
<1>3. ASSUME NEW w \in Writers, SendPacket(w) PROVE Stages'
  BY <1>1, <1>3 DEF SendPacket, Encrypt
<1>4. CASE Leave \/ Respond \/ ReadCell \/ Stall \/ Break
  BY <1>1, <1>4 DEF Leave, Respond, Encrypt, ReadCell, Stall, Break
<1>5. CASE ReadPacket \/ HandleMulti \/ HandlePacket \/ HandleLoggedOff \/ UNCHANGED vars
  BY <1>1, <1>5 DEF ReadPacket, HandleMulti, HandlePacket, HandleLoggedOff, vars
<1>6. ASSUME Fails, UNCHANGED srv_vars, hs # "connected" PROVE Stages'
  BY <1>6 DEF Stages, Fails
<1>7. CASE GetRequest
  <2>1. hs = "request" /\ UNCHANGED srv_vars BY <1>7 DEF GetRequest
  <2>2. CASE Fails BY <1>6, <2>1, <2>2
  <2>3. CASE Receive("request") /\ hs' = "respond" /\ useHMAC' = HasChallenge(Incoming.body)
             /\ UNCHANGED <<cipher, conn>>
    <3>1. srv = "asked" /\ useHMAC' = challenge BY <1>7, <2>3, HandshakeAgrees
    <3> QED BY <2>1, <2>3, <3>1 DEF Stages
  <2> QED BY <1>7, <2>2, <2>3 DEF GetRequest
<1>8. CASE ResponseSent
  <2>1. hs = "respond" /\ UNCHANGED srv_vars BY <1>8 DEF ResponseSent
  <2>2. CASE Fails BY <1>6, <2>1, <2>2
  <2>3. CASE hs' = "result" /\ UNCHANGED <<cipher, useHMAC, conn>> BY <2>1, <2>3 DEF Stages
  <2> QED BY <1>8, <2>2, <2>3 DEF ResponseSent
<1>9. CASE GetResult
  <2>1. hs = "result" /\ UNCHANGED srv_vars BY <1>9 DEF GetResult
  <2>2. CASE Fails BY <1>6, <2>1, <2>2
  <2>3. CASE Receive("result") /\ Incoming.body = 1 /\ hs' = "secured"
             /\ cipher' = CipherFor(useHMAC) /\ UNCHANGED <<useHMAC, conn>>
    <3>1. srv = "open" BY <1>9, <2>3, HandshakeAgrees
    <3>2. cipher' = CipherFor(challenge) BY <2>1, <2>3 DEF Stages
    <3> QED BY <2>1, <2>3, <3>1, <3>2 DEF Stages, CipherFor
  <2> QED BY <1>9, <2>2, <2>3 DEF GetResult
<1>10. CASE Publish BY <1>10 DEF Publish, Publishable, Stages, CipherFor
<1>11. CASE ReadFails
  <2>1. CASE hs = "connected" BY <1>1, <1>11, <2>1 DEF ReadFails
  <2>2. CASE hs # "connected" BY <1>6, <1>11, <2>2 DEF ReadFails
  <2> QED BY <2>1, <2>2
<1>12. CASE ServerRequests
  <2>1. srv = "start" /\ srv' = "asked" /\ UNCHANGED link_vars BY <1>12 DEF ServerRequests
  <2> QED BY <2>1 DEF Stages
<1>13. CASE ServerResults
  <2>1. srv = "asked" /\ srv' \in {"open", "over"} /\ challenge' = challenge /\ begun # <<>>
        /\ UNCHANGED link_vars
    BY <1>13 DEF ServerResults
  <2>2. hs # "request" BY <2>1 DEF Sending
  <2> QED BY <2>1, <2>2 DEF Stages
<1>14. CASE ServerSends BY <1>1, <1>14 DEF ServerSends
<1> QED
  BY <1>2, <1>3, <1>4, <1>5, <1>7, <1>8, <1>9, <1>10, <1>11, <1>12, <1>13, <1>14, Steps

\* Every step keeps what is sent.
LEMMA SendingKept ==
  ASSUME Types, Stages, Sending, Readable, [Next]_vars
  PROVE  Sending'
<1> USE DEF link_vars, write_vars, read_vars, srv_vars
<1>0. WriteTypes /\ Connector \notin Writers /\ Senders = Writers \cup {Connector}
  BY WritersAssumption DEF Types, Senders
<1>1. ASSUME UNCHANGED write_vars, conn => conn', challenge' = challenge,
             hs' = "request" => hs = "request", srv' = "start" => srv = "start"
      PROVE  Sending'
  BY <1>1 DEF Sending
<1>2. ASSUME NEW p \in Senders, Lock(p) PROVE Sending'
  <2>1. pc[p] = "lock" /\ pc' = [pc EXCEPT ![p] = "write"] /\ begun' = Append(begun, out[p])
        /\ UNCHANGED <<out, link_vars, srv_vars>>
    BY <1>2 DEF Lock
  <2>2. ~(hs = "request" \/ srv = "start")
    <3>1. CASE p = Connector BY <2>1, <3>1 DEF Sending
    <3>2. CASE p \in Writers
      <4>1. conn BY <2>1, <3>2 DEF Sending
      <4> QED BY <4>1 DEF Stages
    <3> QED BY <1>0, <3>1, <3>2
  <2>3. out[p].what = "packet" => out[p].mode = CipherFor(challenge)
    <3>1. CASE p = Connector BY <2>1, <3>1 DEF Sending
    <3>2. CASE p \in Writers BY <2>1, <3>2 DEF Sending
    <3> QED BY <1>0, <3>1, <3>2
  <2>4. \A i \in DOMAIN begun' : begun'[i].what = "packet" => begun'[i].mode = CipherFor(challenge')
    <3> SUFFICES ASSUME NEW i \in DOMAIN begun'
                 PROVE  begun'[i].what = "packet" => begun'[i].mode = CipherFor(challenge)
      BY <2>1
    <3>1. out[p] \in Frames /\ begun \in Seq(Frames) BY <1>0 DEF WriteTypes
    <3>2. PICK n \in Nat : n = Len(begun) /\ DOMAIN begun = 1..n BY <3>1, LenProperties
    <3>3. /\ begun' \in Seq(Frames) /\ Len(begun') = n + 1 /\ begun'[n + 1] = out[p]
          /\ \A j \in 1..n : begun'[j] = begun[j]
      BY <2>1, <3>1, <3>2, AppendProperties
    <3>4. i \in 1..(n + 1) BY <3>3, LenProperties
    <3>5. CASE i = n + 1 BY <2>3, <3>3, <3>5
    <3>6. CASE i # n + 1
      <4>1. i \in 1..n BY <3>4, <3>6
      <4> QED BY <3>2, <3>3, <4>1 DEF Sending
    <3> QED BY <3>5, <3>6
  <2>5. \A q \in Senders : pc'[q] # "idle" => pc[q] # "idle"
    BY <1>0, <2>1 DEF WriteTypes
  <2>6. \A w \in Writers : pc'[w] # "idle" =>
          conn' /\ out'[w].what = "packet" /\ out'[w].mode = CipherFor(challenge')
    BY <1>0, <2>1, <2>5 DEF Sending
  <2>7. pc'[Connector] # "idle" => out'[Connector].what = "response"
    BY <1>0, <2>1, <2>5 DEF Sending
  <2> QED BY <2>1, <2>2, <2>4, <2>6, <2>7 DEF Sending
<1>3. ASSUME NEW p \in Senders, WriteCell(p) \/ Written(p) \/ WriteFails(p) PROVE Sending'
  <2>1. UNCHANGED <<out, begun, link_vars, srv_vars>> BY <1>3 DEF WriteCell, Written, WriteFails
  <2>2. \A q \in Senders : pc'[q] # "idle" => pc[q] # "idle"
    BY <1>0, <1>3 DEF WriteCell, Written, WriteFails, WriteTypes
  <2>3. pc[Connector] = "idle" => pc'[Connector] = "idle" BY <1>0, <2>2
  <2>4. \A w \in Writers : pc'[w] # "idle" =>
          conn' /\ out'[w].what = "packet" /\ out'[w].mode = CipherFor(challenge')
    BY <1>0, <2>1, <2>2 DEF Sending
  <2> QED BY <2>1, <2>3, <2>4 DEF Sending
<1>4. ASSUME NEW p \in Senders, NEW f \in Frames, Encrypt(p, f),
             ~(hs = "request" \/ srv = "start"),
             p = Connector => f.what = "response",
             p \in Writers => conn /\ f.what = "packet"
      PROVE  Sending'
  <2>1. /\ out' = [out EXCEPT ![p] = Sealed(f)] /\ pc' = [pc EXCEPT ![p] = "lock"]
        /\ UNCHANGED <<begun, link_vars, srv_vars>>
    BY <1>4 DEF Encrypt
  <2>2. PICK g \in Frames : g = Sealed(f) /\ g.mode = cipher /\ g.what = f.what
    BY SealedIs DEF Types, LinkTypes
  <2>3. out'[p] = g /\ \A q \in Senders \ {p} : out'[q] = out[q] /\ pc'[q] = pc[q]
    BY <1>0, <2>1, <2>2 DEF WriteTypes
  <2>4. ASSUME NEW w \in Writers, pc'[w] # "idle"
        PROVE  conn' /\ out'[w].what = "packet" /\ out'[w].mode = CipherFor(challenge')
    <3>1. CASE w = p
      <4>1. conn /\ out'[w].what = "packet" BY <1>4, <2>2, <2>3, <3>1
      <4>2. cipher = CipherFor(challenge) BY <4>1 DEF Stages
      <4> QED BY <2>1, <2>2, <2>3, <3>1, <4>1, <4>2
    <3>2. CASE w # p BY <1>0, <2>1, <2>3, <2>4, <3>2 DEF Sending
    <3> QED BY <3>1, <3>2
  <2>5. pc'[Connector] # "idle" => out'[Connector].what = "response"
    <3>1. CASE Connector = p BY <1>4, <2>2, <2>3, <3>1
    <3>2. CASE Connector # p BY <1>0, <2>1, <2>3, <3>2 DEF Sending
    <3> QED BY <3>1, <3>2
  <2> QED BY <1>4, <2>1, <2>4, <2>5 DEF Sending
<1>5. ASSUME NEW w \in Writers, SendPacket(w) PROVE Sending'
  <2>1. conn /\ Encrypt(w, Frame("packet", "clear", 2, <<>>)) BY <1>5 DEF SendPacket
  <2>2. ~(hs = "request" \/ srv = "start") BY <2>1 DEF Stages
  <2>3. PICK f \in Frames : f = Frame("packet", "clear", 2, <<>>) /\ f.what = "packet"
    BY FramesSent DEF Frame
  <2> QED BY <1>0, <1>4, <2>1, <2>2, <2>3
<1>6. CASE Respond
  <2>1. hs = "respond" /\ Encrypt(Connector, Frame("response", "clear", 1, <<>>))
    BY <1>6 DEF Respond
  <2>2. ~(hs = "request" \/ srv = "start") BY <2>1 DEF Stages
  <2>3. PICK f \in Frames : f = Frame("response", "clear", 1, <<>>) /\ f.what = "response"
    BY FramesSent DEF Frame
  <2> QED BY <1>0, <1>4, <2>1, <2>2, <2>3
<1>7. CASE ServerRequests
  <2>1. srv = "start" /\ srv' = "asked" /\ UNCHANGED <<link_vars, write_vars>>
    BY <1>7 DEF ServerRequests
  <2>2. ~conn /\ begun = <<>> BY <2>1 DEF Stages, Sending
  <2>3. DOMAIN begun' = {} BY <2>1, <2>2
  <2> QED BY <2>1, <2>2, <2>3 DEF Sending
<1>8. CASE Leave \/ ReadCell \/ ReadFails \/ Stall \/ Break
  BY <1>1, <1>8 DEF Leave, ReadCell, ReadFails, Fails, Stall, Break
<1>9. CASE GetRequest \/ ResponseSent \/ GetResult \/ Publish
  BY <1>1, <1>9 DEF GetRequest, ResponseSent, GetResult, Publish, Publishable, Fails
<1>10. CASE ServerResults \/ ServerSends
  BY <1>1, <1>10 DEF ServerResults, ServerSends
<1>11. CASE ReadPacket \/ HandleMulti \/ HandlePacket \/ HandleLoggedOff \/ UNCHANGED vars
  BY <1>1, <1>11 DEF ReadPacket, HandleMulti, HandlePacket, HandleLoggedOff, vars
<1> QED
  BY <1>2, <1>3, <1>5, <1>6, <1>7, <1>8, <1>9, <1>10, <1>11, Steps

\* After the handshake has failed, only the modes of what is on its way matter.
LEMMA ComingFailed ==
  ASSUME NEW fs \in Seq(Frames), Coming(fs), hs' = "failed", UNCHANGED srv_vars,
         NEW gs \in Seq(Frames), gs = fs \/ (fs # <<>> /\ gs = Tail(fs))
  PROVE  Coming(gs)'
<1>1. challenge' = challenge /\ srv' = srv BY DEF srv_vars
<1>2. CASE gs = fs BY <1>1, <1>2 DEF Coming
<1>3. CASE fs # <<>> /\ gs = Tail(fs)
  <2>1. PICK n \in Nat : n = Len(fs) /\ n # 0 BY <1>3, EmptySeq
  <2>2. PICK m \in Nat : m + 1 = n /\ m = Len(gs) /\ \A i \in 1..m : gs[i] = fs[i + 1]
    BY <1>3, <2>1, HeadTailProperties
  <2>3. ASSUME NEW i \in 1..m
        PROVE  gs[i].mode = IF gs[i].what = "message" THEN CipherFor(challenge) ELSE "clear"
    <3>1. PICK k \in 1..n : k = i + 1 BY <2>2
    <3>2. gs[i] = fs[k] BY <2>2, <3>1
    <3> QED BY <2>1, <3>2 DEF Coming
  <2>4. srv # "start" BY <1>3 DEF Coming
  <2> QED BY <1>1, <2>2, <2>3, <2>4 DEF Coming
<1> QED BY <1>2, <1>3

\* Packets after the first frame are all there is once that is taken.
LEMMA ComingMessages ==
  ASSUME NEW fs \in Seq(Frames), Coming(fs), fs # <<>>,
         \A i \in 2..Len(fs) : fs[i].what = "message",
         hs' \in {"secured", "connected"}, UNCHANGED srv_vars
  PROVE  Coming(Tail(fs))'
<1>1. challenge' = challenge /\ srv' = srv BY DEF srv_vars
<1>2. PICK n \in Nat : n = Len(fs) /\ n # 0 BY EmptySeq
<1>0. PICK gs \in Seq(Frames) : gs = Tail(fs) BY HeadTailProperties
<1>3. PICK m \in Nat : /\ gs = Tail(fs) /\ m + 1 = n /\ m = Len(gs)
                      /\ \A i \in 1..m : gs[i] = fs[i + 1]
  BY <1>0, <1>2, HeadTailProperties
<1>4. ASSUME NEW i \in 1..m
      PROVE  gs[i].what = "message" /\ gs[i].mode = CipherFor(challenge)
  <2>1. PICK k \in 2..n : k = i + 1 BY <1>3
  <2>2. gs[i] = fs[k] BY <1>3, <2>1
  <2> QED BY <1>2, <2>1, <2>2 DEF Coming
<1>5. srv # "start" BY DEF Coming
<1>6. Coming(gs)' BY <1>1, <1>3, <1>4, <1>5 DEF Coming
<1> QED BY <1>3, <1>6

\* The reader can open the first frame.
LEMMA FirstOpens ==
  ASSUME Types, Stages, NEW fs \in Seq(Frames), Stream(fs), Coming(fs), Reading, FrameRead
  PROVE  Opens(Incoming)
<1>1. fs # <<>> /\ fs[1] \in Frames /\ Incoming = fs[1] BY ReadIsFirst
<1>2. 1 \in 1..Len(fs) BY <1>1, EmptySeq
<1>3. hs \in {"request", "result", "connected"} BY DEF Reading
<1>4. fs[1].mode = IF fs[1].what = "message" THEN CipherFor(challenge) ELSE "clear"
  BY <1>2 DEF Coming
<1>5. CASE hs = "connected"
  <2>1. fs[1].what = "message" BY <1>2, <1>5 DEF Coming
  <2>2. cipher = CipherFor(challenge) BY <1>5 DEF Stages
  <2> QED BY <1>1, <1>4, <2>1, <2>2 DEF Opens
<1>6. CASE hs = "request"
  <2>1. fs[1].what # "message" BY <1>2, <1>6 DEF Coming
  <2>2. cipher = "clear" BY <1>6 DEF Stages
  <2> QED BY <1>1, <1>4, <2>1, <2>2 DEF Opens
<1>7. CASE hs = "result"
  <2>1. srv \in {"open", "over"} BY <1>1, <1>7 DEF Coming, Stages, Types, LinkTypes
  <2>2. fs[1].what # "message" BY <1>7, <2>1 DEF Coming
  <2>3. cipher = "clear" BY <1>7 DEF Stages
  <2> QED BY <1>1, <1>4, <2>2, <2>3 DEF Opens
<1> QED BY <1>3, <1>5, <1>6, <1>7

\* A frame added by the server keeps the modes right.
LEMMA ComingGrows ==
  ASSUME NEW fs \in Seq(Frames), Coming(fs), NEW f \in Frames, UNCHANGED <<hs, challenge>>,
         f.mode = IF f.what = "message" THEN CipherFor(challenge) ELSE "clear",
         hs # "request", srv' \in {"open", "over"},
         hs \in {"respond", "result"} =>
           IF f.what = "message"
           THEN srv = "open" /\ srv' = "open"
           ELSE fs = <<>> /\ (f.what = "result" /\ f.body = 1 => srv' = "open"),
         hs \in {"secured", "connected"} => f.what = "message"
  PROVE  Coming(Append(fs, f))'
<1>1. PICK n \in Nat : n = Len(fs) BY LenProperties
<1>0. PICK gs \in Seq(Frames) : gs = Append(fs, f) BY AppendProperties
<1>2. /\ gs = Append(fs, f) /\ gs # <<>> /\ Len(gs) = n + 1
      /\ \A i \in 1..n : gs[i] = fs[i]
      /\ gs[n + 1] = f
  BY <1>0, <1>1, AppendProperties
<1>3. ASSUME NEW i \in 1..(n + 1)
      PROVE  gs[i].mode = IF gs[i].what = "message" THEN CipherFor(challenge) ELSE "clear"
  <2>1. CASE i = n + 1 BY <1>2, <2>1
  <2>2. CASE i # n + 1
    <3>1. i \in 1..n BY <2>2
    <3> QED BY <1>1, <1>2, <3>1 DEF Coming
  <2> QED BY <2>1, <2>2
<1>4. ASSUME hs \in {"respond", "result"}
      PROVE  /\ gs[1].what # "message"
             /\ gs[1].what = "result" /\ gs[1].body = 1 => srv' = "open"
             /\ \A i \in 2..(n + 1) : gs[i].what = "message"
  <2>1. CASE f.what = "message"
    <3>1. srv = "open" /\ srv' = "open" BY <1>4, <2>1
    <3>2. fs # <<>> /\ fs[1].what # "message" /\ \A i \in 2..n : fs[i].what = "message"
      BY <1>1, <1>4, <3>1 DEF Coming
    <3>3. n # 0 BY <1>1, <3>2, EmptySeq
    <3>4. gs[1] = fs[1] BY <1>2, <3>3
    <3>5. ASSUME NEW i \in 2..(n + 1) PROVE gs[i].what = "message"
      <4>1. CASE i = n + 1 BY <1>2, <2>1, <4>1
      <4>2. CASE i # n + 1
        <5>1. i \in 1..n /\ i \in 2..n BY <4>2
        <5> QED BY <1>2, <3>2, <5>1
      <4> QED BY <4>1, <4>2
    <3> QED BY <3>1, <3>2, <3>4, <3>5
  <2>2. CASE f.what # "message"
    <3>1. fs = <<>> BY <1>4, <2>2
    <3>2. n = 0 BY <1>1, <3>1, EmptySeq
    <3>3. gs[1] = f BY <1>2, <3>2
    <3> QED BY <1>4, <2>2, <3>2, <3>3
  <2> QED BY <2>1, <2>2
<1>5. ASSUME hs \in {"secured", "connected"}, NEW i \in 1..(n + 1) PROVE gs[i].what = "message"
  <2>1. CASE i = n + 1 BY <1>2, <1>5, <2>1
  <2>2. CASE i # n + 1
    <3>1. i \in 1..n BY <2>2
    <3> QED BY <1>1, <1>2, <1>5, <3>1 DEF Coming
  <2> QED BY <2>1, <2>2
<1>6. Coming(gs)' BY <1>2, <1>3, <1>4, <1>5 DEF Coming
<1> QED BY <1>2, <1>6

\* Every step keeps the stream readable.
LEMMA ReadableKept ==
  ASSUME Types, Stages, Sending, Readable, [Next]_vars
  PROVE  Readable'
<1> USE DEF link_vars, write_vars, read_vars, srv_vars
<1>0. PICK fs \in Seq(Frames) : Stream(fs) /\ Coming(fs) BY DEF Readable
<1>1. readErr \notin {"magic", "decrypt"} BY DEF Readable
<1>2. ASSUME UNCHANGED <<toClient, got, readErr, hs, srv, challenge>> PROVE Readable'
  <2>1. Stream(fs)' /\ Coming(fs)' BY <1>0, <1>2 DEF Stream, Coming
  <2> QED BY <1>1, <1>2, <2>1 DEF Readable
<1>3. ASSUME NEW p \in Senders, Lock(p) \/ WriteCell(p) \/ Written(p) \/ WriteFails(p)
      PROVE  Readable'
  BY <1>2, <1>3 DEF Lock, WriteCell, Written, WriteFails
<1>4. ASSUME NEW w \in Writers, SendPacket(w) PROVE Readable'
  BY <1>2, <1>4 DEF SendPacket, Encrypt
<1>5. CASE Leave \/ Respond \/ Stall \/ Break
  BY <1>2, <1>5 DEF Leave, Respond, Encrypt, Stall, Break
<1>6. CASE HandleMulti \/ HandlePacket \/ HandleLoggedOff \/ UNCHANGED vars
  BY <1>2, <1>6 DEF HandleMulti, HandlePacket, HandleLoggedOff, vars
<1>7. ASSUME NEW what, Receive(what)
      PROVE  /\ readErr' = readErr /\ fs # <<>> /\ Incoming = fs[1] /\ fs[1].what = what
             /\ Tail(fs) \in Seq(Frames) /\ Stream(Tail(fs))'
  BY <1>0, <1>7, StreamShrinks DEF Receive
<1>8. ASSUME NEW what, Receive(what), Fails, UNCHANGED srv_vars PROVE Readable'
  <2>1. Coming(Tail(fs))' BY <1>0, <1>7, <1>8, ComingFailed DEF Fails
  <2> QED BY <1>1, <1>7, <1>8, <2>1 DEF Readable
<1>9. CASE GetRequest
  <2>1. hs = "request" /\ UNCHANGED srv_vars BY <1>9 DEF GetRequest
  <2>2. CASE Receive("request") /\ hs' = "respond"
    <3>1. PICK gs \in Seq(Frames) : gs = Tail(fs) /\ fs # <<>> /\ Stream(gs)'
      BY <1>7, <2>2
    <3>2. PICK n \in Nat : n = Len(fs) /\ n # 0 BY <3>1, EmptySeq
    <3>3. n = 1 BY <1>0, <2>1, <3>2 DEF Coming
    <3>4. Len(gs) = 0
      <4>1. Len(Tail(fs)) = n - 1 BY <3>1, <3>2, HeadTailProperties
      <4> QED BY <3>1, <3>3, <4>1
    <3>5. gs = <<>> BY <3>4, EmptySeq
    <3>6. srv = "asked" BY <1>9, HandshakeAgrees
    <3>7. Coming(gs)' BY <2>1, <2>2, <3>4, <3>5, <3>6 DEF Coming
    <3> QED BY <1>1, <1>7, <2>2, <3>1, <3>7 DEF Readable
  <2>3. CASE Receive("request") /\ Fails BY <1>8, <2>1, <2>3
  <2>4. CASE Receive("result") /\ Fails BY <1>8, <2>1, <2>4
  <2> QED BY <1>9, <2>2, <2>3, <2>4 DEF GetRequest
<1>10. CASE ResponseSent
  <2>1. hs = "respond" /\ UNCHANGED <<read_vars, srv_vars>> BY <1>10 DEF ResponseSent
  <2>2. Stream(fs)' BY <1>0, <2>1 DEF Stream
  <2>3. Coming(fs)'
    <3>1. CASE hs' = "result" BY <1>0, <2>1, <3>1 DEF Coming
    <3>2. CASE Fails BY <1>0, <2>1, <3>2, ComingFailed DEF Fails
    <3> QED BY <1>10, <3>1, <3>2 DEF ResponseSent
  <2> QED BY <1>1, <2>1, <2>2, <2>3 DEF Readable
<1>11. CASE GetResult
  <2>1. hs = "result" /\ UNCHANGED srv_vars BY <1>11 DEF GetResult
  <2>2. CASE Receive("result") /\ Incoming.body = 1 /\ hs' = "secured"
    <3>1. srv = "open" BY <1>11, <2>2, HandshakeAgrees
    <3>2. fs # <<>> BY <1>7, <2>2
    <3>3. \A i \in 2..Len(fs) : fs[i].what = "message" BY <1>0, <2>1, <3>1 DEF Coming
    <3>4. Coming(Tail(fs))' BY <1>0, <2>1, <2>2, <3>2, <3>3, ComingMessages
    <3> QED BY <1>1, <1>7, <2>2, <3>4 DEF Readable
  <2>3. CASE Receive("result") /\ Fails BY <1>8, <2>1, <2>3
  <2>4. CASE Receive("request") /\ Fails BY <1>8, <2>1, <2>4
  <2> QED BY <1>11, <2>2, <2>3, <2>4 DEF GetResult
<1>12. CASE Publish
  <2>1. hs = "secured" /\ hs' = "connected" /\ UNCHANGED <<read_vars, srv_vars>>
    BY <1>12 DEF Publish, Publishable
  <2>2. Stream(fs)' /\ Coming(fs)' BY <1>0, <2>1 DEF Stream, Coming
  <2> QED BY <1>1, <2>1, <2>2 DEF Readable
<1>13. CASE ReadCell
  <2>1. UNCHANGED <<readErr, hs, srv, challenge>> BY <1>13 DEF ReadCell
  <2>2. Stream(fs)' BY <1>0, <1>13, StreamMoves
  <2>3. Coming(fs)' BY <1>0, <2>1 DEF Coming
  <2> QED BY <1>1, <2>1, <2>2, <2>3 DEF Readable
<1>14. CASE ReadFails
  <2>1. Reading /\ UNCHANGED <<toClient, got, srv_vars>> BY <1>14 DEF ReadFails
  <2>2. Stream(fs)' BY <1>0, <2>1 DEF Stream
  <2>3. Coming(fs)'
    <3>1. CASE hs = "connected" BY <1>0, <1>14, <2>1, <3>1 DEF ReadFails, Coming
    <3>2. CASE hs # "connected" BY <1>0, <1>14, <2>1, <3>2, ComingFailed DEF ReadFails, Fails
    <3> QED BY <3>1, <3>2
  <2>4. PICK why \in {"closed", "magic", "decrypt"} : Spoilt(why) /\ readErr' = why
    BY <1>14 DEF ReadFails
  <2>5. why # "magic"
    <3> SUFFICES ASSUME Len(got) = 2, ~ValidMagic PROVE FALSE
      BY <2>4 DEF Spoilt
    <3>1. got # <<>> BY EmptySeq
    <3>2. got[1] = <<fs[1], 1>> /\ got[2] = <<fs[1], 2>> BY <1>0, <3>1, GotIsFirst
    <3> QED BY <3>2 DEF ValidMagic
  <2>6. why # "decrypt" BY <1>0, <2>1, <2>4, FirstOpens DEF Spoilt
  <2> QED BY <2>2, <2>3, <2>4, <2>5, <2>6 DEF Readable
<1>15. CASE ServerRequests
  <2>1. PICK n \in BodyLengths, what \in {"request", "result"} :
          ServerWrites(Frame(what, "clear", 1, n)) /\ challenge' = (n >= 24)
    BY <1>15 DEF ServerRequests
  <2>2. srv = "start" /\ srv' = "asked" /\ UNCHANGED link_vars BY <1>15 DEF ServerRequests
  <2>3. PICK f \in Frames : f = Frame(what, "clear", 1, n) BY FramesSent
  <2>4. f.what = what /\ f.mode = "clear" /\ f.body = n BY <2>3 DEF Frame
  <2>5. PICK gs \in Seq(Frames) : gs = Append(fs, f) /\ Stream(gs)'
    BY <1>0, <2>1, <2>3, StreamGrows
  <2>6. fs = <<>> BY <1>0, <2>2 DEF Coming
  <2>7. Len(fs) = 0 BY <2>6, EmptySeq
  <2>8. Len(gs) = 1 /\ gs[1] = f BY <2>5, <2>7, AppendProperties
  <2>9. challenge' = HasChallenge(f.body) BY <2>1, <2>4 DEF HasChallenge
  <2>10. hs' \in {"request", "failed"} BY <2>2 DEF Stages
  <2>11. Coming(gs)' BY <2>2, <2>4, <2>8, <2>9, <2>10 DEF Coming
  <2> QED BY <1>1, <2>1, <2>5, <2>11 DEF Readable, ServerWrites
<1>16. CASE ServerResults
  <2>1. PICK n \in {1, 2}, what \in {"request", "result"} :
          /\ ServerWrites(Frame(what, "clear", 1, n))
          /\ srv' = IF n = 1 /\ what = "result" THEN "open" ELSE "over"
    BY <1>16 DEF ServerResults
  <2>2. srv = "asked" /\ begun # <<>> /\ UNCHANGED <<link_vars, challenge>>
    BY <1>16 DEF ServerResults
  <2>3. PICK f \in Frames : f = Frame(what, "clear", 1, n) BY FramesSent
  <2>4. f.what = what /\ f.mode = "clear" /\ f.body = n BY <2>3 DEF Frame
  <2>5. Append(fs, f) \in Seq(Frames) /\ Stream(Append(fs, f))'
    BY <1>0, <2>1, <2>3, StreamGrows
  <2>6. hs # "request" /\ hs \notin {"secured", "connected"} BY <2>2 DEF Sending, Stages
  <2>7. hs \in {"respond", "result"} => fs = <<>> BY <1>0, <2>2 DEF Coming
  <2>8. srv' \in {"open", "over"} /\ (f.what = "result" /\ f.body = 1 => srv' = "open")
    BY <2>1, <2>4
  <2>9. Coming(Append(fs, f))' BY <1>0, <2>2, <2>4, <2>6, <2>7, <2>8, ComingGrows
  <2> QED BY <1>1, <2>1, <2>5, <2>9 DEF Readable, ServerWrites
<1>17. CASE ServerSends
  <2>1. /\ srv = "open" /\ script # <<>>
        /\ ServerWrites(Frame("message", CipherFor(challenge), 2, Head(script)))
        /\ UNCHANGED <<srv, challenge, link_vars>>
    BY <1>17 DEF ServerSends
  <2>2. CipherFor(challenge) \in Modes BY DEF CipherFor, Modes
  <2>3. Head(script) \in Packets BY <2>1, HeadTailProperties DEF Types, StreamTypes
  <2>4. PICK f \in Frames : f = Frame("message", CipherFor(challenge), 2, Head(script))
    BY <2>2, <2>3, FramesSent
  <2>5. f.what = "message" /\ f.mode = CipherFor(challenge) BY <2>4 DEF Frame
  <2>6. Append(fs, f) \in Seq(Frames) /\ Stream(Append(fs, f))'
    BY <1>0, <2>1, <2>4, StreamGrows
  <2>7. hs # "request" BY <2>1 DEF Stages
  <2>8. Coming(Append(fs, f))' BY <1>0, <2>1, <2>5, <2>7, ComingGrows
  <2> QED BY <1>1, <2>1, <2>6, <2>8 DEF Readable, ServerWrites
<1>18. CASE ReadPacket
  <2>1. hs = "connected" /\ Receive("message") /\ UNCHANGED <<hs, srv_vars>>
    BY <1>18 DEF ReadPacket
  <2>2. \A i \in 2..Len(fs) : fs[i].what = "message"
    <3>1. PICK n \in Nat : n = Len(fs) BY LenProperties
    <3>2. \A i \in 2..n : i \in 1..n OBVIOUS
    <3> QED BY <1>0, <2>1, <3>1, <3>2 DEF Coming
  <2>3. fs # <<>> BY <1>7, <2>1
  <2>4. Coming(Tail(fs))' BY <1>0, <2>1, <2>2, <2>3, ComingMessages
  <2> QED BY <1>1, <1>7, <2>1, <2>4 DEF Readable
<1> QED
  BY <1>3, <1>4, <1>5, <1>6, <1>9, <1>10, <1>11, <1>12, <1>13, <1>14, <1>15, <1>16, <1>17,
     <1>18, Steps

-----------------------------------------------------------------------------
(* Writing.                                                                *)

\* What is written is the beginning of the frames begun, and on a connection
\* that is not gone it lacks at most the rest of the one in hand.
Partly(p, whole) ==
  /\ begun = Append(whole, out[p])
  /\ put[p] <= 2 + out[p].size
  /\ toServer = Flat(whole) \o SubSeq(Cells(out[p]), 1, put[p])

Writing ==
  /\ \A p \in Senders : pc[p] = "write" <=> mu = p
  /\ \A p \in Senders : pc[p] \in {"idle", "lock"} => put[p] = 0
  /\ \E rest \in Seq(CellSet) : toServer \o rest = Flat(begun)
  /\ ~Gone => IF mu = NoOne THEN toServer = Flat(begun)
              ELSE \E whole \in Seq(Frames) : Partly(mu, whole)

\* The first of a frame's cells and the others make all of them.
LEMMA CellsSplit ==
  ASSUME NEW f \in Frames, NEW k \in Nat, k <= 2 + f.size
  PROVE  /\ SubSeq(Cells(f), 1, k) \in Seq(CellSet)
         /\ \E rest \in Seq(CellSet) : SubSeq(Cells(f), 1, k) \o rest = Cells(f)
         /\ k < 2 + f.size =>
              SubSeq(Cells(f), 1, k + 1) = SubSeq(Cells(f), 1, k) \o <<Cells(f)[k + 1]>>
         /\ k = 2 + f.size => SubSeq(Cells(f), 1, k) = Cells(f)
<1>1. PICK s \in Seq(CellSet) : s = Cells(f) BY CellsAre
<1>2. PICK n \in Nat : n = Len(s) /\ n = 2 + f.size /\ n >= 2 BY <1>1, CellsAre
<1>3. \A i \in 1..n : s[i] \in CellSet BY <1>2, ElementOfSeq
<1>4. \A i \in 1..k : s[i] \in CellSet BY <1>2, <1>3
<1>5. SubSeq(s, 1, k) \in Seq(CellSet) BY <1>4, SubSeqProperties
<1>6. \A i \in (k + 1)..n : s[i] \in CellSet BY <1>3
<1>7. SubSeq(s, k + 1, n) \in Seq(CellSet) BY <1>6, SubSeqProperties
<1>8. SubSeq(s, 1, k) \o SubSeq(s, k + 1, n) = s
  <2>1. 1 \in 1..(n + 1) /\ k \in (1 - 1)..n /\ n \in k..n BY <1>2
  <2>2. SubSeq(s, 1, k) \o SubSeq(s, k + 1, n) = SubSeq(s, 1, n)
    BY <1>2, <2>1, ConcatAdjacentSubSeq
  <2>3. SubSeq(s, 1, n) = s BY <1>2, SubSeqFull
  <2> QED BY <2>2, <2>3
<1>9. ASSUME k < n PROVE SubSeq(s, 1, k + 1) = SubSeq(s, 1, k) \o <<s[k + 1]>>
  <2>1. PICK j \in 1..n : j = k + 1 BY <1>9
  <2>2. SubSeq(s, 1, j) = SubSeq(s, 1, j - 1) \o <<s[j]>>
    BY <1>2, <2>1, SubSeqRecursiveSecond
  <2>3. j - 1 = k BY <2>1
  <2> QED BY <2>1, <2>2, <2>3
<1>10. k = n => SubSeq(s, 1, k) = s BY <1>2, SubSeqFull
<1> QED BY <1>1, <1>2, <1>5, <1>7, <1>8, <1>9, <1>10

\* Steps that leave the writers' state, and do not bring a connection back.
LEMMA WritingFrame ==
  ASSUME Writing, UNCHANGED <<mu, pc, out, put, toServer, begun>>, Gone => Gone'
  PROVE  Writing'
<1>1. \A p, whole : Partly(p, whole)' <=> Partly(p, whole) BY DEF Partly
<1>2. (~Gone)' => ~Gone OBVIOUS
<1>3. (~Gone)' => IF mu' = NoOne THEN toServer' = Flat(begun')
                  ELSE \E whole \in Seq(Frames) : Partly(mu, whole)'
  <2> HIDE DEF Gone
  <2> QED BY <1>1, <1>2 DEF Writing
<1> QED BY <1>3 DEF Writing, Partly

\* Every step keeps what is written.
LEMMA WritingKept ==
  ASSUME Types, Stages, Sending, Readable, Writing, [Next]_vars
  PROVE  Writing'
<1> USE DEF link_vars, write_vars, read_vars, srv_vars
<1>0. WriteTypes /\ Connector \notin Writers /\ NoOne \notin Senders
      /\ Senders = Writers \cup {Connector} /\ toServer \in Seq(CellSet)
  BY WritersAssumption DEF Types, Senders, StreamTypes
<1>1. PICK rest \in Seq(CellSet) : toServer \o rest = Flat(begun) BY DEF Writing
<1>2. ASSUME NEW p \in Senders, Lock(p) PROVE Writing'
  <2>1. /\ pc[p] = "lock" /\ mu = NoOne /\ mu' = p /\ pc' = [pc EXCEPT ![p] = "write"]
        /\ begun' = Append(begun, out[p]) /\ UNCHANGED <<out, put, toServer, link>>
    BY <1>2 DEF Lock, Free
  <2>2. out[p] \in Frames /\ begun \in Seq(Frames) /\ put[p] = 0
    BY <1>0, <2>1 DEF WriteTypes, Writing
  <2>3. Flat(begun) \in Seq(CellSet) /\ Flat(begun') = Flat(begun) \o Cells(out[p])
        /\ Cells(out[p]) \in Seq(CellSet) /\ out[p].size \in 0..2
    BY <2>1, <2>2, FlatAppend, CellsAre
  <2>4. \E r \in Seq(CellSet) : toServer' \o r = Flat(begun')
    <3>1. PICK c \in Seq(CellSet) : c = Cells(out[p]) BY <2>3
    <3>2. (toServer \o rest) \o c = toServer \o (rest \o c)
      BY <1>0, <1>1, <3>1, CellsJoin, Zenon
    <3>3. rest \o c \in Seq(CellSet) BY <1>1, <3>1, ConcatProperties
    <3> QED BY <1>1, <2>1, <2>3, <3>1, <3>2, <3>3
  <2>5. \A q \in Senders : pc'[q] = "write" <=> mu' = q
    BY <1>0, <2>1 DEF WriteTypes, Writing
  <2>6. \A q \in Senders : pc'[q] \in {"idle", "lock"} => put'[q] = 0
    BY <1>0, <2>1 DEF WriteTypes, Writing
  <2>7. PICK w \in Seq(Frames) : w = begun BY <2>2
  <2>8. ASSUME ~Gone PROVE Partly(p, w)'
    <3>1. toServer = Flat(w) BY <2>1, <2>7, <2>8 DEF Writing
    <3>2. SubSeq(Cells(out[p]), 1, put[p]) = <<>> BY <2>2, SubSeqEmpty
    <3>3. toServer = Flat(w) \o SubSeq(Cells(out[p]), 1, put[p])
      BY <2>3, <2>7, <3>1, <3>2, ConcatEmptySeq
    <3>4. put[p] <= 2 + out[p].size BY <2>2, <2>3
    <3> QED BY <2>1, <2>7, <3>3, <3>4 DEF Partly
  <2>9. (~Gone)' => ~Gone BY <2>1 DEF Gone
  <2>10. (~Gone)' => \E whole \in Seq(Frames) : Partly(mu, whole)'
    BY <2>1, <2>7, <2>8, <2>9 DEF Partly
  <2> QED BY <1>0, <2>1, <2>4, <2>5, <2>6, <2>10 DEF Writing
<1>3. ASSUME NEW p \in Senders, WriteCell(p) PROVE Writing'
  <2>1. /\ pc[p] = "write" /\ link = "up" /\ put[p] < 2 + out[p].size
        /\ put' = [put EXCEPT ![p] = put[p] + 1]
        /\ toServer' = Append(toServer, Cells(out[p])[put'[p]])
        /\ UNCHANGED <<mu, pc, out, begun, link>>
    BY <1>3 DEF WriteCell
  <2>2. mu = p /\ ~Gone BY <2>1 DEF Writing, Gone
  <2>3. PICK whole \in Seq(Frames) : Partly(p, whole) BY <1>0, <2>2 DEF Writing
  <2>4. PICK f \in Frames : f = out[p] BY <1>0 DEF WriteTypes
  <2>5. PICK k \in Nat : k = put[p] BY <1>0 DEF WriteTypes
  <2>6. k < 2 + f.size /\ f.size \in 0..2 /\ k + 1 <= 2 + f.size /\ k <= 2 + f.size
    BY <2>1, <2>4, <2>5, CellsAre
  <2>7. put'[p] = k + 1 /\ \A q \in Senders \ {p} : put'[q] = put[q]
    BY <1>0, <2>1, <2>5 DEF WriteTypes
  <2>8. PICK s \in Seq(CellSet) : s = SubSeq(Cells(f), 1, k) BY <2>6, CellsSplit
  <2>9. k + 1 \in Nat BY <2>5
  <2>10. PICK t \in Seq(CellSet), r \in Seq(CellSet) :
           t = SubSeq(Cells(f), 1, k + 1) /\ t \o r = Cells(f)
    BY <2>6, <2>9, CellsSplit
  <2>11. PICK c \in CellSet : c = Cells(f)[k + 1]
    <3>1. PICK j \in 1..(2 + f.size) : j = k + 1 BY <2>5, <2>6
    <3> QED BY <3>1, CellsAre, ElementOfSeq
  <2>12. t = s \o <<c>> BY <2>6, <2>8, <2>10, <2>11, CellsSplit
  <2>13. PICK a \in Seq(CellSet) : a = Flat(whole) BY <2>4, FlatAppend
  <2>14. toServer = a \o s BY <2>3, <2>4, <2>5, <2>8, <2>13 DEF Partly
  <2>15. toServer' = toServer \o <<c>>
    BY <1>0, <2>1, <2>4, <2>7, <2>11, AppendIsConcat
  <2>16. toServer' = a \o t
    <3>1. <<c>> \in Seq(CellSet) BY <2>11
    <3>2. (a \o s) \o <<c>> = a \o (s \o <<c>>) BY CellsJoin, <3>1, Zenon
    <3> QED BY <2>12, <2>14, <2>15, <3>2
  <2>17. toServer' \o r = Flat(begun)
    <3>1. (a \o t) \o r = a \o (t \o r) BY CellsJoin, Zenon
    <3>2. Flat(begun) = a \o Cells(f) BY <2>3, <2>4, <2>13, FlatAppend DEF Partly
    <3> QED BY <2>10, <2>16, <3>1, <3>2
  <2>18. Partly(p, whole)' BY <2>1, <2>3, <2>4, <2>6, <2>7, <2>10, <2>13, <2>16 DEF Partly
  <2>19. \A q \in Senders : pc'[q] \in {"idle", "lock"} => put'[q] = 0
    BY <2>1, <2>7 DEF Writing
  <2>20. \E q \in Seq(CellSet) : toServer' \o q = Flat(begun') BY <2>1, <2>17
  <2>21. mu' = p /\ mu' # NoOne BY <1>0, <2>1, <2>2
  <2>22. \E w \in Seq(Frames) : Partly(mu, w)' BY <2>18, <2>21 DEF Partly
  <2>23. \A q \in Senders : pc'[q] = "write" <=> mu' = q BY <2>1 DEF Writing
  <2> QED BY <2>19, <2>20, <2>21, <2>22, <2>23 DEF Writing
<1>4. ASSUME NEW p \in Senders, Written(p) \/ WriteFails(p) PROVE Writing'
  <2>1. /\ pc[p] = "write" /\ mu' = NoOne
        /\ \E end \in {"ok", "err"} : pc' = [pc EXCEPT ![p] = end]
        /\ UNCHANGED <<out, put, toServer, begun, link>>
    BY <1>4 DEF Written, WriteFails, Unlocked
  <2>2. mu = p BY <2>1 DEF Writing
  <2>3. \A q \in Senders : pc'[q] = "write" <=> mu' = q
    BY <1>0, <2>1, <2>2 DEF WriteTypes, Writing
  <2>4. \A q \in Senders : pc'[q] \in {"idle", "lock"} => put'[q] = 0
    BY <1>0, <2>1 DEF WriteTypes, Writing
  <2>5. (~Gone)' => toServer' = Flat(begun')
    <3> SUFFICES ASSUME ~Gone PROVE toServer = Flat(begun)
      BY <2>1 DEF Gone
    <3>1. put[p] = 2 + out[p].size BY <1>4 DEF Written, WriteFails
    <3>2. PICK whole \in Seq(Frames) : Partly(p, whole) BY <1>0, <2>2 DEF Writing
    <3>3. PICK f \in Frames : f = out[p] BY <1>0 DEF WriteTypes
    <3>4. put[p] \in Nat BY <1>0 DEF WriteTypes
    <3>5. SubSeq(Cells(f), 1, put[p]) = Cells(f)
      <4>1. put[p] <= 2 + f.size BY <3>1, <3>3, <3>4
      <4> QED BY <3>1, <3>3, <3>4, <4>1, CellsSplit
    <3>6. Flat(begun) = Flat(whole) \o Cells(f) BY <3>2, <3>3, FlatAppend DEF Partly
    <3> QED BY <3>2, <3>3, <3>5, <3>6 DEF Partly
  <2>6. \E q \in Seq(CellSet) : toServer' \o q = Flat(begun') BY <1>1, <2>1
  <2> QED BY <2>1, <2>3, <2>4, <2>5, <2>6 DEF Writing
<1>5. ASSUME NEW p \in Senders, NEW f, Encrypt(p, f) PROVE Writing'
  <2>1. /\ pc[p] = "idle" /\ out' = [out EXCEPT ![p] = Sealed(f)] /\ pc' = [pc EXCEPT ![p] = "lock"]
        /\ UNCHANGED <<mu, put, toServer, begun, link>>
    BY <1>5 DEF Encrypt
  <2>2. mu # p BY <2>1 DEF Writing
  <2>3. \A q \in Senders : pc'[q] = "write" <=> mu' = q
    BY <1>0, <2>1, <2>2 DEF WriteTypes, Writing
  <2>4. \A q \in Senders : pc'[q] \in {"idle", "lock"} => put'[q] = 0
    BY <1>0, <2>1 DEF WriteTypes, Writing
  <2>5. \E q \in Seq(CellSet) : toServer' \o q = Flat(begun') BY <1>1, <2>1
  <2>6. mu # NoOne => mu \in Senders /\ out'[mu] = out[mu]
    BY <1>0, <2>1, <2>2 DEF WriteTypes
  <2>7. (~Gone)' => ~Gone BY <2>1 DEF Gone
  <2>8. (~Gone)' => IF mu' = NoOne THEN toServer' = Flat(begun')
                    ELSE \E whole \in Seq(Frames) : Partly(mu, whole)'
    <3> SUFFICES ASSUME ~Gone
                 PROVE  IF mu = NoOne THEN toServer = Flat(begun)
                        ELSE \E whole \in Seq(Frames) : Partly(mu, whole)'
      BY <2>1, <2>7
    <3>1. CASE mu = NoOne BY <3>1 DEF Writing
    <3>2. CASE mu # NoOne
      <4>1. PICK whole \in Seq(Frames) : Partly(mu, whole) BY <3>2 DEF Writing
      <4>2. Partly(mu, whole)' BY <2>1, <2>6, <3>2, <4>1 DEF Partly
      <4> QED BY <3>2, <4>2
    <3> QED BY <3>1, <3>2
  <2> QED BY <2>3, <2>4, <2>5, <2>8 DEF Writing, Partly
<1>6. ASSUME NEW w \in Writers, SendPacket(w) PROVE Writing'
  BY <1>0, <1>5, <1>6 DEF SendPacket
<1>7. CASE Respond BY <1>0, <1>5, <1>7 DEF Respond
<1>8. CASE Leave \/ GetRequest \/ ResponseSent \/ GetResult \/ Publish
  BY <1>8, WritingFrame DEF Leave, GetRequest, ResponseSent, GetResult, Publish, Fails, Gone
<1>9. CASE ReadCell \/ ReadFails \/ Stall \/ Break
  BY <1>9, WritingFrame DEF ReadCell, ReadFails, Stall, Break, Fails, Gone
<1>10. CASE ServerRequests \/ ServerResults \/ ServerSends
  BY <1>10, WritingFrame DEF ServerRequests, ServerResults, ServerSends, Gone
<1>11. CASE ReadPacket \/ HandleMulti \/ HandlePacket \/ HandleLoggedOff \/ UNCHANGED vars
  BY <1>11, WritingFrame
  DEF ReadPacket, HandleMulti, HandlePacket, HandleLoggedOff, AfterLogOff, Gone, vars
<1> QED
  BY <1>2, <1>3, <1>4, <1>6, <1>7, <1>8, <1>9, <1>10, <1>11, Steps

-----------------------------------------------------------------------------
(* What the application is told of a packet.                               *)

\* OnPacket's callbacks, and those of the type-specific handlers.
LogOff == <<"OnPacket", "LoggedOff">>
HandlerNames == {"OnRelationship", "OnPersonaState", "OnFriendMessage", "OnTradeNotification",
                 "OnItemNotification", "OnGCMessage", "tf2"}
OtherCalls == HandlerNames \X Int
CallSet == OtherCalls \cup ({"OnPacket"} \X {p.emsg : p \in Packets})

\* The loops over entries make a callback for each.
LEMMA CallsAre ==
  ASSUME NEW name \in HandlerNames, NEW entries \in Seq(Int)
  PROVE  Calls(name, entries) \in Seq(OtherCalls)
<1>1. PICK n \in Nat : n = Len(entries) /\ DOMAIN entries = 1..n BY LenProperties
<1>2. \A i \in 1..n : <<name, entries[i]>> \in OtherCalls
  BY <1>1, ElementOfSeq DEF OtherCalls
<1> HIDE DEF OtherCalls
<1>3. Calls(name, entries) \in [1..n -> OtherCalls] BY <1>1, <1>2 DEF Calls
<1> QED BY <1>3, SeqDef

\* Trade offers are entries.
LEMMA TradeOffersAre ==
  ASSUME NEW entries \in Seq(Int)
  PROVE  TradeOffers(entries) \in Seq(Int)
<1> DEFINE F == [e \in Int |-> IF e > 0 THEN <<e>> ELSE <<>>]
<1>1. F \in Makers(Int, Int) BY EmptySeq DEF Makers
<1>2. \A i \in DOMAIN entries : entries[i] \in Int BY LenProperties, ElementOfSeq
<1>3. TradeOffers(entries) = Each(F, entries) BY <1>2 DEF TradeOffers, Each
<1> HIDE DEF F
<1>4. PICK I : I = Int OBVIOUS
<1>5. PICK e \in Seq(I) : e = entries BY <1>4
<1>6. F \in Makers(I, I) BY <1>1, <1>4
<1>7. Each(F, e) \in Seq(I) BY <1>6, EachJoin
<1> QED BY <1>3, <1>4, <1>5, <1>7

\* The handlers' callbacks are none of OnPacket's.
LEMMA HandlersAre ==
  ASSUME NEW p \in Packets
  PROVE  Handlers(p) \in Seq(OtherCalls)
<1>1. p.entries \in Seq(Int) BY PacketsAssumption
<1>2. TradeOffers(p.entries) \in Seq(Int) BY <1>1, TradeOffersAre
<1>3. <<>> \in Seq(OtherCalls) BY EmptySeq
<1>0. \A name \in HandlerNames, entries \in Seq(Int) : Calls(name, entries) \in Seq(OtherCalls)
  BY CallsAre
<1>4. /\ Calls("OnRelationship", p.entries) \in Seq(OtherCalls)
      /\ Calls("OnPersonaState", p.entries) \in Seq(OtherCalls)
      /\ Calls("OnFriendMessage", p.entries) \in Seq(OtherCalls)
      /\ Calls("OnTradeNotification", TradeOffers(p.entries)) \in Seq(OtherCalls)
      /\ Calls("OnItemNotification", p.entries) \in Seq(OtherCalls)
      /\ Calls("OnGCMessage", p.entries) \in Seq(OtherCalls)
      /\ Calls("tf2", p.entries) \in Seq(OtherCalls)
  BY <1>0, <1>1, <1>2 DEF HandlerNames
<1> HIDE DEF OtherCalls
<1> QED BY <1>3, <1>4 DEF Handlers

\* Among the callbacks of a packet is the one that ends the connection only if it is a LoggedOff.
LEMMA CallbacksAre ==
  ASSUME NEW p \in Packets
  PROVE  /\ Callbacks(p) \in Seq(CallSet)
         /\ p.emsg # "LoggedOff" => LogOff \notin Range(Callbacks(p))
<1>1. Handlers(p) \in Seq(OtherCalls) BY HandlersAre
<1>2. OtherCalls \subseteq CallSet BY DEF CallSet
<1>3. PICK h \in Seq(CallSet) : h = Handlers(p) BY <1>1, <1>2, SeqMonotonic
<1>4. PICK c \in CallSet : c = <<"OnPacket", p.emsg>> BY DEF CallSet
<1>5. Callbacks(p) = Append(h, c) BY <1>3, <1>4 DEF Callbacks
<1>6. <<c>> \in Seq(CallSet) BY <1>4
<1>7. PICK t \in Seq(CallSet) : t = <<c>> BY <1>6
<1>8. Append(h, c) = h \o t BY <1>7, AppendIsConcat
<1>9. Range(h \o t) = Range(h) \cup Range(t) BY RangeConcatenation
<1>10. LogOff \notin Range(h)
  <2>1. Range(h) \subseteq OtherCalls BY <1>1, <1>3, RangeOfSeq
  <2>2. LogOff \notin OtherCalls BY DEF LogOff, OtherCalls, HandlerNames
  <2> QED BY <2>1, <2>2
<1>11. Range(t) = {c} BY <1>7 DEF Range
<1>12. p.emsg # "LoggedOff" => c # LogOff BY <1>4 DEF LogOff
<1>13. Append(h, c) \in Seq(CallSet) BY AppendProperties
<1> QED BY <1>5, <1>8, <1>9, <1>10, <1>11, <1>12, <1>13

\* A function can be applied again and again, from any x.
Applied(g, G, x, N) == g[0] = x /\ \A n \in 1..N : g[n] = G[g[n - 1]]

LEMMA Iteration ==
  ASSUME NEW X, NEW x \in X, NEW G \in [X -> X], NEW N \in Nat
  PROVE  \E g \in [0..N -> X] : Applied(g, G, x, N)
<1> USE DEF Applied
<1> DEFINE Starts(g, m) == g[0] = x /\ \A n \in 1..m : g[n] = G[g[n - 1]]
           S == {m \in Nat : \E g \in [0..m -> X] : Starts(g, m)}
<1> SUFFICES N \in S
  OBVIOUS
<1>1. 0 \in S
  <2> DEFINE g == [n \in 0..0 |-> x]
  <2>1. g \in [0..0 -> X] /\ Starts(g, 0) OBVIOUS
  <2> HIDE DEF g, Starts
  <2> QED BY <2>1
<1>2. ASSUME NEW m \in Nat, m \in S PROVE m + 1 \in S
  <2>1. PICK g \in [0..m -> X] : Starts(g, m) BY <1>2
  <2> DEFINE h == [n \in 0..(m + 1) |-> IF n = m + 1 THEN G[g[m]] ELSE g[n]]
  <2>2. h \in [0..(m + 1) -> X] OBVIOUS
  <2>3. h[0] = x BY <2>1
  <2>4. ASSUME NEW n \in 1..(m + 1) PROVE h[n] = G[h[n - 1]]
    <3>1. CASE n = m + 1
      <4>1. h[n] = G[g[m]] /\ h[n - 1] = g[m] BY <3>1
      <4> QED BY <4>1
    <3>2. CASE n # m + 1
      <4>1. n \in 1..m /\ h[n] = g[n] /\ h[n - 1] = g[n - 1] BY <3>2
      <4> QED BY <2>1, <4>1
    <3> QED BY <3>1, <3>2
  <2> HIDE DEF h
  <2>5. Starts(h, m + 1) BY <2>3, <2>4
  <2> HIDE DEF ChunkStarts
  <2> QED BY <2>2, <2>5
<1> HIDE DEF S
<1> QED BY <1>1, <1>2, Counting

\* What is promised of a packet by itself.
LEMMA InnerAre ==
  ASSUME NEW p \in Packets
  PROVE  Inner(p) \in Seq(CallSet)
BY CallbacksAre, EmptySeq DEF Inner

\* Opening Multis once more leaves the callbacks' types.
LEMMA OpenedAre ==
  ASSUME NEW F \in Makers(Packets, CallSet)
  PROVE  Opened(F) \in Makers(Packets, CallSet)
<1>1. ASSUME NEW p \in Packets
      PROVE  (IF p.emsg = "Multi" /\ Decodes(p) THEN Each(F, p.sub) ELSE Inner(p)) \in Seq(CallSet)
  <2>1. p.sub \in Seq(Packets) BY PacketsAssumption
  <2>2. Each(F, p.sub) \in Seq(CallSet) BY <2>1, EachJoin
  <2> QED BY <2>2, InnerAre
<1> HIDE DEF CallSet
<1> QED BY <1>1 DEF Opened, Makers

\* Promised does begin with what is told of packets as they are, and goes on by opening them.
LEMMA PromisedUnfolds ==
  /\ Promised[0] = [p \in Packets |-> Inner(p)]
  /\ \A n \in 1..Depth : Promised[n] = Opened(Promised[n - 1])
<1> DEFINE X == Makers(Packets, CallSet)
           x == [p \in Packets |-> Inner(p)]
           G == [F \in X |-> Opened(F)]
           Made(g) == g = [n \in 0..Depth |-> IF n = 0 THEN x ELSE Opened(g[n - 1])]
<1>0. Depth \in Nat BY DepthAssumption
<1>1. x \in X BY InnerAre DEF Makers
<1>2. G \in [X -> X] BY OpenedAre
<1> HIDE DEF x, X
<1>3. PICK g \in [0..Depth -> X] : Applied(g, G, x, Depth)
  <2> HIDE DEF G
  <2>1. PICK N \in Nat : N = Depth BY <1>0
  <2>2. PICK Y : Y = X OBVIOUS
  <2>3. PICK y \in Y : y = x BY <1>1, <2>2
  <2>4. PICK H \in [Y -> Y] : H = G BY <1>2, <2>2
  <2>5. \E g \in [0..N -> Y] : Applied(g, H, y, N)
    BY Iteration
  <2> QED BY <2>1, <2>2, <2>3, <2>4, <2>5
<1>4. ASSUME NEW n \in 0..Depth PROVE g[n] = IF n = 0 THEN x ELSE Opened(g[n - 1])
  <2>1. CASE n = 0 BY <1>3, <2>1 DEF Applied
  <2>2. CASE n # 0
    <3>1. n \in 1..Depth /\ n - 1 \in 0..Depth BY <1>0, <2>2
    <3>2. g[n - 1] \in X BY <1>3, <3>1
    <3>3. G[g[n - 1]] = Opened(g[n - 1]) BY <3>2
    <3> QED BY <1>3, <2>2, <3>1, <3>3 DEF Applied
  <2> QED BY <2>1, <2>2
<1>5. Made(g) BY <1>3, <1>4
<1> HIDE DEF Made
<1>6. Made(CHOOSE f : Made(f)) BY <1>5, Zenon
<1>7. Promised = CHOOSE f : Made(f) BY DEF Promised, Made, x
<1>8. Made(Promised) BY <1>6, <1>7
<1>9. Promised[0] = x BY <1>0, <1>8 DEF Made
<1>10. ASSUME NEW n \in 1..Depth PROVE Promised[n] = Opened(Promised[n - 1])
  <2>1. n \in 0..Depth /\ n # 0 BY <1>0
  <2> QED BY <1>8, <2>1 DEF Made
<1> QED BY <1>9, <1>10 DEF x

\* The promise, of a packet inside of others as of any other.
LEMMA PromiseIs ==
  /\ Promise \in Makers(Packets, CallSet)
  /\ \A p \in Packets : Promise[p] =
       IF p.emsg = "Multi" /\ Decodes(p) THEN Promises(p.sub) ELSE Inner(p)
<1> DEFINE S == {n \in Nat : n <= Depth => Promised[n] \in Makers(Packets, CallSet)}
<1>0. Depth \in Nat BY DepthAssumption
<1>1. 0 \in S BY InnerAre, PromisedUnfolds DEF Makers
<1>2. ASSUME NEW n \in Nat, n \in S PROVE n + 1 \in S
  <2> SUFFICES ASSUME n + 1 <= Depth PROVE Promised[n + 1] \in Makers(Packets, CallSet)
    OBVIOUS
  <2>1. n + 1 \in 1..Depth /\ (n + 1) - 1 = n /\ n <= Depth BY <1>0
  <2>2. Promised[n] \in Makers(Packets, CallSet) BY <1>2, <2>1
  <2>3. Promised[n + 1] = Opened(Promised[n]) BY <2>1, PromisedUnfolds
  <2> QED BY <2>2, <2>3, OpenedAre
<1> HIDE DEF S
<1>3. Depth \in S BY <1>0, <1>1, <1>2, Counting
<1>4. Promise \in Makers(Packets, CallSet) BY <1>0, <1>3 DEF S, Promise
<1>5. ASSUME NEW p \in Packets
      PROVE  Promise[p] = IF p.emsg = "Multi" /\ Decodes(p) THEN Promises(p.sub) ELSE Inner(p)
  <2>1. PICK F : F = Promise OBVIOUS
  <2>2. Opened(F) = F BY <2>1, DepthAssumption
  <2>3. Opened(F)[p] = IF p.emsg = "Multi" /\ Decodes(p) THEN Each(F, p.sub) ELSE Inner(p)
    BY DEF Opened
  <2> QED BY <2>1, <2>2, <2>3 DEF Promises
<1> QED BY <1>4, <1>5

-----------------------------------------------------------------------------
(* What is heard is what was said.                                         *)

\* It is all one in which order sequences of packets, or of callbacks, are joined.
LEMMA PacketsJoin == \A a, b, c \in Seq(Packets) : (a \o b) \o c = a \o (b \o c)
BY ConcatAssociative, SMTT(30)

LEMMA CallsJoin == \A a, b, c \in Seq(CallSet) : (a \o b) \o c = a \o (b \o c)
BY ConcatAssociative, SMTT(30)

\* The frames have these packets in them.
Bears(fs, ms) == Len(fs) = Len(ms) /\ \A i \in 1..Len(ms) : fs[i].body = ms[i]

\* What the server said is what has been heard and what the frames on their
\* way bear; none of them comes before the server has accepted the handshake.
Carried(fs, heard, ms) ==
  /\ said = heard \o ms
  /\ srv # "open" => said = <<>>
  /\ srv = "start" => fs = <<>>
  /\ hs = "request" => Len(fs) <= 1
  /\ hs \in {"respond", "result"} =>
       /\ srv = "asked" => fs = <<>>
       /\ srv = "open" => heard = <<>> /\ fs # <<>> /\ Bears(Tail(fs), ms)
  /\ hs \in {"secured", "connected"} => Bears(fs, ms)

\* A frame is added with its packet.
LEMMA BearsMore ==
  ASSUME NEW fs \in Seq(Frames), NEW ms \in Seq(Packets), Bears(fs, ms),
         NEW f \in Frames, NEW p \in Packets, f.body = p
  PROVE  Bears(Append(fs, f), Append(ms, p))
<1>1. PICK n \in Nat : n = Len(fs) /\ n = Len(ms) BY LenProperties DEF Bears
<1>2. PICK gs \in Seq(Frames) : gs = Append(fs, f) BY AppendProperties
<1>3. PICK ns \in Seq(Packets) : ns = Append(ms, p) BY AppendProperties
<1>4. Len(gs) = n + 1 /\ gs[n + 1] = f /\ \A i \in 1..n : gs[i] = fs[i]
  <2>1. n = Len(fs) BY <1>1
  <2> QED BY <1>2, <2>1, AppendProperties
<1>5. Len(ns) = n + 1 /\ ns[n + 1] = p /\ \A i \in 1..n : ns[i] = ms[i]
  BY <1>1, <1>3, AppendProperties
<1>6. ASSUME NEW i \in 1..(n + 1) PROVE gs[i].body = ns[i]
  <2>1. CASE i = n + 1 BY <1>4, <1>5, <2>1
  <2>2. CASE i # n + 1
    <3>1. i \in 1..n BY <2>2
    <3>2. fs[i].body = ms[i] BY <1>1, <3>1 DEF Bears
    <3> QED BY <1>4, <1>5, <3>1, <3>2
  <2> QED BY <2>1, <2>2
<1> QED BY <1>2, <1>3, <1>4, <1>5, <1>6 DEF Bears

\* The first frame is taken with its packet.
LEMMA BearsLess ==
  ASSUME NEW fs \in Seq(Frames), NEW ms \in Seq(Packets), Bears(fs, ms), fs # <<>>
  PROVE  ms # <<>> /\ fs[1].body = Head(ms) /\ Bears(Tail(fs), Tail(ms))
<1>1. PICK n \in Nat : n = Len(fs) /\ n = Len(ms) /\ n # 0 BY EmptySeq DEF Bears
<1>2. ms # <<>> BY <1>1, EmptySeq
<1>3. Head(ms) = ms[1] OBVIOUS
<1>4. PICK gs \in Seq(Frames) : gs = Tail(fs) BY HeadTailProperties
<1>5. PICK ns \in Seq(Packets) : ns = Tail(ms) BY <1>2, HeadTailProperties
<1>6. PICK m \in Nat : m + 1 = n
  <2>1. n - 1 \in Nat /\ (n - 1) + 1 = n BY <1>1
  <2> QED BY <2>1
<1>7. Len(gs) = m /\ \A i \in 1..m : gs[i] = fs[i + 1]
  <2>1. n = Len(fs) BY <1>1
  <2> QED BY <1>4, <1>6, <2>1, HeadTailProperties
<1>8. Len(ns) = m /\ \A i \in 1..m : ns[i] = ms[i + 1]
  BY <1>1, <1>2, <1>5, <1>6, HeadTailProperties
<1>9. ASSUME NEW i \in 1..m PROVE gs[i].body = ns[i]
  <2>1. PICK k \in 1..n : k = i + 1 BY <1>6
  <2> QED BY <1>1, <1>7, <1>8, <2>1 DEF Bears
<1>10. 1 \in 1..n BY <1>1
<1>11. fs[1].body = ms[1] BY <1>1, <1>10 DEF Bears
<1> QED BY <1>2, <1>3, <1>4, <1>5, <1>7, <1>8, <1>9, <1>11 DEF Bears

\* Steps that leave the streams and the server.
LEMMA CarriedStays ==
  ASSUME NEW fs, NEW heard, NEW ms, Carried(fs, heard, ms), UNCHANGED <<said, srv>>,
         \/ hs' \in {hs, "failed"}
         \/ hs = "respond" /\ hs' = "result"
         \/ hs = "secured" /\ hs' = "connected"
  PROVE  Carried(fs, heard, ms)'
BY DEF Carried

\* The goroutines' steps but that of the read loop for a packet, and those of
\* the network and the server, with what they leave of the read loop's.
Elsewhere ==
  \/ \E p \in Senders : Lock(p) \/ WriteCell(p) \/ Written(p) \/ WriteFails(p)
  \/ \E w \in Writers : SendPacket(w)
  \/ Leave \/ GetRequest \/ Respond \/ ResponseSent \/ GetResult \/ Publish
  \/ work = <<>> /\ (ReadCell \/ ReadFails)
  \/ ServerRequests \/ ServerResults \/ ServerSends \/ Stall \/ Break

LEMMA StepsOrElse ==
  ASSUME [Next]_vars
  PROVE  \/ Elsewhere /\ UNCHANGED <<work, told>>
         \/ ReadPacket \/ HandleMulti \/ HandlePacket \/ HandleLoggedOff
         \/ UNCHANGED vars
BY DEF Next, Writes, Handshake, Reads, Outside, ReadLoop, Elsewhere

\* Elsewhere nothing is heard, and what was said stays carried.
LEMMA CarriedKept ==
  ASSUME Types, Stages, Sending, Readable, Elsewhere,
         NEW fs \in Seq(Frames), NEW heard \in Seq(Packets), NEW ms \in Seq(Packets),
         Stream(fs), Carried(fs, heard, ms)
  PROVE  \E gs \in Seq(Frames), ns \in Seq(Packets) : Stream(gs)' /\ Carried(gs, heard, ns)'
<1> USE DEF link_vars, write_vars, read_vars, srv_vars
<1>1. ASSUME UNCHANGED <<got, toClient, said, srv>>,
             \/ hs' \in {hs, "failed"}
             \/ hs = "respond" /\ hs' = "result"
             \/ hs = "secured" /\ hs' = "connected"
      PROVE  Stream(fs)' /\ Carried(fs, heard, ms)'
  BY <1>1, CarriedStays DEF Stream
<1>2. CASE \E p \in Senders : Lock(p) \/ WriteCell(p) \/ Written(p) \/ WriteFails(p)
  BY <1>1, <1>2 DEF Lock, WriteCell, Written, WriteFails
<1>3. CASE \E w \in Writers : SendPacket(w) BY <1>1, <1>3 DEF SendPacket, Encrypt
<1>4. CASE Leave \/ Respond \/ Stall \/ Break
  BY <1>1, <1>4 DEF Leave, Respond, Encrypt, Stall, Break
<1>5. CASE ResponseSent \/ Publish \/ ReadFails
  BY <1>1, <1>5 DEF ResponseSent, Publish, Publishable, ReadFails, Fails
<1>6. CASE ReadCell
  <2>1. Stream(fs)' BY <1>6, StreamMoves
  <2>2. Carried(fs, heard, ms)' BY <1>6, CarriedStays DEF ReadCell
  <2> QED BY <2>1, <2>2
<1>7. ASSUME NEW what, Receive(what), UNCHANGED srv_vars
      PROVE  /\ fs # <<>> /\ fs[1] \in Frames /\ Incoming = fs[1]
             /\ Tail(fs) \in Seq(Frames) /\ Stream(Tail(fs))'
  BY <1>7, StreamShrinks
<1>8. ASSUME NEW what, Receive(what), Fails, UNCHANGED srv_vars
      PROVE  Stream(Tail(fs))' /\ Carried(Tail(fs), heard, ms)'
  <2>1. srv # "start" BY <1>7, <1>8 DEF Carried
  <2>2. hs' = "failed" BY <1>8 DEF Fails
  <2>3. Carried(Tail(fs), heard, ms)' BY <1>8, <2>1, <2>2 DEF Carried
  <2> QED BY <1>7, <1>8, <2>3
<1>9. CASE GetRequest
  <2>1. hs = "request" /\ UNCHANGED srv_vars BY <1>9 DEF GetRequest
  <2>2. CASE Receive("request") /\ hs' = "respond"
    <3>1. srv = "asked" BY <1>9, HandshakeAgrees
    <3>2. PICK gs \in Seq(Frames) : gs = Tail(fs) /\ Stream(gs)' BY <1>7, <2>1, <2>2
    <3>3. fs # <<>> BY <1>7, <2>1, <2>2
    <3>4. Len(gs) = Len(fs) - 1 /\ Len(fs) \in Nat /\ Len(gs) \in Nat
      BY <3>2, <3>3, HeadTailProperties, LenProperties
    <3>5. Len(fs) <= 1 BY <2>1 DEF Carried
    <3>6. gs = <<>> BY <3>4, <3>5, EmptySeq
    <3>7. Carried(gs, heard, ms)' BY <2>1, <2>2, <3>1, <3>6 DEF Carried
    <3> QED BY <3>2, <3>7
  <2>3. CASE (Receive("request") \/ Receive("result")) /\ Fails BY <1>7, <1>8, <2>1, <2>3
  <2> QED BY <1>9, <2>2, <2>3 DEF GetRequest
<1>10. CASE GetResult
  <2>1. hs = "result" /\ UNCHANGED srv_vars BY <1>10 DEF GetResult
  <2>2. CASE Receive("result") /\ Incoming.body = 1 /\ hs' = "secured"
    <3>1. srv = "open" BY <1>10, <2>2, HandshakeAgrees
    <3>2. PICK gs \in Seq(Frames) : gs = Tail(fs) /\ Stream(gs)' BY <1>7, <2>1, <2>2
    <3>3. Bears(gs, ms) /\ heard = <<>> BY <2>1, <3>1, <3>2 DEF Carried
    <3>4. Carried(gs, heard, ms)' BY <2>1, <2>2, <3>1, <3>3 DEF Carried
    <3> QED BY <3>2, <3>4
  <2>3. CASE (Receive("request") \/ Receive("result")) /\ Fails BY <1>7, <1>8, <2>1, <2>3
  <2> QED BY <1>10, <2>2, <2>3 DEF GetResult
<1>11. CASE ServerRequests
  <2>1. PICK n \in BodyLengths, what \in {"request", "result"} :
          ServerWrites(Frame(what, "clear", 1, n))
    BY <1>11 DEF ServerRequests
  <2>2. srv = "start" /\ srv' = "asked" /\ UNCHANGED <<hs, said>> BY <1>11 DEF ServerRequests
  <2>3. PICK f \in Frames : f = Frame(what, "clear", 1, n) BY FramesSent
  <2>4. PICK gs \in Seq(Frames) : gs = Append(fs, f) /\ Stream(gs)' BY <2>1, <2>3, StreamGrows
  <2>5. fs = <<>> /\ Len(fs) = 0 BY <2>2, EmptySeq DEF Carried
  <2>6. Len(gs) = 1 BY <2>4, <2>5, AppendProperties
  <2>7. hs \in {"request", "failed"} BY <2>2 DEF Stages
  <2>8. Carried(gs, heard, ms)' BY <2>2, <2>6, <2>7 DEF Carried
  <2> QED BY <2>4, <2>8
<1>12. CASE ServerResults
  <2>1. PICK n \in {1, 2}, what \in {"request", "result"} :
          ServerWrites(Frame(what, "clear", 1, n)) /\ srv' \in {"open", "over"}
    BY <1>12 DEF ServerResults
  <2>2. srv = "asked" /\ begun # <<>> /\ UNCHANGED <<hs, said>> BY <1>12 DEF ServerResults
  <2>3. PICK f \in Frames : f = Frame(what, "clear", 1, n) BY FramesSent
  <2>4. PICK gs \in Seq(Frames) : gs = Append(fs, f) /\ Stream(gs)' BY <2>1, <2>3, StreamGrows
  <2>5. hs \in {"respond", "result", "failed"} BY <2>2 DEF Sending, Stages, Types, LinkTypes
  <2>6. said = <<>> /\ heard = <<>> /\ ms = <<>>
    BY <2>2, ConcatEqualIffEmpty DEF Carried
  <2>7. ASSUME hs \in {"respond", "result"} PROVE gs # <<>> /\ Bears(Tail(gs), ms)
    <3>1. fs = <<>> BY <2>2, <2>7 DEF Carried
    <3>2. Tail(gs) = <<>> BY <2>4, <3>1, HeadTailAppend
    <3>3. gs # <<>> BY <2>4, AppendProperties
    <3>4. Len(ms) = 0 BY <2>6, EmptySeq
    <3>5. Bears(ms, ms) BY <3>4 DEF Bears
    <3> QED BY <2>6, <3>2, <3>3, <3>5
  <2>8. Carried(gs, heard, ms)' BY <2>1, <2>2, <2>5, <2>6, <2>7 DEF Carried
  <2> QED BY <2>4, <2>8
<1>13. CASE ServerSends
  <2>1. /\ srv = "open" /\ script # <<>>
        /\ ServerWrites(Frame("message", CipherFor(challenge), 2, Head(script)))
        /\ said' = Append(said, Head(script))
        /\ UNCHANGED <<srv, hs>>
    BY <1>13 DEF ServerSends
  <2>2. CipherFor(challenge) \in Modes BY DEF CipherFor, Modes
  <2>3. PICK p \in Packets : p = Head(script)
    BY <2>1, HeadTailProperties DEF Types, StreamTypes
  <2>4. PICK f \in Frames : f = Frame("message", CipherFor(challenge), 2, p)
    BY <2>2, <2>3, FramesSent
  <2>5. f.body = p BY <2>4 DEF Frame
  <2>6. PICK gs \in Seq(Frames) : gs = Append(fs, f) /\ Stream(gs)'
    BY <2>1, <2>3, <2>4, StreamGrows
  <2>7. PICK ns \in Seq(Packets) : ns = Append(ms, p) BY AppendProperties
  <2>8. said' = heard \o ns
    <3>1. said = heard \o ms BY DEF Carried
    <3>2. heard \o Append(ms, p) = Append(heard \o ms, p) BY AppendLast
    <3> QED BY <2>1, <2>3, <2>7, <3>1, <3>2
  <2>9. ASSUME hs \in {"respond", "result"} PROVE gs # <<>> /\ Bears(Tail(gs), ns) /\ heard = <<>>
    <3>1. fs # <<>> /\ Bears(Tail(fs), ms) /\ heard = <<>> BY <2>1, <2>9 DEF Carried
    <3>2. PICK ts \in Seq(Frames) : ts = Tail(fs) BY <3>1, HeadTailProperties
    <3>3. Tail(gs) = Append(ts, f) BY <2>6, <3>1, <3>2, HeadTailAppend
    <3>4. gs # <<>> BY <2>6, AppendProperties
    <3> QED BY <2>5, <2>7, <3>1, <3>2, <3>3, <3>4, BearsMore
  <2>10. hs \in {"secured", "connected"} => Bears(gs, ns)
    BY <2>5, <2>6, <2>7, BearsMore DEF Carried
  <2>11. hs # "request" BY <2>1 DEF Stages
  <2>12. Carried(gs, heard, ns)' BY <2>1, <2>8, <2>9, <2>10, <2>11 DEF Carried
  <2> QED BY <2>6, <2>12
<1> QED
  BY <1>2, <1>3, <1>4, <1>5, <1>6, <1>9, <1>10, <1>11, <1>12, <1>13 DEF Elsewhere

\* The read loop hears the next packet that was said.
LEMMA CarriedOver ==
  ASSUME Types, ReadPacket,
         NEW fs \in Seq(Frames), NEW heard \in Seq(Packets), NEW ms \in Seq(Packets),
         Stream(fs), Carried(fs, heard, ms)
  PROVE  \E p \in Packets, gs \in Seq(Frames), ns \in Seq(Packets) :
           /\ p = Incoming.body
           /\ Stream(gs)' /\ Carried(gs, Append(heard, p), ns)'
<1>1. hs = "connected" /\ Receive("message") /\ UNCHANGED <<hs, srv, said>>
  BY DEF ReadPacket, link_vars, srv_vars
<1>2. fs # <<>> /\ Incoming = fs[1] /\ Stream(Tail(fs))' BY <1>1, StreamShrinks
<1>3. Bears(fs, ms) BY <1>1 DEF Carried
<1>4. ms # <<>> /\ fs[1].body = Head(ms) /\ Bears(Tail(fs), Tail(ms)) BY <1>2, <1>3, BearsLess
<1>5. PICK gs \in Seq(Frames) : gs = Tail(fs) BY <1>2, HeadTailProperties
<1>6. PICK p \in Packets, ns \in Seq(Packets) : p = Head(ms) /\ ns = Tail(ms)
  BY <1>4, HeadTailProperties
<1>7. <<p>> \in Seq(Packets) BY <1>6
<1>8. PICK u \in Seq(Packets) : u = <<p>> BY <1>7
<1>9. ms = u \o ns BY <1>4, <1>6, <1>8
<1>10. said' = Append(heard, p) \o ns
  <2>1. Append(heard, p) = heard \o u BY <1>8, AppendIsConcat
  <2>3. (heard \o u) \o ns = heard \o (u \o ns) BY PacketsJoin, Zenon
  <2>4. said' = heard \o ms BY <1>1 DEF Carried
  <2> QED BY <1>9, <2>1, <2>3, <2>4
<1>11. srv' = "start" => gs = <<>> BY <1>1, <1>2 DEF Carried
<1>12. Carried(gs, Append(heard, p), ns)'
  BY <1>1, <1>4, <1>5, <1>6, <1>10, <1>11 DEF Carried
<1>13. Incoming.body = p BY <1>2, <1>4, <1>6
<1>14. Stream(gs)' BY <1>2, <1>5
<1> QED BY <1>12, <1>13, <1>14

-----------------------------------------------------------------------------
(* What is told is what is promised of what is heard.                      *)

\* Promises of packets one after the other.
LEMMA PromisesJoin ==
  /\ Promises(<<>>) = <<>>
  /\ \A w \in Seq(Packets) : Promises(w) \in Seq(CallSet)
  /\ \A w \in Seq(Packets), p \in Packets : Promises(Append(w, p)) = Promises(w) \o Promise[p]
  /\ \A v, w \in Seq(Packets) : Promises(v \o w) = Promises(v) \o Promises(w)
  /\ \A p \in Packets : Promises(<<p>>) = Promise[p] /\ Promise[p] \in Seq(CallSet)
<1>1. PICK F \in Makers(Packets, CallSet) : F = Promise BY PromiseIs
<1>2. \A p \in Packets : F[p] \in Seq(CallSet) BY DEF Makers
<1>3. \A w \in Seq(Packets), p \in Packets : Each(F, Append(w, p)) = Each(F, w) \o F[p]
  BY EachAppend
<1>4. \A v, w \in Seq(Packets) :
        Each(F, v) \in Seq(CallSet) /\ Each(F, v \o w) = Each(F, v) \o Each(F, w)
  BY EachJoin
<1>5. \A p \in Packets : Each(F, <<p>>) = F[p] BY EachOne
<1>6. Each(F, <<>>) = <<>> BY EachEmpty
<1> HIDE DEF CallSet
<1> QED BY <1>1, <1>2, <1>3, <1>4, <1>5, <1>6 DEF Promises

\* The first packet's promise comes first.
LEMMA PromisesFirst ==
  ASSUME NEW w \in Seq(Packets), w # <<>>
  PROVE  /\ Head(w) \in Packets /\ Tail(w) \in Seq(Packets)
         /\ Promises(w) = Promise[Head(w)] \o Promises(Tail(w))
<1>1. PICK p \in Packets, t \in Seq(Packets) : p = Head(w) /\ t = Tail(w)
  BY HeadTailProperties
<1>2. <<p>> \in Seq(Packets) BY <1>1
<1>3. PICK u \in Seq(Packets) : u = <<p>> BY <1>2
<1>4. w = u \o t BY <1>1, <1>3
<1>5. Promises(u \o t) = Promises(u) \o Promises(t) BY PromisesJoin
<1>6. Promises(u) = Promise[p] BY <1>3, PromisesJoin
<1> QED BY <1>1, <1>4, <1>5, <1>6

\* Together with what the read loop still has to handle the application has
\* been told what is promised of what was heard.  Only the last packet heard
\* may be one that ends the connection: until that is handled nothing is read,
\* and then the connection is closed and nothing can be.
Reported(heard) ==
  /\ work \in Seq(Packets) /\ told \in Seq(CallSet)
  /\ ~conn => heard = <<>>
  /\ told \o Promises(work) = Promises(heard)
  /\ \A i \in 1..(Len(heard) - 1) : ~Ends(heard[i])
  /\ heard # <<>> /\ Ends(heard[Len(heard)]) =>
       LogOff \in Range(Promises(work)) \/ (link = "closed" /\ got = <<>>)
  /\ work # <<>> => got = <<>>

\* Steps that leave what is to be handled and told, and take up nothing.
LEMMA ReportedStays ==
  ASSUME NEW heard \in Seq(Packets), Reported(heard), UNCHANGED <<work, told>>, conn => conn',
         got' \in {got, <<>>}, link = "closed" => link' = "closed"
  PROVE  Reported(heard)'
BY DEF Reported

\* With nothing to handle on an open connection no packet heard ends it.
LEMMA NoneEnds ==
  ASSUME NEW heard \in Seq(Packets), Reported(heard), work = <<>>,
         link # "closed" \/ got # <<>>
  PROVE  \A i \in 1..Len(heard) : ~Ends(heard[i])
<1>1. PICK e \in Seq(CallSet) : e = Promises(work) /\ e = <<>>
  BY PromisesJoin, EmptySeq
<1>2. LogOff \notin Range(e)
  <2>1. Range(e) = {} BY <1>1 DEF Range
  <2> QED BY <2>1
<1>3. PICK n \in Nat : n = Len(heard) BY LenProperties
<1>4. heard # <<>> => ~Ends(heard[n]) BY <1>1, <1>2, <1>3 DEF Reported
<1>5. \A i \in 1..(n - 1) : ~Ends(heard[i]) BY <1>3 DEF Reported
<1>6. n # 0 => heard # <<>> BY <1>3, EmptySeq
<1>7. ASSUME NEW i \in 1..n PROVE ~Ends(heard[i])
  <2>1. CASE i = n BY <1>4, <1>6, <2>1
  <2>2. CASE i # n
    <3>1. i \in 1..(n - 1) BY <2>2
    <3> QED BY <1>5, <3>1
  <2> QED BY <2>1, <2>2
<1> QED BY <1>3, <1>7

\* Elsewhere nothing changes in what is reported.
LEMMA ReportedKept ==
  ASSUME Elsewhere, UNCHANGED <<work, told>>, NEW heard \in Seq(Packets), Reported(heard)
  PROVE  Reported(heard)'
<1> USE DEF link_vars, write_vars, read_vars, srv_vars
<1>1. CASE \E p \in Senders : Lock(p) \/ WriteCell(p) \/ Written(p) \/ WriteFails(p)
  BY <1>1, ReportedStays DEF Lock, WriteCell, Written, WriteFails
<1>2. CASE \E w \in Writers : SendPacket(w) BY <1>2, ReportedStays DEF SendPacket, Encrypt
<1>3. CASE Leave \/ Respond \/ Stall \/ Break
  BY <1>3, ReportedStays DEF Leave, Respond, Encrypt, Stall, Break
<1>4. CASE GetRequest \/ GetResult
  BY <1>4, ReportedStays DEF GetRequest, GetResult, Receive, Fails
<1>5. CASE ResponseSent \/ Publish BY <1>5, ReportedStays DEF ResponseSent, Publish, Fails
<1>6. CASE ReadFails BY <1>6, ReportedStays DEF ReadFails, Fails
<1>7. CASE work = <<>> /\ ReadCell
  <2>1. link # "closed" /\ UNCHANGED <<link, conn>> BY <1>7 DEF ReadCell
  <2>2. \A i \in 1..Len(heard) : ~Ends(heard[i]) BY <1>7, <2>1, NoneEnds
  <2>3. heard # <<>> => ~Ends(heard[Len(heard)])
    <3> SUFFICES ASSUME heard # <<>> PROVE Len(heard) \in 1..Len(heard)
      BY <2>2
    <3> QED BY EmptySeq
  <2> QED BY <1>7, <2>1, <2>3 DEF Reported
<1>8. CASE ServerRequests \/ ServerResults \/ ServerSends
  BY <1>8, ReportedStays DEF ServerRequests, ServerResults, ServerSends, ServerWrites
<1> QED BY <1>1, <1>2, <1>3, <1>4, <1>5, <1>6, <1>7, <1>8 DEF Elsewhere

\* A packet is heard when no packet before it ends the connection.
LEMMA ReportedMore ==
  ASSUME Stages, ReadPacket, NEW heard \in Seq(Packets), Reported(heard),
         NEW p \in Packets, p = Incoming.body
  PROVE  Reported(Append(heard, p))'
<1>1. /\ hs = "connected" /\ work = <<>> /\ FrameRead /\ got' = <<>>
      /\ work' = NextWork(p) /\ UNCHANGED <<told, conn>>
  BY DEF ReadPacket, Receive, link_vars
<1>2. got # <<>>
  <2>1. Len(got) >= 2 BY <1>1 DEF FrameRead
  <2>2. got = <<>> => Len(got) = 0 BY EmptySeq
  <2> QED BY <2>1, <2>2
<1>3. \A i \in 1..Len(heard) : ~Ends(heard[i]) BY <1>1, <1>2, NoneEnds
<1>4. conn BY <1>1 DEF Stages
<1>5. Promises(work') = Promise[p] /\ work' \in Seq(Packets)
  <2>1. CASE p = Junk
    <3>1. p.emsg = "Junk" BY <2>1 DEF Junk, Unreadable, Packet
    <3>2. Promise[p] = <<>> BY <3>1, PromiseIs DEF Inner
    <3> QED BY <1>1, <2>1, <3>2, PromisesJoin, EmptySeq DEF NextWork
  <2>2. CASE p # Junk
    <3>1. work' = <<p>> BY <1>1, <2>2 DEF NextWork
    <3>2. <<p>> \in Seq(Packets) OBVIOUS
    <3> QED BY <3>1, <3>2, PromisesJoin
  <2> QED BY <2>1, <2>2
<1>6. PICK hs2 \in Seq(Packets) : hs2 = Append(heard, p) BY AppendProperties
<1>7. told' \o Promises(work') = Promises(hs2)
  <2>1. PICK a \in Seq(CallSet) : a = Promises(heard) BY PromisesJoin
  <2>2. told \o Promises(work) = a /\ told \in Seq(CallSet) BY <2>1 DEF Reported
  <2>3. told = a BY <1>1, <2>2, PromisesJoin, ConcatEmptySeq
  <2>4. Promises(hs2) = a \o Promise[p] BY <1>6, <2>1, PromisesJoin
  <2> QED BY <1>1, <1>5, <2>3, <2>4
<1>8. PICK n \in Nat : n = Len(heard) BY LenProperties
<1>9. Len(hs2) = n + 1 /\ hs2[n + 1] = p /\ \A i \in 1..n : hs2[i] = heard[i]
  BY <1>6, <1>8, AppendProperties
<1>10. \A i \in 1..(Len(hs2) - 1) : ~Ends(hs2[i])
  <2> SUFFICES ASSUME NEW i \in 1..n PROVE ~Ends(hs2[i])
    BY <1>9
  <2> QED BY <1>3, <1>8, <1>9
<1>11. Ends(hs2[Len(hs2)]) => LogOff \in Range(Promises(work'))
  <2>1. Ends(p) => LogOff \in Range(Promise[p]) BY DEF Ends, LogOff
  <2> QED BY <1>5, <1>9, <2>1
<1>12. Reported(hs2)' BY <1>1, <1>4, <1>5, <1>7, <1>10, <1>11 DEF Reported
<1> QED BY <1>6, <1>12

\* Handling a packet tells what is promised of it, and leaves the rest.
LEMMA ReportedLess ==
  ASSUME HandleMulti \/ HandlePacket \/ HandleLoggedOff,
         NEW heard \in Seq(Packets), Reported(heard)
  PROVE  Reported(heard)'
<1> USE DEF link_vars, read_vars
<1>1. work # <<>> BY DEF HandleMulti, HandlePacket, HandleLoggedOff
<1>2. got = <<>> /\ got' = <<>> /\ conn' = conn
  BY <1>1 DEF HandleMulti, HandlePacket, HandleLoggedOff, Reported
<1>3. work \in Seq(Packets) /\ told \in Seq(CallSet) BY DEF Reported
<1>4. PICK h \in Packets, t \in Seq(Packets) :
        h = Head(work) /\ t = Tail(work) /\ Promises(work) = Promise[h] \o Promises(t)
  BY <1>1, <1>3, PromisesFirst
<1>5. PICK b \in Seq(CallSet), c \in Seq(CallSet) : b = Promise[h] /\ c = Promises(t)
  BY PromisesJoin
<1>6. told \o (b \o c) = Promises(heard) BY <1>4, <1>5 DEF Reported
<1>7. CASE HandleMulti
  <2>1. h.emsg = "Multi" /\ told' = told /\ link' = link
        /\ work' = IF Decodes(h) THEN h.sub \o t ELSE t
    BY <1>4, <1>7 DEF HandleMulti, Unpacked
  <2>2. h.sub \in Seq(Packets) BY PacketsAssumption
  <2>3. work' \in Seq(Packets) BY <2>1, <2>2, ConcatProperties
  <2>4. Promises(work') = b \o c
    <3>1. CASE Decodes(h)
      <4>1. b = Promises(h.sub) BY <1>5, <2>1, <3>1, PromiseIs
      <4>2. Promises(h.sub \o t) = Promises(h.sub) \o Promises(t) BY <2>2, PromisesJoin
      <4> QED BY <1>5, <2>1, <3>1, <4>1, <4>2
    <3>2. CASE ~Decodes(h)
      <4>1. b = <<>> BY <1>5, <2>1, <3>2, PromiseIs DEF Inner
      <4>2. b \o c = c BY <4>1, ConcatEmptySeq
      <4> QED BY <1>5, <2>1, <3>2, <4>2
    <3> QED BY <3>1, <3>2
  <2>5. Promises(work') = Promises(work) BY <1>4, <1>5, <2>4
  <2> QED BY <1>2, <2>1, <2>3, <2>5 DEF Reported
<1>8. ASSUME HandlePacket \/ HandleLoggedOff
      PROVE  /\ work' \in Seq(Packets) /\ told' \in Seq(CallSet)
             /\ told' \o Promises(work') = Promises(heard)
             /\ Range(Promises(work)) = Range(b) \cup Range(Promises(work'))
             /\ b = Callbacks(h)
  <2>1. h.emsg \notin {"Multi", "Junk"} /\ told' = told \o Callbacks(h) /\ work' = t
    BY <1>4, <1>8 DEF HandlePacket, HandleLoggedOff
  <2>2. b = Callbacks(h) BY <1>5, <2>1, PromiseIs DEF Inner
  <2>3. told' = told \o b /\ told' \in Seq(CallSet) BY <1>3, <2>1, <2>2, ConcatProperties
  <2>4. PICK a \in Seq(CallSet) : a = told BY <1>3
  <2>5. (a \o b) \o c = a \o (b \o c) BY CallsJoin, Zenon
  <2>6. Range(b \o c) = Range(b) \cup Range(c) BY RangeConcatenation
  <2> QED BY <1>4, <1>5, <1>6, <2>1, <2>2, <2>3, <2>4, <2>5, <2>6
<1>9. CASE HandlePacket
  <2>1. LogOff \notin Range(b)
    BY <1>4, <1>8, <1>9, CallbacksAre DEF HandlePacket
  <2>2. link' = link BY <1>9 DEF HandlePacket
  <2>3. LogOff \in Range(Promises(work)) => LogOff \in Range(Promises(work'))
    BY <1>8, <1>9, <2>1
  <2> QED BY <1>2, <1>8, <1>9, <2>2, <2>3 DEF Reported
<1>10. CASE HandleLoggedOff
  <2>1. link' = "closed" BY <1>10 DEF HandleLoggedOff, AfterLogOff
  <2> QED BY <1>2, <1>8, <1>10, <2>1 DEF Reported
<1> QED BY <1>7, <1>9, <1>10

\* The frames that are on their way, the packets that have been heard, and those
\* that the frames bear.
Following ==
  \E fs \in Seq(Frames), heard \in Seq(Packets), ms \in Seq(Packets) :
    Stream(fs) /\ Carried(fs, heard, ms) /\ Reported(heard)

\* At the start nothing has been said.
LEMMA FollowingInit ==
  ASSUME Init
  PROVE  Following
<1>1. PICK fs \in Seq(Frames) : fs = <<>> /\ Len(fs) = 0 BY EmptySeq
<1>2. PICK n \in Seq(CellSet) : n = <<>> BY EmptySeq
<1>3. PICK ms \in Seq(Packets) : ms = <<>> /\ Len(ms) = 0 BY EmptySeq
<1>4. PICK e \in Seq(CallSet) : e = <<>> BY EmptySeq
<1>5. got = n /\ toClient = n /\ Flat(fs) = n /\ n \o n = n
  BY <1>1, <1>2, FlatEmpty, ConcatEmptySeq DEF Init, TransportInit
<1>6. Stream(fs) BY <1>1, <1>5 DEF Stream
<1>7. ms \o ms = ms /\ e \o e = e BY <1>3, <1>4, ConcatEmptySeq
<1>8. srv = "start" /\ hs = "request" /\ said = ms /\ ~conn
  BY <1>3 DEF Init, TransportInit
<1>9. Carried(fs, ms, ms) BY <1>1, <1>7, <1>8 DEF Carried
<1>10. work = ms /\ told = e /\ Promises(ms) = e BY <1>3, <1>4, PromisesJoin DEF Init
<1>11. 1..(Len(ms) - 1) = {} BY <1>3
<1>12. Reported(ms) BY <1>3, <1>7, <1>8, <1>10, <1>11 DEF Reported
<1> QED BY <1>6, <1>9, <1>12 DEF Following

\* Every step goes on with them.
LEMMA FollowingKept ==
  ASSUME Types, Stages, Sending, Readable, Following, [Next]_vars
  PROVE  Following'
<1>0. PICK fs \in Seq(Frames), heard \in Seq(Packets), ms \in Seq(Packets) :
        Stream(fs) /\ Carried(fs, heard, ms) /\ Reported(heard)
  BY DEF Following
<1>1. CASE Elsewhere /\ UNCHANGED <<work, told>>
  <2>1. PICK gs \in Seq(Frames), ns \in Seq(Packets) : Stream(gs)' /\ Carried(gs, heard, ns)'
    BY <1>0, <1>1, CarriedKept
  <2>2. Reported(heard)' BY <1>0, <1>1, ReportedKept
  <2> QED BY <2>1, <2>2 DEF Following
<1>2. CASE ReadPacket
  <2>1. PICK p \in Packets, gs \in Seq(Frames), ns \in Seq(Packets) :
          /\ p = Incoming.body
          /\ Stream(gs)' /\ Carried(gs, Append(heard, p), ns)'
    BY <1>0, <1>2, CarriedOver
  <2>2. PICK now \in Seq(Packets) : now = Append(heard, p) BY AppendProperties
  <2>3. Reported(Append(heard, p))' BY <1>0, <1>2, <2>1, ReportedMore
  <2> QED BY <2>1, <2>2, <2>3 DEF Following
<1>3. CASE HandleMulti \/ HandlePacket \/ HandleLoggedOff
  <2>1. UNCHANGED <<got, toClient, said, srv, hs>>
    BY <1>3 DEF HandleMulti, HandlePacket, HandleLoggedOff, link_vars, read_vars, srv_vars
  <2>2. Stream(fs)' BY <1>0, <2>1 DEF Stream
  <2>3. Carried(fs, heard, ms)' BY <1>0, <2>1, CarriedStays
  <2>4. Reported(heard)' BY <1>0, <1>3, ReportedLess
  <2> QED BY <2>2, <2>3, <2>4 DEF Following
<1>4. CASE UNCHANGED vars
  <2>1. UNCHANGED <<got, toClient, said, srv, hs, work, told, conn, link>>
    BY <1>4 DEF vars, link_vars, read_vars, srv_vars
  <2>2. Stream(fs)' BY <1>0, <2>1 DEF Stream
  <2>3. Carried(fs, heard, ms)' BY <1>0, <2>1, CarriedStays
  <2>4. Reported(heard)' BY <1>0, <2>1, ReportedStays
  <2> QED BY <2>2, <2>3, <2>4 DEF Following
<1> QED BY <1>1, <1>2, <1>3, <1>4, StepsOrElse

\* No more has been heard than may have been.
LEMMA HeardIsExpected ==
  ASSUME NEW heard \in Seq(Packets), NEW ms \in Seq(Packets), said = heard \o ms,
         \A i \in 1..(Len(heard) - 1) : ~Ends(heard[i])
  PROVE  \E rest \in Seq(CallSet) : Expected = Promises(heard) \o rest
<1> DEFINE Until == CHOOSE n \in Heard : n + 1 \notin Heard
<1>1. PICK s \in Seq(Packets) : s = said BY ConcatProperties
<1>2. PICK N \in Nat : N = Len(s) BY LenProperties
<1>3. PICK k \in Nat : k = Len(heard) BY LenProperties
<1>4. k <= N /\ \A i \in 1..k : s[i] = heard[i]
  <2>1. PICK l \in Nat : l = Len(ms) BY LenProperties
  <2>2. N = k + l BY <1>1, <1>2, <1>3, <2>1, ConcatProperties
  <2>3. \A i \in 1..k : s[i] = heard[i] BY <1>1, <1>3, <2>1, ConcatProperties
  <2> QED BY <2>2, <2>3
<1>5. \A n : n \in Heard <=> n \in 0..N /\ \A j \in 1..(n - 1) : ~Ends(s[j])
  BY <1>1, <1>2 DEF Heard
<1>6. k \in Heard
  <2>1. k \in 0..N BY <1>4
  <2>2. ASSUME NEW j \in 1..(k - 1) PROVE ~Ends(s[j])
    <3>1. j \in 1..k BY <1>3
    <3> QED BY <1>3, <1>4, <3>1
  <2> QED BY <1>5, <2>1, <2>2
<1>7. \E n \in Heard : n + 1 \notin Heard
  <2> SUFFICES ASSUME \A n \in Heard : n + 1 \in Heard PROVE FALSE
    OBVIOUS
  <2>1. 0 \in Heard
    <3>1. 0 \in 0..N /\ 1..(0 - 1) = {} BY <1>2
    <3> QED BY <1>5, <3>1
  <2>2. \A n \in Nat : n \in Heard BY <2>1, Counting
  <2>3. N + 1 \in Heard BY <1>2, <2>2
  <2> QED BY <1>2, <1>5, <2>3
<1>8. PICK m : m = Until OBVIOUS
<1>9. m \in Heard /\ m + 1 \notin Heard BY <1>7, <1>8, Zenon
<1>10. m \in Nat /\ m <= N BY <1>2, <1>5, <1>9
<1>11. k <= m
  <2> SUFFICES ASSUME m < k PROVE m + 1 \in Heard
    BY <1>3, <1>9, <1>10
  <2>1. m + 1 \in 0..N BY <1>3, <1>4, <1>10
  <2>2. ASSUME NEW j \in 1..((m + 1) - 1) PROVE ~Ends(s[j])
    <3>1. j \in 1..(k - 1) BY <1>3, <1>10
    <3> QED BY <1>5, <1>6, <3>1
  <2> QED BY <1>5, <2>1, <2>2
<1>12. SubSeq(s, 1, k) = heard
  <2>0. Len(heard) = k BY <1>3
  <2>1. CASE k = 0
    <3>1. heard = <<>> BY <2>0, <2>1, EmptySeq
    <3>2. SubSeq(s, 1, 0) = <<>> BY SubSeqEmpty
    <3> QED BY <2>1, <3>1, <3>2
  <2>2. CASE k # 0
    <3>1. 1 \in 1..k /\ k \in 1..k BY <2>2
    <3>2. SubSeq(heard \o ms, 1, k) = SubSeq(heard, 1, k) BY <2>0, <3>1, SubSeqOfConcat1
    <3>3. SubSeq(heard, 1, k) = heard BY <2>0, SubSeqFull
    <3> QED BY <1>1, <3>2, <3>3
  <2> QED BY <2>1, <2>2
<1>13. \A i \in (k + 1)..m : s[i] \in Packets
  <2> SUFFICES ASSUME NEW i \in (k + 1)..m PROVE s[i] \in Packets
    OBVIOUS
  <2>1. i \in 1..Len(s) BY <1>2, <1>3, <1>10
  <2> QED BY <2>1, ElementOfSeq
<1>14. PICK r \in Seq(Packets) : r = SubSeq(s, k + 1, m)
  <2>1. PICK i \in Int, j \in Int : i = k + 1 /\ j = m BY <1>3, <1>10
  <2>2. \A n \in i..j : s[n] \in Packets BY <1>13, <2>1
  <2>3. SubSeq(s, i, j) \in Seq(Packets) BY <2>2, SubSeqProperties
  <2> QED BY <2>1, <2>3
<1>15. SubSeq(s, 1, m) = heard \o r
  <2>1. 1 \in 1..(Len(s) + 1) /\ k \in (1 - 1)..Len(s) /\ m \in k..Len(s)
    BY <1>2, <1>3, <1>4, <1>10, <1>11
  <2>2. SubSeq(s, 1, k) \o SubSeq(s, k + 1, m) = SubSeq(s, 1, m)
    BY <2>1, ConcatAdjacentSubSeq
  <2> QED BY <1>12, <1>14, <2>2
<1>16. Expected = Promises(heard \o r) BY <1>1, <1>8, <1>15 DEF Expected
<1>17. PICK rest \in Seq(CallSet) : rest = Promises(r) BY PromisesJoin
<1>18. Promises(heard \o r) = Promises(heard) \o Promises(r) BY PromisesJoin
<1> QED BY <1>16, <1>17, <1>18

-----------------------------------------------------------------------------
(* The theorems.                                                           *)

IInv == Types /\ Stages /\ Sending /\ Readable /\ Writing

\* The inductive invariant holds at the start.
LEMMA InvariantInit ==
  ASSUME Init
  PROVE  IInv
<1>1. Types BY TypesInit
<1>2. PICK e \in Seq(Frames) : e = <<>> /\ Len(e) = 0 BY EmptySeq
<1>3. PICK n \in Seq(CellSet) : n = <<>> /\ Len(n) = 0 BY EmptySeq
<1>4. toServer = n /\ toClient = n /\ got = n /\ begun = e /\ Flat(e) = n /\ n \o n = n
  BY <1>2, <1>3, FlatEmpty, ConcatEmptySeq DEF Init, TransportInit
<1>5. Stages BY DEF Init, TransportInit, Stages
<1>6. Sending
  <2>1. \A p \in Senders : pc[p] = "idle" BY DEF Init, TransportInit
  <2>2. DOMAIN begun = {} BY <1>2, <1>4
  <2>3. begun = <<>> BY <1>2, <1>4
  <2> QED BY <2>1, <2>2, <2>3 DEF Sending, Senders
<1>7. Readable
  <2>1. Stream(e) BY <1>2, <1>4 DEF Stream
  <2>2. srv = "start" /\ hs = "request" /\ readErr = "no" BY DEF Init, TransportInit
  <2>3. Coming(e) BY <1>2, <2>2 DEF Coming
  <2> QED BY <2>1, <2>2, <2>3 DEF Readable
<1>8. Writing
  <2>1. \A p \in Senders : pc[p] = "idle" /\ put[p] = 0 BY DEF Init, TransportInit
  <2>2. mu = NoOne /\ NoOne \notin Senders
    BY WritersAssumption DEF Init, TransportInit, Senders
  <2> QED BY <1>4, <2>1, <2>2 DEF Writing
<1> QED BY <1>1, <1>5, <1>6, <1>7, <1>8 DEF IInv

\* Types, stages, what is sent, read and written hold always.
THEOREM Invariance == Spec => []IInv
<1>1. Init => IInv BY InvariantInit
<1>2. IInv /\ [Next]_vars => IInv'
  <2> SUFFICES ASSUME IInv, [Next]_vars PROVE IInv'
    OBVIOUS
  <2>1. Types /\ Stages /\ Sending /\ Readable /\ Writing BY DEF IInv
  <2>2. Types' BY <2>1, LinkTypesKept, WriteTypesKept, StreamTypesKept DEF Types
  <2>3. Stages' BY <2>1, StagesKept
  <2>4. Sending' BY <2>1, SendingKept
  <2>5. Readable' BY <2>1, ReadableKept
  <2>6. Writing' BY <2>1, WritingKept
  <2> QED BY <2>2, <2>3, <2>4, <2>5, <2>6 DEF IInv
<1> QED BY <1>1, <1>2, PTL DEF Spec

\* What has gone out is whole frames, the last perhaps unfinished, and no read
\* takes the middle of a frame for its header: for any number of goroutines
\* that write at once, any messages of the server and any breakdown.
THEOREM FramesAreWhole == Spec => []FramesStayWhole
<1>1. IInv => FramesStayWhole
  <2> SUFFICES ASSUME IInv PROVE FramesStayWhole
    OBVIOUS
  <2>1. PICK rest \in Seq(CellSet) : toServer \o rest = Flat(begun) BY DEF IInv, Writing
  <2>2. PICK s \in Seq(CellSet) : s = toServer BY DEF IInv, Types, StreamTypes
  <2>3. IsPrefix(s, s \o rest) BY PrefixOfJoin
  <2>4. IsPrefix(toServer, Flat(begun)) BY <2>1, <2>2, <2>3
  <2>5. readErr # "magic" BY DEF IInv, Readable
  <2> QED BY <2>4, <2>5 DEF FramesStayWhole, Flat
<1> QED BY <1>1, Invariance, PTL

\* No packet leaves in clear, all leave in the mode that the server's request
\* asked for, and the reader can open every frame that comes.
THEOREM PacketsAreSealed == Spec => []SealedAsAgreed
<1>1. IInv => SealedAsAgreed BY DEF IInv, Sending, Readable, SealedAsAgreed
<1> QED BY <1>1, Invariance, PTL

\* The application is told what the server said, in its order and once, through
\* any nesting of Multi and whatever does not decode, and nothing of what comes
\* after a ClientLoggedOff: for any messages that the handlers know.
THEOREM TellsInOrder == Spec => []ToldInOrder
<1>1. Init => Following BY FollowingInit
<1>2. IInv /\ Following /\ [Next]_vars => Following' BY FollowingKept DEF IInv
<1>3. Following => ToldInOrder
  <2> SUFFICES ASSUME Following PROVE ToldInOrder
    OBVIOUS
  <2>1. PICK fs \in Seq(Frames), heard \in Seq(Packets), ms \in Seq(Packets) :
          Carried(fs, heard, ms) /\ Reported(heard)
    BY DEF Following
  <2>2. PICK rest \in Seq(CallSet) : Expected = Promises(heard) \o rest
    BY <2>1, HeardIsExpected DEF Carried, Reported
  <2>3. PICK a \in Seq(CallSet), b \in Seq(CallSet) :
          a = told /\ b = Promises(work) /\ a \o b = Promises(heard)
    BY <2>1, PromisesJoin DEF Reported
  <2>4. (a \o b) \o rest = a \o (b \o rest) BY CallsJoin, Zenon
  <2>5. PICK c \in Seq(CallSet) : c = b \o rest BY ConcatProperties
  <2>6. IsPrefix(a, a \o c) BY PrefixOfJoin
  <2> QED BY <2>2, <2>3, <2>4, <2>5, <2>6 DEF ToldInOrder
<1> QED BY <1>1, <1>2, <1>3, Invariance, PTL DEF Spec

\* The variables keep their types, and the mutex is held by the goroutine that writes.
THEOREM TypeCorrect == Spec => []TypeOK
<1>1. IInv => TypeOK
  <2> SUFFICES ASSUME IInv PROVE TypeOK
    OBVIOUS
  <2>1. PICK n \in Nat : n = Len(got)
    BY LenProperties DEF IInv, Types, StreamTypes
  <2>2. n <= 4
    <3>1. CASE got = <<>> BY <2>1, <3>1, EmptySeq
    <3>2. CASE got # <<>>
      <4>1. PICK fs \in Seq(Frames) : Stream(fs) BY DEF IInv, Readable
      <4>2. fs # <<>> /\ fs[1] \in Frames BY <3>2, <4>1, GotIsFirst DEF IInv
      <4>3. fs[1].size \in 0..2 BY <4>2, CellsAre
      <4> QED BY <2>1, <4>1, <4>2, <4>3 DEF Stream
    <3> QED BY <3>1, <3>2
  <2>3. \A p \in Senders : pc[p] = "write" <=> mu = p BY DEF IInv, Writing
  <2> QED BY <2>1, <2>2, <2>3 DEF IInv, Types, LinkTypes, WriteTypes, TypeOK
<1> QED BY <1>1, Invariance, PTL
-----------------------------------------------------------------------------
(* The conversions.                                                        *)

\* What the widths and the inputs are.
LEMMA Widths ==
  /\ AccountBits \in Nat \ {0} /\ InstanceBits \in Nat \ {0} /\ TypeBits \in Nat \ {0}
  /\ UniverseBits \in Nat \ {0} /\ Lengths \in Nat \ {0} /\ BlockSize \in Nat \ {0}
  /\ ChunkSize \in Nat \ {0}
BY CodecsAssumption

LEMMA InputsAre ==
  ASSUME NEW i \in Inputs
  PROVE  /\ i.kind = "set" => i.id \subseteq Low(Width) /\ i.v \subseteq Nat
         /\ i.kind = "cut" => i.header \in Nat /\ i.count \in Nat /\ i.n \in Nat
         /\ i.kind = "pad" => i.data \in Seq(Nat)
         /\ i.kind = "keys" => i.keys \in Seq([class : Nat, instance : STRING])
BY CodecsAssumption

-----------------------------------------------------------------------------
(* The parts of a SteamID.                                                 *)

\* The part of s at a place, so many bits wide.
Part(s, at, bits) == Down(s, at) \cap Low(bits)

\* A place of a part is one of s.
LEMMA PartPlaces ==
  ASSUME NEW s \in SUBSET Nat, NEW at \in Nat, NEW bits \in Nat, NEW i \in Int
  PROVE  i \in Part(s, at, bits) <=> i \in Low(bits) /\ i + at \in s
<1>1. ASSUME i \in Part(s, at, bits) PROVE i \in Low(bits) /\ i + at \in s
  <2>1. PICK j \in s : j >= at /\ i = j - at BY <1>1 DEF Part, Down
  <2> QED BY <1>1, <2>1 DEF Part
<1>2. ASSUME i \in Low(bits), i + at \in s PROVE i \in Part(s, at, bits)
  <2>1. i + at >= at BY <1>2 DEF Low
  <2>2. i = (i + at) - at OBVIOUS
  <2> QED BY <1>2, <2>1, <2>2 DEF Part, Down
<1> QED BY <1>1, <1>2

LEMMA UpPlaces ==
  ASSUME NEW v \in SUBSET Nat, NEW at \in Nat, NEW i \in Int
  PROVE  i \in Up(v, at) <=> i - at \in v /\ i \in Low(Width)
<1>1. ASSUME i \in Up(v, at) PROVE i - at \in v /\ i \in Low(Width)
  <2>1. PICK j \in v : i = j + at BY <1>1 DEF Up
  <2> QED BY <1>1, <2>1 DEF Up
<1>2. ASSUME i - at \in v, i \in Low(Width) PROVE i \in Up(v, at)
  <2>1. i = (i - at) + at OBVIOUS
  <2> QED BY <1>2, <2>1 DEF Up
<1> QED BY <1>1, <1>2

\* The places of what a setter returns.
LEMMA SetPlaces ==
  ASSUME NEW s \in SUBSET Low(Width), NEW at \in Nat, NEW bits \in Nat, at + bits <= Width,
         NEW v \in SUBSET Low(bits), NEW i \in Int
  PROVE  i \in SetPart(s, at, bits, v) <=> IF i - at \in Low(bits) THEN i - at \in v ELSE i \in s
<1>0. Width \in Nat BY Widths DEF Width, UniverseAt, TypeAt, InstanceAt
<1>1. v \in SUBSET Nat /\ Low(bits) \in SUBSET Nat BY DEF Low
<1>2. i \in Up(v, at) <=> i - at \in v /\ i \in Low(Width) BY <1>1, UpPlaces
<1>3. i \in Up(Low(bits), at) <=> i - at \in Low(bits) /\ i \in Low(Width) BY <1>1, UpPlaces
<1>4. i - at \in Low(bits) => i \in Low(Width) BY <1>0 DEF Low
<1>5. i \in SetPart(s, at, bits, v) <=> (i \in s /\ ~(i \in Up(Low(bits), at))) \/ i \in Up(v, at)
  BY DEF SetPart
<1> QED BY <1>2, <1>3, <1>4, <1>5

LEMMA SetIsID ==
  ASSUME NEW s \in SUBSET Low(Width), NEW at, NEW bits, NEW v
  PROVE  SetPart(s, at, bits, v) \in SUBSET Low(Width)
<1>1. Up(v, at) \subseteq Low(Width) BY DEF Up
<1> QED BY <1>1 DEF SetPart

LEMMA SameNumbers ==
  ASSUME NEW A \in SUBSET Int, NEW B \in SUBSET Int, \A i \in Int : i \in A <=> i \in B
  PROVE  A = B
OBVIOUS

LEMMA PlacesAre == Low(Width) \subseteq Nat
BY Widths DEF Low, Width, UniverseAt, TypeAt, InstanceAt

\* A setter sets its part to a number that fits, and leaves every part alone
\* that does not overlap its own.
LEMMA SetsPart ==
  ASSUME NEW s \in SUBSET Low(Width), NEW at \in Nat, NEW bits \in Nat, at + bits <= Width,
         NEW v \in SUBSET Low(bits)
  PROVE  Part(SetPart(s, at, bits, v), at, bits) = v
<1> DEFINE r == SetPart(s, at, bits, v)
<1>1. r \in SUBSET Nat BY SetIsID, PlacesAre
<1>2. Part(r, at, bits) \subseteq Int /\ v \subseteq Int BY DEF Part, Low
<1>3. ASSUME NEW i \in Int PROVE i \in Part(r, at, bits) <=> i \in v
  <2> HIDE DEF r
  <2>1. i \in Part(r, at, bits) <=> i \in Low(bits) /\ i + at \in r BY <1>1, PartPlaces
  <2>2. i + at \in r <=> IF (i + at) - at \in Low(bits) THEN (i + at) - at \in v ELSE i + at \in s
    BY SetPlaces DEF r
  <2>3. (i + at) - at = i OBVIOUS
  <2> QED BY <2>1, <2>2, <2>3
<1> QED BY <1>2, <1>3

LEMMA KeepsPart ==
  ASSUME NEW s \in SUBSET Low(Width), NEW at \in Nat, NEW bits \in Nat, at + bits <= Width,
         NEW v \in SUBSET Low(bits), NEW at2 \in Nat, NEW bits2 \in Nat,
         at2 + bits2 <= at \/ at + bits <= at2
  PROVE  Part(SetPart(s, at, bits, v), at2, bits2) = Part(s, at2, bits2)
<1> DEFINE r == SetPart(s, at, bits, v)
<1>1. r \in SUBSET Nat /\ s \in SUBSET Nat BY SetIsID, PlacesAre
<1>2. Part(r, at2, bits2) \subseteq Int /\ Part(s, at2, bits2) \subseteq Int BY DEF Part, Low
<1>3. ASSUME NEW i \in Int PROVE i \in Part(r, at2, bits2) <=> i \in Part(s, at2, bits2)
  <2> HIDE DEF r
  <2>1. i \in Part(r, at2, bits2) <=> i \in Low(bits2) /\ i + at2 \in r BY <1>1, PartPlaces
  <2>2. i \in Part(s, at2, bits2) <=> i \in Low(bits2) /\ i + at2 \in s BY <1>1, PartPlaces
  <2>3. i + at2 \in r <=> IF (i + at2) - at \in Low(bits) THEN (i + at2) - at \in v ELSE i + at2 \in s
    BY SetPlaces DEF r
  <2>4. i \in Low(bits2) => ~((i + at2) - at \in Low(bits)) BY DEF Low
  <2> QED BY <2>1, <2>2, <2>3, <2>4
<1> QED BY <1>2, <1>3

\* The getters read these parts.
LEMMA PartsAre ==
  ASSUME NEW s \in SUBSET Low(Width)
  PROVE  /\ AccountID(s) = Part(s, 0, AccountBits)
         /\ Instance(s) = Part(s, InstanceAt, InstanceBits)
         /\ Type(s) = Part(s, TypeAt, TypeBits)
         /\ Universe(s) = Part(s, UniverseAt, UniverseBits)
<1>0. Width \in Nat /\ UniverseAt \in Nat /\ Width = UniverseAt + UniverseBits
  BY Widths DEF Width, UniverseAt, TypeAt, InstanceAt
<1>1. s \in SUBSET Nat BY <1>0 DEF Low
<1>2. AccountID(s) = Part(s, 0, AccountBits)
  <2>1. Part(s, 0, AccountBits) \subseteq Int /\ AccountID(s) \subseteq Int BY DEF Part, Low, AccountID
  <2>2. ASSUME NEW i \in Int PROVE i \in AccountID(s) <=> i \in Part(s, 0, AccountBits)
    <3>1. i \in Part(s, 0, AccountBits) <=> i \in Low(AccountBits) /\ i + 0 \in s BY <1>1, Widths, PartPlaces
    <3>2. i + 0 = i OBVIOUS
    <3> QED BY <3>1, <3>2 DEF AccountID
  <2> QED BY <2>1, <2>2
<1>3. Universe(s) = Part(s, UniverseAt, UniverseBits)
  <2>1. ASSUME NEW i \in Down(s, UniverseAt) PROVE i \in Low(UniverseBits)
    <3>1. PICK j \in s : j >= UniverseAt /\ i = j - UniverseAt BY <2>1 DEF Down
    <3>2. j \in 0..Width - 1 BY DEF Low
    <3> QED BY <1>0, <3>1, <3>2, Widths DEF Low
  <2> QED BY <2>1 DEF Part, Universe
<1> QED BY <1>2, <1>3 DEF Part, Instance, Type

\* The parts of a SteamID, each with its place and width.
LEMMA Places ==
  /\ InstanceAt \in Nat /\ TypeAt \in Nat /\ UniverseAt \in Nat /\ Width \in Nat
  /\ AccountBits = InstanceAt /\ InstanceAt + InstanceBits = TypeAt
  /\ TypeAt + TypeBits = UniverseAt /\ UniverseAt + UniverseBits = Width
BY Widths DEF Width, UniverseAt, TypeAt, InstanceAt

LEMMA PartsApart ==
  ASSUME input \in Inputs
  PROVE  PartsStayApart
<1> SUFFICES ASSUME input.kind = "set" PROVE PartsStayApart
  BY DEF PartsStayApart
<1> DEFINE s == input.id  v == input.v
<1>0. s \in SUBSET Low(Width) BY InputsAre
<1> HIDE DEF s
<1>t. /\ AccountBits \in Nat /\ InstanceBits \in Nat /\ TypeBits \in Nat /\ UniverseBits \in Nat
  BY Widths
<1>1. ASSUME v \subseteq Low(AccountBits)
      PROVE  Parts(SetAccountID(s, v)) = <<v, Instance(s), Type(s), Universe(s)>>
  <2> DEFINE r == SetPart(s, 0, AccountBits, v)
  <2>1. r \in SUBSET Low(Width) BY <1>0, SetIsID
  <2>2. Part(r, 0, AccountBits) = v BY <1>0, <1>t, <1>1, Places, SetsPart
  <2>3. /\ Part(r, InstanceAt, InstanceBits) = Part(s, InstanceAt, InstanceBits)
        /\ Part(r, TypeAt, TypeBits) = Part(s, TypeAt, TypeBits)
        /\ Part(r, UniverseAt, UniverseBits) = Part(s, UniverseAt, UniverseBits)
    BY <1>0, <1>t, <1>1, Places, KeepsPart
  <2> HIDE DEF r
  <2>4. Parts(r) = <<v, Instance(s), Type(s), Universe(s)>> BY <1>0, <2>1, <2>2, <2>3, PartsAre DEF Parts
  <2> QED BY <2>4 DEF r, SetAccountID
<1>2. ASSUME v \subseteq Low(InstanceBits)
      PROVE  Parts(SetInstance(s, v)) = <<AccountID(s), v, Type(s), Universe(s)>>
  <2> DEFINE r == SetPart(s, InstanceAt, InstanceBits, v)
  <2>1. r \in SUBSET Low(Width) BY <1>0, SetIsID
  <2>2. Part(r, InstanceAt, InstanceBits) = v BY <1>0, <1>t, <1>2, Places, SetsPart
  <2>3. /\ Part(r, 0, AccountBits) = Part(s, 0, AccountBits)
        /\ Part(r, TypeAt, TypeBits) = Part(s, TypeAt, TypeBits)
        /\ Part(r, UniverseAt, UniverseBits) = Part(s, UniverseAt, UniverseBits)
    BY <1>0, <1>t, <1>2, Places, KeepsPart
  <2> HIDE DEF r
  <2>4. Parts(r) = <<AccountID(s), v, Type(s), Universe(s)>> BY <1>0, <2>1, <2>2, <2>3, PartsAre DEF Parts
  <2> QED BY <2>4 DEF r, SetInstance
<1>3. ASSUME v \subseteq Low(TypeBits)
      PROVE  Parts(SetType(s, v)) = <<AccountID(s), Instance(s), v, Universe(s)>>
  <2> DEFINE r == SetPart(s, TypeAt, TypeBits, v)
  <2>1. r \in SUBSET Low(Width) BY <1>0, SetIsID
  <2>2. Part(r, TypeAt, TypeBits) = v BY <1>0, <1>t, <1>3, Places, SetsPart
  <2>3. /\ Part(r, 0, AccountBits) = Part(s, 0, AccountBits)
        /\ Part(r, InstanceAt, InstanceBits) = Part(s, InstanceAt, InstanceBits)
        /\ Part(r, UniverseAt, UniverseBits) = Part(s, UniverseAt, UniverseBits)
    BY <1>0, <1>t, <1>3, Places, KeepsPart
  <2> HIDE DEF r
  <2>4. Parts(r) = <<AccountID(s), Instance(s), v, Universe(s)>> BY <1>0, <2>1, <2>2, <2>3, PartsAre DEF Parts
  <2> QED BY <2>4 DEF r, SetType
<1>4. ASSUME v \subseteq Low(UniverseBits)
      PROVE  Parts(SetUniverse(s, v)) = <<AccountID(s), Instance(s), Type(s), v>>
  <2> DEFINE r == SetPart(s, UniverseAt, UniverseBits, v)
  <2>1. r \in SUBSET Low(Width) BY <1>0, SetIsID
  <2>2. Part(r, UniverseAt, UniverseBits) = v BY <1>0, <1>t, <1>4, Places, SetsPart
  <2>3. /\ Part(r, 0, AccountBits) = Part(s, 0, AccountBits)
        /\ Part(r, InstanceAt, InstanceBits) = Part(s, InstanceAt, InstanceBits)
        /\ Part(r, TypeAt, TypeBits) = Part(s, TypeAt, TypeBits)
    BY <1>0, <1>t, <1>4, Places, KeepsPart
  <2> HIDE DEF r
  <2>4. Parts(r) = <<AccountID(s), Instance(s), Type(s), v>> BY <1>0, <2>1, <2>2, <2>3, PartsAre DEF Parts
  <2> QED BY <2>4 DEF r, SetUniverse
<1> HIDE DEF v
<1> DEFINE now == <<SetAccountID(s, v), SetInstance(s, v), SetType(s, v), SetUniverse(s, v)>>
           bits == <<AccountBits, InstanceBits, TypeBits, UniverseBits>>
<1>5. ASSUME NEW i \in 1..4, v \subseteq Low(bits[i])
      PROVE  Parts(now[i]) = [Parts(s) EXCEPT ![i] = v]
  <2>1. CASE i = 1 BY <1>1, <1>5, <2>1 DEF Parts
  <2>2. CASE i = 2 BY <1>2, <1>5, <2>2 DEF Parts
  <2>3. CASE i = 3 BY <1>3, <1>5, <2>3 DEF Parts
  <2>4. CASE i = 4 BY <1>4, <1>5, <2>4 DEF Parts
  <2>5. i = 1 \/ i = 2 \/ i = 3 \/ i = 4 BY <1>5
  <2> QED BY <2>1, <2>2, <2>3, <2>4, <2>5
<1> QED BY <1>5 DEF PartsStayApart, s, v

-----------------------------------------------------------------------------
(* The texts of a SteamID.                                                 *)

\* The places of an individual SteamID.
LEMMA IndividualPlaces ==
  ASSUME NEW u \in SUBSET Nat, NEW a \in SUBSET Low(AccountBits), NEW i \in Int
  PROVE  i \in Individual(u, a) <=>
           (i - UniverseAt \in u /\ i \in Low(Width)) \/ i = TypeAt \/ i = InstanceAt \/ i \in a
<1>1. i \in Up(u, UniverseAt) <=> i - UniverseAt \in u /\ i \in Low(Width) BY Places, UpPlaces
<1>2. One \in SUBSET Nat BY DEF One
<1>3. i \in Up(One, TypeAt) <=> i - TypeAt \in One /\ i \in Low(Width) BY <1>2, Places, UpPlaces
<1>4. i \in Up(One, InstanceAt) <=> i - InstanceAt \in One /\ i \in Low(Width) BY <1>2, Places, UpPlaces
<1>5. TypeAt \in Low(Width) /\ InstanceAt \in Low(Width) BY Widths, Places DEF Low
<1>6. i - TypeAt \in One <=> i = TypeAt BY Places DEF One
<1>7. i - InstanceAt \in One <=> i = InstanceAt BY Places DEF One
<1> QED BY <1>1, <1>3, <1>4, <1>5, <1>6, <1>7 DEF Individual

\* The account of an individual SteamID is the one it was made from.
LEMMA IndividualAccount ==
  ASSUME NEW u \in SUBSET Nat, NEW a \in SUBSET Low(AccountBits)
  PROVE  AccountID(Individual(u, a)) = a
<1>1. AccountID(Individual(u, a)) \subseteq Int /\ a \subseteq Int BY DEF AccountID, Low
<1>2. ASSUME NEW i \in Int PROVE i \in AccountID(Individual(u, a)) <=> i \in a
  <2>1. i \in Individual(u, a) <=>
          (i - UniverseAt \in u /\ i \in Low(Width)) \/ i = TypeAt \/ i = InstanceAt \/ i \in a
    BY IndividualPlaces
  <2>2. i \in Low(AccountBits) => ~(i - UniverseAt \in u) /\ i # TypeAt /\ i # InstanceAt
    BY Places, Widths DEF Low
  <2> QED BY <2>1, <2>2 DEF AccountID
<1> QED BY <1>1, <1>2

\* An individual SteamID is made of its universe and its account.
LEMMA IndividualIs ==
  ASSUME NEW s \in SUBSET Low(Width), Type(s) = One, Instance(s) = One
  PROVE  Individual(Universe(s), AccountID(s)) = s
<1>1. s \in SUBSET Nat BY PlacesAre
<1>2. /\ AccountID(s) \in SUBSET Low(AccountBits)
      /\ Universe(s) = Part(s, UniverseAt, UniverseBits)
      /\ Type(s) = Part(s, TypeAt, TypeBits) /\ Instance(s) = Part(s, InstanceAt, InstanceBits)
  BY PartsAre DEF AccountID
<1>3. Universe(s) \in SUBSET Nat BY <1>2, Widths DEF Part, Low
<1> DEFINE r == Individual(Universe(s), AccountID(s))
<1>4. r \in SUBSET Int
  <2>1. Up(Universe(s), UniverseAt) \subseteq Low(Width) /\ Up(One, TypeAt) \subseteq Low(Width)
        /\ Up(One, InstanceAt) \subseteq Low(Width)
    BY DEF Up
  <2>2. Low(Width) \subseteq Int /\ AccountID(s) \subseteq Int
    <3>1. Low(Width) \subseteq Int BY PlacesAre
    <3>2. AccountID(s) \subseteq Low(AccountBits) BY DEF AccountID
    <3>3. Low(AccountBits) \subseteq Int BY DEF Low
    <3> QED BY <3>1, <3>2, <3>3
  <2>3. r = Up(Universe(s), UniverseAt) \cup Up(One, TypeAt) \cup Up(One, InstanceAt) \cup AccountID(s)
    BY DEF Individual
  <2> HIDE DEF r
  <2> QED BY <2>1, <2>2, <2>3
<1>5. ASSUME NEW i \in Int PROVE i \in r <=> i \in s
  <2>1. i \in r <=> \/ i - UniverseAt \in Universe(s) /\ i \in Low(Width)
                    \/ i = TypeAt \/ i = InstanceAt \/ i \in AccountID(s)
    BY <1>2, <1>3, IndividualPlaces
  <2>2. i - UniverseAt \in Universe(s) <=> i - UniverseAt \in Low(UniverseBits) /\ i - UniverseAt + UniverseAt \in s
    BY <1>1, <1>2, Places, Widths, PartPlaces
  <2>3. i - TypeAt \in One <=> i - TypeAt \in Low(TypeBits) /\ i - TypeAt + TypeAt \in s
    <3>1. i - TypeAt \in Part(s, TypeAt, TypeBits) <=> i - TypeAt \in Low(TypeBits) /\ i - TypeAt + TypeAt \in s
      BY <1>1, Places, Widths, PartPlaces
    <3>2. Part(s, TypeAt, TypeBits) = One BY <1>2
    <3> QED BY <3>1, <3>2, Zenon
  <2>4. i - InstanceAt \in One <=> i - InstanceAt \in Low(InstanceBits) /\ i - InstanceAt + InstanceAt \in s
    <3>1. i - InstanceAt \in Part(s, InstanceAt, InstanceBits)
            <=> i - InstanceAt \in Low(InstanceBits) /\ i - InstanceAt + InstanceAt \in s
      BY <1>1, Places, Widths, PartPlaces
    <3>2. Part(s, InstanceAt, InstanceBits) = One BY <1>2
    <3> QED BY <3>1, <3>2, Zenon
  <2>5. /\ i - UniverseAt + UniverseAt = i /\ i - TypeAt + TypeAt = i /\ i - InstanceAt + InstanceAt = i
        /\ i - TypeAt \in One <=> i = TypeAt
        /\ i - InstanceAt \in One <=> i = InstanceAt
    BY Places DEF One
  <2>6. i \in Low(Width) <=> \/ i \in Low(AccountBits) \/ i - InstanceAt \in Low(InstanceBits)
                            \/ i - TypeAt \in Low(TypeBits) \/ i - UniverseAt \in Low(UniverseBits)
    BY Places, Widths DEF Low
  <2>7. i \in s => i \in Low(Width) OBVIOUS
  <2> QED BY <2>1, <2>2, <2>3, <2>4, <2>5, <2>6, <2>7 DEF AccountID
<1> HIDE DEF r
<1>6. s \in SUBSET Int /\ \A i \in Int : i \in r <=> i \in s BY <1>1, <1>5
<1>7. r = s BY <1>4, <1>6, SameNumbers
<1> QED BY <1>7 DEF r

\* The number of STEAM_X:Y:Z is read as the account it was written for.
LEMMA Steam2Account ==
  ASSUME NEW a \in SUBSET Low(AccountBits)
  PROVE  (Up(Down(a, 1), 1) \cap Low(AccountBits)) \cup (a \cap Low(1)) = a
<1>1. a \in SUBSET Nat BY Widths DEF Low
<1>2. Down(a, 1) \in SUBSET Nat BY <1>1 DEF Down
<1>3. ASSUME NEW i \in Int
      PROVE  i \in (Up(Down(a, 1), 1) \cap Low(AccountBits)) \cup (a \cap Low(1)) <=> i \in a
  <2>1. i \in Up(Down(a, 1), 1) <=> i - 1 \in Down(a, 1) /\ i \in Low(Width) BY <1>2, UpPlaces
  <2>2. i - 1 \in Down(a, 1) <=> i \in a /\ i >= 1
    <3>1. ASSUME i - 1 \in Down(a, 1) PROVE i \in a /\ i >= 1
      <4>1. PICK j \in a : j >= 1 /\ i - 1 = j - 1 BY <3>1 DEF Down
      <4>2. i = j BY <1>1, <4>1
      <4> QED BY <4>1, <4>2
    <3>2. ASSUME i \in a, i >= 1 PROVE i - 1 \in Down(a, 1) BY <3>2 DEF Down
    <3> QED BY <3>1, <3>2
  <2>3. i \in Low(AccountBits) => i \in Low(Width) BY Places, Widths DEF Low
  <2>4. i \in Low(1) <=> i = 0 BY DEF Low
  <2>5. i \in a => i \in Low(AccountBits) /\ (i >= 1 \/ i = 0) BY <1>1
  <2> QED BY <2>1, <2>2, <2>3, <2>4, <2>5
<1> DEFINE b == (Up(Down(a, 1), 1) \cap Low(AccountBits)) \cup (a \cap Low(1))
<1>4. b \in SUBSET Int /\ a \in SUBSET Int BY <1>1 DEF Low
<1>5. \A i \in Int : i \in b <=> i \in a BY <1>3
<1> HIDE DEF b
<1>6. b = a BY <1>4, <1>5, SameNumbers
<1> QED BY <1>6 DEF b

LEMMA TextsKeep ==
  ASSUME input \in Inputs
  PROVE  TextsKeepAccount
<1> SUFFICES ASSUME input.kind = "set" PROVE TextsKeepAccount
  BY DEF TextsKeepAccount
<1> DEFINE s == input.id
           a == AccountID(s)
           u == IF Universe(s) = {} THEN One ELSE Universe(s)
<1>0. s \in SUBSET Low(Width) BY InputsAre
<1> HIDE DEF s
<1>1. a \in SUBSET Low(AccountBits) BY DEF AccountID
<1>2. Universe(s) \in SUBSET Nat /\ One \in SUBSET Nat
  <2>1. Universe(s) = Part(s, UniverseAt, UniverseBits) BY <1>0, PartsAre
  <2> QED BY <2>1, Widths DEF Part, Low, One
<1>3. u \in SUBSET Nat BY <1>2
<1>4. FromSteam2ID(ToSteam2ID(s)) = Individual(u, a)
  <2>1. (Up(Down(a, 1), 1) \cap Low(AccountBits)) \cup (a \cap Low(1)) = a BY <1>1, Steam2Account
  <2> HIDE DEF a
  <2>2. ToSteam2ID(s) = <<Universe(s), a \cap Low(1), Down(a, 1)>> BY DEF ToSteam2ID, a
  <2> QED BY <2>1, <2>2 DEF FromSteam2ID
<1>5. FromSteam3ID(ToSteam3ID(s)) = Individual(One, a) BY DEF FromSteam3ID, ToSteam3ID
<1>6. AccountID(Individual(u, a)) = a /\ AccountID(Individual(One, a)) = a
  BY <1>1, <1>2, <1>3, IndividualAccount
<1>7. ASSUME Type(s) = One, Instance(s) = One, Universe(s) # {}
      PROVE  Individual(u, a) = s /\ (Universe(s) = One => Individual(One, a) = s)
  BY <1>0, <1>7, IndividualIs
<1> HIDE DEF u, a
<1> QED BY <1>4, <1>5, <1>6, <1>7 DEF TextsKeepAccount, s, a

-----------------------------------------------------------------------------
(* Packets that are cut short.                                             *)

LEMMA MultiIsWhole ==
  ASSUME NEW sizes \in Seq(Nat), NEW n \in Nat
  PROVE  LET taken == decodeMulti(sizes, n) IN taken = Torn \/ EntriesEnd(taken) = n
<1> DEFINE whole == {k \in 0..Len(sizes) : EntriesEnd(SubSeq(sizes, 1, k)) = n}
<1>1. CASE whole = {} BY <1>1 DEF decodeMulti
<1>2. CASE whole # {}
  <2>1. PICK k \in whole : k = CHOOSE j \in whole : TRUE BY <1>2
  <2>2. decodeMulti(sizes, n) = SubSeq(sizes, 1, k) BY <1>2, <2>1 DEF decodeMulti
  <2> QED BY <2>1, <2>2
<1> QED BY <1>1, <1>2

LEMMA CutsNoticed ==
  ASSUME input \in Inputs
  PROVE  CutIsNoticed
<1> SUFFICES ASSUME input.kind = "cut" PROVE CutIsNoticed
  BY DEF CutIsNoticed
<1> DEFINE h == input.header  c == input.count  n == input.n
<1>0. h \in Nat /\ c \in Nat /\ n \in Nat BY InputsAre
<1> HIDE DEF h, c, n
<1>1. ASSUME h + 8 < Lengths,
             NEW body \in {decodeProtoPacket(h, n), decodeGCProtoPayload(h, n)}
      PROVE  body = Refused \/ (8 + h <= body.from /\ body.from <= body.to)
  <2>1. Offset(h) = 8 + h BY <1>0, <1>1, Widths DEF Offset
  <2>2. body = Refused \/ (n >= Offset(h) /\ body = Body(Offset(h), n))
    <3>1. CASE body = decodeProtoPacket(h, n)
      BY <1>0, <2>1, <3>1 DEF decodeProtoPacket
    <3>2. CASE body = decodeGCProtoPayload(h, n)
      BY <1>0, <2>1, <3>2 DEF decodeGCProtoPayload
    <3> QED BY <1>1, <3>1, <3>2
  <2>3. Body(Offset(h), n).from = Offset(h) /\ Body(Offset(h), n).to = n BY DEF Body
  <2>4. 8 + h <= 8 + h BY <1>0
  <2> QED BY <2>1, <2>2, <2>3, <2>4
<1>2. ASSUME NEW body \in {decodeNonProtoPacket(n), decodeGCBinaryPayload(n)}
      PROVE  body.from <= body.to
  <2>1. Refused.from <= Refused.to BY DEF Refused
  <2>2. CASE body = decodeNonProtoPacket(n)
    BY <1>0, <2>1, <2>2 DEF decodeNonProtoPacket, Body
  <2>3. CASE body = decodeGCBinaryPayload(n)
    BY <1>0, <2>1, <2>3 DEF decodeGCBinaryPayload, Body
  <2> QED BY <1>2, <2>2, <2>3
<1>3. LET sizes == [i \in 1..c |-> h]  taken == decodeMulti(sizes, n) IN
      taken = Torn \/ EntriesEnd(taken) = n
  <2>1. [i \in 1..c |-> h] \in Seq(Nat) BY <1>0
  <2> QED BY <1>0, <2>1, MultiIsWhole
<1>4. LET ids == handleCraftResponse(c, n) IN ids <= c /\ (ids > 0 => 8 + 8 * ids <= n)
  BY <1>0 DEF handleCraftResponse
<1> QED BY <1>1, <1>2, <1>3, <1>4, Zenon DEF CutIsNoticed, h, c, n

-----------------------------------------------------------------------------
(* Padding.                                                                *)

\* Division with remainder.
LEMMA Division ==
  ASSUME NEW a \in Nat, NEW b \in Nat \ {0}
  PROVE  /\ a % b \in 0..b - 1 /\ a \div b \in Nat
         /\ a = b * (a \div b) + (a % b)
OBVIOUS

\* The remainder is the one number below b that leaves a multiple of it.
LEMMA Remainder ==
  ASSUME NEW a \in Nat, NEW b \in Nat \ {0}, NEW q \in Int, NEW r \in 0..b - 1, a = b * q + r
  PROVE  a % b = r
<1> DEFINE p == a \div b  m == a % b
<1>1. m \in 0..b - 1 /\ p \in Nat /\ a = b * p + m BY Division
<1> HIDE DEF p, m
<1>2. b * (p - q) = r - m BY <1>1
<1>3. p = q
  <2>1. ASSUME p - q >= 1 PROVE FALSE
    <3>1. b * (p - q) >= b BY <1>1, <2>1
    <3> QED BY <1>1, <1>2, <3>1
  <2>2. ASSUME p - q <= -1 PROVE FALSE
    <3>1. b * (p - q) <= -b BY <1>1, <2>2
    <3> QED BY <1>1, <1>2, <3>1
  <2> QED BY <1>1, <2>1, <2>2
<1>4. m = r BY <1>1, <1>3
<1> QED BY <1>4 DEF m

\* What Pad makes: a whole number of blocks that ends with as many times the
\* number of the elements it has put there.
LEMMA Padded ==
  ASSUME NEW data \in Seq(Nat)
  PROVE  LET all == pkcs7Pad(data)  more == BlockSize - (Len(data) % BlockSize) IN
         /\ all \in Seq(Nat) /\ Len(all) = Len(data) + more /\ more \in 1..BlockSize
         /\ Len(all) % BlockSize = 0
         /\ \A i \in 1..Len(all) : all[i] = IF i <= Len(data) THEN data[i] ELSE more
<1> DEFINE n == Len(data)
           more == BlockSize - (n % BlockSize)
           tail == [i \in 1..more |-> more]
           all == data \o tail
<1>1. n \in Nat /\ BlockSize \in Nat \ {0} BY Widths
<1>2. n % BlockSize \in 0..BlockSize - 1 /\ n = BlockSize * (n \div BlockSize) + (n % BlockSize)
      /\ n \div BlockSize \in Nat
  BY <1>1, Division
<1>3. more \in 1..BlockSize BY <1>1, <1>2
<1>4. tail \in Seq(Nat) /\ Len(tail) = more /\ \A i \in 1..more : tail[i] = more
  <2> HIDE DEF more
  <2> QED BY <1>1, <1>3
<1>5. pkcs7Pad(data) = all BY DEF pkcs7Pad
<1>6. n + more = BlockSize * (n \div BlockSize + 1) + 0 BY <1>1, <1>2
<1>7. (n + more) % BlockSize = 0
  <2>1. n + more \in Nat /\ n \div BlockSize + 1 \in Int /\ 0 \in 0..BlockSize - 1 BY <1>1, <1>2, <1>3
  <2> HIDE DEF more
  <2> QED BY <1>1, <1>6, <2>1, Remainder
<1> HIDE DEF tail, more, n
<1>8. all \in Seq(Nat) /\ Len(all) = n + more
      /\ \A i \in 1..n + more : all[i] = IF i <= n THEN data[i] ELSE tail[i - n]
  BY <1>4, ConcatProperties DEF n
<1>9. ASSUME NEW i \in 1..Len(all) PROVE all[i] = IF i <= n THEN data[i] ELSE more
  <2>1. CASE i <= n BY <1>8, <1>9, <2>1
  <2>2. CASE ~(i <= n)
    <3>1. i - n \in 1..more BY <1>1, <1>3, <1>8, <2>2
    <3>2. all[i] = tail[i - n] BY <1>8, <2>2
    <3> QED BY <1>4, <2>2, <3>1, <3>2
  <2> QED BY <2>1, <2>2
<1> HIDE DEF all
<1>10. /\ all \in Seq(Nat) /\ Len(all) = n + more /\ more \in 1..BlockSize
       /\ Len(all) % BlockSize = 0
       /\ \A i \in 1..Len(all) : all[i] = IF i <= n THEN data[i] ELSE more
  BY <1>3, <1>7, <1>8, <1>9
<1> QED BY <1>5, <1>10 DEF n, more

\* Unpad takes from padded data as many elements as the last one says.
LEMMA Unpadded ==
  ASSUME NEW data \in Seq(Nat), pkcs7Unpad(data) # Invalid
  PROVE  LET last == data[Len(data)]  rest == Len(data) - last IN
         /\ last \in 1..BlockSize /\ rest \in Nat /\ Len(data) % BlockSize = 0
         /\ \A i \in rest + 1..Len(data) : data[i] = last
         /\ pkcs7Unpad(data) = SubSeq(data, 1, rest)
<1> DEFINE last == data[Len(data)]  rest == Len(data) - last
<1>1. /\ data # <<>> /\ Len(data) % BlockSize = 0 /\ last \in 1..BlockSize
      /\ \A i \in rest + 1..Len(data) : data[i] = last
      /\ pkcs7Unpad(data) = SubSeq(data, 1, rest)
  BY DEF pkcs7Unpad
<1>2. rest \in Nat
  <2>1. Len(data) \in Nat /\ Len(data) # 0 /\ BlockSize \in Nat \ {0} BY <1>1, Widths
  <2>2. Len(data) = BlockSize * (Len(data) \div BlockSize) + (Len(data) % BlockSize)
        /\ Len(data) \div BlockSize \in Nat
    BY <2>1, Division
  <2>3. Len(data) \div BlockSize >= 1 BY <1>1, <2>1, <2>2
  <2>4. Len(data) >= BlockSize
    <3> DEFINE q == Len(data) \div BlockSize
    <3>1. q >= 1 /\ q \in Nat /\ Len(data) = BlockSize * q + 0 BY <1>1, <2>2, <2>3
    <3> HIDE DEF q
    <3>2. BlockSize * q >= BlockSize BY <2>1, <3>1
    <3> QED BY <2>1, <3>1, <3>2
  <2>5. last \in Int /\ last <= BlockSize BY <1>1
  <2> HIDE DEF last
  <2> QED BY <2>1, <2>4, <2>5
<1> QED BY <1>1, <1>2

LEMMA PadUndone ==
  ASSUME NEW data \in Seq(Nat)
  PROVE  pkcs7Unpad(pkcs7Pad(data)) = data
<1> DEFINE all == pkcs7Pad(data)  n == Len(data)  more == BlockSize - (n % BlockSize)
<1>1. /\ all \in Seq(Nat) /\ Len(all) = n + more /\ more \in 1..BlockSize
      /\ Len(all) % BlockSize = 0
      /\ \A i \in 1..Len(all) : all[i] = IF i <= n THEN data[i] ELSE more
  BY Padded
<1>0. n \in Nat /\ BlockSize \in Nat \ {0} /\ data \in Seq(Nat) BY Widths
<1> HIDE DEF all, more
<1>2. \A i \in 1..n : all[i] = data[i] BY <1>0, <1>1
<1>3. \A i \in n + 1..Len(all) : all[i] = more BY <1>0, <1>1
<1>4. all[Len(all)] = more /\ Len(all) - more = n /\ all # <<>>
  <2> HIDE DEF n
  <2>1. Len(all) \in n + 1..Len(all) /\ Len(all) - more = n BY <1>0, <1>1
  <2>2. all # <<>> BY <1>0, <2>1
  <2> QED BY <1>3, <2>1, <2>2
<1>5. pkcs7Unpad(all) = SubSeq(all, 1, n)
  <2> HIDE DEF n
  <2> QED BY <1>1, <1>3, <1>4 DEF pkcs7Unpad
<1>6. SubSeq(all, 1, n) \in Seq(Nat) /\ Len(SubSeq(all, 1, n)) = n
      /\ \A i \in 1..n : SubSeq(all, 1, n)[i] = all[i]
  <2>1. \A i \in 1..n : all[i] \in Nat BY <1>0, <1>1
  <2>2. /\ SubSeq(all, 1, n) \in Seq(Nat) /\ Len(SubSeq(all, 1, n)) = IF 1 <= n THEN n - 1 + 1 ELSE 0
        /\ \A i \in 1..n - 1 + 1 : SubSeq(all, 1, n)[i] = all[1 + i - 1]
    BY <1>0, <2>1, SubSeqProperties
  <2>3. n - 1 + 1 = n /\ \A i \in 1..n : 1 + i - 1 = i BY <1>0
  <2> HIDE DEF n
  <2> QED BY <1>0, <2>2, <2>3
<1>7. SubSeq(all, 1, n) = data BY <1>0, <1>2, <1>6, SeqEqual
<1> QED BY <1>5, <1>7 DEF all

LEMMA UnpadUndone ==
  ASSUME NEW data \in Seq(Nat), pkcs7Unpad(data) # Invalid
  PROVE  pkcs7Pad(pkcs7Unpad(data)) = data
<1> DEFINE last == data[Len(data)]  n == Len(data) - last  rest == pkcs7Unpad(data)
           more == BlockSize - (n % BlockSize)  all == pkcs7Pad(rest)
<1>1. /\ last \in 1..BlockSize /\ n \in Nat /\ Len(data) % BlockSize = 0
      /\ \A i \in n + 1..Len(data) : data[i] = last
      /\ rest = SubSeq(data, 1, n)
  BY Unpadded
<1>0. Len(data) \in Nat /\ BlockSize \in Nat \ {0} BY Widths
<1> HIDE DEF rest, last
<1>2. rest \in Seq(Nat) /\ Len(rest) = n /\ \A i \in 1..n : rest[i] = data[i]
  <2>1. \A i \in 1..n : data[i] \in Nat BY <1>0, <1>1
  <2>2. /\ SubSeq(data, 1, n) \in Seq(Nat) /\ Len(SubSeq(data, 1, n)) = IF 1 <= n THEN n - 1 + 1 ELSE 0
        /\ \A i \in 1..n - 1 + 1 : SubSeq(data, 1, n)[i] = data[1 + i - 1]
    BY <1>1, <2>1, SubSeqProperties
  <2>3. n - 1 + 1 = n /\ \A i \in 1..n : 1 + i - 1 = i BY <1>1
  <2> HIDE DEF n
  <2> QED BY <1>1, <2>2, <2>3
<1>3. more = last
  <2> DEFINE q == Len(data) \div BlockSize
  <2>1. Len(data) = BlockSize * q + 0 /\ q \in Nat BY <1>0, <1>1, Division
  <2> HIDE DEF q
  <2>2. n = BlockSize * (q - 1) + (BlockSize - last) BY <1>0, <1>1, <2>1
  <2>3. n = BlockSize * q - last BY <1>0, <1>1, <2>1
  <2>4. CASE last = BlockSize
    <3>1. n = BlockSize * (q - 1) + 0 BY <1>0, <2>1, <2>2, <2>4
    <3>2. q - 1 \in Int /\ 0 \in 0..BlockSize - 1 BY <1>0, <2>1
    <3>3. n \in Nat BY <1>1
    <3> HIDE DEF n
    <3>4. n % BlockSize = 0 BY <1>0, <3>1, <3>2, <3>3, Remainder
    <3> QED BY <1>0, <2>4, <3>4
  <2>5. CASE last # BlockSize
    <3>1. q - 1 \in Int /\ BlockSize - last \in 0..BlockSize - 1 BY <1>0, <1>1, <2>1, <2>5
    <3>2. n \in Nat BY <1>1
    <3> HIDE DEF n
    <3>3. n % BlockSize = BlockSize - last BY <1>0, <2>2, <3>1, <3>2, Remainder
    <3> QED BY <1>0, <1>1, <3>3
  <2> QED BY <2>4, <2>5
<1>4. /\ all \in Seq(Nat) /\ Len(all) = n + more
      /\ \A i \in 1..Len(all) : all[i] = IF i <= n THEN rest[i] ELSE more
  BY <1>2, Padded
<1> HIDE DEF more, all
<1>5. Len(all) = Len(data) BY <1>0, <1>1, <1>3, <1>4
<1>6. ASSUME NEW i \in 1..Len(all) PROVE all[i] = data[i]
  <2>1. CASE i <= n
    <3>1. i \in 1..n BY <1>1, <2>1
    <3> QED BY <1>2, <1>4, <2>1, <3>1
  <2>2. CASE ~(i <= n)
    <3>1. i \in n + 1..Len(data) BY <1>1, <1>5, <2>2
    <3> QED BY <1>1, <1>3, <1>4, <2>2, <3>1
  <2> QED BY <2>1, <2>2
<1>7. all = data BY <1>4, <1>5, <1>6, SeqEqual
<1> QED BY <1>7 DEF all, rest

LEMMA PadsInvert ==
  ASSUME input \in Inputs
  PROVE  PaddingInverts
<1> SUFFICES ASSUME input.kind = "pad" PROVE PaddingInverts
  BY DEF PaddingInverts
<1>1. input.data \in Seq(Nat) BY InputsAre
<1> QED BY <1>1, PadUndone, UnpadUndone DEF PaddingInverts

-----------------------------------------------------------------------------
(* The keys of asset descriptions.                                         *)

Key == [class : Nat, instance : STRING]

\* Among some of the first n numbers there is a largest one.
LEMMA MaxIsThere ==
  ASSUME NEW n \in Nat, NEW S \in SUBSET (1..n), S # {}
  PROVE  Max(S) \in S
<1> DEFINE Top(R, i) == i \in R /\ \A j \in R : i >= j
           T == {m \in Nat : \A R \in SUBSET (1..m) : R # {} => \E i : Top(R, i)}
<1>1. 0 \in T OBVIOUS
<1>2. ASSUME NEW m \in Nat, m \in T PROVE m + 1 \in T
  <2> SUFFICES ASSUME NEW R \in SUBSET (1..m + 1), R # {} PROVE \E i : Top(R, i)
    OBVIOUS
  <2>1. CASE m + 1 \in R
    <3>1. Top(R, m + 1) BY <2>1
    <3> QED BY <3>1
  <2>2. CASE m + 1 \notin R
    <3>1. R \in SUBSET (1..m) BY <2>2
    <3> QED BY <1>2, <3>1
  <2> QED BY <2>1, <2>2
<1>3. n \in T
  <2> HIDE DEF T
  <2> QED BY <1>1, <1>2, Counting
<1>4. \E i \in S : \A j \in S : i >= j BY <1>3
<1> QED BY <1>4 DEF Max

\* The class alone reads as the instance of some key of that class.
LEMMA LastIsOne ==
  ASSUME NEW chunk \in Seq(Key), NEW k \in ToSet(chunk)
  PROVE  \E l \in ToSet(chunk) : l.class = k.class /\ LastAsked(chunk, k.class) = l.instance
<1> DEFINE S == {i \in DOMAIN chunk : chunk[i].class = k.class}
<1>1. DOMAIN chunk = 1..Len(chunk) /\ Len(chunk) \in Nat OBVIOUS
<1>2. S # {} BY DEF ToSet
<1>3. S \in SUBSET (1..Len(chunk)) BY <1>1
<1>4. Max(S) \in S
  <2> HIDE DEF S
  <2> QED BY <1>1, <1>2, <1>3, MaxIsThere
<1>5. LastAsked(chunk, k.class) = chunk[Max(S)].instance BY DEF LastAsked
<1> DEFINE m == Max(S)
<1>6. m \in DOMAIN chunk /\ chunk[m].class = k.class BY <1>4
<1>7. LastAsked(chunk, k.class) = chunk[m].instance BY <1>5
<1> HIDE DEF m
<1>8. chunk[m] \in ToSet(chunk) BY <1>6 DEF ToSet
<1> QED BY <1>6, <1>7, <1>8

\* Keys that can be told apart are filed under themselves.
LEMMA FiledAsAsked ==
  ASSUME NEW chunk \in Seq(Key), NEW named, NEW k \in ToSet(chunk), Distinguished(chunk, named)
  PROVE  FiledAs(chunk, k, named) = k
<1>1. k \in Key BY DEF ToSet
<1>2. k = [class |-> k.class, instance |-> k.instance] BY <1>1 DEF Key
<1>3. CASE named /\ k.instance # "" BY <1>2, <1>3 DEF FiledAs
<1>4. CASE ~(named /\ k.instance # "")
  <2>1. PICK l \in ToSet(chunk) : l.class = k.class /\ LastAsked(chunk, k.class) = l.instance
    BY LastIsOne
  <2>2. k = l BY <1>4, <2>1 DEF Distinguished
  <2> QED BY <1>2, <1>4, <2>1, <2>2 DEF FiledAs
<1> QED BY <1>3, <1>4

LEMMA ChunkAre ==
  ASSUME NEW keys \in Seq(Key), NEW i \in ChunkStarts(keys)
  PROVE  /\ Chunk(keys, i) \in Seq(Key)
         /\ ToSet(Chunk(keys, i)) \subseteq ToSet(keys)
         /\ \A n \in DOMAIN keys : i <= n /\ n < i + ChunkSize => keys[n] \in ToSet(Chunk(keys, i))
<1> DEFINE end == IF i + ChunkSize > Len(keys) THEN Len(keys) ELSE i + ChunkSize - 1
           c == SubSeq(keys, i, end)
<1>1. Len(keys) \in Nat /\ ChunkSize \in Nat \ {0} /\ i \in 1..Len(keys) /\ DOMAIN keys = 1..Len(keys)
  BY Widths DEF ChunkStarts
<1>2. end \in i..Len(keys) /\ \A n \in 1..Len(keys) : n < i + ChunkSize => n <= end BY <1>1
<1>3. Chunk(keys, i) = c BY DEF Chunk
<1> HIDE DEF end
<1>4. \A n \in i..end : n \in DOMAIN keys /\ keys[n] \in Key BY <1>1, <1>2
<1>5. /\ c \in Seq(Key) /\ Len(c) = IF i <= end THEN end - i + 1 ELSE 0
      /\ \A j \in 1..end - i + 1 : c[j] = keys[i + j - 1]
  BY <1>1, <1>2, <1>4, SubSeqProperties
<1> HIDE DEF c
<1>6. DOMAIN c = 1..end - i + 1 BY <1>1, <1>2, <1>5
<1>7. ASSUME NEW k \in ToSet(c) PROVE k \in ToSet(keys)
  <2>1. PICK j \in DOMAIN c : k = c[j] BY <1>7 DEF ToSet
  <2>2. i + j - 1 \in i..end BY <1>1, <1>2, <1>6, <2>1
  <2>3. k = keys[i + j - 1] BY <1>5, <1>6, <2>1
  <2> QED BY <1>4, <2>2, <2>3 DEF ToSet
<1>8. ASSUME NEW n \in DOMAIN keys, i <= n, n < i + ChunkSize PROVE keys[n] \in ToSet(c)
  <2>1. n <= end /\ n \in Nat BY <1>1, <1>2, <1>8
  <2>2. n - i + 1 \in 1..end - i + 1 BY <1>1, <1>2, <1>8, <2>1
  <2>3. i + (n - i + 1) - 1 = n BY <1>1, <2>1
  <2>4. c[n - i + 1] = keys[n] BY <1>5, <2>2, <2>3
  <2> QED BY <1>6, <2>2, <2>4 DEF ToSet
<1> QED BY <1>3, <1>5, <1>7, <1>8

\* Every key is in a chunk.
LEMMA ChunksCover ==
  ASSUME NEW keys \in Seq(Key), NEW k \in ToSet(keys)
  PROVE  \E i \in ChunkStarts(keys) : k \in ToSet(Chunk(keys, i))
<1>1. PICK n \in DOMAIN keys : k = keys[n] BY DEF ToSet
<1>2. Len(keys) \in Nat /\ DOMAIN keys = 1..Len(keys) /\ n \in 1..Len(keys) BY <1>1
<1> DEFINE m == (n - 1) \div ChunkSize  r == (n - 1) % ChunkSize  i == 1 + ChunkSize * m
<1>3. n - 1 \in Nat /\ ChunkSize \in Nat \ {0} BY <1>2, Widths
<1>4. r \in 0..ChunkSize - 1 /\ m \in Nat /\ n - 1 = ChunkSize * m + r BY <1>3, Division
<1> HIDE DEF m, r
<1>5. ChunkSize * m >= m BY <1>3, <1>4
<1>6. ChunkSize * m \in Nat BY <1>3, <1>4
<1>7. m \in 0..Len(keys) /\ i \in DOMAIN keys BY <1>2, <1>3, <1>4, <1>5, <1>6
<1>8. i \in ChunkStarts(keys) BY <1>7 DEF ChunkStarts
<1>9. i <= n /\ n < i + ChunkSize BY <1>2, <1>3, <1>4, <1>6
<1> HIDE DEF i
<1> QED BY <1>1, <1>8, <1>9, ChunkAre

LEMMA Described ==
  ASSUME input \in Inputs
  PROVE  DescribedAsAsked
<1> SUFFICES ASSUME input.kind = "keys", Distinguished(input.keys, input.named)
             PROVE  \A k \in ToSet(input.keys) : Found(input.keys, input.named, k) = {k}
  BY DEF DescribedAsAsked
<1> DEFINE keys == input.keys  named == input.named
<1>0. keys \in Seq(Key) BY InputsAre DEF Key
<1> HIDE DEF keys, named
<1>1. ASSUME NEW chunk \in Chunks(keys), NEW l \in ToSet(chunk)
      PROVE  FiledAs(chunk, l, named) = l
  <2>1. PICK i \in ChunkStarts(keys) : chunk = Chunk(keys, i) BY <1>1 DEF Chunks
  <2>2. chunk \in Seq(Key) /\ ToSet(chunk) \subseteq ToSet(keys) BY <1>0, <2>1, ChunkAre
  <2>3. Distinguished(chunk, named) BY <2>2 DEF Distinguished, keys, named
  <2> QED BY <1>1, <2>2, <2>3, FiledAsAsked
<1>2. ASSUME NEW k \in ToSet(keys) PROVE Found(keys, named, k) = {k}
  <2>1. PICK i \in ChunkStarts(keys) : k \in ToSet(Chunk(keys, i)) BY <1>0, <1>2, ChunksCover
  <2>2. Chunk(keys, i) \in Chunks(keys) BY <2>1 DEF Chunks
  <2>3. k \in Found(keys, named, k) BY <1>1, <1>2, <2>1, <2>2 DEF Found
  <2>4. ASSUME NEW l \in Found(keys, named, k) PROVE l = k BY <1>1, <2>4 DEF Found
  <2> QED BY <2>3, <2>4
<1> QED BY <1>2 DEF keys, named

-----------------------------------------------------------------------------
(* The checks' inputs never change.                                        *)

LEMMA InputStays == CodecsSpec => [](input \in Inputs)
<1>1. CodecsInit => input \in Inputs BY DEF CodecsInit
<1>2. input \in Inputs /\ [CodecsNext]_input => (input \in Inputs)' BY DEF CodecsNext
<1> QED BY <1>1, <1>2, PTL DEF CodecsSpec

\* Whatever the widths of its parts, neither the setters nor the texts of a
\* SteamID lose or mix them.
THEOREM SteamIDsKept == CodecsSpec => []SteamIDsHold
<1>1. input \in Inputs => SteamIDsHold BY PartsApart, TextsKeep DEF SteamIDsHold
<1> QED BY <1>1, InputStays, PTL

\* Whatever the lengths and the data, what is cut short or padded otherwise is
\* not taken for data.
THEOREM NothingMisread == CodecsSpec => []NothingIsMisread
<1>1. input \in Inputs => NothingIsMisread BY CutsNoticed, PadsInvert DEF NothingIsMisread
<1> QED BY <1>1, InputStays, PTL

\* However many keys, in chunks of whatever size, each description is found
\* under the key that was asked for.
THEOREM FoundAsAsked == CodecsSpec => []DescribedAsAsked
<1>1. input \in Inputs => DescribedAsAsked BY Described
<1> QED BY <1>1, InputStays, PTL
=============================================================================
