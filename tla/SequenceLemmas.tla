---------------------------- MODULE SequenceLemmas ----------------------------
(***************************************************************************)
(* What the proofs of several modules need of sequences, and of functions  *)
(* that are defined by recursion: an induction principle over the natural  *)
(* numbers, that such functions exist, and the elements, the concatenation *)
(* and the flattening of sequences.                                        *)
(***************************************************************************)
EXTENDS Integers, Sequences, SequencesExt, SequenceTheorems,
        WellFoundedInduction, TLAPS

(* A nonempty set of natural numbers has a least one.                       *)
LEMMA LeastNat ==
  ASSUME NEW S, S \subseteq Nat, S # {}
  PROVE  \E m \in S : \A n \in S : m <= n
<1>1. IsWellFoundedOn({ss \in Nat \X Nat : ss[1] < ss[2]}, Nat)
  BY NatLessThanWellFounded DEF OpToRel
<1>2. PICK m \in S :
        \A n \in S : <<n, m>> \notin {ss \in Nat \X Nat : ss[1] < ss[2]}
  BY <1>1, WFMin
<1>3. \A n \in S : ~(n < m)
  BY <1>2
<1> QED
  BY <1>3

(* Induction, with a set in place of a predicate.                           *)
LEMMA SetInduction ==
  ASSUME NEW S, 0 \in S, \A n \in Nat : n \in S => n + 1 \in S
  PROVE  Nat \subseteq S
<1> SUFFICES ASSUME Nat \ S # {} PROVE FALSE
  OBVIOUS
<1>1. PICK m \in Nat \ S : \A n \in Nat \ S : m <= n
  BY LeastNat
<1>2. m - 1 \in Nat /\ m - 1 \in S
  BY <1>1
<1>3. (m - 1) + 1 \in S
  BY <1>2
<1> QED
  BY <1>1, <1>3

(* A recursive function on lo .. n exists: f is its own definition.          *)
Builds(f, lo, n, base, step) ==
    f = [k \in lo .. n |-> IF k = lo THEN base ELSE step[<<k, f[k - 1]>>]]

LEMMA RecursionExists ==
  ASSUME NEW A, NEW base \in A, NEW step \in [Nat \X A -> A], NEW lo \in Nat,
         NEW n \in Nat
  PROVE  \E f \in [lo .. n -> A] : Builds(f, lo, n, base, step)
<1> DEFINE S == {m \in Nat :
                   \E f \in [lo .. m -> A] : Builds(f, lo, m, base, step)}
<1>1. 0 \in S
  <2> DEFINE g == [k \in lo .. 0 |-> base]
  <2>1. g \in [lo .. 0 -> A] /\ Builds(g, lo, 0, base, step)
    BY DEF Builds
  <2> QED
    BY <2>1
<1>2. ASSUME NEW m \in Nat, m \in S PROVE m + 1 \in S
  <2>1. PICK f \in [lo .. m -> A] : Builds(f, lo, m, base, step)
    BY <1>2
  <2> DEFINE last == IF m + 1 = lo THEN base ELSE step[<<m + 1, f[m]>>]
             g == [k \in lo .. m + 1 |-> IF k = m + 1 THEN last ELSE f[k]]
  <2>2. CASE m + 1 < lo
    <3> DEFINE h == [k \in lo .. m + 1 |-> base]
    <3>1. h \in [lo .. m + 1 -> A] /\ Builds(h, lo, m + 1, base, step)
      BY <2>2 DEF Builds
    <3> QED
      BY <3>1
  <2>3. CASE m + 1 >= lo
    <3>1. last \in A
      <4>1. CASE m + 1 = lo
        BY <4>1
      <4>2. CASE m + 1 # lo
        BY <2>3, <4>2
      <4> QED
        BY <4>1, <4>2
    <3>2. g \in [lo .. m + 1 -> A]
      BY <3>1
    <3>3. ASSUME NEW k \in lo .. m + 1
          PROVE  g[k] = IF k = lo THEN base ELSE step[<<k, g[k - 1]>>]
      <4>1. CASE k = m + 1 /\ k # lo
        <5>1. g[k - 1] = f[m]
          BY <2>3, <4>1
        <5> QED
          BY <4>1, <5>1
      <4>2. CASE k = m + 1 /\ k = lo
        BY <4>2
      <4>3. CASE k # m + 1
        <5>1. k \in lo .. m
          BY <4>3
        <5>2. f[k] = IF k = lo THEN base ELSE step[<<k, f[k - 1]>>]
          BY <2>1, <5>1 DEF Builds
        <5>3. k # lo => g[k - 1] = f[k - 1]
          BY <5>1
        <5> QED
          BY <4>3, <5>2, <5>3
      <4> QED
        BY <4>1, <4>2, <4>3
    <3>4. g = [k \in lo .. m + 1 |-> g[k]]
      OBVIOUS
    <3> HIDE DEF g
    <3>5. Builds(g, lo, m + 1, base, step)
      BY <3>3, <3>4 DEF Builds
    <3> QED
      BY <3>2, <3>5
  <2> QED
    BY <2>2, <2>3
<1> HIDE DEF S
<1>3. n \in S
  BY <1>1, <1>2, SetInduction
<1> QED
  BY <1>3 DEF S

-----------------------------------------------------------------------------
(* Elements and concatenation.                                             *)

LEMMA AppendNotEmpty ==
  ASSUME NEW T, NEW s \in Seq(T), NEW b \in T
  PROVE  /\ Append(s, b) \in Seq(T)
         /\ Append(s, b) # <<>>
         /\ Len(Append(s, b)) = Len(s) + 1
<1>1. Append(s, b) \in Seq(T) /\ Len(Append(s, b)) = Len(s) + 1
  OBVIOUS
<1>2. Len(s) \in Nat /\ Len(<<>>) = 0
  OBVIOUS
<1>3. Append(s, b) # <<>>
  BY <1>1, <1>2
<1> QED
  BY <1>1, <1>3

LEMMA ToSetAppend ==
  ASSUME NEW T, NEW s \in Seq(T), NEW e \in T
  PROVE  ToSet(Append(s, e)) = ToSet(s) \cup {e}
<1>1. /\ DOMAIN Append(s, e) = 1 .. Len(s) + 1
      /\ DOMAIN s = 1 .. Len(s) /\ Len(s) \in Nat
  OBVIOUS
<1>2. ASSUME NEW i \in 1 .. Len(s)
      PROVE  Append(s, e)[i] = s[i]
  OBVIOUS
<1>3. Append(s, e)[Len(s) + 1] = e
  OBVIOUS
<1>4. ASSUME NEW l \in ToSet(s) \cup {e} PROVE l \in ToSet(Append(s, e))
  <2>1. CASE l \in ToSet(s)
    <3>1. PICK i \in 1 .. Len(s) : l = s[i]
      BY <1>1, <2>1 DEF ToSet
    <3>2. i \in 1 .. Len(s) + 1 /\ Append(s, e)[i] = l
      BY <1>1, <1>2, <3>1
    <3> QED
      BY <1>1, <3>2 DEF ToSet
  <2>2. CASE l = e
    <3>1. Len(s) + 1 \in 1 .. Len(s) + 1
      BY <1>1
    <3> QED
      BY <1>1, <1>3, <2>2, <3>1 DEF ToSet
  <2> QED
    BY <1>4, <2>1, <2>2
<1>5. ASSUME NEW l \in ToSet(Append(s, e)) PROVE l \in ToSet(s) \cup {e}
  <2>1. PICK i \in 1 .. Len(s) + 1 : l = Append(s, e)[i]
    BY <1>1, <1>5 DEF ToSet
  <2>2. CASE i \in 1 .. Len(s)
    BY <1>1, <1>2, <2>1, <2>2 DEF ToSet
  <2>3. CASE i = Len(s) + 1
    BY <1>3, <2>1, <2>3
  <2> QED
    BY <1>1, <2>2, <2>3
<1> QED
  BY <1>4, <1>5

LEMMA ToSetConcat ==
  ASSUME NEW T, NEW r \in Seq(T), NEW s \in Seq(T)
  PROVE  ToSet(r \o s) = ToSet(r) \cup ToSet(s)
<1>1. /\ DOMAIN (r \o s) = 1 .. Len(r) + Len(s)
      /\ DOMAIN r = 1 .. Len(r) /\ Len(r) \in Nat
      /\ DOMAIN s = 1 .. Len(s) /\ Len(s) \in Nat
  OBVIOUS
<1>2. ASSUME NEW i \in 1 .. Len(r)
      PROVE  (r \o s)[i] = r[i] /\ i \in 1 .. Len(r) + Len(s)
  OBVIOUS
<1>3. ASSUME NEW i \in 1 .. Len(s)
      PROVE  (r \o s)[i + Len(r)] = s[i] /\ i + Len(r) \in 1 .. Len(r) + Len(s)
  OBVIOUS
<1>4. ASSUME NEW i \in 1 .. Len(r) + Len(s), i \notin 1 .. Len(r)
      PROVE  (r \o s)[i] = s[i - Len(r)] /\ i - Len(r) \in 1 .. Len(s)
  BY <1>1, <1>4
<1>5. ASSUME NEW l \in ToSet(r \o s) PROVE l \in ToSet(r) \cup ToSet(s)
  <2>1. PICK i \in 1 .. Len(r) + Len(s) : l = (r \o s)[i]
    BY <1>1, <1>5 DEF ToSet
  <2>2. CASE i \in 1 .. Len(r)
    BY <1>1, <1>2, <2>1, <2>2 DEF ToSet
  <2>3. CASE i \notin 1 .. Len(r)
    BY <1>1, <1>4, <2>1, <2>3 DEF ToSet
  <2> QED
    BY <2>2, <2>3
<1>6. ASSUME NEW l \in ToSet(r) PROVE l \in ToSet(r \o s)
  <2>1. PICK i \in 1 .. Len(r) : l = r[i]
    BY <1>1, <1>6 DEF ToSet
  <2> QED
    BY <1>1, <1>2, <2>1 DEF ToSet
<1>7. ASSUME NEW l \in ToSet(s) PROVE l \in ToSet(r \o s)
  <2>1. PICK i \in 1 .. Len(s) : l = s[i]
    BY <1>1, <1>7 DEF ToSet
  <2> QED
    BY <1>1, <1>3, <2>1 DEF ToSet
<1> QED
  BY <1>5, <1>6, <1>7

LEMMA ToSetIn ==
  ASSUME NEW T, NEW s \in Seq(T)
  PROVE  ToSet(s) \subseteq T
  BY DEF ToSet

-----------------------------------------------------------------------------
(* FlattenSeq().                                                           *)

IsFlat(f, seqs) ==
    f = [i \in 1 .. Len(seqs) |->
            IF i = 1 THEN seqs[i] ELSE f[i - 1] \o seqs[i]]

LEMMA FlatExists ==
  ASSUME NEW T, NEW seqs \in Seq(Seq(T)), seqs # <<>>
  PROVE  \E f \in [1 .. Len(seqs) -> Seq(T)] : IsFlat(f, seqs)
<1> DEFINE n == Len(seqs)
           step == [p \in Nat \X Seq(T) |->
                      IF p[1] \in 1 .. n THEN p[2] \o seqs[p[1]] ELSE p[2]]
<1>1. n \in Nat /\ n > 0 /\ seqs[1] \in Seq(T)
  OBVIOUS
<1>2. step \in [Nat \X Seq(T) -> Seq(T)]
  OBVIOUS
<1>3. PICK f \in [1 .. n -> Seq(T)] : Builds(f, 1, n, seqs[1], step)
  BY <1>1, <1>2, RecursionExists
<1>4. ASSUME NEW i \in 1 .. n, i # 1
      PROVE  step[<<i, f[i - 1]>>] = f[i - 1] \o seqs[i]
  <2>1. i - 1 \in 1 .. n /\ i \in Nat
    BY <1>4, <1>1
  <2>2. f[i - 1] \in Seq(T)
    BY <2>1
  <2> QED
    BY <2>1, <2>2
<1> HIDE DEF step
<1>5. IsFlat(f, seqs)
  BY <1>3, <1>4 DEF Builds, IsFlat
<1> QED
  BY <1>5

LEMMA FlatDef ==
  ASSUME NEW T, NEW seqs \in Seq(Seq(T)), seqs # <<>>
  PROVE  \E f : IsFlat(f, seqs) /\ FlattenSeq(seqs) = f[Len(seqs)]
<1> DEFINE f == CHOOSE f : IsFlat(f, seqs)
<1>1. Len(seqs) # 0
  OBVIOUS
<1>2. FlattenSeq(seqs) = f[Len(seqs)]
  BY <1>1 DEF FlattenSeq, IsFlat
<1>3. IsFlat(f, seqs)
  BY FlatExists
<1> QED
  BY <1>2, <1>3

Agree(f, g, n) == \A i \in 1 .. n : f[i] = g[i]

LEMMA FlatUnique ==
  ASSUME NEW T, NEW r \in Seq(Seq(T)), NEW s \in Seq(Seq(T)), NEW f, NEW g,
         IsFlat(f, r), IsFlat(g, s), NEW n \in Nat, n <= Len(r), n <= Len(s),
         Agree(r, s, n)
  PROVE  Agree(f, g, n)
<1> DEFINE S == {m \in Nat : m \in 1 .. n => f[m] = g[m]}
<1>1. 0 \in S
  OBVIOUS
<1>2. ASSUME NEW m \in Nat, m \in S PROVE m + 1 \in S
  <2> SUFFICES ASSUME m + 1 \in 1 .. n PROVE f[m + 1] = g[m + 1]
    OBVIOUS
  <2>1. m + 1 \in 1 .. Len(r) /\ m + 1 \in 1 .. Len(s) /\ r[m + 1] = s[m + 1]
    BY DEF Agree
  <2>2. f[m + 1] = IF m + 1 = 1 THEN r[m + 1] ELSE f[(m + 1) - 1] \o r[m + 1]
    BY <2>1 DEF IsFlat
  <2>3. g[m + 1] = IF m + 1 = 1 THEN s[m + 1] ELSE g[(m + 1) - 1] \o s[m + 1]
    BY <2>1 DEF IsFlat
  <2>4. (m + 1) - 1 = m /\ (m + 1 # 1 => f[m] = g[m])
    BY <1>2
  <2> QED
    BY <2>1, <2>2, <2>3, <2>4
<1> HIDE DEF S
<1>3. Nat \subseteq S
  BY <1>1, <1>2, SetInduction
<1> QED
  BY <1>3 DEF S, Agree

LEMMA FlattenIsSeq ==
  ASSUME NEW T, NEW seqs \in Seq(Seq(T))
  PROVE  FlattenSeq(seqs) \in Seq(T)
<1>1. CASE seqs = <<>>
  BY <1>1 DEF FlattenSeq
<1>2. CASE seqs # <<>>
  <2>1. PICK f \in [1 .. Len(seqs) -> Seq(T)] : IsFlat(f, seqs)
    BY <1>2, FlatExists
  <2>2. PICK g : IsFlat(g, seqs) /\ FlattenSeq(seqs) = g[Len(seqs)]
    BY <1>2, FlatDef
  <2>3. Len(seqs) \in Nat /\ Len(seqs) \in 1 .. Len(seqs)
    BY <1>2
  <2>4. Agree(f, g, Len(seqs))
    <3>1. Agree(seqs, seqs, Len(seqs))
      BY DEF Agree
    <3> QED
      BY <2>1, <2>2, <2>3, <3>1, FlatUnique
  <2> QED
    BY <2>2, <2>3, <2>4 DEF Agree
<1> QED
  BY <1>1, <1>2

LEMMA FlattenEmpty == FlattenSeq(<<>>) = <<>>
  BY DEF FlattenSeq

LEMMA FlattenAppend ==
  ASSUME NEW T, NEW seqs \in Seq(Seq(T)), NEW s \in Seq(T)
  PROVE  FlattenSeq(Append(seqs, s)) = FlattenSeq(seqs) \o s
<1> DEFINE n == Len(seqs)
           more == Append(seqs, s)
<1>1. /\ more \in Seq(Seq(T)) /\ more # <<>> /\ Len(more) = n + 1 /\ n \in Nat
      /\ more[n + 1] = s
      /\ \A i \in 1 .. n : more[i] = seqs[i]
  <2>1. n \in Nat /\ Len(more) = n + 1 /\ more \in Seq(Seq(T))
    OBVIOUS
  <2>2. more # <<>>
    BY <2>1
  <2>3. more[n + 1] = s
    OBVIOUS
  <2>4. \A i \in 1 .. n : more[i] = seqs[i]
    OBVIOUS
  <2> QED
    BY <2>1, <2>2, <2>3, <2>4
<1> HIDE DEF more
<1>2. PICK g : IsFlat(g, more) /\ FlattenSeq(more) = g[n + 1]
  BY <1>1, FlatDef
<1>3. g[n + 1] = IF n + 1 = 1 THEN more[n + 1]
                              ELSE g[(n + 1) - 1] \o more[n + 1]
  <2>1. n + 1 \in 1 .. Len(more)
    BY <1>1
  <2> QED
    BY <1>2, <2>1 DEF IsFlat
<1>4. CASE seqs = <<>>
  <2>1. n = 0
    BY <1>4
  <2>2. FlattenSeq(seqs) = <<>>
    BY <1>4, FlattenEmpty
  <2> QED
    BY <1>1, <1>2, <1>3, <2>1, <2>2 DEF more
<1>5. CASE seqs # <<>>
  <2>1. PICK f : IsFlat(f, seqs) /\ FlattenSeq(seqs) = f[n]
    BY <1>5, FlatDef
  <2>2. n >= 1
    BY <1>5
  <2>3. Agree(g, f, n)
    <3>1. n <= Len(seqs) /\ n <= Len(more) /\ n \in Nat
      BY <1>1
    <3>2. IsFlat(g, more) /\ IsFlat(f, seqs)
      BY <1>2, <2>1
    <3>3. more \in Seq(Seq(T)) /\ Agree(more, seqs, n)
      BY <1>1 DEF Agree
    <3> HIDE DEF n
    <3> QED
      BY <3>1, <3>2, <3>3, FlatUnique
  <2>4. g[(n + 1) - 1] = f[n] /\ n + 1 # 1
    BY <1>1, <2>2, <2>3 DEF Agree
  <2> QED
    BY <1>1, <1>2, <1>3, <2>1, <2>4 DEF more
<1> QED
  BY <1>4, <1>5

LEMMA FlattenPrefix ==
  ASSUME NEW T, NEW seqs \in Seq(Seq(T)), NEW k \in 1 .. Len(seqs)
  PROVE  \E r \in Seq(T) :
            FlattenSeq(seqs) = FlattenSeq(SubSeq(seqs, 1, k)) \o r
<1> DEFINE n == Len(seqs)
           first == SubSeq(seqs, 1, k)
<1>0. ASSUME NEW u \in Seq(T), NEW v \in Seq(T), NEW w \in Seq(T)
      PROVE  (u \o v) \o w = u \o (v \o w)
  BY ConcatAssociative, SMTT(30)
<1>1. /\ first \in Seq(Seq(T)) /\ Len(first) = k /\ first # <<>>
      /\ seqs # <<>> /\ n \in Nat /\ k \in Nat
  <2>1. k \in Nat /\ k >= 1 /\ n \in Nat /\ n >= 1
    OBVIOUS
  <2>2. seqs # <<>>
    BY <2>1
  <2>3. first \in Seq(Seq(T)) /\ Len(first) = k
    OBVIOUS
  <2>4. first # <<>>
    BY <2>1, <2>3
  <2> QED
    BY <2>1, <2>2, <2>3, <2>4
<1>2. Agree(first, seqs, k)
  BY DEF Agree
<1> HIDE DEF first
<1>3. PICK g : IsFlat(g, first) /\ FlattenSeq(first) = g[k]
  BY <1>1, FlatDef
<1>4. PICK f : IsFlat(f, seqs) /\ FlattenSeq(seqs) = f[n]
  BY <1>1, FlatDef
<1>5. Agree(g, f, k)
  BY <1>1, <1>2, <1>3, <1>4, FlatUnique
<1>6. g[k] = f[k]
  BY <1>1, <1>5 DEF Agree
<1>7. f[k] \in Seq(T)
  BY <1>1, <1>3, <1>6, FlattenIsSeq
<1> DEFINE S == {m \in Nat : m \in k .. n =>
                               \E r \in Seq(T) : f[m] = f[k] \o r}
<1>8. 0 \in S
  BY <1>1
<1>9. ASSUME NEW m \in Nat, m \in S PROVE m + 1 \in S
  <2> SUFFICES ASSUME m + 1 \in k .. n
               PROVE  \E r \in Seq(T) : f[m + 1] = f[k] \o r
    OBVIOUS
  <2>1. CASE m + 1 = k
    <3>1. f[k] = f[k] \o <<>> /\ <<>> \in Seq(T)
      BY <1>7
    <3> QED
      BY <2>1, <3>1
  <2>2. CASE m + 1 # k
    <3>1. m \in k .. n /\ m + 1 \in 1 .. n /\ m + 1 # 1 /\ (m + 1) - 1 = m
      BY <1>1, <2>2
    <3>2. PICK r \in Seq(T) : f[m] = f[k] \o r
      BY <1>9, <3>1
    <3>3. seqs[m + 1] \in Seq(T)
      BY <3>1
    <3>4. f[m + 1] = f[m] \o seqs[m + 1]
      BY <1>4, <3>1 DEF IsFlat
    <3>5. (f[k] \o r) \o seqs[m + 1] = f[k] \o (r \o seqs[m + 1])
      <4> DEFINE x == f[k]
                 y == seqs[m + 1]
      <4>1. x \in Seq(T) /\ y \in Seq(T) /\ r \in Seq(T)
        BY <1>7, <3>2, <3>3
      <4> HIDE DEF x, y
      <4>2. (x \o r) \o y = x \o (r \o y)
        BY <1>0, <4>1
      <4> QED
        BY <4>2 DEF x, y
    <3>6. f[m + 1] = f[k] \o (r \o seqs[m + 1]) /\ r \o seqs[m + 1] \in Seq(T)
      BY <3>2, <3>3, <3>4, <3>5
    <3> QED
      BY <3>6
  <2> QED
    BY <2>1, <2>2
<1> HIDE DEF S
<1>10. n \in S
  BY <1>1, <1>8, <1>9, SetInduction
<1>11. n \in k .. n
  BY <1>1
<1>12. \E r \in Seq(T) : f[n] = f[k] \o r
  BY <1>10, <1>11 DEF S
<1> QED
  BY <1>3, <1>4, <1>6, <1>12 DEF first

(* Two functions that go on alike from the same start are the same.         *)
GoAlike(f, g, n) == \A k \in 1 .. n : f[k - 1] = g[k - 1] => f[k] = g[k]

LEMMA SameRecursion ==
  ASSUME NEW n \in Nat, NEW f, NEW g, f[0] = g[0], GoAlike(f, g, n)
  PROVE  f[n] = g[n]
<1> DEFINE S == {m \in Nat : m <= n => f[m] = g[m]}
<1>1. 0 \in S
  OBVIOUS
<1>2. ASSUME NEW m \in Nat, m \in S PROVE m + 1 \in S
  <2> SUFFICES ASSUME m + 1 <= n PROVE f[m + 1] = g[m + 1]
    OBVIOUS
  <2>1. m + 1 \in 1 .. n /\ (m + 1) - 1 = m
    OBVIOUS
  <2>2. f[m] = g[m]
    BY <1>2
  <2> QED
    BY <2>1, <2>2 DEF GoAlike
<1> HIDE DEF S
<1>3. n \in S
  BY <1>1, <1>2, SetInduction
<1> QED
  BY <1>3 DEF S

(* Induction over sequences, with a set in place of a predicate.            *)
LEMMA SeqInduction ==
  ASSUME NEW T, NEW S, <<>> \in S,
         \A s \in Seq(T) : \A e \in T : s \in S => Append(s, e) \in S
  PROVE  Seq(T) \subseteq S
<1> DEFINE N == {n \in Nat : \A s \in Seq(T) : Len(s) = n => s \in S}
<1>1. 0 \in N
  <2>1. \A s \in Seq(T) : Len(s) = 0 => s = <<>>
    OBVIOUS
  <2> QED
    BY <2>1
<1>2. ASSUME NEW n \in Nat, n \in N PROVE n + 1 \in N
  <2> SUFFICES ASSUME NEW s \in Seq(T), Len(s) = n + 1 PROVE s \in S
    OBVIOUS
  <2> DEFINE front == SubSeq(s, 1, n)
             last == s[n + 1]
  <2>1. front \in Seq(T) /\ Len(front) = n /\ last \in T
    OBVIOUS
  <2>2. s = Append(front, last)
    <3>1. Append(front, last) \in Seq(T) /\ Len(Append(front, last)) = n + 1
      BY <2>1
    <3>2. ASSUME NEW i \in 1 .. n + 1 PROVE s[i] = Append(front, last)[i]
      OBVIOUS
    <3> HIDE DEF front, last
    <3> QED
      BY <3>1, <3>2, SeqEqual
  <2> HIDE DEF front, last
  <2>3. front \in S
    BY <1>2, <2>1
  <2> QED
    BY <2>1, <2>2, <2>3
<1> HIDE DEF N
<1>3. ASSUME NEW s \in Seq(T) PROVE s \in S
  <2>1. Len(s) \in N
    BY <1>1, <1>2, SetInduction
  <2> QED
    BY <2>1 DEF N
<1> QED
  BY <1>3

(* A concatenation, index by index.                                         *)
LEMMA ConcatAt ==
  ASSUME NEW T, NEW r \in Seq(T), NEW s \in Seq(T)
  PROVE  /\ r \o s \in Seq(T)
         /\ Len(r) \in Nat /\ Len(s) \in Nat /\ Len(r \o s) = Len(r) + Len(s)
         /\ \A i \in 1 .. Len(r) : (r \o s)[i] = r[i]
         /\ \A i \in 1 .. Len(s) : (r \o s)[Len(r) + i] = s[i]
  OBVIOUS

(* A part of a flattened sequence, and where it is.                        *)
LEMMA FlattenAt ==
  ASSUME NEW T, NEW seqs \in Seq(Seq(T)), NEW k \in 1 .. Len(seqs)
  PROVE  LET before == Len(FlattenSeq(SubSeq(seqs, 1, k - 1)))
             behind == Len(FlattenSeq(SubSeq(seqs, 1, k)))
         IN  /\ before \in Nat
             /\ behind = before + Len(seqs[k])
             /\ behind <= Len(FlattenSeq(seqs))
             /\ \A i \in 1 .. Len(seqs[k]) :
                   FlattenSeq(seqs)[before + i] = seqs[k][i]
<1> DEFINE first == SubSeq(seqs, 1, k - 1)
           upto == SubSeq(seqs, 1, k)
           u == FlattenSeq(first)
           w == FlattenSeq(upto)
           e == seqs[k]
<1>1. /\ first \in Seq(Seq(T)) /\ upto \in Seq(Seq(T)) /\ e \in Seq(T)
      /\ upto = Append(first, e)
  <2>1. first \in Seq(Seq(T)) /\ upto \in Seq(Seq(T)) /\ e \in Seq(T)
    OBVIOUS
  <2>2. Len(first) = k - 1 /\ Len(upto) = k
    OBVIOUS
  <2>3. \A i \in 1 .. k : upto[i] = Append(first, e)[i]
    BY <2>1, <2>2
  <2>4. Append(first, e) \in Seq(Seq(T)) /\ Len(Append(first, e)) = k
    BY <2>1, <2>2
  <2> HIDE DEF first, upto, e
  <2>5. upto = Append(first, e)
    BY <2>1, <2>2, <2>3, <2>4, SeqEqual
  <2> QED
    BY <2>1, <2>5
<1>2. PICK r \in Seq(T) : FlattenSeq(seqs) = w \o r
  BY FlattenPrefix
<1>8. r \in Seq(T)
  BY <1>2
<1> HIDE DEF first, upto, e
<1>3. u \in Seq(T) /\ w = u \o e
  BY <1>1, FlattenIsSeq, FlattenAppend
<1> HIDE DEF u, w
<1>9. w \in Seq(T)
  BY <1>1, <1>3, ConcatAt
<1>4. /\ w \in Seq(T) /\ Len(u) \in Nat /\ Len(w) = Len(u) + Len(e)
      /\ Len(e) \in Nat /\ \A i \in 1 .. Len(e) : w[Len(u) + i] = e[i]
  BY <1>1, <1>3, ConcatAt
<1>5. /\ Len(w \o r) = Len(w) + Len(r) /\ Len(r) \in Nat
      /\ \A i \in 1 .. Len(w) : (w \o r)[i] = w[i]
  BY <1>8, <1>9, ConcatAt
<1>6. ASSUME NEW i \in 1 .. Len(e) PROVE FlattenSeq(seqs)[Len(u) + i] = e[i]
  <2>1. Len(u) + i \in 1 .. Len(w)
    BY <1>4
  <2>2. (w \o r)[Len(u) + i] = w[Len(u) + i]
    BY <1>5, <2>1
  <2> QED
    BY <1>2, <1>4, <2>2
<1>7. Len(w) <= Len(FlattenSeq(seqs))
  BY <1>2, <1>4, <1>5
<1> QED
  BY <1>4, <1>6, <1>7 DEF u, w, e, first, upto
=============================================================================
