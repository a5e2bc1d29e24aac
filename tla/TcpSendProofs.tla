--------------------------- MODULE TcpSendProofs ---------------------------
(***************************************************************************)
(* The sending side, proved for every package size, every write limit and  *)
(* every part of a write the socket takes, as long as no more is queued    *)
(* than one Write may send. ( Beyond that the byte count is wrong, which   *)
(* the run send_over_limit shows. )                                        *)
(*                                                                         *)
(* The packages in the queue are a chain: each begins behind the last byte *)
(* of the one before. So what is queued is one run of consecutive bytes,   *)
(* and all that Fill and the Pops compute are the ends of such runs.       *)
(***************************************************************************)
EXTENDS TcpSend, RingQueueProofs, SetInduction

\* The numbers behind a up to b.
Run(a, b) == [i \in 1 .. b - a |-> a + i]

\* The first and the last byte of the package i of p, and how many it has.
From(p, i) == p[i].from
Size(p, i) == p[i].len
End(p, i) == From(p, i) + Size(p, i) - 1

Chained(p) == \A i \in 1 .. Len(p) - 1 : From(p, i + 1) = From(p, i) + Size(p, i)

\* The packages p, the first without its first o bytes, are the bytes behind w
\* up to t.
Holds(p, o, w, t) ==
  /\ Chained(p)
  /\ p = <<>> => o = 0 /\ w = t
  /\ p # <<>> => From(p, 1) + o = w + 1 /\ o < Size(p, 1) /\ End(p, Len(p)) = t

\* The inductive invariant.
TsIInv ==
  /\ IsRing(ring)
  /\ offset \in Nat
  /\ bytes \in 0 .. MaxQueued
  /\ writing \in BOOLEAN
  /\ armed \in BOOLEAN
  /\ total \in 0 .. MaxTotal
  /\ Len(wire) \in 0 .. total
  /\ wire = Run(0, Len(wire))
  /\ bytes = total - Len(wire)
  /\ Holds(q, offset, Len(wire), total)
  /\ writing => armed
  /\ NoStall

----------------------------------------------------------------------------
(* Runs of bytes *)

LEMMA RunProperties ==
  ASSUME NEW a \in Nat, NEW b \in Nat, a <= b
  PROVE  /\ Run(a, b) \in Seq(Nat)
         /\ Len(Run(a, b)) = b - a
         /\ \A i \in 1 .. b - a : Run(a, b)[i] = a + i
<1>1. b - a \in Nat /\ \A i \in 1 .. b - a : a + i \in Nat
  OBVIOUS
<1> QED BY <1>1 DEF Run

LEMMA RunConcat ==
  ASSUME NEW a \in Nat, NEW b \in Nat, NEW c \in Nat, a <= b, b <= c
  PROVE  Run(a, b) \o Run(b, c) = Run(a, c)
<1> DEFINE s == Run(a, b)
           t == Run(b, c)
           u == Run(a, c)
<1>1. /\ s \in Seq(Nat) /\ Len(s) = b - a /\ \A i \in 1 .. b - a : s[i] = a + i
      /\ t \in Seq(Nat) /\ Len(t) = c - b /\ \A i \in 1 .. c - b : t[i] = b + i
      /\ u \in Seq(Nat) /\ Len(u) = c - a /\ \A i \in 1 .. c - a : u[i] = a + i
  <2>1. s \in Seq(Nat) /\ Len(s) = b - a /\ \A i \in 1 .. b - a : s[i] = a + i
    BY RunProperties
  <2>2. t \in Seq(Nat) /\ Len(t) = c - b /\ \A i \in 1 .. c - b : t[i] = b + i
    BY RunProperties
  <2>3. u \in Seq(Nat) /\ Len(u) = c - a /\ \A i \in 1 .. c - a : u[i] = a + i
    <3>1. a <= c
      OBVIOUS
    <3> QED BY <3>1, RunProperties
  <2> QED BY <2>1, <2>2, <2>3
<1> HIDE DEF s, t, u
<1>2. /\ s \o t \in Seq(Nat) /\ Len(s \o t) = c - a
      /\ \A i \in 1 .. c - a : (s \o t)[i] = IF i <= b - a THEN s[i] ELSE t[i - (b - a)]
  <2>1. Len(s) + Len(t) = c - a
    BY <1>1
  <2>2. /\ s \o t \in Seq(Nat) /\ Len(s \o t) = Len(s) + Len(t)
        /\ \A i \in 1 .. Len(s) + Len(t) : (s \o t)[i] = IF i <= Len(s) THEN s[i] ELSE t[i - Len(s)]
    BY <1>1, ConcatProperties
  <2> QED BY <1>1, <2>1, <2>2
<1>3. \A i \in 1 .. c - a : (s \o t)[i] = u[i]
  <2> SUFFICES ASSUME NEW i \in 1 .. c - a PROVE (s \o t)[i] = u[i]
    OBVIOUS
  <2>1. CASE i <= b - a
    BY <1>1, <1>2, <2>1
  <2>2. CASE ~(i <= b - a)
    <3>1. i - (b - a) \in 1 .. c - b
      BY <2>2
    <3> QED BY <1>1, <1>2, <2>2, <3>1
  <2> QED BY <2>1, <2>2
<1>4. s \o t = u
  BY <1>1, <1>2, <1>3, SeqEqual
<1> QED BY <1>4 DEF s, t, u

LEMMA RunPrefix ==
  ASSUME NEW a \in Nat, NEW b \in Nat, NEW n \in 0 .. b - a, a <= b
  PROVE  SubSeq(Run(a, b), 1, n) = Run(a, a + n)
<1> DEFINE s == Run(a, b)
           t == Run(a, a + n)
<1>1. /\ s \in Seq(Nat) /\ Len(s) = b - a /\ \A i \in 1 .. b - a : s[i] = a + i
      /\ t \in Seq(Nat) /\ Len(t) = n /\ \A i \in 1 .. n : t[i] = a + i
  <2>1. a + n \in Nat /\ a <= a + n /\ a + n - a = n
    OBVIOUS
  <2>2. s \in Seq(Nat) /\ Len(s) = b - a /\ \A i \in 1 .. b - a : s[i] = a + i
    BY RunProperties
  <2>3. t \in Seq(Nat) /\ Len(t) = a + n - a /\ \A i \in 1 .. a + n - a : t[i] = a + i
    BY <2>1, RunProperties
  <2> QED BY <2>1, <2>2, <2>3
<1> HIDE DEF s, t
<1>2. /\ SubSeq(s, 1, n) \in Seq(Nat)
      /\ Len(SubSeq(s, 1, n)) = n
      /\ \A i \in 1 .. n : SubSeq(s, 1, n)[i] = s[i]
  <2>1. \A i \in 1 .. n : s[i] \in Nat
    BY <1>1
  <2>2. n \in Int /\ 1 \in Int /\ n - 1 + 1 = n
    OBVIOUS
  <2> QED BY <2>1, <2>2, SubSeqProperties
<1>3. SubSeq(s, 1, n) = t
  BY <1>1, <1>2, SeqEqual
<1> QED BY <1>3 DEF s, t

\* n bytes of a package are a run.
LEMMA SliceIsRun ==
  ASSUME NEW p, NEW j, From(p, j) \in Nat \ {0}, NEW off \in Nat, NEW n \in Nat
  PROVE  Slice(p[j], off, n) = Run(From(p, j) + off - 1, From(p, j) + off - 1 + n)
BY DEF Slice, Run, From

\* A chain of runs is a run.
LEMMA FlattenRuns ==
  ASSUME NEW n \in Nat, NEW e \in [0 .. n -> Nat],
         \A i \in 1 .. n : e[i - 1] <= e[i],
         NEW s, s = [i \in 1 .. n |-> Run(e[i - 1], e[i])]
  PROVE  FlattenSeq(s) = Run(e[0], e[n]) /\ e[0] <= e[n]
<1>1. Len(s) = n /\ DOMAIN s = 1 .. n
  OBVIOUS
<1> DEFINE Rises == {i \in Nat : i <= n => e[0] <= e[i]}
<1>2. \A i \in 0 .. n : e[0] <= e[i]
  <2>1. 0 \in Rises
    OBVIOUS
  <2>2. ASSUME NEW i \in Nat, i \in Rises PROVE i + 1 \in Rises
    <3> SUFFICES ASSUME i + 1 <= n PROVE e[0] <= e[i + 1]
      OBVIOUS
    <3>1. e[0] <= e[i] /\ e[i] <= e[i + 1] /\ {e[0], e[i], e[i + 1]} \subseteq Nat
      BY <2>2
    <3> QED BY <3>1
  <2> HIDE DEF Rises
  <2>3. \A i \in Nat : i \in Rises
    BY <2>1, <2>2, NatInd
  <2> QED BY <2>3 DEF Rises
<1>3. CASE n = 0
  <2>1. s = <<>> /\ FlattenSeq(s) = s
    BY <1>1, <1>3 DEF FlattenSeq
  <2>2. Run(e[0], e[0]) = <<>>
    BY DEF Run
  <2> QED BY <1>3, <2>1, <2>2
<1>4. CASE n # 0
  <2> DEFINE Flat(f) == f = [i \in 1 .. n |-> IF i = 1 THEN s[i] ELSE f[i - 1] \o s[i]]
             flatten == CHOOSE f : Flat(f)
             g == [i \in 1 .. n |-> Run(e[0], e[i])]
  <2>1. Flat(g)
    <3> SUFFICES ASSUME NEW i \in 1 .. n
                 PROVE  Run(e[0], e[i]) = IF i = 1 THEN s[i] ELSE g[i - 1] \o s[i]
      OBVIOUS
    <3>1. CASE i = 1
      BY <3>1
    <3>2. CASE i # 1
      <4>1. i - 1 \in 1 .. n /\ e[0] \in Nat /\ e[i - 1] \in Nat /\ e[i] \in Nat
        BY <3>2
      <4>2. e[0] <= e[i - 1] /\ e[i - 1] <= e[i]
        BY <1>2, <4>1
      <4>3. g[i - 1] = Run(e[0], e[i - 1]) /\ s[i] = Run(e[i - 1], e[i])
        BY <4>1
      <4> HIDE DEF g
      <4>4. g[i - 1] \o s[i] = Run(e[0], e[i])
        BY <4>1, <4>2, <4>3, RunConcat
      <4> QED BY <3>2, <4>4
    <3> QED BY <3>1, <3>2
  <2>2. Flat(flatten)
    <3> HIDE DEF Flat, g
    <3> QED BY <2>1
  <2> DEFINE Same == {i \in Nat : i + 1 <= n => flatten[i + 1] = g[i + 1]}
  <2> HIDE DEF flatten
  <2>3. \A i \in 1 .. n : /\ flatten[i] = IF i = 1 THEN s[i] ELSE flatten[i - 1] \o s[i]
                          /\ g[i] = IF i = 1 THEN s[i] ELSE g[i - 1] \o s[i]
    <3> HIDE DEF g
    <3> QED BY <2>1, <2>2
  <2> HIDE DEF Flat, g
  <2>4. \A i \in Nat : i \in Same
    <3>1. 0 \in Same
      BY <2>3, <1>4
    <3>2. ASSUME NEW i \in Nat, i \in Same PROVE i + 1 \in Same
      <4> SUFFICES ASSUME i + 1 + 1 <= n PROVE flatten[i + 1 + 1] = g[i + 1 + 1]
        OBVIOUS
      <4>1. i + 2 \in 1 .. n /\ i + 2 # 1 /\ i + 2 - 1 = i + 1 /\ i + 1 + 1 = i + 2 /\ i + 1 <= n
        OBVIOUS
      <4>2. flatten[i + 1] = g[i + 1]
        BY <3>2, <4>1
      <4>3. /\ flatten[i + 2] = flatten[i + 2 - 1] \o s[i + 2]
            /\ g[i + 2] = g[i + 2 - 1] \o s[i + 2]
        <5> DEFINE j == i + 2
        <5>1. j \in 1 .. n /\ j # 1
          BY <4>1
        <5> HIDE DEF j
        <5>2. /\ flatten[j] = flatten[j - 1] \o s[j]
              /\ g[j] = g[j - 1] \o s[j]
          BY <2>3, <5>1
        <5> QED BY <5>2 DEF j
      <4> QED BY <4>1, <4>2, <4>3
    <3> HIDE DEF Same
    <3> QED BY <3>1, <3>2, NatInd
  <2>5. flatten[n] = g[n] /\ g[n] = Run(e[0], e[n])
    <3>1. n - 1 \in Nat /\ n - 1 + 1 = n /\ n \in 1 .. n
      BY <1>4
    <3>2. n - 1 \in Same
      BY <2>4, <3>1
    <3> QED BY <3>1, <3>2 DEF g
  <2>6. FlattenSeq(s) = flatten[n]
    BY <1>1, <1>4 DEF FlattenSeq, flatten, Flat
  <2> QED BY <1>2, <1>4, <2>5, <2>6
<1> QED BY <1>3, <1>4

----------------------------------------------------------------------------
(* Chains of packages *)

LEMMA PackageFields ==
  ASSUME NEW p \in Seq(Packages), NEW i \in 1 .. Len(p)
  PROVE  /\ From(p, i) \in Nat \ {0} /\ Size(p, i) \in Nat \ {0}
         /\ End(p, i) \in Nat \ {0} /\ From(p, i) <= End(p, i)
<1>1. p[i] \in Packages
  OBVIOUS
<1>2. From(p, i) \in 1 .. MaxTotal /\ Size(p, i) \in Sizes
  BY <1>1 DEF Packages, From, Size
<1>3. From(p, i) \in Nat \ {0} /\ Size(p, i) \in Nat \ {0}
  <2>1. From(p, i) \in Nat \ {0}
    BY <1>2, BoundsAssumption
  <2>2. Size(p, i) \in Nat \ {0}
    BY <1>2, SizesAssumption
  <2> QED BY <2>1, <2>2
<1> QED BY <1>3 DEF End

\* Each package of a chain ends behind those before it.
LEMMA EndGrows ==
  ASSUME NEW p \in Seq(Packages), Chained(p), NEW i \in 1 .. Len(p)
  PROVE  \A j \in i .. Len(p) : End(p, i) + (j - i) <= End(p, j)
<1> DEFINE Far == {d \in Nat : i + d <= Len(p) => End(p, i) + d <= End(p, i + d)}
<1>1. 0 \in Far
  <2>1. i + 0 = i /\ End(p, i) \in Nat /\ End(p, i) + 0 = End(p, i)
    BY PackageFields
  <2> QED BY <2>1
<1>2. ASSUME NEW d \in Nat, d \in Far PROVE d + 1 \in Far
  <2> SUFFICES ASSUME i + (d + 1) <= Len(p) PROVE End(p, i) + (d + 1) <= End(p, i + (d + 1))
    OBVIOUS
  <2> DEFINE j == i + d
  <2>1. j \in 1 .. Len(p) - 1 /\ j \in 1 .. Len(p) /\ j + 1 \in 1 .. Len(p) /\ i + (d + 1) = j + 1
    OBVIOUS
  <2>2. End(p, i) + d <= End(p, j)
    BY <1>2, <2>1
  <2> HIDE DEF j
  <2>3. From(p, j + 1) = From(p, j) + Size(p, j)
    BY <2>1 DEF Chained
  <2>4. /\ End(p, i) \in Nat /\ From(p, j) \in Nat /\ Size(p, j) \in Nat
        /\ Size(p, j + 1) \in Nat \ {0}
    BY <2>1, PackageFields
  <2> QED BY <2>1, <2>2, <2>3, <2>4 DEF End
<1> HIDE DEF Far
<1>3. \A d \in Nat : d \in Far
  BY <1>1, <1>2, NatInd
<1> SUFFICES ASSUME NEW j \in i .. Len(p) PROVE End(p, i) + (j - i) <= End(p, j)
  OBVIOUS
<1>4. j - i \in Nat /\ i + (j - i) = j /\ j - i \in Far
  BY <1>3
<1> QED BY <1>4 DEF Far

\* The sum that Upto takes is a difference of byte numbers.
LEMMA UptoIsEnd ==
  ASSUME NEW p \in Seq(Packages), Chained(p), NEW i \in 0 .. Len(p), offset \in Nat
  PROVE  /\ i = 0 => Upto(p, i) = 0 - offset
         /\ i # 0 => Upto(p, i) = End(p, i) + 1 - From(p, 1) - offset
<1> DEFINE Sums(f) == f = [k \in 0 .. i |-> IF k = 0 THEN 0 ELSE f[k - 1] + p[k].len]
           sum == CHOOSE f : Sums(f)
           g == [k \in 0 .. i |-> IF k = 0 THEN 0 ELSE End(p, k) + 1 - From(p, 1)]
<1>1. Sums(g)
  <2> SUFFICES ASSUME NEW k \in 0 .. i
               PROVE  (IF k = 0 THEN 0 ELSE End(p, k) + 1 - From(p, 1))
                      = IF k = 0 THEN 0 ELSE g[k - 1] + Size(p, k)
    BY DEF Size
  <2>1. CASE k = 0
    BY <2>1
  <2>2. CASE k = 1
    <3>1. g[k - 1] = 0 /\ From(p, 1) \in Nat /\ Size(p, 1) \in Nat
      BY <2>2, PackageFields
    <3> QED BY <2>2, <3>1 DEF End
  <2>3. CASE k > 1
    <3>1. k - 1 \in 1 .. Len(p) - 1 /\ k - 1 \in 1 .. Len(p) /\ k \in 1 .. Len(p) /\ 1 \in 1 .. Len(p)
          /\ k - 1 + 1 = k
      BY <2>3
    <3>2. From(p, k) = From(p, k - 1) + Size(p, k - 1)
      BY <3>1 DEF Chained
    <3>3. /\ From(p, 1) \in Nat /\ Size(p, k) \in Nat /\ Size(p, k - 1) \in Nat /\ From(p, k - 1) \in Nat
      BY <3>1, PackageFields
    <3>4. g[k - 1] = End(p, k - 1) + 1 - From(p, 1)
      BY <2>3
    <3> HIDE DEF g
    <3>5. /\ End(p, k) = From(p, k) + Size(p, k) - 1
          /\ End(p, k - 1) = From(p, k - 1) + Size(p, k - 1) - 1
      BY DEF End
    <3> QED BY <2>3, <3>2, <3>3, <3>4, <3>5
  <2> QED BY <2>1, <2>2, <2>3
<1>2. Sums(sum)
  <2> HIDE DEF Sums, g
  <2> QED BY <1>1
<1> HIDE DEF sum
<1>3. \A k \in 0 .. i : /\ sum[k] = IF k = 0 THEN 0 ELSE sum[k - 1] + Size(p, k)
                        /\ g[k] = IF k = 0 THEN 0 ELSE g[k - 1] + Size(p, k)
  <2> HIDE DEF g
  <2> QED BY <1>1, <1>2 DEF Size
<1> HIDE DEF Sums, g
<1> DEFINE Same == {k \in Nat : k <= i => sum[k] = g[k]}
<1>4. \A k \in Nat : k \in Same
  <2>1. 0 \in Same
    BY <1>3
  <2>2. ASSUME NEW k \in Nat, k \in Same PROVE k + 1 \in Same
    <3> SUFFICES ASSUME k + 1 <= i PROVE sum[k + 1] = g[k + 1]
      OBVIOUS
    <3> DEFINE j == k + 1
    <3>1. j \in 0 .. i /\ j # 0 /\ j - 1 = k
      OBVIOUS
    <3>2. sum[k] = g[k]
      BY <2>2, <3>1
    <3> HIDE DEF j
    <3>3. sum[j] = sum[j - 1] + Size(p, j) /\ g[j] = g[j - 1] + Size(p, j)
      BY <1>3, <3>1
    <3> QED BY <3>1, <3>2, <3>3 DEF j
  <2> HIDE DEF Same
  <2> QED BY <2>1, <2>2, NatInd
<1>5. sum[i] = g[i]
  BY <1>4
<1>6. Upto(p, i) = sum[i] - offset
  BY DEF Upto, sum, Sums
<1>7. /\ i = 0 => g[i] = 0
      /\ i # 0 => g[i] = End(p, i) + 1 - From(p, 1)
  BY DEF g
<1>8. CASE i = 0
  <2>1. sum[i] = 0
    BY <1>5, <1>7, <1>8
  <2> QED BY <1>6, <1>8, <2>1
<1>9. CASE i # 0
  <2>1. sum[i] = End(p, i) + 1 - From(p, 1)
    BY <1>5, <1>7, <1>9
  <2>2. End(p, i) \in Nat /\ From(p, 1) \in Nat
    <3>1. i \in 1 .. Len(p) /\ 1 \in 1 .. Len(p)
      BY <1>9
    <3> QED BY <3>1, PackageFields
  <2> QED BY <1>6, <1>9, <2>1, <2>2
<1> QED BY <1>8, <1>9

\* The bytes of the first n packages of p behind w, the first package without
\* its first o bytes.
Bytes(p, o, n) ==
  FlattenSeq([i \in 1 .. n |-> IF i = 1 THEN Slice(p[1], o, p[1].len - o)
                                        ELSE Slice(p[i], 0, p[i].len)])

LEMMA BytesAreRun ==
  ASSUME NEW p \in Seq(Packages), Chained(p), NEW n \in 1 .. Len(p),
         NEW o \in Nat, o < Size(p, 1)
  PROVE  /\ Bytes(p, o, n) = Run(From(p, 1) + o - 1, End(p, n))
         /\ From(p, 1) + o - 1 \in Nat /\ From(p, 1) + o - 1 < End(p, n)
<1> DEFINE w == From(p, 1) + o - 1
           e == [i \in 0 .. n |-> IF i = 0 THEN w ELSE End(p, i)]
           s == [i \in 1 .. n |-> IF i = 1 THEN Slice(p[1], o, p[1].len - o)
                                           ELSE Slice(p[i], 0, p[i].len)]
<1>1. /\ From(p, 1) \in Nat \ {0} /\ Size(p, 1) \in Nat \ {0} /\ w \in Nat
      /\ w < End(p, 1)
  <2>1. From(p, 1) \in Nat \ {0} /\ Size(p, 1) \in Nat \ {0}
    BY PackageFields
  <2> QED BY <2>1 DEF End
<1>2. e \in [0 .. n -> Nat]
  <2>1. \A i \in 1 .. n : End(p, i) \in Nat
    BY PackageFields
  <2> QED BY <1>1, <2>1
<1>3. \A i \in 1 .. n : e[i - 1] <= e[i] /\ s[i] = Run(e[i - 1], e[i])
  <2> SUFFICES ASSUME NEW i \in 1 .. n PROVE e[i - 1] <= e[i] /\ s[i] = Run(e[i - 1], e[i])
    OBVIOUS
  <2>1. CASE i = 1
    <3>1. s[i] = Slice(p[1], o, Size(p, 1) - o) /\ Size(p, 1) - o \in Nat
      BY <2>1, <1>1 DEF Size
    <3>2. Slice(p[1], o, Size(p, 1) - o) = Run(w, w + (Size(p, 1) - o))
      <4> HIDE DEF s, e
      <4>1. From(p, 1) \in Nat \ {0} /\ Size(p, 1) - o \in Nat
        BY <3>1, <1>1
      <4> QED BY <4>1, SliceIsRun
    <3>3. w + (Size(p, 1) - o) = End(p, 1)
      BY <1>1 DEF End
    <3>4. e[i - 1] = w /\ e[i] = End(p, 1)
      BY <2>1
    <3> HIDE DEF w, e, s
    <3>5. End(p, 1) \in Nat
      BY PackageFields
    <3> QED BY <1>1, <3>1, <3>2, <3>3, <3>4, <3>5
  <2>2. CASE i # 1
    <3>1. i - 1 \in 1 .. Len(p) - 1 /\ i - 1 \in 1 .. Len(p) /\ i \in 1 .. Len(p)
          /\ i - 1 + 1 = i
      BY <2>2
    <3>2. From(p, i) = From(p, i - 1) + Size(p, i - 1)
      BY <3>1 DEF Chained
    <3>3. /\ From(p, i) \in Nat \ {0} /\ Size(p, i) \in Nat \ {0}
          /\ Size(p, i - 1) \in Nat /\ From(p, i - 1) \in Nat
      BY <3>1, PackageFields
    <3>4. s[i] = Slice(p[i], 0, Size(p, i))
      BY <2>2 DEF Size
    <3>5. Slice(p[i], 0, Size(p, i)) = Run(From(p, i) + 0 - 1, From(p, i) + 0 - 1 + Size(p, i))
      BY <3>3, SliceIsRun
    <3>6. e[i - 1] = End(p, i - 1) /\ e[i] = End(p, i)
      BY <2>2
    <3>7. End(p, i - 1) = From(p, i) + 0 - 1 /\ End(p, i) = From(p, i) + 0 - 1 + Size(p, i)
      BY <3>2, <3>3 DEF End
    <3>8. End(p, i - 1) <= End(p, i)
      BY <3>2, <3>3 DEF End
    <3> HIDE DEF w, e, s
    <3> QED BY <3>4, <3>5, <3>6, <3>7, <3>8
  <2> QED BY <2>1, <2>2
<1>4. s = [i \in 1 .. n |-> Run(e[i - 1], e[i])]
  BY <1>3
<1>5. Bytes(p, o, n) = FlattenSeq(s)
  BY DEF Bytes
<1>6. e[0] = w /\ e[n] = End(p, n)
  OBVIOUS
<1>7. w < End(p, n)
  <2>1. End(p, 1) + (n - 1) <= End(p, n) /\ End(p, 1) \in Nat /\ End(p, n) \in Nat
    BY EndGrows, PackageFields
  <2> QED BY <1>1, <2>1
<1> HIDE DEF e, s
<1>8. n \in Nat /\ \A i \in 1 .. n : e[i - 1] <= e[i]
  BY <1>3
<1>9. FlattenSeq(s) = Run(e[0], e[n])
  BY <1>2, <1>4, <1>8, FlattenRuns
<1> QED BY <1>1, <1>5, <1>6, <1>7, <1>9

\* The packages 2 to n of p.
LEMMA TailIsRun ==
  ASSUME NEW p \in Seq(Packages), Chained(p), NEW n \in 1 .. Len(p)
  PROVE  FlattenSeq([i \in 1 .. n - 1 |-> Slice(p[i + 1], 0, p[i + 1].len)])
         = Run(End(p, 1), End(p, n))
<1> DEFINE e == [i \in 0 .. n - 1 |-> End(p, i + 1)]
           s == [i \in 1 .. n - 1 |-> Slice(p[i + 1], 0, p[i + 1].len)]
<1>1. n - 1 \in Nat /\ e[0] = End(p, 1) /\ e[n - 1] = End(p, n)
  OBVIOUS
<1>2. e \in [0 .. n - 1 -> Nat]
  <2>1. \A i \in 0 .. n - 1 : i + 1 \in 1 .. Len(p)
    OBVIOUS
  <2>2. \A i \in 0 .. n - 1 : End(p, i + 1) \in Nat
    BY <2>1, PackageFields
  <2> QED BY <2>2
<1>3. \A i \in 1 .. n - 1 : e[i - 1] <= e[i] /\ s[i] = Run(e[i - 1], e[i])
  <2> SUFFICES ASSUME NEW i \in 1 .. n - 1 PROVE e[i - 1] <= e[i] /\ s[i] = Run(e[i - 1], e[i])
    OBVIOUS
  <2>1. i \in 1 .. Len(p) - 1 /\ i \in 1 .. Len(p) /\ i + 1 \in 1 .. Len(p) /\ i - 1 + 1 = i
    OBVIOUS
  <2>2. From(p, i + 1) = From(p, i) + Size(p, i)
    BY <2>1 DEF Chained
  <2>3. /\ From(p, i + 1) \in Nat \ {0} /\ Size(p, i + 1) \in Nat \ {0}
        /\ Size(p, i) \in Nat /\ From(p, i) \in Nat
    BY <2>1, PackageFields
  <2>4. s[i] = Slice(p[i + 1], 0, Size(p, i + 1))
    BY DEF Size
  <2>5. e[i - 1] = End(p, i) /\ e[i] = End(p, i + 1)
    BY <2>1
  <2> HIDE DEF e, s
  <2>6. Slice(p[i + 1], 0, Size(p, i + 1))
          = Run(From(p, i + 1) + 0 - 1, From(p, i + 1) + 0 - 1 + Size(p, i + 1))
    BY <2>3, SliceIsRun
  <2>7. /\ End(p, i) = From(p, i + 1) + 0 - 1
        /\ End(p, i + 1) = From(p, i + 1) + 0 - 1 + Size(p, i + 1)
        /\ End(p, i) <= End(p, i + 1)
    BY <2>2, <2>3 DEF End
  <2> QED BY <2>4, <2>5, <2>6, <2>7
<1>4. s = [i \in 1 .. n - 1 |-> Run(e[i - 1], e[i])]
  BY <1>3
<1> HIDE DEF e
<1>5. \A i \in 1 .. n - 1 : e[i - 1] <= e[i]
  BY <1>3
<1> HIDE DEF s
<1>6. FlattenSeq(s) = Run(e[0], e[n - 1])
  BY <1>1, <1>2, <1>4, <1>5, FlattenRuns
<1> QED BY <1>1, <1>6 DEF s

----------------------------------------------------------------------------
(* What the queue holds *)

\* A queue has no more packages than bytes.
LEMMA HeldBytes ==
  ASSUME NEW p \in Seq(Packages), NEW o \in Nat, NEW w \in Nat, NEW t \in Nat,
         Holds(p, o, w, t)
  PROVE  /\ Len(p) <= t - w
         /\ p # <<>> => /\ 1 \in 1 .. Len(p) /\ Len(p) \in 1 .. Len(p)
                        /\ From(p, 1) + o - 1 = w /\ o < Size(p, 1)
                        /\ w + (Size(p, 1) - o) = End(p, 1)
                        /\ w < End(p, 1) /\ End(p, Len(p)) = t
<1>1. CASE p = <<>>
  <2>1. w = t /\ Len(p) = 0
    BY <1>1 DEF Holds
  <2> QED BY <1>1, <2>1
<1>2. CASE p # <<>>
  <2>1. 1 \in 1 .. Len(p) /\ Len(p) \in 1 .. Len(p)
    BY <1>2, EmptySeq
  <2>2. From(p, 1) + o = w + 1 /\ o < Size(p, 1) /\ End(p, Len(p)) = t /\ Chained(p)
    BY <1>2 DEF Holds
  <2>3. /\ From(p, 1) \in Nat /\ Size(p, 1) \in Nat /\ End(p, 1) \in Nat /\ End(p, Len(p)) \in Nat
        /\ End(p, 1) = From(p, 1) + Size(p, 1) - 1
    BY <2>1, PackageFields DEF End
  <2>4. End(p, 1) + (Len(p) - 1) <= End(p, Len(p))
    BY <2>1, <2>2, EndGrows
  <2>5. Len(p) \in Nat
    OBVIOUS
  <2> QED BY <2>1, <2>2, <2>3, <2>4, <2>5
<1> QED BY <1>1, <1>2

\* Without its first k packages, and o bytes of the next, the queue holds what
\* is behind those.
LEMMA DropHolds ==
  ASSUME NEW p \in Seq(Packages), Chained(p), p # <<>>,
         NEW k \in 0 .. Len(p) - 1, NEW o \in Nat, o < Size(p, k + 1)
  PROVE  /\ SubSeq(p, k + 1, Len(p)) \in Seq(Packages)
         /\ Holds(SubSeq(p, k + 1, Len(p)), o, From(p, k + 1) + o - 1, End(p, Len(p)))
<1> DEFINE d == SubSeq(p, k + 1, Len(p))
<1>1. /\ d \in Seq(Packages) /\ Len(d) = Len(p) - k
      /\ \A i \in 1 .. Len(p) - k : d[i] = p[i + k]
  <2>1. k + 1 \in Int /\ Len(p) \in Int /\ k + 1 <= Len(p) /\ Len(p) - (k + 1) + 1 = Len(p) - k
    OBVIOUS
  <2>2. \A i \in k + 1 .. Len(p) : p[i] \in Packages
    OBVIOUS
  <2>3. /\ d \in Seq(Packages) /\ Len(d) = Len(p) - k
        /\ \A i \in 1 .. Len(p) - k : d[i] = p[k + 1 + i - 1]
    BY <2>1, <2>2, SubSeqProperties
  <2>4. \A i \in 1 .. Len(p) - k : k + 1 + i - 1 = i + k
    OBVIOUS
  <2> QED BY <2>3, <2>4
<1> HIDE DEF d
<1>2. \A i \in 1 .. Len(p) - k : /\ From(d, i) = From(p, i + k) /\ Size(d, i) = Size(p, i + k)
                                 /\ End(d, i) = End(p, i + k)
  BY <1>1 DEF From, Size, End
<1>3. Chained(d)
  <2> SUFFICES ASSUME NEW i \in 1 .. Len(d) - 1 PROVE From(d, i + 1) = From(d, i) + Size(d, i)
    BY DEF Chained
  <2>1. /\ i \in 1 .. Len(p) - k /\ i + 1 \in 1 .. Len(p) - k /\ i + k \in 1 .. Len(p) - 1
        /\ i + 1 + k = i + k + 1
    BY <1>1
  <2>2. From(p, i + k + 1) = From(p, i + k) + Size(p, i + k)
    BY <2>1 DEF Chained
  <2> QED BY <1>2, <2>1, <2>2
<1>4. d # <<>>
  BY <1>1
<1>5. From(d, 1) = From(p, k + 1) /\ Size(d, 1) = Size(p, k + 1) /\ End(d, Len(d)) = End(p, Len(p))
  <2>1. /\ 1 \in 1 .. Len(p) - k /\ 1 + k = k + 1
        /\ Len(p) - k \in 1 .. Len(p) - k /\ Len(p) - k + k = Len(p)
    OBVIOUS
  <2> QED BY <1>1, <1>2, <2>1
<1>6. From(p, k + 1) \in Nat
  <2>1. k + 1 \in 1 .. Len(p)
    OBVIOUS
  <2> QED BY <2>1, PackageFields
<1>7. From(d, 1) + o = From(p, k + 1) + o - 1 + 1
  BY <1>5, <1>6
<1> QED BY <1>1, <1>3, <1>4, <1>5, <1>7 DEF Holds, d

\* A package that joins a chain is the next in it.
LEMMA PushHolds ==
  ASSUME NEW p \in Seq(Packages), NEW o \in Nat, NEW w \in Nat, NEW t \in Nat,
         Holds(p, o, w, t), NEW len \in Sizes, t + len <= MaxTotal,
         NEW e, e = [from |-> t + 1, len |-> len]
  PROVE  /\ e \in Packages
         /\ Append(p, e) \in Seq(Packages) /\ Len(Append(p, e)) = Len(p) + 1
         /\ Holds(Append(p, e), o, w, t + len)
<1> DEFINE a == Append(p, e)
           n == Len(p)
<1>1. len \in Nat \ {0} /\ n \in Nat
  BY SizesAssumption
<1>2. t + 1 \in 1 .. MaxTotal
  BY <1>1, BoundsAssumption
<1>3. e \in Packages
  BY <1>2 DEF Packages
<1>4. /\ a \in Seq(Packages) /\ Len(a) = n + 1 /\ a # <<>>
      /\ \A i \in 1 .. n : a[i] = p[i]
      /\ a[n + 1] = e
  BY <1>3, AppendProperties
<1> HIDE DEF a
<1>5. /\ \A i \in 1 .. n : From(a, i) = From(p, i) /\ Size(a, i) = Size(p, i) /\ End(a, i) = End(p, i)
      /\ From(a, n + 1) = t + 1 /\ Size(a, n + 1) = len
  BY <1>4 DEF From, Size, End
<1>6. End(a, n + 1) = t + len
  BY <1>1, <1>5 DEF End
<1>7. CASE p = <<>>
  <2>1. n = 0 /\ o = 0 /\ w = t
    BY <1>7 DEF Holds
  <2>2. Chained(a)
    BY <1>4, <2>1 DEF Chained
  <2>3. From(a, 1) + o = w + 1 /\ o < Size(a, 1) /\ End(a, Len(a)) = t + len
    BY <1>1, <1>4, <1>5, <1>6, <2>1
  <2> QED BY <1>3, <1>4, <2>2, <2>3 DEF Holds, a
<1>8. CASE p # <<>>
  <2>1. n \in 1 .. n /\ 1 \in 1 .. n
    BY <1>1, <1>8, EmptySeq
  <2>2. Chained(p) /\ From(p, 1) + o = w + 1 /\ o < Size(p, 1) /\ End(p, n) = t
    BY <1>8 DEF Holds
  <2>3. Chained(a)
    <3> SUFFICES ASSUME NEW i \in 1 .. n PROVE From(a, i + 1) = From(a, i) + Size(a, i)
      BY <1>1, <1>4 DEF Chained
    <3>1. CASE i = n
      <4>1. From(p, n) \in Nat /\ Size(p, n) \in Nat
        BY <2>1, PackageFields
      <4>2. From(p, n) + Size(p, n) - 1 = t
        BY <2>2 DEF End
      <4>3. From(a, n) = From(p, n) /\ Size(a, n) = Size(p, n)
        BY <1>5, <2>1
      <4> HIDE DEF n
      <4> QED BY <1>5, <3>1, <4>1, <4>2, <4>3
    <3>2. CASE i # n
      <4>1. i \in 1 .. n - 1 /\ i + 1 \in 1 .. n
        BY <1>1, <3>2
      <4>2. From(p, i + 1) = From(p, i) + Size(p, i)
        BY <2>2, <4>1 DEF Chained
      <4> QED BY <1>5, <4>1, <4>2
    <3> QED BY <3>1, <3>2
  <2>4. From(a, 1) + o = w + 1 /\ o < Size(a, 1) /\ End(a, Len(a)) = t + len
    BY <1>4, <1>5, <1>6, <2>1, <2>2
  <2> QED BY <1>3, <1>4, <2>3, <2>4 DEF Holds, a
<1> QED BY <1>7, <1>8

----------------------------------------------------------------------------
(* What the operations of DataQueue leave *)

\* A full array has one of twice its capacity to move to.
LEMMA PushAppends ==
  ASSUME NEW r, IsRing(r), NEW e \in Elements, Count(r) < MaxQueued
  PROVE  IsRing(Pushed(r, e)) /\ Items(Pushed(r, e)) = Append(Items(r), e)
<1>1. /\ r.cap \in Nat \ {0} /\ r.head \in 0 .. r.cap - 1 /\ r.tail \in 0 .. r.cap - 1
      /\ Count(r) \in 0 .. r.cap - 1
  BY CountBounded
<1>2. r.cap \in Caps
  BY DEF IsRing
<1> DEFINE c == CHOOSE d \in Caps : d >= 2 * r.cap
<1>3. CASE Fills(r)
  <2>1. Count(r) = r.cap - 1
    BY <1>1, <1>3 DEF Fills, After, Count
  <2>2. r.cap <= MaxQueued
    BY <1>1, <2>1, BoundsAssumption
  <2>3. \E d \in Caps : d >= 2 * r.cap
    BY <1>2, <2>2, GrowthAssumption
  <2>4. c \in Caps /\ c >= 2 * r.cap
    BY <2>3
  <2> HIDE DEF c
  <2>5. IsRing(Emplace(r, e, c)) /\ Items(Emplace(r, e, c)) = Append(Items(r), e)
    BY <2>4, EmplaceAppends
  <2> QED BY <2>5 DEF Pushed, c
<1>4. CASE ~Fills(r)
  <2>1. MinCap \in Caps
    BY CapsAssumption
  <2>2. IsRing(Emplace(r, e, MinCap)) /\ Items(Emplace(r, e, MinCap)) = Append(Items(r), e)
    BY <1>4, <2>1, EmplaceAppends
  <2> HIDE DEF c
  <2>3. Emplace(r, e, c) = Emplace(r, e, MinCap)
    <3> DEFINE put == [r EXCEPT !.buf[r.tail] = e, !.tail = After(r, r.tail)]
    <3>1. put.tail # r.head
      <4>1. r \in [buf : Arrays, cap : Caps, head : Nat, tail : Nat]
        BY DEF IsRing
      <4> QED BY <1>4, <4>1 DEF Fills
    <3> HIDE DEF put
    <3>2. \A d : Emplace(r, e, d) = put
      BY <3>1 DEF Emplace, put
    <3> QED BY <3>2
  <2> QED BY <2>2, <2>3 DEF Pushed, c
<1> QED BY <1>3, <1>4

\* The rest of a sequence behind its first i.
LEMMA RestIs ==
  ASSUME NEW S, NEW p \in Seq(S), NEW i \in 0 .. Len(p)
  PROVE  /\ SubSeq(p, i + 1, Len(p)) \in Seq(S)
         /\ Len(SubSeq(p, i + 1, Len(p))) = Len(p) - i
         /\ \A j \in 1 .. Len(p) - i : SubSeq(p, i + 1, Len(p))[j] = p[i + j]
<1> DEFINE n == Len(p)
           a == SubSeq(p, i + 1, n)
<1>1. CASE i = n
  <2>1. a = <<>>
    BY <1>1, SubSeqEmpty
  <2>2. a \in Seq(S) /\ Len(a) = n - i /\ 1 .. n - i = {}
    BY <1>1, <2>1
  <2> QED BY <2>2
<1>2. CASE i # n
  <2>1. i + 1 \in Int /\ n \in Int /\ i + 1 <= n /\ n - (i + 1) + 1 = n - i
    BY <1>2
  <2>2. \A j \in i + 1 .. n : p[j] \in S
    OBVIOUS
  <2>3. /\ a \in Seq(S) /\ Len(a) = n - i
        /\ \A j \in 1 .. n - i : a[j] = p[i + 1 + j - 1]
    BY <2>1, <2>2, SubSeqProperties
  <2>4. \A j \in 1 .. n - i : i + 1 + j - 1 = i + j
    OBVIOUS
  <2> QED BY <2>3, <2>4
<1> QED BY <1>1, <1>2

\* The rest of a rest.
LEMMA RestOfRest ==
  ASSUME NEW S, NEW p \in Seq(S), NEW i \in 0 .. Len(p) - 1
  PROVE  SubSeq(SubSeq(p, i + 1, Len(p)), 2, Len(p) - i) = SubSeq(p, i + 2, Len(p))
<1> DEFINE n == Len(p)
           a == SubSeq(p, i + 1, n)
           b == SubSeq(p, i + 2, n)
           c == SubSeq(a, 2, n - i)
<1>1. a \in Seq(S) /\ Len(a) = n - i /\ \A j \in 1 .. n - i : a[j] = p[i + j]
  BY RestIs
<1>2. b \in Seq(S) /\ Len(b) = n - (i + 1) /\ \A j \in 1 .. n - (i + 1) : b[j] = p[i + 1 + j]
  <2>1. i + 1 \in 0 .. n /\ i + 1 + 1 = i + 2
    OBVIOUS
  <2> DEFINE k == i + 1
  <2> HIDE DEF k
  <2>2. /\ SubSeq(p, k + 1, n) \in Seq(S) /\ Len(SubSeq(p, k + 1, n)) = n - k
        /\ \A j \in 1 .. n - k : SubSeq(p, k + 1, n)[j] = p[k + j]
    BY <2>1, RestIs DEF k
  <2>3. b = SubSeq(p, k + 1, n)
    BY <2>1 DEF k
  <2> HIDE DEF b
  <2> QED BY <2>2, <2>3 DEF k
<1> HIDE DEF a
<1>3. c \in Seq(S) /\ Len(c) = n - i - 1 /\ \A j \in 1 .. n - i - 1 : c[j] = a[1 + j]
  <2>1. 1 \in 0 .. Len(a) /\ 1 + 1 = 2 /\ Len(a) = n - i
    BY <1>1
  <2>2. /\ SubSeq(a, 1 + 1, Len(a)) \in Seq(S) /\ Len(SubSeq(a, 1 + 1, Len(a))) = Len(a) - 1
        /\ \A j \in 1 .. Len(a) - 1 : SubSeq(a, 1 + 1, Len(a))[j] = a[1 + j]
    BY <1>1, <2>1, RestIs
  <2>3. c = SubSeq(a, 1 + 1, Len(a))
    BY <2>1
  <2> HIDE DEF c
  <2> QED BY <2>1, <2>2, <2>3
<1> HIDE DEF b, c
<1>4. \A j \in 1 .. n - i - 1 : c[j] = b[j]
  <2> SUFFICES ASSUME NEW j \in 1 .. n - i - 1 PROVE c[j] = b[j]
    OBVIOUS
  <2>1. 1 + j \in 1 .. n - i /\ i + (1 + j) = i + 1 + j /\ j \in 1 .. n - (i + 1)
    OBVIOUS
  <2>2. c[j] = a[1 + j] /\ a[1 + j] = p[i + (1 + j)] /\ b[j] = p[i + 1 + j]
    BY <1>1, <1>2, <1>3, <2>1
  <2> QED BY <2>1, <2>2
<1>5. Len(c) = Len(b)
  BY <1>2, <1>3
<1>6. c = b
  BY <1>2, <1>3, <1>4, <1>5, SeqEqual
<1> QED BY <1>6 DEF a, b, c

\* A Pop for each of k packages takes the first k.
LEMMA PopEachTakesFirst ==
  ASSUME NEW r, IsRing(r), NEW k \in 0 .. Count(r)
  PROVE  IsRing(PopEach(r, k)) /\ Items(PopEach(r, k)) = SubSeq(Items(r), k + 1, Count(r))
<1> DEFINE p == Items(r)
           n == Count(r)
           Pops(f, m) == f = [i \in 0 .. m |-> IF i = 0 THEN r ELSE Pop(f[i - 1])]
           after == CHOOSE f : Pops(f, k)
<1>1. n \in Nat /\ p \in Seq(Elements) /\ Len(p) = n
  BY CountBounded, ItemsAreElements
<1> HIDE DEF p, n
<1> DEFINE Some == {m \in Nat : \E f : Pops(f, m)}
<1>2. \A m \in Nat : m \in Some
  <2>1. 0 \in Some
    <3> DEFINE f == [i \in 0 .. 0 |-> r]
    <3>1. Pops(f, 0)
      OBVIOUS
    <3> QED BY <3>1
  <2>2. ASSUME NEW m \in Nat, m \in Some PROVE m + 1 \in Some
    <3>1. PICK f : Pops(f, m)
      BY <2>2
    <3> DEFINE g == [i \in 0 .. m + 1 |-> IF i = m + 1 THEN Pop(f[m]) ELSE f[i]]
    <3>2. \A i \in 0 .. m : f[i] = IF i = 0 THEN r ELSE Pop(f[i - 1])
      BY <3>1
    <3>3. Pops(g, m + 1)
      <4> SUFFICES ASSUME NEW i \in 0 .. m + 1
                   PROVE  g[i] = IF i = 0 THEN r ELSE Pop(g[i - 1])
        OBVIOUS
      <4>1. CASE i = m + 1
        <5>1. i # 0 /\ i - 1 = m /\ m # m + 1 /\ m \in 0 .. m + 1
          BY <4>1
        <5>2. g[i] = Pop(f[m]) /\ g[m] = f[m]
          BY <4>1, <5>1
        <5> QED BY <5>1, <5>2
      <4>2. CASE i # m + 1 /\ i # 0
        <5>1. i \in 0 .. m /\ i - 1 \in 0 .. m + 1 /\ i - 1 # m + 1
          BY <4>2
        <5>2. g[i] = f[i] /\ g[i - 1] = f[i - 1] /\ f[i] = Pop(f[i - 1])
          BY <3>2, <4>2, <5>1
        <5> QED BY <4>2, <5>2
      <4>3. CASE i = 0
        <5>1. g[0] = f[0] /\ f[0] = r
          BY <3>2
        <5> QED BY <4>3, <5>1
      <4> QED BY <4>1, <4>2, <4>3
    <3> HIDE DEF Pops, g
    <3> QED BY <3>3
  <2> HIDE DEF Some
  <2> QED BY <2>1, <2>2, NatInd
<1>3. Pops(after, k)
  <2>1. \E f : Pops(f, k)
    BY <1>2
  <2> HIDE DEF Pops
  <2> QED BY <2>1
<1> HIDE DEF after
<1>4. \A i \in 0 .. k : after[i] = IF i = 0 THEN r ELSE Pop(after[i - 1])
  BY <1>3
<1>5. PopEach(r, k) = after[k]
  BY DEF PopEach, after
<1> HIDE DEF Pops, Some
<1> DEFINE Right == {i \in Nat : i <= k => /\ IsRing(after[i])
                                          /\ Items(after[i]) = SubSeq(p, i + 1, n)}
<1>6. \A i \in Nat : i \in Right
  <2>1. 0 \in Right
    <3>1. after[0] = r
      BY <1>4
    <3>2. SubSeq(p, 0 + 1, n) = p
      BY <1>1, SubSeqFull
    <3>3. IsRing(after[0]) /\ Items(after[0]) = SubSeq(p, 0 + 1, n)
      BY <3>1, <3>2 DEF p
    <3> QED BY <3>3
  <2>2. ASSUME NEW i \in Nat, i \in Right PROVE i + 1 \in Right
    <3> SUFFICES ASSUME i + 1 <= k
                 PROVE  /\ IsRing(after[i + 1])
                        /\ Items(after[i + 1]) = SubSeq(p, i + 1 + 1, n)
      OBVIOUS
    <3>1. /\ i + 1 \in 0 .. k /\ i + 1 # 0 /\ i + 1 - 1 = i /\ i \in 0 .. n - 1
          /\ i + 1 + 1 = i + 2
      BY <1>1 DEF n
    <3>2. IsRing(after[i]) /\ Items(after[i]) = SubSeq(p, i + 1, n)
      BY <2>2, <3>1
    <3>3. after[i + 1] = Pop(after[i])
      BY <1>4, <3>1
    <3> DEFINE a == after[i]
    <3> HIDE DEF a
    <3>4. IsRing(a) /\ Items(a) = SubSeq(p, i + 1, n)
      BY <3>2 DEF a
    <3>5. Count(a) = n - i
      <4>1. Len(Items(a)) = Count(a)
        BY <3>4, ItemsAreElements
      <4>2. i + 1 \in Int /\ n \in Int /\ i + 1 <= n /\ n - (i + 1) + 1 = n - i
        BY <1>1, <3>1
      <4>3. \A j \in i + 1 .. n : p[j] \in Elements
        BY <1>1, <3>1
      <4>4. Len(SubSeq(p, i + 1, n)) = n - i
        BY <4>2, <4>3, SubSeqProperties
      <4> QED BY <3>4, <4>1, <4>4
    <3>6. a.head # a.tail
      <4>1. a.head \in Nat /\ Count(a) # 0
        BY <3>1, <3>4, <3>5, <1>1, CountBounded
      <4> QED BY <4>1 DEF Count
    <3>7. IsRing(Pop(a)) /\ Items(Pop(a)) = SubSeq(Items(a), 2, Count(a))
      BY <3>4, <3>6, PopTakesFirst
    <3>8. SubSeq(SubSeq(p, i + 1, n), 2, n - i) = SubSeq(p, i + 2, n)
      BY <1>1, <3>1, RestOfRest
    <3> QED BY <3>1, <3>3, <3>4, <3>5, <3>7, <3>8 DEF a
  <2> HIDE DEF Right
  <2> QED BY <2>1, <2>2, NatInd
<1>7. k \in Nat /\ k \in Right
  BY <1>6
<1> QED BY <1>5, <1>7 DEF p, n

----------------------------------------------------------------------------
(* Write *)

\* How far the packages reach behind the last byte the socket took.
LEMMA UptoHeld ==
  ASSUME NEW p \in Seq(Packages), offset \in Nat, NEW w \in Nat, NEW t \in Nat,
         Holds(p, offset, w, t), NEW i \in 1 .. Len(p)
  PROVE  Upto(p, i) = End(p, i) - w /\ Upto(p, i) <= t - w
<1>1. Chained(p) /\ p # <<>> /\ i \in 0 .. Len(p) /\ i # 0
  BY EmptySeq DEF Holds
<1>2. Upto(p, i) = End(p, i) + 1 - From(p, 1) - offset
  BY <1>1, UptoIsEnd
<1>3. /\ From(p, 1) + offset - 1 = w /\ End(p, Len(p)) = t
  BY <1>1, HeldBytes
<1>4. From(p, 1) \in Nat /\ End(p, i) \in Nat
  <2>1. 1 \in 1 .. Len(p)
    BY <1>1
  <2> QED BY <2>1, PackageFields
<1>5. End(p, i) + (Len(p) - i) <= End(p, Len(p))
  <2>1. Len(p) \in i .. Len(p)
    OBVIOUS
  <2> QED BY <1>1, <2>1, EndGrows
<1>6. Len(p) - i \in Nat
  OBVIOUS
<1> QED BY <1>2, <1>3, <1>4, <1>5, <1>6

\* The packages of a Fill that counts all of vsLen, as far as there are as many.
Filled(p, f) == Lower(f.vsLen, Len(p))

\* Fill offers a run of whole packages, as many as it counts, when no more is
\* queued than one Write may send.
LEMMA FillIs ==
  ASSUME NEW p \in Seq(Packages), offset \in Nat, NEW w \in Nat, NEW t \in Nat,
         Holds(p, offset, w, t), p # <<>>, NEW b, b = t - w, b <= MaxBufLen,
         NEW f, f = Fill(p, b)
  PROVE  /\ f.offset = 0 /\ f.vsLen \in Nat \ {0}
         /\ Filled(p, f) \in 1 .. Len(p)
         /\ f.len = End(p, Filled(p, f)) - w
         /\ f.data = Run(w, End(p, Filled(p, f)))
<1>1. /\ 1 \in 1 .. Len(p) /\ Len(p) \in 1 .. Len(p) /\ Len(p) \in Nat
      /\ From(p, 1) + offset - 1 = w /\ offset < Size(p, 1)
      /\ w + (Size(p, 1) - offset) = End(p, 1)
      /\ w < End(p, 1) /\ End(p, Len(p)) = t
  BY HeldBytes
<1>2. Chained(p)
  BY DEF Holds
<1>3. /\ From(p, 1) \in Nat \ {0} /\ Size(p, 1) \in Nat /\ End(p, 1) \in Nat
  BY <1>1, PackageFields
<1>4. End(p, 1) + (Len(p) - 1) <= t
  BY <1>1, <1>2, EndGrows
<1>5. Lower(MaxBufLen, b) = b
  BY LimitsAssumption DEF Lower
<1> DEFINE siz == Size(p, 1) - offset
<1>6. siz \in Nat /\ End(p, 1) = w + siz /\ Slice(p[1], offset, siz) = Run(w, End(p, 1))
  <2>1. siz \in Nat /\ End(p, 1) = w + siz
    BY <1>1, <1>3
  <2> HIDE DEF siz
  <2>2. Slice(p[1], offset, siz) = Run(From(p, 1) + offset - 1, From(p, 1) + offset - 1 + siz)
    BY <1>3, <2>1, SliceIsRun
  <2> QED BY <1>1, <2>1, <2>2
<1> DEFINE one == [vsLen |-> 1, len |-> b,
                   offset |-> IF siz > b THEN offset + b ELSE 0,
                   data |-> Slice(p[1], offset, siz)]
<1>7. Fill(p, b) = IF siz >= b THEN one ELSE FillMany(p, b)
  BY <1>5 DEF Fill, Size
<1>8. CASE Len(p) = 1
  <2>1. siz = b
    <3>1. End(p, 1) = t
      BY <1>1, <1>8
    <3> HIDE DEF siz
    <3> QED BY <1>6, <3>1
  <2>2. f.vsLen = 1 /\ f.len = b /\ f.offset = 0 /\ f.data = Run(w, End(p, 1))
    BY <1>6, <1>7, <2>1
  <2>3. Filled(p, f) = 1
    BY <1>8, <2>2 DEF Filled, Lower
  <2> QED BY <1>1, <1>8, <2>2, <2>3
<1>9. CASE Len(p) # 1
  <2>1. siz < b
    <3>1. Len(p) - 1 \in Nat \ {0}
      BY <1>1, <1>9
    <3> DEFINE d == Len(p) - 1
    <3>2. d \in Nat \ {0} /\ End(p, 1) + d <= t /\ End(p, 1) = w + siz /\ siz \in Nat
      BY <1>4, <1>6, <3>1
    <3> HIDE DEF siz, d
    <3>3. w + siz + d <= t
      BY <3>2
    <3> QED BY <3>2, <3>3
  <2>2. f = FillMany(p, b)
    <3> HIDE DEF one
    <3>1. ~(siz >= b)
      BY <1>6, <2>1
    <3> QED BY <1>7, <3>1
  <2> DEFINE cap == Lower(VsCap, Len(p))
             S == {i \in 1 .. cap : Upto(p, i) <= b}
             n == Max(S)
             whole == Slice(p[1], offset, p[1].len - offset)
                      \o FlattenSeq([i \in 1 .. n - 1 |-> Slice(p[i + 1], 0, p[i + 1].len)])
  <2>3. cap \in 1 .. Len(p)
    BY <1>1, LimitsAssumption DEF Lower
  <2>4. S = 1 .. cap
    <3> HIDE DEF cap
    <3> SUFFICES ASSUME NEW i \in 1 .. cap PROVE Upto(p, i) <= b
      OBVIOUS
    <3>1. i \in 1 .. Len(p)
      BY <2>3
    <3> QED BY <3>1, UptoHeld
  <2> HIDE DEF S
  <2>5. n = cap
    <3> HIDE DEF cap
    <3>1. cap \in S /\ \A y \in S : cap >= y
      BY <2>3, <2>4
    <3>2. \A x \in S : (\A y \in S : x >= y) => x = cap
      BY <2>3, <2>4
    <3> QED BY <3>1, <3>2 DEF Max
  <2>6. FillMany(p, b) = IF b - Upto(p, n) > 0 /\ n < cap
                         THEN [vsLen |-> n + 1, len |-> b, offset |-> b - Upto(p, n),
                               data |-> whole \o Slice(p[n + 1], 0, b - Upto(p, n))]
                         ELSE [vsLen |-> VsCap, len |-> Upto(p, n), offset |-> 0, data |-> whole]
    BY DEF FillMany, S
  <2>7. whole = Run(w, End(p, cap))
    <3>1. Slice(p[1], offset, p[1].len - offset) = Run(w, End(p, 1))
      BY <1>6 DEF Size
    <3> HIDE DEF cap, n
    <3>2. FlattenSeq([i \in 1 .. n - 1 |-> Slice(p[i + 1], 0, p[i + 1].len)])
          = Run(End(p, 1), End(p, cap))
      BY <1>2, <2>3, <2>5, TailIsRun
    <3>3. End(p, 1) + (cap - 1) <= End(p, cap) /\ End(p, cap) \in Nat
      BY <1>1, <1>2, <2>3, EndGrows, PackageFields
    <3>4. w <= End(p, 1) /\ End(p, 1) <= End(p, cap)
      BY <1>1, <1>3, <2>3, <3>3
    <3>5. Run(w, End(p, 1)) \o Run(End(p, 1), End(p, cap)) = Run(w, End(p, cap))
      BY <1>3, <3>3, <3>4, RunConcat
    <3> QED BY <3>1, <3>2, <3>5
  <2> HIDE DEF n, whole
  <2>8. ~(n < cap)
    <3> HIDE DEF cap
    <3> QED BY <2>3, <2>5
  <2>9. /\ f.vsLen = VsCap /\ f.len = Upto(p, n) /\ f.offset = 0 /\ f.data = whole
    BY <2>2, <2>6, <2>8
  <2>10. Filled(p, f) = cap
    BY <2>9 DEF Filled
  <2> HIDE DEF cap
  <2>11. Upto(p, cap) = End(p, cap) - w
    BY <2>3, UptoHeld
  <2> QED BY <2>3, <2>5, <2>7, <2>9, <2>10, <2>11, LimitsAssumption
<1> QED BY <1>8, <1>9

\* The packages that are gone when n bytes of the queued are.
LEMMA GoneIs ==
  ASSUME NEW p \in Seq(Packages), offset \in Nat, NEW w \in Nat, NEW t \in Nat,
         Holds(p, offset, w, t), p # <<>>, NEW n \in Nat, n < t - w,
         NEW k, k = Cardinality(Gone(p, n))
  PROVE  /\ k \in 0 .. Len(p) - 1
         /\ k # 0 => End(p, k) <= w + n
         /\ w + n < End(p, k + 1)
<1> DEFINE m == Len(p)
           G == Gone(p, n)
<1>1. Chained(p) /\ m \in 1 .. m /\ End(p, m) = t /\ m \in Nat
  BY HeldBytes DEF Holds
<1>2. \A i \in 1 .. m : End(p, i) \in Nat
  BY PackageFields
<1> HIDE DEF m
<1>3. G = {i \in 1 .. m : End(p, i) <= w + n}
  <2>1. \A i \in 1 .. m : Upto(p, i) = End(p, i) - w
    BY UptoHeld DEF m
  <2>2. \A i \in 1 .. m : End(p, i) - w <= n <=> End(p, i) <= w + n
    BY <1>2
  <2>3. G = {i \in 1 .. m : Upto(p, i) <= n}
    BY DEF Gone, m
  <2> HIDE DEF G
  <2> QED BY <2>1, <2>2, <2>3
<1> HIDE DEF G
<1>4. \A i \in G, j \in 1 .. m : j <= i => j \in G
  <2> SUFFICES ASSUME NEW i \in G, NEW j \in 1 .. m, j <= i PROVE End(p, j) <= w + n
    BY <1>3
  <2>1. i \in 1 .. m /\ End(p, i) <= w + n
    BY <1>3
  <2>2. End(p, j) + (i - j) <= End(p, i)
    <3>1. i \in j .. m
      BY <2>1
    <3> QED BY <1>1, <3>1, EndGrows DEF m
  <2>3. End(p, i) \in Nat /\ End(p, j) \in Nat /\ i - j \in Nat
    BY <1>2, <2>1
  <2> QED BY <2>1, <2>2, <2>3
<1>5. G \in SUBSET (1 .. m)
  BY <1>3
<1>6. PICK d \in 0 .. m : G = 1 .. d
  BY <1>1, <1>4, <1>5, InitialSegment
<1>7. d = k
  <2>1. Cardinality(1 .. d) = IF 1 > d THEN 0 ELSE d - 1 + 1
    BY FS_Interval
  <2>2. k = Cardinality(1 .. d)
    BY <1>6 DEF G
  <2> QED BY <2>1, <2>2
<1>8. k # m
  BY <1>1, <1>3, <1>6, <1>7
<1>9. k \in 0 .. m - 1 /\ k + 1 \in 1 .. m /\ k + 1 \notin G
  BY <1>1, <1>6, <1>7, <1>8
<1>10. k # 0 => k \in G
  BY <1>6, <1>7, <1>9
<1>11. w + n < End(p, k + 1)
  BY <1>2, <1>3, <1>9
<1> QED BY <1>3, <1>9, <1>10, <1>11 DEF m

\* What every Write leaves, of a queue that holds the bytes up to t that the
\* socket did not take, and no more than one Write may send.
LEMMA WriteKeeps ==
  ASSUME NEW r, IsRing(r), offset \in Nat, NEW t \in 0 .. MaxTotal,
         Len(wire) \in 0 .. t, wire = Run(0, Len(wire)),
         Holds(Items(r), offset, Len(wire), t),
         NEW b, b = t - Len(wire), b <= MaxBufLen,
         b = 0 => r = ring /\ bytes = 0,
         armed \in BOOLEAN, Write(r, b)
  PROVE  /\ IsRing(ring')
         /\ \E k \in 0 .. Len(Items(r)) : Items(ring') = SubSeq(Items(r), k + 1, Len(Items(r)))
         /\ offset' \in Nat
         /\ Len(wire') \in Len(wire) .. t
         /\ wire' = Run(0, Len(wire'))
         /\ Holds(Items(ring'), offset', Len(wire'), t)
         /\ bytes' = t - Len(wire')
         /\ writing' \in BOOLEAN /\ armed' \in BOOLEAN
         /\ writing' => armed'
         /\ armed \/ Len(Items(r)) <= 1 => (bytes' > 0 => armed')
<1> DEFINE p == Items(r)
           w == Len(wire)
           f == Fill(p, b)
<1>1. /\ p \in Seq(Packages) /\ Len(p) \in Nat /\ Len(p) = Count(r)
      /\ t \in Nat /\ w \in 0 .. t /\ w \in Nat /\ b \in Nat /\ b = t - w
      /\ Holds(p, offset, w, t)
  BY ItemsAreElements, ElementsAssumption, BoundsAssumption
<1> SUFFICES
      /\ IsRing(ring')
      /\ \E k \in 0 .. Len(p) : Items(ring') = SubSeq(p, k + 1, Len(p))
      /\ offset' \in Nat
      /\ Len(wire') \in w .. t
      /\ wire' = Run(0, Len(wire'))
      /\ Holds(Items(ring'), offset', Len(wire'), t)
      /\ bytes' = t - Len(wire')
      /\ writing' \in BOOLEAN /\ armed' \in BOOLEAN
      /\ writing' => armed'
      /\ armed \/ Len(p) <= 1 => (bytes' > 0 => armed')
  OBVIOUS
<1> HIDE DEF p, w
<1>5. w \in Nat /\ t \in Nat /\ b \in Nat /\ b = t - w
  BY <1>1
<1>2. CASE b = 0
  <2>1. /\ armed' = FALSE /\ writing' = FALSE
        /\ ring' = ring /\ offset' = offset /\ bytes' = bytes /\ wire' = wire
    BY <1>2 DEF Write
  <2>2. /\ IsRing(ring') /\ Items(ring') = p /\ bytes' = t - w /\ ~(bytes' > 0)
        /\ Holds(p, offset', w, t) /\ Len(wire') = w /\ wire' = Run(0, w)
    BY <1>1, <1>2, <2>1 DEF p, w
  <2>3. p = SubSeq(p, 0 + 1, Len(p)) /\ 0 \in 0 .. Len(p)
    BY <1>1, SubSeqFull
  <2>4. w \in w .. t
    BY <1>1
  <2> QED BY <1>1, <2>1, <2>2, <2>3, <2>4
<1>3. CASE b # 0
  <2>1. p # <<>>
    BY <1>1, <1>3 DEF Holds
  <2>2. /\ f.offset = 0 /\ f.vsLen \in Nat \ {0}
        /\ Filled(p, f) \in 1 .. Len(p)
        /\ f.len = End(p, Filled(p, f)) - w
        /\ f.data = Run(w, End(p, Filled(p, f)))
    BY <1>1, <2>1, FillIs
  <2> DEFINE m == Filled(p, f)
  <2>3. PICK n \in 0 .. Len(f.data) :
          /\ wire' = wire \o SubSeq(f.data, 1, n)
          /\ IF n = f.len
             THEN PopFilled(r, b, f) /\ writing' = FALSE /\ UNCHANGED armed
             ELSE PopBytes(r, b, n) /\ writing' = TRUE /\ armed' = TRUE
    <3> HIDE DEF f
    <3> QED BY <1>3 DEF Write, f, p
  <2> HIDE DEF f
  <2>4. m \in 1 .. Len(p) /\ f.len = End(p, m) - w /\ f.data = Run(w, End(p, m))
    BY <2>2
  <2> HIDE DEF m
  <2>5. Chained(p) /\ End(p, Len(p)) = t /\ From(p, 1) + offset - 1 = w /\ offset < Size(p, 1)
        /\ w + (Size(p, 1) - offset) = End(p, 1) /\ w < End(p, 1)
        /\ 1 \in 1 .. Len(p) /\ Len(p) \in 1 .. Len(p)
    BY <1>1, <2>1, HeldBytes DEF Holds
  <2>6. End(p, m) \in Nat /\ End(p, m) <= t /\ w < End(p, m) /\ (m = Len(p) => End(p, m) = t)
    <3>1. End(p, 1) \in Nat /\ End(p, m) \in Nat
      BY <1>1, <2>4, <2>5, PackageFields
    <3>2. m \in 1 .. Len(p) /\ Len(p) \in m .. Len(p)
      BY <2>4
    <3>3. End(p, 1) + (m - 1) <= End(p, m)
      BY <1>1, <2>5, <3>2, EndGrows
    <3>4. End(p, m) + (Len(p) - m) <= End(p, Len(p))
      BY <1>1, <2>5, <3>2, EndGrows
    <3>5. m - 1 \in Nat /\ Len(p) - m \in Nat
      BY <2>4
    <3> QED BY <1>1, <2>5, <3>1, <3>3, <3>4, <3>5
  <2>7. f.len \in Nat /\ f.len <= b /\ (m = Len(p) => f.len = b) /\ Len(f.data) = f.len
    <3>1. Len(Run(w, End(p, m))) = End(p, m) - w
      <4>1. w <= End(p, m)
        BY <1>1, <2>6
      <4> QED BY <1>1, <2>6, <4>1, RunProperties
    <3> QED BY <1>1, <2>4, <2>6, <3>1
  <2>8. n \in 0 .. f.len /\ n \in Nat
    BY <2>3, <2>7
  <2>9. /\ wire' = Run(0, w + n) /\ Len(wire') = w + n /\ w + n <= t
    <3>1. n \in 0 .. End(p, m) - w /\ w <= End(p, m)
      BY <1>1, <2>4, <2>6, <2>8
    <3>2. SubSeq(Run(w, End(p, m)), 1, n) = Run(w, w + n)
      BY <1>1, <2>6, <3>1, RunPrefix
    <3>3. w + n \in Nat /\ w <= w + n /\ 0 <= w /\ 0 <= w + n /\ w + n <= t
      BY <1>1, <2>6, <2>8, <3>1
    <3>4. Run(0, w) \o Run(w, w + n) = Run(0, w + n)
      BY <1>1, <3>3, RunConcat
    <3>5. wire = Run(0, w)
      BY DEF w
    <3>6. wire' = Run(0, w + n)
      BY <2>3, <2>4, <3>2, <3>4, <3>5
    <3>7. Len(Run(0, w + n)) = w + n - 0
      <4> DEFINE z == w + n
      <4> HIDE DEF z
      <4>1. z \in Nat /\ 0 <= z
        BY <3>3 DEF z
      <4>2. Len(Run(0, z)) = z - 0
        BY <4>1, RunProperties
      <4> QED BY <4>1, <4>2 DEF z
    <3> QED BY <3>3, <3>6, <3>7
  <2>10. CASE n = f.len
    <3>1. PopFilled(r, b, f) /\ writing' = FALSE /\ armed' = armed
      BY <2>3, <2>10
    <3>2. ~(f.vsLen = 1 /\ p[1].len > offset + f.len)
      <4> SUFFICES ASSUME f.vsLen = 1 PROVE ~(Size(p, 1) > offset + f.len)
        BY DEF Size
      <4>1. m = 1
        BY <1>1, <2>5 DEF m, Filled, Lower
      <4>2. Size(p, 1) \in Nat /\ End(p, 1) \in Nat
        BY <1>1, <2>5, PackageFields
      <4> QED BY <1>1, <2>4, <2>5, <4>1, <4>2
    <3>3. bytes' = b - f.len /\ offset' = f.offset /\ ring' = PopMulti(r, f.vsLen)
      BY <3>1, <3>2 DEF PopFilled, p
    <3>4. offset' = 0 /\ bytes' = t - (w + n) /\ w + n = End(p, m)
      BY <1>1, <2>2, <2>4, <2>6, <2>7, <2>10, <3>3
    <3>5. IsRing(ring') /\ Items(ring') = SubSeq(p, f.vsLen + 1, Len(p))
      BY <1>1, <2>2, <3>3, PopMultiTakesFirst DEF p
    <3>6. Items(ring') = SubSeq(p, m + 1, Len(p)) /\ Holds(Items(ring'), 0, w + n, t)
      <4>1. CASE f.vsLen < Len(p)
        <5>1. m = f.vsLen /\ m \in 0 .. Len(p) - 1
          BY <1>1, <2>2, <4>1 DEF m, Filled, Lower
        <5>2. m \in 1 .. Len(p) - 1 /\ m + 1 \in 1 .. Len(p)
          BY <2>4, <5>1
        <5>3. From(p, m + 1) = From(p, m) + Size(p, m)
          BY <2>5, <5>2 DEF Chained
        <5>4. From(p, m) \in Nat /\ Size(p, m) \in Nat /\ 0 < Size(p, m + 1)
          BY <1>1, <2>4, <5>2, PackageFields
        <5>5. From(p, m + 1) + 0 - 1 = End(p, m)
          BY <5>3, <5>4 DEF End
        <5>6. Holds(SubSeq(p, m + 1, Len(p)), 0, From(p, m + 1) + 0 - 1, End(p, Len(p)))
          BY <1>1, <2>1, <2>5, <5>1, <5>4, DropHolds
        <5> QED BY <2>5, <3>4, <3>5, <5>1, <5>5, <5>6
      <4>2. CASE ~(f.vsLen < Len(p))
        <5>1. m = Len(p)
          BY <4>2 DEF m, Filled, Lower
        <5>2. SubSeq(p, m + 1, Len(p)) = <<>> /\ SubSeq(p, f.vsLen + 1, Len(p)) = <<>>
          <6>1. /\ m + 1 \in Int /\ f.vsLen + 1 \in Int /\ Len(p) \in Int
                /\ Len(p) < m + 1 /\ Len(p) < f.vsLen + 1
            BY <1>1, <2>2, <4>2, <5>1
          <6> QED BY <6>1, SubSeqEmpty
        <5>3. w + n = t
          BY <2>6, <3>4, <5>1
        <5>4. Holds(<<>>, 0, t, t)
          BY DEF Holds, Chained
        <5> QED BY <3>5, <5>2, <5>3, <5>4
      <4> QED BY <4>1, <4>2
    <3>7. m \in 0 .. Len(p)
      BY <2>4
    <3>8. Len(p) <= 1 => bytes' = 0
      <4>1. Len(p) <= 1 => m = Len(p)
        BY <1>1, <2>4
      <4> QED BY <1>1, <2>7, <3>3, <4>1
    <3>9. /\ writing' \in BOOLEAN /\ armed' \in BOOLEAN /\ ~writing'
          /\ armed => armed'
      BY <3>1
    <3>10. wire' = Run(0, Len(wire')) /\ Len(wire') \in w .. t /\ bytes' = t - Len(wire')
      BY <1>5, <2>8, <2>9, <3>4
    <3>11. Holds(Items(ring'), offset', Len(wire'), t) /\ offset' \in Nat
      BY <2>9, <3>4, <3>6
    <3>12. \E j \in 0 .. Len(p) : Items(ring') = SubSeq(p, j + 1, Len(p))
      BY <3>6, <3>7
    <3>13. armed \/ Len(p) <= 1 => (bytes' > 0 => armed')
      BY <3>8, <3>9
    <3> QED BY <3>5, <3>9, <3>10, <3>11, <3>12, <3>13
  <2>11. CASE n # f.len
    <3>1. PopBytes(r, b, n) /\ writing' = TRUE /\ armed' = TRUE
      BY <2>3, <2>11
    <3> DEFINE k == Cardinality(Gone(p, n))
    <3>2. n < f.len /\ n < b /\ ~(n >= b)
      BY <1>1, <2>7, <2>8, <2>11
    <3>3. /\ bytes' = b - n /\ ring' = PopEach(r, k)
          /\ offset' = IF k = 0 THEN offset + n ELSE n - Upto(p, k)
      BY <3>1, <3>2 DEF PopBytes, p
    <3>4. k \in 0 .. Len(p) - 1 /\ (k # 0 => End(p, k) <= w + n) /\ w + n < End(p, k + 1)
      BY <1>1, <2>1, <2>8, <3>2, GoneIs
    <3> HIDE DEF k
    <3>5. bytes' = t - (w + n)
      BY <1>1, <2>8, <3>3
    <3>6. IsRing(ring') /\ Items(ring') = SubSeq(p, k + 1, Len(p))
      <4>1. k \in 0 .. Count(r)
        BY <1>1, <3>4
      <4> QED BY <1>1, <3>3, <4>1, PopEachTakesFirst DEF p
    <3>7. offset' \in Nat /\ offset' < Size(p, k + 1) /\ From(p, k + 1) + offset' - 1 = w + n
      <4>1. k + 1 \in 1 .. Len(p)
        BY <3>4
      <4>2. From(p, k + 1) \in Nat /\ Size(p, k + 1) \in Nat
        BY <1>1, <4>1, PackageFields
      <4>3. CASE k = 0
        <5>1. offset' = offset + n
          BY <3>3, <4>3
        <5>2. w + n < End(p, 1)
          BY <3>4, <4>3
        <5>3. From(p, 1) \in Nat /\ Size(p, 1) \in Nat /\ End(p, 1) = From(p, 1) + Size(p, 1) - 1
          BY <1>1, <2>5, PackageFields DEF End
        <5>4. offset' \in Nat /\ offset' < Size(p, 1) /\ From(p, 1) + offset' - 1 = w + n
          <6>1. offset < Size(p, 1) /\ From(p, 1) + offset - 1 = w
            BY <2>5
          <6>2. offset + n \in Nat /\ From(p, 1) + (offset + n) - 1 = w + n
            BY <2>8, <5>3, <6>1
          <6>3. offset + n < Size(p, 1)
            BY <2>8, <5>2, <5>3, <6>1
          <6> QED BY <5>1, <6>2, <6>3
        <5> QED BY <4>3, <5>4
      <4>4. CASE k # 0
        <5>1. k \in 1 .. Len(p) /\ k \in 1 .. Len(p) - 1
          BY <3>4, <4>4
        <5>2. Upto(p, k) = End(p, k) - w
          BY <1>1, <5>1, UptoHeld
        <5>3. offset' = n - Upto(p, k) /\ End(p, k) <= w + n
          BY <3>3, <3>4, <4>4
        <5>4. From(p, k + 1) = From(p, k) + Size(p, k)
          BY <2>5, <5>1 DEF Chained
        <5>5. From(p, k) \in Nat /\ Size(p, k) \in Nat /\ End(p, k) \in Nat
              /\ End(p, k) = From(p, k) + Size(p, k) - 1
          BY <1>1, <5>1, PackageFields DEF End
        <5>6. End(p, k + 1) = From(p, k + 1) + Size(p, k + 1) - 1
          BY DEF End
        <5>7. offset' = w + n - End(p, k)
          BY <1>1, <2>8, <5>2, <5>3, <5>5
        <5>8. From(p, k + 1) - 1 = End(p, k)
          BY <5>4, <5>5
        <5>9. w + n - End(p, k) \in Nat /\ From(p, k + 1) + (w + n - End(p, k)) - 1 = w + n
          <6>1. w + n - End(p, k) \in Nat
            BY <1>5, <2>8, <5>3, <5>5
          <6>2. From(p, k + 1) = End(p, k) + 1
            BY <4>2, <5>5, <5>8
          <6>3. End(p, k) + 1 + (w + n - End(p, k)) - 1 = w + n
            BY <1>5, <2>8, <5>5
          <6> QED BY <6>1, <6>2, <6>3
        <5>10. w + n - End(p, k) < Size(p, k + 1)
          <6>1. w + n < From(p, k + 1) + Size(p, k + 1) - 1
            BY <3>4, <5>6
          <6> QED BY <1>5, <2>8, <4>2, <5>5, <5>8, <6>1
        <5> QED BY <5>7, <5>9, <5>10
      <4> QED BY <4>3, <4>4
    <3>8. Holds(Items(ring'), offset', w + n, t)
      <4>1. Holds(SubSeq(p, k + 1, Len(p)), offset', From(p, k + 1) + offset' - 1, End(p, Len(p)))
        BY <1>1, <2>1, <2>5, <3>4, <3>7, DropHolds
      <4> QED BY <2>5, <3>6, <3>7, <4>1
    <3>9. k \in 0 .. Len(p)
      BY <3>4
    <3>10. wire' = Run(0, Len(wire')) /\ Len(wire') \in w .. t /\ bytes' = t - Len(wire')
      BY <1>5, <2>8, <2>9, <3>5
    <3>11. Holds(Items(ring'), offset', Len(wire'), t) /\ offset' \in Nat
      BY <2>9, <3>7, <3>8
    <3>12. \E j \in 0 .. Len(p) : Items(ring') = SubSeq(p, j + 1, Len(p))
      BY <3>6, <3>9
    <3>13. armed \/ Len(p) <= 1 => (bytes' > 0 => armed')
      BY <3>1
    <3> QED BY <3>1, <3>6, <3>10, <3>11, <3>12, <3>13
  <2> QED BY <2>10, <2>11
<1> QED BY <1>2, <1>3

----------------------------------------------------------------------------
(* The invariant *)

\* The invariant holds at the start.
LEMMA TsInitHolds == TsInit => TsIInv
<1> SUFFICES ASSUME TsInit PROVE TsIInv
  OBVIOUS
<1>1. IsRing(ring) /\ q = <<>>
  BY NewIsEmpty DEF TsInit, RqInit, q
<1>2. /\ offset = 0 /\ bytes = 0 /\ writing = FALSE /\ armed \in BOOLEAN
      /\ total = 0 /\ wire = <<>>
  BY DEF TsInit
<1>3. Len(wire) = 0 /\ wire = Run(0, 0)
  BY <1>2 DEF Run
<1>4. Holds(q, offset, Len(wire), total)
  BY <1>1, <1>2, <1>3 DEF Holds, Chained
<1>5. 0 \in 0 .. MaxQueued /\ 0 \in 0 .. MaxTotal /\ Len(wire) \in 0 .. total
      /\ bytes = total - Len(wire) /\ ~(bytes > 0)
  <2>1. 0 \in 0 .. MaxQueued /\ 0 \in 0 .. MaxTotal
    BY BoundsAssumption
  <2> DEFINE w == Len(wire)
  <2>2. w = 0 /\ total = 0 /\ bytes = 0
    BY <1>2, <1>3
  <2> HIDE DEF w
  <2>3. w \in 0 .. total /\ bytes = total - w /\ ~(bytes > 0)
    BY <2>2
  <2> QED BY <2>1, <2>3 DEF w
<1>6. wire = Run(0, Len(wire))
  BY <1>3
<1> QED BY <1>1, <1>2, <1>4, <1>5, <1>6 DEF TsIInv, NoStall

\* A write of the packages r that hold the bytes up to t keeps it, when t is
\* then the number of bytes sent.
LEMMA WriteHolds ==
  ASSUME MaxQueued <= MaxBufLen, NEW r, IsRing(r), offset \in Nat, NEW t \in 0 .. MaxTotal,
         Len(wire) \in 0 .. t, wire = Run(0, Len(wire)),
         Holds(Items(r), offset, Len(wire), t),
         NEW b \in 0 .. MaxQueued, b = t - Len(wire), b = 0 => r = ring /\ bytes = 0,
         armed \in BOOLEAN, armed \/ Len(Items(r)) <= 1, Write(r, b), total' = t
  PROVE  /\ TsIInv'
         /\ \E k \in 0 .. Len(Items(r)) : q' = SubSeq(Items(r), k + 1, Len(Items(r)))
<1>1. b <= MaxBufLen
  BY BoundsAssumption, LimitsAssumption
<1>2. /\ IsRing(ring')
      /\ \E k \in 0 .. Len(Items(r)) : Items(ring') = SubSeq(Items(r), k + 1, Len(Items(r)))
      /\ offset' \in Nat
      /\ Len(wire') \in Len(wire) .. t
      /\ wire' = Run(0, Len(wire'))
      /\ Holds(Items(ring'), offset', Len(wire'), t)
      /\ bytes' = t - Len(wire')
      /\ writing' \in BOOLEAN /\ armed' \in BOOLEAN
      /\ writing' => armed'
      /\ armed \/ Len(Items(r)) <= 1 => (bytes' > 0 => armed')
  BY <1>1, WriteKeeps
<1>3. bytes' \in 0 .. MaxQueued /\ Len(wire') \in 0 .. t /\ t \in 0 .. MaxTotal
  BY <1>2, BoundsAssumption
<1>4. IsRing(ring)' /\ q' = Items(ring') /\ Holds(q, offset, Len(wire), total)'
      /\ (wire = Run(0, Len(wire)))'
  BY <1>2 DEF IsRing, Holds, Items, q, Run, End, From, Size, Chained, Arrays, Count, Place
<1>5. NoStall'
  BY <1>2 DEF NoStall
<1> QED BY <1>2, <1>3, <1>4, <1>5 DEF TsIInv

\* A write when EPOLLOUT comes keeps it.
LEMMA EpollOutHolds ==
  ASSUME MaxQueued <= MaxBufLen, TsIInv, EpollOut
  PROVE  /\ TsIInv'
         /\ \E k \in 0 .. Len(q) : q' = SubSeq(q, k + 1, Len(q))
<1>1. /\ IsRing(ring) /\ offset \in Nat /\ bytes \in 0 .. MaxQueued
      /\ total \in 0 .. MaxTotal /\ Len(wire) \in 0 .. total /\ wire = Run(0, Len(wire))
      /\ bytes = total - Len(wire) /\ Holds(Items(ring), offset, Len(wire), total)
  BY DEF TsIInv, q
<1>2. armed = TRUE /\ Write(ring, bytes) /\ total' = total
  BY DEF EpollOut, TsIInv
<1> QED BY <1>1, <1>2, WriteHolds DEF q

\* Send keeps it, and the package goes behind those in the queue, of which any
\* number of the first leave.
LEMMA SendHolds ==
  ASSUME MaxQueued <= MaxBufLen, TsIInv, NEW len \in Sizes, Send(len)
  PROVE  /\ TsIInv'
         /\ \E e \in Elements : \E k \in 0 .. Len(q) + 1 :
              q' = SubSeq(Append(q, e), k + 1, Len(Append(q, e)))
<1> DEFINE e == [from |-> total + 1, len |-> len]
           r == Pushed(ring, e)
           t == total + len
<1>1. /\ IsRing(ring) /\ offset \in Nat /\ bytes \in 0 .. MaxQueued
      /\ writing \in BOOLEAN /\ armed \in BOOLEAN
      /\ total \in 0 .. MaxTotal /\ Len(wire) \in 0 .. total /\ wire = Run(0, Len(wire))
      /\ bytes = total - Len(wire) /\ Holds(q, offset, Len(wire), total)
      /\ (writing => armed) /\ NoStall
  BY DEF TsIInv
<1>2. /\ bytes + len <= MaxQueued /\ t <= MaxTotal /\ total' = t
      /\ IF writing
         THEN ring' = r /\ bytes' = bytes + len /\ UNCHANGED <<offset, writing, armed, wire>>
         ELSE Write(r, bytes + len)
  BY DEF Send
<1>3. len \in Nat \ {0} /\ total \in Nat /\ Len(wire) \in Nat
  BY <1>1, SizesAssumption, BoundsAssumption
<1>4. q \in Seq(Packages) /\ Len(q) = Count(ring)
  BY <1>1, ItemsAreElements, ElementsAssumption DEF q
<1>5. Len(q) <= bytes
  BY <1>1, <1>3, <1>4, HeldBytes
<1> HIDE DEF e
<1>6. /\ e \in Packages /\ Append(q, e) \in Seq(Packages) /\ Len(Append(q, e)) = Len(q) + 1
      /\ Holds(Append(q, e), offset, Len(wire), t)
  BY <1>1, <1>2, <1>3, <1>4, PushHolds DEF e
<1>7. IsRing(r) /\ Items(r) = Append(q, e)
  <2>1. Count(ring) < MaxQueued
    BY <1>1, <1>2, <1>3, <1>4, <1>5, BoundsAssumption
  <2> QED BY <1>1, <1>6, <2>1, PushAppends, ElementsAssumption DEF q
<1> HIDE DEF r
<1>8. /\ t \in 0 .. MaxTotal /\ Len(wire) \in 0 .. t
      /\ bytes + len \in 0 .. MaxQueued /\ bytes + len = t - Len(wire) /\ bytes + len # 0
  BY <1>1, <1>2, <1>3, BoundsAssumption
<1> HIDE DEF t
<1>9. CASE writing
  <2>1. /\ ring' = r /\ bytes' = bytes + len /\ offset' = offset /\ writing' = writing
        /\ armed' = armed /\ wire' = wire
    BY <1>2, <1>9
  <2>2. IsRing(ring)' /\ q' = Append(q, e) /\ Holds(q, offset, Len(wire), total)'
    BY <1>2, <1>6, <1>7, <2>1
       DEF IsRing, Holds, Items, q, Run, End, From, Size, Chained, Arrays, Count, Place
  <2>3. NoStall'
    BY <1>1, <1>9, <2>1 DEF NoStall
  <2>4. TsIInv'
    BY <1>1, <1>2, <1>8, <2>1, <2>2, <2>3 DEF TsIInv, Run
  <2>5. Append(q, e) = SubSeq(Append(q, e), 0 + 1, Len(Append(q, e))) /\ 0 \in 0 .. Len(q) + 1
    BY <1>4, <1>6, SubSeqFull
  <2> QED BY <1>6, <2>2, <2>4, <2>5, ElementsAssumption
<1>10. CASE ~writing
  <2>1. Write(r, bytes + len)
    BY <1>2, <1>10
  <2>2. armed \/ Len(Items(r)) <= 1
    <3> SUFFICES ASSUME ~armed PROVE Len(Items(r)) <= 1
      OBVIOUS
    <3>1. bytes = 0
      BY <1>1 DEF NoStall
    <3>2. Len(q) = 0
      BY <1>4, <1>5, <3>1
    <3> QED BY <1>6, <1>7, <3>2
  <2>3. /\ TsIInv'
        /\ \E k \in 0 .. Len(Items(r)) : q' = SubSeq(Items(r), k + 1, Len(Items(r)))
    BY <1>1, <1>2, <1>6, <1>7, <1>8, <2>1, <2>2, WriteHolds
  <2> QED BY <1>6, <1>7, <2>3, ElementsAssumption
<1> QED BY <1>1, <1>9, <1>10

\* Every step keeps it, and is a step of Fifo or none.
LEMMA TsStepHolds ==
  ASSUME MaxQueued <= MaxBufLen, TsIInv, [TsNext]_tsVars
  PROVE  TsIInv' /\ [RqFifo!FifoNext]_(Items(ring))
<1>1. CASE EpollOut
  <2>1. TsIInv' /\ \E k \in 0 .. Len(q) : q' = SubSeq(q, k + 1, Len(q))
    BY <1>1, EpollOutHolds
  <2>2. PICK k \in 0 .. Len(q) : q' = SubSeq(q, k + 1, Len(q))
    BY <2>1
  <2>3. q \in Seq(Elements) /\ Len(q) \in Nat
    BY ItemsAreElements DEF TsIInv, q
  <2>4. CASE k = 0
    <3>1. q' = q
      BY <2>2, <2>3, <2>4, SubSeqFull
    <3> QED BY <2>1, <3>1 DEF q
  <2>5. CASE k # 0
    <3>1. k \in 1 .. Len(q)
      BY <2>3, <2>5
    <3> QED BY <2>1, <2>2, <3>1 DEF RqFifo!FifoNext, RqFifo!Leave, RqFifo!Without, q
  <2> QED BY <2>4, <2>5
<1>2. ASSUME NEW len \in Sizes, Send(len)
      PROVE  TsIInv' /\ [RqFifo!FifoNext]_(Items(ring))
  <2>1. /\ TsIInv'
        /\ \E e \in Elements : \E k \in 0 .. Len(q) + 1 :
             q' = SubSeq(Append(q, e), k + 1, Len(Append(q, e)))
    BY <1>2, SendHolds
  <2> QED BY <2>1 DEF RqFifo!FifoNext, RqFifo!Join, RqFifo!Without, q
<1>3. CASE UNCHANGED tsVars
  <2>1. /\ ring' = ring /\ offset' = offset /\ bytes' = bytes /\ writing' = writing
        /\ armed' = armed /\ total' = total /\ wire' = wire
    BY <1>3 DEF tsVars
  <2>2. /\ IsRing(ring)' = IsRing(ring) /\ q' = q /\ Items(ring)' = Items(ring)
    BY <2>1 DEF IsRing, Items, q, Arrays, Count, Place
  <2>3. /\ Holds(q, offset, Len(wire), total)' = Holds(q, offset, Len(wire), total)
        /\ (wire = Run(0, Len(wire)))' = (wire = Run(0, Len(wire)))
    BY <2>1, <2>2 DEF Holds, Run, End, From, Size, Chained
  <2>4. TsIInv'
    BY <2>1, <2>2, <2>3 DEF TsIInv, NoStall
  <2> QED BY <2>2, <2>4
<1> QED BY <1>1, <1>2, <1>3 DEF TsNext

----------------------------------------------------------------------------
(* The theorems *)

\* The inductive invariant, as long as no more is queued than one Write sends.
THEOREM TcpSendInvariant == MaxQueued <= MaxBufLen => (TsSpec => []TsIInv)
<1> SUFFICES ASSUME MaxQueued <= MaxBufLen PROVE TsSpec => []TsIInv
  OBVIOUS
<1>1. TsIInv /\ [TsNext]_tsVars => TsIInv'
  BY TsStepHolds
<1> QED BY <1>1, TsInitHolds, PTL DEF TsSpec

\* The types of the state: the ring is well formed, and bytes and offset never
\* go below 0 ( DataQueue has them as unsigned numbers ).
THEOREM TcpSendTypeCorrect == MaxQueued <= MaxBufLen => (TsSpec => []TsTypeOK)
<1>1. TsIInv => TsTypeOK
  <2> SUFFICES ASSUME TsIInv PROVE TsTypeOK
    OBVIOUS
  <2>1. RqTypeOK
    BY TypeIsRing DEF TsIInv
  <2>2. wire \in Seq(1 .. MaxTotal)
    <3> DEFINE w == Len(wire)
    <3>1. total \in 0 .. MaxTotal /\ w \in 0 .. total /\ wire = Run(0, w)
      BY DEF TsIInv
    <3> HIDE DEF w
    <3>2. w \in Nat /\ w - 0 = w /\ \A i \in 1 .. w : 0 + i \in 1 .. MaxTotal
      BY <3>1, BoundsAssumption
    <3>3. Run(0, w) = [i \in 1 .. w |-> 0 + i]
      BY <3>2 DEF Run
    <3>4. Run(0, w) \in [1 .. w -> 1 .. MaxTotal]
      BY <3>2, <3>3
    <3>5. [1 .. w -> 1 .. MaxTotal] \subseteq Seq(1 .. MaxTotal)
      BY <3>2, SeqDef
    <3> QED BY <3>1, <3>4, <3>5
  <2> QED BY <2>1, <2>2 DEF TsIInv, TsTypeOK
<1> QED BY <1>1, TcpSendInvariant, PTL

\* What the socket took and what is queued are together the stream that was
\* sent, whatever part of each write the socket takes.
THEOREM NoByteIsLost == MaxQueued <= MaxBufLen => (TsSpec => []StreamKept)
<1>1. TsIInv => StreamKept
  <2> SUFFICES ASSUME TsIInv PROVE StreamKept
    OBVIOUS
  <2> DEFINE w == Len(wire)
             p == q
  <2>1. /\ total \in Nat /\ w \in 0 .. total /\ w \in Nat /\ wire = Run(0, w) /\ offset \in Nat
        /\ IsRing(ring) /\ Holds(p, offset, w, total)
    BY BoundsAssumption DEF TsIInv
  <2>2. p \in Seq(Packages)
    BY <2>1, ItemsAreElements, ElementsAssumption DEF q
  <2>3. Queued = Bytes(p, offset, Len(p))
    BY DEF Queued, Bytes
  <2> HIDE DEF w, p
  <2>4. Run(0, total) = [i \in 1 .. total |-> i]
    <3>1. total - 0 = total /\ \A i \in 1 .. total : 0 + i = i
      BY <2>1
    <3> QED BY <3>1 DEF Run
  <2>5. Queued = Run(w, total)
    <3>1. CASE p = <<>>
      <4>1. w = total /\ Len(p) = 0
        BY <2>1, <3>1 DEF Holds
      <4>2. Bytes(p, offset, 0) = <<>>
        BY DEF Bytes, FlattenSeq
      <4>3. Run(total, total) = <<>>
        BY <2>1 DEF Run
      <4> QED BY <2>3, <4>1, <4>2, <4>3
    <3>2. CASE p # <<>>
      <4>1. Chained(p) /\ Len(p) \in 1 .. Len(p) /\ offset < Size(p, 1)
            /\ From(p, 1) + offset - 1 = w /\ End(p, Len(p)) = total
        BY <2>1, <2>2, <3>2, HeldBytes DEF Holds
      <4>2. Bytes(p, offset, Len(p)) = Run(From(p, 1) + offset - 1, End(p, Len(p)))
        BY <2>1, <2>2, <4>1, BytesAreRun
      <4> QED BY <2>3, <4>1, <4>2
    <3> QED BY <3>1, <3>2
  <2>6. Run(0, w) \o Run(w, total) = Run(0, total)
    <3>1. 0 <= w /\ w <= total
      BY <2>1
    <3> QED BY <2>1, <3>1, RunConcat
  <2> QED BY <2>1, <2>4, <2>5, <2>6 DEF StreamKept
<1> QED BY <1>1, TcpSendInvariant, PTL

\* The count of bytes is what is queued, and the offset is inside the first
\* package: "bytes = sum( bufs.len ) - offset" of data_queue.h.
THEOREM TheCountIsRight == MaxQueued <= MaxBufLen => (TsSpec => []BytesAgree)
<1>1. TsIInv => BytesAgree
  <2> SUFFICES ASSUME TsIInv PROVE BytesAgree
    OBVIOUS
  <2> DEFINE w == Len(wire)
             p == q
  <2>1. /\ total \in Nat /\ w \in Nat /\ offset \in Nat /\ bytes = total - w
        /\ IsRing(ring) /\ Holds(p, offset, w, total)
    BY BoundsAssumption DEF TsIInv
  <2>2. p \in Seq(Packages)
    BY <2>1, ItemsAreElements, ElementsAssumption DEF q
  <2> SUFFICES bytes = Upto(p, Len(p)) /\ IF p = <<>> THEN offset = 0 ELSE offset < Size(p, 1)
    BY DEF BytesAgree, Size
  <2> HIDE DEF w, p
  <2>3. CASE p = <<>>
    <3>1. offset = 0 /\ w = total /\ Len(p) = 0 /\ 0 \in 0 .. Len(p) /\ Chained(p)
      BY <2>1, <2>3 DEF Holds
    <3>2. Upto(p, 0) = 0 - offset
      BY <2>1, <2>2, <3>1, UptoIsEnd
    <3> QED BY <2>1, <2>3, <3>1, <3>2
  <2>4. CASE p # <<>>
    <3>1. Len(p) \in 1 .. Len(p) /\ offset < Size(p, 1) /\ End(p, Len(p)) = total
      BY <2>1, <2>2, <2>4, HeldBytes
    <3>2. Upto(p, Len(p)) = End(p, Len(p)) - w
      BY <2>1, <2>2, <3>1, UptoHeld
    <3> QED BY <2>1, <2>4, <3>1, <3>2
  <2> QED BY <2>3, <2>4
<1> QED BY <1>1, TcpSendInvariant, PTL

\* As long as bytes are queued EPOLLOUT is registered.
THEOREM SendingNeverStalls == MaxQueued <= MaxBufLen => (TsSpec => []NoStall)
<1>1. TsIInv => NoStall
  BY DEF TsIInv
<1> QED BY <1>1, TcpSendInvariant, PTL

\* The packages go through sendQueue as through a queue: they join at the back
\* and leave at the front.
THEOREM PackagesAreFifo == MaxQueued <= MaxBufLen => (TsSpec => FifoKept)
<1> SUFFICES ASSUME MaxQueued <= MaxBufLen PROVE TsSpec => FifoKept
  OBVIOUS
<1>1. TsInit => RqFifo!FifoInit
  BY NewIsEmpty DEF TsInit, RqInit, RqFifo!FifoInit
<1>2. TsIInv /\ [TsNext]_tsVars => [RqFifo!FifoNext]_(Items(ring))
  BY TsStepHolds
<1>3. TsSpec => []TsIInv
  BY TcpSendInvariant
<1> QED BY <1>1, <1>2, <1>3, PTL DEF TsSpec, FifoKept, RqFifo!FifoSpec

=============================================================================
