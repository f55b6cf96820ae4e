---------------------- MODULE BroadcastMessages_proofs ----------------------
(***************************************************************************)
(* Proofs about BroadcastMessages: one call of broadcast_messages stays    *)
(* within the byte limit, and no broadcast is handed out more often than   *)
(* the retransmit limit.  The recursive functions of the model (prefix     *)
(* sums, the greedy scan of a queue, the filter of spent broadcasts) are   *)
(* first unfolded into their defining equations, then reasoned about by    *)
(* induction over the index with the lemmas of BoundedRecursion.           *)
(***************************************************************************)
EXTENDS BroadcastMessages, BoundedRecursion, TLAPS

-----------------------------------------------------------------------------
\* p holds the running totals of the weights w along s.
IsPrefixSums(p, s, w) ==
  /\ p \in [0 .. Len(s) -> Nat]
  /\ p[0] = 0
  /\ \A i \in 1 .. Len(s) : p[i] = p[i - 1] + w[s[i]]

(* Prefix sums satisfy their recursive definition and are natural numbers. *)
LEMMA PrefixSumsDef ==
  ASSUME NEW D, NEW s \in Seq(D), NEW w \in [D -> Nat]
  PROVE  IsPrefixSums(PrefixSums(s, w), s, w)
<1> DEFINE N == Len(s)
           Body(f) == [i \in 0 .. N |-> IF i = 0 THEN 0 ELSE f[i - 1] + w[s[i]]]
           G == [i \in 1 .. N |-> [x \in Nat |-> x + w[s[i]]]]
           ps == PrefixSums(s, w)
<1>1. G \in [1 .. N -> [Nat -> Nat]] /\ N \in Nat
  OBVIOUS
<1> HIDE DEF G
<1>2. PICK g \in [0 .. N -> Nat] : Follows(g, 0, N, G)
  BY <1>1, RecursionExists
<1>3. ASSUME NEW i \in 1 .. N PROVE g[i] = g[i - 1] + w[s[i]]
  <2>1. i - 1 \in 0 .. N
    OBVIOUS
  <2>2. g[i - 1] \in Nat
    BY <1>2, <2>1, Zenon
  <2> QED
    BY <1>2, <2>2 DEF G, Follows
<1>4. g = Body(g)
  BY <1>2, <1>3 DEF Follows
<1>5. ps = Body(ps)
  BY <1>4 DEF PrefixSums
<1> DEFINE Agree == {i \in Nat : ps[i] = g[i]}
<1>6. 0 .. N \subseteq Agree
  <2>1. 0 \in Agree
    BY <1>2, <1>5 DEF Follows
  <2>2. \A i \in Nat : i \in Agree /\ i < N => i + 1 \in Agree
    BY <1>3, <1>5
  <2> HIDE DEF Agree, N
  <2> QED
    BY <1>1, <2>1, <2>2, BoundedInduction
<1>7. ps = g
  <2>2. \A i \in 0 .. N : ps[i] = g[i]
    BY <1>6
  <2>3. ps = [i \in 0 .. N |-> ps[i]]
    BY <1>5, Zenon
  <2>4. g = [i \in 0 .. N |-> g[i]]
    BY <1>2
  <2> QED
    BY <2>2, <2>3, <2>4
<1> QED
  BY <1>2, <1>3, <1>7 DEF Follows, IsPrefixSums

(* The sum of a concatenation is the sum of its parts.                     *)
LEMMA SumWConcat ==
  ASSUME NEW D, NEW s \in Seq(D), NEW t \in Seq(D), NEW w \in [D -> Nat]
  PROVE  /\ SumW(s \o t, w) = SumW(s, w) + SumW(t, w)
         /\ SumW(s, w) \in Nat
<1> DEFINE u == s \o t
           L == Len(s)
           M == Len(t)
           pu == PrefixSums(u, w)
           pss == PrefixSums(s, w)
           pt == PrefixSums(t, w)
<1>1. /\ u \in Seq(D) /\ Len(u) = L + M /\ L \in Nat /\ M \in Nat
      /\ \A i \in 1 .. L : u[i] = s[i]
      /\ \A j \in 1 .. M : u[L + j] = t[j]
      /\ \A i \in 1 .. L : s[i] \in D
      /\ \A j \in 1 .. M : t[j] \in D
  OBVIOUS
<1> HIDE DEF u, L, M
<1>2. /\ pu \in [0 .. L + M -> Nat] /\ pu[0] = 0
      /\ \A i \in 1 .. L + M : pu[i] = pu[i - 1] + w[u[i]]
  <2>1. IsPrefixSums(pu, u, w)
    BY <1>1, PrefixSumsDef
  <2> QED
    BY <1>1, <2>1 DEF IsPrefixSums
<1>3. /\ pss \in [0 .. L -> Nat] /\ pss[0] = 0
      /\ \A i \in 1 .. L : pss[i] = pss[i - 1] + w[s[i]]
  <2>1. IsPrefixSums(pss, s, w)
    BY PrefixSumsDef
  <2> QED
    BY <2>1 DEF IsPrefixSums, L
<1>4. /\ pt \in [0 .. M -> Nat] /\ pt[0] = 0
      /\ \A i \in 1 .. M : pt[i] = pt[i - 1] + w[t[i]]
  <2>1. IsPrefixSums(pt, t, w)
    BY PrefixSumsDef
  <2> QED
    BY <2>1 DEF IsPrefixSums, M
<1> HIDE DEF pu, pss, pt
<1> DEFINE Front == {i \in Nat : pu[i] = pss[i]}
           Back == {j \in Nat : pu[L + j] = pss[L] + pt[j]}
<1>5. 0 .. L \subseteq Front
  <2>1. 0 \in Front
    BY <1>2, <1>3
  <2>2. \A i \in Nat : i \in Front /\ i < L => i + 1 \in Front
    <3> SUFFICES ASSUME NEW i \in Nat, i \in Front, i < L PROVE i + 1 \in Front
      OBVIOUS
    <3>1. i + 1 \in 1 .. L /\ i + 1 \in 1 .. L + M /\ i \in 0 .. L /\ i \in 0 .. L + M
      BY <1>1
    <3>2. w[s[i + 1]] \in Nat /\ pu[i] \in Nat /\ pss[i] \in Nat
      BY <1>1, <1>2, <1>3, <3>1
    <3>3. pu[i + 1] = pu[i] + w[s[i + 1]]
      <4>1. pu[i + 1] = pu[i + 1 - 1] + w[u[i + 1]]
        BY <1>2, <3>1
      <4>2. u[i + 1] = s[i + 1] /\ i + 1 - 1 = i
        BY <1>1, <3>1
      <4> QED
        BY <4>1, <4>2
    <3>4. pss[i + 1] = pss[i] + w[s[i + 1]]
      BY <1>3, <3>1
    <3>5. pu[i] = pss[i]
      OBVIOUS
    <3> QED
      BY <3>2, <3>3, <3>4, <3>5
  <2> HIDE DEF Front
  <2> QED
    BY <1>1, <2>1, <2>2, BoundedInduction
<1>6. 0 .. M \subseteq Back
  <2>1. 0 \in Back
    <3>1. L \in 0 .. L /\ L + 0 = L
      BY <1>1
    <3>2. pu[L] = pss[L] /\ pss[L] \in Nat
      BY <1>3, <1>5, <3>1
    <3> QED
      BY <1>4, <3>1, <3>2
  <2>2. \A j \in Nat : j \in Back /\ j < M => j + 1 \in Back
    <3> SUFFICES ASSUME NEW j \in Nat, j \in Back, j < M PROVE j + 1 \in Back
      OBVIOUS
    <3>0. /\ L + j + 1 \in 1 .. L + M /\ j + 1 \in 1 .. M /\ L + (j + 1) = L + j + 1
          /\ L + j + 1 - 1 = L + j /\ L + j \in 0 .. L + M /\ j \in 0 .. M
          /\ L \in 0 .. L
      BY <1>1
    <3>1. w[t[j + 1]] \in Nat /\ pu[L + j] \in Nat /\ pss[L] \in Nat /\ pt[j] \in Nat
      BY <1>1, <1>2, <1>3, <1>4, <3>0
    <3>2. pu[L + j + 1] = pu[L + j] + w[t[j + 1]]
      <4>1. pu[L + j + 1] = pu[L + j + 1 - 1] + w[u[L + j + 1]]
        BY <1>2, <3>0
      <4>2. u[L + (j + 1)] = t[j + 1]
        BY <1>1, <3>0
      <4> QED
        BY <3>0, <4>1, <4>2
    <3>3. pt[j + 1] = pt[j] + w[t[j + 1]]
      BY <1>4, <3>0
    <3>4. pu[L + j] = pss[L] + pt[j]
      OBVIOUS
    <3>5. pu[L + (j + 1)] = pss[L] + pt[j + 1]
      <4>1. pu[L + (j + 1)] = pu[L + j + 1]
        BY <3>0, Zenon
      <4>2. pu[L + j + 1] = (pss[L] + pt[j]) + w[t[j + 1]]
        BY <3>2, <3>4, Zenon
      <4>3. (pss[L] + pt[j]) + w[t[j + 1]] = pss[L] + pt[j + 1]
        BY <3>1, <3>3
      <4> QED
        BY <4>1, <4>2, <4>3, Zenon
    <3> QED
      BY <3>5
  <2> HIDE DEF Back
  <2> QED
    BY <1>1, <2>1, <2>2, BoundedInduction
<1>7. pu[L + M] = pss[L] + pt[M]
  <2>1. M \in 0 .. M
    BY <1>1
  <2> QED
    BY <1>6, <2>1
<1>8. SumW(u, w) = pu[L + M] /\ SumW(s, w) = pss[L] /\ SumW(t, w) = pt[M]
  BY <1>1 DEF SumW, pu, pss, pt, L, M
<1>9. pss[L] \in Nat
  BY <1>1, <1>3
<1> QED
  BY <1>7, <1>8, <1>9 DEF u

\* One step of the walk of get_broadcasts over a queue.
ScanStep(a, e, limit) ==
  IF a.bytes + Framed[e.id] <= limit
    THEN [bytes |-> a.bytes + Framed[e.id], ids |-> Append(a.ids, e.id)]
    ELSE a

Acc == [bytes : Nat, ids : Seq(Ids)]

(* The charge of a broadcast is a natural number.                          *)
LEMMA FramedType == Framed \in [Ids -> Nat]
BY SizeAssumption, OverheadAssumption DEF Framed

\* sc is the walk of get_broadcasts over q, entry by entry.
IsScan(sc, q, limit) ==
  /\ sc \in [0 .. Len(q) -> Acc]
  /\ sc[0] = [bytes |-> 0, ids |-> << >>]
  /\ \A i \in 1 .. Len(q) : sc[i] = ScanStep(sc[i - 1], q[i], limit)

(* One step of the walk keeps a byte count and a sequence of broadcasts.   *)
LEMMA ScanStepType ==
  ASSUME NEW a \in Acc, NEW e \in Entry, NEW limit \in Int
  PROVE  ScanStep(a, e, limit) \in Acc
<1>1. e.id \in Ids /\ Framed[e.id] \in Nat /\ a.bytes \in Nat /\ a.ids \in Seq(Ids)
  BY FramedType DEF Entry, Acc
<1>2. CASE a.bytes + Framed[e.id] <= limit
  <2>1. [bytes |-> a.bytes + Framed[e.id], ids |-> Append(a.ids, e.id)] \in Acc
    BY <1>1 DEF Acc
  <2> QED
    BY <1>2, <2>1 DEF ScanStep
<1>3. CASE ~(a.bytes + Framed[e.id] <= limit)
  BY <1>3 DEF ScanStep
<1> QED
  BY <1>2, <1>3

(* The walk of get_broadcasts satisfies its recursive definition.          *)
LEMMA ScanDef ==
  ASSUME NEW q \in Seq(Entry), NEW limit \in Int
  PROVE  IsScan(Scan(q, limit), q, limit)
<1> DEFINE N == Len(q)
           a0 == [bytes |-> 0, ids |-> << >>]
           Body(f) == [i \in 0 .. N |->
                         IF i = 0 THEN a0
                         ELSE IF f[i - 1].bytes + Framed[q[i].id] <= limit
                           THEN [bytes |-> f[i - 1].bytes + Framed[q[i].id],
                                 ids |-> Append(f[i - 1].ids, q[i].id)]
                           ELSE f[i - 1]]
           G == [i \in 1 .. N |-> [a \in Acc |-> ScanStep(a, q[i], limit)]]
           sc == Scan(q, limit)
<1>1. G \in [1 .. N -> [Acc -> Acc]] /\ N \in Nat /\ a0 \in Acc
  <2>1. \A i \in 1 .. N : q[i] \in Entry
    OBVIOUS
  <2>2. a0 \in Acc
    BY DEF Acc
  <2> QED
    BY <2>1, <2>2, ScanStepType DEF G
<1> HIDE DEF G
<1>2. PICK g \in [0 .. N -> Acc] : Follows(g, a0, N, G)
  BY <1>1, RecursionExists
<1>3. ASSUME NEW i \in 1 .. N PROVE g[i] = ScanStep(g[i - 1], q[i], limit)
  <2>1. i - 1 \in 0 .. N
    OBVIOUS
  <2>2. g[i - 1] \in Acc
    BY <1>2, <2>1, Zenon
  <2> QED
    BY <1>2, <2>2 DEF G, Follows
<1>4. g = Body(g)
  <2>1. ASSUME NEW i \in 0 .. N PROVE g[i] = Body(g)[i]
    <3>1. CASE i = 0
      BY <1>2, <3>1 DEF Follows
    <3>2. CASE i # 0
      <4>1. i \in 1 .. N
        BY <3>2
      <4>2. Body(g)[i] = ScanStep(g[i - 1], q[i], limit)
        BY <4>1 DEF ScanStep
      <4> QED
        BY <1>3, <4>1, <4>2
    <3> QED
      BY <3>1, <3>2
  <2> QED
    BY <1>2, <2>1 DEF Follows
<1>5. sc = Body(sc)
  BY <1>4 DEF Scan
<1>5a. ASSUME NEW i \in 1 .. N PROVE sc[i] = ScanStep(sc[i - 1], q[i], limit)
  <2> HIDE DEF sc
  <2>1. sc[i] = Body(sc)[i]
    BY <1>5, Zenon
  <2>2. Body(sc)[i] = ScanStep(sc[i - 1], q[i], limit)
    BY DEF ScanStep
  <2> QED
    BY <2>1, <2>2
<1> DEFINE Agree == {i \in Nat : sc[i] = g[i]}
<1>6. 0 .. N \subseteq Agree
  <2>1. 0 \in Agree
    BY <1>2, <1>5 DEF Follows
  <2>2. \A i \in Nat : i \in Agree /\ i < N => i + 1 \in Agree
    <3> SUFFICES ASSUME NEW i \in Nat, sc[i] = g[i], i < N
                 PROVE  sc[i + 1] = g[i + 1]
      OBVIOUS
    <3>1. i + 1 \in 1 .. N /\ i + 1 - 1 = i
      OBVIOUS
    <3> HIDE DEF sc
    <3> QED
      BY <1>3, <1>5a, <3>1
  <2> HIDE DEF Agree, N
  <2> QED
    BY <1>1, <2>1, <2>2, BoundedInduction
<1>7. sc = g
  <2>2. \A i \in 0 .. N : sc[i] = g[i]
    BY <1>6
  <2>3. sc = [i \in 0 .. N |-> sc[i]]
    BY <1>5, Zenon
  <2>4. g = [i \in 0 .. N |-> g[i]]
    BY <1>2
  <2> QED
    BY <2>2, <2>3, <2>4
<1> QED
  BY <1>2, <1>3, <1>7 DEF Follows, IsScan
(* The empty sequence weighs nothing.                                      *)
LEMMA SumWEmpty ==
  ASSUME NEW D, NEW w \in [D -> Nat]
  PROVE  SumW(<< >>, w) = 0
<1>0. << >> \in Seq(D)
  OBVIOUS
<1>1. IsPrefixSums(PrefixSums(<< >>, w), << >>, w)
  BY <1>0, PrefixSumsDef
<1> QED
  BY <1>1 DEF IsPrefixSums, SumW

(* Appending x adds its weight, and a weight is a natural number.          *)
LEMMA SumWAppend ==
  ASSUME NEW D, NEW s \in Seq(D), NEW x \in D, NEW w \in [D -> Nat]
  PROVE  /\ SumW(Append(s, x), w) = SumW(s, w) + w[x]
         /\ SumW(s, w) \in Nat
<1>1. SumW(<< x >>, w) = w[x]
  <2>0. << x >> \in Seq(D)
    OBVIOUS
  <2>1. IsPrefixSums(PrefixSums(<< x >>, w), << x >>, w)
    BY <2>0, PrefixSumsDef
  <2>2. /\ PrefixSums(<< x >>, w)[0] = 0
        /\ PrefixSums(<< x >>, w)[1] = PrefixSums(<< x >>, w)[0] + w[x]
    BY <2>1 DEF IsPrefixSums
  <2> QED
    BY <2>2 DEF SumW
<1>2. Append(s, x) = s \o << x >> /\ << x >> \in Seq(D)
  OBVIOUS
<1>3. /\ SumW(s \o << x >>, w) = SumW(s, w) + SumW(<< x >>, w)
      /\ SumW(s, w) \in Nat
  BY <1>2, SumWConcat
<1> QED
  BY <1>1, <1>2, <1>3

(* get_broadcasts hands out broadcasts whose framed lengths total at most  *)
(* the limit it was given.                                                 *)
LEMMA PickedWithinLimit ==
  ASSUME NEW q \in Seq(Entry), NEW limit \in Nat
  PROVE  /\ Picked(q, limit) \in Seq(Ids)
         /\ SumW(Picked(q, limit), Framed) <= limit
<1> DEFINE sc == Scan(q, limit)
           N == Len(q)
           P == {i \in Nat : sc[i].bytes = SumW(sc[i].ids, Framed)
                             /\ sc[i].bytes <= limit}
<1>1. IsScan(sc, q, limit) /\ N \in Nat
  BY ScanDef
<1> HIDE DEF sc, N
<1>2. /\ sc \in [0 .. N -> Acc] /\ sc[0] = [bytes |-> 0, ids |-> << >>]
      /\ \A i \in 1 .. N : sc[i] = ScanStep(sc[i - 1], q[i], limit)
  BY <1>1 DEF IsScan, N
<1>3. 0 \in P
  BY <1>2, FramedType, SumWEmpty
<1>4. \A i \in Nat : i \in P /\ i < N => i + 1 \in P
  <2> SUFFICES ASSUME NEW i \in Nat, i \in P, i < N PROVE i + 1 \in P
    OBVIOUS
  <2>1. i + 1 \in 1 .. N /\ i \in 0 .. N /\ i + 1 - 1 = i /\ q[i + 1] \in Entry
    BY <1>1 DEF N
  <2>2. /\ sc[i] \in Acc /\ sc[i + 1] = ScanStep(sc[i], q[i + 1], limit)
        /\ sc[i].bytes = SumW(sc[i].ids, Framed) /\ sc[i].bytes <= limit
    BY <1>2, <2>1
  <2>3. /\ sc[i].bytes \in Nat /\ sc[i].ids \in Seq(Ids)
        /\ q[i + 1].id \in Ids /\ Framed[q[i + 1].id] \in Nat
    BY <2>1, <2>2, FramedType DEF Acc, Entry
  <2>4. CASE sc[i].bytes + Framed[q[i + 1].id] <= limit
    <3>1. sc[i + 1] = [bytes |-> sc[i].bytes + Framed[q[i + 1].id],
                       ids |-> Append(sc[i].ids, q[i + 1].id)]
      BY <2>2, <2>4 DEF ScanStep
    <3>2. SumW(Append(sc[i].ids, q[i + 1].id), Framed)
            = SumW(sc[i].ids, Framed) + Framed[q[i + 1].id]
      BY <2>3, FramedType, SumWAppend
    <3>3. /\ sc[i + 1].bytes = sc[i].bytes + Framed[q[i + 1].id]
          /\ sc[i + 1].ids = Append(sc[i].ids, q[i + 1].id)
      BY <3>1
    <3>4. SumW(sc[i + 1].ids, Framed) = SumW(Append(sc[i].ids, q[i + 1].id), Framed)
      BY <3>3, Zenon
    <3>5. /\ sc[i + 1].bytes = SumW(sc[i + 1].ids, Framed)
          /\ sc[i + 1].bytes <= limit
      BY <2>2, <2>3, <2>4, <3>2, <3>3, <3>4
    <3> QED
      BY <3>5
  <2>5. CASE ~(sc[i].bytes + Framed[q[i + 1].id] <= limit)
    <3>1. sc[i + 1] = sc[i]
      BY <2>2, <2>5 DEF ScanStep
    <3> QED
      BY <2>2, <3>1
  <2> QED
    BY <2>4, <2>5
<1>5. 0 .. N \subseteq P
  <2> HIDE DEF P
  <2> QED
    BY <1>1, <1>3, <1>4, BoundedInduction
<1>6. N \in 0 .. N /\ sc[N] \in Acc
  BY <1>1, <1>2
<1> QED
  BY <1>5, <1>6 DEF Picked, Acc, sc, N
\* F filters s step by step, keeping the entries whose count is below lim.
IsKeep(F, s, lim, E) ==
  /\ F \in [0 .. Len(s) -> Seq(E)]
  /\ F[0] = << >>
  /\ \A i \in 1 .. Len(s) :
       F[i] = IF s[i].tx < lim THEN Append(F[i - 1], s[i]) ELSE F[i - 1]

(* The filter that drops spent broadcasts satisfies its recursive          *)
(* definition.                                                             *)
LEMMA KeepAccDef ==
  ASSUME NEW E, NEW s \in Seq(E), NEW lim
  PROVE  IsKeep(KeepAcc(s, lim), s, lim, E)
<1> DEFINE N == Len(s)
           Step(x, i) == IF s[i].tx < lim THEN Append(x, s[i]) ELSE x
           Body(f) == [i \in 0 .. N |-> IF i = 0 THEN << >> ELSE Step(f[i - 1], i)]
           G == [i \in 1 .. N |-> [x \in Seq(E) |-> Step(x, i)]]
           F == KeepAcc(s, lim)
<1>1. G \in [1 .. N -> [Seq(E) -> Seq(E)]] /\ N \in Nat /\ << >> \in Seq(E)
  OBVIOUS
<1> HIDE DEF G, Step
<1>2. PICK g \in [0 .. N -> Seq(E)] : Follows(g, << >>, N, G)
  BY <1>1, RecursionExists
<1>3. ASSUME NEW i \in 1 .. N PROVE g[i] = Step(g[i - 1], i)
  <2>1. i - 1 \in 0 .. N
    OBVIOUS
  <2>2. g[i - 1] \in Seq(E)
    BY <1>2, <2>1, Zenon
  <2> QED
    BY <1>2, <2>2 DEF G, Follows
<1>4. g = Body(g)
  <2>1. ASSUME NEW i \in 0 .. N PROVE g[i] = Body(g)[i]
    <3>1. CASE i = 0
      BY <1>2, <3>1 DEF Follows
    <3>2. CASE i # 0
      <4>1. i \in 1 .. N
        BY <3>2
      <4>2. Body(g)[i] = Step(g[i - 1], i)
        BY <4>1
      <4> QED
        BY <1>3, <4>1, <4>2
    <3> QED
      BY <3>1, <3>2
  <2> QED
    BY <1>2, <2>1 DEF Follows
<1>5. F = Body(F)
  BY <1>4 DEF KeepAcc, Step
<1>5a. ASSUME NEW i \in 1 .. N PROVE F[i] = Step(F[i - 1], i)
  <2> HIDE DEF F
  <2>1. F[i] = Body(F)[i]
    BY <1>5, Zenon
  <2>2. Body(F)[i] = Step(F[i - 1], i)
    OBVIOUS
  <2> QED
    BY <2>1, <2>2
<1> DEFINE Agree == {i \in Nat : F[i] = g[i]}
<1>6. 0 .. N \subseteq Agree
  <2>1. 0 \in Agree
    BY <1>2, <1>5 DEF Follows
  <2>2. \A i \in Nat : i \in Agree /\ i < N => i + 1 \in Agree
    <3> SUFFICES ASSUME NEW i \in Nat, F[i] = g[i], i < N
                 PROVE  F[i + 1] = g[i + 1]
      OBVIOUS
    <3>1. i + 1 \in 1 .. N /\ i + 1 - 1 = i
      OBVIOUS
    <3> HIDE DEF F
    <3> QED
      BY <1>3, <1>5a, <3>1
  <2> HIDE DEF Agree, N
  <2> QED
    BY <1>1, <2>1, <2>2, BoundedInduction
<1>7. F = g
  <2>2. \A i \in 0 .. N : F[i] = g[i]
    BY <1>6
  <2>3. F = [i \in 0 .. N |-> F[i]]
    BY <1>5, Zenon
  <2>4. g = [i \in 0 .. N |-> g[i]]
    BY <1>2
  <2> QED
    BY <2>2, <2>3, <2>4
<1> QED
  BY <1>2, <1>3, <1>7 DEF Follows, IsKeep, Step

(* Bumping the counts of handed-out broadcasts keeps a queue of entries.   *)
LEMMA BumpedType ==
  ASSUME NEW q \in Seq(Entry), NEW ids
  PROVE  /\ Bumped(q, ids) \in Seq(Entry)
         /\ Len(Bumped(q, ids)) = Len(q)
<1>1. Bumped(q, ids) \in [1 .. Len(q) -> Entry]
  <2>1. ASSUME NEW i \in 1 .. Len(q)
        PROVE  (IF q[i].id \in Elems(ids) THEN [id |-> q[i].id, tx |-> q[i].tx + 1]
                                          ELSE q[i]) \in Entry
    <3>0. q[i] \in Entry
      OBVIOUS
    <3>1. q[i] \in Entry /\ q[i].id \in Ids /\ q[i].tx \in Nat
      BY <3>0 DEF Entry
    <3>2. [id |-> q[i].id, tx |-> q[i].tx + 1] \in Entry
      BY <3>1 DEF Entry
    <3> QED
      BY <3>1, <3>2
  <2> QED
    BY <2>1 DEF Bumped
<1> QED
  BY <1>1 DEF Bumped

(* A queue after get_broadcasts is again a queue of entries.               *)
LEMMA TransmittedType ==
  ASSUME NEW q \in Seq(Entry), NEW ids
  PROVE  Transmitted(q, ids) \in Seq(Entry)
<1>1. Bumped(q, ids) \in Seq(Entry)
  BY BumpedType
<1>2. IsKeep(KeepAcc(Bumped(q, ids), RetransmitLimit), Bumped(q, ids), RetransmitLimit, Entry)
  BY <1>1, KeepAccDef
<1>3. Len(Bumped(q, ids)) \in 0 .. Len(Bumped(q, ids))
  BY <1>1
<1> QED
  BY <1>2, <1>3 DEF IsKeep, Transmitted, Survivors
(* A total weight is a natural number.                                     *)
LEMMA SumWType ==
  ASSUME NEW D, NEW s \in Seq(D), NEW w \in [D -> Nat]
  PROVE  SumW(s, w) \in Nat
<1>1. << >> \in Seq(D)
  OBVIOUS
<1> QED
  BY <1>1, SumWConcat

(* get_broadcasts hands out broadcasts, whatever the limit.                *)
LEMMA PickedType ==
  ASSUME NEW q \in Seq(Entry), NEW limit \in Int
  PROVE  Picked(q, limit) \in Seq(Ids)
<1>1. IsScan(Scan(q, limit), q, limit) /\ Len(q) \in 0 .. Len(q)
  BY ScanDef
<1>2. Scan(q, limit)[Len(q)] \in Acc
  BY <1>1 DEF IsScan
<1> QED
  BY <1>2 DEF Picked, Acc

(* Recording the samples of a sequence keeps counts natural.               *)
LEMMA RecordType ==
  ASSUME NEW counts \in [Ids -> Nat], NEW s \in Seq(Ids)
  PROVE  Record(counts, s) \in [Ids -> Nat]
<1>1. ASSUME NEW id \in Ids PROVE Occurrences(s, id) \in Nat
  <2>1. [x \in Ids |-> IF x = id THEN 1 ELSE 0] \in [Ids -> Nat]
    OBVIOUS
  <2> QED
    BY <2>1, SumWType DEF Occurrences
<1> QED
  BY <1>1 DEF Record

(* The encoded length of a broadcast is a natural number.                  *)
LEMMA EncodedSumType ==
  ASSUME NEW s \in Seq(Ids)
  PROVE  EncodedSum(s) \in Nat
<1>1. [id \in Ids |-> EncodedLen(id)] \in [Ids -> Nat]
  BY SizeAssumption, OverheadAssumption DEF EncodedLen
<1> QED
  BY <1>1, SumWType DEF EncodedSum

LEMMA QueueNamesDef ==
  QueueNames = {"broadcasts", "query_broadcasts", "event_broadcasts"}
BY DEF QueueNames, Queues

-----------------------------------------------------------------------------
\* The three lists broadcast_messages drains in one call.
CallMsgs(limit) ==
  LET msgs == Picked(queue["broadcasts"], limit)
      used1 == EncodedSum(msgs)
      queryMsgs == Picked(queue["query_broadcasts"], QueryBudget(limit, used1))
      used2 == used1 + EncodedSum(queryMsgs)
  IN  <<msgs, queryMsgs,
        Picked(queue["event_broadcasts"], EventBudget(limit, used2))>>

(* A call of broadcast_messages, unfolded: m1, m2 and m3 are the lists   *)
(* taken from the membership, query and event queues.                     *)
LEMMA CallUnfold ==
  ASSUME TypeOK, NEW limit \in Nat, BroadcastMessagesCall(limit),
         NEW m1, NEW m2, NEW m3, <<m1, m2, m3>> = CallMsgs(limit)
  PROVE  /\ m1 = Picked(queue["broadcasts"], limit)
         /\ m2 = Picked(queue["query_broadcasts"], limit - EncodedSum(m1))
         /\ m3 = Picked(queue["event_broadcasts"],
                        limit - (EncodedSum(m1) + EncodedSum(m2)))
         /\ m1 \in Seq(Ids) /\ m2 \in Seq(Ids) /\ m3 \in Seq(Ids)
         /\ queue' = [queue EXCEPT
                        !["broadcasts"] = Transmitted(@, m1),
                        !["query_broadcasts"] = Transmitted(@, m2),
                        !["event_broadcasts"] = Transmitted(@, m3)]
         /\ out' = m1 \o m2 \o m3
         /\ lastLimit' = limit
         /\ recorded' = Record(Record(Record([id \in Ids |-> 0], m1), m2), m2)
         /\ used' = used
<1>1. /\ queue["broadcasts"] \in Seq(Entry)
      /\ queue["query_broadcasts"] \in Seq(Entry)
      /\ queue["event_broadcasts"] \in Seq(Entry)
  BY QueueNamesDef DEF TypeOK
<1>0. /\ m1 = Picked(queue["broadcasts"], limit)
      /\ m2 = Picked(queue["query_broadcasts"], limit - EncodedSum(m1))
      /\ m3 = Picked(queue["event_broadcasts"],
                     EventBudget(limit, EncodedSum(m1) + EncodedSum(m2)))
  BY DEF CallMsgs, QueryBudget
<1>2. m1 = Picked(queue["broadcasts"], limit) /\ m1 \in Seq(Ids)
  <2>0. limit \in Int
    OBVIOUS
  <2>1. Picked(queue["broadcasts"], limit) \in Seq(Ids)
    BY <1>1, <2>0, PickedType
  <2> QED
    BY <1>0, <2>1
<1>3. /\ m2 = Picked(queue["query_broadcasts"], limit - EncodedSum(m1))
      /\ limit - EncodedSum(m1) \in Int
  BY <1>0, <1>2, EncodedSumType
<1>4. m2 \in Seq(Ids)
  <2>1. Picked(queue["query_broadcasts"], limit - EncodedSum(m1)) \in Seq(Ids)
    BY <1>1, <1>3, PickedType
  <2> QED
    BY <1>3, <2>1
<1>5. /\ m3 = Picked(queue["event_broadcasts"],
                     limit - (EncodedSum(m1) + EncodedSum(m2)))
      /\ limit - (EncodedSum(m1) + EncodedSum(m2)) \in Int
  BY <1>0, <1>2, <1>4, EncodedSumType DEF EventBudget
<1>6. m3 \in Seq(Ids)
  <2>1. Picked(queue["event_broadcasts"],
               limit - (EncodedSum(m1) + EncodedSum(m2))) \in Seq(Ids)
    BY <1>1, <1>5, PickedType
  <2> QED
    BY <1>5, <2>1
<1> QED
  BY <1>0, <1>2, <1>3, <1>4, <1>5, <1>6 DEF BroadcastMessagesCall, EventBudget, QueryBudget

(* The three lists of a call are the components of CallMsgs.               *)
LEMMA CallMsgsTuple ==
  ASSUME NEW limit
  PROVE  CallMsgs(limit) = <<CallMsgs(limit)[1], CallMsgs(limit)[2], CallMsgs(limit)[3]>>
BY DEF CallMsgs

(* Each step keeps the queues, the output and the ghost counters typed.    *)
LEMMA TypeStep == TypeOK /\ [Next]_vars => TypeOK'
<1> SUFFICES ASSUME TypeOK, [Next]_vars PROVE TypeOK'
  OBVIOUS
<1>1. ASSUME NEW qn \in QueueNames, NEW id \in Ids, QueueBroadcast(qn, id)
      PROVE  TypeOK'
  <2>1. queue[qn] \in Seq(Entry) /\ [id |-> id, tx |-> 0] \in Entry
    BY DEF TypeOK, Entry
  <2>2. queue' \in [QueueNames -> Seq(Entry)]
    BY <1>1, <2>1 DEF QueueBroadcast, TypeOK
  <2> QED
    BY <1>1, <2>2 DEF QueueBroadcast, TypeOK
<1>2. ASSUME NEW limit \in Limits, BroadcastMessagesCall(limit) PROVE TypeOK'
  <2> DEFINE m1 == CallMsgs(limit)[1]
             m2 == CallMsgs(limit)[2]
             m3 == CallMsgs(limit)[3]
  <2>0. limit \in Nat /\ <<m1, m2, m3>> = CallMsgs(limit)
    BY LimitsAssumption, CallMsgsTuple
  <2> HIDE DEF m1, m2, m3
  <2>1. /\ m1 \in Seq(Ids) /\ m2 \in Seq(Ids) /\ m3 \in Seq(Ids)
        /\ queue' = [queue EXCEPT
                       !["broadcasts"] = Transmitted(@, m1),
                       !["query_broadcasts"] = Transmitted(@, m2),
                       !["event_broadcasts"] = Transmitted(@, m3)]
        /\ out' = m1 \o m2 \o m3
        /\ lastLimit' = limit
        /\ recorded' = Record(Record(Record([id \in Ids |-> 0], m1), m2), m2)
        /\ used' = used
    BY <1>2, <2>0, CallUnfold
  <2>2. queue' \in [QueueNames -> Seq(Entry)]
    <3>1. /\ Transmitted(queue["broadcasts"], m1) \in Seq(Entry)
          /\ Transmitted(queue["query_broadcasts"], m2) \in Seq(Entry)
          /\ Transmitted(queue["event_broadcasts"], m3) \in Seq(Entry)
      BY QueueNamesDef, TransmittedType DEF TypeOK
    <3> QED
      BY <2>1, <3>1 DEF TypeOK
  <2>3. out' \in Seq(Ids) /\ lastLimit' \in Nat
    BY <2>0, <2>1
  <2>4. recorded' \in [Ids -> Nat]
    <3>1. [id \in Ids |-> 0] \in [Ids -> Nat]
      OBVIOUS
    <3> QED
      BY <2>1, <3>1, RecordType
  <2> QED
    BY <2>1, <2>2, <2>3, <2>4 DEF TypeOK
<1>3. CASE UNCHANGED vars
  BY <1>3 DEF vars, TypeOK
<1> QED
  BY <1>1, <1>2, <1>3 DEF Next

(* TypeOK: the queues hold entries with natural transmit counts, and the  *)
(* output and the ghost counters of broadcast_messages stay typed.        *)
THEOREM TypeCorrect == Spec => []TypeOK
<1>1. Init => TypeOK
  BY QueueNamesDef DEF Init, TypeOK
<1>2. TypeOK /\ [Next]_vars => TypeOK'
  BY TypeStep
<1> QED
  BY <1>1, <1>2, PTL DEF Spec
-----------------------------------------------------------------------------
(***************************************************************************)
(* The byte budget.  broadcast_messages charges each queue what the       *)
(* previous ones took by their encoded lengths, while a queue fits        *)
(* broadcasts by length plus overhead; the proof needs ExactFraming, and   *)
(* without it the property fails (see README).                             *)
(***************************************************************************)

(* Under ExactFraming the encoded length of a list is its framed length.   *)
LEMMA EncodedIsFramed ==
  ASSUME ExactFraming, NEW s \in Seq(Ids)
  PROVE  EncodedSum(s) = SumW(s, Framed)
<1>1. [id \in Ids |-> EncodedLen(id)] = Framed
  BY SizeAssumption, OverheadAssumption DEF ExactFraming, EncodedLen, Framed
<1> QED
  BY <1>1 DEF EncodedSum

\* The inductive invariant: WithinLimit needs only the types.
IInv == TypeOK /\ WithinLimit

THEOREM IInvInit == Init => IInv
<1> SUFFICES ASSUME Init PROVE IInv
  OBVIOUS
<1>1. TypeOK
  BY QueueNamesDef DEF Init, TypeOK
<1>2. SumW(<< >>, Framed) = 0
  BY FramedType, SumWEmpty
<1> QED
  BY <1>1, <1>2 DEF Init, IInv, WithinLimit

(* One call stays within its limit: the query queue gets what the         *)
(* membership queue left, the event queue what both left.                  *)
LEMMA CallWithinLimit ==
  ASSUME ExactFraming, TypeOK, NEW limit \in Limits, BroadcastMessagesCall(limit)
  PROVE  WithinLimit'
<1> DEFINE m1 == CallMsgs(limit)[1]
           m2 == CallMsgs(limit)[2]
           m3 == CallMsgs(limit)[3]
<1>0. limit \in Nat /\ <<m1, m2, m3>> = CallMsgs(limit)
  BY LimitsAssumption, CallMsgsTuple
<1>0a. limit \in Nat
  BY <1>0
<1> HIDE DEF m1, m2, m3
<1>1. /\ m1 = Picked(queue["broadcasts"], limit)
      /\ m2 = Picked(queue["query_broadcasts"], limit - EncodedSum(m1))
      /\ m3 = Picked(queue["event_broadcasts"],
                     limit - (EncodedSum(m1) + EncodedSum(m2)))
      /\ m1 \in Seq(Ids) /\ m2 \in Seq(Ids) /\ m3 \in Seq(Ids)
      /\ out' = m1 \o m2 \o m3
      /\ lastLimit' = limit
  <2>1. /\ m1 = Picked(queue["broadcasts"], limit)
        /\ m2 = Picked(queue["query_broadcasts"], limit - EncodedSum(m1))
        /\ m3 = Picked(queue["event_broadcasts"],
                       limit - (EncodedSum(m1) + EncodedSum(m2)))
        /\ m1 \in Seq(Ids) /\ m2 \in Seq(Ids) /\ m3 \in Seq(Ids)
        /\ queue' = [queue EXCEPT
                       !["broadcasts"] = Transmitted(@, m1),
                       !["query_broadcasts"] = Transmitted(@, m2),
                       !["event_broadcasts"] = Transmitted(@, m3)]
        /\ out' = m1 \o m2 \o m3
        /\ lastLimit' = limit
        /\ recorded' = Record(Record(Record([id \in Ids |-> 0], m1), m2), m2)
        /\ used' = used
    BY <1>0, <1>0a, CallUnfold
  <2> QED
    BY <2>1
<1>2. /\ queue["broadcasts"] \in Seq(Entry)
      /\ queue["query_broadcasts"] \in Seq(Entry)
      /\ queue["event_broadcasts"] \in Seq(Entry)
  BY QueueNamesDef DEF TypeOK
<1> DEFINE F1 == SumW(m1, Framed)
           F2 == SumW(m2, Framed)
           F3 == SumW(m3, Framed)
<1>3. F1 \in Nat /\ F2 \in Nat /\ F3 \in Nat
  BY <1>1, FramedType, SumWType
<1>4. EncodedSum(m1) = F1 /\ EncodedSum(m2) = F2
  BY <1>1, EncodedIsFramed
<1>5. F1 <= limit
  <2> DEFINE q1 == queue["broadcasts"]
  <2>0. q1 \in Seq(Entry)
    BY <1>2
  <2> HIDE DEF q1
  <2>1. SumW(Picked(q1, limit), Framed) <= limit
    BY <1>0a, <2>0, PickedWithinLimit
  <2> QED
    BY <1>1, <2>1 DEF q1
<1>6. F2 <= limit - F1
  <2> DEFINE q2 == queue["query_broadcasts"]
           b2 == limit - F1
  <2>0. q2 \in Seq(Entry) /\ b2 \in Nat
    BY <1>0a, <1>2, <1>3, <1>5
  <2> HIDE DEF q2, b2
  <2>2. SumW(Picked(q2, b2), Framed) <= b2
    BY <2>0, PickedWithinLimit
  <2> QED
    BY <1>1, <1>4, <2>2 DEF q2, b2
<1>7. F3 <= limit - (F1 + F2)
  <2> DEFINE q3 == queue["event_broadcasts"]
           b3 == limit - (F1 + F2)
  <2>0. q3 \in Seq(Entry) /\ b3 \in Nat
    BY <1>0a, <1>2, <1>3, <1>6
  <2> HIDE DEF q3, b3
  <2>2. SumW(Picked(q3, b3), Framed) <= b3
    BY <2>0, PickedWithinLimit
  <2> QED
    BY <1>1, <1>4, <2>2 DEF q3, b3
<1>8. SumW(m1 \o m2 \o m3, Framed) = F1 + F2 + F3
  <2> DEFINE m12 == m1 \o m2
  <2>1. m12 \in Seq(Ids) /\ m1 \o m2 \o m3 = m12 \o m3
    BY <1>1
  <2>2. SumW(m12, Framed) = F1 + F2
    BY <1>1, FramedType, SumWConcat
  <2> HIDE DEF m12
  <2>3. SumW(m12 \o m3, Framed) = SumW(m12, Framed) + F3
    BY <1>1, <2>1, FramedType, SumWConcat
  <2> QED
    BY <2>1, <2>2, <2>3
<1> QED
  BY <1>0, <1>1, <1>3, <1>5, <1>6, <1>7, <1>8 DEF WithinLimit

THEOREM IInvNext == ExactFraming /\ IInv /\ [Next]_vars => IInv'
<1> SUFFICES ASSUME ExactFraming, IInv, [Next]_vars PROVE IInv'
  OBVIOUS
<1>0. TypeOK'
  BY TypeStep DEF IInv
<1>1. ASSUME NEW qn \in QueueNames, NEW id \in Ids, QueueBroadcast(qn, id)
      PROVE  WithinLimit'
  BY <1>1 DEF QueueBroadcast, IInv, WithinLimit
<1>2. ASSUME NEW limit \in Limits, BroadcastMessagesCall(limit) PROVE WithinLimit'
  <2>1. TypeOK
    BY DEF IInv
  <2> QED
    BY <1>2, <2>1, CallWithinLimit
<1>3. ASSUME UNCHANGED vars PROVE WithinLimit'
  <2>1. out' = out /\ lastLimit' = lastLimit
    BY <1>3 DEF vars
  <2> QED
    BY <2>1 DEF IInv, WithinLimit
<1> QED
  BY <1>0, <1>1, <1>2, <1>3 DEF Next, IInv

(* WithinLimit, for every set of broadcasts, sizes, overhead and limits:  *)
(* the messages one broadcast_messages call returns, with their framing,  *)
(* fit in the packet memberlist asked it to fill, provided encoded_len     *)
(* frames a broadcast as the queues charge for it (ExactFraming).          *)
THEOREM BudgetSafety == ExactFraming => (Spec => []WithinLimit)
<1> SUFFICES ASSUME ExactFraming PROVE Spec => []WithinLimit
  OBVIOUS
<1>1. IInv => WithinLimit
  BY DEF IInv
<1> QED
  BY IInvInit, IInvNext, <1>1, PTL DEF Spec
-----------------------------------------------------------------------------
(***************************************************************************)
(* No underflow.  A queue fits what it hands out into its budget by       *)
(* length plus overhead; when encoded_len frames a broadcast with no more *)
(* than that overhead, the encoded lengths the delegate subtracts are no  *)
(* larger, so both subtractions stay within the limit.                    *)
(***************************************************************************)

(* A sum grows with its weights.                                           *)
LEMMA SumWMono ==
  ASSUME NEW D, NEW s \in Seq(D), NEW w1 \in [D -> Nat], NEW w2 \in [D -> Nat],
         \A d \in D : w1[d] <= w2[d]
  PROVE  SumW(s, w1) <= SumW(s, w2)
<1> DEFINE N == Len(s)
           p1 == PrefixSums(s, w1)
           p2 == PrefixSums(s, w2)
<1>1. IsPrefixSums(p1, s, w1) /\ IsPrefixSums(p2, s, w2)
  BY PrefixSumsDef
<1>2. N \in Nat
  OBVIOUS
<1> DEFINE Le == {i \in Nat : i <= N => p1[i] <= p2[i]}
<1>3. 0 \in Le
  BY <1>1 DEF IsPrefixSums
<1>4. \A n \in Nat : n \in Le /\ n < N => n + 1 \in Le
  <2> SUFFICES ASSUME NEW n \in Nat, n \in Le, n < N PROVE n + 1 \in Le
    OBVIOUS
  <2>1. n + 1 \in 1 .. N /\ n \in 0 .. N /\ (n + 1) - 1 = n
    OBVIOUS
  <2>2. p1[n + 1] = p1[n] + w1[s[n + 1]] /\ p2[n + 1] = p2[n] + w2[s[n + 1]]
    BY <1>1, <2>1 DEF IsPrefixSums
  <2>3. p1[n] \in Nat /\ p2[n] \in Nat /\ p1[n] <= p2[n]
    BY <1>1, <2>1 DEF IsPrefixSums
  <2>4. s[n + 1] \in D
    BY <2>1
  <2>5. w1[s[n + 1]] \in Nat /\ w2[s[n + 1]] \in Nat
        /\ w1[s[n + 1]] <= w2[s[n + 1]]
    BY <2>4
  <2> QED
    BY <2>2, <2>3, <2>5
<1> HIDE DEF Le, N, p1, p2
<1>5. 0 .. N \subseteq Le
  BY <1>2, <1>3, <1>4, BoundedInduction
<1>6. p1[N] <= p2[N]
  BY <1>2, <1>5 DEF Le
<1> QED
  BY <1>6 DEF SumW, N, p1, p2

(* Under EncodedWithinFramed the encoded length of a list is at most its  *)
(* framed length.                                                          *)
LEMMA EncodedLeFramed ==
  ASSUME EncodedWithinFramed, NEW s \in Seq(Ids)
  PROVE  EncodedSum(s) <= SumW(s, Framed)
<1>1. [id \in Ids |-> EncodedLen(id)] \in [Ids -> Nat]
  BY SizeAssumption, OverheadAssumption DEF EncodedLen
<1>2. \A id \in Ids : [id2 \in Ids |-> EncodedLen(id2)][id] <= Framed[id]
  BY SizeAssumption, OverheadAssumption DEF EncodedWithinFramed, EncodedLen, Framed
<1> QED
  BY <1>1, <1>2, FramedType, SumWMono DEF EncodedSum

(* The two budgets a call subtracts from fit in any limit.                 *)
LEMMA BudgetNoUnderflow ==
  ASSUME EncodedWithinFramed, TypeOK, NEW limit \in Nat
  PROVE  BytesUsedBeforeEvents(limit) <= limit
<1> DEFINE q1 == queue["broadcasts"]
           q2 == queue["query_broadcasts"]
           m1 == Picked(q1, limit)
           e1 == EncodedSum(m1)
           m2 == Picked(q2, limit - e1)
           e2 == EncodedSum(m2)
<1>1. q1 \in Seq(Entry) /\ q2 \in Seq(Entry) /\ limit \in Int
  BY QueueNamesDef DEF TypeOK
<1> HIDE DEF q1, q2
<1>2. m1 \in Seq(Ids) /\ SumW(m1, Framed) <= limit
  BY <1>1, PickedWithinLimit, PickedType
<1> HIDE DEF m1
<1>3. e1 \in Nat /\ e1 <= limit
  BY <1>2, EncodedLeFramed, EncodedSumType, FramedType, SumWType
<1>4. limit - e1 \in Nat
  BY <1>3
<1>5. m2 \in Seq(Ids) /\ SumW(m2, Framed) <= limit - e1
  BY <1>1, <1>4, PickedWithinLimit, PickedType
<1> HIDE DEF m2, e1
<1>6. e2 \in Nat /\ e2 <= limit - e1
  <2>1. e2 \in Nat /\ e2 <= SumW(m2, Framed)
    BY <1>5, EncodedLeFramed, EncodedSumType
  <2>2. SumW(m2, Framed) \in Nat
    BY <1>5, FramedType, SumWType
  <2> QED
    BY <1>3, <1>5, <2>1, <2>2
<1>7. BytesUsedBeforeEvents(limit) = e1 + e2
  BY DEF BytesUsedBeforeEvents, QueryBudget, e1, e2, m1, m2, q1, q2
<1> QED
  BY <1>3, <1>6, <1>7

(* NoBudgetUnderflow, for every set of broadcasts, every size, overhead   *)
(* and limit, whenever encoded_len frames a broadcast with no more than    *)
(* the overhead the queues charge: neither `limit - bytes_used` of         *)
(* broadcast_messages (lines 276 and 295) can underflow.  The hypothesis  *)
(* is needed: with a larger encoded framing a single broadcast that fits   *)
(* the membership queue's budget already overruns the limit.              *)
THEOREM UnderflowSafety == EncodedWithinFramed => (Spec => []NoBudgetUnderflow)
<1> SUFFICES ASSUME EncodedWithinFramed PROVE Spec => []NoBudgetUnderflow
  OBVIOUS
<1>1. TypeOK => NoBudgetUnderflow
  BY BudgetNoUnderflow, LimitsAssumption DEF NoBudgetUnderflow
<1>2. Init => TypeOK
  BY QueueNamesDef DEF Init, TypeOK
<1> QED
  BY <1>1, <1>2, TypeStep, PTL DEF Spec
=============================================================================
