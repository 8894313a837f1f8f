-------------------------- MODULE SmartPatcherProofs --------------------------
(***************************************************************************)
(* Proofs about the patcher, for every list of patches, every source tree  *)
(* and texts of any length.  First what a search finds after a replacement *)
(* and what it found before: an occurrence lies left of the place that was *)
(* replaced, right of it, or over one of its edges, and the assumptions on *)
(* the patches say what becomes of those.  Then what one change does to    *)
(* the text in memory, by induction what all changes of a part do, and     *)
(* from that the inductive invariant, one action after the other.          *)
(***************************************************************************)
EXTENDS SmartPatcher, SequenceTheorems, WellFoundedInduction, TLAPS

-----------------------------------------------------------------------------
(* Induction.  The library's theorem takes the induction hypothesis as an     *)
(* operator; a set in its place, and the least element outside of it, do as   *)
(* well.                                                                      *)

Below == {ij \in Nat \X Nat : ij[1] < ij[2]}

LEMMA BelowIsWellFounded == IsWellFoundedOn(Below, Nat)
<1>1. OpToRel(<, Nat) = Below
  BY DEF OpToRel, Below
<1> QED
  BY <1>1, NatLessThanWellFounded

LEMMA LeastNumber ==
    ASSUME NEW S \in SUBSET Nat, S # {}
    PROVE  \E n \in S : \A m \in S : n <= m
<1>1. PICK n \in S : \A m \in S : <<m, n>> \notin Below
  BY BelowIsWellFounded, WFMin
<1>2. ASSUME NEW m \in S PROVE n <= m
  <2>1. m \in Nat /\ n \in Nat
    OBVIOUS
  <2>2. ~(m < n)
    <3>1. <<m, n>> \notin Below
      BY <1>1
    <3> QED
      BY <2>1, <3>1 DEF Below
  <2> QED
    BY <2>1, <2>2
<1> QED
  BY <1>2

LEMMA Induction ==
    ASSUME NEW S, 0 \in S, \A n \in Nat : n \in S => n + 1 \in S
    PROVE  Nat \subseteq S
<1> SUFFICES ASSUME Nat \ S # {} PROVE FALSE
  OBVIOUS
<1>1. PICK n \in Nat \ S : \A m \in Nat \ S : n <= m
  BY LeastNumber
<1>2. n - 1 \in Nat
  BY <1>1
<1>3. n - 1 \in S
  BY <1>1, <1>2
<1>4. (n - 1) + 1 \in S
  BY <1>2, <1>3
<1> QED
  BY <1>1, <1>4

\* A function that is given by its first value and by each next one exists.
LEMMA Recursion ==
    ASSUME NEW V, NEW v \in V, NEW N \in Nat, NEW h \in [1..N -> [V -> V]]
    PROVE  \E f \in [0..N -> V] : f[0] = v /\ \A n \in 1..N : f[n] = h[n][f[n - 1]]
<1> DEFINE Upto(k) == {f \in [0..k -> V] : f[0] = v /\ \A n \in 1..k : f[n] = h[n][f[n - 1]]}
           S == {k \in Nat : k <= N => Upto(k) # {}}
<1>1. 0 \in S
  <2>1. [i \in 0..0 |-> v] \in Upto(0)
    OBVIOUS
  <2> QED
    BY <2>1
<1>2. ASSUME NEW k \in Nat, k \in S PROVE k + 1 \in S
  <2> SUFFICES ASSUME k + 1 <= N PROVE Upto(k + 1) # {}
    OBVIOUS
  <2>1. PICK f \in Upto(k) : TRUE
    BY <1>2
  <2>2. /\ f \in [0..k -> V] /\ f[0] = v
        /\ \A n \in 1..k : f[n] = h[n][f[n - 1]]
    BY <2>1
  <2> DEFINE g == [i \in 0..k + 1 |-> IF i = k + 1 THEN h[k + 1][f[k]] ELSE f[i]]
  <2>3. h[k + 1][f[k]] \in V
    BY <2>2
  <2>4. g \in [0..k + 1 -> V]
    BY <2>2, <2>3
  <2>5. g[0] = v
    BY <2>2
  <2>6. ASSUME NEW n \in 1..k + 1 PROVE g[n] = h[n][g[n - 1]]
    <3>1. CASE n = k + 1
      BY <3>1
    <3>2. CASE n \in 1..k
      BY <2>2, <3>2
    <3> QED
      BY <3>1, <3>2
  <2>7. g \in Upto(k + 1)
    BY <2>4, <2>5, <2>6
  <2> QED
    BY <2>7
<1>3. N \in S
  <2> HIDE DEF S
  <2> QED
    BY <1>1, <1>2, Induction
<1>4. Upto(N) # {}
  BY <1>3
<1> QED
  BY <1>4

-----------------------------------------------------------------------------
(* Texts. *)

LEMMA TextJoin ==
    ASSUME NEW s \in Text, NEW t \in Text
    PROVE  /\ s \o t \in Text
           /\ Len(s \o t) = Len(s) + Len(t)
           /\ \A i \in 1..Len(s) : (s \o t)[i] = s[i]
           /\ \A i \in 1..Len(t) : (s \o t)[Len(s) + i] = t[i]
<1>1. Len(s) \in Nat /\ Len(t) \in Nat
  BY DEF Text
<1> QED
  BY <1>1, ConcatProperties DEF Text

LEMMA TextPart ==
    ASSUME NEW s \in Text, NEW i \in 0..Len(s), NEW j \in i..Len(s)
    PROVE  /\ SubSeq(s, i + 1, j) \in Text
           /\ Len(SubSeq(s, i + 1, j)) = j - i
           /\ \A k \in 1..j - i : SubSeq(s, i + 1, j)[k] = s[i + k]
<1>1. Len(s) \in Nat
  BY DEF Text
<1>2. \A k \in i + 1..j : s[k] \in Tokens
  BY <1>1, ElementOfSeq DEF Text
<1> QED
  BY <1>1, <1>2, SubSeqProperties DEF Text

LEMMA TextSplit ==
    ASSUME NEW s \in Text, NEW i \in 0..Len(s)
    PROVE  s = SubSeq(s, 1, i) \o SubSeq(s, i + 1, Len(s))
<1>1. Len(s) \in Nat
  BY DEF Text
<1>2. /\ 1 \in 1..Len(s) + 1 /\ i \in 1 - 1..Len(s) /\ Len(s) \in i..Len(s)
  BY <1>1
<1>3. SubSeq(s, 1, i) \o SubSeq(s, i + 1, Len(s)) = SubSeq(s, 1, Len(s))
  BY <1>2, ConcatAdjacentSubSeq DEF Text
<1> QED
  BY <1>3, SubSeqFull DEF Text

\* The solvers lose their way in nested \o, and do better with operators of which they know only
\* the facts below.
Join(s, t)      == s \o t
Cut(t, u, p, v) == t = (u \o p) \o v

LEMMA JoinAssociative ==
    \A s, t, u \in Text : Join(s, t) \in Text /\ Join(Join(s, t), u) = Join(s, Join(t, u))
<1>1. \A s, t, u \in Text : Join(Join(s, t), u) = Join(s, Join(t, u))
  BY ConcatAssociative DEF Join, Text
<1> QED
  BY <1>1, TextJoin DEF Join

LEMMA CutInCut ==
    ASSUME NEW w, NEW t, NEW u \in Text, NEW v \in Text, NEW x \in Text, NEW p \in Text, NEW y \in Text,
           Cut(w, u, t, v), Cut(t, x, p, y)
    PROVE  Cut(w, Join(u, x), p, Join(y, v))
<1>1. Join(Join(u, Join(Join(x, p), y)), v) = Join(Join(Join(u, x), p), Join(y, v))
  BY JoinAssociative
<1> QED
  BY <1>1 DEF Cut, Join

LEMMA CutIs ==
    ASSUME NEW u \in Text, NEW p \in Text, NEW v \in Text, NEW t, Cut(t, u, p, v)
    PROVE  /\ t \in Text
           /\ Len(t) = Len(u) + Len(p) + Len(v)
           /\ \A i \in 1..Len(u) : t[i] = u[i]
           /\ \A i \in 1..Len(p) : t[Len(u) + i] = p[i]
           /\ \A i \in 1..Len(v) : t[Len(u) + Len(p) + i] = v[i]
<1> DEFINE w == u \o p
<1>1. Len(u) \in Nat /\ Len(p) \in Nat /\ Len(v) \in Nat
  BY DEF Text
<1>2. /\ w \in Text /\ Len(w) = Len(u) + Len(p)
      /\ \A i \in 1..Len(u) : w[i] = u[i]
      /\ \A i \in 1..Len(p) : w[Len(u) + i] = p[i]
  BY TextJoin
<1>3. t = w \o v
  BY DEF Cut
<1> HIDE DEF w
<1>4. /\ w \o v \in Text /\ Len(w \o v) = Len(w) + Len(v)
      /\ \A i \in 1..Len(w) : (w \o v)[i] = w[i]
      /\ \A i \in 1..Len(v) : (w \o v)[Len(w) + i] = v[i]
  BY <1>2, TextJoin
<1>5. /\ t \in Text /\ Len(t) = Len(w) + Len(v)
      /\ \A i \in 1..Len(w) : t[i] = w[i]
      /\ \A i \in 1..Len(v) : t[Len(w) + i] = v[i]
  BY <1>3, <1>4, Zenon
<1> QED
  BY <1>1, <1>2, <1>5

LEMMA SamePart ==
    ASSUME NEW s \in Text, NEW t \in Text, NEW i \in Nat, NEW j \in Nat, NEW n \in Nat,
           i + n <= Len(s), j + n <= Len(t), \A k \in 1..n : s[i + k] = t[j + k]
    PROVE  SubSeq(s, i + 1, i + n) = SubSeq(t, j + 1, j + n)
<1>1. Len(s) \in Nat /\ Len(t) \in Nat
  BY DEF Text
<1>2. i \in 0..Len(s) /\ i + n \in i..Len(s) /\ j \in 0..Len(t) /\ j + n \in j..Len(t)
  BY <1>1
<1>3. (i + n) - i = n /\ (j + n) - j = n
  OBVIOUS
<1> DEFINE a == SubSeq(s, i + 1, i + n)
           b == SubSeq(t, j + 1, j + n)
<1>4. a \in Text /\ Len(a) = n /\ \A k \in 1..n : a[k] = s[i + k]
  <2>1. Len(a) = (i + n) - i /\ \A k \in 1..(i + n) - i : a[k] = s[i + k]
    BY <1>2, TextPart
  <2>2. a \in Text
    BY <1>2, TextPart
  <2> QED
    BY <1>3, <2>1, <2>2
<1>5. b \in Text /\ Len(b) = n /\ \A k \in 1..n : b[k] = t[j + k]
  <2>1. Len(b) = (j + n) - j /\ \A k \in 1..(j + n) - j : b[k] = t[j + k]
    BY <1>2, TextPart
  <2>2. b \in Text
    BY <1>2, TextPart
  <2> QED
    BY <1>3, <2>1, <2>2
<1> HIDE DEF a, b
<1>6. a = b
  BY <1>4, <1>5, SeqEqual DEF Text
<1> QED
  BY <1>6 DEF a, b

\* p is in t, with i tokens before it.
At(p, t, i) == i \in Nat /\ i + Len(p) <= Len(t) /\ \A k \in 1..Len(p) : t[i + k] = p[k]

LEMMA FoundAt ==
    ASSUME NEW p \in Pattern, NEW t \in Text, NEW i \in Nat,
           i + Len(p) <= Len(t), \A k \in 1..Len(p) : t[i + k] = p[k]
    PROVE  SubSeq(t, i + 1, i + Len(p)) = p /\ Found(p, t)
<1>1. p \in Text /\ p # <<>> /\ Len(p) \in Nat /\ Len(t) \in Nat
  BY DEF Pattern, Text
<1>2. SubSeq(t, i + 1, i + Len(p)) = SubSeq(p, 0 + 1, 0 + Len(p))
  BY <1>1, SamePart
<1>3. SubSeq(p, 0 + 1, 0 + Len(p)) = p
  BY <1>1, SubSeqFull DEF Text
<1>4. i \in 0..Len(t) /\ i + Len(p) \in 0..Len(t)
  BY <1>1
<1>5. SubSeq(t, i + 1, i + Len(p)) \in SubSeqs(t)
  BY <1>4 DEF SubSeqs
<1> QED
  BY <1>1, <1>2, <1>3, <1>5 DEF Found

LEMMA AtIs ==
    ASSUME NEW p \in Pattern, NEW t \in Text, NEW i
    PROVE  At(p, t, i) <=> i \in 0..Len(t) - Len(p) /\ SubSeq(t, i + 1, i + Len(p)) = p
<1>1. Len(p) \in Nat /\ Len(t) \in Nat
  BY DEF Pattern, Text
<1>2. ASSUME At(p, t, i) PROVE i \in 0..Len(t) - Len(p) /\ SubSeq(t, i + 1, i + Len(p)) = p
  <2>1. i \in Nat /\ i + Len(p) <= Len(t) /\ \A k \in 1..Len(p) : t[i + k] = p[k]
    BY <1>2 DEF At
  <2>2. SubSeq(t, i + 1, i + Len(p)) = p
    BY <2>1, FoundAt
  <2> QED
    BY <1>1, <2>1, <2>2
<1>3. ASSUME i \in 0..Len(t) - Len(p), SubSeq(t, i + 1, i + Len(p)) = p PROVE At(p, t, i)
  <2> DEFINE m == i + Len(p)
  <2>1. i \in Nat /\ i + Len(p) <= Len(t) /\ i \in 0..Len(t) /\ m \in i..Len(t) /\ m - i = Len(p)
    BY <1>1, <1>3
  <2>2. \A k \in 1..m - i : SubSeq(t, i + 1, m)[k] = t[i + k]
    BY <2>1, TextPart
  <2>3. \A k \in 1..Len(p) : t[i + k] = p[k]
    BY <1>3, <2>1, <2>2
  <2> HIDE DEF m
  <2> QED
    BY <2>1, <2>3 DEF At
<1> QED
  BY <1>2, <1>3

\* A pattern is found where a text is one thing, the pattern and another.
LEMMA FoundIs ==
    ASSUME NEW p \in Pattern, NEW t \in Text
    PROVE  Found(p, t) <=> \E u, v \in Text : Cut(t, u, p, v)
<1>1. p \in Text /\ p # <<>> /\ Len(p) \in Nat /\ Len(t) \in Nat
  BY DEF Pattern, Text
<1>2. ASSUME Found(p, t) PROVE \E u, v \in Text : Cut(t, u, p, v)
  <2>1. PICK i \in 0..Len(t), j \in 0..Len(t) : p = SubSeq(t, i + 1, j)
    BY <1>2 DEF Found, SubSeqs
  <2>2. i <= j
    BY <1>1, <2>1, SubSeqEmpty
  <2>3. t = SubSeq(t, 1, j) \o SubSeq(t, j + 1, Len(t))
    BY <1>1, TextSplit
  <2>4. SubSeq(t, 1, j) = SubSeq(t, 1, i) \o p
    BY <1>1, <2>1, <2>2, ConcatAdjacentSubSeq DEF Text
  <2>5. SubSeq(t, 1, i) \in Text /\ SubSeq(t, j + 1, Len(t)) \in Text
    BY <1>1, TextPart
  <2> QED
    BY <2>3, <2>4, <2>5 DEF Cut
<1>3. ASSUME NEW u \in Text, NEW v \in Text, Cut(t, u, p, v) PROVE Found(p, t)
  <2>1. Len(u) \in Nat /\ Len(u) + Len(p) <= Len(t)
    <3>1. Len(u) \in Nat /\ Len(v) \in Nat
      BY DEF Text
    <3> QED
      BY <1>1, <1>3, <3>1, CutIs
  <2>2. \A k \in 1..Len(p) : t[Len(u) + k] = p[k]
    BY <1>1, <1>3, CutIs
  <2> QED
    BY <2>1, <2>2, FoundAt
<1> QED
  BY <1>2, <1>3

LEMMA FoundInside ==
    ASSUME NEW p \in Pattern, NEW t \in Text, NEW u \in Text, NEW v \in Text, Found(p, t),
           NEW w, Cut(w, u, t, v)
    PROVE  Found(p, w)
<1>1. PICK x \in Text, y \in Text : Cut(t, x, p, y)
  BY FoundIs
<1>2. p \in Text
  BY DEF Pattern
<1>3. Cut(w, Join(u, x), p, Join(y, v))
  BY <1>1, <1>2, CutInCut
<1>4. Join(u, x) \in Text /\ Join(y, v) \in Text /\ w \in Text
  BY JoinAssociative, CutIs
<1> QED
  BY <1>3, <1>4, FoundIs

LEMMA FoundThrough ==
    ASSUME NEW p \in Pattern, NEW q \in Pattern, NEW t \in Text, Found(p, q), Found(q, t)
    PROVE  Found(p, t)
<1>1. PICK u \in Text, v \in Text : Cut(t, u, q, v)
  BY FoundIs
<1> QED
  BY <1>1, FoundInside DEF Pattern

\* Where one pattern is, when another one lies in the middle of the text.
LEMMA Where ==
    ASSUME NEW p \in Pattern, NEW old \in Pattern, Clear(p, old),
           NEW u \in Text, NEW v \in Text, NEW t, Cut(t, u, old, v),
           NEW at, At(p, t, at)
    PROVE  \/ at + Len(p) <= Len(u)
           \/ at >= Len(u) + Len(old)
           \/ \E k \in 1..Len(p) - 1 :
                /\ k < Len(old)
                /\ \/ at + Len(p) = Len(u) + k /\ Ends(k, p) = Starts(k, old)
                   \/ at + k = Len(u) + Len(old) /\ Starts(k, p) = Ends(k, old)
<1>1. /\ p \in Text /\ Len(p) \in Nat \ {0} /\ old \in Text /\ Len(old) \in Nat \ {0}
      /\ Len(u) \in Nat /\ Len(v) \in Nat
  BY EmptySeq DEF Pattern, Text
<1>2. /\ Len(t) = Len(u) + Len(old) + Len(v)
      /\ \A k \in 1..Len(old) : t[Len(u) + k] = old[k]
  BY <1>1, CutIs
<1>3. /\ at \in Nat /\ at + Len(p) <= Len(t)
      /\ \A k \in 1..Len(p) : t[at + k] = p[k]
  BY DEF At
<1>4. CASE Len(u) <= at /\ at + Len(p) <= Len(u) + Len(old)
  <2>1. PICK i \in Nat : at = Len(u) + i
    <3>1. at - Len(u) \in Nat /\ at = Len(u) + (at - Len(u))
      BY <1>1, <1>2, <1>3, <1>4
    <3> QED
      BY <3>1
  <2>2. i + Len(p) <= Len(old)
    BY <1>1, <1>2, <1>3, <1>4, <2>1
  <2>3. ASSUME NEW k \in 1..Len(p) PROVE old[i + k] = p[k]
    <3>1. i + k \in 1..Len(old) /\ Len(u) + (i + k) = at + k
      BY <1>1, <1>3, <2>1, <2>2
    <3> QED
      BY <1>2, <1>3, <3>1
  <2>4. Found(p, old)
    BY <1>1, <2>2, <2>3, FoundAt
  <2> QED
    BY <2>4 DEF Clear
<1>5. CASE at <= Len(u) /\ Len(u) + Len(old) <= at + Len(p)
  <2>1. PICK i \in Nat : Len(u) = at + i
    <3>1. Len(u) - at \in Nat /\ Len(u) = at + (Len(u) - at)
      BY <1>1, <1>2, <1>3, <1>5
    <3> QED
      BY <3>1
  <2>2. i + Len(old) <= Len(p)
    BY <1>1, <1>2, <1>3, <1>5, <2>1
  <2>3. ASSUME NEW k \in 1..Len(old) PROVE p[i + k] = old[k]
    <3>1. i + k \in 1..Len(p) /\ at + (i + k) = Len(u) + k
      BY <1>1, <1>3, <2>1, <2>2
    <3> QED
      BY <1>2, <1>3, <3>1
  <2>4. Found(old, p)
    BY <1>1, <2>2, <2>3, FoundAt
  <2> QED
    BY <2>4 DEF Clear
<1>6. CASE at < Len(u) /\ Len(u) < at + Len(p) /\ at + Len(p) < Len(u) + Len(old)
  <2>1. PICK i \in Nat : Len(u) = at + i
    <3>1. Len(u) - at \in Nat /\ Len(u) = at + (Len(u) - at)
      BY <1>1, <1>2, <1>3, <1>6
    <3> QED
      BY <3>1
  <2>2. PICK k \in 1..Len(p) - 1 : Len(p) = i + k
    <3>1. Len(p) - i \in 1..Len(p) - 1 /\ Len(p) = i + (Len(p) - i)
      BY <1>1, <1>2, <1>3, <1>6, <2>1
    <3> QED
      BY <3>1
  <2>3. k < Len(old) /\ at + Len(p) = Len(u) + k /\ Len(p) - k = i /\ k \in Nat
    BY <1>1, <1>2, <1>3, <1>6, <2>1, <2>2
  <2>4. ASSUME NEW n \in 1..k PROVE p[i + n] = old[0 + n]
    <3>1. i + n \in 1..Len(p) /\ 0 + n \in 1..Len(old) /\ at + (i + n) = Len(u) + (0 + n)
      BY <1>1, <1>3, <2>1, <2>2, <2>3
    <3> QED
      BY <1>2, <1>3, <3>1
  <2>5. SubSeq(p, i + 1, i + k) = SubSeq(old, 0 + 1, 0 + k)
    BY <1>1, <2>2, <2>3, <2>4, SamePart
  <2>6. Ends(k, p) = Starts(k, old)
    BY <1>1, <2>2, <2>3, <2>5 DEF Ends, Starts
  <2> QED
    BY <2>3, <2>6
<1>7. CASE Len(u) < at /\ at < Len(u) + Len(old) /\ Len(u) + Len(old) < at + Len(p)
  <2>1. PICK i \in Nat : at = Len(u) + i
    <3>1. at - Len(u) \in Nat /\ at = Len(u) + (at - Len(u))
      BY <1>1, <1>2, <1>3, <1>7
    <3> QED
      BY <3>1
  <2>2. PICK k \in 1..Len(p) - 1 : Len(old) = i + k
    <3>1. Len(old) - i \in 1..Len(p) - 1 /\ Len(old) = i + (Len(old) - i)
      BY <1>1, <1>2, <1>3, <1>7, <2>1
    <3> QED
      BY <3>1
  <2>3. k < Len(old) /\ at + k = Len(u) + Len(old) /\ Len(old) - k = i /\ k \in Nat
    BY <1>1, <1>2, <1>3, <1>7, <2>1, <2>2
  <2>4. ASSUME NEW n \in 1..k PROVE p[0 + n] = old[i + n]
    <3>1. 0 + n \in 1..Len(p) /\ i + n \in 1..Len(old) /\ Len(u) + (i + n) = at + (0 + n)
      BY <1>1, <1>3, <2>1, <2>2, <2>3
    <3> QED
      BY <1>2, <1>3, <3>1
  <2>5. SubSeq(p, 0 + 1, 0 + k) = SubSeq(old, i + 1, i + k)
    BY <1>1, <2>2, <2>3, <2>4, SamePart
  <2>6. Starts(k, p) = Ends(k, old)
    BY <1>1, <2>2, <2>3, <2>5 DEF Ends, Starts
  <2> QED
    BY <2>3, <2>6
<1> QED
  BY <1>1, <1>3, <1>4, <1>5, <1>6, <1>7

\* What was in a text is in it after a change, or the change has hit one of its edges.
LEMMA StillFound ==
    ASSUME NEW p \in Pattern, NEW old \in Pattern, NEW new \in Pattern, Clear(p, old),
           NEW u \in Text, NEW v \in Text,
           NEW t, Cut(t, u, old, v), NEW w, Cut(w, u, new, v), Found(p, t)
    PROVE  Found(p, w) \/ \E q \in Overlaps(p, old, new) : q \in Pattern /\ Found(q, w)
<1>1. /\ p \in Text /\ Len(p) \in Nat \ {0} /\ old \in Text /\ Len(old) \in Nat \ {0}
      /\ new \in Text /\ Len(new) \in Nat \ {0} /\ Len(u) \in Nat /\ Len(v) \in Nat
  BY EmptySeq DEF Pattern, Text
<1>2. /\ t \in Text /\ Len(t) = Len(u) + Len(old) + Len(v)
      /\ \A k \in 1..Len(u) : t[k] = u[k]
      /\ \A k \in 1..Len(v) : t[Len(u) + Len(old) + k] = v[k]
  BY <1>1, CutIs
<1>3. /\ w \in Text /\ Len(w) = Len(u) + Len(new) + Len(v)
      /\ \A k \in 1..Len(u) : w[k] = u[k]
      /\ \A k \in 1..Len(new) : w[Len(u) + k] = new[k]
      /\ \A k \in 1..Len(v) : w[Len(u) + Len(new) + k] = v[k]
  BY <1>1, CutIs
<1>4. PICK x \in Text, y \in Text : Cut(t, x, p, y)
  BY <1>2, FoundIs
<1>5. /\ Len(x) \in Nat /\ Len(y) \in Nat /\ Len(t) = Len(x) + Len(p) + Len(y)
      /\ \A k \in 1..Len(p) : t[Len(x) + k] = p[k]
  <2>1. Len(x) \in Nat /\ Len(y) \in Nat
    BY DEF Text
  <2> QED
    BY <1>1, <1>4, <2>1, CutIs
<1>6. CASE Len(x) + Len(p) <= Len(u)
  <2>1. ASSUME NEW k \in 1..Len(p) PROVE w[Len(x) + k] = p[k]
    <3>1. Len(x) + k \in 1..Len(u)
      BY <1>1, <1>5, <1>6
    <3> QED
      BY <1>2, <1>3, <1>5, <3>1
  <2>2. Len(x) + Len(p) <= Len(w)
    BY <1>1, <1>3, <1>5, <1>6
  <2> QED
    BY <1>3, <1>5, <2>1, <2>2, FoundAt
<1>7. CASE Len(x) >= Len(u) + Len(old)
  <2>1. PICK i \in Nat : Len(x) = Len(u) + Len(old) + i
    <3>1. Len(x) - (Len(u) + Len(old)) \in Nat
      BY <1>1, <1>5, <1>7
    <3>2. Len(x) = Len(u) + Len(old) + (Len(x) - (Len(u) + Len(old)))
      BY <1>1, <1>5
    <3> QED
      BY <3>1, <3>2
  <2> DEFINE at == Len(u) + Len(new) + i
  <2>2. ASSUME NEW k \in 1..Len(p) PROVE w[at + k] = p[k]
    <3>1. i + k \in 1..Len(v)
      BY <1>1, <1>2, <1>5, <2>1
    <3>2. at + k = Len(u) + Len(new) + (i + k) /\ Len(x) + k = Len(u) + Len(old) + (i + k)
      BY <1>1, <2>1
    <3> QED
      BY <1>2, <1>3, <1>5, <3>1, <3>2
  <2>3. at \in Nat /\ at + Len(p) <= Len(w)
    BY <1>1, <1>2, <1>3, <1>5, <2>1
  <2> HIDE DEF at
  <2> QED
    BY <1>3, <2>2, <2>3, FoundAt
<1>8. ASSUME NEW k \in 1..Len(p) - 1, k < Len(old), Len(x) + Len(p) = Len(u) + k, Ends(k, p) = Starts(k, old)
      PROVE  \E q \in Overlaps(p, old, new) : q \in Pattern /\ Found(q, w)
  <2> DEFINE n == Len(p) - k
             a == Starts(n, p)
             q == a \o new
  <2>1. n \in Nat /\ n <= Len(p) /\ Len(x) + n = Len(u)
    BY <1>1, <1>5, <1>8
  <2>2. a \in Text /\ Len(a) = n /\ \A j \in 1..n : a[j] = p[j]
    <3>1. SubSeq(p, 0 + 1, n) \in Text /\ Len(SubSeq(p, 0 + 1, n)) = n - 0
          /\ \A j \in 1..n - 0 : SubSeq(p, 0 + 1, n)[j] = p[0 + j]
      BY <1>1, <2>1, TextPart
    <3> QED
      BY <2>1, <3>1 DEF Starts
  <2>3. q \in Overlaps(p, old, new)
    BY <1>8 DEF Overlaps
  <2> HIDE DEF n, a
  <2>4. /\ q \in Text /\ Len(q) = n + Len(new)
        /\ \A j \in 1..n : q[j] = p[j]
        /\ \A j \in 1..Len(new) : q[n + j] = new[j]
    <3>1. /\ q \in Text /\ Len(q) = Len(a) + Len(new)
          /\ \A j \in 1..Len(a) : q[j] = a[j]
          /\ \A j \in 1..Len(new) : q[Len(a) + j] = new[j]
      BY <1>1, <2>2, TextJoin
    <3> QED
      BY <2>2, <3>1
  <2> HIDE DEF q
  <2>5. q \in Pattern
    <3>1. Len(q) # 0
      BY <1>1, <2>1, <2>4
    <3> QED
      BY <2>4, <3>1, EmptySeq DEF Pattern
  <2>6. ASSUME NEW j \in 1..Len(q) PROVE w[Len(x) + j] = q[j]
    <3>1. CASE j <= n
      <4>1. j \in 1..n /\ j \in 1..Len(p) /\ Len(x) + j \in 1..Len(u)
        BY <1>1, <1>5, <2>1, <2>4, <3>1
      <4> QED
        BY <1>2, <1>3, <1>5, <2>4, <4>1
    <3>2. CASE j > n
      <4>1. PICK i \in 1..Len(new) : j = n + i
        <5>1. j - n \in 1..Len(new) /\ j = n + (j - n)
          BY <1>1, <2>1, <2>4, <3>2
        <5> QED
          BY <5>1
      <4>2. Len(x) + j = Len(u) + i
        <5>1. Len(x) \in Nat /\ n \in Nat /\ i \in Nat /\ Len(x) + n = Len(u)
          BY <1>1, <1>5, <2>1, <4>1
        <5> QED
          BY ONLY <4>1, <5>1
      <4> QED
        BY <1>3, <2>4, <4>1, <4>2
    <3> QED
      BY <2>1, <2>4, <3>1, <3>2
  <2>7. Len(x) + Len(q) <= Len(w)
    BY <1>1, <1>3, <1>5, <2>1, <2>4
  <2>8. Found(q, w)
    BY <1>3, <1>5, <2>5, <2>6, <2>7, FoundAt
  <2> QED
    BY <2>3, <2>5, <2>8
<1>9. ASSUME NEW k \in 1..Len(p) - 1, k < Len(old), Len(x) + k = Len(u) + Len(old), Starts(k, p) = Ends(k, old)
      PROVE  \E q \in Overlaps(p, old, new) : q \in Pattern /\ Found(q, w)
  <2> DEFINE n == Len(p) - k
             a == Ends(n, p)
             q == new \o a
  <2>1. n \in Nat /\ k \in 0..Len(p) /\ Len(p) = k + n
    BY <1>1, <1>5, <1>9
  <2>2. a \in Text /\ Len(a) = n /\ \A j \in 1..n : a[j] = p[k + j]
    <3>1. SubSeq(p, k + 1, Len(p)) \in Text /\ Len(SubSeq(p, k + 1, Len(p))) = Len(p) - k
          /\ \A j \in 1..Len(p) - k : SubSeq(p, k + 1, Len(p))[j] = p[k + j]
      BY <1>1, <2>1, TextPart
    <3>2. Len(p) - n = k
      BY <1>1, <2>1
    <3> QED
      BY <2>1, <3>1, <3>2 DEF Ends
  <2>3. q \in Overlaps(p, old, new)
    BY <1>9 DEF Overlaps
  <2> HIDE DEF n, a
  <2>4. /\ q \in Text /\ Len(q) = Len(new) + n
        /\ \A j \in 1..Len(new) : q[j] = new[j]
        /\ \A j \in 1..n : q[Len(new) + j] = p[k + j]
    <3>1. /\ q \in Text /\ Len(q) = Len(new) + Len(a)
          /\ \A j \in 1..Len(new) : q[j] = new[j]
          /\ \A j \in 1..Len(a) : q[Len(new) + j] = a[j]
      BY <1>1, <2>2, TextJoin
    <3> QED
      BY <2>2, <3>1
  <2> HIDE DEF q
  <2>5. q \in Pattern
    <3>1. Len(q) # 0
      BY <1>1, <2>1, <2>4
    <3> QED
      BY <2>4, <3>1, EmptySeq DEF Pattern
  <2>6. ASSUME NEW j \in 1..Len(q) PROVE w[Len(u) + j] = q[j]
    <3>1. CASE j <= Len(new)
      <4>1. j \in 1..Len(new)
        BY <1>1, <3>1
      <4> QED
        BY <1>3, <2>4, <4>1
    <3>2. CASE j > Len(new)
      <4>1. PICK i \in 1..n : j = Len(new) + i
        <5>1. j - Len(new) \in 1..n /\ j = Len(new) + (j - Len(new))
          BY <1>1, <2>1, <2>4, <3>2
        <5> QED
          BY <5>1
      <4>2. i \in 1..Len(v) /\ k + i \in 1..Len(p)
        BY <1>1, <1>2, <1>5, <1>9, <2>1
      <4>3. Len(u) + j = Len(u) + Len(new) + i /\ Len(x) + (k + i) = Len(u) + Len(old) + i
        <5>1. /\ Len(x) \in Nat /\ Len(u) \in Nat /\ Len(new) \in Nat /\ Len(old) \in Nat
              /\ i \in Nat /\ k \in Nat /\ Len(x) + k = Len(u) + Len(old)
          BY <1>1, <1>5, <1>9, <2>1, <4>1
        <5> QED
          BY ONLY <4>1, <5>1
      <4> QED
        BY <1>2, <1>3, <1>5, <2>4, <4>1, <4>2, <4>3
    <3> QED
      BY <1>1, <2>1, <2>4, <3>1, <3>2
  <2>7. Len(u) + Len(q) <= Len(w)
    BY <1>1, <1>2, <1>3, <1>5, <1>9, <2>1, <2>4
  <2>8. Found(q, w)
    BY <1>1, <1>3, <2>5, <2>6, <2>7, FoundAt
  <2> QED
    BY <2>3, <2>5, <2>8
<1>10. At(p, t, Len(x))
  BY <1>1, <1>2, <1>5 DEF At
<1> QED
  BY <1>6, <1>7, <1>8, <1>9, <1>10, Where

\* The first match is a match.
LEMMA FirstMatch ==
    ASSUME NEW p \in Pattern, NEW t \in Text, Found(p, t)
    PROVE  \E i \in 0..Len(t) :
               /\ IndexFirstSubSeq(p, t) = i + 1
               /\ i + Len(p) <= Len(t) /\ SubSeq(t, i + 1, i + Len(p)) = p
<1>1. p \in Text /\ Len(p) \in Nat \ {0} /\ Len(t) \in Nat
  BY EmptySeq DEF Pattern, Text
<1> DEFINE In(i) == p \in SubSeqs(SubSeq(t, 1, i))
           First(i) == In(i) /\ \A j \in 0..i - 1 : ~In(j)
           last == CHOOSE i \in 0..Len(t) : First(i)
<1>2. \E i \in 0..Len(t) : First(i)
  <2> DEFINE S == {i \in 0..Len(t) : In(i)}
  <2>1. Len(t) \in S
    <3>1. SubSeq(t, 1, Len(t)) = t
      BY SubSeqFull DEF Text
    <3>2. In(Len(t))
      BY <3>1 DEF Found
    <3> QED
      BY <1>1, <3>2
  <2>2. PICK i \in S : \A j \in S : i <= j
    <3>1. S \in SUBSET Nat /\ S # {}
      BY <1>1, <2>1
    <3> HIDE DEF S
    <3> QED
      BY <3>1, LeastNumber
  <2>3. ASSUME NEW j \in 0..i - 1 PROVE ~In(j)
    <3>1. j \in 0..Len(t) /\ ~(i <= j)
      BY <1>1, <2>2
    <3> QED
      BY <2>2, <3>1
  <2> QED
    BY <2>2, <2>3
<1>3. last \in 0..Len(t) /\ First(last)
  BY <1>2
<1>4. IndexFirstSubSeq(p, t) = last - (Len(p) - 1)
  BY DEF IndexFirstSubSeq
<1> HIDE DEF last
<1>5. /\ SubSeq(t, 1, last) \in Text /\ Len(SubSeq(t, 1, last)) = last
      /\ \A k \in 1..last : SubSeq(t, 1, last)[k] = t[k]
  <2>1. /\ SubSeq(t, 0 + 1, last) \in Text /\ Len(SubSeq(t, 0 + 1, last)) = last - 0
        /\ \A k \in 1..last - 0 : SubSeq(t, 0 + 1, last)[k] = t[0 + k]
    BY <1>1, <1>3, TextPart
  <2> QED
    BY <1>1, <1>3, <2>1
<1>6. PICK i \in 0..last, j \in 0..last : p = SubSeq(SubSeq(t, 1, last), i + 1, j)
  <2>1. p \in SubSeqs(SubSeq(t, 1, last))
    BY <1>3
  <2> DEFINE s == SubSeq(t, 1, last)
  <2>2. Len(s) = last
    BY <1>5
  <2> HIDE DEF s
  <2>3. p \in SubSeqs(s)
    BY <2>1 DEF s
  <2>4. \E i, j \in 0..last : p = SubSeq(s, i + 1, j)
    BY <2>2, <2>3 DEF SubSeqs
  <2> QED
    BY <2>4 DEF s
<1>7. i < j /\ Len(p) = j - i
  <2>1. i < j
    BY <1>1, <1>3, <1>6, SubSeqEmpty, EmptySeq DEF Pattern
  <2>2. i \in 0..Len(SubSeq(t, 1, last)) /\ j \in i..Len(SubSeq(t, 1, last))
    BY <1>3, <1>5, <1>6, <2>1
  <2>3. Len(SubSeq(SubSeq(t, 1, last), i + 1, j)) = j - i
    BY <1>5, <2>2, TextPart
  <2> QED
    BY <1>6, <2>1, <2>3
<1>8. ASSUME NEW m \in j..last PROVE SubSeq(SubSeq(t, 1, m), i + 1, j) = SubSeq(t, i + 1, j)
  <2> DEFINE s == SubSeq(t, 1, m)
  <2>1. m \in 0..Len(t)
    BY <1>1, <1>3, <1>6
  <2>2. s \in Text /\ Len(s) = m /\ \A k \in 1..m : s[k] = t[k]
    <3>1. /\ SubSeq(t, 0 + 1, m) \in Text /\ Len(SubSeq(t, 0 + 1, m)) = m - 0
          /\ \A k \in 1..m - 0 : SubSeq(t, 0 + 1, m)[k] = t[0 + k]
      BY <1>1, <2>1, TextPart
    <3> QED
      BY <1>1, <2>1, <3>1
  <2> HIDE DEF s
  <2> DEFINE n == j - i
  <2>3. n \in Nat /\ i \in Nat /\ i + n = j /\ i + n <= Len(s) /\ i + n <= Len(t)
    BY <1>1, <1>3, <1>6, <1>7, <2>1, <2>2
  <2>4. \A k \in 1..n : s[i + k] = t[i + k]
    BY <1>6, <1>7, <2>2, <2>3
  <2> HIDE DEF n
  <2>5. SubSeq(s, i + 1, i + n) = SubSeq(t, i + 1, i + n)
    BY <2>2, <2>3, <2>4, SamePart
  <2> QED
    BY <2>3, <2>5 DEF s
<1>9. j = last
  <2> SUFFICES ASSUME j < last PROVE FALSE
    BY <1>3, <1>6
  <2>1. j \in j..last /\ last \in j..last /\ j \in 0..last - 1 /\ j \in 0..Len(t)
    BY <1>1, <1>3, <1>6
  <2>2. p = SubSeq(SubSeq(t, 1, j), i + 1, j)
    BY <1>6, <1>8, <2>1
  <2>3. Len(SubSeq(t, 1, j)) = j
    <3>1. Len(SubSeq(t, 0 + 1, j)) = j - 0
      BY <1>1, <2>1, TextPart
    <3> QED
      BY <1>6, <3>1
  <2>4. i \in 0..Len(SubSeq(t, 1, j)) /\ j \in 0..Len(SubSeq(t, 1, j))
    BY <1>3, <1>6, <1>7, <2>3
  <2>5. In(j)
    BY <2>2, <2>4 DEF SubSeqs
  <2> QED
    BY <1>3, <2>1, <2>5
<1>10. i \in 0..Len(t) /\ i + Len(p) = last /\ last - (Len(p) - 1) = i + 1 /\ last <= Len(t)
  BY <1>1, <1>3, <1>6, <1>7, <1>9
<1>11. SubSeq(t, i + 1, i + Len(p)) = p
  <2>1. last \in j..last
    BY <1>3, <1>9
  <2> QED
    BY <1>6, <1>8, <1>9, <1>10, <2>1
<1> QED
  BY <1>4, <1>10, <1>11

LEMMA ReplacedIs ==
    ASSUME NEW old \in Pattern, NEW new \in Pattern, NEW t \in Text, Found(old, t)
    PROVE  \E u, v \in Text : Cut(t, u, old, v) /\ Cut(ReplaceFirstSubSeq(new, old, t), u, new, v)
<1>1. old \in Text /\ Len(old) \in Nat \ {0} /\ Len(t) \in Nat
  BY EmptySeq DEF Pattern, Text
<1>2. PICK i \in 0..Len(t) :
          /\ IndexFirstSubSeq(old, t) = i + 1
          /\ i + Len(old) <= Len(t) /\ SubSeq(t, i + 1, i + Len(old)) = old
  BY FirstMatch
<1> DEFINE u == SubSeq(t, 1, i)
           j == i + Len(old)
           v == SubSeq(t, j + 1, Len(t))
<1>3. u \in Text
  <2>1. 0 \in 0..Len(t) /\ i \in 0..Len(t)
    BY <1>1
  <2>2. SubSeq(t, 0 + 1, i) \in Text
    BY <2>1, TextPart
  <2> QED
    BY <2>2
<1>4. v \in Text
  <2>1. j \in 0..Len(t) /\ Len(t) \in j..Len(t)
    BY <1>1, <1>2
  <2> QED
    BY <2>1, TextPart
<1>5. Cut(t, u, old, v)
  <2>1. j \in 0..Len(t) /\ 1 \in 1..Len(t) + 1 /\ i \in 1 - 1..Len(t) /\ j \in i..Len(t)
    BY <1>1, <1>2
  <2>2. t = SubSeq(t, 1, j) \o v
    BY <2>1, TextSplit
  <2>3. SubSeq(t, 1, i) \o SubSeq(t, i + 1, j) = SubSeq(t, 1, j)
    BY <2>1, ConcatAdjacentSubSeq DEF Text
  <2> QED
    BY <1>2, <2>2, <2>3 DEF Cut
<1>6. Cut(ReplaceFirstSubSeq(new, old, t), u, new, v)
  <2>1. ReplaceFirstSubSeq(new, old, t) = ReplaceSubSeqAt(i + 1, new, old, t)
    BY <1>2 DEF ReplaceFirstSubSeq, Found
  <2>2. (i + 1) - 1 = i /\ (i + 1) + Len(old) = j + 1
    BY <1>1, <1>2
  <2> QED
    BY <2>1, <2>2 DEF ReplaceSubSeqAt, Cut
<1> QED
  BY <1>3, <1>4, <1>5, <1>6

\* Where a text is, once a change has been made that cannot touch it, it was before.
LEMMA WasThere ==
    ASSUME NEW p \in Pattern, NEW old \in Pattern, NEW new \in Pattern, Apart(p, new),
           NEW u \in Text, NEW v \in Text, NEW t, Cut(t, u, old, v), NEW w, Cut(w, u, new, v),
           NEW i, At(p, w, i)
    PROVE  \E j :
               /\ At(p, t, j)
               /\ \/ j = i /\ j + Len(p) <= Len(u)
                  \/ j + Len(new) = i + Len(old) /\ j >= Len(u) + Len(old)
<1>1. /\ p \in Text /\ Len(p) \in Nat \ {0} /\ old \in Text /\ Len(old) \in Nat \ {0}
      /\ new \in Text /\ Len(new) \in Nat \ {0} /\ Len(u) \in Nat /\ Len(v) \in Nat
  BY EmptySeq DEF Pattern, Text
<1>2. /\ t \in Text /\ Len(t) = Len(u) + Len(old) + Len(v)
      /\ \A k \in 1..Len(u) : t[k] = u[k]
      /\ \A k \in 1..Len(v) : t[Len(u) + Len(old) + k] = v[k]
  BY <1>1, CutIs
<1>3. /\ w \in Text /\ Len(w) = Len(u) + Len(new) + Len(v)
      /\ \A k \in 1..Len(u) : w[k] = u[k]
      /\ \A k \in 1..Len(v) : w[Len(u) + Len(new) + k] = v[k]
  BY <1>1, CutIs
<1>4. i \in Nat /\ i + Len(p) <= Len(w)
  BY DEF At
<1>5. \A k \in 1..Len(p) : w[i + k] = p[k]
  BY DEF At
<1>6. \/ i + Len(p) <= Len(u)
      \/ i >= Len(u) + Len(new)
  <2>1. /\ Clear(p, new)
        /\ \A k \in 1..Len(p) - 1 : k < Len(new) =>
              Ends(k, p) # Starts(k, new) /\ Starts(k, p) # Ends(k, new)
    BY DEF Apart, Overlaps
  <2> QED
    BY <2>1, Where
<1>7. CASE i + Len(p) <= Len(u)
  <2>1. ASSUME NEW k \in 1..Len(p) PROVE t[i + k] = p[k]
    <3>1. i + k \in 1..Len(u)
      BY <1>1, <1>4, <1>7
    <3> QED
      BY <1>2, <1>3, <1>5, <3>1
  <2>2. i + Len(p) <= Len(t)
    BY <1>1, <1>2, <1>4, <1>7
  <2> QED
    BY <1>4, <1>7, <2>1, <2>2 DEF At
<1>8. CASE i >= Len(u) + Len(new)
  <2>1. PICK n \in Nat : i = Len(u) + Len(new) + n
    <3>1. i - (Len(u) + Len(new)) \in Nat /\ i = Len(u) + Len(new) + (i - (Len(u) + Len(new)))
      BY <1>1, <1>4, <1>8
    <3> QED
      BY <3>1
  <2> DEFINE j == Len(u) + Len(old) + n
  <2>2. /\ j \in Nat /\ j + Len(p) <= Len(t)
        /\ j + Len(new) = i + Len(old) /\ j >= Len(u) + Len(old)
    BY <1>1, <1>2, <1>3, <1>4, <2>1
  <2>3. ASSUME NEW k \in 1..Len(p) PROVE t[j + k] = p[k]
    <3>1. n + k \in 1..Len(v)
      BY <1>1, <1>3, <1>4, <2>1
    <3>2. j + k = Len(u) + Len(old) + (n + k) /\ i + k = Len(u) + Len(new) + (n + k)
      BY <1>1, <2>1
    <3> QED
      BY <1>2, <1>3, <1>5, <3>1, <3>2
  <2> HIDE DEF j
  <2>4. At(p, t, j)
    BY <2>2, <2>3 DEF At
  <2> QED
    BY <2>2, <2>4
<1> QED
  BY <1>6, <1>7, <1>8

LEMMA OnceStays ==
    ASSUME NEW p \in Pattern, NEW old \in Pattern, NEW new \in Pattern, Apart(p, new),
           NEW u \in Text, NEW v \in Text, NEW t, Cut(t, u, old, v), NEW w, Cut(w, u, new, v),
           Once(p, t)
    PROVE  Once(p, w)
<1>1. Len(p) \in Nat \ {0} /\ Len(old) \in Nat \ {0} /\ Len(new) \in Nat \ {0} /\ Len(u) \in Nat
  BY EmptySeq DEF Pattern, Text
<1>0. t \in Text /\ w \in Text
  BY CutIs DEF Pattern
<1> SUFFICES ASSUME NEW i, NEW j, At(p, w, i), At(p, w, j) PROVE i = j
  <2>1. ASSUME NEW i \in 0..Len(w) - Len(p), SubSeq(w, i + 1, i + Len(p)) = p PROVE At(p, w, i)
    BY <1>0, <2>1, AtIs
  <2> QED
    BY <2>1 DEF Once
<1>2. PICK a :
          /\ At(p, t, a)
          /\ \/ a = i /\ a + Len(p) <= Len(u)
             \/ a + Len(new) = i + Len(old) /\ a >= Len(u) + Len(old)
  BY WasThere
<1>3. PICK b :
          /\ At(p, t, b)
          /\ \/ b = j /\ b + Len(p) <= Len(u)
             \/ b + Len(new) = j + Len(old) /\ b >= Len(u) + Len(old)
  BY WasThere
<1>4. a = b
  BY <1>0, <1>2, <1>3, AtIs DEF Once
<1>5. i \in Nat /\ j \in Nat /\ a \in Nat
  BY <1>2 DEF At
<1> QED
  BY <1>1, <1>2, <1>3, <1>4, <1>5

\* The one place of a text is gone once it is changed.
LEMMA OnceGone ==
    ASSUME NEW p \in Pattern, NEW new \in Pattern, Apart(p, new), NEW u \in Text, NEW v \in Text,
           NEW t, Cut(t, u, p, v), NEW w, Cut(w, u, new, v), Once(p, t)
    PROVE  ~Found(p, w)
<1> SUFFICES ASSUME Found(p, w) PROVE FALSE
  OBVIOUS
<1>1. /\ p \in Text /\ Len(p) \in Nat \ {0} /\ new \in Text /\ Len(new) \in Nat \ {0}
      /\ Len(u) \in Nat /\ Len(v) \in Nat
  BY EmptySeq DEF Pattern, Text
<1>2. /\ t \in Text /\ Len(t) = Len(u) + Len(p) + Len(v)
      /\ \A k \in 1..Len(p) : t[Len(u) + k] = p[k]
  BY <1>1, CutIs
<1>3. w \in Text
  BY <1>1, CutIs
<1>4. PICK i \in 0..Len(w) : i + Len(p) <= Len(w) /\ SubSeq(w, i + 1, i + Len(p)) = p
  BY <1>3, FirstMatch
<1>5. At(p, w, i)
  <2>1. Len(w) \in Nat
    BY <1>3 DEF Text
  <2>2. i \in 0..Len(w) - Len(p)
    BY <1>1, <1>4, <2>1
  <2> QED
    BY <1>3, <1>4, <2>2, AtIs
<1>6. PICK a :
          /\ At(p, t, a)
          /\ \/ a = i /\ a + Len(p) <= Len(u)
             \/ a + Len(new) = i + Len(p) /\ a >= Len(u) + Len(p)
  BY <1>5, WasThere
<1>7. At(p, t, Len(u))
  BY <1>1, <1>2 DEF At
<1>8. a = Len(u)
  BY <1>2, <1>6, <1>7, AtIs DEF Once
<1> QED
  BY <1>1, <1>6, <1>8

-----------------------------------------------------------------------------
(* What no change names, and what does not decode. *)

LEMMA WithoutIs ==
    ASSUME NEW T, NEW V, V = Seq(T), NEW marks, NEW t \in V
    PROVE  \E f \in [0..Len(t) -> V] :
               /\ f[0] = <<>>
               /\ \A n \in 1..Len(t) :
                     f[n] = IF t[n] \in marks THEN f[n - 1] ELSE Append(f[n - 1], t[n])
               /\ Without(marks, t) = f[Len(t)]
<1> DEFINE N == Len(t)
           Next1(n, x) == IF t[n] \in marks THEN x ELSE Append(x, t[n])
           Body(g) == [n \in 0..N |-> IF n = 0 THEN <<>>
                                      ELSE IF t[n] \in marks THEN g[n - 1] ELSE Append(g[n - 1], t[n])]
           h == [n \in 1..N |-> [x \in V |-> Next1(n, x)]]
           without == CHOOSE g : g = Body(g)
<1>1. N \in Nat /\ \A n \in 1..N : t[n] \in T
  BY ElementOfSeq
<1>2. <<>> \in V /\ \A x \in V, e \in T : Append(x, e) \in V
  BY EmptySeq, AppendProperties
<1>3. h \in [1..N -> [V -> V]]
  BY <1>1, <1>2
<1>4. Without(marks, t) = without[N]
  BY DEF Without
<1> HIDE DEF N
<1>5. PICK f \in [0..N -> V] : f[0] = <<>> /\ \A n \in 1..N : f[n] = h[n][f[n - 1]]
  <2> HIDE DEF h
  <2>1. N \in Nat /\ <<>> \in V
    BY <1>1, <1>2
  <2> QED
    BY ONLY <2>1, <1>3, Recursion
<1>6. \A n \in 1..N : f[n] = Next1(n, f[n - 1])
  <2>1. \A n \in 1..N : f[n - 1] \in V
    BY <1>1
  <2> QED
    BY <1>5, <2>1
<1>7. f = Body(f)
  <2>1. f = [n \in 0..N |-> f[n]]
    BY <1>5
  <2>2. \A n \in 0..N : f[n] = IF n = 0 THEN <<>>
                               ELSE IF t[n] \in marks THEN f[n - 1] ELSE Append(f[n - 1], t[n])
    <3> SUFFICES ASSUME NEW n \in 0..N, n # 0
                 PROVE  f[n] = IF t[n] \in marks THEN f[n - 1] ELSE Append(f[n - 1], t[n])
      BY <1>5
    <3>1. n \in 1..N
      BY <1>1
    <3> QED
      BY <1>6, <3>1
  <2> QED
    BY <2>1, <2>2
<1>8. without = Body(without)
  <2> HIDE DEF Body
  <2> QED
    BY <1>7
<1> HIDE DEF without, h
<1>9. /\ DOMAIN without = 0..N /\ without[0] = <<>>
      /\ \A n \in 1..N : without[n] = Next1(n, without[n - 1])
  <2> DEFINE g == Body(without)
  <2>1. /\ DOMAIN g = 0..N /\ g[0] = <<>>
        /\ \A n \in 1..N : g[n] = Next1(n, without[n - 1])
    BY <1>1
  <2> HIDE DEF g
  <2>2. without = g
    BY <1>8 DEF g
  <2> QED
    BY <2>1, <2>2
<1>10. \A n \in 0..N : without[n] \in V
  <2> DEFINE S == {n \in Nat : n <= N => without[n] \in V}
  <2>1. 0 \in S
    BY <1>2, <1>9
  <2>2. ASSUME NEW n \in Nat, n \in S PROVE n + 1 \in S
    <3> SUFFICES ASSUME n + 1 <= N PROVE without[n + 1] \in V
      OBVIOUS
    <3>1. n + 1 \in 1..N /\ (n + 1) - 1 = n /\ without[n] \in V
      BY <1>1, <2>2
    <3> QED
      BY <1>1, <1>2, <1>9, <3>1
  <2> HIDE DEF S
  <2>3. Nat \subseteq S
    BY <2>1, <2>2, Induction
  <2> QED
    BY <1>1, <2>3 DEF S
<1>11. without \in [0..N -> V]
  <2>1. without = [n \in 0..N |-> without[n]]
    BY <1>8
  <2> QED
    BY <1>10, <2>1
<1> QED
  BY <1>4, <1>9, <1>11 DEF N

LEMMA UnnamedIs ==
    ASSUME NEW t \in Text
    PROVE  \E f \in [0..Len(t) -> Text] :
               /\ f[0] = <<>>
               /\ \A n \in 1..Len(t) :
                     f[n] = IF t[n] \in Named THEN f[n - 1] ELSE Append(f[n - 1], t[n])
               /\ Unnamed(t) = f[Len(t)]
<1>1. Text = Seq(Tokens) /\ t \in Text
  BY DEF Text
<1>w. PICK w : w = Without(Named, t)
  OBVIOUS
<1>2. PICK f \in [0..Len(t) -> Text] :
          /\ f[0] = <<>>
          /\ \A n \in 1..Len(t) : f[n] = IF t[n] \in Named THEN f[n - 1] ELSE Append(f[n - 1], t[n])
          /\ w = f[Len(t)]
  BY ONLY <1>1, <1>w, WithoutIs
<1> QED
  BY <1>w, <1>2 DEF Unnamed

\* What a run reads is a text, and a text is read as it is.
LEMMA DecodedIs ==
    ASSUME NEW t \in Content
    PROVE  Decoded(t) \in Text
<1>1. Content = Seq(Tokens \cup Undecodable) /\ t \in Content /\ Len(t) \in Nat
  BY DEF Content
<1>w. PICK w : w = Without(Undecodable, t)
  OBVIOUS
<1>2. PICK f \in [0..Len(t) -> Content] :
          /\ f[0] = <<>>
          /\ \A n \in 1..Len(t) :
                f[n] = IF t[n] \in Undecodable THEN f[n - 1] ELSE Append(f[n - 1], t[n])
          /\ w = f[Len(t)]
  BY ONLY <1>1, <1>w, WithoutIs
<1> DEFINE S == {n \in Nat : n <= Len(t) => f[n] \in Seq(Tokens)}
<1>3. 0 \in S
  BY <1>2, EmptySeq
<1>4. ASSUME NEW n \in Nat, n \in S PROVE n + 1 \in S
  <2> SUFFICES ASSUME n + 1 <= Len(t) PROVE f[n + 1] \in Seq(Tokens)
    OBVIOUS
  <2>1. n + 1 \in 1..Len(t) /\ (n + 1) - 1 = n /\ f[n] \in Seq(Tokens)
    BY <1>1, <1>4
  <2>2. t[n + 1] \in Tokens \cup Undecodable
    BY <1>1, <2>1, ElementOfSeq
  <2>3. Append(f[n], t[n + 1]) \in Seq(Tokens) \/ t[n + 1] \in Undecodable
    BY <2>1, <2>2, AppendProperties
  <2> QED
    BY <1>2, <2>1, <2>3
<1> HIDE DEF S
<1>5. Nat \subseteq S
  BY <1>3, <1>4, Induction
<1> QED
  BY <1>w, <1>1, <1>2, <1>5 DEF S, Decoded, Text

LEMMA TextDecoded ==
    ASSUME NEW t \in Text
    PROVE  t \in Content /\ Decoded(t) = t
<1>1. Text = Seq(Tokens) /\ t \in Text /\ Len(t) \in Nat /\ \A n \in 1..Len(t) : t[n] \in Tokens
  BY ElementOfSeq DEF Text
<1>w. PICK w : w = Without(Undecodable, t)
  OBVIOUS
<1>2. PICK f \in [0..Len(t) -> Text] :
          /\ f[0] = <<>>
          /\ \A n \in 1..Len(t) :
                f[n] = IF t[n] \in Undecodable THEN f[n - 1] ELSE Append(f[n - 1], t[n])
          /\ w = f[Len(t)]
  BY ONLY <1>1, <1>w, WithoutIs
<1>3. \A n \in 1..Len(t) : f[n] = Append(f[n - 1], t[n])
  BY <1>1, <1>2, PatchesAssumption
<1> DEFINE S == {n \in Nat : n <= Len(t) =>
                      Len(f[n]) = n /\ \A i \in 1..n : f[n][i] = t[i]}
<1>4. 0 \in S
  BY <1>2
<1>5. ASSUME NEW n \in Nat, n \in S PROVE n + 1 \in S
  <2> SUFFICES ASSUME n + 1 <= Len(t)
               PROVE  Len(f[n + 1]) = n + 1 /\ \A i \in 1..n + 1 : f[n + 1][i] = t[i]
    OBVIOUS
  <2>1. /\ n + 1 \in 1..Len(t) /\ (n + 1) - 1 = n /\ f[n] \in Seq(Tokens)
        /\ Len(f[n]) = n /\ \A i \in 1..n : f[n][i] = t[i]
    BY <1>1, <1>2, <1>5
  <2>2. f[n + 1] = Append(f[n], t[n + 1]) /\ t[n + 1] \in Tokens
    BY <1>1, <1>3, <2>1
  <2>3. Len(f[n + 1]) = n + 1 /\ f[n + 1][n + 1] = t[n + 1] /\ \A i \in 1..n : f[n + 1][i] = f[n][i]
    BY <2>1, <2>2, AppendProperties
  <2>4. ASSUME NEW i \in 1..n + 1 PROVE f[n + 1][i] = t[i]
    <3>1. i \in 1..n \/ i = n + 1
      OBVIOUS
    <3> QED
      BY <2>1, <2>3, <3>1
  <2> QED
    BY <2>3, <2>4
<1> HIDE DEF S
<1>6. Nat \subseteq S
  BY <1>4, <1>5, Induction
<1>7. f[Len(t)] \in Seq(Tokens) /\ Len(f[Len(t)]) = Len(t) /\ \A i \in 1..Len(t) : f[Len(t)][i] = t[i]
  BY <1>1, <1>2, <1>6 DEF S
<1>8. f[Len(t)] = t
  BY <1>1, <1>7, SeqEqual
<1>9. t \in Content
  BY <1>1 DEF Content
<1> QED
  BY <1>w, <1>2, <1>8, <1>9 DEF Decoded

\* What two texts have together that no change names is what each of them has.
LEMMA UnnamedJoin ==
    ASSUME NEW s \in Text, NEW t \in Text
    PROVE  Unnamed(s \o t) = Unnamed(s) \o Unnamed(t) /\ Unnamed(s) \in Text
<1>1. Len(s) \in Nat /\ Len(t) \in Nat
  BY DEF Text
<1> DEFINE w == s \o t
<1>2. /\ w \in Text /\ Len(w) = Len(s) + Len(t)
      /\ \A i \in 1..Len(s) : w[i] = s[i]
      /\ \A i \in 1..Len(t) : w[Len(s) + i] = t[i]
  BY TextJoin
<1> HIDE DEF w
<1>3. PICK f \in [0..Len(s) -> Text] :
          /\ f[0] = <<>>
          /\ \A n \in 1..Len(s) : f[n] = IF s[n] \in Named THEN f[n - 1] ELSE Append(f[n - 1], s[n])
          /\ Unnamed(s) = f[Len(s)]
  BY UnnamedIs
<1>4. PICK g \in [0..Len(t) -> Text] :
          /\ g[0] = <<>>
          /\ \A n \in 1..Len(t) : g[n] = IF t[n] \in Named THEN g[n - 1] ELSE Append(g[n - 1], t[n])
          /\ Unnamed(t) = g[Len(t)]
  BY UnnamedIs
<1>5. PICK e \in [0..Len(w) -> Text] :
          /\ e[0] = <<>>
          /\ \A n \in 1..Len(w) : e[n] = IF w[n] \in Named THEN e[n - 1] ELSE Append(e[n - 1], w[n])
          /\ Unnamed(w) = e[Len(w)]
  BY <1>2, UnnamedIs
<1>6. \A n \in 0..Len(s) : e[n] = f[n]
  <2> DEFINE S == {n \in Nat : n <= Len(s) => e[n] = f[n]}
  <2>1. 0 \in S
    BY <1>3, <1>5
  <2>2. ASSUME NEW n \in Nat, n \in S PROVE n + 1 \in S
    <3> SUFFICES ASSUME n + 1 <= Len(s) PROVE e[n + 1] = f[n + 1]
      OBVIOUS
    <3>1. n + 1 \in 1..Len(s) /\ n + 1 \in 1..Len(w) /\ (n + 1) - 1 = n /\ e[n] = f[n]
      BY <1>1, <1>2, <2>2
    <3>2. w[n + 1] = s[n + 1]
      BY <1>2, <3>1
    <3> QED
      BY <1>3, <1>5, <3>1, <3>2
  <2> HIDE DEF S
  <2>3. Nat \subseteq S
    BY <2>1, <2>2, Induction
  <2> QED
    BY <1>1, <2>3 DEF S
<1>7. Unnamed(s) = f[Len(s)] /\ f[Len(s)] \in Text
  BY <1>1, <1>3
<1>8. \A n \in 0..Len(t) : e[Len(s) + n] = f[Len(s)] \o g[n]
  <2> DEFINE a == f[Len(s)]
             S == {n \in Nat : n <= Len(t) => e[Len(s) + n] = a \o g[n]}
  <2>0. a \in Text
    BY <1>7
  <2>1. 0 \in S
    <3>1. e[Len(s) + 0] = a
      BY <1>1, <1>6
    <3>2. a \o <<>> = a
      BY <2>0, ConcatEmptySeq DEF Text
    <3> QED
      BY <1>4, <3>1, <3>2
  <2> HIDE DEF a
  <2>2. ASSUME NEW n \in Nat, n \in S PROVE n + 1 \in S
    <3> SUFFICES ASSUME n + 1 <= Len(t) PROVE e[Len(s) + (n + 1)] = a \o g[n + 1]
      OBVIOUS
    <3>1. /\ n + 1 \in 1..Len(t) /\ (n + 1) - 1 = n /\ e[Len(s) + n] = a \o g[n]
          /\ Len(s) + (n + 1) \in 1..Len(w) /\ (Len(s) + (n + 1)) - 1 = Len(s) + n
      BY <1>1, <1>2, <2>2
    <3>2. w[Len(s) + (n + 1)] = t[n + 1] /\ t[n + 1] \in Tokens
      BY <1>2, <3>1, ElementOfSeq DEF Text
    <3> DEFINE x == t[n + 1]
               b == g[n]
    <3>3. b \in Text
      BY <1>1
    <3>4. e[Len(s) + (n + 1)] = IF x \in Named THEN a \o b ELSE Append(a \o b, x)
      BY <1>5, <3>1, <3>2
    <3>5. g[n + 1] = IF x \in Named THEN b ELSE Append(b, x)
      BY <1>4, <3>1
    <3> HIDE DEF x, b
    <3>6. Append(a \o b, x) = a \o Append(b, x)
      <4>1. x \in Tokens
        BY <3>2 DEF x
      <4>2. <<x>> \in Text /\ a \o b \in Text
        BY <2>0, <3>3, <4>1, TextJoin DEF Text
      <4>3. Append(a \o b, x) = (a \o b) \o <<x>> /\ Append(b, x) = b \o <<x>>
        BY <3>3, <4>1, <4>2, AppendIsConcat DEF Text
      <4>4. (a \o b) \o <<x>> = a \o (b \o <<x>>)
        <5>1. Join(Join(a, b), <<x>>) = Join(a, Join(b, <<x>>))
          BY <2>0, <3>3, <4>2, JoinAssociative
        <5> QED
          BY <5>1 DEF Join
      <4> QED
        BY <4>3, <4>4
    <3> QED
      BY <3>4, <3>5, <3>6
  <2> HIDE DEF S
  <2>3. Nat \subseteq S
    BY <2>1, <2>2, Induction
  <2> QED
    BY <1>1, <2>3 DEF S, a
<1>9. Unnamed(w) = f[Len(s)] \o g[Len(t)]
  BY <1>1, <1>2, <1>5, <1>8
<1> QED
  BY <1>3, <1>4, <1>7, <1>9 DEF w

\* A text of which every token is named has nothing else.
LEMMA UnnamedNone ==
    ASSUME NEW t \in Text, \A i \in 1..Len(t) : t[i] \in Named
    PROVE  Unnamed(t) = <<>>
<1>1. Len(t) \in Nat
  BY DEF Text
<1>2. PICK f \in [0..Len(t) -> Text] :
          /\ f[0] = <<>>
          /\ \A n \in 1..Len(t) : f[n] = IF t[n] \in Named THEN f[n - 1] ELSE Append(f[n - 1], t[n])
          /\ Unnamed(t) = f[Len(t)]
  BY UnnamedIs
<1> DEFINE S == {n \in Nat : n <= Len(t) => f[n] = <<>>}
<1>3. 0 \in S
  BY <1>2
<1>4. ASSUME NEW n \in Nat, n \in S PROVE n + 1 \in S
  <2> SUFFICES ASSUME n + 1 <= Len(t) PROVE f[n + 1] = <<>>
    OBVIOUS
  <2>1. n + 1 \in 1..Len(t) /\ (n + 1) - 1 = n /\ f[n] = <<>>
    BY <1>1, <1>4
  <2> QED
    BY <1>2, <2>1
<1> HIDE DEF S
<1>5. Nat \subseteq S
  BY <1>3, <1>4, Induction
<1> QED
  BY <1>1, <1>2, <1>5 DEF S

-----------------------------------------------------------------------------
(* One change in a text. *)

Stage == [text : Text, modified : BOOLEAN, failed : SUBSET Changes]

LEMMA PlacesAre ==
    /\ DOMAIN Parts = 1..Len(Parts) /\ Len(Parts) \in Nat \ {0}
    /\ \A i \in DOMAIN Parts :
          /\ Len(Parts[i].changes) \in Nat /\ DOMAIN Parts[i].changes = 1..Len(Parts[i].changes)
          /\ \A k \in 1..Len(Parts[i].changes) : <<i, k>> \in Places
    /\ \A a \in Places :
          /\ a[1] \in DOMAIN Parts /\ a[2] \in 1..Len(Parts[a[1]].changes) /\ a = <<a[1], a[2]>>
          /\ Change(a).orig \in Pattern /\ Change(a).mod \in Pattern /\ Change(a) \in Changes
<1> DEFINE Edit == [orig : Pattern, mod : Pattern]
           Piece == [file : Files, changes : Seq(Edit)]
<1>1. Parts \in Seq(Piece) /\ Parts # <<>>
  BY PatchesAssumption
<1>2. /\ DOMAIN Parts = 1..Len(Parts) /\ Len(Parts) \in Nat \ {0}
      /\ \A i \in DOMAIN Parts : Parts[i] \in Piece
  BY <1>1, LenProperties, EmptySeq, ElementOfSeq
<1>3. ASSUME NEW i \in DOMAIN Parts
      PROVE  /\ Len(Parts[i].changes) \in Nat /\ DOMAIN Parts[i].changes = 1..Len(Parts[i].changes)
             /\ \A k \in 1..Len(Parts[i].changes) :
                   <<i, k>> \in Places /\ Parts[i].changes[k] \in Edit
  <2> DEFINE cs == Parts[i].changes
  <2>1. cs \in Seq(Edit)
    BY <1>2
  <2>2. Len(cs) \in Nat /\ DOMAIN cs = 1..Len(cs) /\ \A k \in 1..Len(cs) : cs[k] \in Edit
    <3> HIDE DEF cs, Edit
    <3> QED
      BY <2>1, LenProperties, ElementOfSeq
  <2> QED
    BY <2>2 DEF Places
<1>4. ASSUME NEW a \in Places
      PROVE  /\ a[1] \in DOMAIN Parts /\ a[2] \in 1..Len(Parts[a[1]].changes) /\ a = <<a[1], a[2]>>
             /\ Change(a).orig \in Pattern /\ Change(a).mod \in Pattern /\ Change(a) \in Changes
  <2>1. PICK i \in DOMAIN Parts : a \in {i} \X DOMAIN Parts[i].changes
    BY DEF Places
  <2>2. a[1] = i /\ a[2] \in 1..Len(Parts[i].changes) /\ a = <<a[1], a[2]>>
    BY <1>3, <2>1
  <2>3. Change(a) \in Edit
    BY <1>3, <2>2 DEF Change
  <2> QED
    BY <2>1, <2>2, <2>3 DEF Changes
<1> QED
  BY <1>2, <1>3, <1>4

LEMMA StepIs ==
    ASSUME NEW now \in Stage, NEW b \in Places
    PROVE  /\ Step(now, Change(b)) \in Stage
           /\ Found(Change(b).mod, now.text) => Step(now, Change(b)) = now
           /\ ~Found(Change(b).mod, now.text) /\ ~Found(Change(b).orig, now.text) =>
                 /\ Step(now, Change(b)).text = now.text
                 /\ Step(now, Change(b)).modified = now.modified
                 /\ Step(now, Change(b)).failed = now.failed \cup {Change(b)}
           /\ ~Found(Change(b).mod, now.text) /\ Found(Change(b).orig, now.text) =>
                 /\ Step(now, Change(b)).modified
                 /\ Step(now, Change(b)).failed = now.failed
                 /\ \E u, v \in Text :
                       /\ Cut(now.text, u, Change(b).orig, v)
                       /\ Cut(Step(now, Change(b)).text, u, Change(b).mod, v)
<1> DEFINE c == Change(b)
<1>1. c.orig \in Pattern /\ c.mod \in Pattern /\ c \in Changes
  BY PlacesAre
<1> HIDE DEF c
<1>2. now.text \in Text /\ now.modified \in BOOLEAN /\ now.failed \subseteq Changes
  BY DEF Stage
<1>3. CASE Found(c.mod, now.text)
  <2>1. Step(now, c) = now
    BY <1>3 DEF Step, Status
  <2> QED
    BY <1>3, <2>1 DEF c
<1>4. CASE ~Found(c.mod, now.text) /\ ~Found(c.orig, now.text)
  <2>1. Status(now.text, c) = "NOT_FOUND_OR_CONFLICT"
    BY <1>4 DEF Status
  <2>2. Step(now, c) = [now EXCEPT !.failed = @ \cup {c}]
    BY <2>1 DEF Step
  <2>3. Step(now, c) \in Stage
    BY <1>1, <2>2 DEF Stage
  <2> QED
    BY <1>4, <2>2, <2>3 DEF c, Stage
<1>5. CASE ~Found(c.mod, now.text) /\ Found(c.orig, now.text)
  <2>1. Status(now.text, c) = "READY_TO_PATCH"
    BY <1>5 DEF Status
  <2>2. Step(now, c) = [now EXCEPT !.text = Replaced(@, c), !.modified = TRUE]
    BY <2>1 DEF Step
  <2>3. PICK u \in Text, v \in Text :
            Cut(now.text, u, c.orig, v) /\ Cut(Replaced(now.text, c), u, c.mod, v)
    BY <1>1, <1>2, <1>5, ReplacedIs DEF Replaced
  <2>4. Replaced(now.text, c) \in Text
    BY <1>1, <2>3, CutIs DEF Pattern
  <2>5. Step(now, c) \in Stage
    BY <2>2, <2>4 DEF Stage
  <2>6. /\ Step(now, c).text = Replaced(now.text, c)
        /\ Step(now, c).modified = TRUE /\ Step(now, c).failed = now.failed
    BY <2>2 DEF Stage
  <2> QED
    BY <1>5, <2>3, <2>5, <2>6 DEF c
<1> QED
  BY <1>3, <1>4, <1>5 DEF c

Writing   == run.pc \in {"write", "close"}
Memory(f) == IF Writing /\ f = Part.file THEN run.text ELSE Decoded(tree[f])

PartInv ==
    /\ run.pc # "idle" => run.part # 0
    /\ Writing => Part.file \in DOMAIN tree

\* The parts that this run has been through, or the last one, if it was not followed by another.
DoneWith(i) ==
    \/ run.pc # "idle" /\ i < run.part
    \/ Writing /\ i = run.part
    \/ run.pc = "idle" /\ settled

\* What the assumptions on reworked changes and on what never comes up say of a text of file f.
Sound(f, text) ==
    /\ \A a \in Places : Reworked(a) /\ File(a) = f =>
          /\ Once(Change(a).orig, text)
          /\ Found(Change(a).mod, text) => ~Found(Change(a).orig, text)
    /\ \A q \in Pattern : Never(f, q) => ~Found(q, text)
SoundInv ==
    /\ \A f \in DOMAIN tree : Sound(f, Decoded(tree[f]))
    /\ Writing => Sound(Part.file, run.text)

Accounted(a, text, reported) ==
    \/ Change(a) \in reported
    \/ Found(Change(a).mod, text)
    \/ \E b \in Places : Reworks(b, a) /\ Found(Change(b).mod, text)
AccountedInv ==
    \A a \in Places : DoneWith(a[1]) =>
        IF File(a) \in DOMAIN tree THEN Accounted(a, Memory(File(a)), failed) ELSE Change(a) \in failed

\* A change that a further run would not make.
Quiet(a, text) == Found(Change(a).mod, text) \/ ~Found(Change(a).orig, text)
\* The parts that a run which goes on has made its changes of.
Quieted(i) == run.pc # "idle" /\ DoneWith(i) /\ i \notin run.skipped
QuietInv ==
    /\ whole => ~Writing
    /\ \A a \in Places : (whole \/ Quieted(a[1])) /\ File(a) \in DOMAIN tree =>
          Quiet(a, Memory(File(a)))

\* A change to file f finds in a text what it looks for.
Fitted(f, text) == \E a \in Places : File(a) = f /\ Found(Change(a).orig, text)

\* A text that a run may have made of the file as it came.
Kin(f, text) ==
    /\ text \in Text /\ Fitted(f, Decoded(upstream[f]))
    /\ Unnamed(text) = Unnamed(Decoded(upstream[f]))
RestInv ==
    \A f \in DOMAIN tree \ torn :
        /\ (run.pc = "close" /\ f = Part.file) \/ tree[f] = upstream[f] \/ Kin(f, tree[f])
        /\ Writing /\ f = Part.file => Kin(f, run.text)

IInv == TypeOK /\ PartInv /\ SoundInv /\ AccountedInv /\ QuietInv /\ RestInv

Runs == [pc : {"idle", "open", "write", "close"}, part : 0..Len(Parts), text : Text,
         skipped : SUBSET DOMAIN Parts]

LEMMA StaysFound ==
    ASSUME NEW p \in Pattern, NEW old \in Pattern, NEW new \in Pattern, Stays(p, old, new),
           NEW u \in Text, NEW v \in Text, NEW t, Cut(t, u, old, v), NEW w, Cut(w, u, new, v), Found(p, t)
    PROVE  Found(p, w)
<1>1. Clear(p, old) /\ \A q \in Overlaps(p, old, new) : Found(p, q)
  BY DEF Stays
<1>2. Found(p, w) \/ \E q \in Overlaps(p, old, new) : q \in Pattern /\ Found(q, w)
  BY <1>1, StillFound
<1>3. w \in Text
  BY CutIs DEF Pattern
<1> QED
  BY <1>1, <1>2, <1>3, FoundThrough

\* Undone, a change brings the old text back: what it does not make was there before.
LEMMA StaysUnfound ==
    ASSUME NEW p \in Pattern, NEW old \in Pattern, NEW new \in Pattern, Stays(p, new, old),
           NEW u \in Text, NEW v \in Text, NEW t, Cut(t, u, old, v), NEW w, Cut(w, u, new, v), ~Found(p, t)
    PROVE  ~Found(p, w)
BY StaysFound

LEMMA StepUnnamed ==
    ASSUME NEW now \in Stage, NEW b \in Places
    PROVE  Unnamed(Step(now, Change(b)).text) = Unnamed(now.text)
<1> DEFINE c == Change(b)
           w == Step(now, c).text
<1>1. c.orig \in Text /\ c.mod \in Text /\ c \in Changes
  BY PlacesAre DEF Pattern
<1>2. Unnamed(c.orig) = <<>> /\ Unnamed(c.mod) = <<>>
  <2> HIDE DEF c
  <2>1. ASSUME NEW s \in {c.orig, c.mod} PROVE Unnamed(s) = <<>>
    <3>1. s \in Text /\ DOMAIN s = 1..Len(s)
      BY <1>1, LenProperties DEF Text
    <3>2. Range(s) \subseteq Named
      BY <1>1 DEF Named
    <3>3. \A i \in 1..Len(s) : s[i] \in Named
      BY <3>1, <3>2 DEF Range
    <3> QED
      BY <3>1, <3>3, UnnamedNone
  <2> QED
    BY <2>1
<1>3. ASSUME NEW u \in Text, NEW v \in Text, NEW s \in Text, Unnamed(s) = <<>>, NEW t, Cut(t, u, s, v)
      PROVE  Unnamed(t) = Unnamed(u) \o Unnamed(v)
  <2>1. u \o s \in Text /\ t = (u \o s) \o v
    BY <1>3, TextJoin DEF Cut
  <2>2. Unnamed(t) = Unnamed(u \o s) \o Unnamed(v) /\ Unnamed(u \o s) = Unnamed(u) \o Unnamed(s)
    BY <2>1, UnnamedJoin
  <2>3. Unnamed(u) \o <<>> = Unnamed(u)
    BY UnnamedJoin, ConcatEmptySeq DEF Text
  <2> QED
    BY <1>3, <2>2, <2>3
<1> HIDE DEF c, w
<1>4. CASE ~Found(c.mod, now.text) /\ Found(c.orig, now.text)
  <2>1. PICK u \in Text, v \in Text : Cut(now.text, u, c.orig, v) /\ Cut(w, u, c.mod, v)
    BY <1>4, StepIs DEF c, w
  <2>2. Unnamed(now.text) = Unnamed(u) \o Unnamed(v)
    BY <1>1, <1>2, <1>3, <2>1
  <2>3. Unnamed(w) = Unnamed(u) \o Unnamed(v)
    BY <1>1, <1>2, <1>3, <2>1
  <2> QED
    BY <2>2, <2>3 DEF w, c
<1>5. CASE ~(~Found(c.mod, now.text) /\ Found(c.orig, now.text))
  BY <1>5, StepIs DEF c, w
<1> QED
  BY <1>4, <1>5

LEMMA StepSound ==
    ASSUME NEW now \in Stage, NEW b \in Places, Sound(File(b), now.text)
    PROVE  Sound(File(b), Step(now, Change(b)).text)
<1> DEFINE c == Change(b)
           f == File(b)
           t == now.text
           w == Step(now, c).text
<1>1. c.orig \in Pattern /\ c.mod \in Pattern /\ c.orig \in Text /\ c.mod \in Text
  BY PlacesAre DEF Pattern
<1>2. CASE ~(~Found(c.mod, t) /\ Found(c.orig, t))
  BY <1>2, StepIs
<1>3. CASE ~Found(c.mod, t) /\ Found(c.orig, t)
  <2> HIDE DEF c, t, w
  <2>1. PICK u \in Text, v \in Text : Cut(t, u, c.orig, v) /\ Cut(w, u, c.mod, v)
    BY <1>3, StepIs DEF c, w, t
  <2>2. t \in Text /\ w \in Text
    BY <1>1, <2>1, CutIs
  <2>3. ASSUME NEW a \in Places, Reworked(a), File(a) = f
        PROVE  /\ Once(Change(a).orig, w)
               /\ Found(Change(a).mod, w) => ~Found(Change(a).orig, w)
    <3> DEFINE o == Change(a).orig
               m == Change(a).mod
    <3>1. o \in Pattern /\ m \in Pattern
      BY PlacesAre
    <3>2. Once(o, t) /\ (Found(m, t) => ~Found(o, t))
      BY <2>3 DEF Sound, t
    <3>3. Apart(o, c.mod)
      BY <2>3, ReworkedOnce DEF c
    <3> HIDE DEF o, m
    <3>4. Once(o, w)
      BY <1>1, <2>1, <3>1, <3>2, <3>3, OnceStays
    <3>5. CASE o = c.orig /\ m = c.mod
      BY <1>1, <2>1, <3>2, <3>3, <3>4, <3>5, OnceGone DEF o, m
    <3>6. CASE ~(o = c.orig /\ m = c.mod)
      <4>1. Stays(m, c.mod, c.orig)
        BY <2>3, <3>6, ReworkedOnce DEF Rivals, c, o, m
      <4>2. Found(m, w) => Found(m, t)
        BY <1>1, <2>1, <3>1, <4>1, StaysUnfound
      <4>3. Stays(o, c.mod, c.orig)
        <5>1. Overlaps(o, c.mod, c.mod) = {} => Overlaps(o, c.mod, c.orig) = {}
          BY DEF Overlaps
        <5> QED
          BY <3>3, <5>1 DEF Apart, Stays
      <4>4. Found(o, w) => Found(o, t)
        BY <1>1, <2>1, <3>1, <4>3, StaysUnfound
      <4> QED
        BY <3>2, <3>4, <4>2, <4>4 DEF o, m
    <3> QED
      BY <3>5, <3>6
  <2>4. ASSUME NEW q \in Pattern, Never(f, q) PROVE ~Found(q, w)
    <3>1. ~Found(q, t)
      BY <2>4 DEF Sound, t
    <3>2. Stays(q, c.mod, c.orig)
      BY <2>4 DEF Never, c
    <3> QED
      BY <1>1, <2>1, <3>1, <3>2, StaysUnfound
  <2> QED
    BY <2>3, <2>4 DEF Sound, w, c
<1> QED
  BY <1>2, <1>3

\* A change that has been tried is in the text or among those that failed.
LEMMA StepTries ==
    ASSUME NEW now \in Stage, NEW b \in Places
    PROVE  \/ Found(Change(b).mod, Step(now, Change(b)).text)
           \/ /\ Change(b) \in Step(now, Change(b)).failed
              /\ ~Found(Change(b).orig, Step(now, Change(b)).text)
<1> DEFINE c == Change(b)
           t == now.text
           w == Step(now, c).text
<1>1. c.orig \in Pattern /\ c.mod \in Pattern /\ c.orig \in Text /\ c.mod \in Text
  BY PlacesAre DEF Pattern
<1> HIDE DEF c, t, w
<1>2. CASE Found(c.mod, t)
  BY <1>2, StepIs DEF c, t
<1>3. CASE ~Found(c.mod, t) /\ ~Found(c.orig, t)
  BY <1>3, StepIs DEF c, t
<1>4. CASE ~Found(c.mod, t) /\ Found(c.orig, t)
  <2>1. PICK u \in Text, v \in Text : Cut(t, u, c.orig, v) /\ Cut(w, u, c.mod, v)
    BY <1>4, StepIs DEF c, w, t
  <2>2. w \in Text
    BY <1>1, <2>1, CutIs
  <2>3. Found(c.mod, w)
    BY <1>1, <2>1, <2>2, FoundIs
  <2> QED
    BY <2>3 DEF c, w
<1> QED
  BY <1>2, <1>3, <1>4

\* What was accounted for before the change at b still is.
LEMMA StepAccounted ==
    ASSUME NEW now \in Stage, NEW b \in Places, NEW a \in Places, File(a) = File(b), NEW reported,
           Before(a, b), Accounted(a, now.text, reported \cup now.failed)
    PROVE  Accounted(a, Step(now, Change(b)).text, reported \cup Step(now, Change(b)).failed)
<1> DEFINE c == Change(b)
           t == now.text
           w == Step(now, c).text
           fs == Step(now, c).failed
<1>1. c.orig \in Pattern /\ c.mod \in Pattern /\ c.orig \in Text /\ c.mod \in Text
  BY PlacesAre DEF Pattern
<1> HIDE DEF c, t, w, fs
<1>2. CASE Found(c.mod, t)
  BY <1>2, StepIs DEF c, t, Accounted
<1>3. CASE ~Found(c.mod, t) /\ ~Found(c.orig, t)
  <2>1. w = t /\ fs = now.failed \cup {c}
    BY <1>3, StepIs DEF c, t, w, fs
  <2> QED
    BY <2>1 DEF c, t, w, fs, Accounted
<1>4. CASE ~Found(c.mod, t) /\ Found(c.orig, t)
  <2>1. PICK u \in Text, v \in Text : Cut(t, u, c.orig, v) /\ Cut(w, u, c.mod, v)
    BY <1>4, StepIs DEF c, w, t
  <2>2. w \in Text /\ fs = now.failed
    BY <1>1, <1>4, <2>1, CutIs, StepIs DEF c, w, t, fs
  <2>3. Found(c.mod, w)
    BY <1>1, <2>1, <2>2, FoundIs
  <2>5. CASE Change(a) \in reported \cup now.failed
    BY <2>2, <2>5 DEF c, w, fs, Accounted
  <2>6. CASE Before(a, b) /\ Found(Change(a).mod, t)
    <3>1. Rivals(a, b)
      BY <1>4, <2>6 DEF Rivals, c
    <3>2. CASE Reworks(b, a)
      BY <2>3, <3>2 DEF c, w, Accounted
    <3>3. CASE Stays(Change(a).mod, c.orig, c.mod)
      <4>1. Found(Change(a).mod, w)
        BY <1>1, <2>1, <2>6, <3>3, StaysFound, PlacesAre
      <4> QED
        BY <4>1 DEF c, w, Accounted
    <3> QED
      BY <2>6, <3>1, <3>2, <3>3, ModsStay DEF c
  <2>7. ASSUME NEW z \in Places, Reworks(z, a), Found(Change(z).mod, t)
        PROVE  Accounted(a, Step(now, Change(b)).text, reported \cup Step(now, Change(b)).failed)
    <3>1. Rivals(z, b)
      BY <1>4, <2>7 DEF Rivals, Reworks, c
    <3>2. Stays(Change(z).mod, c.orig, c.mod)
      BY <2>7, <3>1, ModsStay DEF c
    <3>3. Found(Change(z).mod, w)
      BY <1>1, <2>1, <2>7, <3>2, StaysFound, PlacesAre
    <3> QED
      BY <2>7, <3>3 DEF c, w, Accounted
  <2> QED
    BY <2>5, <2>6, <2>7 DEF Accounted, t
<1> QED
  BY <1>2, <1>3, <1>4

\* What was quiet before the change at b still is.
LEMMA StepQuiet ==
    ASSUME NEW now \in Stage, NEW b \in Places, NEW a \in Places, File(a) = File(b),
           Sound(File(b), now.text), Before(a, b), Quiet(a, now.text)
    PROVE  Quiet(a, Step(now, Change(b)).text)
<1> DEFINE c == Change(b)
           t == now.text
           w == Step(now, c).text
<1>1. c.orig \in Pattern /\ c.mod \in Pattern /\ c.orig \in Text /\ c.mod \in Text
  BY PlacesAre DEF Pattern
<1> HIDE DEF c, t, w
<1>2. CASE ~(~Found(c.mod, t) /\ Found(c.orig, t))
  <2>1. w = t
    BY <1>2, StepIs DEF c, t, w
  <2> QED
    BY <2>1 DEF c, t, w
<1>3. CASE ~Found(c.mod, t) /\ Found(c.orig, t)
  <2>1. PICK u \in Text, v \in Text : Cut(t, u, c.orig, v) /\ Cut(w, u, c.mod, v)
    BY <1>3, StepIs DEF c, w, t
  <2> DEFINE o == Change(a).orig
             m == Change(a).mod
  <2>2. /\ o \in Pattern /\ m \in Pattern /\ Before(a, b)
        /\ Found(m, t) \/ ~Found(o, t)
    BY PlacesAre DEF Quiet, t
  <2>3. Rivals(a, b)
    BY <1>3, <2>2 DEF Rivals, c
  <2>4. /\ Clear(o, c.mod)
        /\ \A q \in Overlaps(o, c.mod, c.orig) : Found(o, q) \/ Never(File(b), q)
    BY <2>2, <2>3, OrigsDoNotComeBack DEF c
  <2> HIDE DEF o, m
  <2>5. ASSUME ~Found(o, t) PROVE ~Found(o, w)
    <3> SUFFICES ASSUME Found(o, w) PROVE FALSE
      OBVIOUS
    <3>1. Found(o, t) \/ \E q \in Overlaps(o, c.mod, c.orig) : q \in Pattern /\ Found(q, t)
      BY <1>1, <2>1, <2>2, <2>4, StillFound
    <3>2. PICK q \in Overlaps(o, c.mod, c.orig) : q \in Pattern /\ Found(q, t)
      BY <2>5, <3>1
    <3>3. ~Never(File(b), q)
      BY <3>2 DEF Sound, t
    <3>4. t \in Text
      BY <1>1, <2>1, CutIs
    <3> QED
      BY <2>2, <2>4, <2>5, <3>2, <3>3, <3>4, FoundThrough
  <2>6. CASE ~Found(o, t)
    BY <2>5, <2>6 DEF Quiet, o, w, c
  <2>7. CASE Found(m, t) /\ Reworks(b, a)
    <3>1. ~Found(o, t)
      BY <2>7 DEF Sound, Reworked, Reworks, m, o, t
    <3> QED
      BY <2>5, <3>1 DEF Quiet, o, w, c
  <2>8. CASE Found(m, t) /\ ~Reworks(b, a)
    <3>1. Stays(m, c.orig, c.mod)
      BY <2>2, <2>3, <2>8, ModsStay DEF m, c
    <3>2. Found(m, w)
      BY <1>1, <2>1, <2>2, <2>8, <3>1, StaysFound
    <3> QED
      BY <3>2 DEF Quiet, m, w, c
  <2> QED
    BY <2>2, <2>6, <2>7, <2>8
<1> QED
  BY <1>2, <1>3

-----------------------------------------------------------------------------
(* The changes of a part, one after the other. *)

\* What holds before the first change and is kept by each one holds after the last.
LEMMA ModifiedInduction ==
    ASSUME NEW t \in Text, NEW i \in DOMAIN Parts, NEW S, <<0, Unmodified(t)>> \in S,
           \A n \in 1..Len(Parts[i].changes), now \in Stage :
               <<n - 1, now>> \in S => <<n, Step(now, Change(<<i, n>>))>> \in S
    PROVE  /\ Modified(t, Parts[i].changes) \in Stage
           /\ <<Len(Parts[i].changes), Modified(t, Parts[i].changes)>> \in S
<1> DEFINE cs == Parts[i].changes
           N == Len(cs)
           v == Unmodified(t)
           Body(g) == [n \in 0..N |-> IF n = 0 THEN v ELSE Step(g[n - 1], cs[n])]
           h == [n \in 1..N |-> [x \in Stage |-> Step(x, cs[n])]]
           made == CHOOSE g : g = Body(g)
<1>1. N \in Nat /\ v \in Stage
  BY PlacesAre DEF Unmodified, Stage
<1>2. \A n \in 1..N : <<i, n>> \in Places /\ Change(<<i, n>>) = cs[n]
  BY PlacesAre DEF Change
<1>3. \A n \in 1..N, x \in Stage : Step(x, cs[n]) \in Stage
  BY <1>2, StepIs
<1>4. \A n \in 1..N, x \in Stage : <<n - 1, x>> \in S => <<n, Step(x, cs[n])>> \in S
  BY <1>2
<1>5. Modified(t, cs) = made[N]
  BY DEF Modified
<1> HIDE DEF N, v, cs
<1>6. h \in [1..N -> [Stage -> Stage]]
  BY <1>3
<1>7. PICK f \in [0..N -> Stage] : f[0] = v /\ \A n \in 1..N : f[n] = h[n][f[n - 1]]
  <2> HIDE DEF h
  <2> QED
    BY ONLY <1>1, <1>6, Recursion
<1>8. f = Body(f)
  <2>1. f = [n \in 0..N |-> f[n]]
    BY <1>7
  <2>2. \A n \in 0..N : f[n] = IF n = 0 THEN v ELSE Step(f[n - 1], cs[n])
    <3> SUFFICES ASSUME NEW n \in 0..N, n # 0 PROVE f[n] = Step(f[n - 1], cs[n])
      BY <1>7
    <3>1. n \in 1..N /\ f[n - 1] \in Stage
      BY <1>1, <1>7
    <3> QED
      BY <1>7, <3>1
  <2> QED
    BY <2>1, <2>2
<1>9. made = Body(made)
  <2> HIDE DEF Body
  <2> QED
    BY <1>8
<1> HIDE DEF made, h
<1>10. made[0] = v /\ \A n \in 1..N : made[n] = Step(made[n - 1], cs[n])
  <2> DEFINE g == Body(made)
  <2>1. g[0] = v /\ \A n \in 1..N : g[n] = Step(made[n - 1], cs[n])
    BY <1>1
  <2> HIDE DEF g
  <2>2. made = g
    BY <1>9 DEF g
  <2> QED
    BY <2>1, <2>2
<1>11. \A n \in 0..N : made[n] \in Stage /\ <<n, made[n]>> \in S
  <2> DEFINE R == {n \in Nat : n <= N => made[n] \in Stage /\ <<n, made[n]>> \in S}
  <2>1. 0 \in R
    BY <1>1, <1>10 DEF v
  <2>2. ASSUME NEW n \in Nat, n \in R PROVE n + 1 \in R
    <3> SUFFICES ASSUME n + 1 <= N PROVE made[n + 1] \in Stage /\ <<n + 1, made[n + 1]>> \in S
      OBVIOUS
    <3>1. n + 1 \in 1..N /\ (n + 1) - 1 = n /\ made[n] \in Stage /\ <<n, made[n]>> \in S
      BY <1>1, <2>2
    <3>2. made[n + 1] = Step(made[n], cs[n + 1])
      BY <1>10, <3>1
    <3> QED
      BY <1>3, <1>4, <3>1, <3>2
  <2> HIDE DEF R
  <2>3. Nat \subseteq R
    BY <2>1, <2>2, Induction
  <2> QED
    BY <1>1, <2>3 DEF R
<1>12. made[N] \in Stage /\ <<N, made[N]>> \in S
  BY <1>1, <1>11
<1> QED
  BY <1>5, <1>12 DEF N, cs

LEMMA ModifiedIs ==
    ASSUME NEW t \in Text, NEW i \in DOMAIN Parts
    PROVE  /\ Modified(t, Parts[i].changes) \in Stage
           /\ Unnamed(Modified(t, Parts[i].changes).text) = Unnamed(t)
           /\ ~Modified(t, Parts[i].changes).modified => Modified(t, Parts[i].changes).text = t
           /\ Modified(t, Parts[i].changes).modified => Fitted(Parts[i].file, t)
<1> DEFINE S == {ns \in Nat \X Stage : /\ Unnamed(ns[2].text) = Unnamed(t)
                                       /\ ~ns[2].modified => ns[2].text = t
                                       /\ ns[2].modified => Fitted(Parts[i].file, t)}
<1>1. <<0, Unmodified(t)>> \in S
  BY DEF Unmodified, Stage
<1>2. ASSUME NEW n \in 1..Len(Parts[i].changes), NEW now \in Stage, <<n - 1, now>> \in S
      PROVE  <<n, Step(now, Change(<<i, n>>))>> \in S
  <2>1. <<i, n>> \in Places
    BY PlacesAre
  <2>2. n \in Nat /\ Step(now, Change(<<i, n>>)) \in Stage
    BY <2>1, StepIs, PlacesAre
  <2>3. Unnamed(Step(now, Change(<<i, n>>)).text) = Unnamed(t)
    BY <1>2, <2>1, StepUnnamed
  <2>4. ~Step(now, Change(<<i, n>>)).modified => Step(now, Change(<<i, n>>)).text = t
    BY <1>2, <2>1, StepIs
  <2>5. Step(now, Change(<<i, n>>)).modified => Fitted(Parts[i].file, t)
    <3> SUFFICES ASSUME Step(now, Change(<<i, n>>)).modified, ~now.modified
                 PROVE  Fitted(Parts[i].file, t)
      BY <1>2
    <3>1. now.text = t /\ File(<<i, n>>) = Parts[i].file
      BY <1>2 DEF File
    <3>2. Found(Change(<<i, n>>).orig, now.text)
      BY <2>1, StepIs
    <3> QED
      BY <2>1, <3>1, <3>2 DEF Fitted
  <2> QED
    BY <2>2, <2>3, <2>4, <2>5
<1> HIDE DEF S
<1>3. /\ Modified(t, Parts[i].changes) \in Stage
      /\ <<Len(Parts[i].changes), Modified(t, Parts[i].changes)>> \in S
  BY <1>1, <1>2, ModifiedInduction
<1> QED
  BY <1>3 DEF S

LEMMA ModifiedSound ==
    ASSUME NEW t \in Text, NEW i \in DOMAIN Parts, Sound(Parts[i].file, t)
    PROVE  Sound(Parts[i].file, Modified(t, Parts[i].changes).text)
<1> DEFINE S == {ns \in Nat \X Stage : Sound(Parts[i].file, ns[2].text)}
<1>1. <<0, Unmodified(t)>> \in S
  BY DEF Unmodified, Stage
<1>2. ASSUME NEW n \in 1..Len(Parts[i].changes), NEW now \in Stage, <<n - 1, now>> \in S
      PROVE  <<n, Step(now, Change(<<i, n>>))>> \in S
  <2>1. <<i, n>> \in Places /\ File(<<i, n>>) = Parts[i].file
    BY PlacesAre DEF File
  <2>2. n \in Nat /\ Step(now, Change(<<i, n>>)) \in Stage
    BY <2>1, StepIs, PlacesAre
  <2>3. Sound(Parts[i].file, Step(now, Change(<<i, n>>)).text)
    BY <1>2, <2>1, StepSound
  <2> QED
    BY <2>2, <2>3
<1> HIDE DEF S
<1>3. <<Len(Parts[i].changes), Modified(t, Parts[i].changes)>> \in S
  BY <1>1, <1>2, ModifiedInduction
<1> QED
  BY <1>3 DEF S

LEMMA ModifiedAccounted ==
    ASSUME NEW t \in Text, NEW i \in DOMAIN Parts, NEW a \in Places, File(a) = Parts[i].file, NEW reported,
           a[1] = i \/ (a[1] < i /\ Accounted(a, t, reported))
    PROVE  Accounted(a, Modified(t, Parts[i].changes).text,
                     reported \cup Modified(t, Parts[i].changes).failed)
<1> DEFINE S == {ns \in Nat \X Stage :
                    a[1] < i \/ a[2] <= ns[1] => Accounted(a, ns[2].text, reported \cup ns[2].failed)}
<1>0. a[1] \in Nat /\ i \in Nat /\ a[2] \in 1..Len(Parts[a[1]].changes) /\ a = <<a[1], a[2]>>
  BY PlacesAre
<1>1. <<0, Unmodified(t)>> \in S
  <2>1. Unmodified(t) \in Stage /\ Unmodified(t).text = t
    BY DEF Unmodified, Stage
  <2>2. ASSUME a[1] < i \/ a[2] <= 0
        PROVE  Accounted(a, Unmodified(t).text, reported \cup Unmodified(t).failed)
    <3>1. Accounted(a, t, reported)
      BY <1>0, <2>2, PlacesAre
    <3> QED
      BY <2>1, <3>1 DEF Accounted
  <2> QED
    BY <2>1, <2>2
<1>2. ASSUME NEW n \in 1..Len(Parts[i].changes), NEW now \in Stage, <<n - 1, now>> \in S
      PROVE  <<n, Step(now, Change(<<i, n>>))>> \in S
  <2>1. <<i, n>> \in Places /\ File(<<i, n>>) = Parts[i].file /\ n \in Nat
    BY PlacesAre DEF File
  <2>2. Step(now, Change(<<i, n>>)) \in Stage
    BY <2>1, StepIs
  <2>3. ASSUME a[1] < i \/ a[2] <= n
        PROVE  Accounted(a, Step(now, Change(<<i, n>>)).text,
                         reported \cup Step(now, Change(<<i, n>>)).failed)
    <3>1. CASE a = <<i, n>>
      <4>1. \/ Found(Change(a).mod, Step(now, Change(a)).text)
            \/ Change(a) \in Step(now, Change(a)).failed
        BY StepTries
      <4>2. Accounted(a, Step(now, Change(a)).text, reported \cup Step(now, Change(a)).failed)
        BY <4>1 DEF Accounted
      <4> QED
        BY <3>1, <4>2
    <3>2. CASE a # <<i, n>>
      <4>1. a[1] < i \/ (a[1] = i /\ a[2] <= n - 1 /\ a[2] < n)
        BY <1>0, <2>1, <2>3, <3>2, PlacesAre
      <4>2. Before(a, <<i, n>>)
        BY <4>1 DEF Before
      <4>3. Accounted(a, now.text, reported \cup now.failed)
        BY <1>2, <4>1
      <4> QED
        BY <2>1, <4>2, <4>3, StepAccounted
    <3> QED
      BY <3>1, <3>2
  <2> QED
    BY <2>1, <2>2, <2>3
<1>3. <<Len(Parts[i].changes), Modified(t, Parts[i].changes)>> \in S
  <2> HIDE DEF S
  <2> QED
    BY <1>1, <1>2, ModifiedInduction
<1>4. a[1] < i \/ a[2] <= Len(Parts[i].changes)
  BY <1>0, PlacesAre
<1> QED
  BY <1>3, <1>4

LEMMA ModifiedQuiet ==
    ASSUME NEW t \in Text, NEW i \in DOMAIN Parts, NEW a \in Places, File(a) = Parts[i].file,
           Sound(File(a), t), a[1] = i \/ (a[1] < i /\ Quiet(a, t))
    PROVE  Quiet(a, Modified(t, Parts[i].changes).text)
<1> DEFINE S == {ns \in Nat \X Stage :
                    /\ Sound(File(a), ns[2].text)
                    /\ a[1] < i \/ a[2] <= ns[1] => Quiet(a, ns[2].text)}
<1>0. a[1] \in Nat /\ i \in Nat /\ a[2] \in 1..Len(Parts[a[1]].changes) /\ a = <<a[1], a[2]>>
  BY PlacesAre
<1>1. <<0, Unmodified(t)>> \in S
  <2>1. Unmodified(t) \in Stage /\ Unmodified(t).text = t
    BY DEF Unmodified, Stage
  <2>2. ASSUME a[1] < i \/ a[2] <= 0 PROVE Quiet(a, Unmodified(t).text)
    BY <1>0, <2>1, <2>2, PlacesAre
  <2> QED
    BY <2>1, <2>2
<1>2. ASSUME NEW n \in 1..Len(Parts[i].changes), NEW now \in Stage, <<n - 1, now>> \in S
      PROVE  <<n, Step(now, Change(<<i, n>>))>> \in S
  <2>1. <<i, n>> \in Places /\ File(<<i, n>>) = File(a) /\ n \in Nat
    BY PlacesAre DEF File
  <2>2. Step(now, Change(<<i, n>>)) \in Stage
    BY <2>1, StepIs
  <2>3. Sound(File(a), now.text) /\ Sound(File(a), Step(now, Change(<<i, n>>)).text)
    BY <1>2, <2>1, StepSound
  <2>4. ASSUME a[1] < i \/ a[2] <= n PROVE Quiet(a, Step(now, Change(<<i, n>>)).text)
    <3>1. CASE a = <<i, n>>
      <4>1. \/ Found(Change(a).mod, Step(now, Change(a)).text)
            \/ ~Found(Change(a).orig, Step(now, Change(a)).text)
        BY StepTries
      <4>2. Quiet(a, Step(now, Change(a)).text)
        BY <4>1 DEF Quiet
      <4> QED
        BY <3>1, <4>2
    <3>2. CASE a # <<i, n>>
      <4>1. a[1] < i \/ (a[1] = i /\ a[2] <= n - 1 /\ a[2] < n)
        BY <1>0, <2>1, <2>4, <3>2, PlacesAre
      <4>2. Before(a, <<i, n>>)
        BY <4>1 DEF Before
      <4>3. Quiet(a, now.text)
        BY <1>2, <4>1
      <4> QED
        BY <2>1, <2>3, <4>2, <4>3, StepQuiet
    <3> QED
      BY <3>1, <3>2
  <2> QED
    BY <2>1, <2>2, <2>3, <2>4
<1>3. <<Len(Parts[i].changes), Modified(t, Parts[i].changes)>> \in S
  <2> HIDE DEF S
  <2> QED
    BY <1>1, <1>2, ModifiedInduction
<1> QED
  BY <1>0, <1>3

\* Changes that are all quiet change nothing.
LEMMA QuietUnmodified ==
    ASSUME NEW t \in Text, NEW i \in DOMAIN Parts, \A a \in Places : a[1] = i => Quiet(a, t)
    PROVE  ~Modified(t, Parts[i].changes).modified
<1> DEFINE S == {ns \in Nat \X Stage : ns[2].text = t /\ ~ns[2].modified}
<1>1. <<0, Unmodified(t)>> \in S
  BY DEF Unmodified, Stage
<1>2. ASSUME NEW n \in 1..Len(Parts[i].changes), NEW now \in Stage, <<n - 1, now>> \in S
      PROVE  <<n, Step(now, Change(<<i, n>>))>> \in S
  <2>1. <<i, n>> \in Places /\ n \in Nat
    BY PlacesAre
  <2>2. Quiet(<<i, n>>, now.text)
    BY <1>2, <2>1
  <2>3. Step(now, Change(<<i, n>>)) \in Stage
    BY <2>1, StepIs
  <2>4. /\ Step(now, Change(<<i, n>>)).text = now.text
        /\ Step(now, Change(<<i, n>>)).modified = now.modified
    BY <2>1, <2>2, StepIs DEF Quiet
  <2> QED
    BY <1>2, <2>1, <2>3, <2>4
<1> HIDE DEF S
<1>3. <<Len(Parts[i].changes), Modified(t, Parts[i].changes)>> \in S
  BY <1>1, <1>2, ModifiedInduction
<1> QED
  BY <1>3 DEF S

-----------------------------------------------------------------------------
(* The texts that a synchronisation brings, and those that a kill leaves. *)

LEMMA UpstreamIs ==
    ASSUME NEW base \in Upstreams, NEW f \in DOMAIN base
    PROVE  base[f] \in Content /\ Sound(f, Decoded(base[f]))
<1>1. base[f] \in Content
  BY PatchesAssumption
<1>2. ASSUME NEW a \in Places, Reworked(a), File(a) = f
      PROVE  Once(Change(a).orig, Decoded(base[f])) /\ ~Found(Change(a).mod, Decoded(base[f]))
  BY <1>2, ReworkedOnce
<1>3. ASSUME NEW q \in Pattern, Never(f, q) PROVE ~Found(q, Decoded(base[f]))
  BY <1>3 DEF Never
<1> QED
  BY <1>1, <1>2, <1>3 DEF Sound

LEMMA PrefixIs ==
    ASSUME NEW f, NEW t \in Text, Sound(f, t), NEW n \in 0..Len(t)
    PROVE  SubSeq(t, 1, n) \in Text /\ Sound(f, SubSeq(t, 1, n))
<1> DEFINE w == SubSeq(t, 1, n)
           v == SubSeq(t, n + 1, Len(t))
<1>1. Len(t) \in Nat
  BY DEF Text
<1>2. w \in Text /\ Len(w) = n /\ \A k \in 1..n : w[k] = t[k]
  BY <1>1, TextPart
<1>3. v \in Text /\ t = w \o v
  <2>1. n \in 0..Len(t) /\ Len(t) \in n..Len(t)
    BY <1>1
  <2>2. v \in Text
    BY <2>1, TextPart
  <2>3. t = w \o v
    BY TextSplit
  <2> QED
    BY <2>2, <2>3
<1> HIDE DEF w, v
<1>4. ASSUME NEW p \in Pattern, Found(p, w) PROVE Found(p, t)
  <2>1. <<>> \in Text /\ Cut(t, <<>>, w, v)
    BY <1>2, <1>3, ConcatEmptySeq DEF Cut, Text
  <2> QED
    BY <1>2, <1>3, <1>4, <2>1, FoundInside
<1>5. ASSUME NEW p \in Pattern, Once(p, t) PROVE Once(p, w)
  <2>1. Len(p) \in Nat
    BY DEF Pattern, Text
  <2>2. SUFFICES ASSUME NEW i \in 0..Len(w) - Len(p), NEW j \in 0..Len(w) - Len(p),
                        SubSeq(w, i + 1, i + Len(p)) = p, SubSeq(w, j + 1, j + Len(p)) = p
                 PROVE  i = j
    BY DEF Once
  <2>3. ASSUME NEW k \in 0..Len(w) - Len(p)
        PROVE  k \in 0..Len(t) - Len(p) /\ SubSeq(t, k + 1, k + Len(p)) = SubSeq(w, k + 1, k + Len(p))
    <3>1. k + Len(p) <= Len(w) /\ k + Len(p) <= Len(t) /\ k \in Nat
      BY <1>1, <1>2, <2>1
    <3>2. \A m \in 1..Len(p) : t[k + m] = w[k + m]
      BY <1>2, <2>1, <3>1
    <3> QED
      BY <1>1, <1>2, <2>1, <3>1, <3>2, SamePart
  <2> QED
    BY <1>5, <2>2, <2>3 DEF Once
<1>6. ASSUME NEW a \in Places, Reworked(a), File(a) = f
      PROVE  /\ Once(Change(a).orig, w)
             /\ Found(Change(a).mod, w) => ~Found(Change(a).orig, w)
  <2>1. Change(a).orig \in Pattern /\ Change(a).mod \in Pattern
    BY PlacesAre
  <2>2. /\ Once(Change(a).orig, t)
        /\ Found(Change(a).mod, t) => ~Found(Change(a).orig, t)
    BY <1>6 DEF Sound
  <2> QED
    BY <1>4, <1>5, <2>1, <2>2
<1>7. ASSUME NEW q \in Pattern, Never(f, q) PROVE ~Found(q, w)
  BY <1>4, <1>7 DEF Sound
<1> QED
  BY <1>2, <1>6, <1>7 DEF Sound, w

-----------------------------------------------------------------------------
(* The initial states, and the steps of a run. *)

LEMMA InitInv == Init => IInv
<1> SUFFICES ASSUME Init PROVE IInv
  OBVIOUS
<1>1. /\ upstream \in Upstreams /\ tree = upstream /\ failed = {} /\ torn = {}
      /\ settled = FALSE /\ whole = FALSE
      /\ run = Idle /\ run.pc = "idle" /\ ~Writing
  BY DEF Init, Idle, Writing
<1>2. TypeOK
  <2>1. run \in Runs
    BY <1>1, PlacesAre DEF Idle, Text, Runs
  <2> QED
    BY <1>1, <2>1, UpstreamIs DEF TypeOK, Runs
<1>3. SoundInv
  BY <1>1, UpstreamIs DEF SoundInv
<1>4. \A i : ~DoneWith(i)
  BY <1>1 DEF DoneWith
<1>5. RestInv
  BY <1>1 DEF RestInv
<1> QED
  BY <1>1, <1>2, <1>3, <1>4, <1>5 DEF IInv, PartInv, AccountedInv, QuietInv, Quieted

\* What a step has to keep of what is in memory and of the parts that are done.
LEMMA Kept ==
    ASSUME AccountedInv, QuietInv, DOMAIN tree' = DOMAIN tree, failed' = failed,
           \A f \in DOMAIN tree : Memory(f)' = Memory(f),
           \A i \in DOMAIN Parts : DoneWith(i)' => DoneWith(i),
           \A i \in DOMAIN Parts : whole' \/ Quieted(i)' => whole \/ Quieted(i),
           whole' => ~Writing'
    PROVE  AccountedInv' /\ QuietInv'
<1>1. \A a \in Places : a[1] \in DOMAIN Parts
  BY PlacesAre
<1>2. ASSUME NEW a \in Places, DoneWith(a[1])'
      PROVE  IF File(a) \in DOMAIN tree' THEN Accounted(a, Memory(File(a))', failed')
             ELSE Change(a) \in failed'
  <2>1. DoneWith(a[1])
    BY <1>1, <1>2
  <2> QED
    BY <2>1 DEF AccountedInv
<1>3. ASSUME NEW a \in Places, whole' \/ Quieted(a[1])', File(a) \in DOMAIN tree'
      PROVE  Quiet(a, Memory(File(a))')
  <2>1. whole \/ Quieted(a[1])
    BY <1>1, <1>3
  <2> QED
    BY <1>3, <2>1 DEF QuietInv
<1> QED
  BY <1>2, <1>3 DEF AccountedInv, QuietInv

LEMMA LeaveIs ==
    ASSUME TypeOK, PartInv, run.pc # "idle", Leave
    PROVE  /\ run' \in Runs /\ settled' \in BOOLEAN /\ whole' \in BOOLEAN
           /\ ~Writing' /\ run'.pc # "close"
           /\ run'.pc # "idle" => run'.part # 0
           /\ \A i \in DOMAIN Parts : DoneWith(i)' => i <= run.part
           /\ \A i \in DOMAIN Parts : whole' \/ Quieted(i)' =>
                 whole \/ (i <= run.part /\ i \notin run.skipped)
<1>1. /\ run.part \in 1..Len(Parts) /\ settled \in BOOLEAN /\ whole \in BOOLEAN
      /\ run \in Runs
  BY DEF TypeOK, PartInv, Runs
<1>2. DOMAIN Parts = 1..Len(Parts) /\ Len(Parts) \in Nat \ {0} /\ <<>> \in Text
  BY PlacesAre DEF Text
<1>3. CASE run.part = Len(Parts)
  <2>1. run' = Idle /\ settled' = TRUE /\ whole' = (whole \/ run.skipped = {})
    BY <1>3 DEF Leave
  <2>2. run' \in Runs /\ run'.pc = "idle" /\ ~Writing'
    BY <1>2, <2>1 DEF Idle, Writing, Runs
  <2>3. \A i : ~Quieted(i)'
    BY <2>2 DEF Quieted
  <2> QED
    BY <1>1, <1>2, <1>3, <2>1, <2>2, <2>3
<1>4. CASE run.part # Len(Parts)
  <2>1. /\ run' = [run EXCEPT !.pc = "open", !.part = run.part + 1, !.text = <<>>]
        /\ settled' = settled /\ whole' = whole
    BY <1>4 DEF Leave
  <2>2. run.part + 1 \in 0..Len(Parts) /\ run.part + 1 # 0
    BY <1>1, <1>2, <1>4
  <2>3. /\ run' \in Runs /\ run'.pc = "open" /\ run'.part = run.part + 1
        /\ run'.skipped = run.skipped
    BY <1>1, <1>2, <2>1, <2>2 DEF Runs
  <2>4. \A i \in DOMAIN Parts : DoneWith(i)' => i <= run.part
    BY <1>1, <1>2, <2>3 DEF DoneWith, Writing
  <2>5. \A i \in DOMAIN Parts : Quieted(i)' => i <= run.part /\ i \notin run.skipped
    BY <2>3, <2>4 DEF Quieted
  <2>6. ~Writing' /\ run'.pc # "close" /\ run'.part # 0
    BY <2>2, <2>3 DEF Writing
  <2> QED
    BY <1>1, <2>1, <2>3, <2>4, <2>5, <2>6
<1> QED
  BY <1>3, <1>4

LEMMA StartInv == IInv /\ Start => IInv'
<1> SUFFICES ASSUME IInv, Start PROVE IInv'
  OBVIOUS
<1>1. TypeOK /\ PartInv /\ SoundInv /\ AccountedInv /\ QuietInv /\ RestInv
  BY DEF IInv
<1>2. /\ failed' = {} /\ run.pc = "idle"
      /\ upstream' = upstream /\ tree' = tree /\ torn' = torn
      /\ settled' = settled /\ whole' = whole
  BY DEF Start
<1>3. PICK skipped \in SUBSET DOMAIN Parts :
          run' = [pc |-> "open", part |-> 1, text |-> <<>>, skipped |-> skipped]
  <2>1. PICK missing \in SUBSET DOMAIN Patches :
            run' = [Idle EXCEPT !.pc = "open", !.part = 1, !.skipped = UNION {PartsOf(p) : p \in missing}]
    BY DEF Start
  <2>2. UNION {PartsOf(p) : p \in missing} \in SUBSET DOMAIN Parts
    BY DEF PartsOf
  <2> HIDE DEF PartsOf
  <2> QED
    BY <2>1, <2>2 DEF Idle
<1>4. ~Writing /\ ~Writing' /\ \A f : Memory(f)' = Memory(f)
  BY <1>2, <1>3 DEF Writing, Memory
<1>5. \A i \in DOMAIN Parts : ~DoneWith(i)' /\ ~Quieted(i)'
  BY <1>3, <1>4, PlacesAre DEF DoneWith, Quieted
<1>6. TypeOK'
  <2>1. run' \in Runs
    BY <1>3, PlacesAre DEF Text, Runs
  <2> QED
    BY <1>1, <1>2, <2>1 DEF TypeOK, Runs
<1>7. PartInv'
  BY <1>3, <1>4 DEF PartInv
<1>8. SoundInv'
  BY <1>1, <1>2, <1>4 DEF SoundInv
<1>9. AccountedInv'
  BY <1>5, PlacesAre DEF AccountedInv
<1>10. QuietInv'
  <2>1. ASSUME NEW a \in Places, whole' \/ Quieted(a[1])', File(a) \in DOMAIN tree'
        PROVE  Quiet(a, Memory(File(a))')
    <3>1. whole
      BY <1>2, <1>5, <2>1, PlacesAre
    <3> QED
      BY <1>1, <1>2, <1>4, <2>1, <3>1 DEF QuietInv
  <2> QED
    BY <1>4, <2>1 DEF QuietInv
<1>11. RestInv'
  BY <1>1, <1>2, <1>3, <1>4 DEF RestInv, Kin
<1> QED
  BY <1>6, <1>7, <1>8, <1>9, <1>10, <1>11 DEF IInv

\* The part of which a run is in the middle, on a file that is there.
LEMMA PartIs ==
    ASSUME TypeOK, PartInv, run.pc # "idle"
    PROVE  /\ run.part \in DOMAIN Parts /\ run.part \in Nat
           /\ \A a \in Places : a[1] = run.part => File(a) = Part.file /\ Change(a) \in Range(Part.changes)
           /\ Range(Part.changes) \subseteq Changes
           /\ \A i \in DOMAIN Parts : i < run.part => DoneWith(i)
<1>1. run.part \in DOMAIN Parts /\ run.part \in Nat
  BY PlacesAre DEF TypeOK, PartInv
<1>2. ASSUME NEW a \in Places, a[1] = run.part
      PROVE  File(a) = Part.file /\ Change(a) \in Range(Part.changes)
  <2>1. a[2] \in DOMAIN Part.changes /\ Change(a) = Part.changes[a[2]]
    BY <1>1, <1>2, PlacesAre DEF Part, Change
  <2> QED
    BY <1>2, <2>1 DEF File, Part, Range
<1>3. Range(Part.changes) \subseteq Changes
  <2> SUFFICES ASSUME NEW n \in DOMAIN Part.changes PROVE Part.changes[n] \in Changes
    BY DEF Range
  <2>1. <<run.part, n>> \in Places /\ Change(<<run.part, n>>) = Part.changes[n]
    BY <1>1, PlacesAre DEF Part, Change
  <2> QED
    BY <2>1 DEF Changes
<1> QED
  BY <1>1, <1>2, <1>3 DEF DoneWith

LEMMA OpenIs ==
    ASSUME IInv, run.pc = "open", Part.file \in DOMAIN tree,
           NEW t, t = Decoded(tree[Part.file]), NEW done, done = Modified(t, Part.changes)
    PROVE  /\ done \in Stage
           /\ Sound(Part.file, done.text)
           /\ Unnamed(done.text) = Unnamed(t)
           /\ ~done.modified => done.text = t
           /\ done.modified => Fitted(Part.file, t)
           /\ whole => ~done.modified
           /\ \A a \in Places : a[1] <= run.part /\ File(a) = Part.file =>
                 Accounted(a, done.text, failed \cup done.failed)
           /\ \A a \in Places : (a[1] = run.part \/ (a[1] < run.part /\ Quieted(a[1]))) /\ File(a) = Part.file =>
                 Quiet(a, done.text)
<1> DEFINE f == Part.file
<1>1. TypeOK /\ PartInv /\ SoundInv /\ AccountedInv /\ QuietInv /\ ~Writing
  BY DEF IInv, Writing
<1>2. /\ run.part \in DOMAIN Parts /\ run.part \in Nat
      /\ \A a \in Places : a[1] = run.part => File(a) = f
      /\ \A i \in DOMAIN Parts : i < run.part => DoneWith(i)
  BY <1>1, PartIs
<1>3. t \in Text /\ Sound(f, t) /\ Memory(f) = t
  <2>1. tree[f] \in Content /\ Sound(f, Decoded(tree[f])) /\ Memory(f) = t
    BY <1>1 DEF TypeOK, SoundInv, Memory
  <2> QED
    BY <2>1, DecodedIs
<1>4. f = Parts[run.part].file /\ done = Modified(t, Parts[run.part].changes)
  BY DEF Part
<1> HIDE DEF f
<1>5. /\ done \in Stage /\ Unnamed(done.text) = Unnamed(t) /\ (~done.modified => done.text = t)
      /\ done.modified => Fitted(f, t)
      /\ Sound(f, done.text)
  BY <1>2, <1>3, <1>4, ModifiedIs, ModifiedSound
<1>6. ASSUME whole PROVE ~done.modified
  <2>1. \A a \in Places : a[1] = run.part => Quiet(a, t)
    BY <1>1, <1>2, <1>3, <1>6 DEF QuietInv, f
  <2> QED
    BY <1>2, <1>3, <1>4, <2>1, QuietUnmodified
<1>7. ASSUME NEW a \in Places, a[1] <= run.part, File(a) = f
      PROVE  Accounted(a, done.text, failed \cup done.failed)
  <2>1. a[1] \in DOMAIN Parts /\ a[1] \in Nat
    BY PlacesAre
  <2>2. ASSUME a[1] < run.part PROVE Accounted(a, t, failed)
    <3>1. DoneWith(a[1])
      BY <1>2, <2>1, <2>2
    <3>2. Accounted(a, Memory(File(a)), failed)
      BY <1>1, <1>7, <3>1 DEF AccountedInv, f
    <3> QED
      BY <1>3, <1>7, <3>2
  <2>3. a[1] = run.part \/ a[1] < run.part
    BY <1>2, <1>7, <2>1
  <2>4. /\ File(a) = Parts[run.part].file
        /\ a[1] = run.part \/ (a[1] < run.part /\ Accounted(a, t, failed))
    BY <1>4, <1>7, <2>2, <2>3
  <2>5. Accounted(a, Modified(t, Parts[run.part].changes).text,
                  failed \cup Modified(t, Parts[run.part].changes).failed)
    BY ONLY <1>2, <1>3, <2>4, a \in Places, ModifiedAccounted
  <2> QED
    BY <1>4, <2>5
<1>8. ASSUME NEW a \in Places, a[1] = run.part \/ (a[1] < run.part /\ Quieted(a[1])), File(a) = f
      PROVE  Quiet(a, done.text)
  <2>1. ASSUME Quieted(a[1]) PROVE Quiet(a, t)
    BY <1>1, <1>3, <1>8, <2>1 DEF QuietInv, f
  <2>2. /\ File(a) = Parts[run.part].file /\ Sound(File(a), t)
        /\ a[1] = run.part \/ (a[1] < run.part /\ Quiet(a, t))
    BY <1>3, <1>4, <1>8, <2>1
  <2>3. Quiet(a, Modified(t, Parts[run.part].changes).text)
    BY ONLY <1>2, <1>3, <2>2, a \in Places, ModifiedQuiet
  <2> QED
    BY <1>4, <2>3
<1> QED
  BY <1>5, <1>6, <1>7, <1>8 DEF f

\* A change stays accounted for when more are reported.
LEMMA MoreReported ==
    ASSUME NEW a, NEW text, NEW fewer, NEW more, fewer \subseteq more, Accounted(a, text, fewer)
    PROVE  Accounted(a, text, more)
BY DEF Accounted

LEMMA OpenInv == IInv /\ Open => IInv'
<1> SUFFICES ASSUME IInv, Open PROVE IInv'
  OBVIOUS
<1>1. TypeOK /\ PartInv /\ SoundInv /\ AccountedInv /\ QuietInv /\ RestInv
  BY DEF IInv
<1>2. run.pc = "open" /\ upstream' = upstream /\ tree' = tree /\ torn' = torn
  BY DEF Open
<1>3. /\ run.part \in DOMAIN Parts /\ run.part \in Nat
      /\ \A a \in Places : a[1] = run.part => File(a) = Part.file /\ Change(a) \in Range(Part.changes)
      /\ Range(Part.changes) \subseteq Changes
      /\ \A i \in DOMAIN Parts : i < run.part => DoneWith(i)
  BY <1>1, <1>2, PartIs
<1>4. \A a \in Places : a[1] \in DOMAIN Parts /\ a[1] \in Nat
  BY PlacesAre
<1>5. ~Writing /\ \A g : Memory(g) = Decoded(tree[g])
  BY <1>2 DEF Writing, Memory
\* What the part leaves alone: the changes made before, to other files.
<1>6. ASSUME NEW a \in Places, whole \/ (a[1] < run.part /\ a[1] \notin run.skipped), File(a) \in DOMAIN tree
      PROVE  Quiet(a, Decoded(tree[File(a)]))
  <2>1. whole \/ Quieted(a[1])
    BY <1>2, <1>3, <1>4, <1>6 DEF Quieted
  <2> QED
    BY <1>1, <1>5, <1>6, <2>1 DEF QuietInv
<1>7. ASSUME NEW a \in Places, a[1] < run.part, failed \subseteq failed'
      PROVE  IF File(a) \in DOMAIN tree THEN Accounted(a, Decoded(tree[File(a)]), failed')
             ELSE Change(a) \in failed'
  <2>1. DoneWith(a[1])
    BY <1>3, <1>4, <1>7
  <2> QED
    BY <1>1, <1>5, <1>7, <2>1, MoreReported DEF AccountedInv
<1>8. \A f \in DOMAIN tree \ torn : tree[f] = upstream[f] \/ Kin(f, tree[f])
  BY <1>1, <1>2 DEF RestInv
<1>9. CASE run.part \in run.skipped \/ Part.file \notin DOMAIN tree
  <2>1. failed' = failed \cup Range(Part.changes) /\ Leave
    BY <1>9 DEF Open
  <2>2. /\ run' \in Runs /\ settled' \in BOOLEAN /\ whole' \in BOOLEAN
        /\ ~Writing' /\ run'.pc # "close"
        /\ run'.pc # "idle" => run'.part # 0
        /\ \A i \in DOMAIN Parts : DoneWith(i)' => i <= run.part
        /\ \A i \in DOMAIN Parts : whole' \/ Quieted(i)' =>
              whole \/ (i <= run.part /\ i \notin run.skipped)
    BY <1>1, <1>2, <2>1, LeaveIs
  <2>3. \A g : Memory(g)' = Decoded(tree[g])
    BY <1>2, <2>2 DEF Memory
  <2>4. TypeOK'
    BY <1>1, <1>2, <1>3, <2>1, <2>2 DEF TypeOK, Runs
  <2>5. PartInv' /\ SoundInv'
    BY <1>1, <1>2, <2>2 DEF PartInv, SoundInv
  <2>6. ASSUME NEW a \in Places, DoneWith(a[1])'
        PROVE  IF File(a) \in DOMAIN tree' THEN Accounted(a, Memory(File(a))', failed')
               ELSE Change(a) \in failed'
    <3>1. a[1] < run.part \/ a[1] = run.part
      BY <1>3, <1>4, <2>2, <2>6
    <3>2. CASE a[1] < run.part
      BY <1>2, <1>7, <2>1, <2>3, <3>2
    <3>3. CASE a[1] = run.part
      <4>1. Change(a) \in failed'
        BY <1>3, <2>1, <3>3
      <4> QED
        BY <4>1 DEF Accounted
    <3> QED
      BY <3>1, <3>2, <3>3
  <2>7. ASSUME NEW a \in Places, whole' \/ Quieted(a[1])', File(a) \in DOMAIN tree'
        PROVE  Quiet(a, Memory(File(a))')
    <3>1. whole \/ (a[1] < run.part /\ a[1] \notin run.skipped)
      <4>1. whole \/ (a[1] <= run.part /\ a[1] \notin run.skipped)
        BY <1>4, <2>2, <2>7
      <4>2. a[1] = run.part => a[1] \in run.skipped
        BY <1>2, <1>3, <1>9, <2>7
      <4> QED
        BY <1>3, <1>4, <4>1, <4>2
    <3> QED
      BY <1>2, <1>6, <2>3, <2>7, <3>1
  <2>8. RestInv'
    BY <1>2, <1>8, <2>2 DEF RestInv, Kin
  <2> QED
    BY <2>2, <2>4, <2>5, <2>6, <2>7, <2>8 DEF IInv, AccountedInv, QuietInv
<1>10. CASE run.part \notin run.skipped /\ Part.file \in DOMAIN tree
  <2>0. PICK f : f = Part.file
    OBVIOUS
  <2>t. PICK t : t = Decoded(tree[f])
    OBVIOUS
  <2>d. PICK done : done = Modified(t, Part.changes)
    OBVIOUS
  <2>1. /\ done \in Stage
        /\ Sound(f, done.text)
        /\ Unnamed(done.text) = Unnamed(t)
        /\ ~done.modified => done.text = t
        /\ done.modified => Fitted(f, t)
        /\ whole => ~done.modified
        /\ \A a \in Places : a[1] <= run.part /\ File(a) = f =>
              Accounted(a, done.text, failed \cup done.failed)
        /\ \A a \in Places : (a[1] = run.part \/ (a[1] < run.part /\ Quieted(a[1]))) /\ File(a) = f =>
              Quiet(a, done.text)
    BY <1>2, <1>10, <2>0, <2>t, <2>d, OpenIs
  <2>2. /\ failed' = failed \cup done.failed
        /\ IF done.modified
           THEN /\ run' = [run EXCEPT !.pc = "write", !.text = done.text]
                /\ settled' = settled /\ whole' = whole
           ELSE Leave
    BY <1>10, <2>0, <2>t, <2>d DEF Open
  <2>3. done.text \in Text /\ done.modified \in BOOLEAN /\ done.failed \subseteq Changes
    BY <2>1 DEF Stage
  <2>4. /\ run' \in Runs /\ settled' \in BOOLEAN /\ whole' \in BOOLEAN /\ (whole' => ~Writing')
        /\ run'.pc \in {"idle", "open", "write"}
        /\ run'.pc # "idle" => run'.part # 0
        /\ \A i \in DOMAIN Parts : DoneWith(i)' => i <= run.part
        /\ \A i \in DOMAIN Parts : whole' \/ Quieted(i)' =>
              whole \/ (i <= run.part /\ i \notin run.skipped)
        /\ Writing' => Part' = Part /\ run'.text = done.text /\ done.modified
        /\ Memory(f)' = done.text /\ \A g \in DOMAIN tree \ {f} : Memory(g)' = Decoded(tree[g])
    <3>1. CASE done.modified
      <4>1. /\ run' = [run EXCEPT !.pc = "write", !.text = done.text]
            /\ settled' = settled /\ whole' = whole
        BY <2>2, <3>1
      <4>2. /\ run' \in Runs
            /\ run'.pc = "write" /\ run'.part = run.part /\ run'.text = done.text
            /\ run'.skipped = run.skipped
        BY <1>1, <2>3, <4>1 DEF TypeOK, Runs
      <4>3. Part' = Part /\ Writing'
        BY <4>2 DEF Part, Writing
      <4>4. \A i \in DOMAIN Parts : DoneWith(i)' => i <= run.part
        BY <1>3, <4>2, PlacesAre DEF DoneWith
      <4>5. \A i \in DOMAIN Parts : Quieted(i)' => i <= run.part /\ i \notin run.skipped
        BY <4>2, <4>4 DEF Quieted
      <4>6. Memory(f)' = done.text /\ \A g \in DOMAIN tree \ {f} : Memory(g)' = Decoded(tree[g])
        BY <1>2, <2>0, <4>2, <4>3 DEF Memory
      <4>7. settled \in BOOLEAN /\ whole \in BOOLEAN /\ ~whole /\ run'.part # 0
        BY <1>1, <1>2, <2>1, <3>1, <4>2 DEF PartInv, TypeOK
      <4> QED
        BY <3>1, <4>1, <4>2, <4>3, <4>4, <4>5, <4>6, <4>7
    <3>2. CASE ~done.modified
      <4>1. Leave /\ done.text = t
        BY <2>1, <2>2, <3>2
      <4>2. ~Writing' /\ \A g : Memory(g)' = Decoded(tree[g])
        BY <1>1, <1>2, <4>1, LeaveIs DEF Memory
      <4>3. /\ run' \in Runs /\ settled' \in BOOLEAN /\ whole' \in BOOLEAN
            /\ run'.pc # "idle" => run'.part # 0
            /\ \A i \in DOMAIN Parts : DoneWith(i)' => i <= run.part
            /\ \A i \in DOMAIN Parts : whole' \/ Quieted(i)' =>
                  whole \/ (i <= run.part /\ i \notin run.skipped)
        BY <1>1, <1>2, <4>1, LeaveIs
      <4>4. run'.pc \in {"idle", "open", "write"}
        BY <4>2, <4>3 DEF Runs, Writing
      <4> QED
        BY <2>t, <4>1, <4>2, <4>3, <4>4
    <3> QED
      BY <3>1, <3>2
  <2>5. TypeOK'
    BY <1>1, <1>2, <2>2, <2>3, <2>4 DEF TypeOK, Runs
  <2>6. PartInv' /\ SoundInv'
    BY <1>1, <1>2, <1>10, <2>0, <2>1, <2>4 DEF PartInv, SoundInv
  <2>7. ASSUME NEW a \in Places, DoneWith(a[1])'
        PROVE  IF File(a) \in DOMAIN tree' THEN Accounted(a, Memory(File(a))', failed')
               ELSE Change(a) \in failed'
    <3>1. a[1] <= run.part /\ a[1] \in Nat
      BY <1>4, <2>4, <2>7
    <3>2. CASE File(a) = f
      BY <1>2, <1>10, <2>0, <2>1, <2>2, <2>4, <3>1, <3>2
    <3>3. CASE File(a) # f
      <4>1. a[1] < run.part /\ failed \subseteq failed'
        BY <1>3, <2>0, <2>2, <3>1, <3>3
      <4> QED
        BY <1>2, <1>7, <2>4, <3>3, <4>1
    <3> QED
      BY <3>2, <3>3
  <2>8. ASSUME NEW a \in Places, whole' \/ Quieted(a[1])', File(a) \in DOMAIN tree'
        PROVE  Quiet(a, Memory(File(a))')
    <3>1. whole \/ (a[1] <= run.part /\ a[1] \in Nat /\ a[1] \notin run.skipped)
      BY <1>4, <2>4, <2>8
    <3>2. CASE File(a) = f /\ a[1] <= run.part /\ a[1] \notin run.skipped
      <4>1. a[1] = run.part \/ a[1] < run.part
        BY <1>3, <1>4, <3>2
      <4>2. a[1] < run.part => Quieted(a[1])
        BY <1>2, <1>3, <1>4, <3>2 DEF Quieted
      <4> QED
        BY <2>1, <2>4, <3>2, <4>1, <4>2
    <3>3. CASE File(a) = f /\ whole
      <4>1. Quiet(a, t) /\ done.text = t
        BY <1>6, <1>10, <2>0, <2>t, <2>1, <3>3
      <4> QED
        BY <2>4, <3>3, <4>1
    <3>4. CASE File(a) # f
      <4>1. whole \/ (a[1] < run.part /\ a[1] \notin run.skipped)
        BY <1>3, <2>0, <3>1, <3>4
      <4> QED
        BY <1>2, <1>6, <2>4, <2>8, <3>4, <4>1
    <3> QED
      BY <3>1, <3>2, <3>3, <3>4
  <2>9. RestInv'
    <3>1. ASSUME f \notin torn, done.modified PROVE Kin(f, done.text)
      <4>1. CASE tree[f] = upstream[f]
        BY <2>t, <2>1, <2>3, <3>1, <4>1 DEF Kin
      <4>2. CASE Kin(f, tree[f])
        <5>1. t = tree[f]
          BY <2>t, <4>2, TextDecoded DEF Kin
        <5> QED
          BY <2>1, <2>3, <4>2, <5>1 DEF Kin
      <4> QED
        BY <1>8, <1>10, <2>0, <3>1, <4>1, <4>2
    <3>2. ASSUME NEW g \in DOMAIN tree \ torn, Writing', g = Part'.file
          PROVE  Kin(g, run'.text)
      BY <2>0, <2>4, <3>1, <3>2
    <3> QED
      BY <1>2, <1>8, <3>2 DEF RestInv, Kin
  <2> QED
    BY <2>4, <2>5, <2>6, <2>7, <2>8, <2>9 DEF IInv, AccountedInv, QuietInv
<1> QED
  BY <1>9, <1>10

LEMMA TruncateInv == IInv /\ Truncate => IInv'
<1> SUFFICES ASSUME IInv, Truncate PROVE IInv'
  OBVIOUS
<1>1. TypeOK /\ PartInv /\ SoundInv /\ AccountedInv /\ QuietInv /\ RestInv
  BY DEF IInv
<1>2. PICK f : f = Part.file
  OBVIOUS
<1>3. /\ run.pc = "write" /\ run'.pc = "close" /\ run'.part = run.part /\ run'.text = run.text
      /\ run' \in Runs /\ run'.skipped = run.skipped
      /\ tree' = [tree EXCEPT ![f] = <<>>] /\ f \in DOMAIN tree
      /\ upstream' = upstream /\ failed' = failed /\ torn' = torn
      /\ settled' = settled /\ whole' = whole /\ ~whole
  BY <1>1, <1>2 DEF Truncate, TypeOK, PartInv, QuietInv, Writing, Runs
<1>4. Part' = Part /\ Writing /\ Writing'
  BY <1>3 DEF Part, Writing
<1>5. DOMAIN tree' = DOMAIN tree /\ \A g \in DOMAIN tree : Memory(g)' = Memory(g)
  BY <1>2, <1>3, <1>4 DEF Memory
<1>6. tree'[f] = <<>> /\ \A g \in DOMAIN tree \ {f} : tree'[g] = tree[g]
  BY <1>3
<1>7. tree'[f] \in Content /\ Sound(f, Decoded(tree'[f]))
  <2>1. run.text \in Text /\ Sound(f, run.text) /\ 0 \in 0..Len(run.text)
    BY <1>1, <1>2, <1>4 DEF TypeOK, SoundInv, Text
  <2>2. SubSeq(run.text, 1, 0) = <<>>
    BY <2>1, SubSeqEmpty DEF Text
  <2>3. tree'[f] \in Text /\ Sound(f, tree'[f])
    BY <1>6, <2>1, <2>2, PrefixIs
  <2> QED
    BY <2>3, TextDecoded
<1>8. TypeOK'
  BY <1>1, <1>3, <1>5, <1>6, <1>7 DEF TypeOK, Runs
<1>9. PartInv' /\ SoundInv'
  BY <1>1, <1>3, <1>4, <1>5, <1>6, <1>7 DEF PartInv, SoundInv
<1>10. AccountedInv' /\ QuietInv'
  <2>1. \A i \in DOMAIN Parts : DoneWith(i)' => DoneWith(i)
    BY <1>3, <1>4 DEF DoneWith
  <2>2. \A i \in DOMAIN Parts : whole' \/ Quieted(i)' => whole \/ Quieted(i)
    BY <1>3, <2>1 DEF Quieted
  <2> QED
    BY <1>1, <1>3, <1>5, <2>1, <2>2, Kept
<1>11. RestInv'
  <2>1. ASSUME NEW g \in DOMAIN tree \ torn
        PROVE  /\ g = f \/ tree'[g] = upstream[g] \/ Kin(g, tree'[g])
               /\ g = f => Kin(g, run.text)
    BY <1>1, <1>2, <1>3, <1>4, <1>6 DEF RestInv
  <2> QED
    BY <1>2, <1>3, <1>4, <1>5, <2>1 DEF RestInv, Kin
<1> QED
  BY <1>8, <1>9, <1>10, <1>11 DEF IInv

LEMMA WriteInv == IInv /\ Write => IInv'
<1> SUFFICES ASSUME IInv, Write PROVE IInv'
  OBVIOUS
<1>1. TypeOK /\ PartInv /\ SoundInv /\ AccountedInv /\ QuietInv /\ RestInv
  BY DEF IInv
<1>2. PICK f : f = Part.file
  OBVIOUS
<1>3. /\ run.pc = "close" /\ Writing /\ run.text \in Text /\ Leave
      /\ tree' = [tree EXCEPT ![f] = run.text] /\ f \in DOMAIN tree
      /\ upstream' = upstream /\ failed' = failed /\ torn' = torn
  BY <1>1, <1>2 DEF Write, TypeOK, PartInv, Writing
<1>4. /\ run' \in Runs /\ settled' \in BOOLEAN /\ whole' \in BOOLEAN
      /\ ~Writing' /\ run'.pc # "close"
      /\ run'.pc # "idle" => run'.part # 0
      /\ \A i \in DOMAIN Parts : DoneWith(i)' => i <= run.part
      /\ \A i \in DOMAIN Parts : whole' \/ Quieted(i)' =>
            whole \/ (i <= run.part /\ i \notin run.skipped)
  BY <1>1, <1>3, LeaveIs
<1>5. DOMAIN tree' = DOMAIN tree /\ tree'[f] = run.text /\ \A g \in DOMAIN tree \ {f} : tree'[g] = tree[g]
  BY <1>3
<1>6. run.text \in Content /\ Decoded(run.text) = run.text
  BY <1>3, TextDecoded
<1>7. \A g \in DOMAIN tree : Memory(g)' = Decoded(tree'[g]) /\ Memory(g)' = Memory(g)
  BY <1>2, <1>3, <1>4, <1>5, <1>6 DEF Memory
<1>8. Sound(f, run.text)
  BY <1>1, <1>2, <1>3 DEF SoundInv
<1>9. TypeOK'
  BY <1>1, <1>3, <1>4, <1>5, <1>6 DEF TypeOK, Runs
<1>10. PartInv' /\ SoundInv'
  BY <1>1, <1>4, <1>5, <1>6, <1>8 DEF PartInv, SoundInv
<1>11. AccountedInv' /\ QuietInv'
  <2>1. ASSUME NEW i \in DOMAIN Parts, i <= run.part PROVE DoneWith(i)
    <3>1. i < run.part \/ i = run.part
      BY <1>1, <2>1, PlacesAre DEF TypeOK
    <3> QED
      BY <1>3, <3>1 DEF DoneWith
  <2>2. \A i \in DOMAIN Parts : DoneWith(i)' => DoneWith(i)
    BY <1>4, <2>1
  <2>3. \A i \in DOMAIN Parts : whole' \/ Quieted(i)' => whole \/ Quieted(i)
    BY <1>3, <1>4, <2>1 DEF Quieted
  <2> QED
    BY <1>1, <1>3, <1>4, <1>5, <1>7, <2>2, <2>3, Kept
<1>12. RestInv'
  <2>1. ASSUME NEW g \in DOMAIN tree \ torn
        PROVE  tree'[g] = upstream[g] \/ Kin(g, tree'[g])
    BY <1>1, <1>2, <1>3, <1>5, <2>1 DEF RestInv
  <2> QED
    BY <1>3, <1>4, <1>5, <2>1 DEF RestInv, Kin
<1> QED
  BY <1>9, <1>10, <1>11, <1>12 DEF IInv

LEMMA KillInv == IInv /\ Kill => IInv'
<1> SUFFICES ASSUME IInv, Kill PROVE IInv'
  OBVIOUS
<1>1. TypeOK /\ PartInv /\ SoundInv /\ AccountedInv /\ QuietInv /\ RestInv
  BY DEF IInv
<1>2. /\ run' = [pc |-> "idle", part |-> 0, text |-> <<>>, skipped |-> {}]
      /\ settled' = FALSE /\ whole' = FALSE
      /\ upstream' = upstream /\ failed' = failed
  BY DEF Kill, Idle
<1>3. ~Writing' /\ \A i : ~DoneWith(i)' /\ ~Quieted(i)'
  BY <1>2 DEF Writing, DoneWith, Quieted
<1>4. /\ DOMAIN tree' = DOMAIN tree /\ torn' \subseteq DOMAIN tree
      /\ \A g \in DOMAIN tree : tree'[g] \in Content /\ Sound(g, Decoded(tree'[g]))
      /\ \A g \in DOMAIN tree \ torn' : tree'[g] = upstream[g] \/ Kin(g, tree'[g])
  <2>1. CASE run.pc = "close"
    <3>1. PICK f : f = Part.file
      OBVIOUS
    <3>2. PICK n \in 0..Len(run.text) : tree' = [tree EXCEPT ![f] = SubSeq(run.text, 1, n)]
      BY <2>1, <3>1 DEF Kill
    <3>3. torn' = torn \cup {f} /\ f \in DOMAIN tree /\ run.text \in Text /\ Sound(f, run.text)
      BY <1>1, <2>1, <3>1 DEF Kill, PartInv, SoundInv, Writing, TypeOK
    <3>4. SubSeq(run.text, 1, n) \in Content /\ Sound(f, Decoded(SubSeq(run.text, 1, n)))
      <4>1. SubSeq(run.text, 1, n) \in Text /\ Sound(f, SubSeq(run.text, 1, n))
        BY <3>3, PrefixIs
      <4> QED
        BY <4>1, TextDecoded
    <3>5. /\ tree'[f] = SubSeq(run.text, 1, n) /\ DOMAIN tree' = DOMAIN tree
          /\ \A g \in DOMAIN tree \ {f} : tree'[g] = tree[g]
      BY <3>2, <3>3
    <3>6. \A g \in DOMAIN tree \ torn' : tree[g] = upstream[g] \/ Kin(g, tree[g])
      BY <1>1, <3>1, <3>3 DEF RestInv
    <3>7. /\ torn \subseteq DOMAIN tree
          /\ \A g \in DOMAIN tree : tree[g] \in Content /\ Sound(g, Decoded(tree[g]))
      BY <1>1 DEF TypeOK, SoundInv
    <3> QED
      BY <3>3, <3>4, <3>5, <3>6, <3>7
  <2>2. CASE run.pc # "close"
    <3>1. tree' = tree /\ torn' = torn
      BY <2>2 DEF Kill
    <3>2. \A g \in DOMAIN tree \ torn : tree[g] = upstream[g] \/ Kin(g, tree[g])
      BY <1>1, <2>2 DEF RestInv
    <3> QED
      BY <1>1, <3>1, <3>2 DEF TypeOK, SoundInv
  <2> QED
    BY <2>1, <2>2
<1>5. TypeOK'
  <2>1. run' \in Runs
    BY <1>2, PlacesAre DEF Text, Runs
  <2>2. failed' \subseteq Changes /\ upstream' \in Upstreams /\ DOMAIN tree' = DOMAIN upstream'
    BY <1>1, <1>2, <1>4 DEF TypeOK
  <2> QED
    BY <1>2, <1>4, <2>1, <2>2 DEF TypeOK, Runs
<1>6. PartInv' /\ SoundInv'
  BY <1>2, <1>3, <1>4 DEF PartInv, SoundInv
<1>7. AccountedInv' /\ QuietInv'
  BY <1>2, <1>3 DEF AccountedInv, QuietInv
<1>8. RestInv'
  BY <1>2, <1>3, <1>4 DEF RestInv, Kin
<1> QED
  BY <1>5, <1>6, <1>7, <1>8 DEF IInv

LEMMA SyncInv == IInv /\ Sync => IInv'
<1> SUFFICES ASSUME IInv, Sync PROVE IInv'
  OBVIOUS
<1>1. /\ run.pc = "idle" /\ run' = run /\ upstream' \in Upstreams /\ tree' = upstream'
      /\ torn' = {} /\ settled' = FALSE /\ whole' = FALSE /\ failed' = {}
  BY DEF Sync
<1>2. ~Writing' /\ \A i : ~DoneWith(i)' /\ ~Quieted(i)'
  BY <1>1 DEF Writing, DoneWith, Quieted
<1>3. \A g \in DOMAIN tree' : tree'[g] \in Content /\ Sound(g, Decoded(tree'[g]))
  BY <1>1, UpstreamIs
<1>4. TypeOK'
  BY <1>1, <1>3 DEF IInv, TypeOK
<1>5. PartInv' /\ SoundInv'
  BY <1>1, <1>2, <1>3 DEF PartInv, SoundInv
<1>6. AccountedInv' /\ QuietInv'
  BY <1>1, <1>2 DEF AccountedInv, QuietInv
<1>7. RestInv'
  BY <1>1, <1>2 DEF RestInv
<1> QED
  BY <1>4, <1>5, <1>6, <1>7 DEF IInv

-----------------------------------------------------------------------------

\* The inductive invariant: what is done so far of a run is accounted for and, but for the patches
\* it did not load, quiet in what is in memory of each file, whatever state the run found them in.
THEOREM Invariance == Spec => []IInv
<1>1. Init => IInv
  BY InitInv
<1>2. IInv /\ [Next]_vars => IInv'
  <2> SUFFICES ASSUME IInv, [Next]_vars PROVE IInv'
    OBVIOUS
  <2>1. CASE Start
    BY <2>1, StartInv
  <2>2. CASE Open
    BY <2>2, OpenInv
  <2>3. CASE Truncate
    BY <2>3, TruncateInv
  <2>4. CASE Write
    BY <2>4, WriteInv
  <2>5. CASE Kill
    BY <2>5, KillInv
  <2>6. CASE Sync
    BY <2>6, SyncInv
  <2>7. CASE UNCHANGED vars
    BY <2>7 DEF IInv, TypeOK, PartInv, SoundInv, AccountedInv, QuietInv, RestInv, Kin, Quieted,
                DoneWith, Memory, Writing, Part, vars
  <2> QED
    BY <2>1, <2>2, <2>3, <2>4, <2>5, <2>6, <2>7 DEF Next
<1> QED
  BY <1>1, <1>2, PTL DEF Spec

\* Every text of a run is made of tokens, every file of the tree of tokens and of what did not
\* decode, and the run is at one of its parts.
THEOREM TypeCorrect == Spec => []TypeOK
<1>1. IInv => TypeOK
  BY DEF IInv
<1> QED
  BY <1>1, Invariance, PTL

\* PatchManager.run ends as a success whatever happens; what it left out it has said.  After a run
\* every change of every patch is in its file, reworked there by a later one, or reported, as FAIL
\* or as one of a patch that did not load.
THEOREM NothingLeftOutInSilence == Spec => []AppliedOrReported
<1>1. IInv => AppliedOrReported
  <2> SUFFICES ASSUME IInv, run.pc = "idle", settled, NEW a \in Places
               PROVE  \/ Change(a) \in failed
                      \/ Found(Change(a).mod, Decoded(tree[File(a)]))
                      \/ \E b \in Places : Reworks(b, a) /\ Found(Change(b).mod, Decoded(tree[File(a)]))
    BY DEF AppliedOrReported
  <2>1. DoneWith(a[1]) /\ Memory(File(a)) = Decoded(tree[File(a)])
    BY DEF DoneWith, Memory, Writing
  <2> QED
    BY <2>1 DEF IInv, AccountedInv, Accounted
<1> QED
  BY <1>1, Invariance, PTL

\* BaseSubPatch.mod writes a file back only if one of its changes found what it looks for in the
\* file as it came, and then all of its text that no change names is in it still; every other file
\* is as it came, also in what does not decode.  A file in whose writing a run was killed is let off.
THEOREM OnlyWhatIsNamed == Spec => []NothingElseChanges
<1>1. IInv => NothingElseChanges
  BY DEF IInv, RestInv, Kin, Fitted, NothingElseChanges
<1> QED
  BY <1>1, Invariance, PTL

\* The tree of the build before is patched again by every build, which then leaves it as it is, once
\* a run was through it that had loaded all patches.
THEOREM SecondRunWritesNothing == Spec => RerunIsQuiet
<1>1. IInv /\ [Next]_vars => [(whole /\ whole') => tree' = tree]_vars
  <2> SUFFICES ASSUME IInv, Next, whole, whole' PROVE tree' = tree
    BY DEF vars
  <2>1. run.pc \notin {"write", "close"}
    BY DEF IInv, QuietInv, Writing
  <2> QED
    BY <2>1 DEF Next, Start, Open, Truncate, Write, Kill, Sync
<1> QED
  BY <1>1, Invariance, PTL DEF Spec, RerunIsQuiet

=============================================================================
