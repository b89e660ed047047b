---------------------------- MODULE Inode_proofs ----------------------------
(***************************************************************************)
(* The inode table for any number of tasks, inodes, super blocks, devices  *)
(* and inode numbers: IInv (in InodeInv) is kept by every step, so that    *)
(* UniqueInode, CountIsUsers, LinksKnown and NeverPanics always hold.      *)
(*                                                                         *)
(* First numbers and stacks, then what the invariant says of the task that *)
(* runs and of the others, then one lemma for each action.  Most actions   *)
(* are of a kind: they leave the inodes alone or change one of them, begin *)
(* a call, return to the caller, or change a super block (Quiet, Steady,   *)
(* Touched, OneInode, Mounting, SuperOnly in InodeInv).                    *)
(***************************************************************************)
EXTENDS InodeInv, FiniteSetTheorems, FunctionTheorems, WellFoundedInduction, TLAPS

(* Numbers, sets and sums.                                                 *)
LEMMA LeastExists ==
    ASSUME NEW S, S \subseteq Nat, S # {}
    PROVE  Min(S) \in S /\ \A y \in S : Min(S) <= y
<1> DEFINE R == OpToRel(<, Nat)
<1>1. PICK x \in S : \A y \in S : ~(<<y, x>> \in R)
  <2>1. IsWellFoundedOn(R, Nat)
    BY NatLessThanWellFounded
  <2> HIDE DEF R
  <2> QED
    BY <2>1, WFMin
<1>2. \A y \in S : ~(y < x)
  BY <1>1 DEF OpToRel
<1> HIDE DEF R
<1>3. \A y \in S : x <= y
  BY <1>2
<1> QED
  BY <1>3 DEF Min

LEMMA TokensOfOne ==
    ASSUME NEW t, NEW m \in Nat
    PROVE  IsFiniteSet({t} \X (1..m)) /\ Cardinality({t} \X (1..m)) = m
<1>1. IsFiniteSet({t}) /\ Cardinality({t}) = 1
  BY FS_Singleton
<1>2. IsFiniteSet(1..m) /\ Cardinality(1..m) = IF 1 > m THEN 0 ELSE m - 1 + 1
  BY FS_Interval
<1>3. Cardinality(1..m) = m
  BY <1>2
<1> DEFINE A == {t}
           B == 1..m
<1> HIDE DEF A, B
<1>4. IsFiniteSet(A \X B) /\ Cardinality(A \X B) = Cardinality(A) * Cardinality(B)
  BY <1>1, <1>2, FS_Product DEF A, B
<1>5. Cardinality(A) * Cardinality(B) = m
  BY <1>1, <1>3 DEF A, B
<1> QED
  BY <1>4, <1>5 DEF A, B

LEMMA TokensOf ==
    ASSUME NEW n \in [Task -> Nat]
    PROVE  /\ Total(n) = Cardinality(Tokens(n)) /\ IsFiniteSet(Tokens(n)) /\ Total(n) \in Nat
           /\ \A x : x \in Tokens(n) <=> x[1] \in Task /\ x[2] \in 1..n[x[1]] /\ x = <<x[1], x[2]>>
<1> DEFINE F == [t \in Task |-> {t} \X (1..n[t])]
           S == {F[t] : t \in Task}
<1>1. Total(n) = Cardinality(Tokens(n))
  BY DEF Total, Tokens
<1>2. Tokens(n) = UNION S
  BY DEF Tokens
<1>3. IsFiniteSet(S)
  <2>1. F \in Surjection(Task, S)
    BY DEF Surjection
  <2> HIDE DEF F, S
  <2> QED  BY <2>1, FS_Surjection, InodeAssumption
<1>4. \A T \in S : IsFiniteSet(T)
  <2> SUFFICES ASSUME NEW t \in Task  PROVE IsFiniteSet({t} \X (1..n[t]))
    OBVIOUS
  <2>1. n[t] \in Nat
    OBVIOUS
  <2> QED  BY <2>1, TokensOfOne
<1>5. IsFiniteSet(Tokens(n))
  <2> HIDE DEF S
  <2> QED  BY <1>2, <1>3, <1>4, FS_UNION
<1>6. \A x : x \in Tokens(n) <=> x[1] \in Task /\ x[2] \in 1..n[x[1]] /\ x = <<x[1], x[2]>>
  BY DEF Tokens
<1> QED
  BY <1>1, <1>5, <1>6, FS_CardinalityType

LEMMA TotalChange ==
    ASSUME NEW f \in [Task -> Nat], NEW g \in [Task -> Nat], NEW t \in Task,
           \A u \in Task : u # t => g[u] = f[u]
    PROVE  Total(f) \in Nat /\ Total(g) \in Nat /\ Total(g) = Total(f) - f[t] + g[t]
<1> DEFINE F == Tokens(f)
           G == Tokens(g)
           ft == {t} \X (1..f[t])
           gt == {t} \X (1..g[t])
<1>1. /\ Total(f) = Cardinality(F) /\ IsFiniteSet(F) /\ Total(f) \in Nat
      /\ Total(g) = Cardinality(G) /\ IsFiniteSet(G) /\ Total(g) \in Nat
  BY TokensOf
<1>2. Cardinality(ft) = f[t] /\ Cardinality(gt) = g[t]
  <2>1. f[t] \in Nat /\ g[t] \in Nat
    OBVIOUS
  <2> QED  BY <2>1, TokensOfOne
<1>3. F \cap ft = ft /\ G \cap gt = gt
  BY TokensOf
<1>4. F \ ft = G \ gt
  <2>1. \A x : x \in F \ ft <=> x[1] \in Task /\ x[1] # t /\ x[2] \in 1..f[x[1]] /\ x = <<x[1], x[2]>>
    BY TokensOf
  <2>2. \A x : x \in G \ gt <=> x[1] \in Task /\ x[1] # t /\ x[2] \in 1..g[x[1]] /\ x = <<x[1], x[2]>>
    BY TokensOf
  <2> HIDE DEF F, G, ft, gt
  <2> QED  BY <2>1, <2>2
<1> HIDE DEF F, G, ft, gt
<1>5. Cardinality(F \ ft) = Cardinality(F) - Cardinality(F \cap ft)
  BY <1>1, FS_Difference
<1>6. Cardinality(G \ gt) = Cardinality(G) - Cardinality(G \cap gt)
  BY <1>1, FS_Difference
<1>7. Total(f) - f[t] = Total(g) - g[t]
  BY <1>1, <1>2, <1>3, <1>4, <1>5, <1>6
<1> QED
  BY <1>1, <1>7

(* What one task, or two, contribute.                                      *)
LEMMA TotalBounds ==
    ASSUME NEW f \in [Task -> Nat]
    PROVE  /\ Total(f) \in Nat
           /\ \A t \in Task : f[t] <= Total(f)
           /\ \A t, u \in Task : t # u => f[t] + f[u] <= Total(f)
           /\ (\A t \in Task : f[t] = 0) => Total(f) = 0
<1>1. Total(f) \in Nat
  BY TokensOf
<1>2. ASSUME NEW t \in Task
      PROVE  LET g == [f EXCEPT ![t] = 0]
             IN  g \in [Task -> Nat] /\ Total(g) \in Nat /\ Total(g) = Total(f) - f[t]
  <2> DEFINE g == [f EXCEPT ![t] = 0]
  <2>1. g \in [Task -> Nat] /\ g[t] = 0 /\ \A u \in Task : u # t => g[u] = f[u]
    OBVIOUS
  <2> HIDE DEF g
  <2>2. Total(g) \in Nat /\ Total(g) = Total(f) - f[t] + g[t]
    BY <2>1, TotalChange
  <2>3. Total(g) = Total(f) - f[t]
    BY <2>1, <2>2, <1>1
  <2> QED  BY <2>1, <2>2, <2>3 DEF g
<1>3. ASSUME NEW t \in Task  PROVE f[t] <= Total(f)
  <2>1. Total(f) - f[t] \in Nat
    BY <1>2
  <2> QED  BY <2>1, <1>1
<1>4. ASSUME NEW t \in Task, NEW u \in Task, t # u  PROVE f[t] + f[u] <= Total(f)
  <2> DEFINE g == [f EXCEPT ![t] = 0]
  <2>1. g \in [Task -> Nat] /\ Total(g) \in Nat /\ Total(g) = Total(f) - f[t]
    BY <1>2
  <2>2. g[u] = f[u]
    BY <1>4
  <2> HIDE DEF g
  <2> DEFINE h == [g EXCEPT ![u] = 0]
  <2>3. h \in [Task -> Nat] /\ h[u] = 0 /\ \A v \in Task : v # u => h[v] = g[v]
    BY <2>1
  <2> HIDE DEF h
  <2>4. Total(h) \in Nat /\ Total(h) = Total(g) - g[u] + h[u]
    BY <2>1, <2>3, TotalChange
  <2> QED  BY <2>1, <2>2, <2>3, <2>4, <1>1
<1>5. ASSUME \A t \in Task : f[t] = 0  PROVE Total(f) = 0
  <2>1. Tokens(f) = {}
    BY <1>5, TokensOf
  <2> QED  BY <2>1, TokensOf, FS_EmptySet
<1> QED
  BY <1>1, <1>3, <1>4, <1>5

(* Frames and stacks.                                                      *)
LEMMA FrameFacts ==
    ASSUME NEW f \in FrameType
    PROVE  /\ f = Frame(f.at, f.i) /\ f.at # "user"
           /\ f.at \in OnSlot \cup OnSuper \cup OnNone \cup {"sync", "mount_super"}
           /\ f.at \in OnSlot => f.i \in Slot
           /\ f.at \in OnSuper => f.i \in Super
           /\ f.at \in OnNone => f.i = 0
           /\ f.at = "sync" => f.i \in 1..(NR_INODE + 1)
           /\ f.at = "mount_super" => f.i \in Dev
BY DEF FrameType, OnSlot, OnSuper, OnNone, Frame

LEMMA MakeFrame ==
    /\ \A at \in OnSlot, i \in Slot : Frame(at, i) \in FrameType
    /\ \A at \in OnSuper, s \in Super : Frame(at, s) \in FrameType
    /\ \A at \in OnNone : Frame(at, 0) \in FrameType
    /\ \A i \in 1..(NR_INODE + 1) : Frame("sync", i) \in FrameType
    /\ \A d \in Dev : Frame("mount_super", d) \in FrameType
BY DEF FrameType, Frame

LEMMA FrameEq ==
    ASSUME NEW a, NEW i  PROVE Frame(a, i).at = a /\ Frame(a, i).i = i
BY DEF Frame

LEMMA PushSeq ==
    ASSUME NEW s \in Seq(FrameType), NEW f \in FrameType
    PROVE  LET c == <<f>> \o s IN
           /\ c \in Seq(FrameType) /\ c # <<>> /\ Head(c) = f /\ Tail(c) = s
           /\ Top(c) = f /\ Len(c) = Len(s) + 1 /\ DOMAIN c = 1..(Len(s) + 1)
           /\ c[1] = f /\ \A k \in 1..Len(s) : c[k + 1] = s[k]
           /\ DOMAIN s = 1..Len(s) /\ Len(s) \in Nat
<1> DEFINE c == <<f>> \o s
<1>1. /\ c \in Seq(FrameType) /\ Len(c) = Len(s) + 1 /\ Len(s) \in Nat
  OBVIOUS
<1>2. DOMAIN c = 1..(Len(s) + 1) /\ DOMAIN s = 1..Len(s)
  BY <1>1
<1>3. c[1] = f /\ \A k \in 1..Len(s) : c[k + 1] = s[k]
  OBVIOUS
<1>4. c # <<>> /\ Head(c) = f
  BY <1>1, <1>3
<1>5. Tail(c) = s
  OBVIOUS
<1>6. Top(c) = f
  BY <1>4 DEF Top
<1> QED
  BY <1>1, <1>2, <1>3, <1>4, <1>5, <1>6

LEMMA PushHas ==
    ASSUME NEW s \in Seq(FrameType), NEW f \in FrameType, NEW g
    PROVE  Has(<<f>> \o s, g) <=> g = f \/ Has(s, g)
<1> DEFINE c == <<f>> \o s
<1>1. /\ DOMAIN c = 1..(Len(s) + 1) /\ c[1] = f /\ \A k \in 1..Len(s) : c[k + 1] = s[k]
      /\ DOMAIN s = 1..Len(s) /\ Len(s) \in Nat
  BY PushSeq
<1> HIDE DEF c
<1>2. Has(c, g) => g = f \/ Has(s, g)
  <2> SUFFICES ASSUME NEW k \in 1..(Len(s) + 1), c[k] = g, g # f  PROVE Has(s, g)
    BY <1>1 DEF Has
  <2>1. k # 1 /\ k - 1 \in 1..Len(s) /\ c[(k - 1) + 1] = s[k - 1]
    BY <1>1
  <2>2. s[k - 1] = g
    BY <2>1
  <2> QED  BY <2>1, <2>2, <1>1 DEF Has
<1>3. g = f => Has(c, g)
  BY <1>1 DEF Has
<1>4. Has(s, g) => Has(c, g)
  <2> SUFFICES ASSUME NEW k \in 1..Len(s), s[k] = g  PROVE Has(c, g)
    BY <1>1 DEF Has
  <2>1. k + 1 \in DOMAIN c /\ c[k + 1] = g
    BY <1>1
  <2> QED  BY <2>1 DEF Has
<1> QED
  BY <1>2, <1>3, <1>4 DEF c

LEMMA PushFrames ==
    ASSUME NEW s \in Seq(FrameType), NEW f \in FrameType, NEW i
    PROVE  /\ Frames(s, i) \in Nat
           /\ Frames(<<f>> \o s, i) = Frames(s, i) + Counting(f, i)
<1> DEFINE c == <<f>> \o s
           P(x) == x.at \in {"iput", "irepeat", "trunc", "mount", "read"} /\ x.i = i
           A == {k \in DOMAIN s : P(s[k])}
           B == {k \in DOMAIN c : P(c[k])}
           C == B \ {1}
<1>1. /\ DOMAIN c = 1..(Len(s) + 1) /\ c[1] = f /\ \A k \in 1..Len(s) : c[k + 1] = s[k]
      /\ DOMAIN s = 1..Len(s) /\ Len(s) \in Nat
  BY PushSeq
<1>2. Frames(s, i) = Cardinality(A) /\ Frames(c, i) = Cardinality(B)
  BY DEF Frames
<1> HIDE DEF c, P
<1>3. IsFiniteSet(A) /\ IsFiniteSet(B)
  <2>1. IsFiniteSet(1..Len(s)) /\ IsFiniteSet(1..(Len(s) + 1))
    BY <1>1, FS_Interval
  <2>2. A \in SUBSET (1..Len(s)) /\ B \in SUBSET (1..(Len(s) + 1))
    BY <1>1
  <2> HIDE DEF A, B
  <2> QED  BY <2>1, <2>2, FS_Subset
<1>4. Cardinality(A) = Cardinality(C)
  <2> DEFINE h == [k \in A |-> k + 1]
  <2>1. h \in [A -> C]
    <3> SUFFICES ASSUME NEW k \in A  PROVE k + 1 \in C
      OBVIOUS
    <3>1. k \in 1..Len(s) /\ P(s[k])
      BY <1>1
    <3> QED  BY <3>1, <1>1
  <2>2. h \in Injection(A, C)
    <3>1. \A k \in A : k \in Nat
      BY <1>1
    <3>2. \A a, b \in A : h[a] = h[b] => a = b
      BY <3>1
    <3> HIDE DEF h, A, C
    <3> QED  BY <2>1, <3>2 DEF Injection, IsInjective
  <2>3. \A m \in C : \E k \in A : h[k] = m
    <3> SUFFICES ASSUME NEW m \in C  PROVE \E k \in A : h[k] = m
      OBVIOUS
    <3>1. m \in 1..(Len(s) + 1) /\ m # 1 /\ P(c[m])
      BY <1>1
    <3>2. m - 1 \in 1..Len(s) /\ c[(m - 1) + 1] = s[m - 1] /\ (m - 1) + 1 = m
      BY <3>1, <1>1
    <3>3. m - 1 \in A
      BY <3>1, <3>2, <1>1
    <3> QED  BY <3>2, <3>3
  <2>4. h \in Bijection(A, C)
    <3> HIDE DEF h, A, C
    <3> QED  BY <2>1, <2>2, <2>3 DEF Bijection, Surjection
  <2>5. ExistsBijection(A, C)
    <3> HIDE DEF h, A, C
    <3> QED BY <2>4 DEF ExistsBijection
  <2> HIDE DEF A, C
  <2> QED  BY <2>5, <1>3, FS_Bijection
<1>5. (1 \in B) <=> P(f)
  BY <1>1
<1>6. Cardinality(B) \in Nat /\ Cardinality(A) \in Nat
  <2> HIDE DEF A, B
  <2> QED  BY <1>3, FS_CardinalityType
<1>7. Cardinality(C) = IF 1 \in B THEN Cardinality(B) - 1 ELSE Cardinality(B)
  <2> HIDE DEF B
  <2> QED  BY <1>3, FS_RemoveElement
<1>8. Counting(f, i) = IF P(f) THEN 1 ELSE 0
  BY DEF Counting, P
<1> HIDE DEF A, B, C
<1>9. Cardinality(B) = Cardinality(A) + Counting(f, i)
  BY <1>4, <1>5, <1>6, <1>7, <1>8
<1> QED
  BY <1>2, <1>6, <1>9 DEF c

LEMMA PushWell ==
    ASSUME NEW s \in Seq(FrameType), NEW f \in FrameType
    PROVE  WellFormed(<<f>> \o s) <=> WellFormed(s) /\ Fits(f, Top(s).at)
<1> DEFINE c == <<f>> \o s
           below(x, k) == IF k + 1 \in DOMAIN x THEN x[k + 1].at ELSE "user"
<1>1. /\ DOMAIN c = 1..(Len(s) + 1) /\ c[1] = f /\ \A k \in 1..Len(s) : c[k + 1] = s[k]
      /\ DOMAIN s = 1..Len(s) /\ Len(s) \in Nat
  BY PushSeq
<1>2. Top(s).at = IF Len(s) = 0 THEN "user" ELSE s[1].at
  BY FrameEq DEF Top
<1> HIDE DEF c
<1>3. below(c, 1) = Top(s).at
  BY <1>1, <1>2
<1>4. \A k \in 1..Len(s) : below(c, k + 1) = below(s, k)
  <2> TAKE k \in 1..Len(s)
  <2>1. CASE k + 1 \in 1..Len(s)
    BY <2>1, <1>1
  <2>2. CASE k + 1 \notin 1..Len(s)
    BY <2>2, <1>1
  <2> QED  BY <2>1, <2>2
<1>5. WellFormed(c) <=> \A k \in 1..(Len(s) + 1) : Fits(c[k], below(c, k))
  BY <1>1 DEF WellFormed
<1>6. WellFormed(s) <=> \A k \in 1..Len(s) : Fits(s[k], below(s, k))
  BY <1>1 DEF WellFormed
<1> HIDE DEF below
<1>7. WellFormed(c) => WellFormed(s) /\ Fits(f, Top(s).at)
  <2> HAVE WellFormed(c)
  <2>1. Fits(c[1], below(c, 1))
    BY <1>5, <1>1
  <2>2. ASSUME NEW k \in 1..Len(s)  PROVE Fits(s[k], below(s, k))
    <3>1. k + 1 \in 1..(Len(s) + 1)
      BY <1>1
    <3>2. Fits(c[k + 1], below(c, k + 1))
      BY <1>5, <3>1
    <3> QED  BY <3>2, <1>1, <1>4
  <2> QED  BY <2>1, <2>2, <1>1, <1>3, <1>6
<1>8. WellFormed(s) /\ Fits(f, Top(s).at) => WellFormed(c)
  <2> HAVE WellFormed(s) /\ Fits(f, Top(s).at)
  <2> SUFFICES ASSUME NEW k \in 1..(Len(s) + 1)  PROVE Fits(c[k], below(c, k))
    BY <1>5
  <2>1. CASE k = 1
    BY <2>1, <1>1, <1>3
  <2>2. CASE k # 1
    <3>1. k - 1 \in 1..Len(s) /\ (k - 1) + 1 = k
      BY <2>2, <1>1
    <3>2. Fits(s[k - 1], below(s, k - 1)) /\ c[(k - 1) + 1] = s[k - 1]
          /\ below(c, (k - 1) + 1) = below(s, k - 1)
      BY <3>1, <1>1, <1>4, <1>6
    <3> QED  BY <3>1, <3>2
  <2> QED  BY <2>1, <2>2
<1> QED
  BY <1>7, <1>8 DEF c

LEMMA PushWork ==
    ASSUME NEW s \in Seq(FrameType), NEW f \in FrameType
    PROVE  Work(<<f>> \o s) = IF f.at \in Service THEN Work(s) ELSE f
<1> DEFINE c == <<f>> \o s
           V == {k \in DOMAIN s : s[k].at \notin Service}
           W == {k \in DOMAIN c : c[k].at \notin Service}
<1>1. /\ DOMAIN c = 1..(Len(s) + 1) /\ c[1] = f /\ \A k \in 1..Len(s) : c[k + 1] = s[k]
      /\ DOMAIN s = 1..Len(s) /\ Len(s) \in Nat
  BY PushSeq
<1>2. /\ Work(s) = IF V = {} THEN Frame("user", 0) ELSE s[Min(V)]
      /\ Work(c) = IF W = {} THEN Frame("user", 0) ELSE c[Min(W)]
  BY DEF Work
<1> HIDE DEF c
<1>3. V \subseteq Nat /\ W \subseteq Nat
  BY <1>1
<1>4. CASE f.at \notin Service
  <2>1. 1 \in W /\ \A k \in W : 1 <= k
    BY <1>4, <1>1
  <2>2. Min(W) = 1
    <3> HIDE DEF W
    <3>1. Min(W) \in W /\ \A y \in W : Min(W) <= y
      BY <2>1, <1>3, LeastExists
    <3> DEFINE w == Min(W)
    <3>2. w \in Nat /\ w <= 1 /\ 1 <= w
      BY <2>1, <3>1, <1>3
    <3> HIDE DEF w
    <3>3. w = 1
      BY <3>2
    <3> QED  BY <3>3 DEF w
  <2> QED
    BY <2>1, <2>2, <1>1, <1>2, <1>4 DEF c
<1>5. CASE f.at \in Service
  <2>1. \A k \in V : k + 1 \in W
    BY <1>1
  <2>2. \A k \in W : k - 1 \in V
    <3> SUFFICES ASSUME NEW k \in W  PROVE k - 1 \in V
      OBVIOUS
    <3>1. k # 1 /\ k \in 1..(Len(s) + 1) /\ c[k].at \notin Service
      BY <1>1, <1>5
    <3>2. k - 1 \in 1..Len(s) /\ (k - 1) + 1 = k /\ c[(k - 1) + 1] = s[k - 1]
      BY <3>1, <1>1
    <3> QED  BY <3>1, <3>2, <1>1
  <2>3. CASE V = {}
    <3>1. W = {}
      BY <2>2, <2>3
    <3> QED  BY <3>1, <2>3, <1>2, <1>5 DEF c
  <2>4. CASE V # {}
    <3>1. W # {}
      BY <2>1, <2>4
    <3>2. /\ Min(V) \in V /\ \A y \in V : Min(V) <= y
          /\ Min(W) \in W /\ \A y \in W : Min(W) <= y
      <4> HIDE DEF V, W
      <4> QED  BY <3>1, <2>4, <1>3, LeastExists
    <3>3. Min(W) = Min(V) + 1
      <4> DEFINE v == Min(V)
                 w == Min(W)
      <4> HIDE DEF v, w
      <4>1. v \in Nat /\ w \in Nat /\ v + 1 \in W /\ w - 1 \in V
        <5> HIDE DEF V, W
        <5> QED  BY <3>2, <2>1, <2>2, <1>3 DEF v, w
      <4>2. w <= v + 1 /\ v <= w - 1
        <5> HIDE DEF V, W
        <5> QED  BY <3>2, <4>1 DEF v, w
      <4> QED  BY <4>1, <4>2 DEF v, w
    <3>4. Min(V) \in 1..Len(s)
      BY <3>2, <1>1
    <3>5. c[Min(V) + 1] = s[Min(V)]
      <4> HIDE DEF V
      <4> QED  BY <3>4, <1>1
    <3> HIDE DEF V, W
    <3> QED  BY <3>1, <3>3, <3>5, <2>4, <1>2, <1>5 DEF c
  <2> QED  BY <2>3, <2>4
<1> QED
  BY <1>4, <1>5

(* All of this at once.                                                    *)
LEMMA Push ==
    ASSUME NEW s \in Seq(FrameType), NEW f \in FrameType
    PROVE  LET c == <<f>> \o s IN
           /\ c \in Seq(FrameType) /\ c # <<>> /\ Head(c) = f /\ Tail(c) = s /\ Top(c) = f
           /\ WellFormed(c) <=> WellFormed(s) /\ Fits(f, Top(s).at)
           /\ Work(c) = IF f.at \in Service THEN Work(s) ELSE f
           /\ \A g : Has(c, g) <=> g = f \/ Has(s, g)
           /\ \A i : Frames(s, i) \in Nat /\ Frames(c, i) = Frames(s, i) + Counting(f, i)
BY PushSeq, PushWell, PushWork, PushHas, PushFrames

LEMMA EmptyStack ==
    /\ <<>> \in Seq(FrameType) /\ Top(<<>>) = Frame("user", 0) /\ Work(<<>>) = Frame("user", 0)
    /\ WellFormed(<<>>) /\ (\A g : ~Has(<<>>, g)) /\ \A i : Frames(<<>>, i) = 0
<1>1. DOMAIN <<>> = {} /\ <<>> \in Seq(FrameType)
  OBVIOUS
<1>2. \A i : Frames(<<>>, i) = 0
  BY <1>1, FS_EmptySet DEF Frames
<1> QED
  BY <1>1, <1>2 DEF Top, Work, WellFormed, Has

LEMMA Pop ==
    ASSUME NEW s \in Seq(FrameType), s # <<>>
    PROVE  /\ Head(s) \in FrameType /\ Tail(s) \in Seq(FrameType) /\ s = <<Head(s)>> \o Tail(s)
           /\ Top(s) = Head(s)
<1>1. Head(s) \in FrameType /\ Tail(s) \in Seq(FrameType) /\ Top(s) = Head(s)
  BY DEF Top
<1>2. s = <<Head(s)>> \o Tail(s)
  OBVIOUS
<1> QED
  BY <1>1, <1>2

(* Stacks of several frames.                                               *)
LEMMA SeqEq ==
    ASSUME NEW x \in Seq(FrameType), NEW y \in Seq(FrameType), Len(x) = Len(y),
           \A k \in 1..Len(x) : x[k] = y[k]
    PROVE  x = y
OBVIOUS

LEMMA StackedOn ==
    ASSUME NEW a \in FrameType, NEW b \in FrameType, NEW s \in Seq(FrameType)
    PROVE  <<a, b>> \o s = <<a>> \o (<<b>> \o s) /\ (<<a>> \o <<b>>) \o s = <<a>> \o (<<b>> \o s)
<1> DEFINE x == <<a, b>> \o s
           y == <<a>> \o (<<b>> \o s)
           z == (<<a>> \o <<b>>) \o s
<1>1. /\ x \in Seq(FrameType) /\ Len(x) = Len(s) + 2 /\ Len(s) \in Nat
      /\ x[1] = a /\ x[2] = b /\ \A k \in 3..(Len(s) + 2) : x[k] = s[k - 2]
  OBVIOUS
<1>2. /\ z \in Seq(FrameType) /\ Len(z) = Len(s) + 2
      /\ z[1] = a /\ z[2] = b /\ \A k \in 3..(Len(s) + 2) : z[k] = s[k - 2]
  OBVIOUS
<1>3. /\ y \in Seq(FrameType) /\ Len(y) = Len(s) + 2
      /\ y[1] = a /\ y[2] = b /\ \A k \in 3..(Len(s) + 2) : y[k] = s[k - 2]
  OBVIOUS
<1> HIDE DEF x, y, z
<1>4. \A k \in 1..(Len(s) + 2) : x[k] = y[k] /\ z[k] = y[k]
  BY <1>1, <1>2, <1>3
<1> QED
  BY <1>1, <1>2, <1>3, <1>4, SeqEq DEF x, y, z

LEMMA StackedThree ==
    ASSUME NEW a \in FrameType, NEW b \in FrameType, NEW c \in FrameType, NEW s \in Seq(FrameType)
    PROVE  <<a, b, c>> \o s = <<a>> \o (<<b>> \o (<<c>> \o s))
<1> DEFINE x == <<a, b, c>> \o s
           r == <<b>> \o (<<c>> \o s)
           y == <<a>> \o r
<1>1. /\ x \in Seq(FrameType) /\ Len(x) = Len(s) + 3 /\ Len(s) \in Nat
      /\ x[1] = a /\ x[2] = b /\ x[3] = c /\ \A k \in 4..(Len(s) + 3) : x[k] = s[k - 3]
  OBVIOUS
<1>2. /\ r \in Seq(FrameType) /\ Len(r) = Len(s) + 2
      /\ r[1] = b /\ r[2] = c /\ \A k \in 3..(Len(s) + 2) : r[k] = s[k - 2]
  OBVIOUS
<1> HIDE DEF r
<1>3. /\ y \in Seq(FrameType) /\ Len(y) = Len(r) + 1
      /\ y[1] = a /\ \A k \in 2..(Len(r) + 1) : y[k] = r[k - 1]
  BY <1>2
<1> HIDE DEF x, y
<1>4. ASSUME NEW k \in 1..(Len(s) + 3)  PROVE x[k] = y[k]
  <2>1. CASE k = 1
    BY <2>1, <1>1, <1>3
  <2>2. CASE k = 2
    BY <2>2, <1>1, <1>2, <1>3
  <2>3. CASE k = 3
    BY <2>3, <1>1, <1>2, <1>3
  <2>4. CASE k > 3
    <3>1. x[k] = s[k - 3] /\ y[k] = r[k - 1] /\ r[k - 1] = s[(k - 1) - 2]
      BY <2>4, <1>1, <1>2, <1>3
    <3> QED  BY <3>1, <1>1
  <2> QED  BY <2>1, <2>2, <2>3, <2>4, <1>1
<1>5. x = y
  BY <1>1, <1>2, <1>3, <1>4, SeqEq
<1> QED
  BY <1>5 DEF x, y, r

LEMMA Stacked ==
    ASSUME NEW a \in FrameType, NEW b \in FrameType, NEW c \in FrameType, NEW d \in FrameType
    PROVE  /\ <<a>> = <<a>> \o <<>>
           /\ <<a, b>> = <<a>> \o (<<b>> \o <<>>)
           /\ <<a, b, c>> = <<a>> \o (<<b>> \o (<<c>> \o <<>>))
           /\ <<a, b, c, d>> = <<a>> \o (<<b>> \o (<<c>> \o (<<d>> \o <<>>)))
<1>1. <<>> \in Seq(FrameType)
  OBVIOUS
<1>2. <<a>> = <<a>> \o <<>>
  OBVIOUS
<1>3. <<a, b>> = <<a, b>> \o <<>>
  OBVIOUS
<1>4. <<a, b, c>> = <<a, b, c>> \o <<>>
  OBVIOUS
<1>5. <<d>> \o <<>> \in Seq(FrameType)
  OBVIOUS
<1>6. <<a, b, c, d>> = <<a, b, c>> \o (<<d>> \o <<>>)
  OBVIOUS
<1>7. <<a, b>> = <<a>> \o (<<b>> \o <<>>)
  BY <1>1, <1>3, StackedOn
<1>8. <<a, b, c>> = <<a>> \o (<<b>> \o (<<c>> \o <<>>))
  BY <1>1, <1>4, StackedThree
<1> DEFINE D == <<d>> \o <<>>
<1> HIDE DEF D
<1>9. <<a, b, c>> \o D = <<a>> \o (<<b>> \o (<<c>> \o D))
  BY <1>5, StackedThree DEF D
<1> QED
  BY <1>2, <1>6, <1>7, <1>8, <1>9 DEF D

LEMMA FramesNat ==
    ASSUME NEW s \in Seq(FrameType), NEW i
    PROVE  /\ Frames(s, i) \in Nat
           /\ \A f \in FrameType : Has(s, f) /\ Counting(f, i) = 1 => Frames(s, i) > 0
<1> DEFINE A == {k \in DOMAIN s : /\ s[k].at \in {"iput", "irepeat", "trunc", "mount", "read"}
                                  /\ s[k].i = i}
<1>1. Frames(s, i) = Cardinality(A)
  BY DEF Frames
<1>2. IsFiniteSet(A)
  <2>1. DOMAIN s = 1..Len(s) /\ Len(s) \in Nat
    OBVIOUS
  <2>2. IsFiniteSet(1..Len(s))
    BY <2>1, FS_Interval
  <2>3. A \in SUBSET (1..Len(s))
    BY <2>1
  <2> HIDE DEF A
  <2> QED  BY <2>2, <2>3, FS_Subset
<1>3. ASSUME NEW f \in FrameType, Has(s, f), Counting(f, i) = 1  PROVE A # {}
  BY <1>3 DEF Has, Counting
<1> HIDE DEF A
<1>4. Cardinality(A) \in Nat /\ (A # {} => Cardinality(A) # 0)
  BY <1>2, FS_CardinalityType, FS_EmptySet
<1> QED
  BY <1>1, <1>3, <1>4

(* What is below a frame.                                                  *)
LEMMA Below ==
    ASSUME NEW s \in Seq(FrameType), s # <<>>, WellFormed(s)
    PROVE  /\ Tail(s) \in Seq(FrameType) /\ Head(s) \in FrameType /\ Top(s) = Head(s)
           /\ WellFormed(Tail(s)) /\ Fits(Head(s), Top(Tail(s)).at)
           /\ (\A g : Has(s, g) <=> g = Head(s) \/ Has(Tail(s), g))
           /\ (\A i : Frames(Tail(s), i) \in Nat
                      /\ Frames(s, i) = Frames(Tail(s), i) + Counting(Head(s), i))
           /\ Work(s) = IF Head(s).at \in Service THEN Work(Tail(s)) ELSE Head(s)
           /\ (Tail(s) # <<>> => Top(Tail(s)) \in FrameType /\ Top(Tail(s)).at # "user")
           /\ (Tail(s) = <<>> => Top(Tail(s)) = Frame("user", 0))
<1>1. /\ Head(s) \in FrameType /\ Tail(s) \in Seq(FrameType) /\ s = <<Head(s)>> \o Tail(s)
      /\ Top(s) = Head(s)
  BY Pop
<1> DEFINE h == Head(s)
           r == Tail(s)
<1> HIDE DEF h, r
<1>2. /\ h \in FrameType /\ r \in Seq(FrameType) /\ s = <<h>> \o r
  BY <1>1 DEF h, r
<1>3. /\ WellFormed(s) <=> WellFormed(r) /\ Fits(h, Top(r).at)
      /\ Work(s) = IF h.at \in Service THEN Work(r) ELSE h
      /\ \A g : Has(s, g) <=> g = h \/ Has(r, g)
      /\ \A i : Frames(r, i) \in Nat /\ Frames(s, i) = Frames(r, i) + Counting(h, i)
  BY <1>2, Push
<1>4. r # <<>> => Top(r) \in FrameType /\ Top(r).at # "user"
  BY <1>2, Pop, FrameFacts
<1>5. r = <<>> => Top(r) = Frame("user", 0)
  BY EmptyStack
<1> QED
  BY <1>1, <1>3, <1>4, <1>5 DEF h, r

LEMMA TopFacts ==
    ASSUME NEW s \in Seq(FrameType)
    PROVE  /\ s = <<>> => Top(s) = Frame("user", 0) /\ Top(s).at = "user"
           /\ s # <<>> => Top(s) \in FrameType /\ Top(s).at # "user" /\ Top(s) = Head(s)
<1>1. s = <<>> => Top(s) = Frame("user", 0)
  BY EmptyStack
<1>2. Frame("user", 0).at = "user"
  BY FrameEq
<1>3. s # <<>> => Top(s) \in FrameType /\ Top(s) = Head(s)
  BY Pop
<1>4. s # <<>> => Top(s).at # "user"
  BY <1>3, FrameFacts
<1> QED
  BY <1>1, <1>2, <1>3, <1>4

(* Only the top frame does input or output.                                *)
LEMMA NoIOBelow ==
    ASSUME NEW s \in Seq(FrameType), s # <<>>, WellFormed(s), NEW g, Has(Tail(s), g)
    PROVE  g.at \notin IO
<1>1. PICK k \in DOMAIN Tail(s) : Tail(s)[k] = g
  BY DEF Has
<1>2. k \in 1..(Len(s) - 1) /\ Tail(s)[k] = s[k + 1] /\ k \in DOMAIN s /\ k + 1 \in DOMAIN s
  BY <1>1
<1>3. Fits(s[k], s[k + 1].at)
  BY <1>2 DEF WellFormed
<1> QED
  BY <1>1, <1>2, <1>3 DEF Fits

(* The frames that are always last.                                        *)
LEMMA LastFrame ==
    ASSUME NEW s \in Seq(FrameType), WellFormed(s), s # <<>>,
           Top(s).at \in Keeper \cup {"mount", "umount"}
    PROVE  Tail(s) = <<>> /\ \A g : Has(s, g) <=> g = Top(s)
<1>1. Tail(s) = <<>>
  BY Below DEF Fits, Keeper
<1> QED
  BY <1>1, Below, EmptyStack

LEMMA UmountLast ==
    ASSUME NEW s \in Seq(FrameType), WellFormed(s), NEW g \in FrameType, Has(s, g),
           g.at = "umount", Top(s).at \notin Service
    PROVE  Top(s) = g
<1>1. s # <<>>
  BY EmptyStack
<1>2. SUFFICES ASSUME Has(Tail(s), g)  PROVE FALSE
  BY <1>1, Below
<1> DEFINE r == Tail(s)
<1> HIDE DEF r
<1>3. r \in Seq(FrameType) /\ WellFormed(r) /\ Has(r, g) /\ Fits(Top(s), Top(r).at) /\ r # <<>>
  BY <1>1, <1>2, Below, EmptyStack DEF r
<1>4. Top(s).at \notin Service /\ Top(s) \in FrameType /\ Top(r) \in FrameType /\ Top(r).at # "user"
  BY <1>1, <1>3, TopFacts
<1>5. Top(s).at \in {"found", "read", "mount", "chdir"} \cup OnSuper \cup OnNone \cup {"mount_super"}
      /\ Top(s).at # "brelse"
  BY <1>4, FrameFacts DEF Service, OnSlot
<1>6. Top(r).at \in Keeper \cup {"mount", "scan", "new_inode", "get_pipe_inode"}
  BY <1>3, <1>4, <1>5 DEF Fits, Keeper, OnSuper, OnNone
<1>7. CASE Top(r).at \in Keeper \cup {"mount"}
  <2>1. g = Top(r)
    BY <1>3, <1>7, LastFrame
  <2> QED  BY <2>1, <1>7 DEF Keeper
<1>8. CASE Top(r).at \in {"scan", "new_inode", "get_pipe_inode"}
  <2> DEFINE q == Tail(r)
  <2> HIDE DEF q
  <2>1. q \in Seq(FrameType) /\ WellFormed(q) /\ Fits(Top(r), Top(q).at)
        /\ (g = Top(r) \/ Has(q, g))
    BY <1>3, Below DEF q
  <2>2. Top(q).at \in Keeper
    BY <2>1, <1>8 DEF Fits, Keeper
  <2>3. Has(q, g) /\ q # <<>>
    BY <2>1, <2>2, <1>8, TopFacts DEF Keeper
  <2>4. g = Top(q)
    BY <2>1, <2>2, <2>3, LastFrame
  <2> QED  BY <2>4, <2>2 DEF Keeper
<1> QED
  BY <1>6, <1>7, <1>8

LEMMA SlotFacts ==
    /\ Slot \subseteq Nat \ {0} /\ Super \subseteq Nat \ {0} /\ 1 \in Slot /\ 1 \in Super
    /\ 0 \notin Slot /\ 0 \notin Super /\ IsFiniteSet(Super) /\ IsFiniteSet(Task)
    /\ Cardinality(Task) \in Nat /\ None \notin Task
    /\ ROOT_DEV \in Dev /\ 0 \notin Dev /\ ROOT_INO \in Num /\ Num \subseteq Nat \ {0} /\ 0 \notin Num
<1>0. /\ NR_INODE \in Nat \ {0} /\ NR_SUPER \in Nat \ {0} /\ None \notin Task /\ IsFiniteSet(Task)
      /\ ROOT_DEV \in Dev /\ 0 \notin Dev /\ ROOT_INO \in Num /\ Num \subseteq Nat \ {0}
  BY Zenon, InodeAssumption
<1>1. NR_INODE \in Nat /\ NR_SUPER \in Nat /\ NR_INODE >= 1 /\ NR_SUPER >= 1
  BY <1>0
<1>2. IsFiniteSet(Super)
  BY <1>1, FS_Interval DEF Super
<1>3. Cardinality(Task) \in Nat
  BY <1>0, FS_CardinalityType
<1>4. /\ Slot \subseteq Nat \ {0} /\ Super \subseteq Nat \ {0} /\ 1 \in Slot /\ 1 \in Super
      /\ 0 \notin Slot /\ 0 \notin Super
  BY <1>1 DEF Slot, Super
<1>5. 0 \notin Num
  BY <1>0
<1> QED
  BY <1>0, <1>2, <1>3, <1>4, <1>5

LEMMA PointersNat ==
    ASSUME NEW T \in TaskType, NEW i \in Slot, NEW p \in BOOLEAN
    PROVE  /\ Pointers(T, i, p) \in Nat /\ Frames(T.stk, i) \in Nat /\ T.held[i] \in Nat
           /\ T.held[i] <= Pointers(T, i, p) /\ Frames(T.stk, i) <= Pointers(T, i, p)
           /\ T.held[i] + Frames(T.stk, i) <= Pointers(T, i, p)
           /\ T.empty = i \/ T.got = i => Pointers(T, i, p) > 0
           /\ T.got # i => \A q : Pointers(T, i, p) = Pointers(T, i, q)
           /\ T.got = i => /\ Pointers(T, i, TRUE) = Pointers(T, i, FALSE) + 1
                           /\ Pointers(T, i, FALSE) > 0
<1>1. T.stk \in Seq(FrameType) /\ T.held[i] \in Nat
  BY DEF TaskType
<1>2. Frames(T.stk, i) \in Nat
  BY <1>1, FramesNat
<1> DEFINE e == IF T.empty = i THEN 1 ELSE 0
           g == IF T.got # i THEN 0 ELSE IF p THEN 2 ELSE 1
           x == T.held[i]
           y == Frames(T.stk, i)
<1>3. e \in Nat /\ g \in Nat /\ (T.empty = i => e > 0) /\ (T.got = i => g > 0)
  OBVIOUS
<1>4. Pointers(T, i, p) = x + y + e + g
  BY DEF Pointers
<1>5. T.got # i => \A q : Pointers(T, i, p) = Pointers(T, i, q)
  BY DEF Pointers
<1>6. T.got = i => Pointers(T, i, TRUE) = x + y + e + 2 /\ Pointers(T, i, FALSE) = x + y + e + 1
  BY DEF Pointers
<1> HIDE DEF e, g, x, y
<1>6a. e \in Nat
  BY <1>3
<1>7. x \in Nat /\ y \in Nat
  BY <1>1, <1>2 DEF x, y
<1>8. /\ Pointers(T, i, p) \in Nat
      /\ x <= Pointers(T, i, p) /\ y <= Pointers(T, i, p) /\ x + y <= Pointers(T, i, p)
  BY <1>3, <1>4, <1>7
<1>9. T.empty = i \/ T.got = i => Pointers(T, i, p) > 0
  BY <1>3, <1>4, <1>7
<1>10. T.got = i => /\ Pointers(T, i, TRUE) = Pointers(T, i, FALSE) + 1
                    /\ Pointers(T, i, FALSE) > 0
  <2> HAVE T.got = i
  <2> DEFINE a == Pointers(T, i, TRUE)
             b == Pointers(T, i, FALSE)
  <2>1. a = x + y + e + 2 /\ b = x + y + e + 1
    BY <1>6
  <2> HIDE DEF a, b
  <2>2. a = b + 1 /\ b > 0
    BY <2>1, <1>6a, <1>7
  <2> QED  BY <2>2 DEF a, b
<1> QED
  BY <1>1, <1>2, <1>5, <1>8, <1>9, <1>10 DEF x, y

LEMMA PointsNat ==
    ASSUME Types, NEW t \in Task, NEW i \in Slot
    PROVE  /\ Points(t, i) \in Nat /\ Frames(task[t].stk, i) \in Nat /\ task[t].held[i] \in Nat
           /\ task[t].held[i] + Frames(task[t].stk, i) <= Points(t, i)
           /\ task[t].empty = i \/ task[t].got = i => Points(t, i) > 0
           /\ \A f \in FrameType : Has(task[t].stk, f) /\ Counting(f, i) = 1
                => Frames(task[t].stk, i) > 0 /\ Points(t, i) > 0
           /\ task[t].stk \in Seq(FrameType) /\ task[t] \in TaskType
<1>1. task[t] \in TaskType /\ inode[i].pipe \in BOOLEAN
  BY DEF Types, InodeType
<1>2. task[t].stk \in Seq(FrameType)
  BY <1>1 DEF TaskType
<1>3. /\ Points(t, i) \in Nat /\ Frames(task[t].stk, i) \in Nat /\ task[t].held[i] \in Nat
      /\ task[t].held[i] + Frames(task[t].stk, i) <= Points(t, i)
      /\ task[t].empty = i \/ task[t].got = i => Points(t, i) > 0
  BY <1>1, PointersNat DEF Points
<1>4. \A f \in FrameType : Has(task[t].stk, f) /\ Counting(f, i) = 1 => Frames(task[t].stk, i) > 0
  BY <1>2, FramesNat
<1> QED
  BY <1>1, <1>2, <1>3, <1>4

LEMMA UsesBounds ==
    ASSUME Types, NEW i \in Slot
    PROVE  /\ Uses(i) \in Nat
           /\ \A t \in Task : Points(t, i) <= Uses(i)
           /\ \A t, u \in Task : t # u => Points(t, i) + Points(u, i) <= Uses(i)
<1> DEFINE f == [t \in Task |-> Points(t, i)]
<1>1. f \in [Task -> Nat] /\ \A t \in Task : f[t] = Points(t, i)
  BY PointsNat
<1>2. Uses(i) = Total(f)
  BY DEF Uses, Points
<1> HIDE DEF f
<1>3. /\ Total(f) \in Nat
      /\ \A t \in Task : f[t] <= Total(f)
      /\ \A t, u \in Task : t # u => f[t] + f[u] <= Total(f)
  BY <1>1, TotalBounds
<1> QED
  BY <1>1, <1>2, <1>3

LEMMA SupersBounds ==
    ASSUME NEW i
    PROVE  /\ OfSupers(i) \in Nat
           /\ \A s \in Super : super[s].imount = i /\ ~Leaving(s) => OfSupers(i) > 0
           /\ \A s, r \in Super : super[s].imount = i /\ ~Leaving(s) /\ super[r].isup = i
                => OfSupers(i) >= 2
<1> DEFINE A == {s \in Super : super[s].imount = i /\ ~Leaving(s)}
           B == {s \in Super : super[s].isup = i}
<1>1. A \in SUBSET Super /\ B \in SUBSET Super
  OBVIOUS
<1>2. OfSupers(i) = Cardinality(A) + Cardinality(B)
  BY DEF OfSupers
<1>3. /\ \A s \in Super : super[s].imount = i /\ ~Leaving(s) => A # {}
      /\ \A s \in Super : super[s].isup = i => B # {}
  OBVIOUS
<1> HIDE DEF A, B
<1>4. IsFiniteSet(A) /\ IsFiniteSet(B)
  BY <1>1, SlotFacts, FS_Subset
<1>5. /\ Cardinality(A) \in Nat /\ Cardinality(B) \in Nat
      /\ (A # {} => Cardinality(A) # 0) /\ (B # {} => Cardinality(B) # 0)
  BY <1>4, FS_CardinalityType, FS_EmptySet
<1> DEFINE a == Cardinality(A)
           b == Cardinality(B)
<1> HIDE DEF a, b
<1>6. a \in Nat /\ b \in Nat /\ OfSupers(i) = a + b /\ (A # {} => a # 0) /\ (B # {} => b # 0)
  BY <1>2, <1>5 DEF a, b
<1> QED
  BY <1>3, <1>6

(* The count of an inode bounds its users.                                 *)
LEMMA CountBounds ==
    ASSUME Types, Counts, Supers, NEW i \in Slot
    PROVE  /\ inode[i].count \in Nat
           /\ \A t \in Task : Points(t, i) + OfSupers(i) <= inode[i].count
           /\ \A t, u \in Task : t # u => Points(t, i) + Points(u, i) + OfSupers(i) <= inode[i].count
           /\ \A s \in Super : super[s].imount = i /\ ~Leaving(s) => inode[i].count > 0
           /\ OfSupers(i) \in Nat
<1>1. Uses(i) \in Nat /\ OfSupers(i) \in Nat /\ Cardinality(Task) \in Nat /\ inode[i].count \in Nat
  BY UsesBounds, SupersBounds, SlotFacts DEF Types, InodeType
<1> DEFINE c == IF i = 1 THEN Cardinality(Task) ELSE 0
<1>2. c \in Nat
  BY <1>1
<1> HIDE DEF c
<1>3. inode[i].count = Uses(i) + OfSupers(i) + c
  BY DEF Counts, c
<1>4. \A t \in Task : Points(t, i) \in Nat
  BY PointsNat
<1>5. ASSUME NEW t \in Task  PROVE Points(t, i) + OfSupers(i) <= inode[i].count
  <2>1. Points(t, i) <= Uses(i)
    BY UsesBounds
  <2> QED  BY <2>1, <1>1, <1>2, <1>3, <1>4
<1>6. ASSUME NEW t \in Task, NEW u \in Task, t # u
      PROVE  Points(t, i) + Points(u, i) + OfSupers(i) <= inode[i].count
  <2>1. Points(t, i) + Points(u, i) <= Uses(i)
    BY <1>6, UsesBounds
  <2> QED  BY <2>1, <1>1, <1>2, <1>3, <1>4
<1>7. ASSUME NEW s \in Super, super[s].imount = i, ~Leaving(s)  PROVE inode[i].count > 0
  <2>1. OfSupers(i) > 0
    BY <1>7, SupersBounds
  <2> QED  BY <2>1, <1>1, <1>2, <1>3
<1> QED
  BY <1>1, <1>5, <1>6, <1>7

LEMMA Parts ==
    ASSUME InoInv
    PROVE  /\ Types /\ Pairs /\ Table /\ Supers /\ Counts /\ Unique /\ Linked
           /\ \A t \in Task : Own(t) /\ task[t] \in TaskType /\ task[t].stk \in Seq(FrameType)
<1>1. Types /\ Pairs /\ Table /\ Supers /\ Counts /\ Unique /\ Linked /\ \A t \in Task : Own(t)
  BY DEF InoInv
<1>2. \A t \in Task : task[t] \in TaskType /\ task[t].stk \in Seq(FrameType)
  BY <1>1 DEF Types, TaskType
<1> QED
  BY <1>1, <1>2

LEMMA HasFacts ==
    ASSUME InoInv, NEW t \in Task
    PROVE  DevInv(task[t]) /\ (\A i \in Slot : SlotInv(t, i)) /\ (\A s \in Super : SuperInv(t, s))
<1>1. Own(t)
  BY Parts
<1> QED
  BY <1>1 DEF Own

(* The root inode is never without users.                                  *)
LEMMA RootUsed ==
    ASSUME InoInv
    PROVE  /\ ~Leaving(1) /\ OfSupers(1) \in Nat /\ OfSupers(1) >= 2
           /\ super[1].imount = 1 /\ super[1].isup = 1 /\ super[1].dev = ROOT_DEV /\ ~super[1].lock
<1>1. super[1] = [dev |-> ROOT_DEV, imount |-> 1, isup |-> 1, lock |-> FALSE]
  BY Parts DEF Supers
<1>2. super[1].imount = 1 /\ super[1].isup = 1 /\ super[1].dev = ROOT_DEV /\ ~super[1].lock
  BY <1>1
<1>3. ~Leaving(1)
  <2> SUFFICES ASSUME NEW t \in Task, Has(task[t].stk, Frame("umount", 1))  PROVE FALSE
    BY DEF Leaving
  <2>1. super[1].dev # ROOT_DEV
    BY HasFacts, SlotFacts DEF SuperInv
  <2> QED  BY <2>1, <1>2
<1> QED
  BY <1>2, <1>3, SlotFacts, SupersBounds

LEMMA AloneFacts ==
    ASSUME InoInv, NEW u \in Task, NEW i \in Slot, Alone(u, i)
    PROVE  /\ inode[i].count = 1 /\ i # 1 /\ OfSupers(i) = 0 /\ Points(u, i) = 1
           /\ \A t \in Task : t # u => Points(t, i) = 0
<1>1. Types /\ Counts /\ Supers /\ Own(u)
  BY Parts
<1>2. Frame("trunc", i) \in FrameType /\ Frame("read", i) \in FrameType
  BY MakeFrame DEF OnSlot
<1>3. inode[i].count = 1
  <2>1. CASE task[u].empty = i
    BY <2>1, <1>1, SlotFacts DEF Own, Zeroed
  <2>2. CASE Has(task[u].stk, Frame("trunc", i)) \/ Has(task[u].stk, Frame("read", i))
    BY <2>2, HasFacts DEF SlotInv
  <2> QED  BY <2>1, <2>2 DEF Alone
<1>4. Points(u, i) > 0 /\ Points(u, i) \in Nat
  <2>1. Counting(Frame("trunc", i), i) = 1 /\ Counting(Frame("read", i), i) = 1
    BY FrameEq DEF Counting
  <2> QED  BY <2>1, <1>1, <1>2, PointsNat DEF Alone
<1>5. OfSupers(i) \in Nat /\ Points(u, i) + OfSupers(i) <= inode[i].count
  BY <1>1, CountBounds
<1>6. OfSupers(i) = 0 /\ Points(u, i) = 1
  BY <1>3, <1>4, <1>5
<1>7. i # 1
  BY <1>6, RootUsed
<1>8. ASSUME NEW t \in Task, t # u  PROVE Points(t, i) = 0
  <2>1. Points(t, i) + Points(u, i) + OfSupers(i) <= inode[i].count /\ Points(t, i) \in Nat
    BY <1>8, <1>1, CountBounds, PointsNat
  <2> QED  BY <2>1, <1>3, <1>6
<1> QED
  BY <1>3, <1>6, <1>7, <1>8

LEMMA OthersOK ==
    ASSUME InoInv, Types', NEW t \in Task, NEW u \in Task, u # t, cpu \in {t, None},
           cpu' \in {t, None}, task'[u] = task[u], Spared(t, u)
    PROVE  Own(u)'
<1> DEFINE T == task[u]
<1>0. /\ Types /\ Own(u) /\ cpu # u /\ cpu' # u /\ T \in TaskType /\ T.stk \in Seq(FrameType)
      /\ T.held \in [Slot -> Nat] /\ T.got \in Slot \cup {0} /\ T.empty \in Slot \cup {0}
  BY Parts, SlotFacts DEF TaskType
<1>1. \A i \in Slot : T.held[i] > 0 \/ T.got = i =>
        inode'[i].dev = inode[i].dev /\ inode'[i].pipe = inode[i].pipe
  <2> SUFFICES ASSUME NEW i \in Slot, T.held[i] > 0 \/ T.got = i  PROVE Points(u, i) > 0
    BY DEF Spared
  <2>1. /\ Points(u, i) \in Nat /\ Frames(T.stk, i) \in Nat /\ T.held[i] \in Nat
        /\ T.held[i] + Frames(T.stk, i) <= Points(u, i)
        /\ T.empty = i \/ T.got = i => Points(u, i) > 0
    BY <1>0, PointsNat
  <2> QED  BY <2>1
<1>2. Safe(T) => Safe(T)'
  <2>1. CASE T.dev = ROOT_DEV
    BY <2>1 DEF Safe
  <2>2. ASSUME NEW j \in Slot, T.held[j] > 0, inode[j].dev = T.dev  PROVE Safe(T)'
    BY <2>2, <1>1 DEF Safe
  <2> QED  BY <2>1, <2>2 DEF Safe
<1>3. ASSUME NEW i \in Slot  PROVE SlotInv(u, i)'
  <2>1. SlotInv(u, i)
    BY HasFacts
  <2>2. /\ Has(T.stk, Frame("irepeat", i)) \/ Has(T.stk, Frame("trunc", i))
             \/ Has(T.stk, Frame("mount", i)) \/ Has(T.stk, Frame("read", i)) =>
            inode'[i].dev = inode[i].dev /\ inode'[i].num = inode[i].num
    <3>1. \A at \in {"irepeat", "trunc", "mount", "read"} :
            Frame(at, i) \in FrameType /\ Counting(Frame(at, i), i) = 1
      BY MakeFrame, FrameEq DEF OnSlot, Counting
    <3>2. \A at \in {"irepeat", "trunc", "mount", "read"} :
            Has(T.stk, Frame(at, i)) => Points(u, i) > 0
      BY <3>1, <1>0, PointsNat
    <3> QED  BY <3>2 DEF Spared
  <2>3. Has(T.stk, Frame("irepeat", i)) => inode'[i].dev # 0
    BY <2>1, <2>2 DEF SlotInv
  <2>4. Has(T.stk, Frame("trunc", i)) =>
            inode'[i].dev # 0 /\ inode'[i].count = 1 /\ inode'[i].nlinks = 0
    BY <2>1, <2>2 DEF SlotInv, Spared
  <2>5. Has(T.stk, Frame("read", i)) =>
            /\ inode'[i].dev # 0 /\ inode'[i].count = 1 /\ ~inode'[i].dirt
            /\ links'[<<inode'[i].dev, inode'[i].num>>] > 0 /\ inode'[i].lock = u
    BY <2>1 DEF SlotInv, Spared
  <2>6. Has(T.stk, Frame("write", i)) => inode'[i].lock = u
    BY <2>1, SlotFacts DEF SlotInv, Spared
  <2>7. Has(T.stk, Frame("mount", i)) =>
            /\ inode'[i].dev # 0 /\ <<inode'[i].dev, inode'[i].num>> \notin BlkFile
            /\ \A s \in Super : super'[s].imount # i
    BY <2>1, <2>2 DEF SlotInv, Spared
  <2>8. Has(T.stk, Frame("chdir", i)) => T.held[i] > 0 /\ (T.got # 0 => inode'[T.got].dev # 0)
    BY <2>1, <1>0, <1>1 DEF SlotInv
  <2>9. task'[u] = T
    OBVIOUS
  <2> HIDE DEF T
  <2> QED  BY <2>3, <2>4, <2>5, <2>6, <2>7, <2>8, <2>9 DEF SlotInv
<1>3a. ASSUME NEW s \in Super  PROVE SuperInv(u, s)'
  <2>1. SuperInv(u, s)
    BY HasFacts
  <2>2. Has(T.stk, Frame("read_super", s)) => super'[s].lock /\ super'[s].dev # 0
    BY <2>1 DEF SuperInv, Spared
  <2>3. Has(T.stk, Frame("umount", s)) =>
            /\ super'[s].imount # 0 /\ super'[s].dev # 0 /\ super'[s].dev # ROOT_DEV
            /\ ~inode'[super'[s].imount].mount
            /\ Frames(T.stk, super'[s].imount) > 0
    <3> HAVE Has(T.stk, Frame("umount", s))
    <3>1. super'[s] = super[s]
      BY DEF Spared
    <3>2. /\ super[s].imount # 0 /\ super[s].dev # 0 /\ super[s].dev # ROOT_DEV
          /\ ~inode[super[s].imount].mount /\ Frames(T.stk, super[s].imount) > 0
      BY <2>1, <1>0 DEF SuperInv
    <3>3. super[s].imount \in Slot
      BY <3>2, <1>0 DEF Types, SuperType
    <3>4. inode'[super[s].imount].mount \in BOOLEAN /\ inode[super[s].imount].mount \in BOOLEAN
      BY <3>3, <1>0 DEF Types, InodeType
    <3>5. ~inode'[super[s].imount].mount
      BY <3>2, <3>3, <3>4 DEF Spared
    <3> QED  BY <3>1, <3>2, <3>5
  <2>4. task'[u] = T
    OBVIOUS
  <2> HIDE DEF T
  <2> QED  BY <2>2, <2>3, <2>4 DEF SuperInv
<1>3b. DevInv(task[u])'
  <2>1. DevInv(T)
    BY HasFacts
  <2>2. /\ Looking(T.stk) => T.dev \in Dev /\ T.nr \in Num /\ (T.nr = ROOT_INO \/ Safe(T)')
        /\ Has(T.stk, Frame("new_inode", 0)) => T.dev \in Dev /\ Safe(T)'
    BY <2>1, <1>2 DEF DevInv
  <2>3. Has(T.stk, Frame("change", 0)) /\ T.got # 0 => inode'[T.got].dev # 0
    BY <2>1, <1>0, <1>1 DEF DevInv
  <2>4. task'[u] = T
    OBVIOUS
  <2>5. Safe(T)' = Safe(task[u])'
    OBVIOUS
  <2> QED  BY <2>2, <2>3, <2>4, <2>5 DEF DevInv
<1>4. Work(T.stk).at # "cross" /\ Top(T.stk).at # "mount"
  BY <1>0 DEF Own, CrossOK
<1>5. \A i \in Slot : T.held[i] > 0 \/ T.got = i => inode'[i].pipe \/ inode'[i].dev # 0
  BY <1>0, <1>1 DEF Own
<1>6. T.empty # 0 => inode'[T.empty] = [Zeroed EXCEPT !.count = 1]
  BY <1>0 DEF Own, Spared
<1>7. \A i \in Slot : inode'[i].lock = u => Top(T.stk) \in {Frame("read", i), Frame("write", i)}
  <2> SUFFICES ASSUME NEW i \in Slot, inode'[i].lock = u
               PROVE  Top(T.stk) \in {Frame("read", i), Frame("write", i)}
    OBVIOUS
  <2>1. inode[i].lock = u
    BY SlotFacts DEF Spared
  <2> QED  BY <2>1, <1>0 DEF Own
<1>8. WellFormed(T.stk) /\ WorkOK(T, Work(T.stk).at)
  BY <1>0 DEF Own
<1>9. task'[u] = T
  OBVIOUS
<1> HIDE DEF T
<1> QED
  BY <1>0, <1>3, <1>3a, <1>3b, <1>4, <1>5, <1>6, <1>7, <1>8, <1>9 DEF Own, CrossOK

LEMMA UsesChange ==
    ASSUME Types, Types', NEW t \in Task, OnlyTask(t), NEW i \in Slot,
           inode'[i].pipe = inode[i].pipe \/ \A u \in Task : u # t => Points(u, i) = 0
    PROVE  Uses(i)' = Uses(i) - Points(t, i) + Points(t, i)'
<1> DEFINE f == [u \in Task |-> Points(u, i)]
           g == [u \in Task |-> Points(u, i)']
<1>1. \A u \in Task : Points(u, i) \in Nat /\ Points(u, i)' \in Nat
  <2>1. \A u \in Task : Points(u, i) \in Nat
    BY PointsNat
  <2>2. \A u \in Task : task'[u] \in TaskType /\ inode'[i].pipe \in BOOLEAN
    BY DEF Types, InodeType
  <2>3. \A u \in Task : Pointers(task'[u], i, inode'[i].pipe) \in Nat
    BY <2>2, PointersNat
  <2> QED  BY <2>1, <2>3 DEF Points
<1>2. f \in [Task -> Nat] /\ g \in [Task -> Nat] /\ f[t] = Points(t, i) /\ g[t] = Points(t, i)'
  BY <1>1
<1>3. \A u \in Task : u # t => g[u] = f[u]
  <2> SUFFICES ASSUME NEW u \in Task, u # t
               PROVE  Pointers(task[u], i, inode'[i].pipe) = Pointers(task[u], i, inode[i].pipe)
    BY DEF Points, OnlyTask
  <2>1. CASE inode'[i].pipe = inode[i].pipe
    BY <2>1
  <2>2. CASE Points(u, i) = 0
    <3>1. task[u] \in TaskType /\ inode[i].pipe \in BOOLEAN
      BY DEF Types, InodeType
    <3>2. task[u].got # i
      BY <2>2, PointsNat
    <3> QED  BY <3>1, <3>2, PointersNat
  <2> QED  BY <2>1, <2>2
<1>4. Uses(i) = Total(f) /\ Uses(i)' = Total(g)
  BY DEF Uses, Points
<1> HIDE DEF f, g
<1>5. Total(g) = Total(f) - f[t] + g[t]
  BY <1>2, <1>3, TotalChange
<1> QED
  BY <1>2, <1>4, <1>5

LEMMA LeavingSame ==
    ASSUME NEW t \in Task, OnlyTask(t), NEW s,
           Has(task'[t].stk, Frame("umount", s)) <=> Has(task[t].stk, Frame("umount", s))
    PROVE  Leaving(s)' <=> Leaving(s)
BY DEF Leaving, OnlyTask

LEMMA InCoreSame ==
    ASSUME NEW t \in Task, OnlyTask(t), NEW i,
           Has(task'[t].stk, Frame("read", i)) <=> Has(task[t].stk, Frame("read", i))
    PROVE  InCore(i)' <=> InCore(i)
BY DEF InCore, OnlyTask

LEMMA OfSupersSame ==
    ASSUME NEW i,
           \A s \in Super : /\ super'[s].imount = super[s].imount /\ super'[s].isup = super[s].isup
                            /\ super[s].imount = i => (Leaving(s)' <=> Leaving(s))
    PROVE  OfSupers(i)' = OfSupers(i)
<1>1. {s \in Super : super'[s].imount = i /\ ~Leaving(s)'} = {s \in Super : super[s].imount = i /\ ~Leaving(s)}
  OBVIOUS
<1>2. {s \in Super : super'[s].isup = i} = {s \in Super : super[s].isup = i}
  OBVIOUS
<1> QED
  BY <1>1, <1>2 DEF OfSupers

LEMMA CountsStep ==
    ASSUME InoInv, Types', NEW t \in Task, OnlyTask(t),
           \A i \in Slot :
              /\ inode'[i].pipe = inode[i].pipe \/ \A u \in Task : u # t => Points(u, i) = 0
              /\ OfSupers(i)' \in Nat
              /\ inode'[i].count - inode[i].count =
                    (Points(t, i)' - Points(t, i)) + (OfSupers(i)' - OfSupers(i))
    PROVE  Counts'
<1> SUFFICES ASSUME NEW i \in Slot
             PROVE  inode'[i].count =
                      Uses(i)' + OfSupers(i)' + (IF i = 1 THEN Cardinality(Task) ELSE 0)
  BY DEF Counts
<1> DEFINE c == IF i = 1 THEN Cardinality(Task) ELSE 0
<1>1. Types /\ Counts
  BY Parts
<1>2. Uses(i)' = Uses(i) - Points(t, i) + Points(t, i)'
  BY <1>1, UsesChange
<1>3. c \in Nat /\ inode[i].count = Uses(i) + OfSupers(i) + c
  BY <1>1, SlotFacts DEF Counts
<1>4. Uses(i) \in Nat /\ OfSupers(i) \in Nat /\ Points(t, i) \in Nat
  BY <1>1, UsesBounds, SupersBounds, PointsNat
<1>5. Points(t, i)' \in Nat
  <2>1. task'[t] \in TaskType /\ inode'[i].pipe \in BOOLEAN
    BY DEF Types, InodeType
  <2> QED  BY <2>1, PointersNat DEF Points
<1>6. inode[i].count \in Int /\ inode'[i].count \in Int
  BY <1>1 DEF Types, InodeType
<1> DEFINE a == Points(t, i)
           b == Points(t, i)'
           x == OfSupers(i)
           y == OfSupers(i)'
           m == inode[i].count
           n == inode'[i].count
           v == Uses(i)
           w == Uses(i)'
<1>7. /\ w = v - a + b /\ m = v + x + c /\ n - m = (b - a) + (y - x)
      /\ a \in Nat /\ b \in Nat /\ x \in Nat /\ y \in Nat /\ m \in Int /\ n \in Int
      /\ v \in Nat /\ c \in Nat
  BY <1>2, <1>3, <1>4, <1>5, <1>6
<1> HIDE DEF a, b, x, y, m, n, v, w, c
<1>8. n = w + y + c
  BY <1>7
<1> QED
  BY <1>8 DEF a, b, x, y, m, n, v, w, c

LEMMA PairsStep ==
    ASSUME InoInv, NEW t \in Task, OnlyTask(t),
           \A f \in FrameType :
              f.at \in {"mount", "umount", "read_super"} /\ Has(task'[t].stk, f) =>
                \/ Has(task[t].stk, f)
                \/ \A u \in Task : u # t => ~Has(task[u].stk, f)
    PROVE  Pairs'
<1> SUFFICES ASSUME NEW u \in Task, NEW v \in Task, NEW f \in FrameType,
                    f.at \in {"mount", "umount", "read_super"},
                    Has(task'[u].stk, f), Has(task'[v].stk, f)
             PROVE  u = v
  BY DEF Pairs
<1>1. Pairs
  BY Parts
<1>2. CASE u # t /\ v # t
  BY <1>1, <1>2 DEF Pairs, OnlyTask
<1>3. CASE u = t /\ v # t
  BY <1>1, <1>3 DEF Pairs, OnlyTask
<1>4. CASE u # t /\ v = t
  BY <1>1, <1>4 DEF Pairs, OnlyTask
<1> QED
  BY <1>2, <1>3, <1>4

LEMMA MountedSame ==
    ASSUME \A s \in Super : /\ super'[s].dev = super[s].dev /\ super'[s].imount = super[s].imount
                            /\ super[s].imount \in Slot \cup {0},
           \A i \in Slot : inode'[i].mount = inode[i].mount, NEW d
    PROVE  Mounted(d)' <=> Mounted(d)
BY DEF Mounted

(***************************************************************************)
(* Quiet steps: a task goes on, takes or puts back inodes; no inode changes*)
(* its identity and no mount changes.                                      *)
(***************************************************************************)
LEMMA QuietStep ==
    ASSUME InoInv, Types', NEW t \in Task, Quiet(t), Own(t)'
    PROVE  InoInv'
<1>0. /\ Types /\ Pairs /\ Table /\ Supers /\ Counts /\ Unique /\ Linked
      /\ \A u \in Task : Own(u) /\ task[u] \in TaskType /\ task[u].stk \in Seq(FrameType)
  BY Parts
<1>1. /\ OnlyTask(t) /\ cpu \in {t, None} /\ cpu' \in {t, None}
      /\ super' = super /\ disk' = disk /\ imap' = imap /\ links' = links /\ panic' = panic
  BY DEF Quiet
<1>2. \A i \in Slot :
        /\ inode'[i].dev = inode[i].dev /\ inode'[i].num = inode[i].num
        /\ inode'[i].mount = inode[i].mount /\ inode'[i].nlinks = inode[i].nlinks
        /\ inode[i].dirt \in BOOLEAN /\ inode'[i].dirt \in BOOLEAN
  BY <1>0 DEF Quiet, Types, InodeType
<1>3. ASSUME NEW u \in Task  PROVE Own(u)'
  <2>1. CASE u = t
    BY <2>1
  <2>2. CASE u # t
    <3>1. ASSUME NEW i \in Slot
          PROVE  /\ Points(u, i) > 0 => inode'[i].pipe = inode[i].pipe
                 /\ task[u].empty = i => inode'[i] = inode[i]
                 /\ Has(task[u].stk, Frame("read", i)) =>
                        inode'[i] = inode[i] /\ links'[<<inode[i].dev, inode[i].num>>] > 0
                 /\ Has(task[u].stk, Frame("trunc", i)) => inode'[i].count = inode[i].count
                 /\ \/ inode'[i].lock = inode[i].lock
                    \/ inode[i].lock \in {None, t} /\ inode'[i].lock \in {None, t}
                 /\ \A s \in Super : Has(task[u].stk, Frame("mount", i)) => super[s].imount # i
      <4>1. SlotInv(u, i)
        BY HasFacts
      <4>2. Points(u, i) > 0 => inode'[i].pipe = inode[i].pipe
        BY <2>2 DEF Quiet
      <4>3. Has(task[u].stk, Frame("read", i)) => links[<<inode[i].dev, inode[i].num>>] > 0
        BY <4>1 DEF SlotInv
      <4>4. \A s \in Super : Has(task[u].stk, Frame("mount", i)) => super[s].imount # i
        BY <4>1 DEF SlotInv
      <4> QED  BY <4>2, <4>3, <4>4, <1>1, <2>2 DEF Quiet
    <3>2. Spared(t, u)
      BY <3>1, <1>1, <1>2 DEF Spared
    <3>3. task'[u] = task[u]
      BY <2>2, <1>1 DEF OnlyTask
    <3> QED  BY <3>2, <3>3, <2>2, <1>1, OthersOK
  <2> QED  BY <2>1, <2>2
<1>4. Pairs'
  <2>1. ASSUME NEW f \in FrameType, f.at \in {"mount", "umount", "read_super"}, Has(task'[t].stk, f)
        PROVE  Has(task[t].stk, f) \/ \A u \in Task : u # t => ~Has(task[u].stk, f)
    <3>1. f = Frame(f.at, f.i) /\ (f.at = "mount" => f.i \in Slot)
          /\ (f.at \in {"umount", "read_super"} => f.i \in Super)
      BY FrameFacts DEF OnSlot, OnSuper
    <3>2. CASE f.at = "mount"
      BY <2>1, <3>1, <3>2 DEF Quiet
    <3>3. CASE f.at = "umount"
      BY <2>1, <3>1, <3>3 DEF Quiet
    <3>4. CASE f.at = "read_super"
      BY <2>1, <3>1, <3>4 DEF Quiet
    <3> QED  BY <2>1, <3>2, <3>3, <3>4
  <2> QED  BY <2>1, <1>1, PairsStep
<1>5. \A s \in Super : Leaving(s)' <=> Leaving(s)
  BY <1>1, LeavingSame DEF Quiet
<1>6. \A i \in Slot : OfSupers(i)' = OfSupers(i)
  BY <1>1, <1>5, OfSupersSame
<1>7. Counts'
  <2>1. ASSUME NEW i \in Slot
        PROVE  /\ inode'[i].pipe = inode[i].pipe \/ \A u \in Task : u # t => Points(u, i) = 0
               /\ OfSupers(i)' \in Nat
               /\ inode'[i].count - inode[i].count =
                    (Points(t, i)' - Points(t, i)) + (OfSupers(i)' - OfSupers(i))
    <3>1. OfSupers(i) \in Nat /\ OfSupers(i)' = OfSupers(i)
      BY <1>6, SupersBounds
    <3>2. Points(t, i) \in Nat /\ Points(t, i)' \in Nat
      <4>1. task'[t] \in TaskType /\ inode'[i].pipe \in BOOLEAN
        BY DEF Types, InodeType
      <4> QED  BY <4>1, <1>0, PointsNat, PointersNat DEF Points
    <3>3. inode'[i].count - inode[i].count = Points(t, i)' - Points(t, i)
      BY DEF Quiet
    <3>4. inode'[i].pipe = inode[i].pipe \/ \A u \in Task : u # t => Points(u, i) = 0
      BY DEF Quiet
    <3> QED  BY <3>1, <3>2, <3>3, <3>4
  <2> QED  BY <2>1, <1>1, CountsStep
<1>8. Unique'
  BY <1>0, <1>2 DEF Unique, Matches
<1>9. \A i \in Slot : InCore(i)' <=> InCore(i)
  BY <1>1, InCoreSame DEF Quiet
<1>10. Linked'
  <2>1. \A p \in Dev \X Num : links'[p] > 0 => p \in imap'
    BY <1>0, <1>1 DEF Linked
  <2>2. \A p \in Dev \X Num :
            links'[p] > 0 /\ (\A i \in Slot : ~(Matches(i, p[1], p[2])' /\ InCore(i)'))
                => disk'[p] = links'[p]
    BY <1>0, <1>1, <1>2, <1>9 DEF Linked, Matches
  <2>3. \A i \in Slot : inode'[i].dev # 0 /\ InCore(i)' =>
            /\ inode'[i].nlinks = links'[<<inode'[i].dev, inode'[i].num>>]
            /\ ~inode'[i].dirt => disk'[<<inode'[i].dev, inode'[i].num>>] = inode'[i].nlinks
    <3> SUFFICES ASSUME NEW i \in Slot, inode[i].dev # 0, InCore(i)
                 PROVE  /\ inode[i].nlinks = links[<<inode[i].dev, inode[i].num>>]
                        /\ ~inode'[i].dirt => disk[<<inode[i].dev, inode[i].num>>] = inode[i].nlinks
      BY <1>1, <1>2, <1>9
    <3>1. ~inode'[i].dirt => ~inode[i].dirt
      BY <1>2 DEF Quiet
    <3> QED  BY <1>0, <3>1 DEF Linked
  <2> QED  BY <2>1, <2>2, <2>3 DEF Linked
<1>11. \A d : Mounted(d)' <=> Mounted(d)
  <2>1. \A s \in Super : super[s].imount \in Slot \cup {0}
    BY <1>0 DEF Types, SuperType
  <2> QED  BY <2>1, <1>1, <1>2, MountedSame
<1>12. Table'
  <2>1. ASSUME NEW i \in Slot
        PROVE  /\ inode'[i].dev = 0 => ~inode'[i].dirt /\ inode'[i].lock = None /\ ~inode'[i].mount
               /\ inode'[i].dev # 0 => /\ ~inode'[i].pipe /\ inode'[i].num \in Num
                                       /\ <<inode'[i].dev, inode'[i].num>> \in imap'
               /\ inode'[i].mount => <<inode'[i].dev, inode'[i].num>> \notin BlkFile
               /\ inode'[i].count = 0 => ~inode'[i].dirt /\ inode'[i].lock = None
               /\ inode'[i].count > 0 /\ inode'[i].dev # 0 => Mounted(inode[i].dev)'
    <3>1. /\ inode[i].dev = 0 => ~inode[i].dirt /\ inode[i].lock = None /\ ~inode[i].mount
          /\ inode[i].dev # 0 => /\ ~inode[i].pipe /\ inode[i].num \in Num
                                 /\ <<inode[i].dev, inode[i].num>> \in imap
          /\ inode[i].mount => <<inode[i].dev, inode[i].num>> \notin BlkFile
          /\ inode[i].count > 0 /\ inode[i].dev # 0 => Mounted(inode[i].dev)
      BY <1>0 DEF Table
    <3>2. /\ inode'[i].pipe => inode[i].dev = 0
          /\ inode'[i].dirt => inode[i].dev # 0
          /\ inode'[i].lock = inode[i].lock \/ inode[i].dev # 0
          /\ inode'[i].count = 0 => ~inode'[i].dirt /\ inode'[i].lock = None
          /\ inode'[i].count > 0 /\ inode[i].dev # 0 => inode[i].count > 0 \/ Mounted(inode[i].dev)
      BY DEF Quiet
    <3> QED  BY <3>1, <3>2, <1>1, <1>2, <1>11
  <2>2. inode'[1].dev = ROOT_DEV
    BY <1>0, <1>2, SlotFacts DEF Table
  <2> QED  BY <2>1, <2>2 DEF Table
<1>13. Supers'
  BY <1>0, <1>1 DEF Supers
<1>14. panic' \in {"none", "No free inodes in mem", "unable to read i-node block"}
  BY <1>1 DEF InoInv
<1> QED
  BY <1>3, <1>4, <1>7, <1>8, <1>10, <1>12, <1>13, <1>14 DEF InoInv

(* The task that runs, and what it is when it stops.                       *)
LEMMA Unblocked ==
    ASSUME NEW f, NEW table, ~Blocked(f, table)
    PROVE  f.at \in WaitsOnInode /\ f.i \in Slot => table[f.i].lock = None
BY DEF Blocked

LEMMA NotBlocked ==
    ASSUME NEW f, NEW table, f.at # "mount_super",
           f.at \in WaitsOnInode /\ f.i \in Slot => table[f.i].lock = None
    PROVE  ~Blocked(f, table)
BY DEF Blocked

LEMMA RunsFacts ==
    ASSUME Types, NEW t \in Task, CanRun(t), NEW rec \in TaskType, Runs(t, rec)
    PROVE  /\ task' \in [Task -> TaskType] /\ task'[t] = rec /\ OnlyTask(t)
           /\ cpu \in {t, None} /\ cpu' \in {t, None} /\ cpu' \in Task \cup {None}
           /\ cpu' = t => Top(rec.stk).at \notin IO \cup {"user"} /\ ~Blocked(Top(rec.stk), inode')
           /\ Top(rec.stk).at \notin IO \cup {"user"} /\ ~Blocked(Top(rec.stk), inode') => cpu' = t
<1>1. task \in [Task -> TaskType] /\ task' = [task EXCEPT ![t] = rec]
  BY DEF Types, Runs
<1>2. cpu \in {t, None}
  BY DEF CanRun
<1>3. t # None
  BY SlotFacts
<1>4. cpu' = IF Top(rec.stk).at \in IO \cup {"user"} \/ Blocked(Top(rec.stk), inode') THEN None ELSE t
  BY DEF Runs
<1>5. OnlyTask(t) /\ task'[t] = rec /\ task' \in [Task -> TaskType]
  BY <1>1 DEF OnlyTask
<1> QED
  BY <1>2, <1>3, <1>4, <1>5

(* The condition on which a task sleeps is the same after the step.        *)
LEMMA BlockedSame ==
    ASSUME NEW f, super' = super \/ f.at # "mount_super"
    PROVE  Blocked(f, inode)' <=> Blocked(f, inode')
BY DEF Blocked, get_super

(* At the start of an action.                                              *)
LEMMA AtFacts ==
    ASSUME InoInv, NEW t \in Task, NEW at, At(t, at), at # "user"
    PROVE  LET S == task[t].stk IN
           /\ CanRun(t) /\ S \in Seq(FrameType) /\ S # <<>> /\ Top(S) = Head(S) /\ Head(S).at = at
           /\ It(t) = Head(S).i /\ Rest(t) = Tail(S) /\ Head(S) \in FrameType
           /\ Head(S) = Frame(at, It(t))
           /\ Tail(S) \in Seq(FrameType)
           /\ WellFormed(S) /\ WellFormed(Tail(S)) /\ Fits(Head(S), Top(Tail(S)).at)
           /\ (\A g : Has(S, g) <=> g = Head(S) \/ Has(Tail(S), g))
           /\ (\A i : Frames(Tail(S), i) \in Nat
                      /\ Frames(S, i) = Frames(Tail(S), i) + Counting(Head(S), i))
           /\ Work(S) = IF at \in Service THEN Work(Tail(S)) ELSE Head(S)
           /\ (at \in WaitsOnInode /\ It(t) \in Slot => inode[It(t)].lock = None)
<1> DEFINE S == task[t].stk
<1>1. S \in Seq(FrameType) /\ Own(t)
  BY Parts
<1>2. CanRun(t) /\ Top(S).at = at
  BY DEF At
<1>3. S # <<>>
  BY <1>1, <1>2, TopFacts
<1>4. WellFormed(S)
  BY <1>1 DEF Own
<1>5. It(t) = Head(S).i /\ Rest(t) = Tail(S)
  BY DEF It, Rest
<1>6. /\ Head(S) \in FrameType /\ Top(S) = Head(S) /\ Tail(S) \in Seq(FrameType)
      /\ WellFormed(Tail(S)) /\ Fits(Head(S), Top(Tail(S)).at)
      /\ (\A g : Has(S, g) <=> g = Head(S) \/ Has(Tail(S), g))
      /\ (\A i : Frames(Tail(S), i) \in Nat
                      /\ Frames(S, i) = Frames(Tail(S), i) + Counting(Head(S), i))
      /\ Work(S) = IF Head(S).at \in Service THEN Work(Tail(S)) ELSE Head(S)
  BY <1>1, <1>3, <1>4, Below
<1>7. ~Blocked(Top(S), inode)
  <2>1. cpu = t \/ (cpu = None /\ ~Blocked(Top(S), inode))
    BY <1>2 DEF CanRun
  <2> QED  BY <2>1, <1>1 DEF Own
<1>8. at \in WaitsOnInode /\ It(t) \in Slot => inode[It(t)].lock = None
  BY <1>2, <1>5, <1>6, <1>7, Unblocked
<1>9. Head(S) = Frame(at, It(t))
  BY <1>2, <1>5, <1>6, FrameFacts
<1> HIDE DEF S
<1>10. WellFormed(S)
  BY <1>4
<1> QED
  BY <1>1, <1>2, <1>3, <1>5, <1>6, <1>8, <1>9, <1>10 DEF S

LEMMA WorkIsFrame ==
    ASSUME NEW S \in Seq(FrameType), Work(S) # Frame("user", 0)
    PROVE  Work(S) \in FrameType /\ Has(S, Work(S))
<1> DEFINE W == {k \in DOMAIN S : S[k].at \notin Service}
<1>1. W # {}
  BY DEF Work
<1>2. W \subseteq Nat
  OBVIOUS
<1>3. Min(W) \in W
  <2> HIDE DEF W
  <2> QED  BY <1>1, <1>2, LeastExists
<1>4. Work(S) = S[Min(W)]
  BY <1>1 DEF Work
<1>5. PICK k \in DOMAIN S : Work(S) = S[k]
  BY <1>3, <1>4
<1>6. S[k] \in FrameType
  OBVIOUS
<1> QED
  BY <1>5, <1>6 DEF Has

(* What the functions below a service rely on.                             *)
LEMMA ServiceStep ==
    ASSUME InoInv, Types', NEW t \in Task, NEW at \in Service, At(t, at),
           NEW c \in Seq(FrameType), Next_(t, c),
           super' = super, links' = links, WellFormed(c), Work(c) = Work(task[t].stk),
           c = Rest(t) \/ Top(c).at \in Service,
           \A g : Has(c, g) => Has(Rest(t), g) \/ NewOK(t, g),
           \A i \in Slot :
              /\ \A s \in Super : super[s].imount = i => inode'[i].mount = inode[i].mount
              /\ task[t].held[i] > 0 \/ task[t].got = i \/ Frames(Rest(t), i) > 0 =>
                    /\ inode'[i].dev = inode[i].dev /\ inode'[i].num = inode[i].num
                    /\ inode'[i].pipe = inode[i].pipe
              /\ task[t].empty = i => inode'[i] = inode[i]
              /\ inode'[i].lock = t => Top(c) = Frame("write", i),
           \/ \A i \in Slot : Frames(task[t].stk, i) > 0 => Frames(c, i) > 0
           \/ c = Rest(t) /\ at \in Putting,
           Work(task[t].stk).at = "cross" =>
              \/ c = Rest(t) /\ at \in Putting
              \/ Top(c) = Frame("irepeat", It(t)) /\ inode'[It(t)].lock = None
    PROVE  Own(t)'
<1> DEFINE T == task[t]
           S == T.stk
           R == Tail(S)
           Z == [T EXCEPT !.stk = c]
<1>0. at # "user"
  BY DEF Service
<1>1. /\ CanRun(t) /\ S \in Seq(FrameType) /\ S # <<>> /\ Top(S) = Head(S) /\ Head(S).at = at
      /\ It(t) = Head(S).i /\ Rest(t) = R /\ Head(S) \in FrameType
      /\ R \in Seq(FrameType)
      /\ WellFormed(S) /\ WellFormed(R) /\ Fits(Head(S), Top(R).at)
      /\ (\A g : Has(S, g) <=> g = Head(S) \/ Has(R, g))
      /\ (\A i : Frames(R, i) \in Nat /\ Frames(S, i) = Frames(R, i) + Counting(Head(S), i))
      /\ Work(S) = Work(R)
  BY <1>0, AtFacts
<1>2. /\ Types /\ Own(t) /\ T \in TaskType /\ Supers /\ Z \in TaskType
      /\ Z.stk = c /\ Z.dev = T.dev /\ Z.nr = T.nr /\ Z.empty = T.empty /\ Z.got = T.got
      /\ Z.sb = T.sb /\ Z.held = T.held
      /\ T.held \in [Slot -> Nat] /\ T.got \in Slot \cup {0} /\ T.empty \in Slot \cup {0}
  BY Parts DEF TaskType
<1>3. /\ task'[t] = Z /\ cpu' \in {t, None}
      /\ cpu' = t => Top(c).at \notin IO \cup {"user"} /\ ~Blocked(Top(c), inode')
      /\ Top(c).at \notin IO \cup {"user"} /\ ~Blocked(Top(c), inode') => cpu' = t
  <2>1. Runs(t, Z)
    BY DEF Next_
  <2> HIDE DEF Z
  <2> QED  BY <2>1, <1>1, <1>2, RunsFacts
<1>4. \A g : Has(R, g) => g.at \notin IO /\ Has(S, g)
  BY <1>1, NoIOBelow
<1>5. Safe(T) => Safe(T)'
  <2>1. CASE T.dev = ROOT_DEV
    BY <2>1, <1>2, <1>3 DEF Safe
  <2>2. ASSUME NEW j \in Slot, T.held[j] > 0, inode[j].dev = T.dev  PROVE Safe(T)'
    <3>1. inode'[j].dev = T.dev
      BY <2>2
    <3>2. task'[t].held[j] > 0 /\ task'[t].dev = T.dev
      BY <2>2, <1>2, <1>3
    <3> QED  BY <3>1, <3>2, <1>3 DEF Safe
  <2> QED  BY <2>1, <2>2 DEF Safe
<1>6. DevInv(T)'
  <2>1. DevInv(T)
    BY HasFacts
  <2>2. Looking(c) => Looking(S)
    <3>1. \A g : g.at \in {"iget", "scan", "found"} /\ Has(c, g) => Has(S, g)
      BY <1>1, <1>4 DEF NewOK, Service
    <3>2. Frame("iget", 0).at = "iget" /\ Frame("scan", 0).at = "scan"
          /\ \A i \in Slot : Frame("found", i).at = "found"
      BY FrameEq
    <3> HIDE DEF S
    <3> QED  BY <3>1, <3>2 DEF Looking
  <2>3. /\ Has(c, Frame("new_inode", 0)) => Has(S, Frame("new_inode", 0))
        /\ Has(c, Frame("change", 0)) => Has(S, Frame("change", 0))
    <3>1. \A g : g.at \in {"new_inode", "change"} /\ Has(c, g) => Has(S, g)
      BY <1>1, <1>4 DEF NewOK, Service
    <3> HIDE DEF S
    <3> QED  BY <3>1, FrameEq
  <2>4. task'[t].stk = c /\ task'[t].dev = T.dev /\ task'[t].nr = T.nr /\ task'[t].got = T.got
    BY <1>2, <1>3
  <2>5. /\ Looking(c) => T.dev \in Dev /\ T.nr \in Num /\ (T.nr = ROOT_INO \/ Safe(T)')
        /\ Has(c, Frame("new_inode", 0)) => T.dev \in Dev /\ Safe(T)'
    BY <2>1, <2>2, <2>3, <1>5 DEF DevInv
  <2>6. Has(c, Frame("change", 0)) /\ T.got # 0 => inode'[T.got].dev # 0
    BY <2>1, <2>3, <1>2 DEF DevInv
  <2> QED  BY <2>4, <2>5, <2>6 DEF DevInv
<1>7. ASSUME NEW i \in Slot  PROVE SlotInv(t, i)'
  <2>1. SlotInv(t, i)
    BY HasFacts
  <2>2. \A a \in {"irepeat", "mount"} : Has(R, Frame(a, i)) =>
            /\ Has(S, Frame(a, i))
            /\ inode'[i].dev = inode[i].dev /\ inode'[i].num = inode[i].num
    <3> SUFFICES ASSUME NEW a \in {"irepeat", "mount"}, Has(R, Frame(a, i))
                 PROVE  Has(S, Frame(a, i)) /\ Frames(R, i) > 0
      BY <1>1
    <3>1. Frame(a, i) \in FrameType
      BY MakeFrame DEF OnSlot
    <3>2. Counting(Frame(a, i), i) = 1
      BY FrameEq DEF Counting
    <3> HIDE DEF R, S
    <3> QED  BY <3>1, <3>2, <1>1, <1>4, FramesNat
  <2>3. \A a : Has(c, Frame(a, i)) => Has(R, Frame(a, i)) \/ NewOK(t, Frame(a, i))
    BY <1>1
  <2>4. Has(c, Frame("irepeat", i)) => inode'[i].dev # 0
    BY <2>1, <2>2, <2>3, FrameEq DEF SlotInv, NewOK
  <2>5. Has(c, Frame("trunc", i)) =>
            inode'[i].dev # 0 /\ inode'[i].count = 1 /\ inode'[i].nlinks = 0
    BY <2>3, <1>4, FrameEq DEF NewOK, IO
  <2>6. ~Has(c, Frame("read", i))
    BY <2>3, <1>4, FrameEq DEF NewOK, IO, Service
  <2>7. Has(c, Frame("write", i)) => inode'[i].lock = t
    BY <2>3, <1>4, FrameEq DEF NewOK, IO
  <2>8. Has(c, Frame("mount", i)) =>
            /\ inode'[i].dev # 0 /\ <<inode'[i].dev, inode'[i].num>> \notin BlkFile
            /\ \A s \in Super : super'[s].imount # i
    BY <2>1, <2>2, <2>3, FrameEq DEF SlotInv, NewOK, Service
  <2>9. Has(c, Frame("chdir", i)) => T.held[i] > 0 /\ (T.got # 0 => inode'[T.got].dev # 0)
    <3>1. Has(c, Frame("chdir", i)) => Has(S, Frame("chdir", i))
      BY <2>3, <1>4, FrameEq DEF NewOK, Service
    <3> QED  BY <3>1, <2>1, <1>2 DEF SlotInv
  <2>10. task'[t].stk = c /\ task'[t].got = T.got /\ task'[t].held = T.held
    BY <1>2, <1>3
  <2> QED  BY <2>4, <2>5, <2>6, <2>7, <2>8, <2>9, <2>10 DEF SlotInv
<1>8. ASSUME NEW s \in Super  PROVE SuperInv(t, s)'
  <2>1. SuperInv(t, s)
    BY HasFacts
  <2>2. ~Has(c, Frame("read_super", s))
    BY <1>1, <1>4, FrameEq DEF NewOK, IO, Service
  <2>3. Has(c, Frame("umount", s)) =>
            /\ super[s].imount # 0 /\ super[s].dev # 0 /\ super[s].dev # ROOT_DEV
            /\ ~inode'[super[s].imount].mount
            /\ \/ Frames(c, super[s].imount) > 0
               \/ cpu' = t /\ Top(c) = Frame("umount", s)
    <3> SUFFICES ASSUME Has(c, Frame("umount", s))
                 PROVE  /\ super[s].imount # 0 /\ super[s].dev # 0 /\ super[s].dev # ROOT_DEV
                        /\ ~inode'[super[s].imount].mount
                        /\ \/ Frames(c, super[s].imount) > 0
                           \/ cpu' = t /\ Top(c) = Frame("umount", s)
      OBVIOUS
    <3>1. Has(R, Frame("umount", s)) /\ Has(S, Frame("umount", s))
      BY <1>1, <1>4, FrameEq DEF NewOK, Service
    <3>2. Top(S) # Frame("umount", s)
      BY <1>1, FrameEq DEF Service
    <3>3. /\ super[s].imount # 0 /\ super[s].dev # 0 /\ super[s].dev # ROOT_DEV
          /\ ~inode[super[s].imount].mount /\ Frames(S, super[s].imount) > 0
      BY <3>1, <3>2, <2>1 DEF SuperInv
    <3>4. super[s].imount \in Slot
      BY <3>3, <1>2 DEF Types, SuperType
    <3>5. CASE c = R /\ at \in Putting
      <4>1. Top(R).at \notin Service
        BY <3>5, <1>1 DEF Fits
      <4>2. Frame("umount", s) \in FrameType /\ Frame("umount", s).at = "umount"
        BY MakeFrame, FrameEq DEF OnSuper
      <4>3. Top(c) = Frame("umount", s)
        <5> HIDE DEF R
        <5> QED  BY <4>1, <4>2, <3>1, <3>5, <1>1, UmountLast
      <4>4. cpu' = t
        <5>1. Top(c).at = "umount"
          BY <4>3, FrameEq
        <5>2. ~Blocked(Top(c), inode')
          BY <5>1 DEF Blocked, WaitsOnInode
        <5> QED  BY <5>1, <5>2, <1>3 DEF IO
      <4> QED  BY <3>3, <3>4, <4>3, <4>4
    <3>6. CASE \A i \in Slot : Frames(S, i) > 0 => Frames(c, i) > 0
      BY <3>3, <3>4, <3>6
    <3> QED  BY <3>5, <3>6, <1>1
  <2>4. task'[t].stk = c
    BY <1>2, <1>3
  <2> QED  BY <2>2, <2>3, <2>4 DEF SuperInv
<1>9. CrossOK(t)'
  <2> SUFFICES ASSUME Work(c).at = "cross"
               PROVE  /\ cpu' = t /\ super[Work(c).i].imount # 0
                      /\ inode'[super[Work(c).i].imount].mount
                      /\ \/ Top(c).at = "cross"
                         \/ /\ Top(c).at \in {"iput", "irepeat"}
                            /\ Top(c).i = super[Work(c).i].imount
    <3>1. task'[t].stk = c
      BY <1>2, <1>3
    <3> QED  BY <3>1 DEF CrossOK
  <2> DEFINE s == Work(c).i
  <2>1. Work(S).at = "cross" /\ Work(S).i = s /\ Work(R) = Work(c)
    BY <1>1
  <2>2. /\ cpu = t /\ super[s].imount # 0 /\ inode[super[s].imount].mount
        /\ It(t) = super[s].imount
    <3>1. CrossOK(t)
      BY <1>2 DEF Own
    <3>2. Top(S).at # "cross"
      BY <1>1 DEF Service
    <3> QED  BY <2>1, <3>1, <3>2, <1>1 DEF CrossOK
  <2>3. super[s].imount \in Slot /\ s \in Super
    <3>1. Work(S) \in FrameType /\ s \in Super
      <4>1. Work(S) \in FrameType
        <5> HIDE DEF S
        <5> QED  BY <2>1, <1>1, WorkIsFrame, FrameEq
      <4>2. Work(S).at = "cross"
        BY <2>1
      <4> QED  BY <4>1, <4>2, <2>1, FrameFacts DEF OnSuper
    <3> QED  BY <2>2, <3>1, <1>2 DEF Types, SuperType
  <2>4. inode'[super[s].imount].mount
    BY <2>2, <2>3
  <2>5. CASE c = R /\ at \in Putting
    <3>1. Top(R).at \notin Service
      BY <2>5, <1>1 DEF Fits
    <3>2. R # <<>>
      <4> SUFFICES ASSUME R = <<>>  PROVE FALSE
        OBVIOUS
      <4>1. Work(R) = Frame("user", 0)
        BY Zenon, EmptyStack
      <4> QED  BY <4>1, <2>1, FrameEq
    <3>3. Work(R) = Top(R)
      <4> HIDE DEF R
      <4> QED  BY <3>1, <3>2, <1>1, Below
    <3>4. Top(c).at = "cross"
      BY <3>3, <2>5, <2>1
    <3>5. ~Blocked(Top(c), inode')
      BY <3>4 DEF Blocked, WaitsOnInode
    <3>6. cpu' = t
      BY <3>4, <3>5, <1>3 DEF IO
    <3> QED  BY <2>2, <2>4, <3>4, <3>6
  <2>6. CASE Top(c) = Frame("irepeat", It(t)) /\ inode'[It(t)].lock = None
    <3>1. Top(c).at = "irepeat" /\ Top(c).i = It(t)
      BY <2>6, FrameEq
    <3>2. ~Blocked(Top(c), inode')
      BY <3>1, <2>6, NotBlocked
    <3>3. cpu' = t
      BY <3>1, <3>2, <1>3 DEF IO
    <3> QED  BY <2>2, <2>4, <3>1, <3>3
  <2> QED  BY <2>5, <2>6, <2>1, <1>1
<1>10. /\ WellFormed(c) /\ WorkOK(Z, Work(c).at)
  <2>1. WorkOK(T, Work(S).at)
    BY <1>2 DEF Own
  <2> QED  BY <2>1, <1>2 DEF WorkOK
<1>11. /\ \A i \in Slot : Z.held[i] > 0 \/ Z.got = i => inode'[i].pipe \/ inode'[i].dev # 0
       /\ Z.empty # 0 => inode'[Z.empty] = [Zeroed EXCEPT !.count = 1]
  BY <1>2 DEF Own
<1>12. Top(c).at # "mount"
  <2>1. CASE c = R
    BY <2>1, <1>1 DEF Fits
  <2>2. CASE Top(c).at \in Service
    BY <2>2 DEF Service
  <2> QED  BY <2>1, <2>2, <1>1
<1>13. cpu' = t => Top(c).at \notin IO \cup {"user"} /\ ~Blocked(Top(c), inode)'
  BY <1>3, BlockedSame
<1>14. \A i \in Slot : inode'[i].lock = t => Top(c) \in {Frame("read", i), Frame("write", i)}
  OBVIOUS
<1>15. task'[t] = Z /\ Z.stk = c
  BY <1>2, <1>3
<1> HIDE DEF Z
<1>16. DevInv(task[t])'
  BY <1>6
<1> QED
  BY <1>7, <1>8, <1>9, <1>10, <1>11, <1>12, <1>13, <1>14, <1>15, <1>16 DEF Own

LEMMA PointsStack ==
    ASSUME Types, Types', NEW t \in Task, NEW c \in Seq(FrameType),
           task'[t] = [task[t] EXCEPT !.stk = c], NEW i \in Slot,
           inode'[i].pipe = inode[i].pipe \/ task[t].got # i
    PROVE  /\ Points(t, i)' - Points(t, i) = Frames(c, i) - Frames(task[t].stk, i)
           /\ Points(t, i) \in Nat /\ Points(t, i)' \in Nat
           /\ Frames(c, i) \in Nat /\ Frames(task[t].stk, i) \in Nat
<1> DEFINE T == task[t]
           Z == [T EXCEPT !.stk = c]
<1>1. T \in TaskType /\ Z \in TaskType /\ inode[i].pipe \in BOOLEAN /\ inode'[i].pipe \in BOOLEAN
  BY DEF Types, TaskType, InodeType
<1>2. /\ Z.stk = c /\ Z.held = T.held /\ Z.empty = T.empty /\ Z.got = T.got
      /\ T.stk \in Seq(FrameType) /\ T.held[i] \in Nat
  BY <1>1 DEF TaskType
<1>3. Frames(c, i) \in Nat /\ Frames(T.stk, i) \in Nat
  BY <1>2, FramesNat
<1> DEFINE e == IF T.empty = i THEN 1 ELSE 0
           g == IF T.got # i THEN 0 ELSE IF inode[i].pipe THEN 2 ELSE 1
           x == T.held[i]
           y == Frames(T.stk, i)
           z == Frames(c, i)
<1>4. e \in Nat /\ g \in Nat
  OBVIOUS
<1>5. Points(t, i) = x + y + e + g
  BY DEF Points, Pointers
<1>6. Points(t, i)' = x + z + e + g
  <2>1. Points(t, i)' = Pointers(Z, i, inode'[i].pipe)
    BY DEF Points
  <2>2. Pointers(Z, i, inode'[i].pipe) = x + z + e + g
    <3> HIDE DEF Z
    <3> QED  BY <1>2 DEF Pointers
  <2> QED  BY <2>1, <2>2
<1>7. x \in Nat /\ y \in Nat /\ z \in Nat
  BY <1>2, <1>3
<1> HIDE DEF e, g, x, y, z
<1>8. Points(t, i)' - Points(t, i) = z - y /\ Points(t, i) \in Nat /\ Points(t, i)' \in Nat
  BY <1>4, <1>5, <1>6, <1>7
<1> QED
  BY <1>7, <1>8 DEF y, z

LEMMA QuietService ==
    ASSUME InoInv, Types', NEW t \in Task, NEW at, NEW c, ServiceTo(t, at, c),
           UNCHANGED <<super, disk, imap, links, panic>>,
           \A i \in Slot : MayDo(t, c, i)
    PROVE  InoInv'
<1> DEFINE T == task[t]
           S == T.stk
           R == Tail(S)
           Z == [T EXCEPT !.stk = c]
<1>0. at \in Service /\ At(t, at) /\ c \in Seq(FrameType) /\ Next_(t, c) /\ at # "user"
  BY DEF ServiceTo, Service
<1>1. /\ CanRun(t) /\ S \in Seq(FrameType) /\ Head(S).at = at /\ Rest(t) = R /\ S # <<>>
      /\ R \in Seq(FrameType) /\ WellFormed(S)
      /\ (\A g : Has(S, g) <=> g = Head(S) \/ Has(R, g))
  BY <1>0, AtFacts
<1>2. Types /\ Own(t) /\ T \in TaskType /\ Z \in TaskType /\ Z.stk = c
  BY <1>0, Parts DEF TaskType
<1>3. task'[t] = Z /\ OnlyTask(t) /\ cpu \in {t, None} /\ cpu' \in {t, None}
  <2>1. Runs(t, Z)
    BY <1>0 DEF Next_
  <2> HIDE DEF Z
  <2> QED  BY <2>1, <1>1, <1>2, RunsFacts
<1>4. Own(t)'
  <2>1. \A i \in Slot :
              /\ inode'[i].mount = inode[i].mount
              /\ task[t].held[i] > 0 \/ task[t].got = i \/ Frames(Rest(t), i) > 0 =>
                    /\ inode'[i].dev = inode[i].dev /\ inode'[i].num = inode[i].num
                    /\ inode'[i].pipe = inode[i].pipe
              /\ task[t].empty = i => inode'[i] = inode[i]
              /\ inode'[i].lock = t => Top(c) = Frame("write", i)
    BY DEF MayDo
  <2> QED  BY <2>1, <1>0, ServiceStep DEF ServiceTo
<1>5. \A g : Has(R, g) => g.at \notin IO
  BY <1>1, NoIOBelow
<1>6. \A g : g.at \notin Service => (Has(c, g) <=> Has(S, g))
  BY <1>0, <1>1 DEF ServiceTo, NewOK
<1>7. \A i \in Slot : /\ Has(c, Frame("read", i)) <=> Has(S, Frame("read", i))
                      /\ Has(c, Frame("mount", i)) => Has(S, Frame("mount", i))
  BY <1>6, FrameEq DEF Service
<1>8. \A s \in Super : /\ Has(c, Frame("umount", s)) <=> Has(S, Frame("umount", s))
                       /\ Has(c, Frame("read_super", s)) => Has(S, Frame("read_super", s))
  BY <1>6, FrameEq DEF Service
<1>9. ASSUME NEW i \in Slot
      PROVE  inode'[i].count - inode[i].count = Points(t, i)' - Points(t, i)
  <2>1. inode'[i].count - inode[i].count = Frames(c, i) - Frames(S, i)
        /\ (inode'[i].pipe = inode[i].pipe \/ T.got # i)
    BY DEF MayDo
  <2>2. Points(t, i)' - Points(t, i) = Frames(c, i) - Frames(S, i)
    BY <2>1, <1>0, <1>2, <1>3, PointsStack
  <2> QED  BY <2>1, <2>2
<1>10. task'[t].stk = c
  BY <1>2, <1>3
<1>11. Quiet(t)
  <2>1. \A i \in Slot : 
        /\ Has(task'[t].stk, Frame("read", i)) <=> Has(task[t].stk, Frame("read", i))
        /\ Has(task'[t].stk, Frame("mount", i)) => Has(task[t].stk, Frame("mount", i))
    BY <1>7, <1>10
  <2>2. \A s \in Super :
        /\ Has(task'[t].stk, Frame("umount", s)) <=> Has(task[t].stk, Frame("umount", s))
        /\ Has(task'[t].stk, Frame("read_super", s)) => Has(task[t].stk, Frame("read_super", s))
    BY <1>8, <1>10
  <2>3. ASSUME NEW i \in Slot
        PROVE 
        /\ inode'[i].dev = inode[i].dev /\ inode'[i].num = inode[i].num
        /\ inode'[i].mount = inode[i].mount /\ inode'[i].nlinks = inode[i].nlinks
        /\ inode'[i].pipe = inode[i].pipe \/ \A u \in Task : u # t => Points(u, i) = 0
        /\ inode'[i].pipe => inode[i].dev = 0
        /\ inode'[i].dirt => inode[i].dev # 0
        /\ inode'[i].dirt = inode[i].dirt \/ inode'[i].dirt \/ inode[i].dev = 0
        /\ \/ inode'[i].lock = inode[i].lock
           \/ inode[i].lock = None /\ inode'[i].lock = t /\ inode[i].dev # 0 /\ inode[i].dirt
        /\ inode'[i].count = 0 => ~inode'[i].dirt /\ inode'[i].lock = None
        /\ inode'[i].count > 0 /\ inode[i].dev # 0 => inode[i].count > 0
        /\ inode'[i] # inode[i] => \A u \in Task : u # t =>
                task[u].empty # i /\ ~Has(task[u].stk, Frame("read", i))
        /\ inode'[i].count # inode[i].count => \A u \in Task : u # t =>
                ~Has(task[u].stk, Frame("trunc", i))
    <3>1. MayDo(t, c, i)
      OBVIOUS
    <3> QED  BY <3>1 DEF MayDo
  <2> QED  BY <2>1, <2>2, <2>3, <1>3, <1>9 DEF Quiet
<1> QED
  BY <1>4, <1>11, QuietStep

(* The task whose top frame points to an inode.                            *)
LEMMA TopPoints ==
    ASSUME InoInv, NEW t \in Task, NEW at \in Putting \cup {"mount"}, At(t, at)
    PROVE  LET i == It(t) IN
           /\ i \in Slot /\ inode[i].count \in Nat /\ inode[i].count > 0 /\ Points(t, i) > 0
           /\ Frames(task[t].stk, i) = Frames(Rest(t), i) + 1
           /\ \A j \in Slot : j # i => Frames(task[t].stk, j) = Frames(Rest(t), j)
           /\ \A u \in Task :
                /\ task[u].empty # i
                /\ u # t => /\ ~Has(task[u].stk, Frame("read", i))
                            /\ ~Has(task[u].stk, Frame("trunc", i))
                /\ inode[i].count = 1 /\ u # t => Points(u, i) = 0
           /\ inode[i].count = 1 =>
                /\ task[t].held[i] = 0 /\ task[t].got # i /\ Frames(Rest(t), i) = 0 /\ OfSupers(i) = 0
<1> DEFINE i == It(t)
           T == task[t]
           S == T.stk
<1>0. at # "user" /\ at \in OnSlot
  BY DEF Putting, OnSlot
<1>1. /\ S \in Seq(FrameType) /\ Head(S) \in FrameType /\ Head(S) = Frame(at, i) /\ Head(S).at = at
      /\ Head(S).i = i /\ Rest(t) = Tail(S)
      /\ \A j : Frames(Tail(S), j) \in Nat /\ Frames(S, j) = Frames(Tail(S), j) + Counting(Head(S), j)
  BY <1>0, AtFacts
<1>2. i \in Slot
  BY <1>0, <1>1, FrameFacts
<1>3. Counting(Head(S), i) = 1 /\ \A j \in Slot : j # i => Counting(Head(S), j) = 0
  BY <1>1 DEF Counting, Putting
<1>4. /\ Frames(S, i) = Frames(Rest(t), i) + 1 /\ Frames(Rest(t), i) \in Nat
      /\ \A j \in Slot : j # i => Frames(S, j) = Frames(Rest(t), j)
  BY <1>1, <1>3
<1>5. Types /\ Counts /\ Supers /\ T \in TaskType
  BY Parts
<1>6. /\ Points(t, i) \in Nat /\ T.held[i] \in Nat /\ T.held[i] + Frames(S, i) <= Points(t, i)
  BY <1>2, <1>5, PointsNat
<1>7. Points(t, i) > 0 /\ (Points(t, i) = 1 => T.held[i] = 0 /\ Frames(Rest(t), i) = 0)
  BY <1>4, <1>6
<1>8. T.empty = i \/ T.got = i => Points(t, i) > 1
  <2> DEFINE e == IF T.empty = i THEN 1 ELSE 0
             g == IF T.got # i THEN 0 ELSE IF inode[i].pipe THEN 2 ELSE 1
             x == T.held[i]
             y == Frames(S, i)
             z == Frames(Rest(t), i)
  <2>1. e \in Nat /\ g \in Nat /\ (T.empty = i \/ T.got = i => e + g > 0)
    OBVIOUS
  <2>2. Points(t, i) = x + y + e + g
    BY DEF Points, Pointers
  <2>3. x \in Nat /\ z \in Nat /\ y = z + 1
    BY <1>4, <1>6
  <2> HIDE DEF e, g, x, y, z
  <2> QED  BY <2>1, <2>2, <2>3
<1>9. /\ inode[i].count \in Nat /\ OfSupers(i) \in Nat
      /\ Points(t, i) + OfSupers(i) <= inode[i].count
      /\ \A u \in Task : u # t => Points(t, i) + Points(u, i) + OfSupers(i) <= inode[i].count
  BY <1>2, <1>5, CountBounds
<1>10. \A u \in Task : Points(u, i) \in Nat
  BY <1>2, <1>5, PointsNat
<1> HIDE DEF i, S, T
<1>11. inode[i].count > 0 /\ \A u \in Task : inode[i].count = 1 /\ u # t => Points(u, i) = 0
  BY <1>6, <1>7, <1>9, <1>10
<1>12. inode[i].count = 1 => /\ T.held[i] = 0 /\ T.got # i /\ Frames(Rest(t), i) = 0
                             /\ OfSupers(i) = 0
  <2>1. inode[i].count = 1 => Points(t, i) = 1 /\ OfSupers(i) = 0
    BY <1>6, <1>7, <1>9
  <2> QED  BY <2>1, <1>7, <1>8
<1>13. ASSUME NEW u \in Task
       PROVE  /\ task[u].empty # i
              /\ u # t => ~Has(task[u].stk, Frame("read", i)) /\ ~Has(task[u].stk, Frame("trunc", i))
  <2>1. u # t => ~Alone(u, i)
    BY <1>2, <1>7, AloneFacts
  <2>2. task[t].empty # i
    <3> SUFFICES ASSUME task[t].empty = i  PROVE FALSE
      OBVIOUS
    <3>1. Points(t, i) = 1
      BY <1>2, AloneFacts DEF Alone
    <3> QED  BY <3>1, <1>8 DEF T
  <2> QED  BY <2>1, <2>2 DEF Alone
<1> QED
  BY <1>2, <1>4, <1>7, <1>9, <1>11, <1>12, <1>13 DEF i, S, T

LEMMA MountedSuper ==
    ASSUME NEW d, Mounted(d), d # 0  PROVE get_super(d) # {}
BY DEF Mounted, get_super

(* A task that crosses a mount point puts back the directory, which the    *)
(* super block uses too.                                                   *)
LEMMA CrossServes ==
    ASSUME InoInv, NEW t \in Task, NEW at \in Service, At(t, at), Work(task[t].stk).at = "cross"
    PROVE  /\ at \in {"iput", "irepeat"} /\ It(t) \in Slot
           /\ inode[It(t)].mount /\ inode[It(t)].count > 1 /\ inode[It(t)].dev # 0
<1> DEFINE T == task[t]
           S == T.stk
           s == Work(S).i
           i == It(t)
<1>0. at # "user" /\ at # "cross"
  BY DEF Service
<1>1. /\ S \in Seq(FrameType) /\ Head(S) \in FrameType /\ Head(S).at = at
      /\ Head(S).i = i /\ Top(S) = Head(S)
  BY <1>0, AtFacts
<1>2. Types /\ Counts /\ Supers /\ Table /\ CrossOK(t)
  BY Parts DEF Own
<1>3. /\ super[s].imount = i /\ inode[i].mount /\ at \in {"iput", "irepeat"} /\ i # 0
  BY <1>0, <1>1, <1>2 DEF CrossOK
<1>4. i \in Slot /\ Points(t, i) > 0
  <2>1. at \in Putting \cup {"mount"}
    BY <1>3 DEF Putting
  <2> QED  BY <2>1, TopPoints
<1>5. s \in Super
  <2>1. Work(S) \in FrameType
    <3> HIDE DEF S
    <3>1. Work(S) # Frame("user", 0)
      BY FrameEq DEF S
    <3> QED  BY <3>1, <1>1, WorkIsFrame
  <2>2. Work(S).at = "cross"
    OBVIOUS
  <2> QED  BY <2>1, <2>2, FrameFacts DEF OnSuper
<1>6. ~Leaving(s)
  <2> SUFFICES ASSUME NEW u \in Task, Has(task[u].stk, Frame("umount", s))  PROVE FALSE
    BY DEF Leaving
  <2>1. SuperInv(u, s)
    BY <1>5, HasFacts
  <2>2. ~inode[super[s].imount].mount
    BY <2>1 DEF SuperInv
  <2> QED  BY <2>2, <1>3
<1>7. OfSupers(i) > 0 /\ OfSupers(i) \in Nat
  BY <1>3, <1>5, <1>6, SupersBounds
<1>8. Points(t, i) \in Nat /\ inode[i].count \in Nat /\ Points(t, i) + OfSupers(i) <= inode[i].count
  BY <1>2, <1>4, PointsNat, CountBounds
<1>9. inode[i].count > 1
  BY <1>4, <1>7, <1>8
<1>10. inode[i].dev # 0
  BY <1>2, <1>3, <1>4 DEF Table
<1> QED
  BY <1>3, <1>4, <1>9, <1>10

(* A service returns.                                                      *)
LEMMA Returns ==
    ASSUME InoInv, NEW t \in Task, NEW at \in Service, At(t, at), Next_(t, Rest(t))
    PROVE  ServiceTo(t, at, Rest(t))
<1>0. at # "user"
  BY DEF Service
<1>1. LET S == task[t].stk IN
      /\ Rest(t) = Tail(S) /\ Tail(S) \in Seq(FrameType) /\ WellFormed(Tail(S)) /\ Work(S) = Work(Tail(S))
      /\ Head(S).at = at
      /\ \A i : Frames(Tail(S), i) \in Nat /\ Frames(S, i) = Frames(Tail(S), i) + Counting(Head(S), i)
  BY <1>0, AtFacts
<1>2. at \notin Putting => \A i \in Slot : Frames(task[t].stk, i) > 0 => Frames(Rest(t), i) > 0
  BY <1>1 DEF Counting, Putting, Service
<1>3. Work(task[t].stk).at = "cross" => at \in Putting
  BY CrossServes DEF Putting
<1> QED
  BY <1>1, <1>2, <1>3 DEF ServiceTo

LEMMA TypesStep ==
    ASSUME Types, NEW t \in Task, NEW rec \in TaskType, CanRun(t), Runs(t, rec),
           UNCHANGED <<super, disk, imap, links>>, inode' \in [Slot -> InodeType]
    PROVE  Types'
BY RunsFacts DEF Types

LEMMA TypesNext ==
    ASSUME InoInv, NEW t \in Task, NEW c \in Seq(FrameType), CanRun(t), Next_(t, c),
           UNCHANGED <<super, disk, imap, links>>, inode' \in [Slot -> InodeType]
    PROVE  Types'
<1>1. Types /\ [task[t] EXCEPT !.stk = c] \in TaskType
  BY Parts DEF TaskType
<1> QED
  BY <1>1, TypesStep DEF Next_

(* An inode that the service leaves alone.                                 *)
LEMMA LeftAlone ==
    ASSUME InoInv, NEW t \in Task, NEW at \in Service, at # "write", At(t, at), NEW c,
           NEW i \in Slot, inode'[i] = inode[i], Frames(c, i) = Frames(task[t].stk, i)
    PROVE  MayDo(t, c, i)
<1>0. at # "user"
  BY DEF Service
<1>1. Table /\ Own(t) /\ Types
  BY Parts
<1>2. Top(task[t].stk).at = at
  BY DEF At
<1>3. inode[i].lock # t
  <2>1. Top(task[t].stk) \notin {Frame("read", i), Frame("write", i)}
    BY <1>2, FrameEq DEF Service
  <2> QED  BY <1>1, <2>1 DEF Own
<1>4. Frames(task[t].stk, i) \in Nat /\ inode[i].count \in Nat
  BY <1>1, PointsNat DEF Types, InodeType
<1>5. inode'[i].count - inode[i].count = Frames(c, i) - Frames(task[t].stk, i)
  BY <1>4
<1>6. /\ inode[i].pipe => inode[i].dev = 0
      /\ inode[i].dirt => inode[i].dev # 0
      /\ inode[i].count = 0 => ~inode[i].dirt /\ inode[i].lock = None
  BY <1>1 DEF Table
<1> QED
  BY <1>3, <1>5, <1>6 DEF MayDo

LEMMA IdleService ==
    ASSUME InoInv, NEW t \in Task, NEW at \in Service, at # "write", NEW c, ServiceTo(t, at, c),
           UNCHANGED <<inode, super, disk, imap, links, panic>>,
           \A i \in Slot : Frames(c, i) = Frames(task[t].stk, i)
    PROVE  InoInv'
<1>1. At(t, at) /\ c \in Seq(FrameType) /\ Next_(t, c) /\ CanRun(t)
  BY DEF ServiceTo, At
<1>2. Types'
  <2>1. Types
    BY Parts
  <2>2. inode' \in [Slot -> InodeType]
    BY <2>1 DEF Types
  <2> QED  BY <2>2, <1>1, TypesNext
<1>3. \A i \in Slot : MayDo(t, c, i)
  BY <1>1, LeftAlone
<1> QED
  BY <1>2, <1>3, QuietService

LEMMA Uncounted ==
    ASSUME InoInv, NEW t \in Task, NEW at \in Service \ Putting, At(t, at)
    PROVE  \A i \in Slot : Frames(Rest(t), i) = Frames(task[t].stk, i)
<1>1. at # "user"
  BY DEF Service
<1>2. LET S == task[t].stk IN
      /\ Head(S).at = at /\ Rest(t) = Tail(S)
      /\ \A i : Frames(Tail(S), i) \in Nat /\ Frames(S, i) = Frames(Tail(S), i) + Counting(Head(S), i)
  BY <1>1, AtFacts
<1>3. \A i : Counting(Head(task[t].stk), i) = 0
  BY <1>2 DEF Counting, Putting, Service
<1> QED
  BY <1>2, <1>3

LEMMA BrelseStep ==
    ASSUME InoInv, NEW t \in Task, brelse(t)
    PROVE  InoInv'
<1>1. "brelse" \in Service /\ "brelse" # "user" /\ "brelse" # "write"
  BY DEF Service
<1>2. At(t, "brelse") /\ Next_(t, Rest(t)) /\ UNCHANGED <<inode, super, disk, imap, links, panic>>
  BY DEF brelse, ioVars
<1>3. ServiceTo(t, "brelse", Rest(t))
  BY <1>1, <1>2, Returns
<1>4. \A i \in Slot : Frames(Rest(t), i) = Frames(task[t].stk, i)
  <2>1. "brelse" \in Service \ Putting
    BY DEF Service, Putting
  <2> QED  BY <2>1, <1>2, Uncounted
<1> QED
  BY <1>1, <1>2, <1>3, <1>4, IdleService

(* A service calls another one.                                            *)
LEMMA Calls ==
    ASSUME InoInv, NEW t \in Task, NEW at \in Service, At(t, at), NEW f \in FrameType,
           NEW s, Next_(t, <<f>> \o s), Fits(f, Top(s).at), NewOK(t, f),
           \/ s = task[t].stk /\ f.at \notin Putting /\ NewOK(t, Head(task[t].stk))
           \/ s = Rest(t) /\ at \in Putting /\ f.at \in Putting /\ f.i = It(t)
           \/ s = Rest(t) /\ at \notin Putting /\ f.at \notin Putting,
           Work(task[t].stk).at = "cross" => f = Frame("irepeat", It(t)) /\ inode'[It(t)].lock = None
    PROVE  /\ ServiceTo(t, at, <<f>> \o s)
           /\ \A i \in Slot : Frames(<<f>> \o s, i) = Frames(task[t].stk, i)
<1> DEFINE S == task[t].stk
           R == Tail(S)
           c == <<f>> \o s
<1>0. at # "user" /\ f.at \in Service
  BY DEF Service, NewOK
<1>1. /\ Rest(t) = R /\ R \in Seq(FrameType) /\ WellFormed(R) /\ Work(S) = Work(R)
      /\ Head(S).at = at /\ Head(S).i = It(t) /\ S \in Seq(FrameType) /\ WellFormed(S)
      /\ (\A g : Has(S, g) <=> g = Head(S) \/ Has(R, g))
      /\ \A i : Frames(R, i) \in Nat /\ Frames(S, i) = Frames(R, i) + Counting(Head(S), i)
  BY <1>0, AtFacts
<1>2. s \in Seq(FrameType) /\ WellFormed(s) /\ Work(s) = Work(S)
  BY <1>1
<1>3. /\ c \in Seq(FrameType) /\ Top(c) = f /\ WellFormed(c) /\ Work(c) = Work(S)
      /\ \A g : Has(c, g) <=> g = f \/ Has(s, g)
      /\ \A i : Frames(s, i) \in Nat /\ Frames(c, i) = Frames(s, i) + Counting(f, i)
  BY <1>0, <1>2, Push
<1>4. \A i \in Slot : Frames(c, i) = Frames(S, i)
  <2> SUFFICES ASSUME NEW i \in Slot  PROVE Frames(c, i) = Frames(S, i)
    OBVIOUS
  <2>1. \A g : g.at \in Service \ Putting => Counting(g, i) = 0
    BY DEF Counting, Service, Putting
  <2>2. CASE s = S /\ f.at \notin Putting
    BY <2>1, <2>2, <1>0, <1>3
  <2>3. CASE s = R /\ at \in Putting /\ f.at \in Putting /\ f.i = It(t)
    <3>1. Counting(Head(S), i) = Counting(f, i)
      BY <2>3, <1>1 DEF Counting, Putting
    <3> QED  BY <3>1, <2>3, <1>1, <1>3
  <2>4. CASE s = R /\ at \notin Putting /\ f.at \notin Putting
    <3>1. Counting(Head(S), i) = 0 /\ Counting(f, i) = 0
      BY <2>1, <2>4, <1>0, <1>1
    <3> QED  BY <3>1, <2>4, <1>1, <1>3
  <2> QED  BY <2>2, <2>3, <2>4, <1>1
<1>5. \A g : Has(R, g) => Has(c, g)
  BY <1>1, <1>3
<1>6. \A g : Has(c, g) => Has(R, g) \/ NewOK(t, g)
  BY <1>1, <1>3
<1> HIDE DEF c
<1>7. ServiceTo(t, at, c)
  <2>1. Next_(t, c)
    BY DEF c
  <2>2. Top(c).at \in Service
    BY <1>0, <1>3
  <2> QED  BY <2>1, <2>2, <1>1, <1>3, <1>4, <1>5, <1>6 DEF ServiceTo
<1> QED
  BY <1>4, <1>7 DEF c

LEMMA WriteInodeStep ==
    ASSUME InoInv, NEW t \in Task, write_inode(t)
    PROVE  InoInv'
<1> DEFINE i == It(t)
           W == <<Frame("write", i)>> \o Rest(t)
<1>1. At(t, "write_inode") /\ "write_inode" \in Service /\ "write_inode" \in Service \ Putting
      /\ CanRun(t)
  BY DEF write_inode, Service, Putting, At
<1>2. /\ i \in Slot /\ inode[i].lock = None /\ Head(task[t].stk) = Frame("write_inode", i)
      /\ Fits(Head(task[t].stk), Top(Rest(t)).at) /\ Rest(t) \in Seq(FrameType)
  <2>1. LET S == task[t].stk IN
        /\ It(t) = Head(S).i /\ Rest(t) = Tail(S) /\ Head(S) \in FrameType
        /\ Head(S) = Frame("write_inode", It(t)) /\ Head(S).at = "write_inode"
        /\ Fits(Head(S), Top(Tail(S)).at) /\ Tail(S) \in Seq(FrameType)
        /\ ("write_inode" \in WaitsOnInode /\ It(t) \in Slot => inode[It(t)].lock = None)
    BY <1>1, AtFacts
  <2>2. i \in Slot
    BY <2>1, FrameFacts DEF OnSlot
  <2> QED  BY <2>1, <2>2 DEF WaitsOnInode
<1>3. Types /\ Table
  BY Parts
<1>4. CASE ~inode[i].dirt \/ inode[i].dev = 0
  <2>1. Next_(t, Rest(t)) /\ UNCHANGED <<inode, super, disk, imap, links, panic>>
    BY <1>4 DEF write_inode, ioVars
  <2>2. ServiceTo(t, "write_inode", Rest(t))
    BY <2>1, <1>1, Returns
  <2>3. \A j \in Slot : Frames(Rest(t), j) = Frames(task[t].stk, j)
    BY <1>1, Uncounted
  <2> QED  BY <1>1, <2>1, <2>2, <2>3, IdleService
<1>5. CASE inode[i].dirt /\ inode[i].dev # 0
  <2>1. get_super(inode[i].dev) # {}
    <3>1. inode[i].count # 0 /\ inode[i].count \in Nat
      BY <1>2, <1>3, <1>5 DEF Table, Types, InodeType
    <3>2. inode[i].count > 0
      BY <3>1
    <3>3. Mounted(inode[i].dev)
      BY <3>2, <1>2, <1>3, <1>5 DEF Table
    <3> QED  BY <3>3, <1>5, MountedSuper
  <2>2. /\ inode' = [inode EXCEPT ![i].lock = t] /\ Next_(t, W)
        /\ UNCHANGED <<super, disk, imap, links, panic>>
    BY <2>1, <1>5 DEF write_inode, ioVars
  <2>3. /\ inode' \in [Slot -> InodeType]
        /\ \A j \in Slot : j # i => inode'[j] = inode[j]
        /\ inode'[i] = [inode[i] EXCEPT !.lock = t] /\ inode'[i].lock = t
    BY <2>2, <1>2, <1>3 DEF Types, InodeType
  <2>4. Frame("write", i) \in FrameType /\ Frame("write", i).at = "write" /\ Frame("write", i).i = i
    BY <1>2, MakeFrame, FrameEq DEF OnSlot
  <2>5. NewOK(t, Frame("write", i))
    BY <2>3, <2>4 DEF NewOK, Service
  <2>6. Fits(Frame("write", i), Top(Rest(t)).at)
    BY <1>2, <2>4, FrameEq DEF Fits, Service, Putting, Keeper
  <2>7. Work(task[t].stk).at # "cross"
    BY <1>1, CrossServes
  <2>8. ServiceTo(t, "write_inode", W) /\ \A j \in Slot : Frames(W, j) = Frames(task[t].stk, j)
    <3>1. Frame("write", i).at \notin Putting /\ "write_inode" \notin Putting
      BY <2>4 DEF Putting
    <3> QED  BY <3>1, <1>1, <2>2, <2>4, <2>5, <2>6, <2>7, Calls
  <2>9. Top(W) = Frame("write", i) /\ W \in Seq(FrameType)
    BY <1>2, <2>4, Push
  <2>10. Types'
    BY <1>1, <2>2, <2>3, <2>9, TypesNext
  <2> HIDE DEF W
  <2>11. \A j \in Slot : j # i => MayDo(t, W, j)
    BY <1>1, <2>3, <2>8, LeftAlone
  <2>12. MayDo(t, W, i)
    <3>1. \A u \in Task : task[u].empty # i /\ ~Has(task[u].stk, Frame("read", i))
      <4> SUFFICES ASSUME NEW u \in Task
                   PROVE  task[u].empty # i /\ ~Has(task[u].stk, Frame("read", i))
        OBVIOUS
      <4>1. SlotInv(u, i) /\ Own(u)
        BY <1>2, HasFacts, Parts
      <4>2. ~Has(task[u].stk, Frame("read", i))
        BY <4>1, <1>5 DEF SlotInv
      <4>3. task[u].empty # i
        <5>1. task[u].empty # 0 => inode[task[u].empty] = [Zeroed EXCEPT !.count = 1]
          BY <4>1 DEF Own
        <5>2. [Zeroed EXCEPT !.count = 1].dev = 0
          BY DEF Zeroed
        <5>3. i # 0
          BY <1>2, SlotFacts
        <5> QED  BY <5>1, <5>2, <5>3, <1>5
      <4> QED  BY <4>2, <4>3
    <3>2. /\ inode'[i].dev = inode[i].dev /\ inode'[i].num = inode[i].num
          /\ inode'[i].mount = inode[i].mount /\ inode'[i].nlinks = inode[i].nlinks
          /\ inode'[i].pipe = inode[i].pipe /\ inode'[i].dirt = inode[i].dirt
          /\ inode'[i].count = inode[i].count
      BY <2>3, <1>2, <1>3 DEF Types, InodeType
    <3>3. inode[i].count # 0 /\ ~inode[i].pipe
      BY <1>2, <1>3, <1>5 DEF Table
    <3>4. inode'[i].count - inode[i].count = Frames(W, i) - Frames(task[t].stk, i)
      <4>1. inode[i].count \in Nat /\ Frames(task[t].stk, i) \in Nat
        BY <1>2, <1>3, PointsNat DEF Types, InodeType
      <4> QED  BY <4>1, <3>2, <2>8, <1>2
    <3> QED  BY <3>1, <3>2, <3>3, <3>4, <2>3, <2>9, <1>2, <1>5 DEF MayDo
  <2> QED  BY <2>2, <2>8, <2>10, <2>11, <2>12, QuietService
<1>6. inode[i].dirt \in BOOLEAN
  BY <1>2, <1>3 DEF Types, InodeType
<1> QED
  BY <1>4, <1>5, <1>6

LEMMA SyncInodesStep ==
    ASSUME InoInv, NEW t \in Task, sync_inodes(t)
    PROVE  InoInv'
<1> DEFINE i == It(t)
           R == Rest(t)
<1>1. At(t, "sync") /\ "sync" \in Service /\ "sync" \in Service \ Putting
      /\ UNCHANGED <<inode, super, disk, imap, links, panic>>
  BY DEF sync_inodes, Service, Putting, ioVars
<1>2. /\ i \in 1..(NR_INODE + 1) /\ Head(task[t].stk) = Frame("sync", i)
      /\ Fits(Head(task[t].stk), Top(R).at) /\ R \in Seq(FrameType)
      /\ WellFormed(R) /\ Work(task[t].stk) = Work(R) /\ R = Tail(task[t].stk)
  <2>1. LET S == task[t].stk IN
        /\ It(t) = Head(S).i /\ Rest(t) = Tail(S) /\ Head(S) \in FrameType
        /\ Head(S) = Frame("sync", It(t)) /\ Head(S).at = "sync" /\ WellFormed(Tail(S))
        /\ Fits(Head(S), Top(Tail(S)).at) /\ Tail(S) \in Seq(FrameType) /\ Work(S) = Work(Tail(S))
    BY <1>1, AtFacts
  <2> QED  BY <2>1, FrameFacts
<1>3. NR_INODE \in Nat
  BY Zenon, InodeAssumption
<1>4. Work(task[t].stk).at # "cross"
  BY <1>1, CrossServes
<1>5. \A j \in Slot : Frames(R, j) = Frames(task[t].stk, j)
  BY <1>1, Uncounted
<1>6. CASE i > NR_INODE
  <2>1. Next_(t, R)
    BY <1>6 DEF sync_inodes
  <2>2. ServiceTo(t, "sync", R)
    BY <2>1, <1>1, Returns
  <2> QED  BY <1>1, <1>5, <2>2, IdleService
<1>7. CASE ~(i > NR_INODE)
  <2> DEFINE f == Frame("sync", i + 1)
             g == Frame("write_inode", i)
             F == <<f>> \o R
  <2>1. i \in Slot /\ i + 1 \in 1..(NR_INODE + 1)
    BY <1>2, <1>3, <1>7 DEF Slot
  <2>2. /\ f \in FrameType /\ g \in FrameType /\ f.at = "sync" /\ g.at = "write_inode"
    BY <2>1, MakeFrame, FrameEq DEF OnSlot
  <2>3. Fits(f, Top(R).at) /\ NewOK(t, f) /\ NewOK(t, g)
    BY <2>2, <1>2, FrameEq DEF Fits, NewOK, Service, Putting, Keeper
  <2>4. CASE inode[i].dirt /\ ~inode[i].pipe
    <3> DEFINE c == <<g>> \o F
    <3>1. Next_(t, c)
      <4>1. Next_(t, (<<g>> \o <<f>>) \o R)
        BY <1>7, <2>4 DEF sync_inodes
      <4> QED  BY <4>1, <2>2, <1>2, StackedOn
    <3>2. /\ F \in Seq(FrameType) /\ Top(F) = f /\ WellFormed(F)
          /\ Work(F) = Work(R) /\ \A h : Has(F, h) <=> h = f \/ Has(R, h)
          /\ \A j : Frames(R, j) \in Nat /\ Frames(F, j) = Frames(R, j) + Counting(f, j)
      BY <2>2, <2>3, <1>2, Push DEF Service
    <3>3. Fits(g, "sync")
      BY <2>2 DEF Fits, IO, Service, Putting, Keeper
    <3> HIDE DEF F
    <3>4. /\ c \in Seq(FrameType) /\ Top(c) = g /\ WellFormed(c)
          /\ Work(c) = Work(F) /\ \A h : Has(c, h) <=> h = g \/ Has(F, h)
          /\ \A j : Frames(F, j) \in Nat /\ Frames(c, j) = Frames(F, j) + Counting(g, j)
      BY <2>2, <3>2, <3>3, Push DEF Service
    <3>5. \A j \in Slot : Frames(c, j) = Frames(task[t].stk, j)
      <4>1. \A j : Counting(f, j) = 0 /\ Counting(g, j) = 0
        BY <2>2 DEF Counting
      <4> HIDE DEF c
      <4> QED  BY <4>1, <1>5, <3>2, <3>4
    <3>6. (\A h : Has(R, h) => Has(c, h)) /\ \A h : Has(c, h) => Has(R, h) \/ NewOK(t, h)
      BY <3>2, <3>4, <2>3
    <3>7. Top(c).at \in Service
      BY <3>4, <2>2 DEF Service
    <3> HIDE DEF c
    <3>8. ServiceTo(t, "sync", c)
      BY <1>1, <1>2, <1>4, <3>1, <3>2, <3>4, <3>5, <3>6, <3>7 DEF ServiceTo
    <3> QED  BY <1>1, <3>5, <3>8, IdleService
  <2>5. CASE ~(inode[i].dirt /\ ~inode[i].pipe)
    <3>1. Next_(t, F)
      <4>1. Next_(t, (<<>> \o <<f>>) \o R)
        BY <1>7, <2>5 DEF sync_inodes
      <4>2. <<>> \o <<f>> = <<f>>
        BY <2>2
      <4> QED  BY <4>1, <4>2
    <3>2. f.at \notin Putting /\ "sync" \notin Putting
      BY <2>2 DEF Putting
    <3>3. ServiceTo(t, "sync", F) /\ \A j \in Slot : Frames(F, j) = Frames(task[t].stk, j)
      BY <1>1, <1>4, <2>2, <2>3, <3>1, <3>2, Calls
    <3> HIDE DEF F
    <3> QED  BY <1>1, <3>3, IdleService
  <2> QED  BY <2>4, <2>5
<1> QED
  BY <1>6, <1>7

LEMMA PutBack ==
    ASSUME InoInv, NEW t \in Task, NEW at \in {"iput", "irepeat"}, At(t, at), Next_(t, Rest(t)),
           UNCHANGED <<super, disk, imap, links, panic>>, inode' \in [Slot -> InodeType],
           \A j \in Slot : j # It(t) => inode'[j] = inode[j],
           Put(inode[It(t)], inode'[It(t)])
    PROVE  InoInv'
<1> DEFINE i == It(t)
           R == Rest(t)
<1>1. at \in Service /\ at \in Putting \cup {"mount"} /\ at # "write" /\ CanRun(t) /\ at # "user"
      /\ at \in WaitsOnInode
  BY DEF Service, Putting, At, WaitsOnInode
<1>2. ServiceTo(t, at, R)
  BY <1>1, Returns
<1>3. /\ i \in Slot /\ inode[i].count \in Nat /\ inode[i].count > 0
      /\ Frames(task[t].stk, i) = Frames(R, i) + 1
      /\ \A j \in Slot : j # i => Frames(task[t].stk, j) = Frames(R, j)
      /\ \A u \in Task :
                /\ task[u].empty # i
                /\ u # t => /\ ~Has(task[u].stk, Frame("read", i))
                            /\ ~Has(task[u].stk, Frame("trunc", i))
                /\ inode[i].count = 1 /\ u # t => Points(u, i) = 0
      /\ inode[i].count = 1 => task[t].held[i] = 0 /\ task[t].got # i /\ Frames(R, i) = 0
  BY <1>1, TopPoints
<1>4. /\ R \in Seq(FrameType) /\ Frames(R, i) \in Nat /\ inode[i].lock = None
  BY <1>1, <1>3, AtFacts
<1>5. Types'
  BY <1>1, <1>4, TypesNext
<1>6. Table
  BY Parts
<1>7. \A j \in Slot : j # i => MayDo(t, R, j)
  BY <1>1, <1>3, LeftAlone
<1>8. MayDo(t, R, i)
  <2>1. inode'[i].count - inode[i].count = Frames(R, i) - Frames(task[t].stk, i)
    BY <1>3, <1>4 DEF Put
  <2>2. inode'[i].count = 0 => inode[i].count = 1
    BY <1>3 DEF Put
  <2>3. /\ inode[i].pipe => inode[i].dev = 0
        /\ inode[i].dirt => inode[i].dev # 0
    BY <1>3, <1>6 DEF Table
  <2>4. inode[i].lock # t
    BY <1>4, SlotFacts
  <2> QED  BY <2>1, <2>2, <2>3, <2>4, <1>3, <1>4 DEF MayDo, Put
<1> QED
  BY <1>2, <1>5, <1>7, <1>8, QuietService

LEMMA IputStep ==
    ASSUME InoInv, NEW t \in Task, iput(t)
    PROVE  InoInv'
<1> DEFINE i == It(t)
           R == Rest(t)
<1>1. /\ At(t, "iput") /\ "iput" \in Service /\ "iput" \in Putting \cup {"mount"} /\ "iput" # "user"
      /\ "iput" \in WaitsOnInode /\ "iput" \in {"iput", "irepeat"} /\ "iput" # "write"
  BY DEF iput, Service, Putting, WaitsOnInode
<1>2. i \in Slot /\ inode[i].count \in Nat /\ inode[i].count > 0
  BY <1>1, TopPoints
<1>3. Types /\ Table
  BY Parts
<1>4. /\ inode[i] \in InodeType /\ inode \in [Slot -> InodeType]
      /\ inode[i].pipe => ~inode[i].dirt /\ inode[i].dev = 0
      /\ inode[i].dev = 0 => ~inode[i].dirt
      /\ inode[i].mount => <<inode[i].dev, inode[i].num>> \notin BlkFile
  BY <1>2, <1>3 DEF Types, Table
<1>4a. inode[i].count # 0
  BY <1>2
<1>5. UNCHANGED <<super, disk, imap, links, panic>> /\ inode[i].count # 0
  BY <1>4a DEF iput, ioVars
<1>6. CASE /\ inode[i].pipe
           /\ inode' = [inode EXCEPT ![i].count = @ - 1,
                                 ![i].dirt = IF inode[i].count = 1 THEN FALSE ELSE @,
                                 ![i].pipe = inode[i].count > 1]
           /\ Next_(t, R)
  <2> DEFINE n == inode[i].count - 1
             d == IF inode[i].count = 1 THEN FALSE ELSE inode[i].dirt
             p == inode[i].count > 1
  <2>1. n \in Nat /\ p \in BOOLEAN /\ d = inode[i].dirt /\ d \in BOOLEAN
    <3>1. n \in Nat /\ (inode[i].count > 1) \in BOOLEAN
      BY <1>2
    <3>2. inode[i].dirt = FALSE
      BY <1>4, <1>6 DEF InodeType
    <3> QED  BY <3>1, <3>2
  <2>2. inode' = [inode EXCEPT ![i].count = n, ![i].dirt = d, ![i].pipe = p]
    BY <1>6
  <2>3. p \/ (inode[i].count = 1 /\ ~p)
    BY <1>2
  <2>4. n = inode[i].count - 1
    OBVIOUS
  <2> HIDE DEF n, d, p
  <2>5. /\ inode' \in [Slot -> InodeType]
        /\ \A j \in Slot : j # i => inode'[j] = inode[j]
        /\ inode'[i] = [inode[i] EXCEPT !.count = n, !.dirt = d, !.pipe = p]
    BY <2>1, <2>2, <1>2, <1>4 DEF InodeType
  <2>6. Put(inode[i], inode'[i])
    <3>1. LET a == inode[i] b == inode'[i] IN
          /\ b.dev = a.dev /\ b.num = a.num /\ b.mount = a.mount /\ b.nlinks = a.nlinks
          /\ b.lock = a.lock /\ b.dirt = d /\ b.count = n /\ b.pipe = p
      BY <2>5, <1>4 DEF InodeType
    <3>2. p => p = inode[i].pipe
      BY <2>1, <1>4, <1>6 DEF InodeType
    <3>3. ~inode[i].dirt
      BY <1>4, <1>6
    <3> QED  BY <3>1, <3>2, <3>3, <2>1, <2>3, <2>4 DEF Put
  <2> QED  BY <2>5, <2>6, <1>1, <1>5, <1>6, PutBack
<1>7. CASE /\ ~inode[i].pipe /\ inode[i].dev = 0
           /\ inode' = [inode EXCEPT ![i].count = @ - 1]
           /\ Next_(t, R)
  <2>1. inode[i].count - 1 \in Nat
    BY <1>2
  <2>2. /\ inode' \in [Slot -> InodeType]
        /\ \A j \in Slot : j # i => inode'[j] = inode[j]
        /\ Put(inode[i], inode'[i])
    BY <2>1, <1>2, <1>4, <1>7 DEF InodeType, Put
  <2> QED  BY <2>1, <2>2, <1>1, <1>4, <1>5, <1>7, PutBack
<1>8. CASE /\ ~inode[i].pipe /\ inode[i].dev # 0
           /\ UNCHANGED inode
           /\ Next_(t, IF <<inode[i].dev, inode[i].num>> \in BlkFile
                       THEN <<Frame("brelse", 0), Frame("sync", 1), Frame("irepeat", i)>> \o R
                       ELSE <<Frame("irepeat", i)>> \o R)
  <2> DEFINE f == Frame("irepeat", i)
             F == <<f>> \o R
  <2>1. f \in FrameType /\ f.at = "irepeat" /\ f.i = i
    BY <1>2, MakeFrame, FrameEq DEF OnSlot
  <2>2. NewOK(t, f)
    BY <2>1, <1>8 DEF NewOK, Service
  <2>3. /\ Head(task[t].stk).at = "iput" /\ Head(task[t].stk).i = i
        /\ Fits(Head(task[t].stk), Top(R).at) /\ R \in Seq(FrameType) /\ inode[i].lock = None
        /\ WellFormed(R) /\ Work(task[t].stk) = Work(R) /\ R = Tail(task[t].stk)
        /\ \A j : Frames(R, j) \in Nat
             /\ Frames(task[t].stk, j) = Frames(R, j) + Counting(Head(task[t].stk), j)
    BY <1>1, <1>2, AtFacts
  <2>4. Fits(f, Top(R).at)
    BY <2>1, <2>3 DEF Fits, Service, Putting, Keeper
  <2>5. CASE <<inode[i].dev, inode[i].num>> \notin BlkFile
    <3>1. Next_(t, F)
      BY <1>8, <2>5
    <3>2. f.at \in Putting /\ "iput" \in Putting
      BY <2>1 DEF Putting
    <3>3. ServiceTo(t, "iput", F) /\ \A j \in Slot : Frames(F, j) = Frames(task[t].stk, j)
      BY <1>1, <1>8, <2>1, <2>2, <2>3, <2>4, <3>1, <3>2, Calls
    <3> HIDE DEF F
    <3> QED  BY <1>1, <1>5, <1>8, <3>3, IdleService
  <2>6. CASE <<inode[i].dev, inode[i].num>> \in BlkFile
    <3> DEFINE g == Frame("sync", 1)
               h == Frame("brelse", 0)
               G == <<g>> \o F
               c == <<h>> \o G
    <3>0. g \in FrameType /\ g.at = "sync" /\ h \in FrameType /\ h.at = "brelse"
      <4>1. 1 \in 1..(NR_INODE + 1)
        <5>1. NR_INODE \in Nat
          BY Zenon, InodeAssumption
        <5> QED  BY <5>1
      <4> QED  BY <4>1, MakeFrame, FrameEq DEF OnNone
    <3>1. Next_(t, c)
      <4>1. Next_(t, <<h, g, f>> \o R)
        BY <1>8, <2>6
      <4> QED  BY <4>1, <3>0, <2>1, <2>3, StackedThree
    <3>2. /\ F \in Seq(FrameType) /\ Top(F) = f /\ WellFormed(F)
          /\ Work(F) = Work(R) /\ \A k : Has(F, k) <=> k = f \/ Has(R, k)
          /\ \A j : Frames(F, j) = Frames(R, j) + Counting(f, j)
      BY <2>1, <2>3, <2>4, Push DEF Service
    <3>3. Fits(g, "irepeat") /\ Fits(h, "sync")
      BY <3>0 DEF Fits, IO, Service, Putting, Keeper
    <3> HIDE DEF F
    <3>4. /\ G \in Seq(FrameType) /\ Top(G) = g /\ WellFormed(G)
          /\ Work(G) = Work(F) /\ \A k : Has(G, k) <=> k = g \/ Has(F, k)
          /\ \A j : Frames(F, j) \in Nat /\ Frames(G, j) = Frames(F, j) + Counting(g, j)
      BY <3>0, <3>2, <3>3, <2>1, Push DEF Service
    <3> HIDE DEF G
    <3>5. /\ c \in Seq(FrameType) /\ Top(c) = h /\ WellFormed(c)
          /\ Work(c) = Work(G) /\ \A k : Has(c, k) <=> k = h \/ Has(G, k)
          /\ \A j : Frames(G, j) \in Nat /\ Frames(c, j) = Frames(G, j) + Counting(h, j)
      BY <3>0, <3>3, <3>4, Push DEF Service
    <3>6. \A j \in Slot : Frames(c, j) = Frames(task[t].stk, j)
      <4>1. \A j : Counting(g, j) = 0 /\ Counting(h, j) = 0
                   /\ Counting(f, j) = Counting(Head(task[t].stk), j)
        BY <3>0, <2>1, <2>3 DEF Counting
      <4> HIDE DEF c
      <4> QED  BY <4>1, <2>3, <3>2, <3>4, <3>5
    <3>7. (\A k : Has(R, k) => Has(c, k)) /\ \A k : Has(c, k) => Has(R, k) \/ NewOK(t, k)
      <4>1. NewOK(t, g) /\ NewOK(t, h)
        BY <3>0 DEF NewOK, Service
      <4> HIDE DEF c
      <4> QED  BY <4>1, <2>2, <3>2, <3>4, <3>5
    <3>8. Top(c).at \in Service
      BY <3>5, <3>0 DEF Service
    <3>9. Work(task[t].stk).at # "cross"
      BY <1>1, <1>4, <2>6, CrossServes
    <3> HIDE DEF c
    <3>10. ServiceTo(t, "iput", c)
      BY <1>1, <2>3, <3>1, <3>2, <3>4, <3>5, <3>6, <3>7, <3>8, <3>9 DEF ServiceTo
    <3> QED  BY <1>1, <1>5, <1>8, <3>6, <3>10, IdleService
  <2> QED  BY <2>5, <2>6
<1> QED
  BY <1>5, <1>6, <1>7, <1>8 DEF iput

LEMMA IputRepeatStep ==
    ASSUME InoInv, NEW t \in Task, iput_repeat(t)
    PROVE  InoInv'
<1> DEFINE i == It(t)
           R == Rest(t)
           S == task[t].stk
<1>1. /\ At(t, "irepeat") /\ "irepeat" \in Service /\ "irepeat" \in Putting \cup {"mount"}
      /\ "irepeat" # "user" /\ "irepeat" \in Putting
      /\ "irepeat" \in WaitsOnInode /\ "irepeat" \in {"iput", "irepeat"} /\ "irepeat" # "write"
      /\ UNCHANGED <<super, disk, imap, links, panic>>
  BY DEF iput_repeat, Service, Putting, WaitsOnInode, ioVars
<1>2. i \in Slot /\ inode[i].count \in Nat /\ inode[i].count > 0
  BY <1>1, TopPoints
<1>3. /\ Head(S).at = "irepeat" /\ Head(S).i = i /\ Top(S) = Head(S) /\ Head(S) = Frame("irepeat", i)
      /\ Fits(Head(S), Top(R).at) /\ R \in Seq(FrameType) /\ inode[i].lock = None
      /\ Has(S, Head(S))
  BY <1>1, <1>2, AtFacts
<1>4. Types /\ Table
  BY Parts
<1>5. /\ inode[i] \in InodeType /\ inode \in [Slot -> InodeType]
  BY <1>2, <1>4 DEF Types
<1>6. inode[i].dev # 0
  <2>1. SlotInv(t, i)
    BY <1>2, HasFacts
  <2> QED  BY <2>1, <1>3 DEF SlotInv
<1>7. CASE /\ inode[i].count > 1 \/ (inode[i].nlinks > 0 /\ ~inode[i].dirt)
           /\ inode' = [inode EXCEPT ![i].count = @ - 1]
           /\ Next_(t, R)
  <2>1. inode[i].count - 1 \in Nat /\ (inode[i].count = 1 => ~inode[i].dirt)
    BY <1>2, <1>7
  <2>2. /\ inode' \in [Slot -> InodeType]
        /\ \A j \in Slot : j # i => inode'[j] = inode[j]
        /\ Put(inode[i], inode'[i])
    BY <2>1, <1>2, <1>5, <1>7 DEF InodeType, Put
  <2> QED  BY <2>1, <2>2, <1>1, <1>7, PutBack
<1>8. inode[i].count = 1 => Work(S).at # "cross"
  <2>1. Work(S).at = "cross" => inode[i].count > 1
    BY <1>1, CrossServes
  <2> QED  BY <2>1
<1>9. CASE /\ inode[i].count = 1 /\ inode[i].nlinks = 0
           /\ UNCHANGED inode /\ Next_(t, <<Frame("trunc", i)>> \o R)
  <2> DEFINE f == Frame("trunc", i)
             F == <<f>> \o R
  <2>1. f \in FrameType /\ f.at = "trunc" /\ f.i = i /\ f.at \in Putting
    BY <1>2, MakeFrame, FrameEq DEF OnSlot, Putting
  <2>2. NewOK(t, f)
    BY <2>1, <1>6, <1>9 DEF NewOK, Service
  <2>3. Fits(f, Top(R).at)
    BY <2>1, <1>3 DEF Fits, Service, Putting, Keeper
  <2>4. ServiceTo(t, "irepeat", F) /\ \A j \in Slot : Frames(F, j) = Frames(task[t].stk, j)
    BY <1>1, <1>8, <1>9, <2>1, <2>2, <2>3, Calls
  <2> HIDE DEF F
  <2> QED  BY <1>1, <1>9, <2>4, IdleService
<1>10. CASE /\ inode[i].count = 1 /\ inode[i].nlinks > 0 /\ inode[i].dirt
            /\ UNCHANGED inode
            /\ Next_(t, <<Frame("write_inode", i)>> \o task[t].stk)
  <2> DEFINE f == Frame("write_inode", i)
             F == <<f>> \o S
  <2>1. f \in FrameType /\ f.at = "write_inode" /\ f.i = i /\ f.at \notin Putting
    BY <1>2, MakeFrame, FrameEq DEF OnSlot, Putting
  <2>2. NewOK(t, f) /\ NewOK(t, Head(S))
    BY <2>1, <1>3, <1>6, <1>10 DEF NewOK, Service
  <2>3. Fits(f, Top(S).at)
    BY <2>1, <1>3 DEF Fits, Service, Putting, Keeper, IO
  <2>4. ServiceTo(t, "irepeat", F) /\ \A j \in Slot : Frames(F, j) = Frames(task[t].stk, j)
    BY <1>1, <1>8, <1>10, <2>1, <2>2, <2>3, Calls
  <2> HIDE DEF F
  <2> QED  BY <1>1, <1>10, <2>4, IdleService
<1> QED
  BY <1>7, <1>9, <1>10 DEF iput_repeat

(***************************************************************************)
(* Steps that change inodes or the disk; no super block changes.           *)
(***************************************************************************)
LEMMA SteadyStep ==
    ASSUME InoInv, Types', NEW t \in Task, Steady(t), Own(t)', Table', Unique', Linked'
    PROVE  InoInv'
<1>0. Types /\ Supers
  BY Parts
<1>1. /\ OnlyTask(t) /\ cpu \in {t, None} /\ cpu' \in {t, None}
      /\ super' = super /\ panic' = panic
  BY DEF Steady
<1>3. ASSUME NEW u \in Task  PROVE Own(u)'
  <2>1. CASE u = t
    BY <2>1
  <2>2. CASE u # t
    <3>2. Spared(t, u)
      BY <2>2 DEF Steady
    <3>3. task'[u] = task[u]
      BY <2>2, <1>1 DEF OnlyTask
    <3> QED  BY <3>2, <3>3, <2>2, <1>1, OthersOK
  <2> QED  BY <2>1, <2>2
<1>4. Pairs'
  <2>1. ASSUME NEW f \in FrameType, f.at \in {"mount", "umount", "read_super"}, Has(task'[t].stk, f)
        PROVE  Has(task[t].stk, f)
    <3>1. f = Frame(f.at, f.i) /\ (f.at = "mount" => f.i \in Slot)
          /\ (f.at \in {"umount", "read_super"} => f.i \in Super)
      BY FrameFacts DEF OnSlot, OnSuper
    <3>2. CASE f.at = "mount"
      BY <2>1, <3>1, <3>2 DEF Steady
    <3>3. CASE f.at = "umount"
      BY <2>1, <3>1, <3>3 DEF Steady
    <3>4. CASE f.at = "read_super"
      BY <2>1, <3>1, <3>4 DEF Steady
    <3> QED  BY <2>1, <3>2, <3>3, <3>4
  <2> QED  BY <2>1, <1>1, PairsStep
<1>5. \A s \in Super : Leaving(s)' <=> Leaving(s)
  BY <1>1, LeavingSame DEF Steady
<1>6. \A i \in Slot : OfSupers(i)' = OfSupers(i)
  BY <1>1, <1>5, OfSupersSame
<1>7. Counts'
  <2>1. ASSUME NEW i \in Slot
        PROVE  /\ inode'[i].pipe = inode[i].pipe \/ \A u \in Task : u # t => Points(u, i) = 0
               /\ OfSupers(i)' \in Nat
               /\ inode'[i].count - inode[i].count =
                    (Points(t, i)' - Points(t, i)) + (OfSupers(i)' - OfSupers(i))
    <3>1. OfSupers(i) \in Nat /\ OfSupers(i)' = OfSupers(i)
      BY <1>6, SupersBounds
    <3>2. Points(t, i) \in Nat /\ Points(t, i)' \in Nat
      <4>1. task'[t] \in TaskType /\ inode'[i].pipe \in BOOLEAN
        BY DEF Types, InodeType
      <4> QED  BY <4>1, <1>0, PointsNat, PointersNat DEF Points
    <3>3. inode'[i].count - inode[i].count = Points(t, i)' - Points(t, i)
      BY DEF Steady
    <3>4. inode'[i].pipe = inode[i].pipe \/ \A u \in Task : u # t => Points(u, i) = 0
      BY DEF Steady
    <3> QED  BY <3>1, <3>2, <3>3, <3>4
  <2> QED  BY <2>1, <1>1, CountsStep
<1>8. Supers'
  BY <1>0, <1>1 DEF Supers
<1>9. panic' \in {"none", "No free inodes in mem", "unable to read i-node block"}
  BY <1>1 DEF InoInv
<1> QED
  BY <1>3, <1>4, <1>7, <1>8, <1>9 DEF InoInv

(* An inode that another task needs as it is: one that changes in nothing  *)
(* but count, dirt and lock is spared.                                     *)
LEMMA SparedOne ==
    ASSUME InoInv, NEW t \in Task, NEW u \in Task, u # t, super' = super, links' = links,
           NEW i \in Slot, \A j \in Slot : j # i => inode'[j] = inode[j],
           Points(u, i) > 0 => /\ inode'[i].dev = inode[i].dev /\ inode'[i].num = inode[i].num
                               /\ inode'[i].pipe = inode[i].pipe,
           task[u].empty # i, ~Has(task[u].stk, Frame("read", i)),
           Has(task[u].stk, Frame("trunc", i)) =>
                inode'[i].count = inode[i].count /\ inode'[i].nlinks = inode[i].nlinks,
           \/ inode'[i].lock = inode[i].lock
           \/ inode[i].lock \in {None, t} /\ inode'[i].lock \in {None, t},
           inode'[i].mount => inode[i].mount
    PROVE  Spared(t, u)
<1>1. \A j \in Slot : SlotInv(u, j)
  BY HasFacts
<1>2. \A j \in Slot : /\ Has(task[u].stk, Frame("read", j)) => links[<<inode[j].dev, inode[j].num>>] > 0
                      /\ Has(task[u].stk, Frame("mount", j)) => \A s \in Super : super[s].imount # j
  BY <1>1 DEF SlotInv
<1>3. ASSUME NEW j \in Slot
      PROVE  /\ Points(u, j) > 0 => /\ inode'[j].dev = inode[j].dev /\ inode'[j].num = inode[j].num
                                    /\ inode'[j].pipe = inode[j].pipe
             /\ task[u].empty = j => inode'[j] = inode[j]
             /\ Has(task[u].stk, Frame("read", j)) =>
                    inode'[j] = inode[j] /\ links'[<<inode[j].dev, inode[j].num>>] > 0
             /\ Has(task[u].stk, Frame("trunc", j)) =>
                    inode'[j].count = inode[j].count /\ inode'[j].nlinks = inode[j].nlinks
             /\ \/ inode'[j].lock = inode[j].lock
                \/ inode[j].lock \in {None, t} /\ inode'[j].lock \in {None, t}
             /\ inode'[j].mount => inode[j].mount
             /\ \A s \in Super : Has(task[u].stk, Frame("mount", j)) => super'[s].imount # j
  <2>1. CASE j = i
    BY <2>1, <1>2
  <2>2. CASE j # i
    <3>1. inode'[j] = inode[j]
      BY <2>2
    <3> QED  BY <3>1, <1>2
  <2> QED  BY <2>1, <2>2
<1> QED
  BY <1>3 DEF Spared

LEMMA MountedKept ==
    ASSUME super' = super,
           \A s \in Super : super[s].imount # 0 =>
                (inode'[super[s].imount].mount <=> inode[super[s].imount].mount), NEW d
    PROVE  Mounted(d)' <=> Mounted(d)
BY DEF Mounted

LEMMA GoodFacts ==
    ASSUME InoInv
    PROVE  Table /\ (\A i \in Slot : Good(i)) /\ inode[1].dev = ROOT_DEV
<1>1. Table
  BY Parts
<1> QED
  BY <1>1 DEF Table, Good

LEMMA TableStep ==
    ASSUME InoInv, NEW i \in Slot, \A j \in Slot : j # i => inode'[j] = inode[j],
           \A d : Mounted(d) => Mounted(d)', Good(i)', i # 1 \/ inode'[i].dev = inode[i].dev,
           \A j \in Slot : j # i /\ inode[j].dev # 0 => <<inode[j].dev, inode[j].num>> \in imap'
    PROVE  Table'
<1>1. (\A j \in Slot : Good(j)) /\ inode[1].dev = ROOT_DEV /\ 1 \in Slot
  BY GoodFacts, SlotFacts
<1>2. ASSUME NEW j \in Slot  PROVE Good(j)'
  <2>1. CASE j = i
    BY <2>1
  <2>2. CASE j # i
    <3>1. inode'[j] = inode[j] /\ Good(j)
      BY <2>2, <1>1
    <3>2. inode[j].dev # 0 => <<inode[j].dev, inode[j].num>> \in imap'
      BY <2>2
    <3>3. Mounted(inode[j].dev) => Mounted(inode[j].dev)'
      <4>1. \A d : Mounted(d) => Mounted(d)'
        OBVIOUS
      <4>2. inode'[j].dev = inode[j].dev
        BY <3>1
      <4> QED  BY <4>1, <4>2
    <3> QED  BY <3>1, <3>2, <3>3 DEF Good
  <2> QED  BY <2>1, <2>2
<1>3. inode'[1].dev = ROOT_DEV
  <2>1. CASE i = 1
    BY <2>1, <1>1
  <2>2. CASE i # 1
    <3>1. inode'[1] = inode[1]
      BY <2>2, <1>1
    <3> QED  BY <3>1, <1>1
  <2> QED  BY <2>1, <2>2
<1> QED
  BY <1>2, <1>3 DEF Table, Good

LEMMA ServiceSteady ==
    ASSUME InoInv, Types', NEW t \in Task, NEW at, NEW c, ServiceTo(t, at, c),
           UNCHANGED <<super, links, panic>>, \A u \in Task : u # t => Spared(t, u),
           \A i \in Slot :
              /\ \A s \in Super : super[s].imount = i => inode'[i].mount = inode[i].mount
              /\ task[t].held[i] > 0 \/ task[t].got = i \/ Frames(Rest(t), i) > 0 =>
                    /\ inode'[i].dev = inode[i].dev /\ inode'[i].num = inode[i].num
                    /\ inode'[i].pipe = inode[i].pipe
              /\ task[t].empty = i => inode'[i] = inode[i]
              /\ inode'[i].lock = t => Top(c) = Frame("write", i)
              /\ inode'[i].pipe = inode[i].pipe
              /\ inode'[i].count - inode[i].count = Frames(c, i) - Frames(task[t].stk, i)
    PROVE  Own(t)' /\ Steady(t)
<1> DEFINE T == task[t]
           S == T.stk
           R == Tail(S)
           Z == [T EXCEPT !.stk = c]
<1>0. at \in Service /\ At(t, at) /\ c \in Seq(FrameType) /\ Next_(t, c) /\ at # "user"
  BY DEF ServiceTo, Service
<1>1. /\ CanRun(t) /\ S \in Seq(FrameType) /\ Head(S).at = at /\ Rest(t) = R /\ S # <<>>
      /\ R \in Seq(FrameType) /\ WellFormed(S)
      /\ (\A g : Has(S, g) <=> g = Head(S) \/ Has(R, g))
  BY <1>0, AtFacts
<1>2. Types /\ T \in TaskType /\ Z \in TaskType /\ Z.stk = c
  BY <1>0, Parts DEF TaskType
<1>3. task'[t] = Z /\ OnlyTask(t) /\ cpu \in {t, None} /\ cpu' \in {t, None}
  <2>1. Runs(t, Z)
    BY <1>0 DEF Next_
  <2> HIDE DEF Z
  <2> QED  BY <2>1, <1>1, <1>2, RunsFacts
<1>4. Own(t)'
  BY <1>0, ServiceStep DEF ServiceTo
<1>6. \A g : g.at \notin Service => (Has(c, g) <=> Has(S, g))
  BY <1>0, <1>1 DEF ServiceTo, NewOK
<1>7. \A i \in Slot : Has(c, Frame("mount", i)) => Has(S, Frame("mount", i))
  BY <1>6, FrameEq DEF Service
<1>8. \A s \in Super : /\ Has(c, Frame("umount", s)) <=> Has(S, Frame("umount", s))
                       /\ Has(c, Frame("read_super", s)) => Has(S, Frame("read_super", s))
  BY <1>6, FrameEq DEF Service
<1>9. ASSUME NEW i \in Slot
      PROVE  inode'[i].count - inode[i].count = Points(t, i)' - Points(t, i)
  <2>2. Points(t, i)' - Points(t, i) = Frames(c, i) - Frames(S, i)
    BY <1>0, <1>2, <1>3, PointsStack
  <2> QED  BY <2>2
<1>10. task'[t].stk = c
  BY <1>2, <1>3
<1>11. Steady(t)
  BY <1>3, <1>7, <1>8, <1>9, <1>10 DEF Steady
<1> QED
  BY <1>4, <1>11

LEMMA WrittenStep ==
    ASSUME InoInv, NEW t \in Task, Written(t)
    PROVE  InoInv'
<1>0. PICK i : i = It(t)
  OBVIOUS
<1> DEFINE R == Rest(t)
           p == <<inode[i].dev, inode[i].num>>
           S == task[t].stk
<1>1. /\ At(t, "write") /\ "write" \in Service /\ "write" \in Service \ Putting /\ "write" # "user"
      /\ inode' = [inode EXCEPT ![i].dirt = FALSE, ![i].lock = None] /\ Next_(t, R)
      /\ disk' = IF p \in DOMAIN disk THEN [disk EXCEPT ![p] = inode[i].nlinks] ELSE disk
      /\ UNCHANGED <<super, imap, links, panic>> /\ CanRun(t)
  BY <1>0 DEF Written, Service, Putting, At
<1>2. /\ Head(S) \in FrameType /\ Head(S).at = "write" /\ Head(S).i = i /\ Top(S) = Head(S)
      /\ Head(S) = Frame("write", i) /\ Has(S, Head(S)) /\ R \in Seq(FrameType) /\ R = Tail(S)
      /\ S \in Seq(FrameType) /\ S # <<>> /\ WellFormed(S)
      /\ \A g : Has(S, g) <=> g = Head(S) \/ Has(R, g)
  <2>1. LET A == task[t].stk IN
        /\ Head(A) \in FrameType /\ Head(A).at = "write" /\ It(t) = Head(A).i /\ Top(A) = Head(A)
        /\ Head(A) = Frame("write", It(t)) /\ Tail(A) \in Seq(FrameType) /\ Rest(t) = Tail(A)
        /\ A \in Seq(FrameType) /\ A # <<>> /\ WellFormed(A)
        /\ \A g : Has(A, g) <=> g = Head(A) \/ Has(Tail(A), g)
    BY <1>1, AtFacts
  <2> QED  BY <2>1, <1>0
<1>3. i \in Slot
  BY <1>2, FrameFacts DEF OnSlot
<1>4. Types /\ Own(t) /\ Unique /\ Linked /\ (\A j \in Slot : Good(j)) /\ t # None
  BY Parts, GoodFacts, SlotFacts
<1>5. inode[i].lock = t
  <2>1. SlotInv(t, i)
    BY <1>3, HasFacts
  <2> QED  BY <2>1, <1>2 DEF SlotInv
<1>6. /\ inode[i].dev # 0 /\ inode[i].dev \in Dev /\ inode[i].num \in Num /\ p \in Dev \X Num
      /\ inode[i].count # 0 /\ ~inode[i].pipe
  BY <1>3, <1>4, <1>5 DEF Good, Types, InodeType
<1>7. /\ inode' \in [Slot -> InodeType]
      /\ \A j \in Slot : j # i => inode'[j] = inode[j]
      /\ inode'[i] = [inode[i] EXCEPT !.dirt = FALSE, !.lock = None]
  BY <1>1, <1>3, <1>4 DEF Types, InodeType
<1>8. /\ inode'[i].dev = inode[i].dev /\ inode'[i].num = inode[i].num
      /\ inode'[i].mount = inode[i].mount /\ inode'[i].nlinks = inode[i].nlinks
      /\ inode'[i].pipe = inode[i].pipe /\ ~inode'[i].dirt /\ inode'[i].lock = None
      /\ inode'[i].count = inode[i].count
  BY <1>7, <1>3, <1>4 DEF Types, InodeType
<1>9. disk' = [disk EXCEPT ![p] = inode[i].nlinks] /\ disk' \in [Dev \X Num -> Nat]
      /\ disk'[p] = inode[i].nlinks /\ \A q \in Dev \X Num : q # p => disk'[q] = disk[q]
  <2>1. disk \in [Dev \X Num -> Nat] /\ inode[i].nlinks \in Nat
    BY <1>3, <1>4 DEF Types, InodeType
  <2>2. disk' = [disk EXCEPT ![p] = inode[i].nlinks]
    BY <2>1, <1>1, <1>6
  <2> HIDE DEF p
  <2> QED  BY <2>1, <2>2, <1>6
<1>10. Types'
  <2>1. [task[t] EXCEPT !.stk = R] \in TaskType /\ Runs(t, [task[t] EXCEPT !.stk = R])
    BY <1>1, <1>2, Parts DEF TaskType, Next_
  <2>2. task' \in [Task -> TaskType] /\ cpu' \in Task \cup {None}
    BY <2>1, <1>1, <1>4, RunsFacts
  <2> QED  BY <2>2, <1>1, <1>4, <1>7, <1>9 DEF Types
<1>11. \A u \in Task : task[u].empty # i /\ ~Has(task[u].stk, Frame("read", i))
  <2> SUFFICES ASSUME NEW u \in Task
               PROVE  task[u].empty # i /\ ~Has(task[u].stk, Frame("read", i))
    OBVIOUS
  <2>1. SlotInv(u, i) /\ Own(u)
    BY <1>3, HasFacts, Parts
  <2>2. ~Has(task[u].stk, Frame("read", i))
    <3>1. Has(task[u].stk, Frame("read", i)) => u = t
      BY <2>1, <1>5 DEF SlotInv
    <3>2. ~Has(S, Frame("read", i))
      BY <1>2, NoIOBelow, FrameEq DEF IO
    <3> QED  BY <3>1, <3>2
  <2>3. task[u].empty # i
    <3>1. task[u].empty # 0 => inode[task[u].empty] = [Zeroed EXCEPT !.count = 1]
      BY <2>1 DEF Own
    <3>2. [Zeroed EXCEPT !.count = 1].dev = 0
      BY DEF Zeroed
    <3>3. i # 0
      BY <1>3, SlotFacts
    <3> QED  BY <3>1, <3>2, <3>3, <1>6
  <2> QED  BY <2>2, <2>3
<1>12. \A u \in Task : u # t => Spared(t, u)
  BY <1>1, <1>3, <1>5, <1>7, <1>8, <1>11, SparedOne
<1>13. ServiceTo(t, "write", R) /\ \A j \in Slot : Frames(R, j) = Frames(S, j)
  BY <1>1, Returns, Uncounted
<1>14. \A j \in Slot : inode'[j].lock # t
  <2> SUFFICES ASSUME NEW j \in Slot, j # i, inode[j].lock = t  PROVE FALSE
    BY <1>4, <1>7, <1>8
  <2>1. Top(S) \in {Frame("read", j), Frame("write", j)}
    BY <1>4 DEF Own
  <2>2. Frame("read", j).at = "read" /\ Frame("write", j).i = j
    BY FrameEq
  <2> QED  BY <2>1, <2>2, <1>2
<1>15. Own(t)' /\ Steady(t)
  <2>1. \A j \in Slot :
              /\ inode'[j].mount = inode[j].mount
              /\ inode'[j].dev = inode[j].dev /\ inode'[j].num = inode[j].num
              /\ inode'[j].pipe = inode[j].pipe /\ inode'[j].count = inode[j].count
    BY <1>7, <1>8
  <2>2. \A j \in Slot : task[t].empty = j => inode'[j] = inode[j]
    BY <1>7, <1>11
  <2>3. \A j \in Slot : inode'[j].count - inode[j].count = Frames(R, j) - Frames(task[t].stk, j)
    <3>1. \A j \in Slot : inode[j].count \in Nat /\ Frames(S, j) \in Nat
      BY <1>4, PointsNat DEF Types, InodeType
    <3> QED  BY <3>1, <2>1, <1>13
  <2> QED  BY <2>1, <2>2, <2>3, <1>1, <1>10, <1>12, <1>13, <1>14, ServiceSteady
<1>16. Unique'
  <2>1. \A j \in Slot : inode'[j].dev = inode[j].dev /\ inode'[j].num = inode[j].num
    BY <1>7, <1>8
  <2> QED  BY <2>1, <1>4 DEF Unique, Matches
<1>17. Table'
  <2>1. \A d : Mounted(d)' <=> Mounted(d)
    <3>1. \A j \in Slot : inode'[j].mount = inode[j].mount
      BY <1>7, <1>8
    <3>2. \A s \in Super : super[s].imount \in Slot \cup {0}
      BY <1>4 DEF Types, SuperType
    <3> QED  BY <3>1, <3>2, <1>1, MountedSame
  <2>2. Good(i)'
    <3>1. Mounted(inode[i].dev) => Mounted(inode[i].dev)'
      BY <2>1, <1>8
    <3>2. Good(i) /\ imap' = imap
      BY <1>1, <1>3, <1>4
    <3> QED  BY <3>1, <3>2, <1>6, <1>8 DEF Good
  <2>3. \A j \in Slot : j # i /\ inode[j].dev # 0 => <<inode[j].dev, inode[j].num>> \in imap'
    BY <1>1, <1>4 DEF Good
  <2> QED  BY <2>1, <2>2, <2>3, <1>3, <1>7, <1>8, TableStep
<1>18. InCore(i) /\ \A j \in Slot : InCore(j)' <=> InCore(j)
  <2>1. InCore(i)
    BY <1>11 DEF InCore
  <2>2. OnlyTask(t) /\ task'[t].stk = R
    <3>1. [task[t] EXCEPT !.stk = R] \in TaskType /\ Runs(t, [task[t] EXCEPT !.stk = R])
          /\ [task[t] EXCEPT !.stk = R].stk = R
      BY <1>1, <1>2, Parts DEF TaskType, Next_
    <3> QED  BY <3>1, <1>1, <1>4, RunsFacts
  <2>3. \A j \in Slot : Has(R, Frame("read", j)) <=> Has(S, Frame("read", j))
    BY <1>2, FrameEq
  <2> QED  BY <2>1, <2>2, <2>3, InCoreSame
<1>19. Linked'
  <2>1. \A q \in Dev \X Num : links'[q] > 0 => q \in imap'
    BY <1>1, <1>4 DEF Linked
  <2>2. ASSUME NEW q \in Dev \X Num, links'[q] > 0,
               \A j \in Slot : ~(Matches(j, q[1], q[2])' /\ InCore(j)')
        PROVE  disk'[q] = links'[q]
    <3>1. \A j \in Slot : ~(Matches(j, q[1], q[2]) /\ InCore(j))
      BY <2>2, <1>7, <1>8, <1>18 DEF Matches
    <3>2. q # p
      BY <3>1, <1>3, <1>18 DEF Matches
    <3>3. disk[q] = links[q]
      BY <3>1, <2>2, <1>1, <1>4 DEF Linked
    <3> QED  BY <3>2, <3>3, <1>1, <1>9
  <2>3. ASSUME NEW j \in Slot, inode'[j].dev # 0, InCore(j)'
        PROVE  /\ inode'[j].nlinks = links'[<<inode'[j].dev, inode'[j].num>>]
               /\ ~inode'[j].dirt => disk'[<<inode'[j].dev, inode'[j].num>>] = inode'[j].nlinks
    <3>1. /\ inode[j].nlinks = links[<<inode[j].dev, inode[j].num>>]
          /\ ~inode[j].dirt => disk[<<inode[j].dev, inode[j].num>>] = inode[j].nlinks
      BY <2>3, <1>4, <1>7, <1>8, <1>18 DEF Linked
    <3>2. CASE j = i
      BY <3>1, <3>2, <1>1, <1>8, <1>9
    <3>3. CASE j # i
      <4>1. <<inode[j].dev, inode[j].num>> # p
        BY <3>3, <1>3, <1>4, <1>6 DEF Unique, Matches
      <4>2. <<inode[j].dev, inode[j].num>> \in Dev \X Num
        BY <2>3, <3>3, <1>4, <1>7 DEF Good, Types, InodeType
      <4> QED  BY <4>1, <4>2, <3>1, <3>3, <1>1, <1>7, <1>9
    <3> QED  BY <3>2, <3>3
  <2> QED  BY <2>1, <2>2, <2>3 DEF Linked
<1> QED
  BY <1>10, <1>15, <1>16, <1>17, <1>19, SteadyStep

(* An inode that nobody uses but one task is not a mount point.            *)
LEMMA NotMounted ==
    ASSUME InoInv, NEW i \in Slot, OfSupers(i) = 0
    PROVE  i # 1 /\ \A s \in Super : super[s].imount = i => ~inode[i].mount /\ Leaving(s)
<1>1. ASSUME NEW s \in Super, super[s].imount = i  PROVE ~inode[i].mount /\ Leaving(s)
  <2>1. Leaving(s)
    <3>1. ~Leaving(s) => OfSupers(i) > 0
      BY <1>1, SupersBounds
    <3> QED  BY <3>1
  <2>2. PICK u \in Task : Has(task[u].stk, Frame("umount", s))
    BY <2>1 DEF Leaving
  <2>3. SuperInv(u, s)
    BY HasFacts
  <2> QED  BY <2>1, <2>2, <2>3, <1>1 DEF SuperInv
<1>2. i # 1
  BY RootUsed
<1> QED
  BY <1>1, <1>2

LEMMA FreeInodeStep ==
    ASSUME InoInv, NEW t \in Task, free_inode(t), trouble' = {}
    PROVE  InoInv'
<1>0. PICK i : i = It(t)
  OBVIOUS
<1> DEFINE R == Rest(t)
           p == <<inode[i].dev, inode[i].num>>
           S == task[t].stk
<1>1. /\ At(t, "trunc") /\ "trunc" \in Service /\ "trunc" \in Putting \cup {"mount"}
      /\ "trunc" # "user" /\ "trunc" \in Putting /\ CanRun(t)
  BY DEF free_inode, Service, Putting, At
<1>2. /\ Head(S) \in FrameType /\ Head(S).at = "trunc" /\ Head(S).i = i /\ Top(S) = Head(S)
      /\ Head(S) = Frame("trunc", i) /\ Has(S, Head(S)) /\ R \in Seq(FrameType) /\ R = Tail(S)
      /\ S \in Seq(FrameType) /\ S # <<>> /\ WellFormed(S)
      /\ \A g : Has(S, g) <=> g = Head(S) \/ Has(R, g)
  <2>1. LET A == task[t].stk IN
        /\ Head(A) \in FrameType /\ Head(A).at = "trunc" /\ It(t) = Head(A).i /\ Top(A) = Head(A)
        /\ Head(A) = Frame("trunc", It(t)) /\ Tail(A) \in Seq(FrameType) /\ Rest(t) = Tail(A)
        /\ A \in Seq(FrameType) /\ A # <<>> /\ WellFormed(A)
        /\ \A g : Has(A, g) <=> g = Head(A) \/ Has(Tail(A), g)
    BY <1>1, AtFacts
  <2> QED  BY <2>1, <1>0
<1>3. i \in Slot
  BY <1>2, FrameFacts DEF OnSlot
<1>4. Types /\ Own(t) /\ Unique /\ Linked /\ (\A j \in Slot : Good(j)) /\ t # None
  BY Parts, GoodFacts, SlotFacts
<1>5. inode[i].dev # 0 /\ inode[i].count = 1 /\ inode[i].nlinks = 0
  <2>1. SlotInv(t, i)
    BY <1>3, HasFacts
  <2> QED  BY <2>1, <1>2 DEF SlotInv
<1>6. /\ Frames(S, i) = Frames(R, i) + 1
      /\ \A j \in Slot : j # i => Frames(S, j) = Frames(R, j)
      /\ \A u \in Task :
                /\ task[u].empty # i
                /\ u # t => /\ ~Has(task[u].stk, Frame("read", i))
                            /\ ~Has(task[u].stk, Frame("trunc", i)) /\ Points(u, i) = 0
      /\ task[t].held[i] = 0 /\ task[t].got # i /\ Frames(R, i) = 0 /\ OfSupers(i) = 0
  BY <1>0, <1>1, <1>5, TopPoints
<1>7. get_super(inode[i].dev) # {} /\ ~inode[i].pipe /\ inode[i].dev \in Dev /\ inode[i].num \in Num
  <2>1. Mounted(inode[i].dev) /\ ~inode[i].pipe /\ inode[i].num \in Num
    <3>1. Good(i) /\ inode[i].count > 0
      BY <1>3, <1>4, <1>5
    <3> QED  BY <3>1, <1>5 DEF Good
  <2>2. inode[i].dev \in Dev
    BY <1>3, <1>4, <1>5 DEF Types, InodeType
  <2> QED  BY <2>1, <2>2, <1>5, MountedSuper
<1>8. /\ imap' = imap \ {p} /\ inode[i].lock = None /\ inode' = [inode EXCEPT ![i] = Zeroed]
      /\ Next_(t, R) /\ UNCHANGED <<super, disk, links, panic>>
  <2>1. ~(inode[i].count > 1) /\ ~(inode[i].nlinks > 0)
    BY <1>5
  <2>2. /\ imap' = imap \ {p} /\ inode' = [inode EXCEPT ![i] = Zeroed]
        /\ Next_(t, R) /\ UNCHANGED <<super, disk, links, panic>>
        /\ trouble' = trouble \cup (IF inode[i].lock # None THEN {"locked"} ELSE {})
    BY <1>0, <1>7, <2>1 DEF free_inode
  <2>3. inode[i].lock = None
    BY <2>2
  <2> QED  BY <2>2, <2>3
<1>9. /\ Zeroed \in InodeType /\ Zeroed.dev = 0 /\ Zeroed.num = 0 /\ Zeroed.count = 0
      /\ ~Zeroed.dirt /\ Zeroed.lock = None /\ ~Zeroed.pipe /\ Zeroed.pipe = FALSE
      /\ ~Zeroed.mount /\ Zeroed.mount = FALSE
  BY DEF Zeroed, InodeType
<1>10. /\ inode' \in [Slot -> InodeType] /\ inode'[i] = Zeroed
       /\ \A j \in Slot : j # i => inode'[j] = inode[j]
  BY <1>3, <1>4, <1>8, <1>9 DEF Types
<1>11. Types'
  <2>1. [task[t] EXCEPT !.stk = R] \in TaskType /\ Runs(t, [task[t] EXCEPT !.stk = R])
    BY <1>2, <1>8, Parts DEF TaskType, Next_
  <2>2. task' \in [Task -> TaskType] /\ cpu' \in Task \cup {None}
    BY <2>1, <1>1, <1>4, RunsFacts
  <2> QED  BY <2>2, <1>4, <1>8, <1>10 DEF Types
<1>12. \A u \in Task : u # t => Spared(t, u)
  <2> SUFFICES ASSUME NEW u \in Task, u # t  PROVE Spared(t, u)
    OBVIOUS
  <2>1. inode'[i].lock = inode[i].lock /\ ~inode'[i].mount /\ ~(Points(u, i) > 0)
    BY <1>6, <1>8, <1>9, <1>10
  <2> QED  BY <2>1, <1>3, <1>6, <1>8, <1>10, SparedOne
<1>13. ServiceTo(t, "trunc", R)
  BY <1>1, <1>8, Returns
<1>14. \A j \in Slot : inode'[j].lock # t
  <2> SUFFICES ASSUME NEW j \in Slot, j # i, inode[j].lock = t  PROVE FALSE
    BY <1>4, <1>9, <1>10
  <2>1. Top(S) \in {Frame("read", j), Frame("write", j)}
    BY <1>4 DEF Own
  <2>2. Frame("read", j).at = "read" /\ Frame("write", j).at = "write"
    BY FrameEq
  <2> QED  BY <2>1, <2>2, <1>2
<1>15. i # 1 /\ \A s \in Super : super[s].imount = i => ~inode[i].mount
  BY <1>3, <1>6, NotMounted
<1>16. inode[i].mount \in BOOLEAN /\ inode[i].pipe \in BOOLEAN
  BY <1>3, <1>4 DEF Types, InodeType
<1>17. Own(t)' /\ Steady(t)
  <2>1. ASSUME NEW j \in Slot
        PROVE 
              /\ \A s \in Super : super[s].imount = j => inode'[j].mount = inode[j].mount
              /\ task[t].held[j] > 0 \/ task[t].got = j \/ Frames(Rest(t), j) > 0 =>
                    /\ inode'[j].dev = inode[j].dev /\ inode'[j].num = inode[j].num
                    /\ inode'[j].pipe = inode[j].pipe
              /\ task[t].empty = j => inode'[j] = inode[j]
              /\ inode'[j].lock = t => Top(R) = Frame("write", j)
              /\ inode'[j].pipe = inode[j].pipe
              /\ inode'[j].count - inode[j].count = Frames(R, j) - Frames(task[t].stk, j)
    <3>1. CASE j # i
      <4>1. inode'[j] = inode[j] /\ Frames(R, j) = Frames(S, j)
        BY <3>1, <1>6, <1>10
      <4>2. inode[j].count \in Nat /\ Frames(S, j) \in Nat
        BY <1>4, PointsNat DEF Types, InodeType
      <4> QED  BY <4>1, <4>2, <1>14
    <3>2. CASE j = i
      <4>1. inode'[i].count - inode[i].count = Frames(R, i) - Frames(S, i)
        BY <1>5, <1>6, <1>9, <1>10
      <4>2. inode'[i].pipe = inode[i].pipe
        BY <1>7, <1>9, <1>10, <1>16
      <4>3. \A s \in Super : super[s].imount = i => inode'[i].mount = inode[i].mount
        BY <1>9, <1>10, <1>15, <1>16
      <4>4. ~(task[t].held[i] > 0) /\ task[t].got # i /\ ~(Frames(R, i) > 0) /\ task[t].empty # i
        BY <1>6
      <4> QED  BY <3>2, <4>1, <4>2, <4>3, <4>4, <1>14
    <3> QED  BY <3>1, <3>2
  <2> QED  BY <2>1, <1>8, <1>11, <1>12, <1>13, ServiceSteady
<1>18. Unique'
  <2> SUFFICES ASSUME NEW a \in Slot, NEW b \in Slot, a # b, inode'[a].dev # 0,
                      inode'[a].dev = inode'[b].dev, inode'[a].num = inode'[b].num
               PROVE  FALSE
    BY DEF Unique, Matches
  <2>1. a # i /\ b # i
    BY <1>9, <1>10
  <2> QED  BY <2>1, <1>4, <1>10 DEF Unique, Matches
<1>19. Table'
  <2>1. \A d : Mounted(d)' <=> Mounted(d)
    <3>1. \A s \in Super : super[s].imount # 0 =>
                (inode'[super[s].imount].mount <=> inode[super[s].imount].mount)
      <4> SUFFICES ASSUME NEW s \in Super, super[s].imount # 0
                   PROVE  inode'[super[s].imount].mount <=> inode[super[s].imount].mount
        OBVIOUS
      <4>1. super[s].imount \in Slot
        BY <1>4 DEF Types, SuperType
      <4> QED  BY <4>1, <1>9, <1>10, <1>15
    <3> QED  BY <3>1, <1>8, MountedKept
  <2>2. Good(i)'
    BY <1>9, <1>10 DEF Good
  <2>3. \A j \in Slot : j # i /\ inode[j].dev # 0 => <<inode[j].dev, inode[j].num>> \in imap'
    <3> SUFFICES ASSUME NEW j \in Slot, j # i, inode[j].dev # 0
                 PROVE  <<inode[j].dev, inode[j].num>> \in imap /\ <<inode[j].dev, inode[j].num>> # p
      BY <1>8
    <3> QED  BY <1>3, <1>4 DEF Good, Unique, Matches
  <2> QED  BY <2>1, <2>2, <2>3, <1>3, <1>10, <1>15, TableStep
<1>20. /\ InCore(i) /\ \A j \in Slot : InCore(j)' <=> InCore(j)
  <2>1. ~Has(S, Frame("read", i))
    BY <1>2, NoIOBelow, FrameEq DEF IO
  <2>2. InCore(i)
    BY <1>6, <2>1 DEF InCore
  <2>3. OnlyTask(t) /\ task'[t].stk = R
    <3>1. [task[t] EXCEPT !.stk = R] \in TaskType /\ Runs(t, [task[t] EXCEPT !.stk = R])
          /\ [task[t] EXCEPT !.stk = R].stk = R
      BY <1>2, <1>8, Parts DEF TaskType, Next_
    <3> QED  BY <3>1, <1>1, <1>4, RunsFacts
  <2>4. \A j \in Slot : Has(R, Frame("read", j)) <=> Has(S, Frame("read", j))
    BY <1>2, FrameEq
  <2> QED  BY <2>2, <2>3, <2>4, InCoreSame
<1>21. links[p] = 0 /\ p \in Dev \X Num
  BY <1>3, <1>4, <1>5, <1>7, <1>20 DEF Linked
<1>22. Linked'
  <2>1. \A q \in Dev \X Num : links'[q] > 0 => q \in imap'
    BY <1>4, <1>8, <1>21 DEF Linked
  <2>2. ASSUME NEW q \in Dev \X Num, links'[q] > 0,
               \A j \in Slot : ~(Matches(j, q[1], q[2])' /\ InCore(j)')
        PROVE  disk'[q] = links'[q]
    <3>1. q # p
      BY <2>2, <1>8, <1>21
    <3>2. \A j \in Slot : ~(Matches(j, q[1], q[2]) /\ InCore(j))
      <4> SUFFICES ASSUME NEW j \in Slot, Matches(j, q[1], q[2]), InCore(j)  PROVE FALSE
        OBVIOUS
      <4>1. CASE j = i
        BY <4>1, <3>1 DEF Matches
      <4>2. CASE j # i
        BY <4>2, <2>2, <1>10, <1>20 DEF Matches
      <4> QED  BY <4>1, <4>2
    <3> QED  BY <3>2, <2>2, <1>4, <1>8 DEF Linked
  <2>3. ASSUME NEW j \in Slot, inode'[j].dev # 0, InCore(j)'
        PROVE  /\ inode'[j].nlinks = links'[<<inode'[j].dev, inode'[j].num>>]
               /\ ~inode'[j].dirt => disk'[<<inode'[j].dev, inode'[j].num>>] = inode'[j].nlinks
    <3>1. j # i /\ inode'[j] = inode[j] /\ InCore(j)
      BY <2>3, <1>9, <1>10, <1>20
    <3> QED  BY <3>1, <2>3, <1>4, <1>8 DEF Linked
  <2> QED  BY <2>1, <2>2, <2>3 DEF Linked
<1> QED
  BY <1>11, <1>17, <1>18, <1>19, <1>22, SteadyStep

(***************************************************************************)
(* System calls begin.                                                     *)
(***************************************************************************)
LEMMA UserFacts ==
    ASSUME InoInv, NEW t \in Task, At(t, "user")
    PROVE  LET T == task[t] IN
           /\ CanRun(t) /\ T.stk = <<>> /\ T.got = 0 /\ T.empty = 0 /\ T \in TaskType
           /\ (\A g : ~Has(T.stk, g)) /\ (\A i : Frames(T.stk, i) = 0)
           /\ \A i \in Slot : inode[i].lock # t
<1>1. Own(t) /\ task[t] \in TaskType /\ task[t].stk \in Seq(FrameType)
  BY Parts
<1>2. CanRun(t) /\ Top(task[t].stk).at = "user"
  BY DEF At
<1>3. task[t].stk = <<>>
  BY <1>1, <1>2, TopFacts
<1>4. /\ Work(task[t].stk) = Frame("user", 0) /\ (\A g : ~Has(task[t].stk, g))
      /\ \A i : Frames(task[t].stk, i) = 0
  BY <1>3, EmptyStack
<1>5. task[t].got = 0 /\ task[t].empty = 0
  <2>1. WorkOK(task[t], "user")
    BY <1>1, <1>4, FrameEq DEF Own
  <2> QED  BY <2>1 DEF WorkOK, Keeper, Searching
<1>6. \A i \in Slot : inode[i].lock # t
  <2> SUFFICES ASSUME NEW i \in Slot, inode[i].lock = t  PROVE FALSE
    OBVIOUS
  <2>1. Top(task[t].stk) \in {Frame("read", i), Frame("write", i)}
    BY <1>1 DEF Own
  <2> QED  BY <2>1, <1>2, FrameEq
<1> QED
  BY <1>1, <1>2, <1>3, <1>4, <1>5, <1>6

LEMMA StartOwn ==
    ASSUME InoInv, Types', NEW t \in Task, At(t, "user"), NEW rec, Runs(t, rec), Starting(rec),
           super' = super,
           \A i \in Slot : /\ inode'[i].dev = inode[i].dev /\ inode'[i].num = inode[i].num
                           /\ inode'[i].pipe = inode[i].pipe /\ inode'[i].lock = inode[i].lock
                           /\ rec.held[i] > 0 => task[t].held[i] > 0
                           /\ Has(rec.stk, Frame("mount", i)) =>
                                /\ inode[i].dev # 0 /\ <<inode[i].dev, inode[i].num>> \notin BlkFile
                                /\ \A s \in Super : super[s].imount # i
    PROVE  Own(t)'
<1> DEFINE c == rec.stk
<1>0. /\ rec \in TaskType /\ rec.got = 0 /\ rec.empty = 0 /\ WellFormed(c) /\ c \in Seq(FrameType)
      /\ rec.held \in [Slot -> Nat]
  BY DEF Starting, TaskType
<1>1. /\ CanRun(t) /\ \A i \in Slot : inode[i].lock # t
  BY UserFacts
<1>2. Types /\ Own(t)
  BY Parts
<1>3. /\ task'[t] = rec
      /\ cpu' = t => Top(c).at \notin IO \cup {"user"} /\ ~Blocked(Top(c), inode')
  BY <1>0, <1>1, <1>2, RunsFacts
<1>4. inode[1].dev = ROOT_DEV /\ 1 \in Slot /\ 0 \notin Slot
  BY GoodFacts, SlotFacts
<1>5. DevInv(task[t])'
  <2>1. ASSUME Looking(c) \/ Has(c, Frame("new_inode", 0))
        PROVE  rec.dev \in Dev /\ Safe(task[t])'
    <3>1. PICK d \in Slot : (d = 1 \/ rec.held[d] > 0) /\ rec.dev = inode[d].dev
      BY <2>1 DEF Starting
    <3>2. inode'[d].dev = rec.dev
      BY <3>1
    <3>3. Safe(task[t])'
      BY <3>1, <3>2, <1>3, <1>4 DEF Safe
    <3> QED  BY <3>3, <2>1 DEF Starting
  <2>2. Looking(c) => rec.nr \in Num
    BY DEF Starting
  <2> QED  BY <2>1, <2>2, <1>0, <1>3 DEF DevInv
<1>6. ASSUME NEW i \in Slot  PROVE SlotInv(t, i)'
  <2>1. /\ ~Has(c, Frame("irepeat", i)) /\ ~Has(c, Frame("trunc", i))
        /\ ~Has(c, Frame("read", i)) /\ ~Has(c, Frame("write", i))
    BY FrameEq DEF Starting
  <2>2. Has(c, Frame("chdir", i)) => rec.held[i] > 0
    BY DEF Starting
  <2>3. Has(c, Frame("mount", i)) =>
                                /\ inode'[i].dev # 0 /\ <<inode'[i].dev, inode'[i].num>> \notin BlkFile
                                /\ \A s \in Super : super'[s].imount # i
    OBVIOUS
  <2> QED  BY <2>1, <2>2, <2>3, <1>0, <1>3 DEF SlotInv
<1>7. ASSUME NEW s \in Super  PROVE SuperInv(t, s)'
  <2>1. ~Has(c, Frame("read_super", s)) /\ ~Has(c, Frame("umount", s))
    BY FrameEq DEF Starting
  <2> QED  BY <2>1, <1>3 DEF SuperInv
<1>8. CrossOK(t)' /\ WorkOK(rec, Work(c).at) /\ Top(c).at # "mount"
  <2>1. Work(c).at \notin Searching \cup {"change", "chdir", "cross"} /\ Top(c).at # "mount"
    BY DEF Starting
  <2> QED  BY <2>1, <1>0, <1>3 DEF CrossOK, WorkOK, Keeper, Searching
<1>9. \A i \in Slot : rec.held[i] > 0 \/ rec.got = i => inode'[i].pipe \/ inode'[i].dev # 0
  <2>1. \A i \in Slot : task[t].held[i] > 0 => inode[i].pipe \/ inode[i].dev # 0
    BY <1>2 DEF Own
  <2>2. \A i \in Slot : rec.got # i
    BY <1>0, <1>4
  <2> QED  BY <2>1, <2>2
<1>10. cpu' = t => Top(c).at \notin IO \cup {"user"} /\ ~Blocked(Top(c), inode)'
  BY <1>3, BlockedSame
<1>11. \A i \in Slot : inode'[i].lock # t
  BY <1>1
<1> QED
  BY <1>0, <1>3, <1>5, <1>6, <1>7, <1>8, <1>9, <1>10, <1>11 DEF Own

LEMMA StartStep ==
    ASSUME InoInv, NEW t \in Task, At(t, "user"), NEW rec, Runs(t, rec), Starting(rec),
           UNCHANGED <<super, disk, imap, links, panic>>, inode' \in [Slot -> InodeType],
           \A i \in Slot :
              /\ \/ inode'[i] = inode[i]
                 \/ /\ inode'[i] = [inode[i] EXCEPT !.count = inode[i].count + 1]
                    /\ task[t].held[i] > 0 \/ i = 1
              /\ rec.held[i] > 0 => task[t].held[i] > 0
              /\ inode'[i].count - inode[i].count =
                        (rec.held[i] - task[t].held[i]) + Frames(rec.stk, i)
              /\ Has(rec.stk, Frame("mount", i)) =>
                    /\ inode[i].dev # 0 /\ <<inode[i].dev, inode[i].num>> \notin BlkFile
                    /\ \A s \in Super : super[s].imount # i
                    /\ \A u \in Task : u # t => ~Has(task[u].stk, Frame("mount", i))
    PROVE  InoInv'
<1> DEFINE c == rec.stk
<1>0. /\ rec \in TaskType /\ rec.got = 0 /\ rec.empty = 0 /\ c \in Seq(FrameType)
      /\ rec.held \in [Slot -> Nat] /\ rec.stk = c
  BY DEF Starting, TaskType
<1>1. /\ CanRun(t) /\ task[t].got = 0 /\ task[t].empty = 0 /\ (\A g : ~Has(task[t].stk, g))
      /\ (\A i : Frames(task[t].stk, i) = 0) /\ task[t] \in TaskType
      /\ \A i \in Slot : inode[i].lock # t
  BY UserFacts
<1>2. Types /\ (\A i \in Slot : Good(i)) /\ 0 \notin Slot /\ Counts /\ Supers
  BY Parts, GoodFacts, SlotFacts
<1>3. task'[t] = rec /\ OnlyTask(t) /\ cpu \in {t, None} /\ cpu' \in {t, None}
  BY <1>0, <1>1, <1>2, RunsFacts
<1>4. Types'
  BY <1>0, <1>1, <1>2, TypesStep
<1>5. ASSUME NEW i \in Slot
      PROVE  /\ inode'[i].dev = inode[i].dev /\ inode'[i].num = inode[i].num
             /\ inode'[i].pipe = inode[i].pipe /\ inode'[i].lock = inode[i].lock
             /\ inode'[i].mount = inode[i].mount /\ inode'[i].nlinks = inode[i].nlinks
             /\ inode'[i].dirt = inode[i].dirt
             /\ inode'[i].count = inode[i].count \/ inode'[i].count = inode[i].count + 1
             /\ inode'[i] # inode[i] => inode'[i].count = inode[i].count + 1
             /\ inode[i].count \in Nat
  <2>1. inode[i] \in InodeType
    BY <1>2 DEF Types
  <2>2. CASE inode'[i] = inode[i]
    BY <2>1, <2>2 DEF InodeType
  <2>3. CASE inode'[i] = [inode[i] EXCEPT !.count = inode[i].count + 1]
    BY <2>1, <2>3 DEF InodeType
  <2> QED  BY <2>2, <2>3
<1>6. Own(t)'
  BY <1>4, <1>5, StartOwn
<1>7. ASSUME NEW i \in Slot, inode'[i] # inode[i]
      PROVE  /\ inode[i].count > 0
             /\ \A u \in Task : u # t =>
                    /\ task[u].empty # i /\ ~Has(task[u].stk, Frame("read", i))
                    /\ ~Has(task[u].stk, Frame("trunc", i))
  <2>1. CASE task[t].held[i] > 0
    <3>1. Points(t, i) > 0 /\ Points(t, i) \in Nat
      <4>1. /\ Points(t, i) \in Nat /\ Frames(task[t].stk, i) \in Nat /\ task[t].held[i] \in Nat
            /\ task[t].held[i] + Frames(task[t].stk, i) <= Points(t, i)
        BY <1>2, PointsNat
      <4> QED  BY <4>1, <2>1
    <3>2. OfSupers(i) \in Nat /\ Points(t, i) + OfSupers(i) <= inode[i].count
      BY <1>2, CountBounds
    <3>3. inode[i].count > 0
      BY <3>1, <3>2, <1>5
    <3>4. \A u \in Task : u # t => ~Alone(u, i)
      BY <3>1, AloneFacts
    <3> QED  BY <3>3, <3>4 DEF Alone
  <2>2. CASE i = 1
    <3>1. OfSupers(1) >= 2 /\ OfSupers(1) \in Nat
      BY RootUsed
    <3>2. Points(t, 1) \in Nat /\ Points(t, 1) + OfSupers(1) <= inode[1].count
      BY <2>2, <1>2, CountBounds, PointsNat
    <3>3. inode[i].count > 0
      BY <2>2, <3>1, <3>2, <1>5
    <3>4. \A u \in Task : ~Alone(u, i)
      BY <2>2, AloneFacts
    <3> QED  BY <3>3, <3>4 DEF Alone
  <2> QED  BY <1>7, <2>1, <2>2
<1>8. ASSUME NEW i \in Slot
      PROVE  inode'[i].count - inode[i].count = Points(t, i)' - Points(t, i)
  <2>1. Points(t, i) = task[t].held[i] + 0 + 0 + 0
    BY <1>1, <1>2 DEF Points, Pointers
  <2>2. Points(t, i)' = Pointers(rec, i, inode'[i].pipe)
    BY <1>3 DEF Points
  <2>3. Pointers(rec, i, inode'[i].pipe) = rec.held[i] + Frames(c, i) + 0 + 0
    BY <1>0, <1>2 DEF Pointers
  <2>4. rec.held[i] \in Nat /\ Frames(c, i) \in Nat /\ task[t].held[i] \in Nat
    BY <1>0, <1>1, FramesNat DEF TaskType
  <2> DEFINE a == rec.held[i]
             b == Frames(c, i)
             d == task[t].held[i]
             x == Points(t, i)
             y == Points(t, i)'
  <2>5. /\ x = d + 0 + 0 + 0 /\ y = a + b + 0 + 0 /\ a \in Nat /\ b \in Nat /\ d \in Nat
        /\ inode'[i].count - inode[i].count = (a - d) + b
    BY <2>1, <2>2, <2>3, <2>4
  <2> HIDE DEF a, b, d, x, y
  <2>6. inode'[i].count - inode[i].count = y - x
    BY <2>5
  <2> QED  BY <2>6 DEF x, y
<1>9. ASSUME NEW i \in Slot
      PROVE  /\ inode'[i].pipe => inode[i].dev = 0
             /\ inode'[i].dirt => inode[i].dev # 0
             /\ inode'[i].count = 0 => ~inode'[i].dirt /\ inode'[i].lock = None
             /\ inode'[i].count > 0 /\ inode[i].dev # 0 => inode[i].count > 0
  <2>1. Good(i)
    BY <1>2
  <2>2. inode'[i].count = 0 => inode[i].count = 0
    BY <1>5
  <2>3. inode'[i].count > 0 => inode[i].count > 0
    BY <1>7
  <2> QED  BY <2>1, <2>2, <2>3, <1>5 DEF Good
<1>10. \A g : ~Has(task[t].stk, g)
  BY <1>1
<1>11. \A i \in Slot : ~Has(c, Frame("read", i))
  BY FrameEq DEF Starting
<1>12. \A s \in Super : ~Has(c, Frame("umount", s)) /\ ~Has(c, Frame("read_super", s))
  BY FrameEq DEF Starting
<1>13. ASSUME NEW i \in Slot, inode'[i].count # inode[i].count
       PROVE  \A u \in Task : u # t => ~Has(task[u].stk, Frame("trunc", i))
  <2>1. inode'[i] # inode[i]
    BY <1>13
  <2> QED  BY <2>1, <1>7
<1>14. UNCHANGED <<super, disk, imap, links, panic>>
  OBVIOUS
<1>15. \A i \in Slot : Has(task'[t].stk, Frame("mount", i)) =>
            \A u \in Task : u # t => ~Has(task[u].stk, Frame("mount", i))
  BY <1>3
<1>16. Quiet(t)
  BY <1>3, <1>5, <1>7, <1>8, <1>9, <1>10, <1>11, <1>12, <1>13, <1>14, <1>15 DEF Quiet
<1> QED
  BY <1>4, <1>6, <1>16, QuietStep

(* The stacks at the start of the calls.                                   *)
LEMMA StackOne ==
    ASSUME NEW f \in FrameType, Fits(f, "user")
    PROVE  LET c == <<f>> IN
           /\ c \in Seq(FrameType) /\ Top(c) = f /\ WellFormed(c)
           /\ Work(c) = (IF f.at \in Service THEN Frame("user", 0) ELSE f)
           /\ (\A g : Has(c, g) <=> g = f)
           /\ \A i : Frames(c, i) = Counting(f, i) /\ Frames(c, i) \in Nat
<1>1. <<f>> = <<f>> \o <<>>
  BY Stacked
<1>2. /\ <<>> \in Seq(FrameType) /\ Top(<<>>).at = "user" /\ Work(<<>>) = Frame("user", 0)
      /\ WellFormed(<<>>) /\ (\A g : ~Has(<<>>, g)) /\ \A i : Frames(<<>>, i) = 0
  BY EmptyStack, FrameEq
<1> DEFINE s == <<>>
           c == <<f>> \o s
<1> HIDE DEF s
<1>3. /\ c \in Seq(FrameType) /\ Top(c) = f
      /\ WellFormed(c) <=> WellFormed(s) /\ Fits(f, Top(s).at)
      /\ Work(c) = IF f.at \in Service THEN Work(s) ELSE f
      /\ \A g : Has(c, g) <=> g = f \/ Has(s, g)
      /\ \A i : Frames(s, i) \in Nat /\ Frames(c, i) = Frames(s, i) + Counting(f, i)
  BY <1>2, Push DEF s
<1>4. \A i : Frames(c, i) = Counting(f, i) /\ Frames(c, i) \in Nat
  BY <1>2, <1>3 DEF s, Counting
<1>5. /\ WellFormed(c) /\ (\A g : Has(c, g) <=> g = f)
      /\ Work(c) = (IF f.at \in Service THEN Frame("user", 0) ELSE f)
  BY <1>2, <1>3 DEF s
<1>6. c = <<f>>
  BY <1>1 DEF s
<1> QED
  BY <1>3, <1>4, <1>5, <1>6

LEMMA StackTwo ==
    ASSUME NEW f \in FrameType, NEW h \in FrameType, Fits(h, "user"), Fits(f, h.at)
    PROVE  LET c == <<f, h>> IN
           /\ c \in Seq(FrameType) /\ Top(c) = f /\ WellFormed(c)
           /\ Work(c) = (IF f.at \in Service THEN Work(<<h>>) ELSE f)
           /\ (\A g : Has(c, g) <=> g \in {f, h})
           /\ \A i : Frames(c, i) = Counting(h, i) + Counting(f, i) /\ Frames(c, i) \in Nat
<1>1. <<f, h>> = <<f>> \o <<h>>
  <2>1. <<h>> = <<h>> \o <<>>
    BY Stacked
  <2>2. <<f, h>> = <<f>> \o (<<h>> \o <<>>)
    BY Stacked
  <2> QED  BY <2>1, <2>2, Zenon
<1> DEFINE s == <<h>>
           c == <<f>> \o s
<1>2. /\ s \in Seq(FrameType) /\ Top(s) = h /\ WellFormed(s)
      /\ (\A g : Has(s, g) <=> g = h)
      /\ \A i : Frames(s, i) = Counting(h, i) /\ Frames(s, i) \in Nat
  BY StackOne
<1> HIDE DEF s
<1>3. /\ c \in Seq(FrameType) /\ Top(c) = f
      /\ WellFormed(c) <=> WellFormed(s) /\ Fits(f, Top(s).at)
      /\ Work(c) = IF f.at \in Service THEN Work(s) ELSE f
      /\ \A g : Has(c, g) <=> g = f \/ Has(s, g)
      /\ \A i : Frames(s, i) \in Nat /\ Frames(c, i) = Frames(s, i) + Counting(f, i)
  BY <1>2, Push
<1>4. \A i : Frames(c, i) = Counting(h, i) + Counting(f, i) /\ Frames(c, i) \in Nat
  BY <1>2, <1>3 DEF Counting
<1>5. /\ WellFormed(c) /\ (\A g : Has(c, g) <=> g \in {f, h})
      /\ Work(c) = (IF f.at \in Service THEN Work(<<h>>) ELSE f)
  BY <1>2, <1>3 DEF s
<1>6. c = <<f, h>>
  BY <1>1 DEF s
<1> QED
  BY <1>3, <1>4, <1>5, <1>6

LEMMA StackThree ==
    ASSUME NEW f \in FrameType, NEW h \in FrameType, NEW k \in FrameType,
           Fits(k, "user"), Fits(h, k.at), Fits(f, h.at)
    PROVE  LET c == <<f, h, k>> IN
           /\ c \in Seq(FrameType) /\ Top(c) = f /\ WellFormed(c)
           /\ Work(c) = (IF f.at \in Service THEN Work(<<h, k>>) ELSE f)
           /\ (\A g : Has(c, g) <=> g \in {f, h, k})
           /\ \A i : Frames(c, i) = Counting(k, i) + Counting(h, i) + Counting(f, i)
                     /\ Frames(c, i) \in Nat
<1>1. <<f, h, k>> = <<f>> \o <<h, k>>
  BY Stacked
<1> DEFINE s == <<h, k>>
           c == <<f>> \o s
<1>2. /\ s \in Seq(FrameType) /\ Top(s) = h /\ WellFormed(s)
      /\ (\A g : Has(s, g) <=> g \in {h, k})
      /\ \A i : Frames(s, i) = Counting(k, i) + Counting(h, i) /\ Frames(s, i) \in Nat
  BY StackTwo
<1> HIDE DEF s
<1>3. /\ c \in Seq(FrameType) /\ Top(c) = f
      /\ WellFormed(c) <=> WellFormed(s) /\ Fits(f, Top(s).at)
      /\ Work(c) = IF f.at \in Service THEN Work(s) ELSE f
      /\ \A g : Has(c, g) <=> g = f \/ Has(s, g)
      /\ \A i : Frames(s, i) \in Nat /\ Frames(c, i) = Frames(s, i) + Counting(f, i)
  BY <1>2, Push
<1>4. \A i : Frames(c, i) = Counting(k, i) + Counting(h, i) + Counting(f, i) /\ Frames(c, i) \in Nat
  BY <1>2, <1>3 DEF Counting
<1>5. /\ WellFormed(c) /\ (\A g : Has(c, g) <=> g \in {f, h, k})
      /\ Work(c) = (IF f.at \in Service THEN Work(<<h, k>>) ELSE f)
  BY <1>2, <1>3 DEF s
<1>6. c = <<f, h, k>>
  BY <1>1 DEF s
<1> QED
  BY <1>3, <1>4, <1>5, <1>6

LEMMA StackLookup ==
    ASSUME NEW d \in Slot, NEW k \in FrameType, k.at \in Keeper
    PROVE  LET c == <<Frame("brelse", 0), Frame("iput", d), Frame("iget", 0), k>> IN
           /\ c \in Seq(FrameType) /\ Top(c) = Frame("brelse", 0) /\ WellFormed(c)
           /\ Work(c) = Frame("iget", 0)
           /\ \A g : Has(c, g) <=> g \in {Frame("brelse", 0), Frame("iput", d), Frame("iget", 0), k}
           /\ \A i : Frames(c, i) = (IF i = d THEN 1 ELSE 0)
<1> DEFINE e == Frame("brelse", 0)
           f == Frame("iput", d)
           h == Frame("iget", 0)
<1>1. /\ e \in FrameType /\ f \in FrameType /\ h \in FrameType
      /\ e.at = "brelse" /\ f.at = "iput" /\ h.at = "iget" /\ f.i = d
  BY MakeFrame, FrameEq DEF OnSlot, OnNone
<1> HIDE DEF e, f, h
<1>2. Fits(k, "user") /\ Fits(h, k.at) /\ Fits(f, "iget") /\ Fits(e, "iput")
  BY <1>1 DEF Fits, IO, Service, Putting, Keeper
<1>3. <<e, f, h, k>> = <<e>> \o <<f, h, k>>
  BY <1>1, Stacked
<1> DEFINE s == <<f, h, k>>
           c == <<e>> \o s
<1>4. /\ s \in Seq(FrameType) /\ Top(s) = f /\ WellFormed(s)
      /\ Work(s) = (IF f.at \in Service THEN Work(<<h, k>>) ELSE f)
      /\ (\A g : Has(s, g) <=> g \in {f, h, k})
      /\ \A i : Frames(s, i) = Counting(k, i) + Counting(h, i) + Counting(f, i) /\ Frames(s, i) \in Nat
  BY <1>1, <1>2, StackThree
<1>5. Work(<<h, k>>) = h
  <2>1. Work(<<h, k>>) = (IF h.at \in Service THEN Work(<<k>>) ELSE h)
    BY <1>1, <1>2, StackTwo
  <2> QED  BY <2>1, <1>1 DEF Service
<1> HIDE DEF s
<1>6. /\ c \in Seq(FrameType) /\ Top(c) = e
      /\ WellFormed(c) <=> WellFormed(s) /\ Fits(e, Top(s).at)
      /\ Work(c) = IF e.at \in Service THEN Work(s) ELSE e
      /\ \A g : Has(c, g) <=> g = e \/ Has(s, g)
      /\ \A i : Frames(s, i) \in Nat /\ Frames(c, i) = Frames(s, i) + Counting(e, i)
  BY <1>1, <1>4, Push
<1>7. \A i : Frames(c, i) = (IF i = d THEN 1 ELSE 0)
  <2>1. \A i : Counting(k, i) = 0 /\ Counting(h, i) = 0 /\ Counting(e, i) = 0
               /\ Counting(f, i) = (IF i = d THEN 1 ELSE 0)
    BY <1>1 DEF Counting, Keeper
  <2> HIDE DEF c
  <2> QED  BY <2>1, <1>4, <1>6
<1>8. WellFormed(c) /\ Work(c) = h /\ \A g : Has(c, g) <=> g \in {e, f, h, k}
  BY <1>1, <1>2, <1>4, <1>5, <1>6 DEF Service
<1>9. c = <<e, f, h, k>>
  BY <1>3 DEF s
<1>10. \A g : Has(c, g) <=> g \in {Frame("brelse", 0), Frame("iput", d), Frame("iget", 0), k}
  BY <1>8 DEF e, f, h
<1>11. c = <<Frame("brelse", 0), Frame("iput", d), Frame("iget", 0), k>>
  BY <1>9 DEF e, f, h
<1>12. Work(c) = Frame("iget", 0) /\ Top(c) = Frame("brelse", 0)
  BY <1>6, <1>8 DEF e, h
<1> HIDE DEF c
<1> QED
  BY <1>6, <1>7, <1>8, <1>10, <1>11, <1>12

(* namei, chdir and the others look an inode up.                           *)
LEMMA LookupStep ==
    ASSUME InoInv, NEW t \in Task, At(t, "user"), NEW dir \in Slot, NEW nr \in Num,
           NEW k \in FrameType, k.at \in Keeper,
           k.at = "chdir" => task[t].held[k.i] > 0,
           task[t].held[dir] > 0 \/ dir = 1, inode[dir].dev # 0,
           inode' = [inode EXCEPT ![dir].count = @ + 1],
           Runs(t, [task[t] EXCEPT !.dev = inode[dir].dev, !.nr = nr,
                       !.stk = <<Frame("brelse", 0), Frame("iput", dir), Frame("iget", 0), k>>]),
           UNCHANGED <<super, disk, imap, links, panic>>
    PROVE  InoInv'
<1> DEFINE c == <<Frame("brelse", 0), Frame("iput", dir), Frame("iget", 0), k>>
           T == task[t]
           rec == [T EXCEPT !.dev = inode[dir].dev, !.nr = nr, !.stk = c]
<1>1. /\ c \in Seq(FrameType) /\ Top(c) = Frame("brelse", 0) /\ WellFormed(c)
      /\ Work(c) = Frame("iget", 0)
      /\ \A g : Has(c, g) <=> g \in {Frame("brelse", 0), Frame("iput", dir), Frame("iget", 0), k}
      /\ \A i : Frames(c, i) = (IF i = dir THEN 1 ELSE 0)
  BY StackLookup
<1>2. Types /\ T \in TaskType /\ T.got = 0 /\ T.empty = 0
  BY Parts, UserFacts
<1>3. inode[dir] \in InodeType /\ inode[dir].dev \in Dev /\ inode \in [Slot -> InodeType]
  BY <1>2 DEF Types, InodeType
<1> HIDE DEF c
<1>4. /\ rec \in TaskType /\ rec.stk = c /\ rec.dev = inode[dir].dev /\ rec.nr = nr
      /\ rec.got = 0 /\ rec.empty = 0 /\ rec.held = T.held
  BY <1>1, <1>2, <1>3 DEF TaskType
<1>5. Runs(t, rec)
  BY DEF c
<1> HIDE DEF rec
<1>6. \A g : Has(c, g) => g.at \in {"brelse", "iput", "iget"} \cup Keeper
  BY <1>1, FrameEq
<1>7. Starting(rec)
  <2>1. Work(c).at = "iget" /\ Top(c).at = "brelse"
    BY <1>1, FrameEq
  <2>2. Work(c).at \notin Searching \cup {"change", "chdir", "cross"} /\ Top(c).at # "mount"
    BY <2>1 DEF Searching
  <2>3. \A g : Has(c, g) =>
            g.at \notin {"irepeat", "trunc", "read", "write", "read_super", "umount"}
    BY <1>6 DEF Keeper
  <2>4. \A i \in Slot : Has(c, Frame("chdir", i)) => T.held[i] > 0
    <3> SUFFICES ASSUME NEW i \in Slot, Has(c, Frame("chdir", i))  PROVE T.held[i] > 0
      OBVIOUS
    <3>1. Frame("chdir", i).at = "chdir" /\ Frame("chdir", i).i = i
      BY FrameEq
    <3>2. Frame("chdir", i) = k
      BY <3>1, <1>1, FrameEq
    <3> QED  BY <3>1, <3>2
  <2> QED  BY <2>2, <2>3, <2>4, <1>1, <1>3, <1>4 DEF Starting
<1>8. inode' \in [Slot -> InodeType]
      /\ inode'[dir] = [inode[dir] EXCEPT !.count = inode[dir].count + 1]
      /\ \A i \in Slot : i # dir => inode'[i] = inode[i]
  BY <1>3 DEF InodeType
<1>9. ASSUME NEW i \in Slot
      PROVE  /\ inode'[i].count - inode[i].count = (rec.held[i] - T.held[i]) + Frames(rec.stk, i)
             /\ ~Has(rec.stk, Frame("mount", i))
             /\ rec.held[i] > 0 => T.held[i] > 0
  <2>1. ~Has(rec.stk, Frame("mount", i))
    BY <1>4, <1>6, FrameEq DEF Keeper
  <2>2. T.held[i] \in Nat /\ inode[i].count \in Nat
    BY <1>2 DEF TaskType, Types, InodeType
  <2>3. CASE i = dir
    <3>1. inode'[i].count = inode[i].count + 1
      BY <2>3, <1>3, <1>8 DEF InodeType
    <3> QED  BY <2>1, <2>2, <2>3, <3>1, <1>1, <1>4
  <2>4. CASE i # dir
    BY <2>1, <2>2, <2>4, <1>1, <1>4, <1>8
  <2> QED  BY <2>3, <2>4
<1>10. \A i \in Slot : \/ inode'[i] = inode[i]
                       \/ /\ inode'[i] = [inode[i] EXCEPT !.count = inode[i].count + 1]
                          /\ T.held[i] > 0 \/ i = 1
  BY <1>8
<1> QED
  BY <1>5, <1>7, <1>8, <1>9, <1>10, StartStep

LEMMA NameiStep ==
    ASSUME InoInv, NEW t \in Task, NEW dir \in Slot, NEW nr \in Num, namei(t, dir, nr)
    PROVE  InoInv'
<1>1. At(t, "user") /\ inode[dir].dev # 0 /\ inode' = [inode EXCEPT ![dir].count = @ + 1]
      /\ UNCHANGED <<super, disk, imap, links, panic>>
      /\ Runs(t, [task[t] EXCEPT !.dev = inode[dir].dev, !.nr = nr,
            !.stk = <<Frame("brelse", 0), Frame("iput", dir), Frame("iget", 0), Frame("keep", 0)>>])
  BY DEF namei, Begins, BeginsFor, ioVars
<1>2. task[t].held[dir] > 0 \/ dir = 1
  BY DEF namei, Holds
<1>3. Frame("keep", 0) \in FrameType /\ Frame("keep", 0).at = "keep"
  BY MakeFrame, FrameEq DEF OnNone
<1>4. "keep" \in Keeper /\ "keep" # "chdir"
  BY DEF Keeper
<1> QED
  BY <1>1, <1>2, <1>3, <1>4, LookupStep

LEMMA ChangeStep ==
    ASSUME InoInv, NEW t \in Task, NEW dir \in Slot, NEW nr \in Num, Change(t, dir, nr)
    PROVE  InoInv'
<1>1. At(t, "user") /\ inode[dir].dev # 0 /\ inode' = [inode EXCEPT ![dir].count = @ + 1]
      /\ UNCHANGED <<super, disk, imap, links, panic>>
      /\ Runs(t, [task[t] EXCEPT !.dev = inode[dir].dev, !.nr = nr,
            !.stk = <<Frame("brelse", 0), Frame("iput", dir), Frame("iget", 0), Frame("change", 0)>>])
  BY DEF Change, BeginsFor, ioVars
<1>2. task[t].held[dir] > 0 \/ dir = 1
  BY DEF Change, Holds
<1>3. Frame("change", 0) \in FrameType /\ Frame("change", 0).at = "change"
  BY MakeFrame, FrameEq DEF OnNone
<1>4. "change" \in Keeper /\ "change" # "chdir"
  BY DEF Keeper
<1> QED
  BY <1>1, <1>2, <1>3, <1>4, LookupStep

LEMMA SysChdirStep ==
    ASSUME InoInv, NEW t \in Task, NEW dir \in Slot, NEW nr \in Num, NEW old \in Slot,
           sys_chdir(t, dir, nr, old)
    PROVE  InoInv'
<1>1. At(t, "user") /\ inode[dir].dev # 0 /\ inode' = [inode EXCEPT ![dir].count = @ + 1]
      /\ UNCHANGED <<super, disk, imap, links, panic>>
      /\ Runs(t, [task[t] EXCEPT !.dev = inode[dir].dev, !.nr = nr,
            !.stk = <<Frame("brelse", 0), Frame("iput", dir), Frame("iget", 0), Frame("chdir", old)>>])
  BY DEF sys_chdir, BeginsFor, ioVars
<1>2. (task[t].held[dir] > 0 \/ dir = 1) /\ task[t].held[old] > 0
  BY DEF sys_chdir, Holds
<1>3. Frame("chdir", old) \in FrameType /\ Frame("chdir", old).at = "chdir" /\ Frame("chdir", old).i = old
  BY MakeFrame, FrameEq DEF OnSlot
<1>4. "chdir" \in Keeper
  BY DEF Keeper
<1> QED
  BY <1>1, <1>2, <1>3, <1>4, LookupStep

(* A call of one service, or of none: inodes stay as they are.             *)
LEMMA PlainStart ==
    ASSUME InoInv, NEW t \in Task, At(t, "user"), NEW rec, Runs(t, rec), Starting(rec),
           UNCHANGED <<inode, super, disk, imap, links, panic>>,
           \A i \in Slot :
              /\ task[t].held[i] = rec.held[i] + Frames(rec.stk, i) /\ Frames(rec.stk, i) \in Nat
              /\ Has(rec.stk, Frame("mount", i)) =>
                    /\ inode[i].dev # 0 /\ <<inode[i].dev, inode[i].num>> \notin BlkFile
                    /\ \A s \in Super : super[s].imount # i
                    /\ \A u \in Task : u # t => ~Has(task[u].stk, Frame("mount", i))
    PROVE  InoInv'
<1>1. Types /\ rec \in TaskType /\ task[t] \in TaskType
  BY Parts DEF Starting
<1>2. inode' \in [Slot -> InodeType]
  BY <1>1 DEF Types
<1>3. ASSUME NEW i \in Slot
      PROVE  /\ inode'[i].count - inode[i].count =
                        (rec.held[i] - task[t].held[i]) + Frames(rec.stk, i)
             /\ rec.held[i] > 0 => task[t].held[i] > 0
  <2>1. inode[i].count \in Nat /\ rec.held[i] \in Nat /\ task[t].held[i] \in Nat
    BY <1>1 DEF Types, InodeType, TaskType
  <2> DEFINE a == rec.held[i]
             b == Frames(rec.stk, i)
             d == task[t].held[i]
             n == inode[i].count
  <2>2. d = a + b /\ a \in Nat /\ b \in Nat /\ d \in Nat /\ n \in Nat /\ inode'[i].count = n
    BY <2>1
  <2> HIDE DEF a, b, d, n
  <2>3. n - n = (a - d) + b /\ (a > 0 => d > 0)
    BY <2>2
  <2> QED  BY <2>2, <2>3 DEF a, b, d, n
<1> QED
  BY <1>2, <1>3, StartStep

LEMMA SysSyncStep ==
    ASSUME InoInv, NEW t \in Task, sys_sync(t)
    PROVE  InoInv'
<1> DEFINE c == <<Frame("sync", 1)>>
           T == task[t]
           rec == [T EXCEPT !.stk = c]
<1>1. At(t, "user") /\ UNCHANGED <<inode, super, disk, imap, links, panic>> /\ Runs(t, rec)
  BY DEF sys_sync, Begins, BeginsFor, ioVars, Next_
<1>2. Frame("sync", 1) \in FrameType /\ Frame("sync", 1).at = "sync"
  <2>1. NR_INODE \in Nat
    BY Zenon, InodeAssumption
  <2>2. 1 \in 1..(NR_INODE + 1)
    BY <2>1
  <2> QED  BY <2>2, MakeFrame, FrameEq
<1>3. Fits(Frame("sync", 1), "user")
  BY <1>2 DEF Fits, IO, Service, Putting, Keeper
<1>4. /\ c \in Seq(FrameType) /\ Top(c) = Frame("sync", 1) /\ WellFormed(c)
      /\ Work(c) = Frame("user", 0)
      /\ (\A g : Has(c, g) <=> g = Frame("sync", 1))
      /\ \A i : Frames(c, i) = 0
  BY <1>2, <1>3, StackOne DEF Service, Counting
<1>5. T \in TaskType /\ T.got = 0 /\ T.empty = 0
  BY <1>1, UserFacts
<1> HIDE DEF c
<1>6. rec \in TaskType /\ rec.stk = c /\ rec.got = 0 /\ rec.empty = 0 /\ rec.held = T.held
  BY <1>4, <1>5 DEF TaskType
<1> HIDE DEF rec
<1>7. \A g : Has(c, g) => g.at = "sync"
  BY <1>2, <1>4
<1>8. Starting(rec)
  <2>1. Work(c).at = "user" /\ Top(c).at = "sync"
    BY <1>2, <1>4, FrameEq
  <2>2. ~Looking(c) /\ ~Has(c, Frame("new_inode", 0))
    BY <1>7, FrameEq DEF Looking
  <2>3. \A i \in Slot : ~Has(c, Frame("chdir", i))
    BY <1>7, FrameEq
  <2> QED  BY <2>1, <2>2, <2>3, <1>4, <1>6, <1>7 DEF Starting, Searching
<1>9. ASSUME NEW i \in Slot
      PROVE  /\ T.held[i] = rec.held[i] + Frames(rec.stk, i) /\ Frames(rec.stk, i) \in Nat
             /\ ~Has(rec.stk, Frame("mount", i))
  <2>1. T.held[i] \in Nat
    BY <1>5 DEF TaskType
  <2> QED  BY <2>1, <1>4, <1>6, <1>7, FrameEq
<1> QED
  BY <1>1, <1>8, <1>9, PlainStart

(* A reference of the task goes to iput, or to a mount.                    *)
LEMMA CloseStep ==
    ASSUME InoInv, NEW t \in Task, NEW i \in Slot, At(t, "user"), i \in Holds(t),
           Runs(t, [task[t] EXCEPT !.held[i] = @ - 1, !.stk = <<Frame("iput", i)>>]),
           UNCHANGED <<inode, super, disk, imap, links, panic>>
    PROVE  InoInv'
<1> DEFINE c == <<Frame("iput", i)>>
           T == task[t]
           rec == [T EXCEPT !.held[i] = @ - 1, !.stk = c]
<1>1. Frame("iput", i) \in FrameType /\ Frame("iput", i).at = "iput" /\ Frame("iput", i).i = i
  BY MakeFrame, FrameEq DEF OnSlot
<1>2. Fits(Frame("iput", i), "user")
  BY <1>1 DEF Fits, IO, Service, Putting, Keeper
<1>3. /\ c \in Seq(FrameType) /\ Top(c) = Frame("iput", i) /\ WellFormed(c)
      /\ Work(c) = Frame("user", 0)
      /\ (\A g : Has(c, g) <=> g = Frame("iput", i))
      /\ \A j : Frames(c, j) = IF j = i THEN 1 ELSE 0
  BY <1>1, <1>2, StackOne DEF Service, Counting
<1>4. T \in TaskType /\ T.got = 0 /\ T.empty = 0 /\ T.held \in [Slot -> Nat] /\ T.held[i] > 0
  BY UserFacts DEF TaskType, Holds
<1> HIDE DEF c
<1>5. /\ rec.stk = c /\ rec.got = 0 /\ rec.empty = 0
      /\ rec.held = [T.held EXCEPT ![i] = T.held[i] - 1] /\ rec.held \in [Slot -> Nat]
      /\ rec \in TaskType
  <2>1. T.held[i] - 1 \in Nat
    BY <1>4
  <2> QED  BY <2>1, <1>3, <1>4 DEF TaskType
<1>6. Runs(t, rec)
  BY DEF c
<1> HIDE DEF rec
<1>7. \A g : Has(c, g) => g.at = "iput"
  BY <1>1, <1>3
<1>8. Starting(rec)
  <2>1. Work(c).at = "user" /\ Top(c).at = "iput"
    BY <1>1, <1>3, FrameEq
  <2>2. ~Looking(c) /\ ~Has(c, Frame("new_inode", 0))
    BY <1>7, FrameEq DEF Looking
  <2>3. \A j \in Slot : ~Has(c, Frame("chdir", j))
    BY <1>7, FrameEq
  <2> QED  BY <2>1, <2>2, <2>3, <1>3, <1>5, <1>7 DEF Starting, Searching
<1>9. ASSUME NEW j \in Slot
      PROVE  /\ T.held[j] = rec.held[j] + Frames(rec.stk, j) /\ Frames(rec.stk, j) \in Nat
             /\ ~Has(rec.stk, Frame("mount", j))
  <2>1. T.held[j] \in Nat
    BY <1>4
  <2> QED  BY <2>1, <1>3, <1>4, <1>5, <1>7, FrameEq
<1> QED
  BY <1>6, <1>8, <1>9, PlainStart

LEMMA SysMountStep ==
    ASSUME InoInv, NEW t \in Task, NEW i \in Slot, NEW dev \in Dev, sys_mount(t, i, dev)
    PROVE  InoInv'
<1>1. /\ At(t, "user") /\ i \in Holds(t) /\ ~inode[i].pipe /\ task[t].held[i] > 0
      /\ <<inode[i].dev, inode[i].num>> \notin BlkFile
      /\ UNCHANGED <<inode, super, disk, imap, links, panic>>
  BY DEF sys_mount, Begins, BeginsFor, ioVars, Holds
<1>2. CASE inode[i].count # 1 \/ inode[i].num = ROOT_INO
  <2>1. Runs(t, [task[t] EXCEPT !.held[i] = @ - 1, !.stk = <<Frame("iput", i)>>])
    BY <1>2 DEF sys_mount
  <2> QED  BY <2>1, <1>1, CloseStep
<1>3. CASE ~(inode[i].count # 1 \/ inode[i].num = ROOT_INO)
  <2> DEFINE f == Frame("mount_super", dev)
             h == Frame("mount", i)
             c == <<f, h>>
             T == task[t]
             rec == [T EXCEPT !.held[i] = @ - 1, !.stk = c]
  <2>1. /\ f \in FrameType /\ f.at = "mount_super" /\ h \in FrameType /\ h.at = "mount" /\ h.i = i
    BY MakeFrame, FrameEq DEF OnSlot
  <2>2. Fits(h, "user") /\ Fits(f, "mount")
    BY <2>1 DEF Fits, IO, Service, Putting, Keeper
  <2> HIDE DEF f, h
  <2>3. /\ c \in Seq(FrameType) /\ Top(c) = f /\ WellFormed(c) /\ Work(c) = f
        /\ (\A g : Has(c, g) <=> g \in {f, h})
        /\ \A j : Frames(c, j) = IF j = i THEN 1 ELSE 0
    <3>1. /\ c \in Seq(FrameType) /\ Top(c) = f /\ WellFormed(c)
          /\ Work(c) = (IF f.at \in Service THEN Work(<<h>>) ELSE f)
          /\ (\A g : Has(c, g) <=> g \in {f, h})
          /\ \A j : Frames(c, j) = Counting(h, j) + Counting(f, j)
      BY <2>1, <2>2, StackTwo
    <3>2. \A j : Counting(f, j) = 0 /\ Counting(h, j) = IF j = i THEN 1 ELSE 0
      BY <2>1 DEF Counting
    <3>3. f.at \notin Service
      BY <2>1 DEF Service
    <3> HIDE DEF c
    <3> QED  BY <3>1, <3>2, <3>3
  <2>4. T \in TaskType /\ T.got = 0 /\ T.empty = 0 /\ T.held \in [Slot -> Nat] /\ T.held[i] > 0
        /\ T.stk = <<>>
    BY <1>1, UserFacts DEF TaskType
  <2> HIDE DEF c
  <2>5. /\ rec.stk = c /\ rec.got = 0 /\ rec.empty = 0
        /\ rec.held = [T.held EXCEPT ![i] = T.held[i] - 1] /\ rec.held \in [Slot -> Nat]
        /\ rec \in TaskType
    <3>1. T.held[i] - 1 \in Nat
      BY <2>4
    <3> QED  BY <3>1, <2>3, <2>4 DEF TaskType
  <2>6. Runs(t, rec)
    BY <1>3 DEF sys_mount, c, f, h
  <2> HIDE DEF rec
  <2>7. \A g : Has(c, g) => g.at \in {"mount_super", "mount"}
    BY <2>1, <2>3
  <2>8. Starting(rec)
    <3>1. Work(c).at = "mount_super" /\ Top(c).at = "mount_super"
      BY <2>1, <2>3
    <3>2. ~Looking(c) /\ ~Has(c, Frame("new_inode", 0))
      BY <2>7, FrameEq DEF Looking
    <3>3. \A j \in Slot : ~Has(c, Frame("chdir", j))
      BY <2>7, FrameEq
    <3> QED  BY <3>1, <3>2, <3>3, <2>3, <2>5, <2>7 DEF Starting, Searching
  <2>9. Types /\ Counts /\ Supers /\ Good(i) /\ Own(t) /\ inode[i].count = 1
    BY <1>3, Parts, GoodFacts
  <2>10. Points(t, i) > 0 /\ Points(t, i) \in Nat
    <3>1. /\ Points(t, i) \in Nat /\ Frames(task[t].stk, i) \in Nat /\ task[t].held[i] \in Nat
          /\ task[t].held[i] + Frames(task[t].stk, i) <= Points(t, i)
      BY <2>9, PointsNat
    <3> QED  BY <3>1, <1>1
  <2>11. /\ OfSupers(i) = 0 /\ \A u \in Task : u # t => Points(u, i) = 0
    <3>1. OfSupers(i) \in Nat /\ Points(t, i) + OfSupers(i) <= inode[i].count
      BY <2>9, CountBounds
    <3>2. OfSupers(i) = 0 /\ Points(t, i) = 1
      BY <3>1, <2>9, <2>10
    <3>3. ASSUME NEW u \in Task, u # t  PROVE Points(u, i) = 0
      <4>1. Points(t, i) + Points(u, i) + OfSupers(i) <= inode[i].count /\ Points(u, i) \in Nat
        BY <3>3, <2>9, CountBounds, PointsNat
      <4> QED  BY <4>1, <3>2, <2>9
    <3> QED  BY <3>2, <3>3
  <2>12. \A s \in Super : super[s].imount # i
    <3> SUFFICES ASSUME NEW s \in Super, super[s].imount = i  PROVE FALSE
      OBVIOUS
    <3>1. Leaving(s)
      BY <2>11, NotMounted
    <3>2. PICK u \in Task : Has(task[u].stk, Frame("umount", s))
      BY <3>1 DEF Leaving
    <3>3. u # t
      BY <3>2, <2>4, EmptyStack
    <3>4. SuperInv(u, s)
      BY HasFacts
    <3>5. cpu # u
      <4>1. CanRun(t)
        BY <1>1, UserFacts
      <4> QED  BY <4>1, <3>3, SlotFacts DEF CanRun
    <3>6. Frames(task[u].stk, i) > 0
      BY <3>2, <3>4, <3>5 DEF SuperInv
    <3>7. /\ Points(u, i) \in Nat /\ Frames(task[u].stk, i) \in Nat /\ task[u].held[i] \in Nat
          /\ task[u].held[i] + Frames(task[u].stk, i) <= Points(u, i)
      BY <2>9, PointsNat
    <3> QED  BY <3>3, <3>6, <3>7, <2>11
  <2>13. \A u \in Task : u # t => ~Has(task[u].stk, Frame("mount", i))
    <3> SUFFICES ASSUME NEW u \in Task, u # t, Has(task[u].stk, Frame("mount", i))  PROVE FALSE
      OBVIOUS
    <3>1. Frame("mount", i) \in FrameType /\ Counting(Frame("mount", i), i) = 1
      BY MakeFrame, FrameEq DEF OnSlot, Counting
    <3>2. Points(u, i) > 0
      BY <3>1, <2>9, PointsNat
    <3> QED  BY <3>2, <2>11
  <2>14. inode[i].dev # 0
    BY <2>9, <1>1 DEF Own
  <2>15. ASSUME NEW j \in Slot
         PROVE  /\ T.held[j] = rec.held[j] + Frames(rec.stk, j) /\ Frames(rec.stk, j) \in Nat
                /\ Has(rec.stk, Frame("mount", j)) =>
                    /\ inode[j].dev # 0 /\ <<inode[j].dev, inode[j].num>> \notin BlkFile
                    /\ \A s \in Super : super[s].imount # j
                    /\ \A u \in Task : u # t => ~Has(task[u].stk, Frame("mount", j))
    <3>1. T.held[j] \in Nat
      BY <2>4
    <3>2. T.held[j] = rec.held[j] + Frames(rec.stk, j) /\ Frames(rec.stk, j) \in Nat
      BY <3>1, <2>3, <2>4, <2>5
    <3>3. Has(rec.stk, Frame("mount", j)) => j = i
      BY <2>1, <2>3, <2>5, FrameEq
    <3> QED  BY <3>2, <3>3, <2>12, <2>13, <2>14, <1>1
  <2> QED  BY <1>1, <2>6, <2>8, <2>15, PlainStart
<1> QED
  BY <1>2, <1>3

LEMMA CloseCallStep ==
    ASSUME InoInv, NEW t \in Task, NEW i \in Slot, Close(t, i)
    PROVE  InoInv'
<1>1. /\ At(t, "user") /\ i \in Holds(t) /\ UNCHANGED <<inode, super, disk, imap, links, panic>>
      /\ Runs(t, [task[t] EXCEPT !.held[i] = @ - 1, !.stk = <<Frame("iput", i)>>])
  BY DEF Close, Begins, BeginsFor, ioVars
<1> QED
  BY <1>1, CloseStep

(* creat and pipe begin with the search for an empty inode.                *)
LEMMA EmptyFirst ==
    ASSUME InoInv, NEW t \in Task, At(t, "user"), NEW at \in {"new_inode", "get_pipe_inode"},
           UNCHANGED <<inode, super, disk, imap, links, panic>>, NEW d \in Dev \cup {0},
           at = "new_inode" =>
              /\ d \in Dev
              /\ \E dir \in Slot : (dir = 1 \/ task[t].held[dir] > 0) /\ d = inode[dir].dev,
           Runs(t, [task[t] EXCEPT !.dev = d,
                      !.stk = <<Frame("empty", 0), Frame(at, 0), Frame("keep", 0)>>])
    PROVE  InoInv'
<1> DEFINE f == Frame("empty", 0)
           h == Frame(at, 0)
           k == Frame("keep", 0)
           c == <<f, h, k>>
           T == task[t]
           rec == [T EXCEPT !.dev = d, !.stk = c]
<1>1. /\ f \in FrameType /\ f.at = "empty" /\ h \in FrameType /\ h.at = at
      /\ k \in FrameType /\ k.at = "keep"
  BY MakeFrame, FrameEq DEF OnNone
<1>2. Fits(k, "user") /\ Fits(h, "keep") /\ Fits(f, at)
  BY <1>1 DEF Fits, IO, Service, Putting, Keeper
<1> HIDE DEF f, h, k
<1>3. /\ c \in Seq(FrameType) /\ Top(c) = f /\ WellFormed(c) /\ Work(c) = f
      /\ (\A g : Has(c, g) <=> g \in {f, h, k})
      /\ \A j : Frames(c, j) = 0
  <2>1. /\ c \in Seq(FrameType) /\ Top(c) = f /\ WellFormed(c)
        /\ Work(c) = (IF f.at \in Service THEN Work(<<h, k>>) ELSE f)
        /\ (\A g : Has(c, g) <=> g \in {f, h, k})
        /\ \A j : Frames(c, j) = Counting(k, j) + Counting(h, j) + Counting(f, j)
    BY <1>1, <1>2, StackThree
  <2>2. \A j : Counting(f, j) = 0 /\ Counting(h, j) = 0 /\ Counting(k, j) = 0
    BY <1>1 DEF Counting
  <2>3. f.at \notin Service
    BY <1>1 DEF Service
  <2> HIDE DEF c
  <2> QED  BY <2>1, <2>2, <2>3
<1>4. T \in TaskType /\ T.got = 0 /\ T.empty = 0
  BY UserFacts
<1> HIDE DEF c
<1>5. rec \in TaskType /\ rec.stk = c /\ rec.got = 0 /\ rec.empty = 0 /\ rec.held = T.held
      /\ rec.dev = d
  BY <1>3, <1>4 DEF TaskType
<1>6. Runs(t, rec)
  BY DEF c, f, h, k
<1> HIDE DEF rec
<1>7. \A g : Has(c, g) => g.at \in {"empty", at, "keep"}
  BY <1>1, <1>3
<1>8. Starting(rec)
  <2>1. Work(c).at = "empty" /\ Top(c).at = "empty"
    BY <1>1, <1>3
  <2>2. ~Looking(c) /\ (Has(c, Frame("new_inode", 0)) => at = "new_inode")
    BY <1>7, FrameEq DEF Looking
  <2>3. \A i \in Slot : ~Has(c, Frame("chdir", i))
    BY <1>7, FrameEq
  <2> QED  BY <2>1, <2>2, <2>3, <1>3, <1>5, <1>7 DEF Starting, Searching
<1>9. ASSUME NEW i \in Slot
      PROVE  /\ T.held[i] = rec.held[i] + Frames(rec.stk, i) /\ Frames(rec.stk, i) \in Nat
             /\ ~Has(rec.stk, Frame("mount", i))
  <2>1. T.held[i] \in Nat
    BY <1>4 DEF TaskType
  <2> QED  BY <2>1, <1>3, <1>5, <1>7, FrameEq
<1> QED
  BY <1>6, <1>8, <1>9, PlainStart

LEMMA CreatStep ==
    ASSUME InoInv, NEW t \in Task, NEW dir \in Slot, Creat(t, dir)
    PROVE  InoInv'
<1>1. /\ At(t, "user") /\ ~inode[dir].pipe /\ UNCHANGED <<inode, super, disk, imap, links, panic>>
      /\ Runs(t, [task[t] EXCEPT !.dev = inode[dir].dev,
            !.stk = <<Frame("empty", 0), Frame("new_inode", 0), Frame("keep", 0)>>])
      /\ (dir = 1 \/ task[t].held[dir] > 0)
  BY DEF Creat, Begins, BeginsFor, ioVars, Holds
<1>2. inode[dir].dev \in Dev
  <2>1. Own(t) /\ Types
    BY Parts
  <2>2. CASE dir = 1
    BY <2>2, GoodFacts, SlotFacts
  <2>3. CASE task[t].held[dir] > 0
    <3>1. inode[dir].dev # 0
      BY <2>1, <2>3, <1>1 DEF Own
    <3> QED  BY <3>1, <2>1 DEF Types, InodeType
  <2> QED  BY <1>1, <2>2, <2>3
<1> QED
  BY <1>1, <1>2, EmptyFirst

LEMMA SysPipeStep ==
    ASSUME InoInv, NEW t \in Task, sys_pipe(t)
    PROVE  InoInv'
<1> DEFINE T == task[t]
           c == <<Frame("empty", 0), Frame("get_pipe_inode", 0), Frame("keep", 0)>>
<1>1. At(t, "user") /\ UNCHANGED <<inode, super, disk, imap, links, panic>>
      /\ Runs(t, [T EXCEPT !.stk = c])
  BY DEF sys_pipe, Begins, BeginsFor, ioVars, Next_
<1>2. T \in TaskType
  BY Parts
<1>3. T.dev \in Dev \cup {0}
  BY <1>2 DEF TaskType
<1>4. [T EXCEPT !.stk = c] = [T EXCEPT !.dev = T.dev, !.stk = c]
  BY <1>2 DEF TaskType
<1> QED
  BY <1>1, <1>3, <1>4, EmptyFirst

(* link and unlink on an inode that the task holds.                        *)
LEMMA HeldFacts ==
    ASSUME InoInv, NEW t \in Task, NEW i \in Slot, task[t].held[i] > 0 \/ task[t].got = i
    PROVE  /\ Points(t, i) > 0 /\ inode[i].count > 0 /\ inode[i].count \in Nat
           /\ inode[i].pipe \/ inode[i].dev # 0
           /\ \A u \in Task : u # t => ~Alone(u, i)
<1>1. Types /\ Counts /\ Supers /\ Own(t)
  BY Parts
<1>2. /\ Points(t, i) \in Nat /\ Frames(task[t].stk, i) \in Nat /\ task[t].held[i] \in Nat
      /\ task[t].held[i] + Frames(task[t].stk, i) <= Points(t, i)
      /\ task[t].empty = i \/ task[t].got = i => Points(t, i) > 0
  BY <1>1, PointsNat
<1>3. Points(t, i) > 0
  BY <1>2
<1>4. inode[i].count \in Nat /\ OfSupers(i) \in Nat /\ Points(t, i) + OfSupers(i) <= inode[i].count
  BY <1>1, CountBounds
<1>5. inode[i].count > 0
  BY <1>2, <1>3, <1>4
<1>6. \A u \in Task : u # t => ~Alone(u, i)
  BY <1>3, AloneFacts
<1>7. inode[i].pipe \/ inode[i].dev # 0
  BY <1>1 DEF Own
<1> QED
  BY <1>3, <1>4, <1>5, <1>6, <1>7

LEMMA RelinkStep ==
    ASSUME InoInv, NEW t \in Task, NEW i \in Slot, NEW n \in Nat, Relink(t, i, n)
    PROVE  InoInv'
<1> DEFINE I == inode[i]
           q == <<I.dev, I.num>>
<1>1. /\ At(t, "user") /\ task[t].held[i] > 0 /\ ~I.pipe /\ links[q] > 0
      /\ n \in {links[q] - 1, links[q] + 1}
      /\ inode' = [inode EXCEPT ![i].nlinks = IF n > links[q] THEN @ + 1 ELSE @ - 1, ![i].dirt = TRUE]
      /\ links' = [links EXCEPT ![q] = n]
      /\ UNCHANGED <<super, disk, imap, task, cpu, panic>>
  BY DEF Relink, Begins, BeginsFor, Holds
<1>2. /\ Types /\ Own(t) /\ Unique /\ Linked /\ task[t] \in TaskType /\ I \in InodeType
      /\ inode \in [Slot -> InodeType] /\ links \in [Dev \X Num -> Nat] /\ task \in [Task -> TaskType]
      /\ 0 \notin Slot /\ Good(i)
  BY Parts, SlotFacts, GoodFacts DEF Types
<1>3. /\ CanRun(t) /\ task[t].stk = <<>> /\ task[t].got = 0 /\ task[t].empty = 0
      /\ (\A g : ~Has(task[t].stk, g)) /\ \A j \in Slot : inode[j].lock # t
  BY <1>1, UserFacts
<1>4. /\ Points(t, i) > 0 /\ I.count > 0 /\ I.dev # 0 /\ \A u \in Task : ~Alone(u, i)
  <2>1. ~Alone(t, i)
    BY <1>2, <1>3 DEF Alone
  <2> QED  BY <2>1, <1>1, HeldFacts
<1>5. q \in Dev \X Num /\ q \in imap /\ I.num \in Num /\ I.dev \in Dev
  BY <1>2, <1>4 DEF Good, InodeType
<1>6. InCore(i) /\ I.nlinks = links[q]
  <2>1. InCore(i)
    BY <1>4 DEF InCore, Alone
  <2> QED  BY <2>1, <1>2, <1>4 DEF Linked
<1>7. /\ inode' = [inode EXCEPT ![i] = [I EXCEPT !.nlinks = n, !.dirt = TRUE]]
      /\ n \in Nat /\ links[q] \in Nat
  <2>1. links[q] \in Nat
    BY <1>2, <1>5
  <2>2. (IF n > links[q] THEN I.nlinks + 1 ELSE I.nlinks - 1) = n
    BY <1>1, <1>6, <2>1
  <2> QED  BY <1>1, <1>2, <2>1, <2>2
<1>8. inode' \in [Slot -> InodeType] /\ links' \in [Dev \X Num -> Nat]
  <2>1. [I EXCEPT !.nlinks = n, !.dirt = TRUE] \in InodeType
    BY <1>2, <1>7 DEF InodeType
  <2> DEFINE J == [I EXCEPT !.nlinks = n, !.dirt = TRUE]
  <2> HIDE DEF J
  <2>2. inode' \in [Slot -> InodeType]
    BY <2>1, <1>2, <1>7 DEF J
  <2>3. links' \in [Dev \X Num -> Nat]
    BY <1>1, <1>2, <1>5
  <2> QED  BY <2>2, <2>3
<1>9. Types'
  BY <1>1, <1>2, <1>8 DEF Types
<1>10. /\ \A j \in Slot : j # i => inode'[j] = inode[j]
       /\ inode'[i].dev = I.dev /\ inode'[i].num = I.num /\ inode'[i].count = I.count
       /\ inode'[i].lock = I.lock /\ inode'[i].pipe = I.pipe /\ inode'[i].mount = I.mount
       /\ inode'[i].nlinks = n /\ inode'[i].dirt = TRUE
  BY <1>2, <1>7 DEF InodeType
<1>11. \A j \in Slot : /\ inode'[j].dev = inode[j].dev /\ inode'[j].num = inode[j].num
                       /\ inode'[j].pipe = inode[j].pipe /\ inode'[j].lock = inode[j].lock
                       /\ inode'[j].mount = inode[j].mount /\ inode'[j].count = inode[j].count
  BY <1>10
<1>12. Runs(t, task[t])
  <2>1. cpu = None
    <3>1. cpu # t
      BY <1>2, <1>3, EmptyStack, FrameEq DEF Own
    <3> QED  BY <3>1, <1>3 DEF CanRun
  <2>2. Top(task[t].stk).at = "user"
    BY <1>3, EmptyStack, FrameEq
  <2>3. task' = [task EXCEPT ![t] = task[t]]
    BY <1>1, <1>2
  <2> QED  BY <1>1, <2>1, <2>2, <2>3 DEF Runs
<1>13. Starting(task[t])
  <2>1. /\ Work(task[t].stk).at = "user" /\ Top(task[t].stk).at = "user" /\ WellFormed(task[t].stk)
    BY <1>3, EmptyStack, FrameEq
  <2>2. ~Looking(task[t].stk)
    BY <1>3 DEF Looking
  <2> QED  BY <2>1, <2>2, <1>2, <1>3 DEF Starting, Searching
<1>14. Own(t)'
  BY <1>1, <1>3, <1>9, <1>11, <1>12, <1>13, StartOwn
<1>15. ASSUME NEW u \in Task, u # t  PROVE Spared(t, u)
  <2>1. task[u].empty # i /\ ~Has(task[u].stk, Frame("trunc", i)) /\ ~Has(task[u].stk, Frame("read", i))
    BY <1>4 DEF Alone
  <2>2. ASSUME NEW j \in Slot, Has(task[u].stk, Frame("read", j))
        PROVE  inode'[j] = inode[j] /\ links'[<<inode[j].dev, inode[j].num>>] > 0
    <3>1. j # i
      BY <2>1, <2>2
    <3>2. /\ inode[j].dev # 0 /\ links[<<inode[j].dev, inode[j].num>>] > 0
      BY <2>2, HasFacts DEF SlotInv
    <3>3. ~Matches(j, I.dev, I.num)
      BY <3>1, <3>2, <1>2 DEF Unique
    <3>4. <<inode[j].dev, inode[j].num>> # q
      BY <3>3 DEF Matches
    <3>5. <<inode[j].dev, inode[j].num>> \in Dev \X Num
      BY <3>2, <1>2, GoodFacts DEF Good, InodeType
    <3> QED  BY <3>1, <3>2, <3>4, <3>5, <1>1, <1>2, <1>10
  <2>3. super' = super
    BY <1>1
  <2>4. \A s \in Super : \A j \in Slot : Has(task[u].stk, Frame("mount", j)) => super[s].imount # j
    BY HasFacts DEF SlotInv
  <2> QED  BY <2>1, <2>2, <2>3, <2>4, <1>10, <1>11 DEF Spared
<1>16. Steady(t)
  <2>1. cpu \in {t, None} /\ cpu' \in {t, None}
    BY <1>1, <1>3 DEF CanRun
  <2>2. OnlyTask(t)
    BY <1>1 DEF OnlyTask
  <2>3. ASSUME NEW j \in Slot
        PROVE  inode'[j].count - inode[j].count = Points(t, j)' - Points(t, j)
    <3>1. Points(t, j)' = Points(t, j) /\ Points(t, j) \in Nat
      BY <1>1, <1>2, <1>11, PointsNat DEF Points
    <3>2. inode[j].count \in Nat
      BY <1>2 DEF InodeType
    <3> DEFINE a == inode[j].count
               x == Points(t, j)
    <3>3. inode'[j].count = a /\ Points(t, j)' = x /\ a \in Nat /\ x \in Nat
      BY <3>1, <3>2, <1>11
    <3> HIDE DEF a, x
    <3>4. a - a = x - x
      BY <3>3
    <3> QED  BY <3>3, <3>4 DEF a, x
  <2> QED  BY <2>1, <2>2, <2>3, <1>1, <1>11, <1>15 DEF Steady
<1>17. Table'
  <2>1. \A d : Mounted(d) => Mounted(d)'
    BY <1>1, <1>2, <1>11, MountedSame DEF Types, SuperType
  <2>2. Good(i)'
    <3>1. Mounted(inode[i].dev)'
      BY <2>1, <1>2, <1>4, <1>10 DEF Good
    <3> QED  BY <3>1, <1>1, <1>2, <1>4, <1>5, <1>10 DEF Good
  <2>3. \A j \in Slot : inode[j].dev # 0 => <<inode[j].dev, inode[j].num>> \in imap'
    BY <1>1, GoodFacts DEF Good
  <2> QED  BY <2>1, <2>2, <2>3, <1>10, TableStep
<1>18. Unique'
  BY <1>2, <1>11 DEF Unique, Matches
<1>19. \A j \in Slot : InCore(j)' <=> InCore(j)
  BY <1>1 DEF InCore
<1>20. Linked'
  <2>1. \A p \in Dev \X Num : p # q => links'[p] = links[p]
    BY <1>1, <1>2
  <2>2. \A p \in Dev \X Num : links'[p] > 0 => p \in imap'
    BY <2>1, <1>1, <1>2, <1>5 DEF Linked
  <2>3. ASSUME NEW p \in Dev \X Num, links'[p] > 0,
               \A j \in Slot : ~(Matches(j, p[1], p[2])' /\ InCore(j)')
        PROVE  disk'[p] = links'[p]
    <3>1. p # q
      BY <2>3, <1>6, <1>10, <1>19 DEF Matches
    <3>2. \A j \in Slot : ~(Matches(j, p[1], p[2]) /\ InCore(j))
      BY <2>3, <1>11, <1>19 DEF Matches
    <3> QED  BY <2>1, <2>3, <3>1, <3>2, <1>1, <1>2 DEF Linked
  <2>4. ASSUME NEW j \in Slot, inode'[j].dev # 0, InCore(j)'
        PROVE  /\ inode'[j].nlinks = links'[<<inode'[j].dev, inode'[j].num>>]
               /\ ~inode'[j].dirt => disk'[<<inode'[j].dev, inode'[j].num>>] = inode'[j].nlinks
    <3>1. CASE j = i
      <4>1. links'[q] = n
        BY <1>1, <1>2, <1>5
      <4> QED  BY <3>1, <4>1, <1>10
    <3>2. CASE j # i
      <4>1. ~Matches(j, I.dev, I.num)
        BY <3>2, <2>4, <1>2, <1>11 DEF Unique
      <4>2. <<inode[j].dev, inode[j].num>> # q
        BY <4>1 DEF Matches
      <4>3. <<inode[j].dev, inode[j].num>> \in Dev \X Num
        BY <2>4, <1>2, <1>11, GoodFacts DEF Good, InodeType
      <4>4. links'[<<inode[j].dev, inode[j].num>>] = links[<<inode[j].dev, inode[j].num>>]
        BY <4>2, <4>3, <2>1
      <4> QED  BY <4>4, <3>2, <2>4, <1>1, <1>2, <1>10, <1>19 DEF Linked
    <3> QED  BY <3>1, <3>2
  <2> QED  BY <2>2, <2>3, <2>4 DEF Linked
<1> QED
  BY <1>9, <1>14, <1>16, <1>17, <1>18, <1>20, SteadyStep

(***************************************************************************)
(* The functions that the services work for.                               *)
(***************************************************************************)
(* The stack of a task that looks for an inode: what it is for is below.   *)
LEMMA OverKeeper ==
    ASSUME InoInv, NEW t \in Task,
           NEW at \in {"iget", "scan", "found", "cross", "read", "new_inode", "get_pipe_inode"},
           At(t, at)
    PROVE  LET R == Rest(t) k == Top(R) IN
           /\ R \in Seq(FrameType) /\ R # <<>> /\ k \in FrameType /\ k.at \in Keeper
           /\ WellFormed(R) /\ Work(R) = k /\ (\A g : Has(R, g) <=> g = k)
           /\ (\A i : Frames(R, i) = 0)
           /\ at \in {"new_inode", "get_pipe_inode"} => k.at = "keep"
<1> DEFINE S == task[t].stk
           R == Rest(t)
           k == Top(R)
<1>1. /\ S \in Seq(FrameType) /\ R \in Seq(FrameType) /\ WellFormed(R) /\ Fits(Head(S), k.at)
      /\ Head(S).at = at
  <2>1. at # "user"
    OBVIOUS
  <2> QED  BY <2>1, AtFacts
<1>2. k.at \in Keeper /\ (at \in {"new_inode", "get_pipe_inode"} => k.at = "keep")
  BY <1>1 DEF Fits, Keeper
<1>3. "user" \notin Keeper
  BY DEF Keeper
<1>4. R # <<>> /\ k \in FrameType /\ k = Head(R)
  BY <1>1, <1>2, <1>3, TopFacts
<1> HIDE DEF R, k
<1>5. Tail(R) = <<>> /\ \A g : Has(R, g) <=> g = k
  <2>1. Top(R).at \in Keeper \cup {"mount", "umount"}
    BY <1>2 DEF k
  <2> QED  BY <2>1, <1>1, <1>4, LastFrame DEF k
<1>6. /\ Work(R) = (IF Head(R).at \in Service THEN Work(Tail(R)) ELSE Head(R))
      /\ \A i : Frames(R, i) = Frames(Tail(R), i) + Counting(Head(R), i)
  BY <1>1, <1>4, Below
<1>7. k.at \notin Service /\ \A i : Counting(k, i) = 0
  BY <1>2 DEF Keeper, Service, Counting
<1>8. \A i : Frames(<<>>, i) = 0
  BY EmptyStack
<1>9. ASSUME NEW i  PROVE Frames(R, i) = 0
  <2>1. Frames(R, i) = Frames(Tail(R), i) + Counting(Head(R), i)
    BY <1>6
  <2>2. Frames(Tail(R), i) = 0 /\ Counting(Head(R), i) = 0
    BY <1>4, <1>5, <1>7, <1>8
  <2> QED  BY <2>1, <2>2
<1> QED
  BY <1>1, <1>2, <1>4, <1>5, <1>6, <1>7, <1>9 DEF R, k

(* The same for the search for an empty inode, which is for a search.      *)
LEMMA OverSearch ==
    ASSUME InoInv, NEW t \in Task, At(t, "empty")
    PROVE  LET R == Rest(t) h == Top(R) IN
           /\ R \in Seq(FrameType) /\ R # <<>> /\ h \in FrameType
           /\ h.at \in {"scan", "new_inode", "get_pipe_inode"} /\ Head(R) = h
           /\ WellFormed(R) /\ Work(R) = h /\ (\A i : Frames(R, i) = 0)
           /\ \A g : Has(R, g) => g = h \/ g.at \in Keeper
<1> DEFINE S == task[t].stk
           R == Rest(t)
           h == Top(R)
<1>1. /\ S \in Seq(FrameType) /\ R \in Seq(FrameType) /\ WellFormed(R) /\ Fits(Head(S), h.at)
      /\ Head(S).at = "empty"
  BY AtFacts
<1>2. h.at \in {"scan", "new_inode", "get_pipe_inode"}
  BY <1>1 DEF Fits
<1>4. R # <<>> /\ h \in FrameType /\ h = Head(R)
  BY <1>1, <1>2, TopFacts
<1> HIDE DEF R, h
<1>5. /\ Tail(R) \in Seq(FrameType) /\ WellFormed(Tail(R)) /\ Fits(Head(R), Top(Tail(R)).at)
      /\ (\A g : Has(R, g) <=> g = Head(R) \/ Has(Tail(R), g))
      /\ Work(R) = (IF Head(R).at \in Service THEN Work(Tail(R)) ELSE Head(R))
      /\ \A i : Frames(R, i) = Frames(Tail(R), i) + Counting(Head(R), i)
  BY <1>1, <1>4, Below
<1>6. Top(Tail(R)).at \in Keeper
  BY <1>2, <1>4, <1>5 DEF Fits, Keeper
<1>7. Tail(R) # <<>>
  BY <1>6, <1>5, TopFacts DEF Keeper
<1>8. /\ Tail(Tail(R)) = <<>> /\ \A g : Has(Tail(R), g) <=> g = Top(Tail(R))
  <2>1. Top(Tail(R)).at \in Keeper \cup {"mount", "umount"}
    BY <1>6
  <2> QED  BY <2>1, <1>5, <1>7, LastFrame
<1>9. \A i : Frames(Tail(R), i) = Frames(Tail(Tail(R)), i) + Counting(Head(Tail(R)), i)
  BY <1>5, <1>7, Below
<1>10. Head(Tail(R)) = Top(Tail(R))
  BY <1>5, <1>7, TopFacts
<1>11. \A i : Counting(Top(Tail(R)), i) = 0 /\ Counting(h, i) = 0
  BY <1>2, <1>6 DEF Keeper, Counting
<1>12. h.at \notin Service
  BY <1>2 DEF Service
<1>13. \A i : Frames(<<>>, i) = 0
  BY EmptyStack
<1>14. \A i : Frames(R, i) = 0
  <2>1. ASSUME NEW i  PROVE Frames(Tail(R), i) = 0
    <3>1. Frames(Tail(R), i) = Frames(Tail(Tail(R)), i) + Counting(Head(Tail(R)), i)
      BY <1>9
    <3>2. Frames(Tail(Tail(R)), i) = 0 /\ Counting(Head(Tail(R)), i) = 0
      BY <1>8, <1>10, <1>11, <1>13
    <3> DEFINE a == Frames(Tail(R), i)
               b == Frames(Tail(Tail(R)), i)
               d == Counting(Head(Tail(R)), i)
    <3>3. a = b + d /\ b = 0 /\ d = 0
      BY <3>1, <3>2
    <3> HIDE DEF a, b, d
    <3>4. a = 0
      BY <3>3
    <3> QED  BY <3>4 DEF a
  <2> QED  BY <2>1, <1>4, <1>5, <1>11
<1>15. \A g : Has(R, g) => g = h \/ g.at \in Keeper
  BY <1>4, <1>5, <1>6, <1>8
<1>16. Work(R) = h
  BY <1>4, <1>5, <1>12
<1> QED
  BY <1>1, <1>2, <1>4, <1>14, <1>15, <1>16 DEF R, h

(* The variables of the call at a function that is no service.             *)
LEMMA WorkFacts ==
    ASSUME InoInv, NEW t \in Task, NEW at, at \notin Service \cup {"user"}, At(t, at)
    PROVE  /\ WorkOK(task[t], at) /\ (\A i \in Slot : inode[i].lock = t => at = "read")
           /\ task[t].empty # 0 => inode[task[t].empty] = [Zeroed EXCEPT !.count = 1]
           /\ \A i \in Slot : task[t].held[i] > 0 \/ task[t].got = i => inode[i].pipe \/ inode[i].dev # 0
<1> DEFINE S == task[t].stk
<1>1. Own(t)
  BY Parts
<1>2. Work(S) = Head(S) /\ Head(S).at = at /\ Top(S) = Head(S)
  BY AtFacts
<1>3. WorkOK(task[t], at)
  BY <1>1, <1>2 DEF Own
<1>4. ASSUME NEW i \in Slot, inode[i].lock = t  PROVE at = "read"
  <2>1. Top(S) \in {Frame("read", i), Frame("write", i)}
    BY <1>1, <1>4 DEF Own
  <2> QED  BY <2>1, <1>2, FrameEq DEF Service
<1> QED
  BY <1>1, <1>3, <1>4 DEF Own

(* Own for the next step of such a function.                               *)
LEMMA WorkOwn ==
    ASSUME InoInv, Types', NEW t \in Task, CanRun(t), NEW rec \in TaskType, Runs(t, rec),
           WellFormed(rec.stk), WorkOK(rec, Work(rec.stk).at), super' = super,
           \A g : Has(rec.stk, g) => g.at \in Plain \cup {"read"},
           \A i \in Slot :
              /\ Has(rec.stk, Frame("chdir", i)) =>
                    rec.held[i] > 0 /\ (rec.got # 0 => inode'[rec.got].dev # 0)
              /\ Has(rec.stk, Frame("read", i)) =>
                    /\ inode'[i].dev # 0 /\ inode'[i].count = 1 /\ ~inode'[i].dirt
                    /\ links'[<<inode'[i].dev, inode'[i].num>>] > 0 /\ inode'[i].lock = t
              /\ rec.held[i] > 0 \/ rec.got = i => inode'[i].pipe \/ inode'[i].dev # 0
              /\ inode'[i].lock = t => Top(rec.stk) = Frame("read", i),
           rec.empty # 0 => inode'[rec.empty] = [Zeroed EXCEPT !.count = 1],
           DevInv(task[t])', CrossOK(t)'
    PROVE  Own(t)'
<1> DEFINE c == rec.stk
<1>1. Types /\ c \in Seq(FrameType)
  BY Parts DEF TaskType
<1>2. /\ task'[t] = rec
      /\ cpu' = t => Top(c).at \notin IO \cup {"user"} /\ ~Blocked(Top(c), inode')
  BY <1>1, RunsFacts
<1>3. Top(c).at # "mount" /\ Top(c).at # "mount_super"
  <2>1. CASE c = <<>>
    BY <2>1, EmptyStack, FrameEq
  <2>2. CASE c # <<>>
    <3>1. Has(c, Top(c))
      <4>1. c[1] = Head(c) /\ 1 \in DOMAIN c
        BY <2>2, <1>1
      <4> QED  BY <4>1, <2>2, <1>1, TopFacts DEF Has
    <3>2. Top(c).at \in Plain \cup {"read"}
      BY <3>1
    <3> QED  BY <3>2 DEF Plain, Keeper
  <2> QED  BY <2>1, <2>2
<1>4. ASSUME NEW i \in Slot  PROVE SlotInv(t, i)'
  <2>1. /\ ~Has(c, Frame("irepeat", i)) /\ ~Has(c, Frame("trunc", i))
        /\ ~Has(c, Frame("mount", i)) /\ ~Has(c, Frame("write", i))
    BY FrameEq DEF Plain, Keeper
  <2>2. /\ Has(c, Frame("chdir", i)) =>
                    rec.held[i] > 0 /\ (rec.got # 0 => inode'[rec.got].dev # 0)
        /\ Has(c, Frame("read", i)) =>
                    /\ inode'[i].dev # 0 /\ inode'[i].count = 1 /\ ~inode'[i].dirt
                    /\ links'[<<inode'[i].dev, inode'[i].num>>] > 0 /\ inode'[i].lock = t
    OBVIOUS
  <2> HIDE DEF c
  <2> QED  BY <2>1, <2>2, <1>2 DEF SlotInv, c
<1>5. ASSUME NEW s \in Super  PROVE SuperInv(t, s)'
  <2>1. ~Has(c, Frame("read_super", s)) /\ ~Has(c, Frame("umount", s))
    BY FrameEq DEF Plain, Keeper
  <2> QED  BY <2>1, <1>2 DEF SuperInv
<1>6. cpu' = t => Top(c).at \notin IO \cup {"user"} /\ ~Blocked(Top(c), inode)'
  BY <1>2, BlockedSame
<1>7. \A i \in Slot : inode'[i].lock = t => Top(c) \in {Frame("read", i), Frame("write", i)}
  OBVIOUS
<1>8. /\ \A i \in Slot : rec.held[i] > 0 \/ rec.got = i => inode'[i].pipe \/ inode'[i].dev # 0
      /\ rec.empty # 0 => inode'[rec.empty] = [Zeroed EXCEPT !.count = 1]
  OBVIOUS
<1> QED
  BY <1>2, <1>3, <1>4, <1>5, <1>6, <1>7, <1>8 DEF Own

LEMMA WorkQuiet ==
    ASSUME InoInv, Types', NEW t \in Task, CanRun(t), NEW rec \in TaskType, Runs(t, rec), Own(t)',
           UNCHANGED <<super, disk, imap, links, panic>>,
           \A g : Has(task[t].stk, g) => g.at \in Plain,
           \A g : Has(rec.stk, g) => g.at \in Plain,
           \A i \in Slot :
              /\ inode'[i] = inode[i] \/ Touched(t, i)
              /\ inode'[i].count - inode[i].count = Pointers(rec, i, inode[i].pipe) - Points(t, i)
    PROVE  InoInv'
<1>1. Types /\ \A i \in Slot : Good(i)
  BY Parts, GoodFacts
<1>2. task'[t] = rec /\ OnlyTask(t) /\ cpu \in {t, None} /\ cpu' \in {t, None}
  BY <1>1, RunsFacts
<1>3. UNCHANGED <<super, disk, imap, links, panic>>
  OBVIOUS
<1>4. /\ \A i \in Slot : ~Has(task[t].stk, Frame("read", i)) /\ ~Has(rec.stk, Frame("read", i))
                         /\ ~Has(rec.stk, Frame("mount", i))
      /\ \A s \in Super : /\ ~Has(task[t].stk, Frame("umount", s)) /\ ~Has(rec.stk, Frame("umount", s))
                          /\ ~Has(rec.stk, Frame("read_super", s))
  BY FrameEq DEF Plain, Keeper
<1>5. ASSUME NEW i \in Slot
      PROVE  /\ inode'[i].dev = inode[i].dev /\ inode'[i].num = inode[i].num
             /\ inode'[i].mount = inode[i].mount /\ inode'[i].nlinks = inode[i].nlinks
             /\ inode'[i].pipe = inode[i].pipe /\ inode'[i].lock = inode[i].lock
             /\ inode'[i].pipe => inode[i].dev = 0
             /\ inode'[i].dirt => inode[i].dev # 0
             /\ inode'[i].dirt = inode[i].dirt \/ inode'[i].dirt
             /\ inode'[i].count = 0 => ~inode'[i].dirt /\ inode'[i].lock = None
             /\ inode'[i].count > 0 /\ inode[i].dev # 0 => inode[i].count > 0 \/ Mounted(inode[i].dev)
  <2>1. Good(i) /\ inode[i] \in InodeType
    BY <1>1 DEF Types
  <2>2. CASE inode'[i] = inode[i]
    BY <2>1, <2>2 DEF Good
  <2>3. CASE Touched(t, i)
    <3>1. inode'[i].count # 0
      BY <2>3 DEF Touched
    <3> QED  BY <2>1, <2>3, <3>1 DEF Good, Touched
  <2> QED  BY <2>2, <2>3
<1>6. ASSUME NEW i \in Slot, inode'[i] # inode[i]
      PROVE  \A u \in Task : u # t =>
                    /\ task[u].empty # i /\ ~Has(task[u].stk, Frame("read", i))
                    /\ ~Has(task[u].stk, Frame("trunc", i))
  <2>1. Touched(t, i)
    BY <1>6
  <2> QED  BY <2>1 DEF Touched, Alone
<1>7. ASSUME NEW i \in Slot, inode'[i].count # inode[i].count
      PROVE  \A u \in Task : u # t => ~Has(task[u].stk, Frame("trunc", i))
  <2>1. inode'[i] # inode[i]
    BY <1>7
  <2> QED  BY <2>1, <1>6
<1>8. ASSUME NEW i \in Slot
      PROVE  inode'[i].count - inode[i].count = Points(t, i)' - Points(t, i)
  <2>1. Points(t, i)' = Pointers(rec, i, inode[i].pipe)
    BY <1>2, <1>5 DEF Points
  <2> QED  BY <2>1
<1>9. Quiet(t)
  BY <1>2, <1>3, <1>4, <1>5, <1>6, <1>7, <1>8 DEF Quiet
<1> QED
  BY <1>9, QuietStep

(* The device of the call goes on to be known.                             *)
LEMMA DevKept ==
    ASSUME InoInv, NEW t \in Task, NEW rec \in TaskType, task'[t] = rec,
           Looking(rec.stk) \/ Has(rec.stk, Frame("new_inode", 0)) =>
              rec.dev = task[t].dev /\ rec.nr = task[t].nr /\ rec.held = task[t].held,
           Looking(rec.stk) => Looking(task[t].stk),
           Has(rec.stk, Frame("new_inode", 0)) => Has(task[t].stk, Frame("new_inode", 0)),
           Has(rec.stk, Frame("change", 0)) /\ rec.got # 0 => inode'[rec.got].dev # 0,
           \A j \in Slot : task[t].held[j] > 0 => inode'[j].dev = inode[j].dev
    PROVE  DevInv(task[t])'
<1>1. DevInv(task[t])
  BY HasFacts
<1>2. ASSUME rec.dev = task[t].dev, rec.held = task[t].held, Safe(task[t])  PROVE Safe(task[t])'
  BY <1>2 DEF Safe
<1>3. Looking(rec.stk) => rec.dev \in Dev /\ rec.nr \in Num /\ (rec.nr = ROOT_INO \/ Safe(task[t])')
  BY <1>1, <1>2 DEF DevInv
<1>4. Has(rec.stk, Frame("new_inode", 0)) => rec.dev \in Dev /\ Safe(task[t])'
  BY <1>1, <1>2 DEF DevInv
<1> QED
  BY <1>3, <1>4 DEF DevInv, Safe

(* A frame of Keeper is the last one.                                      *)
LEMMA AtKeeper ==
    ASSUME InoInv, NEW t \in Task, NEW at \in Keeper, At(t, at)
    PROVE  LET T == task[t] IN
           /\ CanRun(t) /\ Rest(t) = <<>> /\ T \in TaskType /\ Types
           /\ (\A g : Has(T.stk, g) => g.at \in Plain) /\ Has(T.stk, Frame(at, It(t)))
           /\ (\A j : Frames(T.stk, j) = 0) /\ T.empty = 0
           /\ (at # "keep" => T.got # 0) /\ Frame(at, It(t)) \in FrameType
           /\ (\A i \in Slot : inode[i].lock # t)
           /\ \A i \in Slot : Points(t, i) =
                T.held[i] + (IF T.got # i THEN 0 ELSE IF inode[i].pipe THEN 2 ELSE 1)
<1> DEFINE T == task[t]
           S == T.stk
<1>1. Types /\ T \in TaskType
  BY Parts
<1>2. at \notin Service \cup {"user"} /\ at \in Plain
  BY DEF Keeper, Service, Plain
<1>3. /\ CanRun(t) /\ S \in Seq(FrameType) /\ S # <<>> /\ WellFormed(S) /\ Top(S) = Head(S)
      /\ Head(S).at = at /\ Rest(t) = Tail(S) /\ Head(S) = Frame(at, It(t)) /\ Head(S) \in FrameType
      /\ \A i : Frames(S, i) = Frames(Tail(S), i) + Counting(Head(S), i)
  BY <1>2, AtFacts
<1> HIDE DEF S
<1>4. Tail(S) = <<>> /\ \A g : Has(S, g) <=> g = Top(S)
  BY <1>3, LastFrame
<1>5. WorkOK(T, at) /\ (\A i \in Slot : inode[i].lock # t)
  <2>1. at # "read"
    BY DEF Keeper
  <2> QED  BY <2>1, <1>2, WorkFacts
<1>6. T.empty = 0 /\ (at # "keep" => T.got # 0)
  BY <1>5 DEF WorkOK, Keeper, Searching
<1>7. ASSUME NEW j  PROVE Frames(S, j) = 0
  <2>1. Frames(S, j) = Frames(Tail(S), j) + Counting(Head(S), j)
    BY <1>3
  <2>2. Frames(Tail(S), j) = 0 /\ Counting(Head(S), j) = 0
    BY <1>3, <1>4, EmptyStack DEF Counting, Keeper
  <2> QED  BY <2>1, <2>2
<1>8. ASSUME NEW i \in Slot
      PROVE  Points(t, i) = T.held[i] + (IF T.got # i THEN 0 ELSE IF inode[i].pipe THEN 2 ELSE 1)
  <2>1. T.held[i] \in Nat /\ 0 \notin Slot
    BY <1>1, SlotFacts DEF TaskType
  <2>2. Points(t, i) = T.held[i] + Frames(T.stk, i) + (IF T.empty = i THEN 1 ELSE 0)
                       + (IF T.got # i THEN 0 ELSE IF inode[i].pipe THEN 2 ELSE 1)
    BY DEF Points, Pointers
  <2>3. Frames(T.stk, i) = 0 /\ (IF T.empty = i THEN 1 ELSE 0) = 0
    BY <1>6, <1>7, <2>1 DEF S
  <2> DEFINE x == IF T.got # i THEN 0 ELSE IF inode[i].pipe THEN 2 ELSE 1
             y == IF T.empty = i THEN 1 ELSE 0
  <2>4. x \in Nat /\ Points(t, i) = T.held[i] + Frames(T.stk, i) + y + x /\ y = 0
    BY <2>2, <2>3
  <2> HIDE DEF x, y
  <2>5. Points(t, i) = T.held[i] + x
    BY <2>1, <2>3, <2>4
  <2> QED  BY <2>5 DEF x
<1>9. /\ (\A g : Has(S, g) => g.at \in Plain) /\ Has(S, Frame(at, It(t)))
  BY <1>2, <1>3, <1>4
<1> QED
  BY <1>1, <1>3, <1>4, <1>5, <1>6, <1>7, <1>8, <1>9 DEF S

(* The inode that a call has got, marked dirty or not.                     *)
LEMMA Marked ==
    ASSUME InoInv, NEW t \in Task, NEW i \in Slot, task[t].got = i, inode[i].dev # 0,
           inode' = [inode EXCEPT ![i].dirt = TRUE]
    PROVE  /\ inode' \in [Slot -> InodeType] /\ Touched(t, i)
           /\ \A j \in Slot : /\ inode'[j] = inode[j] \/ Touched(t, j)
                              /\ inode'[j].dev = inode[j].dev /\ inode'[j].pipe = inode[j].pipe
                              /\ inode'[j].lock = inode[j].lock /\ inode'[j].count = inode[j].count
<1>1. Types /\ Good(i)
  BY Parts, GoodFacts
<1>2. inode \in [Slot -> InodeType] /\ inode[i] \in InodeType
  BY <1>1 DEF Types
<1>3. /\ inode' = [inode EXCEPT ![i] = [inode[i] EXCEPT !.dirt = TRUE]]
      /\ [inode[i] EXCEPT !.dirt = TRUE] \in InodeType
  BY <1>2 DEF InodeType
<1>4. inode' \in [Slot -> InodeType]
  BY <1>2, <1>3
<1>5. /\ \A j \in Slot : j # i => inode'[j] = inode[j]
      /\ inode'[i].dev = inode[i].dev /\ inode'[i].num = inode[i].num
      /\ inode'[i].pipe = inode[i].pipe /\ inode'[i].lock = inode[i].lock
      /\ inode'[i].mount = inode[i].mount /\ inode'[i].nlinks = inode[i].nlinks
      /\ inode'[i].count = inode[i].count /\ inode'[i].dirt
  BY <1>2, <1>3 DEF InodeType
<1>6. inode[i].count > 0 /\ \A u \in Task : u # t => ~Alone(u, i)
  BY HeldFacts
<1>7. Mounted(inode[i].dev)
  BY <1>1, <1>6 DEF Good
<1>8. Touched(t, i)
  BY <1>5, <1>6, <1>7 DEF Touched
<1> QED
  BY <1>4, <1>5, <1>8

LEMMA KeepStep ==
    ASSUME InoInv, NEW t \in Task, Keep(t)
    PROVE  InoInv'
<1> DEFINE T == task[t]
<1>0. PICK i : i = T.got
  OBVIOUS
<1>1. /\ At(t, "keep") /\ UNCHANGED <<super, disk, imap, links, panic>>
      /\ inode' = IF i = 0 \/ inode[i].pipe THEN inode ELSE [inode EXCEPT ![i].dirt = TRUE]
      /\ Runs(t, [T EXCEPT !.stk = Rest(t), !.got = 0,
                   !.held = [j \in Slot |-> T.held[j]
                                + IF j # i THEN 0 ELSE IF inode[j].pipe THEN 2 ELSE 1]])
  BY <1>0 DEF Keep, ioVars
<1>2. /\ CanRun(t) /\ Rest(t) = <<>> /\ T \in TaskType /\ Types
      /\ (\A g : Has(T.stk, g) => g.at \in Plain) /\ T.empty = 0
      /\ (\A j \in Slot : inode[j].lock # t)
      /\ \A j \in Slot : Points(t, j) =
                T.held[j] + (IF T.got # j THEN 0 ELSE IF inode[j].pipe THEN 2 ELSE 1)
  <2>1. "keep" \in Keeper
    BY DEF Keeper
  <2> QED  BY <1>1, <2>1, AtKeeper
<1>3. i \in Slot \cup {0} /\ 0 \notin Slot /\ T.held \in [Slot -> Nat]
  BY <1>0, <1>2, SlotFacts DEF TaskType
<1> DEFINE H == [j \in Slot |-> T.held[j]
                                + IF j # i THEN 0 ELSE IF inode[j].pipe THEN 2 ELSE 1]
           rec == [T EXCEPT !.stk = <<>>, !.got = 0, !.held = H]
<1>4. H \in [Slot -> Nat] /\ \A j \in Slot :
            H[j] = T.held[j] + (IF j # i THEN 0 ELSE IF inode[j].pipe THEN 2 ELSE 1)
  BY <1>3
<1>5. Runs(t, rec)
  BY <1>1, <1>2
<1> HIDE DEF H
<1>6. rec \in TaskType /\ rec.stk = <<>> /\ rec.got = 0 /\ rec.empty = 0 /\ rec.held = H
  BY <1>2, <1>3, <1>4, EmptyStack DEF TaskType
<1> HIDE DEF rec
<1>7. /\ \A j \in Slot : /\ inode'[j] = inode[j] \/ Touched(t, j)
                         /\ inode'[j].dev = inode[j].dev /\ inode'[j].pipe = inode[j].pipe
                         /\ inode'[j].lock = inode[j].lock /\ inode'[j].count = inode[j].count
      /\ inode' \in [Slot -> InodeType]
  <2>1. CASE i = 0 \/ inode[i].pipe
    BY <2>1, <1>1, <1>2 DEF Types
  <2>2. CASE ~(i = 0 \/ inode[i].pipe)
    <3>1. i \in Slot /\ inode' = [inode EXCEPT ![i].dirt = TRUE]
      BY <2>2, <1>1, <1>3
    <3>2. inode[i].dev # 0
      BY <3>1, <2>2, <1>0, HeldFacts
    <3> QED  BY <3>1, <3>2, <1>0, Marked
  <2> QED  BY <2>1, <2>2
<1>8. Types' /\ task'[t] = rec
  BY <1>1, <1>2, <1>5, <1>6, <1>7, TypesStep, RunsFacts
<1>9. ASSUME NEW j \in Slot
      PROVE  inode'[j].count - inode[j].count = Pointers(rec, j, inode[j].pipe) - Points(t, j)
  <2>1. Pointers(rec, j, inode[j].pipe) = H[j] + 0 + 0 + 0
    BY <1>3, <1>6, EmptyStack DEF Pointers
  <2>2. H[j] \in Nat /\ H[j] = Points(t, j)
    BY <1>0, <1>2, <1>4
  <2>3. inode[j].count \in Nat /\ inode'[j].count = inode[j].count
    BY <1>2, <1>7 DEF Types, InodeType
  <2> DEFINE a == H[j]
             b == Points(t, j)
             c == Pointers(rec, j, inode[j].pipe)
             d == inode[j].count
  <2>4. c = a + 0 + 0 + 0 /\ a \in Nat /\ a = b /\ d \in Nat /\ inode'[j].count = d
    BY <2>1, <2>2, <2>3
  <2> HIDE DEF a, b, c, d
  <2>5. d - d = c - b
    BY <2>4
  <2> QED  BY <2>4, <2>5 DEF b, c, d
<1>10. \A g : ~Has(rec.stk, g)
  BY <1>6, EmptyStack
<1>11. ASSUME NEW j \in Slot, rec.held[j] > 0  PROVE inode'[j].pipe \/ inode'[j].dev # 0
  <2>1. T.held[j] > 0 \/ T.got = j
    <3>1. H[j] > 0 /\ T.held[j] \in Nat
      BY <1>6, <1>11, <1>3
    <3> QED  BY <3>1, <1>0, <1>4
  <2> QED  BY <2>1, <1>7, HeldFacts
<1>12. DevInv(task[t])'
  BY <1>6, <1>8, <1>10 DEF DevInv, Looking
<1>13. /\ WellFormed(rec.stk) /\ Work(rec.stk).at = "user"
  BY <1>6, EmptyStack, FrameEq
<1>14. WorkOK(rec, "user") /\ CrossOK(t)'
  BY <1>6, <1>8, <1>13 DEF WorkOK, Keeper, Searching, CrossOK
<1>15. Own(t)'
  <2>1. \A j \in Slot : inode'[j].lock # t
    BY <1>2, <1>7
  <2>2. \A j \in Slot : rec.got # j
    BY <1>3, <1>6
  <2> QED  BY <2>1, <2>2, <1>1, <1>2, <1>5, <1>6, <1>8, <1>10, <1>11, <1>12, <1>13, <1>14, WorkOwn
<1> QED
  BY <1>1, <1>2, <1>5, <1>6, <1>7, <1>8, <1>9, <1>10, <1>15, WorkQuiet

(* utime and the others: the inode is put back.                            *)
LEMMA PutsBack ==
    ASSUME InoInv, NEW t \in Task, NEW at \in {"change", "chdir"}, At(t, at), NEW i, i = task[t].got,
           UNCHANGED <<super, disk, imap, links, panic>>,
           inode[i].dev # 0,
           inode' = inode \/ inode' = [inode EXCEPT ![i].dirt = TRUE],
           Runs(t, [task[t] EXCEPT !.got = 0, !.stk = <<Frame("iput", i)>> \o Rest(t)])
    PROVE  InoInv'
<1> DEFINE T == task[t]
           c == <<Frame("iput", i)>>
           rec == [T EXCEPT !.got = 0, !.stk = c]
<1>2. /\ CanRun(t) /\ Rest(t) = <<>> /\ T \in TaskType /\ Types
      /\ (\A g : Has(T.stk, g) => g.at \in Plain) /\ T.empty = 0 /\ T.got # 0
      /\ (\A j \in Slot : inode[j].lock # t)
      /\ \A j \in Slot : Points(t, j) =
                T.held[j] + (IF T.got # j THEN 0 ELSE IF inode[j].pipe THEN 2 ELSE 1)
  <2>1. at \in Keeper /\ at # "keep"
    BY DEF Keeper
  <2> QED  BY <2>1, AtKeeper
<1>3. i \in Slot /\ 0 \notin Slot /\ T.held \in [Slot -> Nat]
  BY <1>2, SlotFacts DEF TaskType
<1>1. Frame("iput", i) \in FrameType /\ Frame("iput", i).at = "iput" /\ Frame("iput", i).i = i
  BY <1>3, MakeFrame, FrameEq DEF OnSlot
<1>4. Fits(Frame("iput", i), "user")
  BY <1>1 DEF Fits, IO, Service, Putting, Keeper
<1>5. /\ c \in Seq(FrameType) /\ WellFormed(c) /\ Work(c) = Frame("user", 0)
      /\ (\A g : Has(c, g) <=> g = Frame("iput", i))
      /\ \A j : Frames(c, j) = IF j = i THEN 1 ELSE 0
  BY <1>1, <1>4, StackOne DEF Service, Counting
<1>6. Runs(t, rec)
  <2>1. c \o <<>> = c
    BY <1>5
  <2> QED  BY <2>1, <1>2
<1> HIDE DEF c
<1>7. rec \in TaskType /\ rec.stk = c /\ rec.got = 0 /\ rec.empty = 0 /\ rec.held = T.held
  BY <1>2, <1>5 DEF TaskType
<1> HIDE DEF rec
<1>8. /\ \A j \in Slot : /\ inode'[j] = inode[j] \/ Touched(t, j)
                         /\ inode'[j].dev = inode[j].dev /\ inode'[j].pipe = inode[j].pipe
                         /\ inode'[j].lock = inode[j].lock /\ inode'[j].count = inode[j].count
      /\ inode' \in [Slot -> InodeType]
  <2>1. CASE inode' = inode
    BY <2>1, <1>2 DEF Types
  <2>2. CASE inode' = [inode EXCEPT ![i].dirt = TRUE]
    BY <2>2, <1>3, Marked
  <2> QED  BY <2>1, <2>2
<1>9. Types' /\ task'[t] = rec
  BY <1>2, <1>6, <1>7, <1>8, TypesStep, RunsFacts
<1>10. ~inode[i].pipe
  BY <1>3, GoodFacts DEF Good
<1>11. ASSUME NEW j \in Slot
       PROVE  inode'[j].count - inode[j].count = Pointers(rec, j, inode[j].pipe) - Points(t, j)
  <2>1. Pointers(rec, j, inode[j].pipe) = T.held[j] + (IF j = i THEN 1 ELSE 0) + 0 + 0
    BY <1>3, <1>5, <1>7 DEF Pointers
  <2>2. Points(t, j) = T.held[j] + (IF j = i THEN 1 ELSE 0)
    BY <1>2, <1>10
  <2>3. inode[j].count \in Nat /\ inode'[j].count = inode[j].count /\ T.held[j] \in Nat
    BY <1>2, <1>3, <1>8 DEF Types, InodeType
  <2> DEFINE a == T.held[j]
             e == IF j = i THEN 1 ELSE 0
             b == Points(t, j)
             p == Pointers(rec, j, inode[j].pipe)
             d == inode[j].count
  <2>4. p = a + e + 0 + 0 /\ a \in Nat /\ e \in Nat /\ b = a + e /\ d \in Nat /\ inode'[j].count = d
    BY <2>1, <2>2, <2>3
  <2> HIDE DEF a, b, p, d, e
  <2>5. d - d = p - b
    BY <2>4
  <2> QED  BY <2>4, <2>5 DEF b, p, d
<1>12. \A g : Has(rec.stk, g) => g.at = "iput"
  BY <1>1, <1>5, <1>7
<1>13. \A g : Has(rec.stk, g) => g.at \in Plain
  BY <1>12 DEF Plain
<1>14. ASSUME NEW j \in Slot, rec.held[j] > 0  PROVE inode'[j].pipe \/ inode'[j].dev # 0
  BY <1>14, <1>7, <1>8, HeldFacts
<1>15. ~Looking(rec.stk) /\ ~Has(rec.stk, Frame("new_inode", 0)) /\ ~Has(rec.stk, Frame("change", 0))
       /\ \A j \in Slot : ~Has(rec.stk, Frame("chdir", j)) /\ ~Has(rec.stk, Frame("read", j))
  BY <1>12, FrameEq DEF Looking
<1>16. DevInv(task[t])'
  BY <1>9, <1>15 DEF DevInv
<1>17. /\ WellFormed(rec.stk) /\ Work(rec.stk).at = "user"
  BY <1>5, <1>7, FrameEq
<1>18. WorkOK(rec, "user") /\ CrossOK(t)'
  BY <1>7, <1>9, <1>17 DEF WorkOK, Keeper, Searching, CrossOK
<1>19. Own(t)'
  <2>1. \A j \in Slot : inode'[j].lock # t
    BY <1>2, <1>8
  <2>2. \A j \in Slot : rec.got # j
    BY <1>3, <1>7
  <2> QED  BY <2>1, <2>2, <1>2, <1>6, <1>7, <1>9, <1>13, <1>14, <1>15, <1>16, <1>17, <1>18, WorkOwn
<1> QED
  BY <1>2, <1>6, <1>7, <1>8, <1>9, <1>11, <1>13, <1>19, WorkQuiet

LEMMA ChangesStep ==
    ASSUME InoInv, NEW t \in Task, Changes(t)
    PROVE  InoInv'
<1>0. PICK i : i = task[t].got
  OBVIOUS
<1>1. /\ At(t, "change") /\ UNCHANGED <<super, disk, imap, links, panic>>
      /\ inode' = [inode EXCEPT ![i].dirt = TRUE] /\ i # 0
      /\ Runs(t, [task[t] EXCEPT !.got = 0, !.stk = <<Frame("iput", i)>> \o Rest(t)])
  BY <1>0 DEF Changes, ioVars
<1>2. inode[i].dev # 0
  <2>1. Has(task[t].stk, Frame("change", It(t))) /\ Frame("change", It(t)) \in FrameType
    <3>1. "change" \in Keeper
      BY DEF Keeper
    <3> QED  BY <3>1, <1>1, AtKeeper
  <2>2. It(t) = 0
    BY <2>1, FrameFacts, FrameEq DEF OnNone
  <2>3. DevInv(task[t])
    BY HasFacts
  <2> QED  BY <2>1, <2>2, <2>3, <1>0, <1>1 DEF DevInv
<1> QED
  BY <1>0, <1>1, <1>2, PutsBack

(* A step that leaves the table alone.                                     *)
LEMMA StillStep ==
    ASSUME InoInv, NEW t \in Task, NEW at \in Plain \ Service, At(t, at),
           NEW rec \in TaskType, Runs(t, rec),
           UNCHANGED <<inode, super, disk, imap, links, panic>>,
           WellFormed(rec.stk), WorkOK(rec, Work(rec.stk).at),
           \A g : Has(task[t].stk, g) => g.at \in Plain,
           \A g : Has(rec.stk, g) => g.at \in Plain,
           \A i \in Slot :
              /\ Has(rec.stk, Frame("chdir", i)) =>
                    rec.held[i] > 0 /\ (rec.got # 0 => inode[rec.got].dev # 0)
              /\ rec.held[i] > 0 => task[t].held[i] > 0
              /\ Pointers(rec, i, inode[i].pipe) = Points(t, i),
           rec.got \in {0, task[t].got}, rec.empty \in {0, task[t].empty},
           DevInv(task[t])', CrossOK(t)'
    PROVE  InoInv'
<1>1. CanRun(t) /\ Types /\ 0 \notin Slot
  BY Parts, SlotFacts DEF At
<1>2. at \notin Service \cup {"user"} /\ at # "read"
  BY DEF Plain, Keeper
<1>3. /\ \A i \in Slot : inode[i].lock # t
      /\ task[t].empty # 0 => inode[task[t].empty] = [Zeroed EXCEPT !.count = 1]
      /\ \A i \in Slot : task[t].held[i] > 0 \/ task[t].got = i => inode[i].pipe \/ inode[i].dev # 0
  BY <1>2, WorkFacts
<1>4. inode' \in [Slot -> InodeType] /\ inode' = inode
  BY <1>1 DEF Types
<1>5. Types'
  BY <1>1, <1>4, TypesStep
<1>6. \A i \in Slot : ~Has(rec.stk, Frame("read", i))
  BY FrameEq DEF Plain, Keeper
<1>7. \A i \in Slot : rec.held[i] > 0 \/ rec.got = i => inode'[i].pipe \/ inode'[i].dev # 0
  BY <1>1, <1>3, <1>4
<1>8. rec.empty # 0 => inode'[rec.empty] = [Zeroed EXCEPT !.count = 1]
  BY <1>3, <1>4
<1>9. Own(t)'
  BY <1>1, <1>3, <1>4, <1>5, <1>6, <1>7, <1>8, WorkOwn
<1>10. ASSUME NEW i \in Slot
       PROVE  inode'[i].count - inode[i].count = Pointers(rec, i, inode[i].pipe) - Points(t, i)
  <2>1. inode[i].count \in Nat /\ Points(t, i) \in Nat
    BY <1>1, PointsNat DEF Types, InodeType
  <2> DEFINE a == inode[i].count
             x == Points(t, i)
  <2>2. inode'[i].count = a /\ Pointers(rec, i, inode[i].pipe) = x /\ a \in Nat /\ x \in Nat
    BY <1>4, <2>1
  <2> HIDE DEF a, x
  <2>3. a - a = x - x
    BY <2>2
  <2> QED  BY <2>2, <2>3 DEF a, x
<1> QED
  BY <1>1, <1>4, <1>5, <1>9, <1>10, WorkQuiet

LEMMA ChdirStep ==
    ASSUME InoInv, NEW t \in Task, Chdir(t)
    PROVE  InoInv'
<1> DEFINE T == task[t]
<1>0. PICK old : old = It(t)
  OBVIOUS
<1>1. /\ At(t, "chdir") /\ UNCHANGED <<inode, super, disk, imap, links, panic>> /\ T.got # 0
      /\ \/ Runs(t, [T EXCEPT !.got = 0, !.stk = <<Frame("iput", T.got)>> \o Rest(t)])
         \/ Runs(t, [T EXCEPT !.held[old] = @ - 1,
                              !.stk = <<Frame("iput", old), Frame("keep", 0)>> \o Rest(t)])
  BY <1>0 DEF Chdir, ioVars
<1>2. /\ CanRun(t) /\ Rest(t) = <<>> /\ T \in TaskType /\ Types
      /\ (\A g : Has(T.stk, g) => g.at \in Plain) /\ T.empty = 0
      /\ Has(T.stk, Frame("chdir", old)) /\ Frame("chdir", old) \in FrameType
      /\ \A j \in Slot : Points(t, j) =
                T.held[j] + (IF T.got # j THEN 0 ELSE IF inode[j].pipe THEN 2 ELSE 1)
  <2>1. "chdir" \in Keeper
    BY DEF Keeper
  <2> QED  BY <1>0, <1>1, <2>1, AtKeeper
<1>3. old \in Slot /\ 0 \notin Slot /\ T.held \in [Slot -> Nat] /\ T.got \in Slot
  BY <1>1, <1>2, FrameFacts, FrameEq, SlotFacts DEF OnSlot, TaskType
<1>4. T.held[old] > 0 /\ inode[T.got].dev # 0
  BY <1>1, <1>2, <1>3, HasFacts DEF SlotInv
<1>5. CASE Runs(t, [T EXCEPT !.got = 0, !.stk = <<Frame("iput", T.got)>> \o Rest(t)])
  <2>1. PICK i : i = T.got
    OBVIOUS
  <2>2. "chdir" \in {"change", "chdir"} /\ inode[i].dev # 0 /\ inode' = inode
        /\ UNCHANGED <<super, disk, imap, links, panic>>
        /\ Runs(t, [task[t] EXCEPT !.got = 0, !.stk = <<Frame("iput", i)>> \o Rest(t)])
    BY <2>1, <1>1, <1>4, <1>5
  <2> QED  BY <2>1, <2>2, <1>1, PutsBack
<1>6. CASE Runs(t, [T EXCEPT !.held[old] = @ - 1,
                              !.stk = <<Frame("iput", old), Frame("keep", 0)>> \o Rest(t)])
  <2> DEFINE f == Frame("iput", old)
             h == Frame("keep", 0)
             c == <<f, h>>
             H == [T.held EXCEPT ![old] = T.held[old] - 1]
             rec == [T EXCEPT !.held = H, !.stk = c]
  <2>1. /\ f \in FrameType /\ f.at = "iput" /\ f.i = old /\ h \in FrameType /\ h.at = "keep"
    BY <1>3, MakeFrame, FrameEq DEF OnSlot, OnNone
  <2>2. Fits(h, "user") /\ Fits(f, "keep")
    BY <2>1 DEF Fits, IO, Service, Putting, Keeper
  <2>3. H \in [Slot -> Nat] /\ \A j \in Slot : H[j] = T.held[j] - (IF j = old THEN 1 ELSE 0)
    <3>1. T.held[old] - 1 \in Nat
      BY <1>3, <1>4
    <3> QED  BY <3>1, <1>3
  <2>4. Runs(t, rec)
    <3>1. c \in Seq(FrameType)
      BY <2>1
    <3>2. c \o <<>> = c
      BY <3>1
    <3>3. [T EXCEPT !.held[old] = @ - 1, !.stk = c] = rec
      BY <1>2 DEF TaskType
    <3> QED  BY <3>2, <3>3, <1>2, <1>6
  <2> HIDE DEF f, h
  <2>5. /\ c \in Seq(FrameType) /\ WellFormed(c) /\ Work(c) = h
        /\ (\A g : Has(c, g) <=> g \in {f, h})
        /\ \A j : Frames(c, j) = IF j = old THEN 1 ELSE 0
    <3>1. /\ c \in Seq(FrameType) /\ WellFormed(c)
          /\ Work(c) = (IF f.at \in Service THEN Work(<<h>>) ELSE f)
          /\ (\A g : Has(c, g) <=> g \in {f, h})
          /\ \A j : Frames(c, j) = Counting(h, j) + Counting(f, j)
      BY <2>1, <2>2, StackTwo
    <3>2. \A j : Counting(h, j) = 0 /\ Counting(f, j) = IF j = old THEN 1 ELSE 0
      BY <2>1 DEF Counting
    <3>3. Work(<<h>>) = h
      <4>1. h.at \notin Service
        BY <2>1 DEF Service
      <4> QED  BY <2>1, <2>2, <4>1, StackOne
    <3>4. f.at \in Service
      BY <2>1 DEF Service
    <3> HIDE DEF c
    <3> QED  BY <3>1, <3>2, <3>3, <3>4
  <2> HIDE DEF c, H
  <2>6. rec \in TaskType /\ rec.stk = c /\ rec.got = T.got /\ rec.empty = 0 /\ rec.held = H
    BY <1>2, <2>3, <2>5 DEF TaskType
  <2> HIDE DEF rec
  <2>7. \A g : Has(c, g) => g.at \in {"iput", "keep"}
    BY <2>1, <2>5
  <2>8. /\ ~Looking(rec.stk) /\ ~Has(rec.stk, Frame("new_inode", 0)) /\ ~Has(rec.stk, Frame("change", 0))
        /\ \A j \in Slot : ~Has(rec.stk, Frame("chdir", j))
    BY <2>6, <2>7, FrameEq DEF Looking
  <2>9. task'[t] = rec
    BY <1>2, <2>4, <2>6, RunsFacts
  <2>10. DevInv(task[t])'
    BY <2>8, <2>9 DEF DevInv
  <2>11. Work(rec.stk).at = "keep" /\ WellFormed(rec.stk)
    BY <2>1, <2>5, <2>6
  <2>12. WorkOK(rec, "keep") /\ CrossOK(t)'
    BY <2>6, <2>9, <2>11 DEF WorkOK, Keeper, Searching, CrossOK
  <2>13. ASSUME NEW j \in Slot
         PROVE  rec.held[j] > 0 => T.held[j] > 0
    <3>1. T.held[j] \in Nat /\ H[j] \in Nat
      BY <1>3, <2>3
    <3> QED  BY <3>1, <2>3, <2>6
  <2>14. ASSUME NEW j \in Slot
         PROVE  Pointers(rec, j, inode[j].pipe) = Points(t, j)
    <3> DEFINE x == IF T.got # j THEN 0 ELSE IF inode[j].pipe THEN 2 ELSE 1
               e == IF j = old THEN 1 ELSE 0
               a == T.held[j]
               b == H[j]
    <3>1. Pointers(rec, j, inode[j].pipe) = b + e + 0 + x
      BY <1>3, <2>5, <2>6 DEF Pointers
    <3>2. Points(t, j) = a + x
      BY <1>2
    <3>3. a \in Nat /\ b \in Nat /\ b = a - e /\ e \in Nat /\ x \in Nat
      BY <1>3, <2>3
    <3> HIDE DEF a, b, e, x
    <3> QED  BY <3>1, <3>2, <3>3
  <2>15. \A g : Has(rec.stk, g) => g.at \in Plain
    BY <2>6, <2>7 DEF Plain, Keeper
  <2>16. "chdir" \in Plain \ Service
    BY DEF Plain, Keeper, Service
  <2> QED  BY <1>1, <1>2, <2>4, <2>6, <2>8, <2>10, <2>11, <2>12, <2>13, <2>14, <2>15, <2>16, StillStep
<1> QED
  BY <1>1, <1>5, <1>6

(* iget goes on to look for an inode.                                      *)
LEMMA AtSearch ==
    ASSUME InoInv, NEW t \in Task,
           NEW at \in {"iget", "scan", "found", "cross", "new_inode", "get_pipe_inode"}, At(t, at)
    PROVE  LET T == task[t] IN
           /\ CanRun(t) /\ T \in TaskType /\ Types /\ T.got = 0
           /\ (IF at = "iget" THEN T.empty = 0 ELSE T.empty \in Slot)
           /\ (\A g : Has(T.stk, g) <=> g = Frame(at, It(t)) \/ g = Top(Rest(t)))
           /\ (\A g : Has(T.stk, g) => g.at \in Plain)
           /\ (\A j : Frames(T.stk, j) = 0)
           /\ (\A i \in Slot : inode[i].lock # t)
           /\ (T.empty # 0 => inode[T.empty] = [Zeroed EXCEPT !.count = 1])
           /\ \A i \in Slot : Points(t, i) = T.held[i] + (IF T.empty = i THEN 1 ELSE 0)
<1> DEFINE T == task[t]
           S == T.stk
           k == Top(Rest(t))
<1>1. Types /\ T \in TaskType /\ 0 \notin Slot
  BY Parts, SlotFacts
<1>2. at \notin Service \cup {"user"} /\ at \in Plain /\ at # "read"
  BY DEF Service, Plain
<1>3. /\ CanRun(t) /\ Head(S).at = at /\ Rest(t) = Tail(S) /\ Head(S) = Frame(at, It(t))
      /\ (\A g : Has(S, g) <=> g = Head(S) \/ Has(Tail(S), g))
      /\ \A i : Frames(S, i) = Frames(Tail(S), i) + Counting(Head(S), i)
  BY <1>2, AtFacts
<1>4. /\ (\A g : Has(Rest(t), g) <=> g = k) /\ k.at \in Keeper /\ (\A i : Frames(Rest(t), i) = 0)
  BY OverKeeper
<1> HIDE DEF S, k
<1>5. /\ WorkOK(T, at) /\ (\A i \in Slot : inode[i].lock # t)
      /\ (T.empty # 0 => inode[T.empty] = [Zeroed EXCEPT !.count = 1])
  BY <1>2, WorkFacts
<1>6. T.got = 0 /\ (IF at = "iget" THEN T.empty = 0 ELSE T.empty \in Slot)
  <2>1. T.empty \in Slot \cup {0}
    BY <1>1 DEF TaskType
  <2> QED  BY <2>1, <1>5 DEF WorkOK, Keeper, Searching
<1>7. ASSUME NEW j  PROVE Frames(S, j) = 0
  <2>1. Frames(S, j) = Frames(Tail(S), j) + Counting(Head(S), j)
    BY <1>3
  <2>2. Frames(Tail(S), j) = 0 /\ Counting(Head(S), j) = 0
    BY <1>3, <1>4 DEF Counting
  <2> QED  BY <2>1, <2>2
<1>8. ASSUME NEW i \in Slot
      PROVE  Points(t, i) = T.held[i] + (IF T.empty = i THEN 1 ELSE 0)
  <2> DEFINE a == T.held[i]
             x == IF T.empty = i THEN 1 ELSE 0
             z == IF T.got # i THEN 0 ELSE IF inode[i].pipe THEN 2 ELSE 1
  <2>1. a \in Nat /\ x \in Nat
    BY <1>1 DEF TaskType
  <2>2. Points(t, i) = a + Frames(T.stk, i) + x + z
    BY DEF Points, Pointers
  <2>3. Frames(T.stk, i) = 0 /\ z = 0
    BY <1>1, <1>6, <1>7 DEF S
  <2> HIDE DEF a, x, z
  <2>4. Points(t, i) = a + x
    BY <2>1, <2>2, <2>3
  <2> QED  BY <2>4 DEF a, x
<1>9. /\ \A g : Has(S, g) <=> g = Frame(at, It(t)) \/ g = k
      /\ \A g : Has(S, g) => g.at \in Plain
  <2>1. \A g : Has(S, g) <=> g = Frame(at, It(t)) \/ g = k
    BY <1>3, <1>4
  <2>2. Frame(at, It(t)).at \in Plain /\ k.at \in Plain
    BY <1>2, <1>4, FrameEq DEF Plain
  <2> QED  BY <2>1, <2>2
<1> QED
  BY <1>1, <1>3, <1>5, <1>6, <1>7, <1>8, <1>9 DEF S, k

LEMMA Searches ==
    ASSUME InoInv, NEW t \in Task, NEW at \in {"iget", "scan", "found", "cross"}, At(t, at),
           NEW d \in Dev, NEW n \in Num, NEW c \in Seq(FrameType),
           Runs(t, [task[t] EXCEPT !.dev = d, !.nr = n, !.stk = c]),
           UNCHANGED <<inode, super, disk, imap, links, panic>>,
           WellFormed(c), Work(c).at \in (IF at = "iget" THEN {"empty"} ELSE {"scan", "found"}),
           \A g : Has(c, g) => g.at \in {"scan", "found", "empty"} \/ g = Top(Rest(t)),
           \A i : Frames(c, i) = 0,
           (d = task[t].dev /\ n = task[t].nr /\ Looking(task[t].stk)) \/ n = ROOT_INO
    PROVE  InoInv'
<1> DEFINE T == task[t]
           k == Top(Rest(t))
           rec == [T EXCEPT !.dev = d, !.nr = n, !.stk = c]
<1>1. /\ CanRun(t) /\ T \in TaskType /\ Types /\ T.got = 0
      /\ (IF at = "iget" THEN T.empty = 0 ELSE T.empty \in Slot)
      /\ (\A g : Has(T.stk, g) <=> g = Frame(at, It(t)) \/ g = k)
      /\ (\A g : Has(T.stk, g) => g.at \in Plain)
      /\ \A i \in Slot : Points(t, i) = T.held[i] + (IF T.empty = i THEN 1 ELSE 0)
  <2>1. at \in {"iget", "scan", "found", "cross", "new_inode", "get_pipe_inode"}
    OBVIOUS
  <2> HIDE DEF rec, k, T
  <2>2. LET S == task[t] IN
           /\ CanRun(t) /\ S \in TaskType /\ Types /\ S.got = 0
           /\ (IF at = "iget" THEN S.empty = 0 ELSE S.empty \in Slot)
           /\ (\A g : Has(S.stk, g) <=> g = Frame(at, It(t)) \/ g = Top(Rest(t)))
           /\ (\A g : Has(S.stk, g) => g.at \in Plain)
           /\ (\A j : Frames(S.stk, j) = 0)
           /\ (\A i \in Slot : inode[i].lock # t)
           /\ (S.empty # 0 => inode[S.empty] = [Zeroed EXCEPT !.count = 1])
           /\ \A i \in Slot : Points(t, i) = S.held[i] + (IF S.empty = i THEN 1 ELSE 0)
    BY <2>1, AtSearch
  <2> QED  BY <2>2 DEF k, T
<1>2. rec \in TaskType /\ rec.stk = c /\ rec.got = 0 /\ rec.empty = T.empty /\ rec.held = T.held
      /\ rec.dev = d /\ rec.nr = n
  BY <1>1 DEF TaskType
<1>3. Runs(t, rec)
  OBVIOUS
<1> HIDE DEF rec
<1>4. task'[t] = rec
  BY <1>1, <1>2, <1>3, RunsFacts
<1>5. k.at \in Keeper
  BY OverKeeper
<1> HIDE DEF k
<1>6. \A g : Has(c, g) => g.at \in {"scan", "found", "empty"} \cup Keeper
  BY <1>5 DEF k
<1>7. \A g : Has(rec.stk, g) => g.at \in Plain
  BY <1>2, <1>6 DEF Plain
<1>8. ASSUME NEW i \in Slot, Has(rec.stk, Frame("chdir", i))  PROVE rec.held[i] > 0
  <2>1. Frame("chdir", i) = k
    BY <1>2, <1>8, FrameEq DEF k
  <2>2. Has(T.stk, Frame("chdir", i))
    BY <2>1, <1>1
  <2> QED  BY <2>2, <1>2, HasFacts DEF SlotInv
<1>9. DevInv(task[t])'
  <2>1. ~Has(c, Frame("new_inode", 0))
    BY <1>6, FrameEq DEF Keeper
  <2>2. CASE n = ROOT_INO
    BY <2>1, <2>2, <1>2, <1>4 DEF DevInv
  <2>3. CASE d = T.dev /\ n = T.nr /\ Looking(T.stk)
    <3>1. \A j \in Slot : T.held[j] > 0 => inode'[j].dev = inode[j].dev
      OBVIOUS
    <3> QED  BY <2>1, <2>3, <3>1, <1>2, <1>4, DevKept
  <2> QED  BY <2>2, <2>3
<1>10. WorkOK(rec, Work(rec.stk).at) /\ CrossOK(t)'
  <2>1. CASE at = "iget"
    BY <2>1, <1>1, <1>2, <1>4 DEF WorkOK, Keeper, Searching, CrossOK
  <2>2. CASE at # "iget"
    <3>1. T.empty # 0
      BY <2>2, <1>1, SlotFacts
    <3> QED  BY <2>2, <3>1, <1>1, <1>2, <1>4 DEF WorkOK, Keeper, Searching, CrossOK
  <2> QED  BY <2>1, <2>2
<1>11. ASSUME NEW i \in Slot
       PROVE  Pointers(rec, i, inode[i].pipe) = Points(t, i)
  <2> DEFINE a == T.held[i]
             x == IF T.empty = i THEN 1 ELSE 0
  <2>1. a \in Nat /\ x \in Nat
    BY <1>1 DEF TaskType
  <2>2. Pointers(rec, i, inode[i].pipe) = a + 0 + x + 0
    BY <1>2, SlotFacts DEF Pointers
  <2>3. Points(t, i) = a + x
    BY <1>1
  <2> HIDE DEF a, x
  <2> QED  BY <2>1, <2>2, <2>3
<1>12. at \in Plain \ Service
  BY DEF Plain, Service
<1>13. UNCHANGED <<inode, super, disk, imap, links, panic>> /\ WellFormed(rec.stk)
  BY <1>2
<1> QED
  BY <1>1, <1>2, <1>3, <1>7, <1>8, <1>9, <1>10, <1>11, <1>12, <1>13, StillStep

(* A frame, or two, on the one that the search is for.                     *)
LEMMA SearchStack ==
    ASSUME InoInv, NEW t \in Task, NEW at \in {"iget", "scan", "found", "cross"}, At(t, at),
           NEW f \in FrameType, f.at \in {"scan", "found"}
    PROVE  LET c == <<f>> \o Rest(t)
               e == <<Frame("empty", 0), f>> \o Rest(t)
           IN  /\ c \in Seq(FrameType) /\ WellFormed(c) /\ Work(c) = f
               /\ (\A g : Has(c, g) => g = f \/ g = Top(Rest(t))) /\ (\A i : Frames(c, i) = 0)
               /\ f.at = "scan" =>
                    /\ e \in Seq(FrameType) /\ WellFormed(e) /\ Work(e) = Frame("empty", 0)
                    /\ (\A g : Has(e, g) => g \in {f, Frame("empty", 0)} \/ g = Top(Rest(t)))
                    /\ \A i : Frames(e, i) = 0
<1> DEFINE R == Rest(t)
           k == Top(R)
           m == Frame("empty", 0)
           c == <<f>> \o R
<1>1. /\ R \in Seq(FrameType) /\ k.at \in Keeper /\ WellFormed(R)
      /\ (\A g : Has(R, g) <=> g = k) /\ (\A i : Frames(R, i) = 0)
  BY OverKeeper
<1>2. Fits(f, k.at) /\ f.at \notin Service
  BY <1>1 DEF Fits, IO, Service, Putting, Keeper
<1> HIDE DEF R, k
<1>3. /\ c \in Seq(FrameType) /\ Top(c) = f
      /\ (WellFormed(c) <=> WellFormed(R) /\ Fits(f, Top(R).at))
      /\ Work(c) = (IF f.at \in Service THEN Work(R) ELSE f)
      /\ \A g : Has(c, g) <=> g = f \/ Has(R, g)
      /\ \A i : Frames(R, i) \in Nat /\ Frames(c, i) = Frames(R, i) + Counting(f, i)
  BY <1>1, Push
<1>4. \A i : Counting(f, i) = 0 /\ Counting(m, i) = 0
  BY FrameEq DEF Counting
<1> HIDE DEF c
<1>5. ASSUME NEW i  PROVE Frames(c, i) = 0
  <2>1. Frames(c, i) = Frames(R, i) + Counting(f, i) /\ Frames(R, i) = 0 /\ Counting(f, i) = 0
    BY <1>1, <1>3, <1>4
  <2> QED  BY <2>1
<1>6. WellFormed(c) /\ Work(c) = f /\ \A g : Has(c, g) => g = f \/ g = k
  BY <1>1, <1>2, <1>3 DEF k
<1>7. ASSUME f.at = "scan"
      PROVE  LET e == <<m, f>> \o R IN
             /\ e \in Seq(FrameType) /\ WellFormed(e) /\ Work(e) = m
             /\ (\A g : Has(e, g) => g \in {f, m} \/ g = k)
             /\ \A i : Frames(e, i) = 0
  <2> DEFINE e == <<m>> \o c
  <2>1. m \in FrameType /\ m.at = "empty"
    BY MakeFrame, FrameEq DEF OnNone
  <2>2. <<m, f>> \o R = e
    BY <2>1, <1>1, StackedOn DEF c
  <2>3. Fits(m, Top(c).at) /\ m.at \notin Service
    BY <2>1, <1>3, <1>7 DEF Fits, IO, Service, Putting, Keeper
  <2>4. /\ e \in Seq(FrameType)
        /\ (WellFormed(e) <=> WellFormed(c) /\ Fits(m, Top(c).at))
        /\ Work(e) = (IF m.at \in Service THEN Work(c) ELSE m)
        /\ \A g : Has(e, g) <=> g = m \/ Has(c, g)
        /\ \A i : Frames(e, i) = Frames(c, i) + Counting(m, i)
    BY <2>1, <1>3, Push
  <2> HIDE DEF e
  <2>5. ASSUME NEW i  PROVE Frames(e, i) = 0
    <3>1. Frames(e, i) = Frames(c, i) + Counting(m, i) /\ Frames(c, i) = 0 /\ Counting(m, i) = 0
      BY <1>4, <1>5, <2>4
    <3> QED  BY <3>1
  <2>6. WellFormed(e) /\ Work(e) = m /\ \A g : Has(e, g) => g \in {f, m} \/ g = k
    BY <1>6, <2>3, <2>4
  <2> QED  BY <2>2, <2>4, <2>5, <2>6
<1> QED
  BY <1>3, <1>5, <1>6, <1>7 DEF c, R, k

LEMMA IgetStep ==
    ASSUME InoInv, NEW t \in Task, iget(t)
    PROVE  InoInv'
<1> DEFINE T == task[t]
           f == Frame("scan", 0)
           c == <<Frame("empty", 0), f>> \o Rest(t)
<1>1. At(t, "iget")
  BY DEF iget
<1>2. T \in TaskType /\ \A g : Has(T.stk, g) <=> g = Frame("iget", It(t)) \/ g = Top(Rest(t))
  BY <1>1, AtSearch
<1>3. Has(T.stk, Frame("iget", 0))
  <2>1. Frame("iget", It(t)) \in FrameType
    <3>1. Head(T.stk) = Frame("iget", It(t)) /\ Head(T.stk) \in FrameType
      BY <1>1, AtFacts
    <3> QED  BY <3>1
  <2>2. It(t) = 0
    BY <2>1, FrameFacts, FrameEq DEF OnNone
  <2> QED  BY <2>2, <1>2
<1>4. Looking(T.stk) /\ T.dev \in Dev /\ T.nr \in Num
  BY <1>3, HasFacts DEF Looking, DevInv
<1>5. Runs(t, [T EXCEPT !.stk = c]) /\ UNCHANGED <<inode, super, disk, imap, links, panic>>
  <2>1. T.dev # 0
    BY <1>4, SlotFacts
  <2> QED  BY <2>1 DEF iget, Next_, ioVars
<1>6. [T EXCEPT !.stk = c] = [T EXCEPT !.dev = T.dev, !.nr = T.nr, !.stk = c]
  BY <1>2 DEF TaskType
<1>7. f \in FrameType /\ f.at = "scan" /\ Frame("empty", 0).at = "empty"
  BY MakeFrame, FrameEq DEF OnNone
<1>8. /\ c \in Seq(FrameType) /\ WellFormed(c) /\ Work(c) = Frame("empty", 0)
      /\ (\A g : Has(c, g) => g \in {f, Frame("empty", 0)} \/ g = Top(Rest(t)))
      /\ \A i : Frames(c, i) = 0
  BY <1>1, <1>7, SearchStack
<1>9. Work(c).at = "empty"
      /\ \A g : Has(c, g) => g.at \in {"scan", "found", "empty"} \/ g = Top(Rest(t))
  BY <1>7, <1>8
<1> HIDE DEF c
<1> QED
  BY <1>1, <1>4, <1>5, <1>6, <1>8, <1>9, Searches

LEMMA AtLooking ==
    ASSUME InoInv, NEW t \in Task, NEW at \in {"scan", "found"}, At(t, at)
    PROVE  LET T == task[t] IN
           /\ Looking(T.stk) /\ T.dev \in Dev /\ T.nr \in Num /\ (T.nr = ROOT_INO \/ Safe(T))
           /\ T \in TaskType /\ T.empty \in Slot /\ (at = "found" => It(t) \in Slot)
           /\ inode[T.empty] = [Zeroed EXCEPT !.count = 1]
           /\ (at = "found" => inode[It(t)].lock = None)
<1> DEFINE T == task[t]
<1>1. at \in {"iget", "scan", "found", "cross", "new_inode", "get_pipe_inode"} /\ at # "user"
  OBVIOUS
<1>2. /\ T \in TaskType /\ T.empty \in Slot /\ 0 \notin Slot
      /\ (T.empty # 0 => inode[T.empty] = [Zeroed EXCEPT !.count = 1])
      /\ \A g : Has(T.stk, g) <=> g = Frame(at, It(t)) \/ g = Top(Rest(t))
  <2>1. CASE at = "scan"
    BY <2>1, AtSearch, SlotFacts
  <2>2. CASE at = "found"
    BY <2>2, AtSearch, SlotFacts
  <2> QED  BY <2>1, <2>2
<1>3. /\ Head(T.stk) = Frame(at, It(t)) /\ Head(T.stk) \in FrameType
      /\ (at \in WaitsOnInode /\ It(t) \in Slot => inode[It(t)].lock = None)
  BY <1>1, AtFacts
<1>4. /\ Frame(at, It(t)) \in FrameType /\ Frame(at, It(t)).at = at /\ Frame(at, It(t)).i = It(t)
  BY <1>3, FrameEq
<1>5. IF at = "scan" THEN It(t) = 0 ELSE It(t) \in Slot
  BY <1>4, FrameFacts DEF OnNone, OnSlot
<1>6. Looking(T.stk)
  BY <1>2, <1>5 DEF Looking
<1>7. T.dev \in Dev /\ T.nr \in Num /\ (T.nr = ROOT_INO \/ Safe(T))
  BY <1>6, HasFacts DEF DevInv
<1> QED
  BY <1>2, <1>3, <1>5, <1>6, <1>7 DEF WaitsOnInode

(* The search goes on, or the inode is found.                              *)
LEMMA SearchGoesOn ==
    ASSUME InoInv, NEW t \in Task, NEW at \in {"scan", "found"}, At(t, at),
           NEW f \in FrameType, f.at \in {"scan", "found"}, Next_(t, <<f>> \o Rest(t)),
           UNCHANGED <<inode, super, disk, imap, links, panic>>
    PROVE  InoInv'
<1> DEFINE T == task[t]
           c == <<f>> \o Rest(t)
<1>1. Looking(T.stk) /\ T.dev \in Dev /\ T.nr \in Num /\ T \in TaskType
  BY AtLooking
<1>2. /\ c \in Seq(FrameType) /\ WellFormed(c) /\ Work(c) = f
      /\ (\A g : Has(c, g) => g = f \/ g = Top(Rest(t))) /\ (\A i : Frames(c, i) = 0)
  BY SearchStack
<1>3. Runs(t, [T EXCEPT !.stk = c])
  BY DEF Next_
<1> HIDE DEF c
<1>4. [T EXCEPT !.stk = c] = [T EXCEPT !.dev = T.dev, !.nr = T.nr, !.stk = c]
  BY <1>1 DEF TaskType
<1>6. Work(c).at \in (IF at = "iget" THEN {"empty"} ELSE {"scan", "found"})
      /\ \A g : Has(c, g) => g.at \in {"scan", "found", "empty"} \/ g = Top(Rest(t))
  BY <1>2
<1>7. UNCHANGED <<inode, super, disk, imap, links, panic>>
  OBVIOUS
<1>8. CASE at = "scan"
  BY <1>1, <1>2, <1>3, <1>4, <1>6, <1>7, <1>8, Searches
<1>9. CASE at = "found"
  BY <1>1, <1>2, <1>3, <1>4, <1>6, <1>7, <1>9, Searches
<1> QED
  BY <1>8, <1>9

LEMMA IgetCrossesStep ==
    ASSUME InoInv, NEW t \in Task, IgetCrosses(t)
    PROVE  InoInv'
<1> DEFINE T == task[t]
           f == Frame("scan", 0)
           c == <<f>> \o Rest(t)
<1>0. PICK s : s = It(t)
  OBVIOUS
<1>1. /\ At(t, "cross") /\ UNCHANGED <<inode, super, disk, imap, links, panic>>
      /\ Runs(t, [T EXCEPT !.dev = super[s].dev, !.nr = ROOT_INO, !.stk = c])
  BY <1>0 DEF IgetCrosses, ioVars
<1>2. f \in FrameType /\ f.at = "scan"
  BY MakeFrame, FrameEq DEF OnNone
<1>3. /\ c \in Seq(FrameType) /\ WellFormed(c) /\ Work(c) = f
      /\ (\A g : Has(c, g) => g = f \/ g = Top(Rest(t))) /\ (\A i : Frames(c, i) = 0)
  BY <1>1, <1>2, SearchStack
<1>4. s \in Super /\ Work(T.stk).at = "cross" /\ Work(T.stk).i = s
  <2>1. Head(T.stk) \in FrameType /\ Head(T.stk).at = "cross" /\ Head(T.stk).i = s
        /\ Work(T.stk) = (IF "cross" \in Service THEN Work(Tail(T.stk)) ELSE Head(T.stk))
    BY <1>0, <1>1, AtFacts
  <2> QED  BY <2>1, FrameFacts DEF OnSuper, Service
<1>5. super[s].dev \in Dev
  <2>1. Own(t) /\ Supers /\ Types
    BY Parts
  <2>2. super[s].imount # 0
    BY <2>1, <1>4 DEF Own, CrossOK
  <2>3. super[s].dev # 0
    BY <2>1, <2>2, <1>4 DEF Supers
  <2> QED  BY <2>1, <2>3, <1>4 DEF Types, SuperType
<1>6. Work(c).at \in {"scan", "found"}
      /\ \A g : Has(c, g) => g.at \in {"scan", "found", "empty"} \/ g = Top(Rest(t))
  BY <1>2, <1>3
<1>7. ROOT_INO \in Num
  BY SlotFacts
<1> HIDE DEF c
<1> QED
  BY <1>1, <1>3, <1>5, <1>6, <1>7, Searches

(* Where no race has hit, the device that is looked at is mounted.         *)
LEMMA DevMounted ==
    ASSUME InoInv, NEW t \in Task, task[t].nr = ROOT_INO \/ Safe(task[t]), task[t].dev \in Dev,
           task[t].nr = ROOT_INO => Mounted(task[t].dev)
    PROVE  Mounted(task[t].dev)
<1> DEFINE T == task[t]
<1>1. CASE T.dev = ROOT_DEV
  <2>1. super[1].imount # 0 /\ super[1].dev = ROOT_DEV /\ 1 \in Super
    BY RootUsed, SlotFacts
  <2> QED  BY <2>1, <1>1 DEF Mounted
<1>2. ASSUME NEW j \in Slot, T.held[j] > 0, inode[j].dev = T.dev  PROVE Mounted(T.dev)
  <2>1. inode[j].count > 0
    BY <1>2, HeldFacts
  <2>2. inode[j].dev # 0
    BY <1>2, SlotFacts
  <2> QED  BY <2>1, <2>2, <1>2, GoodFacts DEF Good
<1> QED
  BY <1>1, <1>2 DEF Safe

LEMMA NoRace ==
    ASSUME NEW T, NEW x, x \cup Race(T) = {}
    PROVE  links[<<T.dev, T.nr>>] # 0 /\ (T.nr = ROOT_INO => Mounted(T.dev))
<1>1. Race(T) = {}
  OBVIOUS
<1>2. links[<<T.dev, T.nr>>] # 0
  <2> SUFFICES ASSUME links[<<T.dev, T.nr>>] = 0  PROVE FALSE
    OBVIOUS
  <2>1. "stale" \in Race(T)
    BY DEF Race
  <2> QED  BY <2>1, <1>1
<1>3. ASSUME T.nr = ROOT_INO, ~Mounted(T.dev)  PROVE FALSE
  <2>1. "unmounted" \in Race(T)
    BY <1>3 DEF Race
  <2> QED  BY <2>1, <1>1
<1> QED
  BY <1>2, <1>3

(* iget returns an inode of the table: one more user.                      *)
LEMMA Counted ==
    ASSUME InoInv, NEW t \in Task, NEW i \in Slot, inode[i].dev # 0, Mounted(inode[i].dev),
           inode' = [inode EXCEPT ![i].count = @ + 1], \A u \in Task : u # t => ~Alone(u, i)
    PROVE  /\ inode' \in [Slot -> InodeType] /\ inode'[i].count = inode[i].count + 1
           /\ inode'[i].mount = inode[i].mount
           /\ \A j \in Slot : /\ inode'[j] = inode[j] \/ Touched(t, j)
                              /\ inode'[j].dev = inode[j].dev /\ inode'[j].pipe = inode[j].pipe
                              /\ inode'[j].lock = inode[j].lock
                              /\ j # i => inode'[j] = inode[j]
                              /\ inode[j].count \in Nat
<1>1. Types
  BY Parts
<1>2. inode \in [Slot -> InodeType] /\ inode[i] \in InodeType /\ \A j \in Slot : inode[j].count \in Nat
  BY <1>1 DEF Types, InodeType
<1>3. /\ inode' = [inode EXCEPT ![i] = [inode[i] EXCEPT !.count = inode[i].count + 1]]
      /\ [inode[i] EXCEPT !.count = inode[i].count + 1] \in InodeType
  BY <1>2 DEF InodeType
<1>4. inode' \in [Slot -> InodeType]
  BY <1>2, <1>3
<1>5. /\ \A j \in Slot : j # i => inode'[j] = inode[j]
      /\ inode'[i].dev = inode[i].dev /\ inode'[i].num = inode[i].num
      /\ inode'[i].pipe = inode[i].pipe /\ inode'[i].lock = inode[i].lock
      /\ inode'[i].mount = inode[i].mount /\ inode'[i].nlinks = inode[i].nlinks
      /\ inode'[i].count = inode[i].count + 1 /\ inode'[i].dirt = inode[i].dirt
  BY <1>2, <1>3 DEF InodeType
<1>6. inode'[i].count > 0
  BY <1>2, <1>5
<1>7. Touched(t, i)
  BY <1>5, <1>6 DEF Touched
<1> QED
  BY <1>2, <1>4, <1>5, <1>7

(* Nobody else is about to free or to read an inode that is found.         *)
LEMMA FoundFree ==
    ASSUME InoInv, NEW t \in Task, At(t, "found"), inode[It(t)].dev # 0,
           OfSupers(It(t)) > 0 \/ links[<<inode[It(t)].dev, inode[It(t)].num>>] # 0
    PROVE  \A u \in Task : ~Alone(u, It(t))
<1>0. PICK i : i = It(t)
  OBVIOUS
<1>1. i \in Slot /\ inode[i].lock = None /\ 0 \notin Slot /\ None \notin Task
  BY <1>0, AtLooking, SlotFacts
<1> SUFFICES ASSUME NEW u \in Task, Alone(u, i)  PROVE FALSE
  BY <1>0
<1>2. /\ OfSupers(i) = 0 /\ \A v \in Task : v # u => Points(v, i) = 0
  BY <1>1, AloneFacts
<1>3. links[<<inode[i].dev, inode[i].num>>] # 0
  BY <1>0, <1>2
<1>4. CASE task[u].empty = i
  <2>1. Own(u)
    BY Parts
  <2>2. inode[i] = [Zeroed EXCEPT !.count = 1]
    BY <1>1, <1>4, <2>1 DEF Own
  <2> QED  BY <2>2, <1>0 DEF Zeroed
<1>5. CASE Has(task[u].stk, Frame("read", i))
  <2>1. inode[i].lock = u
    BY <1>1, <1>5, HasFacts DEF SlotInv
  <2> QED  BY <2>1, <1>1
<1>6. CASE Has(task[u].stk, Frame("trunc", i)) /\ ~Has(task[u].stk, Frame("read", i))
  <2>1. inode[i].nlinks = 0
    BY <1>1, <1>6, HasFacts DEF SlotInv
  <2>2. InCore(i)
    <3> SUFFICES ASSUME NEW v \in Task, Has(task[v].stk, Frame("read", i))  PROVE FALSE
      BY DEF InCore
    <3>1. v # u
      BY <1>6
    <3>2. Points(v, i) > 0
      <4>1. Frame("read", i) \in FrameType /\ Counting(Frame("read", i), i) = 1
        BY <1>1, MakeFrame, FrameEq DEF OnSlot, Counting
      <4>2. Types
        BY Parts
      <4> QED  BY <4>1, <4>2, <1>1, PointsNat
    <3> QED  BY <3>1, <3>2, <1>2
  <2>3. Linked
    BY Parts
  <2>4. inode[i].nlinks = links[<<inode[i].dev, inode[i].num>>]
    BY <2>2, <2>3, <1>0, <1>1 DEF Linked
  <2> QED  BY <2>1, <2>4, <1>3
<1> QED
  BY <1>4, <1>5, <1>6 DEF Alone

LEMMA FoundReturns ==
    ASSUME InoInv, NEW t \in Task, At(t, "found"), NEW i \in Slot, i = It(t),
           NEW e, e = task[t].empty,
           UNCHANGED <<super, disk, imap, links, panic>>, inode[i].dev # 0, Mounted(inode[i].dev),
           links[<<inode[i].dev, inode[i].num>>] # 0,
           inode' = [inode EXCEPT ![i].count = @ + 1],
           Runs(t, [task[t] EXCEPT !.got = i, !.empty = 0, !.stk = <<Frame("iput", e)>> \o Rest(t)])
    PROVE  InoInv'
<1> DEFINE T == task[t]
           R == Rest(t)
           k == Top(R)
           f == Frame("iput", e)
           c == <<f>> \o R
           rec == [T EXCEPT !.got = i, !.empty = 0, !.stk = c]
<1>1. /\ CanRun(t) /\ T \in TaskType /\ Types /\ T.got = 0 /\ 0 \notin Slot
      /\ (\A g : Has(T.stk, g) <=> g = Frame("found", It(t)) \/ g = Top(Rest(t)))
      /\ (\A g : Has(T.stk, g) => g.at \in Plain)
      /\ (\A j \in Slot : inode[j].lock # t)
      /\ \A j \in Slot : Points(t, j) = T.held[j] + (IF T.empty = j THEN 1 ELSE 0)
  BY AtSearch, SlotFacts
<1>2. e \in Slot /\ inode[e] = [Zeroed EXCEPT !.count = 1]
  BY AtLooking
<1>3. e # i
  BY <1>2 DEF Zeroed
<1>4. \A u \in Task : ~Alone(u, i)
  BY FoundFree
<1>5. /\ inode' \in [Slot -> InodeType] /\ inode'[i].count = inode[i].count + 1
      /\ \A j \in Slot : /\ inode'[j] = inode[j] \/ Touched(t, j)
                         /\ inode'[j].dev = inode[j].dev /\ inode'[j].pipe = inode[j].pipe
                         /\ inode'[j].lock = inode[j].lock
                         /\ j # i => inode'[j] = inode[j]
                         /\ inode[j].count \in Nat
  BY <1>4, Counted
<1>6. /\ R \in Seq(FrameType) /\ k.at \in Keeper /\ WellFormed(R) /\ Work(R) = k
      /\ (\A g : Has(R, g) <=> g = k) /\ (\A j : Frames(R, j) = 0)
  BY OverKeeper
<1>7. f \in FrameType /\ f.at = "iput" /\ f.i = e
  BY <1>2, MakeFrame, FrameEq DEF OnSlot
<1>8. Fits(f, k.at) /\ f.at \in Service
  BY <1>6, <1>7 DEF Fits, IO, Service, Putting, Keeper
<1>9. Runs(t, rec)
  OBVIOUS
<1> HIDE DEF f, R, k
<1>10. /\ c \in Seq(FrameType)
       /\ (WellFormed(c) <=> WellFormed(R) /\ Fits(f, Top(R).at))
       /\ Work(c) = (IF f.at \in Service THEN Work(R) ELSE f)
       /\ \A g : Has(c, g) <=> g = f \/ Has(R, g)
       /\ \A j : Frames(R, j) \in Nat /\ Frames(c, j) = Frames(R, j) + Counting(f, j)
  BY <1>6, <1>7, Push
<1> HIDE DEF c
<1>11. WellFormed(c) /\ Work(c) = k /\ \A g : Has(c, g) <=> g = f \/ g = k
  BY <1>6, <1>8, <1>10 DEF k
<1>12. ASSUME NEW j  PROVE Frames(c, j) = IF j = e THEN 1 ELSE 0
  <2>1. Frames(c, j) = Frames(R, j) + Counting(f, j) /\ Frames(R, j) = 0
        /\ Counting(f, j) = IF j = e THEN 1 ELSE 0
    BY <1>6, <1>7, <1>10 DEF Counting
  <2> QED  BY <2>1
<1>13. rec \in TaskType /\ rec.stk = c /\ rec.got = i /\ rec.empty = 0 /\ rec.held = T.held
  BY <1>1, <1>10 DEF TaskType
<1> HIDE DEF rec
<1>14. Types' /\ task'[t] = rec
  BY <1>1, <1>5, <1>9, <1>13, TypesStep, RunsFacts
<1>15. \A g : Has(rec.stk, g) => g.at \in {"iput"} \cup Keeper
  BY <1>6, <1>7, <1>11, <1>13
<1>16. /\ ~Looking(rec.stk) /\ ~Has(rec.stk, Frame("new_inode", 0))
       /\ (\A j \in Slot : ~Has(rec.stk, Frame("read", j)))
       /\ \A g : Has(rec.stk, g) => g.at \in Plain
  BY <1>15, FrameEq DEF Looking, Plain, Keeper
<1>17. inode'[i].dev # 0
  BY <1>5
<1>18. DevInv(task[t])'
  BY <1>13, <1>14, <1>16, <1>17 DEF DevInv
<1>19. ASSUME NEW j \in Slot, Has(rec.stk, Frame("chdir", j))
       PROVE  rec.held[j] > 0 /\ inode'[rec.got].dev # 0
  <2>1. Frame("chdir", j) = k
    BY <1>7, <1>11, <1>13, <1>19, FrameEq
  <2>2. Has(T.stk, Frame("chdir", j))
    BY <2>1, <1>1 DEF k, R
  <2> QED  BY <2>2, <1>13, <1>17, HasFacts DEF SlotInv
<1>20. WorkOK(rec, Work(rec.stk).at) /\ CrossOK(t)' /\ WellFormed(rec.stk)
  <2>1. Work(rec.stk).at \in Keeper
    BY <1>6, <1>11, <1>13
  <2>2. WorkOK(rec, Work(rec.stk).at)
    BY <2>1, <1>1, <1>13 DEF WorkOK, Keeper, Searching
  <2>3. CrossOK(t)'
    BY <2>1, <1>14 DEF CrossOK, Keeper
  <2> QED  BY <2>2, <2>3, <1>11, <1>13
<1>21. ASSUME NEW j \in Slot, rec.held[j] > 0 \/ rec.got = j
       PROVE  inode'[j].pipe \/ inode'[j].dev # 0
  <2>1. CASE rec.got = j
    BY <2>1, <1>13, <1>17
  <2>2. CASE rec.held[j] > 0
    BY <2>2, <1>5, <1>13, HeldFacts
  <2> QED  BY <1>21, <2>1, <2>2
<1>22. Own(t)'
  <2>1. \A j \in Slot : inode'[j].lock # t
    BY <1>1, <1>5
  <2> QED  BY <2>1, <1>1, <1>9, <1>13, <1>14, <1>16, <1>18, <1>19, <1>20, <1>21, WorkOwn
<1>23. ASSUME NEW j \in Slot
       PROVE  inode'[j].count - inode[j].count = Pointers(rec, j, inode[j].pipe) - Points(t, j)
  <2> DEFINE a == T.held[j]
             x == IF e = j THEN 1 ELSE 0
             y == IF i = j THEN 1 ELSE 0
             n == inode[j].count
             P == Pointers(rec, j, inode[j].pipe)
             Q == Points(t, j)
  <2>1. a \in Nat /\ x \in Nat /\ y \in Nat /\ n \in Nat
    BY <1>1, <1>5 DEF TaskType
  <2>2. Q = a + x
    BY <1>1
  <2>3. ~inode[i].pipe
    BY GoodFacts DEF Good
  <2>4. P = a + x + 0 + y
    BY <2>3, <1>1, <1>12, <1>13 DEF Pointers
  <2>5. inode'[j].count = n + y
    BY <1>5
  <2> HIDE DEF a, x, y, n, P, Q
  <2>6. inode'[j].count - n = P - Q
    BY <2>1, <2>2, <2>4, <2>5
  <2> QED  BY <2>6 DEF n, P, Q
<1> QED
  BY <1>1, <1>5, <1>9, <1>13, <1>14, <1>16, <1>22, <1>23, WorkQuiet

(* iget has found a mount point, puts it back and goes on to the root that *)
(* is mounted there.                                                       *)
LEMMA FoundCrosses ==
    ASSUME InoInv, NEW t \in Task, At(t, "found"), NEW i \in Slot, i = It(t),
           NEW s \in Super, super[s].imount = i, inode[i].mount,
           UNCHANGED <<super, disk, imap, links, panic>>,
           inode' = [inode EXCEPT ![i].count = @ + 1],
           Next_(t, <<Frame("iput", i), Frame("cross", s)>> \o Rest(t))
    PROVE  InoInv'
<1> DEFINE T == task[t]
           R == Rest(t)
           k == Top(R)
           f == Frame("iput", i)
           h == Frame("cross", s)
           b == <<h>> \o R
           c == <<f>> \o b
           rec == [T EXCEPT !.stk = c]
<1>1. /\ CanRun(t) /\ T \in TaskType /\ Types /\ T.got = 0 /\ 0 \notin Slot
      /\ (\A g : Has(T.stk, g) <=> g = Frame("found", It(t)) \/ g = Top(Rest(t)))
      /\ (\A g : Has(T.stk, g) => g.at \in Plain)
      /\ (\A j \in Slot : inode[j].lock # t)
      /\ \A j \in Slot : Points(t, j) = T.held[j] + (IF T.empty = j THEN 1 ELSE 0)
  BY AtSearch, SlotFacts
<1>2. T.empty \in Slot /\ inode[T.empty] = [Zeroed EXCEPT !.count = 1] /\ inode[i].lock = None
  BY AtLooking
<1>3. inode[i].dev # 0 /\ Counts /\ Supers
  BY Parts, GoodFacts DEF Good
<1>4. ~Leaving(s) /\ inode[i].count > 0 /\ OfSupers(i) > 0
  <2>1. ~Leaving(s)
    BY HasFacts DEF Leaving, SuperInv
  <2> QED  BY <2>1, <1>1, <1>3, CountBounds, SupersBounds
<1>5. Mounted(inode[i].dev) /\ \A u \in Task : ~Alone(u, i)
  <2>1. Mounted(inode[i].dev)
    BY <1>3, <1>4, GoodFacts DEF Good
  <2> QED  BY <2>1, <1>3, <1>4, FoundFree
<1>6. /\ inode' \in [Slot -> InodeType] /\ inode'[i].count = inode[i].count + 1
      /\ inode'[i].mount = inode[i].mount
      /\ \A j \in Slot : /\ inode'[j] = inode[j] \/ Touched(t, j)
                         /\ inode'[j].dev = inode[j].dev /\ inode'[j].pipe = inode[j].pipe
                         /\ inode'[j].lock = inode[j].lock
                         /\ j # i => inode'[j] = inode[j]
                         /\ inode[j].count \in Nat
  BY <1>3, <1>5, Counted
<1>7. /\ R \in Seq(FrameType) /\ k.at \in Keeper /\ WellFormed(R)
      /\ (\A g : Has(R, g) <=> g = k) /\ (\A j : Frames(R, j) = 0)
  BY OverKeeper
<1>8. /\ f \in FrameType /\ f.at = "iput" /\ f.i = i
      /\ h \in FrameType /\ h.at = "cross" /\ h.i = s
  BY MakeFrame, FrameEq DEF OnSlot, OnSuper
<1>9. Fits(h, k.at) /\ Fits(f, "cross") /\ f.at \in Service /\ h.at \notin Service
  BY <1>7, <1>8 DEF Fits, IO, Service, Putting, Keeper
<1>10. Runs(t, rec)
  <2>1. <<f, h>> \o R = c
    BY <1>7, <1>8, StackedOn
  <2> QED  BY <2>1 DEF Next_
<1> HIDE DEF f, h, R, k
<1>11. /\ b \in Seq(FrameType) /\ Top(b) = h
       /\ (WellFormed(b) <=> WellFormed(R) /\ Fits(h, Top(R).at))
       /\ Work(b) = (IF h.at \in Service THEN Work(R) ELSE h)
       /\ (\A g : Has(b, g) <=> g = h \/ Has(R, g))
       /\ \A j : Frames(b, j) = Frames(R, j) + Counting(h, j)
  BY <1>7, <1>8, Push
<1> HIDE DEF b
<1>12. /\ c \in Seq(FrameType) /\ Top(c) = f
       /\ (WellFormed(c) <=> WellFormed(b) /\ Fits(f, Top(b).at))
       /\ Work(c) = (IF f.at \in Service THEN Work(b) ELSE f)
       /\ (\A g : Has(c, g) <=> g = f \/ Has(b, g))
       /\ \A j : Frames(c, j) = Frames(b, j) + Counting(f, j)
  BY <1>8, <1>11, Push
<1> HIDE DEF c
<1>13. WellFormed(c) /\ Work(c) = h /\ \A g : Has(c, g) <=> g \in {f, h, k}
  <2>1. WellFormed(b)
    BY <1>7, <1>9, <1>11 DEF k
  <2>2. WellFormed(c) /\ Work(c) = h
    BY <2>1, <1>8, <1>9, <1>11, <1>12
  <2> QED  BY <2>2, <1>7, <1>11, <1>12
<1>14. ASSUME NEW j  PROVE Frames(c, j) = IF j = i THEN 1 ELSE 0
  <2>1. /\ Frames(b, j) = Frames(R, j) + Counting(h, j) /\ Frames(R, j) = 0 /\ Counting(h, j) = 0
        /\ Frames(c, j) = Frames(b, j) + Counting(f, j) /\ Counting(f, j) = IF j = i THEN 1 ELSE 0
    BY <1>7, <1>8, <1>11, <1>12 DEF Counting
  <2>2. Frames(b, j) = 0
    BY <2>1
  <2> QED  BY <2>1, <2>2
<1>15. rec \in TaskType /\ rec.stk = c /\ rec.got = 0 /\ rec.empty = T.empty /\ rec.held = T.held
  BY <1>1, <1>12 DEF TaskType
<1> HIDE DEF rec
<1>16. /\ Types' /\ task'[t] = rec
       /\ Top(rec.stk).at \notin IO \cup {"user"} /\ ~Blocked(Top(rec.stk), inode') => cpu' = t
  BY <1>1, <1>6, <1>10, <1>15, TypesStep, RunsFacts
<1>17. \A g : Has(rec.stk, g) => g.at \in {"iput", "cross"} \cup Keeper
  BY <1>7, <1>8, <1>13, <1>15
<1>18. /\ ~Looking(rec.stk) /\ ~Has(rec.stk, Frame("new_inode", 0))
       /\ (\A j \in Slot : ~Has(rec.stk, Frame("read", j)))
       /\ \A g : Has(rec.stk, g) => g.at \in Plain
  BY <1>17, FrameEq DEF Looking, Plain, Keeper
<1>19. DevInv(task[t])'
  BY <1>15, <1>16, <1>18 DEF DevInv
<1>20. ASSUME NEW j \in Slot, Has(rec.stk, Frame("chdir", j))
       PROVE  rec.held[j] > 0
  <2>1. Frame("chdir", j) = k
    BY <1>8, <1>13, <1>15, <1>20, FrameEq
  <2>2. Has(T.stk, Frame("chdir", j))
    BY <2>1, <1>1 DEF k, R
  <2> QED  BY <2>2, <1>15, HasFacts DEF SlotInv
<1>21. cpu' = t
  <2>1. Top(rec.stk) = f /\ inode'[i].lock = None
    BY <1>2, <1>6, <1>12, <1>15
  <2>2. ~Blocked(f, inode')
    BY <2>1, <1>8, NotBlocked
  <2> QED  BY <2>1, <2>2, <1>8, <1>16 DEF IO
<1>22. CrossOK(t)'
  <2>1. /\ Work(rec.stk) = h /\ Top(rec.stk) = f /\ super'[s].imount = i /\ i # 0 /\ inode'[i].mount
    BY <1>1, <1>6, <1>12, <1>13, <1>15
  <2> QED  BY <2>1, <1>8, <1>16, <1>21 DEF CrossOK
<1>23. WorkOK(rec, Work(rec.stk).at) /\ WellFormed(rec.stk)
  <2>1. Work(rec.stk).at = "cross" /\ rec.empty # 0
    BY <1>1, <1>2, <1>8, <1>13, <1>15
  <2> QED  BY <2>1, <1>13, <1>15 DEF WorkOK, Keeper, Searching
<1>24. ASSUME NEW j \in Slot, rec.held[j] > 0 \/ rec.got = j
       PROVE  inode'[j].pipe \/ inode'[j].dev # 0
  <2>1. T.held[j] > 0
    BY <1>1, <1>15, <1>24
  <2> QED  BY <2>1, <1>6, HeldFacts
<1>25. inode'[T.empty] = [Zeroed EXCEPT !.count = 1]
  <2>1. T.empty # i
    BY <1>2, <1>3 DEF Zeroed
  <2> QED  BY <2>1, <1>2, <1>6
<1>26. Own(t)'
  <2>1. \A j \in Slot : inode'[j].lock # t
    BY <1>1, <1>6
  <2> QED  BY <2>1, <1>1, <1>10, <1>15, <1>16, <1>18, <1>19, <1>20, <1>22, <1>23, <1>24, <1>25, WorkOwn
<1>27. ASSUME NEW j \in Slot
       PROVE  inode'[j].count - inode[j].count = Pointers(rec, j, inode[j].pipe) - Points(t, j)
  <2> DEFINE a == T.held[j]
             x == IF T.empty = j THEN 1 ELSE 0
             y == IF j = i THEN 1 ELSE 0
             n == inode[j].count
             P == Pointers(rec, j, inode[j].pipe)
             Q == Points(t, j)
  <2>1. a \in Nat /\ x \in Nat /\ y \in Nat /\ n \in Nat
    BY <1>1, <1>6 DEF TaskType
  <2>2. Q = a + x
    BY <1>1
  <2>4. P = a + y + x + 0
    BY <1>1, <1>14, <1>15 DEF Pointers
  <2>5. inode'[j].count = n + y
    BY <1>6
  <2> HIDE DEF a, x, y, n, P, Q
  <2>6. inode'[j].count - n = P - Q
    BY <2>1, <2>2, <2>4, <2>5
  <2> QED  BY <2>6 DEF n, P, Q
<1> QED
  BY <1>1, <1>6, <1>10, <1>15, <1>16, <1>18, <1>26, <1>27, WorkQuiet

LEMMA IgetFoundStep ==
    ASSUME InoInv, NEW t \in Task, IgetFound(t), trouble' = {}
    PROVE  InoInv'
<1> DEFINE T == task[t]
<1>0. PICK i : i = It(t)
  OBVIOUS
<1> DEFINE over == {s \in Super : super[s].imount = i}
<1>1. At(t, "found") /\ UNCHANGED <<super, disk, imap, links, panic>>
  BY DEF IgetFound, ioVars
<1>2. /\ i \in Slot /\ T.dev \in Dev /\ T.nr \in Num /\ (T.nr = ROOT_INO \/ Safe(T))
      /\ T.empty \in Slot /\ 0 \notin Dev
  BY <1>0, <1>1, AtLooking, SlotFacts
<1>3. CASE inode' = inode /\ Next_(t, <<Frame("scan", 0)>> \o Rest(t))
  <2>1. Frame("scan", 0) \in FrameType /\ Frame("scan", 0).at = "scan"
    BY MakeFrame, FrameEq DEF OnNone
  <2> QED  BY <2>1, <1>1, <1>3, SearchGoesOn
<1>4. CASE /\ inode[i].mount /\ over # {}
           /\ inode' = [inode EXCEPT ![i].count = @ + 1]
           /\ Next_(t, <<Frame("iput", i), Frame("cross", Min(over))>> \o Rest(t))
  <2>1. over \subseteq Nat
    BY SlotFacts
  <2>2. PICK s : s = Min(over)
    OBVIOUS
  <2>3. s \in over
    <3> HIDE DEF over
    <3> QED  BY <2>1, <2>2, <1>4, LeastExists
  <2> QED  BY <2>2, <2>3, <1>0, <1>1, <1>2, <1>4, FoundCrosses
<1>5. CASE /\ Matches(i, T.dev, T.nr)
           /\ inode' = [inode EXCEPT ![i].count = @ + 1]
           /\ trouble' = trouble \cup Race(T)
           /\ Runs(t, [T EXCEPT !.got = i, !.empty = 0,
                                !.stk = <<Frame("iput", T.empty)>> \o Rest(t)])
  <2>1. links[<<T.dev, T.nr>>] # 0 /\ (T.nr = ROOT_INO => Mounted(T.dev))
    BY <1>5, NoRace
  <2>2. Mounted(T.dev)
    BY <2>1, <1>2, DevMounted
  <2>3. inode[i].dev = T.dev /\ inode[i].num = T.nr
    BY <1>5 DEF Matches
  <2>4. PICK e : e = T.empty
    OBVIOUS
  <2>5. Runs(t, [task[t] EXCEPT !.got = i, !.empty = 0, !.stk = <<Frame("iput", e)>> \o Rest(t)])
    BY <2>4, <1>5
  <2>6. Mounted(inode[i].dev) /\ links[<<inode[i].dev, inode[i].num>>] # 0 /\ inode[i].dev # 0
    BY <2>1, <2>2, <2>3, <1>2
  <2> QED  BY <2>4, <2>5, <2>6, <1>0, <1>1, <1>2, <1>5, FoundReturns
<1> QED
  BY <1>0, <1>3, <1>4, <1>5 DEF IgetFound

LEMMA WorkSteady ==
    ASSUME InoInv, Types', NEW t \in Task, NEW rec, NEW i, OneInode(t, rec, i), Own(t)',
           Table', Unique', Linked'
    PROVE  InoInv'
<1>0. /\ CanRun(t) /\ rec \in TaskType /\ Runs(t, rec) /\ UNCHANGED <<super, panic>>
      /\ (\A g : Has(task[t].stk, g) => g.at \in Plain \cup {"read"})
      /\ (\A g : Has(rec.stk, g) => g.at \in Plain \cup {"read"})
      /\ (\A p \in Dev \X Num : links[p] > 0 => links'[p] > 0)
      /\ i \in Slot /\ (\A u \in Task : u # t => Points(u, i) = 0)
      /\ inode[i].lock \in {None, t} /\ inode'[i].lock \in {None, t}
      /\ (inode'[i].mount => inode[i].mount)
      /\ inode'[i].count - inode[i].count = Pointers(rec, i, inode'[i].pipe) - Points(t, i)
      /\ \A j \in Slot : j # i =>
            inode'[j] = inode[j] /\ Pointers(rec, j, inode[j].pipe) = Points(t, j)
  BY DEF OneInode
<1>1. Types /\ \A j \in Slot : Good(j)
  BY Parts, GoodFacts
<1>2. task'[t] = rec /\ OnlyTask(t) /\ cpu \in {t, None} /\ cpu' \in {t, None}
  BY <1>0, <1>1, RunsFacts
<1>3. UNCHANGED <<super, panic>>
  BY <1>0
<1>4. /\ \A j \in Slot : ~Has(rec.stk, Frame("mount", j))
      /\ \A s \in Super : /\ ~Has(task[t].stk, Frame("umount", s)) /\ ~Has(rec.stk, Frame("umount", s))
                          /\ ~Has(rec.stk, Frame("read_super", s))
  BY <1>0, FrameEq DEF Plain, Keeper
<1>5. ASSUME NEW u \in Task, u # t  PROVE ~Alone(u, i) /\ Points(u, i) = 0
  <2>1. Points(u, i) = 0
    BY <1>0, <1>5
  <2> QED  BY <1>0, <2>1, AloneFacts
<1>6. ASSUME NEW u \in Task, u # t  PROVE Spared(t, u)
  <2>1. /\ task[u].empty # i /\ ~Has(task[u].stk, Frame("read", i))
        /\ ~Has(task[u].stk, Frame("trunc", i)) /\ Points(u, i) = 0
    BY <1>5, <1>6 DEF Alone
  <2>2. ASSUME NEW j \in Slot, Has(task[u].stk, Frame("read", j))
        PROVE  inode'[j] = inode[j] /\ links'[<<inode[j].dev, inode[j].num>>] > 0
    <3>1. inode[j].dev # 0 /\ links[<<inode[j].dev, inode[j].num>>] > 0
      BY <2>2, HasFacts DEF SlotInv
    <3>2. <<inode[j].dev, inode[j].num>> \in Dev \X Num
      BY <3>1, <1>1 DEF Types, Good, InodeType
    <3> QED  BY <3>1, <3>2, <2>1, <2>2, <1>0
  <2>3. \A s \in Super : \A j \in Slot : Has(task[u].stk, Frame("mount", j)) => super[s].imount # j
    BY HasFacts DEF SlotInv
  <2>4. \A j \in Slot : j # i => inode'[j] = inode[j]
    BY <1>0
  <2>5. ASSUME NEW j \in Slot
        PROVE  /\ Points(u, j) > 0 => /\ inode'[j].dev = inode[j].dev /\ inode'[j].num = inode[j].num
                                      /\ inode'[j].pipe = inode[j].pipe
               /\ task[u].empty = j => inode'[j] = inode[j]
               /\ Has(task[u].stk, Frame("trunc", j)) =>
                        inode'[j].count = inode[j].count /\ inode'[j].nlinks = inode[j].nlinks
               /\ \/ inode'[j].lock = inode[j].lock
                  \/ inode[j].lock \in {None, t} /\ inode'[j].lock \in {None, t}
               /\ ~(inode'[j].mount /\ ~inode[j].mount)
    <3>1. CASE j = i
      BY <3>1, <2>1, <1>0
    <3>2. CASE j # i
      BY <3>2, <2>4
    <3> QED  BY <3>1, <3>2
  <2> QED  BY <2>2, <2>3, <2>5, <1>3 DEF Spared
<1>7. ASSUME NEW j \in Slot
      PROVE  inode'[j].count - inode[j].count = Points(t, j)' - Points(t, j)
  <2>1. CASE j = i
    BY <2>1, <1>0, <1>2 DEF Points
  <2>2. CASE j # i
    <3>1. Points(t, j)' = Points(t, j) /\ inode'[j].count = inode[j].count
      BY <2>2, <1>0, <1>2 DEF Points
    <3>2. inode[j].count \in Nat /\ Points(t, j) \in Nat
      BY <1>1, PointsNat DEF Types, InodeType
    <3> DEFINE a == inode[j].count
               x == Points(t, j)
    <3>3. inode'[j].count = a /\ Points(t, j)' = x /\ a \in Nat /\ x \in Nat
      BY <3>1, <3>2
    <3> HIDE DEF a, x
    <3>4. a - a = x - x
      BY <3>3
    <3> QED  BY <3>3, <3>4 DEF a, x
  <2> QED  BY <2>1, <2>2
<1>8. ASSUME NEW j \in Slot
      PROVE  inode'[j].pipe = inode[j].pipe \/ \A u \in Task : u # t => Points(u, j) = 0
  <2>1. j # i => inode'[j] = inode[j]
    BY <1>0
  <2> QED  BY <2>1, <1>0
<1>9. Steady(t)
  BY <1>2, <1>3, <1>4, <1>6, <1>7, <1>8 DEF Steady
<1> QED
  BY <1>9, SteadyStep

LEMMA OneChanged ==
    ASSUME NEW i \in Slot, inode \in [Slot -> InodeType], NEW J \in InodeType,
           inode' = [inode EXCEPT ![i] = J]
    PROVE  /\ inode' \in [Slot -> InodeType] /\ inode'[i] = J
           /\ \A j \in Slot : j # i => inode'[j] = inode[j]
OBVIOUS

(* An inode that is not in the table is read into the empty one.           *)
LEMMA ScanReads ==
    ASSUME InoInv, NEW t \in Task, At(t, "scan"), NEW e, e = task[t].empty,
           UNCHANGED <<super, disk, imap, links, panic>>,
           \A i \in Slot : ~Matches(i, task[t].dev, task[t].nr),
           links[<<task[t].dev, task[t].nr>>] # 0, Mounted(task[t].dev),
           NEW J, J = [Zeroed EXCEPT !.count = 1, !.dev = task[t].dev, !.num = task[t].nr, !.lock = t],
           inode' = [inode EXCEPT ![e] = J],
           Runs(t, [task[t] EXCEPT !.empty = 0, !.stk = <<Frame("read", e)>> \o Rest(t)])
    PROVE  InoInv'
<1> DEFINE T == task[t]
           R == Rest(t)
           k == Top(R)
           f == Frame("read", e)
           c == <<f>> \o R
           rec == [T EXCEPT !.empty = 0, !.stk = c]
<1>1. /\ CanRun(t) /\ T \in TaskType /\ Types /\ T.got = 0 /\ 0 \notin Slot
      /\ (\A g : Has(T.stk, g) <=> g = Frame("scan", It(t)) \/ g = Top(Rest(t)))
      /\ (\A g : Has(T.stk, g) => g.at \in Plain)
      /\ (\A j \in Slot : inode[j].lock # t)
      /\ \A j \in Slot : Points(t, j) = T.held[j] + (IF T.empty = j THEN 1 ELSE 0)
  BY AtSearch, SlotFacts
<1>2. /\ e \in Slot /\ inode[e] = [Zeroed EXCEPT !.count = 1] /\ T.dev \in Dev /\ T.nr \in Num
      /\ 0 \notin Dev
  BY AtLooking, SlotFacts
<1>3. /\ Unique /\ Linked /\ inode \in [Slot -> InodeType] /\ links \in [Dev \X Num -> Nat]
      /\ super \in [Super -> SuperType]
  BY <1>1, Parts DEF Types
<1>4. /\ J.dev = T.dev /\ J.num = T.nr /\ J.lock = t /\ J.count = 1 /\ ~J.dirt /\ ~J.pipe /\ ~J.mount
      /\ J \in InodeType
  BY <1>2 DEF Zeroed, InodeType
<1>6. /\ inode' \in [Slot -> InodeType] /\ inode'[e] = J /\ \A j \in Slot : j # e => inode'[j] = inode[j]
  BY <1>2, <1>3, <1>4, OneChanged
<1>7. /\ R \in Seq(FrameType) /\ k.at \in Keeper /\ WellFormed(R)
      /\ (\A g : Has(R, g) <=> g = k) /\ (\A j : Frames(R, j) = 0)
  BY OverKeeper
<1>8. f \in FrameType /\ f.at = "read" /\ f.i = e
  BY <1>2, MakeFrame, FrameEq DEF OnSlot
<1>9. Fits(f, k.at) /\ f.at \notin Service
  BY <1>7, <1>8 DEF Fits, IO, Service, Putting, Keeper
<1>10. Runs(t, rec)
  OBVIOUS
<1> HIDE DEF f, R, k
<1>11. /\ c \in Seq(FrameType) /\ Top(c) = f
       /\ (WellFormed(c) <=> WellFormed(R) /\ Fits(f, Top(R).at))
       /\ Work(c) = (IF f.at \in Service THEN Work(R) ELSE f)
       /\ (\A g : Has(c, g) <=> g = f \/ Has(R, g))
       /\ \A j : Frames(c, j) = Frames(R, j) + Counting(f, j)
  BY <1>7, <1>8, Push
<1> HIDE DEF c
<1>12. WellFormed(c) /\ Work(c) = f /\ \A g : Has(c, g) <=> g = f \/ g = k
  BY <1>7, <1>9, <1>11 DEF k
<1>13. ASSUME NEW j  PROVE Frames(c, j) = IF j = e THEN 1 ELSE 0
  <2>1. Frames(c, j) = Frames(R, j) + Counting(f, j) /\ Frames(R, j) = 0
        /\ Counting(f, j) = IF j = e THEN 1 ELSE 0
    BY <1>7, <1>8, <1>11 DEF Counting
  <2> QED  BY <2>1
<1>14. rec \in TaskType /\ rec.stk = c /\ rec.got = 0 /\ rec.empty = 0 /\ rec.held = T.held
  BY <1>1, <1>11 DEF TaskType
<1> HIDE DEF rec
<1>15. Types' /\ task'[t] = rec /\ OnlyTask(t)
  BY <1>1, <1>6, <1>10, <1>14, TypesStep, RunsFacts
<1>16. \A g : Has(rec.stk, g) => g.at \in {"read"} \cup Keeper
  BY <1>7, <1>8, <1>12, <1>14
<1>17. /\ ~Looking(rec.stk) /\ ~Has(rec.stk, Frame("new_inode", 0))
       /\ (\A j \in Slot : Has(rec.stk, Frame("read", j)) <=> j = e)
       /\ \A g : Has(rec.stk, g) => g.at \in Plain \cup {"read"}
  <2>1. \A j \in Slot : Has(rec.stk, Frame("read", j)) <=> j = e
    BY <1>7, <1>8, <1>12, <1>14, FrameEq DEF Keeper, f
  <2> QED  BY <2>1, <1>16, FrameEq DEF Looking, Plain, Keeper
<1>18. DevInv(task[t])'
  BY <1>14, <1>15, <1>17 DEF DevInv
<1>19. ASSUME NEW j \in Slot, Has(rec.stk, Frame("chdir", j))
       PROVE  rec.held[j] > 0
  <2>1. Frame("chdir", j) = k
    BY <1>8, <1>12, <1>14, <1>19, FrameEq
  <2>2. Has(T.stk, Frame("chdir", j))
    BY <2>1, <1>1 DEF k, R
  <2> QED  BY <2>2, <1>14, HasFacts DEF SlotInv
<1>20. WorkOK(rec, Work(rec.stk).at) /\ CrossOK(t)' /\ WellFormed(rec.stk)
  <2>1. Work(rec.stk).at = "read"
    BY <1>8, <1>12, <1>14
  <2> QED  BY <2>1, <1>12, <1>14, <1>15 DEF WorkOK, Keeper, Searching, CrossOK
<1>21. Alone(t, e) /\ \A u \in Task : u # t => Points(u, e) = 0
  <2>1. Alone(t, e)
    BY DEF Alone
  <2> QED  BY <2>1, <1>2, AloneFacts
<1>22. ASSUME NEW j \in Slot, rec.held[j] > 0 \/ rec.got = j
       PROVE  inode'[j].pipe \/ inode'[j].dev # 0
  <2>1. T.held[j] > 0
    BY <1>1, <1>14, <1>22
  <2>2. CASE j = e
    BY <2>2, <1>2, <1>4, <1>6
  <2>3. CASE j # e
    BY <2>1, <2>3, <1>6, HeldFacts
  <2> QED  BY <2>2, <2>3
<1>23. links[<<T.dev, T.nr>>] > 0 /\ <<T.dev, T.nr>> \in Dev \X Num
  BY <1>2, <1>3
<1>24. Own(t)'
  <2>1. \A j \in Slot : inode'[j].lock = t => Top(rec.stk) = Frame("read", j)
    BY <1>1, <1>6, <1>11, <1>14 DEF f
  <2>2. \A j \in Slot : Has(rec.stk, Frame("read", j)) =>
                    /\ inode'[j].dev # 0 /\ inode'[j].count = 1 /\ ~inode'[j].dirt
                    /\ links'[<<inode'[j].dev, inode'[j].num>>] > 0 /\ inode'[j].lock = t
    BY <1>2, <1>4, <1>6, <1>17, <1>23
  <2> QED  BY <2>1, <2>2, <1>1, <1>10, <1>14, <1>15, <1>17, <1>18, <1>19, <1>20, <1>22, WorkOwn
<1>25. Table'
  <2>1. ASSUME NEW d  PROVE Mounted(d) <=> Mounted(d)'
    <3>1. \A j \in Slot : inode'[j].mount = inode[j].mount
      BY <1>2, <1>4, <1>6, Zenon DEF Zeroed
    <3> QED  BY <3>1, <1>3, MountedSame DEF SuperType
  <2>2. Mounted(inode[e].dev)'
    BY <2>1, <1>4, <1>6
  <2>3. <<T.dev, T.nr>> \in imap
    BY <1>3, <1>23 DEF Linked
  <2>4. Good(e)'
    BY <2>2, <2>3, <1>2, <1>4, <1>6 DEF Good
  <2>5. \A j \in Slot : inode[j].dev # 0 => <<inode[j].dev, inode[j].num>> \in imap'
    BY GoodFacts DEF Good
  <2>6. e # 1
    BY <1>2, <1>21, AloneFacts
  <2> QED  BY <2>1, <2>4, <2>5, <2>6, <1>2, <1>6, TableStep
<1>26. Unique'
  <2>1. \A j \in Slot : ~(inode[j].dev = T.dev /\ inode[j].num = T.nr)
    BY DEF Matches
  <2>2. ASSUME NEW a \in Slot, NEW b \in Slot, a # b, inode'[a].dev # 0
        PROVE  ~(inode'[a].dev = inode'[b].dev /\ inode'[a].num = inode'[b].num)
    <3>1. CASE a = e
      BY <3>1, <2>1, <2>2, <1>4, <1>6
    <3>2. CASE b = e
      BY <3>2, <2>1, <2>2, <1>4, <1>6
    <3>3. CASE a # e /\ b # e
      BY <3>3, <2>2, <1>3, <1>6 DEF Unique, Matches
    <3> QED  BY <3>1, <3>2, <3>3
  <2> QED  BY <2>2 DEF Unique, Matches
<1>27. \A j \in Slot : j # e => (InCore(j)' <=> InCore(j))
  <2>1. \A j \in Slot : ~Has(T.stk, Frame("read", j))
    BY <1>1, FrameEq DEF Plain, Keeper
  <2> QED  BY <2>1, <1>15, <1>17, InCoreSame
<1>28. ~InCore(e)'
  BY <1>2, <1>15, <1>17 DEF InCore
<1>29. Linked'
  <2>1. ASSUME NEW p \in Dev \X Num, links'[p] > 0,
               \A j \in Slot : ~(Matches(j, p[1], p[2])' /\ InCore(j)')
        PROVE  disk'[p] = links'[p]
    <3>1. \A j \in Slot : ~(Matches(j, p[1], p[2]) /\ InCore(j))
      <4>1. ~Matches(e, p[1], p[2])
        BY <1>2 DEF Matches, Zeroed
      <4>2. \A j \in Slot : j # e => ~(Matches(j, p[1], p[2]) /\ InCore(j))
        BY <2>1, <1>6, <1>27 DEF Matches
      <4> QED  BY <4>1, <4>2
    <3> QED  BY <3>1, <2>1, <1>3 DEF Linked
  <2>2. ASSUME NEW j \in Slot, inode'[j].dev # 0, InCore(j)'
        PROVE  /\ inode'[j].nlinks = links'[<<inode'[j].dev, inode'[j].num>>]
               /\ ~inode'[j].dirt => disk'[<<inode'[j].dev, inode'[j].num>>] = inode'[j].nlinks
    BY <2>2, <1>3, <1>6, <1>27, <1>28 DEF Linked
  <2> QED  BY <2>1, <2>2, <1>3 DEF Linked
<1>30. inode'[e].count - inode[e].count = Pointers(rec, e, inode'[e].pipe) - Points(t, e)
  <2> DEFINE a == T.held[e]
             P == Pointers(rec, e, inode'[e].pipe)
             Q == Points(t, e)
  <2>1. a \in Nat /\ Q = a + 1
    BY <1>1, <1>2 DEF TaskType
  <2>2. P = a + 1 + 0 + 0
    BY <1>1, <1>2, <1>13, <1>14 DEF Pointers
  <2>3. inode'[e].count = 1 /\ inode[e].count = 1
    BY <1>2, <1>4, <1>6 DEF Zeroed
  <2> HIDE DEF a, P, Q
  <2>4. 1 - 1 = P - Q
    BY <2>1, <2>2
  <2> QED  BY <2>3, <2>4 DEF P, Q
<1>31. ASSUME NEW j \in Slot, j # e  PROVE Pointers(rec, j, inode[j].pipe) = Points(t, j)
  <2> DEFINE a == T.held[j]
  <2>1. a \in Nat /\ Points(t, j) = a + 0
    BY <1>1, <1>31 DEF TaskType
  <2>2. Pointers(rec, j, inode[j].pipe) = a + 0 + 0 + 0
    BY <1>1, <1>13, <1>14, <1>31 DEF Pointers
  <2> HIDE DEF a
  <2> QED  BY <2>1, <2>2
<1>32. inode[e].lock \in {None, t} /\ inode'[e].lock \in {None, t} /\ ~inode'[e].mount
  BY <1>2, <1>4, <1>6 DEF Zeroed
<1>33. UNCHANGED <<super, panic>> /\ \A p \in Dev \X Num : links[p] > 0 => links'[p] > 0
  OBVIOUS
<1>34. \A g : Has(T.stk, g) => g.at \in Plain \cup {"read"}
  BY <1>1
<1>35. OneInode(t, rec, e)
  BY <1>1, <1>2, <1>6, <1>10, <1>14, <1>17, <1>21, <1>30, <1>31, <1>32, <1>33, <1>34 DEF OneInode
<1> QED
  BY <1>15, <1>24, <1>25, <1>26, <1>29, <1>35, WorkSteady

LEMMA IgetScansStep ==
    ASSUME InoInv, NEW t \in Task, IgetScans(t), trouble' = {}
    PROVE  InoInv'
<1> DEFINE T == task[t]
           match == {i \in Slot : Matches(i, T.dev, T.nr)}
<1>1. At(t, "scan")
  BY DEF IgetScans
<1>2. /\ T.dev \in Dev /\ T.nr \in Num /\ (T.nr = ROOT_INO \/ Safe(T)) /\ T.empty \in Slot
      /\ inode[T.empty] = [Zeroed EXCEPT !.count = 1] /\ 0 \notin Dev
  BY <1>1, AtLooking, SlotFacts
<1>3. CASE match # {}
  <2>1. /\ UNCHANGED <<inode, super, disk, imap, links, panic>>
        /\ Next_(t, <<Frame("found", Min(match))>> \o Rest(t))
    BY <1>3 DEF IgetScans, ioVars
  <2>2. match \subseteq Nat
    BY SlotFacts
  <2>3. PICK i : i = Min(match)
    OBVIOUS
  <2>4. i \in match
    <3> HIDE DEF match
    <3> QED  BY <2>2, <2>3, <1>3, LeastExists
  <2>5. Frame("found", i) \in FrameType /\ Frame("found", i).at = "found"
    BY <2>4, MakeFrame, FrameEq DEF OnSlot
  <2>6. Next_(t, <<Frame("found", i)>> \o Rest(t))
    BY <2>1, <2>3
  <2> QED  BY <2>1, <2>5, <2>6, <1>1, SearchGoesOn
<1>4. CASE match = {}
  <2>1. trouble' = trouble \cup Race(T)
    BY <1>4 DEF IgetScans
  <2>2. links[<<T.dev, T.nr>>] # 0 /\ (T.nr = ROOT_INO => Mounted(T.dev))
    BY <2>1, NoRace
  <2>3. Mounted(T.dev)
    BY <2>2, <1>2, DevMounted
  <2>4. get_super(T.dev) # {}
    BY <2>3, <1>2, MountedSuper
  <2>5. PICK e : e = T.empty
    OBVIOUS
  <2>6. /\ inode' = [inode EXCEPT ![e].dev = T.dev, ![e].num = T.nr, ![e].lock = t]
        /\ Runs(t, [T EXCEPT !.empty = 0, !.stk = <<Frame("read", e)>> \o Rest(t)])
        /\ UNCHANGED <<super, disk, imap, links, panic>>
    BY <2>4, <2>5, <1>4 DEF IgetScans, ioVars
  <2>7. PICK J : J = [Zeroed EXCEPT !.count = 1, !.dev = T.dev, !.num = T.nr, !.lock = t]
    OBVIOUS
  <2>8. inode' = [inode EXCEPT ![e] = J]
    <3>1. inode \in [Slot -> InodeType] /\ e \in Slot
      BY <1>2, <2>5, Parts DEF Types
    <3> QED  BY <3>1, <2>5, <2>6, <2>7, <1>2 DEF Zeroed
  <2>9. \A i \in Slot : ~Matches(i, T.dev, T.nr)
    BY <1>4
  <2>10. e = task[t].empty
    BY <2>5
  <2>11. UNCHANGED <<super, disk, imap, links, panic>>
    BY <2>6
  <2>12. \A i \in Slot : ~Matches(i, task[t].dev, task[t].nr)
    BY <2>9
  <2>13. links[<<task[t].dev, task[t].nr>>] # 0 /\ Mounted(task[t].dev)
    BY <2>2, <2>3
  <2>14. J = [Zeroed EXCEPT !.count = 1, !.dev = task[t].dev, !.num = task[t].nr, !.lock = t]
    BY <2>7
  <2>15. Runs(t, [task[t] EXCEPT !.empty = 0, !.stk = <<Frame("read", e)>> \o Rest(t)])
    BY <2>6
  <2> HIDE DEF T, match
  <2> QED  BY <2>8, <2>10, <2>11, <2>12, <2>13, <2>14, <2>15, <1>1, ScanReads
<1> QED
  BY <1>3, <1>4

(* The block is there: the inode has its links, and the caller has it.     *)
LEMMA ReadInodeStep ==
    ASSUME InoInv, NEW t \in Task, read_inode(t)
    PROVE  InoInv'
<1> DEFINE T == task[t]
           R == Rest(t)
           k == Top(R)
<1>0. PICK i : i = It(t)
  OBVIOUS
<1> DEFINE I == inode[i]
           q == <<I.dev, I.num>>
           J == [I EXCEPT !.nlinks = disk[q], !.lock = None]
           rec == [T EXCEPT !.got = i, !.stk = R]
<1>1. /\ At(t, "read") /\ UNCHANGED <<super, disk, imap, links, panic>>
      /\ inode' = [inode EXCEPT ![i].nlinks = disk[q], ![i].lock = None] /\ Runs(t, rec)
  BY <1>0 DEF read_inode, ioVars
<1>2. /\ CanRun(t) /\ Head(T.stk) = Frame("read", i) /\ Head(T.stk) \in FrameType /\ R = Tail(T.stk)
      /\ (\A g : Has(T.stk, g) <=> g = Head(T.stk) \/ Has(R, g))
      /\ (\A j : Frames(T.stk, j) = Frames(R, j) + Counting(Head(T.stk), j))
  BY <1>0, <1>1, AtFacts
<1>3. /\ R \in Seq(FrameType) /\ k.at \in Keeper /\ WellFormed(R) /\ Work(R) = k
      /\ (\A g : Has(R, g) <=> g = k) /\ (\A j : Frames(R, j) = 0)
  BY <1>1, OverKeeper
<1>4. i \in Slot /\ 0 \notin Slot
  <2>1. Frame("read", i) \in FrameType
    BY <1>2
  <2> QED  BY <2>1, FrameFacts, FrameEq, SlotFacts DEF OnSlot
<1>5. /\ T.got = 0 /\ T.empty = 0 /\ T \in TaskType /\ Types /\ T.held \in [Slot -> Nat]
  <2>1. WorkOK(T, "read")
    <3>1. "read" \notin Service \cup {"user"}
      BY DEF Service
    <3> QED  BY <1>1, <3>1, WorkFacts
  <2> QED  BY <2>1, Parts DEF WorkOK, Keeper, Searching, TaskType
<1>6. /\ I.dev # 0 /\ I.count = 1 /\ ~I.dirt /\ links[q] > 0 /\ I.lock = t
      /\ Has(T.stk, Frame("read", i))
  <2>1. Has(T.stk, Frame("read", i))
    BY <1>2
  <2> QED  BY <2>1, <1>4, HasFacts DEF SlotInv
<1>7. /\ i # 1 /\ Points(t, i) = 1 /\ \A u \in Task : u # t => Points(u, i) = 0
  <2>1. Alone(t, i)
    BY <1>6 DEF Alone
  <2> QED  BY <2>1, <1>4, AloneFacts
<1>8. /\ Unique /\ Linked /\ inode \in [Slot -> InodeType] /\ links \in [Dev \X Num -> Nat]
      /\ disk \in [Dev \X Num -> Nat] /\ super \in [Super -> SuperType] /\ I \in InodeType /\ Good(i)
  BY <1>4, <1>5, Parts, GoodFacts DEF Types
<1>9. q \in Dev \X Num /\ ~I.pipe /\ I.num \in Num
  BY <1>6, <1>8 DEF Good, InodeType
<1>10. disk[q] = links[q]
  <2>1. ~InCore(i)
    BY <1>6 DEF InCore
  <2>2. \A j \in Slot : ~(Matches(j, q[1], q[2]) /\ InCore(j))
    <3> SUFFICES ASSUME NEW j \in Slot, Matches(j, q[1], q[2]), InCore(j)  PROVE FALSE
      OBVIOUS
    <3>1. j # i /\ inode[j].dev = I.dev /\ inode[j].num = I.num
      BY <2>1 DEF Matches
    <3> QED  BY <3>1, <1>4, <1>6, <1>8 DEF Unique, Matches
  <2> QED  BY <2>2, <1>6, <1>8, <1>9 DEF Linked
<1>11. /\ J \in InodeType /\ J.dev = I.dev /\ J.num = I.num /\ J.count = 1 /\ ~J.dirt /\ ~J.pipe
       /\ J.mount = I.mount /\ J.lock = None /\ J.nlinks = links[q]
  BY <1>6, <1>8, <1>9, <1>10 DEF InodeType
<1>12. inode' = [inode EXCEPT ![i] = J]
  BY <1>1, <1>4, <1>8
<1> HIDE DEF J
<1>13. /\ inode' \in [Slot -> InodeType] /\ inode'[i] = J
       /\ \A j \in Slot : j # i => inode'[j] = inode[j]
  BY <1>4, <1>8, <1>11, <1>12, OneChanged
<1>14. rec \in TaskType /\ rec.stk = R /\ rec.got = i /\ rec.empty = 0 /\ rec.held = T.held
  BY <1>3, <1>4, <1>5 DEF TaskType
<1>15. Runs(t, rec)
  BY <1>1
<1> HIDE DEF rec, R, k
<1>16. Types' /\ task'[t] = rec /\ OnlyTask(t)
  BY <1>1, <1>2, <1>5, <1>13, <1>14, <1>15, TypesStep, RunsFacts
<1>17. \A g : Has(rec.stk, g) => g.at \in Keeper
  BY <1>3, <1>14
<1>18. /\ ~Looking(rec.stk) /\ ~Has(rec.stk, Frame("new_inode", 0))
       /\ (\A j \in Slot : ~Has(rec.stk, Frame("read", j)))
       /\ (\A g : Has(rec.stk, g) => g.at \in Plain \cup {"read"})
       /\ (\A g : Has(T.stk, g) => g.at \in Plain \cup {"read"})
  <2>1. \A g : Has(T.stk, g) => g.at \in Plain \cup {"read"}
    BY <1>2, <1>3, FrameEq DEF Plain
  <2> QED  BY <2>1, <1>17, FrameEq DEF Looking, Plain, Keeper
<1>19. DevInv(task[t])'
  BY <1>6, <1>11, <1>13, <1>14, <1>16, <1>18 DEF DevInv
<1>20. ASSUME NEW j \in Slot, Has(rec.stk, Frame("chdir", j))
       PROVE  rec.held[j] > 0 /\ inode'[rec.got].dev # 0
  <2>1. Has(T.stk, Frame("chdir", j))
    BY <1>2, <1>14, <1>20
  <2> QED  BY <2>1, <1>6, <1>11, <1>13, <1>14, HasFacts DEF SlotInv
<1>21. WorkOK(rec, Work(rec.stk).at) /\ CrossOK(t)' /\ WellFormed(rec.stk)
  <2>1. Work(rec.stk).at \in Keeper
    BY <1>3, <1>14
  <2>2. WorkOK(rec, Work(rec.stk).at)
    BY <2>1, <1>4, <1>14 DEF WorkOK, Keeper, Searching
  <2>3. CrossOK(t)'
    BY <2>1, <1>16 DEF CrossOK, Keeper
  <2> QED  BY <2>2, <2>3, <1>3, <1>14
<1>22. ASSUME NEW j \in Slot, rec.held[j] > 0 \/ rec.got = j
       PROVE  inode'[j].pipe \/ inode'[j].dev # 0
  <2>1. CASE j = i
    BY <2>1, <1>6, <1>11, <1>13
  <2>2. CASE j # i
    <3>1. T.held[j] > 0
      BY <2>2, <1>14, <1>22
    <3> QED  BY <3>1, <2>2, <1>13, HeldFacts
  <2> QED  BY <2>1, <2>2
<1>23. \A j \in Slot : inode'[j].lock # t
  <2>1. ASSUME NEW j \in Slot, j # i  PROVE inode[j].lock # t
    <3> SUFFICES ASSUME inode[j].lock = t  PROVE FALSE
      OBVIOUS
    <3>1. Own(t)
      BY Parts
    <3>2. Top(T.stk) \in {Frame("read", j), Frame("write", j)}
      BY <3>1 DEF Own
    <3>3. Top(T.stk) = Frame("read", i)
      <4>1. "read" # "user"
        OBVIOUS
      <4> QED  BY <4>1, <1>1, <1>2, AtFacts
    <3> QED  BY <3>2, <3>3, <2>1, FrameEq
  <2>2. None # t
    BY SlotFacts
  <2> QED  BY <2>1, <2>2, <1>11, <1>13
<1>24. Own(t)'
  BY <1>1, <1>2, <1>14, <1>15, <1>16, <1>18, <1>19, <1>20, <1>21, <1>22, <1>23, WorkOwn
<1>25. Table'
  <2>1. ASSUME NEW d  PROVE Mounted(d) <=> Mounted(d)'
    <3>1. \A j \in Slot : inode'[j].mount = inode[j].mount
      BY <1>11, <1>13
    <3> QED  BY <3>1, <1>1, <1>8, MountedSame DEF SuperType
  <2>2. Mounted(inode[i].dev)'
    <3>1. Mounted(I.dev)
      BY <1>6, <1>8 DEF Good
    <3> QED  BY <3>1, <2>1, <1>11, <1>13
  <2>4. Good(i)'
    BY <2>2, <1>1, <1>6, <1>8, <1>9, <1>11, <1>13 DEF Good
  <2>5. \A j \in Slot : inode[j].dev # 0 => <<inode[j].dev, inode[j].num>> \in imap'
    BY <1>1, GoodFacts DEF Good
  <2> QED  BY <2>1, <2>4, <2>5, <1>4, <1>7, <1>13, TableStep
<1>26. \A j \in Slot : inode'[j].dev = inode[j].dev /\ inode'[j].num = inode[j].num
  BY <1>11, <1>13
<1>27. Unique'
  BY <1>8, <1>26 DEF Unique, Matches
<1>28. ASSUME NEW j \in Slot, j # i  PROVE InCore(j)' <=> InCore(j)
  <2>1. ~Has(T.stk, Frame("read", j))
    <3>1. k # Frame("read", j) /\ Frame("read", i) # Frame("read", j)
      BY <1>3, <1>28, FrameEq DEF Keeper
    <3> QED  BY <3>1, <1>2, <1>3
  <2> QED  BY <2>1, <1>16, <1>18, InCoreSame
<1>29. InCore(i)'
  <2> SUFFICES ASSUME NEW u \in Task, Has(task'[u].stk, Frame("read", i))  PROVE FALSE
    BY DEF InCore
  <2>1. u # t
    BY <1>4, <1>16, <1>18
  <2>2. Has(task[u].stk, Frame("read", i))
    BY <2>1, <1>16 DEF OnlyTask
  <2>3. Points(u, i) > 0
    <3>1. Frame("read", i) \in FrameType /\ Counting(Frame("read", i), i) = 1
      BY <1>4, MakeFrame, FrameEq DEF OnSlot, Counting
    <3> QED  BY <3>1, <2>2, <1>4, <1>5, PointsNat
  <2> QED  BY <2>1, <2>3, <1>7
<1>30. Linked'
  <2>1. ASSUME NEW p \in Dev \X Num, links'[p] > 0,
               \A j \in Slot : ~(Matches(j, p[1], p[2])' /\ InCore(j)')
        PROVE  disk'[p] = links'[p]
    <3>1. \A j \in Slot : ~(Matches(j, p[1], p[2]) /\ InCore(j))
      <4>1. ~Matches(i, p[1], p[2])
        BY <2>1, <1>4, <1>26, <1>29 DEF Matches
      <4>2. \A j \in Slot : j # i => ~(Matches(j, p[1], p[2]) /\ InCore(j))
        BY <2>1, <1>26, <1>28 DEF Matches
      <4> QED  BY <4>1, <4>2
    <3> QED  BY <3>1, <2>1, <1>1, <1>8 DEF Linked
  <2>2. ASSUME NEW j \in Slot, inode'[j].dev # 0, InCore(j)'
        PROVE  /\ inode'[j].nlinks = links'[<<inode'[j].dev, inode'[j].num>>]
               /\ ~inode'[j].dirt => disk'[<<inode'[j].dev, inode'[j].num>>] = inode'[j].nlinks
    <3>1. CASE j = i
      BY <3>1, <1>1, <1>10, <1>11, <1>13
    <3>2. CASE j # i
      BY <3>2, <2>2, <1>1, <1>8, <1>13, <1>28 DEF Linked
    <3> QED  BY <3>1, <3>2
  <2> QED  BY <2>1, <2>2, <1>1, <1>8 DEF Linked
<1>31. ASSUME NEW j \in Slot
       PROVE  /\ Frames(T.stk, j) = (IF j = i THEN 1 ELSE 0)
              /\ Points(t, j) = T.held[j] + (IF j = i THEN 1 ELSE 0)
              /\ \A p : ~p => Pointers(rec, j, p) = T.held[j] + (IF j = i THEN 1 ELSE 0)
              /\ j # i => \A p : Pointers(rec, j, p) = Points(t, j)
  <2> DEFINE a == T.held[j]
             y == IF j = i THEN 1 ELSE 0
  <2>1. a \in Nat /\ y \in Nat
    BY <1>5
  <2>2. Frames(T.stk, j) = y
    <3>1. Counting(Frame("read", i), j) = y
      BY FrameEq DEF Counting
    <3>2. Frames(T.stk, j) = 0 + y
      BY <3>1, <1>2, <1>3
    <3> HIDE DEF y
    <3> QED  BY <3>2, <2>1
  <2>3. Points(t, j) = a + y + 0 + 0
    BY <2>2, <1>4, <1>5 DEF Points, Pointers
  <2>4. \A p : ~p => Pointers(rec, j, p) = a + 0 + 0 + y
    BY <1>3, <1>4, <1>14 DEF Pointers
  <2>5. j # i => y = 0 /\ \A p : Pointers(rec, j, p) = a + 0 + 0 + 0
    BY <1>3, <1>4, <1>14 DEF Pointers
  <2>6. Points(t, j) = a + y /\ (\A p : ~p => Pointers(rec, j, p) = a + y)
        /\ (j # i => \A p : Pointers(rec, j, p) = a + y)
    <3> HIDE DEF a, y
    <3> QED  BY <2>1, <2>3, <2>4, <2>5
  <2> QED  BY <2>2, <2>6
<1>32. inode'[i].count - I.count = Pointers(rec, i, inode'[i].pipe) - Points(t, i)
  <2>1. Pointers(rec, i, inode'[i].pipe) = Points(t, i)
    BY <1>4, <1>11, <1>13, <1>31
  <2> QED  BY <2>1, <1>6, <1>7, <1>11, <1>13
<1>33. OneInode(t, rec, i)
  <2>1. \A p \in Dev \X Num : links[p] > 0 => links'[p] > 0
    BY <1>1
  <2>2. UNCHANGED <<super, panic>> /\ J.lock \in {None, t} /\ I.lock \in {None, t}
    BY <1>1, <1>6, <1>11
  <2> QED  BY <2>1, <2>2, <1>2, <1>4, <1>7, <1>11, <1>13, <1>14, <1>15, <1>18, <1>31, <1>32 DEF OneInode
<1> QED
  BY <1>16, <1>24, <1>25, <1>27, <1>30, <1>33, WorkSteady

(* The kernel has stopped.                                                 *)
LEMMA Halted ==
    ASSUME InoInv, UNCHANGED <<inode, super, disk, imap, links, task, cpu>>,
           panic' \in {"none", "No free inodes in mem", "unable to read i-node block"}
    PROVE  InoInv'
<1>1. /\ Types /\ Pairs /\ Table /\ Supers /\ Counts /\ Unique /\ Linked /\ \A t \in Task : Own(t)
  BY Parts
<1>2. Types' /\ Pairs' /\ Supers'
  BY <1>1 DEF Types, Pairs, Supers
<1>3. Table' /\ Unique'
  <2>1. \A d : Mounted(d)' <=> Mounted(d)
    BY MountedKept
  <2>2. Unique'
    BY <1>1 DEF Unique, Matches
  <2>3. \A i \in Slot : Good(i) /\ inode'[i] = inode[i] /\ inode[1].dev = ROOT_DEV
    BY GoodFacts
  <2>4. 1 \in Slot
    BY SlotFacts
  <2> QED  BY <2>1, <2>2, <2>3, <2>4, TableStep DEF Good
<1>4. Linked'
  BY <1>1 DEF Linked, InCore, Matches
<1>5. Counts'
  BY <1>1 DEF Counts, Uses, OfSupers, Leaving
<1>6. ASSUME NEW t \in Task  PROVE Own(t)'
  <2>1. Own(t)
    BY <1>1
  <2>2. DevInv(task[t])' <=> DevInv(task[t])
    BY DEF DevInv, Safe
  <2>3. \A i \in Slot : SlotInv(t, i)' <=> SlotInv(t, i)
    BY DEF SlotInv
  <2>4. \A s \in Super : SuperInv(t, s)' <=> SuperInv(t, s)
    BY DEF SuperInv
  <2>5. CrossOK(t)' <=> CrossOK(t)
    BY DEF CrossOK
  <2>6. Blocked(Top(task[t].stk), inode)' <=> Blocked(Top(task[t].stk), inode)
    BY DEF Blocked, get_super
  <2> QED  BY <2>1, <2>2, <2>3, <2>4, <2>5, <2>6 DEF Own
<1> QED
  BY <1>2, <1>3, <1>4, <1>5, <1>6 DEF InoInv

(* An inode that has no users: nobody points to it and it is on the disk.  *)
LEMMA NoUsers ==
    ASSUME InoInv, NEW t \in Task, NEW i \in Slot, inode[i].count = 0
    PROVE  /\ i # 1 /\ (\A u \in Task : Points(u, i) = 0)
           /\ ~inode[i].dirt /\ inode[i].lock = None
           /\ \A s \in Super : super[s].imount = i => ~inode[i].mount
<1>1. Types /\ Counts /\ Supers /\ Good(i)
  BY Parts, GoodFacts
<1>2. ASSUME NEW u \in Task  PROVE Points(u, i) = 0 /\ OfSupers(i) = 0
  <2>1. Points(u, i) \in Nat /\ OfSupers(i) \in Nat /\ Points(u, i) + OfSupers(i) <= 0
    BY <1>1, CountBounds, PointsNat
  <2> QED  BY <2>1
<1>3. OfSupers(i) = 0
  BY <1>2
<1>4. i # 1 /\ \A s \in Super : super[s].imount = i => ~inode[i].mount
  BY <1>3, NotMounted
<1> QED
  BY <1>1, <1>2, <1>4 DEF Good

(* get_empty_inode: what the task looked for stays as it was.              *)
LEMMA TakesEmpty ==
    ASSUME InoInv, NEW t \in Task, At(t, "empty"), NEW i \in Slot, inode[i].count = 0,
           UNCHANGED <<super, disk, imap, links, panic>>,
           NEW J, J = [Zeroed EXCEPT !.count = 1], inode' = [inode EXCEPT ![i] = J],
           Runs(t, [task[t] EXCEPT !.empty = i, !.stk = Rest(t)])
    PROVE  InoInv'
<1> DEFINE T == task[t]
           R == Rest(t)
           h == Top(R)
           rec == [T EXCEPT !.empty = i, !.stk = R]
<1>1. At(t, "empty") /\ "empty" # "user" /\ "empty" \notin Service \cup {"user"}
  BY DEF Service
<1>2. /\ CanRun(t) /\ Head(T.stk) = Frame("empty", It(t)) /\ R = Tail(T.stk)
      /\ (\A g : Has(T.stk, g) <=> g = Head(T.stk) \/ Has(R, g))
      /\ (\A j : Frames(T.stk, j) = Frames(R, j) + Counting(Head(T.stk), j))
  <2>1. LET S == task[t].stk IN
        /\ CanRun(t) /\ Head(S) = Frame("empty", It(t)) /\ Rest(t) = Tail(S)
        /\ (\A g : Has(S, g) <=> g = Head(S) \/ Has(Tail(S), g))
        /\ (\A j : Frames(S, j) = Frames(Tail(S), j) + Counting(Head(S), j))
    BY <1>1, AtFacts
  <2> QED  BY <2>1
<1>3. /\ R \in Seq(FrameType) /\ h \in FrameType /\ h.at \in {"scan", "new_inode", "get_pipe_inode"}
      /\ WellFormed(R) /\ Work(R) = h /\ (\A j : Frames(R, j) = 0)
      /\ \A g : Has(R, g) => g = h \/ g.at \in Keeper
  BY OverSearch
<1>4. /\ T \in TaskType /\ Types /\ T.held \in [Slot -> Nat] /\ T.got = 0 /\ T.empty = 0
      /\ 0 \notin Slot /\ \A j \in Slot : inode[j].lock # t
  <2>1. WorkOK(T, "empty") /\ \A j \in Slot : inode[j].lock = t => "empty" = "read"
    BY <1>1, WorkFacts
  <2>2. T \in TaskType /\ Types /\ T.held \in [Slot -> Nat] /\ 0 \notin Slot
    BY Parts, SlotFacts DEF TaskType
  <2> QED  BY <2>1, <2>2 DEF WorkOK, Keeper, Searching
<1>5. /\ i # 1 /\ (\A u \in Task : Points(u, i) = 0) /\ ~inode[i].dirt /\ inode[i].lock = None
      /\ \A s \in Super : super[s].imount = i => ~inode[i].mount
  BY NoUsers
<1>6. /\ Unique /\ Linked /\ inode \in [Slot -> InodeType] /\ links \in [Dev \X Num -> Nat]
      /\ super \in [Super -> SuperType] /\ 0 \notin Dev
  BY <1>4, Parts, SlotFacts DEF Types
<1>7. /\ J.dev = 0 /\ J.num = 0 /\ J.count = 1 /\ ~J.dirt /\ J.lock = None /\ ~J.pipe /\ ~J.mount
      /\ J \in InodeType
  BY DEF Zeroed, InodeType
<1>8. /\ inode' \in [Slot -> InodeType] /\ inode'[i] = J /\ \A j \in Slot : j # i => inode'[j] = inode[j]
  BY <1>6, <1>7, OneChanged
<1>9. rec \in TaskType /\ rec.stk = R /\ rec.got = 0 /\ rec.empty = i /\ rec.held = T.held
      /\ rec.dev = T.dev /\ rec.nr = T.nr
  BY <1>3, <1>4 DEF TaskType
<1>10. Runs(t, rec)
  OBVIOUS
<1>11. ASSUME NEW j  PROVE Frames(R, j) = 0 /\ Frames(T.stk, j) = 0
  <2>1. Frames(R, j) = 0 /\ Counting(Head(T.stk), j) = 0
    BY <1>2, <1>3, FrameEq DEF Counting
  <2>2. Frames(T.stk, j) = 0 + 0
    BY <2>1, <1>2
  <2> QED  BY <2>1, <2>2
<1> HIDE DEF rec, R, h
<1>12. Types' /\ task'[t] = rec /\ OnlyTask(t)
  BY <1>2, <1>4, <1>8, <1>9, <1>10, TypesStep, RunsFacts
<1>13. /\ \A g : Has(rec.stk, g) => Has(T.stk, g)
       /\ \A g : Has(rec.stk, g) => g.at \in Plain
       /\ \A g : Has(T.stk, g) => g.at \in Plain
  <2>1. \A g : Has(rec.stk, g) => g.at \in Plain
    BY <1>3, <1>9 DEF Plain
  <2>2. Frame("empty", It(t)).at \in Plain
    BY FrameEq DEF Plain
  <2> QED  BY <2>1, <2>2, <1>2, <1>9
<1>14. \A j \in Slot : ~Has(rec.stk, Frame("read", j)) /\ ~Has(T.stk, Frame("read", j))
  BY <1>13, FrameEq DEF Plain, Keeper
<1>15. ASSUME NEW j \in Slot, T.held[j] > 0  PROVE j # i /\ inode'[j] = inode[j]
  <2>1. Points(t, j) > 0
    BY <1>15, HeldFacts
  <2> QED  BY <2>1, <1>5, <1>8
<1>16. DevInv(task[t])'
  BY <1>9, <1>12, <1>13, <1>15, DevKept DEF Looking
<1>17. \A j \in Slot : Has(rec.stk, Frame("chdir", j)) => rec.held[j] > 0
  BY <1>9, <1>13, HasFacts DEF SlotInv
<1>18. WorkOK(rec, Work(rec.stk).at) /\ CrossOK(t)' /\ WellFormed(rec.stk)
  BY <1>3, <1>4, <1>9, <1>12 DEF WorkOK, Keeper, Searching, CrossOK
<1>19. Own(t)'
  <2>1. \A j \in Slot : inode'[j].lock # t
    BY <1>4, <1>7, <1>8, SlotFacts
  <2>2. \A j \in Slot : rec.held[j] > 0 \/ rec.got = j => inode'[j].pipe \/ inode'[j].dev # 0
    BY <1>4, <1>9, <1>15, HeldFacts
  <2>3. rec.empty # 0 => inode'[rec.empty] = [Zeroed EXCEPT !.count = 1]
    BY <1>8, <1>9
  <2> QED  BY <2>1, <2>2, <2>3, <1>2, <1>9, <1>10, <1>12, <1>13, <1>14, <1>16, <1>17, <1>18, WorkOwn
<1>20. Table'
  <2>1. \A d : Mounted(d)' <=> Mounted(d)
    <3>1. ASSUME NEW s \in Super, super[s].imount # 0
          PROVE  inode'[super[s].imount].mount <=> inode[super[s].imount].mount
      <4>1. super[s].imount \in Slot
        BY <3>1, <1>6 DEF SuperType
      <4> QED  BY <4>1, <1>5, <1>7, <1>8
    <3> QED  BY <3>1, MountedKept
  <2>2. Good(i)'
    BY <1>7, <1>8 DEF Good
  <2>3. \A j \in Slot : inode[j].dev # 0 => <<inode[j].dev, inode[j].num>> \in imap'
    BY GoodFacts DEF Good
  <2> QED  BY <2>1, <2>2, <2>3, <1>5, <1>8, TableStep
<1>21. Unique'
  <2> SUFFICES ASSUME NEW a \in Slot, NEW b \in Slot, a # b, inode'[a].dev # 0,
                      inode'[a].dev = inode'[b].dev, inode'[a].num = inode'[b].num
               PROVE  FALSE
    BY DEF Unique, Matches
  <2>1. a # i /\ b # i
    BY <1>7, <1>8
  <2> QED  BY <2>1, <1>6, <1>8 DEF Unique, Matches
<1>22. \A j \in Slot : InCore(j)' <=> InCore(j)
  BY <1>12, <1>14, InCoreSame
<1>23. Linked'
  <2>1. ASSUME NEW p \in Dev \X Num, links'[p] > 0,
               \A j \in Slot : ~(Matches(j, p[1], p[2])' /\ InCore(j)')
        PROVE  disk'[p] = links'[p]
    <3>1. CASE Matches(i, p[1], p[2]) /\ InCore(i)
      <4>1. inode[i].dev # 0 /\ p = <<inode[i].dev, inode[i].num>>
        BY <3>1, <1>6 DEF Matches
      <4> QED  BY <3>1, <4>1, <1>5, <1>6 DEF Linked
    <3>2. CASE ~(Matches(i, p[1], p[2]) /\ InCore(i))
      <4>1. \A j \in Slot : ~(Matches(j, p[1], p[2]) /\ InCore(j))
        BY <3>2, <2>1, <1>8, <1>22 DEF Matches
      <4> QED  BY <4>1, <2>1, <1>6 DEF Linked
    <3> QED  BY <3>1, <3>2
  <2>2. ASSUME NEW j \in Slot, inode'[j].dev # 0, InCore(j)'
        PROVE  /\ inode'[j].nlinks = links'[<<inode'[j].dev, inode'[j].num>>]
               /\ ~inode'[j].dirt => disk'[<<inode'[j].dev, inode'[j].num>>] = inode'[j].nlinks
    BY <2>2, <1>6, <1>7, <1>8, <1>22 DEF Linked
  <2> QED  BY <2>1, <2>2, <1>6 DEF Linked
<1>24. ASSUME NEW j \in Slot, NEW p
       PROVE  /\ Pointers(rec, j, p) = T.held[j] + (IF i = j THEN 1 ELSE 0)
              /\ Points(t, j) = T.held[j] /\ T.held[j] \in Nat
  <2> DEFINE a == T.held[j]
             y == IF i = j THEN 1 ELSE 0
  <2>1. a \in Nat /\ y \in Nat
    BY <1>4
  <2>2. Pointers(rec, j, p) = a + 0 + y + 0
    BY <1>4, <1>9, <1>11 DEF Pointers
  <2>3. Points(t, j) = a + 0 + 0 + 0
    BY <1>4, <1>11 DEF Points, Pointers
  <2>4. Pointers(rec, j, p) = a + y /\ Points(t, j) = a
    <3> HIDE DEF a, y
    <3> QED  BY <2>1, <2>2, <2>3
  <2> QED  BY <2>1, <2>4
<1>25. inode'[i].count - inode[i].count = Pointers(rec, i, inode'[i].pipe) - Points(t, i)
  <2>1. T.held[i] = 0 /\ Points(t, i) = 0 /\ Pointers(rec, i, inode'[i].pipe) = T.held[i] + 1
    BY <1>5, <1>24
  <2> QED  BY <2>1, <1>7, <1>8
<1>26. \A j \in Slot : j # i => Pointers(rec, j, inode[j].pipe) = Points(t, j)
  <2> SUFFICES ASSUME NEW j \in Slot, j # i  PROVE Pointers(rec, j, inode[j].pipe) = Points(t, j)
    OBVIOUS
  <2>1. Pointers(rec, j, inode[j].pipe) = T.held[j] + 0 /\ Points(t, j) = T.held[j] /\ T.held[j] \in Nat
    BY <1>24
  <2> QED  BY <2>1
<1>27. OneInode(t, rec, i)
  BY <1>2, <1>5, <1>7, <1>8, <1>9, <1>10, <1>13, <1>25, <1>26 DEF OneInode
<1> QED
  BY <1>12, <1>19, <1>20, <1>21, <1>23, <1>27, WorkSteady

LEMMA GetEmptyInodeStep ==
    ASSUME InoInv, NEW t \in Task, get_empty_inode(t)
    PROVE  InoInv'
<1>1. At(t, "empty")
  BY DEF get_empty_inode
<1>2. CASE \A i \in Slot : inode[i].count > 0
  <2>1. /\ UNCHANGED <<inode, super, disk, imap, links, task, cpu>>
        /\ panic' = "No free inodes in mem"
    BY <1>2 DEF get_empty_inode, Panics, Halts, ioVars
  <2> QED  BY <2>1, Halted
<1>3. CASE ~\A i \in Slot : inode[i].count > 0
  <2>1. PICK i \in {j \in Slot : inode[j].count = 0} :
            /\ inode' = [inode EXCEPT ![i] = [Zeroed EXCEPT !.count = 1]]
            /\ Runs(t, [task[t] EXCEPT !.empty = i, !.stk = Rest(t)])
            /\ UNCHANGED <<super, disk, imap, links, panic>>
    BY <1>3 DEF get_empty_inode, ioVars
  <2>2. PICK J : J = [Zeroed EXCEPT !.count = 1]
    OBVIOUS
  <2>3. inode' = [inode EXCEPT ![i] = J]
    BY <2>1, <2>2
  <2>4. i \in Slot /\ inode[i].count = 0
    OBVIOUS
  <2> QED  BY <2>1, <2>2, <2>3, <2>4, <1>1, TakesEmpty
<1> QED
  BY <1>2, <1>3

LEMMA NewLinks ==
    ASSUME InoInv, NEW J, NEW got, NewInode(J, got)
    PROVE  /\ links' \in [Dev \X Num -> Nat] /\ imap' \subseteq Dev \X Num /\ imap \subseteq imap'
           /\ (\A p \in Dev \X Num : links[p] > 0 => links'[p] > 0)
           /\ (\A p \in Dev \X Num : p # <<J.dev, J.num>> => links'[p] = links[p])
           /\ (J.dev # 0 => /\ <<J.dev, J.num>> \in imap' /\ links'[<<J.dev, J.num>>] = 1
                            /\ <<J.dev, J.num>> \in Dev \X Num /\ <<J.dev, J.num>> \notin imap
                            /\ J.num \in Num /\ J.nlinks = 1 /\ J.dirt /\ ~J.pipe
                            /\ Mounted(J.dev) /\ got # 0)
           /\ (J.dev = 0 => ~J.dirt /\ \A p \in Dev \X Num : links'[p] = links[p])
<1>1. links \in [Dev \X Num -> Nat] /\ imap \subseteq Dev \X Num /\ 0 \notin Dev
  BY Parts, SlotFacts DEF Types
<1>2. CASE J.dev = 0 /\ ~J.dirt /\ UNCHANGED <<imap, links>>
  BY <1>1, <1>2
<1>3. CASE ~(J.dev = 0 /\ ~J.dirt /\ UNCHANGED <<imap, links>>)
  <2> DEFINE q == <<J.dev, J.num>>
  <2>1. /\ J.dev \in Dev /\ J.num \in Num /\ q \notin imap /\ Mounted(J.dev)
        /\ got # 0 /\ ~J.pipe /\ J.dirt /\ J.nlinks = 1
        /\ imap' = imap \cup {q} /\ links' = [links EXCEPT ![q] = 1]
    BY <1>3 DEF NewInode
  <2>2. q \in Dev \X Num /\ J.dev # 0
    BY <2>1, <1>1
  <2> HIDE DEF q
  <2>3. /\ links' \in [Dev \X Num -> Nat] /\ imap' \subseteq Dev \X Num /\ imap \subseteq imap'
        /\ q \in imap' /\ links'[q] = 1 /\ \A p \in Dev \X Num : p # q => links'[p] = links[p]
    BY <2>1, <2>2, <1>1
  <2> QED  BY <2>1, <2>2, <2>3 DEF q
<1> QED
  BY <1>2, <1>3

LEMMA EmptyFilled ==
    ASSUME InoInv, NEW t \in Task, NEW at \in {"new_inode", "get_pipe_inode"}, At(t, at),
           NEW e, e = task[t].empty, NEW got \in {0, e}, NEW J \in InodeType,
           J.lock = None, ~J.mount, got # 0 => J.pipe \/ J.dev # 0, NewInode(J, got),
           J.count = (IF got = 0 THEN 0 ELSE IF J.pipe THEN 2 ELSE 1),
           inode' = [inode EXCEPT ![e] = J], UNCHANGED <<super, disk, panic>>,
           Runs(t, [task[t] EXCEPT !.empty = 0, !.got = got, !.stk = Rest(t)])
    PROVE  InoInv'
<1> DEFINE T == task[t]
           R == Rest(t)
           k == Top(R)
           q == <<J.dev, J.num>>
           rec == [T EXCEPT !.empty = 0, !.got = got, !.stk = R]
<1>1. /\ CanRun(t) /\ T \in TaskType /\ Types /\ T.got = 0 /\ e \in Slot /\ 0 \notin Slot
      /\ (\A g : Has(T.stk, g) <=> g = Frame(at, It(t)) \/ g = Top(Rest(t)))
      /\ (\A g : Has(T.stk, g) => g.at \in Plain)
      /\ (\A j \in Slot : inode[j].lock # t)
      /\ inode[e] = [Zeroed EXCEPT !.count = 1]
      /\ \A j \in Slot : Points(t, j) = T.held[j] + (IF T.empty = j THEN 1 ELSE 0)
  <2>1. CASE at = "new_inode"
    <3>1. At(t, "new_inode")
      BY <2>1
    <3>2. LET S == task[t] IN
          /\ CanRun(t) /\ S \in TaskType /\ Types /\ S.got = 0 /\ S.empty \in Slot
          /\ (\A g : Has(S.stk, g) <=> g = Frame("new_inode", It(t)) \/ g = Top(Rest(t)))
          /\ (\A g : Has(S.stk, g) => g.at \in Plain)
          /\ (\A j \in Slot : inode[j].lock # t)
          /\ (S.empty # 0 => inode[S.empty] = [Zeroed EXCEPT !.count = 1])
          /\ \A j \in Slot : Points(t, j) = S.held[j] + (IF S.empty = j THEN 1 ELSE 0)
      BY <3>1, AtSearch
    <3> QED  BY <2>1, <3>2, SlotFacts
  <2>2. CASE at = "get_pipe_inode"
    <3>1. At(t, "get_pipe_inode")
      BY <2>2
    <3>2. LET S == task[t] IN
          /\ CanRun(t) /\ S \in TaskType /\ Types /\ S.got = 0 /\ S.empty \in Slot
          /\ (\A g : Has(S.stk, g) <=> g = Frame("get_pipe_inode", It(t)) \/ g = Top(Rest(t)))
          /\ (\A g : Has(S.stk, g) => g.at \in Plain)
          /\ (\A j \in Slot : inode[j].lock # t)
          /\ (S.empty # 0 => inode[S.empty] = [Zeroed EXCEPT !.count = 1])
          /\ \A j \in Slot : Points(t, j) = S.held[j] + (IF S.empty = j THEN 1 ELSE 0)
      BY <3>1, AtSearch
    <3> QED  BY <2>2, <3>2, SlotFacts
  <2> QED  BY <2>1, <2>2
<1>2. /\ R \in Seq(FrameType) /\ k.at = "keep" /\ WellFormed(R) /\ Work(R) = k
      /\ (\A g : Has(R, g) <=> g = k) /\ (\A j : Frames(R, j) = 0)
  <2>1. CASE at = "new_inode"
    BY <2>1, OverKeeper
  <2>2. CASE at = "get_pipe_inode"
    BY <2>2, OverKeeper
  <2> QED  BY <2>1, <2>2
<1>3. /\ Unique /\ Linked /\ inode \in [Slot -> InodeType] /\ links \in [Dev \X Num -> Nat]
      /\ super \in [Super -> SuperType] /\ disk \in [Dev \X Num -> Nat]
  BY <1>1, Parts DEF Types
<1>4. /\ inode' \in [Slot -> InodeType] /\ inode'[e] = J /\ \A j \in Slot : j # e => inode'[j] = inode[j]
  BY <1>1, <1>3, OneChanged
<1>5. /\ links' \in [Dev \X Num -> Nat] /\ imap' \subseteq Dev \X Num /\ imap \subseteq imap'
      /\ (\A p \in Dev \X Num : links[p] > 0 => links'[p] > 0)
      /\ (\A p \in Dev \X Num : p # q => links'[p] = links[p])
      /\ (J.dev # 0 => /\ q \in imap' /\ links'[q] = 1 /\ q \in Dev \X Num /\ q \notin imap
                       /\ J.num \in Num /\ J.nlinks = 1 /\ J.dirt /\ ~J.pipe
                       /\ Mounted(J.dev) /\ got # 0)
      /\ (J.dev = 0 => ~J.dirt /\ \A p \in Dev \X Num : links'[p] = links[p])
  BY NewLinks
<1>6. rec \in TaskType /\ rec.stk = R /\ rec.got = got /\ rec.empty = 0 /\ rec.held = T.held
  BY <1>1, <1>2 DEF TaskType
<1>7. Runs(t, rec)
  OBVIOUS
<1> HIDE DEF rec, R, k, q
<1>8. task'[t] = rec /\ OnlyTask(t) /\ task' \in [Task -> TaskType] /\ cpu' \in Task \cup {None}
  BY <1>1, <1>6, <1>7, RunsFacts
<1>9. Types'
  BY <1>3, <1>4, <1>5, <1>8 DEF Types
<1>10. /\ \A g : Has(rec.stk, g) => g.at = "keep"
       /\ \A g : Has(rec.stk, g) => g.at \in Plain
       /\ \A j \in Slot : ~Has(rec.stk, Frame("read", j)) /\ ~Has(T.stk, Frame("read", j))
  <2>1. \A g : Has(rec.stk, g) => g.at = "keep"
    BY <1>2, <1>6
  <2> QED  BY <2>1, <1>1, FrameEq DEF Plain, Keeper
<1>11. DevInv(task[t])'
  <2>1. ~Looking(rec.stk) /\ ~Has(rec.stk, Frame("new_inode", 0)) /\ ~Has(rec.stk, Frame("change", 0))
    BY <1>10, FrameEq DEF Looking
  <2> QED  BY <2>1, <1>8 DEF DevInv
<1>12. Alone(t, e) /\ e # 1 /\ \A u \in Task : u # t => Points(u, e) = 0
  <2>1. Alone(t, e)
    BY DEF Alone
  <2> QED  BY <2>1, <1>1, AloneFacts
<1>13. WorkOK(rec, Work(rec.stk).at) /\ CrossOK(t)' /\ WellFormed(rec.stk)
  <2>1. Work(rec.stk).at = "keep"
    BY <1>2, <1>6
  <2> QED  BY <2>1, <1>2, <1>6, <1>8 DEF WorkOK, Keeper, Searching, CrossOK
<1>14. ASSUME NEW j \in Slot, rec.held[j] > 0 \/ rec.got = j
       PROVE  inode'[j].pipe \/ inode'[j].dev # 0
  <2>1. CASE j = e
    <3>1. got # 0
      <4>1. ~(T.held[e] > 0)
        <5>1. ~inode[e].pipe /\ inode[e].dev = 0
          BY <1>1 DEF Zeroed
        <5> QED  BY <5>1, <1>1, HeldFacts
      <4> QED  BY <4>1, <2>1, <1>1, <1>6, <1>14
    <3> QED  BY <3>1, <2>1, <1>4
  <2>2. CASE j # e
    <3>1. T.held[j] > 0
      BY <2>2, <1>1, <1>6, <1>14
    <3> QED  BY <3>1, <2>2, <1>4, HeldFacts
  <2> QED  BY <2>1, <2>2
<1>15. Own(t)'
  <2>1. \A j \in Slot : inode'[j].lock # t
    BY <1>1, <1>4, SlotFacts
  <2>2. \A j \in Slot : ~Has(rec.stk, Frame("chdir", j))
    BY <1>10, FrameEq
  <2> QED  BY <2>1, <2>2, <1>1, <1>6, <1>7, <1>9, <1>10, <1>11, <1>13, <1>14, WorkOwn
<1>16. Table'
  <2>1. ASSUME NEW d  PROVE Mounted(d) <=> Mounted(d)'
    <3>1. \A j \in Slot : inode'[j].mount <=> inode[j].mount
      BY <1>1, <1>4, Zenon DEF Zeroed
    <3>2. \A s \in Super : super[s].imount # 0 => super[s].imount \in Slot
      BY <1>3 DEF SuperType
    <3> QED  BY <3>1, <3>2, MountedKept
  <2>2. J.dev # 0 => Mounted(inode[e].dev)'
    BY <2>1, <1>4, <1>5
  <2>3. Good(e)'
    <3>1. J.dev # 0 => J.count # 0
      BY <1>5
    <3> QED  BY <2>2, <3>1, <1>4, <1>5 DEF Good, q
  <2>4. \A j \in Slot : inode[j].dev # 0 => <<inode[j].dev, inode[j].num>> \in imap'
    BY <1>5, GoodFacts DEF Good
  <2> QED  BY <2>1, <2>3, <2>4, <1>1, <1>4, <1>12, TableStep
<1>17. ASSUME NEW j \in Slot, j # e, inode[j].dev # 0
       PROVE  <<inode[j].dev, inode[j].num>> # q /\ <<inode[j].dev, inode[j].num>> \in Dev \X Num
  <2>1. <<inode[j].dev, inode[j].num>> \in imap /\ inode[j].num \in Num /\ inode[j].dev \in Dev
    BY <1>3, <1>17, GoodFacts DEF Good, InodeType
  <2>2. CASE J.dev = 0
    BY <2>1, <2>2, <1>17 DEF q
  <2>3. CASE J.dev # 0
    BY <2>1, <2>3, <1>5
  <2> QED  BY <2>1, <2>2, <2>3
<1>18. Unique'
  <2>2. ASSUME NEW a \in Slot, NEW b \in Slot, a # b, inode'[a].dev # 0
        PROVE  ~(inode'[a].dev = inode'[b].dev /\ inode'[a].num = inode'[b].num)
    <3>1. CASE a = e
      BY <3>1, <2>2, <1>4, <1>17 DEF q
    <3>2. CASE b = e
      BY <3>2, <2>2, <1>4, <1>17 DEF q
    <3>3. CASE a # e /\ b # e
      BY <3>3, <2>2, <1>3, <1>4 DEF Unique, Matches
    <3> QED  BY <3>1, <3>2, <3>3
  <2> QED  BY <2>2 DEF Unique, Matches
<1>19. \A j \in Slot : InCore(j)' <=> InCore(j)
  BY <1>8, <1>10, InCoreSame
<1>20. InCore(e)'
  <2> SUFFICES ASSUME NEW u \in Task, Has(task[u].stk, Frame("read", e))  PROVE FALSE
    BY <1>1, <1>19 DEF InCore
  <2>1. u # t
    BY <1>1, <1>10
  <2>2. Points(u, e) > 0
    <3>1. Frame("read", e) \in FrameType /\ Counting(Frame("read", e), e) = 1
      BY <1>1, MakeFrame, FrameEq DEF OnSlot, Counting
    <3> QED  BY <3>1, <1>1, PointsNat
  <2> QED  BY <2>1, <2>2, <1>12
<1>21. Linked'
  <2>1. ASSUME NEW p \in Dev \X Num, links'[p] > 0,
               \A j \in Slot : ~(Matches(j, p[1], p[2])' /\ InCore(j)')
        PROVE  disk'[p] = links'[p]
    <3>1. p # q
      <4> SUFFICES ASSUME p = q  PROVE FALSE
        OBVIOUS
      <4>1. Matches(e, p[1], p[2])'
        BY <1>4 DEF Matches, q
      <4> QED  BY <4>1, <2>1, <1>1, <1>20
    <3>2. \A j \in Slot : ~(Matches(j, p[1], p[2]) /\ InCore(j))
      <4>1. ~Matches(e, p[1], p[2])
        BY <1>1, SlotFacts DEF Matches, Zeroed
      <4>2. \A j \in Slot : j # e => ~(Matches(j, p[1], p[2]) /\ InCore(j))
        BY <2>1, <1>4, <1>19 DEF Matches
      <4> QED  BY <4>1, <4>2
    <3> QED  BY <3>1, <3>2, <2>1, <1>3, <1>5 DEF Linked
  <2>2. ASSUME NEW j \in Slot, inode'[j].dev # 0, InCore(j)'
        PROVE  /\ inode'[j].nlinks = links'[<<inode'[j].dev, inode'[j].num>>]
               /\ ~inode'[j].dirt => disk'[<<inode'[j].dev, inode'[j].num>>] = inode'[j].nlinks
    <3>1. CASE j = e
      BY <3>1, <2>2, <1>4, <1>5 DEF q
    <3>2. CASE j # e
      <4>1. inode'[j] = inode[j] /\ InCore(j)
        BY <3>2, <2>2, <1>4, <1>19
      <4>2. links'[<<inode[j].dev, inode[j].num>>] = links[<<inode[j].dev, inode[j].num>>]
        BY <4>1, <3>2, <2>2, <1>5, <1>17
      <4> QED  BY <4>1, <4>2, <2>2, <1>3 DEF Linked
    <3> QED  BY <3>1, <3>2
  <2>3. ASSUME NEW p \in Dev \X Num, links'[p] > 0  PROVE p \in imap'
    <3>1. CASE J.dev # 0 /\ p = q
      BY <3>1, <1>5
    <3>2. CASE ~(J.dev # 0 /\ p = q)
      <4>1. links'[p] = links[p]
        BY <3>2, <1>5
      <4> QED  BY <4>1, <2>3, <1>3, <1>5 DEF Linked
    <3> QED  BY <3>1, <3>2
  <2> QED  BY <2>1, <2>2, <2>3 DEF Linked
<1>22. ASSUME NEW j \in Slot, NEW p
       PROVE  /\ Pointers(rec, j, p) = T.held[j] + (IF got # j THEN 0 ELSE IF p THEN 2 ELSE 1)
              /\ T.held[j] \in Nat
  <2> DEFINE a == T.held[j]
             y == IF got # j THEN 0 ELSE IF p THEN 2 ELSE 1
  <2>1. a \in Nat /\ y \in Nat
    BY <1>1 DEF TaskType
  <2>2. Pointers(rec, j, p) = a + 0 + 0 + y
    BY <1>1, <1>2, <1>6 DEF Pointers
  <2>3. Pointers(rec, j, p) = a + y
    <3> HIDE DEF a, y
    <3> QED  BY <2>1, <2>2
  <2> QED  BY <2>1, <2>3
<1>23. inode'[e].count - inode[e].count = Pointers(rec, e, inode'[e].pipe) - Points(t, e)
  <2> DEFINE a == T.held[e]
             P == Pointers(rec, e, inode'[e].pipe)
             Q == Points(t, e)
  <2>1. a \in Nat /\ Q = a + 1
    BY <1>1, <1>22
  <2>2. P = a + J.count /\ J.count \in Nat
    BY <1>1, <1>4, <1>22
  <2>3. inode'[e].count = J.count /\ inode[e].count = 1
    BY <1>1, <1>4 DEF Zeroed
  <2> HIDE DEF a, P, Q
  <2>4. J.count - 1 = P - Q
    BY <2>1, <2>2
  <2> QED  BY <2>3, <2>4 DEF P, Q
<1>24. ASSUME NEW j \in Slot, j # e  PROVE Pointers(rec, j, inode[j].pipe) = Points(t, j)
  <2>1. T.held[j] \in Nat /\ Points(t, j) = T.held[j] + 0
        /\ Pointers(rec, j, inode[j].pipe) = T.held[j] + 0
    BY <1>1, <1>22, <1>24
  <2> QED  BY <2>1
<1>25. inode[e].lock \in {None, t} /\ inode'[e].lock \in {None, t} /\ ~inode'[e].mount
  BY <1>1, <1>4 DEF Zeroed
<1>26. OneInode(t, rec, e)
  BY <1>1, <1>4, <1>5, <1>6, <1>7, <1>10, <1>12, <1>23, <1>24, <1>25 DEF OneInode
<1> QED
  BY <1>9, <1>15, <1>16, <1>18, <1>21, <1>26, WorkSteady

(* No number is free: the empty inode is put back.                         *)
LEMMA EmptyReturned ==
    ASSUME InoInv, NEW t \in Task, At(t, "new_inode"), NEW e, e = task[t].empty,
           UNCHANGED <<inode, super, disk, imap, links, panic>>,
           Runs(t, [task[t] EXCEPT !.empty = 0, !.stk = <<Frame("iput", e)>> \o Rest(t)])
    PROVE  InoInv'
<1> DEFINE T == task[t]
           R == Rest(t)
           k == Top(R)
           f == Frame("iput", e)
           c == <<f>> \o R
           rec == [T EXCEPT !.empty = 0, !.stk = c]
<1>1. /\ CanRun(t) /\ T \in TaskType /\ Types /\ T.got = 0 /\ e \in Slot /\ 0 \notin Slot
      /\ (\A g : Has(T.stk, g) => g.at \in Plain)
      /\ \A j \in Slot : Points(t, j) = T.held[j] + (IF T.empty = j THEN 1 ELSE 0)
  <2>1. LET S == task[t] IN
        /\ CanRun(t) /\ S \in TaskType /\ Types /\ S.got = 0 /\ S.empty \in Slot
        /\ (\A g : Has(S.stk, g) => g.at \in Plain)
        /\ \A j \in Slot : Points(t, j) = S.held[j] + (IF S.empty = j THEN 1 ELSE 0)
    BY AtSearch
  <2> QED  BY <2>1, SlotFacts
<1>2. /\ R \in Seq(FrameType) /\ k.at = "keep" /\ WellFormed(R) /\ Work(R) = k
      /\ (\A g : Has(R, g) <=> g = k) /\ (\A j : Frames(R, j) = 0)
  BY OverKeeper
<1>3. f \in FrameType /\ f.at = "iput" /\ f.i = e
  BY <1>1, MakeFrame, FrameEq DEF OnSlot
<1>4. Fits(f, k.at) /\ f.at \in Service
  BY <1>2, <1>3 DEF Fits, IO, Service, Putting, Keeper
<1>5. Runs(t, rec)
  OBVIOUS
<1> HIDE DEF f, R, k
<1>6. /\ c \in Seq(FrameType)
      /\ (WellFormed(c) <=> WellFormed(R) /\ Fits(f, Top(R).at))
      /\ Work(c) = (IF f.at \in Service THEN Work(R) ELSE f)
      /\ \A g : Has(c, g) <=> g = f \/ Has(R, g)
      /\ \A j : Frames(R, j) \in Nat /\ Frames(c, j) = Frames(R, j) + Counting(f, j)
  BY <1>2, <1>3, Push
<1> HIDE DEF c
<1>7. WellFormed(c) /\ Work(c) = k /\ \A g : Has(c, g) => g.at \in {"iput", "keep"}
  BY <1>2, <1>3, <1>4, <1>6 DEF k
<1>8. ASSUME NEW j  PROVE Frames(c, j) = IF j = e THEN 1 ELSE 0
  <2>1. Frames(c, j) = Frames(R, j) + Counting(f, j) /\ Frames(R, j) = 0
        /\ Counting(f, j) = IF j = e THEN 1 ELSE 0
    BY <1>2, <1>3, <1>6 DEF Counting
  <2> QED  BY <2>1
<1>9. rec \in TaskType /\ rec.stk = c /\ rec.got = 0 /\ rec.empty = 0 /\ rec.held = T.held
  BY <1>1, <1>6 DEF TaskType
<1> HIDE DEF rec
<1>10. task'[t] = rec
  BY <1>1, <1>5, <1>9, RunsFacts
<1>11. /\ ~Looking(rec.stk) /\ ~Has(rec.stk, Frame("new_inode", 0))
       /\ ~Has(rec.stk, Frame("change", 0)) /\ (\A j \in Slot : ~Has(rec.stk, Frame("chdir", j)))
       /\ \A g : Has(rec.stk, g) => g.at \in Plain
  BY <1>7, <1>9, FrameEq DEF Looking, Plain, Keeper
<1>12. DevInv(task[t])' /\ CrossOK(t)' /\ WellFormed(rec.stk) /\ WorkOK(rec, Work(rec.stk).at)
  BY <1>2, <1>7, <1>9, <1>10, <1>11 DEF DevInv, CrossOK, WorkOK, Keeper, Searching
<1>13. ASSUME NEW j \in Slot  PROVE Pointers(rec, j, inode[j].pipe) = Points(t, j)
  <2> DEFINE a == T.held[j]
             y == IF e = j THEN 1 ELSE 0
  <2>1. a \in Nat /\ y \in Nat /\ Points(t, j) = a + y
    BY <1>1 DEF TaskType
  <2>2. Pointers(rec, j, inode[j].pipe) = a + y + 0 + 0
    BY <1>1, <1>8, <1>9 DEF Pointers
  <2> HIDE DEF a, y
  <2> QED  BY <2>1, <2>2
<1>14. "new_inode" \in Plain \ Service
  BY DEF Plain, Service
<1> QED
  BY <1>1, <1>5, <1>9, <1>11, <1>12, <1>13, <1>14, StillStep

LEMMA SafeMounted ==
    ASSUME InoInv, NEW t \in Task, Safe(task[t]), task[t].dev \in Dev
    PROVE  Mounted(task[t].dev) /\ get_super(task[t].dev) # {}
<1> DEFINE T == task[t]
<1>1. CASE T.dev = ROOT_DEV
  <2>1. super[1].imount # 0 /\ super[1].dev = ROOT_DEV /\ 1 \in Super
    BY RootUsed, SlotFacts
  <2> QED  BY <2>1, <1>1, SlotFacts, MountedSuper DEF Mounted
<1>2. ASSUME NEW j \in Slot, T.held[j] > 0, inode[j].dev = T.dev
      PROVE  Mounted(T.dev) /\ get_super(T.dev) # {}
  <2>1. inode[j].count > 0
    BY <1>2, HeldFacts
  <2>2. inode[j].dev # 0
    BY <1>2, SlotFacts
  <2>3. Mounted(T.dev)
    BY <2>1, <2>2, <1>2, GoodFacts DEF Good
  <2> QED  BY <2>2, <2>3, <1>2, MountedSuper
<1> QED
  BY <1>1, <1>2 DEF Safe

LEMMA NewInodeStep ==
    ASSUME InoInv, NEW t \in Task, new_inode(t)
    PROVE  InoInv'
<1> DEFINE T == task[t]
           free == {n \in Num : <<T.dev, n>> \notin imap}
<1>1. At(t, "new_inode") /\ "new_inode" # "user"
  BY DEF new_inode
<1>2. T.dev \in Dev /\ Mounted(T.dev) /\ get_super(T.dev) # {} /\ 0 \notin Dev
  <2>1. Has(T.stk, Frame("new_inode", 0))
    <3>1. LET S == task[t].stk IN Has(S, Head(S)) /\ Head(S).at = "new_inode" /\ Head(S) \in FrameType
      BY <1>1, AtFacts
    <3>2. Head(T.stk) = Frame("new_inode", 0)
      BY <3>1, FrameFacts DEF OnNone
    <3> QED  BY <3>1, <3>2
  <2>2. T.dev \in Dev /\ Safe(T)
    BY <2>1, HasFacts DEF DevInv
  <2> QED  BY <2>2, SafeMounted, SlotFacts
<1>3. PICK e : e = T.empty
  OBVIOUS
<1>4. e \in Slot /\ 0 \notin Slot /\ inode[e] = [Zeroed EXCEPT !.count = 1] /\ inode \in [Slot -> InodeType]
  <2>1. LET S == task[t] IN
        Types /\ S.empty \in Slot /\ (S.empty # 0 => inode[S.empty] = [Zeroed EXCEPT !.count = 1])
    BY <1>1, AtSearch
  <2> QED  BY <2>1, <1>3, SlotFacts DEF Types
<1>5. CASE free = {}
  <2>1. /\ UNCHANGED <<inode, imap, links, super, disk, panic>>
        /\ Runs(t, [T EXCEPT !.empty = 0, !.stk = <<Frame("iput", e)>> \o Rest(t)])
    BY <1>2, <1>3, <1>5 DEF new_inode
  <2> QED  BY <2>1, <1>1, <1>3, EmptyReturned
<1>6. CASE free # {}
  <2>1. PICK n : n = Min(free)
    OBVIOUS
  <2>2. n \in Num /\ <<T.dev, n>> \notin imap
    <3>1. free \subseteq Nat
      BY SlotFacts
    <3>2. n \in free
      <4> HIDE DEF free
      <4> QED  BY <3>1, <2>1, <1>6, LeastExists
    <3> QED  BY <3>2
  <2>3. /\ imap' = imap \cup {<<T.dev, n>>} /\ links' = [links EXCEPT ![<<T.dev, n>>] = 1]
        /\ inode' = [inode EXCEPT ![e] = [@ EXCEPT !.dev = T.dev, !.num = n,
                                                !.count = 1, !.nlinks = 1, !.dirt = TRUE]]
        /\ Runs(t, [T EXCEPT !.empty = 0, !.got = e, !.stk = Rest(t)])
        /\ UNCHANGED <<super, disk, panic>>
    BY <2>1, <1>2, <1>3, <1>6 DEF new_inode
  <2>4. PICK J : J = [Zeroed EXCEPT !.dev = T.dev, !.num = n, !.count = 1, !.nlinks = 1, !.dirt = TRUE]
    OBVIOUS
  <2>5. inode' = [inode EXCEPT ![e] = J]
    BY <2>3, <2>4, <1>4 DEF Zeroed
  <2>6. /\ J \in InodeType /\ J.dev = T.dev /\ J.num = n /\ J.count = 1 /\ J.nlinks = 1 /\ J.dirt
        /\ ~J.pipe /\ ~J.mount /\ J.lock = None
    BY <2>2, <2>4, <1>2 DEF Zeroed, InodeType
  <2>7. NewInode(J, e)
    BY <2>2, <2>3, <2>6, <1>2, <1>4 DEF NewInode
  <2>8. /\ J.count = (IF e = 0 THEN 0 ELSE IF J.pipe THEN 2 ELSE 1) /\ J.dev # 0
        /\ e = task[t].empty /\ e \in {0, e} /\ UNCHANGED <<super, disk, panic>>
        /\ Runs(t, [task[t] EXCEPT !.empty = 0, !.got = e, !.stk = Rest(t)])
    BY <2>3, <2>6, <1>2, <1>3, <1>4
  <2> HIDE DEF T, free
  <2> QED  BY <2>5, <2>6, <2>7, <2>8, <1>1, EmptyFilled
<1> QED
  BY <1>5, <1>6

LEMMA GetPipeInodeStep ==
    ASSUME InoInv, NEW t \in Task, get_pipe_inode(t)
    PROVE  InoInv'
<1>1. At(t, "get_pipe_inode")
  BY DEF get_pipe_inode
<1>2. PICK e : e = task[t].empty
  OBVIOUS
<1>3. e \in Slot /\ 0 \notin Slot /\ inode[e] = [Zeroed EXCEPT !.count = 1] /\ inode \in [Slot -> InodeType]
  <2>1. LET S == task[t] IN
        /\ Types /\ S.empty \in Slot /\ S.got = 0
        /\ (S.empty # 0 => inode[S.empty] = [Zeroed EXCEPT !.count = 1])
    BY <1>1, AtSearch
  <2> QED  BY <2>1, <1>2, SlotFacts DEF Types
<1>4. UNCHANGED <<super, disk, imap, links, panic>>
  BY DEF get_pipe_inode, ioVars
<1>5. CASE /\ inode' = [inode EXCEPT ![e].count = 2, ![e].pipe = TRUE]
           /\ Runs(t, [task[t] EXCEPT !.empty = 0, !.got = e, !.stk = Rest(t)])
  <2>1. PICK J : J = [Zeroed EXCEPT !.count = 2, !.pipe = TRUE]
    OBVIOUS
  <2>2. inode' = [inode EXCEPT ![e] = J]
    BY <2>1, <1>3, <1>5 DEF Zeroed
  <2>3. /\ J \in InodeType /\ J.dev = 0 /\ J.count = 2 /\ ~J.dirt /\ J.pipe /\ ~J.mount /\ J.lock = None
    BY <2>1 DEF Zeroed, InodeType
  <2>4. NewInode(J, e)
    BY <2>3, <1>4 DEF NewInode
  <2>5. J.count = (IF e = 0 THEN 0 ELSE IF J.pipe THEN 2 ELSE 1) /\ e \in {0, e}
    BY <2>3, <1>3
  <2> QED  BY <2>2, <2>3, <2>4, <2>5, <1>1, <1>2, <1>4, <1>5, EmptyFilled
<1>6. CASE /\ inode' = [inode EXCEPT ![e].count = 0]
           /\ Runs(t, [task[t] EXCEPT !.empty = 0, !.stk = Rest(t)])
  <2>1. PICK J : J = [inode[e] EXCEPT !.count = 0]
    OBVIOUS
  <2>2. inode' = [inode EXCEPT ![e] = J]
    BY <2>1, <1>3, <1>6
  <2>3. /\ J \in InodeType /\ J.dev = 0 /\ J.count = 0 /\ ~J.dirt /\ ~J.pipe /\ ~J.mount /\ J.lock = None
    BY <2>1, <1>3 DEF Zeroed, InodeType
  <2>4. NewInode(J, 0)
    BY <2>3, <1>4 DEF NewInode
  <2>5. [task[t] EXCEPT !.empty = 0, !.stk = Rest(t)]
            = [task[t] EXCEPT !.empty = 0, !.got = 0, !.stk = Rest(t)]
    <3>1. task[t] \in TaskType /\ task[t].got = 0
      BY <1>1, AtSearch
    <3> QED  BY <3>1 DEF TaskType
  <2>6. /\ J.count = (IF 0 = 0 THEN 0 ELSE IF J.pipe THEN 2 ELSE 1) /\ 0 \in {0, e}
        /\ Runs(t, [task[t] EXCEPT !.empty = 0, !.got = 0, !.stk = Rest(t)])
    BY <2>3, <2>5, <1>6
  <2> QED  BY <2>2, <2>3, <2>4, <2>6, <1>1, <1>2, <1>4, EmptyFilled
<1> QED
  BY <1>2, <1>5, <1>6 DEF get_pipe_inode

(***************************************************************************)
(* Steps that change a super block or a mount point.                       *)
(***************************************************************************)
LEMMA MountingStep ==
    ASSUME InoInv, Types', NEW t \in Task, Mounting(t), Own(t)', Supers'
    PROVE  InoInv'
<1>1. /\ Types /\ Unique /\ Linked /\ Supers /\ (\A i \in Slot : Good(i)) /\ inode[1].dev = ROOT_DEV
      /\ 1 \in Slot
  BY Parts, GoodFacts, SlotFacts
<1>2. /\ OnlyTask(t) /\ cpu \in {t, None} /\ cpu' \in {t, None}
      /\ UNCHANGED <<disk, imap, links, panic>>
  BY DEF Mounting
<1>3. ASSUME NEW i \in Slot
      PROVE  /\ inode'[i].dev = inode[i].dev /\ inode'[i].num = inode[i].num
             /\ inode'[i].pipe = inode[i].pipe /\ inode'[i].lock = inode[i].lock
             /\ inode'[i].count = inode[i].count /\ inode'[i].nlinks = inode[i].nlinks
             /\ \/ inode'[i].dirt = inode[i].dirt
                \/ inode'[i].dirt /\ inode[i].dev # 0 /\ inode[i].count > 0
             /\ (inode'[i].mount =>
                    inode[i].dev # 0 /\ <<inode[i].dev, inode[i].num>> \notin BlkFile)
  BY DEF Mounting
<1>4. ASSUME NEW u \in Task  PROVE Own(u)'
  <2>1. CASE u = t
    BY <2>1
  <2>2. CASE u # t
    <3>2. Spared(t, u)
      BY <2>2 DEF Mounting
    <3>3. task'[u] = task[u]
      BY <2>2, <1>2 DEF OnlyTask
    <3> QED  BY <3>2, <3>3, <2>2, <1>2, OthersOK
  <2> QED  BY <2>1, <2>2
<1>5. Pairs'
  <2>1. \A f \in FrameType :
          f.at \in {"mount", "umount", "read_super"} /\ Has(task'[t].stk, f) =>
            Has(task[t].stk, f) \/ \A u \in Task : u # t => ~Has(task[u].stk, f)
    BY DEF Mounting
  <2> QED  BY <2>1, <1>2, PairsStep
<1>6. Counts'
  <2>1. ASSUME NEW i \in Slot
        PROVE  /\ inode'[i].pipe = inode[i].pipe \/ \A u \in Task : u # t => Points(u, i) = 0
               /\ OfSupers(i)' \in Nat
               /\ inode'[i].count - inode[i].count =
                    (Points(t, i)' - Points(t, i)) + (OfSupers(i)' - OfSupers(i))
    <3>1. OfSupers(i) \in Nat
      BY SupersBounds
    <3>2. OfSupers(i)' \in Nat
      <4>1. Cardinality({s \in Super : super'[s].imount = i /\ ~Leaving(s)'}) \in Nat
            /\ Cardinality({s \in Super : super'[s].isup = i}) \in Nat
        <5>1. IsFiniteSet({s \in Super : super'[s].imount = i /\ ~Leaving(s)'})
              /\ IsFiniteSet({s \in Super : super'[s].isup = i})
          BY SlotFacts, FS_Subset
        <5> QED  BY <5>1, FS_CardinalityType
      <4> QED  BY <4>1 DEF OfSupers
    <3>3. Points(t, i) \in Nat /\ Points(t, i)' \in Nat
      <4>1. task'[t] \in TaskType /\ inode'[i].pipe \in BOOLEAN
        BY DEF Types, InodeType
      <4> QED  BY <4>1, <1>1, PointsNat, PointersNat DEF Points
    <3>4. Points(t, i)' + OfSupers(i)' = Points(t, i) + OfSupers(i)
      BY DEF Mounting
    <3>5. inode'[i].count = inode[i].count /\ inode[i].count \in Nat
      BY <1>1, <1>3 DEF Types, InodeType
    <3> DEFINE a == Points(t, i)
               b == OfSupers(i)
               c == inode[i].count
    <3>6. c - c = (Points(t, i)' - a) + (OfSupers(i)' - b)
      <4>1. a \in Nat /\ b \in Nat /\ c \in Nat /\ Points(t, i)' + OfSupers(i)' = a + b
        BY <3>1, <3>3, <3>4, <3>5
      <4> HIDE DEF a, b, c
      <4> QED  BY <4>1, <3>2, <3>3
    <3> QED  BY <3>2, <3>5, <3>6, <1>3 DEF a, b, c
  <2> QED  BY <2>1, <1>2, CountsStep
<1>7. Table'
  <2>1. ASSUME NEW i \in Slot  PROVE Good(i)'
    <3>1. Good(i)
      BY <1>1
    <3>2. inode[i].count > 0 /\ inode[i].dev # 0 => Mounted(inode[i].dev)'
      BY DEF Mounting
    <3> QED  BY <3>1, <3>2, <1>2, <1>3 DEF Good
  <2>2. inode'[1].dev = ROOT_DEV
    BY <1>1, <1>3
  <2> QED  BY <2>1, <2>2 DEF Table, Good
<1>8. Unique'
  <2>1. \A j \in Slot : inode'[j].dev = inode[j].dev /\ inode'[j].num = inode[j].num
    BY <1>3
  <2>2. Unique
    BY <1>1
  <2> QED  BY <2>1, <2>2 DEF Unique, Matches
<1>9. \A i \in Slot : InCore(i)' <=> InCore(i)
  BY <1>2, InCoreSame DEF Mounting
<1>10. Linked'
  <2>1. ASSUME NEW p \in Dev \X Num, links'[p] > 0,
               \A j \in Slot : ~(Matches(j, p[1], p[2])' /\ InCore(j)')
        PROVE  disk'[p] = links'[p]
    <3>1. \A j \in Slot : ~(Matches(j, p[1], p[2]) /\ InCore(j))
      BY <2>1, <1>3, <1>9 DEF Matches
    <3> QED  BY <3>1, <2>1, <1>1, <1>2 DEF Linked
  <2>2. ASSUME NEW j \in Slot, inode'[j].dev # 0, InCore(j)'
        PROVE  /\ inode'[j].nlinks = links'[<<inode'[j].dev, inode'[j].num>>]
               /\ ~inode'[j].dirt => disk'[<<inode'[j].dev, inode'[j].num>>] = inode'[j].nlinks
    <3>1. InCore(j) /\ inode[j].dev # 0 /\ (~inode'[j].dirt => ~inode[j].dirt)
      BY <2>2, <1>3, <1>9
    <3>2. /\ inode[j].nlinks = links[<<inode[j].dev, inode[j].num>>]
          /\ ~inode[j].dirt => disk[<<inode[j].dev, inode[j].num>>] = inode[j].nlinks
      BY <3>1, <1>1 DEF Linked
    <3> QED  BY <3>1, <3>2, <1>2, <1>3
  <2> QED  BY <2>1, <2>2, <1>1, <1>2 DEF Linked
<1>11. panic' \in {"none", "No free inodes in mem", "unable to read i-node block"}
  BY <1>2 DEF InoInv
<1> QED
  BY <1>4, <1>5, <1>6, <1>7, <1>8, <1>10, <1>11 DEF InoInv

(* The frames and variables of the task in such a step.                    *)
LEMMA MountOwn ==
    ASSUME InoInv, Types', NEW t \in Task, CanRun(t), NEW rec \in TaskType, Runs(t, rec),
           WellFormed(rec.stk), rec.got = 0, rec.empty = 0, rec.held = task[t].held,
           \A g : Has(rec.stk, g) => g.at \in MountFrames,
           \A i \in Slot :
              /\ inode'[i].dev = inode[i].dev /\ inode'[i].num = inode[i].num
              /\ inode'[i].pipe = inode[i].pipe /\ inode'[i].lock = inode[i].lock
              /\ inode[i].lock # t
              /\ Has(rec.stk, Frame("mount", i)) =>
                    /\ inode[i].dev # 0 /\ <<inode[i].dev, inode[i].num>> \notin BlkFile
                    /\ \A s \in Super : super'[s].imount # i,
           \A s \in Super : SuperInv(t, s)',
           Top(rec.stk).at = "mount" /\ rec.sb # 0 => super'[rec.sb].dev # 0 /\ ~super'[rec.sb].lock
    PROVE  Own(t)'
<1>1. Types /\ 0 \notin Slot
  BY Parts, SlotFacts
<1>2. /\ task'[t] = rec /\ rec.stk \in Seq(FrameType)
      /\ (cpu' = t => Top(rec.stk).at \notin IO \cup {"user"} /\ ~Blocked(Top(rec.stk), inode'))
      /\ (Top(rec.stk).at \notin IO \cup {"user"} /\ ~Blocked(Top(rec.stk), inode') => cpu' = t)
  BY <1>1, RunsFacts DEF TaskType
<1>3. Top(rec.stk).at \in MountFrames \cup {"user"} /\ (Top(rec.stk).at # "user" => Has(rec.stk, Top(rec.stk)))
  <2>1. CASE rec.stk = <<>>
    BY <2>1, EmptyStack, FrameEq
  <2>2. CASE rec.stk # <<>>
    <3>1. Has(rec.stk, Top(rec.stk))
      BY <2>2, <1>2, Below
    <3> QED  BY <3>1
  <2> QED  BY <2>1, <2>2
<1>4. Work(rec.stk).at \in {"mount", "read_super", "umount", "user"}
  <2>1. CASE Work(rec.stk) = Frame("user", 0)
    BY <2>1, FrameEq
  <2>2. CASE Work(rec.stk) # Frame("user", 0)
    <3>1. Has(rec.stk, Work(rec.stk)) /\ Work(rec.stk) \in FrameType
      BY <2>2, <1>2, WorkIsFrame
    <3>2. Work(rec.stk).at \in MountFrames
      BY <3>1
    <3>3. Work(rec.stk).at \notin Service
      <4> DEFINE s == rec.stk
                 W == {k \in DOMAIN s : s[k].at \notin Service}
      <4>1. W # {} /\ Work(s) = s[Min(W)]
        BY <2>2 DEF Work
      <4>2. W \subseteq Nat
        BY <1>2
      <4> HIDE DEF s
      <4>3. Min(W) \in W
        <5> HIDE DEF W
        <5> QED  BY <4>1, <4>2, LeastExists
      <4> QED  BY <4>1, <4>3 DEF s
    <3> QED  BY <3>2, <3>3 DEF MountFrames, Service
  <2> QED  BY <2>1, <2>2
<1>5. WorkOK(rec, Work(rec.stk).at) /\ CrossOK(t)'
  BY <1>2, <1>4 DEF WorkOK, Keeper, Searching, CrossOK
<1>6. DevInv(task[t])'
  <2>1. ~Looking(rec.stk) /\ ~Has(rec.stk, Frame("new_inode", 0)) /\ ~Has(rec.stk, Frame("change", 0))
    BY FrameEq DEF Looking, MountFrames
  <2> QED  BY <2>1, <1>2 DEF DevInv
<1>7. \A i \in Slot : SlotInv(t, i)'
  <2>1. \A i \in Slot : /\ ~Has(rec.stk, Frame("irepeat", i)) /\ ~Has(rec.stk, Frame("trunc", i))
                        /\ ~Has(rec.stk, Frame("read", i)) /\ ~Has(rec.stk, Frame("write", i))
                        /\ ~Has(rec.stk, Frame("chdir", i))
    BY FrameEq DEF MountFrames
  <2> QED  BY <2>1, <1>2 DEF SlotInv
<1>8. \A i \in Slot : rec.held[i] > 0 \/ rec.got = i => inode'[i].pipe \/ inode'[i].dev # 0
  BY <1>1, HeldFacts
<1>9. Top(rec.stk).at = "mount" => cpu' = t
  <2> SUFFICES ASSUME Top(rec.stk).at = "mount"  PROVE cpu' = t
    OBVIOUS
  <2>1. ~Blocked(Top(rec.stk), inode')
    BY NotBlocked DEF WaitsOnInode
  <2> QED  BY <2>1, <1>2 DEF IO
<1>10. Blocked(Top(rec.stk), inode)' <=> Blocked(Top(rec.stk), inode')
  BY <1>3, BlockedSame DEF MountFrames
<1>11. (cpu = t => Top(task[t].stk).at \notin IO \cup {"user"} /\ ~Blocked(Top(task[t].stk), inode))'
  BY <1>2, <1>10
<1>12. \A i \in Slot : inode'[i].lock # t
  OBVIOUS
<1> QED
  BY <1>2, <1>5, <1>6, <1>7, <1>8, <1>9, <1>11, <1>12 DEF Own

LEMMA SuperOnlyStep ==
    ASSUME InoInv, Types', NEW t \in Task, NEW rec, SuperOnly(t, rec), Own(t)', Supers'
    PROVE  InoInv'
<1>1. /\ CanRun(t) /\ rec \in TaskType /\ Runs(t, rec) /\ UNCHANGED <<inode, disk, imap, links, panic>>
      /\ rec.held = task[t].held /\ rec.got = task[t].got /\ rec.empty = task[t].empty
  BY DEF SuperOnly
<1>2. /\ Types /\ (\A i \in Slot : Good(i)) /\ 0 \notin Slot
  BY Parts, GoodFacts, SlotFacts
<1>3. task'[t] = rec /\ OnlyTask(t) /\ cpu \in {t, None} /\ cpu' \in {t, None}
  BY <1>1, <1>2, RunsFacts
<1>4. ASSUME NEW i \in Slot
      PROVE  /\ inode'[i] = inode[i] /\ ~Has(task'[t].stk, Frame("read", i))
             /\ ~Has(task[t].stk, Frame("read", i))
             /\ (inode[i].mount => inode[i].dev # 0 /\ <<inode[i].dev, inode[i].num>> \notin BlkFile)
             /\ (inode[i].count > 0 /\ inode[i].dev # 0 => Mounted(inode[i].dev)')
  <2>1. inode'[i] = inode[i] /\ ~Has(task'[t].stk, Frame("read", i)) /\ ~Has(task[t].stk, Frame("read", i))
    BY <1>1, <1>3 DEF SuperOnly
  <2>2. Good(i)
    BY <1>2
  <2>3. Mounted(inode[i].dev) => Mounted(inode[i].dev)'
    <3>1. \A d : Mounted(d) => Mounted(d)'
      BY DEF SuperOnly
    <3>2. inode'[i].dev = inode[i].dev
      BY <2>1
    <3> QED  BY <3>1, <3>2
  <2> QED  BY <2>1, <2>2, <2>3 DEF Good
<1>5. ASSUME NEW i \in Slot  PROVE Points(t, i)' + OfSupers(i)' = Points(t, i) + OfSupers(i)
  <2>1. Points(t, i)' = Points(t, i)
    BY <1>1, <1>3 DEF SuperOnly, Points, Pointers
  <2>2. OfSupers(i)' = OfSupers(i)
    BY DEF SuperOnly
  <2> QED  BY <2>1, <2>2
<1>6. ASSUME NEW u \in Task, u # t  PROVE Spared(t, u)
  <2>1. \A i \in Slot : SlotInv(u, i)
    BY HasFacts
  <2>2. ASSUME NEW i \in Slot
        PROVE  /\ Has(task[u].stk, Frame("read", i)) => links'[<<inode[i].dev, inode[i].num>>] > 0
               /\ Has(task[u].stk, Frame("mount", i)) => \A s \in Super : super'[s].imount # i
    <3>1. SlotInv(u, i)
      BY <2>1
    <3>2. ASSUME Has(task[u].stk, Frame("mount", i)), NEW s \in Super  PROVE super'[s].imount # i
      <4>1. super[s].imount # i /\ super'[s].imount \in {0, super[s].imount}
        BY <3>1, <3>2 DEF SlotInv, SuperOnly
      <4> QED  BY <4>1, <1>2
    <3>3. Has(task[u].stk, Frame("read", i)) => links'[<<inode[i].dev, inode[i].num>>] > 0
      BY <3>1, <1>1 DEF SlotInv
    <3> QED  BY <3>2, <3>3
  <2>3. \A s \in Super : Has(task[u].stk, Frame("read_super", s)) \/ Has(task[u].stk, Frame("umount", s))
            => super'[s] = super[s]
    BY <1>6 DEF SuperOnly
  <2> QED  BY <2>2, <2>3, <1>1 DEF Spared
<1>7. \A f \in FrameType :
          f.at \in {"mount", "umount", "read_super"} /\ Has(task'[t].stk, f) =>
            Has(task[t].stk, f) \/ \A u \in Task : u # t => ~Has(task[u].stk, f)
  BY <1>3 DEF SuperOnly
<1>8. UNCHANGED <<disk, imap, links, panic>>
  BY <1>1
<1>9. ASSUME NEW i \in Slot
      PROVE  /\ inode'[i].dev = inode[i].dev /\ inode'[i].num = inode[i].num
             /\ inode'[i].pipe = inode[i].pipe /\ inode'[i].lock = inode[i].lock
             /\ inode'[i].count = inode[i].count /\ inode'[i].nlinks = inode[i].nlinks
             /\ inode'[i].dirt = inode[i].dirt
             /\ inode'[i].mount => inode[i].dev # 0 /\ <<inode[i].dev, inode[i].num>> \notin BlkFile
  BY <1>4
<1>10. Mounting(t)
  BY <1>3, <1>4, <1>5, <1>6, <1>7, <1>8, <1>9 DEF Mounting
<1> QED
  BY <1>10, MountingStep

(* The stack of a mount that looks for the super block.                    *)
LEMMA AtMounting ==
    ASSUME InoInv, NEW t \in Task, NEW at \in {"mount_super", "read_super"}, At(t, at)
    PROVE  LET T == task[t] R == Rest(t) m == Top(Rest(t)) IN
           /\ CanRun(t) /\ T \in TaskType /\ Types /\ T.got = 0 /\ T.empty = 0
           /\ R \in Seq(FrameType) /\ m \in FrameType /\ m.at = "mount" /\ m.i \in Slot
           /\ m = Frame("mount", m.i) /\ WellFormed(R) /\ Top(R) = m
           /\ (\A g : Has(R, g) <=> g = m)
           /\ (\A g : Has(T.stk, g) <=> g = Frame(at, It(t)) \/ g = m)
           /\ (\A j : Frames(R, j) = Frames(T.stk, j))
           /\ (\A j \in Slot : inode[j].lock # t)
           /\ Frame(at, It(t)) \in FrameType
           /\ SlotInv(t, m.i)
<1> DEFINE T == task[t]
           R == Rest(t)
           m == Top(R)
<1>1. at # "user" /\ at \notin Service \cup {"user"} /\ at # "read"
  BY DEF Service
<1>2. /\ CanRun(t) /\ T.stk \in Seq(FrameType) /\ R = Tail(T.stk) /\ R \in Seq(FrameType)
      /\ Head(T.stk) = Frame(at, It(t)) /\ Head(T.stk) \in FrameType
      /\ WellFormed(R) /\ Fits(Head(T.stk), m.at)
      /\ (\A g : Has(T.stk, g) <=> g = Head(T.stk) \/ Has(R, g))
      /\ (\A j : Frames(R, j) \in Nat /\ Frames(T.stk, j) = Frames(R, j) + Counting(Head(T.stk), j))
  <2>1. LET S == task[t].stk IN
        /\ CanRun(t) /\ S \in Seq(FrameType) /\ Rest(t) = Tail(S) /\ Tail(S) \in Seq(FrameType)
        /\ Head(S) = Frame(at, It(t)) /\ Head(S) \in FrameType
        /\ WellFormed(Tail(S)) /\ Fits(Head(S), Top(Tail(S)).at)
        /\ (\A g : Has(S, g) <=> g = Head(S) \/ Has(Tail(S), g))
        /\ (\A j : Frames(Tail(S), j) \in Nat /\ Frames(S, j) = Frames(Tail(S), j) + Counting(Head(S), j))
    BY <1>1, AtFacts
  <2> QED  BY <2>1
<1>3. m.at = "mount"
  BY <1>2, FrameEq DEF Fits
<1> HIDE DEF R
<1>4. R # <<>> /\ m \in FrameType
  BY <1>2, <1>3, TopFacts
<1>5. m.i \in Slot /\ m = Frame("mount", m.i)
  BY <1>3, <1>4, FrameFacts DEF OnSlot
<1>6. \A g : Has(R, g) <=> g = m
  BY <1>2, <1>3, <1>4, LastFrame
<1>7. WorkOK(T, at) /\ \A j \in Slot : inode[j].lock = t => at = "read"
  BY <1>1, WorkFacts
<1>8. T.got = 0 /\ T.empty = 0
  BY <1>7 DEF WorkOK, Keeper, Searching
<1>9. ASSUME NEW j  PROVE Frames(R, j) = Frames(T.stk, j)
  <2>1. Counting(Head(T.stk), j) = 0
    BY <1>2, FrameEq DEF Counting
  <2> QED  BY <2>1, <1>2
<1>10. T \in TaskType /\ Types /\ SlotInv(t, m.i)
  BY <1>5, Parts, HasFacts
<1> HIDE DEF m, T
<1>11. /\ CanRun(t) /\ T \in TaskType /\ Types /\ T.got = 0 /\ T.empty = 0
       /\ R \in Seq(FrameType) /\ m \in FrameType /\ m.at = "mount" /\ m.i \in Slot
       /\ m = Frame("mount", m.i) /\ WellFormed(R) /\ Top(R) = m
       /\ (\A g : Has(R, g) <=> g = m)
       /\ (\A g : Has(T.stk, g) <=> g = Frame(at, It(t)) \/ g = m)
       /\ (\A j : Frames(R, j) = Frames(T.stk, j))
       /\ (\A j \in Slot : inode[j].lock # t)
       /\ Frame(at, It(t)) \in FrameType
       /\ SlotInv(t, m.i)
  BY <1>1, <1>2, <1>3, <1>4, <1>5, <1>6, <1>7, <1>8, <1>9, <1>10 DEF m
<1> QED
  BY <1>11 DEF m, R, T

LEMMA UnmountedFacts ==
    ASSUME InoInv, \A s \in Super : Unmounted(s), inode' = inode
    PROVE  /\ Supers' /\ \A d : Mounted(d) => Mounted(d)'
           /\ \A s \in Super : super'[s].imount \in {0, super[s].imount}
           /\ \A u \in Task : \A s \in Super : Has(task[u].stk, Frame("umount", s)) => super'[s] = super[s]
<1>1. /\ Supers /\ 1 \in Super /\ super[1].imount = 1 /\ super \in [Super -> SuperType]
  BY Parts, SlotFacts, RootUsed DEF Types
<1>2. \A s \in Super : super'[s].imount = super[s].imount /\ super'[s].isup = super[s].isup
                       /\ (super'[s] = super[s] \/ super[s].imount = 0)
  BY DEF Unmounted
<1>3. Supers'
  <2>1. super'[1] = super[1]
    BY <1>1, <1>2
  <2>2. super'[1] = [dev |-> ROOT_DEV, imount |-> 1, isup |-> 1, lock |-> FALSE]
    BY <2>1, <1>1 DEF Supers
  <2>3. \A s \in Super :
            /\ super'[s].imount # 0 => super'[s].dev # 0 /\ ~super'[s].lock
            /\ super'[s].isup # 0 => s = 1
            /\ \A r \in Super : r # s /\ super'[s].imount = super'[r].imount => super'[s].imount = 0
    BY <1>1, <1>2 DEF Supers
  <2> QED  BY <2>2, <2>3 DEF Supers
<1>4. \A d : Mounted(d) => Mounted(d)'
  <2> SUFFICES ASSUME NEW d, Mounted(d)  PROVE Mounted(d)'
    OBVIOUS
  <2>1. PICK s \in Super : super[s].dev = d /\ super[s].imount # 0
                           /\ (d = ROOT_DEV \/ inode[super[s].imount].mount)
    BY DEF Mounted
  <2>2. super'[s] = super[s]
    BY <2>1, <1>2
  <2> QED  BY <2>1, <2>2 DEF Mounted
<1>5. ASSUME NEW u \in Task, NEW s \in Super, Has(task[u].stk, Frame("umount", s))
      PROVE  super'[s] = super[s]
  <2>1. super[s].imount # 0
    BY <1>5, HasFacts DEF SuperInv
  <2> QED  BY <2>1, <1>2
<1> QED
  BY <1>2, <1>3, <1>4, <1>5

LEMMA MountGoesOn ==
    ASSUME InoInv, NEW t \in Task, NEW at \in {"mount_super", "read_super"}, At(t, at),
           NEW x \in Super \cup {0}, Runs(t, [task[t] EXCEPT !.sb = x, !.stk = Rest(t)]),
           UNCHANGED <<inode, disk, imap, links, panic>>, super' \in [Super -> SuperType],
           \A s \in Super : Unmounted(s),
           \A s \in Super : super'[s] = super[s] \/ (at = "read_super" /\ s = It(t)),
           x # 0 => super'[x].dev # 0 /\ ~super'[x].lock
    PROVE  InoInv'
<1> DEFINE T == task[t]
           R == Rest(t)
           m == Top(R)
           rec == [T EXCEPT !.sb = x, !.stk = R]
<1>1. /\ CanRun(t) /\ T \in TaskType /\ Types /\ T.got = 0 /\ T.empty = 0
      /\ R \in Seq(FrameType) /\ m \in FrameType /\ m.at = "mount" /\ m.i \in Slot
      /\ m = Frame("mount", m.i) /\ WellFormed(R)
      /\ (\A g : Has(R, g) <=> g = m)
      /\ (\A g : Has(T.stk, g) <=> g = Frame(at, It(t)) \/ g = m)
      /\ (\A j : Frames(R, j) = Frames(T.stk, j))
      /\ (\A j \in Slot : inode[j].lock # t) /\ Frame(at, It(t)) \in FrameType
      /\ SlotInv(t, m.i)
  <2>1. LET S == task[t] Q == Rest(t) n == Top(Rest(t)) IN
           /\ CanRun(t) /\ S \in TaskType /\ Types /\ S.got = 0 /\ S.empty = 0
           /\ Q \in Seq(FrameType) /\ n \in FrameType /\ n.at = "mount" /\ n.i \in Slot
           /\ n = Frame("mount", n.i) /\ WellFormed(Q)
           /\ (\A g : Has(Q, g) <=> g = n)
           /\ (\A g : Has(S.stk, g) <=> g = Frame(at, It(t)) \/ g = n)
           /\ (\A j : Frames(Q, j) = Frames(S.stk, j))
           /\ (\A j \in Slot : inode[j].lock # t) /\ Frame(at, It(t)) \in FrameType
           /\ SlotInv(t, n.i)
    <3>1. CASE at = "mount_super"
      BY <3>1, AtMounting
    <3>2. CASE at = "read_super"
      BY <3>2, AtMounting
    <3> QED  BY <3>1, <3>2
  <2> QED  BY <2>1
<1>2. /\ Supers' /\ (\A d : Mounted(d) => Mounted(d)')
      /\ (\A s \in Super : super'[s].imount \in {0, super[s].imount})
      /\ \A u \in Task : \A s \in Super : Has(task[u].stk, Frame("umount", s)) => super'[s] = super[s]
  BY UnmountedFacts
<1>3. /\ rec \in TaskType /\ rec.stk = R /\ rec.got = 0 /\ rec.empty = 0 /\ rec.held = T.held
      /\ rec.sb = x
  BY <1>1 DEF TaskType
<1>4. Runs(t, rec)
  OBVIOUS
<1> HIDE DEF rec, R, m
<1>5. task'[t] = rec /\ OnlyTask(t) /\ task' \in [Task -> TaskType] /\ cpu' \in Task \cup {None}
  BY <1>1, <1>3, <1>4, RunsFacts
<1>6. Types'
  BY <1>1, <1>5 DEF Types
<1>7. Has(T.stk, m) /\ \A s \in Super : super[s].imount # m.i
  <2>1. Has(T.stk, m)
    BY <1>1
  <2> QED  BY <2>1, <1>1 DEF SlotInv
<1>8. \A g : Has(rec.stk, g) <=> g = m
  BY <1>1, <1>3
<1>9. ASSUME NEW s \in Super
      PROVE  /\ ~Has(rec.stk, Frame("umount", s)) /\ ~Has(rec.stk, Frame("read_super", s))
             /\ ~Has(T.stk, Frame("umount", s))
  BY <1>1, <1>8, FrameEq
<1>10. Own(t)'
  <2>1. \A g : Has(rec.stk, g) => g.at \in MountFrames
    BY <1>1, <1>8 DEF MountFrames
  <2>2. \A s \in Super : SuperInv(t, s)'
    BY <1>5, <1>9 DEF SuperInv
  <2>3. ASSUME NEW i \in Slot, Has(rec.stk, Frame("mount", i))
        PROVE  /\ inode[i].dev # 0 /\ <<inode[i].dev, inode[i].num>> \notin BlkFile
               /\ \A s \in Super : super'[s].imount # i
    <3>1. i = m.i
      BY <2>3, <1>8, FrameEq
    <3> QED  BY <3>1, <1>1, <1>7 DEF SlotInv, Unmounted
  <2>4. WellFormed(rec.stk)
    BY <1>1, <1>3
  <2> QED  BY <2>1, <2>2, <2>3, <2>4, <1>1, <1>3, <1>4, <1>6, MountOwn
<1>11. \A s \in Super : Leaving(s)' <=> Leaving(s)
  BY <1>5, <1>9, LeavingSame
<1>12. \A i \in Slot : OfSupers(i)' = OfSupers(i)
  BY <1>11, OfSupersSame DEF Unmounted
<1>13. ASSUME NEW s \in Super, NEW u \in Task, u # t, Has(task[u].stk, Frame("read_super", s))
       PROVE  super'[s] = super[s]
  <2> SUFFICES ASSUME at = "read_super", s = It(t)  PROVE FALSE
    OBVIOUS
  <2>1. Has(T.stk, Frame("read_super", s)) /\ Frame("read_super", s) \in FrameType
        /\ Frame("read_super", s).at = "read_super"
    BY <1>1, FrameEq
  <2> QED  BY <2>1, <1>13, Parts DEF Pairs
<1>14. \A i \in Slot : ~Has(rec.stk, Frame("read", i)) /\ ~Has(T.stk, Frame("read", i))
  BY <1>1, <1>8, FrameEq
<1>15. \A f \in FrameType : Has(rec.stk, f) => Has(T.stk, f)
  BY <1>7, <1>8
<1>16. UNCHANGED <<inode, disk, imap, links, panic>>
  OBVIOUS
<1>17. \A i \in Slot : Frames(rec.stk, i) = Frames(T.stk, i)
  BY <1>1, <1>3
<1>18. SuperOnly(t, rec)
  BY <1>1, <1>2, <1>3, <1>4, <1>12, <1>13, <1>14, <1>15, <1>16, <1>17 DEF SuperOnly
<1> QED
  BY <1>2, <1>6, <1>10, <1>18, SuperOnlyStep

LEMMA SuperIsReadStep ==
    ASSUME InoInv, NEW t \in Task, SuperIsRead(t)
    PROVE  InoInv'
<1>1. At(t, "read_super") /\ UNCHANGED <<inode, disk, imap, links, panic>>
  BY DEF SuperIsRead, ioVars
<1>2. PICK s : s = It(t)
  OBVIOUS
<1>3. PICK ok \in BOOLEAN :
          /\ super' = [super EXCEPT ![s].lock = FALSE, ![s].dev = IF ok THEN @ ELSE 0]
          /\ Runs(t, [task[t] EXCEPT !.sb = IF ok THEN s ELSE 0, !.stk = Rest(t)])
  BY <1>2 DEF SuperIsRead
<1>4. s \in Super /\ Has(task[t].stk, Frame("read_super", s)) /\ 0 \notin Super
  <2>1. LET S == task[t] n == Top(Rest(t)) IN
           /\ (\A g : Has(S.stk, g) <=> g = Frame("read_super", It(t)) \/ g = n)
           /\ Frame("read_super", It(t)) \in FrameType
    BY <1>1, AtMounting
  <2> QED  BY <2>1, <1>2, FrameFacts, FrameEq, SlotFacts DEF OnSuper
<1>5. super[s].lock /\ super[s].dev # 0 /\ super[s].imount = 0 /\ super \in [Super -> SuperType]
  <2>1. super[s].lock /\ super[s].dev # 0
    BY <1>4, HasFacts DEF SuperInv
  <2> QED  BY <2>1, <1>4, Parts DEF Supers, Types
<1>6. /\ super' \in [Super -> SuperType] /\ (\A r \in Super : r # s => super'[r] = super[r])
      /\ super'[s].imount = 0 /\ super'[s].isup = super[s].isup /\ ~super'[s].lock
      /\ (ok => super'[s].dev = super[s].dev)
  <2>1. super[s] \in SuperType
    BY <1>4, <1>5
  <2>2. PICK N : N = [super[s] EXCEPT !.lock = FALSE, !.dev = IF ok THEN @ ELSE 0]
    OBVIOUS
  <2>3. /\ N \in SuperType /\ N.imount = super[s].imount /\ N.isup = super[s].isup /\ ~N.lock
        /\ (ok => N.dev = super[s].dev)
    BY <2>1, <2>2 DEF SuperType
  <2>4. super' = [super EXCEPT ![s] = N]
    BY <2>2, <1>3, <1>4, <1>5
  <2> QED  BY <2>3, <2>4, <1>4, <1>5
<1>7. \A r \in Super : Unmounted(r)
  BY <1>4, <1>5, <1>6 DEF Unmounted
<1>8. PICK x : x = IF ok THEN s ELSE 0
  OBVIOUS
<1>9. /\ x \in Super \cup {0} /\ (x # 0 => super'[x].dev # 0 /\ ~super'[x].lock)
      /\ Runs(t, [task[t] EXCEPT !.sb = x, !.stk = Rest(t)])
      /\ \A r \in Super : super'[r] = super[r] \/ ("read_super" = "read_super" /\ r = It(t))
  BY <1>2, <1>3, <1>4, <1>5, <1>6, <1>8
<1> QED
  BY <1>1, <1>6, <1>7, <1>9, MountGoesOn

(* read_super takes a free super block, locks it and sleeps for the block. *)
LEMMA SuperLocked ==
    ASSUME InoInv, NEW t \in Task, At(t, "mount_super"), NEW r \in Super, super[r].dev = 0,
           Next_(t, <<Frame("read_super", r)>> \o Rest(t)),
           UNCHANGED <<inode, disk, imap, links, panic>>, super' \in [Super -> SuperType],
           \A s \in Super : Unmounted(s), \A s \in Super : s # r => super'[s] = super[s],
           super'[r].lock, super'[r].dev # 0
    PROVE  InoInv'
<1> DEFINE T == task[t]
           R == Rest(t)
           m == Top(R)
           f == Frame("read_super", r)
           c == <<f>> \o R
           rec == [T EXCEPT !.stk = c]
<1>1. /\ CanRun(t) /\ T \in TaskType /\ Types /\ T.got = 0 /\ T.empty = 0
      /\ R \in Seq(FrameType) /\ m \in FrameType /\ m.at = "mount" /\ m.i \in Slot
      /\ m = Frame("mount", m.i) /\ WellFormed(R)
      /\ (\A g : Has(R, g) <=> g = m)
      /\ (\A g : Has(T.stk, g) <=> g = Frame("mount_super", It(t)) \/ g = m)
      /\ (\A j : Frames(R, j) = Frames(T.stk, j))
      /\ (\A j \in Slot : inode[j].lock # t)
      /\ SlotInv(t, m.i)
  <2>1. LET S == task[t] Q == Rest(t) n == Top(Rest(t)) IN
           /\ CanRun(t) /\ S \in TaskType /\ Types /\ S.got = 0 /\ S.empty = 0
           /\ Q \in Seq(FrameType) /\ n \in FrameType /\ n.at = "mount" /\ n.i \in Slot
           /\ n = Frame("mount", n.i) /\ WellFormed(Q)
           /\ (\A g : Has(Q, g) <=> g = n)
           /\ (\A g : Has(S.stk, g) <=> g = Frame("mount_super", It(t)) \/ g = n)
           /\ (\A j : Frames(Q, j) = Frames(S.stk, j))
           /\ (\A j \in Slot : inode[j].lock # t)
           /\ SlotInv(t, n.i)
    BY AtMounting
  <2> QED  BY <2>1
<1>2. /\ Supers' /\ (\A d : Mounted(d) => Mounted(d)')
      /\ (\A s \in Super : super'[s].imount \in {0, super[s].imount})
      /\ \A u \in Task : \A s \in Super : Has(task[u].stk, Frame("umount", s)) => super'[s] = super[s]
  BY UnmountedFacts
<1>3. f \in FrameType /\ f.at = "read_super" /\ f.i = r
  BY MakeFrame, FrameEq DEF OnSuper
<1>4. Fits(f, m.at)
  BY <1>1, <1>3 DEF Fits, IO, Service, Putting, Keeper
<1>5. Runs(t, rec)
  BY DEF Next_
<1> HIDE DEF f, R, m
<1>6. /\ c \in Seq(FrameType) /\ Top(c) = f
      /\ (WellFormed(c) <=> WellFormed(R) /\ Fits(f, Top(R).at))
      /\ (\A g : Has(c, g) <=> g = f \/ Has(R, g))
      /\ \A j : Frames(R, j) \in Nat /\ Frames(c, j) = Frames(R, j) + Counting(f, j)
  BY <1>1, <1>3, Push
<1> HIDE DEF c
<1>7. /\ rec \in TaskType /\ rec.stk = c /\ rec.got = 0 /\ rec.empty = 0 /\ rec.held = T.held
  BY <1>1, <1>6 DEF TaskType
<1> HIDE DEF rec
<1>8. task'[t] = rec /\ OnlyTask(t) /\ task' \in [Task -> TaskType] /\ cpu' \in Task \cup {None}
  BY <1>1, <1>5, <1>7, RunsFacts
<1>9. Types'
  BY <1>1, <1>8 DEF Types
<1>10. (\A g : Has(rec.stk, g) <=> g = f \/ g = m) /\ WellFormed(rec.stk) /\ Top(rec.stk) = f
  BY <1>1, <1>4, <1>6, <1>7 DEF m
<1>11. Has(T.stk, m) /\ \A s \in Super : super[s].imount # m.i
  <2>1. Has(T.stk, m)
    BY <1>1
  <2> QED  BY <2>1, <1>1 DEF SlotInv
<1>12. ASSUME NEW s \in Super
       PROVE  /\ ~Has(rec.stk, Frame("umount", s)) /\ ~Has(T.stk, Frame("umount", s))
              /\ Has(rec.stk, Frame("read_super", s)) => s = r
  BY <1>1, <1>3, <1>10, FrameEq
<1>13. Own(t)'
  <2>1. \A g : Has(rec.stk, g) => g.at \in MountFrames
    BY <1>1, <1>3, <1>10 DEF MountFrames
  <2>2. \A s \in Super : SuperInv(t, s)'
    BY <1>8, <1>12 DEF SuperInv
  <2>3. ASSUME NEW i \in Slot, Has(rec.stk, Frame("mount", i))
        PROVE  /\ inode[i].dev # 0 /\ <<inode[i].dev, inode[i].num>> \notin BlkFile
               /\ \A s \in Super : super'[s].imount # i
    <3>1. i = m.i
      BY <2>3, <1>3, <1>10, FrameEq
    <3> QED  BY <3>1, <1>1, <1>11 DEF SlotInv, Unmounted
  <2>4. Top(rec.stk).at # "mount"
    BY <1>3, <1>10
  <2> QED  BY <2>1, <2>2, <2>3, <2>4, <1>1, <1>5, <1>7, <1>9, <1>10, MountOwn
<1>14. \A s \in Super : Leaving(s)' <=> Leaving(s)
  BY <1>8, <1>12, LeavingSame
<1>15. \A i \in Slot : OfSupers(i)' = OfSupers(i)
  BY <1>14, OfSupersSame DEF Unmounted
<1>16. ASSUME NEW u \in Task, NEW s \in Super, Has(task[u].stk, Frame("read_super", s))  PROVE s # r
  <2>1. super[s].dev # 0
    BY <1>16, HasFacts DEF SuperInv
  <2> QED  BY <2>1
<1>17. \A i \in Slot : ~Has(rec.stk, Frame("read", i)) /\ ~Has(T.stk, Frame("read", i))
  BY <1>1, <1>3, <1>10, FrameEq
<1>18. ASSUME NEW g \in FrameType, Has(rec.stk, g)
       PROVE  Has(T.stk, g) \/ \A u \in Task : u # t => ~Has(task[u].stk, g)
  <2>1. CASE g = m
    BY <2>1, <1>11
  <2>2. CASE g = f
    BY <2>2, <1>16 DEF f
  <2> QED  BY <2>1, <2>2, <1>10, <1>18
<1>19. ASSUME NEW i \in Slot  PROVE Frames(rec.stk, i) = Frames(T.stk, i)
  <2>1. Counting(f, i) = 0
    BY <1>3 DEF Counting
  <2> QED  BY <2>1, <1>1, <1>6, <1>7
<1>20. UNCHANGED <<inode, disk, imap, links, panic>>
  OBVIOUS
<1>21. ASSUME NEW s \in Super, NEW u \in Task,
              Has(task[u].stk, Frame("read_super", s)) \/ Has(task[u].stk, Frame("umount", s))
       PROVE  super'[s] = super[s]
  BY <1>2, <1>16, <1>21
<1>22. SuperOnly(t, rec)
  BY <1>1, <1>2, <1>5, <1>7, <1>15, <1>17, <1>18, <1>19, <1>20, <1>21 DEF SuperOnly
<1> QED
  BY <1>2, <1>9, <1>13, <1>22, SuperOnlyStep

LEMMA ReadSuperStep ==
    ASSUME InoInv, NEW t \in Task, read_super(t)
    PROVE  InoInv'
<1>1. At(t, "mount_super") /\ "mount_super" # "user" /\ UNCHANGED <<inode, disk, imap, links, panic>>
  BY DEF read_super, ioVars
<1>2. PICK dev : dev = It(t)
  OBVIOUS
<1> DEFINE there == get_super(dev)
           room == {s \in Super : super[s].dev = 0}
<1>3. /\ dev \in Dev /\ dev # 0 /\ Top(task[t].stk) = Frame("mount_super", dev) /\ Own(t) /\ CanRun(t)
  <2>1. LET S == task[t].stk IN
        /\ Top(S) = Head(S) /\ Head(S) \in FrameType /\ Head(S) = Frame("mount_super", It(t)) /\ CanRun(t)
    BY <1>1, AtFacts
  <2>2. Frame("mount_super", dev) \in FrameType
    BY <2>1, <1>2
  <2>3. dev \in Dev
    BY <2>2, FrameFacts, FrameEq
  <2> QED  BY <2>1, <2>3, <1>2, SlotFacts, Parts
<1>4. ASSUME NEW s \in there  PROVE s \in Super /\ super[s].dev # 0 /\ ~super[s].lock
  <2>1. ~Blocked(Frame("mount_super", dev), inode)
    BY <1>3 DEF CanRun, Own
  <2>2. ~\E q \in get_super(dev) : super[q].lock
    BY <2>1, FrameEq DEF Blocked
  <2> QED  BY <2>2, <1>3, <1>4 DEF get_super
<1>5. \A s \in Super : super' = super => Unmounted(s)
  BY DEF Unmounted
<1>6. there \subseteq Nat /\ room \subseteq Nat
  BY SlotFacts DEF get_super
<1>7. Types /\ Supers /\ super \in [Super -> SuperType]
  BY Parts DEF Types
<1>8. CASE there # {} \/ room = {}
  <2>1. PICK x : x = IF there # {} THEN Min(there) ELSE 0
    OBVIOUS
  <2>2. Runs(t, [task[t] EXCEPT !.sb = x, !.stk = Rest(t)]) /\ super' = super
    BY <2>1, <1>2, <1>8 DEF read_super
  <2>3. x = 0 \/ x \in there
    <3> HIDE DEF there
    <3> QED  BY <2>1, <1>6, LeastExists
  <2>4. /\ x \in Super \cup {0} /\ (x # 0 => super'[x].dev # 0 /\ ~super'[x].lock)
        /\ super' \in [Super -> SuperType] /\ \A s \in Super : super'[s] = super[s]
    BY <2>2, <2>3, <1>4, <1>7
  <2>5. \A s \in Super : Unmounted(s)
    BY <2>2, <1>5
  <2> QED  BY <2>2, <2>4, <2>5, <1>1, MountGoesOn
<1>9. CASE ~(there # {} \/ room = {})
  <2>1. PICK r : r = Min(room)
    OBVIOUS
  <2>2. r \in Super /\ super[r].dev = 0
    <3>1. r \in room
      <4> HIDE DEF room
      <4> QED  BY <2>1, <1>6, <1>9, LeastExists
    <3> QED  BY <3>1
  <2>3. PICK N : N = [NoSuper EXCEPT !.dev = dev, !.lock = TRUE]
    OBVIOUS
  <2>4. super' = [super EXCEPT ![r] = N] /\ Next_(t, <<Frame("read_super", r)>> \o Rest(t))
    BY <2>1, <2>3, <1>2, <1>9 DEF read_super
  <2>5. N \in SuperType /\ N.dev = dev /\ N.lock /\ N.imount = 0 /\ N.isup = 0
    BY <2>3, <1>3 DEF NoSuper, SuperType
  <2>6. super[r].imount = 0 /\ super[r].isup = 0
    <3>1. super[1].dev # 0
      BY RootUsed, SlotFacts
    <3> QED  BY <3>1, <2>2, <1>7 DEF Supers
  <2>7. /\ super' \in [Super -> SuperType] /\ super'[r] = N
        /\ \A s \in Super : s # r => super'[s] = super[s]
    BY <2>2, <2>4, <2>5, <1>7
  <2>8. \A s \in Super : Unmounted(s)
    BY <2>5, <2>6, <2>7 DEF Unmounted
  <2>9. super'[r].lock /\ super'[r].dev # 0
    BY <2>5, <2>7, <1>3
  <2> QED  BY <2>2, <2>4, <2>7, <2>8, <2>9, <1>1, SuperLocked
<1> QED
  BY <1>8, <1>9

(* mount and umount have no caller in the model.                           *)
LEMMA AtLast ==
    ASSUME InoInv, NEW t \in Task, NEW at \in {"mount", "umount"}, At(t, at)
    PROVE  LET T == task[t] IN
           /\ CanRun(t) /\ T \in TaskType /\ Types /\ T.got = 0 /\ T.empty = 0 /\ Rest(t) = <<>>
           /\ (\A g : Has(T.stk, g) <=> g = Frame(at, It(t)))
           /\ (\A j : Frames(T.stk, j) = Counting(Frame(at, It(t)), j))
           /\ (\A j \in Slot : inode[j].lock # t)
           /\ Frame(at, It(t)) \in FrameType /\ Top(T.stk) = Frame(at, It(t))
<1> DEFINE T == task[t]
<1>1. at # "user" /\ at \notin Service \cup {"user"} /\ at # "read"
  BY DEF Service
<1>2. /\ CanRun(t) /\ T.stk \in Seq(FrameType) /\ T.stk # <<>> /\ Rest(t) = Tail(T.stk)
      /\ Top(T.stk) = Head(T.stk) /\ Head(T.stk).at = at
      /\ Head(T.stk) = Frame(at, It(t)) /\ Head(T.stk) \in FrameType /\ WellFormed(T.stk)
      /\ (\A j : Frames(T.stk, j) = Frames(Tail(T.stk), j) + Counting(Head(T.stk), j))
  <2>1. LET S == task[t].stk IN
        /\ CanRun(t) /\ S \in Seq(FrameType) /\ S # <<>> /\ Rest(t) = Tail(S)
        /\ Top(S) = Head(S) /\ Head(S).at = at
        /\ Head(S) = Frame(at, It(t)) /\ Head(S) \in FrameType /\ WellFormed(S)
        /\ (\A j : Frames(S, j) = Frames(Tail(S), j) + Counting(Head(S), j))
    BY <1>1, AtFacts
  <2> QED  BY <2>1
<1>3. Tail(T.stk) = <<>> /\ \A g : Has(T.stk, g) <=> g = Top(T.stk)
  <2>1. Top(T.stk).at \in Keeper \cup {"mount", "umount"}
    BY <1>2
  <2> QED  BY <2>1, <1>2, LastFrame
<1>4. WorkOK(T, at) /\ \A j \in Slot : inode[j].lock = t => at = "read"
  BY <1>1, WorkFacts
<1>5. T.got = 0 /\ T.empty = 0
  BY <1>4 DEF WorkOK, Keeper, Searching
<1>6. ASSUME NEW j  PROVE Frames(T.stk, j) = Counting(Frame(at, It(t)), j)
  <2>1. Frames(T.stk, j) = 0 + Counting(Frame(at, It(t)), j) /\ Counting(Frame(at, It(t)), j) \in Nat
    BY <1>2, <1>3, EmptyStack DEF Counting
  <2> QED  BY <2>1
<1>7. T \in TaskType /\ Types
  BY Parts
<1>8. /\ CanRun(t) /\ T \in TaskType /\ Types /\ T.got = 0 /\ T.empty = 0 /\ Rest(t) = <<>>
      /\ (\A g : Has(T.stk, g) <=> g = Frame(at, It(t)))
      /\ (\A j : Frames(T.stk, j) = Counting(Frame(at, It(t)), j))
      /\ (\A j \in Slot : inode[j].lock # t)
      /\ Frame(at, It(t)) \in FrameType /\ Top(T.stk) = Frame(at, It(t))
  BY <1>1, <1>2, <1>3, <1>4, <1>5, <1>6, <1>7
<1> QED
  BY <1>8

(* The stack of a task that has one function left to do.                   *)
LEMMA OneLeft ==
    ASSUME InoInv, NEW t \in Task, NEW f \in FrameType, f.at \in {"iput", "sync"},
           CanRun(t), Next_(t, <<f>> \o <<>>), UNCHANGED <<disk, imap, links>>,
           inode' \in [Slot -> InodeType], super' \in [Super -> SuperType]
    PROVE  LET rec == [task[t] EXCEPT !.stk = <<f>>] IN
           /\ rec \in TaskType /\ rec.stk = <<f>> /\ rec.held = task[t].held /\ rec.sb = task[t].sb
           /\ rec.got = task[t].got /\ rec.empty = task[t].empty
           /\ Runs(t, rec) /\ task'[t] = rec /\ OnlyTask(t) /\ Types'
           /\ cpu \in {t, None} /\ cpu' \in {t, None}
           /\ WellFormed(<<f>>) /\ (\A g : Has(<<f>>, g) <=> g = f) /\ Top(<<f>>) = f
           /\ \A j : Frames(<<f>>, j) = Counting(f, j)
<1> DEFINE c == <<f>>
           rec == [task[t] EXCEPT !.stk = c]
<1>1. Fits(f, "user")
  BY DEF Fits, IO, Service, Putting, Keeper
<1>2. /\ c \in Seq(FrameType) /\ Top(c) = f /\ WellFormed(c)
      /\ (\A g : Has(c, g) <=> g = f) /\ \A j : Frames(c, j) = Counting(f, j)
  BY <1>1, StackOne
<1>3. c = <<f>> \o <<>>
  BY Stacked
<1>4. Runs(t, rec)
  BY <1>3 DEF Next_
<1>5. task[t] \in TaskType /\ Types
  BY Parts
<1> HIDE DEF c
<1>6. /\ rec \in TaskType /\ rec.stk = c /\ rec.held = task[t].held /\ rec.sb = task[t].sb
      /\ rec.got = task[t].got /\ rec.empty = task[t].empty
  BY <1>2, <1>5 DEF TaskType
<1> HIDE DEF rec
<1>7. /\ task'[t] = rec /\ OnlyTask(t) /\ task' \in [Task -> TaskType] /\ cpu' \in Task \cup {None}
      /\ cpu \in {t, None} /\ cpu' \in {t, None}
  BY <1>4, <1>5, <1>6, RunsFacts
<1>8. Types'
  BY <1>5, <1>7 DEF Types
<1>9. /\ rec \in TaskType /\ rec.stk = c /\ rec.held = task[t].held /\ rec.sb = task[t].sb
      /\ rec.got = task[t].got /\ rec.empty = task[t].empty
      /\ Runs(t, rec) /\ task'[t] = rec /\ OnlyTask(t) /\ Types'
      /\ cpu \in {t, None} /\ cpu' \in {t, None}
      /\ WellFormed(c) /\ (\A g : Has(c, g) <=> g = f) /\ Top(c) = f
      /\ \A j : Frames(c, j) = Counting(f, j)
  BY <1>2, <1>4, <1>6, <1>7, <1>8
<1> QED
  BY <1>9 DEF rec, c

(* put_super: the super block was being left.                              *)
LEMMA PutSuperStep ==
    ASSUME InoInv, NEW t \in Task, put_super(t)
    PROVE  InoInv'
<1>1. At(t, "umount") /\ UNCHANGED <<inode, disk, imap, links, panic>>
  BY DEF put_super, ioVars
<1>2. PICK s : s = It(t)
  OBVIOUS
<1> DEFINE T == task[t]
           f == Frame("sync", 1)
           rec == [T EXCEPT !.stk = <<f>>]
<1>3. /\ CanRun(t) /\ T \in TaskType /\ Types /\ T.got = 0 /\ T.empty = 0 /\ Rest(t) = <<>>
      /\ (\A g : Has(T.stk, g) <=> g = Frame("umount", s))
      /\ (\A j : Frames(T.stk, j) = Counting(Frame("umount", s), j))
      /\ (\A j \in Slot : inode[j].lock # t) /\ Frame("umount", s) \in FrameType
  <2>1. LET S == task[t] IN
           /\ CanRun(t) /\ S \in TaskType /\ Types /\ S.got = 0 /\ S.empty = 0 /\ Rest(t) = <<>>
           /\ (\A g : Has(S.stk, g) <=> g = Frame("umount", It(t)))
           /\ (\A j : Frames(S.stk, j) = Counting(Frame("umount", It(t)), j))
           /\ (\A j \in Slot : inode[j].lock # t) /\ Frame("umount", It(t)) \in FrameType
    BY <1>1, AtLast
  <2> QED  BY <2>1, <1>2
<1>4. s \in Super /\ Has(T.stk, Frame("umount", s))
  BY <1>3, FrameFacts, FrameEq DEF OnSuper
<1>5. /\ super[s].imount # 0 /\ super[s].dev # 0 /\ super[s].dev # ROOT_DEV
      /\ ~inode[super[s].imount].mount
  BY <1>4, HasFacts DEF SuperInv
<1>6. /\ Supers /\ super \in [Super -> SuperType] /\ inode \in [Slot -> InodeType] /\ 0 \notin Slot
      /\ 1 \in Super /\ super[1].dev = ROOT_DEV
  BY <1>3, Parts, SlotFacts, RootUsed DEF Types
<1>7. s # 1 /\ super[s].isup = 0 /\ ~super[s].lock
  BY <1>4, <1>5, <1>6 DEF Supers
<1>8. super' = [super EXCEPT ![s] = NoSuper] /\ Next_(t, <<f>> \o <<>>)
  BY <1>2, <1>3 DEF put_super
<1>9. /\ NoSuper \in SuperType /\ NoSuper.imount = 0 /\ NoSuper.isup = 0 /\ NoSuper.dev = 0
  BY DEF NoSuper, SuperType
<1>10. /\ super' \in [Super -> SuperType] /\ super'[s] = NoSuper
       /\ \A r \in Super : r # s => super'[r] = super[r]
  BY <1>4, <1>6, <1>8, <1>9
<1>11. f \in FrameType /\ f.at = "sync"
  <2>1. 1 \in 1..(NR_INODE + 1)
    BY SlotFacts, InodeAssumption
  <2> QED  BY <2>1, MakeFrame, FrameEq
<1>12. /\ rec \in TaskType /\ rec.stk = <<f>> /\ rec.held = T.held
       /\ rec.got = T.got /\ rec.empty = T.empty
       /\ Runs(t, rec) /\ task'[t] = rec /\ OnlyTask(t) /\ Types'
       /\ WellFormed(<<f>>) /\ (\A g : Has(<<f>>, g) <=> g = f) /\ Top(<<f>>) = f
       /\ \A j : Frames(<<f>>, j) = Counting(f, j)
  <2> HIDE DEF f
  <2>1. inode' \in [Slot -> InodeType] /\ UNCHANGED <<disk, imap, links>>
    BY <1>1, <1>6
  <2> QED  BY <2>1, <1>3, <1>8, <1>10, <1>11, OneLeft
<1> HIDE DEF f, rec
<1>13. \A g : Has(rec.stk, g) <=> g = f
  BY <1>12
<1>14. Supers'
  <2>1. super'[1] = super[1]
    BY <1>6, <1>7, <1>10
  <2>2. super'[1] = [dev |-> ROOT_DEV, imount |-> 1, isup |-> 1, lock |-> FALSE]
    BY <2>1, <1>6 DEF Supers
  <2>3. \A r \in Super :
            /\ super'[r].imount # 0 => super'[r].dev # 0 /\ ~super'[r].lock
            /\ super'[r].isup # 0 => r = 1
            /\ \A q \in Super : q # r /\ super'[r].imount = super'[q].imount => super'[r].imount = 0
    BY <1>6, <1>9, <1>10 DEF Supers
  <2> QED  BY <2>2, <2>3 DEF Supers
<1>15. \A d : Mounted(d) => Mounted(d)'
  <2> SUFFICES ASSUME NEW d, Mounted(d)  PROVE Mounted(d)'
    OBVIOUS
  <2>1. PICK r \in Super : super[r].dev = d /\ super[r].imount # 0
                           /\ (d = ROOT_DEV \/ inode[super[r].imount].mount)
    BY DEF Mounted
  <2>2. super'[r] = super[r]
    BY <2>1, <1>5, <1>10
  <2> QED  BY <2>1, <2>2, <1>1 DEF Mounted
<1>16. \A r \in Super : ~Has(rec.stk, Frame("umount", r)) /\ ~Has(rec.stk, Frame("read_super", r))
                        /\ (r # s => ~Has(T.stk, Frame("umount", r)))
  BY <1>3, <1>11, <1>13, FrameEq
<1>17. ASSUME NEW i \in Slot  PROVE OfSupers(i)' = OfSupers(i)
  <2>1. Leaving(s)
    BY <1>4 DEF Leaving
  <2>2. \A r \in Super : r # s => (Leaving(r)' <=> Leaving(r))
    BY <1>12, <1>16, LeavingSame
  <2>3. {r \in Super : super'[r].imount = i /\ ~Leaving(r)'} = {r \in Super : super[r].imount = i /\ ~Leaving(r)}
    <3>1. ASSUME NEW r \in Super
          PROVE  super'[r].imount = i /\ ~Leaving(r)' <=> super[r].imount = i /\ ~Leaving(r)
      <4>1. CASE r = s
        BY <4>1, <2>1, <1>6, <1>9, <1>10
      <4>2. CASE r # s
        BY <4>2, <2>2, <1>10
      <4> QED  BY <4>1, <4>2
    <3> QED  BY <3>1
  <2>4. {r \in Super : super'[r].isup = i} = {r \in Super : super[r].isup = i}
    BY <1>6, <1>7, <1>9, <1>10
  <2> QED  BY <2>3, <2>4 DEF OfSupers
<1>18. Own(t)'
  <2>1. \A g : Has(rec.stk, g) => g.at \in MountFrames
    BY <1>11, <1>13 DEF MountFrames
  <2>2. \A r \in Super : SuperInv(t, r)'
    BY <1>12, <1>16 DEF SuperInv
  <2>3. \A i \in Slot : ~Has(rec.stk, Frame("mount", i))
    BY <1>11, <1>13, FrameEq
  <2>4. Top(rec.stk).at # "mount" /\ WellFormed(rec.stk)
    BY <1>11, <1>12
  <2> QED  BY <2>1, <2>2, <2>3, <2>4, <1>1, <1>3, <1>12, MountOwn
<1>19. ASSUME NEW r \in Super, NEW u \in Task, u # t,
              Has(task[u].stk, Frame("read_super", r)) \/ Has(task[u].stk, Frame("umount", r))
       PROVE  super'[r] = super[r]
  <2> SUFFICES ASSUME r = s  PROVE FALSE
    BY <1>10
  <2>1. ~Has(task[u].stk, Frame("read_super", s))
    BY <1>4, <1>7, HasFacts DEF SuperInv
  <2>2. ~Has(task[u].stk, Frame("umount", s))
    BY <1>3, <1>4, <1>19, Parts, FrameEq DEF Pairs
  <2> QED  BY <2>1, <2>2, <1>19
<1>20. \A i \in Slot : ~Has(rec.stk, Frame("read", i)) /\ ~Has(T.stk, Frame("read", i))
  BY <1>3, <1>11, <1>13, FrameEq
<1>21. \A g \in FrameType : g.at \in {"mount", "umount", "read_super"} => ~Has(rec.stk, g)
  BY <1>11, <1>13
<1>22. \A i \in Slot : Frames(rec.stk, i) = Frames(T.stk, i)
  BY <1>3, <1>11, <1>12, FrameEq DEF Counting
<1>23. \A r \in Super : super'[r].imount \in {0, super[r].imount}
  BY <1>9, <1>10
<1>24. SuperOnly(t, rec)
  BY <1>1, <1>3, <1>12, <1>15, <1>17, <1>19, <1>20, <1>21, <1>22, <1>23 DEF SuperOnly
<1> QED
  BY <1>12, <1>14, <1>18, <1>24, SuperOnlyStep

LEMMA AtMount ==
    ASSUME InoInv, NEW t \in Task, At(t, "mount"), NEW i, i = It(t)
    PROVE  MountAt(t, i)
<1> DEFINE T == task[t]
<1>1. /\ CanRun(t) /\ T \in TaskType /\ Types /\ T.got = 0 /\ T.empty = 0 /\ Rest(t) = <<>>
      /\ (\A g : Has(T.stk, g) <=> g = Frame("mount", i))
      /\ (\A j : Frames(T.stk, j) = Counting(Frame("mount", i), j))
      /\ (\A j \in Slot : inode[j].lock # t) /\ Frame("mount", i) \in FrameType
      /\ Top(T.stk) = Frame("mount", i)
  <2>1. LET S == task[t] IN
           /\ CanRun(t) /\ S \in TaskType /\ Types /\ S.got = 0 /\ S.empty = 0 /\ Rest(t) = <<>>
           /\ (\A g : Has(S.stk, g) <=> g = Frame("mount", It(t)))
           /\ (\A j : Frames(S.stk, j) = Counting(Frame("mount", It(t)), j))
           /\ (\A j \in Slot : inode[j].lock # t) /\ Frame("mount", It(t)) \in FrameType
           /\ Top(S.stk) = Frame("mount", It(t))
    BY AtLast
  <2> QED  BY <2>1
<1>2. i \in Slot /\ Has(T.stk, Frame("mount", i))
  BY <1>1, FrameFacts, FrameEq DEF OnSlot
<1>3. /\ inode[i].dev # 0 /\ <<inode[i].dev, inode[i].num>> \notin BlkFile
      /\ (\A s \in Super : super[s].imount # i)
  BY <1>2, HasFacts DEF SlotInv
<1>4. T.sb # 0 => super[T.sb].dev # 0 /\ ~super[T.sb].lock
  <2>1. Own(t) /\ Top(T.stk).at = "mount"
    BY <1>1, Parts, FrameEq
  <2> QED  BY <2>1 DEF Own
<1>5. \A u \in Task : u # t => ~Has(task[u].stk, Frame("mount", i))
  BY <1>1, <1>2, Parts, FrameEq DEF Pairs
<1>6. \A j : Frames(T.stk, j) = (IF j = i THEN 1 ELSE 0)
  <2> SUFFICES ASSUME NEW j  PROVE Frames(T.stk, j) = (IF j = i THEN 1 ELSE 0)
    OBVIOUS
  <2> QED  BY <1>1, FrameEq DEF Counting
<1> QED
  BY <1>1, <1>2, <1>3, <1>4, <1>5, <1>6 DEF MountAt

(* There is no super block, or it is in use: the directory is put back.    *)
LEMMA MountFails ==
    ASSUME InoInv, NEW t \in Task, At(t, "mount"), NEW i, i = It(t),
           UNCHANGED <<inode, super, disk, imap, links, panic>>,
           Next_(t, <<Frame("iput", i)>> \o Rest(t))
    PROVE  InoInv'
<1> DEFINE T == task[t]
           f == Frame("iput", i)
           rec == [T EXCEPT !.stk = <<f>>]
<1>1. /\ CanRun(t) /\ T \in TaskType /\ Types /\ T.got = 0 /\ T.empty = 0 /\ Rest(t) = <<>>
      /\ (\A g : Has(T.stk, g) <=> g = Frame("mount", i))
      /\ (\A j : Frames(T.stk, j) = (IF j = i THEN 1 ELSE 0))
      /\ (\A j \in Slot : inode[j].lock # t) /\ i \in Slot
  <2>1. MountAt(t, i)
    BY AtMount
  <2> QED  BY <2>1 DEF MountAt
<1>2. f \in FrameType /\ f.at = "iput" /\ f.i = i
  BY <1>1, MakeFrame, FrameEq DEF OnSlot
<1>3. super \in [Super -> SuperType] /\ inode \in [Slot -> InodeType] /\ Supers
  BY <1>1, Parts DEF Types
<1>4. /\ rec \in TaskType /\ rec.stk = <<f>> /\ rec.held = T.held
      /\ rec.got = T.got /\ rec.empty = T.empty
      /\ Runs(t, rec) /\ task'[t] = rec /\ OnlyTask(t) /\ Types'
      /\ WellFormed(<<f>>) /\ (\A g : Has(<<f>>, g) <=> g = f) /\ Top(<<f>>) = f
      /\ \A j : Frames(<<f>>, j) = Counting(f, j)
  <2>1. Next_(t, <<f>> \o <<>>)
    BY <1>1
  <2> HIDE DEF f
  <2>2. inode' \in [Slot -> InodeType] /\ super' \in [Super -> SuperType] /\ UNCHANGED <<disk, imap, links>>
    BY <1>3
  <2> QED  BY <2>1, <2>2, <1>1, <1>2, OneLeft
<1> HIDE DEF f, rec
<1>5. \A g : Has(rec.stk, g) <=> g = f
  BY <1>4
<1>6. Supers'
  BY <1>3 DEF Supers
<1>7. \A d : Mounted(d) => Mounted(d)'
  BY MountedKept
<1>8. \A r \in Super : ~Has(rec.stk, Frame("umount", r)) /\ ~Has(rec.stk, Frame("read_super", r))
                       /\ ~Has(T.stk, Frame("umount", r))
  BY <1>1, <1>2, <1>5, FrameEq
<1>9. \A r \in Super : Leaving(r)' <=> Leaving(r)
  BY <1>4, <1>8, LeavingSame
<1>10. \A j \in Slot : OfSupers(j)' = OfSupers(j)
  BY <1>9, OfSupersSame
<1>11. Own(t)'
  <2>1. \A g : Has(rec.stk, g) => g.at \in MountFrames
    BY <1>2, <1>5 DEF MountFrames
  <2>2. \A r \in Super : SuperInv(t, r)'
    BY <1>4, <1>8 DEF SuperInv
  <2>3. \A j \in Slot : ~Has(rec.stk, Frame("mount", j))
    BY <1>2, <1>5, FrameEq
  <2>4. Top(rec.stk).at # "mount" /\ WellFormed(rec.stk)
    BY <1>2, <1>4
  <2> QED  BY <2>1, <2>2, <2>3, <2>4, <1>1, <1>4, MountOwn
<1>12. \A j \in Slot : ~Has(rec.stk, Frame("read", j)) /\ ~Has(T.stk, Frame("read", j))
  BY <1>1, <1>2, <1>5, FrameEq
<1>13. \A g \in FrameType : g.at \in {"mount", "umount", "read_super"} => ~Has(rec.stk, g)
  BY <1>2, <1>5
<1>14. \A j \in Slot : Frames(rec.stk, j) = Frames(T.stk, j)
  BY <1>1, <1>2, <1>4 DEF Counting
<1>15. UNCHANGED <<inode, disk, imap, links, panic>> /\ super' = super
  OBVIOUS
<1>16. SuperOnly(t, rec)
  BY <1>1, <1>4, <1>7, <1>10, <1>12, <1>13, <1>14, <1>15 DEF SuperOnly
<1> QED
  BY <1>4, <1>6, <1>11, <1>16, SuperOnlyStep

(* The mount: the user of the directory is now the super block.            *)
LEMMA MountWorks ==
    ASSUME InoInv, NEW t \in Task, At(t, "mount"), NEW i, i = It(t),
           NEW s \in Super, s = task[t].sb, super[s].imount = 0,
           UNCHANGED <<disk, imap, links, panic>>,
           super' = [super EXCEPT ![s].imount = i],
           inode' = [inode EXCEPT ![i].mount = TRUE, ![i].dirt = TRUE],
           Next_(t, Rest(t))
    PROVE  InoInv'
<1> DEFINE T == task[t]
           rec == [T EXCEPT !.stk = <<>>]
<1>1. /\ CanRun(t) /\ T \in TaskType /\ Types /\ T.got = 0 /\ T.empty = 0 /\ Rest(t) = <<>>
      /\ (\A g : Has(T.stk, g) <=> g = Frame("mount", i))
      /\ (\A j : Frames(T.stk, j) = (IF j = i THEN 1 ELSE 0))
      /\ (\A j \in Slot : inode[j].lock # t)
      /\ i \in Slot /\ inode[i].dev # 0 /\ <<inode[i].dev, inode[i].num>> \notin BlkFile
      /\ (\A r \in Super : super[r].imount # i)
      /\ (T.sb # 0 => super[T.sb].dev # 0 /\ ~super[T.sb].lock)
      /\ (\A u \in Task : u # t => ~Has(task[u].stk, Frame("mount", i)))
  <2>1. MountAt(t, i)
    BY AtMount
  <2> QED  BY <2>1 DEF MountAt
<1>2. /\ Supers /\ super \in [Super -> SuperType] /\ inode \in [Slot -> InodeType] /\ 0 \notin Slot
      /\ 0 \notin Super /\ 1 \in Super /\ super[1].imount = 1
  BY <1>1, Parts, SlotFacts, RootUsed DEF Types
<1>3. /\ super' \in [Super -> SuperType] /\ (\A r \in Super : r # s => super'[r] = super[r])
      /\ super'[s].imount = i /\ super'[s].dev = super[s].dev /\ super'[s].isup = super[s].isup
      /\ super'[s].lock = super[s].lock
  <2>1. PICK N : N = [super[s] EXCEPT !.imount = i]
    OBVIOUS
  <2>2. /\ N \in SuperType /\ N.imount = i /\ N.dev = super[s].dev /\ N.isup = super[s].isup
        /\ N.lock = super[s].lock
    BY <2>1, <1>1, <1>2 DEF SuperType
  <2>3. super' = [super EXCEPT ![s] = N]
    BY <2>1, <1>2
  <2> QED  BY <2>2, <2>3, <1>2
<1>4. /\ inode' \in [Slot -> InodeType] /\ (\A j \in Slot : j # i => inode'[j] = inode[j])
      /\ inode'[i].mount /\ inode'[i].dirt
      /\ inode'[i].dev = inode[i].dev /\ inode'[i].num = inode[i].num
      /\ inode'[i].pipe = inode[i].pipe /\ inode'[i].lock = inode[i].lock
      /\ inode'[i].count = inode[i].count /\ inode'[i].nlinks = inode[i].nlinks
  <2>1. PICK N : N = [inode[i] EXCEPT !.mount = TRUE, !.dirt = TRUE]
    OBVIOUS
  <2>2. /\ N \in InodeType /\ N.mount /\ N.dirt /\ N.dev = inode[i].dev /\ N.num = inode[i].num
        /\ N.pipe = inode[i].pipe /\ N.lock = inode[i].lock
        /\ N.count = inode[i].count /\ N.nlinks = inode[i].nlinks
    BY <2>1, <1>1, <1>2 DEF InodeType
  <2>3. inode' = [inode EXCEPT ![i] = N]
    BY <2>1, <1>1, <1>2
  <2>4. i \in Slot /\ inode \in [Slot -> InodeType]
    BY <1>1, <1>2
  <2>5. inode' \in [Slot -> InodeType] /\ inode'[i] = N /\ \A j \in Slot : j # i => inode'[j] = inode[j]
    BY <2>2, <2>3, <2>4
  <2> QED  BY <2>2, <2>5
<1>5. /\ rec \in TaskType /\ rec.stk = <<>> /\ rec.held = T.held /\ rec.got = 0 /\ rec.empty = 0
  BY <1>1, EmptyStack DEF TaskType
<1>6. Runs(t, rec)
  BY <1>1 DEF Next_
<1> HIDE DEF rec
<1>7. /\ task'[t] = rec /\ OnlyTask(t) /\ task' \in [Task -> TaskType] /\ cpu' \in Task \cup {None}
      /\ cpu \in {t, None} /\ cpu' \in {t, None}
  BY <1>1, <1>5, <1>6, RunsFacts
<1>8. Types'
  BY <1>1, <1>3, <1>4, <1>7 DEF Types
<1>9. (\A g : ~Has(rec.stk, g)) /\ WellFormed(rec.stk) /\ Top(rec.stk) = Frame("user", 0)
      /\ \A j : Frames(rec.stk, j) = 0
  BY <1>5, EmptyStack
<1>10. Supers'
  <2>1. super'[1] = super[1] /\ s # 1
    BY <1>2, <1>3, <1>1, SlotFacts
  <2>2. super'[1] = [dev |-> ROOT_DEV, imount |-> 1, isup |-> 1, lock |-> FALSE]
    BY <2>1, <1>2 DEF Supers
  <2>3. ASSUME NEW r \in Super
        PROVE  /\ super'[r].imount # 0 => super'[r].dev # 0 /\ ~super'[r].lock
               /\ super'[r].isup # 0 => r = 1
               /\ \A q \in Super : q # r /\ super'[r].imount = super'[q].imount => super'[r].imount = 0
    <3>1. CASE r = s
      BY <3>1, <1>1, <1>2, <1>3 DEF Supers
    <3>2. CASE r # s
      BY <3>2, <1>1, <1>2, <1>3 DEF Supers
    <3> QED  BY <3>1, <3>2
  <2> QED  BY <2>2, <2>3 DEF Supers
<1>11. \A d : Mounted(d) => Mounted(d)'
  <2> SUFFICES ASSUME NEW d, Mounted(d)  PROVE Mounted(d)'
    OBVIOUS
  <2>1. PICK r \in Super : super[r].dev = d /\ super[r].imount # 0
                           /\ (d = ROOT_DEV \/ inode[super[r].imount].mount)
    BY DEF Mounted
  <2>2. super'[r] = super[r] /\ super[r].imount \in Slot /\ super[r].imount # i
    BY <2>1, <1>1, <1>2, <1>3 DEF SuperType
  <2>3. inode'[super[r].imount] = inode[super[r].imount]
    BY <2>2, <1>4
  <2> QED  BY <2>1, <2>2, <2>3 DEF Mounted
<1>12. Own(t)'
  <2>1. \A r \in Super : SuperInv(t, r)'
    BY <1>7, <1>9 DEF SuperInv
  <2>2. ASSUME NEW j \in Slot
        PROVE  /\ inode'[j].dev = inode[j].dev /\ inode'[j].num = inode[j].num
               /\ inode'[j].pipe = inode[j].pipe /\ inode'[j].lock = inode[j].lock
               /\ inode[j].lock # t
    BY <1>1, <1>4
  <2>3. Top(rec.stk).at # "mount"
    BY <1>9, FrameEq
  <2> QED  BY <2>1, <2>2, <2>3, <1>1, <1>5, <1>6, <1>8, <1>9, MountOwn
<1>13. /\ inode[i].count > 0 /\ \A u \in Task : task[u].empty # i /\ (u # t => ~Has(task[u].stk, Frame("read", i)))
  <2>1. "mount" \in Putting \cup {"mount"}
    OBVIOUS
  <2>2. LET k == It(t) IN
        /\ inode[k].count > 0
        /\ \A u \in Task : /\ task[u].empty # k
                           /\ u # t => ~Has(task[u].stk, Frame("read", k))
    BY <2>1, TopPoints
  <2> QED  BY <2>2
<1>14. ASSUME NEW u \in Task, u # t  PROVE Spared(t, u)
  <2>1. ASSUME NEW j \in Slot
        PROVE  /\ Points(u, j) > 0 => /\ inode'[j].dev = inode[j].dev /\ inode'[j].num = inode[j].num
                                      /\ inode'[j].pipe = inode[j].pipe
               /\ task[u].empty = j => inode'[j] = inode[j]
               /\ Has(task[u].stk, Frame("read", j)) =>
                        inode'[j] = inode[j] /\ links'[<<inode[j].dev, inode[j].num>>] > 0
               /\ Has(task[u].stk, Frame("trunc", j)) =>
                        inode'[j].count = inode[j].count /\ inode'[j].nlinks = inode[j].nlinks
               /\ inode'[j].lock = inode[j].lock
               /\ inode'[j].mount /\ ~inode[j].mount => \A r \in Super : super[r].imount # j
    <3>1. Has(task[u].stk, Frame("read", j)) => links'[<<inode[j].dev, inode[j].num>>] > 0
      BY HasFacts DEF SlotInv
    <3>2. CASE j = i
      BY <3>1, <3>2, <1>1, <1>4, <1>13, <1>14
    <3>3. CASE j # i
      <4>1. inode'[j] = inode[j]
        BY <3>3, <1>4
      <4> QED  BY <3>1, <4>1
    <3> QED  BY <3>2, <3>3
  <2>2. ASSUME NEW r \in Super
        PROVE  /\ Has(task[u].stk, Frame("read_super", r)) => super'[r] = super[r]
               /\ Has(task[u].stk, Frame("umount", r)) => super'[r] = super[r]
               /\ \A j \in Slot : Has(task[u].stk, Frame("mount", j)) => super'[r].imount # j
    <3>1. CASE r = s
      <4>1. ~Has(task[u].stk, Frame("read_super", s))
        BY <1>1, <1>2, HasFacts DEF SuperInv
      <4>2. ~Has(task[u].stk, Frame("umount", s))
        BY HasFacts DEF SuperInv
      <4>3. \A j \in Slot : Has(task[u].stk, Frame("mount", j)) => super'[s].imount # j
        BY <1>1, <1>3, <1>14
      <4> QED  BY <3>1, <4>1, <4>2, <4>3
    <3>2. CASE r # s
      <4>1. super'[r] = super[r]
        BY <3>2, <1>3
      <4>2. \A j \in Slot : Has(task[u].stk, Frame("mount", j)) => super[r].imount # j
        BY HasFacts DEF SlotInv
      <4> QED  BY <4>1, <4>2
    <3> QED  BY <3>1, <3>2
  <2> QED  BY <2>1, <2>2 DEF Spared
<1>15. \A r \in Super : ~Has(rec.stk, Frame("umount", r)) /\ ~Has(T.stk, Frame("umount", r))
  BY <1>1, <1>9, FrameEq
<1>16. \A r \in Super : Leaving(r)' <=> Leaving(r)
  BY <1>7, <1>15, LeavingSame
<1>17. ~Leaving(s)
  BY HasFacts DEF Leaving, SuperInv
<1>18. ASSUME NEW j \in Slot, j # i  PROVE OfSupers(j)' = OfSupers(j)
  <2>1. {r \in Super : super'[r].imount = j /\ ~Leaving(r)'} = {r \in Super : super[r].imount = j /\ ~Leaving(r)}
    <3>1. ASSUME NEW r \in Super
          PROVE  super'[r].imount = j /\ ~Leaving(r)' <=> super[r].imount = j /\ ~Leaving(r)
      <4>1. CASE r = s
        BY <4>1, <1>2, <1>3, <1>18
      <4>2. CASE r # s
        BY <4>2, <1>3, <1>16
      <4> QED  BY <4>1, <4>2
    <3> QED  BY <3>1
  <2>2. {r \in Super : super'[r].isup = j} = {r \in Super : super[r].isup = j}
    BY <1>3
  <2> QED  BY <2>1, <2>2 DEF OfSupers
<1>19. OfSupers(i) \in Nat /\ OfSupers(i)' = OfSupers(i) + 1
  <2>1. {r \in Super : super[r].imount = i /\ ~Leaving(r)} = {}
    BY <1>1
  <2>2. {r \in Super : super'[r].imount = i /\ ~Leaving(r)'} = {s}
    BY <1>1, <1>3, <1>16, <1>17
  <2>3. {r \in Super : super'[r].isup = i} = {r \in Super : super[r].isup = i}
    BY <1>3
  <2>4. Cardinality({r \in Super : super[r].isup = i}) \in Nat
    <3>1. IsFiniteSet({r \in Super : super[r].isup = i})
      BY SlotFacts, FS_Subset
    <3> QED  BY <3>1, FS_CardinalityType
  <2>5. Cardinality({}) = 0 /\ Cardinality({s}) = 1
    BY FS_EmptySet, FS_Singleton
  <2> DEFINE n == Cardinality({r \in Super : super[r].isup = i})
  <2>6. OfSupers(i) = 0 + n
    BY <2>1, <2>5 DEF OfSupers
  <2>7. OfSupers(i)' = 1 + n
    BY <2>2, <2>3, <2>5 DEF OfSupers
  <2>8. n \in Nat
    BY <2>4
  <2> HIDE DEF n
  <2> QED  BY <2>6, <2>7, <2>8
<1>20. ASSUME NEW j \in Slot  PROVE Points(t, j)' + OfSupers(j)' = Points(t, j) + OfSupers(j)
  <2> DEFINE a == T.held[j]
             y == IF j = i THEN 1 ELSE 0
             o == OfSupers(j)
  <2>1. a \in Nat /\ y \in Nat /\ o \in Nat
    BY <1>1, SupersBounds DEF TaskType
  <2>2. Points(t, j) = a + y + 0 + 0
    BY <1>1, <1>2 DEF Points, Pointers
  <2>3. Points(t, j)' = a + 0 + 0 + 0
    BY <1>2, <1>5, <1>7, <1>9 DEF Points, Pointers
  <2>4. OfSupers(j)' = o + y
    <3>1. CASE j = i
      BY <3>1, <1>19
    <3>2. CASE j # i
      BY <3>2, <2>1, <1>18
    <3> QED  BY <3>1, <3>2
  <2>5. Points(t, j)' + OfSupers(j)' = (a + y) + o /\ Points(t, j) = a + y
    <3> HIDE DEF a, y, o
    <3> QED  BY <2>1, <2>2, <2>3, <2>4
  <2> QED  BY <2>5
<1>21. ASSUME NEW j \in Slot
       PROVE  /\ inode'[j].dev = inode[j].dev /\ inode'[j].num = inode[j].num
              /\ inode'[j].pipe = inode[j].pipe /\ inode'[j].lock = inode[j].lock
              /\ inode'[j].count = inode[j].count /\ inode'[j].nlinks = inode[j].nlinks
              /\ \/ inode'[j].dirt = inode[j].dirt
                 \/ inode'[j].dirt /\ inode[j].dev # 0 /\ inode[j].count > 0
              /\ inode'[j].mount => inode[j].dev # 0 /\ <<inode[j].dev, inode[j].num>> \notin BlkFile
  <2>1. CASE j = i
    BY <2>1, <1>1, <1>4, <1>13
  <2>2. CASE j # i
    <3>1. inode'[j] = inode[j] /\ Good(j)
      BY <2>2, <1>4, GoodFacts
    <3> QED  BY <3>1 DEF Good
  <2> QED  BY <2>1, <2>2
<1>22. ASSUME NEW j \in Slot, inode[j].count > 0, inode[j].dev # 0  PROVE Mounted(inode[j].dev)'
  <2>1. Mounted(inode[j].dev)
    BY <1>22, GoodFacts DEF Good
  <2>2. inode'[j].dev = inode[j].dev
    BY <1>21
  <2> QED  BY <2>1, <2>2, <1>11
<1>23. \A j \in Slot : ~Has(task'[t].stk, Frame("read", j)) /\ ~Has(task[t].stk, Frame("read", j))
  BY <1>1, <1>7, <1>9, FrameEq
<1>24. \A g : ~Has(task'[t].stk, g)
  BY <1>7, <1>9
<1>25. UNCHANGED <<disk, imap, links, panic>>
  OBVIOUS
<1>26. Mounting(t)
  BY <1>7, <1>14, <1>20, <1>21, <1>22, <1>23, <1>24, <1>25 DEF Mounting
<1> QED
  BY <1>8, <1>10, <1>12, <1>26, MountingStep

LEMMA MountStep ==
    ASSUME InoInv, NEW t \in Task, Mount(t)
    PROVE  InoInv'
<1>1. At(t, "mount") /\ UNCHANGED <<disk, imap, links, panic>>
  BY DEF Mount, ioVars
<1>2. PICK i : i = It(t)
  OBVIOUS
<1>3. PICK s : s = task[t].sb
  OBVIOUS
<1>4. \/ UNCHANGED <<inode, super>> /\ Next_(t, <<Frame("iput", i)>> \o Rest(t))
      \/ /\ s \in Super /\ super[s].imount = 0
         /\ super' = [super EXCEPT ![s].imount = i]
         /\ inode' = [inode EXCEPT ![i].mount = TRUE, ![i].dirt = TRUE]
         /\ Next_(t, Rest(t))
  BY <1>2, <1>3 DEF Mount
<1>5. CASE UNCHANGED <<inode, super>> /\ Next_(t, <<Frame("iput", i)>> \o Rest(t))
  BY <1>1, <1>2, <1>5, MountFails
<1>6. CASE /\ s \in Super /\ super[s].imount = 0
           /\ super' = [super EXCEPT ![s].imount = i]
           /\ inode' = [inode EXCEPT ![i].mount = TRUE, ![i].dirt = TRUE]
           /\ Next_(t, Rest(t))
  BY <1>1, <1>2, <1>3, <1>6, MountWorks
<1> QED
  BY <1>4, <1>5, <1>6

(* umount: the mount point, which the super block uses, is put back.       *)
LEMMA Umounts ==
    ASSUME InoInv, NEW t \in Task, At(t, "user"), NEW s \in Super, NEW m, m = super[s].imount,
           super[s].dev \notin {0, ROOT_DEV}, m # 0, inode[m].mount,
           \A i \in Slot : inode[i].dev = super[s].dev => inode[i].count = 0,
           UNCHANGED <<super, disk, imap, links, panic>>,
           inode' = [inode EXCEPT ![m].mount = FALSE],
           Next_(t, <<Frame("iput", m), Frame("umount", s)>>)
    PROVE  InoInv'
<1> DEFINE T == task[t]
           f == Frame("iput", m)
           h == Frame("umount", s)
           c == <<f, h>>
           rec == [T EXCEPT !.stk = c]
<1>1. /\ CanRun(t) /\ T.stk = <<>> /\ T.got = 0 /\ T.empty = 0 /\ T \in TaskType
      /\ (\A g : ~Has(T.stk, g)) /\ (\A j : Frames(T.stk, j) = 0)
      /\ \A j \in Slot : inode[j].lock # t
  <2>1. LET S == task[t] IN
        /\ CanRun(t) /\ S.stk = <<>> /\ S.got = 0 /\ S.empty = 0 /\ S \in TaskType
        /\ (\A g : ~Has(S.stk, g)) /\ (\A j : Frames(S.stk, j) = 0)
        /\ \A j \in Slot : inode[j].lock # t
    BY UserFacts
  <2> QED  BY <2>1
<1>2. /\ Supers /\ Types /\ super \in [Super -> SuperType] /\ inode \in [Slot -> InodeType]
      /\ 0 \notin Slot /\ 0 \notin Super /\ 1 \in Super /\ super[1].dev = ROOT_DEV
  BY Parts, SlotFacts, RootUsed DEF Types
<1>3. m \in Slot /\ s # 1 /\ \A r \in Super : r # s => super[r].imount # m
  <2>1. m \in Slot
    BY <1>2 DEF SuperType
  <2> QED  BY <2>1, <1>2 DEF Supers
<1>4. /\ f \in FrameType /\ f.at = "iput" /\ f.i = m /\ h \in FrameType /\ h.at = "umount" /\ h.i = s
  BY <1>3, MakeFrame, FrameEq DEF OnSlot, OnSuper
<1> HIDE DEF f, h
<1>5. Fits(h, "user") /\ Fits(f, h.at)
  BY <1>4 DEF Fits, IO, Service, Putting, Keeper
<1>6. /\ c \in Seq(FrameType) /\ Top(c) = f /\ WellFormed(c)
      /\ (\A g : Has(c, g) <=> g \in {f, h})
      /\ \A j : Frames(c, j) = Counting(h, j) + Counting(f, j)
  <2>0. f \in FrameType /\ h \in FrameType /\ Fits(h, "user") /\ Fits(f, h.at)
    BY <1>4, <1>5
  <2>1. LET d == <<f, h>> IN
        /\ d \in Seq(FrameType) /\ Top(d) = f /\ WellFormed(d)
        /\ Work(d) = (IF f.at \in Service THEN Work(<<h>>) ELSE f)
        /\ (\A g : Has(d, g) <=> g \in {f, h})
        /\ \A j : Frames(d, j) = Counting(h, j) + Counting(f, j) /\ Frames(d, j) \in Nat
    BY <2>0, StackTwo
  <2> QED  BY <2>1
<1>7. \A j : Frames(c, j) = (IF j = m THEN 1 ELSE 0)
  <2> SUFFICES ASSUME NEW j  PROVE Frames(c, j) = (IF j = m THEN 1 ELSE 0)
    OBVIOUS
  <2>1. Frames(c, j) = Counting(h, j) + Counting(f, j)
    BY <1>6
  <2> HIDE DEF c
  <2> QED  BY <2>1, <1>4 DEF Counting
<1>8. Runs(t, rec)
  BY DEF Next_, f, h
<1> HIDE DEF c
<1>9. /\ rec \in TaskType /\ rec.stk = c /\ rec.held = T.held /\ rec.got = 0 /\ rec.empty = 0
  BY <1>1, <1>6 DEF TaskType
<1> HIDE DEF rec
<1>10. /\ task'[t] = rec /\ OnlyTask(t) /\ task' \in [Task -> TaskType] /\ cpu' \in Task \cup {None}
       /\ cpu \in {t, None} /\ cpu' \in {t, None}
  BY <1>1, <1>2, <1>8, <1>9, RunsFacts
<1>11. /\ inode' \in [Slot -> InodeType] /\ (\A j \in Slot : j # m => inode'[j] = inode[j])
       /\ ~inode'[m].mount /\ inode'[m].dirt = inode[m].dirt
       /\ inode'[m].dev = inode[m].dev /\ inode'[m].num = inode[m].num
       /\ inode'[m].pipe = inode[m].pipe /\ inode'[m].lock = inode[m].lock
       /\ inode'[m].count = inode[m].count /\ inode'[m].nlinks = inode[m].nlinks
  <2>1. PICK N : N = [inode[m] EXCEPT !.mount = FALSE]
    OBVIOUS
  <2>2. /\ N \in InodeType /\ ~N.mount /\ N.dirt = inode[m].dirt
        /\ N.dev = inode[m].dev /\ N.num = inode[m].num
        /\ N.pipe = inode[m].pipe /\ N.lock = inode[m].lock
        /\ N.count = inode[m].count /\ N.nlinks = inode[m].nlinks
    BY <2>1, <1>2, <1>3 DEF InodeType
  <2>3. inode' = [inode EXCEPT ![m] = N]
    BY <2>1, <1>2, <1>3
  <2>4. inode' \in [Slot -> InodeType] /\ inode'[m] = N /\ \A j \in Slot : j # m => inode'[j] = inode[j]
    BY <2>2, <2>3, <1>2, <1>3
  <2> QED  BY <2>2, <2>4
<1>12. Types' /\ Supers'
  BY <1>2, <1>10, <1>11 DEF Types, Supers
<1>13. ~Leaving(s)
  BY HasFacts DEF Leaving, SuperInv
<1>14. /\ \A r \in Super : Has(rec.stk, Frame("umount", r)) => r = s
       /\ \A r \in Super : ~Has(rec.stk, Frame("read_super", r))
       /\ \A j \in Slot : ~Has(rec.stk, Frame("mount", j)) /\ ~Has(rec.stk, Frame("read", j))
       /\ Has(rec.stk, Frame("umount", s))
  <2>1. \A g : Has(rec.stk, g) <=> g \in {f, h}
    BY <1>6, <1>9
  <2>2. h = Frame("umount", s)
    BY DEF h
  <2> QED  BY <2>1, <2>2, <1>4, FrameEq
<1>15. Leaving(s)' /\ \A r \in Super : r # s => (Leaving(r)' <=> Leaving(r))
  <2>1. Leaving(s)'
    BY <1>10, <1>14 DEF Leaving
  <2>2. ASSUME NEW r \in Super, r # s  PROVE Leaving(r)' <=> Leaving(r)
    <3>1. ~Has(task'[t].stk, Frame("umount", r)) /\ ~Has(task[t].stk, Frame("umount", r))
      BY <2>2, <1>1, <1>10, <1>14
    <3> QED  BY <3>1, <1>10, LeavingSame
  <2> QED  BY <2>1, <2>2
<1>16. ASSUME NEW j \in Slot, j # m  PROVE OfSupers(j)' = OfSupers(j)
  <2>1. {r \in Super : super'[r].imount = j /\ ~Leaving(r)'} = {r \in Super : super[r].imount = j /\ ~Leaving(r)}
    BY <1>15, <1>16
  <2>2. {r \in Super : super'[r].isup = j} = {r \in Super : super[r].isup = j}
    OBVIOUS
  <2> QED  BY <2>1, <2>2 DEF OfSupers
<1>17. OfSupers(m)' \in Nat /\ OfSupers(m) = OfSupers(m)' + 1
  <2>1. {r \in Super : super'[r].imount = m /\ ~Leaving(r)'} = {}
    BY <1>3, <1>15
  <2>2. {r \in Super : super[r].imount = m /\ ~Leaving(r)} = {s}
    BY <1>3, <1>13
  <2>3. {r \in Super : super'[r].isup = m} = {r \in Super : super[r].isup = m}
    OBVIOUS
  <2>4. Cardinality({r \in Super : super[r].isup = m}) \in Nat
    <3>1. IsFiniteSet({r \in Super : super[r].isup = m})
      BY SlotFacts, FS_Subset
    <3> QED  BY <3>1, FS_CardinalityType
  <2>5. Cardinality({}) = 0 /\ Cardinality({s}) = 1
    BY FS_EmptySet, FS_Singleton
  <2> DEFINE n == Cardinality({r \in Super : super[r].isup = m})
  <2>6. OfSupers(m)' = 0 + n
    BY <2>1, <2>3, <2>5 DEF OfSupers
  <2>7. OfSupers(m) = 1 + n
    BY <2>2, <2>5 DEF OfSupers
  <2>8. n \in Nat
    BY <2>4
  <2> HIDE DEF n
  <2> QED  BY <2>6, <2>7, <2>8
<1>18. ASSUME NEW j \in Slot  PROVE Points(t, j)' + OfSupers(j)' = Points(t, j) + OfSupers(j)
  <2> DEFINE a == T.held[j]
             y == IF j = m THEN 1 ELSE 0
             o == OfSupers(j)'
  <2>1. a \in Nat /\ y \in Nat
    BY <1>1 DEF TaskType
  <2>2. Points(t, j) = a + 0 + 0 + 0
    BY <1>1, <1>2 DEF Points, Pointers
  <2>3. Points(t, j)' = a + y + 0 + 0
    <3>1. rec.held[j] = a /\ Frames(rec.stk, j) = y /\ rec.got # j /\ rec.empty # j
      BY <1>2, <1>7, <1>9
    <3> QED  BY <3>1, <1>10 DEF Points, Pointers
  <2>4. o \in Nat /\ OfSupers(j) = o + y
    <3>1. CASE j = m
      BY <3>1, <1>17
    <3>2. CASE j # m
      BY <3>2, <1>16, SupersBounds
    <3> QED  BY <3>1, <3>2
  <2>5. Points(t, j)' + o = (a + y) + o /\ Points(t, j) + OfSupers(j) = (a + y) + o
    <3> HIDE DEF a, y, o
    <3> QED  BY <2>1, <2>2, <2>3, <2>4
  <2> QED  BY <2>5
<1>19. ASSUME NEW u \in Task
       PROVE  task[u].empty # m /\ ~Has(task[u].stk, Frame("read", m))
  <2>1. ~Alone(u, m)
    <3>1. OfSupers(m) # 0
      BY <1>17
    <3> QED  BY <3>1, <1>3, AloneFacts
  <2> QED  BY <2>1 DEF Alone
<1>20. Own(t)'
  <2>1. \A g : Has(rec.stk, g) => g.at \in MountFrames
    BY <1>4, <1>6, <1>9 DEF MountFrames
  <2>2. ASSUME NEW r \in Super  PROVE SuperInv(t, r)'
    <3>1. CASE r = s
      <4>1. /\ super'[s].imount = m /\ super'[s].dev = super[s].dev /\ ~inode'[m].mount
            /\ Frames(task'[t].stk, m) > 0 /\ ~Has(task'[t].stk, Frame("read_super", s))
        BY <1>7, <1>9, <1>10, <1>11, <1>14
      <4> QED  BY <3>1, <4>1 DEF SuperInv
    <3>2. CASE r # s
      BY <3>2, <1>10, <1>14 DEF SuperInv
    <3> QED  BY <3>1, <3>2
  <2>3. ASSUME NEW j \in Slot
        PROVE  /\ inode'[j].dev = inode[j].dev /\ inode'[j].num = inode[j].num
               /\ inode'[j].pipe = inode[j].pipe /\ inode'[j].lock = inode[j].lock
               /\ inode[j].lock # t /\ ~Has(rec.stk, Frame("mount", j))
    BY <1>1, <1>11, <1>14
  <2>4. Top(rec.stk).at # "mount" /\ WellFormed(rec.stk)
    BY <1>4, <1>6, <1>9
  <2> QED  BY <2>1, <2>2, <2>3, <2>4, <1>1, <1>8, <1>9, <1>12, MountOwn
<1>21. ASSUME NEW u \in Task, u # t  PROVE Spared(t, u)
  <2>1. ASSUME NEW j \in Slot
        PROVE  /\ Points(u, j) > 0 => /\ inode'[j].dev = inode[j].dev /\ inode'[j].num = inode[j].num
                                      /\ inode'[j].pipe = inode[j].pipe
               /\ task[u].empty = j => inode'[j] = inode[j]
               /\ Has(task[u].stk, Frame("read", j)) =>
                        inode'[j] = inode[j] /\ links'[<<inode[j].dev, inode[j].num>>] > 0
               /\ Has(task[u].stk, Frame("trunc", j)) =>
                        inode'[j].count = inode[j].count /\ inode'[j].nlinks = inode[j].nlinks
               /\ inode'[j].lock = inode[j].lock
               /\ ~(inode'[j].mount /\ ~inode[j].mount)
    <3>1. Has(task[u].stk, Frame("read", j)) => links'[<<inode[j].dev, inode[j].num>>] > 0
      BY HasFacts DEF SlotInv
    <3>2. CASE j = m
      BY <3>1, <3>2, <1>11, <1>19
    <3>3. CASE j # m
      <4>1. inode'[j] = inode[j]
        BY <3>3, <1>11
      <4> QED  BY <3>1, <4>1
    <3> QED  BY <3>2, <3>3
  <2>2. ASSUME NEW r \in Super
        PROVE  /\ super'[r] = super[r]
               /\ \A j \in Slot : Has(task[u].stk, Frame("mount", j)) => super'[r].imount # j
    BY HasFacts DEF SlotInv
  <2> QED  BY <2>1, <2>2 DEF Spared
<1>22. ASSUME NEW j \in Slot
       PROVE  /\ inode'[j].dev = inode[j].dev /\ inode'[j].num = inode[j].num
              /\ inode'[j].pipe = inode[j].pipe /\ inode'[j].lock = inode[j].lock
              /\ inode'[j].count = inode[j].count /\ inode'[j].nlinks = inode[j].nlinks
              /\ inode'[j].dirt = inode[j].dirt
              /\ inode'[j].mount => inode[j].dev # 0 /\ <<inode[j].dev, inode[j].num>> \notin BlkFile
  <2>1. CASE j = m
    BY <2>1, <1>11
  <2>2. CASE j # m
    <3>1. inode'[j] = inode[j] /\ Good(j)
      BY <2>2, <1>11, GoodFacts
    <3> QED  BY <3>1 DEF Good
  <2> QED  BY <2>1, <2>2
<1>23. ASSUME NEW j \in Slot, inode[j].count > 0, inode[j].dev # 0  PROVE Mounted(inode[j].dev)'
  <2>1. Mounted(inode[j].dev)
    BY <1>23, GoodFacts DEF Good
  <2>2. PICK r \in Super : super[r].dev = inode[j].dev /\ super[r].imount # 0
                           /\ (inode[j].dev = ROOT_DEV \/ inode[super[r].imount].mount)
    BY <2>1 DEF Mounted
  <2>3. r # s
    BY <2>2, <1>23
  <2>4. super[r].imount \in Slot /\ super[r].imount # m
    BY <2>2, <2>3, <1>2, <1>3 DEF SuperType
  <2>5. inode'[super[r].imount] = inode[super[r].imount] /\ inode'[j].dev = inode[j].dev
    BY <2>4, <1>11, <1>22
  <2> QED  BY <2>2, <2>5 DEF Mounted
<1>24. \A j \in Slot : ~Has(task'[t].stk, Frame("read", j)) /\ ~Has(task[t].stk, Frame("read", j))
  BY <1>1, <1>10, <1>14
<1>25. ASSUME NEW g \in FrameType, g.at \in {"mount", "umount", "read_super"}, Has(task'[t].stk, g)
       PROVE  \A u \in Task : u # t => ~Has(task[u].stk, g)
  <2>1. g = Frame("umount", s)
    BY <1>4, <1>6, <1>9, <1>10, <1>25 DEF h
  <2> QED  BY <2>1, <1>13 DEF Leaving
<1>26. UNCHANGED <<disk, imap, links, panic>>
  OBVIOUS
<1>27. Mounting(t)
  BY <1>10, <1>18, <1>21, <1>22, <1>23, <1>24, <1>25, <1>26 DEF Mounting
<1> QED
  BY <1>12, <1>20, <1>27, MountingStep

LEMMA SysUmountStep ==
    ASSUME InoInv, NEW t \in Task, NEW s \in Super, sys_umount(t, s), trouble' = {}
    PROVE  InoInv'
<1>1. PICK m : m = super[s].imount
  OBVIOUS
<1>2. /\ At(t, "user") /\ super[s].dev \notin {0, ROOT_DEV} /\ m # 0
      /\ \A i \in Slot : inode[i].dev = super[s].dev => inode[i].count = 0
  BY <1>1 DEF sys_umount, Begins, BeginsFor
<1>3. /\ UNCHANGED <<super, disk, imap, links, panic>>
      /\ inode' = [inode EXCEPT ![m].mount = FALSE]
      /\ Next_(t, <<Frame("iput", m), Frame("umount", s)>>)
  BY <1>1 DEF sys_umount, ioVars
<1>4. inode[m].mount
  BY <1>1 DEF sys_umount
<1> QED
  BY <1>1, <1>2, <1>3, <1>4, Umounts

(***************************************************************************)
(* The invariant and the theorems.                                         *)
(***************************************************************************)
LEMMA InitTypes ==
    ASSUME mount_root
    PROVE  /\ Types
           /\ \A t \in Task : /\ task[t].stk = <<>> /\ task[t].got = 0 /\ task[t].empty = 0
                              /\ task[t].held = [j \in Slot |-> 0]
           /\ \A j \in Slot : j # 1 => inode[j] = Zeroed
           /\ \A s \in Super : s # 1 => super[s] = NoSuper
           /\ super[1] = [dev |-> ROOT_DEV, imount |-> 1, isup |-> 1, lock |-> FALSE]
           /\ inode[1].dev = ROOT_DEV /\ inode[1].num = ROOT_INO /\ ~inode[1].pipe
           /\ inode[1].lock = None /\ ~inode[1].dirt /\ ~inode[1].mount
           /\ inode[1].count = 2 + Cardinality(Task)
           /\ inode[1].nlinks = InitLinks[<<ROOT_DEV, ROOT_INO>>]
<1>1. /\ 1 \in Slot /\ 1 \in Super /\ 0 \notin Slot /\ ROOT_DEV \in Dev /\ ROOT_INO \in Num
      /\ Cardinality(Task) \in Nat
  BY SlotFacts
<1>2. InitLinks \in [Dev \X Num -> Nat]
  BY Zenon, InodeAssumption
<1>3. InitLinks[<<ROOT_DEV, ROOT_INO>>] \in Nat
  BY <1>1, <1>2
<1>4. PICK R : R = [Zeroed EXCEPT !.dev = ROOT_DEV, !.num = ROOT_INO,
                                  !.count = 2 + Cardinality(Task), !.mount = FALSE,
                                  !.nlinks = InitLinks[<<ROOT_DEV, ROOT_INO>>]]
  OBVIOUS
<1>5. /\ R.dev = ROOT_DEV /\ R.num = ROOT_INO /\ ~R.pipe /\ R.lock = None /\ ~R.dirt /\ ~R.mount
      /\ R.count = 2 + Cardinality(Task) /\ R.nlinks = InitLinks[<<ROOT_DEV, ROOT_INO>>]
      /\ R \in InodeType /\ Zeroed \in InodeType
  <2>1. PICK n : n = 2 + Cardinality(Task)
    OBVIOUS
  <2>2. PICK k : k = InitLinks[<<ROOT_DEV, ROOT_INO>>]
    OBVIOUS
  <2>3. n \in Nat /\ k \in Nat
    BY <2>1, <2>2, <1>1, <1>3
  <2>4. R = [Zeroed EXCEPT !.dev = ROOT_DEV, !.num = ROOT_INO, !.count = n, !.mount = FALSE,
                           !.nlinks = k]
    BY <2>1, <2>2, <1>4
  <2>5. /\ R.dev = ROOT_DEV /\ R.num = ROOT_INO /\ ~R.pipe /\ R.lock = None /\ ~R.dirt /\ ~R.mount
        /\ R.count = n /\ R.nlinks = k /\ R \in InodeType /\ Zeroed \in InodeType
    BY <2>3, <2>4, <1>1 DEF Zeroed, InodeType
  <2> QED  BY <2>1, <2>2, <2>5
<1>6. inode = [i \in Slot |-> IF i = 1 THEN R ELSE Zeroed]
  BY <1>4 DEF mount_root
<1>7. inode \in [Slot -> InodeType] /\ inode[1] = R /\ \A j \in Slot : j # 1 => inode[j] = Zeroed
  BY <1>1, <1>5, <1>6
<1>8. PICK Q : Q = [dev |-> ROOT_DEV, imount |-> 1, isup |-> 1, lock |-> FALSE]
  OBVIOUS
<1>9. Q \in SuperType /\ NoSuper \in SuperType
  BY <1>1, <1>8 DEF SuperType, NoSuper
<1>10. super = [s \in Super |-> IF s = 1 THEN Q ELSE NoSuper]
  BY <1>8 DEF mount_root
<1>11. super \in [Super -> SuperType] /\ super[1] = Q /\ \A s \in Super : s # 1 => super[s] = NoSuper
  BY <1>1, <1>9, <1>10
<1>12. PICK T : T = [stk |-> <<>>, dev |-> 0, nr |-> 0, empty |-> 0, got |-> 0,
                     sb |-> 0, held |-> [i \in Slot |-> 0]]
  OBVIOUS
<1>13. /\ T \in TaskType /\ T.stk = <<>> /\ T.got = 0 /\ T.empty = 0 /\ T.held = [i \in Slot |-> 0]
  BY <1>12, EmptyStack DEF TaskType
<1>14. task = [t \in Task |-> T]
  BY <1>12 DEF mount_root
<1>15. task \in [Task -> TaskType] /\ \A t \in Task : task[t] = T
  BY <1>13, <1>14
<1>16. /\ disk \in [Dev \X Num -> Nat] /\ links \in [Dev \X Num -> Nat]
       /\ imap \subseteq Dev \X Num /\ cpu \in Task \cup {None}
  BY <1>2 DEF mount_root
<1>17. Types
  BY <1>7, <1>11, <1>15, <1>16 DEF Types
<1> QED
  BY <1>5, <1>7, <1>8, <1>11, <1>13, <1>15, <1>17

LEMMA InitCounts ==
    ASSUME mount_root
    PROVE  Counts
<1>1. /\ Types /\ super[1] = [dev |-> ROOT_DEV, imount |-> 1, isup |-> 1, lock |-> FALSE]
      /\ (\A t \in Task : /\ task[t].stk = <<>> /\ task[t].got = 0 /\ task[t].empty = 0
                          /\ task[t].held = [j \in Slot |-> 0])
      /\ (\A j \in Slot : j # 1 => inode[j] = Zeroed)
      /\ (\A s \in Super : s # 1 => super[s] = NoSuper)
      /\ inode[1].count = 2 + Cardinality(Task)
  BY InitTypes
<1>2. 0 \notin Slot /\ 1 \in Super /\ Cardinality(Task) \in Nat
  BY SlotFacts
<1>3. ASSUME NEW i \in Slot  PROVE Uses(i) = 0
  <2> DEFINE n == [t \in Task |-> Points(t, i)]
  <2>1. \A t \in Task : Points(t, i) = 0
    <3> SUFFICES ASSUME NEW t \in Task  PROVE Points(t, i) = 0
      OBVIOUS
    <3>1. Frames(task[t].stk, i) = 0
      BY <1>1, EmptyStack
    <3>2. task[t].held[i] = 0 /\ task[t].empty # i /\ task[t].got # i
      BY <1>1, <1>2
    <3> QED  BY <3>1, <3>2 DEF Points, Pointers
  <2>2. n \in [Task -> Nat] /\ \A t \in Task : n[t] = 0
    BY <2>1
  <2>3. Uses(i) = Total(n)
    BY DEF Uses, Points
  <2> HIDE DEF n
  <2> QED  BY <2>2, <2>3, TotalBounds
<1>4. \A t \in Task : \A g : ~Has(task[t].stk, g)
  BY <1>1, EmptyStack
<1>5. \A s \in Super : ~Leaving(s)
  BY <1>4 DEF Leaving
<1>6. \A s \in Super : s # 1 => super[s].imount = 0 /\ super[s].isup = 0
  BY <1>1 DEF NoSuper
<1>7. Cardinality({}) = 0 /\ Cardinality({1}) = 1
  BY FS_EmptySet, FS_Singleton
<1>8. OfSupers(1) = 2
  <2>1. {s \in Super : super[s].imount = 1 /\ ~Leaving(s)} = {1}
    BY <1>1, <1>2, <1>5, <1>6
  <2>2. {s \in Super : super[s].isup = 1} = {1}
    BY <1>1, <1>2, <1>6
  <2>3. OfSupers(1) = 1 + 1
    BY <2>1, <2>2, <1>7 DEF OfSupers
  <2> QED  BY <2>3
<1>9. ASSUME NEW i \in Slot, i # 1  PROVE OfSupers(i) = 0
  <2>1. {s \in Super : super[s].imount = i /\ ~Leaving(s)} = {}
    BY <1>1, <1>2, <1>6, <1>9
  <2>2. {s \in Super : super[s].isup = i} = {}
    BY <1>1, <1>2, <1>6, <1>9
  <2>3. OfSupers(i) = 0 + 0
    BY <2>1, <2>2, <1>7 DEF OfSupers
  <2> QED  BY <2>3
<1>10. ASSUME NEW i \in Slot
       PROVE  inode[i].count = Uses(i) + OfSupers(i) + (IF i = 1 THEN Cardinality(Task) ELSE 0)
  <2>1. CASE i = 1
    BY <2>1, <1>1, <1>2, <1>3, <1>8
  <2>2. CASE i # 1
    <3>1. inode[i].count = 0
      BY <2>2, <1>1 DEF Zeroed
    <3> QED  BY <2>2, <3>1, <1>3, <1>9
  <2> QED  BY <2>1, <2>2
<1> QED
  BY <1>10 DEF Counts

(* After mount_root the invariant holds.                                   *)
LEMMA InoInit ==
    ASSUME mount_root
    PROVE  InoInv
<1>1. /\ Types /\ super[1] = [dev |-> ROOT_DEV, imount |-> 1, isup |-> 1, lock |-> FALSE]
      /\ (\A t \in Task : /\ task[t].stk = <<>> /\ task[t].got = 0 /\ task[t].empty = 0
                          /\ task[t].held = [j \in Slot |-> 0])
      /\ (\A j \in Slot : j # 1 => inode[j] = Zeroed)
      /\ (\A s \in Super : s # 1 => super[s] = NoSuper)
      /\ inode[1].dev = ROOT_DEV /\ inode[1].num = ROOT_INO /\ ~inode[1].pipe
      /\ inode[1].lock = None /\ ~inode[1].dirt /\ ~inode[1].mount
      /\ inode[1].count = 2 + Cardinality(Task)
      /\ inode[1].nlinks = InitLinks[<<ROOT_DEV, ROOT_INO>>]
  BY InitTypes
<1>2. /\ 1 \in Slot /\ 1 \in Super /\ 0 \notin Slot /\ 0 \notin Dev /\ None \notin Task
      /\ Cardinality(Task) \in Nat /\ ROOT_DEV \in Dev /\ ROOT_INO \in Num
  BY SlotFacts
<1>3. /\ InitLinks \in [Dev \X Num -> Nat] /\ InitLinks[<<ROOT_DEV, ROOT_INO>>] > 0
  BY Zenon, InodeAssumption
<1>4. /\ disk = InitLinks /\ links = InitLinks /\ imap = {p \in Dev \X Num : InitLinks[p] > 0}
      /\ cpu = None /\ panic = "none"
  BY DEF mount_root
<1>5. /\ Zeroed.dev = 0 /\ ~Zeroed.dirt /\ Zeroed.lock = None /\ ~Zeroed.mount /\ ~Zeroed.pipe
      /\ Zeroed.count = 0 /\ NoSuper.imount = 0 /\ NoSuper.isup = 0
  BY DEF Zeroed, NoSuper
<1>6. \A t \in Task : /\ WellFormed(task[t].stk) /\ (\A g : ~Has(task[t].stk, g))
                      /\ Work(task[t].stk).at = "user" /\ Top(task[t].stk).at = "user"
  BY <1>1, EmptyStack, FrameEq
<1>7. \A j \in Slot : inode[j].lock = None
  BY <1>1, <1>5
<1>8. ASSUME NEW t \in Task  PROVE Own(t)
  <2>1. WorkOK(task[t], Work(task[t].stk).at) /\ CrossOK(t)
    BY <1>1, <1>6 DEF WorkOK, Keeper, Searching, CrossOK
  <2>2. DevInv(task[t])
    BY <1>6 DEF DevInv, Looking
  <2>3. (\A i \in Slot : SlotInv(t, i)) /\ (\A s \in Super : SuperInv(t, s))
    BY <1>6 DEF SlotInv, SuperInv
  <2>4. \A i \in Slot : ~(task[t].held[i] > 0 \/ task[t].got = i)
    BY <1>1, <1>2
  <2>5. cpu # t /\ \A i \in Slot : inode[i].lock # t
    BY <1>2, <1>4, <1>7
  <2> QED  BY <2>1, <2>2, <2>3, <2>4, <2>5, <1>1, <1>6 DEF Own
<1>9. Pairs
  BY <1>6 DEF Pairs
<1>10. Table
  <2>1. Mounted(ROOT_DEV)
    BY <1>1, <1>2 DEF Mounted
  <2>2. <<ROOT_DEV, ROOT_INO>> \in imap
    BY <1>2, <1>3, <1>4
  <2>3. \A i \in Slot : Good(i)
    <3> SUFFICES ASSUME NEW i \in Slot  PROVE Good(i)
      OBVIOUS
    <3>1. CASE i = 1
      BY <3>1, <2>1, <2>2, <1>1, <1>2 DEF Good
    <3>2. CASE i # 1
      BY <3>2, <1>1, <1>5 DEF Good
    <3> QED  BY <3>1, <3>2
  <2> QED  BY <2>3, <1>1 DEF Table, Good
<1>11. Supers
  <2>1. ROOT_DEV # 0
    BY <1>2
  <2> QED  BY <2>1, <1>1, <1>2, <1>5 DEF Supers
<1>12. Counts
  BY InitCounts
<1>13. Unique
  <2>1. ROOT_DEV # 0
    BY <1>2
  <2> QED  BY <2>1, <1>1, <1>2, <1>5 DEF Unique, Matches
<1>14. Linked
  <2>1. ASSUME NEW i \in Slot, inode[i].dev # 0
        PROVE  /\ inode[i].nlinks = links[<<inode[i].dev, inode[i].num>>]
               /\ disk[<<inode[i].dev, inode[i].num>>] = inode[i].nlinks
    <3>1. i = 1
      BY <2>1, <1>1, <1>5
    <3> QED  BY <3>1, <1>1, <1>4
  <2> QED  BY <2>1, <1>4 DEF Linked
<1> QED
  BY <1>1, <1>4, <1>8, <1>9, <1>10, <1>11, <1>12, <1>13, <1>14 DEF InoInv

LEMMA CallStep ==
    ASSUME InoInv, NEW t \in Task, Call(t), trouble' = {}
    PROVE  InoInv'
<1>1. CASE \E i \in Slot, nr \in Num : namei(t, i, nr)
  BY <1>1, NameiStep
<1>2. CASE \E i \in Slot, nr \in Num : Change(t, i, nr)
  BY <1>2, ChangeStep
<1>3. CASE \E i \in Slot, nr \in Num, old \in Slot : sys_chdir(t, i, nr, old)
  BY <1>3, SysChdirStep
<1>4. CASE \E i \in Slot : Close(t, i)
  BY <1>4, CloseCallStep
<1>5. CASE \E i \in Slot : Creat(t, i)
  BY <1>5, CreatStep
<1>6. CASE \E i \in Slot, n \in 0..MaxLinks : Relink(t, i, n)
  <2>1. 0..MaxLinks \subseteq Nat
    OBVIOUS
  <2> QED  BY <2>1, <1>6, RelinkStep
<1>7. CASE \E i \in Slot, dev \in Dev : sys_mount(t, i, dev)
  BY <1>7, SysMountStep
<1>8. CASE sys_pipe(t)
  BY <1>8, SysPipeStep
<1>9. CASE sys_sync(t)
  BY <1>9, SysSyncStep
<1>10. CASE \E s \in Super : sys_umount(t, s)
  BY <1>10, SysUmountStep
<1> QED
  BY <1>1, <1>2, <1>3, <1>4, <1>5, <1>6, <1>7, <1>8, <1>9, <1>10 DEF Call

LEMMA BlockUnreadStep ==
    ASSUME InoInv, NEW t \in Task, BlockUnread(t)
    PROVE  InoInv'
BY Halted DEF BlockUnread, Panics, Halts, ioVars

LEMMA KernelStep ==
    ASSUME InoInv, NEW t \in Task, Kernel(t), trouble' = {}
    PROVE  InoInv'
<1>1. CASE brelse(t) \/ Keep(t) \/ Changes(t) \/ Chdir(t) \/ iget(t) \/ get_empty_inode(t)
  BY <1>1, BrelseStep, KeepStep, ChangesStep, ChdirStep, IgetStep, GetEmptyInodeStep
<1>2. CASE IgetScans(t) \/ IgetFound(t) \/ IgetCrosses(t) \/ read_inode(t)
  BY <1>2, IgetScansStep, IgetFoundStep, IgetCrossesStep, ReadInodeStep
<1>3. CASE new_inode(t) \/ get_pipe_inode(t) \/ iput(t) \/ iput_repeat(t) \/ free_inode(t)
  BY <1>3, NewInodeStep, GetPipeInodeStep, IputStep, IputRepeatStep, FreeInodeStep
<1>4. CASE write_inode(t) \/ Written(t) \/ BlockUnread(t) \/ sync_inodes(t)
  BY <1>4, WriteInodeStep, WrittenStep, BlockUnreadStep, SyncInodesStep
<1>5. CASE read_super(t) \/ SuperIsRead(t) \/ Mount(t) \/ put_super(t)
  BY <1>5, ReadSuperStep, SuperIsReadStep, MountStep, PutSuperStep
<1> QED
  BY <1>1, <1>2, <1>3, <1>4, <1>5 DEF Kernel

(* No step takes a known race back.                                        *)
LEMMA TroubleStays ==
    ASSUME InoNext, trouble' = {}
    PROVE  trouble = {}
<1>1. PICK t \in Task : Call(t) \/ Kernel(t)
  BY DEF InoNext
<1>2. CASE Call(t)
  BY <1>2 DEF Call, namei, Change, sys_chdir, Close, Creat, Relink, sys_mount, sys_pipe, sys_sync,
              sys_umount
<1>3. CASE Kernel(t)
  <2>1. CASE brelse(t) \/ Keep(t) \/ Changes(t) \/ Chdir(t) \/ iget(t) \/ get_empty_inode(t)
    BY <2>1 DEF brelse, Keep, Changes, Chdir, iget, get_empty_inode, Panics
  <2>2. CASE IgetScans(t) \/ IgetFound(t) \/ IgetCrosses(t) \/ read_inode(t)
    BY <2>2 DEF IgetScans, IgetFound, IgetCrosses, read_inode, Halts
  <2>3. CASE new_inode(t) \/ get_pipe_inode(t) \/ iput(t) \/ iput_repeat(t) \/ free_inode(t)
    BY <2>3 DEF new_inode, get_pipe_inode, iput, iput_repeat, free_inode, Panics
  <2>4. CASE write_inode(t) \/ Written(t) \/ BlockUnread(t) \/ sync_inodes(t)
    BY <2>4 DEF write_inode, Written, BlockUnread, sync_inodes, Panics
  <2>5. CASE read_super(t) \/ SuperIsRead(t) \/ Mount(t) \/ put_super(t)
    BY <2>5 DEF read_super, SuperIsRead, Mount, put_super
  <2> QED  BY <1>3, <2>1, <2>2, <2>3, <2>4, <2>5 DEF Kernel
<1> QED
  BY <1>1, <1>2, <1>3

LEMMA InoStep ==
    ASSUME IInv, [InoNext]_vars
    PROVE  IInv'
<1> SUFFICES ASSUME trouble' = {}  PROVE InoInv'
  BY DEF IInv
<1>1. CASE InoNext
  <2>1. InoInv
    BY <1>1, TroubleStays DEF IInv
  <2>2. PICK t \in Task : Call(t) \/ Kernel(t)
    BY <1>1 DEF InoNext
  <2> QED  BY <2>1, <2>2, CallStep, KernelStep
<1>2. CASE UNCHANGED vars
  <2>1. UNCHANGED <<inode, super, disk, imap, links, task, cpu, panic, trouble>>
    BY <1>2 DEF vars, ioVars
  <2>2. InoInv
    BY <2>1 DEF IInv
  <2>3. panic' \in {"none", "No free inodes in mem", "unable to read i-node block"}
    BY <2>1, <2>2 DEF InoInv
  <2> QED  BY <2>1, <2>2, <2>3, Halted
<1> QED
  BY <1>1, <1>2

LEMMA InoAlways == InoSpec => []IInv
<1>1. mount_root => IInv
  BY InoInit DEF IInv
<1> QED
  BY <1>1, InoStep, PTL DEF InoSpec

(* As long as none of the known races has struck, no two inodes of the     *)
(* table are the same inode of a disk, for any number of tasks, inodes and *)
(* devices: iget searches the table again after every sleep (inode.cc).    *)
THEOREM InodesUnique == InoSpec => []UniqueInode
<1>1. IInv => UniqueInode
  <2> SUFFICES ASSUME IInv, trouble = {}  PROVE Unique
    BY DEF UniqueInode, Unique
  <2> QED  BY Parts DEF IInv
<1> QED
  BY <1>1, InoAlways, PTL

(* ... and i_count counts the users of every inode, and an inode without   *)
(* users is clean and unlocked, so that get_empty_inode takes it at once.  *)
THEOREM InodeCountsRight == InoSpec => []CountIsUsers
<1>1. IInv => CountIsUsers
  <2> SUFFICES ASSUME IInv, trouble = {}, NEW i \in Slot
               PROVE  /\ inode[i].count =
                            Uses(i) + OfSupers(i) + (IF i = 1 THEN Cardinality(Task) ELSE 0)
                      /\ inode[i].count = 0 => ~inode[i].dirt /\ inode[i].lock = None
    BY DEF CountIsUsers
  <2>1. InoInv
    BY DEF IInv
  <2>2. Counts /\ Good(i)
    BY <2>1, Parts, GoodFacts
  <2> QED  BY <2>2 DEF Counts, Good
<1> QED
  BY <1>1, InoAlways, PTL

(* ... and no change of a link count is lost on its way between the table  *)
(* and the disk (read_inode, write_inode, sync_inodes, iput).              *)
THEOREM InodeLinksKnown == InoSpec => []LinksKnown
<1>1. IInv => LinksKnown
  <2> SUFFICES ASSUME IInv, trouble = {}, NEW p \in DOMAIN links
               PROVE  LET core == {i \in Slot : Matches(i, p[1], p[2])
                                    /\ \A t \in Task : ~Has(task[t].stk, Frame("read", i))}
                      IN  /\ links[p] > 0 => p \in imap
                          /\ links[p] > 0 /\ core = {} => disk[p] = links[p]
                          /\ \A i \in core : /\ inode[i].nlinks = links[p]
                                             /\ ~inode[i].dirt => disk[p] = inode[i].nlinks
    BY DEF LinksKnown
  <2>1. InoInv
    BY DEF IInv
  <2>2. Linked /\ Types
    BY <2>1, Parts
  <2>3. p \in Dev \X Num /\ p = <<p[1], p[2]>> /\ p[1] # 0
    BY <2>2, SlotFacts DEF Types
  <2> DEFINE core == {i \in Slot : Matches(i, p[1], p[2]) /\ InCore(i)}
  <2>4. links[p] > 0 => p \in imap
    BY <2>2, <2>3 DEF Linked
  <2>5. links[p] > 0 /\ core = {} => disk[p] = links[p]
    <3>1. core = {} => \A i \in Slot : ~(Matches(i, p[1], p[2]) /\ InCore(i))
      OBVIOUS
    <3> QED  BY <3>1, <2>2, <2>3 DEF Linked
  <2>6. ASSUME NEW i \in core
        PROVE  inode[i].nlinks = links[p] /\ (~inode[i].dirt => disk[p] = inode[i].nlinks)
    <3>1. i \in Slot /\ InCore(i) /\ inode[i].dev = p[1] /\ inode[i].num = p[2]
      BY <2>6 DEF Matches
    <3>2. /\ inode[i].nlinks = links[<<inode[i].dev, inode[i].num>>]
          /\ ~inode[i].dirt => disk[<<inode[i].dev, inode[i].num>>] = inode[i].nlinks
      BY <3>1, <2>2, <2>3 DEF Linked
    <3>3. <<inode[i].dev, inode[i].num>> = p
      BY <3>1, <2>3
    <3> QED  BY <3>2, <3>3
  <2> QED  BY <2>4, <2>5, <2>6 DEF InCore
<1> QED
  BY <1>1, InoAlways, PTL

(* ... and of the panics of inode.cc and bitmap.cc only those for a full   *)
(* table and for a block of inodes that the disk cannot read are reached;  *)
(* an inode in use has the super block of its device.                      *)
THEOREM InodesNeverPanic == InoSpec => []NeverPanics
<1>1. IInv => NeverPanics
  <2> SUFFICES ASSUME IInv, trouble = {}
               PROVE  /\ panic \in {"none", "No free inodes in mem", "unable to read i-node block"}
                      /\ \A i \in Slot : inode[i].count > 0 /\ inode[i].dev # 0
                                            => get_super(inode[i].dev) # {}
    BY DEF NeverPanics
  <2>1. InoInv
    BY DEF IInv
  <2>2. panic \in {"none", "No free inodes in mem", "unable to read i-node block"}
    BY <2>1 DEF InoInv
  <2>3. \A i \in Slot : Good(i)
    BY <2>1, GoodFacts
  <2>4. ASSUME NEW i \in Slot, inode[i].count > 0, inode[i].dev # 0
        PROVE  get_super(inode[i].dev) # {}
    <3>1. Mounted(inode[i].dev)
      BY <2>3, <2>4 DEF Good
    <3> QED  BY <3>1, <2>4, MountedSuper
  <2> QED  BY <2>2, <2>4
<1> QED
  BY <1>1, InoAlways, PTL
=============================================================================
