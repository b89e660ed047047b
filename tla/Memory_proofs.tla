--------------------------- MODULE Memory_proofs ---------------------------
(***************************************************************************)
(* Memory management: mem_map is right, a page that can be written has one *)
(* user, and sharing cannot be noticed, for any number of tasks, pages and *)
(* addresses, any sequence of forks, execs, faults and exits, and when     *)
(* there is no memory left.                                                *)
(***************************************************************************)
EXTENDS Memory, FiniteSetTheorems, NaturalsInduction, TLAPS

(* Who refers to a frame f: m is the memory, k the tasks.                  *)
PteRefs(m, f) == {x \in Task \X Addr : m.pte[x[1]][x[2]].page = f}
DirRefs(m, f) == {x \in Task \X Dir : m.dir[x[1]][x[2]] = f}
SelfRefs(k, f) == {t \in Task : k[t].self = f}
LoadRefs(k, f) == {t \in Task : k[t].load = f}
ArgsRefs(k, f) == {t \in Task : k[t].args = f}

Count(m, k, f) ==
    Cardinality(PteRefs(m, f)) + Cardinality(DirRefs(m, f)) + Cardinality(SelfRefs(k, f))
      + Cardinality(LoadRefs(k, f)) + Cardinality(ArgsRefs(k, f))

NoDir(m, f) == \A t \in Task, d \in Dir : m.dir[t][d] # f
NoSelf(k, f) == \A t \in Task : k[t].self # f
NoLoad(k, f) == \A t \in Task : k[t].load # f
NoArgs(k, f) == \A t \in Task : k[t].args # f
NoPte(m, f) == \A t \in Task, a \in Addr : m.pte[t][a].page # f
NoWriter(m, f) == \A t \in Task, a \in Addr : m.pte[t][a].rw => m.pte[t][a].page # f

(* Nobody relies on being the only user of the page.                       *)
NotSole(m, k, f) ==
    NoWriter(m, f) /\ NoDir(m, f) /\ NoSelf(k, f) /\ NoLoad(k, f) /\ NoArgs(k, f)

(* A count is right, or too high once pages have been lost, and is one for *)
(* a page with a user that relies on it.  Between the steps of an          *)
(* operation pages are held that nothing refers to yet, or no longer.      *)
Holds(held, f) == IF f \in held THEN 1 ELSE 0

GoodAt(m, k, held, tr, f) ==
    /\ m.map[f] >= Count(m, k, f) + Holds(held, f)
    /\ "oom" \notin tr => m.map[f] = Count(m, k, f) + Holds(held, f)
    /\ (NotSole(m, k, f) /\ f \notin held) \/ m.map[f] = 1

Good(m, k, held, tr) == \A f \in Frame : GoodAt(m, k, held, tr, f)

(* No page below LOW_MEM can be written.                                   *)
WritesAbove(m) == \A t \in Task, a \in Addr : m.pte[t][a].rw => m.pte[t][a].page \in Frame

(* A task knows of pages only where it needs them, has page tables only    *)
(* while it lives, and has a table for each of its pages.                  *)
InExec(r) == r.st \in {"exec", "close"} \/ (r.st = "load" /\ r.back = "exec")
Alive(r) == r.st \notin {"none", "zombie"}

KernelOK(r) ==
    /\ r.load # 0 <=> r.st = "load"
    /\ r.args # 0 <=> InExec(r)
    /\ r.st = "load" => r.back # "none" /\ r.exe # NULL /\ r.at < EndData
    /\ InExec(r) /\ r.st # "close" => r.new # NULL
    /\ r.st = "close" => r.exe # NULL
    /\ r.st = "none" => r.self = 0
    /\ r.st = "copy" \/ (r.st = "load" /\ r.back = "copy") => r.ready

TablesOK(m, r, t) ==
    /\ \A a \in Addr : m.pte[t][a].page # 0 => m.dir[t][DirOf(a)] # 0
    /\ Alive(r) <=> \E d \in Dir : m.dir[t][d] # 0
    /\ r.st = "load" => m.pte[t][r.at].page = 0

CountInv ==
    /\ Good(mem, task, {}, trouble)
    /\ WritesAbove(mem)
    /\ \A t \in Task : KernelOK(task[t]) /\ TablesOK(mem, task[t], t)

(* What a task finds, if no race was lost: a page that is not there will   *)
(* be empty or come from the executable, and a clean one has come from it, *)
(* unless it was copied without a write.  Nothing is said of the pages of  *)
(* a task that has its new executable and not yet the new pages.           *)
Fresh(r, a) == IF r.exe = NULL \/ a >= EndData THEN Zero ELSE Image(r.exe)

PageOK(m, r, v, t, a) ==
    LET p == m.pte[t][a] IN
    /\ p.page = 0 => v[t][a] = Fresh(r, a)
    /\ p.page = Low => v[t][a] = Kernel
    /\ p.page \in Frame => m.data[p.page] = v[t][a]
    /\ p.page \in Frame /\ ~p.dirty /\ a \notin r.torn /\ r.exe # NULL /\ a < EndData
          => v[t][a] = Image(r.exe)

ViewOK(m, r, v, t) ==
    Alive(r) => /\ r.args # 0 => m.data[r.args] = Args
                /\ r.st # "close" => \A a \in Addr : PageOK(m, r, v, t, a)

Calm(tr) == tr \cap {"verify", "torn", "exec"} = {}

ViewInv == Calm(trouble) => \A t \in Task : ViewOK(mem, task[t], view, t)

-----------------------------------------------------------------------------
(* Types.                                                                  *)
MemType == [map : [Frame -> Int],
            dir : [Task -> [Dir -> Frame \cup {0}]],
            pte : [Task -> [Addr -> Pte]],
            data : [Frame -> Value]]

TaskType == [st : {"none", "user", "load", "copy", "exec", "close", "zombie"},
             back : {"none", "user", "copy", "exec"},
             exe : Exec \cup {NULL}, self : Frame \cup {0},
             load : Frame \cup {0}, args : Frame \cup {0},
             at : Addr, new : Exec \cup {NULL},
             torn : SUBSET Addr, ready : BOOLEAN]

LEMMA Numbers ==
    /\ Frame \subseteq Nat \ {0} /\ Low \notin Frame /\ 0 \notin Frame /\ Low # 0
    /\ Task \subseteq Nat /\ Addr \subseteq Nat /\ Dir \subseteq Nat
    /\ ArgAddr \in Addr /\ EndData <= ArgAddr /\ EndData \in Nat
    /\ \A a \in Addr : DirOf(a) \in Dir
<1>1. Frame \subseteq Nat \ {0} /\ Low \notin Frame /\ Task \subseteq Nat /\ Addr \subseteq Nat
      /\ ArgAddr \in Addr /\ EndData <= ArgAddr /\ EndData \in Nat /\ Low # 0
  BY MemoryAssumption DEF Frame, Low, Task, Addr, ArgAddr
<1>2. \A a \in Addr : DirOf(a) \in Nat
  BY <1>1, MemoryAssumption DEF DirOf
<1> QED
  BY <1>1, <1>2 DEF Dir

LEMMA AllFinite ==
    /\ IsFiniteSet(Frame) /\ IsFiniteSet(Task) /\ IsFiniteSet(Addr) /\ IsFiniteSet(Dir)
    /\ IsFiniteSet(Task \X Addr) /\ IsFiniteSet(Task \X Dir)
<1>1. IsFiniteSet(Frame) /\ IsFiniteSet(Task) /\ IsFiniteSet(Addr)
  BY MemoryAssumption, FS_Interval DEF Frame, Task, Addr
<1>2. IsFiniteSet(Dir)
  <2>1. [a \in Addr |-> DirOf(a)] \in Surjection(Addr, Dir)
    BY DEF Surjection, Dir
  <2> QED  BY <2>1, <1>1, FS_Surjection
<1> QED
  BY <1>1, <1>2, FS_Product

(* A set of numbers has a least element.                                   *)
LEMMA LeastOf ==
    ASSUME NEW T, T \subseteq Nat, T # {}
    PROVE  \E x \in T : \A y \in T : x <= y
<1> DEFINE R == OpToRel(<, Nat)
<1>1. PICK x \in T : \A y \in T : ~(<<y, x>> \in R)
  <2>1. IsWellFoundedOn(R, Nat)
    BY NatLessThanWellFounded
  <2> HIDE DEF R
  <2> QED
    BY <2>1, WFMin
<1>2. \A y \in T : ~(y < x)
  BY <1>1 DEF OpToRel
<1> HIDE DEF R
<1> QED
  BY <1>2

(* The last of some pages, or tasks.                                       *)
LEMMA MaxOf ==
    ASSUME NEW N \in Nat, NEW S, S \subseteq 1..N, S # {}
    PROVE  Max(S) \in S /\ \A f \in S : f <= Max(S)
<1>1. \E f \in S : \A g \in S : f >= g
  <2> DEFINE T == {N - f : f \in S}
  <2>1. T # {}
    BY Zenon
  <2>2. \A f \in S : N - f \in Nat
    OBVIOUS
  <2>3. PICK x \in T : \A y \in T : x <= y
    BY <2>1, <2>2, LeastOf
  <2>4. PICK f \in S : x = N - f
    BY <2>3
  <2>5. \A g \in S : N - f <= N - g
    BY <2>3, <2>4
  <2> QED  BY <2>5
<1> QED
  BY <1>1 DEF Max

LEMMA MaxPage ==
    ASSUME NEW S, S \subseteq Frame, S # {}
    PROVE  Max(S) \in S /\ \A f \in S : f <= Max(S)
BY MaxOf, MemoryAssumption DEF Frame

LEMMA MaxTask ==
    ASSUME NEW S, S \subseteq Task, S # {}
    PROVE  Max(S) \in S
BY MaxOf, MemoryAssumption DEF Task

-----------------------------------------------------------------------------
(***************************************************************************)
(* Counting.                                                               *)
(***************************************************************************)
Bit(x, y) == IF x = y THEN 1 ELSE 0

(* Where a function, or a table with a row for each task, has the value f. *)
Hits(A, g, f) == {b \in A : g[b] = f}
TableHits(A, g, f) == {x \in Task \X A : g[x[1]][x[2]] = f}

(* Two of them that agree but for one entry, or one row.                   *)
ButOne(A, g, h, a) == \A b \in A : b # a => h[b] = g[b]
ButRow(A, g, h, t) == \A u \in Task : u # t => \A a \in A : h[u][a] = g[u][a]

(* One entry of a function changes.                                        *)
LEMMA EntryChange ==
    ASSUME NEW A, IsFiniteSet(A), NEW g, NEW h, NEW a \in A, NEW f, ButOne(A, g, h, a)
    PROVE  /\ Cardinality(Hits(A, g, f)) \in Nat /\ Cardinality(Hits(A, h, f)) \in Nat
           /\ Cardinality(Hits(A, h, f)) =
                Cardinality(Hits(A, g, f)) - Bit(g[a], f) + Bit(h[a], f)
<1> DEFINE G == Hits(A, g, f)
           H == Hits(A, h, f)
           R == {b \in A : b # a /\ g[b] = f}
<1>1. IsFiniteSet(G) /\ IsFiniteSet(H) /\ IsFiniteSet(R)
  <2>1. G \in SUBSET A /\ H \in SUBSET A /\ R \in SUBSET A
    BY DEF Hits
  <2> HIDE DEF G, H, R
  <2> QED  BY <2>1, FS_Subset
<1>2. /\ g[a] = f => G = R \cup {a}
      /\ g[a] # f => G = R
      /\ h[a] = f => H = R \cup {a}
      /\ h[a] # f => H = R
      /\ a \notin R
  BY DEF Hits, ButOne
<1> HIDE DEF G, H, R
<1>3. Cardinality(R \cup {a}) = Cardinality(R) + 1 /\ Cardinality(R) \in Nat
  BY <1>1, <1>2, FS_AddElement, FS_CardinalityType
<1>4. Cardinality(G) = Cardinality(R) + Bit(g[a], f)
  <2>1. CASE g[a] = f
    BY <2>1, <1>2, <1>3 DEF Bit
  <2>2. CASE g[a] # f
    BY <2>2, <1>2, <1>3 DEF Bit
  <2> QED  BY <2>1, <2>2
<1>5. Cardinality(H) = Cardinality(R) + Bit(h[a], f)
  <2>1. CASE h[a] = f
    BY <2>1, <1>2, <1>3 DEF Bit
  <2>2. CASE h[a] # f
    BY <2>2, <1>2, <1>3 DEF Bit
  <2> QED  BY <2>1, <2>2
<1>6. Bit(g[a], f) \in {0, 1} /\ Bit(h[a], f) \in {0, 1}
  BY DEF Bit
<1>7. /\ Cardinality(G) \in Nat /\ Cardinality(H) \in Nat
      /\ Cardinality(H) = Cardinality(G) - Bit(g[a], f) + Bit(h[a], f)
  <2> DEFINE r == Cardinality(R)
             x == Bit(g[a], f)
             y == Bit(h[a], f)
  <2> HIDE DEF r, x, y
  <2> QED  BY <1>3, <1>4, <1>5, <1>6 DEF r, x, y
<1> QED
  BY <1>7 DEF G, H

(* One row of a table changes.                                             *)
LEMMA RowChange ==
    ASSUME NEW A, IsFiniteSet(A), NEW g, NEW h, NEW t \in Task, NEW f,
           ButRow(A, g, h, t)
    PROVE  /\ Cardinality(TableHits(A, g, f)) \in Nat
           /\ Cardinality(TableHits(A, h, f)) \in Nat
           /\ Cardinality(Hits(A, g[t], f)) \in Nat /\ Cardinality(Hits(A, h[t], f)) \in Nat
           /\ Cardinality(TableHits(A, h, f)) =
                Cardinality(TableHits(A, g, f)) - Cardinality(Hits(A, g[t], f))
                                                + Cardinality(Hits(A, h[t], f))
<1> DEFINE G == TableHits(A, g, f)
           H == TableHits(A, h, f)
           gt == Hits(A, g[t], f)
           ht == Hits(A, h[t], f)
<1>1. IsFiniteSet(Task \X A)
  BY AllFinite, FS_Product
<1>2. IsFiniteSet(G) /\ IsFiniteSet(H)
  <2>1. G \in SUBSET (Task \X A) /\ H \in SUBSET (Task \X A)
    BY DEF TableHits
  <2> HIDE DEF G, H
  <2> QED  BY <1>1, <2>1, FS_Subset
<1>3. IsFiniteSet(gt) /\ IsFiniteSet(ht)
  <2>1. gt \in SUBSET A /\ ht \in SUBSET A
    BY DEF Hits
  <2> HIDE DEF gt, ht
  <2> QED  BY <2>1, FS_Subset
<1>4. /\ G \cap ({t} \X gt) = {t} \X gt
      /\ H \cap ({t} \X ht) = {t} \X ht
  BY DEF TableHits, Hits
<1>5. G \ ({t} \X gt) = H \ ({t} \X ht)
  <2>1. \A x \in Task \X A : x[1] \in Task /\ x[2] \in A /\ x = <<x[1], x[2]>>
    OBVIOUS
  <2>2. \A x \in Task \X A : x \in {t} \X gt <=> x[1] = t /\ g[x[1]][x[2]] = f
    BY <2>1 DEF Hits
  <2>3. \A x \in Task \X A : x \in {t} \X ht <=> x[1] = t /\ h[x[1]][x[2]] = f
    BY <2>1 DEF Hits
  <2>4. \A x : x \in G \ ({t} \X gt) <=> x \in Task \X A /\ x[1] # t /\ g[x[1]][x[2]] = f
    BY <2>2 DEF TableHits
  <2>5. \A x : x \in H \ ({t} \X ht) <=> x \in Task \X A /\ x[1] # t /\ h[x[1]][x[2]] = f
    BY <2>3 DEF TableHits
  <2>6. \A x \in Task \X A : x[1] # t => h[x[1]][x[2]] = g[x[1]][x[2]]
    BY <2>1 DEF ButRow
  <2> HIDE DEF G, H, gt, ht
  <2> QED  BY <2>4, <2>5, <2>6
<1> HIDE DEF G, H, gt, ht
<1> DEFINE pg == {t} \X gt
           ph == {t} \X ht
<1>6. /\ IsFiniteSet({t}) /\ Cardinality({t}) = 1
      /\ Cardinality(gt) \in Nat /\ Cardinality(ht) \in Nat
      /\ Cardinality(G) \in Nat /\ Cardinality(H) \in Nat
  BY <1>2, <1>3, FS_Singleton, FS_CardinalityType
<1>7. /\ Cardinality(pg) = Cardinality({t}) * Cardinality(gt)
      /\ Cardinality(ph) = Cardinality({t}) * Cardinality(ht)
  BY <1>3, <1>6, FS_Product
<1>8. /\ Cardinality(G \ pg) = Cardinality(G) - Cardinality(G \cap pg)
      /\ Cardinality(H \ ph) = Cardinality(H) - Cardinality(H \cap ph)
  BY <1>2, FS_Difference
<1>9. /\ G \cap pg = pg /\ H \cap ph = ph /\ G \ pg = H \ ph
  BY <1>4, <1>5
<1> HIDE DEF pg, ph
<1>10. Cardinality(H) = Cardinality(G) - Cardinality(gt) + Cardinality(ht)
  <2> DEFINE x == Cardinality(gt)
             y == Cardinality(ht)
  <2>1. Cardinality(pg) = x /\ Cardinality(ph) = y
    <3> HIDE DEF x, y
    <3> QED  BY <1>6, <1>7 DEF x, y
  <2>2. Cardinality(G) - x = Cardinality(H) - y
    BY <2>1, <1>8, <1>9
  <2> QED  BY <2>2, <1>6
<1> QED
  BY <1>6, <1>10 DEF G, H, gt, ht

(* So do the references in the page tables and the directory.              *)
Pages(m) == [t \in Task |-> [a \in Addr |-> m.pte[t][a].page]]

SamePagesBut(m, n, t, a) ==
    \A u \in Task, b \in Addr : u # t \/ b # a => n.pte[u][b].page = m.pte[u][b].page
SameTablesBut(m, n, t, c) ==
    \A u \in Task, d \in Dir : u # t \/ d # c => n.dir[u][d] = m.dir[u][d]

LEMMA RefsAreHits ==
    ASSUME NEW m, NEW f
    PROVE  PteRefs(m, f) = TableHits(Addr, Pages(m), f) /\ DirRefs(m, f) = TableHits(Dir, m.dir, f)
BY DEF PteRefs, DirRefs, TableHits, Pages

LEMMA PteRow ==
    ASSUME NEW m, NEW n, NEW t \in Task, NEW f, ButRow(Addr, Pages(m), Pages(n), t)
    PROVE  /\ Cardinality(PteRefs(m, f)) \in Nat /\ Cardinality(PteRefs(n, f)) \in Nat
           /\ Cardinality(Hits(Addr, Pages(m)[t], f)) \in Nat
           /\ Cardinality(Hits(Addr, Pages(n)[t], f)) \in Nat
           /\ Cardinality(PteRefs(n, f)) =
                Cardinality(PteRefs(m, f)) - Cardinality(Hits(Addr, Pages(m)[t], f))
                                           + Cardinality(Hits(Addr, Pages(n)[t], f))
BY AllFinite, RefsAreHits, RowChange

LEMMA DirRow ==
    ASSUME NEW m, NEW n, NEW t \in Task, NEW f, ButRow(Dir, m.dir, n.dir, t)
    PROVE  /\ Cardinality(DirRefs(m, f)) \in Nat /\ Cardinality(DirRefs(n, f)) \in Nat
           /\ Cardinality(Hits(Dir, m.dir[t], f)) \in Nat
           /\ Cardinality(Hits(Dir, n.dir[t], f)) \in Nat
           /\ Cardinality(DirRefs(n, f)) =
                Cardinality(DirRefs(m, f)) - Cardinality(Hits(Dir, m.dir[t], f))
                                           + Cardinality(Hits(Dir, n.dir[t], f))
BY AllFinite, RefsAreHits, RowChange

LEMMA PteEntry ==
    ASSUME NEW m, NEW n, NEW t \in Task, NEW a \in Addr, NEW f, SamePagesBut(m, n, t, a)
    PROVE  /\ Cardinality(PteRefs(m, f)) \in Nat /\ Cardinality(PteRefs(n, f)) \in Nat
           /\ Cardinality(PteRefs(n, f)) =
                Cardinality(PteRefs(m, f)) - Bit(m.pte[t][a].page, f) + Bit(n.pte[t][a].page, f)
<1> DEFINE x == Cardinality(Hits(Addr, Pages(m)[t], f))
           y == Cardinality(Hits(Addr, Pages(n)[t], f))
           p == Cardinality(PteRefs(m, f))
           q == Cardinality(PteRefs(n, f))
           v == Bit(m.pte[t][a].page, f)
           w == Bit(n.pte[t][a].page, f)
<1>1. p \in Nat /\ q \in Nat /\ x \in Nat /\ y \in Nat /\ q = p - x + y
  <2>1. ButRow(Addr, Pages(m), Pages(n), t)
    BY DEF ButRow, Pages, SamePagesBut
  <2> QED  BY <2>1, PteRow
<1>2. y = x - v + w
  <2>1. ButOne(Addr, Pages(m)[t], Pages(n)[t], a)
    BY DEF Pages, ButOne, SamePagesBut
  <2>2. Pages(m)[t][a] = m.pte[t][a].page /\ Pages(n)[t][a] = n.pte[t][a].page
    BY DEF Pages
  <2> QED  BY <2>1, <2>2, AllFinite, EntryChange
<1>3. v \in {0, 1} /\ w \in {0, 1}
  BY DEF Bit
<1> HIDE DEF x, y, p, q, v, w
<1>4. q = p - v + w
  BY <1>1, <1>2, <1>3
<1> QED
  BY <1>1, <1>4 DEF p, q, v, w

LEMMA DirEntry ==
    ASSUME NEW m, NEW n, NEW t \in Task, NEW c \in Dir, NEW f, SameTablesBut(m, n, t, c)
    PROVE  /\ Cardinality(DirRefs(m, f)) \in Nat /\ Cardinality(DirRefs(n, f)) \in Nat
           /\ Cardinality(DirRefs(n, f)) =
                Cardinality(DirRefs(m, f)) - Bit(m.dir[t][c], f) + Bit(n.dir[t][c], f)
<1> DEFINE x == Cardinality(Hits(Dir, m.dir[t], f))
           y == Cardinality(Hits(Dir, n.dir[t], f))
           p == Cardinality(DirRefs(m, f))
           q == Cardinality(DirRefs(n, f))
           v == Bit(m.dir[t][c], f)
           w == Bit(n.dir[t][c], f)
<1>1. p \in Nat /\ q \in Nat /\ x \in Nat /\ y \in Nat /\ q = p - x + y
  <2>1. ButRow(Dir, m.dir, n.dir, t)
    BY DEF ButRow, SameTablesBut
  <2> QED  BY <2>1, DirRow
<1>2. y = x - v + w
  <2>1. ButOne(Dir, m.dir[t], n.dir[t], c)
    BY DEF ButOne, SameTablesBut
  <2> QED  BY <2>1, AllFinite, EntryChange
<1>3. v \in {0, 1} /\ w \in {0, 1}
  BY DEF Bit
<1> HIDE DEF x, y, p, q, v, w
<1>4. q = p - v + w
  BY <1>1, <1>2, <1>3
<1> QED
  BY <1>1, <1>4 DEF p, q, v, w

(* ... and those of the tasks.                                             *)
OthersSame(k, l, t) == \A u \in Task : u # t => l[u] = k[u]

LEMMA TaskEntry ==
    ASSUME NEW k, NEW l, NEW t \in Task, NEW f, OthersSame(k, l, t)
    PROVE  /\ Cardinality(SelfRefs(k, f)) \in Nat /\ Cardinality(LoadRefs(k, f)) \in Nat
           /\ Cardinality(ArgsRefs(k, f)) \in Nat
           /\ Cardinality(SelfRefs(l, f)) =
                Cardinality(SelfRefs(k, f)) - Bit(k[t].self, f) + Bit(l[t].self, f)
           /\ Cardinality(LoadRefs(l, f)) =
                Cardinality(LoadRefs(k, f)) - Bit(k[t].load, f) + Bit(l[t].load, f)
           /\ Cardinality(ArgsRefs(l, f)) =
                Cardinality(ArgsRefs(k, f)) - Bit(k[t].args, f) + Bit(l[t].args, f)
<1>1. ASSUME NEW g, NEW h, ButOne(Task, g, h, t)
      PROVE  /\ Cardinality(Hits(Task, g, f)) \in Nat
             /\ Cardinality(Hits(Task, h, f)) =
                  Cardinality(Hits(Task, g, f)) - Bit(g[t], f) + Bit(h[t], f)
  BY <1>1, AllFinite, EntryChange
<1>2. /\ Cardinality(SelfRefs(k, f)) \in Nat
      /\ Cardinality(SelfRefs(l, f)) =
           Cardinality(SelfRefs(k, f)) - Bit(k[t].self, f) + Bit(l[t].self, f)
  <2> DEFINE g == [u \in Task |-> k[u].self]
             h == [u \in Task |-> l[u].self]
  <2>1. /\ SelfRefs(k, f) = Hits(Task, g, f) /\ SelfRefs(l, f) = Hits(Task, h, f)
        /\ g[t] = k[t].self /\ h[t] = l[t].self /\ ButOne(Task, g, h, t)
    BY DEF ButOne, OthersSame, SelfRefs, Hits
  <2> HIDE DEF g, h
  <2> QED  BY <2>1, <1>1
<1>3. /\ Cardinality(LoadRefs(k, f)) \in Nat
      /\ Cardinality(LoadRefs(l, f)) =
           Cardinality(LoadRefs(k, f)) - Bit(k[t].load, f) + Bit(l[t].load, f)
  <2> DEFINE g == [u \in Task |-> k[u].load]
             h == [u \in Task |-> l[u].load]
  <2>1. /\ LoadRefs(k, f) = Hits(Task, g, f) /\ LoadRefs(l, f) = Hits(Task, h, f)
        /\ g[t] = k[t].load /\ h[t] = l[t].load /\ ButOne(Task, g, h, t)
    BY DEF ButOne, OthersSame, LoadRefs, Hits
  <2> HIDE DEF g, h
  <2> QED  BY <2>1, <1>1
<1>4. /\ Cardinality(ArgsRefs(k, f)) \in Nat
      /\ Cardinality(ArgsRefs(l, f)) =
           Cardinality(ArgsRefs(k, f)) - Bit(k[t].args, f) + Bit(l[t].args, f)
  <2> DEFINE g == [u \in Task |-> k[u].args]
             h == [u \in Task |-> l[u].args]
  <2>1. /\ ArgsRefs(k, f) = Hits(Task, g, f) /\ ArgsRefs(l, f) = Hits(Task, h, f)
        /\ g[t] = k[t].args /\ h[t] = l[t].args /\ ButOne(Task, g, h, t)
    BY DEF ButOne, OthersSame, ArgsRefs, Hits
  <2> HIDE DEF g, h
  <2> QED  BY <2>1, <1>1
<1> QED
  BY <1>2, <1>3, <1>4

-----------------------------------------------------------------------------
LEMMA RefsFinite ==
    ASSUME NEW m, NEW k, NEW f
    PROVE  /\ IsFiniteSet(PteRefs(m, f)) /\ Cardinality(PteRefs(m, f)) \in Nat
           /\ IsFiniteSet(DirRefs(m, f)) /\ Cardinality(DirRefs(m, f)) \in Nat
           /\ IsFiniteSet(SelfRefs(k, f)) /\ Cardinality(SelfRefs(k, f)) \in Nat
           /\ IsFiniteSet(LoadRefs(k, f)) /\ Cardinality(LoadRefs(k, f)) \in Nat
           /\ IsFiniteSet(ArgsRefs(k, f)) /\ Cardinality(ArgsRefs(k, f)) \in Nat
<1>1. /\ PteRefs(m, f) \in SUBSET (Task \X Addr) /\ DirRefs(m, f) \in SUBSET (Task \X Dir)
      /\ SelfRefs(k, f) \in SUBSET Task /\ LoadRefs(k, f) \in SUBSET Task
      /\ ArgsRefs(k, f) \in SUBSET Task
  BY DEF PteRefs, DirRefs, SelfRefs, LoadRefs, ArgsRefs
<1> QED
  BY <1>1, AllFinite, FS_Subset, FS_CardinalityType

LEMMA NoneOrOne ==
    ASSUME NEW S, IsFiniteSet(S), Cardinality(S) \in Nat
    PROVE  /\ Cardinality(S) = 0 => S = {}
           /\ Cardinality(S) <= 1 => \A x, y \in S : x = y
           /\ S # {} => Cardinality(S) >= 1
<1>1. Cardinality(S) = 0 <=> S = {}
  BY FS_EmptySet
<1>2. Cardinality(S) = 1 <=> \E x : S = {x}
  BY FS_Singleton
<1> QED
  BY <1>1, <1>2

(* The counts as numbers.                                                  *)
Parts(m, k, f, p, d, s, l, a) ==
    /\ p = Cardinality(PteRefs(m, f)) /\ d = Cardinality(DirRefs(m, f))
    /\ s = Cardinality(SelfRefs(k, f)) /\ l = Cardinality(LoadRefs(k, f))
    /\ a = Cardinality(ArgsRefs(k, f))
    /\ Count(m, k, f) = p + d + s + l + a

LEMMA CountSum ==
    ASSUME NEW m, NEW k, NEW f
    PROVE  \E p, d, s, l, a \in Nat : Parts(m, k, f, p, d, s, l, a)
BY RefsFinite DEF Count, Parts

LEMMA RefsAre ==
    ASSUME NEW m, NEW k, NEW f
    PROVE  /\ PteRefs(m, f) = {} => NoPte(m, f)
           /\ DirRefs(m, f) = {} => NoDir(m, f)
           /\ SelfRefs(k, f) = {} => NoSelf(k, f)
           /\ LoadRefs(k, f) = {} => NoLoad(k, f)
           /\ ArgsRefs(k, f) = {} => NoArgs(k, f)
           /\ \A t \in Task, a \in Addr : m.pte[t][a].page = f => <<t, a>> \in PteRefs(m, f)
           /\ \A t \in Task, d \in Dir : m.dir[t][d] = f => <<t, d>> \in DirRefs(m, f)
           /\ \A t \in Task : k[t].self = f => t \in SelfRefs(k, f)
           /\ \A t \in Task : k[t].load = f => t \in LoadRefs(k, f)
           /\ \A t \in Task : k[t].args = f => t \in ArgsRefs(k, f)
<1>1. \A t \in Task, a \in Addr : m.pte[t][a].page = f => <<t, a>> \in PteRefs(m, f)
  BY DEF PteRefs
<1>2. \A t \in Task, d \in Dir : m.dir[t][d] = f => <<t, d>> \in DirRefs(m, f)
  BY DEF DirRefs
<1>3. /\ \A t \in Task : k[t].self = f => t \in SelfRefs(k, f)
      /\ \A t \in Task : k[t].load = f => t \in LoadRefs(k, f)
      /\ \A t \in Task : k[t].args = f => t \in ArgsRefs(k, f)
  BY DEF SelfRefs, LoadRefs, ArgsRefs
<1> QED
  BY <1>1, <1>2, <1>3 DEF NoPte, NoDir, NoSelf, NoLoad, NoArgs

(* Nothing refers to a free page.                                          *)
LEMMA FreeUnused ==
    ASSUME NEW m \in MemType, NEW k, NEW held, NEW tr, NEW f \in Frame, GoodAt(m, k, held, tr, f),
           m.map[f] = 0
    PROVE  /\ NoPte(m, f) /\ NoDir(m, f) /\ NoSelf(k, f) /\ NoLoad(k, f) /\ NoArgs(k, f)
           /\ f \notin held
<1>1. PICK p, d, s, l, a \in Nat : Parts(m, k, f, p, d, s, l, a)
  BY CountSum
<1>2. Holds(held, f) \in {0, 1} /\ (f \in held => Holds(held, f) = 1)
  BY DEF Holds
<1>3. p + d + s + l + a + Holds(held, f) <= 0
  BY <1>1, <1>2 DEF GoodAt, Parts, MemType
<1>4. p = 0 /\ d = 0 /\ s = 0 /\ l = 0 /\ a = 0 /\ f \notin held
  BY <1>2, <1>3
<1>5. /\ PteRefs(m, f) = {} /\ DirRefs(m, f) = {} /\ SelfRefs(k, f) = {}
      /\ LoadRefs(k, f) = {} /\ ArgsRefs(k, f) = {}
  BY <1>1, <1>4, RefsFinite, NoneOrOne DEF Parts
<1> QED
  BY <1>4, <1>5, RefsAre

(* A page whose count is one has one user.                                 *)
LEMMA OneUser ==
    ASSUME NEW m \in MemType, NEW k, NEW held, NEW tr, NEW f \in Frame, GoodAt(m, k, held, tr, f),
           m.map[f] = 1
    PROVE  /\ \A t \in Task, a \in Addr : m.pte[t][a].page = f =>
                /\ NoDir(m, f) /\ NoSelf(k, f) /\ NoLoad(k, f) /\ NoArgs(k, f) /\ f \notin held
                /\ \A u \in Task, b \in Addr : m.pte[u][b].page = f => u = t /\ b = a
           /\ \A t \in Task, d \in Dir : m.dir[t][d] = f =>
                /\ NoPte(m, f) /\ NoSelf(k, f) /\ NoLoad(k, f) /\ NoArgs(k, f) /\ f \notin held
                /\ \A u \in Task, e \in Dir : m.dir[u][e] = f => u = t /\ e = d
           /\ \A t \in Task : k[t].self = f =>
                /\ NoPte(m, f) /\ NoDir(m, f) /\ NoLoad(k, f) /\ NoArgs(k, f) /\ f \notin held
                /\ \A u \in Task : k[u].self = f => u = t
           /\ \A t \in Task : k[t].load = f =>
                /\ NoPte(m, f) /\ NoDir(m, f) /\ NoSelf(k, f) /\ NoArgs(k, f) /\ f \notin held
                /\ \A u \in Task : k[u].load = f => u = t
           /\ \A t \in Task : k[t].args = f =>
                /\ NoPte(m, f) /\ NoDir(m, f) /\ NoSelf(k, f) /\ NoLoad(k, f) /\ f \notin held
                /\ \A u \in Task : k[u].args = f => u = t
           /\ f \in held =>
                NoPte(m, f) /\ NoDir(m, f) /\ NoSelf(k, f) /\ NoLoad(k, f) /\ NoArgs(k, f)
<1>1. PICK p, d, s, l, a \in Nat : Parts(m, k, f, p, d, s, l, a)
  BY CountSum
<1> DEFINE P == PteRefs(m, f)
           D == DirRefs(m, f)
           S == SelfRefs(k, f)
           L == LoadRefs(k, f)
           A == ArgsRefs(k, f)
<1>2. Holds(held, f) \in {0, 1} /\ (f \in held => Holds(held, f) = 1)
  BY DEF Holds
<1>3. p + d + s + l + a + Holds(held, f) <= 1
  BY <1>1, <1>2 DEF GoodAt, Parts, MemType
<1>4. IsFiniteSet(P) /\ IsFiniteSet(D) /\ IsFiniteSet(S) /\ IsFiniteSet(L) /\ IsFiniteSet(A)
  BY RefsFinite
<1>14. /\ p = Cardinality(P) /\ d = Cardinality(D) /\ s = Cardinality(S)
       /\ l = Cardinality(L) /\ a = Cardinality(A)
  BY <1>1 DEF Parts
<1> HIDE DEF P, D, S, L, A
<1>5. /\ p = 0 => P = {} 
      /\ d = 0 => D = {} 
      /\ s = 0 => S = {} 
      /\ l = 0 => L = {}
      /\ a = 0 => A = {}
      /\ P # {} => p >= 1 
      /\ D # {} => d >= 1
      /\ S # {} => s >= 1
      /\ L # {} => l >= 1
      /\ A # {} => a >= 1
  BY <1>14, <1>4, NoneOrOne
<1>6. /\ \A x, y \in P : x = y
      /\ \A x, y \in D : x = y
      /\ \A x, y \in S : x = y
      /\ \A x, y \in L : x = y
      /\ \A x, y \in A : x = y
  <2>1. p <= 1 /\ d <= 1 /\ s <= 1 /\ l <= 1 /\ a <= 1
    BY <1>2, <1>3
  <2> QED  BY <2>1, <1>14, <1>4, NoneOrOne
<1>7. /\ P # {} => D = {} /\ S = {} /\ L = {} /\ A = {} /\ f \notin held
      /\ D # {} => P = {} /\ S = {} /\ L = {} /\ A = {} /\ f \notin held
      /\ S # {} => P = {} /\ D = {} /\ L = {} /\ A = {} /\ f \notin held
      /\ L # {} => P = {} /\ D = {} /\ S = {} /\ A = {} /\ f \notin held
      /\ A # {} => P = {} /\ D = {} /\ S = {} /\ L = {} /\ f \notin held
      /\ f \in held => P = {} /\ D = {} /\ S = {} /\ L = {} /\ A = {}
  BY <1>2, <1>3, <1>5
<1>8. ASSUME NEW t \in Task, NEW b \in Addr, m.pte[t][b].page = f
      PROVE  /\ NoDir(m, f) /\ NoSelf(k, f) /\ NoLoad(k, f) /\ NoArgs(k, f) /\ f \notin held
             /\ \A u \in Task, c \in Addr : m.pte[u][c].page = f => u = t /\ c = b
  <2>1. <<t, b>> \in P
    BY <1>8, RefsAre DEF P
  <2>2. \A u \in Task, c \in Addr : m.pte[u][c].page = f => <<u, c>> = <<t, b>>
    BY <2>1, <1>6, RefsAre DEF P
  <2> QED  BY <2>1, <2>2, <1>7, RefsAre DEF P, D, S, L, A
<1>9. ASSUME NEW t \in Task, NEW e \in Dir, m.dir[t][e] = f
      PROVE  /\ NoPte(m, f) /\ NoSelf(k, f) /\ NoLoad(k, f) /\ NoArgs(k, f) /\ f \notin held
             /\ \A u \in Task, c \in Dir : m.dir[u][c] = f => u = t /\ c = e
  <2>1. <<t, e>> \in D
    BY <1>9, RefsAre DEF D
  <2>2. \A u \in Task, c \in Dir : m.dir[u][c] = f => <<u, c>> = <<t, e>>
    BY <2>1, <1>6, RefsAre DEF D
  <2> QED  BY <2>1, <2>2, <1>7, RefsAre DEF P, D, S, L, A
<1>10. ASSUME NEW t \in Task, k[t].self = f
       PROVE  /\ NoPte(m, f) /\ NoDir(m, f) /\ NoLoad(k, f) /\ NoArgs(k, f) /\ f \notin held
              /\ \A u \in Task : k[u].self = f => u = t
  <2>1. t \in S
    BY <1>10, RefsAre DEF S
  <2> QED  BY <2>1, <1>6, <1>7, RefsAre DEF P, D, S, L, A
<1>11. ASSUME NEW t \in Task, k[t].load = f
       PROVE  /\ NoPte(m, f) /\ NoDir(m, f) /\ NoSelf(k, f) /\ NoArgs(k, f) /\ f \notin held
              /\ \A u \in Task : k[u].load = f => u = t
  <2>1. t \in L
    BY <1>11, RefsAre DEF L
  <2> QED  BY <2>1, <1>6, <1>7, RefsAre DEF P, D, S, L, A
<1>12. ASSUME NEW t \in Task, k[t].args = f
       PROVE  /\ NoPte(m, f) /\ NoDir(m, f) /\ NoSelf(k, f) /\ NoLoad(k, f) /\ f \notin held
              /\ \A u \in Task : k[u].args = f => u = t
  <2>1. t \in A
    BY <1>12, RefsAre DEF A
  <2> QED  BY <2>1, <1>6, <1>7, RefsAre DEF P, D, S, L, A
<1>13. f \in held => NoPte(m, f) /\ NoDir(m, f) /\ NoSelf(k, f) /\ NoLoad(k, f) /\ NoArgs(k, f)
  BY <1>7, RefsAre DEF P, D, S, L, A
<1> QED
  BY <1>8, <1>9, <1>10, <1>11, <1>12, <1>13

(* How the number of references changes.                                   *)
LEMMA CountType ==
    ASSUME NEW m, NEW k, NEW f
    PROVE  Count(m, k, f) \in Nat
<1>1. PICK p, d, s, l, a \in Nat : Parts(m, k, f, p, d, s, l, a)
  BY CountSum
<1> QED
  BY <1>1 DEF Parts

LEMMA CountPte ==
    ASSUME NEW m, NEW n, NEW k, NEW t \in Task, NEW a \in Addr, NEW f,
           SamePagesBut(m, n, t, a), n.dir = m.dir
    PROVE  Count(n, k, f) = Count(m, k, f) - Bit(m.pte[t][a].page, f) + Bit(n.pte[t][a].page, f)
<1>1. PICK p, d, s, l, c \in Nat : Parts(m, k, f, p, d, s, l, c)
  BY CountSum
<1>2. PICK q, e, r, i, j \in Nat : Parts(n, k, f, q, e, r, i, j)
  BY CountSum
<1>3. DirRefs(n, f) = DirRefs(m, f)
  BY DEF DirRefs
<1>4. e = d /\ r = s /\ i = l /\ j = c
  BY <1>1, <1>2, <1>3 DEF Parts
<1>5. q = p - Bit(m.pte[t][a].page, f) + Bit(n.pte[t][a].page, f)
  BY <1>1, <1>2, PteEntry DEF Parts
<1>6. Count(m, k, f) = p + d + s + l + c /\ Count(n, k, f) = q + e + r + i + j
  BY <1>1, <1>2 DEF Parts
<1>7. Bit(m.pte[t][a].page, f) \in {0, 1} /\ Bit(n.pte[t][a].page, f) \in {0, 1}
  BY DEF Bit
<1> QED
  BY <1>4, <1>5, <1>6, <1>7

LEMMA CountDir ==
    ASSUME NEW m, NEW n, NEW k, NEW t \in Task, NEW b \in Dir, NEW f,
           SameTablesBut(m, n, t, b), n.pte = m.pte
    PROVE  Count(n, k, f) = Count(m, k, f) - Bit(m.dir[t][b], f) + Bit(n.dir[t][b], f)
<1>1. PICK p, d, s, l, c \in Nat : Parts(m, k, f, p, d, s, l, c)
  BY CountSum
<1>2. PICK q, e, r, i, j \in Nat : Parts(n, k, f, q, e, r, i, j)
  BY CountSum
<1>3. PteRefs(n, f) = PteRefs(m, f)
  BY DEF PteRefs
<1>4. q = p /\ r = s /\ i = l /\ j = c
  BY <1>1, <1>2, <1>3 DEF Parts
<1>5. e = d - Bit(m.dir[t][b], f) + Bit(n.dir[t][b], f)
  BY <1>1, <1>2, DirEntry DEF Parts
<1>6. Count(m, k, f) = p + d + s + l + c /\ Count(n, k, f) = q + e + r + i + j
  BY <1>1, <1>2 DEF Parts
<1>7. Bit(m.dir[t][b], f) \in {0, 1} /\ Bit(n.dir[t][b], f) \in {0, 1}
  BY DEF Bit
<1> QED
  BY <1>4, <1>5, <1>6, <1>7

(* The references of a task's page tables, and of the task.                *)
RowRefs(m, t, f) ==
    Cardinality(Hits(Addr, Pages(m)[t], f)) + Cardinality(Hits(Dir, m.dir[t], f))
TaskRefs(r, f) == Bit(r.self, f) + Bit(r.load, f) + Bit(r.args, f)

LEMMA CountRow ==
    ASSUME NEW m, NEW n, NEW k, NEW t \in Task, NEW f,
           ButRow(Addr, Pages(m), Pages(n), t), ButRow(Dir, m.dir, n.dir, t)
    PROVE  /\ RowRefs(m, t, f) \in Nat /\ RowRefs(n, t, f) \in Nat
           /\ Count(n, k, f) = Count(m, k, f) - RowRefs(m, t, f) + RowRefs(n, t, f)
<1>1. PICK p, d, s, l, c \in Nat : Parts(m, k, f, p, d, s, l, c)
  BY CountSum
<1>2. PICK q, e, r, i, j \in Nat : Parts(n, k, f, q, e, r, i, j)
  BY CountSum
<1>3. r = s /\ i = l /\ j = c
  BY <1>1, <1>2 DEF Parts
<1> DEFINE x == Cardinality(Hits(Addr, Pages(m)[t], f))
           y == Cardinality(Hits(Addr, Pages(n)[t], f))
           v == Cardinality(Hits(Dir, m.dir[t], f))
           w == Cardinality(Hits(Dir, n.dir[t], f))
<1>4. x \in Nat /\ y \in Nat /\ q = p - x + y
  BY <1>1, <1>2, PteRow DEF Parts
<1>5. v \in Nat /\ w \in Nat /\ e = d - v + w
  BY <1>1, <1>2, DirRow DEF Parts
<1>6. Count(m, k, f) = p + d + s + l + c /\ Count(n, k, f) = q + e + r + i + j
  BY <1>1, <1>2 DEF Parts
<1>7. RowRefs(m, t, f) = x + v /\ RowRefs(n, t, f) = y + w
  BY DEF RowRefs
<1> HIDE DEF x, y, v, w
<1> QED
  BY <1>3, <1>4, <1>5, <1>6, <1>7

LEMMA CountTask ==
    ASSUME NEW m, NEW k, NEW l, NEW t \in Task, NEW f, OthersSame(k, l, t)
    PROVE  /\ TaskRefs(k[t], f) \in Nat /\ TaskRefs(l[t], f) \in Nat
           /\ Count(m, l, f) = Count(m, k, f) - TaskRefs(k[t], f) + TaskRefs(l[t], f)
<1>1. PICK p, d, s, i, c \in Nat : Parts(m, k, f, p, d, s, i, c)
  BY CountSum
<1>2. PICK q, e, r, j, b \in Nat : Parts(m, l, f, q, e, r, j, b)
  BY CountSum
<1>3. p = q /\ d = e
  BY <1>1, <1>2 DEF Parts
<1>4. /\ r = s - Bit(k[t].self, f) + Bit(l[t].self, f)
      /\ j = i - Bit(k[t].load, f) + Bit(l[t].load, f)
      /\ b = c - Bit(k[t].args, f) + Bit(l[t].args, f)
  BY <1>1, <1>2, TaskEntry DEF Parts
<1>5. Count(m, k, f) = p + d + s + i + c /\ Count(m, l, f) = q + e + r + j + b
  BY <1>1, <1>2 DEF Parts
<1>6. /\ Bit(k[t].self, f) \in {0, 1} /\ Bit(l[t].self, f) \in {0, 1}
      /\ Bit(k[t].load, f) \in {0, 1} /\ Bit(l[t].load, f) \in {0, 1}
      /\ Bit(k[t].args, f) \in {0, 1} /\ Bit(l[t].args, f) \in {0, 1}
  BY DEF Bit
<1>7. /\ TaskRefs(k[t], f) = Bit(k[t].self, f) + Bit(k[t].load, f) + Bit(k[t].args, f)
      /\ TaskRefs(l[t], f) = Bit(l[t].self, f) + Bit(l[t].load, f) + Bit(l[t].args, f)
  BY DEF TaskRefs
<1> DEFINE ks == Bit(k[t].self, f)
           kl == Bit(k[t].load, f)
           ka == Bit(k[t].args, f)
           ls == Bit(l[t].self, f)
           ll == Bit(l[t].load, f)
           la == Bit(l[t].args, f)
           x == TaskRefs(k[t], f)
           y == TaskRefs(l[t], f)
<1>8. /\ r = s - ks + ls /\ j = i - kl + ll /\ b = c - ka + la
      /\ x = ks + kl + ka /\ y = ls + ll + la
      /\ ks \in Nat /\ kl \in Nat /\ ka \in Nat /\ ls \in Nat /\ ll \in Nat /\ la \in Nat
  BY <1>4, <1>6, <1>7
<1> HIDE DEF ks, kl, ka, ls, ll, la, x, y
<1>9. x \in Nat /\ y \in Nat /\ Count(m, l, f) = Count(m, k, f) - x + y
  BY <1>3, <1>5, <1>8
<1> QED
  BY <1>9 DEF x, y

-----------------------------------------------------------------------------
(***************************************************************************)
(* The accounts stay right.                                                *)
(***************************************************************************)
SamePages(m, n) == \A t \in Task, a \in Addr : n.pte[t][a].page = m.pte[t][a].page

(* A page becomes writable only when it has one user.                      *)
Granted(m, n) ==
    \A t \in Task, a \in Addr :
        n.pte[t][a].rw => \/ m.pte[t][a].rw
                          \/ m.pte[t][a].page \in Frame /\ m.map[m.pte[t][a].page] = 1

LEMMA HoldsType ==
    ASSUME NEW held, NEW f
    PROVE  Holds(held, f) \in {0, 1} /\ (Holds(held, f) = 1 <=> f \in held)
BY DEF Holds

LEMMA SameCount ==
    ASSUME NEW m, NEW n, NEW k, NEW f, SamePages(m, n), n.dir = m.dir
    PROVE  Count(n, k, f) = Count(m, k, f)
<1>1. PteRefs(n, f) = PteRefs(m, f)
  <2>1. \A x \in Task \X Addr : x[1] \in Task /\ x[2] \in Addr
    OBVIOUS
  <2> QED  BY <2>1 DEF PteRefs, SamePages
<1>2. DirRefs(n, f) = DirRefs(m, f)
  BY DEF DirRefs
<1> QED
  BY <1>1, <1>2 DEF Count

LEMMA GoodQuiet ==
    ASSUME NEW m \in MemType, NEW n \in MemType, NEW k, NEW held, NEW tr, Good(m, k, held, tr),
           n.map = m.map, n.dir = m.dir, SamePages(m, n), Granted(m, n)
    PROVE  Good(n, k, held, tr)
<1> SUFFICES ASSUME NEW f \in Frame PROVE GoodAt(n, k, held, tr, f)
  BY DEF Good
<1>1. GoodAt(m, k, held, tr, f)
  BY DEF Good
<1>2. Count(n, k, f) = Count(m, k, f)
  BY SameCount
<1>3. m.map[f] # 1 /\ NoWriter(m, f) => NoWriter(n, f)
  BY DEF NoWriter, Granted, SamePages
<1>4. NoDir(m, f) => NoDir(n, f)
  BY DEF NoDir
<1> QED
  BY <1>1, <1>2, <1>3, <1>4 DEF GoodAt, NotSole

(* get_free_page.                                                          *)
LEMMA FreePageIs ==
    ASSUME NEW m
    PROVE  /\ Free(m) \subseteq Frame
           /\ FreePage(m) # 0 <=> Free(m) # {}
           /\ FreePage(m) # 0 => FreePage(m) \in Frame /\ m.map[FreePage(m)] = 0
           /\ FreePage(m) \in Frame \cup {0}
BY MaxPage, Numbers DEF FreePage, Free

LEMMA TakeFields ==
    ASSUME NEW m \in MemType, FreePage(m) # 0
    PROVE  /\ get_free_page(m) \in MemType
           /\ get_free_page(m).map = [m.map EXCEPT ![FreePage(m)] = 1]
           /\ get_free_page(m).data = [m.data EXCEPT ![FreePage(m)] = Zero]
           /\ get_free_page(m).dir = m.dir /\ get_free_page(m).pte = m.pte
<1>1. FreePage(m) \in Frame /\ Zero \in Value
  BY FreePageIs DEF Value
<1>2. get_free_page(m) = [m EXCEPT !.map[FreePage(m)] = 1, !.data[FreePage(m)] = Zero]
  BY DEF get_free_page
<1> DEFINE h == FreePage(m)
<1> HIDE DEF h
<1>3. get_free_page(m) = [m EXCEPT !.map[h] = 1, !.data[h] = Zero] /\ h \in Frame
  BY <1>1, <1>2 DEF h
<1>4. /\ get_free_page(m) \in MemType
      /\ get_free_page(m).map = [m.map EXCEPT ![h] = 1]
      /\ get_free_page(m).data = [m.data EXCEPT ![h] = Zero]
      /\ get_free_page(m).dir = m.dir /\ get_free_page(m).pte = m.pte
  <2>1. /\ m = [map |-> m.map, dir |-> m.dir, pte |-> m.pte, data |-> m.data]
        /\ m.map \in [Frame -> Int] /\ m.data \in [Frame -> Value]
        /\ m.dir \in [Task -> [Dir -> Frame \cup {0}]] /\ m.pte \in [Task -> [Addr -> Pte]]
    BY DEF MemType
  <2>2. get_free_page(m) = [map |-> [m.map EXCEPT ![h] = 1], dir |-> m.dir, pte |-> m.pte,
                            data |-> [m.data EXCEPT ![h] = Zero]]
    BY <1>3, <2>1
  <2> QED  BY <2>1, <2>2, <1>1, <1>3 DEF MemType
<1> QED
  BY <1>4 DEF h

LEMMA GoodTake ==
    ASSUME NEW m \in MemType, NEW k, NEW held, NEW tr, Good(m, k, held, tr), FreePage(m) # 0
    PROVE  /\ Good(get_free_page(m), k, held \cup {FreePage(m)}, tr)
           /\ FreePage(m) \notin held /\ NoPte(m, FreePage(m)) /\ NotSole(m, k, FreePage(m))
<1> DEFINE h == FreePage(m)
           n == get_free_page(m)
<1>1. h \in Frame /\ m.map[h] = 0
  BY FreePageIs
<1>2. n.map = [m.map EXCEPT ![h] = 1] /\ n.dir = m.dir /\ n.pte = m.pte /\ n \in MemType
  BY TakeFields
<1> HIDE DEF h, n
<1>3. /\ NoPte(m, h) /\ NoDir(m, h) /\ NoSelf(k, h) /\ NoLoad(k, h) /\ NoArgs(k, h)
      /\ h \notin held
  BY <1>1, FreeUnused DEF Good
<1>4. NotSole(m, k, h)
  BY <1>3 DEF NotSole, NoWriter, NoPte
<1>5. ASSUME NEW f \in Frame PROVE GoodAt(n, k, held \cup {h}, tr, f)
  <2>1. GoodAt(m, k, held, tr, f) /\ Count(m, k, f) \in Nat
    BY CountType DEF Good
  <2>2. Count(n, k, f) = Count(m, k, f)
    BY <1>2, SameCount DEF SamePages
  <2>3. NotSole(m, k, f) => NotSole(n, k, f)
    BY <1>2 DEF NotSole, NoWriter, NoDir
  <2>4. CASE f = h
    <3>1. n.map[f] = 1 /\ Holds(held \cup {h}, f) = 1 /\ m.map[f] = 0
      BY <2>4, <1>1, <1>2 DEF Holds, MemType
    <3>2. Count(m, k, f) = 0
      BY <3>1, <2>1, HoldsType DEF GoodAt
    <3> QED  BY <3>1, <3>2, <2>2 DEF GoodAt
  <2>5. CASE f # h
    <3>1. n.map[f] = m.map[f]
      BY <2>5, <1>2 DEF MemType
    <3>2. Holds(held \cup {h}, f) = Holds(held, f)
      BY <2>5 DEF Holds
    <3> QED  BY <3>1, <3>2, <2>1, <2>2, <2>3, <2>5 DEF GoodAt
  <2> QED  BY <2>4, <2>5
<1> QED
  BY <1>3, <1>4, <1>5 DEF Good, h, n

(* A page for a page table.                                                *)
LEMMA GoodTable ==
    ASSUME NEW m \in MemType, NEW k, NEW held, NEW tr, Good(m, k, held, tr),
           NEW h \in held, h \in Frame, NEW t \in Task, NEW d \in Dir, m.dir[t][d] = 0,
           NEW n \in MemType, n.dir = [m.dir EXCEPT ![t][d] = h], n.pte = m.pte, n.map = m.map
    PROVE  Good(n, k, held \ {h}, tr)
<1> SUFFICES ASSUME NEW f \in Frame PROVE GoodAt(n, k, held \ {h}, tr, f)
  BY DEF Good
<1>0. n.pte = m.pte
  OBVIOUS
<1>1. GoodAt(m, k, held, tr, f) /\ Count(m, k, f) \in Nat
  BY CountType DEF Good
<1>2. SameTablesBut(m, n, t, d) /\ n.dir[t][d] = h
  BY DEF SameTablesBut, MemType
<1>3. Count(n, k, f) = Count(m, k, f) + Bit(h, f)
  <2>1. Count(n, k, f) = Count(m, k, f) - Bit(m.dir[t][d], f) + Bit(n.dir[t][d], f)
    BY ONLY <1>0, <1>2, CountDir
  <2>2. Bit(m.dir[t][d], f) = 0 /\ Bit(h, f) \in {0, 1}
    BY Numbers DEF Bit
  <2> QED  BY <2>1, <2>2, <1>1, <1>2
<1>4. NoWriter(m, f) => NoWriter(n, f)
  BY DEF NoWriter
<1>5. CASE f = h
  <2>1. Bit(h, f) = 1 /\ Holds(held, f) = 1 /\ Holds(held \ {h}, f) = 0
    BY <1>5 DEF Bit, Holds
  <2> QED  BY <2>1, <1>1, <1>3, <1>5 DEF GoodAt
<1>6. CASE f # h
  <2>1. Bit(h, f) = 0 /\ Holds(held \ {h}, f) = Holds(held, f)
    BY <1>6 DEF Bit, Holds
  <2>2. NoDir(m, f) => NoDir(n, f)
    BY <1>6, <1>2 DEF NoDir, SameTablesBut
  <2> QED  BY <2>1, <2>2, <1>1, <1>3, <1>4, <1>6 DEF GoodAt, NotSole
<1> QED
  BY <1>5, <1>6

(* An entry of a page table is set.                                        *)
EntrySet(m, n, t, a, e) ==
    /\ n.pte[t][a] = e
    /\ \A u \in Task, b \in Addr : u # t \/ b # a => n.pte[u][b] = m.pte[u][b]

(* A page for an address.                                                  *)
LEMMA GoodMapped ==
    ASSUME NEW m \in MemType, NEW k, NEW held, NEW tr, Good(m, k, held, tr),
           NEW h \in held, h \in Frame, NEW t \in Task, NEW a \in Addr, m.pte[t][a].page = 0,
           NEW e \in Pte, e.page = h,
           NEW n \in MemType, EntrySet(m, n, t, a, e), n.dir = m.dir, n.map = m.map
    PROVE  Good(n, k, held \ {h}, tr)
<1> SUFFICES ASSUME NEW f \in Frame PROVE GoodAt(n, k, held \ {h}, tr, f)
  BY DEF Good
<1>0. n.dir = m.dir
  OBVIOUS
<1>1. GoodAt(m, k, held, tr, f) /\ Count(m, k, f) \in Nat
  BY CountType DEF Good
<1>2. /\ n.pte[t][a] = e
      /\ \A u \in Task, b \in Addr : u # t \/ b # a => n.pte[u][b] = m.pte[u][b]
  BY DEF EntrySet
<1>3. Count(n, k, f) = Count(m, k, f) + Bit(h, f)
  <2>1. SamePagesBut(m, n, t, a)
    BY <1>2 DEF SamePagesBut
  <2>2. Count(n, k, f) = Count(m, k, f) - Bit(m.pte[t][a].page, f) + Bit(n.pte[t][a].page, f)
    BY ONLY <1>0, <2>1, CountPte
  <2>3. Bit(m.pte[t][a].page, f) = 0 /\ Bit(h, f) \in {0, 1}
    BY Numbers DEF Bit
  <2> QED  BY <2>2, <2>3, <1>1, <1>2
<1>4. NoDir(m, f) => NoDir(n, f)
  BY DEF NoDir
<1>5. CASE f = h
  <2>1. Bit(h, f) = 1 /\ Holds(held, f) = 1 /\ Holds(held \ {h}, f) = 0
    BY <1>5 DEF Bit, Holds
  <2> QED  BY <2>1, <1>1, <1>3, <1>5 DEF GoodAt
<1>6. CASE f # h
  <2>1. Bit(h, f) = 0 /\ Holds(held \ {h}, f) = Holds(held, f)
    BY <1>6 DEF Bit, Holds
  <2>2. NoWriter(m, f) => NoWriter(n, f)
    BY <1>6, <1>2 DEF NoWriter
  <2> QED  BY <2>1, <2>2, <1>1, <1>3, <1>4, <1>6 DEF GoodAt, NotSole
<1> QED
  BY <1>5, <1>6

(* A page is given back, or lost.                                          *)
LEMMA GoodFree ==
    ASSUME NEW m \in MemType, NEW k, NEW held, NEW tr, Good(m, k, held, tr),
           NEW h \in held, h \in Frame,
           NEW n \in MemType, n.map = [m.map EXCEPT ![h] = @ - 1], n.dir = m.dir, n.pte = m.pte
    PROVE  Good(n, k, held \ {h}, tr)
<1>0. n.dir = m.dir /\ n.pte = m.pte
  OBVIOUS
<1> SUFFICES ASSUME NEW f \in Frame PROVE GoodAt(n, k, held \ {h}, tr, f)
  BY DEF Good
<1>1. GoodAt(m, k, held, tr, f) /\ Count(m, k, f) \in Nat
  BY CountType DEF Good
<1>2. Count(n, k, f) = Count(m, k, f)
  <2>1. SamePages(m, n)
    BY <1>0 DEF SamePages
  <2> QED  BY ONLY <1>0, <2>1, SameCount
<1>3. NotSole(m, k, f) => NotSole(n, k, f)
  BY <1>0 DEF NotSole, NoWriter, NoDir
<1>4. CASE f = h
  <2>1. Holds(held, f) = 1 /\ Holds(held \ {h}, f) = 0 /\ f \in held
    BY <1>4 DEF Holds
  <2>2. m.map[f] = 1 /\ n.map[f] = m.map[f] - 1
    BY <2>1, <1>1, <1>4 DEF GoodAt, MemType
  <2>3. NotSole(m, k, f)
    <3>1. NoPte(m, f) /\ NoDir(m, f) /\ NoSelf(k, f) /\ NoLoad(k, f) /\ NoArgs(k, f)
      BY <2>1, <2>2, <1>1, OneUser
    <3> QED  BY <3>1 DEF NotSole, NoWriter, NoPte
  <2>4. f \notin held \ {h}
    BY <1>4
  <2> QED  BY <2>1, <2>2, <2>3, <2>4, <1>1, <1>2, <1>3 DEF GoodAt
<1>5. CASE f # h
  <2>1. Holds(held \ {h}, f) = Holds(held, f) /\ n.map[f] = m.map[f]
    BY <1>5 DEF Holds, MemType
  <2> QED  BY <2>1, <1>1, <1>2, <1>3 DEF GoodAt
<1> QED
  BY <1>4, <1>5

LEMMA GoodLost ==
    ASSUME NEW m \in MemType, NEW k, NEW held, NEW tr, Good(m, k, held, tr), NEW ur,
           "oom" \in tr => "oom" \in ur, held = {} \/ "oom" \in ur
    PROVE  Good(m, k, {}, ur)
<1> SUFFICES ASSUME NEW f \in Frame PROVE GoodAt(m, k, {}, ur, f)
  BY DEF Good
<1>1. GoodAt(m, k, held, tr, f) /\ Count(m, k, f) \in Nat /\ m.map[f] \in Int
  BY CountType DEF Good, MemType
<1>2. Holds(held, f) \in {0, 1} /\ Holds({}, f) = 0 /\ (held = {} => Holds(held, f) = 0)
  BY DEF Holds
<1> QED
  BY <1>1, <1>2 DEF GoodAt

(* What a task knows of, becomes known to or is forgotten by the task.     *)
Moves(r, s, held, held2) ==
    \A f \in Frame : TaskRefs(s, f) + Holds(held2, f) = TaskRefs(r, f) + Holds(held, f)

LEMMA NoRefs ==
    ASSUME NEW r, NEW f
    PROVE  /\ TaskRefs(r, f) \in Nat
           /\ TaskRefs(r, f) = 0 <=> r.self # f /\ r.load # f /\ r.args # f
BY DEF TaskRefs, Bit

LEMMA GoodTask ==
    ASSUME NEW m \in MemType, NEW k, NEW held, NEW tr, Good(m, k, held, tr),
           NEW l, NEW t \in Task, OthersSame(k, l, t), NEW held2, Moves(k[t], l[t], held, held2)
    PROVE  Good(m, l, held2, tr)
<1> SUFFICES ASSUME NEW f \in Frame PROVE GoodAt(m, l, held2, tr, f)
  BY DEF Good
<1>1. GoodAt(m, k, held, tr, f) /\ Count(m, k, f) \in Nat
  BY CountType DEF Good
<1>2. Count(m, l, f) = Count(m, k, f) - TaskRefs(k[t], f) + TaskRefs(l[t], f)
  BY CountTask
<1>3. TaskRefs(l[t], f) + Holds(held2, f) = TaskRefs(k[t], f) + Holds(held, f)
  BY DEF Moves
<1>4. TaskRefs(l[t], f) \in Nat /\ TaskRefs(k[t], f) \in Nat /\ Count(m, l, f) \in Nat
  BY NoRefs, CountType
<1>5. Holds(held, f) \in {0, 1} /\ Holds(held2, f) \in {0, 1}
  BY HoldsType
<1>6. Count(m, l, f) + Holds(held2, f) = Count(m, k, f) + Holds(held, f)
  BY <1>1, <1>2, <1>3, <1>4, <1>5
<1>7. NotSole(m, k, f) /\ f \notin held => NotSole(m, l, f) /\ f \notin held2
  <2> SUFFICES ASSUME NotSole(m, k, f), f \notin held
               PROVE  NotSole(m, l, f) /\ f \notin held2
    OBVIOUS
  <2>1. TaskRefs(k[t], f) = 0 /\ Holds(held, f) = 0
    BY NoRefs, HoldsType DEF NotSole, NoSelf, NoLoad, NoArgs
  <2>2. TaskRefs(l[t], f) = 0 /\ Holds(held2, f) = 0
    BY <2>1, <1>3, <1>4, <1>5
  <2>3. l[t].self # f /\ l[t].load # f /\ l[t].args # f
    BY <2>2, NoRefs
  <2> QED  BY <2>2, <2>3, HoldsType DEF NotSole, NoSelf, NoLoad, NoArgs, OthersSame
<1> QED
  BY <1>1, <1>6, <1>7 DEF GoodAt

(* Copy on write: the entry loses a page that others use.                  *)
LEMMA GoodCopied ==
    ASSUME NEW m \in MemType, NEW k, NEW held, NEW tr, Good(m, k, held, tr),
           NEW h \in held, h \in Frame, NEW t \in Task, NEW a \in Addr,
           NEW old, old = m.pte[t][a].page, old # 0, ~Private(m, old),
           NEW e \in Pte, e.page = h,
           NEW n \in MemType, EntrySet(m, n, t, a, e), n.dir = m.dir,
           n.map = IF old \in Frame THEN [m.map EXCEPT ![old] = @ - 1] ELSE m.map
    PROVE  Good(n, k, held \ {h}, tr)
<1>0. n.dir = m.dir
  OBVIOUS
<1> SUFFICES ASSUME NEW f \in Frame PROVE GoodAt(n, k, held \ {h}, tr, f)
  BY DEF Good
<1>1. GoodAt(m, k, held, tr, f) /\ Count(m, k, f) \in Nat /\ m.map[f] \in Int
  BY CountType DEF Good, MemType
<1>2. /\ n.pte[t][a] = e
      /\ \A u \in Task, b \in Addr : u # t \/ b # a => n.pte[u][b] = m.pte[u][b]
  BY DEF EntrySet
<1>3. Count(n, k, f) = Count(m, k, f) - Bit(old, f) + Bit(h, f)
  <2>1. SamePagesBut(m, n, t, a)
    BY <1>2 DEF SamePagesBut
  <2>2. Count(n, k, f) = Count(m, k, f) - Bit(m.pte[t][a].page, f) + Bit(n.pte[t][a].page, f)
    BY ONLY <1>0, <2>1, CountPte
  <2> QED  BY <2>2, <1>1, <1>2
<1>4. NoDir(m, f) => NoDir(n, f)
  BY DEF NoDir
<1>5. n.map[f] = m.map[f] - Bit(old, f)
  BY <1>1 DEF Bit, MemType
<1>6. old # h
  <2>1. GoodAt(m, k, held, tr, h) /\ m.map[h] = 1
    BY DEF Good, GoodAt
  <2> QED  BY <2>1, OneUser DEF NoPte
<1>7. CASE f = h
  <2>1. /\ Bit(h, f) = 1 /\ Bit(old, f) = 0
        /\ Holds(held, f) = 1 /\ Holds(held \ {h}, f) = 0
    BY <1>6, <1>7 DEF Bit, Holds
  <2> QED  BY <2>1, <1>1, <1>3, <1>5, <1>7 DEF GoodAt
<1>8. CASE f # h
  <2>1. Bit(h, f) = 0 /\ Bit(old, f) \in {0, 1} /\ Holds(held \ {h}, f) = Holds(held, f)
    BY <1>8 DEF Bit, Holds
  <2>2. NoWriter(m, f) => NoWriter(n, f)
    BY <1>8, <1>2 DEF NoWriter
  <2>3. old = f => m.map[f] # 1
    BY Numbers DEF Private
  <2>4. old # f => n.map[f] = m.map[f]
    BY <1>5, <1>1 DEF Bit
  <2>5. (NotSole(n, k, f) /\ f \notin held \ {h}) \/ n.map[f] = 1
    BY <2>2, <2>3, <2>4, <1>1, <1>4, <1>8 DEF GoodAt, NotSole
  <2>6. Holds(held, f) \in {0, 1}
    BY HoldsType
  <2> QED  BY <2>1, <2>5, <2>6, <1>1, <1>3, <1>5 DEF GoodAt
<1> QED
  BY <1>7, <1>8

(* try_to_share: two entries for a page, neither of them writable.         *)
SharedSet(m, n, p, t, a, e) ==
    /\ n.pte[t][a] = e /\ n.pte[p][a] = e
    /\ \A u \in Task, b \in Addr : (u # t /\ u # p) \/ b # a => n.pte[u][b] = m.pte[u][b]
    /\ n.map = [m.map EXCEPT ![e.page] = @ + 1]

LEMMA GoodShared ==
    ASSUME NEW m \in MemType, NEW k, NEW held, NEW tr, Good(m, k, held, tr),
           NEW p \in Task, NEW t \in Task, t # p, NEW a \in Addr,
           NEW e \in Pte, ~e.rw, e.page = m.pte[p][a].page, e.page \in Frame,
           m.pte[t][a].page = 0,
           NEW n \in MemType, n.dir = m.dir, SharedSet(m, n, p, t, a, e)
    PROVE  Good(n, k, held, tr)
<1>0. n.dir = m.dir /\ m.pte[p][a].page = e.page
  OBVIOUS
<1> SUFFICES ASSUME NEW f \in Frame PROVE GoodAt(n, k, held, tr, f)
  BY DEF Good
<1>1. GoodAt(m, k, held, tr, f) /\ Count(m, k, f) \in Nat /\ m.map[f] \in Int
  BY CountType DEF Good, MemType
<1>2. /\ n.pte[t][a] = e /\ n.pte[p][a] = e
      /\ \A u \in Task, b \in Addr :
            (u # t /\ u # p) \/ b # a => n.pte[u][b] = m.pte[u][b]
  BY DEF SharedSet
<1>3. Count(n, k, f) = Count(m, k, f) + Bit(e.page, f)
  <2>1. SamePagesBut(m, n, t, a)
    BY <1>2 DEF SamePagesBut
  <2>2. Count(n, k, f) = Count(m, k, f) - Bit(m.pte[t][a].page, f) + Bit(n.pte[t][a].page, f)
    BY ONLY <1>0, <2>1, CountPte
  <2>3. Bit(m.pte[t][a].page, f) = 0 /\ Bit(e.page, f) \in {0, 1}
    BY Numbers DEF Bit
  <2> QED  BY <2>2, <2>3, <1>1, <1>2
<1>4. n.map[f] = m.map[f] + Bit(e.page, f)
  BY <1>1 DEF Bit, MemType, SharedSet
<1>5. NotSole(m, k, f) => NotSole(n, k, f)
  <2>1. NoWriter(m, f) => NoWriter(n, f)
    BY <1>2 DEF NoWriter
  <2> QED  BY <2>1 DEF NotSole, NoDir
<1>6. Bit(e.page, f) \in {0, 1} /\ Holds(held, f) \in {0, 1} /\ (e.page # f => Bit(e.page, f) = 0)
  BY HoldsType DEF Bit
<1>7. (NotSole(n, k, f) /\ f \notin held) \/ n.map[f] = 1
  <2>1. CASE m.map[f] # 1
    BY <2>1, <1>1, <1>5 DEF GoodAt
  <2>2. CASE m.map[f] = 1 /\ e.page # f
    BY <2>2, <1>4, <1>6
  <2>3. CASE m.map[f] = 1 /\ e.page = f
    <3>1. /\ NoDir(m, f) /\ NoSelf(k, f) /\ NoLoad(k, f) /\ NoArgs(k, f) /\ f \notin held
          /\ \A u \in Task, b \in Addr : m.pte[u][b].page = f => u = p /\ b = a
      BY ONLY <2>3, <1>0, <1>1, OneUser
    <3>2. NoWriter(n, f)
      BY <3>1, <1>2 DEF NoWriter
    <3> QED  BY <3>1, <3>2 DEF NotSole, NoDir
  <2> QED  BY <2>1, <2>2, <2>3
<1> QED
  BY <1>1, <1>3, <1>4, <1>6, <1>7 DEF GoodAt

(* The tables of a task are freed.                                         *)
Empty(m, t) == /\ \A a \in Addr : m.pte[t][a].page = 0
               /\ \A d \in Dir : m.dir[t][d] = 0

LEMMA RowRefsAre ==
    ASSUME NEW m, NEW t \in Task, NEW f \in Frame
    PROVE  /\ RowRefs(m, t, f) \in Nat
           /\ RowRefs(m, t, f) = Cardinality({a \in Addr : m.pte[t][a].page = f})
                                 + Cardinality({d \in Dir : m.dir[t][d] = f})
           /\ Empty(m, t) => RowRefs(m, t, f) = 0
           /\ RowRefs(m, t, f) # 0 => \/ \E a \in Addr : m.pte[t][a].page = f
                                      \/ \E d \in Dir : m.dir[t][d] = f
<1> DEFINE A == {a \in Addr : m.pte[t][a].page = f}
           D == {d \in Dir : m.dir[t][d] = f}
<1>1. Hits(Addr, Pages(m)[t], f) = A /\ Hits(Dir, m.dir[t], f) = D
  BY DEF Hits, Pages
<1>2. IsFiniteSet(A) /\ IsFiniteSet(D)
  <2>1. A \in SUBSET Addr /\ D \in SUBSET Dir
    OBVIOUS
  <2> HIDE DEF A, D
  <2> QED  BY <2>1, AllFinite, FS_Subset
<1>3. /\ Empty(m, t) => A = {} /\ D = {}
      /\ A # {} => \E a \in Addr : m.pte[t][a].page = f
      /\ D # {} => \E d \in Dir : m.dir[t][d] = f
  BY Numbers DEF Empty
<1>4. RowRefs(m, t, f) = Cardinality(A) + Cardinality(D)
  BY <1>1 DEF RowRefs
<1>5. /\ Cardinality(A) \in Nat /\ Cardinality(D) \in Nat
      /\ A = {} => Cardinality(A) = 0
      /\ D = {} => Cardinality(D) = 0
  BY <1>2, FS_CardinalityType, FS_EmptySet
<1> HIDE DEF A, D
<1>6. RowRefs(m, t, f) \in Nat /\ (RowRefs(m, t, f) # 0 => A # {} \/ D # {})
      /\ (A = {} /\ D = {} => RowRefs(m, t, f) = 0)
  BY <1>4, <1>5
<1> QED
  BY <1>3, <1>4, <1>6 DEF A, D

LEMMA MemIs ==
    ASSUME NEW m \in MemType
    PROVE  /\ m = [map |-> m.map, dir |-> m.dir, pte |-> m.pte, data |-> m.data]
           /\ m.map \in [Frame -> Int] /\ m.data \in [Frame -> Value]
           /\ m.dir \in [Task -> [Dir -> Frame \cup {0}]] /\ m.pte \in [Task -> [Addr -> Pte]]
BY DEF MemType

LEMMA AbsentType ==
    Absent \in Pte /\ Absent.page = 0 /\ Absent.rw = FALSE /\ Absent.dirty = FALSE
BY DEF Absent, Pte

LEMMA FreeTablesFields ==
    ASSUME NEW m \in MemType, NEW t \in Task
    PROVE  /\ free_page_tables(m, t) \in MemType
           /\ \A f \in Frame : free_page_tables(m, t).map[f] = m.map[f] - RowRefs(m, t, f)
           /\ free_page_tables(m, t).pte = [m.pte EXCEPT ![t] = [a \in Addr |-> Absent]]
           /\ free_page_tables(m, t).dir = [m.dir EXCEPT ![t] = [d \in Dir |-> 0]]
           /\ free_page_tables(m, t).data = m.data
<1> DEFINE x == [f \in Frame |-> m.map[f]
                    - Cardinality({a \in Addr : m.pte[t][a].page = f})
                    - Cardinality({d \in Dir : m.dir[t][d] = f})]
           row == [a \in Addr |-> Absent]
           top == [d \in Dir |-> 0]
           p == [m.pte EXCEPT ![t] = row]
           e == [m.dir EXCEPT ![t] = top]
<1>1. ASSUME NEW f \in Frame
      PROVE  /\ Cardinality({a \in Addr : m.pte[t][a].page = f}) \in Nat
             /\ Cardinality({d \in Dir : m.dir[t][d] = f}) \in Nat
  <2>1. /\ {a \in Addr : m.pte[t][a].page = f} \in SUBSET Addr
        /\ {d \in Dir : m.dir[t][d] = f} \in SUBSET Dir
    OBVIOUS
  <2> QED  BY <2>1, AllFinite, FS_Subset, FS_CardinalityType
<1>2. \A f \in Frame : x[f] \in Int /\ x[f] = m.map[f] - RowRefs(m, t, f)
  <2> SUFFICES ASSUME NEW f \in Frame PROVE x[f] \in Int /\ x[f] = m.map[f] - RowRefs(m, t, f)
    OBVIOUS
  <2> DEFINE i == Cardinality({a \in Addr : m.pte[t][a].page = f})
             j == Cardinality({d \in Dir : m.dir[t][d] = f})
  <2>1. x[f] = m.map[f] - i - j /\ RowRefs(m, t, f) = i + j /\ m.map[f] \in Int
    BY RowRefsAre, MemIs
  <2>2. i \in Nat /\ j \in Nat
    BY <1>1
  <2> HIDE DEF i, j, x
  <2> QED  BY <2>1, <2>2
<1>3. x \in [Frame -> Int]
  BY <1>2
<1>4. p \in [Task -> [Addr -> Pte]]
  BY MemIs, AbsentType
<1>5. e \in [Task -> [Dir -> Frame \cup {0}]]
  BY MemIs
<1>6. free_page_tables(m, t) = [map |-> x, dir |-> e, pte |-> p, data |-> m.data]
  <2>1. free_page_tables(m, t) = [m EXCEPT !.map = x, !.pte[t] = row, !.dir[t] = top]
    BY DEF free_page_tables
  <2>2. m = [map |-> m.map, dir |-> m.dir, pte |-> m.pte, data |-> m.data]
    BY MemIs
  <2> HIDE DEF x, row, top
  <2> QED  BY <2>1, <2>2
<1> HIDE DEF x, p, e
<1>7. /\ free_page_tables(m, t) \in MemType /\ free_page_tables(m, t).map = x
      /\ free_page_tables(m, t).dir = e /\ free_page_tables(m, t).pte = p
      /\ free_page_tables(m, t).data = m.data
  BY <1>3, <1>4, <1>5, <1>6, MemIs DEF MemType
<1> QED
  BY <1>2, <1>7 DEF p, e

LEMMA GoodFreeTables ==
    ASSUME NEW m \in MemType, NEW k, NEW held, NEW tr, Good(m, k, held, tr), NEW t \in Task
    PROVE  /\ Good(free_page_tables(m, t), k, held, tr)
           /\ Empty(free_page_tables(m, t), t)
<1> DEFINE n == free_page_tables(m, t)
<1>1. /\ \A u \in Task : u # t => n.pte[u] = m.pte[u] /\ n.dir[u] = m.dir[u]
      /\ \A a \in Addr : n.pte[t][a] = Absent
      /\ \A d \in Dir : n.dir[t][d] = 0
      /\ n \in MemType /\ \A f \in Frame : n.map[f] = m.map[f] - RowRefs(m, t, f)
  <2>1. /\ n.pte = [m.pte EXCEPT ![t] = [a \in Addr |-> Absent]]
        /\ n.dir = [m.dir EXCEPT ![t] = [d \in Dir |-> 0]]
        /\ n \in MemType /\ \A f \in Frame : n.map[f] = m.map[f] - RowRefs(m, t, f)
    BY FreeTablesFields
  <2>2. m.pte \in [Task -> [Addr -> Pte]] /\ m.dir \in [Task -> [Dir -> Frame \cup {0}]]
    BY MemIs
  <2> HIDE DEF n
  <2> QED  BY <2>1, <2>2
<1> HIDE DEF n
<1>2. Empty(n, t)
  BY <1>1, AbsentType DEF Empty
<1>3. ASSUME NEW f \in Frame PROVE GoodAt(n, k, held, tr, f)
  <2>1. GoodAt(m, k, held, tr, f) /\ Count(m, k, f) \in Nat /\ m.map[f] \in Int
    BY CountType, MemIs DEF Good
  <2>2. /\ Count(n, k, f) = Count(m, k, f) - RowRefs(m, t, f) + RowRefs(n, t, f)
        /\ RowRefs(m, t, f) \in Nat
    <3>1. ButRow(Addr, Pages(m), Pages(n), t)
      BY <1>1 DEF ButRow, Pages
    <3>2. ButRow(Dir, m.dir, n.dir, t)
      BY <1>1 DEF ButRow
    <3> QED  BY <3>1, <3>2, CountRow
  <2>3. RowRefs(n, t, f) = 0
    BY <1>2, RowRefsAre
  <2>4. NotSole(m, k, f) => NotSole(n, k, f)
    <3>1. NoWriter(m, f) => NoWriter(n, f)
      BY <1>1, AbsentType DEF NoWriter
    <3>2. NoDir(m, f) => NoDir(n, f)
      BY <1>1, Numbers DEF NoDir
    <3> QED  BY <3>1, <3>2 DEF NotSole
  <2>5. Holds(held, f) \in {0, 1}
    BY HoldsType
  <2>6. (NotSole(n, k, f) /\ f \notin held) \/ n.map[f] = 1
    <3>1. CASE m.map[f] # 1
      BY <3>1, <2>1, <2>4 DEF GoodAt
    <3>2. CASE m.map[f] = 1 /\ RowRefs(m, t, f) = 0
      BY <3>2, <1>1
    <3>3. CASE m.map[f] = 1 /\ \E a \in Addr : m.pte[t][a].page = f
      <4>1. PICK a \in Addr : m.pte[t][a].page = f
        BY <3>3
      <4>2. /\ NoDir(m, f) /\ NoSelf(k, f) /\ NoLoad(k, f) /\ NoArgs(k, f) /\ f \notin held
            /\ \A u \in Task, b \in Addr : m.pte[u][b].page = f => u = t /\ b = a
        BY <4>1, <3>3, <2>1, OneUser
      <4>3. NoWriter(n, f) /\ NoDir(n, f)
        <5>1. NoWriter(n, f)
          BY <4>2, <1>1, AbsentType DEF NoWriter
        <5>2. NoDir(n, f)
          BY <4>2, <1>1, Numbers DEF NoDir
        <5> QED  BY <5>1, <5>2
      <4> QED  BY <4>2, <4>3 DEF NotSole
    <3>4. CASE m.map[f] = 1 /\ \E d \in Dir : m.dir[t][d] = f
      <4>1. PICK d \in Dir : m.dir[t][d] = f
        BY <3>4
      <4>2. /\ NoPte(m, f) /\ NoSelf(k, f) /\ NoLoad(k, f) /\ NoArgs(k, f) /\ f \notin held
            /\ \A u \in Task, b \in Dir : m.dir[u][b] = f => u = t /\ b = d
        BY <4>1, <3>4, <2>1, OneUser
      <4>3. NoWriter(n, f)
        BY <4>2, <1>1, AbsentType DEF NoWriter, NoPte
      <4>4. NoDir(n, f)
        BY <4>2, <1>1, Numbers DEF NoDir
      <4> QED  BY <4>2, <4>3, <4>4 DEF NotSole
    <3> QED  BY <3>1, <3>2, <3>3, <3>4, RowRefsAre
  <2>7. n.map[f] = m.map[f] - RowRefs(m, t, f)
    BY <1>1
  <2> QED  BY <2>1, <2>2, <2>3, <2>5, <2>6, <2>7 DEF GoodAt
<1> QED
  BY <1>2, <1>3 DEF Good, n

-----------------------------------------------------------------------------
(***************************************************************************)
(* fork.  The tables that are copied get different free pages.             *)
(***************************************************************************)
Above(S, f) == {g \in S : g > f}

LEMMA AboveFinite ==
    ASSUME NEW S, S \subseteq Frame, NEW f
    PROVE  IsFiniteSet(S) /\ IsFiniteSet(Above(S, f)) /\ Cardinality(S) \in Nat
           /\ Cardinality(Above(S, f)) \in Nat
<1>1. S \in SUBSET Frame /\ Above(S, f) \in SUBSET Frame
  BY DEF Above
<1> QED
  BY <1>1, AllFinite, FS_Subset, FS_CardinalityType

LEMMA Ranked ==
    ASSUME NEW S, S \subseteq Frame, NEW i \in Nat, i < Cardinality(S)
    PROVE  \E f \in S : Cardinality(Above(S, f)) = i
<1>0. (\A g \in S : g \in Nat) /\ Cardinality(S) \in Nat
  BY Numbers, AboveFinite
<1> DEFINE T == {f \in S : Cardinality(Above(S, f)) <= i}
<1>1. T \subseteq Nat
  BY Numbers
<1>2. T # {}
  <2>1. S # {}
    BY FS_EmptySet
  <2>2. Max(S) \in S /\ \A f \in S : f <= Max(S)
    BY <2>1, MaxPage
  <2>3. Above(S, Max(S)) = {}
    <3> DEFINE x == Max(S)
    <3> HIDE DEF x
    <3>1. x \in S /\ \A f \in S : f <= x
      BY <2>2 DEF x
    <3>2. Above(S, x) = {}
      BY <3>1, <1>0 DEF Above
    <3> QED  BY <3>2 DEF x
  <2>4. Cardinality(Above(S, Max(S))) = 0
    BY <2>3, FS_EmptySet
  <2> QED  BY <2>2, <2>4
<1>3. PICK f \in T : \A g \in T : f <= g
  BY <1>1, <1>2, LeastOf
<1> HIDE DEF T
<1>4. f \in S /\ Cardinality(Above(S, f)) <= i /\ f \in Frame
  BY <1>3 DEF T
<1>5. Cardinality(Above(S, f) \cup {f}) = Cardinality(Above(S, f)) + 1
      /\ Cardinality(Above(S, f)) \in Nat
  <2>1. f \notin Above(S, f)
    BY <1>4, Numbers DEF Above
  <2> QED  BY <2>1, AboveFinite, FS_AddElement
<1>6. Cardinality(Above(S, f)) = i
  <2> SUFFICES ASSUME Cardinality(Above(S, f)) # i PROVE FALSE
    OBVIOUS
  <2>1. Cardinality(Above(S, f)) + 1 <= i
    BY <1>4, <1>5
  <2>2. S # Above(S, f) \cup {f}
    <3> SUFFICES ASSUME S = Above(S, f) \cup {f} PROVE FALSE
      OBVIOUS
    <3>1. Cardinality(S) = Cardinality(Above(S, f)) + 1
      BY <1>5
    <3> QED  BY <3>1, <2>1, <1>0, <1>5
  <2> DEFINE B == {g \in S : g < f}
  <2>3. B # {}
    <3>1. PICK g \in S : g \notin Above(S, f) \cup {f}
      BY <2>2, <1>4 DEF Above
    <3>2. g < f
      BY <3>1, <1>0, <1>4 DEF Above
    <3> QED  BY <3>2
  <2>4. Max(B) \in B /\ \A g \in B : g <= Max(B)
    BY <2>3, MaxPage
  <2> DEFINE b == Max(B)
  <2>5. b \in S /\ b < f /\ \A g \in S : g < f => g <= b
    BY <2>4
  <2> HIDE DEF B, b
  <2>6. Above(S, b) = Above(S, f) \cup {f}
    <3>1. \A g \in S : g > b <=> g > f \/ g = f
      BY <2>5, <1>0, <1>4
    <3> QED  BY <3>1, <2>5, <1>4 DEF Above
  <2>7. b \in T
    BY <2>1, <2>5, <2>6, <1>5 DEF T
  <2> QED  BY <2>5, <2>7, <1>3, <1>4, Numbers
<1> QED
  BY <1>4, <1>6

LEMMA BeforeGrows ==
    ASSUME NEW m, NEW t, NEW d \in Tables(m, t), NEW e \in Tables(m, t), d < e
    PROVE  Before(m, t, d) < Before(m, t, e)
<1> DEFINE D == {x \in Tables(m, t) : x < d}
           E == {x \in Tables(m, t) : x < e}
<1>0. \A x \in Tables(m, t) : x \in Nat /\ x \in Dir
  BY Numbers DEF Tables
<1>1. D \in SUBSET Dir /\ E \in SUBSET Dir /\ D \subseteq E /\ d \in E /\ d \notin D
  BY <1>0
<1>2. Before(m, t, d) = Cardinality(D) /\ Before(m, t, e) = Cardinality(E)
  BY DEF Before
<1> HIDE DEF D, E
<1>3. IsFiniteSet(E) /\ IsFiniteSet(D) /\ Cardinality(D) \in Nat /\ Cardinality(E) \in Nat
  BY <1>1, AllFinite, FS_Subset, FS_CardinalityType
<1>4. Cardinality(D) <= Cardinality(E) /\ (Cardinality(D) = Cardinality(E) => D = E)
  BY <1>1, <1>3, FS_Subset
<1> QED
  BY <1>1, <1>2, <1>3, <1>4

LEMMA NewTables ==
    ASSUME NEW m, NEW t
    PROVE  /\ Copied(m, t) \subseteq Dir
           /\ \A d \in Copied(m, t) : NewTable(m, t, d) \in Free(m)
           /\ \A d, e \in Copied(m, t) : NewTable(m, t, d) = NewTable(m, t, e) => d = e
<1>1. Copied(m, t) \subseteq Tables(m, t) /\ Tables(m, t) \subseteq Dir /\ Free(m) \subseteq Frame
  BY DEF Copied, Tables, Free
<1>2. ASSUME NEW d \in Copied(m, t)
      PROVE  /\ NewTable(m, t, d) \in Free(m)
             /\ Cardinality(Above(Free(m), NewTable(m, t, d))) = Before(m, t, d)
  <2>1. Before(m, t, d) \in Nat
    <3>1. {x \in Tables(m, t) : x < d} \in SUBSET Dir
      BY <1>1
    <3> QED  BY <3>1, AllFinite, FS_Subset, FS_CardinalityType DEF Before
  <2>2. Before(m, t, d) < Cardinality(Free(m))
    BY <1>2 DEF Copied
  <2>3. \E f \in Free(m) : Cardinality(Above(Free(m), f)) = Before(m, t, d)
    BY <1>1, <2>1, <2>2, Ranked
  <2>4. NewTable(m, t, d) =
          CHOOSE f \in Free(m) : Cardinality(Above(Free(m), f)) = Before(m, t, d)
    BY DEF NewTable, Above
  <2> QED  BY <2>3, <2>4
<1>3. ASSUME NEW d \in Copied(m, t), NEW e \in Copied(m, t),
             NewTable(m, t, d) = NewTable(m, t, e)
      PROVE  d = e
  <2>1. Before(m, t, d) = Before(m, t, e)
    BY <1>2, <1>3
  <2>2. d \in Nat /\ e \in Nat /\ d \in Tables(m, t) /\ e \in Tables(m, t)
    BY <1>1, Numbers
  <2>3. Before(m, t, d) \in Nat
    <3>1. {x \in Tables(m, t) : x < d} \in SUBSET Dir
      BY <1>1
    <3> QED  BY <3>1, AllFinite, FS_Subset, FS_CardinalityType DEF Before
  <2>4. ~(d < e) /\ ~(e < d)
    BY <2>1, <2>2, <2>3, BeforeGrows
  <2> QED  BY <2>2, <2>4
<1> QED
  BY <1>1, <1>2, <1>3

NewPages(m, t) == {NewTable(m, t, d) : d \in Copied(m, t)}
Sharing(m, t, f) == {a \in Shared(m, t) : m.pte[t][a].page = f}
ReadOnly(e) == [e EXCEPT !.rw = FALSE]

LEMMA ReadOnlyType ==
    ASSUME NEW e \in Pte
    PROVE  /\ ReadOnly(e) \in Pte /\ ReadOnly(e).page = e.page /\ ~ReadOnly(e).rw
           /\ ReadOnly(e).dirty = e.dirty
BY DEF ReadOnly, Pte

CopyIs(m, n, t, c) ==
    /\ n \in MemType
    /\ \A u \in Task : u # t /\ u # c => n.pte[u] = m.pte[u] /\ n.dir[u] = m.dir[u]
    /\ n.dir[t] = m.dir[t]
    /\ \A d \in Dir : n.dir[c][d] = IF d \in Copied(m, t) THEN NewTable(m, t, d)
                                    ELSE m.dir[c][d]
    /\ \A a \in Addr :
          /\ n.pte[c][a] = IF a \in Shared(m, t) THEN ReadOnly(m.pte[t][a])
                           ELSE m.pte[c][a]
          /\ n.pte[t][a] = IF a \in Shared(m, t) THEN ReadOnly(m.pte[t][a])
                           ELSE m.pte[t][a]
    /\ \A f \in Frame :
          /\ n.map[f] = IF f \in NewPages(m, t) THEN 1
                        ELSE m.map[f] + Cardinality(Sharing(m, t, f))
          /\ n.data[f] = IF f \in NewPages(m, t) THEN Zero ELSE m.data[f]

LEMMA CopyFields ==
    ASSUME NEW m \in MemType, NEW t \in Task, NEW c \in Task, t # c,
           NEW n, n = copy_page_tables(m, t, c)
    PROVE  CopyIs(m, n, t, c)
<1> DEFINE top == [d \in Dir |-> IF d \in Copied(m, t) THEN NewTable(m, t, d) ELSE m.dir[c][d]]
           rowc == [a \in Addr |-> IF a \in Shared(m, t) THEN ReadOnly(m.pte[t][a])
                                   ELSE m.pte[c][a]]
           rowt == [a \in Addr |-> IF a \in Shared(m, t) THEN ReadOnly(m.pte[t][a])
                                   ELSE m.pte[t][a]]
           x == [f \in Frame |-> IF f \in NewPages(m, t) THEN 1
                                 ELSE m.map[f] + Cardinality(Sharing(m, t, f))]
           v == [f \in Frame |-> IF f \in NewPages(m, t) THEN Zero ELSE m.data[f]]
<1>1. n = [m EXCEPT !.dir[c] = top, !.pte[c] = rowc, !.pte[t] = rowt, !.map = x, !.data = v]
  BY MemIs DEF copy_page_tables, NewPages, Sharing, ReadOnly
<1>2. /\ m = [map |-> m.map, dir |-> m.dir, pte |-> m.pte, data |-> m.data]
      /\ m.map \in [Frame -> Int] /\ m.data \in [Frame -> Value]
      /\ m.dir \in [Task -> [Dir -> Frame \cup {0}]] /\ m.pte \in [Task -> [Addr -> Pte]]
  BY MemIs
<1>3. top \in [Dir -> Frame \cup {0}]
  BY <1>2, NewTables DEF Free
<1>4. rowc \in [Addr -> Pte] /\ rowt \in [Addr -> Pte]
  BY <1>2, ReadOnlyType
<1>5. x \in [Frame -> Int]
  <2>1. ASSUME NEW f \in Frame PROVE Cardinality(Sharing(m, t, f)) \in Nat
    <3>1. Sharing(m, t, f) \in SUBSET Addr
      BY DEF Sharing, Shared
    <3> QED  BY <3>1, AllFinite, FS_Subset, FS_CardinalityType
  <2> QED  BY <2>1, <1>2
<1>6. v \in [Frame -> Value]
  BY <1>2 DEF Value
<1>7. /\ \A d \in Dir : top[d] = IF d \in Copied(m, t) THEN NewTable(m, t, d) ELSE m.dir[c][d]
      /\ \A a \in Addr :
            /\ rowc[a] = IF a \in Shared(m, t) THEN ReadOnly(m.pte[t][a]) ELSE m.pte[c][a]
            /\ rowt[a] = IF a \in Shared(m, t) THEN ReadOnly(m.pte[t][a]) ELSE m.pte[t][a]
      /\ \A f \in Frame :
            /\ x[f] = IF f \in NewPages(m, t) THEN 1
                      ELSE m.map[f] + Cardinality(Sharing(m, t, f))
            /\ v[f] = IF f \in NewPages(m, t) THEN Zero ELSE m.data[f]
  OBVIOUS
<1> HIDE DEF top, rowc, rowt, x, v
<1>8. n = [map |-> x, dir |-> [m.dir EXCEPT ![c] = top],
           pte |-> [[m.pte EXCEPT ![c] = rowc] EXCEPT ![t] = rowt], data |-> v]
  BY <1>1, <1>2
<1>9. /\ n \in MemType /\ n.map = x /\ n.data = v
      /\ \A u \in Task : u # t /\ u # c => n.pte[u] = m.pte[u] /\ n.dir[u] = m.dir[u]
      /\ n.dir[t] = m.dir[t] /\ n.dir[c] = top /\ n.pte[c] = rowc /\ n.pte[t] = rowt
  <2> DEFINE d == [m.dir EXCEPT ![c] = top]
             p == [[m.pte EXCEPT ![c] = rowc] EXCEPT ![t] = rowt]
  <2>1. /\ d \in [Task -> [Dir -> Frame \cup {0}]] /\ d[c] = top
        /\ \A u \in Task : u # c => d[u] = m.dir[u]
    BY <1>2, <1>3
  <2>2. /\ p \in [Task -> [Addr -> Pte]] /\ p[c] = rowc /\ p[t] = rowt
        /\ \A u \in Task : u # t /\ u # c => p[u] = m.pte[u]
    BY <1>2, <1>4
  <2>3. n = [map |-> x, dir |-> d, pte |-> p, data |-> v]
    BY <1>8
  <2> HIDE DEF d, p
  <2>4. n.map = x /\ n.dir = d /\ n.pte = p /\ n.data = v
    BY <2>3
  <2>5. n \in MemType
    BY <2>1, <2>2, <2>3, <1>5, <1>6 DEF MemType
  <2> QED  BY <2>1, <2>2, <2>4, <2>5
<1> QED
  BY <1>7, <1>9 DEF CopyIs

LEMMA GoodCopyTables ==
    ASSUME NEW m \in MemType, NEW k, NEW held, NEW tr, Good(m, k, held, tr),
           NEW t \in Task, NEW c \in Task, t # c, Empty(m, c)
    PROVE  Good(copy_page_tables(m, t, c), k, held, tr)
<1> DEFINE n == copy_page_tables(m, t, c)
<1>1. /\ n \in MemType
      /\ \A u \in Task : u # t /\ u # c => n.pte[u] = m.pte[u] /\ n.dir[u] = m.dir[u]
      /\ n.dir[t] = m.dir[t]
      /\ \A d \in Dir : n.dir[c][d] = IF d \in Copied(m, t) THEN NewTable(m, t, d) ELSE 0
      /\ \A a \in Addr :
            /\ n.pte[c][a] = IF a \in Shared(m, t) THEN ReadOnly(m.pte[t][a]) ELSE m.pte[c][a]
            /\ n.pte[t][a] = IF a \in Shared(m, t) THEN ReadOnly(m.pte[t][a]) ELSE m.pte[t][a]
      /\ \A f \in Frame : n.map[f] = IF f \in NewPages(m, t) THEN 1
                                     ELSE m.map[f] + Cardinality(Sharing(m, t, f))
  BY CopyFields DEF Empty, CopyIs
<1> HIDE DEF n
<1>2. /\ \A a \in Addr : ~n.pte[c][a].rw \/ a \notin Shared(m, t)
      /\ \A a \in Addr : ~n.pte[t][a].rw \/ a \notin Shared(m, t)
      /\ \A a \in Addr : n.pte[t][a].page = m.pte[t][a].page
      /\ \A a \in Addr : n.pte[c][a].page = IF a \in Shared(m, t) THEN m.pte[t][a].page ELSE 0
      /\ \A a \in Addr : n.pte[t][a].rw => m.pte[t][a].rw
      /\ \A a \in Addr : n.pte[c][a].rw => n.pte[c][a].page = 0
  <2>1. \A a \in Addr : m.pte[t][a] \in Pte
    BY MemIs
  <2>2. \A a \in Addr : /\ ReadOnly(m.pte[t][a]).page = m.pte[t][a].page
                        /\ ~ReadOnly(m.pte[t][a]).rw
    BY <2>1, ReadOnlyType
  <2> QED  BY <1>1, <2>2 DEF Empty
<1>3. ASSUME NEW f \in Frame PROVE GoodAt(n, k, held, tr, f)
  <2>1. GoodAt(m, k, held, tr, f) /\ Count(m, k, f) \in Nat /\ m.map[f] \in Int
    BY CountType, MemIs DEF Good
  <2>2. Count(n, k, f) = Count(m, k, f) + RowRefs(n, c, f)
    <3>1. ButRow(Addr, Pages(m), Pages(n), c)
      BY <1>1, <1>2 DEF ButRow, Pages
    <3>2. ButRow(Dir, m.dir, n.dir, c)
      BY <1>1 DEF ButRow
    <3>3. Count(n, k, f) = Count(m, k, f) - RowRefs(m, c, f) + RowRefs(n, c, f)
      BY <3>1, <3>2, CountRow
    <3>4. RowRefs(m, c, f) = 0 /\ RowRefs(n, c, f) \in Nat
      BY RowRefsAre
    <3> QED  BY <3>3, <3>4, <2>1
  <2> DEFINE A == {a \in Addr : n.pte[c][a].page = f}
             D == {d \in Dir : n.dir[c][d] = f}
  <2>3. RowRefs(n, c, f) = Cardinality(A) + Cardinality(D)
    BY RowRefsAre
  <2>4. Holds(held, f) \in {0, 1}
    BY HoldsType
  <2>5. CASE f \in NewPages(m, t)
    <3>1. PICK d \in Copied(m, t) : f = NewTable(m, t, d)
      BY <2>5 DEF NewPages
    <3>2. m.map[f] = 0
      BY <3>1, NewTables DEF Free
    <3>3. NoPte(m, f)
      BY <3>2, <2>1, FreeUnused
    <3>4. A = {}
      <4>1. \A a \in Addr : n.pte[c][a].page # f
        BY <3>3, <1>2, Numbers DEF NoPte
      <4> QED  BY <4>1
    <3>5. D = {d}
      <4>1. \A e \in Dir : n.dir[c][e] = f <=> e \in Copied(m, t) /\ NewTable(m, t, e) = f
        BY <1>1, Numbers
      <4>2. \A e \in Dir : n.dir[c][e] = f <=> e = d
        BY <4>1, <3>1, NewTables
      <4>3. d \in Dir
        BY <3>1, NewTables
      <4> QED  BY <4>2, <4>3
    <3>6. Cardinality(A) = 0 /\ Cardinality(D) = 1
      BY <3>4, <3>5, FS_EmptySet, FS_Singleton
    <3>7. Count(m, k, f) = 0 /\ Holds(held, f) = 0
      BY <3>2, <2>1, <2>4 DEF GoodAt
    <3>8. n.map[f] = 1
      BY <2>5, <1>1
    <3>9. Count(n, k, f) = 1
      BY <2>2, <2>3, <3>6, <3>7
    <3> QED  BY <3>7, <3>8, <3>9 DEF GoodAt
  <2>6. CASE f \notin NewPages(m, t)
    <3>1. D = {}
      <4>1. \A d \in Copied(m, t) : NewTable(m, t, d) # f
        BY <2>6 DEF NewPages
      <4>2. \A d \in Dir : n.dir[c][d] # f
        BY <4>1, <1>1, Numbers
      <4> QED  BY <4>2
    <3>2. A = Sharing(m, t, f)
      <4>1. \A a \in Addr : n.pte[c][a].page = f <=> a \in Shared(m, t) /\ m.pte[t][a].page = f
        BY <1>2, Numbers
      <4>2. Shared(m, t) \subseteq Addr
        BY DEF Shared
      <4> QED  BY <4>1, <4>2 DEF Sharing
    <3>3. Cardinality(D) = 0 /\ Cardinality(A) = Cardinality(Sharing(m, t, f))
      BY <3>1, <3>2, FS_EmptySet
    <3>4. Cardinality(Sharing(m, t, f)) \in Nat
          /\ (Sharing(m, t, f) = {} => Cardinality(Sharing(m, t, f)) = 0)
      <4>1. Sharing(m, t, f) \in SUBSET Addr
        BY DEF Sharing, Shared
      <4> QED  BY <4>1, AllFinite, FS_Subset, FS_CardinalityType, FS_EmptySet
    <3>5. n.map[f] = m.map[f] + Cardinality(Sharing(m, t, f))
      BY <2>6, <1>1
    <3>6. Count(n, k, f) = Count(m, k, f) + Cardinality(Sharing(m, t, f))
      BY <2>2, <2>3, <3>3, <3>4
    <3>7. NoDir(m, f) => NoDir(n, f)
      <4>1. \A d \in Dir : n.dir[c][d] # f
        BY <3>1
      <4> QED  BY <4>1, <1>1 DEF NoDir
    <3>8. NoWriter(m, f) => NoWriter(n, f)
      BY <1>1, <1>2, Numbers DEF NoWriter
    <3>9. (NotSole(n, k, f) /\ f \notin held) \/ n.map[f] = 1
      <4>1. CASE m.map[f] # 1
        BY <4>1, <2>1, <3>7, <3>8 DEF GoodAt, NotSole
      <4>2. CASE m.map[f] = 1 /\ Sharing(m, t, f) = {}
        BY <4>2, <3>4, <3>5
      <4>3. CASE m.map[f] = 1 /\ Sharing(m, t, f) # {}
        <5>1. PICK a \in Addr : a \in Shared(m, t) /\ m.pte[t][a].page = f
          BY <4>3 DEF Sharing, Shared
        <5>2. /\ NoDir(m, f) /\ NoSelf(k, f) /\ NoLoad(k, f) /\ NoArgs(k, f) /\ f \notin held
              /\ \A u \in Task, b \in Addr : m.pte[u][b].page = f => u = t /\ b = a
          BY <5>1, <4>3, <2>1, OneUser
        <5>3. NoWriter(n, f)
          <6>1. \A u \in Task, b \in Addr : u # t /\ u # c => n.pte[u][b].page # f
            BY <5>2, <1>1
          <6>2. \A b \in Addr : ~n.pte[t][b].rw \/ n.pte[t][b].page # f
            BY <5>1, <5>2, <1>2
          <6>3. \A b \in Addr : ~n.pte[c][b].rw \/ n.pte[c][b].page # f
            BY <1>2, Numbers
          <6> QED  BY <6>1, <6>2, <6>3 DEF NoWriter
        <5> QED  BY <5>2, <5>3, <3>7 DEF NotSole
      <4> QED  BY <4>1, <4>2, <4>3
    <3> QED  BY <3>4, <3>5, <3>6, <3>9, <2>1, <2>4 DEF GoodAt
  <2> QED  BY <2>5, <2>6
<1> QED
  BY <1>3 DEF Good, n

-----------------------------------------------------------------------------
(***************************************************************************)
(* What the operators on the memory do, as the actions use them.           *)
(***************************************************************************)
Sound(m, k, held, tr) ==
    /\ m \in MemType /\ k \in [Task -> TaskType]
    /\ Good(m, k, held, tr) /\ WritesAbove(m)

(* An address keeps its page, its dirty bit and what is found there.       *)
Keep(m, n, t, a) ==
    /\ n.pte[t][a].page = m.pte[t][a].page
    /\ n.pte[t][a].dirty = m.pte[t][a].dirty
    /\ m.pte[t][a].page \in Frame => n.data[m.pte[t][a].page] = m.data[m.pte[t][a].page]

(* All but the addresses in X, and the arguments of exec.                  *)
Keeps(m, n, k, X) ==
    /\ \A t \in Task, a \in Addr : <<t, a>> \notin X => Keep(m, n, t, a)
    /\ \A t \in Task : k[t].args # 0 => n.data[k[t].args] = m.data[k[t].args]

(* Only the tables of t change.                                            *)
OnlyRow(m, n, t) ==
    \A u \in Task : u # t => /\ n.dir[u] = m.dir[u]
                             /\ \A a \in Addr : n.pte[u][a].page = m.pte[u][a].page

OnlyData(m, n, h) == \A f \in Frame : f # h => n.data[f] = m.data[f]

LEMMA KeepsTrans ==
    ASSUME NEW m, NEW n, NEW o, NEW k, NEW X, Keeps(m, n, k, X), Keeps(n, o, k, X)
    PROVE  Keeps(m, o, k, X)
BY SMTT(30) DEF Keeps, Keep

LEMMA KeepsMore ==
    ASSUME NEW m, NEW n, NEW k, NEW X, Keeps(m, n, k, {})
    PROVE  Keeps(m, n, k, X)
BY DEF Keeps

LEMMA DataKeeps ==
    ASSUME NEW m, NEW n, NEW k \in [Task -> TaskType], NEW h, n.pte = m.pte, OnlyData(m, n, h),
           NoPte(m, h), NoArgs(k, h)
    PROVE  Keeps(m, n, k, {})
<1>1. \A t \in Task : k[t].args \in Frame \cup {0}
  BY DEF TaskType
<1> QED
  BY <1>1 DEF Keeps, Keep, OnlyData, NoPte, NoArgs

LEMMA TakeOK ==
    ASSUME NEW m, NEW k, NEW held, NEW tr, Sound(m, k, held, tr), FreePage(m) # 0,
           NEW h, h = FreePage(m), NEW n, n = get_free_page(m)
    PROVE  /\ Sound(n, k, held \cup {h}, tr) /\ Keeps(m, n, k, {})
           /\ h \in Frame /\ h \notin held /\ NoPte(m, h) /\ NotSole(m, k, h)
           /\ n.pte = m.pte /\ n.dir = m.dir
           /\ n.data[h] = Zero /\ OnlyData(m, n, h) /\ n.map[h] = 1
           /\ \A f \in Frame : f # h => n.map[f] = m.map[f]
<1>1. m \in MemType /\ k \in [Task -> TaskType] /\ Good(m, k, held, tr) /\ WritesAbove(m)
  BY DEF Sound
<1>2. h \in Frame
  BY FreePageIs
<1>3. /\ n \in MemType /\ n.pte = m.pte /\ n.dir = m.dir
      /\ n.map = [m.map EXCEPT ![h] = 1] /\ n.data = [m.data EXCEPT ![h] = Zero]
  BY <1>1, TakeFields
<1>4. Good(n, k, held \cup {h}, tr) /\ h \notin held /\ NoPte(m, h) /\ NotSole(m, k, h)
  BY <1>1, GoodTake
<1>5. n.data[h] = Zero /\ OnlyData(m, n, h) /\ n.map[h] = 1
      /\ \A f \in Frame : f # h => n.map[f] = m.map[f]
  BY <1>1, <1>2, <1>3, MemIs DEF OnlyData
<1>6. WritesAbove(n)
  BY <1>1, <1>3 DEF WritesAbove
<1>7. Keeps(m, n, k, {})
  BY <1>1, <1>3, <1>4, <1>5, DataKeeps DEF NotSole
<1> QED
  BY <1>1, <1>2, <1>3, <1>4, <1>5, <1>6, <1>7 DEF Sound

(* A page table is there, or is made.                                      *)
Tabled(m, n, t, a) ==
    /\ \A u \in Task : u # t => n.dir[u] = m.dir[u]
    /\ \A d \in Dir : d # DirOf(a) => n.dir[t][d] = m.dir[t][d]
    /\ n.dir[t][DirOf(a)] # 0 /\ n.pte = m.pte

LEMMA TableOK ==
    ASSUME NEW m, NEW k, NEW held, NEW tr, Sound(m, k, held, tr), NEW t \in Task, NEW a \in Addr,
           HasTable(m, t, a), NEW n, n = WithTable(m, t, a)
    PROVE  /\ Sound(n, k, held, tr) /\ Keeps(m, n, k, {}) /\ Tabled(m, n, t, a)
           /\ \A f \in Frame : m.map[f] # 0 => n.map[f] = m.map[f] /\ n.data[f] = m.data[f]
<1>1. CASE m.dir[t][DirOf(a)] # 0
  BY <1>1 DEF WithTable, Keeps, Keep, Tabled
<1>2. CASE m.dir[t][DirOf(a)] = 0
  <2>1. FreePage(m) # 0
    BY <1>2 DEF HasTable, WithTable
  <2> DEFINE h == FreePage(m)
             g == get_free_page(m)
             d == DirOf(a)
  <2>2. /\ Sound(g, k, held \cup {h}, tr) /\ Keeps(m, g, k, {})
        /\ h \in Frame /\ h \notin held /\ m.map[h] = 0
        /\ g.pte = m.pte /\ g.dir = m.dir /\ OnlyData(m, g, h)
        /\ \A f \in Frame : f # h => g.map[f] = m.map[f]
    BY <2>1, TakeOK, FreePageIs
  <2>3. n = [g EXCEPT !.dir[t][d] = h]
    BY <2>1, <1>2 DEF WithTable
  <2>4. d \in Dir
    BY Numbers
  <2> HIDE DEF h, g, d
  <2>5. g \in MemType
    BY <2>2 DEF Sound
  <2>6. /\ n \in MemType /\ n.dir = [g.dir EXCEPT ![t][d] = h] /\ n.pte = g.pte
        /\ n.map = g.map /\ n.data = g.data
    <3>1. /\ g = [map |-> g.map, dir |-> g.dir, pte |-> g.pte, data |-> g.data]
          /\ g.map \in [Frame -> Int] /\ g.data \in [Frame -> Value]
          /\ g.dir \in [Task -> [Dir -> Frame \cup {0}]] /\ g.pte \in [Task -> [Addr -> Pte]]
      BY <2>5, MemIs
    <3>2. n = [map |-> g.map, dir |-> [g.dir EXCEPT ![t][d] = h], pte |-> g.pte, data |-> g.data]
      BY <2>3, <3>1
    <3>3. [g.dir EXCEPT ![t][d] = h] \in [Task -> [Dir -> Frame \cup {0}]]
      BY <3>1, <2>2
    <3> QED  BY <3>1, <3>2, <3>3 DEF MemType
  <2>7. Good(n, k, held, tr)
    <3>1. Good(g, k, held \cup {h}, tr) /\ h \in held \cup {h} /\ g.dir[t][d] = 0
      BY <2>2, <1>2 DEF Sound, d
    <3>2. Good(n, k, (held \cup {h}) \ {h}, tr)
      BY <3>1, <2>2, <2>4, <2>5, <2>6, GoodTable
    <3>3. (held \cup {h}) \ {h} = held
      BY <2>2
    <3> QED  BY <3>2, <3>3
  <2>8. WritesAbove(n)
    BY <2>2, <2>6 DEF Sound, WritesAbove
  <2>9. Sound(n, k, held, tr)
    BY <2>2, <2>6, <2>7, <2>8 DEF Sound
  <2>10. Keeps(m, n, k, {})
    BY <2>2, <2>6 DEF Keeps, Keep
  <2>11. Tabled(m, n, t, a)
    <3>1. g.dir \in [Task -> [Dir -> Frame \cup {0}]]
      BY <2>5, MemIs
    <3>2. n.dir[t][d] = h /\ \A u \in Task, e \in Dir : u # t \/ e # d => n.dir[u][e] = g.dir[u][e]
      BY <2>4, <2>6, <3>1
    <3>3. \A u \in Task : u # t => n.dir[u] = g.dir[u]
      BY <2>6, <3>1
    <3> QED  BY <3>2, <3>3, <2>2, <2>6, Numbers DEF Tabled, d
  <2> QED  BY <2>2, <2>6, <2>9, <2>10, <2>11 DEF OnlyData
<1> QED
  BY <1>1, <1>2

LEMMA HeldIs ==
    ASSUME NEW m, NEW k, NEW held, NEW tr, Sound(m, k, held, tr), NEW h \in held, h \in Frame
    PROVE  /\ m.map[h] = 1 /\ NoPte(m, h) /\ NoArgs(k, h)
<1>1. GoodAt(m, k, held, tr, h) /\ m \in MemType
  BY DEF Sound, Good
<1>2. m.map[h] = 1
  BY <1>1 DEF GoodAt
<1> QED
  BY <1>1, <1>2, OneUser

WithEntry(m, t, a, e) == [m EXCEPT !.pte[t][a] = e]

LEMMA SetEntry ==
    ASSUME NEW m \in MemType, NEW t \in Task, NEW a \in Addr, NEW e \in Pte,
           NEW n, n = WithEntry(m, t, a, e)
    PROVE  /\ n \in MemType /\ EntrySet(m, n, t, a, e)
           /\ n.map = m.map /\ n.dir = m.dir /\ n.data = m.data
<1>1. /\ m = [map |-> m.map, dir |-> m.dir, pte |-> m.pte, data |-> m.data]
      /\ m.map \in [Frame -> Int] /\ m.data \in [Frame -> Value]
      /\ m.dir \in [Task -> [Dir -> Frame \cup {0}]] /\ m.pte \in [Task -> [Addr -> Pte]]
  BY MemIs
<1> DEFINE p == [m.pte EXCEPT ![t][a] = e]
<1>2. /\ p \in [Task -> [Addr -> Pte]] /\ p[t][a] = e
      /\ \A u \in Task, b \in Addr : u # t \/ b # a => p[u][b] = m.pte[u][b]
  BY <1>1
<1>3. n = [map |-> m.map, dir |-> m.dir, pte |-> p, data |-> m.data]
  BY <1>1 DEF WithEntry
<1> HIDE DEF p
<1>4. n \in MemType /\ n.pte = p /\ n.map = m.map /\ n.dir = m.dir /\ n.data = m.data
  BY <1>1, <1>2, <1>3 DEF MemType
<1>5. EntrySet(m, n, t, a, e)
  BY <1>2, <1>4 DEF EntrySet
<1> QED
  BY <1>4, <1>5

Writable(h) == [page |-> h, rw |-> TRUE, dirty |-> FALSE]

(* put_page with a page that is held, and what it does.                    *)
CanPut(m, held, t, a, h) ==
    HasTable(m, t, a) /\ h \in held /\ h \in Frame /\ m.pte[t][a].page = 0

PutIs(m, n, k, held, tr, t, a, h, X) ==
    /\ Sound(n, k, held \ {h}, tr) /\ Keeps(m, n, k, X) /\ OnlyRow(m, n, t)
    /\ EntrySet(m, n, t, a, Writable(h))
    /\ n.data[h] = m.data[h] /\ n.dir[t][DirOf(a)] # 0
    /\ \A d \in Dir : d # DirOf(a) => n.dir[t][d] = m.dir[t][d]

LEMMA PutOK ==
    ASSUME NEW m, NEW k, NEW held, NEW tr, Sound(m, k, held, tr), NEW t \in Task, NEW a \in Addr,
           NEW h, CanPut(m, held, t, a, h),
           NEW n, n = put_page(m, t, h, a), NEW X, X = {<<t, a>>}
    PROVE  PutIs(m, n, k, held, tr, t, a, h, X)
<1> DEFINE g == WithTable(m, t, a)
           e == Writable(h)
<1>0. HasTable(m, t, a) /\ h \in held /\ h \in Frame /\ m.pte[t][a].page = 0
  BY DEF CanPut
<1>1. /\ Sound(g, k, held, tr) /\ Keeps(m, g, k, {}) /\ Tabled(m, g, t, a)
      /\ \A f \in Frame : m.map[f] # 0 => g.map[f] = m.map[f] /\ g.data[f] = m.data[f]
  BY <1>0, TableOK
<1>2. n = WithEntry(g, t, a, e)
  BY DEF put_page, WithEntry, Writable
<1>3. e \in Pte /\ e.page = h
  BY <1>0 DEF Pte, Writable
<1> HIDE DEF g, e
<1>4. g \in MemType /\ Good(g, k, held, tr) /\ WritesAbove(g) /\ k \in [Task -> TaskType]
  BY <1>1 DEF Sound
<1>5. /\ n \in MemType /\ EntrySet(g, n, t, a, e)
      /\ n.map = g.map /\ n.dir = g.dir /\ n.data = g.data
  BY <1>2, <1>3, <1>4, SetEntry
<1>6. Good(n, k, held \ {h}, tr)
  <2>1. g.pte[t][a].page = 0
    BY <1>0, <1>1 DEF Tabled
  <2> QED  BY <2>1, <1>0, <1>3, <1>4, <1>5, GoodMapped
<1>7. WritesAbove(n)
  BY <1>0, <1>3, <1>4, <1>5 DEF WritesAbove, EntrySet
<1>8. Keeps(g, n, k, X)
  BY <1>5 DEF Keeps, Keep, EntrySet
<1>9. Keeps(m, n, k, X)
  BY <1>1, <1>8, KeepsMore, KeepsTrans
<1>10. OnlyRow(m, n, t) /\ EntrySet(m, n, t, a, e)
  BY <1>1, <1>5 DEF OnlyRow, EntrySet, Tabled
<1>11. n.data[h] = m.data[h]
  <2>1. m.map[h] = 1
    BY <1>0, HeldIs
  <2> QED  BY <2>1, <1>0, <1>1, <1>5
<1>12. n.dir[t][DirOf(a)] # 0 /\ \A d \in Dir : d # DirOf(a) => n.dir[t][d] = m.dir[t][d]
  BY <1>1, <1>5 DEF Tabled
<1> QED
  BY <1>4, <1>5, <1>6, <1>7, <1>9, <1>10, <1>11, <1>12 DEF Sound, e, PutIs

(* Copy on write: the contents stay.                                       *)
CowIs(m, n, t, a) ==
    LET old == m.pte[t][a].page
        new == n.pte[t][a].page
    IN  /\ old \in Frame \cup {Low} /\ new \in Frame
        /\ n.data[new] = IF old = Low THEN Kernel ELSE m.data[old]
        /\ Private(m, old) => new = old /\ n.pte[t][a].dirty = m.pte[t][a].dirty

LEMMA CowOK ==
    ASSUME NEW m, NEW k, NEW held, NEW tr, Sound(m, k, held, tr), NEW t \in Task, NEW a \in Addr,
           Protected(m, t, a), CanCopy(m, t, a), NEW n, n = un_wp_page(m, t, a),
           NEW X, X = {<<t, a>>}
    PROVE  /\ Sound(n, k, held, tr) /\ Keeps(m, n, k, X) /\ OnlyRow(m, n, t)
           /\ n.dir = m.dir /\ n.pte[t][a].rw /\ n.pte[t][a].page # 0
           /\ \A b \in Addr : b # a => n.pte[t][b] = m.pte[t][b]
           /\ CowIs(m, n, t, a)
<1> DEFINE old == m.pte[t][a].page
<1>1. m \in MemType /\ Good(m, k, held, tr) /\ WritesAbove(m) /\ k \in [Task -> TaskType]
  BY DEF Sound
<1>2. old \in Frame \cup {Low} /\ old # 0 /\ m.pte[t][a] \in Pte
  <2>1. m.pte[t][a] \in Pte /\ m.pte[t][a].page # 0
    BY <1>1, MemIs DEF Protected
  <2>2. m.pte[t][a].page \in Frame \cup {0, Low}
    BY <2>1 DEF Pte
  <2> QED  BY <2>1, <2>2
<1>3. CASE Private(m, old)
  <2> DEFINE e == [m.pte[t][a] EXCEPT !.rw = TRUE]
  <2>1. n = WithEntry(m, t, a, e)
    BY <1>3, Zenon DEF un_wp_page, WithEntry
  <2>2. e \in Pte /\ e.page = old /\ e.rw /\ e.dirty = m.pte[t][a].dirty
    BY <1>2 DEF Pte
  <2> HIDE DEF e
  <2>3. /\ n \in MemType /\ EntrySet(m, n, t, a, e)
        /\ n.map = m.map /\ n.dir = m.dir /\ n.data = m.data
    BY <1>1, <2>1, <2>2, SetEntry
  <2>4. old \in Frame /\ m.map[old] = 1
    BY <1>2, <1>3 DEF Private
  <2>5. SamePages(m, n) /\ Granted(m, n)
    BY <2>2, <2>3, <2>4 DEF SamePages, Granted, EntrySet
  <2>6. Good(n, k, held, tr)
    BY <1>1, <2>3, <2>5, GoodQuiet
  <2>7. WritesAbove(n)
    BY <1>1, <2>2, <2>3, <2>4 DEF WritesAbove, EntrySet
  <2>8. Keeps(m, n, k, X) /\ OnlyRow(m, n, t)
    BY <2>2, <2>3 DEF Keeps, Keep, EntrySet, OnlyRow
  <2>9. CowIs(m, n, t, a)
    BY <2>2, <2>3, <2>4, Numbers DEF CowIs, EntrySet
  <2> QED  BY <1>1, <1>2, <2>2, <2>3, <2>6, <2>7, <2>8, <2>9 DEF Sound, EntrySet
<1>4. CASE ~Private(m, old)
  <2> DEFINE h == FreePage(m)
             g == get_free_page(m)
             e == [page |-> h, rw |-> TRUE, dirty |-> FALSE]
             v == IF old = Low THEN Kernel ELSE m.data[old]
             x == IF old \in Frame THEN [g.map EXCEPT ![old] = @ - 1] ELSE g.map
  <2>1. h # 0
    BY <1>4 DEF CanCopy
  <2>2. /\ Sound(g, k, held \cup {h}, tr) /\ Keeps(m, g, k, {})
        /\ h \in Frame /\ h \notin held /\ NoPte(m, h) /\ NotSole(m, k, h)
        /\ g.pte = m.pte /\ g.dir = m.dir /\ OnlyData(m, g, h)
        /\ \A f \in Frame : f # h => g.map[f] = m.map[f]
    BY <2>1, TakeOK
  <2>3. n = [free_page(g, old) EXCEPT !.pte[t][a] = e, !.data[h] = v]
    BY <1>4 DEF un_wp_page
  <2>4. e \in Pte /\ e.page = h /\ e.rw
    BY <2>2 DEF Pte
  <2>5. v \in Value /\ old # h
    <3>1. m.data \in [Frame -> Value]
      BY <1>1, MemIs
    <3> QED  BY <3>1, <1>2, <2>2 DEF Value, NoPte
  <2>6. old = g.pte[t][a].page /\ ~Private(g, old)
    BY <2>2, <2>5, <1>2, <1>4 DEF Private
  <2> HIDE DEF h, g, e, v, old
  <2>7. g \in MemType /\ Good(g, k, held \cup {h}, tr) /\ WritesAbove(g)
    BY <2>2 DEF Sound
  <2>8. /\ n \in MemType /\ EntrySet(g, n, t, a, e)
        /\ n.map = x /\ n.dir = g.dir /\ OnlyData(g, n, h) /\ n.data[h] = v
    <3>1. /\ g = [map |-> g.map, dir |-> g.dir, pte |-> g.pte, data |-> g.data]
          /\ g.map \in [Frame -> Int] /\ g.data \in [Frame -> Value]
          /\ g.dir \in [Task -> [Dir -> Frame \cup {0}]] /\ g.pte \in [Task -> [Addr -> Pte]]
      BY <2>7, MemIs
    <3>2. x \in [Frame -> Int]
      BY <3>1
    <3>3. free_page(g, old) = [map |-> x, dir |-> g.dir, pte |-> g.pte, data |-> g.data]
      BY <3>1 DEF free_page
    <3> DEFINE p == [g.pte EXCEPT ![t][a] = e]
               w == [g.data EXCEPT ![h] = v]
    <3>4. /\ p \in [Task -> [Addr -> Pte]] /\ p[t][a] = e
          /\ \A u \in Task, b \in Addr : u # t \/ b # a => p[u][b] = g.pte[u][b]
      BY <3>1, <2>4
    <3>5. w \in [Frame -> Value] /\ w[h] = v /\ \A f \in Frame : f # h => w[f] = g.data[f]
      BY <3>1, <2>2, <2>5
    <3> HIDE DEF x
    <3>6. n = [map |-> x, dir |-> g.dir, pte |-> p, data |-> w]
      <4>1. n = [[map |-> x, dir |-> g.dir, pte |-> g.pte, data |-> g.data]
                   EXCEPT !.pte[t][a] = e, !.data[h] = v]
        BY ONLY <2>3, <3>3
      <4> QED  BY ONLY <4>1
    <3> HIDE DEF p, w
    <3>7. n \in MemType /\ n.map = x /\ n.dir = g.dir /\ n.pte = p /\ n.data = w
      BY <3>1, <3>2, <3>4, <3>5, <3>6 DEF MemType
    <3> QED  BY <3>4, <3>5, <3>7 DEF EntrySet, OnlyData
  <2>9. Good(n, k, held, tr)
    <3>1. Good(n, k, (held \cup {h}) \ {h}, tr)
      BY <1>2, <2>2, <2>4, <2>6, <2>7, <2>8, GoodCopied DEF old
    <3>2. (held \cup {h}) \ {h} = held
      BY <2>2
    <3> QED  BY <3>1, <3>2
  <2>10. WritesAbove(n)
    BY <2>2, <2>4, <2>7, <2>8 DEF WritesAbove, EntrySet
  <2>11. Keeps(g, n, k, X)
    <3>1. NoPte(g, h) /\ NoArgs(k, h)
      BY <2>2 DEF NoPte, NotSole
    <3>2. \A u \in Task : k[u].args \in Frame \cup {0}
      BY <1>1 DEF TaskType
    <3> QED  BY <3>1, <3>2, <2>8 DEF Keeps, Keep, EntrySet, OnlyData, NoPte, NoArgs
  <2>12. Keeps(m, n, k, X)
    BY <2>2, <2>11, KeepsMore, KeepsTrans
  <2>13. /\ OnlyRow(m, n, t) /\ n.dir = m.dir /\ n.pte[t][a] = e
         /\ \A b \in Addr : b # a => n.pte[t][b] = m.pte[t][b]
    BY <2>2, <2>8 DEF OnlyRow, EntrySet
  <2>14. e.page # 0
    BY <2>2, <2>4, Numbers
  <2>15. CowIs(m, n, t, a)
    BY <1>2, <1>4, <2>2, <2>4, <2>8, <2>13 DEF CowIs, old, v
  <2> QED  BY <1>1, <2>4, <2>8, <2>9, <2>10, <2>12, <2>13, <2>14, <2>15 DEF Sound
<1> QED
  BY <1>3, <1>4

(* A page is filled.                                                       *)
Filled(m, h, v) == [m EXCEPT !.data[h] = v]

LEMMA FillOK ==
    ASSUME NEW m, NEW k, NEW held, NEW tr, Sound(m, k, held, tr), NEW h \in Frame,
           NEW v \in Value, NEW n, n = Filled(m, h, v)
    PROVE  /\ Sound(n, k, held, tr) /\ OnlyData(m, n, h) /\ n.data[h] = v
           /\ n.pte = m.pte /\ n.dir = m.dir /\ n.map = m.map
<1>1. m \in MemType /\ Good(m, k, held, tr) /\ WritesAbove(m) /\ k \in [Task -> TaskType]
  BY DEF Sound
<1>2. /\ m = [map |-> m.map, dir |-> m.dir, pte |-> m.pte, data |-> m.data]
      /\ m.map \in [Frame -> Int] /\ m.data \in [Frame -> Value]
      /\ m.dir \in [Task -> [Dir -> Frame \cup {0}]] /\ m.pte \in [Task -> [Addr -> Pte]]
  BY <1>1, MemIs
<1> DEFINE w == [m.data EXCEPT ![h] = v]
<1>3. w \in [Frame -> Value] /\ w[h] = v /\ \A f \in Frame : f # h => w[f] = m.data[f]
  BY <1>2
<1>4. n = [map |-> m.map, dir |-> m.dir, pte |-> m.pte, data |-> w]
  BY <1>2 DEF Filled
<1> HIDE DEF w
<1>5. n \in MemType /\ n.pte = m.pte /\ n.dir = m.dir /\ n.map = m.map /\ n.data = w
  BY ONLY <1>2, <1>3, <1>4 DEF MemType
<1>6. SamePages(m, n) /\ Granted(m, n) /\ WritesAbove(n)
  BY <1>1, <1>5 DEF SamePages, Granted, WritesAbove
<1>7. Good(n, k, held, tr)
  BY <1>1, <1>5, <1>6, GoodQuiet
<1> QED
  BY <1>1, <1>3, <1>5, <1>6, <1>7 DEF Sound, OnlyData

LEMMA StoreOK ==
    ASSUME NEW m, NEW k, NEW held, NEW tr, Sound(m, k, held, tr), NEW t \in Task, NEW a \in Addr,
           m.pte[t][a].page \in Frame, NEW n, n = Store(m, t, a), NEW X, X = {<<t, a>>}
    PROVE  /\ Sound(n, k, held, tr) /\ OnlyRow(m, n, t) /\ n.dir = m.dir
           /\ n.pte[t][a].page = m.pte[t][a].page /\ n.pte[t][a].dirty
           /\ n.data[m.pte[t][a].page] = By(t)
           /\ \A b \in Addr : n.pte[t][b].page = m.pte[t][b].page
           /\ m.pte[t][a].rw \/ Private(m, m.pte[t][a].page) => Keeps(m, n, k, X)
<1> DEFINE h == m.pte[t][a].page
           e == [m.pte[t][a] EXCEPT !.dirty = TRUE]
           g == Filled(m, h, By(t))
<1>1. m \in MemType /\ Good(m, k, held, tr) /\ WritesAbove(m) /\ k \in [Task -> TaskType]
  BY DEF Sound
<1>2. /\ m = [map |-> m.map, dir |-> m.dir, pte |-> m.pte, data |-> m.data]
      /\ m.pte[t][a] \in Pte
  BY <1>1, MemIs
<1>3. e \in Pte /\ e.page = h /\ e.dirty /\ (e.rw => m.pte[t][a].rw)
  BY <1>2 DEF Pte
<1>4. n = WithEntry(g, t, a, e)
  <2>1. n = [m EXCEPT !.pte[t][a] = e, !.data[h] = By(t)]
    BY Zenon DEF Store
  <2> HIDE DEF h, e
  <2>2. g = [map |-> m.map, dir |-> m.dir, pte |-> m.pte, data |-> [m.data EXCEPT ![h] = By(t)]]
    BY ONLY <1>2 DEF Filled, g
  <2>3. WithEntry(g, t, a, e) = [map |-> m.map, dir |-> m.dir,
           pte |-> [m.pte EXCEPT ![t][a] = e], data |-> [m.data EXCEPT ![h] = By(t)]]
    <3> HIDE DEF g
    <3> QED  BY ONLY <2>2 DEF WithEntry
  <2>4. n = [map |-> m.map, dir |-> m.dir,
             pte |-> [m.pte EXCEPT ![t][a] = e], data |-> [m.data EXCEPT ![h] = By(t)]]
    BY ONLY <1>2, <2>1
  <2> HIDE DEF g
  <2> QED  BY ONLY <2>3, <2>4
<1>5. By(t) \in Value /\ h \in Frame
  BY DEF Value
<1> HIDE DEF h, e
<1>6. /\ Sound(g, k, held, tr) /\ OnlyData(m, g, h) /\ g.data[h] = By(t)
      /\ g.pte = m.pte /\ g.dir = m.dir /\ g.map = m.map
  BY <1>5, FillOK
<1> HIDE DEF g
<1>7. g \in MemType /\ Good(g, k, held, tr) /\ WritesAbove(g)
  BY <1>6 DEF Sound
<1>8. /\ n \in MemType /\ EntrySet(g, n, t, a, e)
      /\ n.map = g.map /\ n.dir = g.dir /\ n.data = g.data
  BY <1>3, <1>4, <1>7, SetEntry
<1>9. g.pte[t][a].page = e.page /\ (e.rw => g.pte[t][a].rw)
  BY <1>3, <1>6 DEF h
<1>10. SamePages(g, n) /\ Granted(g, n) /\ WritesAbove(n)
  BY <1>7, <1>8, <1>9 DEF SamePages, Granted, WritesAbove, EntrySet
<1>11. Good(n, k, held, tr)
  BY <1>7, <1>8, <1>10, GoodQuiet
<1>12. OnlyRow(m, n, t) /\ \A b \in Addr : n.pte[t][b].page = m.pte[t][b].page
  <2>1. \A u \in Task, b \in Addr : n.pte[u][b].page = m.pte[u][b].page
    BY <1>10, <1>6 DEF SamePages
  <2> QED  BY <2>1, <1>6, <1>8 DEF OnlyRow
<1>13. m.pte[t][a].rw \/ Private(m, m.pte[t][a].page) => Keeps(m, n, k, X)
  <2> SUFFICES ASSUME m.pte[t][a].rw \/ Private(m, m.pte[t][a].page) PROVE Keeps(m, n, k, X)
    OBVIOUS
  <2>1. GoodAt(m, k, held, tr, h) /\ m.pte[t][a].page = h
    BY <1>1, <1>5 DEF Good, h
  <2>2. m.map[h] = 1
    BY <2>1 DEF GoodAt, NotSole, NoWriter, Private
  <2>3. NoArgs(k, h) /\ \A u \in Task, b \in Addr : m.pte[u][b].page = h => u = t /\ b = a
    BY <2>1, <2>2, <1>1, <1>5, OneUser
  <2>4. \A u \in Task : k[u].args \in Frame \cup {0}
    BY <1>1 DEF TaskType
  <2>5. \A u \in Task, b \in Addr : u # t \/ b # a => n.pte[u][b] = m.pte[u][b]
    BY <1>6, <1>8 DEF EntrySet
  <2>6. \A f \in Frame : f # h => n.data[f] = m.data[f]
    BY <1>6, <1>8 DEF OnlyData
  <2> QED  BY <2>3, <2>4, <2>5, <2>6 DEF Keeps, Keep, NoArgs
<1> QED
  BY <1>1, <1>3, <1>6, <1>8, <1>10, <1>11, <1>12, <1>13 DEF Sound, EntrySet, h

(* The tables of a task are freed, or a page that is held.                 *)
LEMMA FreeTablesOK ==
    ASSUME NEW m, NEW k, NEW held, NEW tr, Sound(m, k, held, tr), NEW t \in Task,
           NEW n, n = free_page_tables(m, t), NEW X, X = {t} \X Addr
    PROVE  /\ Sound(n, k, held, tr) /\ Keeps(m, n, k, X) /\ OnlyRow(m, n, t) /\ Empty(n, t)
           /\ n.data = m.data
           /\ \A f \in Frame : n.map[f] = m.map[f] - RowRefs(m, t, f)
<1>1. m \in MemType /\ Good(m, k, held, tr) /\ WritesAbove(m) /\ k \in [Task -> TaskType]
  BY DEF Sound
<1>2. Good(n, k, held, tr) /\ Empty(n, t)
  BY <1>1, GoodFreeTables
<1>3. /\ n \in MemType /\ n.data = m.data
      /\ n.pte = [m.pte EXCEPT ![t] = [a \in Addr |-> Absent]]
      /\ n.dir = [m.dir EXCEPT ![t] = [d \in Dir |-> 0]]
      /\ \A f \in Frame : n.map[f] = m.map[f] - RowRefs(m, t, f)
  BY <1>1, FreeTablesFields
<1>4. m.pte \in [Task -> [Addr -> Pte]] /\ m.dir \in [Task -> [Dir -> Frame \cup {0}]]
  BY <1>1, MemIs
<1>5. /\ \A u \in Task : u # t => n.pte[u] = m.pte[u] /\ n.dir[u] = m.dir[u]
      /\ \A a \in Addr : n.pte[t][a] = Absent
  BY ONLY <1>3, <1>4
<1>6. WritesAbove(n)
  BY <1>1, <1>5, AbsentType DEF WritesAbove
<1>7. Keeps(m, n, k, X) /\ OnlyRow(m, n, t)
  BY ONLY X = {t} \X Addr, <1>3, <1>5 DEF Keeps, Keep, OnlyRow
<1> QED
  BY <1>1, <1>2, <1>3, <1>6, <1>7 DEF Sound

LEMMA FreeOK ==
    ASSUME NEW m, NEW k, NEW held, NEW tr, Sound(m, k, held, tr), NEW h \in held, h \in Frame,
           NEW n, n = free_page(m, h)
    PROVE  /\ Sound(n, k, held \ {h}, tr) /\ Keeps(m, n, k, {})
           /\ n.pte = m.pte /\ n.dir = m.dir /\ n.data = m.data
<1>1. m \in MemType /\ Good(m, k, held, tr) /\ WritesAbove(m) /\ k \in [Task -> TaskType]
  BY DEF Sound
<1>2. /\ m = [map |-> m.map, dir |-> m.dir, pte |-> m.pte, data |-> m.data]
      /\ m.map \in [Frame -> Int] /\ m.data \in [Frame -> Value]
      /\ m.dir \in [Task -> [Dir -> Frame \cup {0}]] /\ m.pte \in [Task -> [Addr -> Pte]]
  BY <1>1, MemIs
<1> DEFINE x == [m.map EXCEPT ![h] = @ - 1]
<1>3. x \in [Frame -> Int]
  BY <1>2
<1>4. n = [map |-> x, dir |-> m.dir, pte |-> m.pte, data |-> m.data]
  BY <1>2 DEF free_page
<1> HIDE DEF x
<1>5. n \in MemType /\ n.pte = m.pte /\ n.dir = m.dir /\ n.map = x /\ n.data = m.data
  BY ONLY <1>2, <1>3, <1>4 DEF MemType
<1>6. Good(n, k, held \ {h}, tr)
  BY <1>1, <1>5, GoodFree DEF x
<1> QED
  BY <1>1, <1>5, <1>6 DEF Sound, WritesAbove, Keeps, Keep

(* try_to_share.                                                           *)
WithShared(m, p, t, a, e) ==
    [m EXCEPT !.pte[p][a] = e, !.pte[t][a] = e, !.map[e.page] = @ + 1]

ShareIs(m, n, k, held, tr, t, a, e, X) ==
    /\ Sound(n, k, held, tr) /\ Keeps(m, n, k, X) /\ OnlyRow(m, n, t)
    /\ n.dir = m.dir /\ n.data = m.data /\ n.pte[t][a] = e
    /\ \A b \in Addr : b # a => n.pte[t][b] = m.pte[t][b]

LEMMA ShareOK ==
    ASSUME NEW m, NEW k, NEW held, NEW tr, Sound(m, k, held, tr), NEW p \in Task, NEW t \in Task,
           t # p, NEW a \in Addr, m.pte[p][a].page \in Frame, m.pte[t][a].page = 0,
           NEW e, e = ReadOnly(m.pte[p][a]), NEW n, n = WithShared(m, p, t, a, e),
           NEW X, X = {<<t, a>>}
    PROVE  ShareIs(m, n, k, held, tr, t, a, e, X)
<1>1. m \in MemType /\ Good(m, k, held, tr) /\ WritesAbove(m) /\ k \in [Task -> TaskType]
  BY DEF Sound
<1>2. /\ m = [map |-> m.map, dir |-> m.dir, pte |-> m.pte, data |-> m.data]
      /\ m.map \in [Frame -> Int] /\ m.data \in [Frame -> Value]
      /\ m.dir \in [Task -> [Dir -> Frame \cup {0}]] /\ m.pte \in [Task -> [Addr -> Pte]]
  BY <1>1, MemIs
<1>3. /\ e \in Pte /\ ~e.rw /\ e.page = m.pte[p][a].page /\ e.page \in Frame
      /\ e.dirty = m.pte[p][a].dirty
  <2>1. m.pte[p][a] \in Pte
    BY <1>2
  <2> QED  BY <2>1, ReadOnlyType
<1> DEFINE x == [m.map EXCEPT ![e.page] = @ + 1]
           q == [m.pte EXCEPT ![p][a] = e, ![t][a] = e]
<1>4. x \in [Frame -> Int]
  BY <1>2, <1>3
<1>5. /\ q \in [Task -> [Addr -> Pte]] /\ q[p][a] = e /\ q[t][a] = e
      /\ \A u \in Task, b \in Addr : (u # t /\ u # p) \/ b # a => q[u][b] = m.pte[u][b]
  BY ONLY <1>2, <1>3
<1>6. n = [map |-> x, dir |-> m.dir, pte |-> q, data |-> m.data]
  <2>1. n = [m EXCEPT !.pte[p][a] = e, !.pte[t][a] = e, !.map[e.page] = @ + 1]
    BY Zenon DEF WithShared
  <2> QED  BY ONLY <1>2, <2>1
<1> HIDE DEF x, q
<1>7. n \in MemType /\ n.map = x /\ n.dir = m.dir /\ n.pte = q /\ n.data = m.data
  BY ONLY <1>2, <1>4, <1>5, <1>6 DEF MemType
<1>8. Good(n, k, held, tr)
  <2>1. SharedSet(m, n, p, t, a, e)
    BY ONLY <1>5, <1>7 DEF SharedSet, x
  <2> QED  BY <2>1, <1>1, <1>3, <1>7, GoodShared
<1>9. WritesAbove(n)
  BY ONLY <1>1, <1>3, <1>5, <1>7 DEF WritesAbove
<1>10. Keeps(m, n, k, X)
  BY ONLY X = {<<t, a>>}, <1>3, <1>5, <1>7 DEF Keeps, Keep
<1>11. OnlyRow(m, n, t) /\ n.pte[t][a] = e /\ \A b \in Addr : b # a => n.pte[t][b] = m.pte[t][b]
  BY ONLY <1>3, <1>5, <1>7 DEF OnlyRow
<1> QED
  BY <1>1, <1>7, <1>8, <1>9, <1>10, <1>11 DEF Sound, ShareIs

(* The tables are copied.                                                  *)
Forked(m, n, k, held, tr, t, c, X) ==
    /\ Sound(n, k, held, tr) /\ Keeps(m, n, k, X) /\ OnlyRow(m, n, c)
    /\ \A a \in Addr : n.pte[c][a].page # 0 => n.dir[c][DirOf(a)] # 0
    /\ \A a \in Addr : AllCopied(n, t, c) /\ m.dir[t][DirOf(a)] # 0 =>
          /\ n.pte[c][a].page = m.pte[t][a].page
          /\ n.pte[c][a].page # 0 => n.pte[c][a].dirty = m.pte[t][a].dirty
    /\ \A a \in Addr : m.dir[t][DirOf(a)] = 0 => n.pte[c][a].page = 0

LEMMA CopyOK ==
    ASSUME NEW m, NEW k, NEW held, NEW tr, Sound(m, k, held, tr), NEW t \in Task, NEW c \in Task,
           t # c, Empty(m, c), NEW n, n = copy_page_tables(m, t, c), NEW X, X = {c} \X Addr
    PROVE  Forked(m, n, k, held, tr, t, c, X)
<1>1. m \in MemType /\ Good(m, k, held, tr) /\ WritesAbove(m) /\ k \in [Task -> TaskType]
  BY DEF Sound
<1>2. /\ n \in MemType
      /\ \A u \in Task : u # t /\ u # c => n.pte[u] = m.pte[u] /\ n.dir[u] = m.dir[u]
      /\ n.dir[t] = m.dir[t]
      /\ \A d \in Dir : n.dir[c][d] = IF d \in Copied(m, t) THEN NewTable(m, t, d) ELSE 0
      /\ \A a \in Addr :
            /\ n.pte[c][a] = IF a \in Shared(m, t) THEN ReadOnly(m.pte[t][a]) ELSE m.pte[c][a]
            /\ n.pte[t][a] = IF a \in Shared(m, t) THEN ReadOnly(m.pte[t][a]) ELSE m.pte[t][a]
      /\ \A f \in Frame : n.data[f] = IF f \in NewPages(m, t) THEN Zero ELSE m.data[f]
  <2>1. CopyIs(m, n, t, c)
    BY <1>1, CopyFields
  <2> QED  BY <2>1 DEF Empty, CopyIs
<1>3. \A a \in Addr : /\ ReadOnly(m.pte[t][a]).page = m.pte[t][a].page
                      /\ ReadOnly(m.pte[t][a]).dirty = m.pte[t][a].dirty
                      /\ ~ReadOnly(m.pte[t][a]).rw
  <2>1. \A a \in Addr : m.pte[t][a] \in Pte
    BY <1>1, MemIs
  <2> QED  BY <2>1, ReadOnlyType
<1>4. Good(n, k, held, tr)
  BY <1>1, GoodCopyTables
<1>5. WritesAbove(n)
  BY ONLY <1>1, <1>2, <1>3 DEF WritesAbove
<1>6. \A f \in Frame : f \in NewPages(m, t) => NoPte(m, f) /\ NoArgs(k, f)
  <2> SUFFICES ASSUME NEW f \in Frame, f \in NewPages(m, t) PROVE NoPte(m, f) /\ NoArgs(k, f)
    OBVIOUS
  <2>1. m.map[f] = 0
    BY NewTables DEF NewPages, Free
  <2>2. GoodAt(m, k, held, tr, f)
    BY <1>1 DEF Good
  <2> QED  BY <2>1, <2>2, <1>1, FreeUnused
<1>7. Keeps(m, n, k, X)
  <2>1. \A u \in Task : k[u].args \in Frame \cup {0}
    BY <1>1 DEF TaskType
  <2>2. \A u \in Task : k[u].args # 0 => n.data[k[u].args] = m.data[k[u].args]
    BY <2>1, <1>2, <1>6 DEF NoArgs
  <2>3. \A u \in Task, a \in Addr : m.pte[u][a].page \in Frame =>
           n.data[m.pte[u][a].page] = m.data[m.pte[u][a].page]
    BY <1>2, <1>6 DEF NoPte
  <2>4. \A u \in Task, a \in Addr : u # c => /\ n.pte[u][a].page = m.pte[u][a].page
                                             /\ n.pte[u][a].dirty = m.pte[u][a].dirty
    BY <1>2, <1>3
  <2> QED  BY <2>2, <2>3, <2>4 DEF Keeps, Keep
<1>8. OnlyRow(m, n, c)
  BY <1>2, <1>3 DEF OnlyRow
<1>9. ASSUME NEW a \in Addr
      PROVE  /\ n.pte[c][a].page # 0 => n.dir[c][DirOf(a)] # 0
             /\ m.dir[t][DirOf(a)] = 0 => n.pte[c][a].page = 0
             /\ AllCopied(n, t, c) /\ m.dir[t][DirOf(a)] # 0 =>
                  /\ n.pte[c][a].page = m.pte[t][a].page
                  /\ n.pte[c][a].page # 0 => n.pte[c][a].dirty = m.pte[t][a].dirty
  <2>1. DirOf(a) \in Dir /\ m.pte[c][a].page = 0
    BY Numbers DEF Empty
  <2>2. a \in Shared(m, t) <=> DirOf(a) \in Copied(m, t) /\ m.pte[t][a].page # 0
    BY DEF Shared
  <2>3. DirOf(a) \in Copied(m, t) => m.dir[t][DirOf(a)] # 0 /\ n.dir[c][DirOf(a)] # 0
    <3>1. DirOf(a) \in Copied(m, t) => NewTable(m, t, DirOf(a)) \in Frame
      BY NewTables DEF Free
    <3> QED  BY <3>1, <2>1, <1>2, Numbers DEF Copied, Tables
  <2>4. AllCopied(n, t, c) /\ m.dir[t][DirOf(a)] # 0 => DirOf(a) \in Copied(m, t)
    BY <2>1, <1>2 DEF AllCopied
  <2> QED  BY <2>1, <2>2, <2>3, <2>4, <1>2, <1>3
<1> QED
  BY <1>1, <1>2, <1>4, <1>5, <1>7, <1>8, <1>9 DEF Sound, Forked

-----------------------------------------------------------------------------
(***************************************************************************)
(* The steps.  Fine is the invariant, of a memory m, tasks k, what they    *)
(* must see v and what went wrong tr.                                      *)
(***************************************************************************)
Troubles == {"verify", "torn", "exec", "oom"}

Fine(m, k, v, tr) ==
    /\ Sound(m, k, {}, tr)
    /\ v \in [Task -> [Addr -> Value]] /\ tr \subseteq Troubles
    /\ \A t \in Task : KernelOK(k[t]) /\ TablesOK(m, k[t], t)
    /\ Calm(tr) => \A t \in Task : ViewOK(m, k[t], v, t)

Inv == TypeOK /\ CountInv /\ ViewInv

LEMMA InvIsFine ==
    /\ Inv <=> Fine(mem, task, view, trouble)
    /\ Inv' <=> Fine(mem', task', view', trouble')
BY DEF Inv, TypeOK, CountInv, ViewInv, Fine, Sound, MemType, TaskType, Troubles

(* A step changes the task t, its tables and what it must see.             *)
LEMMA Settle ==
    ASSUME NEW m, NEW k, NEW v, NEW tr, Fine(m, k, v, tr), NEW t \in Task,
           NEW n, NEW l, NEW w, NEW ur, Sound(n, l, {}, ur), OthersSame(k, l, t),
           OnlyRow(m, n, t), KernelOK(l[t]), TablesOK(n, l[t], t),
           w \in [Task -> [Addr -> Value]], OthersSame(v, w, t), ur \subseteq Troubles,
           NEW X, X = {t} \X Addr,
           Calm(ur) => Calm(tr) /\ Keeps(m, n, k, X) /\ ViewOK(n, l[t], w, t)
    PROVE  Fine(n, l, w, ur)
<1>1. ASSUME NEW u \in Task PROVE KernelOK(l[u]) /\ TablesOK(n, l[u], u)
  <2>1. CASE u = t
    BY <2>1
  <2>2. CASE u # t
    <3>1. l[u] = k[u] /\ KernelOK(k[u]) /\ TablesOK(m, k[u], u) /\ k[u] \in TaskType
      BY <2>2 DEF OthersSame, Fine, Sound
    <3>2. n.dir[u] = m.dir[u] /\ \A a \in Addr : n.pte[u][a].page = m.pte[u][a].page
      BY <2>2 DEF OnlyRow
    <3>3. k[u].at \in Addr
      BY <3>1 DEF TaskType
    <3> QED  BY <3>1, <3>2, <3>3 DEF TablesOK
  <2> QED  BY <2>1, <2>2
<1>2. ASSUME Calm(ur), NEW u \in Task PROVE ViewOK(n, l[u], w, u)
  <2>1. CASE u = t
    BY <2>1, <1>2
  <2>2. CASE u # t
    <3>1. l[u] = k[u] /\ w[u] = v[u] /\ ViewOK(m, k[u], v, u)
      BY <2>2, <1>2 DEF OthersSame, Fine
    <3>2. \A a \in Addr : Keep(m, n, u, a)
      BY <2>2, <1>2 DEF Keeps
    <3>3. \A a \in Addr : PageOK(m, k[u], v, u, a) => PageOK(n, k[u], w, u, a)
      BY <3>1, <3>2 DEF PageOK, Keep
    <3>4. k[u].args # 0 => n.data[k[u].args] = m.data[k[u].args]
      BY <1>2 DEF Keeps
    <3> QED  BY <3>1, <3>3, <3>4 DEF ViewOK
  <2> QED  BY <2>1, <2>2
<1> QED
  BY <1>1, <1>2 DEF Fine

LEMMA TaskOK ==
    ASSUME NEW m, NEW k, NEW held, NEW tr, Sound(m, k, held, tr), NEW t \in Task,
           NEW l \in [Task -> TaskType], OthersSame(k, l, t), NEW held2,
           Moves(k[t], l[t], held, held2)
    PROVE  Sound(m, l, held2, tr)
BY GoodTask DEF Sound

LEMMA LostOK ==
    ASSUME NEW m, NEW k, NEW held, NEW tr, Sound(m, k, held, tr), NEW ur,
           "oom" \in tr => "oom" \in ur, held = {} \/ "oom" \in ur
    PROVE  Sound(m, k, {}, ur)
BY GoodLost DEF Sound

LEMMA KeepsWider ==
    ASSUME NEW m, NEW n, NEW k, NEW X, NEW Y, Keeps(m, n, k, X), X \subseteq Y
    PROVE  Keeps(m, n, k, Y)
BY DEF Keeps

LEMMA OnlyRowTrans ==
    ASSUME NEW m, NEW n, NEW o, NEW t, OnlyRow(m, n, t), OnlyRow(n, o, t)
    PROVE  OnlyRow(m, o, t)
BY DEF OnlyRow

LEMMA SameRow ==
    ASSUME NEW m, NEW n, NEW t, n.pte = m.pte, n.dir = m.dir
    PROVE  OnlyRow(m, n, t)
BY DEF OnlyRow

LEMMA MovesNone ==
    ASSUME NEW r, NEW s, NEW held, s.self = r.self, s.load = r.load, s.args = r.args
    PROVE  Moves(r, s, held, held)
BY DEF Moves, TaskRefs

(* do_exit.                                                                *)
Gone(k, t) == [k EXCEPT ![t] = [NoTask EXCEPT !.st = "zombie", !.self = k[t].self]]

LEMMA GoneIs ==
    ASSUME NEW k \in [Task -> TaskType], NEW t \in Task, NEW l, l = Gone(k, t)
    PROVE  /\ l \in [Task -> TaskType] /\ OthersSame(k, l, t)
           /\ l[t].st = "zombie" /\ l[t].self = k[t].self /\ l[t].load = 0 /\ l[t].args = 0
           /\ KernelOK(l[t]) /\ ~Alive(l[t])
<1> DEFINE r == [NoTask EXCEPT !.st = "zombie", !.self = k[t].self]
<1>1. k[t].self \in Frame \cup {0} /\ 0 \in Addr
  BY MemoryAssumption DEF TaskType, Addr
<1>2. /\ r \in TaskType /\ r.st = "zombie" /\ r.self = k[t].self /\ r.load = 0 /\ r.args = 0
  BY <1>1 DEF NoTask, TaskType
<1>3. KernelOK(r) /\ ~Alive(r)
  BY <1>2 DEF KernelOK, InExec, Alive
<1>4. l = [k EXCEPT ![t] = r]
  BY DEF Gone
<1> HIDE DEF r
<1>5. l \in [Task -> TaskType] /\ l[t] = r /\ OthersSame(k, l, t)
  BY <1>2, <1>4 DEF OthersSame
<1> QED
  BY <1>2, <1>3, <1>5

LEMMA ExitFine ==
    ASSUME NEW m, NEW k, NEW v, NEW tr, Fine(m, k, v, tr), NEW t \in Task,
           NEW l, l = Gone(k, t), NEW g, NEW held, Sound(g, l, held, tr),
           Keeps(m, g, k, {}), OnlyRow(m, g, t), held = {} \/ k[t].args # 0,
           NEW n, n = free_page_tables(g, t),
           NEW ur, ur = tr \cup (IF k[t].args # 0 THEN {"oom"} ELSE {})
    PROVE  Fine(n, l, v, ur)
<1> DEFINE X == {t} \X Addr
<1>1. k \in [Task -> TaskType] /\ v \in [Task -> [Addr -> Value]] /\ tr \subseteq Troubles
  BY DEF Fine, Sound
<1>2. /\ l \in [Task -> TaskType] /\ OthersSame(k, l, t) /\ KernelOK(l[t]) /\ ~Alive(l[t])
      /\ l[t].st = "zombie" /\ l[t].args = 0
  BY <1>1, GoneIs
<1>3. /\ Sound(n, l, held, tr) /\ Keeps(g, n, l, X) /\ OnlyRow(g, n, t) /\ Empty(n, t)
      /\ n.data = g.data
  BY FreeTablesOK
<1>4. /\ ur \subseteq Troubles /\ tr \subseteq ur /\ (k[t].args # 0 => "oom" \in ur)
      /\ (Calm(ur) => Calm(tr))
  BY <1>1 DEF Troubles, Calm
<1>5. Sound(n, l, {}, ur)
  BY <1>3, <1>4, LostOK
<1>6. TablesOK(n, l[t], t)
  BY <1>2, <1>3 DEF TablesOK, Empty
<1>7. Keeps(m, n, k, X)
  <2>1. Keeps(g, n, k, X)
    BY <1>3 DEF Keeps
  <2> QED  BY <2>1, KeepsMore, KeepsTrans
<1>8. OnlyRow(m, n, t)
  BY <1>3, OnlyRowTrans
<1>9. ViewOK(n, l[t], v, t) /\ OthersSame(v, v, t)
  BY <1>2 DEF ViewOK, OthersSame
<1> QED
  BY <1>1, <1>2, <1>4, <1>5, <1>6, <1>7, <1>8, <1>9, Settle

LEMMA ExitNow ==
    ASSUME Inv, NEW t \in Task, task[t].st \in {"user", "copy", "exec"}, do_exit(t, mem)
    PROVE  Inv'
<1> DEFINE l == Gone(task, t)
           held == IF task[t].args # 0 THEN {task[t].args} ELSE {}
           ur == trouble \cup (IF task[t].args # 0 THEN {"oom"} ELSE {})
           n == free_page_tables(mem, t)
<1>1. Fine(mem, task, view, trouble)
  BY InvIsFine
<1>2. Sound(mem, task, {}, trouble) /\ KernelOK(task[t]) /\ task \in [Task -> TaskType]
  BY <1>1 DEF Fine, Sound
<1>3. /\ l \in [Task -> TaskType] /\ OthersSame(task, l, t)
      /\ l[t].self = task[t].self /\ l[t].load = 0 /\ l[t].args = 0
  BY <1>2, GoneIs
<1>4. task[t].load = 0 /\ task[t].args \in Frame \cup {0}
  BY <1>2 DEF KernelOK, TaskType
<1>5. mem' = n /\ task' = l /\ view' = view /\ trouble' = ur
  BY DEF do_exit, Gone
<1> HIDE DEF l
<1>6. Moves(task[t], l[t], {}, held)
  BY <1>3, <1>4, Numbers DEF Moves, TaskRefs, Bit, Holds
<1>7. Sound(mem, l, held, trouble)
  BY <1>2, <1>3, <1>6, TaskOK
<1>8. Keeps(mem, mem, task, {}) /\ OnlyRow(mem, mem, t)
  BY DEF Keeps, Keep, OnlyRow
<1>9. held = {} \/ task[t].args # 0
  OBVIOUS
<1> HIDE DEF held, ur, n
<1>10. Fine(n, l, view, ur)
  BY <1>1, <1>7, <1>8, <1>9, ExitFine DEF l, ur, n
<1> QED
  BY <1>5, <1>10, InvIsFine

LEMMA TablesSame ==
    ASSUME NEW m, NEW n, NEW r, NEW s, NEW t \in Task, TablesOK(m, r, t), Alive(r), Alive(s),
           s.st # "load", n.dir[t] = m.dir[t],
           \A a \in Addr : m.pte[t][a].page = 0 => n.pte[t][a].page = 0
    PROVE  TablesOK(n, s, t)
BY DEF TablesOK

LEMMA ViewBut ==
    ASSUME NEW m, NEW n, NEW k, NEW t \in Task, NEW v, NEW w, NEW s, NEW a \in Addr,
           ViewOK(m, k[t], v, t), Alive(k[t]), NEW X, X = {<<t, a>>}, Keeps(m, n, k, X),
           ButOne(Addr, v[t], w[t], a), PageOK(n, s, w, t, a),
           s.exe = k[t].exe, s.args = 0 \/ s.args = k[t].args,
           k[t].st # "close", k[t].torn \subseteq s.torn
    PROVE  ViewOK(n, s, w, t)
<1>1. /\ \A b \in Addr : PageOK(m, k[t], v, t, b)
      /\ k[t].args # 0 => m.data[k[t].args] = Args
  BY DEF ViewOK
<1>2. \A b \in Addr : b # a => Keep(m, n, t, b)
  BY DEF Keeps
<1>3. k[t].args # 0 => n.data[k[t].args] = m.data[k[t].args]
  BY DEF Keeps
<1>4. ASSUME NEW b \in Addr, b # a PROVE PageOK(n, s, w, t, b)
  <2>1. PageOK(m, k[t], v, t, b) /\ Keep(m, n, t, b) /\ w[t][b] = v[t][b]
    BY <1>1, <1>2, <1>4 DEF ButOne
  <2> QED  BY <2>1 DEF PageOK, Keep, Fresh
<1> QED
  BY <1>1, <1>3, <1>4 DEF ViewOK

LEMMA ViewSame ==
    ASSUME NEW m, NEW n, NEW k, NEW t \in Task, NEW v, NEW s,
           ViewOK(m, k[t], v, t), Alive(k[t]), Keeps(m, n, k, {}),
           s.exe = k[t].exe, s.args = 0 \/ n.data[s.args] = Args,
           k[t].st # "close", k[t].torn \subseteq s.torn
    PROVE  ViewOK(n, s, v, t)
<1>1. ASSUME NEW b \in Addr PROVE PageOK(n, s, v, t, b)
  <2>1. PageOK(m, k[t], v, t, b) /\ Keep(m, n, t, b)
    BY DEF ViewOK, Keeps
  <2> QED  BY <2>1 DEF PageOK, Keep, Fresh
<1> QED
  BY <1>1 DEF ViewOK

(* After copy on write without a write: the page is private or torn.       *)
LEMMA CowView ==
    ASSUME NEW m, NEW n, NEW r, NEW s, NEW v, NEW t \in Task, NEW a \in Addr,
           PageOK(m, r, v, t, a), CowIs(m, n, t, a), s.exe = r.exe, r.torn \subseteq s.torn,
           Private(m, m.pte[t][a].page) \/ a \in s.torn
    PROVE  PageOK(n, s, v, t, a)
BY Numbers DEF PageOK, CowIs, Private

LEMMA TornIs ==
    ASSUME NEW t \in Task, NEW a \in Addr, task[t] \in TaskType, NEW T, T = Torn(mem, t, a)
    PROVE  /\ T \in SUBSET Addr /\ task[t].torn \subseteq T
           /\ Private(mem, mem.pte[t][a].page) \/ a \in T
<1>1. task[t].torn \subseteq Addr
  BY DEF TaskType
<1> QED
  BY <1>1 DEF Torn

LEMMA Parting ==
    ASSUME Inv, NEW t \in Task
    PROVE  /\ Fine(mem, task, view, trouble) /\ Sound(mem, task, {}, trouble)
           /\ mem \in MemType /\ task \in [Task -> TaskType] /\ task[t] \in TaskType
           /\ view \in [Task -> [Addr -> Value]] /\ trouble \subseteq Troubles
           /\ KernelOK(task[t]) /\ TablesOK(mem, task[t], t)
           /\ Calm(trouble) => ViewOK(mem, task[t], view, t)
           /\ \A a \in Addr : mem.pte[t][a].rw => mem.pte[t][a].page \in Frame
<1>1. Fine(mem, task, view, trouble)
  BY InvIsFine
<1> QED
  BY <1>1 DEF Fine, Sound, WritesAbove

LEMMA ReleaseInv ==
    ASSUME Inv, NEW t \in Task, release(t)
    PROVE  Inv'
<1>1. /\ Fine(mem, task, view, trouble) /\ Sound(mem, task, {}, trouble)
      /\ task \in [Task -> TaskType] /\ task[t] \in TaskType /\ TablesOK(mem, task[t], t)
      /\ view \in [Task -> [Addr -> Value]] /\ trouble \subseteq Troubles /\ KernelOK(task[t])
  BY Parting
<1> DEFINE l == [task EXCEPT ![t] = NoTask]
           f == task[t].self
           n == free_page(mem, f)
           held == IF f # 0 THEN {f} ELSE {}
           X == {t} \X Addr
<1>2. task[t].st = "zombie" /\ mem' = n /\ task' = l /\ view' = view /\ trouble' = trouble
  BY DEF release, At, Same
<1>3. NoTask \in TaskType /\ KernelOK(NoTask) /\ ~Alive(NoTask) /\ NoTask.st = "none"
      /\ NoTask.self = 0 /\ NoTask.load = 0 /\ NoTask.args = 0
  <2>1. 0 \in Addr
    BY MemoryAssumption DEF Addr
  <2> QED  BY <2>1 DEF NoTask, TaskType, KernelOK, InExec, Alive
<1>4. l \in [Task -> TaskType] /\ l[t] = NoTask /\ OthersSame(task, l, t)
  BY <1>1, <1>3 DEF OthersSame
<1>5. task[t].load = 0 /\ task[t].args = 0 /\ f \in Frame \cup {0}
  BY <1>1, <1>2 DEF KernelOK, InExec, TaskType
<1> HIDE DEF l
<1>6. Moves(task[t], l[t], {}, held)
  BY <1>3, <1>4, <1>5, Numbers DEF Moves, TaskRefs, Bit, Holds
<1>7. Sound(mem, l, held, trouble)
  BY <1>1, <1>4, <1>6, TaskOK
<1>8. /\ Sound(n, l, {}, trouble) /\ n.pte = mem.pte /\ n.dir = mem.dir /\ n.data = mem.data
  <2>1. CASE f # 0
    <3>1. f \in held /\ f \in Frame /\ held \ {f} = {}
      BY <2>1, <1>5
    <3> HIDE DEF f, held
    <3>2. /\ Sound(n, l, held \ {f}, trouble)
          /\ n.pte = mem.pte /\ n.dir = mem.dir /\ n.data = mem.data
      BY <1>7, <3>1, FreeOK DEF n
    <3> QED  BY <3>1, <3>2
  <2>2. CASE f = 0
    BY <2>2, <1>7, Numbers DEF free_page
  <2> QED  BY <2>1, <2>2
<1> HIDE DEF n, f, held
<1>9. OnlyRow(mem, n, t) /\ Keeps(mem, n, task, X)
  BY <1>8 DEF OnlyRow, Keeps, Keep
<1>10. TablesOK(n, l[t], t) /\ KernelOK(l[t])
  <2>1. ~Alive(task[t])
    BY <1>2 DEF Alive
  <2> QED  BY <2>1, <1>1, <1>3, <1>4, <1>8 DEF TablesOK
<1>11. ViewOK(n, l[t], view, t) /\ OthersSame(view, view, t)
  BY <1>3, <1>4 DEF ViewOK, OthersSame
<1>12. Fine(n, l, view, trouble)
  BY <1>1, <1>4, <1>8, <1>9, <1>10, <1>11, Settle
<1> QED
  BY <1>2, <1>12, InvIsFine

(* Writes.                                                                 *)
LEMMA Wrote ==
    ASSUME NEW v \in [Task -> [Addr -> Value]], NEW t \in Task, NEW a \in Addr,
           NEW w, w = [v EXCEPT ![t][a] = By(t)]
    PROVE  /\ w \in [Task -> [Addr -> Value]] /\ OthersSame(v, w, t)
           /\ ButOne(Addr, v[t], w[t], a) /\ w[t][a] = By(t)
<1>1. By(t) \in Value
  BY DEF Value
<1> QED
  BY <1>1 DEF OthersSame, ButOne

LEMMA UserIs ==
    ASSUME NEW r \in TaskType, KernelOK(r), r.st = "user"
    PROVE  Alive(r) /\ r.load = 0 /\ r.args = 0
BY DEF KernelOK, Alive, InExec

(* What a store by t at a leaves: the tables as they were but for the dirty *)
(* bit, and, when the page is t's alone, everybody else's contents.        *)
Stored(m, n, t, a, X) ==
    /\ Sound(n, task, {}, trouble) /\ OnlyRow(m, n, t) /\ n.dir = m.dir
    /\ n.pte[t][a].page = m.pte[t][a].page /\ n.pte[t][a].dirty
    /\ n.data[m.pte[t][a].page] = By(t)
    /\ \A b \in Addr : n.pte[t][b].page = m.pte[t][b].page
    /\ m.pte[t][a].rw \/ Private(m, m.pte[t][a].page) => Keeps(m, n, task, X)

(* StoreOK for the tasks as they are, none of which holds a page.         *)
LEMMA StoreHere ==
    ASSUME NEW m, NEW t \in Task, NEW a \in Addr, Sound(m, task, {}, trouble),
           m.pte[t][a].page \in Frame, NEW n, n = Store(m, t, a), NEW X, X = {<<t, a>>}
    PROVE  Stored(m, n, t, a, X)
<1> DEFINE none == {}
<1>1. Sound(m, task, none, trouble)
  OBVIOUS
<1> HIDE DEF none
<1>2. /\ Sound(n, task, none, trouble) /\ OnlyRow(m, n, t) /\ n.dir = m.dir
      /\ n.pte[t][a].page = m.pte[t][a].page /\ n.pte[t][a].dirty
      /\ n.data[m.pte[t][a].page] = By(t)
      /\ \A b \in Addr : n.pte[t][b].page = m.pte[t][b].page
      /\ m.pte[t][a].rw \/ Private(m, m.pte[t][a].page) => Keeps(m, n, task, X)
  BY <1>1, StoreOK
<1> QED
  BY <1>2 DEF none, Stored

(* A store to a page that may be written, by a task in user mode.          *)
LEMMA StoreFine ==
    ASSUME Inv, NEW t \in Task, NEW a \in Addr, task[t].st = "user",
           NEW X, X = {<<t, a>>},
           NEW m, Sound(m, task, {}, trouble), Keeps(mem, m, task, X), OnlyRow(mem, m, t),
           m.dir = mem.dir, m.pte[t][a].rw, m.pte[t][a].page # 0,
           \A b \in Addr : mem.pte[t][b].page = 0 => m.pte[t][b].page = 0 \/ b = a,
           mem.pte[t][a].page # 0,
           NEW n, n = Store(m, t, a), NEW w, w = [view EXCEPT ![t][a] = By(t)]
    PROVE  Fine(n, task, w, trouble)
<1>1. /\ Fine(mem, task, view, trouble) /\ Sound(mem, task, {}, trouble)
      /\ task \in [Task -> TaskType] /\ task[t] \in TaskType /\ TablesOK(mem, task[t], t)
      /\ view \in [Task -> [Addr -> Value]] /\ trouble \subseteq Troubles /\ KernelOK(task[t])
      /\ Calm(trouble) => ViewOK(mem, task[t], view, t)
  BY Parting
<1>2. m.pte[t][a].page \in Frame
  BY DEF Sound, WritesAbove
<1>3. /\ Sound(n, task, {}, trouble) /\ OnlyRow(m, n, t) /\ n.dir = m.dir
      /\ n.pte[t][a].page = m.pte[t][a].page /\ n.pte[t][a].dirty
      /\ n.data[m.pte[t][a].page] = By(t)
      /\ \A b \in Addr : n.pte[t][b].page = m.pte[t][b].page
      /\ Keeps(m, n, task, X)
  <2>1. Sound(m, task, {}, trouble) /\ m.pte[t][a].rw /\ n = Store(m, t, a) /\ X = {<<t, a>>}
    OBVIOUS
  <2>2. Stored(m, n, t, a, X)
    BY ONLY <2>1, <1>2, StoreHere, Zenon
  <2> QED  BY <2>1, <2>2 DEF Stored
<1>4. /\ w \in [Task -> [Addr -> Value]] /\ OthersSame(view, w, t)
      /\ ButOne(Addr, view[t], w[t], a) /\ w[t][a] = By(t)
  BY <1>1, Wrote
<1>5. Alive(task[t]) /\ task[t].st \notin {"load", "close", "copy"} /\ task[t].args = 0
  BY <1>1, UserIs
<1>6. TablesOK(n, task[t], t)
  <2>1. \A b \in Addr : mem.pte[t][b].page = 0 => n.pte[t][b].page = 0
    BY <1>3
  <2> QED  BY <2>1, <1>1, <1>3, <1>5, TablesSame
<1>7. OnlyRow(mem, n, t) /\ OthersSame(task, task, t) /\ Keeps(mem, n, task, X)
  BY <1>3, OnlyRowTrans, KeepsTrans DEF OthersSame
<1>8. PageOK(n, task[t], w, t, a)
  BY <1>2, <1>3, <1>4, Numbers DEF PageOK
<1>9. Calm(trouble) => ViewOK(n, task[t], w, t)
  <2> SUFFICES ASSUME Calm(trouble) PROVE ViewOK(n, task[t], w, t)
    OBVIOUS
  <2>1. ViewOK(mem, task[t], view, t)
    BY <1>1
  <2> QED  BY <2>1, <1>4, <1>5, <1>7, <1>8, ViewBut
<1> DEFINE Y == {t} \X Addr
<1>10. Keeps(mem, n, task, Y)
  <2>1. X \subseteq Y
    OBVIOUS
  <2> HIDE DEF Y
  <2> QED  BY <2>1, <1>7, KeepsWider
<1> QED
  BY ONLY <1>1, <1>3, <1>4, <1>6, <1>7, <1>9, <1>10, Settle

LEMMA WriteInv ==
    ASSUME Inv, NEW t \in Task, NEW a \in Addr, Write(t, a)
    PROVE  Inv'
<1> DEFINE X == {<<t, a>>}
           n == Store(mem, t, a)
           w == [view EXCEPT ![t][a] = By(t)]
<1>1. /\ task[t].st = "user" /\ mem.pte[t][a].rw
      /\ mem' = n /\ view' = w /\ task' = task /\ trouble' = trouble
  BY DEF Write, At
<1>2. /\ Sound(mem, task, {}, trouble)
      /\ mem.pte[t][a].page # 0
  BY <1>1, Parting, Numbers
<1>3. Keeps(mem, mem, task, X) /\ OnlyRow(mem, mem, t)
  BY DEF Keeps, Keep, OnlyRow
<1> HIDE DEF X, n, w
<1>4. Fine(n, task, w, trouble)
  BY <1>1, <1>2, <1>3, StoreFine DEF X, n, w
<1> QED
  BY <1>1, <1>4, InvIsFine

LEMMA WriteFaultInv ==
    ASSUME Inv, NEW t \in Task, NEW a \in Addr, WriteFault(t, a)
    PROVE  Inv'
<1> DEFINE X == {<<t, a>>}
           m == un_wp_page(mem, t, a)
           n == Store(m, t, a)
           w == [view EXCEPT ![t][a] = By(t)]
<1>1. /\ task[t].st = "user" /\ Protected(mem, t, a) /\ CanCopy(mem, t, a)
      /\ mem' = n /\ view' = w /\ task' = task /\ trouble' = trouble
  BY DEF WriteFault, At
<1>2. Sound(mem, task, {}, trouble) /\ mem.pte[t][a].page # 0
  BY <1>1, Parting DEF Protected
<1> HIDE DEF X, m, w
<1>3. /\ Sound(m, task, {}, trouble) /\ Keeps(mem, m, task, X) /\ OnlyRow(mem, m, t)
      /\ m.dir = mem.dir /\ m.pte[t][a].rw /\ m.pte[t][a].page # 0
      /\ \A b \in Addr : b # a => m.pte[t][b] = mem.pte[t][b]
  BY <1>1, <1>2, CowOK DEF X, m
<1>4. \A b \in Addr : mem.pte[t][b].page = 0 => m.pte[t][b].page = 0 \/ b = a
  BY <1>3
<1>5. X = {<<t, a>>} /\ w = [view EXCEPT ![t][a] = By(t)]
  BY DEF X, w
<1>6. Fine(n, task, w, trouble)
  BY <1>1, <1>2, <1>3, <1>4, <1>5, StoreFine
<1> HIDE DEF n
<1> QED
  BY <1>1, <1>6, InvIsFine

(* Steps after which, or before which, something went wrong.               *)
LEMMA SettleOdd ==
    ASSUME Inv, NEW t \in Task, NEW n, NEW l, NEW w, NEW ur,
           Sound(n, l, {}, ur), OthersSame(task, l, t),
           OnlyRow(mem, n, t), KernelOK(l[t]), TablesOK(n, l[t], t),
           w \in [Task -> [Addr -> Value]], OthersSame(view, w, t), ur \subseteq Troubles,
           ~Calm(ur)
    PROVE  Fine(n, l, w, ur)
<1>1. Fine(mem, task, view, trouble)
  BY InvIsFine
<1> DEFINE X == {t} \X Addr
<1> HIDE DEF X
<1> QED
  BY <1>1, Settle DEF X

LEMMA Odd ==
    ASSUME NEW tr, tr \subseteq Troubles
    PROVE  /\ \A x \in {"verify", "torn", "exec"} :
                tr \cup {x} \subseteq Troubles /\ ~Calm(tr \cup {x})
           /\ \A x \in {"verify", "torn", "exec"} : \A m, k :
                Sound(m, k, {}, tr) => Sound(m, k, {}, tr \cup {x})
<1>1. ASSUME NEW x \in {"verify", "torn", "exec"}
      PROVE  tr \cup {x} \subseteq Troubles /\ ~Calm(tr \cup {x})
  BY DEF Troubles, Calm
<1>2. ASSUME NEW x \in {"verify", "torn", "exec"}, NEW m, NEW k, Sound(m, k, {}, tr)
      PROVE  Sound(m, k, {}, tr \cup {x})
  <2>1. "oom" \in tr => "oom" \in tr \cup {x}
    OBVIOUS
  <2> QED  BY <1>2, <2>1, LostOK
<1> QED
  BY <1>1, <1>2

LEMMA WriteFaultTickInv ==
    ASSUME Inv, NEW t \in Task, NEW a \in Addr, WriteFaultTick(t, a)
    PROVE  Inv'
<1> DEFINE X == {<<t, a>>}
           Y == {t} \X Addr
           n == un_wp_page(mem, t, a)
           T == Torn(mem, t, a)
           l == [task EXCEPT ![t].torn = T]
<1>1. /\ task[t].st = "user" /\ Protected(mem, t, a) /\ CanCopy(mem, t, a)
      /\ mem' = n /\ view' = view /\ task' = l /\ trouble' = trouble
  BY DEF WriteFaultTick, At
<1>2. /\ Sound(mem, task, {}, trouble) /\ mem.pte[t][a].page # 0 /\ TablesOK(mem, task[t], t)
      /\ view \in [Task -> [Addr -> Value]] /\ trouble \subseteq Troubles /\ KernelOK(task[t])
      /\ task \in [Task -> TaskType] /\ task[t] \in TaskType
      /\ Fine(mem, task, view, trouble)
      /\ Calm(trouble) => ViewOK(mem, task[t], view, t)
  BY <1>1, Parting DEF Protected
<1>3. /\ T \in SUBSET Addr /\ task[t].torn \subseteq T
      /\ Private(mem, mem.pte[t][a].page) \/ a \in T
  BY <1>2, TornIs
<1> HIDE DEF X, n, T
<1>4. /\ Sound(n, task, {}, trouble) /\ Keeps(mem, n, task, X) /\ OnlyRow(mem, n, t)
      /\ n.dir = mem.dir /\ n.pte[t][a].rw /\ n.pte[t][a].page # 0
      /\ \A b \in Addr : b # a => n.pte[t][b] = mem.pte[t][b]
      /\ CowIs(mem, n, t, a)
  <2>1. Sound(mem, task, {}, trouble) /\ Protected(mem, t, a) /\ CanCopy(mem, t, a)
    BY <1>1, <1>2
  <2> QED  BY ONLY <2>1, CowOK DEF X, n
<1>5. /\ l \in [Task -> TaskType] /\ OthersSame(task, l, t) /\ l[t].st = "user"
      /\ l[t].self = task[t].self /\ l[t].load = task[t].load /\ l[t].args = task[t].args
      /\ l[t].exe = task[t].exe /\ l[t].torn = T
  BY <1>1, <1>2, <1>3 DEF OthersSame, TaskType
<1> HIDE DEF l
<1>6. KernelOK(l[t]) /\ Alive(l[t]) /\ Alive(task[t]) /\ l[t].args = 0
  BY <1>1, <1>2, <1>5 DEF KernelOK, InExec, Alive
<1>7. Sound(n, l, {}, trouble)
  BY <1>4, <1>5, MovesNone, TaskOK
<1>8. TablesOK(n, l[t], t)
  <2>1. \A b \in Addr : mem.pte[t][b].page = 0 => n.pte[t][b].page = 0
    BY <1>2, <1>4
  <2>2. l[t].st # "load"
    BY <1>5
  <2> QED  BY <2>1, <2>2, <1>2, <1>4, <1>6, TablesSame
<1>9. Keeps(mem, n, task, Y) /\ OthersSame(view, view, t)
  <2>1. X \subseteq Y
    BY DEF X
  <2> HIDE DEF Y
  <2> QED  BY <2>1, <1>4, KeepsWider DEF OthersSame
<1>10. Calm(trouble) => ViewOK(n, l[t], view, t)
  <2> SUFFICES ASSUME Calm(trouble) PROVE ViewOK(n, l[t], view, t)
    OBVIOUS
  <2>1. ViewOK(mem, task[t], view, t)
    BY <1>2
  <2>2. PageOK(mem, task[t], view, t, a)
    BY <2>1, <1>1, <1>6 DEF ViewOK
  <2>3. PageOK(n, l[t], view, t, a)
    BY <2>2, <1>3, <1>4, <1>5, CowView
  <2>4. ButOne(Addr, view[t], view[t], a) /\ X = {<<t, a>>}
    BY DEF ButOne, X
  <2> QED  BY <2>1, <2>3, <2>4, <1>1, <1>3, <1>4, <1>5, <1>6, ViewBut
<1>11. Fine(n, l, view, trouble)
  BY ONLY <1>2, <1>4, <1>5, <1>6, <1>7, <1>8, <1>9, <1>10, Settle
<1> QED
  BY <1>1, <1>11, InvIsFine

LEMMA VerifyInv ==
    ASSUME Inv, NEW t \in Task, NEW a \in Addr, verify_area(t, a)
    PROVE  Inv'
<1>1. CASE do_exit(t, mem)
  <2>1. task[t].st = "user"
    BY DEF verify_area, At
  <2> QED  BY <1>1, <2>1, ExitNow
<1>2. CASE ~do_exit(t, mem)
  <2> DEFINE X == {<<t, a>>}
             Y == {t} \X Addr
             n == IF Protected(mem, t, a) THEN un_wp_page(mem, t, a) ELSE mem
             T == IF Protected(mem, t, a) THEN Torn(mem, t, a) ELSE task[t].torn
             l == [task EXCEPT ![t].st = "copy", ![t].at = a, ![t].torn = T,
                               ![t].ready = ~Protected(n, t, a)]
  <2>1. /\ task[t].st = "user"
        /\ Protected(mem, t, a) => CanCopy(mem, t, a)
        /\ mem' = n /\ view' = view /\ trouble' = trouble
    BY <1>2 DEF verify_area, At
  <2>2. /\ Sound(mem, task, {}, trouble) /\ TablesOK(mem, task[t], t)
        /\ view \in [Task -> [Addr -> Value]] /\ trouble \subseteq Troubles /\ KernelOK(task[t])
        /\ task \in [Task -> TaskType] /\ task[t] \in TaskType
        /\ Fine(mem, task, view, trouble)
        /\ Calm(trouble) => ViewOK(mem, task[t], view, t)
    BY Parting
  <2>3. task' = l
    <3>1. task' = [task EXCEPT ![t].st = "copy", ![t].at = a,
                     ![t].torn = IF Protected(mem, t, a) THEN Torn(mem, t, a) ELSE @,
                     ![t].ready = ~Protected(mem', t, a)]
      BY <1>2 DEF verify_area
    <3>2. Protected(mem', t, a) = Protected(n, t, a)
      BY <2>1
    <3> HIDE DEF n
    <3> QED  BY <3>1, <3>2, <2>2
  <2>4. T \in SUBSET Addr /\ task[t].torn \subseteq T
    <3>1. Torn(mem, t, a) \in SUBSET Addr /\ task[t].torn \subseteq Torn(mem, t, a)
      BY <2>2, TornIs
    <3>2. task[t].torn \in SUBSET Addr
      BY <2>2 DEF TaskType
    <3> QED  BY <3>1, <3>2
  <2>5. /\ Sound(n, task, {}, trouble) /\ OnlyRow(mem, n, t) /\ n.dir = mem.dir
        /\ \A b \in Addr : mem.pte[t][b].page = 0 => n.pte[t][b].page = 0
        /\ Keeps(mem, n, task, X) /\ ~Protected(n, t, a)
        /\ \A s : PageOK(mem, task[t], view, t, a) /\ s.exe = task[t].exe /\ s.torn = T
                     => PageOK(n, s, view, t, a)
    <3>1. CASE Protected(mem, t, a)
      <4>1. /\ CanCopy(mem, t, a) /\ n = un_wp_page(mem, t, a) /\ mem.pte[t][a].page # 0
            /\ T = Torn(mem, t, a)
        BY <3>1, <2>1 DEF Protected
      <4> HIDE DEF n, X, T
      <4>2. /\ Sound(n, task, {}, trouble) /\ Keeps(mem, n, task, X) /\ OnlyRow(mem, n, t)
            /\ n.dir = mem.dir /\ n.pte[t][a].rw /\ n.pte[t][a].page # 0
            /\ \A b \in Addr : b # a => n.pte[t][b] = mem.pte[t][b]
            /\ CowIs(mem, n, t, a)
        <5>1. /\ Sound(mem, task, {}, trouble) /\ Protected(mem, t, a) /\ CanCopy(mem, t, a)
              /\ n = un_wp_page(mem, t, a)
          BY <3>1, <4>1, <2>2
        <5> QED  BY ONLY <5>1, CowOK DEF X
      <4>3. Private(mem, mem.pte[t][a].page) \/ a \in T
        BY <4>1, <2>2, TornIs
      <4>4. \A s : PageOK(mem, task[t], view, t, a) /\ s.exe = task[t].exe /\ s.torn = T
                     => PageOK(n, s, view, t, a)
        BY <4>2, <4>3, <2>4, CowView
      <4> QED  BY <4>1, <4>2, <4>4 DEF Protected
    <3>2. CASE ~Protected(mem, t, a)
      <4>1. n = mem /\ T = task[t].torn
        BY <3>2
      <4> HIDE DEF n, T
      <4>2. Keeps(mem, n, task, X) /\ OnlyRow(mem, n, t)
        BY <4>1 DEF Keeps, Keep, OnlyRow
      <4>3. \A s : PageOK(mem, task[t], view, t, a) /\ s.exe = task[t].exe /\ s.torn = T
                     => PageOK(n, s, view, t, a)
        BY <4>1 DEF PageOK, Fresh
      <4> QED  BY <3>2, <4>1, <4>2, <4>3, <2>2
    <3> QED  BY <3>1, <3>2
  <2> HIDE DEF n, X, T
  <2>6. /\ l \in [Task -> TaskType] /\ OthersSame(task, l, t) /\ l[t].st = "copy"
        /\ l[t].self = task[t].self /\ l[t].load = task[t].load /\ l[t].args = task[t].args
        /\ l[t].exe = task[t].exe /\ l[t].torn = T /\ l[t].ready
    <3> DEFINE s == [task[t] EXCEPT !.st = "copy", !.at = a, !.torn = T, !.ready = TRUE]
    <3>1. /\ s \in TaskType /\ s.st = "copy" /\ s.self = task[t].self /\ s.load = task[t].load
          /\ s.args = task[t].args /\ s.exe = task[t].exe /\ s.torn = T /\ s.ready
      BY <2>2, <2>4 DEF TaskType
    <3>2. l = [task EXCEPT ![t] = s]
      BY <2>2, <2>5
    <3> HIDE DEF s, l
    <3> QED  BY <3>1, <3>2, <2>2 DEF OthersSame
  <2> HIDE DEF l
  <2>7. KernelOK(l[t]) /\ Alive(l[t]) /\ Alive(task[t]) /\ l[t].args = 0
    BY <2>1, <2>2, <2>6 DEF KernelOK, InExec, Alive
  <2>8. Sound(n, l, {}, trouble)
    <3>1. Moves(task[t], l[t], {}, {})
      BY <2>6, MovesNone
    <3> QED  BY <3>1, <2>5, <2>6, TaskOK
  <2>9. TablesOK(n, l[t], t)
    <3>1. l[t].st # "load"
      BY <2>6
    <3> QED  BY <3>1, <2>2, <2>5, <2>7, TablesSame
  <2>10. Keeps(mem, n, task, Y) /\ OthersSame(view, view, t)
    <3>1. X \subseteq Y
      BY DEF X
    <3> HIDE DEF Y
    <3> QED  BY <3>1, <2>5, KeepsWider DEF OthersSame
  <2>11. Calm(trouble) => ViewOK(n, l[t], view, t)
    <3> SUFFICES ASSUME Calm(trouble) PROVE ViewOK(n, l[t], view, t)
      OBVIOUS
    <3>1. ViewOK(mem, task[t], view, t)
      BY <2>2
    <3>2. PageOK(mem, task[t], view, t, a)
      BY <3>1, <2>1, <2>7 DEF ViewOK
    <3>3. PageOK(n, l[t], view, t, a)
      BY <3>2, <2>5, <2>6
    <3>4. ButOne(Addr, view[t], view[t], a) /\ X = {<<t, a>>}
      BY DEF ButOne, X
    <3> QED  BY <3>1, <3>3, <3>4, <2>1, <2>4, <2>5, <2>6, <2>7, ViewBut
  <2>12. Fine(n, l, view, trouble)
    BY ONLY <2>2, <2>5, <2>6, <2>7, <2>8, <2>9, <2>10, <2>11, Settle
  <2> QED  BY <2>1, <2>3, <2>12, InvIsFine
<1> QED
  BY <1>1, <1>2

(* put_fs_byte and its kind.                                               *)
LEMMA CopyEnds ==
    ASSUME Inv, NEW t \in Task, task[t].st = "copy",
           NEW l, l = [task EXCEPT ![t].st = "user", ![t].ready = FALSE]
    PROVE  /\ l \in [Task -> TaskType] /\ OthersSame(task, l, t) /\ KernelOK(l[t])
           /\ Alive(task[t]) /\ Alive(l[t]) /\ l[t].st = "user"
           /\ Moves(task[t], l[t], {}, {}) /\ task[t].ready
           /\ l[t].exe = task[t].exe /\ l[t].args = task[t].args /\ l[t].torn = task[t].torn
<1>1. /\ task \in [Task -> TaskType] /\ task[t] \in TaskType /\ KernelOK(task[t])
  BY Parting
<1>2. /\ l \in [Task -> TaskType] /\ OthersSame(task, l, t) /\ l[t].st = "user"
      /\ l[t].self = task[t].self /\ l[t].load = task[t].load /\ l[t].args = task[t].args
      /\ l[t].exe = task[t].exe /\ l[t].torn = task[t].torn
  BY <1>1 DEF OthersSame, TaskType
<1>3. KernelOK(l[t]) /\ Alive(l[t]) /\ Alive(task[t])
  BY ONLY <1>1, <1>2, task[t].st = "copy" DEF KernelOK, InExec, Alive
<1>4. Moves(task[t], l[t], {}, {})
  BY <1>2, MovesNone
<1>5. task[t].ready
  BY <1>1 DEF KernelOK
<1> QED
  BY <1>2, <1>3, <1>4, <1>5

LEMMA CopyToUserInv ==
    ASSUME Inv, NEW t \in Task, CopyToUser(t)
    PROVE  Inv'
<1>0. task[t] \in TaskType
  BY Parting
<1>3. PICK a \in Addr : a = task[t].at
  BY <1>0 DEF TaskType
<1> DEFINE X == {<<t, a>>}
           n == Store(mem, t, a)
           l == [task EXCEPT ![t].st = "user", ![t].ready = FALSE]
           w == [view EXCEPT ![t][a] = By(t)]
           Y == {t} \X Addr
           ur == trouble \cup (IF task[t].ready /\ ~Private(mem, mem.pte[t][a].page)
                               THEN {"verify"} ELSE {})
<1>1. /\ task[t].st = "copy" /\ mem.pte[t][a].page \notin {0, Low}
      /\ mem' = n /\ view' = w /\ task' = l /\ trouble' = ur
  BY <1>3 DEF CopyToUser, At
<1>2. /\ Sound(mem, task, {}, trouble) /\ TablesOK(mem, task[t], t) /\ task[t] \in TaskType
      /\ view \in [Task -> [Addr -> Value]] /\ trouble \subseteq Troubles /\ mem \in MemType
      /\ Fine(mem, task, view, trouble)
      /\ Calm(trouble) => ViewOK(mem, task[t], view, t)
  BY Parting
<1>4. /\ l \in [Task -> TaskType] /\ OthersSame(task, l, t) /\ KernelOK(l[t])
      /\ Alive(task[t]) /\ Alive(l[t]) /\ l[t].st = "user"
      /\ Moves(task[t], l[t], {}, {})
      /\ task[t].ready
      /\ l[t].exe = task[t].exe /\ l[t].args = task[t].args /\ l[t].torn = task[t].torn
  BY <1>1, CopyEnds
<1>5. mem.pte[t][a].page \in Frame
  <2>1. mem.pte[t][a] \in Pte
    BY <1>2, <1>3, MemIs
  <2>2. mem.pte[t][a].page \in Frame \cup {0, Low}
    BY <2>1 DEF Pte
  <2> QED  BY <2>2, <1>1
<1> HIDE DEF l, n, w, X, ur
<1>6. /\ Sound(n, task, {}, trouble) /\ OnlyRow(mem, n, t) /\ n.dir = mem.dir
      /\ n.pte[t][a].page = mem.pte[t][a].page /\ n.pte[t][a].dirty
      /\ n.data[mem.pte[t][a].page] = By(t)
      /\ \A b \in Addr : n.pte[t][b].page = mem.pte[t][b].page
      /\ Private(mem, mem.pte[t][a].page) => Keeps(mem, n, task, X)
  <2>1. Sound(mem, task, {}, trouble) /\ n = Store(mem, t, a) /\ X = {<<t, a>>}
    BY <1>2 DEF n, X
  <2>2. Stored(mem, n, t, a, X)
    <3> HIDE DEF Y
    <3> QED  BY ONLY <2>1, <1>5, StoreHere, Zenon
  <2> QED  BY <2>2 DEF Stored
<1>7. /\ w \in [Task -> [Addr -> Value]] /\ OthersSame(view, w, t)
      /\ ButOne(Addr, view[t], w[t], a) /\ w[t][a] = By(t)
  <2>1. view \in [Task -> [Addr -> Value]] /\ w = [view EXCEPT ![t][a] = By(t)]
    BY <1>2 DEF w
  <2> QED  BY ONLY <2>1, Wrote
<1>8. Sound(n, l, {}, trouble)
  BY <1>4, <1>6, TaskOK
<1>9. TablesOK(n, l[t], t)
  <2>1. \A b \in Addr : mem.pte[t][b].page = 0 => n.pte[t][b].page = 0
    BY <1>6
  <2>2. l[t].st # "load"
    BY <1>4
  <2> QED  BY <2>1, <2>2, <1>2, <1>4, <1>6, TablesSame
<1>10. CASE Private(mem, mem.pte[t][a].page)
  <2>1. ur = trouble
    BY <1>10 DEF ur
  <2>2. Keeps(mem, n, task, X) /\ X = {<<t, a>>}
    BY <1>6, <1>10 DEF X
  <2>3. Keeps(mem, n, task, Y)
    <3>1. X \subseteq Y
      BY <1>3 DEF X
    <3> HIDE DEF Y
    <3> QED  BY <3>1, <2>2, KeepsWider
  <2>4. PageOK(n, l[t], w, t, a)
    BY <1>5, <1>6, <1>7, Numbers DEF PageOK
  <2>5. Calm(trouble) => ViewOK(n, l[t], w, t)
    BY <2>2, <2>4, <1>1, <1>2, <1>3, <1>4, <1>7, ViewBut
  <2>6. Fine(n, l, w, trouble)
    BY ONLY <1>2, <1>4, <1>6, <1>7, <1>8, <1>9, <2>3, <2>5, Settle
  <2> QED  BY <1>1, <2>1, <2>6, InvIsFine
<1>11. CASE ~Private(mem, mem.pte[t][a].page)
  <2>1. ur = trouble \cup {"verify"}
    BY <1>4, <1>11 DEF ur
  <2>2. ur \subseteq Troubles /\ ~Calm(ur) /\ Sound(n, l, {}, ur)
    BY <2>1, <1>2, <1>8, Odd
  <2>3. Fine(n, l, w, ur)
    BY <2>2, <1>2, <1>4, <1>6, <1>7, <1>9, SettleOdd
  <2> QED  BY <1>1, <2>3, InvIsFine
<1> QED
  BY <1>10, <1>11

LEMMA NothingToCopyInv ==
    ASSUME Inv, NEW t \in Task, NothingToCopy(t)
    PROVE  Inv'
<1> DEFINE l == [task EXCEPT ![t].st = "user", ![t].ready = FALSE]
           Y == {t} \X Addr
<1>1. /\ task[t].st = "copy"
      /\ mem' = mem /\ view' = view /\ task' = l /\ trouble' = trouble
  BY DEF NothingToCopy, At, Same
<1>2. /\ Sound(mem, task, {}, trouble) /\ TablesOK(mem, task[t], t)
      /\ view \in [Task -> [Addr -> Value]] /\ trouble \subseteq Troubles
      /\ Fine(mem, task, view, trouble)
      /\ Calm(trouble) => ViewOK(mem, task[t], view, t)
  BY Parting
<1>3. /\ l \in [Task -> TaskType] /\ OthersSame(task, l, t) /\ KernelOK(l[t])
      /\ Alive(task[t]) /\ Alive(l[t]) /\ l[t].st = "user"
      /\ Moves(task[t], l[t], {}, {})
      /\ task[t].ready
      /\ l[t].exe = task[t].exe /\ l[t].args = task[t].args /\ l[t].torn = task[t].torn
  BY <1>1, CopyEnds
<1> HIDE DEF l
<1>4. OnlyRow(mem, mem, t) /\ OthersSame(view, view, t)
  BY DEF OnlyRow, OthersSame
<1>5. Sound(mem, l, {}, trouble)
  BY <1>2, <1>3, TaskOK
<1>6. TablesOK(mem, l[t], t)
  <2>1. l[t].st # "load"
    BY <1>3
  <2> QED  BY <2>1, <1>2, <1>3, TablesSame
<1>7. Keeps(mem, mem, task, {}) /\ Keeps(mem, mem, task, Y)
  BY DEF Keeps, Keep
<1>8. Calm(trouble) => ViewOK(mem, l[t], view, t)
  <2> SUFFICES ASSUME Calm(trouble) PROVE ViewOK(mem, l[t], view, t)
    OBVIOUS
  <2>1. l[t].args = 0 \/ mem.data[l[t].args] = Args
    BY <1>2, <1>3 DEF ViewOK
  <2> QED  BY <2>1, <1>1, <1>2, <1>3, <1>7, ViewSame
<1>9. Fine(mem, l, view, trouble)
  BY ONLY <1>2, <1>3, <1>4, <1>5, <1>6, <1>7, <1>8, Settle
<1> QED
  BY <1>1, <1>9, InvIsFine

LEMMA ExecClosesInv ==
    ASSUME Inv, NEW t \in Task, ExecCloses(t)
    PROVE  Inv'
<1> DEFINE l == [task EXCEPT ![t].st = "close", ![t].exe = task[t].new]
           Y == {t} \X Addr
<1>1. /\ task[t].st = "exec"
      /\ mem' = mem /\ view' = view /\ task' = l /\ trouble' = trouble
  BY DEF ExecCloses, At
<1>2. /\ Sound(mem, task, {}, trouble) /\ TablesOK(mem, task[t], t) /\ KernelOK(task[t])
      /\ view \in [Task -> [Addr -> Value]] /\ trouble \subseteq Troubles
      /\ task \in [Task -> TaskType] /\ task[t] \in TaskType
      /\ Fine(mem, task, view, trouble)
      /\ Calm(trouble) => ViewOK(mem, task[t], view, t)
  BY Parting
<1>3. /\ l \in [Task -> TaskType] /\ OthersSame(task, l, t) /\ l[t].st = "close"
      /\ l[t].self = task[t].self /\ l[t].load = task[t].load /\ l[t].args = task[t].args
      /\ l[t].exe = task[t].new
  BY <1>2 DEF OthersSame, TaskType
<1> HIDE DEF l
<1>4. KernelOK(l[t]) /\ Alive(l[t]) /\ Alive(task[t]) /\ l[t].st # "load"
  BY <1>1, <1>2, <1>3 DEF KernelOK, InExec, Alive
<1>5. OnlyRow(mem, mem, t) /\ OthersSame(view, view, t)
  BY DEF OnlyRow, OthersSame
<1>6. Sound(mem, l, {}, trouble)
  BY <1>2, <1>3, MovesNone, TaskOK
<1>7. TablesOK(mem, l[t], t)
  BY <1>2, <1>4, TablesSame
<1>8. Keeps(mem, mem, task, Y)
  BY DEF Keeps, Keep
<1>9. Calm(trouble) => ViewOK(mem, l[t], view, t)
  BY <1>2, <1>3, <1>4 DEF ViewOK
<1>10. Fine(mem, l, view, trouble)
  BY ONLY <1>2, <1>3, <1>4, <1>5, <1>6, <1>7, <1>8, <1>9, Settle
<1> QED
  BY <1>1, <1>10, InvIsFine

(* A page is taken, or put, when no other is held.                         *)
LEMMA TakeOne ==
    ASSUME NEW m, NEW k, NEW tr, Sound(m, k, {}, tr), FreePage(m) # 0,
           NEW h, h = FreePage(m), NEW n, n = get_free_page(m)
    PROVE  /\ Sound(n, k, {h}, tr) /\ Keeps(m, n, k, {}) /\ h \in Frame
           /\ NoPte(m, h) /\ NotSole(m, k, h)
           /\ n.pte = m.pte /\ n.dir = m.dir /\ n.data[h] = Zero /\ OnlyData(m, n, h)
<1> DEFINE held == {}
           held2 == held \cup {h}
<1>1. held2 = {h} /\ Sound(m, k, held, tr)
  OBVIOUS
<1> HIDE DEF held
<1>2. /\ Sound(n, k, held \cup {h}, tr) /\ Keeps(m, n, k, {}) /\ h \in Frame
      /\ NoPte(m, h) /\ NotSole(m, k, h)
      /\ n.pte = m.pte /\ n.dir = m.dir /\ n.data[h] = Zero /\ OnlyData(m, n, h)
  BY <1>1, TakeOK
<1> QED
  BY <1>1, <1>2

LEMMA PutOne ==
    ASSUME NEW m, NEW k, NEW tr, NEW h \in Frame, Sound(m, k, {h}, tr), NEW t \in Task,
           NEW a \in Addr, HasTable(m, t, a), m.pte[t][a].page = 0,
           NEW n, n = put_page(m, t, h, a), NEW X, X = {<<t, a>>}
    PROVE  PutIs(m, n, k, {h}, tr, t, a, h, X) /\ Sound(n, k, {}, tr)
<1> DEFINE held == {h}
<1>1. held \ {h} = {} /\ CanPut(m, held, t, a, h) /\ Sound(m, k, held, tr)
  BY DEF CanPut
<1> HIDE DEF held
<1>2. PutIs(m, n, k, held, tr, t, a, h, X)
  BY <1>1, PutOK
<1> QED
  BY <1>1, <1>2 DEF held, PutIs

LEMMA FreeOne ==
    ASSUME NEW m, NEW k, NEW tr, NEW h \in Frame, Sound(m, k, {h}, tr), NEW n, n = free_page(m, h)
    PROVE  /\ Sound(n, k, {}, tr) /\ Keeps(m, n, k, {})
           /\ n.pte = m.pte /\ n.dir = m.dir /\ n.data = m.data
<1> DEFINE held == {h}
<1>1. held \ {h} = {} /\ h \in held /\ Sound(m, k, held, tr)
  OBVIOUS
<1> HIDE DEF held
<1>2. /\ Sound(n, k, held \ {h}, tr) /\ Keeps(m, n, k, {})
      /\ n.pte = m.pte /\ n.dir = m.dir /\ n.data = m.data
  BY <1>1, FreeOK
<1> QED
  BY <1>1, <1>2

(* do_no_page.                                                             *)
LEMMA TablesPut ==
    ASSUME NEW m, NEW n, NEW r, NEW s, NEW t \in Task, NEW a \in Addr, TablesOK(m, r, t),
           Alive(s), s.st # "load", ButOne(Addr, m.pte[t], n.pte[t], a), n.dir[t][DirOf(a)] # 0,
           ButOne(Dir, m.dir[t], n.dir[t], DirOf(a))
    PROVE  TablesOK(n, s, t)
<1>1. \A b \in Addr : n.pte[t][b].page # 0 => n.dir[t][DirOf(b)] # 0
  BY Numbers DEF TablesOK, ButOne
<1> QED
  BY <1>1, Numbers DEF TablesOK

LEMMA FaultIs ==
    ASSUME Inv, NEW t \in Task, NEW a \in Addr, Faults(t, a)
    PROVE  /\ task[t].st \in {"user", "copy", "exec"} /\ mem.pte[t][a].page = 0
           /\ Alive(task[t]) /\ task[t].st # "load" /\ task[t].load = 0
           /\ Calm(trouble) => ViewOK(mem, task[t], view, t) /\ view[t][a] = Fresh(task[t], a)
<1>1. KernelOK(task[t]) /\ (Calm(trouble) => ViewOK(mem, task[t], view, t))
  BY Parting
<1>2. task[t].st \in {"user", "copy", "exec"} /\ mem.pte[t][a].page = 0
  BY DEF Faults, At
<1>3. Alive(task[t]) /\ task[t].st # "load" /\ task[t].load = 0
  BY <1>1, <1>2 DEF Alive, KernelOK
<1> QED
  BY <1>1, <1>2, <1>3 DEF ViewOK, PageOK

LEMMA EmptyPageInv ==
    ASSUME Inv, NEW t \in Task, NEW a \in Addr, get_empty_page(t, a)
    PROVE  Inv'
<1>1. Faults(t, a) /\ Anonymous(t, a)
  BY DEF get_empty_page
<1>2. /\ task[t].st \in {"user", "copy", "exec"} /\ mem.pte[t][a].page = 0
      /\ Alive(task[t]) /\ task[t].st # "load"
      /\ Calm(trouble) => ViewOK(mem, task[t], view, t) /\ view[t][a] = Fresh(task[t], a)
  BY <1>1, FaultIs
<1>3. CASE do_exit(t, mem)
  BY <1>2, <1>3, ExitNow
<1>4. CASE ~do_exit(t, mem)
  <2> DEFINE h == FreePage(mem)
             m == get_free_page(mem)
             n == put_page(m, t, h, a)
             e == Writable(h)
             X == {<<t, a>>}
             Y == {t} \X Addr
  <2>1. /\ h # 0 /\ HasTable(m, t, a) /\ mem' = n
        /\ task' = task /\ view' = view /\ trouble' = trouble
    BY <1>4 DEF get_empty_page, Same
  <2>2. /\ Fine(mem, task, view, trouble) /\ Sound(mem, task, {}, trouble)
        /\ TablesOK(mem, task[t], t) /\ KernelOK(task[t])
        /\ view \in [Task -> [Addr -> Value]] /\ trouble \subseteq Troubles
    BY Parting
  <2> HIDE DEF h, m
  <2>3. /\ Sound(m, task, {h}, trouble) /\ Keeps(mem, m, task, {}) /\ h \in Frame
        /\ m.pte = mem.pte /\ m.dir = mem.dir /\ m.data[h] = Zero
    BY <2>1, <2>2, TakeOne DEF h, m
  <2>4. HasTable(m, t, a) /\ m.pte[t][a].page = 0 /\ X = {<<t, a>>}
    BY <2>1, <2>3, <1>2
  <2> HIDE DEF n, X
  <2>5. /\ Sound(n, task, {}, trouble) /\ Keeps(m, n, task, X) /\ OnlyRow(m, n, t)
        /\ EntrySet(m, n, t, a, e)
        /\ n.data[h] = m.data[h] /\ n.dir[t][DirOf(a)] # 0
        /\ \A d \in Dir : d # DirOf(a) => n.dir[t][d] = m.dir[t][d]
    <3>1. PutIs(m, n, task, {h}, trouble, t, a, h, X) /\ Sound(n, task, {}, trouble)
      BY ONLY <2>3, <2>4, PutOne DEF n
    <3> QED  BY <3>1 DEF PutIs
  <2>7. Keeps(mem, n, task, X) /\ OnlyRow(mem, n, t)
    BY <2>3, <2>5, KeepsMore, KeepsTrans, SameRow, OnlyRowTrans
  <2>8. Keeps(mem, n, task, Y)
    <3>1. X \subseteq Y
      BY DEF X
    <3> HIDE DEF Y
    <3> QED  BY <3>1, <2>7, KeepsWider
  <2>9. TablesOK(n, task[t], t)
    <3>1. TablesOK(m, task[t], t)
      BY <2>2, <2>3 DEF TablesOK
    <3>2. ButOne(Addr, m.pte[t], n.pte[t], a) /\ ButOne(Dir, m.dir[t], n.dir[t], DirOf(a))
      BY <2>5 DEF EntrySet, ButOne
    <3> HIDE DEF e
    <3> QED  BY <3>1, <3>2, <2>5, <1>2, TablesPut
  <2>10. Calm(trouble) => ViewOK(n, task[t], view, t)
    <3> SUFFICES ASSUME Calm(trouble) PROVE ViewOK(n, task[t], view, t)
      OBVIOUS
    <3>1. view[t][a] = Zero
      BY <1>1, <1>2 DEF Anonymous, Fresh
    <3>2. n.pte[t][a].page = h /\ n.data[h] = Zero /\ (task[t].exe = NULL \/ a >= EndData)
      BY <2>3, <2>5, <1>1 DEF EntrySet, Anonymous, Writable
    <3>3. ~(a >= EndData /\ a < EndData)
      BY Numbers
    <3>4. PageOK(n, task[t], view, t, a)
      BY <3>1, <3>2, <3>3, <2>3, Numbers DEF PageOK
    <3>5. ButOne(Addr, view[t], view[t], a)
      BY DEF ButOne
    <3> QED  BY <3>4, <3>5, <1>2, <2>4, <2>7, ViewBut
  <2>11. OthersSame(task, task, t) /\ OthersSame(view, view, t)
    BY DEF OthersSame
  <2>12. Fine(n, task, view, trouble)
    BY ONLY <2>2, <2>5, <2>7, <2>8, <2>9, <2>10, <2>11, Settle
  <2> QED  BY <2>1, <2>12, InvIsFine
<1> QED
  BY <1>3, <1>4

LEMMA SharersAre ==
    ASSUME NEW t, NEW a
    PROVE  /\ Sharers(t, a) \subseteq Task
           /\ \A p \in Sharers(t, a) :
                /\ p # t /\ task[p].exe = task[t].exe
                /\ mem.pte[p][a].page \notin {0, Low} /\ ~mem.pte[p][a].dirty
BY DEF Sharers, Clean

LEMMA SharePageInv ==
    ASSUME Inv, NEW t \in Task, NEW a \in Addr, share_page(t, a)
    PROVE  Inv'
<1>1. Faults(t, a) /\ ~Anonymous(t, a) /\ Sharers(t, a) # {}
  BY DEF share_page
<1>2. /\ task[t].st \in {"user", "copy", "exec"} /\ mem.pte[t][a].page = 0
      /\ Alive(task[t]) /\ task[t].st # "load"
      /\ Calm(trouble) => ViewOK(mem, task[t], view, t) /\ view[t][a] = Fresh(task[t], a)
  BY <1>1, FaultIs
<1>3. CASE do_exit(t, mem)
  BY <1>2, <1>3, ExitNow
<1>4. CASE ~do_exit(t, mem)
  <2> DEFINE p == Max(Sharers(t, a))
             m == WithTable(mem, t, a)
             e == ReadOnly(mem.pte[p][a])
             n == WithShared(m, p, t, a, e)
             X == {<<t, a>>}
             Y == {t} \X Addr
             ur == trouble \cup Lost(p, a)
  <2>1. /\ HasTable(mem, t, a) /\ mem' = n
        /\ task' = task /\ view' = view /\ trouble' = ur
    BY <1>4 DEF share_page, WithShared, ReadOnly
  <2>2. /\ Fine(mem, task, view, trouble) /\ Sound(mem, task, {}, trouble) /\ mem \in MemType
        /\ TablesOK(mem, task[t], t) /\ KernelOK(task[t])
        /\ view \in [Task -> [Addr -> Value]] /\ trouble \subseteq Troubles
    BY Parting
  <2>3. p \in Sharers(t, a)
    BY <1>1, SharersAre, MaxTask
  <2>4. /\ p \in Task /\ p # t /\ task[p].exe = task[t].exe
        /\ mem.pte[p][a].page \notin {0, Low} /\ ~mem.pte[p][a].dirty
    BY <2>3, SharersAre
  <2> HIDE DEF p, m, n, X, ur
  <2>5. mem.pte[p][a] \in Pte /\ mem.pte[p][a].page \in Frame
    <3>1. mem.pte[p][a] \in Pte
      BY <2>2, <2>4, MemIs
    <3> QED  BY <3>1, <2>4 DEF Pte
  <2>6. Alive(task[p])
    <3>1. TablesOK(mem, task[p], p)
      BY <2>4, Parting
    <3> QED  BY <3>1, <2>5, Numbers DEF TablesOK
  <2>7. /\ Sound(m, task, {}, trouble) /\ Keeps(mem, m, task, {}) /\ Tabled(mem, m, t, a)
    BY <2>1, <2>2, TableOK DEF m
  <2>8. /\ m.pte[p][a].page \in Frame /\ m.pte[t][a].page = 0 /\ e = ReadOnly(m.pte[p][a])
        /\ m.data[m.pte[p][a].page] = mem.data[mem.pte[p][a].page] /\ m.pte = mem.pte
    BY <2>4, <2>5, <2>7, <1>2 DEF Tabled, Keeps, Keep
  <2>9. e.page = mem.pte[p][a].page /\ ~e.rw /\ e.dirty = mem.pte[p][a].dirty
    BY <2>5, ReadOnlyType
  <2> HIDE DEF e
  <2>10. /\ Sound(n, task, {}, trouble) /\ Keeps(m, n, task, X) /\ OnlyRow(m, n, t)
         /\ n.dir = m.dir /\ n.data = m.data /\ n.pte[t][a] = e
         /\ \A b \in Addr : b # a => n.pte[t][b] = m.pte[t][b]
    <3>1. ShareIs(m, n, task, {}, trouble, t, a, e, X)
      BY ONLY <2>4, <2>7, <2>8, ShareOK DEF X, n
    <3> QED  BY <3>1 DEF ShareIs
  <2>11. Keeps(mem, n, task, X) /\ OnlyRow(mem, n, t)
    <3>1. OnlyRow(mem, m, t)
      BY <2>7 DEF OnlyRow, Tabled
    <3> QED  BY <3>1, <2>7, <2>10, KeepsMore, KeepsTrans, OnlyRowTrans
  <2>12. Keeps(mem, n, task, Y)
    <3>1. X \subseteq Y
      BY DEF X
    <3> HIDE DEF Y
    <3> QED  BY <3>1, <2>11, KeepsWider
  <2>13. TablesOK(n, task[t], t)
    <3>1. ButOne(Addr, mem.pte[t], n.pte[t], a) /\ ButOne(Dir, mem.dir[t], n.dir[t], DirOf(a))
          /\ n.dir[t][DirOf(a)] # 0
      BY <2>7, <2>10 DEF ButOne, Tabled
    <3> QED  BY <3>1, <2>2, <1>2, TablesPut
  <2>17. task[t].exe # NULL /\ a < EndData
    BY <1>1, Numbers DEF Anonymous
  <2>18. /\ ur \subseteq Troubles /\ Sound(n, task, {}, ur)
         /\ Calm(ur) => Calm(trouble) /\ mem.data[mem.pte[p][a].page] = Image(task[t].exe)
    <3>1. Lost(p, a) \in {{}, {"exec"}, {"torn"}}
      BY DEF Lost
    <3>2. /\ ur \subseteq Troubles /\ (Calm(ur) => Calm(trouble) /\ Lost(p, a) = {})
          /\ ("oom" \in trouble => "oom" \in ur)
      BY <3>1, <2>2 DEF ur, Calm, Troubles
    <3>3. Sound(n, task, {}, ur)
      BY <3>2, <2>10, LostOK
    <3>4. ASSUME Calm(trouble), Lost(p, a) = {}
          PROVE  mem.data[mem.pte[p][a].page] = Image(task[p].exe)
      <4>1. Seen(p, a) = mem.data[mem.pte[p][a].page]
        BY <2>4 DEF Seen
      <4>2. CASE task[p].st # "close" /\ a \notin task[p].torn
        <5>1. ViewOK(mem, task[p], view, p)
          BY <3>4, <2>4, Parting
        <5>2. PageOK(mem, task[p], view, p, a)
          BY <4>2, <5>1, <2>6 DEF ViewOK
        <5> QED  BY <4>2, <5>2, <2>4, <2>5, <2>17 DEF PageOK
      <4>3. CASE task[p].st = "close" \/ a \in task[p].torn
        <5>1. {"exec"} # {} /\ {"torn"} # {}
          OBVIOUS
        <5>2. Seen(p, a) = Image(task[p].exe)
          BY <3>4, <4>3, <5>1 DEF Lost, At
        <5> QED  BY <4>1, <5>2
      <4> QED  BY <4>2, <4>3
    <3> QED  BY <3>2, <3>3, <3>4, <2>4
  <2>14. Calm(ur) => ViewOK(n, task[t], view, t)
    <3> SUFFICES ASSUME Calm(ur) PROVE ViewOK(n, task[t], view, t)
      OBVIOUS
    <3>2. Calm(trouble) /\ view[t][a] = Image(task[t].exe)
      BY <2>17, <2>18, <1>2, Numbers DEF Fresh
    <3>3. mem.data[mem.pte[p][a].page] = Image(task[t].exe)
      BY <2>18
    <3>4. n.pte[t][a].page \in Frame /\ n.data[n.pte[t][a].page] = view[t][a]
      BY <3>2, <3>3, <2>5, <2>8, <2>9, <2>10
    <3>5. PageOK(n, task[t], view, t, a)
      BY <3>2, <3>4, Numbers DEF PageOK
    <3>6. ButOne(Addr, view[t], view[t], a) /\ X = {<<t, a>>}
      BY DEF ButOne, X
    <3>7. ViewOK(mem, task[t], view, t) /\ Alive(task[t]) /\ task[t].st # "close"
      BY <3>2, <1>2
    <3>8. Keeps(mem, n, task, X)
      BY <2>11
    <3> QED  BY ONLY <3>5, <3>6, <3>7, <3>8, ViewBut
  <2>15. OthersSame(task, task, t) /\ OthersSame(view, view, t)
    BY DEF OthersSame
  <2>16. Fine(n, task, view, ur)
    BY ONLY <2>2, <2>11, <2>12, <2>13, <2>14, <2>15, <2>18, Settle
  <2> QED  BY <2>1, <2>16, InvIsFine
<1> QED
  BY <1>3, <1>4

LEMMA LoadBeginsInv ==
    ASSUME Inv, NEW t \in Task, NEW a \in Addr, LoadBegins(t, a)
    PROVE  Inv'
<1>1. Faults(t, a) /\ ~Anonymous(t, a)
  BY DEF LoadBegins
<1>2. /\ task[t].st \in {"user", "copy", "exec"} /\ mem.pte[t][a].page = 0
      /\ Alive(task[t]) /\ task[t].st # "load" /\ task[t].load = 0
      /\ Calm(trouble) => ViewOK(mem, task[t], view, t) /\ view[t][a] = Fresh(task[t], a)
  BY <1>1, FaultIs
<1>3. CASE do_exit(t, mem)
  BY <1>2, <1>3, ExitNow
<1>4. CASE ~do_exit(t, mem)
  <2> DEFINE h == FreePage(mem)
             n == get_free_page(mem)
             l == [task EXCEPT ![t].st = "load", ![t].back = task[t].st,
                               ![t].at = a, ![t].load = h]
             Y == {t} \X Addr
  <2>1. /\ h # 0 /\ mem' = n /\ task' = l /\ view' = view /\ trouble' = trouble
    BY <1>4 DEF LoadBegins, Same
  <2>2. /\ Fine(mem, task, view, trouble) /\ Sound(mem, task, {}, trouble)
        /\ TablesOK(mem, task[t], t) /\ KernelOK(task[t])
        /\ view \in [Task -> [Addr -> Value]] /\ trouble \subseteq Troubles
        /\ task \in [Task -> TaskType] /\ task[t] \in TaskType
    BY Parting
  <2> HIDE DEF h, n
  <2>3. /\ Sound(n, task, {h}, trouble) /\ Keeps(mem, n, task, {}) /\ h \in Frame
        /\ n.pte = mem.pte /\ n.dir = mem.dir
    BY <2>1, <2>2, TakeOne DEF h, n
  <2>4. /\ l \in [Task -> TaskType] /\ OthersSame(task, l, t)
        /\ l[t].st = "load" /\ l[t].back = task[t].st /\ l[t].at = a /\ l[t].load = h
        /\ l[t].self = task[t].self /\ l[t].args = task[t].args
        /\ l[t].exe = task[t].exe /\ l[t].new = task[t].new
        /\ l[t].torn = task[t].torn /\ l[t].ready = task[t].ready
    <3> DEFINE s == [task[t] EXCEPT !.st = "load", !.back = task[t].st, !.at = a, !.load = h]
    <3>1. /\ s \in TaskType /\ s.st = "load" /\ s.back = task[t].st /\ s.at = a /\ s.load = h
          /\ s.self = task[t].self /\ s.args = task[t].args
          /\ s.exe = task[t].exe /\ s.new = task[t].new
          /\ s.torn = task[t].torn /\ s.ready = task[t].ready
      BY <2>2, <2>3, <1>2 DEF TaskType
    <3>2. l = [task EXCEPT ![t] = s]
      BY <2>2
    <3> HIDE DEF s, l
    <3> QED  BY <3>1, <3>2, <2>2 DEF OthersSame
  <2> HIDE DEF l
  <2>5. task[t].exe # NULL /\ a < EndData
    BY <1>1, Numbers DEF Anonymous
  <2>6. KernelOK(l[t]) /\ Alive(l[t])
    BY <2>2, <2>3, <2>4, <2>5, <1>2, Numbers DEF KernelOK, InExec, Alive
  <2>7. Sound(n, l, {}, trouble)
    <3>1. Moves(task[t], l[t], {h}, {})
      BY <2>3, <2>4, <1>2, Numbers DEF Moves, TaskRefs, Bit, Holds
    <3> QED  BY <3>1, <2>3, <2>4, TaskOK
  <2>8. TablesOK(n, l[t], t)
    BY <2>2, <2>3, <2>4, <2>6, <1>2 DEF TablesOK
  <2>9. Keeps(mem, n, task, Y) /\ OnlyRow(mem, n, t) /\ OthersSame(view, view, t)
    BY <2>3, KeepsMore, SameRow DEF OthersSame
  <2>10. Calm(trouble) => ViewOK(n, l[t], view, t)
    <3> SUFFICES ASSUME Calm(trouble) PROVE ViewOK(n, l[t], view, t)
      OBVIOUS
    <3>1. l[t].args = 0 \/ n.data[l[t].args] = Args
      BY <2>3, <2>4, <1>2 DEF ViewOK, Keeps
    <3> QED  BY <3>1, <2>3, <2>4, <1>2, ViewSame
  <2>11. Fine(n, l, view, trouble)
    BY ONLY <2>2, <2>4, <2>6, <2>7, <2>8, <2>9, <2>10, Settle
  <2> QED  BY <2>1, <2>11, InvIsFine
<1> QED
  BY <1>3, <1>4

LEMMA SameArgs ==
    ASSUME NEW m, NEW n, NEW k, NEW l, NEW X, Keeps(m, n, l, X),
           \A u \in Task : k[u].args = l[u].args
    PROVE  Keeps(m, n, k, X)
BY DEF Keeps

(* The page that is being read has no other user.                          *)
LEMMA LoadIs ==
    ASSUME Inv, NEW t \in Task, task[t].st = "load",
           NEW f, f = task[t].load, NEW m, m = Filled(mem, f, Image(task[t].exe))
    PROVE  /\ f \in Frame /\ task[t].args # f /\ task[t].self # f
           /\ task[t].exe # NULL /\ task[t].at \in Addr /\ task[t].at < EndData
           /\ mem.pte[t][task[t].at].page = 0 /\ task[t].back # "none"
           /\ Sound(m, task, {}, trouble) /\ Keeps(mem, m, task, {})
           /\ m.data[f] = Image(task[t].exe) /\ m.pte = mem.pte /\ m.dir = mem.dir
<1>1. /\ Sound(mem, task, {}, trouble) /\ TablesOK(mem, task[t], t) /\ KernelOK(task[t])
      /\ task \in [Task -> TaskType] /\ task[t] \in TaskType /\ mem \in MemType
  BY Parting
<1>2. f \in Frame /\ task[t].at \in Addr /\ task[t].exe \in Exec
  BY <1>1 DEF KernelOK, TaskType
<1>3. mem.map[f] = 1 /\ GoodAt(mem, task, {}, trouble, f)
  <2>1. GoodAt(mem, task, {}, trouble, f)
    BY <1>1, <1>2 DEF Sound, Good
  <2>2. ~NotSole(mem, task, f)
    BY DEF NotSole, NoLoad
  <2> QED  BY <2>1, <2>2 DEF GoodAt
<1>4. NoPte(mem, f) /\ NoArgs(task, f) /\ NoSelf(task, f)
  BY <1>1, <1>2, <1>3, OneUser
<1>5. Image(task[t].exe) \in Value
  BY <1>2 DEF Value
<1>6. /\ Sound(m, task, {}, trouble) /\ OnlyData(mem, m, f) /\ m.data[f] = Image(task[t].exe)
      /\ m.pte = mem.pte /\ m.dir = mem.dir
  BY <1>1, <1>2, <1>5, FillOK
<1>7. Keeps(mem, m, task, {})
  BY <1>1, <1>4, <1>6, DataKeeps
<1> QED
  BY <1>1, <1>2, <1>4, <1>6, <1>7 DEF KernelOK, TablesOK, NoArgs, NoSelf

LEMMA LoadEndsInv ==
    ASSUME Inv, NEW t \in Task, LoadEnds(t)
    PROVE  Inv'
<1> DEFINE f == task[t].load
           a == task[t].at
           m == Filled(mem, f, Image(task[t].exe))
<1>1. task[t].st = "load"
  BY DEF LoadEnds, At
<1>2. /\ f \in Frame /\ task[t].args # f /\ task[t].self # f
      /\ task[t].exe # NULL /\ a \in Addr /\ a < EndData
      /\ mem.pte[t][a].page = 0 /\ task[t].back # "none"
      /\ Sound(m, task, {}, trouble) /\ Keeps(mem, m, task, {})
      /\ m.data[f] = Image(task[t].exe) /\ m.pte = mem.pte /\ m.dir = mem.dir
  BY <1>1, LoadIs
<1>3. /\ Fine(mem, task, view, trouble) /\ Sound(mem, task, {}, trouble)
      /\ TablesOK(mem, task[t], t) /\ KernelOK(task[t])
      /\ view \in [Task -> [Addr -> Value]] /\ trouble \subseteq Troubles
      /\ task \in [Task -> TaskType] /\ task[t] \in TaskType
      /\ Calm(trouble) => ViewOK(mem, task[t], view, t)
  BY Parting
<1>4. CASE HasTable(m, t, a)
  <2> DEFINE n == put_page(m, t, f, a)
             l == [task EXCEPT ![t].st = task[t].back, ![t].back = "none", ![t].load = 0]
             X == {<<t, a>>}
             Y == {t} \X Addr
  <2>1. mem' = n /\ task' = l /\ view' = view /\ trouble' = trouble
    BY <1>4 DEF LoadEnds, Same, Filled
  <2>2. /\ l \in [Task -> TaskType] /\ OthersSame(task, l, t)
        /\ l[t].st = task[t].back /\ l[t].back = "none" /\ l[t].load = 0
        /\ l[t].self = task[t].self /\ l[t].args = task[t].args
        /\ l[t].exe = task[t].exe /\ l[t].new = task[t].new
        /\ l[t].torn = task[t].torn /\ l[t].ready = task[t].ready
    <3> DEFINE s == [task[t] EXCEPT !.st = task[t].back, !.back = "none", !.load = 0]
    <3>1. /\ s \in TaskType /\ s.st = task[t].back /\ s.back = "none" /\ s.load = 0
          /\ s.self = task[t].self /\ s.args = task[t].args
          /\ s.exe = task[t].exe /\ s.new = task[t].new
          /\ s.torn = task[t].torn /\ s.ready = task[t].ready
      BY <1>3 DEF TaskType
    <3>2. l = [task EXCEPT ![t] = s]
      BY <1>3
    <3> HIDE DEF s, l
    <3> QED  BY <3>1, <3>2, <1>3 DEF OthersSame
  <2>3. task[t].back \in {"user", "copy", "exec"}
    BY <1>2, <1>3 DEF TaskType
  <2> HIDE DEF l, m, f, a, n, X
  <2>4. KernelOK(l[t]) /\ Alive(l[t]) /\ Alive(task[t]) /\ l[t].st # "load"
    BY <1>1, <1>3, <2>2, <2>3 DEF KernelOK, InExec, Alive
  <2>5. Sound(m, l, {f}, trouble)
    <3>1. Moves(task[t], l[t], {}, {f})
      BY <1>2, <2>2, Numbers DEF Moves, TaskRefs, Bit, Holds, f
    <3> QED  BY <3>1, <1>2, <2>2, TaskOK
  <2>6. PutIs(m, n, l, {f}, trouble, t, a, f, X) /\ Sound(n, l, {}, trouble)
    <3>1. HasTable(m, t, a) /\ m.pte[t][a].page = 0
      BY <1>2, <1>4
    <3> QED  BY ONLY <3>1, <1>2, <2>5, PutOne DEF n, X
  <2>7. /\ Keeps(m, n, l, X) /\ OnlyRow(m, n, t) /\ EntrySet(m, n, t, a, Writable(f))
        /\ n.data[f] = m.data[f] /\ n.dir[t][DirOf(a)] # 0
        /\ \A d \in Dir : d # DirOf(a) => n.dir[t][d] = m.dir[t][d]
    BY <2>6 DEF PutIs
  <2>8. Keeps(mem, n, task, X) /\ OnlyRow(mem, n, t)
    <3>1. \A u \in Task : task[u].args = l[u].args
      BY <2>2 DEF OthersSame
    <3>2. Keeps(m, n, task, X)
      BY <3>1, <2>7, SameArgs
    <3> QED  BY <3>2, <1>2, <2>7, KeepsMore, KeepsTrans, SameRow, OnlyRowTrans
  <2>9. Keeps(mem, n, task, Y)
    <3>1. X \subseteq Y
      BY <1>2 DEF X
    <3> HIDE DEF Y
    <3> QED  BY <3>1, <2>8, KeepsWider
  <2>10. TablesOK(n, l[t], t)
    <3>1. TablesOK(m, task[t], t)
      BY <1>2, <1>3 DEF TablesOK
    <3>2. ButOne(Addr, m.pte[t], n.pte[t], a) /\ ButOne(Dir, m.dir[t], n.dir[t], DirOf(a))
      BY <2>7 DEF EntrySet, ButOne
    <3> QED  BY <3>1, <3>2, <2>4, <2>7, <1>2, TablesPut
  <2>11. Calm(trouble) => ViewOK(n, l[t], view, t)
    <3> SUFFICES ASSUME Calm(trouble) PROVE ViewOK(n, l[t], view, t)
      OBVIOUS
    <3>1. ViewOK(mem, task[t], view, t)
      BY <1>3
    <3>2. view[t][a] = Image(task[t].exe)
      BY <3>1, <2>4, <1>1, <1>2, Numbers DEF ViewOK, PageOK, Fresh
    <3>3. n.pte[t][a].page = f /\ n.data[f] = Image(task[t].exe)
      BY <1>2, <2>7 DEF EntrySet, Writable
    <3>4. PageOK(n, l[t], view, t, a)
      BY <3>2, <3>3, <1>2, <2>2, Numbers DEF PageOK
    <3>5. ButOne(Addr, view[t], view[t], a) /\ X = {<<t, a>>}
      BY DEF ButOne, X
    <3> QED  BY <3>1, <3>4, <3>5, <1>1, <1>2, <2>2, <2>4, <2>8, ViewBut
  <2>12. OthersSame(view, view, t)
    BY DEF OthersSame
  <2>13. Fine(n, l, view, trouble)
    BY ONLY <1>3, <2>2, <2>4, <2>6, <2>8, <2>9, <2>10, <2>11, <2>12, Settle
  <2> QED  BY <2>1, <2>13, InvIsFine
<1>5. CASE ~HasTable(m, t, a)
  <2> DEFINE g == free_page(m, f)
             l == Gone(task, t)
             held == IF task[t].args # 0 THEN {task[t].args} ELSE {}
             both == held \cup {f}
             ur == trouble \cup (IF task[t].args # 0 THEN {"oom"} ELSE {})
             n == free_page_tables(g, t)
  <2>1. mem' = n /\ task' = l /\ view' = view /\ trouble' = ur
    BY <1>5 DEF LoadEnds, do_exit, Filled, Gone
  <2>2. /\ l \in [Task -> TaskType] /\ OthersSame(task, l, t)
        /\ l[t].self = task[t].self /\ l[t].load = 0 /\ l[t].args = 0
    BY <1>3, GoneIs
  <2>3. task[t].args \in Frame \cup {0}
    BY <1>3 DEF TaskType
  <2> HIDE DEF l, m
  <2>4. Moves(task[t], l[t], {}, both)
    BY <1>2, <2>2, <2>3, Numbers DEF Moves, TaskRefs, Bit, Holds
  <2>5. f \in both /\ both \ {f} = held /\ (held = {} \/ task[t].args # 0)
    BY <1>2
  <2> HIDE DEF f, held, both, g
  <2>6. Sound(m, l, both, trouble)
    BY <1>2, <2>2, <2>4, TaskOK
  <2>7. /\ Sound(g, l, both \ {f}, trouble)
        /\ g.pte = m.pte /\ g.dir = m.dir /\ g.data = m.data
    BY <1>2, <2>5, <2>6, FreeOK DEF g
  <2>8. Keeps(mem, g, task, {}) /\ OnlyRow(mem, g, t)
    <3>1. Keeps(m, g, task, {})
      BY <2>7 DEF Keeps, Keep
    <3> QED  BY <3>1, <1>2, <2>7, KeepsTrans, SameRow, OnlyRowTrans
  <2>9. Sound(g, l, held, trouble)
    BY <2>5, <2>7
  <2> HIDE DEF ur, n
  <2>10. Fine(n, l, view, ur)
    BY <1>3, <2>5, <2>8, <2>9, ExitFine DEF l, ur, n
  <2> QED  BY <2>1, <2>10, InvIsFine
<1> QED
  BY <1>4, <1>5

(* exec.                                                                   *)
LEMMA ExecBeginsInv ==
    ASSUME Inv, NEW t \in Task, NEW e \in Exec, ExecBegins(t, e)
    PROVE  Inv'
<1> DEFINE h == FreePage(mem)
           m == get_free_page(mem)
           n == Filled(m, h, Args)
           l == [task EXCEPT ![t].st = "exec", ![t].args = h, ![t].new = e]
           Y == {t} \X Addr
<1>1. /\ task[t].st = "user" /\ h # 0
      /\ mem' = n /\ task' = l /\ view' = view /\ trouble' = trouble
  BY DEF ExecBegins, At, copy_strings, Filled
<1>2. /\ Fine(mem, task, view, trouble) /\ Sound(mem, task, {}, trouble)
      /\ TablesOK(mem, task[t], t) /\ KernelOK(task[t])
      /\ view \in [Task -> [Addr -> Value]] /\ trouble \subseteq Troubles
      /\ task \in [Task -> TaskType] /\ task[t] \in TaskType
      /\ Calm(trouble) => ViewOK(mem, task[t], view, t)
  BY Parting
<1>3. Alive(task[t]) /\ task[t].load = 0 /\ task[t].args = 0
  BY <1>1, <1>2, UserIs
<1> HIDE DEF h, m, n
<1>4. /\ Sound(m, task, {h}, trouble) /\ Keeps(mem, m, task, {}) /\ h \in Frame
      /\ NoPte(mem, h) /\ NotSole(mem, task, h) /\ m.pte = mem.pte /\ m.dir = mem.dir
  BY <1>1, <1>2, TakeOne DEF h, m
<1>5. Args \in Value
  BY DEF Value
<1>6. /\ Sound(n, task, {h}, trouble) /\ OnlyData(m, n, h) /\ n.data[h] = Args
      /\ n.pte = m.pte /\ n.dir = m.dir
  BY <1>4, <1>5, FillOK DEF n
<1>7. Keeps(mem, n, task, {}) /\ n.pte = mem.pte /\ n.dir = mem.dir
  <2>1. NoPte(m, h) /\ NoArgs(task, h)
    BY <1>4 DEF NoPte, NotSole
  <2>2. Keeps(m, n, task, {})
    BY <2>1, <1>2, <1>6, DataKeeps
  <2> QED  BY <2>2, <1>4, <1>6, KeepsTrans
<1>8. /\ l \in [Task -> TaskType] /\ OthersSame(task, l, t)
      /\ l[t].st = "exec" /\ l[t].args = h /\ l[t].new = e /\ l[t].load = task[t].load
      /\ l[t].self = task[t].self /\ l[t].exe = task[t].exe /\ l[t].torn = task[t].torn
  BY <1>2, <1>4 DEF OthersSame, TaskType
<1> HIDE DEF l
<1>9. KernelOK(l[t]) /\ Alive(l[t]) /\ l[t].st # "load"
  BY <1>3, <1>4, <1>8, Numbers, MemoryAssumption DEF KernelOK, InExec, Alive
<1>10. Sound(n, l, {}, trouble)
  <2>1. Moves(task[t], l[t], {h}, {})
    BY <1>3, <1>4, <1>8, Numbers DEF Moves, TaskRefs, Bit, Holds
  <2> QED  BY <2>1, <1>6, <1>8, TaskOK
<1>11. TablesOK(n, l[t], t)
  BY <1>2, <1>3, <1>7, <1>9, TablesSame
<1>12. Keeps(mem, n, task, Y) /\ OnlyRow(mem, n, t) /\ OthersSame(view, view, t)
  BY <1>7, KeepsMore, SameRow DEF OthersSame
<1>13. Calm(trouble) => ViewOK(n, l[t], view, t)
  <2> SUFFICES ASSUME Calm(trouble) PROVE ViewOK(n, l[t], view, t)
    OBVIOUS
  <2>1. ViewOK(mem, task[t], view, t)
    BY <1>2
  <2>2. l[t].args = 0 \/ n.data[l[t].args] = Args
    BY <1>6, <1>8
  <2> QED  BY <2>1, <2>2, <1>1, <1>3, <1>7, <1>8, ViewSame
<1>14. Fine(n, l, view, trouble)
  BY ONLY <1>2, <1>8, <1>9, <1>10, <1>11, <1>12, <1>13, Settle
<1> QED
  BY <1>1, <1>14, InvIsFine

(* The page of the arguments has no other user, and neither has a table.   *)
LEMMA ArgsAre ==
    ASSUME Inv, NEW t \in Task, task[t].st \in {"exec", "close"}, NEW f, f = task[t].args
    PROVE  /\ f \in Frame /\ task[t].load = 0 /\ Alive(task[t])
           /\ task[t].st = "exec" => task[t].new \in Exec
           /\ task[t].st = "close" => task[t].exe \in Exec
BY Parting DEF KernelOK, InExec, TaskType, Alive

LEMMA ExecFailsInv ==
    ASSUME Inv, NEW t \in Task, ExecFails(t)
    PROVE  Inv'
<1> DEFINE f == task[t].args
           n == free_page(mem, f)
           l == [task EXCEPT ![t].st = "user", ![t].args = 0, ![t].new = NULL]
           Y == {t} \X Addr
<1>1. task[t].st = "exec" /\ mem' = n /\ task' = l /\ view' = view /\ trouble' = trouble
  BY DEF ExecFails, At, Same
<1>2. /\ Fine(mem, task, view, trouble) /\ Sound(mem, task, {}, trouble)
      /\ TablesOK(mem, task[t], t) /\ KernelOK(task[t])
      /\ view \in [Task -> [Addr -> Value]] /\ trouble \subseteq Troubles
      /\ task \in [Task -> TaskType] /\ task[t] \in TaskType
      /\ Calm(trouble) => ViewOK(mem, task[t], view, t)
  BY Parting
<1>3. f \in Frame /\ task[t].load = 0 /\ Alive(task[t])
  BY <1>1, ArgsAre
<1>4. /\ l \in [Task -> TaskType] /\ OthersSame(task, l, t)
      /\ l[t].st = "user" /\ l[t].args = 0 /\ l[t].load = task[t].load
      /\ l[t].self = task[t].self /\ l[t].exe = task[t].exe /\ l[t].torn = task[t].torn
  BY <1>2 DEF OthersSame, TaskType
<1> HIDE DEF l
<1>5. Moves(task[t], l[t], {}, {f})
  BY <1>3, <1>4, Numbers DEF Moves, TaskRefs, Bit, Holds
<1>6. KernelOK(l[t]) /\ Alive(l[t]) /\ l[t].st # "load"
  BY <1>3, <1>4 DEF KernelOK, InExec, Alive
<1> HIDE DEF f, n
<1>7. Sound(mem, l, {f}, trouble)
  BY <1>2, <1>4, <1>5, TaskOK
<1>8. Sound(n, l, {}, trouble) /\ n.pte = mem.pte /\ n.dir = mem.dir /\ n.data = mem.data
  BY <1>3, <1>7, FreeOne DEF n
<1>9. Keeps(mem, n, task, {}) /\ Keeps(mem, n, task, Y) /\ OnlyRow(mem, n, t)
      /\ OthersSame(view, view, t)
  BY <1>8, SameRow DEF Keeps, Keep, OthersSame
<1>10. TablesOK(n, l[t], t)
  BY <1>2, <1>3, <1>6, <1>8, TablesSame
<1>11. Calm(trouble) => ViewOK(n, l[t], view, t)
  <2> SUFFICES ASSUME Calm(trouble) PROVE ViewOK(n, l[t], view, t)
    OBVIOUS
  <2>1. ViewOK(mem, task[t], view, t)
    BY <1>2
  <2> QED  BY <2>1, <1>1, <1>3, <1>4, <1>9, ViewSame
<1>12. Fine(n, l, view, trouble)
  BY ONLY <1>2, <1>4, <1>6, <1>8, <1>9, <1>10, <1>11, Settle
<1> QED
  BY <1>1, <1>12, InvIsFine

LEMMA TableThere ==
    ASSUME NEW m \in MemType, NEW t \in Task, NEW a \in Addr, FreePage(m) # 0
    PROVE  HasTable(m, t, a)
<1>1. CASE m.dir[t][DirOf(a)] # 0
  BY <1>1 DEF HasTable, WithTable
<1>2. CASE m.dir[t][DirOf(a)] = 0
  <2> DEFINE g == get_free_page(m)
             h == FreePage(m)
             d == DirOf(a)
  <2>1. g \in MemType
    BY TakeFields
  <2>2. WithTable(m, t, a) = [g EXCEPT !.dir[t][d] = h]
    BY <1>2 DEF WithTable
  <2>3. d \in Dir /\ h # 0
    BY Numbers
  <2> HIDE DEF g, h, d
  <2>4. g = [map |-> g.map, dir |-> g.dir, pte |-> g.pte, data |-> g.data]
        /\ g.dir \in [Task -> [Dir -> Frame \cup {0}]]
    BY <2>1, MemIs
  <2>5. WithTable(m, t, a).dir = [g.dir EXCEPT ![t][d] = h]
    BY <2>2, <2>4
  <2>6. WithTable(m, t, a).dir[t][d] = h
    BY <2>3, <2>4, <2>5
  <2> QED  BY <2>3, <2>6 DEF HasTable, d
<1> QED
  BY <1>1, <1>2

(* exec frees at least the page of a table, which serves for the new one.  *)
LEMMA RoomForArgs ==
    ASSUME Inv, NEW t \in Task, Alive(task[t]), NEW g, g = free_page_tables(mem, t)
    PROVE  HasTable(g, t, ArgAddr)
<1>1. /\ Sound(mem, task, {}, trouble) /\ TablesOK(mem, task[t], t) /\ mem \in MemType
  BY Parting
<1>2. PICK d \in Dir : mem.dir[t][d] # 0
  BY <1>1 DEF TablesOK
<1> DEFINE x == mem.dir[t][d]
           X == {t} \X Addr
<1>3. x \in Frame
  BY <1>1, <1>2, MemIs
<1>4. mem.map[x] = 1
  <2>1. GoodAt(mem, task, {}, trouble, x)
    BY <1>1, <1>3 DEF Sound, Good
  <2>2. ~NotSole(mem, task, x)
    BY DEF NotSole, NoDir
  <2> QED  BY <2>1, <2>2 DEF GoodAt
<1>5. RowRefs(mem, t, x) >= 1
  <2> DEFINE A == {a \in Addr : mem.pte[t][a].page = x}
             D == {b \in Dir : mem.dir[t][b] = x}
  <2>1. RowRefs(mem, t, x) = Cardinality(A) + Cardinality(D)
    BY <1>3, RowRefsAre
  <2>2. A \in SUBSET Addr /\ D \in SUBSET Dir /\ D # {}
    OBVIOUS
  <2> HIDE DEF A, D
  <2>3. /\ IsFiniteSet(A) /\ IsFiniteSet(D)
        /\ Cardinality(A) \in Nat /\ Cardinality(D) \in Nat
    BY <2>2, AllFinite, FS_Subset, FS_CardinalityType
  <2>4. Cardinality(D) >= 1
    BY <2>2, <2>3, NoneOrOne
  <2> QED  BY <2>1, <2>3, <2>4
<1> HIDE DEF X
<1>6. /\ Sound(g, task, {}, trouble) /\ Keeps(mem, g, task, X) /\ OnlyRow(mem, g, t)
      /\ Empty(g, t) /\ g.data = mem.data
      /\ \A f \in Frame : g.map[f] = mem.map[f] - RowRefs(mem, t, f)
  <2>1. Sound(mem, task, {}, trouble) /\ g = free_page_tables(mem, t) /\ X = {t} \X Addr
    BY <1>1 DEF X
  <2> QED  BY ONLY <2>1, FreeTablesOK
<1>7. g \in MemType /\ g.map[x] >= 0 /\ g.map[x] \in Int
  <2>1. g \in MemType /\ GoodAt(g, task, {}, trouble, x)
    BY <1>3, <1>6 DEF Sound, Good
  <2>2. g.map[x] >= Count(g, task, x) + Holds({}, x) /\ g.map[x] \in Int
    BY <2>1, <1>3, MemIs DEF GoodAt
  <2> QED  BY <2>1, <2>2, CountType, HoldsType
<1>8. g.map[x] = 0
  <2>1. RowRefs(mem, t, x) \in Nat
    BY <1>3, RowRefsAre
  <2> QED  BY <2>1, <1>3, <1>4, <1>5, <1>6, <1>7
<1>9. FreePage(g) # 0
  BY <1>3, <1>8, FreePageIs DEF Free
<1> QED
  BY <1>7, <1>9, Numbers, TableThere

LEMMA FinishedInv ==
    ASSUME Inv, NEW t \in Task, task[t].st \in {"exec", "close"}, NEW e \in Exec, Finished(t, e)
    PROVE  Inv'
<1> DEFINE f == task[t].args
           g == free_page_tables(mem, t)
           n == put_page(g, t, f, ArgAddr)
           l == [task EXCEPT ![t].st = "user", ![t].exe = e, ![t].args = 0, ![t].new = NULL,
                             ![t].torn = {}]
           new == [a \in Addr |-> CASE a = ArgAddr -> Args [] a < EndData -> Image(e)
                                    [] OTHER -> Zero]
           w == [view EXCEPT ![t] = new]
           X == {<<t, ArgAddr>>}
           Y == {t} \X Addr
<1>1. mem' = n /\ task' = l /\ view' = w /\ trouble' = trouble
  BY DEF Finished, change_ldt
<1>2. /\ Fine(mem, task, view, trouble) /\ Sound(mem, task, {}, trouble)
      /\ TablesOK(mem, task[t], t) /\ KernelOK(task[t])
      /\ view \in [Task -> [Addr -> Value]] /\ trouble \subseteq Troubles
      /\ task \in [Task -> TaskType] /\ task[t] \in TaskType
      /\ Calm(trouble) => ViewOK(mem, task[t], view, t)
  BY Parting
<1>3. f \in Frame /\ task[t].load = 0 /\ Alive(task[t])
  BY ArgsAre
<1>4. HasTable(g, t, ArgAddr) /\ ArgAddr \in Addr
  BY <1>3, RoomForArgs, Numbers
<1>5. /\ l \in [Task -> TaskType] /\ OthersSame(task, l, t)
      /\ l[t].st = "user" /\ l[t].args = 0 /\ l[t].load = task[t].load
      /\ l[t].self = task[t].self /\ l[t].exe = e
  BY <1>2 DEF OthersSame, TaskType
<1>6. /\ w \in [Task -> [Addr -> Value]] /\ OthersSame(view, w, t) /\ w[t] = new
  <2>1. Image(e) \in Value /\ Zero \in Value /\ Args \in Value
    BY DEF Value
  <2>2. new \in [Addr -> Value]
    BY <2>1
  <2> HIDE DEF new
  <2> QED  BY <2>2, <1>2 DEF OthersSame
<1>7. /\ new[ArgAddr] = Args
      /\ \A a \in Addr : a # ArgAddr => new[a] = IF a >= EndData THEN Zero ELSE Image(e)
  BY <1>4, Numbers
<1> HIDE DEF l, w, new
<1>8. Moves(task[t], l[t], {}, {f})
  BY <1>3, <1>5, Numbers DEF Moves, TaskRefs, Bit, Holds
<1>9. KernelOK(l[t]) /\ Alive(l[t]) /\ l[t].st # "load"
  BY <1>3, <1>5 DEF KernelOK, InExec, Alive
<1> HIDE DEF f, g, n, X, Y
<1>10. /\ Sound(g, task, {}, trouble) /\ Keeps(mem, g, task, Y) /\ OnlyRow(mem, g, t)
       /\ Empty(g, t) /\ g.data = mem.data
       /\ \A x \in Frame : g.map[x] = mem.map[x] - RowRefs(mem, t, x)
  <2>1. Sound(mem, task, {}, trouble) /\ g = free_page_tables(mem, t) /\ Y = {t} \X Addr
    BY <1>2 DEF g, Y
  <2> QED  BY ONLY <2>1, FreeTablesOK
<1>11. Sound(g, l, {f}, trouble)
  BY <1>5, <1>8, <1>10, TaskOK
<1>12. PutIs(g, n, l, {f}, trouble, t, ArgAddr, f, X) /\ Sound(n, l, {}, trouble)
  <2>1. g.pte[t][ArgAddr].page = 0 /\ HasTable(g, t, ArgAddr)
    BY <1>4, <1>10 DEF Empty
  <2> QED  BY ONLY <2>1, <1>3, <1>4, <1>11, PutOne DEF n, X
<1>13. /\ Keeps(g, n, l, X) /\ OnlyRow(g, n, t) /\ EntrySet(g, n, t, ArgAddr, Writable(f))
       /\ n.data[f] = g.data[f] /\ n.dir[t][DirOf(ArgAddr)] # 0
       /\ \A d \in Dir : d # DirOf(ArgAddr) => n.dir[t][d] = g.dir[t][d]
  BY <1>12 DEF PutIs
<1>14. /\ n.pte[t][ArgAddr].page = f
       /\ \A a \in Addr : a # ArgAddr => n.pte[t][a].page = 0
  BY <1>10, <1>13 DEF EntrySet, Writable, Empty
<1>15. Keeps(mem, n, task, Y) /\ OnlyRow(mem, n, t)
  <2>1. Keeps(g, n, task, Y)
    <3>1. Keeps(g, n, l, Y)
      <4>1. X \subseteq Y
        BY <1>4 DEF X, Y
      <4> QED  BY <4>1, <1>13, KeepsWider
    <3>2. \A u \in Task : task[u].args # 0 => n.data[task[u].args] = g.data[task[u].args]
      BY <3>1, <1>5, <1>13 DEF Keeps, OthersSame, f
    <3> QED  BY <3>1, <3>2 DEF Keeps
  <2> QED  BY <2>1, <1>10, <1>13, KeepsTrans, OnlyRowTrans
<1>16. TablesOK(n, l[t], t)
  BY <1>4, <1>9, <1>13, <1>14, Numbers DEF TablesOK
<1>17. Calm(trouble) => ViewOK(n, l[t], w, t)
  <2> SUFFICES ASSUME Calm(trouble) PROVE ViewOK(n, l[t], w, t)
    OBVIOUS
  <2>1. mem.data[f] = Args
    BY <1>2, <1>3, Numbers DEF ViewOK, f
  <2>2. n.data[f] = Args
    BY <2>1, <1>10, <1>13
  <2>3. e # NULL
    BY MemoryAssumption
  <2>4. ASSUME NEW a \in Addr PROVE PageOK(n, l[t], w, t, a)
    <3>1. CASE a = ArgAddr
      <4>1. ~(a < EndData)
        BY <3>1, Numbers
      <4> QED  BY <4>1, <3>1, <2>2, <1>3, <1>6, <1>7, <1>14, Numbers DEF PageOK
    <3>2. CASE a # ArgAddr
      BY <3>2, <2>3, <1>5, <1>6, <1>7, <1>14, Numbers DEF PageOK, Fresh
    <3> QED  BY <3>1, <3>2
  <2> QED  BY <2>4, <1>5 DEF ViewOK
<1>18. Fine(n, l, w, trouble)
  BY ONLY <1>2, <1>5, <1>6, <1>9, <1>12, <1>15, <1>16, <1>17, Settle DEF Y
<1> QED
  BY <1>1, <1>18, InvIsFine

LEMMA ExecveInv ==
    ASSUME Inv, NEW t \in Task, do_execve(t) \/ ExecClosed(t)
    PROVE  Inv'
<1>1. CASE do_execve(t)
  <2>1. task[t].st = "exec" /\ Finished(t, task[t].new)
    BY <1>1 DEF do_execve, At
  <2> QED  BY <2>1, ArgsAre, FinishedInv
<1>2. CASE ExecClosed(t)
  <2>1. task[t].st = "close" /\ Finished(t, task[t].exe)
    BY <1>2 DEF ExecClosed, At
  <2> QED  BY <2>1, ArgsAre, FinishedInv
<1> QED
  BY <1>1, <1>2

(* fork.                                                                   *)
LEMMA ForkInv ==
    ASSUME Inv, NEW t \in Task, NEW c \in Task, copy_process(t, c)
    PROVE  Inv'
<1> DEFINE h == FreePage(mem)
           g == get_free_page(mem)
           m == copy_page_tables(g, t, c)
           Z == {c} \X Addr
<1>1. task[t].st = "user" /\ task[c].st = "none" /\ t # c /\ h # 0 /\ trouble' = trouble
  BY DEF copy_process, At
<1>2. /\ Fine(mem, task, view, trouble) /\ Sound(mem, task, {}, trouble)
      /\ TablesOK(mem, task[t], t) /\ KernelOK(task[t])
      /\ TablesOK(mem, task[c], c) /\ KernelOK(task[c])
      /\ view \in [Task -> [Addr -> Value]] /\ trouble \subseteq Troubles
      /\ task \in [Task -> TaskType] /\ task[t] \in TaskType
      /\ Calm(trouble) => ViewOK(mem, task[t], view, t)
  BY Parting
<1>3. /\ Alive(task[t]) /\ ~Alive(task[c])
      /\ task[c].self = 0 /\ task[c].load = 0 /\ task[c].args = 0
  BY <1>1, <1>2 DEF KernelOK, Alive, InExec
<1>4. \/ /\ AllCopied(m, t, c)
         /\ mem' = m
         /\ task' = [task EXCEPT ![c] =
                       [NoTask EXCEPT !.st = "user", !.exe = task[t].exe, !.self = h,
                                      !.torn = task[t].torn]]
         /\ view' = [view EXCEPT ![c] = view[t]]
      \/ /\ ~AllCopied(m, t, c)
         /\ mem' = free_page(free_page_tables(m, c), h)
         /\ task' = task /\ view' = view
  BY DEF copy_process
<1> HIDE DEF h, g, m, Z
<1>5. /\ Sound(g, task, {h}, trouble) /\ Keeps(mem, g, task, {}) /\ h \in Frame
      /\ g.pte = mem.pte /\ g.dir = mem.dir
  BY <1>1, <1>2, TakeOne DEF h, g
<1>6. Empty(g, c)
  BY <1>2, <1>3, <1>5, Numbers DEF Empty, TablesOK
<1>7. /\ Sound(m, task, {h}, trouble) /\ Keeps(g, m, task, Z) /\ OnlyRow(g, m, c)
      /\ \A a \in Addr : m.pte[c][a].page # 0 => m.dir[c][DirOf(a)] # 0
      /\ \A a \in Addr : AllCopied(m, t, c) /\ g.dir[t][DirOf(a)] # 0 =>
            /\ m.pte[c][a].page = g.pte[t][a].page
            /\ m.pte[c][a].page # 0 => m.pte[c][a].dirty = g.pte[t][a].dirty
      /\ \A a \in Addr : g.dir[t][DirOf(a)] = 0 => m.pte[c][a].page = 0
  <2>1. Forked(g, m, task, {h}, trouble, t, c, Z)
    BY ONLY <1>1, <1>5, <1>6, CopyOK DEF m, Z
  <2> QED  BY <2>1 DEF Forked
<1>8. Keeps(mem, m, task, Z) /\ OnlyRow(mem, m, c)
  BY <1>5, <1>7, KeepsMore, KeepsTrans, SameRow, OnlyRowTrans
<1>9. CASE AllCopied(m, t, c)
  <2> DEFINE r == [NoTask EXCEPT !.st = "user", !.exe = task[t].exe, !.self = h,
                                 !.torn = task[t].torn]
             l == [task EXCEPT ![c] = r]
             w == [view EXCEPT ![c] = view[t]]
  <2>1. mem' = m /\ task' = l /\ view' = w
    BY <1>4, <1>9
  <2>2. /\ r \in TaskType /\ r.st = "user" /\ r.exe = task[t].exe /\ r.self = h
        /\ r.load = 0 /\ r.args = 0 /\ r.back = "none" /\ r.torn = task[t].torn
    <3>1. 0 \in Addr
      BY MemoryAssumption DEF Addr
    <3> QED  BY <3>1, <1>2, <1>5 DEF NoTask, TaskType
  <2> HIDE DEF r
  <2>3. l \in [Task -> TaskType] /\ l[c] = r /\ OthersSame(task, l, c)
    BY <2>2, <1>2 DEF OthersSame
  <2>4. w \in [Task -> [Addr -> Value]] /\ OthersSame(view, w, c) /\ w[c] = view[t]
    BY <1>2 DEF OthersSame
  <2> HIDE DEF l, w
  <2>5. KernelOK(l[c]) /\ Alive(l[c])
    BY <2>2, <2>3 DEF KernelOK, InExec, Alive
  <2>6. Sound(m, l, {}, trouble)
    <3>1. Moves(task[c], l[c], {h}, {})
      BY <2>2, <2>3, <1>3, <1>5, Numbers DEF Moves, TaskRefs, Bit, Holds
    <3> QED  BY <3>1, <2>3, <1>7, TaskOK
  <2>7. TablesOK(m, l[c], c)
    <3>1. PICK d \in Dir : mem.dir[t][d] # 0
      BY <1>2, <1>3 DEF TablesOK
    <3>2. m.dir[c][d] # 0
      BY <3>1, <1>1, <1>8, <1>9 DEF AllCopied, OnlyRow
    <3> QED  BY <3>2, <2>2, <2>3, <2>5, <1>7 DEF TablesOK
  <2>8. Calm(trouble) => ViewOK(m, l[c], w, c)
    <3> SUFFICES ASSUME Calm(trouble), NEW a \in Addr PROVE PageOK(m, l[c], w, c, a)
      BY <2>2, <2>3 DEF ViewOK
    <3>1. PageOK(mem, task[t], view, t, a)
      BY <1>1, <1>2, <1>3 DEF ViewOK
    <3>2. Keep(mem, m, t, a)
      BY <1>1, <1>8 DEF Keeps, Z
    <3>3. CASE mem.dir[t][DirOf(a)] # 0
      <4>1. /\ m.pte[c][a].page = mem.pte[t][a].page
            /\ m.pte[c][a].page # 0 => m.pte[c][a].dirty = mem.pte[t][a].dirty
        BY <3>3, <1>5, <1>7, <1>9
      <4> QED  BY <4>1, <3>1, <3>2, <2>2, <2>3, <2>4, Numbers DEF PageOK, Keep, Fresh
    <3>4. CASE mem.dir[t][DirOf(a)] = 0
      <4>1. m.pte[c][a].page = 0 /\ mem.pte[t][a].page = 0
        BY <3>4, <1>2, <1>5, <1>7 DEF TablesOK
      <4> QED  BY <4>1, <3>1, <2>2, <2>3, <2>4, Numbers DEF PageOK, Fresh
    <3> QED  BY <3>3, <3>4
  <2>9. Fine(m, l, w, trouble)
    BY ONLY <1>2, <1>8, <2>3, <2>4, <2>5, <2>6, <2>7, <2>8, Settle DEF Z
  <2> QED  BY <1>1, <2>1, <2>9, InvIsFine
<1>10. CASE ~AllCopied(m, t, c)
  <2> DEFINE o == free_page_tables(m, c)
             n == free_page(o, h)
  <2>1. mem' = n /\ task' = task /\ view' = view
    BY <1>4, <1>10
  <2> HIDE DEF o, n
  <2>2. /\ Sound(o, task, {h}, trouble) /\ Keeps(m, o, task, Z) /\ OnlyRow(m, o, c)
        /\ Empty(o, c) /\ o.data = m.data
        /\ \A f \in Frame : o.map[f] = m.map[f] - RowRefs(m, c, f)
    <3>1. Sound(m, task, {h}, trouble) /\ o = free_page_tables(m, c) /\ Z = {c} \X Addr
      BY <1>7 DEF o, Z
    <3> QED  BY ONLY <3>1, FreeTablesOK
  <2>3. /\ Sound(n, task, {}, trouble) /\ Keeps(o, n, task, {})
        /\ n.pte = o.pte /\ n.dir = o.dir /\ n.data = o.data
    BY <2>2, <1>5, FreeOne DEF n
  <2>4. Keeps(mem, n, task, Z) /\ OnlyRow(mem, n, c)
    <3>1. Keeps(o, n, task, Z)
      BY <2>3, KeepsMore
    <3>2. Keeps(m, n, task, Z)
      BY <3>1, <2>2, KeepsTrans
    <3> QED  BY <3>2, <2>2, <2>3, <1>8, KeepsTrans, SameRow, OnlyRowTrans
  <2>5. TablesOK(n, task[c], c) /\ ViewOK(n, task[c], view, c)
    BY <2>2, <2>3, <1>1, <1>3 DEF TablesOK, Empty, ViewOK
  <2>6. OthersSame(task, task, c) /\ OthersSame(view, view, c)
    BY DEF OthersSame
  <2>7. Fine(n, task, view, trouble)
    BY ONLY <1>2, <2>3, <2>4, <2>5, <2>6, Settle DEF Z
  <2> QED  BY <1>1, <2>1, <2>7, InvIsFine
<1> QED
  BY <1>9, <1>10

-----------------------------------------------------------------------------
LEMMA Steps ==
    ASSUME Inv, [Next]_vars
    PROVE  Inv'
<1>1. CASE UNCHANGED vars
  BY <1>1, InvIsFine DEF vars
<1>2. ASSUME NEW t \in Task, sys_exit(t) PROVE Inv'
  BY <1>2, ExitNow DEF sys_exit, At
<1>3. ASSUME NEW t \in Task, NEW a \in Addr, WriteOom(t, a) PROVE Inv'
  BY <1>3, ExitNow DEF WriteOom, At
<1>4. CASE Next
  BY <1>2, <1>3, <1>4, ReleaseInv, ForkInv, WriteInv, WriteFaultInv, WriteFaultTickInv,
     EmptyPageInv, SharePageInv, LoadBeginsInv, VerifyInv, LoadEndsInv, CopyToUserInv,
     NothingToCopyInv, ExecBeginsInv, ExecFailsInv, ExecveInv, ExecClosesInv DEF Next
<1> QED
  BY <1>1, <1>4

(* At the start task 1 has a page for a table and one for its task_struct. *)
LEMMA StartCounts ==
    ASSUME Init, NEW f \in Frame
    PROVE  GoodAt(mem, task, {}, trouble, f)
<1>1. /\ mem.map[f] = IF f >= NR_PAGES - 1 THEN 1 ELSE 0
      /\ \A t \in Task, d \in Dir : mem.dir[t][d] = IF t = 1 /\ d = 0 THEN NR_PAGES - 1 ELSE 0
      /\ \A t \in Task, a \in Addr : mem.pte[t][a].page \in {0, Low} /\ ~mem.pte[t][a].rw
      /\ \A t \in Task : /\ task[t].self = IF t = 1 THEN NR_PAGES ELSE 0
                         /\ task[t].load = 0 /\ task[t].args = 0
  BY DEF Init, Absent, NoTask
<1>2. 1 \in Task /\ 0 \in Dir /\ NR_PAGES \in Frame /\ NR_PAGES - 1 \in Frame
      /\ NR_PAGES - 1 # NR_PAGES
  <2>1. 0 \in Addr /\ DirOf(0) = 0
    BY MemoryAssumption DEF Addr, DirOf
  <2>2. 0 \in Dir
    BY <2>1 DEF Dir
  <2> QED  BY <2>2, MemoryAssumption DEF Task, Frame
<1>3. PteRefs(mem, f) = {} /\ LoadRefs(task, f) = {} /\ ArgsRefs(task, f) = {} /\ NoWriter(mem, f)
  <2>1. \A t \in Task, a \in Addr : mem.pte[t][a].page # f /\ ~mem.pte[t][a].rw
    BY <1>1, Numbers
  <2>2. PteRefs(mem, f) = {} /\ NoWriter(mem, f)
    BY ONLY <2>1 DEF PteRefs, NoWriter
  <2>3. \A t \in Task : task[t].load # f /\ task[t].args # f
    BY <1>1, Numbers
  <2> QED  BY <2>2, <2>3 DEF LoadRefs, ArgsRefs
<1>4. DirRefs(mem, f) = IF f = NR_PAGES - 1 THEN {<<1, 0>>} ELSE {}
  <2>1. \A x \in Task \X Dir : mem.dir[x[1]][x[2]] = f <=> f = NR_PAGES - 1 /\ x = <<1, 0>>
    BY <1>1, <1>2, Numbers
  <2>2. <<1, 0>> \in Task \X Dir
    BY <1>2
  <2> QED  BY <2>1, <2>2 DEF DirRefs
<1>5. SelfRefs(task, f) = IF f = NR_PAGES THEN {1} ELSE {}
  BY <1>1, <1>2, Numbers DEF SelfRefs
<1>6. /\ Cardinality(PteRefs(mem, f)) = 0 /\ Cardinality(LoadRefs(task, f)) = 0
      /\ Cardinality(ArgsRefs(task, f)) = 0
      /\ Cardinality(DirRefs(mem, f)) = IF f = NR_PAGES - 1 THEN 1 ELSE 0
      /\ Cardinality(SelfRefs(task, f)) = IF f = NR_PAGES THEN 1 ELSE 0
  BY <1>3, <1>4, <1>5, FS_EmptySet, FS_Singleton
<1>7. f >= NR_PAGES - 1 <=> f = NR_PAGES - 1 \/ f = NR_PAGES
  BY MemoryAssumption DEF Frame
<1>8. Count(mem, task, f) = mem.map[f] /\ mem.map[f] \in {0, 1}
  <2> DEFINE p == Cardinality(PteRefs(mem, f))
             d == Cardinality(DirRefs(mem, f))
             s == Cardinality(SelfRefs(task, f))
             l == Cardinality(LoadRefs(task, f))
             a == Cardinality(ArgsRefs(task, f))
  <2>1. Count(mem, task, f) = p + d + s + l + a
    BY DEF Count
  <2>2. p = 0 /\ l = 0 /\ a = 0 /\ (d = IF f = NR_PAGES - 1 THEN 1 ELSE 0)
        /\ (s = IF f = NR_PAGES THEN 1 ELSE 0)
    BY <1>6
  <2> HIDE DEF p, d, s, l, a
  <2> QED  BY <2>1, <2>2, <1>1, <1>2, <1>7
<1>9. NotSole(mem, task, f) \/ mem.map[f] = 1
  <2>1. CASE f >= NR_PAGES - 1
    BY <2>1, <1>1
  <2>2. CASE ~(f >= NR_PAGES - 1)
    <3>1. NoDir(mem, f) /\ NoSelf(task, f) /\ NoLoad(task, f) /\ NoArgs(task, f)
      BY <2>2, <1>1, <1>7, Numbers DEF NoDir, NoSelf, NoLoad, NoArgs
    <3> QED  BY <3>1, <1>3 DEF NotSole
  <2> QED  BY <2>1, <2>2
<1>10. Holds({}, f) = 0
  BY DEF Holds
<1> QED
  BY <1>8, <1>9, <1>10 DEF GoodAt

LEMMA Start ==
    ASSUME Init
    PROVE  Inv
<1>1. 0 \in Addr /\ 0 \in Dir /\ 1 \in Task /\ NR_PAGES \in Frame /\ NR_PAGES - 1 \in Frame
      /\ DirOf(0) = 0
  <2>1. 0 \in Addr /\ DirOf(0) = 0
    BY MemoryAssumption DEF Addr, DirOf
  <2>2. 0 \in Dir
    BY <2>1 DEF Dir
  <2> QED  BY <2>1, <2>2, MemoryAssumption DEF Task, Frame
<1>2. mem \in MemType
  <2>1. \A f \in Frame : (IF f >= NR_PAGES - 1 THEN 1 ELSE 0) \in Int
    OBVIOUS
  <2>2. Absent \in Pte /\ [Absent EXCEPT !.page = Low] \in Pte
    BY DEF Absent, Pte
  <2>3. Zero \in Value
    BY DEF Value
  <2> QED  BY <2>1, <2>2, <2>3, <1>1 DEF Init, MemType
<1>3. task \in [Task -> TaskType]
  BY <1>1 DEF Init, TaskType, NoTask
<1>4. view \in [Task -> [Addr -> Value]] /\ trouble \subseteq Troubles
  BY DEF Init, Value, Troubles
<1>5. Good(mem, task, {}, trouble)
  BY StartCounts DEF Good
<1>6. /\ \A t \in Task, d \in Dir : mem.dir[t][d] = IF t = 1 /\ d = 0 THEN NR_PAGES - 1 ELSE 0
      /\ \A t \in Task, a \in Addr : mem.pte[t][a].page = IF t = 1 /\ a = 0 THEN Low ELSE 0
      /\ \A t \in Task, a \in Addr : ~mem.pte[t][a].rw
      /\ \A t \in Task : /\ task[t].st = IF t = 1 THEN "user" ELSE "none"
                         /\ task[t].self = IF t = 1 THEN NR_PAGES ELSE 0
                         /\ task[t].load = 0 /\ task[t].args = 0
                         /\ task[t].exe = NULL /\ task[t].back = "none"
      /\ \A t \in Task, a \in Addr : view[t][a] = IF t = 1 /\ a = 0 THEN Kernel ELSE Zero
  BY DEF Init, Absent, NoTask
<1>7. WritesAbove(mem)
  BY <1>6 DEF WritesAbove
<1>8. ASSUME NEW t \in Task PROVE KernelOK(task[t]) /\ TablesOK(mem, task[t], t)
  <2>1. KernelOK(task[t])
    BY <1>6 DEF KernelOK, InExec
  <2>2. CASE t = 1
    <3>1. mem.dir[t][0] # 0 /\ Alive(task[t]) /\ task[t].st # "load"
      BY <2>2, <1>1, <1>6, Numbers DEF Alive
    <3>2. \A a \in Addr : mem.pte[t][a].page # 0 => mem.dir[t][DirOf(a)] # 0
      BY <3>1, <2>2, <1>1, <1>6
    <3> QED  BY <3>1, <3>2, <2>1, <1>1 DEF TablesOK
  <2>3. CASE t # 1
    <3>1. ~Alive(task[t]) /\ task[t].st # "load" /\ \A d \in Dir : mem.dir[t][d] = 0
      BY <2>3, <1>6 DEF Alive
    <3>2. \A a \in Addr : mem.pte[t][a].page = 0
      BY <2>3, <1>6
    <3> QED  BY <3>1, <3>2, <2>1 DEF TablesOK
  <2> QED  BY <2>1, <2>2, <2>3
<1>9. ASSUME NEW t \in Task PROVE ViewOK(mem, task[t], view, t)
  <2>1. \A a \in Addr : PageOK(mem, task[t], view, t, a)
    BY <1>6, Numbers DEF PageOK, Fresh
  <2>2. task[t].args = 0
    BY <1>6
  <2> QED  BY <2>1, <2>2 DEF ViewOK
<1>10. Fine(mem, task, view, trouble)
  BY <1>2, <1>3, <1>4, <1>5, <1>7, <1>8, <1>9 DEF Fine, Sound
<1> QED
  BY <1>10, InvIsFine

LEMMA InvHolds == Spec => []Inv
<1>1. Init => Inv
  BY Start
<1>2. Inv /\ [Next]_vars => Inv'
  BY Steps
<1> QED
  BY <1>1, <1>2, PTL DEF Spec

-----------------------------------------------------------------------------
(* mem_map is right (memory.cc:43, get_free_page, to memory.cc:416,        *)
(* do_no_page): each page has as many counts as entries of page tables,    *)
(* directory entries, task_structs and kernel stacks that refer to it,     *)
(* after any forks, execs, page faults, exits and failures for want of     *)
(* memory.  Only the arguments of an exec that is killed in copy_strings   *)
(* are lost, and even then no page that is in use is free.                 *)
THEOREM CountsAreReferences == Spec => []RefCounts
<1>1. Inv => RefCounts
  <2> SUFFICES ASSUME Inv, NEW f \in Frame
               PROVE  IF "oom" \in trouble THEN mem.map[f] >= Refs(f) ELSE mem.map[f] = Refs(f)
    BY DEF RefCounts
  <2>1. GoodAt(mem, task, {}, trouble, f)
    BY DEF Inv, CountInv, Good
  <2>2. Refs(f) = Count(mem, task, f)
    BY DEF Refs, Count, PteRefs, DirRefs, SelfRefs, LoadRefs, ArgsRefs
  <2>3. Holds({}, f) = 0 /\ Count(mem, task, f) \in Nat
    BY CountType DEF Holds
  <2> HIDE DEF Refs, Count
  <2> QED  BY <2>1, <2>2, <2>3 DEF GoodAt
<1> QED
  BY <1>1, InvHolds, PTL

(* A page that can be written is mapped once and lies above LOW_MEM:       *)
(* copy_page_tables and try_to_share write-protect what they share         *)
(* (memory.cc:178, 329) and un_wp_page makes a page writable only when its *)
(* count is one (memory.cc:227), or takes a new one.                       *)
THEOREM WritablePagesAreOwn == Spec => []WritableUnshared
<1>1. Inv => WritableUnshared
  <2> SUFFICES ASSUME Inv, NEW t \in Task, NEW a \in Addr, mem.pte[t][a].rw
               PROVE  mem.map[mem.pte[t][a].page] = 1 /\ mem.pte[t][a].page # Low
    BY DEF WritableUnshared
  <2> DEFINE f == mem.pte[t][a].page
  <2>1. f \in Frame
    BY Parting
  <2>2. GoodAt(mem, task, {}, trouble, f)
    BY <2>1 DEF Inv, CountInv, Good
  <2>3. ~NotSole(mem, task, f)
    BY DEF NotSole, NoWriter
  <2> QED  BY <2>1, <2>2, <2>3, Numbers DEF GoodAt
<1> QED
  BY <1>1, InvHolds, PTL

(* Sharing cannot be noticed: whoever forks, writes, faults or execs, a    *)
(* task finds at each of its present addresses what it wrote, what its     *)
(* father had there when it forked or the contents of its executable       *)
(* (un_wp_page, memory.cc:221; try_to_share, memory.cc:299), until one of  *)
(* three races has been lost: try_to_share finds a changed page that       *)
(* un_wp_page has copied and nobody written yet ("torn"), or the page of   *)
(* an old program in a task that sleeps in exec ("exec"), or a page is     *)
(* shared between verify_area and the copy to it ("verify").  System calls *)
(* that write to user space, ticks behind a write fault and sleeps of exec *)
(* are in the steps, and harmless otherwise.                               *)
THEOREM SharingIsUnseen == Spec => []PrivateView
<1>1. Inv => PrivateView
  <2> SUFFICES ASSUME Inv, Calm(trouble), NEW t \in Task, NEW a \in Addr,
                      At(t, {"user", "load", "exec", "copy"}), mem.pte[t][a].page # 0
               PROVE  Seen(t, a) = view[t][a]
    BY DEF PrivateView, ViewIsOwn, Calm
  <2>1. ViewOK(mem, task[t], view, t) /\ mem \in MemType
    BY Parting
  <2>2. Alive(task[t]) /\ task[t].st # "close"
    BY DEF Alive, At
  <2>3. PageOK(mem, task[t], view, t, a)
    BY <2>1, <2>2 DEF ViewOK
  <2>4. mem.pte[t][a].page \in Frame \cup {0, Low}
    <3>1. mem.pte[t][a] \in Pte
      BY <2>1, MemIs
    <3> QED  BY <3>1 DEF Pte
  <2> QED  BY <2>3, <2>4, Numbers DEF PageOK, Seen
<1> QED
  BY <1>1, InvHolds, PTL

(* The memory, the tasks and the ghosts keep their types: counts that are  *)
(* numbers, entries that name a page, none or one below LOW_MEM.           *)
THEOREM MemoryTypes == Spec => []TypeOK
<1>1. Inv => TypeOK
  BY DEF Inv
<1> QED
  BY <1>1, InvHolds, PTL

=============================================================================
