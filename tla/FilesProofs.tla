----------------------------- MODULE FilesProofs -----------------------------
(***************************************************************************)
(* Theorems about descriptors, open files, inodes and directory entries,   *)
(* for any number of processes, descriptors, sectors and open files and    *)
(* any paths.  The hypothesis Undisturbed leaves out what breaks them in   *)
(* the code: an inode_close interrupted half way (FilesRace.cfg), a fork   *)
(* with a file on descriptor 0 or 1 (ForkShares), the names "." and        *)
(* "..", whose removal marks a directory that its parent still names       *)
(* (FilesDots.cfg), and an open directory hit by the wild dup_count of     *)
(* another one (WildCount) or closed by a failing mkdir (WildDir,          *)
(* FilesUnset.cfg).                                                        *)
(***************************************************************************)
EXTENDS Files, FiniteSetTheorems, TLAPS

Undisturbed ==
  ~Preempt /\ ~ForkShares /\ ~WildCount /\ ~WildDir /\ "." \notin Names /\ ".." \notin Names

Kinds == {"free", "file", "dir"}
ObjRec == [inode : 0 .. NSect, dup : Int, deny : BOOLEAN, dir : BOOLEAN]
Pointers == Objs \cup {NULL, STDIN, STDOUT}

DiskType ==
  /\ kind \in [Sectors -> Kinds]
  /\ entry \in [Sectors -> [Names -> 0 .. NSect]]
  /\ bytes \in [Sectors -> {0, 1}]
  /\ removed \in [Sectors -> BOOLEAN]

CountType ==
  /\ open_cnt \in [Sectors -> Int]
  /\ deny_write_cnt \in [Sectors -> Int]

ObjType == obj \in [Objs -> ObjRec]

ProcType ==
  /\ fd_table \in [Procs -> [Fds -> Pointers]]
  /\ fd_idx \in [Procs -> Int]
  /\ stdin_count \in [Procs -> Int] /\ stdout_count \in [Procs -> Int]
  /\ running_file \in [Procs -> Objs \cup {NULL}]
  /\ new_file \in [Procs -> Objs \cup {NULL}]
  /\ cwd \in [Procs -> Sectors]
  /\ status \in [Procs -> {"none", "user", "exec_open", "exec_load", "dead"}]
  /\ closing = [p \in Procs |-> 0]

FilesType == DiskType /\ CountType /\ ObjType /\ ProcType

Gone(p) == status[p] \in {"none", "dead"}

\* Directories in use form a tree without ".."; the root is no one's entry.
TreeInv ==
  /\ kind[ROOT] = "dir" /\ ~removed[ROOT]
  /\ \A d \in Sectors, n \in Names : kind[d] = "dir" /\ entry[d][n] # 0 =>
       entry[d][n] # ROOT /\ kind[entry[d][n]] # "free" /\ ~removed[entry[d][n]]
  /\ \A d, e \in Sectors, m, n \in Names :
       kind[d] = "dir" /\ kind[e] = "dir" /\ entry[d][m] # 0 /\ entry[d][m] = entry[e][n]
         => d = e /\ m = n
  /\ \A s \in Sectors : removed[s] => kind[s] # "free"
  /\ \A p \in Procs : kind[cwd[p]] = "dir" /\ (Gone(p) => cwd[p] = ROOT)

Openers(i) == {o \in Objs : obj[o].inode = i}
Deniers(i) == {o \in Objs : obj[o].inode = i /\ obj[o].deny}
Workers(i) == {p \in Procs : ~Gone(p) /\ cwd[p] = i}

\* An inode is counted at least as often as it is used, and so not freed.
OpenInv ==
  /\ \A i \in Sectors \ {ROOT} : open_cnt[i] >= Cardinality(Openers(i)) + Cardinality(Workers(i))
  /\ \A o \in Objs : obj[o].inode # 0 => obj[o].inode # ROOT /\ kind[obj[o].inode] # "free"

DenyInv == \A i \in Sectors : deny_write_cnt[i] = Cardinality(Deniers(i))

Leads(p, o) == {f \in Fds : fd_table[p][f] = o}

\* Open files belong to descriptors of one process or to one process alone.
TableInv ==
  /\ \A p \in Procs, f \in Fds, o \in Objs : fd_table[p][f] = o =>
       /\ obj[o].inode # 0
       /\ ~obj[o].dir => obj[o].dup = Cardinality(Leads(p, o))
       /\ \A q \in Procs, g \in Fds : fd_table[q][g] = o => q = p
  /\ \A p \in Procs : Gone(p) => \A f \in Fds : fd_table[p][f] = NULL

StreamInv ==
  \A p \in Procs : /\ stdin_count[p] = Cardinality(Leads(p, STDIN))
                   /\ stdout_count[p] = Cardinality(Leads(p, STDOUT))

ExecInv ==
  /\ \A p \in Procs, o \in Objs : running_file[p] = o =>
       /\ obj[o].inode # 0 /\ obj[o].deny
       /\ \A q \in Procs : (running_file[q] = o => q = p) /\ new_file[q] # o
       /\ \A q \in Procs, g \in Fds : fd_table[q][g] # o
  /\ \A p \in Procs, o \in Objs : new_file[p] = o =>
       /\ obj[o].inode # 0 /\ ~obj[o].deny
       /\ \A q \in Procs : new_file[q] = o => q = p
       /\ \A q \in Procs, g \in Fds : fd_table[q][g] # o

FilesInv == FilesType /\ TreeInv /\ OpenInv /\ DenyInv /\ TableInv /\ StreamInv /\ ExecInv
-----------------------------------------------------------------------------
(* Numbers, finite sets and iteration.                                     *)

\* A set of natural numbers that is not empty has a least element.
LEMMA LeastNat ==
  ASSUME NEW T \in SUBSET Nat, T # {}
  PROVE  \E x \in T : \A y \in T : x <= y
<1> DEFINE R == {ss \in Nat \X Nat : ss[1] < ss[2]}
<1>1. IsWellFoundedOn(OpToRel(<, Nat), Nat)
  BY NatLessThanWellFounded
<1>2. IsWellFoundedOn(R, Nat)
  BY <1>1 DEF OpToRel
<1>3. \A x, y \in Nat : y < x => <<y, x>> \in R
  OBVIOUS
<1> HIDE DEF R
<1>4. PICK x \in T : \A y \in T : ~(<<y, x>> \in R)
  BY <1>2, WFMin
<1>5. \A y \in T : ~(y < x)
  BY <1>3, <1>4
<1>6. \A y \in T : x <= y
  BY <1>5
<1> QED BY <1>6

\* Min of such a set.
LEMMA MinFacts ==
  ASSUME NEW T \in SUBSET Nat, T # {}
  PROVE  Min(T) \in T
  BY LeastNat DEF Min

\* What every step keeps holds of every element of a sequence of steps.
LEMMA AlongSteps ==
  ASSUME NEW n \in Nat, NEW W, NEW g, g[0] \in W, \A k \in 1 .. n : g[k - 1] \in W => g[k] \in W
  PROVE  \A k \in 0 .. n : g[k] \in W
<1> DEFINE T == {k \in 0 .. n : g[k] \notin W}
<1>1. SUFFICES ASSUME T # {} PROVE FALSE
  OBVIOUS
<1>a. T \in SUBSET Nat
  OBVIOUS
<1> HIDE DEF T
<1>2. PICK x \in T : \A y \in T : x <= y
  BY <1>1, <1>a, LeastNat
<1> USE DEF T
<1>3. x \in 1 .. n /\ g[x] \notin W
  OBVIOUS
<1>4. x - 1 \notin T
  BY <1>2, <1>3
<1>5. g[x - 1] \in W
  BY <1>3, <1>4
<1> QED BY <1>3, <1>5

\* Steps on W and the sequences of states that they lead through.
StepsOn(n, W) == [1 .. n -> [W -> W]]
Iterated(n, W, w0, G) ==
  {f \in [0 .. n -> W] : f[0] = w0 /\ \A k \in 1 .. n : f[k] = G[k][f[k - 1]]}

\* Steps can be iterated: the function that a recursive definition describes
\* exists.
LEMMA Iterate ==
  ASSUME NEW n \in Nat, NEW W, NEW w0 \in W, NEW G \in StepsOn(n, W)
  PROVE  Iterated(n, W, w0, G) # {}
<1> SUFFICES \E f \in [0 .. n -> W] : f[0] = w0 /\ \A k \in 1 .. n : f[k] = G[k][f[k - 1]]
  BY DEF Iterated
<1>0. \A k \in 1 .. n, w \in W : G[k][w] \in W
  BY DEF StepsOn
<1> DEFINE Good(m, f) == f[0] = w0 /\ \A k \in 1 .. m : f[k] = G[k][f[k - 1]]
           T == {m \in 0 .. n : ~ \E f \in [0 .. m -> W] : Good(m, f)}
<1> HIDE DEF Good
<1>a. T \in SUBSET Nat
  OBVIOUS
<1>b. \A m : m \in T <=> m \in 0 .. n /\ ~ \E f \in [0 .. m -> W] : Good(m, f)
  OBVIOUS
<1> HIDE DEF T
<1>1. ASSUME T # {} PROVE FALSE
  <2>1. PICK x \in T : \A y \in T : x <= y
    BY <1>1, <1>a, LeastNat
  <2>a. x \in 0 .. n /\ ~ \E f \in [0 .. x -> W] : Good(x, f)
    BY <1>b, <2>1
  <2>2. x # 0
    <3>1. Good(0, [k \in 0 .. 0 |-> w0]) /\ [k \in 0 .. 0 |-> w0] \in [0 .. 0 -> W]
      BY DEF Good
    <3> QED BY <2>a, <3>1
  <2>3. x - 1 \in 0 .. n /\ x - 1 \notin T
    BY <2>1, <2>2, <2>a, <1>a
  <2>4. PICK f \in [0 .. x - 1 -> W] : Good(x - 1, f)
    BY <2>3, <1>b
  <2> DEFINE h == [k \in 0 .. x |-> IF k = x THEN G[x][f[x - 1]] ELSE f[k]]
  <2>5. x \in 1 .. n
    BY <2>2, <2>a
  <2>6. h \in [0 .. x -> W]
    BY <1>0, <2>5
  <2>7. h[0] = w0
    BY <2>4, <2>5 DEF Good
  <2>8. \A k \in 1 .. x : h[k] = G[k][h[k - 1]]
    <3> TAKE k \in 1 .. x
    <3>1. CASE k = x
      BY <2>5, <3>1
    <3>2. CASE k # x
      BY <2>4, <2>5, <3>2 DEF Good
    <3> QED BY <3>1, <3>2
  <2>9. Good(x, h)
    BY <2>7, <2>8 DEF Good
  <2> QED BY <2>a, <2>6, <2>9
<1>2. n \notin T /\ n \in 0 .. n
  BY <1>1
<1>3. PICK f \in [0 .. n -> W] : Good(n, f)
  BY <1>2, <1>b
<1> QED BY <1>3 DEF Good
-----------------------------------------------------------------------------
(* Constants and paths.                                                    *)

\* Numbers of sectors and pointers are told apart.
LEMMA Constants ==
  /\ Sectors \subseteq Nat /\ ROOT \in Sectors /\ 0 \notin Sectors /\ 0 .. NSect = Sectors \cup {0}
  /\ Objs \subseteq Nat /\ NULL \notin Objs /\ STDIN \notin Objs /\ STDOUT \notin Objs
  /\ NULL # STDIN /\ NULL # STDOUT /\ STDIN # STDOUT
  /\ Fds \subseteq Nat /\ ArgFds \subseteq Fds /\ MAX_FD \notin Fds
  /\ IsFiniteSet(Objs) /\ IsFiniteSet(Fds) /\ IsFiniteSet(Procs) /\ First \in Procs
<1>1. /\ Sectors \subseteq Nat /\ ROOT \in Sectors /\ 0 \notin Sectors /\ 0 .. NSect = Sectors \cup {0}
      /\ Objs \subseteq Nat /\ NULL \notin Objs /\ STDIN \notin Objs /\ STDOUT \notin Objs
      /\ NULL # STDIN /\ NULL # STDOUT /\ STDIN # STDOUT
      /\ Fds \subseteq Nat /\ ArgFds \subseteq Fds /\ MAX_FD \notin Fds
  BY FilesAssumption DEF Sectors, ROOT, Objs, NULL, STDIN, STDOUT, Fds
<1>2. IsFiniteSet(Objs) /\ IsFiniteSet(Fds)
  BY FilesAssumption, FS_Interval DEF Objs, Fds
<1> QED BY <1>1, <1>2, FilesAssumption

\* The names of a path are names.
LEMMA PathNames ==
  ASSUME NEW path \in Paths
  PROVE  /\ Len(path.names) \in Nat \ {0}
         /\ \A k \in 1 .. Len(path.names) : path.names[k] \in Names
         /\ Last(path) \in Names
<1>1. path.names \in Seq(STRING) /\ path.names # <<>>
  BY FilesAssumption
<1>2. Len(path.names) \in Nat \ {0} /\ DOMAIN path.names = 1 .. Len(path.names)
  BY <1>1
<1>3. Range(path.names) \subseteq Names
  BY DEF Names
<1>4. \A k \in 1 .. Len(path.names) : path.names[k] \in Names
  BY <1>2, <1>3 DEF Range
<1> QED BY <1>2, <1>4 DEF Last

\* The places a walk can be at: in a directory, or nowhere, with the inodes it
\* has left open.
Walks ==
  {w \in [dir : Sectors \cup {0}, lost : [Sectors -> Nat], last : Sectors] :
     /\ w.dir # 0 => kind[w.dir] = "dir" /\ w.last = w.dir
     /\ w.dir = 0 => \A s \in Sectors : w.lost[s] >= One(w.last)[s]}

\* A step of a walk from w by the name n.
WalkStep(w, n) ==
  LET i == entry[w.last][n]
  IN  CASE w.dir = 0 -> w
        [] w.dir # 0 /\ i = 0 -> [dir |-> 0, lost |-> One(w.dir), last |-> w.dir]
        [] w.dir # 0 /\ i # 0 /\ kind[i] # "dir" ->
             [dir |-> 0, lost |-> Plus(One(w.dir), One(i)), last |-> w.dir]
        [] OTHER -> [dir |-> i, lost |-> None, last |-> i]

\* A walk stays in directories.
LEMMA WalkStays ==
  ASSUME DiskType, NEW w \in Walks, NEW n \in Names
  PROVE  WalkStep(w, n) \in Walks
<1> DEFINE i == entry[w.last][n]
<1>1. i \in Sectors \cup {0}
  BY Constants DEF DiskType, Walks
<1>2. CASE w.dir = 0
  BY <1>2 DEF WalkStep
<1>3. CASE w.dir # 0 /\ i = 0
  <2>1. WalkStep(w, n) = [dir |-> 0, lost |-> One(w.dir), last |-> w.dir]
    BY <1>3 DEF WalkStep
  <2>2. w.dir \in Sectors /\ One(w.dir) \in [Sectors -> Nat]
    BY <1>3 DEF Walks, One
  <2> QED BY <2>1, <2>2 DEF Walks
<1>4. CASE w.dir # 0 /\ i # 0 /\ kind[i] # "dir"
  <2>1. WalkStep(w, n) = [dir |-> 0, lost |-> Plus(One(w.dir), One(i)), last |-> w.dir]
    BY <1>4 DEF WalkStep
  <2>2. /\ w.dir \in Sectors /\ Plus(One(w.dir), One(i)) \in [Sectors -> Nat]
        /\ \A s \in Sectors : Plus(One(w.dir), One(i))[s] >= One(w.dir)[s]
    BY <1>4 DEF Walks, One, Plus
  <2> QED BY <2>1, <2>2 DEF Walks
<1>5. CASE w.dir # 0 /\ i # 0 /\ kind[i] = "dir"
  <2>1. WalkStep(w, n) = [dir |-> i, lost |-> None, last |-> i]
    BY <1>5 DEF WalkStep
  <2>2. None \in [Sectors -> Nat]
    BY DEF None
  <2> QED BY <1>1, <1>5, <2>1, <2>2 DEF Walks
<1> QED BY <1>2, <1>3, <1>4, <1>5

\* Where a walk from the root or a working directory ends.
LEMMA WalkFacts ==
  ASSUME DiskType, ProcType, TreeInv, NEW p \in Procs, NEW path \in Paths,
         NEW n \in 0 .. Len(path.names)
  PROVE  Walk(p, path, n) \in Walks
<1> DEFINE start == IF path.abs THEN ROOT ELSE cwd[p]
           w0 == [dir |-> start, lost |-> None, last |-> start]
           Body(f, k) == IF k = 0 THEN w0 ELSE WalkStep(f[k - 1], path.names[k])
           G == [k \in 1 .. n |-> [w \in Walks |-> WalkStep(w, path.names[k])]]
<1>0. n \in Nat /\ \A k \in 1 .. n : path.names[k] \in Names
  BY PathNames
<1>1. w0 \in Walks
  <2>1. start \in Sectors /\ kind[start] = "dir"
    BY Constants DEF ProcType, TreeInv
  <2> QED BY <2>1, Constants DEF Walks, None
<1>2. G \in StepsOn(n, Walks)
  BY <1>0, WalkStays DEF StepsOn
<1>3. PICK f \in [0 .. n -> Walks] : f[0] = w0 /\ \A k \in 1 .. n : f[k] = G[k][f[k - 1]]
  <2> HIDE DEF w0, G
  <2>1. Iterated(n, Walks, w0, G) # {}
    BY <1>0, <1>1, <1>2, Iterate
  <2> QED BY <2>1 DEF Iterated
<1>4. f = [k \in 0 .. n |-> Body(f, k)]
  <2>1. \A k \in 1 .. n : f[k - 1] \in Walks /\ f[k] = G[k][f[k - 1]]
    BY <1>0, <1>3
  <2>2. \A k \in 1 .. n : f[k] = WalkStep(f[k - 1], path.names[k])
    BY <2>1
  <2> HIDE DEF w0
  <2> QED BY <1>0, <1>3, <2>2
<1> DEFINE walk == CHOOSE g : g = [k \in 0 .. n |-> Body(g, k)]
<1>5. walk = [k \in 0 .. n |-> Body(walk, k)]
  BY <1>4
<1>6. Walk(p, path, n) = walk[n]
  BY DEF Walk, WalkStep
<1> HIDE DEF walk
<1>7. walk[0] \in Walks
  BY <1>0, <1>1, <1>5
<1>8. \A k \in 1 .. n : walk[k - 1] \in Walks => walk[k] \in Walks
  BY <1>0, <1>5, WalkStays
<1>9. \A k \in 0 .. n : walk[k] \in Walks
  BY <1>0, <1>7, <1>8, AlongSteps
<1> QED BY <1>0, <1>6, <1>9
-----------------------------------------------------------------------------
(* Counting and freeing inodes.                                            *)

\* The sets that are counted are finite, before and after a step.
LEMMA Finite ==
  /\ \A i : IsFiniteSet(Openers(i)) /\ Cardinality(Openers(i)) \in Nat
  /\ \A i : IsFiniteSet(Deniers(i)) /\ Cardinality(Deniers(i)) \in Nat
  /\ \A i : IsFiniteSet(Workers(i)) /\ Cardinality(Workers(i)) \in Nat
  /\ \A p, o : IsFiniteSet(Leads(p, o)) /\ Cardinality(Leads(p, o)) \in Nat
  /\ \A i : IsFiniteSet(Openers(i)') /\ Cardinality(Openers(i)') \in Nat
  /\ \A i : IsFiniteSet(Deniers(i)') /\ Cardinality(Deniers(i)') \in Nat
  /\ \A i : IsFiniteSet(Workers(i)') /\ Cardinality(Workers(i)') \in Nat
  /\ \A p, o : IsFiniteSet(Leads(p, o)') /\ Cardinality(Leads(p, o)') \in Nat
<1>1. \A i : /\ Openers(i) \subseteq Objs /\ Deniers(i) \subseteq Objs /\ Workers(i) \subseteq Procs
             /\ Openers(i)' \subseteq Objs /\ Deniers(i)' \subseteq Objs /\ Workers(i)' \subseteq Procs
  BY DEF Openers, Deniers, Workers
<1>2. \A p, o : Leads(p, o) \subseteq Fds /\ Leads(p, o)' \subseteq Fds
  BY DEF Leads
<1> QED BY <1>1, <1>2, Constants, FS_Subset, FS_CardinalityType

\* What is counted 0 times is not used.
LEMMA Unused ==
  ASSUME NEW i
  PROVE  /\ Cardinality(Openers(i)) <= 0 => \A o \in Objs : obj[o].inode # i
         /\ Cardinality(Workers(i)) <= 0 => \A p \in Procs : cwd[p] = i => Gone(p)
<1>1. Cardinality(Openers(i)) <= 0 => Openers(i) = {}
  BY Finite, FS_EmptySet
<1>2. Cardinality(Workers(i)) <= 0 => Workers(i) = {}
  BY Finite, FS_EmptySet
<1> QED BY <1>1, <1>2 DEF Openers, Workers

\* The effect of inode_close sector by sector.
LEMMA CloseFacts ==
  ASSUME DiskType, CountType, NEW k \in [Sectors -> Kinds], NEW delta \in [Sectors -> Int],
         NEW marked \in SUBSET Sectors, inode_close(k, delta, marked)
  PROVE  /\ open_cnt' \in [Sectors -> Int] /\ kind' \in [Sectors -> Kinds]
         /\ removed' \in [Sectors -> BOOLEAN]
         /\ \A s \in Sectors : open_cnt'[s] = IF s = ROOT THEN 0 ELSE open_cnt[s] + delta[s]
         /\ \A s \in Sectors :
              IF s # ROOT /\ (removed[s] \/ s \in marked) /\ open_cnt'[s] = 0
              THEN kind'[s] = "free" /\ ~removed'[s]
              ELSE kind'[s] = k[s] /\ (removed'[s] <=> removed[s] \/ s \in marked)
<1> DEFINE rem == [s \in Sectors |-> removed[s] \/ s \in marked]
           gone == {s \in Sectors \ {ROOT} : rem[s] /\ open_cnt'[s] = 0}
<1>1. /\ open_cnt' = [s \in Sectors |-> IF s = ROOT THEN 0 ELSE open_cnt[s] + delta[s]]
      /\ removed' = [s \in Sectors |-> rem[s] /\ s \notin gone]
      /\ kind' = [s \in Sectors |-> IF s \in gone THEN "free" ELSE k[s]]
  BY DEF inode_close
<1>2. open_cnt' \in [Sectors -> Int] /\ kind' \in [Sectors -> Kinds] /\ removed' \in [Sectors -> BOOLEAN]
  BY <1>1 DEF CountType, DiskType, Kinds
<1>3. \A s \in Sectors : open_cnt'[s] = IF s = ROOT THEN 0 ELSE open_cnt[s] + delta[s]
  BY <1>1
<1>4. \A s \in Sectors : s \in gone <=> s # ROOT /\ (removed[s] \/ s \in marked) /\ open_cnt'[s] = 0
  OBVIOUS
<1>5. \A s \in Sectors : kind'[s] = IF s \in gone THEN "free" ELSE k[s]
  BY <1>1
<1>r. \A s \in Sectors : removed'[s] = ((removed[s] \/ s \in marked) /\ s \notin gone)
  BY <1>1
<1> HIDE DEF gone, rem
<1>6. \A s \in Sectors :
              IF s # ROOT /\ (removed[s] \/ s \in marked) /\ open_cnt'[s] = 0
              THEN kind'[s] = "free" /\ ~removed'[s]
              ELSE kind'[s] = k[s] /\ (removed'[s] <=> removed[s] \/ s \in marked)
  <2> TAKE s \in Sectors
  <2>1. CASE s \in gone
    <3>1. kind'[s] = "free"
      BY <1>5, <2>1
    <3>2. ~removed'[s]
      BY <1>r, <2>1, Zenon
    <3> QED BY <1>4, <2>1, <3>1, <3>2, Zenon
  <2>2. CASE s \notin gone
    <3>1. kind'[s] = k[s]
      BY <1>5, <2>2
    <3>2. removed'[s] <=> removed[s] \/ s \in marked
      BY <1>r, <2>2, Zenon
    <3> QED BY <1>4, <2>2, <3>1, <3>2, Zenon
  <2> QED BY <2>1, <2>2
<1> QED BY <1>2, <1>3, <1>6

\* A call that counts its users leaves every inode in use in memory.
LEMMA OpenKept ==
  ASSUME DiskType, CountType, NEW k \in [Sectors -> Kinds], NEW delta \in [Sectors -> Int],
         NEW marked \in SUBSET Sectors, inode_close(k, delta, marked), ObjType',
         \A i \in Sectors \ {ROOT} :
           Cardinality(Openers(i))' + Cardinality(Workers(i))' <= open_cnt[i] + delta[i],
         \A o \in Objs : obj'[o].inode # 0 => obj'[o].inode # ROOT /\ k[obj'[o].inode] # "free"
  PROVE  OpenInv'
<1>1. \A i \in Sectors \ {ROOT} : open_cnt'[i] >= Cardinality(Openers(i))' + Cardinality(Workers(i))'
  BY CloseFacts
<1>2. ASSUME NEW o \in Objs, obj'[o].inode # 0
      PROVE  obj'[o].inode # ROOT /\ kind'[obj'[o].inode] # "free"
  <2>0. PICK i : i = obj'[o].inode
    OBVIOUS
  <2>1. i \in Sectors \ {ROOT}
    BY <1>2, <2>0, Constants DEF ObjType, ObjRec
  <2>2. open_cnt'[i] # 0
    <3>1. o \in Openers(i)'
      BY <2>0 DEF Openers
    <3>2. ~(Cardinality(Openers(i))' <= 0)
      BY <3>1, Finite, FS_EmptySet
    <3> QED BY <1>1, <2>1, <3>2, Finite
  <2>3. kind'[i] = k[i]
    BY <2>1, <2>2, CloseFacts
  <2> QED BY <1>2, <2>0, <2>3
<1> QED BY <1>1, <1>2 DEF OpenInv

\* A call that adds entries only for new inodes, and takes away the entry of an
\* inode it removes, leaves a tree.
LEMMA TreeKept ==
  ASSUME DiskType, CountType, NEW k \in [Sectors -> Kinds], NEW delta \in [Sectors -> Int],
         NEW marked \in SUBSET Sectors, inode_close(k, delta, marked), OpenInv',
         cwd' \in [Procs -> Sectors], entry' \in [Sectors -> [Names -> 0 .. NSect]],
         k[ROOT] = "dir", ~removed[ROOT], ROOT \notin marked,
         \A d \in Sectors, n \in Names : k[d] = "dir" /\ entry'[d][n] # 0 =>
           /\ entry'[d][n] # ROOT /\ k[entry'[d][n]] # "free"
           /\ ~removed[entry'[d][n]] /\ entry'[d][n] \notin marked,
         \A d, e \in Sectors, m, n \in Names :
           k[d] = "dir" /\ k[e] = "dir" /\ entry'[d][m] # 0 /\ entry'[d][m] = entry'[e][n]
             => d = e /\ m = n,
         \A s \in Sectors : removed[s] \/ s \in marked => k[s] # "free",
         \A p \in Procs : k[cwd'[p]] = "dir" /\ (Gone(p)' => cwd'[p] = ROOT)
  PROVE  TreeInv'
<1>0. \A s \in Sectors :
        IF s # ROOT /\ (removed[s] \/ s \in marked) /\ open_cnt'[s] = 0
        THEN kind'[s] = "free" /\ ~removed'[s]
        ELSE kind'[s] = k[s] /\ (removed'[s] <=> removed[s] \/ s \in marked)
  BY CloseFacts
<1>1. kind'[ROOT] = "dir" /\ ~removed'[ROOT]
  BY <1>0, Constants
<1>2. \A d \in Sectors : kind'[d] = "dir" => k[d] = "dir"
  BY <1>0
<1>3. \A d \in Sectors, n \in Names : kind'[d] = "dir" /\ entry'[d][n] # 0 =>
        entry'[d][n] # ROOT /\ kind'[entry'[d][n]] # "free" /\ ~removed'[entry'[d][n]]
  <2> SUFFICES ASSUME NEW d \in Sectors, NEW n \in Names, kind'[d] = "dir", entry'[d][n] # 0
               PROVE  entry'[d][n] # ROOT /\ kind'[entry'[d][n]] # "free" /\ ~removed'[entry'[d][n]]
    OBVIOUS
  <2>1. entry'[d][n] \in Sectors
    BY Constants
  <2> QED BY <1>0, <1>2, <2>1
<1>4. \A d, e \in Sectors, m, n \in Names :
        kind'[d] = "dir" /\ kind'[e] = "dir" /\ entry'[d][m] # 0 /\ entry'[d][m] = entry'[e][n]
          => d = e /\ m = n
  BY <1>2
<1>5. \A s \in Sectors : removed'[s] => kind'[s] # "free"
  BY <1>0
<1>6. ASSUME NEW p \in Procs PROVE kind'[cwd'[p]] = "dir"
  <2>1. CASE cwd'[p] = ROOT
    BY <1>1, <2>1
  <2>2. CASE cwd'[p] # ROOT
    <3>0. PICK i : i = cwd'[p]
      OBVIOUS
    <3>1. i \in Sectors \ {ROOT} /\ ~Gone(p)' /\ k[i] = "dir"
      BY <2>2, <3>0
    <3>2. ~(Cardinality(Workers(i))' <= 0)
      <4>1. p \in Workers(i)'
        BY <3>0, <3>1 DEF Workers
      <4> QED BY <4>1, Finite, FS_EmptySet
    <3>3. open_cnt'[i] # 0
      BY <3>1, <3>2, Finite DEF OpenInv
    <3> QED BY <1>0, <3>0, <3>1, <3>3
  <2> QED BY <2>1, <2>2
<1> QED BY <1>1, <1>3, <1>4, <1>5, <1>6 DEF TreeInv

\* The open files keep their inodes.
LEMMA OpenersSame ==
  ASSUME \A o \in Objs : obj'[o].inode = obj[o].inode
  PROVE  \A i : Openers(i)' = Openers(i)
  BY DEF Openers

\* They keep their denials.
LEMMA DeniersSame ==
  ASSUME \A o \in Objs : obj'[o].inode = obj[o].inode /\ obj'[o].deny = obj[o].deny
  PROVE  \A i : Deniers(i)' = Deniers(i)
  BY DEF Deniers

\* Processes stay in their working directories.
LEMMA WorkersSame ==
  ASSUME \A q \in Procs : (Gone(q)' <=> Gone(q)) /\ cwd'[q] = cwd[q]
  PROVE  \A i : Workers(i)' = Workers(i)
  BY DEF Workers

\* A call that changes no directory and counts its users.
LEMMA CountsKept ==
  ASSUME FilesInv, NEW delta \in [Sectors -> Int],
         inode_close(kind, delta, {}), UNCHANGED <<entry, bytes>>, ObjType',
         \A i \in Sectors \ {ROOT} : Cardinality(Openers(i))' + Cardinality(Workers(i))'
             <= Cardinality(Openers(i)) + Cardinality(Workers(i)) + delta[i],
         \A o \in Objs : obj'[o].inode # 0 => obj'[o].inode # ROOT /\ kind[obj'[o].inode] # "free",
         cwd' \in [Procs -> Sectors],
         \A q \in Procs : kind[cwd'[q]] = "dir" /\ (Gone(q)' => cwd'[q] = ROOT)
  PROVE  /\ TreeInv' /\ OpenInv' /\ DiskType'
         /\ open_cnt' \in [Sectors -> Int]
<1> USE DEF FilesInv, FilesType
<1>2. kind \in [Sectors -> Kinds] /\ {} \in SUBSET Sectors
  BY DEF DiskType
<1>3. DiskType' /\ open_cnt' \in [Sectors -> Int]
  BY <1>2, CloseFacts DEF DiskType
<1>4. \A i \in Sectors \ {ROOT} :
        Cardinality(Openers(i))' + Cardinality(Workers(i))' <= open_cnt[i] + delta[i]
  BY Finite DEF OpenInv, CountType
<1>6. OpenInv'
  BY <1>2, <1>4, OpenKept
<1>7. entry' \in [Sectors -> [Names -> 0 .. NSect]]
  BY DEF DiskType
<1>8. /\ kind[ROOT] = "dir" /\ ~removed[ROOT] /\ ROOT \notin {}
      /\ \A d \in Sectors, n \in Names : kind[d] = "dir" /\ entry'[d][n] # 0 =>
           /\ entry'[d][n] # ROOT /\ kind[entry'[d][n]] # "free"
           /\ ~removed[entry'[d][n]] /\ entry'[d][n] \notin {}
      /\ \A d, e \in Sectors, m, n \in Names :
           kind[d] = "dir" /\ kind[e] = "dir" /\ entry'[d][m] # 0 /\ entry'[d][m] = entry'[e][n]
             => d = e /\ m = n
      /\ \A s \in Sectors : removed[s] \/ s \in {} => kind[s] # "free"
  BY DEF TreeInv
<1>9. TreeInv'
  BY <1>2, <1>6, <1>7, <1>8, TreeKept
<1> QED BY <1>3, <1>6, <1>9

\* A call that finds nothing leaves inodes open, and no more.
LEMMA LeakKept ==
  ASSUME FilesInv, NEW delta \in [Sectors -> Int], \A s \in Sectors : delta[s] >= 0,
         inode_close(kind, delta, {}), UNCHANGED <<entry, bytes, obj, cwd>>,
         \A q \in Procs : Gone(q)' <=> Gone(q)
  PROVE  /\ TreeInv' /\ OpenInv' /\ DiskType'
         /\ open_cnt' \in [Sectors -> Int]
<1> USE DEF FilesInv, FilesType
<1>1. \A i : Openers(i)' = Openers(i) /\ Workers(i)' = Workers(i)
  BY OpenersSame, WorkersSame
<1>2. \A i \in Sectors \ {ROOT} : Cardinality(Openers(i))' + Cardinality(Workers(i))'
        <= Cardinality(Openers(i)) + Cardinality(Workers(i)) + delta[i]
  BY <1>1, Finite
<1>3. ObjType' /\ \A o \in Objs : obj'[o].inode # 0 => obj'[o].inode # ROOT /\ kind[obj'[o].inode] # "free"
  BY DEF OpenInv, ObjType
<1>4. cwd' \in [Procs -> Sectors] /\ \A q \in Procs : kind[cwd'[q]] = "dir" /\ (Gone(q)' => cwd'[q] = ROOT)
  BY DEF ProcType, TreeInv
<1> QED BY <1>2, <1>3, <1>4, CountsKept

\* A call that makes a file or directory gives a free sector to a new name, or
\* to no name when the name exists.
LEMMA NewKept ==
  ASSUME FilesInv, Undisturbed, NEW d \in Sectors, kind[d] = "dir", NEW n \in Names, NEW s \in Sectors,
         kind[s] = "free", NEW t \in {"file", "dir"}, dir_add(d, n, s, t),
         NEW delta \in [Sectors -> Int], \A x \in Sectors : delta[x] >= 0,
         inode_close([kind EXCEPT ![s] = t], delta, {}), bytes' = [bytes EXCEPT ![s] = 0],
         UNCHANGED <<obj, cwd, status>>
  PROVE  /\ TreeInv' /\ OpenInv' /\ DiskType'
         /\ open_cnt' \in [Sectors -> Int]
<1> USE DEF FilesInv, FilesType
<1> DEFINE k == [kind EXCEPT ![s] = t]
<1>1. \A i : Openers(i)' = Openers(i) /\ Workers(i)' = Workers(i)
  BY OpenersSame, WorkersSame DEF Gone
<1>2. /\ k \in [Sectors -> Kinds] /\ {} \in SUBSET Sectors
      /\ \A x \in Sectors : k[x] = IF x = s THEN t ELSE kind[x]
  BY DEF DiskType, Kinds
<1>3. d # s
  OBVIOUS
<1>4. /\ entry' \in [Sectors -> [Names -> 0 .. NSect]]
      /\ \A m \in Names : entry'[s][m] = 0
      /\ \A e \in Sectors \ {s}, m \in Names :
           entry'[e][m] = entry[e][m] \/ (e = d /\ m = n /\ entry'[e][m] = s /\ entry[d][n] = 0)
  <2>1. NoEntries \in [Names -> 0 .. NSect] /\ \A m \in Names : NoEntries[m] = 0
    BY Constants DEF NoEntries
  <2>2. CASE entry[d][n] = 0 /\ deny_write_cnt[d] = 0
    <3>0. [x \in Names |-> IF x = "." THEN s ELSE IF x = ".." THEN d ELSE 0] = NoEntries
      BY DEF Undisturbed, NoEntries
    <3>1. entry' = [entry EXCEPT ![s] = NoEntries, ![d] = [@ EXCEPT ![n] = s]]
      BY <2>2, <3>0 DEF dir_add
    <3> QED BY <1>3, <2>1, <2>2, <3>1, Constants DEF DiskType
  <2>3. CASE ~(entry[d][n] = 0 /\ deny_write_cnt[d] = 0)
    <3>1. entry' = [entry EXCEPT ![s] = NoEntries, ![d] = @]
      BY <2>3 DEF dir_add, Undisturbed
    <3> QED BY <1>3, <2>1, <3>1 DEF DiskType
  <2> QED BY <2>2, <2>3
<1> HIDE DEF k
<1>c. inode_close(k, delta, {})
  BY DEF k
<1>5. DiskType' /\ open_cnt' \in [Sectors -> Int]
  <2>1. bytes' \in [Sectors -> {0, 1}]
    BY DEF DiskType
  <2> QED BY <1>2, <1>4, <1>c, <2>1, CloseFacts DEF DiskType
<1>6. \A i \in Sectors \ {ROOT} :
        Cardinality(Openers(i))' + Cardinality(Workers(i))' <= open_cnt[i] + delta[i]
  BY <1>1, Finite DEF OpenInv, CountType
<1>7. ObjType' /\ \A o \in Objs : obj'[o].inode # 0 => obj'[o].inode # ROOT /\ k[obj'[o].inode] # "free"
  BY <1>2, Constants DEF OpenInv, ObjType, ObjRec
<1>8. OpenInv'
  BY <1>2, <1>6, <1>7, <1>c, OpenKept
<1>9. cwd' \in [Procs -> Sectors]
  BY DEF ProcType
<1>10. \A e \in Sectors, m \in Names : kind[e] = "dir" => entry[e][m] # s
  BY Constants DEF TreeInv
<1>11. /\ k[ROOT] = "dir" /\ ~removed[ROOT] /\ ROOT \notin {} /\ s # ROOT /\ ~removed[s]
  BY <1>2, Constants DEF TreeInv
<1>12. ASSUME NEW e \in Sectors, NEW m \in Names, k[e] = "dir", entry'[e][m] # 0
       PROVE  /\ e # s /\ kind[e] = "dir"
              /\ entry'[e][m] # ROOT /\ k[entry'[e][m]] # "free"
              /\ ~removed[entry'[e][m]] /\ entry'[e][m] \notin {}
  <2>1. e # s /\ kind[e] = "dir"
    BY <1>2, <1>4, <1>12
  <2>2. CASE entry'[e][m] = s
    BY <1>2, <1>11, <2>1, <2>2
  <2>3. CASE entry'[e][m] # s
    <3>1. entry'[e][m] = entry[e][m]
      BY <1>4, <2>1, <2>3
    <3>2. entry[e][m] \in Sectors
      BY <1>12, <3>1, Constants DEF DiskType
    <3> QED BY <1>2, <1>12, <2>1, <2>3, <3>1, <3>2 DEF TreeInv
  <2> QED BY <2>2, <2>3
<1>13. ASSUME NEW e \in Sectors, NEW x \in Sectors, NEW m \in Names, NEW l \in Names,
              k[e] = "dir", k[x] = "dir", entry'[e][m] # 0, entry'[e][m] = entry'[x][l]
       PROVE  e = x /\ m = l
  <2>1. e # s /\ x # s /\ kind[e] = "dir" /\ kind[x] = "dir"
    BY <1>12, <1>13
  <2>2. entry[e][m] # s /\ entry[x][l] # s
    BY <1>10, <2>1
  <2>3. CASE entry'[e][m] = s
    <3>1. e = d /\ m = n
      BY <1>4, <2>1, <2>2, <2>3
    <3>2. x = d /\ l = n
      BY <1>4, <1>13, <2>1, <2>2, <2>3
    <3> QED BY <3>1, <3>2
  <2>4. CASE entry'[e][m] # s
    <3>1. entry'[e][m] = entry[e][m] /\ entry'[x][l] = entry[x][l]
      BY <1>4, <1>13, <2>1, <2>4
    <3>2. entry[e][m] # 0 /\ entry[e][m] = entry[x][l]
      BY <1>13, <3>1
    <3> QED BY <2>1, <3>2 DEF TreeInv
  <2> QED BY <2>3, <2>4
<1>14. \A x \in Sectors : removed[x] \/ x \in {} => k[x] # "free"
  BY <1>2 DEF TreeInv
<1>15. \A p \in Procs : k[cwd'[p]] = "dir" /\ (Gone(p)' => cwd'[p] = ROOT)
  BY <1>2 DEF TreeInv, ProcType, Gone
<1>16. TreeInv'
  <2>1. \A e \in Sectors, m \in Names : k[e] = "dir" /\ entry'[e][m] # 0 =>
          /\ entry'[e][m] # ROOT /\ k[entry'[e][m]] # "free"
          /\ ~removed[entry'[e][m]] /\ entry'[e][m] \notin {}
    BY <1>12
  <2>2. \A e, x \in Sectors, m, l \in Names :
          k[e] = "dir" /\ k[x] = "dir" /\ entry'[e][m] # 0 /\ entry'[e][m] = entry'[x][l]
            => e = x /\ m = l
    BY <1>13
  <2> QED BY <1>2, <1>4, <1>8, <1>9, <1>11, <2>1, <2>2, <1>14, <1>15, <1>c, TreeKept
<1> QED BY <1>5, <1>8, <1>16
-----------------------------------------------------------------------------
(* Calls that change directories only.                                     *)

\* The directory that the parent of a path leads to.
LEMMA ParentFacts ==
  ASSUME FilesInv, NEW p \in Procs, NEW path \in Paths
  PROVE  /\ Parent(p, path).dir \in Sectors \cup {0} /\ Parent(p, path).last \in Sectors
         /\ Parent(p, path).lost \in [Sectors -> Nat]
         /\ Parent(p, path).dir # 0 => kind[Parent(p, path).dir] = "dir"
         /\ Parent(p, path).dir = 0 =>
              \A s \in Sectors : Parent(p, path).lost[s] >= One(Parent(p, path).last)[s]
<1>1. Len(path.names) - 1 \in 0 .. Len(path.names)
  BY PathNames
<1>2. Parent(p, path) \in Walks
  BY <1>1, WalkFacts DEF Parent, FilesInv, FilesType
<1> QED BY <1>2 DEF Walks

\* Counts that a call adds.
LEMMA Deltas ==
  /\ None \in [Sectors -> Int] /\ \A s \in Sectors : None[s] = 0
  /\ \A i : One(i) \in [Sectors -> Int] /\ \A s \in Sectors : One(i)[s] = IF s = i THEN 1 ELSE 0
  /\ \A f, g \in [Sectors -> Int] : Plus(f, g) \in [Sectors -> Int] /\ Minus(f, g) \in [Sectors -> Int]
  /\ \A f, g \in [Sectors -> Int] : \A s \in Sectors :
       Plus(f, g)[s] = f[s] + g[s] /\ Minus(f, g)[s] = f[s] - g[s]
  BY DEF None, One, Plus, Minus

\* A call that changes no open file and no process but its place in exec.
LEMMA RestKept ==
  ASSUME FilesInv, \A q \in Procs : Gone(q)' <=> Gone(q),
         UNCHANGED <<deny_write_cnt, obj, fd_table, stdin_count, stdout_count, running_file, new_file>>
  PROVE  DenyInv' /\ TableInv' /\ StreamInv' /\ ExecInv' /\ ObjType'
<1>1. DenyInv' /\ ObjType'
  BY DEF FilesInv, FilesType, DenyInv, Deniers, ObjType
<1>2. TableInv' /\ StreamInv'
  <2>1. \A q, o : Leads(q, o)' = Leads(q, o)
    BY DEF Leads
  <2>2. TableInv'
    BY <2>1 DEF FilesInv, TableInv
  <2>3. StreamInv'
    BY <2>1 DEF FilesInv, StreamInv
  <2> QED BY <2>2, <2>3
<1>3. ExecInv'
  BY DEF FilesInv, ExecInv
<1> QED BY <1>1, <1>2, <1>3

\* sys_create, with the directory left open.
LEMMA CreateStep ==
  ASSUME FilesInv, Undisturbed, NEW p \in Procs, NEW path \in Paths, sys_create(p, path)
  PROVE  FilesInv'
<1> DEFINE w == Parent(p, path)
<1>0. UNCHANGED <<deny_write_cnt, obj, procs, closing>>
  BY DEF sys_create
<1>1. DenyInv' /\ TableInv' /\ StreamInv' /\ ExecInv' /\ ObjType'
  BY <1>0, RestKept DEF procs, Gone
<1>2. ProcType'
  BY <1>0 DEF FilesInv, FilesType, ProcType, procs
<1>3. TreeInv' /\ OpenInv' /\ DiskType' /\ open_cnt' \in [Sectors -> Int]
  <2>1. ASSUME NEW delta \in [Sectors -> Int], \A s \in Sectors : delta[s] >= 0,
               inode_close(kind, delta, {}), UNCHANGED <<entry, bytes>>
        PROVE  TreeInv' /\ OpenInv' /\ DiskType' /\ open_cnt' \in [Sectors -> Int]
    BY <1>0, <2>1, LeakKept DEF procs, Gone
  <2>2. CASE w.dir = 0 /\ inode_close(kind, w.lost, {}) /\ UNCHANGED <<entry, bytes>>
    BY <2>1, <2>2, ParentFacts
  <2>3. CASE w.dir # 0 /\ inode_close(kind, One(w.dir), {}) /\ UNCHANGED <<entry, bytes>>
    BY <2>1, <2>3, Deltas
  <2>4. CASE /\ w.dir # 0
             /\ \E s \in Sectors :
                 /\ kind[s] = "free" /\ \A x \in Sectors : kind[x] = "free" => s <= x
                 /\ dir_add(w.dir, Last(path), s, "file")
                 /\ bytes' = [bytes EXCEPT ![s] = 0]
                 /\ inode_close([kind EXCEPT ![s] = "file"], One(w.dir), {})
    <3>1. PICK s \in Sectors : /\ kind[s] = "free" /\ dir_add(w.dir, Last(path), s, "file")
                               /\ bytes' = [bytes EXCEPT ![s] = 0]
                               /\ inode_close([kind EXCEPT ![s] = "file"], One(w.dir), {})
      BY <2>4
    <3>2. w.dir \in Sectors /\ kind[w.dir] = "dir" /\ Last(path) \in Names
      BY <2>4, ParentFacts, PathNames
    <3>3. One(w.dir) \in [Sectors -> Int] /\ \A x \in Sectors : One(w.dir)[x] >= 0
      BY Deltas
    <3> HIDE DEF w
    <3> QED BY <1>0, <3>1, <3>2, <3>3, NewKept DEF procs
  <2> QED BY <2>2, <2>3, <2>4 DEF sys_create
<1>4. CountType'
  BY <1>0, <1>3 DEF FilesInv, FilesType, CountType
<1> QED BY <1>1, <1>2, <1>3, <1>4 DEF FilesInv, FilesType

\* sys_mkdir.
LEMMA MkdirStep ==
  ASSUME FilesInv, Undisturbed, NEW p \in Procs, NEW path \in Paths, sys_mkdir(p, path)
  PROVE  FilesInv'
<1> DEFINE w == Parent(p, path)
<1>a. Freed({NULL}) = obj
  BY Constants DEF Freed, FilesInv, FilesType, ObjType
<1>0. UNCHANGED <<deny_write_cnt, obj, procs, closing>>
  BY <1>a DEF sys_mkdir, Undisturbed
<1>1. DenyInv' /\ TableInv' /\ StreamInv' /\ ExecInv' /\ ObjType'
  BY <1>0, RestKept DEF procs, Gone
<1>2. ProcType'
  BY <1>0 DEF FilesInv, FilesType, ProcType, procs
<1>3. TreeInv' /\ OpenInv' /\ DiskType' /\ open_cnt' \in [Sectors -> Int]
  <2>2. CASE w.dir = 0 /\ inode_close(kind, Minus(w.lost, One(w.last)), {}) /\ UNCHANGED <<entry, bytes>>
    <3> DEFINE delta == Minus(w.lost, One(w.last))
    <3>1. w.lost \in [Sectors -> Nat] /\ \A s \in Sectors : w.lost[s] >= One(w.last)[s]
      BY <2>2, ParentFacts
    <3>2. w.lost \in [Sectors -> Int] /\ One(w.last) \in [Sectors -> Int]
      BY <3>1, Deltas
    <3>3. delta \in [Sectors -> Int] /\ \A s \in Sectors : delta[s] = w.lost[s] - One(w.last)[s]
      BY <3>2, Deltas
    <3>4. \A s \in Sectors : delta[s] >= 0
      BY <3>1, <3>2, <3>3
    <3> HIDE DEF delta
    <3>5. inode_close(kind, delta, {})
      BY <2>2 DEF delta
    <3> QED BY <1>0, <2>2, <3>3, <3>4, <3>5, LeakKept DEF procs, Gone
  <2>4. CASE /\ w.dir # 0
             /\ \E s \in Sectors :
                 /\ kind[s] = "free" /\ \A x \in Sectors : kind[x] = "free" => s <= x
                 /\ dir_add(w.dir, Last(path), s, "dir")
                 /\ bytes' = [bytes EXCEPT ![s] = 0]
                 /\ inode_close([kind EXCEPT ![s] = "dir"], None, {})
    <3>1. PICK s \in Sectors : /\ kind[s] = "free" /\ dir_add(w.dir, Last(path), s, "dir")
                               /\ bytes' = [bytes EXCEPT ![s] = 0]
                               /\ inode_close([kind EXCEPT ![s] = "dir"], None, {})
      BY <2>4
    <3>2. w.dir \in Sectors /\ kind[w.dir] = "dir" /\ Last(path) \in Names
      BY <2>4, ParentFacts, PathNames
    <3>3. None \in [Sectors -> Int] /\ \A x \in Sectors : None[x] >= 0
      BY Deltas
    <3> HIDE DEF w
    <3> QED BY <1>0, <3>1, <3>2, <3>3, NewKept DEF procs
  <2> QED BY <2>2, <2>4 DEF sys_mkdir, Undisturbed
<1>4. CountType'
  BY <1>0, <1>3 DEF FilesInv, FilesType, CountType
<1> QED BY <1>1, <1>2, <1>3, <1>4 DEF FilesInv, FilesType

\* sys_remove takes the entry away and marks the inode; nothing else leads to
\* it.
LEMMA RemoveStep ==
  ASSUME FilesInv, NEW p \in Procs, NEW path \in Paths, sys_remove(p, path)
  PROVE  FilesInv'
<1> DEFINE w == Parent(p, path)
           i == IF w.dir = 0 THEN 0 ELSE entry[w.dir][Last(path)]
<1>0. UNCHANGED <<bytes, deny_write_cnt, obj, procs, closing>>
  BY DEF sys_remove
<1>1. DenyInv' /\ TableInv' /\ StreamInv' /\ ExecInv' /\ ObjType'
  BY <1>0, RestKept DEF procs, Gone
<1>2. ProcType'
  BY <1>0 DEF FilesInv, FilesType, ProcType, procs
<1>3. TreeInv' /\ OpenInv' /\ DiskType' /\ open_cnt' \in [Sectors -> Int]
  <2>1. CASE i = 0 /\ inode_close(kind, IF w.dir = 0 THEN w.lost ELSE One(w.dir), {}) /\ UNCHANGED entry
    <3>1. PICK delta \in [Sectors -> Int] : (\A s \in Sectors : delta[s] >= 0) /\ inode_close(kind, delta, {})
      <4>1. CASE w.dir = 0
        BY <2>1, <4>1, ParentFacts
      <4>2. CASE w.dir # 0
        BY <2>1, <4>2, Deltas
      <4> QED BY <4>1, <4>2
    <3> QED BY <1>0, <2>1, <3>1, LeakKept DEF procs, Gone
  <2>2. CASE /\ i # 0
             /\ dir_remove(w.dir, Last(path))
             /\ inode_close(kind, None, {i})
    <3>1. PICK d \in Sectors : d = w.dir /\ kind[d] = "dir"
      BY <2>2, ParentFacts
    <3>2. PICK n \in Names : n = Last(path)
      BY PathNames
    <3>3. PICK x \in Sectors : x = i /\ x = entry[d][n]
      BY <2>2, <3>1, <3>2, Constants DEF FilesInv, FilesType, DiskType
    <3>4. entry' = [entry EXCEPT ![d][n] = 0] /\ inode_close(kind, None, {x})
      BY <2>2, <3>1, <3>2, <3>3 DEF dir_remove
    <3> HIDE DEF w, i
    <3> USE DEF FilesInv, FilesType
    <3>5. /\ entry' \in [Sectors -> [Names -> 0 .. NSect]]
          /\ \A e \in Sectors, m \in Names : entry'[e][m] = IF e = d /\ m = n THEN 0 ELSE entry[e][m]
      BY <3>4, Constants DEF DiskType
    <3>6. kind \in [Sectors -> Kinds] /\ {x} \in SUBSET Sectors /\ None \in [Sectors -> Int]
      BY Deltas DEF DiskType
    <3>7. DiskType' /\ open_cnt' \in [Sectors -> Int]
      BY <1>0, <3>4, <3>5, <3>6, CloseFacts DEF DiskType
    <3>8. \A j : Openers(j)' = Openers(j) /\ Workers(j)' = Workers(j)
      BY <1>0, OpenersSame, WorkersSame DEF Gone, procs
    <3>9. \A j \in Sectors \ {ROOT} :
            Cardinality(Openers(j))' + Cardinality(Workers(j))' <= open_cnt[j] + None[j]
      BY <3>8, Finite, Deltas DEF OpenInv, CountType
    <3>10. \A o \in Objs : obj'[o].inode # 0 => obj'[o].inode # ROOT /\ kind[obj'[o].inode] # "free"
      BY <1>0 DEF OpenInv
    <3>11. OpenInv'
      BY <1>1, <3>4, <3>6, <3>9, <3>10, OpenKept
    <3>12. cwd' \in [Procs -> Sectors]
      BY <1>2 DEF ProcType
    <3>13. x # ROOT /\ kind[x] # "free"
      BY <3>1, <3>3, Constants DEF TreeInv
    <3>14. \A e \in Sectors, m \in Names : kind[e] = "dir" /\ entry'[e][m] # 0 =>
             /\ entry'[e][m] # ROOT /\ kind[entry'[e][m]] # "free"
             /\ ~removed[entry'[e][m]] /\ entry'[e][m] \notin {x}
      <4> SUFFICES ASSUME NEW e \in Sectors, NEW m \in Names, kind[e] = "dir", entry'[e][m] # 0
                   PROVE  /\ entry'[e][m] # ROOT /\ kind[entry'[e][m]] # "free"
                          /\ ~removed[entry'[e][m]] /\ entry'[e][m] \notin {x}
        OBVIOUS
      <4>1. entry'[e][m] = entry[e][m] /\ ~(e = d /\ m = n)
        BY <3>5
      <4>2. entry[e][m] # x
        BY <3>1, <3>3, <4>1 DEF TreeInv
      <4> QED BY <4>1, <4>2 DEF TreeInv
    <3>15. \A e, y \in Sectors, m, l \in Names :
             kind[e] = "dir" /\ kind[y] = "dir" /\ entry'[e][m] # 0 /\ entry'[e][m] = entry'[y][l]
               => e = y /\ m = l
      BY <3>5 DEF TreeInv
    <3>16. \A s \in Sectors : removed[s] \/ s \in {x} => kind[s] # "free"
      BY <3>13 DEF TreeInv
    <3>17. /\ \A q \in Procs : kind[cwd'[q]] = "dir" /\ (Gone(q)' => cwd'[q] = ROOT)
           /\ kind[ROOT] = "dir" /\ ~removed[ROOT] /\ ROOT \notin {x}
      BY <1>0, <3>13 DEF TreeInv, Gone, procs
    <3>18. TreeInv'
      BY ZenonT(30), <3>4, <3>5, <3>6, <3>11, <3>12, <3>14, <3>15, <3>16, <3>17, TreeKept
    <3> QED BY <3>7, <3>11, <3>18
  <2> QED BY <2>1, <2>2 DEF sys_remove
<1>4. CountType'
  BY <1>0, <1>3 DEF FilesInv, FilesType, CountType
<1> QED BY <1>1, <1>2, <1>3, <1>4 DEF FilesInv, FilesType

\* sys_write.
LEMMA WriteStep ==
  ASSUME FilesInv, NEW p \in Procs, NEW f \in Fds, sys_write(p, f)
  PROVE  FilesInv'
<1> DEFINE i == obj[fd_table[p][f]].inode
<1>1. UNCHANGED <<kind, entry, open_cnt, deny_write_cnt, removed, obj, procs, closing>>
  BY DEF sys_write, inodes
<1>2. bytes' \in [Sectors -> {0, 1}]
  <2>1. bytes' = [bytes EXCEPT ![i] = 1 - bytes[i]]
    BY DEF sys_write
  <2> HIDE DEF i
  <2>2. bytes \in [Sectors -> {0, 1}]
    BY DEF FilesInv, FilesType, DiskType
  <2>3. \A s \in Sectors : bytes'[s] \in {0, 1}
    BY <2>1, <2>2
  <2> QED BY <2>1, <2>2, <2>3
<1>3. DenyInv' /\ TableInv' /\ StreamInv' /\ ExecInv' /\ ObjType'
  BY <1>1, RestKept DEF procs, Gone
<1>4. FilesType'
  BY <1>1, <1>2 DEF FilesInv, FilesType, DiskType, CountType, ObjType, ProcType, procs
<1>5. TreeInv' /\ OpenInv'
  BY <1>1 DEF FilesInv, TreeInv, OpenInv, Openers, Workers, Gone, procs
<1> QED BY <1>3, <1>4, <1>5 DEF FilesInv
-----------------------------------------------------------------------------
(* Working directories and opening.                                        *)

\* A process moves to another directory.
LEMMA WorkerMoves ==
  ASSUME FilesType, NEW p \in Procs, ~Gone(p), NEW d \in Sectors, cwd' = [cwd EXCEPT ![p] = d],
         UNCHANGED status
  PROVE  \A j : Cardinality(Workers(j)') =
                  Cardinality(Workers(j)) + (IF j = d THEN 1 ELSE 0) - (IF j = cwd[p] THEN 1 ELSE 0)
<1>1. \A q \in Procs : (Gone(q)' <=> Gone(q)) /\ cwd'[q] = IF q = p THEN d ELSE cwd[q]
  BY DEF FilesType, ProcType, Gone
<1> SUFFICES ASSUME NEW j
             PROVE  Cardinality(Workers(j)') =
                      Cardinality(Workers(j)) + (IF j = d THEN 1 ELSE 0) - (IF j = cwd[p] THEN 1 ELSE 0)
  OBVIOUS
<1>2. CASE (j = d) <=> (j = cwd[p])
  <2>1. Workers(j)' = Workers(j)
    BY <1>1, <1>2 DEF Workers
  <2> QED BY <1>2, <2>1, Finite
<1>3. CASE j = d /\ j # cwd[p]
  <2>1. Workers(j)' = Workers(j) \cup {p} /\ p \notin Workers(j)
    BY <1>1, <1>3 DEF Workers
  <2>2. Cardinality(Workers(j) \cup {p}) = Cardinality(Workers(j)) + 1
    BY <2>1, Finite, FS_AddElement
  <2> QED BY <1>3, <2>1, <2>2, Finite
<1>4. CASE j # d /\ j = cwd[p]
  <2>1. Workers(j)' = Workers(j) \ {p} /\ p \in Workers(j)
    BY <1>1, <1>4 DEF Workers
  <2>2. Cardinality(Workers(j) \ {p}) = Cardinality(Workers(j)) - 1
    BY <2>1, Finite, FS_RemoveElement
  <2> QED BY <1>4, <2>1, <2>2, Finite
<1> QED BY <1>2, <1>3, <1>4

\* sys_chdir.
LEMMA ChdirStep ==
  ASSUME FilesInv, NEW p \in Procs, NEW path \in Paths, sys_chdir(p, path)
  PROVE  FilesInv'
<1> DEFINE w == Walk(p, path, Len(path.names))
<1>0. UNCHANGED <<entry, bytes, deny_write_cnt, obj, fd_table, fd_idx, stdin_count, stdout_count,
                 running_file, status, new_file, closing>>
  BY DEF sys_chdir
<1>1. DenyInv' /\ TableInv' /\ StreamInv' /\ ExecInv' /\ ObjType'
  BY <1>0, RestKept DEF Gone
<1>2. w \in Walks
  <2>1. Len(path.names) \in 0 .. Len(path.names)
    BY PathNames
  <2> QED BY <2>1, WalkFacts DEF FilesInv, FilesType
<1>3. ~Gone(p)
  BY DEF sys_chdir, Ready, Gone
<1> HIDE DEF w
<1>4. CASE inode_close(kind, IF w.dir = 0 THEN w.lost ELSE One(w.dir), {}) /\ UNCHANGED cwd
  <2>1. PICK delta \in [Sectors -> Int] : (\A s \in Sectors : delta[s] >= 0) /\ inode_close(kind, delta, {})
    <3>1. CASE w.dir = 0
      BY <1>2, <1>4, <3>1 DEF Walks
    <3>2. CASE w.dir # 0
      <4>1. One(w.dir) \in [Sectors -> Int] /\ \A s \in Sectors : One(w.dir)[s] >= 0
        BY Deltas
      <4> QED BY <1>4, <3>2, <4>1
    <3> QED BY <3>1, <3>2
  <2>2. TreeInv' /\ OpenInv' /\ DiskType' /\ open_cnt' \in [Sectors -> Int]
    BY <1>0, <1>4, <2>1, LeakKept DEF Gone
  <2>3. CountType' /\ ProcType'
    BY <1>0, <1>4, <2>2 DEF FilesInv, FilesType, CountType, ProcType
  <2> QED BY <1>1, <2>2, <2>3 DEF FilesInv, FilesType
<1>5. CASE /\ w.dir # 0
           /\ inode_close(kind, Minus(One(w.dir), One(cwd[p])), {})
           /\ cwd' = [cwd EXCEPT ![p] = w.dir]
  <2>1. PICK d \in Sectors : d = w.dir /\ kind[d] = "dir"
    BY <1>2, <1>5 DEF Walks
  <2>2. PICK delta \in [Sectors -> Int] :
          /\ inode_close(kind, delta, {})
          /\ \A s \in Sectors : delta[s] = (IF s = d THEN 1 ELSE 0) - (IF s = cwd[p] THEN 1 ELSE 0)
    <3>1. /\ One(d) \in [Sectors -> Int] /\ One(cwd[p]) \in [Sectors -> Int]
          /\ \A s \in Sectors : One(d)[s] = IF s = d THEN 1 ELSE 0
          /\ \A s \in Sectors : One(cwd[p])[s] = IF s = cwd[p] THEN 1 ELSE 0
      BY Deltas
    <3>2. /\ Minus(One(d), One(cwd[p])) \in [Sectors -> Int]
          /\ \A s \in Sectors : Minus(One(d), One(cwd[p]))[s] = One(d)[s] - One(cwd[p])[s]
      BY <3>1, Deltas
    <3>3. \A s \in Sectors : Minus(One(d), One(cwd[p]))[s] =
                             (IF s = d THEN 1 ELSE 0) - (IF s = cwd[p] THEN 1 ELSE 0)
      BY <3>1, <3>2
    <3>4. inode_close(kind, Minus(One(d), One(cwd[p])), {})
      BY <1>5, <2>1
    <3> HIDE DEF Minus
    <3> QED BY <3>2, <3>3, <3>4
  <2>3. \A j : Cardinality(Workers(j)') =
                  Cardinality(Workers(j)) + (IF j = d THEN 1 ELSE 0) - (IF j = cwd[p] THEN 1 ELSE 0)
    BY <1>0, <1>3, <1>5, <2>1, WorkerMoves DEF FilesInv
  <2>4. \A j : Openers(j)' = Openers(j)
    BY <1>0, OpenersSame
  <2>5. \A j \in Sectors \ {ROOT} : Cardinality(Openers(j))' + Cardinality(Workers(j))'
             <= Cardinality(Openers(j)) + Cardinality(Workers(j)) + delta[j]
    BY <2>2, <2>3, <2>4, Finite
  <2>6. \A o \in Objs : obj'[o].inode # 0 => obj'[o].inode # ROOT /\ kind[obj'[o].inode] # "free"
    BY <1>0 DEF FilesInv, OpenInv
  <2>7. /\ cwd' \in [Procs -> Sectors]
        /\ \A q \in Procs : kind[cwd'[q]] = "dir" /\ (Gone(q)' => cwd'[q] = ROOT)
    BY <1>0, <1>3, <1>5, <2>1 DEF FilesInv, FilesType, ProcType, TreeInv, Gone
  <2>8. TreeInv' /\ OpenInv' /\ DiskType' /\ open_cnt' \in [Sectors -> Int]
    BY <1>0, <1>1, <2>2, <2>5, <2>6, <2>7, CountsKept
  <2>9. CountType' /\ ProcType'
    BY <1>0, <2>7, <2>8 DEF FilesInv, FilesType, CountType, ProcType
  <2> QED BY <1>1, <2>8, <2>9 DEF FilesInv, FilesType
<1> QED BY <1>4, <1>5 DEF sys_chdir, w

\* The first free block.
LEMMA NewObjFacts ==
  ASSUME RoomFor(1)
  PROVE  NewObj \in Objs /\ obj[NewObj] = FreeObj
<1> DEFINE T == {o \in Objs : obj[o] = FreeObj}
<1>1. T # {} /\ T \in SUBSET Nat
  <2>1. Cardinality(T) >= 1
    BY DEF RoomFor
  <2>2. Cardinality({}) = 0
    BY FS_EmptySet
  <2>3. T \in SUBSET Nat
    BY Constants
  <2> HIDE DEF T
  <2> QED BY <2>1, <2>2, <2>3
<1> HIDE DEF T
<1>2. PICK x \in T : \A y \in T : x <= y
  BY <1>1, LeastNat
<1> USE DEF T
<1> QED BY <1>2 DEF NewObj

\* One open file changes its inode.
LEMMA OpenersChange ==
  ASSUME NEW x \in Objs, NEW a, a = obj'[x].inode,
         \A o \in Objs \ {x} : obj'[o].inode = obj[o].inode
  PROVE  \A j : Cardinality(Openers(j)') =
                  Cardinality(Openers(j)) + (IF j = a THEN 1 ELSE 0) - (IF j = obj[x].inode THEN 1 ELSE 0)
<1> SUFFICES ASSUME NEW j
             PROVE  Cardinality(Openers(j)') = Cardinality(Openers(j)) + (IF j = a THEN 1 ELSE 0)
                                                 - (IF j = obj[x].inode THEN 1 ELSE 0)
  OBVIOUS
<1>2. CASE (j = a) <=> (j = obj[x].inode)
  <2>1. Openers(j)' = Openers(j)
    BY <1>2 DEF Openers
  <2> QED BY <1>2, <2>1, Finite
<1>3. CASE j = a /\ j # obj[x].inode
  <2>1. Openers(j)' = Openers(j) \cup {x} /\ x \notin Openers(j)
    BY <1>3 DEF Openers
  <2>2. Cardinality(Openers(j) \cup {x}) = Cardinality(Openers(j)) + 1
    BY <2>1, Finite, FS_AddElement
  <2> QED BY <1>3, <2>1, <2>2, Finite
<1>4. CASE j # a /\ j = obj[x].inode
  <2>1. Openers(j)' = Openers(j) \ {x} /\ x \in Openers(j)
    BY <1>4 DEF Openers
  <2>2. Cardinality(Openers(j) \ {x}) = Cardinality(Openers(j)) - 1
    BY <2>1, Finite, FS_RemoveElement
  <2> QED BY <1>4, <2>1, <2>2, Finite
<1> QED BY <1>2, <1>3, <1>4

\* One open file changes the inode it denies writes to, if any.
LEMMA DeniersChange ==
  ASSUME NEW x \in Objs, NEW A, \A j : x \in Deniers(j)' <=> j \in A,
         NEW B, \A j : x \in Deniers(j) <=> j \in B,
         \A o \in Objs \ {x} : obj'[o].inode = obj[o].inode /\ obj'[o].deny = obj[o].deny
  PROVE  \A j : Cardinality(Deniers(j)') =
                  Cardinality(Deniers(j)) + (IF j \in A THEN 1 ELSE 0) - (IF j \in B THEN 1 ELSE 0)
<1> SUFFICES ASSUME NEW j
             PROVE  Cardinality(Deniers(j)') = Cardinality(Deniers(j)) + (IF j \in A THEN 1 ELSE 0)
                                                 - (IF j \in B THEN 1 ELSE 0)
  OBVIOUS
<1>1. \A o \in Objs \ {x} : o \in Deniers(j)' <=> o \in Deniers(j)
  BY DEF Deniers
<1>2. Deniers(j)' \subseteq Objs /\ Deniers(j) \subseteq Objs
  BY DEF Deniers
<1>3. CASE (j \in A) <=> (j \in B)
  <2>0. x \in Deniers(j)' <=> x \in Deniers(j)
    BY <1>3
  <2>1. Deniers(j)' = Deniers(j)
    <3>1. \A o \in Objs : o \in Deniers(j)' <=> o \in Deniers(j)
      BY <1>1, <2>0
    <3> QED BY <1>2, <3>1
  <2> QED BY <1>3, <2>1, Finite
<1>4. CASE j \in A /\ j \notin B
  <2>1. Deniers(j)' = Deniers(j) \cup {x} /\ x \notin Deniers(j)
    BY <1>1, <1>2, <1>4
  <2>2. Cardinality(Deniers(j) \cup {x}) = Cardinality(Deniers(j)) + 1
    BY <2>1, Finite, FS_AddElement
  <2> QED BY <1>4, <2>1, <2>2, Finite
<1>5. CASE j \notin A /\ j \in B
  <2>1. Deniers(j)' = Deniers(j) \ {x} /\ x \in Deniers(j)
    BY <1>1, <1>2, <1>5
  <2>2. Cardinality(Deniers(j) \ {x}) = Cardinality(Deniers(j)) - 1
    BY <2>1, Finite, FS_RemoveElement
  <2> QED BY <1>5, <2>1, <2>2, Finite
<1> QED BY <1>3, <1>4, <1>5

Repoint(p, f, v) == fd_table' = [fd_table EXCEPT ![p][f] = v]

\* One descriptor changes what it leads to.
LEMMA LeadsChange ==
  ASSUME ProcType, NEW p \in Procs, NEW f \in Fds, NEW v, Repoint(p, f, v)
  PROVE  /\ \A q \in Procs, g \in Fds : fd_table'[q][g] = IF q = p /\ g = f THEN v ELSE fd_table[q][g]
         /\ \A q \in Procs : \A o :
              Cardinality(Leads(q, o)') =
                Cardinality(Leads(q, o)) + (IF q = p /\ o = v THEN 1 ELSE 0)
                  - (IF q = p /\ o = fd_table[p][f] THEN 1 ELSE 0)
<1>1. \A q \in Procs, g \in Fds : fd_table'[q][g] = IF q = p /\ g = f THEN v ELSE fd_table[q][g]
  BY DEF ProcType, Repoint
<1> SUFFICES ASSUME NEW q \in Procs, NEW o
             PROVE  Cardinality(Leads(q, o)') =
                      Cardinality(Leads(q, o)) + (IF q = p /\ o = v THEN 1 ELSE 0)
                        - (IF q = p /\ o = fd_table[p][f] THEN 1 ELSE 0)
  BY <1>1
<1>2. CASE q # p \/ ((o = v) <=> (o = fd_table[p][f]))
  <2>1. Leads(q, o)' = Leads(q, o)
    BY <1>1, <1>2 DEF Leads
  <2> QED BY <1>2, <2>1, Finite
<1>3. CASE q = p /\ o = v /\ o # fd_table[p][f]
  <2>1. Leads(q, o)' = Leads(q, o) \cup {f} /\ f \notin Leads(q, o)
    BY <1>1, <1>3 DEF Leads
  <2>2. Cardinality(Leads(q, o) \cup {f}) = Cardinality(Leads(q, o)) + 1
    BY <2>1, Finite, FS_AddElement
  <2> QED BY <1>3, <2>1, <2>2, Finite
<1>4. CASE q = p /\ o # v /\ o = fd_table[p][f]
  <2>1. Leads(q, o)' = Leads(q, o) \ {f} /\ f \in Leads(q, o)
    BY <1>1, <1>4 DEF Leads
  <2>2. Cardinality(Leads(q, o) \ {f}) = Cardinality(Leads(q, o)) - 1
    BY <2>1, Finite, FS_RemoveElement
  <2> QED BY <1>4, <2>1, <2>2, Finite
<1> QED BY <1>2, <1>3, <1>4

\* An open file on an inode that a directory leads to.
LEMMA OpenedKept ==
  ASSUME FilesInv, NEW d \in Sectors, NEW i \in Sectors, i # ROOT, kind[i] # "free",
         NEW x \in Objs, obj[x] = FreeObj, NEW r \in ObjRec, r.inode = i, ~r.deny,
         obj' = [obj EXCEPT ![x] = r], inode_close(kind, Plus(One(d), One(i)), {}),
         UNCHANGED <<entry, bytes, deny_write_cnt, cwd>>, \A q \in Procs : Gone(q)' <=> Gone(q)
  PROVE  TreeInv' /\ OpenInv' /\ DenyInv' /\ DiskType' /\ CountType' /\ ObjType'
<1> USE DEF FilesInv, FilesType
<1>1. obj'[x] = r /\ \A o \in Objs \ {x} : obj'[o] = obj[o]
  BY DEF ObjType
<1>2. ObjType'
  BY DEF ObjType
<1>3. PICK delta \in [Sectors -> Int] :
        inode_close(kind, delta, {}) /\ \A s \in Sectors : delta[s] = One(d)[s] + One(i)[s]
  <2>1. One(d) \in [Sectors -> Int] /\ One(i) \in [Sectors -> Int]
    BY Deltas
  <2>2. /\ Plus(One(d), One(i)) \in [Sectors -> Int]
        /\ \A s \in Sectors : Plus(One(d), One(i))[s] = One(d)[s] + One(i)[s]
    BY <2>1, Deltas
  <2> QED BY <2>2
<1>4. \A s \in Sectors : delta[s] >= IF s = i THEN 1 ELSE 0
  <2>1. \A s \in Sectors : One(d)[s] \in {0, 1} /\ One(i)[s] = IF s = i THEN 1 ELSE 0
    BY Deltas
  <2> QED BY <1>3, <2>1
<1>5. \A j : Cardinality(Openers(j)') = Cardinality(Openers(j)) + (IF j = i THEN 1 ELSE 0)
                                          - (IF j = obj[x].inode THEN 1 ELSE 0)
  BY <1>1, OpenersChange
<1>6. obj[x].inode = 0 /\ ~obj[x].deny
  BY DEF FreeObj
<1>7. \A j : Workers(j)' = Workers(j)
  BY WorkersSame
<1>8. \A j \in Sectors \ {ROOT} : Cardinality(Openers(j))' + Cardinality(Workers(j))'
             <= Cardinality(Openers(j)) + Cardinality(Workers(j)) + delta[j]
  BY <1>4, <1>5, <1>6, <1>7, Finite, Constants
<1>9. \A o \in Objs : obj'[o].inode # 0 => obj'[o].inode # ROOT /\ kind[obj'[o].inode] # "free"
  BY <1>1 DEF OpenInv
<1>10. cwd' \in [Procs -> Sectors] /\ \A q \in Procs : kind[cwd'[q]] = "dir" /\ (Gone(q)' => cwd'[q] = ROOT)
  BY DEF ProcType, TreeInv
<1>11. TreeInv' /\ OpenInv' /\ DiskType' /\ open_cnt' \in [Sectors -> Int]
  BY <1>2, <1>3, <1>8, <1>9, <1>10, CountsKept
<1>12. \A j : Deniers(j)' = Deniers(j)
  BY <1>1, <1>6 DEF Deniers
<1>13. DenyInv'
  BY <1>12 DEF DenyInv
<1> QED BY <1>2, <1>11, <1>13 DEF CountType

\* What the last name of a path leads to.
LEMMA EntryFacts ==
  ASSUME FilesInv, NEW p \in Procs, NEW path \in Paths,
         NEW i, i = IF Parent(p, path).dir = 0 THEN 0 ELSE entry[Parent(p, path).dir][Last(path)], i # 0
  PROVE  Parent(p, path).dir \in Sectors /\ i \in Sectors \ {ROOT} /\ kind[i] # "free"
<1>1. PICK d \in Sectors : d = Parent(p, path).dir /\ kind[d] = "dir"
  BY ParentFacts
<1>2. PICK n \in Names : n = Last(path)
  BY PathNames
<1>3. i = entry[d][n]
  BY <1>1, <1>2, Constants
<1> QED BY <1>1, <1>3, Constants DEF FilesInv, FilesType, DiskType, TreeInv

\* A path that leads nowhere.
LEMMA NowhereKept ==
  ASSUME FilesInv, NEW p \in Procs, NEW path \in Paths,
         inode_close(kind, IF Parent(p, path).dir = 0 THEN Parent(p, path).lost
                           ELSE One(Parent(p, path).dir), {}),
         UNCHANGED <<entry, bytes, obj, cwd>>, \A q \in Procs : Gone(q)' <=> Gone(q)
  PROVE  /\ TreeInv' /\ OpenInv' /\ DiskType'
         /\ open_cnt' \in [Sectors -> Int]
<1>1. PICK delta \in [Sectors -> Int] : (\A s \in Sectors : delta[s] >= 0) /\ inode_close(kind, delta, {})
  <2>1. CASE Parent(p, path).dir = 0
    BY <2>1, ParentFacts
  <2>2. CASE Parent(p, path).dir # 0
    <3>1. /\ One(Parent(p, path).dir) \in [Sectors -> Int]
          /\ \A s \in Sectors : One(Parent(p, path).dir)[s] >= 0
      BY Deltas
    <3> QED BY <2>2, <3>1
  <2> QED BY <2>1, <2>2
<1> QED BY <1>1, LeakKept

\* Where find_unused_fd stops.
LEMMA UnusedFd ==
  ASSUME FilesInv, NEW p \in Procs
  PROVE  /\ find_unused_fd(p) \in Fds \cup {MAX_FD}
         /\ find_unused_fd(p) # MAX_FD => fd_table[p][find_unused_fd(p)] = NULL
<1> DEFINE free == {f \in Fds : f >= fd_idx[p] /\ fd_table[p][f] = NULL}
<1>1. find_unused_fd(p) = IF free = {} THEN MAX_FD ELSE Min(free)
  BY DEF find_unused_fd
<1>2. free \in SUBSET Nat /\ \A f \in free : f \in Fds /\ fd_table[p][f] = NULL
  BY Constants
<1> HIDE DEF free
<1>3. free # {} => Min(free) \in free
  BY <1>2, MinFacts
<1> QED BY <1>1, <1>2, <1>3

\* Nothing leads to a free block.
LEMMA FreeUnused ==
  ASSUME FilesInv, NEW x \in Objs, obj[x] = FreeObj
  PROVE  /\ obj[x].inode = 0 /\ ~obj[x].deny
         /\ \A q \in Procs : running_file[q] # x /\ new_file[q] # x
         /\ \A q \in Procs, g \in Fds : fd_table[q][g] # x
         /\ \A q \in Procs : Cardinality(Leads(q, x)) = 0
<1>1. obj[x].inode = 0 /\ ~obj[x].deny
  BY DEF FreeObj
<1>2. \A q \in Procs : running_file[q] # x /\ new_file[q] # x
  BY <1>1 DEF FilesInv, ExecInv
<1>3. \A q \in Procs, g \in Fds : fd_table[q][g] # x
  BY <1>1 DEF FilesInv, TableInv
<1>4. ASSUME NEW q \in Procs PROVE Cardinality(Leads(q, x)) = 0
  <2>1. Leads(q, x) = {}
    BY <1>3 DEF Leads
  <2> QED BY <2>1, FS_EmptySet
<1> QED BY <1>1, <1>2, <1>3, <1>4

\* sys_open.
LEMMA OpenStep ==
  ASSUME FilesInv, NEW p \in Procs, NEW path \in Paths, sys_open(p, path)
  PROVE  FilesInv'
<1> DEFINE w == Parent(p, path)
           i == IF w.dir = 0 THEN 0 ELSE entry[w.dir][Last(path)]
<1>0. UNCHANGED <<entry, bytes, deny_write_cnt, stdin_count, stdout_count, running_file, cwd,
                 status, new_file, closing>>
  BY DEF sys_open
<1>a. status[p] = "user"
  BY DEF sys_open, Ready
<1>1. CASE /\ inode_close(kind, IF w.dir = 0 THEN w.lost ELSE One(w.dir), {})
           /\ UNCHANGED <<obj, fd_table, fd_idx>>
  <2>1. TreeInv' /\ OpenInv' /\ DiskType' /\ open_cnt' \in [Sectors -> Int]
    BY <1>0, <1>1, NowhereKept DEF Gone
  <2>2. DenyInv' /\ TableInv' /\ StreamInv' /\ ExecInv' /\ ObjType'
    BY <1>0, <1>1, RestKept DEF Gone
  <2>3. CountType' /\ ProcType'
    BY <1>0, <1>1, <2>1 DEF FilesInv, FilesType, CountType, ProcType
  <2> QED BY <2>1, <2>2, <2>3 DEF FilesInv, FilesType
<1>2. CASE /\ i # 0 /\ RoomFor(1)
           /\ inode_close(kind, Plus(One(w.dir), One(i)), {})
           /\ obj' = [obj EXCEPT ![NewObj] = IF kind[i] = "dir" THEN dir_open(i) ELSE file_open(i)]
           /\ fd_idx' = [fd_idx EXCEPT ![p] = find_unused_fd(p)]
           /\ fd_table' = IF find_unused_fd(p) = MAX_FD THEN fd_table
                          ELSE [fd_table EXCEPT ![p][find_unused_fd(p)] = NewObj]
  <2>1. PICK d, j : d = w.dir /\ j = i /\ d \in Sectors /\ j \in Sectors \ {ROOT} /\ kind[j] # "free"
    BY <1>2, EntryFacts
  <2>2. PICK x \in Objs : x = NewObj /\ obj[x] = FreeObj
    BY <1>2, NewObjFacts
  <2>3. PICK r \in ObjRec : /\ r = IF kind[j] = "dir" THEN dir_open(j) ELSE file_open(j)
                            /\ r.inode = j /\ ~r.deny /\ (~r.dir => r.dup = 1)
    <3>1. dir_open(j) \in ObjRec /\ dir_open(j).inode = j /\ ~dir_open(j).deny /\ dir_open(j).dir
      BY <2>1, Constants DEF ObjRec, dir_open
    <3>2. file_open(j) \in ObjRec /\ file_open(j).inode = j /\ ~file_open(j).deny /\ file_open(j).dup = 1
      BY <2>1, Constants DEF ObjRec, file_open
    <3>3. CASE kind[j] = "dir"
      BY <3>1, <3>3
    <3>4. CASE kind[j] # "dir"
      BY <3>2, <3>4
    <3> QED BY <3>3, <3>4
  <2>4. obj' = [obj EXCEPT ![x] = r] /\ inode_close(kind, Plus(One(d), One(j)), {})
    BY <1>2, <2>1, <2>2, <2>3
  <2>5. PICK f \in Fds \cup {MAX_FD} :
          /\ fd_idx' = [fd_idx EXCEPT ![p] = f]
          /\ fd_table' = IF f = MAX_FD THEN fd_table ELSE [fd_table EXCEPT ![p][f] = x]
          /\ f # MAX_FD => fd_table[p][f] = NULL
    BY <1>2, <2>2, UnusedFd
  <2> HIDE DEF w, i
  <2>6. TreeInv' /\ OpenInv' /\ DenyInv' /\ DiskType' /\ CountType' /\ ObjType'
    BY <1>0, <2>1, <2>2, <2>3, <2>4, OpenedKept DEF Gone
  <2> USE DEF FilesInv, FilesType
  <2>7. ProcType'
    <3>1. fd_table' \in [Procs -> [Fds -> Pointers]]
      BY <2>5 DEF ProcType, Pointers
    <3>2. fd_idx' \in [Procs -> Int]
      BY <2>5, FilesAssumption DEF ProcType, Fds
    <3> QED BY <1>0, <3>1, <3>2 DEF ProcType
  <2>8. /\ obj'[x] = r /\ \A o \in Objs \ {x} : obj'[o] = obj[o]
        /\ obj'[x].inode # 0
    BY <2>1, <2>3, <2>4, Constants DEF ObjType
  <2>9. /\ obj[x].inode = 0
        /\ \A q \in Procs : running_file[q] # x /\ new_file[q] # x
        /\ \A q \in Procs, g \in Fds : fd_table[q][g] # x
        /\ \A q \in Procs : Cardinality(Leads(q, x)) = 0
    BY <2>2, FreeUnused
  <2>10. /\ \A q \in Procs, g \in Fds :
              fd_table'[q][g] = fd_table[q][g] \/ (q = p /\ g = f /\ fd_table'[q][g] = x)
         /\ \A q \in Procs : \A o : o # x /\ o # NULL => Cardinality(Leads(q, o)') = Cardinality(Leads(q, o))
         /\ \A q \in Procs, g \in Fds : fd_table'[q][g] = x => q = p /\ Cardinality(Leads(q, x)') = 1
    <3>1. CASE f = MAX_FD
      <4>1. fd_table' = fd_table
        BY <2>5, <3>1
      <4>2. \A q, o : Leads(q, o)' = Leads(q, o)
        BY <4>1 DEF Leads
      <4> QED BY <2>9, <4>1, <4>2
    <3>2. CASE f # MAX_FD
      <4>1. f \in Fds /\ fd_table' = [fd_table EXCEPT ![p][f] = x] /\ fd_table[p][f] = NULL
        BY <2>5, <3>2
      <4>a. Repoint(p, f, x)
        BY <4>1 DEF Repoint
      <4>2. /\ \A q \in Procs, g \in Fds : fd_table'[q][g] = IF q = p /\ g = f THEN x ELSE fd_table[q][g]
            /\ \A q \in Procs : \A o :
                Cardinality(Leads(q, o)') =
                  Cardinality(Leads(q, o)) + (IF q = p /\ o = x THEN 1 ELSE 0)
                    - (IF q = p /\ o = fd_table[p][f] THEN 1 ELSE 0)
        BY <4>1, <4>a, LeadsChange
      <4>3. \A q \in Procs : \A o : o # x /\ o # NULL => Cardinality(Leads(q, o)') = Cardinality(Leads(q, o))
        BY <4>1, <4>2, Finite
      <4>4. Cardinality(Leads(p, x)') = 1
        BY <4>1, <4>2, <2>9, Constants
      <4> QED BY <2>9, <4>2, <4>3, <4>4
    <3> QED BY <3>1, <3>2
  <2>11. TableInv'
    <3>1. ASSUME NEW q \in Procs, NEW g \in Fds, NEW o \in Objs, fd_table'[q][g] = o
          PROVE  /\ obj'[o].inode # 0
                 /\ ~obj'[o].dir => obj'[o].dup = Cardinality(Leads(q, o))'
                 /\ \A y \in Procs, h \in Fds : fd_table'[y][h] = o => y = q
      <4>1. CASE o = x
        BY <2>3, <2>8, <2>10, <3>1, <4>1
      <4>2. CASE o # x
        <5>1. fd_table[q][g] = o /\ obj'[o] = obj[o]
          BY <2>8, <2>10, <3>1, <4>2
        <5>2. Cardinality(Leads(q, o)') = Cardinality(Leads(q, o))
          BY <2>10, <4>2, Constants
        <5> QED BY <2>10, <4>2, <5>1, <5>2 DEF TableInv
      <4> QED BY <4>1, <4>2
    <3>2. ASSUME NEW q \in Procs, Gone(q)', NEW g \in Fds PROVE fd_table'[q][g] = NULL
      BY <1>0, <1>a, <2>10, <3>2 DEF TableInv, Gone
    <3> QED BY <3>1, <3>2 DEF TableInv
  <2>12. StreamInv'
    BY <1>0, <2>10, Constants DEF StreamInv
  <2>13. ExecInv'
    BY <1>0, <2>8, <2>9, <2>10 DEF ExecInv
  <2> QED BY <2>6, <2>7, <2>11, <2>12, <2>13
<1> QED BY <1>1, <1>2 DEF sys_open

\* The second step of an exec: nobody else leads to the new file.
LEMMA ExecOpenStep ==
  ASSUME FilesInv, NEW p \in Procs, NEW path \in Paths, ExecOpen(p, path)
  PROVE  FilesInv'
<1> DEFINE w == Parent(p, path)
           i == IF w.dir = 0 THEN 0 ELSE entry[w.dir][Last(path)]
<1>0. UNCHANGED <<entry, bytes, deny_write_cnt, fd_table, fd_idx, stdin_count, stdout_count,
                 running_file, cwd, closing>>
  BY DEF ExecOpen
<1>a. status[p] = "exec_open" /\ status' = [status EXCEPT ![p] = "exec_load"]
  BY DEF ExecOpen
<1>b. /\ status' \in [Procs -> {"none", "user", "exec_open", "exec_load", "dead"}]
      /\ \A q \in Procs : Gone(q)' <=> Gone(q)
  BY <1>a DEF FilesInv, FilesType, ProcType, Gone
<1>1. CASE /\ inode_close(kind, IF w.dir = 0 THEN w.lost ELSE One(w.dir), {})
           /\ UNCHANGED <<obj, new_file>>
  <2>1. TreeInv' /\ OpenInv' /\ DiskType' /\ open_cnt' \in [Sectors -> Int]
    BY <1>0, <1>1, <1>b, NowhereKept
  <2>2. DenyInv' /\ TableInv' /\ StreamInv' /\ ExecInv' /\ ObjType'
    BY <1>0, <1>1, <1>b, RestKept
  <2>3. CountType' /\ ProcType'
    BY <1>0, <1>1, <1>b, <2>1 DEF FilesInv, FilesType, CountType, ProcType
  <2> QED BY <2>1, <2>2, <2>3 DEF FilesInv, FilesType
<1>2. CASE /\ i # 0 /\ RoomFor(1)
           /\ inode_close(kind, Plus(One(w.dir), One(i)), {})
           /\ obj' = [obj EXCEPT ![NewObj] = file_open(i)]
           /\ new_file' = [new_file EXCEPT ![p] = NewObj]
  <2>1. PICK d, j : d = w.dir /\ j = i /\ d \in Sectors /\ j \in Sectors \ {ROOT} /\ kind[j] # "free"
    BY <1>2, EntryFacts
  <2>2. PICK x \in Objs : x = NewObj /\ obj[x] = FreeObj
    BY <1>2, NewObjFacts
  <2>3. PICK r \in ObjRec : r = file_open(j) /\ r.inode = j /\ ~r.deny
    <3>1. file_open(j) \in ObjRec /\ file_open(j).inode = j /\ ~file_open(j).deny
      BY <2>1, Constants DEF ObjRec, file_open
    <3> QED BY <3>1
  <2>4. /\ obj' = [obj EXCEPT ![x] = r] /\ inode_close(kind, Plus(One(d), One(j)), {})
        /\ new_file' = [new_file EXCEPT ![p] = x]
    BY <1>2, <2>1, <2>2, <2>3
  <2> HIDE DEF w, i
  <2>6. TreeInv' /\ OpenInv' /\ DenyInv' /\ DiskType' /\ CountType' /\ ObjType'
    BY <1>0, <1>b, <2>1, <2>2, <2>3, <2>4, OpenedKept
  <2> USE DEF FilesInv, FilesType
  <2>7. ProcType' /\ \A q \in Procs : new_file'[q] = IF q = p THEN x ELSE new_file[q]
    BY <1>0, <1>b, <2>4 DEF ProcType
  <2>8. /\ obj'[x] = r /\ \A o \in Objs \ {x} : obj'[o] = obj[o]
        /\ obj'[x].inode # 0 /\ ~obj'[x].deny
    BY <2>1, <2>3, <2>4, Constants DEF ObjType
  <2>9. /\ \A q \in Procs : running_file[q] # x /\ new_file[q] # x
        /\ \A q \in Procs, g \in Fds : fd_table[q][g] # x
    BY <2>2, FreeUnused
  <2>10. \A q, o : Leads(q, o)' = Leads(q, o)
    BY <1>0 DEF Leads
  <2>11. TableInv'
    BY <1>0, <1>b, <2>8, <2>9, <2>10 DEF TableInv
  <2>12. StreamInv'
    BY <1>0, <2>10 DEF StreamInv
  <2>13. ExecInv'
    BY <1>0, <2>7, <2>8, <2>9 DEF ExecInv
  <2> QED BY <2>6, <2>7, <2>11, <2>12, <2>13
<1> QED BY <1>1, <1>2 DEF ExecOpen
-----------------------------------------------------------------------------
(* Closing.                                                                *)

\* The open files of a set are freed.
ObjsFreed(os) ==
  /\ \A o \in os : obj'[o].inode = 0 /\ ~obj'[o].deny
  /\ \A o \in Objs \ os : obj'[o].inode = obj[o].inode /\ obj'[o].deny = obj[o].deny

FreedOpen(os, j) == {o \in os : obj[o].inode = j}
FreedDeny(os, j) == {o \in os : obj[o].inode = j /\ obj[o].deny}

\* They no longer open or deny anything.
LEMMA FreedCount ==
  ASSUME NEW os \in SUBSET Objs, ObjsFreed(os), NEW j \in Sectors
  PROVE  /\ Cardinality(Openers(j)') = Cardinality(Openers(j)) - Cardinality(FreedOpen(os, j))
         /\ Cardinality(Deniers(j)') = Cardinality(Deniers(j))
                                         - Cardinality(FreedDeny(os, j))
<1> DEFINE X == FreedOpen(os, j)
           Y == FreedDeny(os, j)
<1>1. Openers(j)' = Openers(j) \ X /\ Openers(j) \cap X = X
  BY Constants DEF Openers, ObjsFreed, FreedOpen
<1>2. Deniers(j)' = Deniers(j) \ Y /\ Deniers(j) \cap Y = Y
  BY Constants DEF Deniers, ObjsFreed, FreedDeny
<1> HIDE DEF X, Y
<1>3. Cardinality(Openers(j) \ X) = Cardinality(Openers(j)) - Cardinality(Openers(j) \cap X)
  BY Finite, FS_Difference
<1>4. Cardinality(Deniers(j) \ Y) = Cardinality(Deniers(j)) - Cardinality(Deniers(j) \cap Y)
  BY Finite, FS_Difference
<1>5. /\ Cardinality(Openers(j)') = Cardinality(Openers(j)) - Cardinality(X)
      /\ Cardinality(Deniers(j)') = Cardinality(Deniers(j)) - Cardinality(Y)
  BY <1>1, <1>2, <1>3, <1>4
<1> QED BY <1>5 DEF X, Y

\* A call that frees open files and counts them.
LEMMA FreedKept ==
  ASSUME FilesInv, NEW os \in SUBSET Objs, ObjsFreed(os), ObjType', NEW delta \in [Sectors -> Int],
         inode_close(kind, delta, {}), UNCHANGED <<entry, bytes>>,
         deny_write_cnt' = [s \in Sectors |-> deny_write_cnt[s] -
                              Cardinality(FreedDeny(os, s))],
         \A j \in Sectors \ {ROOT} : Cardinality(Workers(j)') - Cardinality(FreedOpen(os, j))
                                       <= Cardinality(Workers(j)) + delta[j],
         cwd' \in [Procs -> Sectors],
         \A q \in Procs : kind[cwd'[q]] = "dir" /\ (Gone(q)' => cwd'[q] = ROOT)
  PROVE  TreeInv' /\ OpenInv' /\ DenyInv' /\ DiskType' /\ CountType'
<1> USE DEF FilesInv, FilesType
<1>a. \A j \in Sectors :
        /\ IsFiniteSet(FreedOpen(os, j)) /\ Cardinality(FreedOpen(os, j)) \in Nat
        /\ IsFiniteSet(FreedDeny(os, j))
        /\ Cardinality(FreedDeny(os, j)) \in Nat
  <2> SUFFICES ASSUME NEW j \in Sectors
               PROVE  /\ IsFiniteSet(FreedOpen(os, j))
                      /\ IsFiniteSet(FreedDeny(os, j))
    BY FS_CardinalityType
  <2>1. FreedOpen(os, j) \subseteq Objs /\ FreedDeny(os, j) \subseteq Objs
    BY DEF FreedOpen, FreedDeny
  <2> QED BY <2>1, Constants, FS_Subset
<1>1. \A j \in Sectors :
        /\ Cardinality(Openers(j)') = Cardinality(Openers(j)) - Cardinality(FreedOpen(os, j))
        /\ Cardinality(Deniers(j)') = Cardinality(Deniers(j))
                                        - Cardinality(FreedDeny(os, j))
  BY FreedCount
<1>2. \A j \in Sectors \ {ROOT} : Cardinality(Openers(j))' + Cardinality(Workers(j))'
             <= Cardinality(Openers(j)) + Cardinality(Workers(j)) + delta[j]
  <2> TAKE j \in Sectors \ {ROOT}
  <2>1. /\ Cardinality(Openers(j)) \in Nat /\ Cardinality(Workers(j)) \in Nat
        /\ Cardinality(Workers(j)') \in Nat /\ Cardinality(FreedOpen(os, j)) \in Nat /\ delta[j] \in Int
    BY <1>a, Finite
  <2>2. Cardinality(Openers(j)') = Cardinality(Openers(j)) - Cardinality(FreedOpen(os, j))
    BY <1>1
  <2> QED BY <2>1, <2>2
<1>3. \A o \in Objs : obj'[o].inode # 0 => obj'[o].inode # ROOT /\ kind[obj'[o].inode] # "free"
  BY DEF OpenInv, ObjsFreed
<1>4. TreeInv' /\ OpenInv' /\ DiskType' /\ open_cnt' \in [Sectors -> Int]
  BY <1>2, <1>3, CountsKept
<1>5. deny_write_cnt' \in [Sectors -> Int]
  BY <1>a DEF CountType
<1>6. DenyInv'
  BY <1>1 DEF DenyInv
<1> QED BY <1>4, <1>5, <1>6 DEF CountType

\* A set with at most one element.
LEMMA CountOne ==
  ASSUME NEW x, NEW T, T \subseteq {x}
  PROVE  Cardinality(T) = IF x \in T THEN 1 ELSE 0
<1>1. CASE x \in T
  <2>1. T = {x}
    BY <1>1
  <2> QED BY <1>1, <2>1, FS_Singleton
<1>2. CASE x \notin T
  <2>1. T = {}
    BY <1>2
  <2> QED BY <1>2, <2>1, FS_EmptySet
<1> QED BY <1>1, <1>2

\* A call that frees one open file.
LEMMA OneFreedKept ==
  ASSUME FilesInv, NEW x \in Objs, ObjsFreed({x}), ObjType', NEW i \in Sectors, obj[x].inode = i,
         inode_close(kind, Minus(None, One(i)), {}), UNCHANGED <<entry, bytes, cwd>>,
         \A s \in Sectors : deny_write_cnt'[s] =
                              deny_write_cnt[s] - (IF obj[x].deny /\ obj[x].inode = s THEN 1 ELSE 0),
         DOMAIN deny_write_cnt' = Sectors, deny_write_cnt' = [s \in Sectors |-> deny_write_cnt'[s]],
         \A q \in Procs : Gone(q)' <=> Gone(q)
  PROVE  TreeInv' /\ OpenInv' /\ DenyInv' /\ DiskType' /\ CountType'
<1>1. \A s \in Sectors : /\ Cardinality(FreedOpen({x}, s)) = IF obj[x].inode = s THEN 1 ELSE 0
                         /\ Cardinality(FreedDeny({x}, s)) =
                              IF obj[x].deny /\ obj[x].inode = s THEN 1 ELSE 0
  <2> TAKE s \in Sectors
  <2>1. FreedOpen({x}, s) \subseteq {x} /\ FreedDeny({x}, s) \subseteq {x}
    BY DEF FreedOpen, FreedDeny
  <2>2. /\ x \in FreedOpen({x}, s) <=> obj[x].inode = s
        /\ x \in FreedDeny({x}, s) <=> obj[x].deny /\ obj[x].inode = s
    BY DEF FreedOpen, FreedDeny
  <2>a. Cardinality(FreedOpen({x}, s)) = IF x \in FreedOpen({x}, s) THEN 1 ELSE 0
    BY <2>1, CountOne
  <2>b. Cardinality(FreedDeny({x}, s)) = IF x \in FreedDeny({x}, s) THEN 1 ELSE 0
    BY <2>1, CountOne
  <2>3. Cardinality(FreedOpen({x}, s)) = IF obj[x].inode = s THEN 1 ELSE 0
    BY <2>2, <2>a
  <2>4. Cardinality(FreedDeny({x}, s)) =
          IF obj[x].deny /\ obj[x].inode = s THEN 1 ELSE 0
    BY <2>2, <2>b
  <2> QED BY <2>3, <2>4
<1>2. PICK delta \in [Sectors -> Int] :
        inode_close(kind, delta, {}) /\ \A s \in Sectors : delta[s] = - (IF obj[x].inode = s THEN 1 ELSE 0)
  <2>1. None \in [Sectors -> Int] /\ One(i) \in [Sectors -> Int]
    BY Deltas
  <2>2. /\ Minus(None, One(i)) \in [Sectors -> Int]
        /\ \A s \in Sectors : Minus(None, One(i))[s] = None[s] - One(i)[s]
    BY <2>1 DEF Minus
  <2>3. \A s \in Sectors : None[s] = 0 /\ One(i)[s] = IF s = i THEN 1 ELSE 0
    BY Deltas
  <2>4. \A s \in Sectors : Minus(None, One(i))[s] = - (IF obj[x].inode = s THEN 1 ELSE 0)
    BY <2>2, <2>3
  <2> QED BY <2>2, <2>4
<1> USE DEF FilesInv, FilesType
<1>3. \A j : Workers(j)' = Workers(j)
  BY WorkersSame
<1>4. \A j \in Sectors \ {ROOT} : Cardinality(Workers(j)') - Cardinality(FreedOpen({x}, j))
                                    <= Cardinality(Workers(j)) + delta[j]
  BY <1>1, <1>2, <1>3, Finite
<1>5. deny_write_cnt' = [s \in Sectors |-> deny_write_cnt[s] -
                           Cardinality(FreedDeny({x}, s))]
  BY ZenonT(30), <1>1
<1>6. /\ cwd' \in [Procs -> Sectors] /\ {x} \in SUBSET Objs
      /\ \A q \in Procs : kind[cwd'[q]] = "dir" /\ (Gone(q)' => cwd'[q] = ROOT)
  BY DEF ProcType, TreeInv
<1> QED BY <1>2, <1>4, <1>5, <1>6, FreedKept

\* Nothing leads to what no descriptor is counted for.
LEMMA NotLed ==
  ASSUME NEW q, NEW o, Cardinality(Leads(q, o)') = 0
  PROVE  \A g \in Fds : fd_table'[q][g] # o
<1>1. Leads(q, o)' = {}
  BY Finite, FS_EmptySet
<1> QED BY <1>1 DEF Leads

\* The open files behind a descriptor f of p that turns to v are counted, but
\* for those in os, which are freed.
Recounted(p, f, v, os) ==
  \A o \in Objs \ os :
    /\ obj'[o].inode = obj[o].inode /\ obj'[o].deny = obj[o].deny /\ obj'[o].dir = obj[o].dir
    /\ ~obj[o].dir => obj'[o].dup = obj[o].dup + (IF o = v THEN 1 ELSE 0)
                                      - (IF o = fd_table[p][f] THEN 1 ELSE 0)
LastOnes(p, f, v, os) ==
  os \subseteq Objs /\ \A o \in os : o = fd_table[p][f] /\ o # v /\ ~obj[o].dir /\ obj[o].dup = 1

\* So are the standard streams.
StreamsRecounted(p, f, v) ==
  \A q \in Procs :
    /\ stdin_count'[q] = stdin_count[q] + (IF q = p /\ v = STDIN THEN 1 ELSE 0)
                           - (IF q = p /\ fd_table[p][f] = STDIN THEN 1 ELSE 0)
    /\ stdout_count'[q] = stdout_count[q] + (IF q = p /\ v = STDOUT THEN 1 ELSE 0)
                            - (IF q = p /\ fd_table[p][f] = STDOUT THEN 1 ELSE 0)

\* A descriptor of p turns from one open file or stream to another one that p
\* has: the file is counted up or down, or freed as the last one.
LEMMA RepointKept ==
  ASSUME FilesInv, NEW p \in Procs, ~Gone(p), NEW f \in Fds, NEW v \in Pointers, Repoint(p, f, v),
         v \in Objs => \E g \in Fds : fd_table[p][g] = v,
         UNCHANGED <<status, running_file, new_file>>,
         NEW os, LastOnes(p, f, v, os), Recounted(p, f, v, os), StreamsRecounted(p, f, v)
  PROVE  TableInv' /\ StreamInv' /\ ExecInv'
<1>1. /\ \A q \in Procs, g \in Fds : fd_table'[q][g] = IF q = p /\ g = f THEN v ELSE fd_table[q][g]
      /\ \A q \in Procs : \A o :
           Cardinality(Leads(q, o)') =
             Cardinality(Leads(q, o)) + (IF q = p /\ o = v THEN 1 ELSE 0)
               - (IF q = p /\ o = fd_table[p][f] THEN 1 ELSE 0)
  BY LeadsChange DEF FilesInv, FilesType
<1>2. StreamInv'
  BY <1>1 DEF FilesInv, StreamInv, StreamsRecounted
<1> USE DEF LastOnes, Recounted
<1>3. \A q \in Procs, g \in Fds, o \in Objs : fd_table'[q][g] = o => \E h \in Fds : fd_table[q][h] = o
  BY <1>1
<1>4. ASSUME NEW o \in os PROVE \A q \in Procs, g \in Fds : fd_table'[q][g] # o
  <2>1. o \in Objs /\ fd_table[p][f] = o /\ o # v /\ obj[o].dup = Cardinality(Leads(p, o))
    BY <1>4 DEF FilesInv, TableInv
  <2>2. Cardinality(Leads(p, o)') = Cardinality(Leads(p, o)) - 1
    BY <1>1, <2>1, Finite
  <2>3. Cardinality(Leads(p, o)') = 0
    BY <1>4, <2>1, <2>2
  <2>4. \A g \in Fds : fd_table'[p][g] # o
    BY <2>3, NotLed
  <2> QED BY <1>3, <2>1, <2>4 DEF FilesInv, TableInv
<1>5. TableInv'
  <2>1. ASSUME NEW q \in Procs, NEW g \in Fds, NEW o \in Objs, fd_table'[q][g] = o
        PROVE  /\ obj'[o].inode # 0
               /\ ~obj'[o].dir => obj'[o].dup = Cardinality(Leads(q, o))'
               /\ \A y \in Procs, h \in Fds : fd_table'[y][h] = o => y = q
    <3>1. o \notin os
      BY <1>4, <2>1
    <3>2. PICK h \in Fds : fd_table[q][h] = o
      BY <1>3, <2>1
    <3>3. /\ obj[o].inode # 0 /\ (~obj[o].dir => obj[o].dup = Cardinality(Leads(q, o)))
          /\ \A y \in Procs, z \in Fds : fd_table[y][z] = o => y = q
      BY <3>2 DEF FilesInv, TableInv
    <3>4. (o = v \/ o = fd_table[p][f]) => q = p
      BY <3>3
    <3>5. ~obj[o].dir => obj'[o].dup = Cardinality(Leads(q, o)')
      BY <1>1, <3>1, <3>3, <3>4
    <3> QED BY <1>3, <3>1, <3>3, <3>5
  <2>2. ASSUME NEW q \in Procs, Gone(q)', NEW g \in Fds PROVE fd_table'[q][g] = NULL
    BY <1>1, <2>2 DEF FilesInv, TableInv, Gone
  <2> QED BY <2>1, <2>2 DEF TableInv
<1>6. ExecInv'
  <2>1. \A q \in Procs, o \in Objs : running_file[q] = o \/ new_file[q] = o =>
          o \notin os /\ \A y \in Procs, g \in Fds : fd_table[y][g] # o
    BY DEF FilesInv, ExecInv
  <2> QED BY <1>3, <2>1 DEF FilesInv, ExecInv
<1> QED BY <1>2, <1>5, <1>6

\* Without wild counts a count changes only where it should.
LEMMA NotSpoilt ==
  ASSUME Undisturbed, NEW new, new = [x \in Objs |-> new[x]], NEW ds, increase_dup_count(new, ds)
  PROVE  obj' = new
<1>1. {x \in Objs : WildCount /\ obj[x].dir /\ ds \ {x} # {}} = {}
  BY DEF Undisturbed
<1>2. obj' = [x \in Objs |-> new[x]]
  BY <1>1 DEF increase_dup_count
<1> QED BY <1>2

\* sys_close.
LEMMA CloseStep ==
  ASSUME FilesInv, Undisturbed, NEW p \in Procs, NEW f \in Fds, sys_close(p, f)
  PROVE  FilesInv'
<1>0. PICK o : o = fd_table[p][f]
  OBVIOUS
<1>1. /\ ~Gone(p) /\ o # NULL /\ Repoint(p, f, NULL)
      /\ stdin_count' = [stdin_count EXCEPT ![p] = IF o = STDIN THEN @ - 1 ELSE @]
      /\ stdout_count' = [stdout_count EXCEPT ![p] = IF o = STDOUT THEN @ - 1 ELSE @]
      /\ UNCHANGED <<entry, bytes, fd_idx, running_file, cwd, status, new_file>>
  BY <1>0 DEF sys_close, Ready, Gone, Repoint
<1>2. /\ stdin_count' \in [Procs -> Int] /\ stdout_count' \in [Procs -> Int]
      /\ StreamsRecounted(p, f, NULL)
  BY <1>0, <1>1, Constants DEF FilesInv, FilesType, ProcType, StreamsRecounted
<1>3. fd_table' \in [Procs -> [Fds -> Pointers]] /\ o \in Pointers
  BY <1>0, <1>1 DEF FilesInv, FilesType, ProcType, Repoint, Pointers
<1>4. ASSUME UNCHANGED closing PROVE ProcType'
  BY <1>1, <1>2, <1>3, <1>4 DEF FilesInv, FilesType, ProcType
<1>a. NULL \in Pointers /\ (NULL \in Objs => \E g \in Fds : fd_table[p][g] = NULL)
  BY Constants DEF Pointers
<1>5. CASE o \notin Objs
  <2>1. UNCHANGED <<inodes, kind, obj, closing>>
    BY <1>0, <1>3, <1>5 DEF sys_close, Behind, Pointers
  <2>2. LastOnes(p, f, NULL, {}) /\ Recounted(p, f, NULL, {})
    <3>1. \A x \in Objs : obj[x].dup \in Int /\ x # NULL /\ x # fd_table[p][f]
      BY <1>0, <1>5, Constants DEF FilesInv, FilesType, ObjType, ObjRec
    <3> QED BY <2>1, <3>1 DEF LastOnes, Recounted
  <2>3. TableInv' /\ StreamInv' /\ ExecInv'
    BY <1>1, <1>2, <1>a, <2>2, RepointKept
  <2>4. \A i : Openers(i)' = Openers(i) /\ Deniers(i)' = Deniers(i) /\ Workers(i)' = Workers(i)
    BY <1>1, <2>1, OpenersSame, DeniersSame, WorkersSame DEF Gone
  <2>5. TreeInv' /\ OpenInv' /\ DenyInv' /\ DiskType' /\ CountType' /\ ObjType'
    BY <1>1, <2>1, <2>4 DEF FilesInv, FilesType, TreeInv, OpenInv, DenyInv, DiskType, CountType, ObjType,
                            Gone, inodes
  <2> QED BY <1>4, <2>1, <2>3, <2>5 DEF FilesInv, FilesType
<1>6. CASE o \in Objs /\ ~LastDup(o)
  <2>1. /\ obj' = [obj EXCEPT ![o].dup = IF obj[o].dir THEN @ ELSE @ - 1]
        /\ UNCHANGED <<inodes, kind, closing>>
    <3> DEFINE new == [obj EXCEPT ![o].dup = IF obj[o].dir THEN @ ELSE @ - 1]
    <3>1. /\ increase_dup_count(new, {x \in {o} : obj[x].dir})
          /\ UNCHANGED <<inodes, kind, closing>>
      BY <1>0, <1>6, Constants DEF sys_close, Behind
    <3>2. new = [x \in Objs |-> new[x]]
      BY DEF FilesInv, FilesType, ObjType
    <3> HIDE DEF new
    <3>3. obj' = new
      BY <3>1, <3>2, NotSpoilt
    <3> QED BY <3>1, <3>3 DEF new
  <2>2. /\ ObjType'
        /\ \A x \in Objs : /\ obj'[x].inode = obj[x].inode /\ obj'[x].deny = obj[x].deny
                           /\ obj'[x].dir = obj[x].dir
                           /\ ~obj[x].dir => obj'[x].dup = obj[x].dup - (IF x = o THEN 1 ELSE 0)
    BY <1>6, <2>1 DEF FilesInv, FilesType, ObjType, ObjRec
  <2>3. TableInv' /\ StreamInv' /\ ExecInv'
    <3>1. \A x \in Objs : obj[x].dup \in Int /\ x # NULL
      BY Constants DEF FilesInv, FilesType, ObjType, ObjRec
    <3>2. LastOnes(p, f, NULL, {}) /\ Recounted(p, f, NULL, {})
      BY <1>0, <2>2, <3>1 DEF LastOnes, Recounted
    <3> QED BY <1>1, <1>2, <1>a, <3>2, RepointKept
  <2>4. \A i : Openers(i)' = Openers(i) /\ Deniers(i)' = Deniers(i) /\ Workers(i)' = Workers(i)
    BY <1>1, <2>2, OpenersSame, DeniersSame, WorkersSame DEF Gone
  <2>5. TreeInv' /\ OpenInv' /\ DenyInv' /\ DiskType' /\ CountType'
    BY <1>1, <2>1, <2>2, <2>4 DEF FilesInv, FilesType, TreeInv, OpenInv, DenyInv, DiskType,
                                  CountType, Gone, inodes
  <2> QED BY <1>4, <2>1, <2>2, <2>3, <2>5 DEF FilesInv, FilesType
<1>7. CASE o \in Objs /\ LastDup(o)
  <2>1. /\ file_close({o}) /\ inode_close(kind, Minus(None, One(obj[o].inode)), {}) /\ UNCHANGED closing
    BY <1>0, <1>7, Constants DEF sys_close, Behind, Undisturbed
  <2>2. /\ \A x \in Objs : obj'[x] = IF x = o THEN FreeObj ELSE obj[x]
        /\ obj' \in [Objs -> ObjRec]
    BY <2>1, Constants DEF file_close, Freed, file_allow_write, FilesInv, FilesType, ObjType, ObjRec, FreeObj
  <2>3. ObjType' /\ ObjsFreed({o})
    BY <1>7, <2>2 DEF ObjType, ObjsFreed, FreeObj
  <2>4. PICK i \in Sectors : i = obj[o].inode
    BY <1>0, <1>7, Constants DEF FilesInv, FilesType, ObjType, ObjRec, TableInv
  <2>5. /\ deny_write_cnt' = [s \in Sectors |-> deny_write_cnt[s] - Cardinality(FreedDeny({o}, s))]
    BY <2>1 DEF file_close, Freed, file_allow_write, FreedDeny
  <2>6. \A s \in Sectors : deny_write_cnt'[s] =
                              deny_write_cnt[s] - (IF obj[o].deny /\ obj[o].inode = s THEN 1 ELSE 0)
    <3> TAKE s \in Sectors
    <3>1. FreedDeny({o}, s) \subseteq {o} /\ (o \in FreedDeny({o}, s) <=> obj[o].deny /\ obj[o].inode = s)
      BY DEF FreedDeny
    <3>2. Cardinality(FreedDeny({o}, s)) = IF o \in FreedDeny({o}, s) THEN 1 ELSE 0
      BY <3>1, CountOne
    <3> QED BY <2>5, <3>1, <3>2
  <2>7. DOMAIN deny_write_cnt' = Sectors /\ deny_write_cnt' = [s \in Sectors |-> deny_write_cnt'[s]]
    BY <2>5
  <2>8. TreeInv' /\ OpenInv' /\ DenyInv' /\ DiskType' /\ CountType'
    BY <1>1, <1>7, <2>1, <2>3, <2>4, <2>6, <2>7, OneFreedKept DEF Gone
  <2>9. TableInv' /\ StreamInv' /\ ExecInv'
    <3>1. \A x \in Objs : obj[x].dup \in Int /\ x # NULL
      BY Constants DEF FilesInv, FilesType, ObjType, ObjRec
    <3>2. Recounted(p, f, NULL, {o})
      BY <1>0, <2>2, <3>1 DEF Recounted
    <3>3. LastOnes(p, f, NULL, {o})
      BY <1>0, <1>1, <1>7 DEF LastOnes, LastDup
    <3> QED BY <1>1, <1>2, <1>a, <3>2, <3>3, RepointKept
  <2> QED BY <1>4, <2>1, <2>3, <2>8, <2>9 DEF FilesInv, FilesType
<1> QED BY <1>5, <1>6, <1>7

\* sys_dup2.
LEMMA Dup2Step ==
  ASSUME FilesInv, Undisturbed, NEW p \in Procs, NEW old \in Fds, NEW new \in Fds,
         sys_dup2(p, old, new)
  PROVE  FilesInv'
<1>0. PICK o, n : o = fd_table[p][old] /\ n = fd_table[p][new]
  OBVIOUS
<1> DEFINE Dup(x) == (IF x = o THEN 1 ELSE 0) - (IF x = n THEN 1 ELSE 0)
           last == Behind(p, new) /\ n # o /\ LastDup(n)
<1>1. /\ ~Gone(p) /\ o # NULL /\ Repoint(p, new, o)
      /\ stdin_count' = [stdin_count EXCEPT ![p] = @ + Dup(STDIN)]
      /\ stdout_count' = [stdout_count EXCEPT ![p] = @ + Dup(STDOUT)]
      /\ UNCHANGED <<entry, bytes, fd_idx, running_file, cwd, status, new_file, closing>>
  BY <1>0 DEF sys_dup2, Ready, Gone, Repoint
<1>2. o \in Pointers /\ n \in Pointers /\ (o \in Objs => \E g \in Fds : fd_table[p][g] = o)
  BY <1>0 DEF FilesInv, FilesType, ProcType
<1>3. /\ stdin_count' \in [Procs -> Int] /\ stdout_count' \in [Procs -> Int]
      /\ StreamsRecounted(p, new, o)
  BY <1>0, <1>1 DEF FilesInv, FilesType, ProcType, StreamsRecounted
<1>4. ProcType'
  <2>1. fd_table' \in [Procs -> [Fds -> Pointers]]
    BY <1>1, <1>2 DEF FilesInv, FilesType, ProcType, Repoint
  <2> QED BY <1>1, <1>3, <2>1 DEF FilesInv, FilesType, ProcType
<1>a. \A x \in Objs : obj[x] \in ObjRec /\ obj[x].dup \in Int
  BY DEF FilesInv, FilesType, ObjType, ObjRec
<1>5. CASE last
  <2>1. /\ obj' = [x \in Objs |-> IF x = n THEN FreeObj ELSE IF x = o /\ ~obj[x].dir
                                  THEN [obj[x] EXCEPT !.dup = @ + 1] ELSE obj[x]]
        /\ deny_write_cnt' = [s \in Sectors |-> deny_write_cnt[s] -
                                IF obj[n].deny /\ obj[n].inode = s THEN 1 ELSE 0]
        /\ inode_close(kind, Minus(None, One(obj[n].inode)), {})
    <3> DEFINE it == [x \in Objs |-> IF x = n THEN FreeObj ELSE IF x = o /\ ~obj[x].dir
                                  THEN [obj[x] EXCEPT !.dup = @ + 1] ELSE obj[x]]
    <3>1. PICK ds : increase_dup_count(it, ds)
      BY <1>0, <1>5 DEF sys_dup2
    <3>2. it = [x \in Objs |-> it[x]]
      OBVIOUS
    <3> HIDE DEF it
    <3>3. obj' = it
      BY <3>1, <3>2, NotSpoilt
    <3>4. /\ deny_write_cnt' = [s \in Sectors |-> deny_write_cnt[s] -
                                  IF obj[n].deny /\ obj[n].inode = s THEN 1 ELSE 0]
          /\ inode_close(kind, Minus(None, One(obj[n].inode)), {})
      BY <1>0, <1>5 DEF sys_dup2
    <3> QED BY <3>3, <3>4 DEF it
  <2>2. n \in Objs /\ n # o /\ LastDup(n)
    BY <1>0, <1>2, <1>5 DEF Behind, Pointers
  <2>3. obj'[n] = FreeObj /\ \A x \in Objs \ {n} : obj'[x] = IF x = o /\ ~obj[x].dir
                                  THEN [obj[x] EXCEPT !.dup = @ + 1] ELSE obj[x]
    BY <2>1, <2>2
  <2>4. ObjType' /\ ObjsFreed({n}) /\ Recounted(p, new, o, {n})
    <3>1. FreeObj \in ObjRec /\ FreeObj.inode = 0 /\ ~FreeObj.deny
      BY Constants DEF FreeObj, ObjRec
    <3>2. \A x \in Objs \ {n} : /\ obj'[x] \in ObjRec
                                /\ obj'[x].inode = obj[x].inode /\ obj'[x].deny = obj[x].deny
                                /\ obj'[x].dir = obj[x].dir
                                /\ ~obj[x].dir => obj'[x].dup = obj[x].dup + IF x = o THEN 1 ELSE 0
      <4> TAKE x \in Objs \ {n}
      <4>1. CASE x = o /\ ~obj[x].dir
        <5>1. obj'[x] = [obj[x] EXCEPT !.dup = @ + 1]
          BY <2>3, <4>1
        <5> QED BY <1>a, <4>1, <5>1 DEF ObjRec
      <4>2. CASE ~(x = o /\ ~obj[x].dir)
        <5>1. obj'[x] = obj[x]
          BY <2>3, <4>2
        <5> QED BY <1>a, <4>2, <5>1
      <4> QED BY <4>1, <4>2
    <3>3. ObjType'
      BY <2>1, <2>3, <3>1, <3>2 DEF ObjType
    <3> QED BY <1>0, <1>a, <2>3, <3>1, <3>2, <3>3 DEF ObjsFreed, Recounted
  <2>5. PICK i \in Sectors : i = obj[n].inode
    BY <1>0, <2>2, Constants DEF FilesInv, FilesType, ObjType, ObjRec, TableInv
  <2>6. /\ \A s \in Sectors : deny_write_cnt'[s] =
                              deny_write_cnt[s] - (IF obj[n].deny /\ obj[n].inode = s THEN 1 ELSE 0)
        /\ DOMAIN deny_write_cnt' = Sectors /\ deny_write_cnt' = [s \in Sectors |-> deny_write_cnt'[s]]
    BY <2>1
  <2>7. TreeInv' /\ OpenInv' /\ DenyInv' /\ DiskType' /\ CountType'
    BY <1>1, <2>1, <2>2, <2>4, <2>5, <2>6, OneFreedKept DEF Gone
  <2>8. LastOnes(p, new, o, {n})
    BY <1>0, <2>2 DEF LastOnes, LastDup
  <2>9. TableInv' /\ StreamInv' /\ ExecInv'
    BY <1>1, <1>2, <1>3, <2>4, <2>8, RepointKept
  <2> QED BY <1>4, <2>4, <2>7, <2>9 DEF FilesInv, FilesType
<1>6. CASE ~last
  <2>1. /\ obj' = [x \in Objs |-> IF obj[x].dir THEN obj[x] ELSE [obj[x] EXCEPT !.dup = @ + Dup(x)]]
        /\ UNCHANGED <<inodes, kind>>
    <3> DEFINE it == [x \in Objs |-> IF obj[x].dir THEN obj[x] ELSE [obj[x] EXCEPT !.dup = @ + Dup(x)]]
    <3>1. PICK ds : increase_dup_count(it, ds)
      BY <1>0, <1>6 DEF sys_dup2
    <3>2. it = [x \in Objs |-> it[x]]
      OBVIOUS
    <3> HIDE DEF it
    <3>3. obj' = it
      BY <3>1, <3>2, NotSpoilt
    <3>4. UNCHANGED <<inodes, kind>>
      BY <1>0, <1>6 DEF sys_dup2
    <3> QED BY <3>3, <3>4 DEF it
  <2>2. /\ ObjType'
        /\ \A x \in Objs : /\ obj'[x].inode = obj[x].inode /\ obj'[x].deny = obj[x].deny
                           /\ obj'[x].dir = obj[x].dir
                           /\ ~obj[x].dir => obj'[x].dup = obj[x].dup + Dup(x)
    <3>1. \A x \in Objs : Dup(x) \in Int
      OBVIOUS
    <3> HIDE DEF Dup
    <3> QED BY <1>a, <2>1, <3>1 DEF ObjType, ObjRec
  <2>3. LastOnes(p, new, o, {}) /\ Recounted(p, new, o, {})
    BY <1>0, <1>a, <2>2 DEF LastOnes, Recounted
  <2>4. TableInv' /\ StreamInv' /\ ExecInv'
    BY <1>1, <1>2, <1>3, <2>3, RepointKept
  <2>5. \A i : Openers(i)' = Openers(i) /\ Deniers(i)' = Deniers(i) /\ Workers(i)' = Workers(i)
    BY <1>1, <2>2, OpenersSame, DeniersSame, WorkersSame DEF Gone
  <2>6. TreeInv' /\ OpenInv' /\ DenyInv' /\ DiskType' /\ CountType'
    BY <1>1, <2>1, <2>2, <2>5 DEF FilesInv, FilesType, TreeInv, OpenInv, DenyInv, DiskType,
                                  CountType, Gone, inodes
  <2> QED BY <1>4, <2>2, <2>4, <2>6 DEF FilesInv, FilesType
<1> QED BY <1>5, <1>6
-----------------------------------------------------------------------------
(* exec and exit.                                                          *)

\* The counts that closing a set of open files takes away.
LEMMA ClosedFacts ==
  ASSUME NEW os \in SUBSET Objs
  PROVE  /\ Closed(os) \in [Sectors -> Int]
         /\ \A s \in Sectors : Closed(os)[s] = Cardinality(FreedOpen(os, s)) /\ Closed(os)[s] \in Nat
<1>1. \A s \in Sectors : Closed(os)[s] = Cardinality(FreedOpen(os, s))
  BY DEF Closed, FreedOpen
<1>2. ASSUME NEW s \in Sectors PROVE Cardinality(FreedOpen(os, s)) \in Nat
  <2>1. FreedOpen(os, s) \subseteq Objs
    BY DEF FreedOpen
  <2> QED BY <2>1, Constants, FS_Subset, FS_CardinalityType
<1>3. Closed(os) = [s \in Sectors |-> Closed(os)[s]]
  BY DEF Closed
<1> QED BY <1>1, <1>2, <1>3

\* file_close of a set of open files.
LEMMA FileCloseFacts ==
  ASSUME FilesInv, NEW os \in SUBSET Objs, file_close(os)
  PROVE  /\ ObjType' /\ ObjsFreed(os)
         /\ \A o \in Objs \ os : obj'[o] = obj[o]
         /\ deny_write_cnt' = [s \in Sectors |-> deny_write_cnt[s] - Cardinality(FreedDeny(os, s))]
<1>1. \A o \in Objs : obj'[o] = IF o \in os THEN FreeObj ELSE obj[o]
  BY DEF file_close, Freed, file_allow_write
<1>2. FreeObj \in ObjRec /\ FreeObj.inode = 0 /\ ~FreeObj.deny
  BY Constants DEF FreeObj, ObjRec
<1>3. ObjType'
  BY <1>1, <1>2 DEF file_close, Freed, file_allow_write, FilesInv, FilesType, ObjType
<1>4. ObjsFreed(os)
  BY <1>1, <1>2 DEF ObjsFreed
<1> QED BY <1>1, <1>3, <1>4 DEF file_close, Freed, file_allow_write, FreedDeny

\* The first step of an exec: the old executable is closed.
LEMMA ExecStep ==
  ASSUME FilesInv, NEW p \in Procs, process_exec(p)
  PROVE  FilesInv'
<1>1. PICK old : old = {running_file[p]} \ {NULL}
  OBVIOUS
<1>2. /\ status[p] = "user"
      /\ file_close(old) /\ inode_close(kind, Minus(None, Closed(old)), {})
      /\ running_file' = [running_file EXCEPT ![p] = NULL]
      /\ status' = [status EXCEPT ![p] = "exec_open"]
      /\ UNCHANGED <<entry, bytes, fd_table, fd_idx, stdin_count, stdout_count, cwd, new_file, closing>>
  BY <1>1 DEF process_exec, Ready
<1>3. old \in SUBSET Objs
  BY <1>1 DEF FilesInv, FilesType, ProcType
<1>4. /\ ObjType' /\ ObjsFreed(old)
      /\ \A o \in Objs \ old : obj'[o] = obj[o]
      /\ deny_write_cnt' = [s \in Sectors |-> deny_write_cnt[s] - Cardinality(FreedDeny(old, s))]
  BY <1>2, <1>3, FileCloseFacts
<1>5. PICK delta \in [Sectors -> Int] :
        inode_close(kind, delta, {}) /\ \A s \in Sectors : delta[s] = - Cardinality(FreedOpen(old, s))
  <2>1. /\ Closed(old) \in [Sectors -> Int] /\ None \in [Sectors -> Int]
        /\ \A s \in Sectors : None[s] = 0 /\ Closed(old)[s] = Cardinality(FreedOpen(old, s))
    BY <1>3, ClosedFacts, Deltas
  <2>2. Minus(None, Closed(old)) \in [Sectors -> Int]
    BY <2>1 DEF Minus
  <2>3. \A s \in Sectors : Minus(None, Closed(old))[s] = None[s] - Closed(old)[s]
    BY DEF Minus
  <2>4. \A s \in Sectors : Minus(None, Closed(old))[s] = - Cardinality(FreedOpen(old, s))
    BY <2>1, <2>3
  <2> QED BY <1>2, <2>2, <2>4
<1>6. /\ ProcType'
      /\ \A q \in Procs : /\ running_file'[q] = IF q = p THEN NULL ELSE running_file[q]
                          /\ Gone(q)' <=> Gone(q)
  BY <1>2 DEF FilesInv, FilesType, ProcType, Gone
<1>7. TreeInv' /\ OpenInv' /\ DenyInv' /\ DiskType' /\ CountType'
  <2>1. \A j : Workers(j)' = Workers(j)
    BY <1>2, <1>6, WorkersSame
  <2>2. \A j \in Sectors \ {ROOT} : Cardinality(Workers(j)') - Cardinality(FreedOpen(old, j))
                                      <= Cardinality(Workers(j)) + delta[j]
    <3> TAKE j \in Sectors \ {ROOT}
    <3>1. Cardinality(FreedOpen(old, j)) \in Nat /\ Cardinality(Workers(j)) \in Nat
      BY <1>3, ClosedFacts, Finite
    <3> QED BY <1>5, <2>1, <3>1
  <2>3. cwd' \in [Procs -> Sectors] /\ \A q \in Procs : kind[cwd'[q]] = "dir" /\ (Gone(q)' => cwd'[q] = ROOT)
    BY <1>2, <1>6 DEF FilesInv, FilesType, ProcType, TreeInv
  <2> QED BY <1>2, <1>3, <1>4, <1>5, <2>2, <2>3, FreedKept
<1>8. \A o \in old : /\ o = running_file[p] /\ \A q \in Procs, g \in Fds : fd_table[q][g] # o
                     /\ \A q \in Procs : (running_file[q] = o => q = p) /\ new_file[q] # o
  BY <1>1, <1>3 DEF FilesInv, ExecInv
<1>9. TableInv' /\ StreamInv'
  <2>1. \A q, o : Leads(q, o)' = Leads(q, o)
    BY <1>2 DEF Leads
  <2> QED BY <1>2, <1>4, <1>6, <1>8, <2>1 DEF FilesInv, TableInv, StreamInv
<1>10. ExecInv'
  <2>1. ASSUME NEW q \in Procs, NEW o \in Objs, running_file'[q] = o
        PROVE  /\ obj'[o].inode # 0 /\ obj'[o].deny
               /\ \A r \in Procs : (running_file'[r] = o => r = q) /\ new_file'[r] # o
               /\ \A r \in Procs, g \in Fds : fd_table'[r][g] # o
    <3>1. q # p /\ running_file[q] = o
      BY <1>6, <2>1, Constants
    <3>2. o \notin old
      BY <1>8, <3>1
    <3>3. obj'[o].inode = obj[o].inode /\ obj'[o].deny = obj[o].deny
      BY <1>4, <3>2
    <3> QED BY <1>2, <1>6, <2>1, <3>1, <3>3, Constants DEF FilesInv, ExecInv
  <2>2. ASSUME NEW q \in Procs, NEW o \in Objs, new_file'[q] = o
        PROVE  /\ obj'[o].inode # 0 /\ ~obj'[o].deny
               /\ \A r \in Procs : new_file'[r] = o => r = q
               /\ \A r \in Procs, g \in Fds : fd_table'[r][g] # o
    <3>1. new_file[q] = o
      BY <1>2, <2>2
    <3>2. o \notin old
      BY <1>8, <3>1
    <3>3. obj'[o].inode = obj[o].inode /\ obj'[o].deny = obj[o].deny
      BY <1>4, <3>2
    <3> QED BY <1>2, <2>2, <3>1, <3>3 DEF FilesInv, ExecInv
  <2> QED BY <2>1, <2>2 DEF ExecInv
<1> QED BY <1>4, <1>6, <1>7, <1>9, <1>10 DEF FilesInv, FilesType

\* The last step of an exec: the new executable denies writes.
LEMMA ExecLoadStep ==
  ASSUME FilesInv, NEW p \in Procs, ExecLoad(p)
  PROVE  FilesInv'
<1>0. PICK x : x = new_file[p]
  OBVIOUS
<1>1. /\ status[p] = "exec_load" /\ x # NULL
      /\ running_file' = [running_file EXCEPT ![p] = x]
      /\ obj' = [obj EXCEPT ![x].deny = TRUE]
      /\ deny_write_cnt' = [deny_write_cnt EXCEPT ![obj[x].inode] = @ + 1]
      /\ new_file' = [new_file EXCEPT ![p] = NULL]
      /\ status' = [status EXCEPT ![p] = "user"]
      /\ UNCHANGED <<kind, entry, bytes, open_cnt, removed, fd_table, fd_idx, stdin_count, stdout_count,
                     cwd, closing>>
  BY <1>0 DEF ExecLoad, disk
<1>2. x \in Objs
  BY <1>0, <1>1 DEF FilesInv, FilesType, ProcType
<1>3. PICK i \in Sectors : i = obj[x].inode
  BY <1>0, <1>2, Constants DEF FilesInv, FilesType, ObjType, ObjRec, ExecInv
<1>4. /\ ObjType' /\ obj'[x].deny
      /\ \A o \in Objs : /\ obj'[o].inode = obj[o].inode /\ obj'[o].dir = obj[o].dir
                         /\ obj'[o].dup = obj[o].dup
                         /\ o # x => obj'[o].deny = obj[o].deny
  BY <1>1, <1>2 DEF FilesInv, FilesType, ObjType, ObjRec
<1>5. /\ ProcType'
      /\ \A q \in Procs : /\ running_file'[q] = IF q = p THEN x ELSE running_file[q]
                          /\ new_file'[q] = IF q = p THEN NULL ELSE new_file[q]
                          /\ Gone(q)' <=> Gone(q)
  BY <1>1, <1>2 DEF FilesInv, FilesType, ProcType, Gone
<1>6. \A j : Openers(j)' = Openers(j) /\ Workers(j)' = Workers(j)
  BY <1>1, <1>4, <1>5, OpenersSame, WorkersSame
<1>7. TreeInv' /\ OpenInv' /\ DiskType'
  BY <1>1, <1>4, <1>5, <1>6 DEF FilesInv, FilesType, TreeInv, OpenInv, DiskType
<1>8. DenyInv' /\ CountType'
  <2>1. ~obj[x].deny
    BY <1>0, <1>2 DEF FilesInv, ExecInv
  <2>a. PICK A, B : A = {i} /\ B = {}
    OBVIOUS
  <2>2. \A j : (x \in Deniers(j)' <=> j \in A) /\ (x \in Deniers(j) <=> j \in B)
    BY <1>2, <1>3, <1>4, <2>1, <2>a DEF Deniers
  <2>b. \A j : Cardinality(Deniers(j)') =
                 Cardinality(Deniers(j)) + (IF j \in A THEN 1 ELSE 0) - (IF j \in B THEN 1 ELSE 0)
    BY <1>2, <1>4, <2>2, DeniersChange
  <2>3. \A j : Cardinality(Deniers(j)') = Cardinality(Deniers(j)) + IF j = i THEN 1 ELSE 0
    BY <2>a, <2>b, Finite
  <2>4. CountType' /\ \A j \in Sectors : deny_write_cnt'[j] = deny_write_cnt[j] + IF j = i THEN 1 ELSE 0
    BY <1>1, <1>3 DEF FilesInv, FilesType, CountType
  <2> QED BY <2>3, <2>4, Finite DEF FilesInv, DenyInv
<1>9. TableInv' /\ StreamInv'
  <2>1. \A q, o : Leads(q, o)' = Leads(q, o)
    BY <1>1 DEF Leads
  <2> QED BY <1>1, <1>4, <1>5, <2>1 DEF FilesInv, TableInv, StreamInv
<1>10. ExecInv'
  BY <1>0, <1>1, <1>2, <1>4, <1>5, Constants DEF FilesInv, ExecInv
<1> QED BY <1>4, <1>5, <1>7, <1>8, <1>9, <1>10 DEF FilesInv, FilesType

\* process_exit closes what only this process leads to.
LEMMA ExitStep ==
  ASSUME FilesInv, Undisturbed, NEW p \in Procs, process_exit(p)
  PROVE  FilesInv'
<1>0. PICK os : os = {o \in {fd_table[p][f] : f \in {x \in Fds : Behind(p, x)}} : ~obj[o].dir}
                       \cup ({running_file[p]} \ {NULL})
  OBVIOUS
<1>1. /\ status[p] \in {"user", "exec_load"}
      /\ file_close(os) /\ inode_close(kind, Minus(None, Plus(Closed(os), One(cwd[p]))), {})
      /\ fd_table' = [fd_table EXCEPT ![p] = [f \in Fds |-> NULL]]
      /\ stdin_count' = [stdin_count EXCEPT ![p] = 0]
      /\ stdout_count' = [stdout_count EXCEPT ![p] = 0]
      /\ running_file' = [running_file EXCEPT ![p] = NULL]
      /\ new_file' = [new_file EXCEPT ![p] = NULL]
      /\ status' = [status EXCEPT ![p] = "dead"]
      /\ cwd' = [cwd EXCEPT ![p] = ROOT]
      /\ fd_idx' = [fd_idx EXCEPT ![p] = 2]
      /\ UNCHANGED <<entry, bytes, closing>>
  <2>1. PICK ds : increase_dup_count(Freed(os), ds)
    BY <1>0 DEF process_exit
  <2>2. Freed(os) = [o \in Objs |-> Freed(os)[o]]
    BY DEF Freed
  <2>3. obj' = Freed(os)
    BY <2>1, <2>2, NotSpoilt
  <2>4. file_close(os)
    BY <1>0, <2>3 DEF process_exit, file_close, Freed, file_allow_write
  <2> QED BY <1>0, <2>4 DEF process_exit
<1>2. \A o \in os : o \in Objs /\ ((\E f \in Fds : fd_table[p][f] = o) \/ running_file[p] = o)
  <2>1. \A f \in Fds : Behind(p, f) => fd_table[p][f] \in Objs
    BY DEF Behind, FilesInv, FilesType, ProcType, Pointers
  <2>2. running_file[p] \in Objs \cup {NULL}
    BY DEF FilesInv, FilesType, ProcType
  <2> QED BY <1>0, <2>1, <2>2
<1>3. os \in SUBSET Objs
  BY <1>2
<1>4. /\ ObjType' /\ ObjsFreed(os)
      /\ \A o \in Objs \ os : obj'[o] = obj[o]
      /\ deny_write_cnt' = [s \in Sectors |-> deny_write_cnt[s] - Cardinality(FreedDeny(os, s))]
  BY <1>1, <1>3, FileCloseFacts
<1>5. PICK delta \in [Sectors -> Int] :
        /\ inode_close(kind, delta, {})
        /\ \A s \in Sectors : delta[s] = - Cardinality(FreedOpen(os, s)) - (IF s = cwd[p] THEN 1 ELSE 0)
  <2> DEFINE sum == Plus(Closed(os), One(cwd[p]))
  <2>1. /\ Closed(os) \in [Sectors -> Int] /\ None \in [Sectors -> Int] /\ One(cwd[p]) \in [Sectors -> Int]
        /\ \A s \in Sectors : Closed(os)[s] = Cardinality(FreedOpen(os, s)) /\ Closed(os)[s] \in Nat
        /\ \A s \in Sectors : None[s] = 0 /\ One(cwd[p])[s] = IF s = cwd[p] THEN 1 ELSE 0
    BY <1>3, ClosedFacts, Deltas
  <2>2. sum \in [Sectors -> Int] /\ \A s \in Sectors : sum[s] = Closed(os)[s] + One(cwd[p])[s]
    BY <2>1 DEF Plus
  <2> HIDE DEF sum
  <2>3. Minus(None, sum) \in [Sectors -> Int] /\ \A s \in Sectors : Minus(None, sum)[s] = None[s] - sum[s]
    BY <2>1, <2>2 DEF Minus
  <2>4. \A s \in Sectors : Minus(None, sum)[s] =
                             - Cardinality(FreedOpen(os, s)) - (IF s = cwd[p] THEN 1 ELSE 0)
    BY <2>1, <2>2, <2>3
  <2>5. inode_close(kind, Minus(None, sum), {})
    BY <1>1 DEF sum
  <2> QED BY <2>3, <2>4, <2>5
<1>6. /\ ProcType'
      /\ \A q \in Procs : /\ running_file'[q] = IF q = p THEN NULL ELSE running_file[q]
                          /\ new_file'[q] = IF q = p THEN NULL ELSE new_file[q]
                          /\ cwd'[q] = IF q = p THEN ROOT ELSE cwd[q]
                          /\ stdin_count'[q] = IF q = p THEN 0 ELSE stdin_count[q]
                          /\ stdout_count'[q] = IF q = p THEN 0 ELSE stdout_count[q]
                          /\ Gone(q)' <=> q = p \/ Gone(q)
      /\ \A q \in Procs, g \in Fds : fd_table'[q][g] = IF q = p THEN NULL ELSE fd_table[q][g]
  <2>1. fd_table' \in [Procs -> [Fds -> Pointers]] /\ running_file' \in [Procs -> Objs \cup {NULL}]
    BY <1>1 DEF FilesInv, FilesType, ProcType, Pointers
  <2>2. /\ new_file' \in [Procs -> Objs \cup {NULL}] /\ cwd' \in [Procs -> Sectors]
        /\ fd_idx' \in [Procs -> Int] /\ stdin_count' \in [Procs -> Int] /\ stdout_count' \in [Procs -> Int]
    BY <1>1, Constants DEF FilesInv, FilesType, ProcType
  <2>3. status' \in [Procs -> {"none", "user", "exec_open", "exec_load", "dead"}]
    BY <1>1 DEF FilesInv, FilesType, ProcType
  <2>4. ProcType'
    BY <1>1, <2>1, <2>2, <2>3 DEF FilesInv, FilesType, ProcType
  <2>5. \A q \in Procs, g \in Fds : fd_table'[q][g] = IF q = p THEN NULL ELSE fd_table[q][g]
    BY <1>1 DEF FilesInv, FilesType, ProcType
  <2> QED BY <1>1, <2>4, <2>5 DEF FilesInv, FilesType, ProcType, Gone
<1>7. TreeInv' /\ OpenInv' /\ DenyInv' /\ DiskType' /\ CountType'
  <2>1. ASSUME NEW j
        PROVE  Cardinality(Workers(j)') <= Cardinality(Workers(j)) - (IF j = cwd[p] THEN 1 ELSE 0)
    <3>1. /\ Workers(j)' = Workers(j) \ {p}
          /\ (j = cwd[p] => p \in Workers(j)) /\ (j # cwd[p] => p \notin Workers(j))
      BY <1>1, <1>6 DEF Workers, Gone
    <3>2. CASE j = cwd[p]
      <4>1. Cardinality(Workers(j) \ {p}) = Cardinality(Workers(j)) - 1
        BY <3>1, <3>2, Finite, FS_RemoveElement
      <4> QED BY <3>1, <3>2, <4>1, Finite
    <3>3. CASE j # cwd[p]
      <4>1. Workers(j)' = Workers(j)
        BY <3>1, <3>3
      <4> QED BY <3>3, <4>1, Finite
    <3> QED BY <3>2, <3>3
  <2>2. \A j \in Sectors \ {ROOT} : Cardinality(Workers(j)') - Cardinality(FreedOpen(os, j))
                                      <= Cardinality(Workers(j)) + delta[j]
    <3> TAKE j \in Sectors \ {ROOT}
    <3>1. /\ Cardinality(FreedOpen(os, j)) \in Nat /\ Cardinality(Workers(j)) \in Nat
          /\ Cardinality(Workers(j)') \in Nat
      BY <1>3, ClosedFacts, Finite
    <3> QED BY <1>5, <2>1, <3>1
  <2>3. cwd' \in [Procs -> Sectors] /\ \A q \in Procs : kind[cwd'[q]] = "dir" /\ (Gone(q)' => cwd'[q] = ROOT)
    BY <1>6 DEF FilesInv, ProcType, TreeInv
  <2> QED BY <1>1, <1>3, <1>4, <1>5, <2>2, <2>3, FreedKept
<1>8. \A o \in os : /\ \A q \in Procs, g \in Fds : fd_table[q][g] = o => q = p
                    /\ \A q \in Procs : (running_file[q] = o => q = p) /\ (new_file[q] = o => q = p)
  BY <1>2 DEF FilesInv, ExecInv, TableInv
<1>9. TableInv'
  <2>1. ASSUME NEW q \in Procs, NEW g \in Fds, NEW o \in Objs, fd_table'[q][g] = o
        PROVE  /\ obj'[o].inode # 0
               /\ ~obj'[o].dir => obj'[o].dup = Cardinality(Leads(q, o))'
               /\ \A y \in Procs, h \in Fds : fd_table'[y][h] = o => y = q
    <3>1. q # p /\ fd_table[q][g] = o
      BY <1>6, <2>1, Constants
    <3>2. o \notin os /\ obj'[o] = obj[o]
      BY <1>4, <1>8, <3>1
    <3>3. Leads(q, o)' = Leads(q, o)
      BY <1>6, <3>1 DEF Leads
    <3>4. \A y \in Procs, h \in Fds : fd_table'[y][h] = o => fd_table[y][h] = o
      BY <1>6, Constants
    <3> QED BY <3>1, <3>2, <3>3, <3>4 DEF FilesInv, TableInv
  <2>2. ASSUME NEW q \in Procs, Gone(q)', NEW g \in Fds PROVE fd_table'[q][g] = NULL
    BY <1>6, <2>2 DEF FilesInv, TableInv
  <2> QED BY <2>1, <2>2 DEF TableInv
<1>10. StreamInv'
  <2> SUFFICES ASSUME NEW q \in Procs
               PROVE  /\ stdin_count'[q] = Cardinality(Leads(q, STDIN)')
                      /\ stdout_count'[q] = Cardinality(Leads(q, STDOUT)')
    BY DEF StreamInv
  <2>1. CASE q = p
    <3>1. Leads(q, STDIN)' = {} /\ Leads(q, STDOUT)' = {}
      BY <1>6, <2>1, Constants DEF Leads
    <3> QED BY <1>6, <2>1, <3>1, FS_EmptySet
  <2>2. CASE q # p
    <3>1. Leads(q, STDIN)' = Leads(q, STDIN) /\ Leads(q, STDOUT)' = Leads(q, STDOUT)
      BY <1>6, <2>2 DEF Leads
    <3> QED BY <1>6, <2>2, <3>1 DEF FilesInv, StreamInv
  <2> QED BY <2>1, <2>2
<1>11. ExecInv'
  <2>1. \A q \in Procs, o \in Objs : running_file'[q] = o => q # p /\ running_file[q] = o /\ o \notin os
    BY <1>6, <1>8, Constants
  <2>2. \A q \in Procs, o \in Objs : new_file'[q] = o => q # p /\ new_file[q] = o /\ o \notin os
    BY <1>6, <1>8, Constants
  <2>3. \A q \in Procs, g \in Fds, o \in Objs : fd_table'[q][g] = o => fd_table[q][g] = o
    BY <1>6, Constants
  <2> QED BY <1>4, <2>1, <2>2, <2>3 DEF FilesInv, ExecInv
<1> QED BY <1>4, <1>6, <1>7, <1>9, <1>10, <1>11 DEF FilesInv, FilesType
-----------------------------------------------------------------------------
(* fork.                                                                   *)

Image(c, F) == {c[f] : f \in F}

\* Different copies are as many as what they are copies of.
LEMMA CopyCount ==
  ASSUME NEW F, IsFiniteSet(F), NEW c, \A f, g \in F : c[f] = c[g] => f = g
  PROVE  IsFiniteSet(Image(c, F)) /\ Cardinality(Image(c, F)) = Cardinality(F)
<1> DEFINE m == [f \in F |-> c[f]]
<1>1. m \in Bijection(F, Image(c, F))
  BY DEF Bijection, Injection, Surjection, IsInjective, Image
<1>2. ExistsBijection(F, Image(c, F))
  BY <1>1 DEF ExistsBijection
<1> QED BY <1>2, FS_Bijection

\* A set gets new elements, each the copy of one in F.
LEMMA CopiesAdded ==
  ASSUME NEW S, IsFiniteSet(S), NEW F, IsFiniteSet(F), NEW c, \A f, g \in F : c[f] = c[g] => f = g,
         \A f \in F : c[f] \notin S
  PROVE  Cardinality(S \cup Image(c, F)) = Cardinality(S) + Cardinality(F)
<1>1. IsFiniteSet(Image(c, F)) /\ Cardinality(Image(c, F)) = Cardinality(F)
  BY CopyCount
<1>2. S \cap Image(c, F) = {}
  BY DEF Image
<1>3. Cardinality(S \cup Image(c, F)) =
        Cardinality(S) + Cardinality(Image(c, F)) - Cardinality(S \cap Image(c, F))
  BY <1>1, FS_Union
<1>4. Cardinality(S \cap Image(c, F)) = 0 /\ Cardinality(S) \in Nat /\ Cardinality(F) \in Nat
  BY <1>2, FS_EmptySet, FS_CardinalityType
<1> QED BY <1>1, <1>3, <1>4

\* What a fork of p into q does to the table and the open files: fds are the
\* descriptors copied, copy the open files they get, and dup what these hold.
Forked(p, q, fds, copy, dup) ==
  /\ status[p] = "user" /\ status[q] = "none"
  /\ \A f \in fds : f \in Fds /\ fd_table[p][f] \in Objs
  /\ \A f \in Fds \ fds : fd_table[p][f] \in {NULL, STDIN, STDOUT}
  /\ \A f \in fds : copy[f] \in Objs /\ obj[copy[f]] = FreeObj /\ obj'[copy[f]] = dup[f]
  /\ \A f, g \in fds : copy[f] = copy[g] => f = g
  /\ \A o \in Objs : obj'[o] = obj[o] \/ \E f \in fds : o = copy[f]
  /\ \A f \in fds : /\ dup[f] \in ObjRec /\ dup[f].inode = obj[fd_table[p][f]].inode
                    /\ dup[f].dup = 1 /\ ~dup[f].dir
  /\ \A y \in Procs, g \in Fds :
       fd_table'[y][g] = IF y = q THEN IF g \in fds THEN copy[g] ELSE fd_table[p][g] ELSE fd_table[y][g]
Copied(fds, dup, j) == {f \in fds : dup[f].inode = j}
CopiedDeny(fds, dup, j) == {f \in fds : dup[f].inode = j /\ dup[f].deny}

\* The step of fork as pointwise facts.
LEMMA ForkFacts ==
  ASSUME FilesInv, Undisturbed, NEW p \in Procs, NEW q \in Procs, do_fork(p, q)
  PROVE  \E fds, copy, dup :
           /\ Forked(p, q, fds, copy, dup) /\ fds \subseteq Fds
           /\ obj' \in [Objs -> ObjRec] /\ fd_table' \in [Procs -> [Fds -> Pointers]]
           /\ deny_write_cnt' = [s \in Sectors |-> deny_write_cnt[s] + Cardinality(CopiedDeny(fds, dup, s))]
           /\ inode_close(kind, [s \in Sectors |-> One(cwd[p])[s] + Cardinality(Copied(fds, dup, s))], {})
<1> DEFINE fds == {f \in Fds \ {0, 1} : Behind(p, f)}
<1> DEFINE Held(copy, dup) ==
             /\ \A f \in fds : dup[f] \in Duplicates(fd_table[p][f])
             /\ obj' = [o \in Objs |-> IF \E f \in fds : copy[f] = o
                          THEN dup[CHOOSE f \in fds : copy[f] = o] ELSE obj[o]]
             /\ deny_write_cnt' = [s \in Sectors |-> deny_write_cnt[s] +
                  Cardinality({f \in fds : dup[f].inode = s /\ dup[f].deny})]
             /\ inode_close(kind, [s \in Sectors |-> One(cwd[p])[s] +
                  Cardinality({f \in fds : dup[f].inode = s})], {})
<1>0. PICK copy \in [fds -> {o \in Objs : obj[o] = FreeObj}] :
        /\ \A f, g \in fds : f < g => copy[f] < copy[g]
        /\ \E dup \in [fds -> UNION {Duplicates(fd_table[p][f]) : f \in fds}] : Held(copy, dup)
        /\ fd_table' = [fd_table EXCEPT ![q] = [f \in Fds |-> IF f \in fds THEN copy[f]
                                                              ELSE fd_table[p][f]]]
  BY Zenon DEF do_fork
<1> HIDE DEF Held
<1>1. PICK dup : Held(copy, dup)
  BY <1>0, Zenon
<1> USE DEF Held
<1>2. status[p] = "user" /\ status[q] = "none"
  BY DEF do_fork, Ready
<1>3. ~ \E f \in {0, 1} : Behind(p, f)
  BY DEF do_fork, Undisturbed
<1>4. /\ \A f \in fds : f \in Fds /\ fd_table[p][f] \in Objs
      /\ \A f \in Fds \ fds : fd_table[p][f] \in {NULL, STDIN, STDOUT}
  BY <1>3 DEF Behind, FilesInv, FilesType, ProcType, Pointers
<1>5. \A f \in fds : f \in Nat /\ copy[f] \in Objs /\ copy[f] \in Nat /\ obj[copy[f]] = FreeObj
  BY <1>0, <1>4, Constants
<1>6. \A f, g \in fds : copy[f] = copy[g] => f = g
  <2> SUFFICES ASSUME NEW f \in fds, NEW g \in fds, f # g PROVE copy[f] # copy[g]
    OBVIOUS
  <2>1. f \in Nat /\ g \in Nat /\ copy[f] \in Nat /\ copy[g] \in Nat
    BY <1>5
  <2>2. f < g \/ g < f
    BY <2>1
  <2>3. copy[f] < copy[g] \/ copy[g] < copy[f]
    BY <1>0, <2>2
  <2> QED BY <2>1, <2>3
<1>7. \A f \in fds : /\ dup[f] \in ObjRec /\ dup[f].inode = obj[fd_table[p][f]].inode
                     /\ dup[f].dup = 1 /\ ~dup[f].dir
  <2> TAKE f \in fds
  <2>1. PICK o \in Objs : o = fd_table[p][f]
    BY <1>4
  <2>2. PICK i \in 0 .. NSect : i = obj[o].inode
    BY DEF FilesInv, FilesType, ObjType, ObjRec
  <2>3. PICK d \in BOOLEAN : dup[f] = [file_open(i) EXCEPT !.deny = d]
    <3>1. obj[o].deny \in BOOLEAN
      BY DEF FilesInv, FilesType, ObjType, ObjRec
    <3>2. dup[f] \in Duplicates(o)
      BY <1>1, <2>1
    <3> QED BY <2>2, <3>1, <3>2 DEF Duplicates
  <2>4. dup[f] = [inode |-> i, dup |-> 1, deny |-> d, dir |-> FALSE]
    BY <2>3 DEF file_open
  <2> QED BY <2>1, <2>2, <2>4 DEF ObjRec
<1>8. \A f \in fds : obj'[copy[f]] = dup[f]
  <2> TAKE f \in fds
  <2>1. (CHOOSE g \in fds : copy[g] = copy[f]) = f
    BY <1>6
  <2>2. copy[f] \in Objs /\ \E g \in fds : copy[g] = copy[f]
    BY <1>5
  <2> HIDE DEF fds
  <2> QED BY <1>1, <2>1, <2>2
<1>9. \A o \in Objs : obj'[o] = obj[o] \/ \E f \in fds : o = copy[f]
  BY <1>1
<1>10. obj' \in [Objs -> ObjRec]
  <2>1. \A o \in Objs : obj'[o] \in ObjRec
    BY <1>7, <1>8, <1>9 DEF FilesInv, FilesType, ObjType
  <2>2. obj' = [o \in Objs |-> obj'[o]]
    BY <1>1
  <2> QED BY <2>1, <2>2
<1>11. \A y \in Procs, g \in Fds :
         fd_table'[y][g] = IF y = q THEN IF g \in fds THEN copy[g] ELSE fd_table[p][g] ELSE fd_table[y][g]
  BY <1>0 DEF FilesInv, FilesType, ProcType
<1>a. fds \subseteq Fds
  OBVIOUS
<1> HIDE DEF fds
<1>b. fd_table' \in [Procs -> [Fds -> Pointers]]
  <2>1. [f \in Fds |-> IF f \in fds THEN copy[f] ELSE fd_table[p][f]] \in [Fds -> Pointers]
    BY <1>5 DEF FilesInv, FilesType, ProcType, Pointers
  <2> QED BY <1>0, <2>1 DEF FilesInv, FilesType, ProcType
<1>12. Forked(p, q, fds, copy, dup)
  BY <1>2, <1>4, <1>5, <1>6, <1>7, <1>8, <1>9, <1>11 DEF Forked
<1>13. /\ deny_write_cnt' = [s \in Sectors |-> deny_write_cnt[s] + Cardinality(CopiedDeny(fds, dup, s))]
       /\ inode_close(kind, [s \in Sectors |-> One(cwd[p])[s] + Cardinality(Copied(fds, dup, s))], {})
  BY <1>1 DEF Copied, CopiedDeny
<1> QED BY <1>10, <1>12, <1>13, <1>a, <1>b

\* The inodes of the copies and their denials.
LEMMA ForkCounts ==
  ASSUME FilesInv, NEW p \in Procs, NEW q \in Procs, NEW fds \in SUBSET Fds, NEW copy, NEW dup,
         Forked(p, q, fds, copy, dup), NEW j \in Sectors
  PROVE  /\ Cardinality(Openers(j)') = Cardinality(Openers(j)) + Cardinality(Copied(fds, dup, j))
         /\ Cardinality(Deniers(j)') = Cardinality(Deniers(j)) + Cardinality(CopiedDeny(fds, dup, j))
         /\ Cardinality(Copied(fds, dup, j)) \in Nat /\ Cardinality(CopiedDeny(fds, dup, j)) \in Nat
<1> DEFINE F == Copied(fds, dup, j)
           D == CopiedDeny(fds, dup, j)
<1>1. F \subseteq fds /\ D \subseteq fds /\ IsFiniteSet(F) /\ IsFiniteSet(D)
  <2>1. F \subseteq fds /\ D \subseteq fds
    BY DEF Copied, CopiedDeny
  <2> HIDE DEF F, D
  <2> QED BY <2>1, Constants, FS_Subset
<1>2. \A f \in fds : copy[f] \in Objs /\ copy[f] \notin Openers(j) /\ copy[f] \notin Deniers(j)
  BY Constants DEF Forked, FreeObj, Openers, Deniers
<1>3. \A f, g \in fds : copy[f] = copy[g] => f = g
  BY DEF Forked
<1>4. Openers(j)' = Openers(j) \cup Image(copy, F)
  <2>1. ASSUME NEW o \in Objs PROVE o \in Openers(j)' <=> o \in Openers(j) \cup Image(copy, F)
    <3>1. CASE \E f \in fds : o = copy[f]
      <4>1. PICK f \in fds : o = copy[f]
        BY <3>1
      <4>2. o \in Openers(j)' <=> dup[f].inode = j
        BY <4>1 DEF Openers, Forked
      <4>3. o \in Image(copy, F) <=> f \in F
        BY <1>1, <1>3, <4>1 DEF Image
      <4>4. f \in F <=> dup[f].inode = j
        BY DEF Copied
      <4> QED BY <1>2, <4>1, <4>2, <4>3, <4>4
    <3>2. CASE ~ \E f \in fds : o = copy[f]
      <4>1. obj'[o] = obj[o] /\ o \notin Image(copy, F)
        BY <1>1, <3>2 DEF Forked, Image
      <4> QED BY <4>1 DEF Openers
    <3> QED BY <3>1, <3>2
  <2>2. Openers(j)' \subseteq Objs /\ Openers(j) \cup Image(copy, F) \subseteq Objs
    BY <1>1, <1>2 DEF Openers, Image
  <2> HIDE DEF F
  <2> QED BY <2>1, <2>2
<1>5. Deniers(j)' = Deniers(j) \cup Image(copy, D)
  <2>1. ASSUME NEW o \in Objs PROVE o \in Deniers(j)' <=> o \in Deniers(j) \cup Image(copy, D)
    <3>1. CASE \E f \in fds : o = copy[f]
      <4>1. PICK f \in fds : o = copy[f]
        BY <3>1
      <4>2. o \in Deniers(j)' <=> dup[f].inode = j /\ dup[f].deny
        BY <4>1 DEF Deniers, Forked
      <4>3. o \in Image(copy, D) <=> f \in D
        BY <1>1, <1>3, <4>1 DEF Image
      <4>4. f \in D <=> dup[f].inode = j /\ dup[f].deny
        BY DEF CopiedDeny
      <4> QED BY <1>2, <4>1, <4>2, <4>3, <4>4
    <3>2. CASE ~ \E f \in fds : o = copy[f]
      <4>1. obj'[o] = obj[o] /\ o \notin Image(copy, D)
        BY <1>1, <3>2 DEF Forked, Image
      <4> QED BY <4>1 DEF Deniers
    <3> QED BY <3>1, <3>2
  <2>2. Deniers(j)' \subseteq Objs /\ Deniers(j) \cup Image(copy, D) \subseteq Objs
    BY <1>1, <1>2 DEF Deniers, Image
  <2> HIDE DEF D
  <2> QED BY <2>1, <2>2
<1> HIDE DEF F, D
<1>6. Cardinality(Openers(j) \cup Image(copy, F)) = Cardinality(Openers(j)) + Cardinality(F)
  BY <1>1, <1>2, <1>3, Finite, CopiesAdded
<1>7. Cardinality(Deniers(j) \cup Image(copy, D)) = Cardinality(Deniers(j)) + Cardinality(D)
  BY <1>1, <1>2, <1>3, Finite, CopiesAdded
<1>8. Cardinality(F) \in Nat /\ Cardinality(D) \in Nat
  BY <1>1, FS_CardinalityType
<1>9. /\ Cardinality(Openers(j)') = Cardinality(Openers(j)) + Cardinality(F)
      /\ Cardinality(Deniers(j)') = Cardinality(Deniers(j)) + Cardinality(D)
  BY <1>4, <1>5, <1>6, <1>7
<1> QED BY <1>8, <1>9 DEF F, D

\* fork: the child's descriptors lead to open files of its own.
LEMMA ForkStep ==
  ASSUME FilesInv, Undisturbed, NEW p \in Procs, NEW q \in Procs, do_fork(p, q)
  PROVE  FilesInv'
<1>1. PICK fds, copy, dup :
        /\ Forked(p, q, fds, copy, dup) /\ fds \subseteq Fds
        /\ obj' \in [Objs -> ObjRec] /\ fd_table' \in [Procs -> [Fds -> Pointers]]
        /\ deny_write_cnt' = [s \in Sectors |-> deny_write_cnt[s] + Cardinality(CopiedDeny(fds, dup, s))]
        /\ inode_close(kind, [s \in Sectors |-> One(cwd[p])[s] + Cardinality(Copied(fds, dup, s))], {})
  BY ForkFacts
<1>2. /\ fd_idx' = [fd_idx EXCEPT ![q] = fd_idx[p]]
      /\ stdin_count' = [stdin_count EXCEPT ![q] = stdin_count[p]]
      /\ stdout_count' = [stdout_count EXCEPT ![q] = stdout_count[p]]
      /\ cwd' = [cwd EXCEPT ![q] = cwd[p]]
      /\ status' = [status EXCEPT ![q] = "user"]
      /\ UNCHANGED <<entry, bytes, running_file, new_file, closing>>
  BY DEF do_fork
<1>3. p # q /\ ~Gone(p) /\ Gone(q)
  BY <1>1 DEF Forked, Gone
<1> USE DEF FilesInv, FilesType
<1>4. \A y \in Procs, g \in Fds :
        fd_table'[y][g] = IF y = q THEN IF g \in fds THEN copy[g] ELSE fd_table[p][g] ELSE fd_table[y][g]
  BY <1>1 DEF Forked
<1>5. ProcType'
  BY <1>1, <1>2 DEF ProcType
<1>6. \A y \in Procs : /\ cwd'[y] = IF y = q THEN cwd[p] ELSE cwd[y]
                       /\ stdin_count'[y] = IF y = q THEN stdin_count[p] ELSE stdin_count[y]
                       /\ stdout_count'[y] = IF y = q THEN stdout_count[p] ELSE stdout_count[y]
                       /\ Gone(y)' <=> y # q /\ Gone(y)
  BY <1>2 DEF ProcType, Gone
<1>7. \A j \in Sectors :
         /\ Cardinality(Openers(j)') = Cardinality(Openers(j)) + Cardinality(Copied(fds, dup, j))
         /\ Cardinality(Deniers(j)') = Cardinality(Deniers(j)) + Cardinality(CopiedDeny(fds, dup, j))
         /\ Cardinality(Copied(fds, dup, j)) \in Nat /\ Cardinality(CopiedDeny(fds, dup, j)) \in Nat
  BY <1>1, ForkCounts
<1>8. ObjType'
  BY <1>1 DEF ObjType
<1>9. TreeInv' /\ OpenInv' /\ DiskType' /\ open_cnt' \in [Sectors -> Int]
  <2>1. PICK delta \in [Sectors -> Int] :
          /\ inode_close(kind, delta, {})
          /\ \A s \in Sectors : delta[s] = (IF s = cwd[p] THEN 1 ELSE 0) + Cardinality(Copied(fds, dup, s))
    <3> DEFINE delta == [s \in Sectors |-> One(cwd[p])[s] + Cardinality(Copied(fds, dup, s))]
    <3>1. \A s \in Sectors : One(cwd[p])[s] = IF s = cwd[p] THEN 1 ELSE 0
      BY Deltas
    <3>2. /\ delta \in [Sectors -> Int]
          /\ \A s \in Sectors : delta[s] = (IF s = cwd[p] THEN 1 ELSE 0) + Cardinality(Copied(fds, dup, s))
      BY <1>7, <3>1
    <3>3. inode_close(kind, delta, {})
      BY <1>1
    <3> HIDE DEF delta
    <3> QED BY <3>2, <3>3
  <2>2. \A j : Cardinality(Workers(j)') = Cardinality(Workers(j)) + IF j = cwd[p] THEN 1 ELSE 0
    <3> TAKE j
    <3>1. q \notin Workers(j)
      BY <1>3 DEF Workers
    <3>2. CASE j = cwd[p]
      <4>1. Workers(j)' = Workers(j) \cup {q}
        BY <1>3, <1>6, <3>2 DEF Workers
      <4>2. Cardinality(Workers(j) \cup {q}) = Cardinality(Workers(j)) + 1
        BY <3>1, Finite, FS_AddElement
      <4> QED BY <3>2, <4>1, <4>2
    <3>3. CASE j # cwd[p]
      <4>1. Workers(j)' = Workers(j)
        BY <1>3, <1>6, <3>3 DEF Workers
      <4> QED BY <3>3, <4>1, Finite
    <3> QED BY <3>2, <3>3
  <2>3. \A j \in Sectors \ {ROOT} : Cardinality(Openers(j))' + Cardinality(Workers(j))'
             <= Cardinality(Openers(j)) + Cardinality(Workers(j)) + delta[j]
    <3> TAKE j \in Sectors \ {ROOT}
    <3>1. /\ Cardinality(Openers(j)) \in Nat /\ Cardinality(Workers(j)) \in Nat
          /\ Cardinality(Copied(fds, dup, j)) \in Nat
      BY <1>7, Finite
    <3>2. /\ Cardinality(Openers(j)') = Cardinality(Openers(j)) + Cardinality(Copied(fds, dup, j))
          /\ Cardinality(Workers(j)') = Cardinality(Workers(j)) + IF j = cwd[p] THEN 1 ELSE 0
          /\ delta[j] = (IF j = cwd[p] THEN 1 ELSE 0) + Cardinality(Copied(fds, dup, j))
      BY <1>7, <2>1, <2>2
    <3> QED BY <3>1, <3>2
  <2>4. \A o \in Objs : obj'[o].inode # 0 => obj'[o].inode # ROOT /\ kind[obj'[o].inode] # "free"
    <3> SUFFICES ASSUME NEW o \in Objs, obj'[o].inode # 0
                 PROVE  obj'[o].inode # ROOT /\ kind[obj'[o].inode] # "free"
      OBVIOUS
    <3>1. PICK x \in Objs : obj'[o].inode = obj[x].inode
      <4>1. CASE obj'[o] = obj[o]
        BY <4>1
      <4>2. CASE \E f \in fds : o = copy[f]
        BY <1>1, <4>2 DEF Forked
      <4> QED BY <1>1, <4>1, <4>2 DEF Forked
    <3> QED BY <3>1 DEF OpenInv
  <2>5. cwd' \in [Procs -> Sectors] /\ \A y \in Procs : kind[cwd'[y]] = "dir" /\ (Gone(y)' => cwd'[y] = ROOT)
    BY <1>3, <1>5, <1>6 DEF ProcType, TreeInv
  <2> QED BY <1>2, <1>8, <2>1, <2>3, <2>4, <2>5, CountsKept
<1>10. DenyInv' /\ CountType'
  <2>1. deny_write_cnt' \in [Sectors -> Int]
    BY <1>1, <1>7 DEF CountType
  <2>2. DenyInv'
    BY <1>1, <1>7 DEF DenyInv
  <2> QED BY <1>9, <2>1, <2>2 DEF CountType
<1>11. /\ \A f \in fds : /\ copy[f] \in Objs /\ obj[copy[f]].inode = 0
                         /\ \A y \in Procs : running_file[y] # copy[f] /\ new_file[y] # copy[f]
                         /\ \A y \in Procs, g \in Fds : fd_table[y][g] # copy[f]
       /\ \A o \in Objs : obj'[o] = obj[o] \/ \E f \in fds : o = copy[f]
       /\ \A g \in Fds, o \in Objs : fd_table'[q][g] = o => g \in fds /\ o = copy[g]
  <2>1. \A f \in fds : copy[f] \in Objs /\ obj[copy[f]] = FreeObj
    BY <1>1 DEF Forked
  <2>2. \A g \in Fds, o \in Objs : fd_table'[q][g] = o => g \in fds /\ o = copy[g]
    BY <1>1, <1>4, Constants DEF Forked
  <2>3. \A f \in fds : /\ obj[copy[f]].inode = 0
                       /\ \A y \in Procs : running_file[y] # copy[f] /\ new_file[y] # copy[f]
                       /\ \A y \in Procs, g \in Fds : fd_table[y][g] # copy[f]
    BY <2>1, FreeUnused
  <2> QED BY <1>1, <2>1, <2>2, <2>3 DEF Forked
<1>12. TableInv'
  <2>1. ASSUME NEW y \in Procs, NEW g \in Fds, NEW o \in Objs, fd_table'[y][g] = o
        PROVE  /\ obj'[o].inode # 0
               /\ ~obj'[o].dir => obj'[o].dup = Cardinality(Leads(y, o))'
               /\ \A z \in Procs, h \in Fds : fd_table'[z][h] = o => z = y
    <3>1. CASE y = q
      <4>1. g \in fds /\ o = copy[g] /\ fd_table[p][g] \in Objs
        BY <1>1, <1>11, <2>1, <3>1 DEF Forked
      <4>2. obj'[o].inode = obj[fd_table[p][g]].inode /\ obj'[o].dup = 1
        BY <1>1, <4>1 DEF Forked
      <4>3. obj[fd_table[p][g]].inode # 0
        BY <4>1 DEF TableInv
      <4>4. \A h \in Fds : fd_table'[q][h] = o <=> h = g
        BY <1>1, <1>11, <2>1, <3>1, <4>1 DEF Forked
      <4>5. Leads(y, o)' = {g}
        BY <3>1, <4>4 DEF Leads
      <4>6. Cardinality(Leads(y, o)') = 1
        BY <4>5, FS_Singleton
      <4>7. \A z \in Procs, h \in Fds : fd_table'[z][h] = o => z = q
        BY <1>4, <1>11, <4>1
      <4> QED BY <3>1, <4>2, <4>3, <4>6, <4>7
    <3>2. CASE y # q
      <4>1. fd_table[y][g] = o
        BY <1>4, <2>1, <3>2
      <4>2. \A f \in fds : o # copy[f]
        BY <1>11, <4>1
      <4>3. obj'[o] = obj[o]
        BY <1>11, <4>2
      <4>4. Leads(y, o)' = Leads(y, o)
        BY <1>4, <3>2 DEF Leads
      <4>5. \A z \in Procs, h \in Fds : fd_table'[z][h] = o => z # q /\ fd_table[z][h] = o
        BY <1>4, <1>11, <4>2
      <4> QED BY <4>1, <4>3, <4>4, <4>5 DEF TableInv
    <3> QED BY <3>1, <3>2
  <2>2. ASSUME NEW y \in Procs, Gone(y)', NEW g \in Fds PROVE fd_table'[y][g] = NULL
    BY <1>4, <1>6, <2>2 DEF TableInv
  <2> QED BY <2>1, <2>2 DEF TableInv
<1>13. StreamInv'
  <2>1. ASSUME NEW c \in {STDIN, STDOUT}
        PROVE  Leads(q, c)' = Leads(p, c) /\ \A y \in Procs \ {q} : Leads(y, c)' = Leads(y, c)
    <3>1. c # NULL /\ c \notin Objs
      BY Constants
    <3>2. \A g \in Fds : fd_table'[q][g] = c <=> fd_table[p][g] = c
      <4> TAKE g \in Fds
      <4>1. CASE g \in fds
        BY <1>1, <1>4, <3>1, <4>1 DEF Forked
      <4>2. CASE g \notin fds
        BY <1>4, <4>2
      <4> QED BY <4>1, <4>2
    <3> QED BY <1>4, <3>2 DEF Leads
  <2> QED BY <1>6, <2>1 DEF StreamInv
<1>14. ExecInv'
  <2>1. \A y \in Procs, o \in Objs : running_file[y] = o \/ new_file[y] = o =>
          /\ obj'[o] = obj[o]
          /\ \A z \in Procs, g \in Fds : fd_table'[z][g] # o
    BY <1>4, <1>11 DEF ExecInv
  <2> QED BY <1>2, <2>1 DEF ExecInv
<1> QED BY <1>5, <1>8, <1>9, <1>10, <1>12, <1>13, <1>14
-----------------------------------------------------------------------------
(* The theorems.                                                           *)

\* At the start only the first process has descriptors, for the two streams.
LEMMA FilesInit ==
  Init => FilesInv
<1> SUFFICES ASSUME Init PROVE FilesInv
  OBVIOUS
<1>1. NoEntries \in [Names -> 0 .. NSect] /\ \A n \in Names : NoEntries[n] = 0
  BY Constants DEF NoEntries
<1>2. DiskType /\ \A d \in Sectors, n \in Names : entry[d][n] = 0
  BY <1>1 DEF Init, DiskType, Kinds
<1>3. FreeObj \in ObjRec /\ FreeObj.inode = 0 /\ ~FreeObj.deny
  BY Constants DEF FreeObj, ObjRec
<1>4. CountType /\ ObjType /\ \A o \in Objs : obj[o].inode = 0 /\ ~obj[o].deny
  BY <1>3 DEF Init, CountType, ObjType
<1>5. 0 \in Fds /\ 1 \in Fds
  BY FilesAssumption DEF Fds
<1>6. /\ ProcType
      /\ \A p \in Procs, f \in Fds : fd_table[p][f] = IF p = First /\ f = 0 THEN STDIN
                                     ELSE IF p = First /\ f = 1 THEN STDOUT ELSE NULL
      /\ \A p \in Procs : cwd[p] = ROOT /\ running_file[p] = NULL /\ new_file[p] = NULL
  BY Constants DEF Init, ProcType, Pointers
<1>7. TreeInv
  BY <1>2, <1>6, Constants DEF Init, TreeInv
<1>8. OpenInv
  <2>1. \A i \in Sectors \ {ROOT} : Openers(i) = {} /\ Workers(i) = {}
    BY <1>4, <1>6, Constants DEF Openers, Workers
  <2>2. \A i \in Sectors : open_cnt[i] = 0
    BY DEF Init
  <2> QED BY <1>4, <2>1, <2>2, FS_EmptySet DEF OpenInv
<1>9. DenyInv
  <2>1. \A i \in Sectors : Deniers(i) = {} /\ deny_write_cnt[i] = 0
    BY <1>4 DEF Init, Deniers
  <2> QED BY <2>1, FS_EmptySet DEF DenyInv
<1>10. TableInv
  BY <1>6, Constants DEF Init, TableInv, Gone
<1>11. StreamInv
  <2> SUFFICES ASSUME NEW p \in Procs
               PROVE  /\ stdin_count[p] = Cardinality(Leads(p, STDIN))
                      /\ stdout_count[p] = Cardinality(Leads(p, STDOUT))
    BY DEF StreamInv
  <2>1. CASE p = First
    <3>1. Leads(p, STDIN) = {0} /\ Leads(p, STDOUT) = {1}
      <4>1. \A f \in Fds : (fd_table[p][f] = STDIN <=> f = 0) /\ (fd_table[p][f] = STDOUT <=> f = 1)
        BY <1>6, <2>1, Constants
      <4> QED BY <1>5, <4>1 DEF Leads
    <3>2. stdin_count[p] = 1 /\ stdout_count[p] = 1
      BY <2>1 DEF Init
    <3> QED BY <3>1, <3>2, FS_Singleton
  <2>2. CASE p # First
    <3>1. Leads(p, STDIN) = {} /\ Leads(p, STDOUT) = {}
      BY <1>6, <2>2, Constants DEF Leads
    <3>2. stdin_count[p] = 0 /\ stdout_count[p] = 0
      BY <2>2 DEF Init
    <3> QED BY <3>1, <3>2, FS_EmptySet
  <2> QED BY <2>1, <2>2
<1>12. ExecInv
  BY <1>6, Constants DEF ExecInv
<1> QED BY <1>2, <1>4, <1>6, <1>7, <1>8, <1>9, <1>10, <1>11, <1>12 DEF FilesInv, FilesType

\* Every call of every process keeps the invariant.
LEMMA FilesStep ==
  ASSUME Undisturbed
  PROVE  FilesInv /\ [Next]_vars => FilesInv'
<1> SUFFICES ASSUME FilesInv, [Next]_vars PROVE FilesInv'
  OBVIOUS
<1>1. CASE UNCHANGED vars
  <2>1. DiskType' /\ CountType' /\ ObjType' /\ ProcType'
    BY <1>1 DEF vars, disk, inodes, procs, FilesInv, FilesType, DiskType, CountType, ObjType, ProcType
  <2>2. UNCHANGED <<kind, entry, open_cnt, deny_write_cnt, removed, obj, procs>>
    BY <1>1 DEF vars, disk, inodes
  <2>3. TreeInv' /\ OpenInv'
    BY <2>2 DEF FilesInv, TreeInv, OpenInv, Openers, Workers, Gone, procs
  <2>4. DenyInv' /\ TableInv' /\ StreamInv' /\ ExecInv'
    BY <2>2, RestKept DEF procs, Gone
  <2> QED BY <2>1, <2>3, <2>4 DEF FilesInv, FilesType
<1>2. ASSUME NEW p \in Procs, NEW path \in Paths,
             \/ sys_create(p, path) \/ sys_mkdir(p, path) \/ sys_remove(p, path) \/ sys_chdir(p, path)
             \/ sys_open(p, path) \/ ExecOpen(p, path)
      PROVE  FilesInv'
  BY <1>2, CreateStep, MkdirStep, RemoveStep, ChdirStep, OpenStep, ExecOpenStep
<1>3. ASSUME NEW p \in Procs, NEW f \in ArgFds,
             sys_close(p, f) \/ sys_write(p, f) \/ \E g \in ArgFds : sys_dup2(p, f, g)
      PROVE  FilesInv'
  <2>1. ArgFds \subseteq Fds
    BY Constants
  <2> QED BY <1>3, <2>1, CloseStep, WriteStep, Dup2Step
<1>4. ASSUME NEW p \in Procs, NEW q \in Procs, do_fork(p, q) PROVE FilesInv'
  BY <1>4, ForkStep
<1>5. ASSUME NEW p \in Procs, process_exec(p) \/ ExecLoad(p) \/ process_exit(p) PROVE FilesInv'
  BY <1>5, ExecStep, ExecLoadStep, ExitStep
<1> QED BY <1>1, <1>2, <1>3, <1>4, <1>5 DEF Next

\* The inductive invariant of the file system calls.
THEOREM FilesInvariant ==
  ASSUME Undisturbed
  PROVE  Spec => []FilesInv
<1>1. Init => FilesInv
  BY FilesInit
<1>2. FilesInv /\ [Next]_vars => FilesInv'
  BY FilesStep
<1> QED BY <1>1, <1>2, PTL DEF Spec

\* The counts of an inode in memory agree with its openers, deniers and the
\* processes that work in it (inode_open, inode_close, inode_deny_write).
THEOREM InodesCounted ==
  ASSUME Undisturbed
  PROVE  Spec => []InodeCounted
<1>1. FilesInv => InodeCounted
  <2> SUFFICES ASSUME FilesInv PROVE InodeCounted
    OBVIOUS
  <2>1. \A i : References(i) = Cardinality(Openers(i)) + Cardinality(Workers(i))
    <3> TAKE i
    <3>1. {o \in Objs : obj[o].inode = i} = Openers(i)
      BY DEF Openers
    <3>2. {p \in Procs : status[p] \notin {"none", "dead"} /\ cwd[p] = i} = Workers(i)
      BY DEF Workers, Gone
    <3> QED BY <3>1, <3>2 DEF References
  <2>2. OpenCounted
    <3> SUFFICES ASSUME NEW i \in Sectors \ {ROOT}, References(i) > 0
                 PROVE  open_cnt[i] >= References(i) /\ kind[i] # "free"
      BY DEF OpenCounted
    <3>1. open_cnt[i] >= References(i)
      BY <2>1 DEF FilesInv, OpenInv
    <3>2. CASE Openers(i) # {}
      <4>1. PICK o \in Objs : obj[o].inode = i
        BY <3>2 DEF Openers
      <4> QED BY <3>1, <4>1, Constants DEF FilesInv, OpenInv
    <3>3. CASE Openers(i) = {}
      <4>1. Cardinality(Openers(i)) = 0
        BY <3>3, FS_EmptySet
      <4>2. Cardinality(Workers(i)) > 0
        BY <2>1, <4>1, Finite
      <4>3. Workers(i) # {}
        BY <4>2, FS_EmptySet
      <4>4. PICK p \in Procs : cwd[p] = i
        BY <4>3 DEF Workers
      <4> QED BY <3>1, <4>4 DEF FilesInv, TreeInv
    <3> QED BY <3>2, <3>3
  <2>3. DenyCounted
    <3>1. ASSUME NEW i \in Sectors, i # ROOT
          PROVE  /\ deny_write_cnt[i] = Cardinality({o \in Objs : obj[o].inode = i /\ obj[o].deny})
                 /\ deny_write_cnt[i] <= open_cnt[i]
      <4>1. deny_write_cnt[i] = Cardinality(Deniers(i))
        BY DEF FilesInv, DenyInv
      <4>2. Deniers(i) \subseteq Openers(i)
        BY DEF Deniers, Openers
      <4>3. Cardinality(Deniers(i)) <= Cardinality(Openers(i))
        BY <4>2, Finite, FS_Subset
      <4>4. open_cnt[i] >= Cardinality(Openers(i)) + Cardinality(Workers(i)) /\ open_cnt[i] \in Int
        BY <3>1 DEF FilesInv, FilesType, CountType, OpenInv
      <4>5. deny_write_cnt[i] <= open_cnt[i]
        BY <4>1, <4>3, <4>4, Finite
      <4> QED BY <4>1, <4>5 DEF Deniers
    <3>2. \A p \in Procs : running_file[p] # NULL => obj[running_file[p]].deny
      BY DEF FilesInv, FilesType, ProcType, ExecInv
    <3> QED BY <3>1, <3>2 DEF DenyCounted
  <2> QED BY <2>2, <2>3 DEF InodeCounted
<1> QED BY <1>1, FilesInvariant, PTL

\* Descriptors lead to live open files of their own process, counted by
\* dup_count (sys_open, sys_dup2, sys_close, __do_fork, process_exit).
THEOREM DescriptorCounts ==
  ASSUME Undisturbed
  PROVE  Spec => []DescriptorsCounted
<1>1. FilesInv => DescriptorsCounted
  <2> SUFFICES ASSUME FilesInv PROVE DescriptorsCounted
    OBVIOUS
  <2>1. ASSUME NEW p \in Procs, NEW f \in Fds, Behind(p, f), NEW o, o = fd_table[p][f]
        PROVE  /\ obj[o].inode # 0
               /\ ~obj[o].dir => obj[o].dup = Cardinality({g \in Fds : fd_table[p][g] = o})
               /\ \A q \in Procs \ {p}, g \in Fds : fd_table[q][g] # o
    <3>1. o \in Objs
      BY <2>1 DEF Behind, FilesInv, FilesType, ProcType, Pointers
    <3>2. Leads(p, o) = {g \in Fds : fd_table[p][g] = o}
      BY DEF Leads
    <3> QED BY SMTT(20), <2>1, <3>1, <3>2 DEF FilesInv, TableInv
  <2>2. ASSUME NEW p \in Procs
        PROVE  /\ stdin_count[p] = Cardinality({f \in Fds : fd_table[p][f] = STDIN})
               /\ stdout_count[p] = Cardinality({f \in Fds : fd_table[p][f] = STDOUT})
    BY DEF FilesInv, StreamInv, Leads
  <2> QED BY <2>1, <2>2 DEF DescriptorsCounted
<1> QED BY <1>1, FilesInvariant, PTL

\* Names lead to sectors in use (dir_add, dir_remove, inode_remove).
THEOREM NamesAlwaysLead ==
  ASSUME Undisturbed
  PROVE  Spec => []NamesLead
<1>1. FilesInv => NamesLead
  BY DEF FilesInv, TreeInv, NamesLead
<1> QED BY <1>1, FilesInvariant, PTL

\* A step changes the contents of a new file, or of one that nobody denies
\* writes to.
LEMMA BytesChange ==
  ASSUME FilesInv, [Next]_vars, NEW s \in Sectors, bytes'[s] # bytes[s]
  PROVE  kind[s] = "free" \/ deny_write_cnt[s] = 0
<1> SUFFICES ASSUME kind[s] # "free", deny_write_cnt[s] # 0 PROVE FALSE
  OBVIOUS
<1>0. bytes \in [Sectors -> {0, 1}]
  BY DEF FilesInv, FilesType, DiskType
<1>1. bytes' # bytes
  OBVIOUS
<1>2. ASSUME NEW p \in Procs, NEW path \in Paths, sys_create(p, path) \/ sys_mkdir(p, path) PROVE FALSE
  <2>1. PICK x \in Sectors : kind[x] = "free" /\ bytes' = [bytes EXCEPT ![x] = 0]
    BY <1>1, <1>2 DEF sys_create, sys_mkdir
  <2> QED BY <1>0, <2>1
<1>3. ASSUME NEW p \in Procs, NEW f \in ArgFds, sys_write(p, f) PROVE FALSE
  <2>1. PICK i : deny_write_cnt[i] = 0 /\ bytes' = [bytes EXCEPT ![i] = 1 - @]
    BY <1>3 DEF sys_write
  <2> QED BY <1>0, <2>1
<1>4. UNCHANGED vars => bytes' = bytes
  BY DEF vars, disk
<1>5. \A p \in Procs, path \in Paths :
        sys_remove(p, path) \/ sys_chdir(p, path) \/ sys_open(p, path) \/ ExecOpen(p, path) => bytes' = bytes
  BY DEF sys_remove, sys_chdir, sys_open, ExecOpen
<1>6. \A p \in Procs, f \in ArgFds, g \in ArgFds : sys_close(p, f) \/ sys_dup2(p, f, g) => bytes' = bytes
  BY DEF sys_close, sys_dup2
<1>7. \A p \in Procs, q \in Procs : do_fork(p, q) => bytes' = bytes
  BY DEF do_fork
<1>8. \A p \in Procs : process_exec(p) \/ ExecLoad(p) \/ process_exit(p) => bytes' = bytes
  BY DEF process_exec, ExecLoad, process_exit, disk
<1> QED BY <1>1, <1>2, <1>3, <1>4, <1>5, <1>6, <1>7, <1>8 DEF Next

\* The executable of a running process is not written to (sys_write,
\* inode_write_at, file_deny_write).
THEOREM ExecutablesUnchanged ==
  ASSUME Undisturbed
  PROVE  Spec => ExecutableUnchanged
<1> DEFINE Kept(p) == running_file[p] # NULL /\ running_file'[p] = running_file[p] =>
                        bytes'[obj[running_file[p]].inode] = bytes[obj[running_file[p]].inode]
<1>1. FilesInv /\ [Next]_vars => [\A p \in Procs : Kept(p)]_vars
  <2> SUFFICES ASSUME FilesInv, [Next]_vars, NEW p \in Procs, running_file[p] # NULL
               PROVE  bytes'[obj[running_file[p]].inode] = bytes[obj[running_file[p]].inode]
    OBVIOUS
  <2>1. PICK x \in Objs : x = running_file[p] /\ obj[x].inode # 0 /\ obj[x].deny
    BY DEF FilesInv, FilesType, ProcType, ExecInv
  <2>2. PICK i \in Sectors : i = obj[x].inode
    BY <2>1, Constants DEF FilesInv, FilesType, ObjType, ObjRec
  <2>3. kind[i] # "free"
    BY <2>1, <2>2 DEF FilesInv, OpenInv
  <2>4. deny_write_cnt[i] # 0
    <3>1. x \in Deniers(i) /\ deny_write_cnt[i] = Cardinality(Deniers(i))
      BY <2>1, <2>2 DEF FilesInv, DenyInv, Deniers
    <3>2. Deniers(i) # {}
      BY <3>1
    <3> QED BY <3>1, <3>2, Finite, FS_EmptySet
  <2> QED BY <2>1, <2>2, <2>3, <2>4, BytesChange
<1> QED BY <1>1, FilesInvariant, PTL DEF Spec, ExecutableUnchanged
==============================================================================
