------------------------------ MODULE FatProofs ------------------------------
(***************************************************************************)
(* Proofs about module Fat, for every size of the table and any number of  *)
(* threads and files, as long as a thread that allocates without           *)
(* filesys_lock (sys_mkdir) is the only one that allocates.                *)
(***************************************************************************)
EXTENDS Fat, TLAPS

\* sys_mkdir does not run beside another call that allocates.
Exclusive == \A t \in Mkdirs, u \in Creators \cup Mkdirs : t = u

\* Entries 0 to 3 belong to the root inode and are never allocated.
Shape ==
  /\ fat[0] \in {0, 1}
  /\ fat[1] \in {0} \cup Data
  /\ fat[2] = INODE_MAGIC
  /\ fat[3] = 1
  /\ \A c \in Data : fat[c] \in {0, EOChain} \cup Data

\* What the fields and locals that hold cluster numbers can be.
Numbers ==
  /\ last_clst \in {2} \cup Data
  /\ \A f \in Files : clst[f] \in {0} \cup Data /\ start[f] \in {0} \cup Data
  /\ \A t \in Threads :
       /\ arg[t] \in {0, 1} \cup Data
       /\ first[t] \in {0} \cup Data
       /\ new[t] \in {0} \cup Data
       /\ rel[t] \in {0, 1, EOChain} \cup Data
       /\ rest[t] \in {0, EOChain} \cup Data

\* t is in a call that allocates.
InCall(t) ==
  \/ pc[t] \in {"find", "claim", "add", "write"}
  \/ pc[t] = "release" /\ file[t] # None

\* A call that allocates has the lock or is a sys_mkdir; the cluster found is
\* still free when it is claimed.
CallOK(t) ==
  /\ InCall(t) => /\ file[t] \in Files
                  /\ t \in Creators \cup Mkdirs
                  /\ filesys_lock = t \/ t \in Mkdirs
  /\ pc[t] # "release" => rest[t] = EOChain
  /\ pc[t] = "idle" => file[t] = None
  /\ pc[t] = "claim" /\ new[t] # 0 => fat[new[t]] = 0
  /\ pc[t] \in {"find", "claim"} =>
       /\ goal[t] # "head" => todo[t] # 0
       /\ goal[t] = "data" /\ arg[t] = 0 => first[t] = 0
       /\ goal[t] \in {"inode", "mkdir", "head"} => arg[t] = 0

Calls == \A t \in Threads : CallOK(t)

Typed == FieldTypes /\ Shape /\ Numbers /\ Calls

-----------------------------------------------------------------------------
\* The sets of cluster numbers, spelled out for the provers.
LEMMA ClusterSets ==
  /\ \A c : c \in Cluster <=> c \in Int /\ 0 <= c /\ c < fat_length
  /\ \A c : c \in Data <=> c \in Int /\ 4 <= c /\ c < fat_length
  /\ {0, 1, 2, 3} \subseteq Cluster
  /\ Data \subseteq Cluster
  /\ EOChain \notin Cluster /\ INODE_MAGIC \notin Cluster
  /\ EOChain \in Nat /\ INODE_MAGIC \in Nat /\ EOChain # INODE_MAGIC
BY TableAssumption DEF Cluster, Data, FirstFree

\* Only one thread at a time is in a call that allocates.
LEMMA OneAllocator ==
  ASSUME Exclusive, Calls, NEW t \in Threads, NEW u \in Threads,
         InCall(t), InCall(u)
  PROVE  t = u
BY DEF Exclusive, Calls, CallOK

\* A new cluster is linked to an entry that ends a chain, or to entry 1.
LEMMA EndsFacts ==
  ASSUME NEW c, NEW e \in Ends(c)
  PROVE  e = 1 \/ (e \in Cluster /\ fat[e] = EOChain)
BY DEF Ends, Chain, ROOT_DIR_CLUSTER

\* What find_free_cluster returns is 0 or a free cluster past the root's.
LEMMA FindFacts ==
  ASSUME Typed, NEW c \in find_free_cluster
  PROVE  c = 0 \/ (c \in Data /\ fat[c] = 0)
<1>1. last_clst \in Int /\ last_clst >= 2 /\ last_clst < fat_length
  BY ClusterSets DEF Typed, Numbers, TableAssumption, FieldTypes
<1>2. fat[2] # 0 /\ fat[3] # 0
  BY TableAssumption DEF Typed, Shape
<1>3. \A d \in last_clst + 1 .. fat_length - 1 : fat[d] = 0 => d \in Data
  BY <1>1, <1>2, ClusterSets, TableAssumption
<1>4. \A d \in 2 .. last_clst - 1 : fat[d] = 0 => d \in Data
  BY <1>1, <1>2, ClusterSets, TableAssumption
<1> QED BY <1>3, <1>4 DEF find_free_cluster, FirstOf

\* Cluster n becomes the end of the chain that e ended.
Linked(n, e) ==
  /\ e = 1 \/ (e \in Data /\ fat[e] = EOChain)
  /\ e # n
  /\ fat' = [fat EXCEPT ![n] = EOChain, ![e] = n]

\* The outcomes of fat_create_chain: nothing was free, or a free cluster begins
\* a chain or becomes the end of one.
LEMMA ClaimEffect ==
  ASSUME Typed, NEW t \in Threads, pc[t] = "claim", fat_create_chain(t)
  PROVE  \/ new[t] = 0 /\ fat' = fat /\ last_clst' = last_clst
         \/ /\ new[t] \in Data /\ fat[new[t]] = 0 /\ last_clst' = new[t]
            /\ \/ arg[t] = 0 /\ fat' = [fat EXCEPT ![new[t]] = EOChain]
               \/ arg[t] # 0 /\ \E e \in Cluster : Linked(new[t], e)
<1>1. CASE new[t] = 0
  BY <1>1 DEF fat_create_chain, fatVars
<1>2. CASE new[t] # 0
  <2>1. new[t] \in Data /\ fat[new[t]] = 0
    BY <1>2 DEF Typed, Numbers, Calls, CallOK
  <2>2. last_clst' = new[t]
    BY <1>2 DEF fat_create_chain
  <2>3. CASE arg[t] = 0
    BY <1>2, <2>1, <2>2, <2>3 DEF fat_create_chain
  <2>4. CASE arg[t] # 0
    <3>1. PICK e \in Ends(arg[t]) :
                 fat' = [fat EXCEPT ![new[t]] = EOChain, ![e] = new[t]]
      BY <1>2, <2>4 DEF fat_create_chain
    <3>2. e = 1 \/ (e \in Cluster /\ fat[e] = EOChain)
      BY <3>1, EndsFacts
    <3>3. e = 1 \/ e \in Data
      <4>1. ASSUME e \in {0, 2, 3} PROVE fat[e] # EOChain
        BY <4>1, ClusterSets DEF Typed, Shape
      <4>2. e \in Cluster => e \in {0, 1, 2, 3} \cup Data
        BY ClusterSets
      <4> QED BY <3>2, <4>1, <4>2
    <3>4. e # new[t]
      BY <2>1, <3>2, ClusterSets
    <3> QED BY <1>2, <2>1, <2>2, <2>4, <3>1, <3>2, <3>3, <3>4, ClusterSets DEF Linked
  <2> QED BY <2>3, <2>4
<1> QED BY <1>1, <1>2

-----------------------------------------------------------------------------
(* Types of the state and of the locals.                                   *)

\* The typing part of the invariant holds after mounting a new file system.
LEMMA TypedInit == Init => Typed
<1> SUFFICES ASSUME Init PROVE Typed
  OBVIOUS
<1>1. FieldTypes
  BY ClusterSets DEF Init, FieldTypes, ROOT_DIR_CLUSTER
<1>2. Shape
  BY ClusterSets, TableAssumption DEF Init, Shape, ROOT_DIR_CLUSTER
<1>3. Numbers
  BY DEF Init, Numbers
<1>4. Calls
  BY DEF Init, Calls, CallOK, InCall
<1> QED BY <1>1, <1>2, <1>3, <1>4 DEF Typed

\* Claiming a cluster keeps the table well formed.
LEMMA ClaimShape ==
  ASSUME Typed, NEW t \in Threads, pc[t] = "claim", fat_create_chain(t)
  PROVE  /\ fat' \in [Cluster -> Nat]
         /\ last_clst' \in Cluster
         /\ Shape'
         /\ last_clst' \in {2} \cup Data
<1>1. fat \in [Cluster -> Nat] /\ last_clst \in Cluster
  BY DEF Typed, FieldTypes
<1>2. Shape /\ last_clst \in {2} \cup Data
  BY DEF Typed, Numbers
<1>3. CASE new[t] = 0 /\ fat' = fat /\ last_clst' = last_clst
  BY <1>1, <1>2, <1>3 DEF Shape, Data
<1>4. CASE /\ new[t] \in Data /\ last_clst' = new[t]
           /\ fat' = [fat EXCEPT ![new[t]] = EOChain]
  BY <1>1, <1>2, <1>4, ClusterSets DEF Shape
<1>5. ASSUME NEW e \in Cluster, new[t] \in Data, last_clst' = new[t], Linked(new[t], e)
      PROVE  /\ fat' \in [Cluster -> Nat] /\ last_clst' \in Cluster
             /\ Shape' /\ last_clst' \in {2} \cup Data
  BY <1>1, <1>2, <1>5, ClusterSets DEF Shape, Linked
<1> QED BY <1>3, <1>4, <1>5, ClaimEffect

\* The locals of u.
Locals(u) ==
  <<pc[u], goal[u], file[u], todo[u], arg[u], first[u], new[u], rel[u], rest[u]>>

\* A step of t leaves the call of another thread in order, if it does not take
\* its lock or the cluster it has found.
LEMMA OthersOK ==
  ASSUME Calls, NEW t \in Threads,
         \A u \in Threads \ {t} :
           /\ Locals(u)' = Locals(u)
           /\ filesys_lock = u => filesys_lock' = u
           /\ pc[u] = "claim" /\ new[u] # 0 /\ fat[new[u]] = 0 => fat'[new[u]] = 0,
         CallOK(t)'
  PROVE  Calls'
<1> SUFFICES ASSUME NEW u \in Threads, u # t PROVE CallOK(u)'
  BY DEF Calls
<1>1. CallOK(u)
  BY DEF Calls
<1>2. /\ pc'[u] = pc[u] /\ goal'[u] = goal[u] /\ file'[u] = file[u]
      /\ todo'[u] = todo[u] /\ arg'[u] = arg[u] /\ first'[u] = first[u]
      /\ new'[u] = new[u] /\ rest'[u] = rest[u]
  BY DEF Locals
<1> QED BY <1>1, <1>2 DEF CallOK, InCall

\* The typing of the locals that Ask and GoTo set.
CallTypes ==
  /\ pc \in [Threads -> {"idle", "find", "claim", "add", "write", "release",
                          "oob", "panic"}]
  /\ goal \in [Threads -> {"inode", "mkdir", "data", "dir", "head", "extend"}]
  /\ todo \in [Threads -> Nat]
  /\ arg \in [Threads -> Cluster]

\* A call of fat_create_chain with proper arguments keeps that typing.
LEMMA AskTypes ==
  ASSUME FieldTypes, NEW t \in Threads,
         NEW g \in {"inode", "mkdir", "data", "dir", "head", "extend"},
         NEW n \in Nat, NEW a \in Cluster, NEW s \in Cluster,
         Ask(t, g, n, a, s)
  PROVE  CallTypes' /\ first' \in [Threads -> Cluster]
BY DEF FieldTypes, Ask, CallTypes

\* So does leaving the allocation.
LEMMA GoToTypes ==
  ASSUME FieldTypes, NEW t \in Threads,
         NEW w \in {"idle", "add", "write", "release", "panic"},
         GoTo(t, w)
  PROVE  CallTypes'
BY ClusterSets DEF FieldTypes, GoTo, CallTypes

\* sys_create keeps the types.
LEMMA CreateTyped ==
  ASSUME Typed, NEW t \in Creators, NEW f \in Files, NEW size \in Sizes,
         Create(t, f, size)
  PROVE  Typed'
<1> USE ThreadAssumption, SizeAssumption, ClusterSets
<1>1. FieldTypes'
  BY DEF Typed, FieldTypes, Create, Ask, fatVars, relVars
<1>2. Shape' /\ Numbers'
  BY DEF Typed, FieldTypes, Shape, Numbers, Data, Create, Ask, fatVars, relVars
<1>3. Calls'
  <2>1. CallOK(t)'
    BY DEF Typed, FieldTypes, Numbers, Calls, CallOK, InCall, Create, Ask, fatVars, relVars
  <2>2. \A u \in Threads \ {t} :
          /\ Locals(u)' = Locals(u)
          /\ filesys_lock = u => filesys_lock' = u
          /\ fat' = fat
    BY DEF Typed, FieldTypes, Locals, Create, Ask, fatVars, relVars
  <2> QED BY <2>1, <2>2, OthersOK DEF Typed
<1> QED BY <1>1, <1>2, <1>3 DEF Typed

\* sys_mkdir keeps the types.
LEMMA MkdirTyped ==
  ASSUME Typed, NEW t \in Mkdirs, NEW f \in Files, Mkdir(t, f)
  PROVE  Typed'
<1> USE ThreadAssumption, SizeAssumption, ClusterSets
<1>1. FieldTypes'
  BY DEF Typed, FieldTypes, Mkdir, Ask, fatVars, relVars
<1>2. Shape' /\ Numbers'
  BY DEF Typed, FieldTypes, Shape, Numbers, Data, Mkdir, Ask, fatVars, relVars
<1>3. Calls'
  <2>1. CallOK(t)'
    BY DEF Typed, FieldTypes, Numbers, Calls, CallOK, InCall, Mkdir, Ask, fatVars, relVars
  <2>2. \A u \in Threads \ {t} :
          /\ Locals(u)' = Locals(u)
          /\ filesys_lock = u => filesys_lock' = u
          /\ fat' = fat
    BY DEF Typed, FieldTypes, Locals, Mkdir, Ask, fatVars, relVars
  <2> QED BY <2>1, <2>2, OthersOK DEF Typed
<1> QED BY <1>1, <1>2, <1>3 DEF Typed

\* Sizes are divided into sectors without leaving the naturals.
LEMMA SectorsNat ==
  ASSUME NEW n \in Nat
  PROVE  bytes_to_sectors(n) \in Nat
BY SizeAssumption DEF bytes_to_sectors

\* So is what a write adds.
LEMMA NewClustersNat ==
  ASSUME NEW len \in Nat, NEW n \in Nat
  PROVE  NewClusters(len, n) \in Nat
<1> DEFINE room == DISK_SECTOR_SIZE - (len % DISK_SECTOR_SIZE)
<1>1. len % DISK_SECTOR_SIZE \in Nat
  BY SizeAssumption
<1>2. room \in Int
  BY <1>1, SizeAssumption
<1>3. n > room => n - room \in Nat
  BY <1>2
<1>4. n > room => bytes_to_sectors(n - room) \in Nat
  BY <1>3, SectorsNat
<1> QED BY <1>4 DEF NewClusters

\* sys_write keeps the types.
LEMMA WriteTyped ==
  ASSUME Typed, NEW t \in Creators, NEW f \in Files, NEW n \in Grow,
         Write(t, f, n)
  PROVE  Typed'
<1> USE ThreadAssumption, ClusterSets
<1> DEFINE k == NewClusters(length[f], n)
<1>1. n \in Nat /\ length[f] \in Nat /\ length[f] + n \in Nat
  BY SizeAssumption DEF Typed, FieldTypes
<1>2. k \in Nat
  BY <1>1, NewClustersNat
<1>3. \/ start[f] = 0 /\ Ask(t, "head", k, 0, 0)
      \/ start[f] # 0 /\ k > 0 /\ Ask(t, "extend", k, start[f], 0)
      \/ GoTo(t, "write") /\ UNCHANGED first
  BY DEF Write
<1> DEFINE Frame ==
      /\ pc[t] = "idle"
      /\ filesys_lock = None
      /\ filesys_lock' = t
      /\ length' = [length EXCEPT ![f] = @ + n]
      /\ file' = [file EXCEPT ![t] = f]
      /\ UNCHANGED <<fatVars, state, clst, start, new, relVars>>
<1>f. Frame
  BY DEF Write
<1> HIDE DEF k
<1>4. FieldTypes'
  <2>1. CallTypes' /\ first' \in [Threads -> Cluster]
    <3>1. start[f] \in Cluster /\ first \in [Threads -> Cluster]
      BY DEF Typed, FieldTypes
    <3> QED BY <1>2, <1>3, <3>1, AskTypes, GoToTypes DEF Typed
  <2> QED BY <1>1, <1>f, <2>1 DEF Typed, FieldTypes, CallTypes, fatVars, relVars
<1>5. Shape' /\ Numbers'
  <2>1. Shape'
    BY <1>f DEF Typed, Shape, Data, fatVars
  <2>2. \/ arg' = [arg EXCEPT ![t] = 0]
        \/ start[f] # 0 /\ arg' = [arg EXCEPT ![t] = start[f]]
    BY <1>3 DEF Ask, GoTo
  <2>3. first' = [first EXCEPT ![t] = 0] \/ first' = first
    BY <1>3 DEF Ask, GoTo
  <2>4. Numbers'
    BY <1>f, <2>2, <2>3 DEF Typed, FieldTypes, Numbers, Data, fatVars, relVars
  <2> QED BY <2>1, <2>4
<1>6. Calls'
  <2>1. CallOK(t)'
    BY <1>1, <1>2, <1>3, <1>f DEF Typed, FieldTypes, Numbers, Calls, CallOK, InCall, Ask, GoTo, fatVars, relVars
  <2>2. \A u \in Threads \ {t} :
          /\ Locals(u)' = Locals(u)
          /\ filesys_lock = u => filesys_lock' = u
          /\ fat' = fat
    BY <1>1, <1>2, <1>3, <1>f DEF Typed, FieldTypes, Locals, Ask, GoTo, fatVars, relVars
  <2> QED BY <2>1, <2>2, OthersOK DEF Typed
<1> QED BY <1>4, <1>5, <1>6 DEF Typed

\* The search keeps the types, and what it returns is free.
LEMMA FindTyped ==
  ASSUME Typed, NEW t \in Threads, Find(t)
  PROVE  Typed'
<1> USE ClusterSets
<1>1. \A c \in find_free_cluster : c = 0 \/ (c \in Data /\ fat[c] = 0)
  BY FindFacts
<1>2. \/ pc' = [pc EXCEPT ![t] = "oob"] /\ new' = new
      \/ \E c : /\ c = 0 \/ (c \in Data /\ fat[c] = 0)
                /\ new' = [new EXCEPT ![t] = c]
                /\ pc' = [pc EXCEPT ![t] = "claim"]
  BY <1>1 DEF Find
<1>3. pc[t] = "find" /\ UNCHANGED <<fatVars, filesys_lock, inodeVars, callVars, relVars>>
  BY DEF Find
<1>4. FieldTypes'
  BY <1>2, <1>3 DEF Typed, FieldTypes, fatVars, inodeVars, callVars, relVars
<1>5. Shape' /\ Numbers'
  BY <1>2, <1>3 DEF Typed, FieldTypes, Shape, Numbers, Data, fatVars, inodeVars, callVars, relVars
<1>6. Calls'
  <2>1. CallOK(t)'
    BY <1>2, <1>3 DEF Typed, FieldTypes, Numbers, Calls, CallOK, InCall, fatVars, inodeVars, callVars, relVars
  <2>2. \A u \in Threads \ {t} :
          /\ Locals(u)' = Locals(u)
          /\ filesys_lock = u => filesys_lock' = u
          /\ fat' = fat
    BY <1>2, <1>3 DEF Typed, FieldTypes, Locals, fatVars, inodeVars, callVars, relVars
  <2> QED BY <2>1, <2>2, OthersOK DEF Typed
<1> QED BY <1>4, <1>5, <1>6 DEF Typed

-----------------------------------------------------------------------------
(* The ways a step can end, and what they leave.                           *)

\* The typing of the inodes.
InodeTypes ==
  /\ state \in [Files -> {"none", "making", "live", "wrecked"}]
  /\ clst \in [Files -> Cluster]
  /\ start \in [Files -> Cluster]
  /\ length \in [Files -> Nat]
  /\ \A f \in Files : clst[f] \in {0} \cup Data /\ start[f] \in {0} \cup Data

\* The typing of the locals of a call, the lock included.
LocalTypes ==
  /\ CallTypes
  /\ filesys_lock \in Threads \cup {None}
  /\ file \in [Threads -> Files \cup {None}]
  /\ first \in [Threads -> Cluster]
  /\ \A t \in Threads : arg[t] \in {0, 1} \cup Data /\ first[t] \in {0} \cup Data

\* What a step of t leaves of its own call, when it sets neither new nor rest.
Ready(t) ==
  /\ InCall(t) => /\ file[t] \in Files
                  /\ t \in Creators \cup Mkdirs
                  /\ filesys_lock = t \/ t \in Mkdirs
  /\ pc[t] # "claim"
  /\ pc[t] = "idle" => file[t] = None
  /\ pc[t] = "find" =>
       /\ goal[t] # "head" => todo[t] # 0
       /\ goal[t] = "data" /\ arg[t] = 0 => first[t] = 0
       /\ goal[t] \in {"inode", "mkdir", "head"} => arg[t] = 0

\* The other threads keep their locals and their lock.
OthersKept(t) ==
  \A u \in Threads \ {t} :
    /\ pc'[u] = pc[u] /\ goal'[u] = goal[u] /\ file'[u] = file[u]
    /\ todo'[u] = todo[u] /\ arg'[u] = arg[u] /\ first'[u] = first[u]
    /\ filesys_lock = u => filesys_lock' = u

\* Returning from the call.
LEMMA ReturnFacts ==
  ASSUME Typed, NEW t \in Threads, Return(t)
  PROVE  LocalTypes' /\ Ready(t)' /\ OthersKept(t)
<1>1. CallTypes'
  BY GoToTypes DEF Typed, Return
<1>2. LocalTypes'
  BY <1>1, ClusterSets DEF Typed, FieldTypes, Numbers, Data, LocalTypes, Return, GoTo
<1>3. Ready(t)'
  BY DEF Typed, FieldTypes, Ready, InCall, Return, GoTo
<1>4. OthersKept(t)
  BY DEF Typed, FieldTypes, OthersKept, Return, GoTo
<1> QED BY <1>2, <1>3, <1>4

\* Leaving the allocation and staying in the call, or panicking.
LEMMA GoToFacts ==
  ASSUME Typed, NEW t \in Threads, InCall(t),
         NEW w \in {"add", "write", "release", "panic"}, GoTo(t, w),
         first' = first \/ first' = [first EXCEPT ![t] = 0],
         UNCHANGED <<file, filesys_lock>>
  PROVE  LocalTypes' /\ Ready(t)' /\ OthersKept(t)
<1>1. CallTypes'
  BY GoToTypes DEF Typed
<1>2. LocalTypes'
  <2>1. first' \in [Threads -> Cluster]
    BY ClusterSets DEF Typed, FieldTypes
  <2>2. \A u \in Threads : first'[u] \in {0} \cup Data
    BY DEF Typed, FieldTypes, Numbers
  <2>3. \A u \in Threads : arg'[u] \in {0, 1} \cup Data
    BY DEF Typed, FieldTypes, Numbers, GoTo
  <2> QED BY <1>1, <2>1, <2>2, <2>3 DEF Typed, FieldTypes, Data, LocalTypes
<1>3. Ready(t)'
  BY DEF Typed, FieldTypes, Calls, CallOK, Ready, InCall, GoTo
<1>4. OthersKept(t)
  BY DEF Typed, FieldTypes, OthersKept, GoTo
<1> QED BY <1>2, <1>3, <1>4

\* The next call of fat_create_chain.
LEMMA AskFacts ==
  ASSUME Typed, NEW t \in Threads, InCall(t),
         NEW g \in {"data", "dir", "extend"},
         NEW n \in Nat \ {0}, NEW a \in {0, 1} \cup Data, NEW s \in {0} \cup Data,
         Ask(t, g, n, a, s), g = "data" /\ a = 0 => s = 0,
         UNCHANGED <<file, filesys_lock>>
  PROVE  LocalTypes' /\ Ready(t)' /\ OthersKept(t)
<1>1. a \in Cluster /\ s \in Cluster
  BY ClusterSets
<1>2. CallTypes' /\ first' \in [Threads -> Cluster]
  BY <1>1, AskTypes DEF Typed
<1>3. LocalTypes'
  BY <1>2, ClusterSets DEF Typed, FieldTypes, Numbers, Data, LocalTypes, Ask
<1>4. Ready(t)'
  BY DEF Typed, FieldTypes, Calls, CallOK, Ready, InCall, Ask
<1>5. OthersKept(t)
  BY DEF Typed, FieldTypes, OthersKept, Ask
<1> QED BY <1>3, <1>4, <1>5

\* Creation that fails.
LEMMA FailFacts ==
  ASSUME Typed, NEW t \in Threads, InCall(t), Fail(t)
  PROVE  InodeTypes' /\ LocalTypes' /\ Ready(t)' /\ OthersKept(t)
<1>1. file[t] \in Files
  BY DEF Typed, Calls, CallOK
<1>2. InodeTypes'
  BY <1>1, ClusterSets DEF Typed, FieldTypes, Numbers, Data, InodeTypes, Fail, Forget
<1>3. CASE Return(t)
  BY <1>2, <1>3, ReturnFacts
<1>4. CASE GoTo(t, "panic") /\ UNCHANGED <<first, file, filesys_lock>>
  BY <1>2, <1>4, GoToFacts
<1> QED BY <1>3, <1>4 DEF Fail

\* An inode that has its clusters.
LEMMA MadeFacts ==
  ASSUME Typed, NEW t \in Threads, InCall(t), NEW s \in {0} \cup Data, Made(t, s)
  PROVE  InodeTypes' /\ LocalTypes' /\ Ready(t)' /\ OthersKept(t)
<1>1. s \in Cluster
  BY ClusterSets
<1>2. InodeTypes'
  BY <1>1, ClusterSets DEF Typed, FieldTypes, Numbers, Data, InodeTypes, Made, Zero
<1> QED BY <1>2, GoToFacts DEF Made

\* An inode that has its name.
LEMMA EnterFacts ==
  ASSUME Typed, NEW t \in Threads, InCall(t), Enter(t)
  PROVE  InodeTypes' /\ LocalTypes' /\ Ready(t)' /\ OthersKept(t)
<1>1. InodeTypes'
  BY ClusterSets DEF Typed, FieldTypes, Numbers, Data, InodeTypes, Enter
<1> QED BY <1>1, ReturnFacts DEF Enter

\* The typing of the rest: the table, and the locals of the search and of the
\* removal.
TableTypes ==
  /\ fat \in [Cluster -> Nat]
  /\ last_clst \in Cluster /\ last_clst \in {2} \cup Data
  /\ Shape
  /\ new \in [Threads -> Cluster]
  /\ rel \in [Threads -> Cluster \cup {EOChain}]
  /\ rest \in [Threads -> Cluster \cup {EOChain}]
  /\ \A t \in Threads : /\ new[t] \in {0} \cup Data
                        /\ rel[t] \in {0, 1, EOChain} \cup Data
                        /\ rest[t] \in {0, EOChain} \cup Data

\* A step of t keeps the types if it keeps each part of them, and takes no
\* cluster that another thread has found.
LEMMA TypedParts ==
  ASSUME Typed, NEW t \in Threads,
         TableTypes', InodeTypes', LocalTypes', Ready(t)', OthersKept(t),
         pc'[t] # "release" => rest'[t] = EOChain,
         \A u \in Threads \ {t} :
           /\ new'[u] = new[u] /\ rel'[u] = rel[u] /\ rest'[u] = rest[u]
           /\ pc[u] = "claim" /\ new[u] # 0 /\ fat[new[u]] = 0 => fat'[new[u]] = 0
  PROVE  Typed'
<1>1. FieldTypes'
  BY DEF FieldTypes, TableTypes, InodeTypes, LocalTypes, CallTypes
<1>2. Numbers'
  BY DEF Numbers, TableTypes, InodeTypes, LocalTypes
<1>3. Shape'
  BY DEF TableTypes
<1>4. CallOK(t)'
  BY DEF CallOK, Ready
<1>5. \A u \in Threads \ {t} :
        /\ Locals(u)' = Locals(u)
        /\ filesys_lock = u => filesys_lock' = u
        /\ pc[u] = "claim" /\ new[u] # 0 /\ fat[new[u]] = 0 => fat'[new[u]] = 0
  BY DEF OthersKept, Locals
<1>6. Calls'
  BY <1>4, <1>5, OthersOK DEF Typed
<1> QED BY <1>1, <1>2, <1>3, <1>6 DEF Typed

\* The types before a step, by parts.
LEMMA PartsOfTyped ==
  ASSUME Typed
  PROVE  TableTypes /\ InodeTypes /\ LocalTypes
<1>1. TableTypes
  BY DEF Typed, FieldTypes, Shape, Numbers, TableTypes
<1>2. InodeTypes
  BY DEF Typed, FieldTypes, Numbers, InodeTypes
<1>3. LocalTypes
  BY DEF Typed, FieldTypes, Numbers, LocalTypes, CallTypes
<1> QED BY <1>1, <1>2, <1>3

\* A claim keeps the types if the rest of the step keeps those of the inodes
\* and of the call.
LEMMA ClaimTyped ==
  ASSUME Typed, Exclusive, NEW t \in Threads, pc[t] = "claim", fat_create_chain(t),
         InodeTypes', LocalTypes', Ready(t)', OthersKept(t),
         new' = [new EXCEPT ![t] = 0], rest' = rest,
         NEW x \in {0} \cup Data, rel' = rel \/ rel' = [rel EXCEPT ![t] = x]
  PROVE  Typed'
<1>1. TableTypes'
  <2>1. fat' \in [Cluster -> Nat] /\ last_clst' \in Cluster
        /\ Shape' /\ last_clst' \in {2} \cup Data
    BY ClaimShape
  <2>2. TableTypes /\ x \in Cluster
    BY PartsOfTyped, ClusterSets
  <2>3. /\ new' \in [Threads -> Cluster]
        /\ \A u \in Threads : new'[u] \in {0} \cup Data
    BY <2>2, ClusterSets DEF TableTypes
  <2>4. /\ rel' \in [Threads -> Cluster \cup {EOChain}]
        /\ \A u \in Threads : rel'[u] \in {0, 1, EOChain} \cup Data
    BY <2>2 DEF TableTypes
  <2> QED BY <2>1, <2>2, <2>3, <2>4 DEF TableTypes, Data
<1>2. rest'[t] = EOChain
  BY DEF Typed, Calls, CallOK
<1>3. \A u \in Threads \ {t} : pc[u] # "claim"
  BY OneAllocator DEF Typed, InCall
<1>4. \A u \in Threads \ {t} :
        new'[u] = new[u] /\ rel'[u] = rel[u] /\ rest'[u] = rest[u]
  BY DEF Typed, FieldTypes
<1> QED BY <1>1, <1>2, <1>3, <1>4, TypedParts

\* Allocating the cluster of an inode keeps the types.
LEMMA ClaimInodeTyped ==
  ASSUME Typed, Exclusive, NEW t \in Threads, ClaimInode(t)
  PROVE  Typed'
<1> DEFINE f == file[t]
           n == bytes_to_sectors(length[f])
<1>1. /\ pc[t] = "claim" /\ fat_create_chain(t)
      /\ new' = [new EXCEPT ![t] = 0] /\ UNCHANGED relVars
  BY DEF ClaimInode
<1>2. InCall(t) /\ f \in Files
  BY <1>1 DEF Typed, Calls, CallOK, InCall
<1>3. n \in Nat
  BY <1>2, SectorsNat DEF Typed, FieldTypes
<1>4. CASE Fail(t)
  BY <1>1, <1>2, <1>4, FailFacts, ClaimTyped DEF relVars
<1>5. CASE /\ clst' = [clst EXCEPT ![f] = new[t]]
           /\ UNCHANGED <<state, start, length, filesys_lock, file>>
           /\ \/ GoTo(t, "add") /\ UNCHANGED first
              \/ n > 0 /\ Ask(t, "data", n, 0, 0)
  <2>1. InodeTypes'
    BY <1>2, <1>5 DEF Typed, FieldTypes, Numbers, Data, InodeTypes
  <2>2. LocalTypes' /\ Ready(t)' /\ OthersKept(t)
    <3>1. CASE GoTo(t, "add") /\ UNCHANGED first
      BY <1>2, <1>5, <3>1, GoToFacts
    <3>2. CASE n > 0 /\ Ask(t, "data", n, 0, 0)
      BY <1>2, <1>3, <1>5, <3>2, AskFacts
    <3> QED BY <1>5, <3>1, <3>2
  <2> QED BY <1>1, <2>1, <2>2, ClaimTyped DEF relVars
<1> QED BY <1>4, <1>5 DEF ClaimInode

\* Allocating the data of a new inode keeps the types.
LEMMA ClaimDataTyped ==
  ASSUME Typed, Exclusive, NEW t \in Threads, ClaimData(t)
  PROVE  Typed'
<1> DEFINE left == todo[t] - 1
           s == IF arg[t] = 0 THEN new[t] ELSE first[t]
<1>1. /\ pc[t] = "claim" /\ goal[t] = "data" /\ fat_create_chain(t)
      /\ new' = [new EXCEPT ![t] = 0]
  BY DEF ClaimData
<1>2. InCall(t) /\ todo[t] \in Nat \ {0}
  BY <1>1 DEF Typed, FieldTypes, Calls, CallOK, InCall
<1>3. s \in {0} \cup Data /\ new[t] \in {0} \cup Data
  BY DEF Typed, Numbers
<1>i. InodeTypes
  BY PartsOfTyped
<1>4. CASE /\ new[t] # 0 /\ left > 0
           /\ Ask(t, "data", left, new[t], s)
           /\ UNCHANGED <<inodeVars, filesys_lock, file, relVars>>
  <2>1. InodeTypes'
    BY <1>i, <1>4 DEF InodeTypes, Data, inodeVars
  <2>2. left \in Nat \ {0}
    BY <1>2, <1>4
  <2>3. LocalTypes' /\ Ready(t)' /\ OthersKept(t)
    BY <1>2, <1>3, <1>4, <2>2, AskFacts
  <2> QED BY <1>1, <1>4, <2>1, <2>3, ClaimTyped DEF relVars
<1>5. CASE Made(t, s) /\ UNCHANGED relVars
  BY <1>1, <1>2, <1>3, <1>5, MadeFacts, ClaimTyped DEF relVars
<1>6. CASE Fail(t) /\ UNCHANGED relVars
  BY <1>1, <1>2, <1>6, FailFacts, ClaimTyped DEF relVars
<1>7. CASE /\ GoTo(t, "release")
           /\ rel' = [rel EXCEPT ![t] = s]
           /\ UNCHANGED <<inodeVars, filesys_lock, file, first, rest>>
  <2>1. InodeTypes'
    BY <1>i, <1>7 DEF InodeTypes, Data, inodeVars
  <2>2. LocalTypes' /\ Ready(t)' /\ OthersKept(t)
    BY <1>2, <1>7, GoToFacts
  <2> QED BY <1>1, <1>3, <1>7, <2>1, <2>2, ClaimTyped
<1> QED BY <1>4, <1>5, <1>6, <1>7 DEF ClaimData

\* Growing the root directory keeps the types.
LEMMA ClaimDirTyped ==
  ASSUME Typed, Exclusive, NEW t \in Threads, ClaimDir(t)
  PROVE  Typed'
<1>1. /\ pc[t] = "claim" /\ fat_create_chain(t)
      /\ new' = [new EXCEPT ![t] = 0] /\ UNCHANGED relVars
  BY DEF ClaimDir
<1>2. InCall(t)
  BY <1>1 DEF InCall
<1>3. CASE Enter(t)
  BY <1>1, <1>2, <1>3, EnterFacts, ClaimTyped DEF relVars
<1>4. CASE GoTo(t, "panic") /\ UNCHANGED <<inodeVars, first, file, filesys_lock>>
  <2>1. InodeTypes'
    BY <1>4, PartsOfTyped DEF InodeTypes, Data, inodeVars
  <2>2. LocalTypes' /\ Ready(t)' /\ OthersKept(t)
    BY <1>2, <1>4, GoToFacts
  <2> QED BY <1>1, <2>1, <2>2, ClaimTyped DEF relVars
<1> QED BY <1>3, <1>4 DEF ClaimDir

\* Allocating the clusters that a write needs keeps the types.
LEMMA ClaimWriteTyped ==
  ASSUME Typed, Exclusive, NEW t \in Threads, ClaimWrite(t)
  PROVE  Typed'
<1> DEFINE f == file[t]
           left == IF goal[t] = "head" THEN todo[t] ELSE todo[t] - 1
           s == IF goal[t] = "head" THEN new[t] ELSE start[f]
<1>1. /\ pc[t] = "claim" /\ fat_create_chain(t)
      /\ new' = [new EXCEPT ![t] = 0]
      /\ UNCHANGED <<filesys_lock, state, clst, length, file, relVars>>
      /\ start' = [start EXCEPT ![f] = s]
      /\ \/ left > 0 /\ Ask(t, "extend", left, s, 0)
         \/ GoTo(t, "write") /\ UNCHANGED first
  BY DEF ClaimWrite
<1>2. InCall(t) /\ f \in Files /\ todo[t] \in Nat
  BY <1>1 DEF Typed, FieldTypes, Calls, CallOK, InCall
<1>3. s \in {0} \cup Data /\ s \in Cluster
  BY <1>2, ClusterSets DEF Typed, Numbers
<1>4. left > 0 => left \in Nat \ {0}
  BY <1>2
<1> HIDE DEF left, s
<1>5. InodeTypes'
  BY <1>1, <1>2, <1>3, PartsOfTyped DEF InodeTypes, Data
<1>6. LocalTypes' /\ Ready(t)' /\ OthersKept(t)
  <2>1. CASE left > 0 /\ Ask(t, "extend", left, s, 0)
    BY <1>1, <1>2, <1>3, <1>4, <2>1, AskFacts
  <2>2. CASE GoTo(t, "write") /\ UNCHANGED first
    BY <1>1, <1>2, <2>2, GoToFacts
  <2> QED BY <1>1, <2>1, <2>2
<1> QED BY <1>1, <1>5, <1>6, ClaimTyped DEF relVars

\* A step of t that leaves the table and the locals of search and removal
\* alone keeps the types if it keeps those of the inodes and of the call.
LEMMA QuietTyped ==
  ASSUME Typed, NEW t \in Threads, pc[t] # "release",
         UNCHANGED <<fatVars, new, relVars>>,
         InodeTypes', LocalTypes', Ready(t)', OthersKept(t)
  PROVE  Typed'
<1>1. TableTypes'
  BY PartsOfTyped DEF TableTypes, Shape, Data, fatVars, relVars
<1>2. rest'[t] = EOChain
  BY DEF Typed, Calls, CallOK, relVars
<1> QED BY <1>1, <1>2, TypedParts DEF fatVars, relVars

\* Adding the name to the directory keeps the types.
LEMMA DirAddTyped ==
  ASSUME Typed, NEW t \in Threads, DirAdd(t)
  PROVE  Typed'
<1>1. pc[t] = "add" /\ UNCHANGED <<fatVars, new, relVars>>
  BY DEF DirAdd
<1>2. InCall(t) /\ file[t] \in Files
  BY <1>1 DEF Typed, Calls, CallOK, InCall
<1>3. CASE Forget(file[t]) /\ Return(t)
  <2>1. InodeTypes'
    BY <1>2, <1>3, PartsOfTyped, ClusterSets DEF InodeTypes, Forget, Data
  <2> QED BY <1>1, <1>3, <2>1, ReturnFacts, QuietTyped
<1>4. CASE Enter(t)
  BY <1>1, <1>2, <1>4, EnterFacts, QuietTyped
<1>5. CASE /\ Ask(t, "dir", 1, ROOT_DIR_CLUSTER, 0)
           /\ UNCHANGED <<inodeVars, filesys_lock, file>>
  <2>1. InodeTypes'
    BY <1>5, PartsOfTyped DEF InodeTypes, Data, inodeVars
  <2>2. LocalTypes' /\ Ready(t)' /\ OthersKept(t)
    BY <1>2, <1>5, AskFacts DEF ROOT_DIR_CLUSTER
  <2> QED BY <1>1, <2>1, <2>2, QuietTyped
<1> QED BY <1>3, <1>4, <1>5 DEF DirAdd

\* Copying the data of a write keeps the types.
LEMMA WriteDataTyped ==
  ASSUME Typed, NEW t \in Threads, WriteData(t)
  PROVE  Typed'
<1>1. pc[t] = "write" /\ UNCHANGED <<fatVars, inodeVars, new, relVars>>
  BY DEF WriteData
<1>2. InCall(t)
  BY <1>1 DEF InCall
<1>3. InodeTypes'
  BY <1>1, PartsOfTyped DEF InodeTypes, Data, inodeVars
<1>4. \/ Return(t)
      \/ GoTo(t, "panic") /\ UNCHANGED <<first, file, filesys_lock>>
  BY DEF WriteData
<1>5. LocalTypes' /\ Ready(t)' /\ OthersKept(t)
  BY <1>2, <1>4, ReturnFacts, GoToFacts
<1> QED BY <1>1, <1>3, <1>5, QuietTyped

\* The last close of a removed inode keeps the types.
LEMMA ReleaseTyped ==
  ASSUME Typed, NEW t \in Threads, NEW f \in Files, NEW locked \in BOOLEAN,
         Release(t, f, locked)
  PROVE  Typed'
<1>1. /\ pc[t] = "idle" /\ file[t] = None
      /\ locked => filesys_lock = None
      /\ filesys_lock' = IF locked THEN t ELSE filesys_lock
      /\ GoTo(t, "release")
      /\ rel' = [rel EXCEPT ![t] = start[f]]
      /\ rest' = [rest EXCEPT ![t] = clst[f]]
      /\ Forget(f)
      /\ UNCHANGED <<fatVars, file, first, new>>
  BY DEF Release, Typed, Calls, CallOK
<1>2. InodeTypes'
  BY <1>1, PartsOfTyped, ClusterSets DEF InodeTypes, Forget, Data
<1>3. LocalTypes'
  <2>1. CallTypes'
    BY <1>1, GoToTypes DEF Typed
  <2>2. filesys_lock' \in Threads \cup {None}
    BY <1>1 DEF Typed, FieldTypes
  <2>3. \A u \in Threads : arg'[u] \in {0, 1} \cup Data
    BY <1>1 DEF Typed, FieldTypes, Numbers, GoTo
  <2> QED BY <1>1, <2>1, <2>2, <2>3, PartsOfTyped DEF LocalTypes, Data
<1>4. Ready(t)'
  BY <1>1 DEF Typed, FieldTypes, Ready, InCall, GoTo
<1>5. OthersKept(t)
  BY <1>1, ThreadAssumption DEF Typed, FieldTypes, OthersKept, GoTo
<1>6. TableTypes'
  <2>1. start[f] \in {0} \cup Data /\ clst[f] \in {0} \cup Data
        /\ start[f] \in Cluster /\ clst[f] \in Cluster
    BY PartsOfTyped DEF InodeTypes
  <2>2. /\ rel' \in [Threads -> Cluster \cup {EOChain}]
        /\ rest' \in [Threads -> Cluster \cup {EOChain}]
        /\ \A u \in Threads : /\ rel'[u] \in {0, 1, EOChain} \cup Data
                              /\ rest'[u] \in {0, EOChain} \cup Data
    BY <1>1, <2>1, PartsOfTyped DEF TableTypes
  <2> QED BY <1>1, <2>2, PartsOfTyped DEF TableTypes, Shape, Data, fatVars
<1>7. pc'[t] = "release"
  BY <1>1 DEF Typed, FieldTypes, GoTo
<1>8. \A u \in Threads \ {t} :
        /\ new'[u] = new[u] /\ rel'[u] = rel[u] /\ rest'[u] = rest[u]
        /\ fat' = fat
  BY <1>1 DEF Typed, FieldTypes, fatVars
<1> QED BY <1>2, <1>3, <1>4, <1>5, <1>6, <1>7, <1>8, TypedParts

\* A turn of fat_remove_chain keeps the types: it stays away from the magic
\* number of the root inode.
LEMMA RemoveTyped ==
  ASSUME Typed, NEW t \in Threads, fat_remove_chain(t)
  PROVE  Typed'
<1>1. /\ pc[t] = "release" /\ rel[t] # EOChain
      /\ fat' = [fat EXCEPT ![rel[t]] = 0]
      /\ rel' = [rel EXCEPT ![t] = fat[rel[t]]]
      /\ UNCHANGED <<last_clst, filesys_lock, inodeVars, callVars, pc, new, rest>>
  BY DEF fat_remove_chain
<1>2. rel[t] \in {0, 1} \cup Data /\ rel[t] \in Cluster
  BY <1>1, ClusterSets DEF Typed, Numbers
<1>3. fat[rel[t]] \in {0, 1, EOChain} \cup Data
  BY <1>2 DEF Typed, Shape
<1>4. fat[rel[t]] \in Cluster \cup {EOChain}
  BY <1>3, ClusterSets
<1>5. TableTypes'
  <2>1. fat' \in [Cluster -> Nat] /\ Shape'
    BY <1>1, <1>2, ClusterSets DEF Typed, FieldTypes, Shape
  <2>2. last_clst' \in Cluster /\ last_clst' \in {2} \cup Data
    BY <1>1, PartsOfTyped, ClusterSets DEF TableTypes
  <2>3. /\ rel' \in [Threads -> Cluster \cup {EOChain}]
        /\ \A u \in Threads : rel'[u] \in {0, 1, EOChain} \cup Data
    BY <1>1, <1>3, <1>4, PartsOfTyped DEF TableTypes
  <2> QED BY <1>1, <2>1, <2>2, <2>3, PartsOfTyped DEF TableTypes, Data
<1>6. InodeTypes' /\ LocalTypes'
  BY <1>1, PartsOfTyped DEF InodeTypes, LocalTypes, CallTypes, Data, inodeVars, callVars
<1>7. Ready(t)'
  BY <1>1 DEF Typed, Calls, CallOK, Ready, InCall, callVars
<1>8. OthersKept(t)
  BY <1>1 DEF OthersKept, callVars
<1>9. \A u \in Threads \ {t} :
        /\ new'[u] = new[u] /\ rel'[u] = rel[u] /\ rest'[u] = rest[u]
        /\ fat[new[u]] = 0 => fat'[new[u]] = 0
  BY <1>1 DEF Typed, FieldTypes
<1>10. pc'[t] = "release"
  BY <1>1
<1> QED BY <1>5, <1>6, <1>7, <1>8, <1>9, <1>10, TypedParts

\* Moving last_clst keeps the types.
LEMMA ResetTyped ==
  ASSUME Typed, NEW t \in Threads, ResetLast(t)
  PROVE  Typed'
<1>1. /\ last_clst' = 2 \/ last_clst' = last_clst
      /\ UNCHANGED <<fat, filesys_lock, inodeVars, callVars, pc, new, rel, rest>>
  BY DEF ResetLast
<1>2. last_clst' \in Cluster /\ last_clst' \in {2} \cup Data
  BY <1>1, PartsOfTyped, ClusterSets DEF TableTypes
<1>3. TableTypes' /\ InodeTypes' /\ LocalTypes'
  BY <1>1, <1>2, PartsOfTyped
     DEF TableTypes, InodeTypes, LocalTypes, CallTypes, Shape, Data, inodeVars, callVars
<1>4. FieldTypes' /\ Numbers'
  BY <1>3 DEF FieldTypes, Numbers, TableTypes, InodeTypes, LocalTypes, CallTypes
<1>5. Shape' /\ Calls'
  BY <1>1 DEF Typed, Shape, Data, Calls, CallOK, InCall, callVars
<1> QED BY <1>4, <1>5 DEF Typed

\* The end of a removal keeps the types.
LEMMA ReleasedTyped ==
  ASSUME Typed, NEW t \in Threads, Released(t)
  PROVE  Typed'
<1>1. /\ pc[t] = "release" /\ rel[t] = EOChain
      /\ rel' = [rel EXCEPT ![t] = rest[t]]
      /\ rest' = [rest EXCEPT ![t] = EOChain]
      /\ UNCHANGED <<fatVars, new>>
  BY DEF Released
<1>2. rest'[t] = EOChain
  BY <1>1 DEF Typed, FieldTypes
<1>3. TableTypes'
  <2>1. /\ rel' \in [Threads -> Cluster \cup {EOChain}]
        /\ rest' \in [Threads -> Cluster \cup {EOChain}]
        /\ \A u \in Threads : /\ rel'[u] \in {0, 1, EOChain} \cup Data
                              /\ rest'[u] \in {0, EOChain} \cup Data
    BY <1>1, PartsOfTyped DEF TableTypes
  <2> QED BY <1>1, <2>1, PartsOfTyped DEF TableTypes, Shape, Data, fatVars
<1>4. \A u \in Threads \ {t} :
        /\ new'[u] = new[u] /\ rel'[u] = rel[u] /\ rest'[u] = rest[u]
        /\ fat' = fat
  BY <1>1 DEF Typed, FieldTypes, fatVars
<1>5. InodeTypes' /\ LocalTypes' /\ Ready(t)' /\ OthersKept(t)
  <2>1. CASE UNCHANGED <<pc, callVars, filesys_lock, inodeVars>>
    <3>1. InodeTypes' /\ LocalTypes'
      BY <2>1, PartsOfTyped DEF InodeTypes, LocalTypes, CallTypes, Data, inodeVars, callVars
    <3>2. Ready(t)' /\ OthersKept(t)
      BY <1>1, <2>1 DEF Typed, Calls, CallOK, Ready, InCall, OthersKept, callVars
    <3> QED BY <3>1, <3>2
  <2>2. CASE Return(t) /\ UNCHANGED inodeVars
    <3>1. InodeTypes'
      BY <2>2, PartsOfTyped DEF InodeTypes, Data, inodeVars
    <3> QED BY <2>2, <3>1, ReturnFacts
  <2>3. CASE file[t] # None /\ Made(t, 0)
    <3>1. InCall(t)
      BY <1>1, <2>3 DEF InCall
    <3> QED BY <2>3, <3>1, MadeFacts
  <2>4. CASE file[t] # None /\ Fail(t)
    <3>1. InCall(t)
      BY <1>1, <2>4 DEF InCall
    <3> QED BY <2>4, <3>1, FailFacts
  <2> QED BY <2>1, <2>2, <2>3, <2>4 DEF Released
<1> QED BY <1>2, <1>3, <1>4, <1>5, TypedParts

\* Mounting again keeps the types.
LEMMA RebootTyped ==
  ASSUME Typed, Reboot
  PROVE  Typed'
<1>1. /\ last_clst' = 2
      /\ UNCHANGED <<fat, filesys_lock, pc, callVars, new, relVars>>
  BY DEF Reboot
<1>2. PICK found :
        /\ state' = [f \in Files |-> IF f \in found THEN state[f] ELSE "none"]
        /\ clst' = [f \in Files |-> IF f \in found THEN clst[f] ELSE 0]
        /\ start' = [f \in Files |-> IF f \in found THEN start[f] ELSE 0]
        /\ length' = [f \in Files |-> IF f \in found THEN length[f] ELSE 0]
  BY DEF Reboot
<1>3. InodeTypes'
  BY <1>2, PartsOfTyped, ClusterSets DEF InodeTypes
<1>4. FieldTypes' /\ Numbers'
  BY <1>1, <1>3, PartsOfTyped, ClusterSets
     DEF FieldTypes, Numbers, TableTypes, InodeTypes, LocalTypes, CallTypes, Data,
         callVars, relVars
<1>5. Shape' /\ Calls'
  BY <1>1 DEF Typed, Shape, Data, Calls, CallOK, InCall, callVars, relVars
<1> QED BY <1>4, <1>5 DEF Typed

\* Every step keeps the types.
LEMMA TypedStep ==
  ASSUME Typed, Exclusive, [Next]_vars
  PROVE  Typed'
<1>1. CASE UNCHANGED vars
  BY <1>1 DEF vars, Typed, FieldTypes, Shape, Numbers, Data, Calls, CallOK, InCall
<1>2. CASE Reboot
  BY <1>2, RebootTyped
<1>3. ASSUME NEW t \in Threads, Step(t) PROVE Typed'
  <2>1. CASE Continue(t)
    BY <2>1, FindTyped, ClaimInodeTyped, ClaimDataTyped, DirAddTyped,
       ClaimDirTyped, ClaimWriteTyped, WriteDataTyped, RemoveTyped, ResetTyped, ReleasedTyped
       DEF Continue
  <2> QED BY <1>3, <2>1, CreateTyped, WriteTyped, MkdirTyped, ReleaseTyped DEF Step
<1> QED BY <1>1, <1>2, <1>3 DEF Next

\* A turn of the allocation claims a cluster that is free, links it to the end
\* of a chain, and makes it last_clst; nothing else of the table changes.
LEMMA ClaimTable ==
  ASSUME Typed, NEW t \in Threads, pc[t] = "claim", fat_create_chain(t)
  PROVE  \/ fat' = fat /\ last_clst' = last_clst
         \/ /\ new[t] \in Data /\ fat[new[t]] = 0 /\ fat'[new[t]] = EOChain
            /\ last_clst' = new[t]
            /\ \A c \in Data \ {new[t]} :
                 fat'[c] # fat[c] => fat[c] = EOChain /\ fat'[c] = new[t]
<1>1. fat \in [Cluster -> Nat] /\ Data \subseteq Cluster
  BY ClusterSets DEF Typed, FieldTypes
<1>2. CASE /\ new[t] \in Data /\ fat[new[t]] = 0 /\ last_clst' = new[t]
           /\ fat' = [fat EXCEPT ![new[t]] = EOChain]
  BY <1>1, <1>2
<1>3. ASSUME NEW e \in Cluster, Linked(new[t], e),
             new[t] \in Data, fat[new[t]] = 0, last_clst' = new[t]
      PROVE  /\ fat'[new[t]] = EOChain
             /\ \A c \in Data \ {new[t]} :
                  fat'[c] # fat[c] => fat[c] = EOChain /\ fat'[c] = new[t]
  BY <1>1, <1>3, ClusterSets DEF Linked
<1> QED BY <1>2, <1>3, ClaimEffect

\* The steps that change the table.
LEMMA TableSteps ==
  ASSUME Typed, NEW t \in Threads, Step(t)
  PROVE  \/ pc[t] = "claim" /\ fat_create_chain(t)
         \/ fat_remove_chain(t)
         \/ ResetLast(t)
         \/ fat' = fat /\ last_clst' = last_clst
<1>1. CASE Continue(t)
  BY <1>1 DEF Continue, Find, ClaimInode, ClaimData, DirAdd, ClaimDir, ClaimWrite,
              WriteData, Released, fatVars
<1> QED BY <1>1 DEF Step, Create, Write, Mkdir, Release, fatVars

\* What a step does to the entries whose comparison with last_clst is to come.
LEMMA FreedSteps ==
  ASSUME Typed, NEW t \in Threads, Step(t)
  PROVE  \/ fat_remove_chain(t)
         \/ ResetLast(t)
         \/ freed' = freed
<1>1. CASE Continue(t)
  BY <1>1 DEF Continue, Find, ClaimInode, ClaimData, DirAdd, ClaimDir, ClaimWrite,
              WriteData, Released, relVars
<1> QED BY <1>1 DEF Step, Create, Write, Mkdir, Release, relVars

\* last_clst is allocated, or about to be moved.
LastInv == freed \in [Threads -> Cluster \cup {EOChain}] /\ LastAllocated

\* last_clst is allocated when the file system is mounted.
LEMMA LastInit == Init => LastInv
BY ClusterSets, TableAssumption DEF Init, LastInv, LastAllocated, FreeForLong

\* Every step leaves last_clst allocated, or is followed by one that moves it.
LEMMA LastStep ==
  ASSUME Typed, LastInv, [Next]_vars
  PROVE  LastInv'
<1>1. /\ fat \in [Cluster -> Nat] /\ last_clst \in Cluster
      /\ freed \in [Threads -> Cluster \cup {EOChain}]
  BY DEF Typed, FieldTypes, LastInv
<1>2. fat[2] # 0 /\ EOChain # 0 /\ EOChain \notin Cluster
  BY ClusterSets, TableAssumption DEF Typed, Shape
<1>3. CASE UNCHANGED vars
  BY <1>3 DEF vars, LastInv, LastAllocated, FreeForLong
<1>4. CASE Reboot
  BY <1>1, <1>2, <1>4 DEF Reboot, LastInv, LastAllocated, FreeForLong, relVars
<1>5. ASSUME NEW t \in Threads, Step(t) PROVE LastInv'
  <2>1. CASE fat_remove_chain(t)
    <3>1. rel[t] \in Cluster
      BY <1>1, <2>1 DEF Typed, FieldTypes, fat_remove_chain
    <3>2. freed' \in [Threads -> Cluster \cup {EOChain}] /\ freed'[t] = rel[t]
      BY <1>1, <2>1, <3>1 DEF fat_remove_chain
    <3>3. \A u \in Threads : freed[u] # EOChain => freed'[u] = freed[u]
      BY <1>1, <2>1 DEF fat_remove_chain
    <3>4. last_clst' = last_clst /\ (last_clst # rel[t] => fat'[last_clst] = fat[last_clst])
      BY <1>1, <2>1, <3>1 DEF fat_remove_chain
    <3> QED BY <1>1, <1>2, <3>2, <3>3, <3>4 DEF LastInv, LastAllocated, FreeForLong
  <2>2. CASE ResetLast(t)
    <3>1. freed' \in [Threads -> Cluster \cup {EOChain}] /\ fat' = fat
      BY <1>1, <2>2 DEF ResetLast
    <3>2. CASE last_clst = freed[t]
      BY <1>2, <2>2, <3>1, <3>2 DEF LastInv, LastAllocated, FreeForLong, ResetLast
    <3>3. CASE last_clst # freed[t]
      <4>1. last_clst' = last_clst /\ \A u \in Threads \ {t} : freed'[u] = freed[u]
        BY <1>1, <2>2, <3>3 DEF ResetLast
      <4> QED BY <3>1, <3>3, <4>1 DEF LastInv, LastAllocated, FreeForLong
    <3> QED BY <3>2, <3>3
  <2>3. CASE freed' = freed /\ pc[t] = "claim" /\ fat_create_chain(t)
    BY <1>1, <1>2, <2>3, ClaimTable DEF LastInv, LastAllocated, FreeForLong
  <2>4. CASE freed' = freed /\ fat' = fat /\ last_clst' = last_clst
    BY <2>4 DEF LastInv, LastAllocated, FreeForLong
  <2> QED BY <1>5, <2>1, <2>2, <2>3, <2>4, TableSteps, FreedSteps
<1> QED BY <1>3, <1>4, <1>5 DEF Next

\* Only a search takes a thread from "find" to "claim".
LEMMA OnlyFind ==
  ASSUME Typed, Next, NEW t \in Threads, pc[t] = "find", pc'[t] = "claim"
  PROVE  Find(t)
<1>1. pc \in [Threads -> {"idle", "find", "claim", "add", "write", "release",
                           "oob", "panic"}]
  BY DEF Typed, FieldTypes
<1>2. ~Reboot
  BY DEF Reboot, callVars
<1>3. PICK u \in Threads : Step(u)
  BY <1>2 DEF Next
<1>4. CASE Continue(u)
  <2>1. CASE Find(u)
    BY <1>1, <2>1 DEF Find
  <2>2. CASE ~Find(u)
    <3>1. \E w \in {"idle", "find", "add", "write", "release", "panic"} :
            pc' = pc \/ pc' = [pc EXCEPT ![u] = w]
      BY <1>4, <2>2 DEF Continue, ClaimInode, ClaimData, DirAdd, ClaimDir, ClaimWrite,
         WriteData, fat_remove_chain, ResetLast, Released, Made, Fail, Enter, Return, GoTo, Ask
    <3> QED BY <1>1, <3>1
  <2> QED BY <2>1, <2>2
<1>5. CASE ~Continue(u)
  <2>1. \E w \in {"find", "write", "release"} : pc' = [pc EXCEPT ![u] = w]
    BY <1>3, <1>5 DEF Step, Create, Write, Mkdir, Release, GoTo, Ask
  <2> QED BY <1>1, <2>1
<1> QED BY <1>4, <1>5

\* A search that returns 0 has seen every entry but last_clst, and that one is
\* in use or was freed just now.
LEMMA FindGivesUp ==
  ASSUME Typed, LastAllocated, 0 \in find_free_cluster
  PROVE  \A c \in 2 .. fat_length - 1 : ~FreeForLong(c)
<1>1. last_clst \in Int /\ last_clst >= 2 /\ last_clst < fat_length
  BY ClusterSets DEF Typed, Numbers
<1>2. fat_length \in Int
  BY TableAssumption
<1>3. {c \in last_clst + 1 .. fat_length - 1 : fat[c] = 0} = {}
  BY <1>1, <1>2 DEF find_free_cluster, FirstOf
<1>4. {c \in 2 .. last_clst - 1 : fat[c] = 0} = {}
  BY <1>1, <1>2, <1>3 DEF find_free_cluster, FirstOf
<1> SUFFICES ASSUME NEW c \in 2 .. fat_length - 1 PROVE ~FreeForLong(c)
  OBVIOUS
<1>5. c \in last_clst + 1 .. fat_length - 1 \/ c \in 2 .. last_clst - 1 \/ c = last_clst
  BY <1>1, <1>2
<1> QED BY <1>3, <1>4, <1>5 DEF LastAllocated, FreeForLong

\* What FullOnlyWhenFull says of one step.
LEMMA FullStep ==
  ASSUME Typed, LastAllocated, Next
  PROVE  \A t \in Threads :
           pc[t] = "find" /\ pc'[t] = "claim" /\ new'[t] = 0
             => \A c \in 2 .. fat_length - 1 : ~FreeForLong(c)
<1> SUFFICES ASSUME NEW t \in Threads, pc[t] = "find", pc'[t] = "claim", new'[t] = 0
             PROVE  \A c \in 2 .. fat_length - 1 : ~FreeForLong(c)
  OBVIOUS
<1>1. Find(t)
  BY OnlyFind
<1>2. \E c \in find_free_cluster : new' = [new EXCEPT ![t] = c]
  BY <1>1 DEF Find, Typed, FieldTypes
<1>3. 0 \in find_free_cluster
  BY <1>2 DEF Typed, FieldTypes
<1> QED BY <1>3, FindGivesUp

\* What AppendOnly says of one step.
LEMMA AppendStep ==
  ASSUME Typed, [Next]_vars
  PROVE  \A c \in Data : fat'[c] # fat[c] =>
           \/ fat[c] = 0 /\ fat'[c] = EOChain
           \/ fat[c] = EOChain /\ fat'[c] \in Data /\ fat[fat'[c]] = 0
           \/ fat'[c] = 0 /\ \E t \in Threads : Freeing(t) = c
<1> SUFFICES ASSUME NEW c \in Data, fat'[c] # fat[c]
             PROVE  \/ fat[c] = 0 /\ fat'[c] = EOChain
                    \/ fat[c] = EOChain /\ fat'[c] \in Data /\ fat[fat'[c]] = 0
                    \/ fat'[c] = 0 /\ \E t \in Threads : Freeing(t) = c
  OBVIOUS
<1>1. PICK t \in Threads : Step(t)
  BY DEF Next, Reboot, vars
<1>2. CASE pc[t] = "claim" /\ fat_create_chain(t)
  BY <1>2, ClaimTable
<1>3. CASE fat_remove_chain(t)
  BY <1>3, ClusterSets DEF Typed, FieldTypes, fat_remove_chain, Freeing
<1>4. CASE ResetLast(t)
  BY <1>4 DEF ResetLast
<1> QED BY <1>1, <1>2, <1>3, <1>4, TableSteps

-----------------------------------------------------------------------------
(* Who owns a cluster.                                                     *)

\* What each kind of place holds, before and after a step.
LEMMA PlaceValues ==
  /\ \A c : At(<<"fat", c>>) = fat[c] /\ At(<<"fat", c>>)' = fat'[c]
  /\ \A f : At(<<"clst", f>>) = clst[f] /\ At(<<"clst", f>>)' = clst'[f]
  /\ \A f : At(<<"start", f>>) = start[f] /\ At(<<"start", f>>)' = start'[f]
  /\ \A t : At(<<"building", t>>) = Building(t) /\ At(<<"building", t>>)' = Building(t)'
  /\ \A t : At(<<"freeing", t>>) = Freeing(t) /\ At(<<"freeing", t>>)' = Freeing(t)'
  /\ \A t : At(<<"waiting", t>>) = Waiting(t) /\ At(<<"waiting", t>>)' = Waiting(t)'
BY DEF At

\* The kinds of places.
LEMMA PlaceKinds ==
  /\ \A p \in Places :
       \/ \E c \in Cluster : p = <<"fat", c>>
       \/ \E f \in Files : p = <<"clst", f>>
       \/ \E f \in Files : p = <<"start", f>>
       \/ \E t \in Threads : p = <<"building", t>>
       \/ \E t \in Threads : p = <<"freeing", t>>
       \/ \E t \in Threads : p = <<"waiting", t>>
  /\ \A c \in Cluster : <<"fat", c>> \in Places
  /\ \A f \in Files : <<"clst", f>> \in Places /\ <<"start", f>> \in Places
  /\ \A t \in Threads : /\ <<"building", t>> \in Places
                        /\ <<"freeing", t>> \in Places
                        /\ <<"waiting", t>> \in Places
BY DEF Places

\* A step that keeps what the places other than those in X name.
Keeps(X) ==
  /\ \A c \in Cluster :
       fat'[c] \in Data => fat'[c] = fat[c] \/ <<"fat", c>> \in X
  /\ \A f \in Files :
       /\ clst'[f] \in Data => clst'[f] = clst[f] \/ <<"clst", f>> \in X
       /\ start'[f] \in Data => start'[f] = start[f] \/ <<"start", f>> \in X
  /\ \A t \in Threads :
       /\ Building(t)' \in Data => Building(t)' = Building(t) \/ <<"building", t>> \in X
       /\ Freeing(t)' \in Data => Freeing(t)' = Freeing(t) \/ <<"freeing", t>> \in X
       /\ Waiting(t)' \in Data => Waiting(t)' = Waiting(t) \/ <<"waiting", t>> \in X

\* What Keeps says of every place.
LEMMA KeepsPlaces ==
  ASSUME NEW X, Keeps(X)
  PROVE  \A p \in Places \ X : At(p)' \in Data => At(p)' = At(p)
<1> SUFFICES ASSUME NEW p \in Places \ X, At(p)' \in Data PROVE At(p)' = At(p)
  OBVIOUS
<1>1. CASE \E c \in Cluster : p = <<"fat", c>>
  BY <1>1, PlaceValues DEF Keeps
<1>2. CASE \E f \in Files : p = <<"clst", f>>
  BY <1>2, PlaceValues DEF Keeps
<1>3. CASE \E f \in Files : p = <<"start", f>>
  BY <1>3, PlaceValues DEF Keeps
<1>4. CASE \E t \in Threads : p = <<"building", t>>
  BY <1>4, PlaceValues DEF Keeps
<1>5. CASE \E t \in Threads : p = <<"freeing", t>>
  BY <1>5, PlaceValues DEF Keeps
<1>6. CASE \E t \in Threads : p = <<"waiting", t>>
  BY <1>6, PlaceValues DEF Keeps
<1> QED BY <1>1, <1>2, <1>3, <1>4, <1>5, <1>6, PlaceKinds

\* Ownership survives a step in which the clusters named at Q1 and Q2 move to
\* P1 and P2, and the other places keep theirs or drop them, provided that no
\* cluster still named becomes free.
LEMMA Moves ==
  ASSUME NoSharing, NoDangling,
         NEW P1, NEW P2, NEW Q1 \in Places, NEW Q2 \in Places, Q1 # Q2,
         \A p \in Places : At(p)' \in Data =>
           \/ p = P1 /\ At(p)' = At(Q1)
           \/ p = P2 /\ At(p)' = At(Q2)
           \/ p \notin {Q1, Q2} /\ At(p)' = At(p),
         \A c \in Data : fat[c] # 0 /\ fat'[c] = 0 => \A p \in Places : At(p)' # c
  PROVE  NoSharing' /\ NoDangling'
<1>0. Places' = Places /\ Data' = Data
  BY DEF Places, Cluster, Data, FirstFree
<1>1. ASSUME NEW p \in Places, NEW q \in Places, At(p)' \in Data, At(p)' = At(q)'
      PROVE  p = q
  BY <1>1 DEF NoSharing
<1>2. ASSUME NEW p \in Places, At(p)' \in Data
      PROVE  fat'[At(p)'] # 0
  <2>1. fat[At(p)'] # 0
    BY <1>2 DEF NoDangling
  <2> QED BY <1>2, <2>1
<1>3. NoSharing'
  BY <1>0, <1>1 DEF NoSharing
<1>4. NoDangling'
  BY <1>0, <1>2 DEF NoDangling
<1> QED BY <1>3, <1>4

\* Ownership survives a step in which P0 gets a cluster n that was free, the
\* cluster named at Q1 moves to P1, and the other places keep theirs or drop
\* them.
LEMMA NewAndMoved ==
  ASSUME NoSharing, NoDangling,
         NEW n, NEW P0, NEW P1, NEW Q1 \in Places,
         fat[n] = 0, fat'[n] # 0, At(P0)' = n,
         \A p \in Places : At(p)' \in Data =>
           \/ p = P0
           \/ p = P1 /\ At(p)' = At(Q1)
           \/ p # Q1 /\ At(p)' = At(p),
         \A c \in Data : fat[c] # 0 => fat'[c] # 0
  PROVE  NoSharing' /\ NoDangling'
<1>0. Places' = Places /\ Data' = Data
  BY DEF Places, Cluster, Data, FirstFree
<1>1. ASSUME NEW p \in Places, p # P0, At(p)' \in Data
      PROVE  fat[At(p)'] # 0
  BY <1>1 DEF NoDangling
<1>2. ASSUME NEW p \in Places, NEW q \in Places, At(p)' \in Data, At(p)' = At(q)'
      PROVE  p = q
  <2>1. CASE p = P0 \/ q = P0
    BY <1>1, <1>2, <2>1
  <2>2. CASE p # P0 /\ q # P0
    BY <1>2, <2>2 DEF NoSharing
  <2> QED BY <2>1, <2>2
<1>3. ASSUME NEW p \in Places, At(p)' \in Data
      PROVE  fat'[At(p)'] # 0
  BY <1>1, <1>3
<1>4. NoSharing'
  BY <1>0, <1>2 DEF NoSharing
<1>5. NoDangling'
  BY <1>0, <1>3 DEF NoDangling
<1> QED BY <1>4, <1>5

\* The case in which no place gets a cluster.
LEMMA NothingNew ==
  ASSUME NoSharing, NoDangling, Keeps({}),
         \A c \in Data : fat[c] # 0 => fat'[c] # 0
  PROVE  NoSharing' /\ NoDangling'
<1>0. Places' = Places /\ Data' = Data
  BY DEF Places, Cluster, Data, FirstFree
<1>1. \A p \in Places : At(p)' \in Data => At(p)' = At(p)
  BY KeepsPlaces
<1>2. NoSharing'
  BY <1>0, <1>1 DEF NoSharing
<1>3. NoDangling'
  BY <1>0, <1>1 DEF NoDangling
<1> QED BY <1>2, <1>3

\* The case in which one place gets a cluster that was free.
LEMMA OneNew ==
  ASSUME NoSharing, NoDangling, NEW P0 \in Places, Keeps({P0}),
         NEW n, At(P0)' = n, fat[n] = 0, fat'[n] # 0,
         \A c \in Data : fat[c] # 0 => fat'[c] # 0
  PROVE  NoSharing' /\ NoDangling'
<1>0. Places' = Places /\ Data' = Data
  BY DEF Places, Cluster, Data, FirstFree
<1>1. \A p \in Places \ {P0} : At(p)' \in Data => At(p)' = At(p)
  BY KeepsPlaces
<1>2. \A p \in Places \ {P0} : At(p)' \in Data => fat[At(p)'] # 0
  BY <1>1 DEF NoDangling
<1>3. NoSharing'
  <2> SUFFICES ASSUME NEW p \in Places, NEW q \in Places, At(p)' \in Data, At(p)' = At(q)'
               PROVE  p = q
    BY <1>0 DEF NoSharing
  <2>1. CASE p = P0 \/ q = P0
    BY <1>2, <2>1
  <2>2. CASE p # P0 /\ q # P0
    BY <1>1, <2>2 DEF NoSharing
  <2> QED BY <2>1, <2>2
<1>4. NoDangling'
  <2> SUFFICES ASSUME NEW p \in Places, At(p)' \in Data PROVE fat'[At(p)'] # 0
    BY <1>0 DEF NoDangling
  <2> QED BY <1>2
<1> QED BY <1>3, <1>4

\* Nothing is owned on a new file system.
LEMMA OwnedInit == Init => NoSharing /\ NoDangling
<1> SUFFICES ASSUME Init, NEW p \in Places PROVE At(p) \notin Data
  BY DEF NoSharing, NoDangling
<1>0. \A c \in {0, 1, INODE_MAGIC, EOChain} : c \notin Data
  BY ClusterSets, TableAssumption
<1>1. CASE \E c \in Cluster : p = <<"fat", c>>
  BY <1>0, <1>1, PlaceValues DEF Init, ROOT_DIR_CLUSTER
<1>2. CASE \E f \in Files : p = <<"clst", f>> \/ p = <<"start", f>>
  BY <1>0, <1>2, PlaceValues DEF Init
<1>3. CASE \E t \in Threads : \/ p = <<"building", t>> \/ p = <<"freeing", t>>
                              \/ p = <<"waiting", t>>
  BY <1>0, <1>3, PlaceValues DEF Init, Building, Freeing, Waiting
<1> QED BY <1>1, <1>2, <1>3, PlaceKinds

\* A step of t changes no place of another thread.
LEMMA OtherThreads ==
  ASSUME Typed, NEW t \in Threads, Step(t), NEW u \in Threads \ {t}
  PROVE  /\ Building(u)' = Building(u)
         /\ Freeing(u)' = Freeing(u)
         /\ Waiting(u)' = Waiting(u)
<1>0. /\ DOMAIN pc = Threads /\ DOMAIN goal = Threads /\ DOMAIN first = Threads
      /\ DOMAIN rel = Threads /\ DOMAIN rest = Threads
      /\ pc = [v \in Threads |-> pc[v]] /\ goal = [v \in Threads |-> goal[v]]
      /\ first = [v \in Threads |-> first[v]]
      /\ rel = [v \in Threads |-> rel[v]] /\ rest = [v \in Threads |-> rest[v]]
  BY DEF Typed, FieldTypes
<1>1. CASE Continue(t)
  <2>1. pc'[u] = pc[u]
    BY <1>0, <1>1 DEF Continue, Find, ClaimInode, ClaimData, DirAdd, ClaimDir,
       ClaimWrite, WriteData, fat_remove_chain, ResetLast, Released, Made, Fail, Enter,
       Return, GoTo, Ask
  <2>2. goal'[u] = goal[u]
    BY <1>0, <1>1 DEF Continue, Find, ClaimInode, ClaimData, DirAdd, ClaimDir,
       ClaimWrite, WriteData, fat_remove_chain, ResetLast, Released, Made, Fail, Enter,
       Return, GoTo, Ask, callVars
  <2>3. first'[u] = first[u]
    BY <1>0, <1>1 DEF Continue, Find, ClaimInode, ClaimData, DirAdd, ClaimDir,
       ClaimWrite, WriteData, fat_remove_chain, ResetLast, Released, Made, Fail, Enter,
       Return, GoTo, Ask, callVars
  <2>4. rel'[u] = rel[u] /\ rest'[u] = rest[u]
    BY <1>0, <1>1 DEF Continue, Find, ClaimInode, ClaimData, DirAdd, ClaimDir,
       ClaimWrite, WriteData, fat_remove_chain, ResetLast, Released, relVars
  <2> QED BY <2>1, <2>2, <2>3, <2>4 DEF Building, Freeing, Waiting
<1>2. CASE ~Continue(t)
  <2>1. pc'[u] = pc[u] /\ goal'[u] = goal[u] /\ first'[u] = first[u]
    BY <1>0, <1>2 DEF Step, Create, Write, Mkdir, Release, GoTo, Ask
  <2>2. rel'[u] = rel[u] /\ rest'[u] = rest[u]
    BY <1>0, <1>2 DEF Step, Create, Write, Mkdir, Release, GoTo, Ask, relVars
  <2> QED BY <2>1, <2>2 DEF Building, Freeing, Waiting
<1> QED BY <1>1, <1>2

\* The places of other threads need not be looked at.
LEMMA KeepsStep ==
  ASSUME Typed, NEW t \in Threads, Step(t), NEW X,
         \A c \in Cluster :
           fat'[c] \in Data => fat'[c] = fat[c] \/ <<"fat", c>> \in X,
         \A f \in Files :
           /\ clst'[f] \in Data => clst'[f] = clst[f] \/ <<"clst", f>> \in X
           /\ start'[f] \in Data => start'[f] = start[f] \/ <<"start", f>> \in X,
         Building(t)' \in Data => Building(t)' = Building(t) \/ <<"building", t>> \in X,
         Freeing(t)' \in Data => Freeing(t)' = Freeing(t) \/ <<"freeing", t>> \in X,
         Waiting(t)' \in Data => Waiting(t)' = Waiting(t) \/ <<"waiting", t>> \in X
  PROVE  Keeps(X)
BY OtherThreads DEF Keeps

\* A thread that is not allocating data and not releasing names no cluster.
LEMMA NoPlaces ==
  ASSUME NEW t \in Threads, pc'[t] # "release",
         pc'[t] \in {"find", "claim"} => goal'[t] # "data"
  PROVE  Building(t)' \notin Data /\ Freeing(t)' \notin Data /\ Waiting(t)' \notin Data
<1>1. 0 \notin Data
  BY ClusterSets
<1> QED BY <1>1 DEF Building, Freeing, Waiting

\* What the locals of t are after Ask, GoTo and Return.
LEMMA AfterCalls ==
  ASSUME Typed, NEW t \in Threads
  PROVE  /\ \A g, n, a, s : Ask(t, g, n, a, s) =>
              pc'[t] = "find" /\ goal'[t] = g /\ first'[t] = s
         /\ \A w : GoTo(t, w) => pc'[t] = w
         /\ Return(t) => pc'[t] = "idle"
BY DEF Typed, FieldTypes, Ask, GoTo, Return

\* The steps that hand no cluster to anyone keep ownership: the beginning of a
\* call, the search, the entry in the directory and the copying of the data.
LEMMA PlainOwned ==
  ASSUME Typed, NoSharing, NoDangling, NEW t \in Threads, Step(t),
         fat' = fat,
         \A f \in Files : /\ clst'[f] \in {0, clst[f]}
                          /\ start'[f] \in {0, start[f]},
         pc'[t] # "release",
         pc'[t] \in {"find", "claim"} /\ goal'[t] = "data" => Building(t)' = Building(t)
  PROVE  NoSharing' /\ NoDangling'
<1>1. 0 \notin Data
  BY ClusterSets
<1>2. Building(t)' \in Data => Building(t)' = Building(t)
  BY <1>1 DEF Building
<1>3. Freeing(t)' \notin Data /\ Waiting(t)' \notin Data
  BY <1>1 DEF Freeing, Waiting
<1>4. Keeps({})
  BY <1>1, <1>2, <1>3, KeepsStep
<1> QED BY <1>4, NothingNew

\* The beginning of a call.
LEMMA BeginOwned ==
  ASSUME Typed, NoSharing, NoDangling, NEW t \in Threads, Step(t), NEW f \in Files,
         \/ \E size \in Sizes : Create(t, f, size)
         \/ \E n \in Grow : Write(t, f, n)
         \/ Mkdir(t, f)
  PROVE  NoSharing' /\ NoDangling'
<1>1. fat' = fat /\ clst' = clst /\ start' = start
  BY DEF Create, Write, Mkdir, fatVars
<1>2. /\ pc'[t] \in {"find", "write"}
      /\ pc'[t] = "find" => goal'[t] # "data"
  BY AfterCalls DEF Create, Write, Mkdir
<1> QED BY <1>1, <1>2, PlainOwned

\* The search, the entry in the directory and the copying of the data.
LEMMA MiddleOwned ==
  ASSUME Typed, NoSharing, NoDangling, NEW t \in Threads, Step(t),
         Find(t) \/ DirAdd(t) \/ WriteData(t)
  PROVE  NoSharing' /\ NoDangling'
<1>1. fat' = fat
  BY DEF Find, DirAdd, WriteData, fatVars
<1>2. \A f \in Files : clst'[f] \in {0, clst[f]} /\ start'[f] \in {0, start[f]}
  <2>1. CASE inodeVars' = inodeVars
    BY <2>1 DEF inodeVars
  <2>2. CASE Enter(t)
    BY <2>2 DEF Enter
  <2>3. CASE Forget(file[t])
    BY <2>3 DEF Forget, Typed, FieldTypes
  <2> QED BY <2>1, <2>2, <2>3 DEF Find, DirAdd, WriteData
<1>3. CASE Find(t)
  <2>1. pc'[t] \in {"oob", "claim"} /\ pc[t] = "find"
    BY <1>3 DEF Find, Typed, FieldTypes
  <2>2. goal' = goal /\ first' = first
    BY <1>3 DEF Find, callVars
  <2>3. pc'[t] = "claim" => Building(t)' = Building(t)
    BY <2>1, <2>2 DEF Building
  <2> QED BY <1>1, <1>2, <2>1, <2>3, PlainOwned
<1>4. CASE DirAdd(t) \/ WriteData(t)
  <2>1. \/ Return(t) \/ Ask(t, "dir", 1, ROOT_DIR_CLUSTER, 0)
        \/ GoTo(t, "panic")
    BY <1>4 DEF DirAdd, WriteData, Enter
  <2>2. /\ pc'[t] \in {"idle", "find", "panic"}
        /\ pc'[t] = "find" => goal'[t] # "data"
    BY <2>1, AfterCalls
  <2> QED BY <1>1, <1>2, <2>2, PlainOwned
<1> QED BY <1>3, <1>4

\* Mounting again.
LEMMA RebootOwned ==
  ASSUME Typed, NoSharing, NoDangling, Reboot
  PROVE  NoSharing' /\ NoDangling'
<1>1. 0 \notin Data
  BY ClusterSets
<1>2. fat' = fat /\ UNCHANGED <<pc, goal, first, rel, rest>>
  BY DEF Reboot, callVars, relVars
<1>3. \A f \in Files : clst'[f] \in {0, clst[f]} /\ start'[f] \in {0, start[f]}
  BY DEF Reboot
<1>4. \A t \in Threads : /\ Building(t)' = Building(t)
                         /\ Freeing(t)' = Freeing(t) /\ Waiting(t)' = Waiting(t)
  BY <1>2 DEF Building, Freeing, Waiting
<1>5. Keeps({})
  BY <1>1, <1>2, <1>3, <1>4 DEF Keeps
<1> QED BY <1>2, <1>5, NothingNew

\* The last close of a removed inode moves its clusters from the inode to the
\* call that gives them back.
LEMMA ReleaseOwned ==
  ASSUME Typed, NoSharing, NoDangling, NEW t \in Threads, Step(t),
         NEW f \in Files, NEW locked \in BOOLEAN, Release(t, f, locked)
  PROVE  NoSharing' /\ NoDangling'
<1> DEFINE Q1 == <<"start", f>>
           Q2 == <<"clst", f>>
           P1 == <<"freeing", t>>
           P2 == <<"waiting", t>>
<1>1. /\ fat' = fat /\ Forget(f)
      /\ rel' = [rel EXCEPT ![t] = start[f]]
      /\ rest' = [rest EXCEPT ![t] = clst[f]]
      /\ pc'[t] = "release"
  BY AfterCalls DEF Release, fatVars
<1>2. 0 \notin Data
  BY ClusterSets
<1>3. /\ start'[f] = 0 /\ clst'[f] = 0
      /\ \A g \in Files \ {f} : start'[g] = start[g] /\ clst'[g] = clst[g]
  BY <1>1 DEF Forget, Typed, FieldTypes
<1>4. Building(t)' = 0 /\ Freeing(t)' = start[f] /\ Waiting(t)' = clst[f]
  BY <1>1 DEF Building, Freeing, Waiting, Typed, FieldTypes
<1>5. Keeps({P1, P2, Q1, Q2})
  BY <1>1, <1>2, <1>3, <1>4, KeepsStep
<1>6. /\ At(Q1) = start[f] /\ At(Q2) = clst[f]
      /\ At(Q1)' = 0 /\ At(Q2)' = 0
      /\ At(P1)' = start[f] /\ At(P2)' = clst[f]
  BY <1>3, <1>4, PlaceValues
<1>7. Q1 \in Places /\ Q2 \in Places /\ Q1 # Q2
  BY PlaceKinds
<1> HIDE DEF Q1, Q2, P1, P2
<1>8. \A p \in Places : At(p)' \in Data =>
        \/ p = P1 /\ At(p)' = At(Q1)
        \/ p = P2 /\ At(p)' = At(Q2)
        \/ p \notin {Q1, Q2} /\ At(p)' = At(p)
  BY <1>2, <1>5, <1>6, KeepsPlaces
<1>9. \A c \in Data : ~(fat[c] # 0 /\ fat'[c] = 0)
  BY <1>1
<1> QED BY <1>7, <1>8, <1>9, Moves

\* A turn of fat_remove_chain moves the rest of the chain from the entry it
\* clears to the loop, and nothing names the cluster it frees.
LEMMA RemoveOwned ==
  ASSUME Typed, NoSharing, NoDangling, NEW t \in Threads, Step(t), fat_remove_chain(t)
  PROVE  NoSharing' /\ NoDangling'
<1>0. PICK r : r = rel[t]
  OBVIOUS
<1> DEFINE Q1 == <<"fat", r>>
           P1 == <<"freeing", t>>
           Q2 == <<"waiting", t>>
<1>1. /\ pc[t] = "release" /\ r # EOChain
      /\ fat' = [fat EXCEPT ![r] = 0]
      /\ rel' = [rel EXCEPT ![t] = fat[r]]
      /\ UNCHANGED <<clst, start, goal, first, pc, rest>>
  BY <1>0 DEF fat_remove_chain, inodeVars, callVars
<1>2. 0 \notin Data /\ r \in Cluster
  BY <1>0, <1>1, ClusterSets DEF Typed, FieldTypes
<1>3. fat'[r] = 0 /\ \A c \in Cluster \ {r} : fat'[c] = fat[c]
  BY <1>1, <1>2 DEF Typed, FieldTypes
<1>4. /\ Building(t)' = Building(t) /\ Waiting(t)' = Waiting(t)
      /\ Freeing(t) = r /\ Freeing(t)' = fat[r]
  BY <1>0, <1>1 DEF Building, Freeing, Waiting, Typed, FieldTypes
<1>5. Keeps({P1})
  <2>1. \A c \in Cluster : fat'[c] \in Data => fat'[c] = fat[c]
    BY <1>2, <1>3
  <2> QED BY <1>1, <1>4, <2>1, KeepsStep
<1>6. /\ At(Q1) = fat[r] /\ At(Q1)' = 0 /\ At(P1) = r /\ At(P1)' = fat[r]
      /\ At(Q2)' = At(Q2)
  BY <1>3, <1>4, PlaceValues
<1>7. Q1 \in Places /\ Q2 \in Places /\ P1 \in Places /\ Q1 # Q2 /\ Q1 # P1
  BY <1>2, PlaceKinds
<1> HIDE DEF Q1, Q2, P1
<1>8. \A p \in Places : At(p)' \in Data =>
        \/ p = P1 /\ At(p)' = At(Q1)
        \/ p = Q2 /\ At(p)' = At(Q2)
        \/ p \notin {Q1, Q2} /\ At(p)' = At(p)
  BY <1>2, <1>5, <1>6, KeepsPlaces
<1>9. \A c \in Data : fat[c] # 0 /\ fat'[c] = 0 => \A p \in Places : At(p)' # c
  <2> SUFFICES ASSUME NEW c \in Data, fat[c] # 0, fat'[c] = 0,
                      NEW p \in Places, At(p)' = c
               PROVE  FALSE
    OBVIOUS
  <2>1. c = r
    BY <1>3, ClusterSets
  <2>2. p # P1 => At(p) = r
    BY <1>5, <2>1, KeepsPlaces
  <2>3. p = P1 => At(Q1) = r
    BY <1>6, <2>1
  <2> QED BY <1>6, <1>7, <2>1, <2>2, <2>3 DEF NoSharing
<1> QED BY <1>7, <1>8, <1>9, Moves

\* Moving last_clst moves no cluster.
LEMMA ResetOwned ==
  ASSUME Typed, NoSharing, NoDangling, NEW t \in Threads, ResetLast(t)
  PROVE  NoSharing' /\ NoDangling'
<1>1. UNCHANGED <<fat, clst, start, pc, goal, first, rel, rest>>
  BY DEF ResetLast, inodeVars, callVars
<1>2. Keeps({})
  BY <1>1 DEF Keeps, Building, Freeing, Waiting
<1> QED BY <1>1, <1>2, NothingNew

\* The end of a removal: the cluster of the inode comes next, or nothing does.
LEMMA ReleasedOwned ==
  ASSUME Typed, NoSharing, NoDangling, NEW t \in Threads, Step(t), Released(t)
  PROVE  NoSharing' /\ NoDangling'
<1>1. /\ pc[t] = "release" /\ fat' = fat
      /\ rel' = [rel EXCEPT ![t] = rest[t]]
      /\ rest' = [rest EXCEPT ![t] = EOChain]
  BY DEF Released, fatVars
<1>2. EOChain \notin Data /\ 0 \notin Data
  BY ClusterSets
<1>3. CASE UNCHANGED <<pc, callVars, filesys_lock, inodeVars>>
  <2> DEFINE Q1 == <<"waiting", t>>
             P1 == <<"freeing", t>>
             Q2 == <<"building", t>>
  <2>1. /\ Building(t)' = Building(t)
        /\ Waiting(t) = rest[t] /\ Waiting(t)' = EOChain /\ Freeing(t)' = rest[t]
    BY <1>1, <1>3 DEF Building, Freeing, Waiting, callVars, Typed, FieldTypes
  <2>2. Keeps({P1})
    BY <1>1, <1>2, <1>3, <2>1, KeepsStep DEF inodeVars
  <2>3. /\ At(Q1) = rest[t] /\ At(Q1)' = EOChain /\ At(P1)' = rest[t]
        /\ At(Q2)' = At(Q2)
    BY <2>1, PlaceValues
  <2>4. Q1 \in Places /\ Q2 \in Places /\ Q1 # Q2
    BY PlaceKinds
  <2> HIDE DEF Q1, Q2, P1
  <2>5. \A p \in Places : At(p)' \in Data =>
          \/ p = P1 /\ At(p)' = At(Q1)
          \/ p = Q2 /\ At(p)' = At(Q2)
          \/ p \notin {Q1, Q2} /\ At(p)' = At(p)
    BY <1>2, <2>2, <2>3, KeepsPlaces
  <2>6. \A c \in Data : ~(fat[c] # 0 /\ fat'[c] = 0)
    BY <1>1
  <2> QED BY <2>4, <2>5, <2>6, Moves
<1>4. CASE Return(t) /\ UNCHANGED inodeVars
  BY <1>1, <1>4, AfterCalls, PlainOwned DEF inodeVars
<1>5. CASE Made(t, 0)
  <2>1. \A f \in Files : clst'[f] = clst[f] /\ start'[f] \in {0, start[f]}
    BY <1>5 DEF Made, Zero
  <2>2. pc'[t] = "add"
    BY <1>5, AfterCalls DEF Made
  <2> QED BY <1>1, <2>1, <2>2, PlainOwned
<1>6. CASE Fail(t)
  <2>1. \A f \in Files : clst'[f] \in {0, clst[f]} /\ start'[f] \in {0, start[f]}
    BY <1>6 DEF Fail, Forget, Typed, FieldTypes
  <2>2. pc'[t] \in {"idle", "panic"}
    BY <1>6, AfterCalls DEF Fail
  <2> QED BY <1>1, <2>1, <2>2, PlainOwned
<1> QED BY <1>3, <1>4, <1>5, <1>6 DEF Released

\* What a claim does to the places of the table.
LEMMA ClaimPlaces ==
  ASSUME Typed, NEW t \in Threads, pc[t] = "claim", fat_create_chain(t)
  PROVE  /\ \A c \in Data : fat[c] # 0 => fat'[c] # 0
         /\ new[t] # 0 => new[t] \in Data /\ fat[new[t]] = 0 /\ fat'[new[t]] # 0
         /\ \/ \A c \in Cluster : fat'[c] \in Data => fat'[c] = fat[c]
            \/ /\ arg[t] # 0 /\ new[t] # 0
               /\ \E e \in Cluster : /\ fat'[e] = new[t]
                                     /\ \A c \in Cluster \ {e} :
                                          fat'[c] \in Data => fat'[c] = fat[c]
<1>1. /\ fat \in [Cluster -> Nat] /\ Data \subseteq Cluster
      /\ EOChain # 0 /\ EOChain \notin Data /\ 0 \notin Data
  BY ClusterSets, TableAssumption DEF Typed, FieldTypes
<1>2. CASE new[t] = 0 /\ fat' = fat
  BY <1>2
<1>3. CASE /\ new[t] \in Data /\ fat[new[t]] = 0
           /\ fat' = [fat EXCEPT ![new[t]] = EOChain]
  BY <1>1, <1>3
<1>4. ASSUME NEW e \in Cluster, Linked(new[t], e), arg[t] # 0,
             new[t] \in Data, fat[new[t]] = 0
      PROVE  /\ \A c \in Data : fat[c] # 0 => fat'[c] # 0
             /\ fat'[new[t]] # 0
             /\ fat'[e] = new[t]
             /\ \A c \in Cluster \ {e} : fat'[c] \in Data => fat'[c] = fat[c]
  BY <1>1, <1>4 DEF Linked
<1> QED BY <1>1, <1>2, <1>3, <1>4, ClaimEffect

\* A claim that names the new cluster in the table or nowhere.
LEMMA ClaimLinks ==
  ASSUME Typed, NoSharing, NoDangling, NEW t \in Threads, Step(t),
         pc[t] = "claim", fat_create_chain(t),
         \A f \in Files : clst'[f] \in {0, clst[f]} /\ start'[f] \in {0, start[f]},
         Building(t)' \in Data => Building(t)' = Building(t),
         Freeing(t)' \notin Data, Waiting(t)' \notin Data
  PROVE  NoSharing' /\ NoDangling'
<1>1. 0 \notin Data
  BY ClusterSets
<1>2. CASE \A c \in Cluster : fat'[c] \in Data => fat'[c] = fat[c]
  <2>1. Keeps({})
    BY <1>1, <1>2, KeepsStep
  <2> QED BY <2>1, ClaimPlaces, NothingNew
<1>3. ASSUME NEW e \in Cluster, new[t] # 0, fat'[e] = new[t],
             \A c \in Cluster \ {e} : fat'[c] \in Data => fat'[c] = fat[c]
      PROVE  NoSharing' /\ NoDangling'
  <2>1. Keeps({<<"fat", e>>})
    BY <1>1, <1>3, KeepsStep
  <2>2. <<"fat", e>> \in Places /\ At(<<"fat", e>>)' = new[t]
    BY <1>3, PlaceKinds, PlaceValues
  <2> QED BY <1>3, <2>1, <2>2, ClaimPlaces, OneNew
<1> QED BY <1>2, <1>3, ClaimPlaces

\* A claim that begins a chain, named at P0, which is not in the table.
LEMMA ClaimBegins ==
  ASSUME Typed, NoSharing, NoDangling, NEW t \in Threads, Step(t),
         pc[t] = "claim", fat_create_chain(t), arg[t] = 0, new[t] # 0,
         NEW P0 \in Places, At(P0)' = new[t],
         \A f \in Files :
           /\ clst'[f] \in Data => clst'[f] = clst[f] \/ <<"clst", f>> \in {P0}
           /\ start'[f] \in Data => start'[f] = start[f] \/ <<"start", f>> \in {P0},
         Building(t)' \in Data =>
           Building(t)' = Building(t) \/ <<"building", t>> \in {P0},
         Freeing(t)' \notin Data, Waiting(t)' \notin Data
  PROVE  NoSharing' /\ NoDangling'
<1>1. \A c \in Cluster : fat'[c] \in Data => fat'[c] = fat[c]
  BY ClaimPlaces
<1>2. Keeps({P0})
  BY <1>1, KeepsStep
<1> QED BY <1>2, ClaimPlaces, OneNew

\* The cluster of an inode.
LEMMA ClaimInodeOwned ==
  ASSUME Typed, NoSharing, NoDangling, NEW t \in Threads, Step(t), ClaimInode(t)
  PROVE  NoSharing' /\ NoDangling'
<1>0. PICK f : f = file[t]
  OBVIOUS
<1>1. /\ pc[t] = "claim" /\ goal[t] \in {"inode", "mkdir"} /\ fat_create_chain(t)
      /\ arg[t] = 0 /\ f \in Files
  BY <1>0 DEF ClaimInode, Typed, Calls, CallOK, InCall
<1>2. CASE Fail(t)
  <2>1. \A g \in Files : clst'[g] \in {0, clst[g]} /\ start'[g] \in {0, start[g]}
    BY <1>2 DEF Fail, Forget, Typed, FieldTypes
  <2>2. pc'[t] \in {"idle", "panic"}
    BY <1>2, AfterCalls DEF Fail
  <2>3. Building(t)' \notin Data /\ Freeing(t)' \notin Data /\ Waiting(t)' \notin Data
    BY <2>2, NoPlaces
  <2> QED BY <1>1, <2>1, <2>3, ClaimLinks
<1>3. CASE /\ clst' = [clst EXCEPT ![f] = new[t]] /\ start' = start
           /\ GoTo(t, "add") \/ \E n : Ask(t, "data", n, 0, 0)
  <2>1. \/ pc'[t] = "add"
        \/ pc'[t] = "find" /\ goal'[t] = "data" /\ first'[t] = 0
    BY <1>3, AfterCalls
  <2>2. Building(t)' \notin Data /\ Freeing(t)' \notin Data /\ Waiting(t)' \notin Data
    BY <2>1, ClusterSets DEF Building, Freeing, Waiting
  <2>3. clst'[f] = new[t] /\ \A g \in Files \ {f} : clst'[g] = clst[g]
    BY <1>1, <1>3 DEF Typed, FieldTypes
  <2>4. CASE new[t] = 0
    BY <1>1, <1>3, <2>2, <2>3, <2>4, ClaimLinks
  <2>5. CASE new[t] # 0
    <3>1. <<"clst", f>> \in Places /\ At(<<"clst", f>>)' = new[t]
      BY <1>1, <2>3, PlaceKinds, PlaceValues
    <3> QED BY <1>1, <1>3, <2>2, <2>3, <2>5, <3>1, ClaimBegins
  <2> QED BY <2>4, <2>5
<1> QED BY <1>0, <1>2, <1>3 DEF ClaimInode

\* The growth of the root directory.
LEMMA ClaimDirOwned ==
  ASSUME Typed, NoSharing, NoDangling, NEW t \in Threads, Step(t), ClaimDir(t)
  PROVE  NoSharing' /\ NoDangling'
<1>1. pc[t] = "claim" /\ fat_create_chain(t) /\ clst' = clst /\ start' = start
  BY DEF ClaimDir, Enter, inodeVars
<1>2. pc'[t] \in {"idle", "panic"}
  BY AfterCalls DEF ClaimDir, Enter
<1>3. Building(t)' \notin Data /\ Freeing(t)' \notin Data /\ Waiting(t)' \notin Data
  BY <1>2, NoPlaces
<1> QED BY <1>1, <1>3, ClaimLinks

\* The clusters of a write.
LEMMA ClaimWriteOwned ==
  ASSUME Typed, NoSharing, NoDangling, NEW t \in Threads, Step(t), ClaimWrite(t)
  PROVE  NoSharing' /\ NoDangling'
<1>0. PICK f : f = file[t]
  OBVIOUS
<1>1. /\ pc[t] = "claim" /\ goal[t] \in {"head", "extend"} /\ fat_create_chain(t)
      /\ clst' = clst /\ f \in Files
      /\ start' = [start EXCEPT ![f] = IF goal[t] = "head" THEN new[t] ELSE start[f]]
  BY <1>0 DEF ClaimWrite, Typed, Calls, CallOK, InCall
<1>2. \/ pc'[t] = "find" /\ goal'[t] = "extend"
      \/ pc'[t] = "write"
  BY AfterCalls DEF ClaimWrite
<1>3. Building(t)' \notin Data /\ Freeing(t)' \notin Data /\ Waiting(t)' \notin Data
  BY <1>2, NoPlaces
<1>4. /\ start'[f] = IF goal[t] = "head" THEN new[t] ELSE start[f]
      /\ \A g \in Files \ {f} : start'[g] = start[g]
  BY <1>1 DEF Typed, FieldTypes
<1>5. CASE goal[t] = "extend" \/ new[t] = 0
  BY <1>1, <1>3, <1>4, <1>5, ClaimLinks
<1>6. CASE goal[t] = "head" /\ new[t] # 0
  <2>1. arg[t] = 0
    BY <1>1, <1>6 DEF Typed, Calls, CallOK
  <2>2. start'[f] = new[t]
    BY <1>4, <1>6
  <2>3. <<"start", f>> \in Places /\ At(<<"start", f>>)' = new[t]
    BY <1>1, <2>2, PlaceKinds, PlaceValues
  <2> QED BY <1>1, <1>3, <1>4, <1>6, <2>1, <2>3, ClaimBegins
<1> QED BY <1>1, <1>5, <1>6

\* What Made leaves at the places of t and of the inodes.
LEMMA MadePlaces ==
  ASSUME Typed, NEW t \in Threads, NEW s, Made(t, s), NEW f, f = file[t]
  PROVE  /\ Building(t)' \notin Data /\ Freeing(t)' \notin Data /\ Waiting(t)' \notin Data
         /\ \A g \in Files : clst'[g] = clst[g]
         /\ \A g \in Files \ {f} : start'[g] \in {0, start[g]}
         /\ f \in Files => start'[f] \in {0, s}
<1>1. pc'[t] = "add"
  BY AfterCalls DEF Made
<1>2. Building(t)' \notin Data /\ Freeing(t)' \notin Data /\ Waiting(t)' \notin Data
  BY <1>1, NoPlaces
<1> QED BY <1>2 DEF Made, Zero

\* The data of a new inode: the chain grows in the hands of fat_allocate, and
\* goes to the inode when it is complete, or to fat_remove_chain.
LEMMA ClaimDataOwned ==
  ASSUME Typed, NoSharing, NoDangling, NEW t \in Threads, Step(t), ClaimData(t)
  PROVE  NoSharing' /\ NoDangling'
<1>0. PICK f : f = file[t]
  OBVIOUS
<1>s. PICK s : s = IF arg[t] = 0 THEN new[t] ELSE first[t]
  OBVIOUS
<1>1. /\ pc[t] = "claim" /\ goal[t] = "data" /\ fat_create_chain(t)
      /\ f \in Files /\ rest[t] = EOChain
      /\ arg[t] = 0 => first[t] = 0
  BY <1>0 DEF ClaimData, Typed, Calls, CallOK, InCall
<1>2. 0 \notin Data /\ EOChain \notin Data
  BY ClusterSets
<1>3. Building(t) = first[t] /\ Freeing(t) = 0 /\ Waiting(t) = 0
  BY <1>1 DEF Building, Freeing, Waiting
<1> DEFINE B == <<"building", t>>
           S == <<"start", f>>
           F == <<"freeing", t>>
           W == <<"waiting", t>>
<1>4. /\ B \in Places /\ S \in Places /\ F \in Places /\ W \in Places
      /\ B # S /\ B # F /\ B # W /\ F # W /\ F # S
  BY <1>1, PlaceKinds
<1>5. CASE /\ \E n : Ask(t, "data", n, new[t], s)
           /\ UNCHANGED inodeVars
  <2>1. Building(t)' = s /\ Freeing(t)' \notin Data /\ Waiting(t)' \notin Data
    BY <1>2, <1>5, AfterCalls DEF Building, Freeing, Waiting
  <2>2. clst' = clst /\ start' = start
    BY <1>5 DEF inodeVars
  <2>3. CASE arg[t] = 0 /\ new[t] # 0
    <3>1. At(B)' = new[t]
      BY <1>s, <2>1, <2>3, PlaceValues
    <3> QED BY <1>1, <1>4, <2>1, <2>2, <2>3, <3>1, ClaimBegins
  <2>4. CASE arg[t] # 0 \/ new[t] = 0
    <3>1. Building(t)' \in Data => Building(t)' = Building(t)
      BY <1>2, <1>3, <1>s, <2>1, <2>4
    <3> QED BY <1>1, <2>1, <2>2, <3>1, ClaimLinks
  <2> QED BY <2>3, <2>4
<1>6. CASE Fail(t)
  <2>1. \A g \in Files : clst'[g] \in {0, clst[g]} /\ start'[g] \in {0, start[g]}
    BY <1>6 DEF Fail, Forget, Typed, FieldTypes
  <2>2. pc'[t] \in {"idle", "panic"}
    BY <1>6, AfterCalls DEF Fail
  <2>3. Building(t)' \notin Data /\ Freeing(t)' \notin Data /\ Waiting(t)' \notin Data
    BY <2>2, NoPlaces
  <2> QED BY <1>1, <2>1, <2>3, ClaimLinks
<1>7. CASE Made(t, s)
  <2>1. /\ Building(t)' \notin Data /\ Freeing(t)' \notin Data /\ Waiting(t)' \notin Data
        /\ \A g \in Files : clst'[g] = clst[g]
        /\ \A g \in Files \ {f} : start'[g] \in {0, start[g]}
        /\ start'[f] \in {0, s}
    BY <1>0, <1>1, <1>7, MadePlaces
  <2>2. CASE start'[f] = 0 \/ s = 0
    BY <1>1, <2>1, <2>2, ClaimLinks
  <2>3. CASE start'[f] = s /\ s # 0 /\ arg[t] = 0
    <3>1. At(S)' = new[t] /\ new[t] # 0
      BY <1>s, <2>3, PlaceValues
    <3> QED BY <1>1, <1>2, <1>4, <2>1, <2>3, <3>1, ClaimBegins
  <2>4. CASE start'[f] = s /\ s # 0 /\ arg[t] # 0
    <3>1. At(B) = s /\ At(S)' = s
      BY <1>3, <1>s, <2>4, PlaceValues
    <3>2. CASE \A c \in Cluster : fat'[c] \in Data => fat'[c] = fat[c]
      <4>1. Keeps({S})
        BY <1>2, <2>1, <3>2, KeepsStep
      <4>2. At(B)' \notin Data /\ At(F)' \notin Data
        BY <2>1, PlaceValues
      <4> HIDE DEF B, S, F, W
      <4>3. \A p \in Places : At(p)' \in Data =>
              \/ p = S /\ At(p)' = At(B)
              \/ p = F /\ At(p)' = At(F)
              \/ p \notin {B, F} /\ At(p)' = At(p)
        BY <3>1, <4>1, <4>2, KeepsPlaces
      <4>4. \A c \in Data : ~(fat[c] # 0 /\ fat'[c] = 0)
        BY <1>1, ClaimPlaces
      <4> QED BY <1>4, <4>3, <4>4, Moves
    <3>3. ASSUME NEW e \in Cluster, new[t] # 0, fat'[e] = new[t],
                 \A c \in Cluster \ {e} : fat'[c] \in Data => fat'[c] = fat[c]
          PROVE  NoSharing' /\ NoDangling'
      <4> DEFINE P0 == <<"fat", e>>
      <4>1. Keeps({S, P0})
        BY <1>2, <2>1, <3>3, KeepsStep
      <4>2. At(B)' \notin Data /\ At(P0)' = new[t]
        BY <2>1, <3>3, PlaceValues
      <4>n. PICK n : n = new[t]
        OBVIOUS
      <4>3. fat[n] = 0 /\ fat'[n] # 0 /\ \A c \in Data : fat[c] # 0 => fat'[c] # 0
        BY <1>1, <3>3, <4>n, ClaimPlaces
      <4> HIDE DEF B, S, F, W, P0
      <4>4. \A p \in Places : At(p)' \in Data =>
              \/ p = P0
              \/ p = S /\ At(p)' = At(B)
              \/ p # B /\ At(p)' = At(p)
        BY <3>1, <4>1, <4>2, KeepsPlaces
      <4> QED BY <1>4, <4>2, <4>3, <4>4, <4>n, NewAndMoved
    <3> QED BY <1>1, <3>2, <3>3, ClaimPlaces
  <2> QED BY <2>1, <2>2, <2>3, <2>4
<1>8. CASE /\ new[t] = 0
           /\ GoTo(t, "release")
           /\ rel' = [rel EXCEPT ![t] = s]
           /\ UNCHANGED <<inodeVars, first, rest>>
  <2>1. fat' = fat
    BY <1>1, <1>8 DEF fat_create_chain, fatVars
  <2>2. Building(t)' = 0 /\ Freeing(t)' = s /\ Waiting(t)' = EOChain
    BY <1>1, <1>8, AfterCalls DEF Building, Freeing, Waiting, Typed, FieldTypes
  <2>3. Keeps({F})
    BY <1>2, <1>8, <2>1, <2>2, KeepsStep DEF inodeVars
  <2>4. s \in Data => At(B) = s
    BY <1>2, <1>3, <1>8, <1>s, PlaceValues
  <2>5. At(B)' \notin Data /\ At(W)' \notin Data /\ At(F)' = s
    BY <1>2, <2>2, PlaceValues
  <2> HIDE DEF B, S, F, W
  <2>6. \A p \in Places : At(p)' \in Data =>
          \/ p = F /\ At(p)' = At(B)
          \/ p = W /\ At(p)' = At(W)
          \/ p \notin {B, W} /\ At(p)' = At(p)
    BY <2>3, <2>4, <2>5, KeepsPlaces
  <2>7. \A c \in Data : ~(fat[c] # 0 /\ fat'[c] = 0)
    BY <2>1
  <2> QED BY <1>4, <2>6, <2>7, Moves
<1> QED BY <1>s, <1>5, <1>6, <1>7, <1>8 DEF ClaimData

\* Every step keeps ownership.
LEMMA OwnedStep ==
  ASSUME Typed, NoSharing, NoDangling, [Next]_vars
  PROVE  NoSharing' /\ NoDangling'
<1>1. CASE UNCHANGED vars
  <2>1. Keeps({}) /\ fat' = fat
    BY <1>1 DEF vars, Keeps, Building, Freeing, Waiting
  <2> QED BY <2>1, NothingNew
<1>2. CASE Reboot
  BY <1>2, RebootOwned
<1>3. ASSUME NEW t \in Threads, Step(t) PROVE NoSharing' /\ NoDangling'
  <2>1. CASE Continue(t)
    BY <1>3, <2>1, MiddleOwned, ClaimInodeOwned, ClaimDataOwned, ClaimDirOwned,
       ClaimWriteOwned, RemoveOwned, ResetOwned, ReleasedOwned DEF Continue
  <2>2. CASE ~Continue(t)
    BY <1>3, <2>2, BeginOwned, ReleaseOwned DEF Step
  <2> QED BY <2>1, <2>2
<1> QED BY <1>1, <1>2, <1>3 DEF Next

-----------------------------------------------------------------------------
(* The theorems.  All of them are about behaviours in which sys_mkdir does *)
(* not run beside another call that allocates.                             *)

IInv == Typed /\ NoSharing /\ NoDangling /\ LastInv

\* The invariant the others follow from: the locals of a call in progress and
\* the entries of the table fit together, and every cluster has one owner.
LEMMA IInvCorrect ==
  ASSUME Exclusive
  PROVE  Spec => []IInv
<1>1. Init => IInv
  BY TypedInit, OwnedInit, LastInit DEF IInv
<1>2. IInv /\ [Next]_vars => IInv'
  BY TypedStep, OwnedStep, LastStep DEF IInv
<1> QED BY <1>1, <1>2, PTL DEF Spec

\* find_free_cluster and the claim of what it found are two steps, and
\* sys_close frees chains between them without filesys_lock; still no cluster
\* ever belongs to two files, chains or calls.
THEOREM ClustersNotShared ==
  ASSUME Exclusive
  PROVE  Spec => []NoSharing
<1>1. IInv => NoSharing
  BY DEF IInv
<1> QED BY <1>1, IInvCorrect, PTL

\* No cluster that a file, a chain or a call names is marked free, whatever
\* chains are given back at the time.
THEOREM NoNamedClusterFree ==
  ASSUME Exclusive
  PROVE  Spec => []NoDangling
<1>1. IInv => NoDangling
  BY DEF IInv
<1> QED BY <1>1, IInvCorrect, PTL

\* The cluster at which the next search begins is allocated, but between the two
\* steps of a turn of fat_remove_chain: no other thread's calls make it stay free.
THEOREM LastClusterAllocated ==
  ASSUME Exclusive
  PROVE  Spec => []LastAllocated
<1>1. IInv => LastAllocated
  BY DEF IInv, LastInv
<1> QED BY <1>1, IInvCorrect, PTL

\* find_free_cluster does not look at last_clst, and fails only when every entry
\* is in use or was cleared by a fat_remove_chain still in the same turn.
THEOREM SearchComplete ==
  ASSUME Exclusive
  PROVE  Spec => FullOnlyWhenFull
<1> DEFINE Full == \A t \in Threads :
                     pc[t] = "find" /\ pc'[t] = "claim" /\ new'[t] = 0
                       => \A c \in 2 .. fat_length - 1 : ~FreeForLong(c)
<1>1. IInv /\ [Next]_vars => [Full]_vars
  BY FullStep DEF IInv, LastInv
<1> QED BY <1>1, IInvCorrect, PTL DEF Spec, FullOnlyWhenFull

\* Chains of files in use change only at their end: fat_create_chain appends
\* to the last cluster, and an entry is cleared only by the thread that gives
\* its chain back.
THEOREM ChainsAppendOnly ==
  ASSUME Exclusive
  PROVE  Spec => AppendOnly
<1> DEFINE Append ==
      \A c \in Data : fat'[c] # fat[c] =>
        \/ fat[c] = 0 /\ fat'[c] = EOChain
        \/ fat[c] = EOChain /\ fat'[c] \in Data /\ fat[fat'[c]] = 0
        \/ fat'[c] = 0 /\ \E t \in Threads : Freeing(t) = c
<1>1. IInv /\ [Next]_vars => [Append]_vars
  BY AppendStep DEF IInv
<1> QED BY <1>1, IInvCorrect, PTL DEF Spec, AppendOnly

=============================================================================
